-------------------------- MODULE MCProjectStorage --------------------------
(* Values for checking ProjectStorage with TLC. *)
EXTENDS ProjectStorage

\* Three contents, whose revisions are not in the order of the contents.
MCData == 1..3
MCRevision == <<2, 3, 1>>
=============================================================================
