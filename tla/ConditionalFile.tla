--------------------------- MODULE ConditionalFile ---------------------------
(***************************************************************************)
(* What the engine promises about one project file (the documentation of   *)
(* storage.py and PUT /api/projects/{id}), with none of the steps that     *)
(* keep the promise: a compare-and-swap cell.  A save is accepted against  *)
(* the version the file holds at that moment, and may take effect only     *)
(* while the file still holds that version, or is gone.  A failed save, a  *)
(* refused save and a crash leave the file alone.                          *)
(***************************************************************************)
CONSTANTS Writers,      \* requests being served at the same time
          Data,         \* the bytes a project file can hold
          None,         \* no file, no request, no answer
          Request,      \* what a writer can ask for: data and a condition
          Refused(_, _) \* Refused(request, version): the condition fails

VARIABLES file,    \* the version on disk, or None
          call,    \* [Writers -> "none" | "asked" | "accepted" | "committed"]
          request, \* what each writer asks
          base,    \* the version each accepted save was checked against
          answer   \* what the writer was told last

vars == <<file, call, request, base, answer>>

Init ==
    /\ file \in Data \cup {None}
    /\ call = [w \in Writers |-> "none"]
    /\ request = [w \in Writers |-> None]
    /\ base = [w \in Writers |-> None]
    /\ answer = [w \in Writers |-> None]

Ask(w) ==
    /\ call[w] = "none"
    /\ call' = [call EXCEPT ![w] = "asked"]
    /\ \E r \in Request : request' = [request EXCEPT ![w] = r]
    /\ answer' = [answer EXCEPT ![w] = None]
    /\ UNCHANGED <<file, base>>

Accept(w) ==
    /\ call[w] = "asked"
    /\ ~Refused(request[w], file)
    /\ call' = [call EXCEPT ![w] = "accepted"]
    /\ base' = [base EXCEPT ![w] = file]
    /\ UNCHANGED <<file, request, answer>>

End(w, reply) ==
    /\ call' = [call EXCEPT ![w] = "none"]
    /\ request' = [request EXCEPT ![w] = None]
    /\ base' = [base EXCEPT ![w] = None]
    /\ answer' = [answer EXCEPT ![w] = reply]
    /\ UNCHANGED file

Refuse(w) ==
    /\ call[w] = "asked"
    /\ Refused(request[w], file)
    /\ End(w, "conflict")

\* The save takes effect: it replaces the version it was checked against, or
\* recreates a file that was deleted in the meantime.
Commit(w) ==
    /\ call[w] = "accepted"
    /\ file \in {base[w], None}
    /\ file' = request[w].data
    /\ call' = [call EXCEPT ![w] = "committed"]
    /\ UNCHANGED <<request, base, answer>>

Report(w) == call[w] = "committed" /\ End(w, "saved")

Fail(w) == call[w] \in {"asked", "accepted"} /\ End(w, "error")

Delete ==
    /\ file' = None
    /\ UNCHANGED <<call, request, base, answer>>

\* Another program writes the file while no save is between its check and its
\* effect.
WriteElsewhere ==
    /\ \A w \in Writers : call[w] # "accepted"
    /\ file' \in Data
    /\ UNCHANGED <<call, request, base, answer>>

Crash ==
    /\ call' = [w \in Writers |-> "none"]
    /\ request' = [w \in Writers |-> None]
    /\ base' = [w \in Writers |-> None]
    /\ answer' = [w \in Writers |-> None]
    /\ UNCHANGED file

Next ==
    \/ \E w \in Writers :
          \/ Ask(w) \/ Accept(w) \/ Refuse(w)
          \/ Commit(w) \/ Report(w) \/ Fail(w)
    \/ Delete
    \/ WriteElsewhere
    \/ Crash

Spec == Init /\ [][Next]_vars
=============================================================================
