----------------------------- MODULE RunChannel -----------------------------
(***************************************************************************)
(* What a live run promises the editor, with none of the steps that keep   *)
(* the promise: the recorded steps one by one and in order, then the       *)
(* result, which is of exactly those steps; or the connection is lost.  A  *)
(* result is only called a success if it reaches the last step, and        *)
(* cancelled only if it does not.                                          *)
(***************************************************************************)
EXTENDS Integers, Sequences

CONSTANTS STEPS,   \* the last step of the run
          None     \* no outcome yet

VARIABLES seen,    \* the steps the editor was shown
          outcome  \* how the run ended for the editor, or None

vars == <<seen, outcome>>

Complete == seen # <<>> /\ seen[Len(seen)] = STEPS

Init == seen = <<>> /\ outcome = None

Show ==
    /\ outcome = None
    /\ \E step \in 0..STEPS :
          /\ \A i \in DOMAIN seen : seen[i] < step
          /\ seen' = Append(seen, step)
    /\ UNCHANGED outcome

Finish ==
    /\ outcome = None
    /\ \E status \in {"success", "cancelled", "failed"} :
          /\ status = "success" => Complete
          /\ status = "cancelled" => ~Complete
          /\ outcome' = [status |-> status, points |-> seen]
    /\ UNCHANGED seen

Lose ==
    /\ outcome = None
    /\ outcome' = [status |-> "lost", points |-> <<>>]
    /\ UNCHANGED seen

Next == Show \/ Finish \/ Lose

Spec == Init /\ [][Next]_vars
=============================================================================
