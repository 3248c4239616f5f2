----------------------------- MODULE DataChecks -----------------------------
(***************************************************************************)
(* The data checks of the model on screen (projectStore.ts, the Data       *)
(* Checks panel): asked for by hand, by the gate before a run, and again   *)
(* by themselves some time after an edit of a model that was checked.      *)
(* The engine answers late, in any order, or fails.  A model is told apart *)
(* by the edit that made it; what the checks say is left out, but for      *)
(* whether the gate lets the run start.                                    *)
(***************************************************************************)
EXTENDS Naturals, FiniteSets

CONSTANTS
  MaxModels,  (* Bound: models, over all edits and all projects opened.   *)
  MaxAsked,   (* Bound: checks and runs asked for.                        *)
  MaxUndos    (* Bound: edits taken back.                                 *)

ASSUME ChecksAssumption == {MaxModels, MaxAsked, MaxUndos} \subseteq Nat

VARIABLES
  open,          \* the model on screen
  first,         \* the first model of its project
  dataChecks,    \* the model the checks shown are of, 0 for none
  checking,      \* a check asked for by hand is under way
  running,       \* no run ("no"), its gate asks ("gate"), or it runs ("yes")
  calls,         \* requests under way: what they are for, and of which model
  recheckTimer,  \* a re-check is due
  unreachable,   \* the last re-check failed: nothing asks again
  made, askedFor, undone  \* counters for the bounds

recheckVars == <<dataChecks, recheckTimer, unreachable>>
checksBounds == <<made, askedFor, undone>>
checksVars == <<open, first, checking, running, calls, recheckVars, checksBounds>>

\* subscribe: an edit of a model that has checks.
ModelChanged ==
    IF dataChecks # 0 THEN recheckTimer' = TRUE /\ unreachable' = FALSE
    ELSE UNCHANGED <<recheckTimer, unreachable>>

EditModel ==
    /\ made < MaxModels /\ made' = made + 1
    /\ open' = made + 1
    /\ ModelChanged
    /\ UNCHANGED <<first, dataChecks, checking, running, calls, askedFor, undone>>

\* Undo puts the earlier model itself back.
UndoEdit ==
    /\ undone < MaxUndos /\ undone' = undone + 1
    /\ open' \in (first..made) \ {open}
    /\ ModelChanged
    /\ UNCHANGED <<first, dataChecks, checking, running, calls, made, askedFor>>

\* newProject, openProject, openExample, importJSON, restoreBackup: no checks
\* yet; what is under way or due for the model before stays so.
OpenOther ==
    /\ made < MaxModels /\ made' = made + 1
    /\ open' = made + 1 /\ first' = made + 1
    /\ dataChecks' = 0
    /\ UNCHANGED <<checking, running, calls, recheckTimer, unreachable, askedFor, undone>>

\* The button is disabled while a check asked for is under way.
RunDataChecks ==
    /\ ~checking /\ checking' = TRUE
    /\ askedFor < MaxAsked /\ askedFor' = askedFor + 1
    /\ calls' = calls \cup {<<"check", open>>}
    /\ UNCHANGED <<open, first, running, recheckVars, made, undone>>

\* run, runSweep
StartRun ==
    /\ running = "no" /\ running' = "gate"
    /\ askedFor < MaxAsked /\ askedFor' = askedFor + 1
    /\ calls' = calls \cup {<<"gate", open>>}
    /\ UNCHANGED <<open, first, checking, recheckVars, made, undone>>

RunEnds ==
    /\ running = "yes" /\ running' = "no"
    /\ UNCHANGED <<open, first, checking, calls, recheckVars, checksBounds>>

\* recheck: it waits for a run to end, and does nothing without checks.
Recheck ==
    /\ recheckTimer /\ (dataChecks = 0 \/ running = "no")
    /\ recheckTimer' = FALSE
    /\ calls' = IF dataChecks = 0 THEN calls ELSE calls \cup {<<"recheck", open>>}
    /\ UNCHANGED <<open, first, dataChecks, checking, running, unreachable, checksBounds>>

\* The answer to a check asked for, or to the gate: shown, and checked again
\* when the model has changed meanwhile.
MutantShow(model) ==
    /\ dataChecks' = model
    /\ UNCHANGED <<recheckTimer, unreachable>>
Show(model) ==
    /\ dataChecks' = model
    /\ recheckTimer' = (recheckTimer \/ open # model)
    /\ unreachable' = FALSE

Answer(call) ==
    LET kind == call[1]
        model == call[2]
    IN /\ IF kind # "recheck" THEN Show(model)
          ELSE IF open = model
               THEN dataChecks' = model /\ unreachable' = FALSE /\ UNCHANGED recheckTimer
               ELSE UNCHANGED recheckVars
       /\ checking' = (checking /\ kind # "check")
       /\ running' \in IF kind = "gate" THEN {"no", "yes"} ELSE {running}

\* The engine is not reachable, or refuses: the checks stay as they are, and
\* the run starts without its gate.
Fail(call) ==
    LET kind == call[1] IN
    /\ checking' = (checking /\ kind # "check")
    /\ running' = IF kind = "gate" THEN "yes" ELSE running
    /\ unreachable' = (unreachable \/ kind = "recheck")
    /\ UNCHANGED <<dataChecks, recheckTimer>>

CallEnds(call) ==
    /\ calls' = calls \ {call}
    /\ Answer(call) \/ Fail(call)
    /\ UNCHANGED <<open, first, checksBounds>>

ChecksInit ==
    /\ open = 1 /\ first = 1 /\ made = 1
    /\ dataChecks = 0 /\ checking = FALSE /\ running = "no"
    /\ calls = {} /\ recheckTimer = FALSE /\ unreachable = FALSE
    /\ askedFor = 0 /\ undone = 0

ChecksNext ==
    \/ EditModel \/ UndoEdit \/ OpenOther \/ RunDataChecks \/ StartRun \/ RunEnds
    \/ Recheck \/ \E call \in calls : CallEnds(call)

-----------------------------------------------------------------------------
\* "Once the model has been checked, its checks follow it" (projectStore.ts:
\* 1830): when edits cease, the checks shown become those of the model on
\* screen, unless the engine did not answer the last re-check.
ChecksFollow == <>[](dataChecks \in {0, open} \/ unreachable)
=============================================================================
