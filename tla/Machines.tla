------------------------------ MODULE Machines ------------------------------
(***************************************************************************)
(* Six machines that share no state, in one specification: a behaviour is  *)
(* one of them.  In the editor's window: the model and its history         *)
(* (ModelEdits), the data checks (DataChecks), the table editors           *)
(* (TableGrid), what charts draw (Thinning).  Around it: the page in the   *)
(* desktop shell (Desktop), and a run's scripts (Sandbox).                 *)
(***************************************************************************)
EXTENDS ModelEdits, DataChecks, TableGrid, Thinning, Desktop, Sandbox

VARIABLE subject  \* the machine this behaviour is one of

machineVars ==
    <<subject, vars, checksVars, gridVars, thinVars, deskVars, sandboxVars>>

MachinesInit ==
    /\ subject \in {"model", "checks", "grid", "charts", "shell", "scripts"}
    /\ Init /\ ChecksInit /\ SandboxInit
    /\ IF subject = "grid" THEN GridInit
       ELSE GridInit /\ flat
    /\ IF subject = "charts" THEN ThinInit
       ELSE series = {<<Null>>} /\ limit = 1 /\ buckets = 0 /\ drawn = {0}
    /\ DeskInit
    /\ subject # "shell" => to = "own"

EditTheModel ==
    /\ subject = "model" /\ Next
    /\ UNCHANGED <<subject, checksVars, gridVars, thinVars, deskVars, sandboxVars>>
ChecksStep(A) ==
    /\ subject = "checks" /\ A
    /\ UNCHANGED <<subject, vars, gridVars, thinVars, deskVars, sandboxVars>>
EditATable ==
    /\ subject = "grid" /\ GridNext
    /\ UNCHANGED <<subject, vars, checksVars, thinVars, deskVars, sandboxVars>>
DrawACurve ==
    /\ subject = "charts" /\ ThinNext
    /\ UNCHANGED <<subject, vars, checksVars, gridVars, deskVars, sandboxVars>>
UseTheShell ==
    /\ subject = "shell" /\ DeskNext
    /\ UNCHANGED <<subject, vars, checksVars, gridVars, thinVars, sandboxVars>>
ScriptsStep(A) ==
    /\ subject = "scripts" /\ A
    /\ UNCHANGED <<subject, vars, checksVars, gridVars, thinVars, deskVars>>

\* For the checks: timers fire, requests are answered or fail, and runs end.
ChecksFair ==
    /\ WF_machineVars(ChecksStep(Recheck))
    /\ WF_machineVars(ChecksStep(RunEnds))
    /\ WF_machineVars(ChecksStep(\E call \in calls : CallEnds(call)))

\* For the scripts: both threads of the engine run on, and time passes.  The
\* worker has no fairness: a script may never end.
ScriptsFair ==
    /\ WF_machineVars(ScriptsStep(SolverStep))
    /\ WF_machineVars(ScriptsStep(WatchdogStep))
    /\ WF_machineVars(ScriptsStep(DeadlinePasses))

MachinesNext ==
    \/ EditTheModel \/ ChecksStep(ChecksNext) \/ EditATable \/ DrawACurve
    \/ UseTheShell \/ ScriptsStep(SandboxNext)
MachinesSpec == MachinesInit /\ [][MachinesNext]_machineVars /\ ChecksFair /\ ScriptsFair
=============================================================================
