------------------------------ MODULE Sandbox ------------------------------
(***************************************************************************)
(* The script sandbox of one run (sandbox.py, sandbox_worker.py): the      *)
(* solver thread, which runs the Script blocks' steps, the watchdog        *)
(* thread, and the worker process at the other end of a socket.  A script  *)
(* may hang, and the worker may stop, at any time.  The values a step      *)
(* computes are left out, but for the parameters it computes them from.    *)
(***************************************************************************)
EXTENDS Integers, Sequences

CONSTANTS
  Scripts,   (* The Script blocks of the model.                           *)
  ParamSets, (* Values of a block's parameters; live edits change them.   *)
  AtBuild,   (* Those at the start of the run.                            *)
  MaxScriptSteps (* Bound: steps of scripts in a run.                     *)

ASSUME SandboxAssumption ==
    AtBuild \in ParamSets /\ MaxScriptSteps \in Nat /\ Scripts # {}

VARIABLES
  thread,    \* the solver thread's place
  inRun,     \* block and parameters of its last run()
  snapshots, \* _param_snapshots
  dead, timedOut, stop, \* _dead, _timed_out, _watch_stop
  deadline,  \* the step whose deadline is set, 0 when None
  sent,      \* steps sent, numbered from 1
  passed,    \* the deadlines of the steps up to this one have passed
  watchdog, dl, \* the watchdog's place, and the deadline it has read
  worker,    \* "none", "starting", "idle", "busy" or "gone"
  job,       \* the request the worker is busy with
  held,      \* the parameters it holds, by block
  requests, reply, \* on the socket
  sockOpen   \* the engine's end of the socket

flags == <<dead, timedOut, stop>>
clock == <<deadline, sent, passed>>
watcher == <<watchdog, dl>>
process == <<worker, job, held>>
socket == <<requests, reply, sockOpen>>
caller == <<inRun, snapshots>>
sandboxVars == <<thread, caller, flags, clock, watcher, process, socket>>

NoReply == [kind |-> "none"]
Compile == [kind |-> "init"]
QuitWorker == [kind |-> "quit"]

-----------------------------------------------------------------------------
(* The solver thread: __init__, run, close.                                 *)

\* _kill: the worker's end is awaited, then the socket is closed.
Kill ==
    /\ dead' = TRUE /\ stop' = TRUE /\ worker' = "gone" /\ sockOpen' = FALSE
    /\ UNCHANGED <<timedOut, job, held, requests, reply>>

StartSandbox ==
    /\ thread = "none" /\ thread' = "init"
    /\ worker' = "starting" /\ requests' = <<Compile>>
    /\ UNCHANGED <<caller, flags, clock, watcher, job, held, reply, sockOpen>>

\* Once every script compiled, the watchdog starts; a bad one ends the run.
InitAnswered ==
    /\ thread = "init" /\ reply # NoReply
    /\ \/ /\ reply.kind = "ok" /\ thread' = "build" /\ watchdog' = "look"
          /\ reply' = NoReply /\ UNCHANGED <<flags, process, requests, sockOpen>>
       \/ /\ reply.kind = "err" /\ thread' = "ended" /\ Kill
          /\ UNCHANGED watchdog
    /\ UNCHANGED <<caller, clock, dl>>

\* The time for the answer is over, or the worker is gone.
InitFails ==
    /\ thread = "init" /\ reply = NoReply
    /\ thread' = "ended" /\ Kill
    /\ UNCHANGED <<caller, clock, watcher>>

\* The rest of the model.  An error in it leaves the sandbox as it is: the
\* run's clean-up covers a model that is built.
BuildModel ==
    /\ thread = "build" /\ thread' \in {"free", "abandoned"}
    /\ UNCHANGED <<caller, flags, clock, watcher, process, socket>>

\* run: parameters edited since this block's last step go first.
MutantIsEdited(b, p) == p # inRun.params
IsEdited(b, p) == p # snapshots[b]

RunScript(b, p) ==
    /\ thread = "free" /\ sent < MaxScriptSteps
    /\ inRun' = [block |-> b, params |-> p]
    /\ \/ dead /\ thread' = "failed" /\ UNCHANGED snapshots
       \/ ~dead /\ ~IsEdited(b, p) /\ thread' = "send" /\ UNCHANGED snapshots
       \/ ~dead /\ IsEdited(b, p) /\ thread' = "param" /\ snapshots' = [snapshots EXCEPT ![b] = p]
    /\ UNCHANGED <<flags, clock, watcher, process, socket>>

\* What goes to a worker that is gone may still be taken by the socket.
Send(request) == sockOpen /\ requests' = Append(requests, request)
SendFails == ~sockOpen \/ worker = "gone"

SendParam ==
    /\ thread = "param"
    /\ \/ /\ thread' = "send"
          /\ Send([kind |-> "param", block |-> inRun.block, params |-> inRun.params])
          /\ UNCHANGED <<flags, process, reply, sockOpen>>
       \/ SendFails /\ thread' = "failed" /\ Kill
    /\ UNCHANGED <<caller, clock, watcher>>

MutantSetDeadline == UNCHANGED deadline
SetDeadline == deadline' = sent + 1
SendStep ==
    /\ thread = "send" /\ sent' = sent + 1 /\ SetDeadline
    /\ \/ thread' = "waiting" /\ Send([kind |-> "step", block |-> inRun.block, step |-> sent'])
       \/ SendFails /\ thread' = "lost" /\ UNCHANGED requests
    /\ UNCHANGED <<caller, flags, passed, watcher, process, reply, sockOpen>>

StepAnswered ==
    /\ thread = "waiting" /\ sockOpen /\ reply # NoReply
    /\ thread' = IF reply.kind = "ok" THEN "free" ELSE "failed"
    /\ reply' = NoReply /\ deadline' = 0
    /\ UNCHANGED <<caller, flags, sent, passed, watcher, process, requests, sockOpen>>

\* recv ends with an error; the handler looks who ended it.
RecvFails ==
    /\ thread = "waiting" /\ (~sockOpen \/ (worker = "gone" /\ reply = NoReply))
    /\ thread' = "lost"
    /\ UNCHANGED <<caller, flags, clock, watcher, process, socket>>

StepLost ==
    /\ thread = "lost" /\ thread' = "failed" /\ deadline' = 0
    /\ \/ timedOut /\ UNCHANGED <<flags, process, socket>>
       \/ ~timedOut /\ Kill
    /\ UNCHANGED <<caller, sent, passed, watcher>>

\* simulate's finally: the run is over, was cancelled, or a step failed.
Close ==
    /\ thread \in {"free", "failed"} /\ stop' = TRUE
    /\ \/ dead /\ thread' = "ended" /\ UNCHANGED requests
       \/ ~dead /\ thread' = "join" /\ Send(QuitWorker)
       \/ ~dead /\ thread' = "join" /\ SendFails /\ UNCHANGED requests
    /\ UNCHANGED <<caller, dead, timedOut, clock, watcher, process, reply, sockOpen>>

Joined ==
    /\ thread = "join" /\ worker = "gone" /\ thread' = "ended"
    /\ dead' = TRUE /\ sockOpen' = FALSE
    /\ UNCHANGED <<caller, timedOut, stop, clock, watcher, process, requests, reply>>

JoinTimesOut ==
    /\ thread = "join" /\ worker # "gone" /\ thread' = "ended" /\ Kill
    /\ UNCHANGED <<caller, clock, watcher>>

-----------------------------------------------------------------------------
(* The watchdog, and the time it looks at.                                  *)

DeadlinePasses ==
    /\ passed < sent /\ passed' = passed + 1
    /\ UNCHANGED <<thread, caller, flags, deadline, sent, watcher, process, socket>>

ReadDeadline ==
    /\ watchdog = "look"
    /\ \/ stop /\ watchdog' = "off" /\ UNCHANGED dl
       \/ ~stop /\ deadline # 0 /\ watchdog' = "compare" /\ dl' = deadline
    /\ UNCHANGED <<thread, caller, flags, clock, process, socket>>

Compare ==
    /\ watchdog = "compare"
    /\ watchdog' = IF ~dead /\ passed >= dl THEN "overrun" ELSE "look"
    /\ UNCHANGED <<thread, caller, flags, clock, dl, process, socket>>

\* The step may have been answered by now: its worker is killed all the same.
Overrun ==
    /\ watchdog = "overrun" /\ watchdog' = "kill" /\ timedOut' = TRUE
    /\ UNCHANGED <<thread, caller, dead, stop, clock, dl, process, socket>>

KillBegins ==
    /\ watchdog = "kill" /\ watchdog' = "killing" /\ dead' = TRUE /\ stop' = TRUE
    /\ UNCHANGED <<thread, caller, timedOut, clock, dl, process, socket>>

KillEnds ==
    /\ watchdog = "killing" /\ watchdog' = "off" /\ Kill
    /\ UNCHANGED <<thread, caller, clock, dl>>

-----------------------------------------------------------------------------
(* The worker: worker_main.                                                 *)

WorkerStarts ==
    /\ worker = "starting" /\ worker' = "idle"
    /\ UNCHANGED <<thread, caller, flags, clock, watcher, job, held, socket>>

Receive ==
    /\ worker = "idle" /\ requests # <<>>
    /\ LET request == Head(requests) IN
         /\ requests' = Tail(requests)
         /\ CASE request.kind \in {"init", "step"} ->
                   worker' = "busy" /\ job' = request /\ UNCHANGED held
              [] request.kind = "param" ->
                   held' = [held EXCEPT ![request.block] = request.params]
                   /\ UNCHANGED <<worker, job>>
              [] request.kind = "quit" -> worker' = "gone" /\ UNCHANGED <<job, held>>
    /\ UNCHANGED <<thread, caller, flags, clock, watcher, reply, sockOpen>>

\* A script's step uses the parameters held; it may fail, or never end.
WorkerAnswers ==
    /\ worker = "busy" /\ worker' = "idle"
    /\ \E kind \in {"ok", "err"} :
         reply' = IF job = Compile \/ kind = "err" THEN [kind |-> kind]
                  ELSE [kind |-> kind, step |-> job.step, block |-> job.block,
                        params |-> held[job.block]]
    /\ UNCHANGED <<thread, caller, flags, clock, watcher, job, held, requests, sockOpen>>

\* Its memory limit, an error it does not catch, or the system ends it.
WorkerStops ==
    /\ worker \in {"starting", "idle", "busy"} /\ worker' = "gone"
    /\ UNCHANGED <<thread, caller, flags, clock, watcher, job, held, socket>>

SandboxInit ==
    /\ thread = "none" /\ snapshots = [b \in Scripts |-> AtBuild]
    /\ inRun = [block |-> CHOOSE b \in Scripts : TRUE, params |-> AtBuild]
    /\ dead = FALSE /\ timedOut = FALSE /\ stop = FALSE
    /\ deadline = 0 /\ sent = 0 /\ passed = 0
    /\ watchdog = "off" /\ dl = 0
    /\ worker = "none" /\ job = Compile /\ held = snapshots
    /\ requests = <<>> /\ reply = NoReply /\ sockOpen = TRUE

SolverStep ==
    \/ StartSandbox \/ InitAnswered \/ InitFails \/ BuildModel
    \/ SendParam \/ SendStep \/ StepAnswered \/ RecvFails \/ StepLost
    \/ Close \/ Joined \/ JoinTimesOut
WatchdogStep == ReadDeadline \/ Compare \/ Overrun \/ KillBegins \/ KillEnds
SandboxNext ==
    \/ SolverStep \/ WatchdogStep \/ DeadlinePasses
    \/ \E b \in Scripts, p \in ParamSets : RunScript(b, p)
    \/ WorkerStarts \/ Receive \/ WorkerAnswers \/ WorkerStops

SandboxSpec == SandboxInit /\ [][SandboxNext]_sandboxVars

-----------------------------------------------------------------------------
\* Outputs a step returns are the worker's answer to that very step of that
\* block, computed with the parameters the engine has for it: an edit arrives
\* before the step, and no answer is taken for another step's.
OutputsAreOfTheStep ==
    [][thread = "waiting" /\ thread' = "free" =>
         reply = [kind |-> "ok", step |-> sent, block |-> inRun.block,
                  params |-> inRun.params]]_sandboxVars

\* A run with scripts ends, and its worker is gone, whatever the scripts and
\* the worker do, but for a model that could not be built after the sandbox.
ScriptsEnd ==
    thread = "init" ~> \/ thread = "abandoned"
                       \/ thread = "ended" /\ worker = "gone"
=============================================================================
