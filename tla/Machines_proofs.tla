--------------------------- MODULE Machines_proofs ---------------------------
(***************************************************************************)
(* Proofs about two of the machines that Machines runs side by side.  The  *)
(* script sandbox, for any blocks, parameters and number of steps,         *)
(* whenever the watchdog or the system ends the worker: what a step        *)
(* returns is the worker's answer to that step, with the parameters the    *)
(* engine has for its block.  The charts, for any number of series of any  *)
(* length, and any limit: no peak is lost.                                 *)
(***************************************************************************)
EXTENDS Sandbox, Thinning, FiniteSetTheorems, SequenceTheorems, WellFoundedInduction, TLAPS

-----------------------------------------------------------------------------
(* The script sandbox.                                                      *)

\* What the solver thread knows of the blocks.
CallerTypeOK ==
    /\ inRun \in [block : Scripts, params : ParamSets]
    /\ snapshots \in [Scripts -> ParamSets]

EditOfRun == [kind |-> "param", block |-> inRun.block, params |-> inRun.params]
StepOfRun == [kind |-> "step", block |-> inRun.block, step |-> sent]
Failure == [kind |-> "err"]
Outputs == [kind |-> "ok", step |-> sent, block |-> inRun.block, params |-> inRun.params]

\* The worker holds the parameters last sent, or all but the edit of this run.
Level == held = snapshots
Behind ==
    /\ held \in [Scripts -> ParamSets]
    /\ snapshots = [held EXCEPT ![inRun.block] = inRun.params]

Quiet == worker \in {"idle", "gone"} /\ reply = NoReply

\* What is between engine and worker, at each place of the solver thread that
\* can still lead to an answer.  A worker may be gone at any of them.
NothingAsked == thread = "none" =>
    worker \in {"none", "gone"} /\ requests = <<>> /\ reply = NoReply /\ Level

Compiling == thread = "init" =>
    /\ Level
    /\ \/ requests = <<Compile>> /\ reply = NoReply /\ worker \in {"starting", "idle", "gone"}
       \/ requests = <<>> /\ reply = NoReply /\ job = Compile /\ worker \in {"busy", "gone"}
       \/ requests = <<>> /\ worker \in {"idle", "gone"}

BetweenSteps == thread \in {"build", "free"} => Quiet /\ requests = <<>> /\ Level

EditDue == thread = "param" => Quiet /\ requests = <<>> /\ Behind

StepDue == thread = "send" =>
    /\ Quiet /\ snapshots[inRun.block] = inRun.params
    /\ \/ requests = <<>> /\ Level
       \/ requests = <<EditOfRun>> /\ Behind

StepAsked == thread = "waiting" =>
    /\ snapshots[inRun.block] = inRun.params
    /\ \/ Quiet /\ requests = <<EditOfRun, StepOfRun>> /\ Behind
       \/ Quiet /\ requests = <<StepOfRun>> /\ Level
       \/ /\ requests = <<>> /\ Level
          /\ job = StepOfRun /\ worker \in {"busy", "gone"} /\ reply = NoReply
       \/ /\ requests = <<>> /\ Level
          /\ worker \in {"idle", "gone"} /\ reply \in {Failure, Outputs}

TalkInv ==
    /\ CallerTypeOK /\ NothingAsked /\ Compiling /\ BetweenSteps
    /\ EditDue /\ StepDue /\ StepAsked

-----------------------------------------------------------------------------
LEMMA InitTalk == SandboxInit => TalkInv
  <1> SUFFICES ASSUME SandboxInit PROVE TalkInv
    OBVIOUS
  <1>1. CallerTypeOK
    BY SandboxAssumption DEF SandboxInit, CallerTypeOK
  <1>2. NothingAsked
    BY DEF SandboxInit, NothingAsked, Level
  <1>3. thread = "none"
    BY DEF SandboxInit
  <1> QED
    BY <1>1, <1>2, <1>3
    DEF TalkInv, Compiling, BetweenSteps, EditDue, StepDue, StepAsked

-----------------------------------------------------------------------------
\* The socket holds two requests at most.
LEMMA TwoRequests ==
    ASSUME NEW a, NEW b
    PROVE  /\ Append(<<a>>, b) = <<a, b>>
           /\ Head(<<a>>) = a /\ Tail(<<a>>) = <<>>
           /\ Head(<<a, b>>) = a /\ Tail(<<a, b>>) = <<b>>
  <1>1. Append(<<a>>, b) = <<a, b>>
    <2> DEFINE s == Append(<<a>>, b)
    <2>1. <<a>> \in Seq({a, b}) /\ <<a, b>> \in Seq({a, b})
      OBVIOUS
    <2>2. s \in Seq({a, b}) /\ Len(s) = 2 /\ s[1] = a /\ s[2] = b
      BY <2>1, AppendProperties
    <2> HIDE DEF s
    <2>3. s = <<a, b>>
      BY <2>2
    <2> QED BY <2>3 DEF s
  <1>2. Head(<<a>>) = a /\ Head(<<a, b>>) = a
    OBVIOUS
  <1>3. Tail(<<a>>) = <<>>
    OBVIOUS
  <1>4. Tail(<<a, b>>) = <<b>>
    OBVIOUS
  <1> QED BY <1>1, <1>2, <1>3, <1>4

-----------------------------------------------------------------------------
(* Kinds of steps.                                                          *)

\* The conversation stands still, but for a worker that may be ended: the
\* watchdog, the clock, the worker's own end.
LEMMA WorkerMayEnd ==
    ASSUME TalkInv,
           UNCHANGED <<thread, inRun, snapshots, sent, job, held, requests, reply>>,
           worker' \in {worker, "gone"}
    PROVE  TalkInv'
  <1>1. CallerTypeOK'
    BY DEF TalkInv, CallerTypeOK
  <1>2. /\ EditOfRun' = EditOfRun /\ StepOfRun' = StepOfRun /\ Outputs' = Outputs
        /\ Level' = Level /\ Behind' = Behind
    BY DEF EditOfRun, StepOfRun, Outputs, Level, Behind
  <1>3. NothingAsked' /\ Compiling'
    BY <1>2 DEF TalkInv, NothingAsked, Compiling
  <1>4. BetweenSteps' /\ EditDue' /\ StepDue'
    BY <1>2 DEF TalkInv, BetweenSteps, EditDue, StepDue, Quiet
  <1>5. StepAsked'
    BY <1>2 DEF TalkInv, StepAsked, Quiet
  <1> QED BY <1>1, <1>3, <1>4, <1>5 DEF TalkInv

\* The solver thread goes where no step is asked any more.
LEMMA NoMoreSteps ==
    ASSUME TalkInv, UNCHANGED <<inRun, snapshots>>,
           thread' \in {"lost", "failed", "join", "ended", "abandoned"}
    PROVE  TalkInv'
  BY DEF TalkInv, CallerTypeOK, NothingAsked, Compiling, BetweenSteps, EditDue,
         StepDue, StepAsked

\* The solver thread goes to one place, of which its part of the invariant tells.
LEMMA GoesOn ==
    ASSUME CallerTypeOK',
           \/ thread' = "init" /\ Compiling'
           \/ thread' \in {"build", "free"} /\ BetweenSteps'
           \/ thread' = "param" /\ EditDue'
           \/ thread' = "send" /\ StepDue'
           \/ thread' = "waiting" /\ StepAsked'
    PROVE  TalkInv'
  BY DEF TalkInv, NothingAsked, Compiling, BetweenSteps, EditDue, StepDue, StepAsked

-----------------------------------------------------------------------------
(* Steps of the solver thread.                                              *)

LEMMA StartTalk == TalkInv /\ StartSandbox => TalkInv'
  <1> SUFFICES ASSUME TalkInv, StartSandbox PROVE TalkInv'
    OBVIOUS
  <1>1. CallerTypeOK'
    BY DEF TalkInv, CallerTypeOK, StartSandbox, caller
  <1>2. thread' = "init" /\ Compiling'
    BY DEF TalkInv, NothingAsked, StartSandbox, Compiling, Level, caller
  <1> QED BY <1>1, <1>2, GoesOn

LEMMA InitAnsweredTalk == TalkInv /\ InitAnswered => TalkInv'
  <1> SUFFICES ASSUME TalkInv, InitAnswered PROVE TalkInv'
    OBVIOUS
  <1>1. CASE thread' = "build"
    <2>1. CallerTypeOK'
      BY DEF TalkInv, CallerTypeOK, InitAnswered, caller
    <2>2. BetweenSteps'
      BY <1>1 DEF TalkInv, Compiling, InitAnswered, BetweenSteps, Quiet, Level, caller, process
    <2> QED BY <1>1, <2>1, <2>2, GoesOn
  <1>2. CASE thread' = "ended"
    BY <1>2, NoMoreSteps DEF InitAnswered, caller
  <1> QED BY <1>1, <1>2 DEF InitAnswered

LEMMA BuildTalk == TalkInv /\ BuildModel => TalkInv'
  <1> SUFFICES ASSUME TalkInv, BuildModel PROVE TalkInv'
    OBVIOUS
  <1>1. CASE thread' = "free"
    <2>1. CallerTypeOK'
      BY DEF TalkInv, CallerTypeOK, BuildModel, caller
    <2>2. BetweenSteps'
      BY DEF TalkInv, BuildModel, BetweenSteps, Quiet, Level, caller, process, socket
    <2> QED BY <1>1, <2>1, <2>2, GoesOn
  <1>2. CASE thread' = "abandoned"
    BY <1>2, NoMoreSteps DEF BuildModel, caller
  <1> QED BY <1>1, <1>2 DEF BuildModel

\* The edit of this run is the one difference it makes.
LEMMA RunTalk ==
    ASSUME TalkInv, NEW b \in Scripts, NEW p \in ParamSets, RunScript(b, p)
    PROVE  TalkInv'
  <1>1. /\ inRun' = [block |-> b, params |-> p]
        /\ inRun'.block = b /\ inRun'.params = p
        /\ inRun' \in [block : Scripts, params : ParamSets]
    BY DEF RunScript
  <1>2. /\ worker \in {"idle", "gone"} /\ reply = NoReply /\ requests = <<>> /\ held = snapshots
        /\ snapshots \in [Scripts -> ParamSets]
    BY DEF TalkInv, BetweenSteps, Quiet, Level, CallerTypeOK, RunScript
  <1>3. worker' = worker /\ reply' = reply /\ requests' = requests /\ held' = held
    BY DEF RunScript, process, socket
  <1>4. CASE thread' = "failed"
    BY <1>1, <1>2, <1>4 DEF RunScript, TalkInv, CallerTypeOK, NothingAsked, Compiling,
                            BetweenSteps, EditDue, StepDue, StepAsked
  <1>5. CASE thread' = "send"
    <2>1. snapshots' = snapshots /\ snapshots[b] = p
      BY <1>5 DEF RunScript, IsEdited
    <2>2. CallerTypeOK'
      BY <1>1, <1>2, <2>1 DEF CallerTypeOK
    <2>3. StepDue'
      BY <1>1, <1>2, <1>3, <2>1 DEF StepDue, Quiet, Level
    <2> QED BY <1>5, <2>2, <2>3, GoesOn
  <1>6. CASE thread' = "param"
    <2>1. snapshots' = [snapshots EXCEPT ![b] = p]
      BY <1>6 DEF RunScript
    <2>2. CallerTypeOK'
      BY <1>1, <1>2, <2>1 DEF CallerTypeOK
    <2>3. EditDue'
      BY <1>1, <1>2, <1>3, <2>1 DEF EditDue, Quiet, Behind
    <2> QED BY <1>6, <2>2, <2>3, GoesOn
  <1> QED BY <1>4, <1>5, <1>6 DEF RunScript

LEMMA SendParamTalk == TalkInv /\ SendParam => TalkInv'
  <1> SUFFICES ASSUME TalkInv, SendParam PROVE TalkInv'
    OBVIOUS
  <1>1. CASE thread' = "send"
    <2>1. CallerTypeOK /\ Quiet /\ requests = <<>> /\ Behind
      BY DEF TalkInv, EditDue, SendParam
    <2>2. /\ UNCHANGED <<inRun, snapshots, worker, held, reply>>
          /\ requests' = <<EditOfRun>>
      BY <1>1, <2>1 DEF SendParam, Send, EditOfRun, caller, process
    <2>3. snapshots[inRun.block] = inRun.params
      BY <2>1 DEF Behind, CallerTypeOK
    <2>4. CallerTypeOK' /\ Behind' /\ Quiet' /\ EditOfRun' = EditOfRun
      BY <2>1, <2>2 DEF CallerTypeOK, Behind, Quiet, EditOfRun
    <2>5. StepDue'
      BY <2>2, <2>3, <2>4 DEF StepDue
    <2> QED BY <1>1, <2>4, <2>5, GoesOn
  <1>2. CASE thread' = "failed"
    BY <1>2, NoMoreSteps DEF SendParam, caller
  <1> QED BY <1>1, <1>2 DEF SendParam

LEMMA SendStepTalk == TalkInv /\ SendStep => TalkInv'
  <1> SUFFICES ASSUME TalkInv, SendStep PROVE TalkInv'
    OBVIOUS
  <1>1. CASE thread' = "waiting"
    <2>1. CallerTypeOK /\ Quiet /\ snapshots[inRun.block] = inRun.params
      BY DEF TalkInv, StepDue, SendStep
    <2>2. /\ UNCHANGED <<inRun, snapshots, worker, held, reply>>
          /\ requests' = Append(requests, StepOfRun')
      BY <1>1 DEF SendStep, Send, StepOfRun, caller, process
    <2>3. CallerTypeOK' /\ Quiet' /\ Level' = Level /\ Behind' = Behind /\ EditOfRun' = EditOfRun
      BY <2>1, <2>2 DEF CallerTypeOK, Quiet, Level, Behind, EditOfRun
    <2>4. CASE requests = <<>> /\ Level
      <3>1. requests' = <<StepOfRun'>>
        BY <2>2, <2>4
      <3>2. StepAsked'
        BY <2>1, <2>2, <2>3, <2>4, <3>1 DEF StepAsked
      <3> QED BY <1>1, <2>3, <3>2, GoesOn
    <2>5. CASE requests = <<EditOfRun>> /\ Behind
      <3>1. requests' = <<EditOfRun', StepOfRun'>>
        BY <2>2, <2>3, <2>5, TwoRequests
      <3>2. StepAsked'
        BY <2>1, <2>2, <2>3, <2>5, <3>1 DEF StepAsked
      <3> QED BY <1>1, <2>3, <3>2, GoesOn
    <2> QED BY <2>4, <2>5 DEF TalkInv, StepDue, SendStep
  <1>2. CASE thread' = "lost"
    BY <1>2, NoMoreSteps DEF SendStep, caller
  <1> QED BY <1>1, <1>2 DEF SendStep

\* The answer is all there is: nothing else is on its way.
LEMMA AnsweredTalk == TalkInv /\ StepAnswered => TalkInv'
  <1> SUFFICES ASSUME TalkInv, StepAnswered PROVE TalkInv'
    OBVIOUS
  <1>1. CASE thread' = "free"
    <2>1. requests = <<>> /\ Level /\ worker \in {"idle", "gone"}
      BY DEF TalkInv, StepAsked, Quiet, StepAnswered
    <2>2. CallerTypeOK'
      BY DEF TalkInv, CallerTypeOK, StepAnswered, caller
    <2>3. BetweenSteps'
      BY <2>1 DEF StepAnswered, BetweenSteps, Quiet, Level, caller, process
    <2> QED BY <1>1, <2>2, <2>3, GoesOn
  <1>2. CASE thread' = "failed"
    BY <1>2, NoMoreSteps DEF StepAnswered, caller
  <1> QED BY <1>1, <1>2 DEF StepAnswered

LEMMA SolverTalk == TalkInv /\ SolverStep => TalkInv'
  <1> SUFFICES ASSUME TalkInv, SolverStep PROVE TalkInv'
    OBVIOUS
  <1>1. CASE InitFails
    BY <1>1, NoMoreSteps DEF InitFails, caller
  <1>2. CASE RecvFails
    BY <1>2, NoMoreSteps DEF RecvFails, caller
  <1>3. CASE StepLost
    BY <1>3, NoMoreSteps DEF StepLost, caller
  <1>4. CASE Close
    BY <1>4, NoMoreSteps DEF Close, caller
  <1>5. CASE Joined \/ JoinTimesOut
    BY <1>5, NoMoreSteps DEF Joined, JoinTimesOut, caller
  <1> QED
    BY <1>1, <1>2, <1>3, <1>4, <1>5, StartTalk, InitAnsweredTalk, BuildTalk,
       SendParamTalk, SendStepTalk, AnsweredTalk
    DEF SolverStep

-----------------------------------------------------------------------------
(* Steps of the worker.                                                     *)

LEMMA StartsTalk == TalkInv /\ WorkerStarts => TalkInv'
  <1> SUFFICES ASSUME TalkInv, WorkerStarts PROVE TalkInv'
    OBVIOUS
  <1>1. CallerTypeOK'
    BY DEF TalkInv, CallerTypeOK, WorkerStarts, caller
  <1>2. CASE thread = "init"
    BY <1>1, <1>2, GoesOn DEF TalkInv, Compiling, WorkerStarts, Level, caller, socket
  <1>3. CASE thread # "init"
    BY <1>1, <1>3 DEF TalkInv, NothingAsked, Compiling, BetweenSteps, EditDue, StepDue,
                      StepAsked, Quiet, WorkerStarts
  <1> QED BY <1>2, <1>3

LEMMA ReceiveTalk == TalkInv /\ Receive => TalkInv'
  <1> SUFFICES ASSUME TalkInv, Receive PROVE TalkInv'
    OBVIOUS
  <1>1. /\ worker = "idle" /\ requests # <<>>
        /\ UNCHANGED <<thread, inRun, snapshots, sent, reply>>
    BY DEF Receive, caller, clock
  <1>2. CallerTypeOK'
    BY <1>1 DEF TalkInv, CallerTypeOK
  <1>3. EditOfRun' = EditOfRun /\ StepOfRun' = StepOfRun
    BY <1>1 DEF EditOfRun, StepOfRun
  <1>4. ASSUME requests = <<Compile>>
        PROVE  requests' = <<>> /\ worker' = "busy" /\ job' = Compile /\ held' = held
    <2>1. Head(requests) = Compile /\ Tail(requests) = <<>> /\ Compile.kind = "init"
      BY <1>4 DEF Compile
    <2> QED BY <2>1 DEF Receive
  <1>5. ASSUME requests = <<StepOfRun>>
        PROVE  requests' = <<>> /\ worker' = "busy" /\ job' = StepOfRun /\ held' = held
    <2>1. Head(requests) = StepOfRun /\ Tail(requests) = <<>> /\ StepOfRun.kind = "step"
      BY <1>5 DEF StepOfRun
    <2> QED BY <2>1 DEF Receive
  <1>6. ASSUME NEW rest, requests # <<>>, Head(requests) = EditOfRun, Tail(requests) = rest, Behind
        PROVE  requests' = rest /\ worker' = "idle" /\ Level'
    <2>1. EditOfRun.kind = "param" /\ EditOfRun.block = inRun.block /\ EditOfRun.params = inRun.params
      BY DEF EditOfRun
    <2>2. /\ requests' = rest /\ worker' = worker
          /\ held' = [held EXCEPT ![inRun.block] = inRun.params]
      BY <1>6, <2>1 DEF Receive
    <2> QED BY <1>1, <1>6, <2>2 DEF Level, Behind
  <1>7. CASE thread = "init"
    <2>1. requests = <<Compile>> /\ reply = NoReply /\ Level
      BY <1>1, <1>7 DEF TalkInv, Compiling
    <2>2. Compiling'
      BY <1>1, <1>4, <2>1 DEF Compiling, Level
    <2> QED BY <1>1, <1>2, <1>7, <2>2, GoesOn
  <1>8. CASE thread = "send"
    <2>1. /\ Quiet /\ snapshots[inRun.block] = inRun.params
          /\ requests = <<EditOfRun>> /\ Behind
      BY <1>1, <1>8 DEF TalkInv, StepDue
    <2>2. requests' = <<>> /\ worker' = "idle" /\ Level'
      BY <1>1, <1>6, <2>1, TwoRequests
    <2>3. StepDue'
      BY <1>1, <2>1, <2>2 DEF StepDue, Quiet
    <2> QED BY <1>1, <1>2, <1>8, <2>3, GoesOn
  <1>9. CASE thread = "waiting"
    <2>1. snapshots[inRun.block] = inRun.params /\ Quiet
      BY <1>1, <1>9 DEF TalkInv, StepAsked
    <2>2. CASE requests = <<EditOfRun, StepOfRun>> /\ Behind
      <3>1. requests' = <<StepOfRun>> /\ worker' = "idle" /\ Level'
        BY <1>1, <1>6, <2>2, TwoRequests
      <3>2. StepAsked'
        BY <1>1, <1>3, <2>1, <3>1 DEF StepAsked, Quiet
      <3> QED BY <1>1, <1>2, <1>9, <3>2, GoesOn
    <2>3. CASE requests = <<StepOfRun>> /\ Level
      <3>1. StepAsked'
        BY <1>1, <1>3, <1>5, <2>1, <2>3 DEF StepAsked, Quiet, Level
      <3> QED BY <1>1, <1>2, <1>9, <3>1, GoesOn
    <2> QED BY <1>1, <1>9, <2>2, <2>3 DEF TalkInv, StepAsked
  <1>10. CASE thread \notin {"init", "send", "waiting"}
    BY <1>1, <1>2, <1>10
    DEF TalkInv, NothingAsked, Compiling, BetweenSteps, EditDue, StepDue, StepAsked, Quiet
  <1> QED BY <1>7, <1>8, <1>9, <1>10

\* The step the worker is at is the one asked, and it holds this run's parameters.
LEMMA AnswersTalk == TalkInv /\ WorkerAnswers => TalkInv'
  <1> SUFFICES ASSUME TalkInv, WorkerAnswers PROVE TalkInv'
    OBVIOUS
  <1>1. /\ worker = "busy" /\ worker' = "idle"
        /\ UNCHANGED <<thread, inRun, snapshots, sent, job, held, requests>>
    BY DEF WorkerAnswers, caller, clock
  <1>2. CallerTypeOK' /\ Level' = Level /\ Outputs' = Outputs
    BY <1>1 DEF TalkInv, CallerTypeOK, Level, Outputs
  <1>3. CASE thread = "init"
    BY <1>1, <1>2, <1>3, GoesOn DEF TalkInv, Compiling
  <1>4. CASE thread = "waiting"
    <2>1. /\ snapshots[inRun.block] = inRun.params
          /\ requests = <<>> /\ Level /\ job = StepOfRun
      BY <1>1, <1>4 DEF TalkInv, StepAsked, Quiet
    <2>2. /\ job # Compile /\ job.block = inRun.block /\ job.step = sent
          /\ held[job.block] = inRun.params
      <3>1. /\ StepOfRun.kind = "step" /\ Compile.kind = "init"
            /\ StepOfRun.block = inRun.block /\ StepOfRun.step = sent
        BY DEF StepOfRun, Compile
      <3> QED BY <2>1, <3>1 DEF Level
    <2>3. reply' \in {Failure, Outputs}
      <3>1. PICK kind \in {"ok", "err"} :
              reply' = IF job = Compile \/ kind = "err" THEN [kind |-> kind]
                       ELSE [kind |-> kind, step |-> job.step, block |-> job.block,
                             params |-> held[job.block]]
        BY DEF WorkerAnswers
      <3> QED BY <2>2, <3>1 DEF Failure, Outputs
    <2>4. StepAsked'
      BY <1>1, <1>2, <2>1, <2>3 DEF StepAsked, Failure
    <2> QED BY <1>1, <1>2, <1>4, <2>4, GoesOn
  <1>5. CASE thread \notin {"init", "waiting"}
    BY <1>1, <1>2, <1>5
    DEF TalkInv, NothingAsked, Compiling, BetweenSteps, EditDue, StepDue, StepAsked, Quiet
  <1> QED BY <1>3, <1>4, <1>5

-----------------------------------------------------------------------------
LEMMA NextTalk == TalkInv /\ [SandboxNext]_sandboxVars => TalkInv'
  <1> SUFFICES ASSUME TalkInv, [SandboxNext]_sandboxVars PROVE TalkInv'
    OBVIOUS
  <1>1. CASE SolverStep
    BY <1>1, SolverTalk
  <1>2. CASE WatchdogStep
    BY <1>2, WorkerMayEnd
    DEF WatchdogStep, ReadDeadline, Compare, Overrun, KillBegins, KillEnds, Kill,
        caller, clock, process, socket
  <1>3. CASE DeadlinePasses
    BY <1>3, WorkerMayEnd DEF DeadlinePasses, caller, process, socket
  <1>4. ASSUME NEW b \in Scripts, NEW p \in ParamSets, RunScript(b, p)
        PROVE  TalkInv'
    BY <1>4, RunTalk
  <1>5. CASE WorkerStops
    BY <1>5, WorkerMayEnd DEF WorkerStops, caller, clock, socket
  <1>6. CASE UNCHANGED sandboxVars
    BY <1>6, WorkerMayEnd DEF sandboxVars, caller, clock, process, socket
  <1> QED
    BY <1>1, <1>2, <1>3, <1>4, <1>5, <1>6, StartsTalk, ReceiveTalk, AnswersTalk
    DEF SandboxNext

LEMMA TalkInvariant == SandboxSpec => []TalkInv
  <1>1. SandboxInit => TalkInv
    BY InitTalk
  <1> QED BY <1>1, NextTalk, PTL DEF SandboxSpec

\* A step that ends well returns the worker's answer to that very step of that
\* block, computed with the parameters the engine has for it (run in sandbox.py),
\* whenever the watchdog or the system ends the worker.
THEOREM AnswersBelong == SandboxSpec => OutputsAreOfTheStep
  <1>1. TalkInv /\ [SandboxNext]_sandboxVars =>
          [thread = "waiting" /\ thread' = "free" => reply = Outputs]_sandboxVars
    <2> SUFFICES ASSUME TalkInv, SandboxNext, thread = "waiting", thread' = "free"
                 PROVE  reply = Outputs
      OBVIOUS
    <2>1. StepAnswered
      BY DEF SandboxNext, SolverStep, WatchdogStep, StartSandbox, InitAnswered, InitFails,
             BuildModel, RunScript, SendParam, SendStep, RecvFails, StepLost, Close, Joined,
             JoinTimesOut, DeadlinePasses, ReadDeadline, Compare, Overrun, KillBegins,
             KillEnds, WorkerStarts, Receive, WorkerAnswers, WorkerStops
    <2>2. reply \in {Failure, Outputs}
      BY <2>1 DEF TalkInv, StepAsked, Quiet, StepAnswered
    <2>3. reply.kind = "ok" /\ Failure.kind = "err"
      BY <2>1 DEF StepAnswered, Failure
    <2> QED BY <2>2, <2>3
  <1> QED BY <1>1, TalkInvariant, PTL DEF SandboxSpec, OutputsAreOfTheStep, Outputs

-----------------------------------------------------------------------------
(* The charts: numbers.                                                     *)

\* Some set of a family of finite sets has no smaller one in the family.
LEMMA SmallestSet ==
    ASSUME NEW S, IsFiniteSet(S), NEW F \in SUBSET SUBSET S, F # {}
    PROVE  \E U \in F : \A x \in U : \A V \in SUBSET (U \ {x}) : V \notin F
  <1>1. F \subseteq FiniteSubsetsOf(S)
    BY FS_Subset DEF FiniteSubsetsOf
  <1>2. PICK U \in F : \A V \in F : ~(<<V, U>> \in StrictSubsetOrdering(S))
    BY <1>1, WFMin, FS_StrictSubsetOrderingWellFounded
  <1>3. ASSUME NEW x \in U, NEW V \in SUBSET (U \ {x}), V \in F PROVE FALSE
    <2>1. V \in SUBSET S /\ U \in SUBSET S /\ V \subseteq U /\ V # U
      BY <1>3
    <2> QED BY <1>2, <1>3, <2>1 DEF StrictSubsetOrdering
  <1> QED BY <1>3

\* Of finitely many things with numbers, one has the lowest, and one the highest.
LEMMA Lowest ==
    ASSUME NEW T, IsFiniteSet(T), T # {}, NEW v \in [T -> Int]
    PROVE  \E x \in T : \A y \in T : v[x] <= v[y]
  <1> DEFINE Below(x) == {y \in T : v[y] < v[x]}
             F == {Below(x) : x \in T}
  <1>1. F \in SUBSET SUBSET T /\ F # {}
    OBVIOUS
  <1>2. PICK U \in F : \A x \in U : \A V \in SUBSET (U \ {x}) : V \notin F
    <2> HIDE DEF F
    <2> QED BY <1>1, SmallestSet
  <1>3. PICK x \in T : U = Below(x)
    OBVIOUS
  <1>4. ASSUME NEW y \in T, v[y] < v[x] PROVE FALSE
    <2>1. y \in U /\ Below(y) \in F
      BY <1>3, <1>4
    <2>2. Below(y) \subseteq U \ {y}
      BY <1>3, <1>4
    <2> HIDE DEF F, Below
    <2> QED BY <1>2, <2>1, <2>2
  <1> QED BY <1>4

LEMMA Highest ==
    ASSUME NEW T, IsFiniteSet(T), T # {}, NEW v \in [T -> Int]
    PROVE  \E x \in T : \A y \in T : v[y] <= v[x]
  <1> DEFINE w == [x \in T |-> 0 - v[x]]
  <1>1. w \in [T -> Int]
    OBVIOUS
  <1>2. PICK x \in T : \A y \in T : w[x] <= w[y]
    <2> HIDE DEF w
    <2> QED BY <1>1, Lowest
  <1>3. \A y \in T : v[y] <= v[x]
    BY <1>2
  <1> QED BY <1>3

LEMMA PairFinite ==
    ASSUME NEW a, NEW b
    PROVE  IsFiniteSet({a, b})
  <1>1. IsFiniteSet({a})
    BY FS_Singleton
  <1>2. IsFiniteSet({a} \cup {b})
    BY <1>1, FS_AddElement
  <1>3. {a, b} = {a} \cup {b}
    OBVIOUS
  <1> QED BY <1>2, <1>3

\* Min, of finitely many numbers, is the least of them.
LEMMA LeastOf ==
    ASSUME NEW T \in SUBSET Int, IsFiniteSet(T), T # {}
    PROVE  Min(T) \in T /\ \A x \in T : Min(T) <= x
  <1> DEFINE v == [x \in T |-> x]
  <1>1. v \in [T -> Int]
    OBVIOUS
  <1>2. \E x \in T : \A y \in T : v[x] <= v[y]
    <2> HIDE DEF v
    <2> QED BY <1>1, Lowest
  <1>3. \E x \in T : \A y \in T : x <= y
    BY <1>2
  <1> QED BY <1>3 DEF Min

LEMMA GreaterOfTwo ==
    ASSUME NEW a \in Int, NEW b \in Int
    PROVE  Max({a, b}) \in {a, b} /\ Max({a, b}) >= a
  <1>1. \E x \in {a, b} : \A y \in {a, b} : x >= y
    <2>1. CASE a >= b
      BY <2>1
    <2>2. CASE b >= a
      BY <2>2
    <2> QED BY <2>1, <2>2
  <1> QED BY <1>1 DEF Max

\* Integer division.
LEMMA Quotient ==
    ASSUME NEW a \in Nat, NEW n \in Nat \ {0}
    PROVE  /\ a \div n \in Nat
           /\ n * (a \div n) <= a /\ a < n * (a \div n) + n
  OBVIOUS

LEMMA QuotientBounds ==
    ASSUME NEW a \in Nat, NEW n \in Nat \ {0}, NEW k \in Nat
    PROVE  /\ a < n * k + n => a \div n <= k
           /\ n * k <= a => k <= a \div n
  OBVIOUS

\* The buckets are side by side: every sample is in one of them.
LEMMA BucketsCover ==
    ASSUME NEW n \in Nat \ {0}, NEW k \in Nat \ {0}, NEW i \in 0..(n - 1)
    PROVE  \E b \in 0..(k - 1) :
              (b * n) \div k <= i /\ i <= ((b + 1) * n) \div k - 1
  <1> DEFINE a == (i + 1) * k - 1
             b == a \div n
  <1>1. a \in Nat
    BY SMT
  <1>2. b \in Nat /\ n * b <= a /\ a < n * b + n
    <2> HIDE DEF a
    <2> QED BY <1>1, Quotient
  <1> HIDE DEF b
  <1>3. b <= k - 1
    <2>1. (i + 1) * k <= n * k
      BY SMT
    <2>2. n * b < n * k
      BY <1>2, <2>1, SMT
    <2> QED BY <1>2, <2>2, SMT
  <1>4. (b * n) \div k <= i
    <2>1. b * n < k * i + k /\ b * n \in Nat
      BY <1>2, SMT
    <2> QED BY <2>1, QuotientBounds
  <1>5. i + 1 <= ((b + 1) * n) \div k
    <2>1. k * (i + 1) <= (b + 1) * n /\ (b + 1) * n \in Nat
      BY <1>2, SMT
    <2> QED BY <2>1, QuotientBounds
  <1>6. ((b + 1) * n) \div k \in Int
    BY <1>2, Quotient
  <1>7. b \in 0..(k - 1) /\ i <= ((b + 1) * n) \div k - 1
    BY <1>2, <1>3, <1>5, <1>6
  <1> QED BY <1>4, <1>7

\* And none reaches beyond the samples.
LEMMA BucketsWithin ==
    ASSUME NEW n \in Nat \ {0}, NEW k \in Nat \ {0}, NEW b \in 0..(k - 1)
    PROVE  (b * n) \div k \in Nat /\ ((b + 1) * n) \div k \in Nat
           /\ ((b + 1) * n) \div k <= n
  <1>1. b * n \in Nat /\ (b + 1) * n \in Nat
    BY SMT
  <1>2. (b + 1) * n < k * n + k
    BY SMT
  <1> QED BY <1>1, <1>2, Quotient, QuotientBounds

-----------------------------------------------------------------------------
(* The series.                                                              *)

Levelled == Levels \cup {Null}
SeriesOK ==
    /\ IsFiniteSet(series) /\ series # {}
    /\ \A s \in series : s \in Seq(Levelled) /\ Len(s) # 0

LEMMA SamplesAre ==
    ASSUME SeriesOK
    PROVE  \E n \in Nat \ {0} :
              /\ Samples = 0..(n - 1) /\ IsFiniteSet(Samples) /\ Cardinality(Samples) = n
              /\ \A s \in series : \A i \in Samples : Value(s, i) \in Levelled
  <1> DEFINE lens == [s \in series |-> Len(s)]
             n == Min({Len(s) : s \in series})
  <1>1. \A s \in series : Len(s) \in Nat \ {0}
    BY LenProperties DEF SeriesOK
  <1>2. n \in {Len(s) : s \in series} /\ \A s \in series : n <= Len(s)
    <2>1. {Len(s) : s \in series} \in SUBSET Int /\ {Len(s) : s \in series} # {}
      <3>1. \A s \in series : Len(s) \in Int
        BY <1>1
      <3>2. series # {}
        BY DEF SeriesOK
      <3> QED BY <3>1, <3>2
    <2>2. IsFiniteSet({Len(s) : s \in series})
      <3>1. lens \in Surjection(series, {Len(s) : s \in series})
        BY DEF Surjection
      <3> HIDE DEF lens
      <3> QED BY <3>1, FS_Surjection DEF SeriesOK
    <2>3. \A x \in {Len(s) : s \in series} : n <= x
      BY <2>1, <2>2, LeastOf
    <2>4. n \in {Len(s) : s \in series}
      BY <2>1, <2>2, LeastOf
    <2> HIDE DEF n
    <2> QED BY <2>3, <2>4
  <1>3. Samples = 0..(n - 1)
    BY DEF Samples
  <1> HIDE DEF n
  <1>4. n \in Nat \ {0}
    BY <1>1, <1>2
  <1>5. IsFiniteSet(Samples) /\ Cardinality(Samples) = n
    <2>1. IsFiniteSet(0..(n - 1)) /\ Cardinality(0..(n - 1)) = n
      BY <1>4, FS_Interval
    <2> QED BY <1>3, <2>1
  <1>6. ASSUME NEW s \in series, NEW i \in Samples
        PROVE  Value(s, i) \in Levelled
    <2>1. i + 1 \in 1..Len(s)
      BY <1>1, <1>2, <1>3, <1>4
    <2>2. s \in Seq(Levelled)
      BY DEF SeriesOK
    <2> QED BY <2>1, <2>2, ElementOfSeq DEF Value
  <1> QED BY <1>3, <1>4, <1>5, <1>6

\* What is drawn of some samples: some of them, and if one has a value at all, one
\* with the lowest value and one with the highest.
LEMMA ExtremesAre ==
    ASSUME SeriesOK, NEW s \in series, NEW T \in SUBSET Samples
    PROVE  /\ Extremes(s, T) \subseteq T
           /\ \A i \in Extremes(s, T) : Value(s, i) \in Levels
           /\ \A x \in T : Value(s, x) # Null =>
                \E lo, hi \in Extremes(s, T) :
                   \A j \in T : Value(s, j) # Null =>
                       Value(s, lo) <= Value(s, j) /\ Value(s, j) <= Value(s, hi)
           /\ \A i \in Extremes(s, T) :
                \/ \A j \in T : Value(s, j) # Null => Value(s, i) <= Value(s, j)
                \/ \A j \in T : Value(s, j) # Null => Value(s, j) <= Value(s, i)
  <1> DEFINE valued == {i \in T : Value(s, i) # Null}
             lows == {i \in valued : \A j \in valued : Value(s, i) <= Value(s, j)}
             highs == {i \in valued : \A j \in valued : Value(s, i) >= Value(s, j)}
             v == [i \in valued |-> Value(s, i)]
  <1>1. Extremes(s, T) = IF valued = {} THEN {} ELSE {Min(lows), Min(highs)}
    BY DEF Extremes
  <1>2. IsFiniteSet(T) /\ T \subseteq Int /\ \A i \in T : Value(s, i) \in Levelled
    <2>1. IsFiniteSet(Samples) /\ Samples \subseteq Int
          /\ \A i \in Samples : Value(s, i) \in Levelled
      BY SamplesAre
    <2> QED BY <2>1, FS_Subset
  <1>3. \A i \in valued : Value(s, i) \in Levels /\ Value(s, i) \in Int
    BY <1>2, ThinningAssumption DEF Levelled
  <1>4. IsFiniteSet(valued) /\ IsFiniteSet(lows) /\ IsFiniteSet(highs)
    BY <1>2, FS_Subset
  <1>5. v \in [valued -> Int]
    BY <1>3
  <1>6. CASE valued = {}
    BY <1>1, <1>6
  <1>7. CASE valued # {}
    <2>1. lows # {}
      <3>1. \E x \in valued : \A y \in valued : v[x] <= v[y]
        <4> HIDE DEF v, valued
        <4> QED BY <1>4, <1>5, <1>7, Lowest
      <3>2. \E x \in valued : \A y \in valued : Value(s, x) <= Value(s, y)
        BY <3>1
      <3> QED BY <3>2
    <2>2. highs # {}
      <3>1. \E x \in valued : \A y \in valued : v[y] <= v[x]
        <4> HIDE DEF v, valued
        <4> QED BY <1>4, <1>5, <1>7, Highest
      <3>2. PICK x \in valued : \A y \in valued : Value(s, y) <= Value(s, x)
        BY <3>1
      <3>3. \A y \in valued : Value(s, x) >= Value(s, y)
        BY <1>3, <3>2
      <3> QED BY <3>3
    <2>3. lows \subseteq Int /\ highs \subseteq Int
      BY <1>2
    <2>4. Min(lows) \in lows /\ Min(highs) \in highs
      <3> HIDE DEF lows, highs
      <3> QED BY <1>4, <2>1, <2>2, <2>3, LeastOf
    <2> DEFINE lo == Min(lows)
               hi == Min(highs)
    <2>5. Extremes(s, T) = {lo, hi}
      BY <1>1, <1>7
    <2>6. lo \in valued /\ \A j \in valued : Value(s, lo) <= Value(s, j)
      BY <2>4
    <2>7. hi \in valued /\ \A j \in valued : Value(s, j) <= Value(s, hi)
      BY <1>3, <2>4
    <2> HIDE DEF lo, hi, lows, highs
    <2>8. lo \in T /\ hi \in T
      BY <2>6, <2>7
    <2> QED BY <1>3, <2>5, <2>6, <2>7, <2>8
  <1> QED BY <1>6, <1>7

-----------------------------------------------------------------------------
(* A pick.                                                                  *)

LEMMA BucketsAre ==
    ASSUME SeriesOK, buckets \in Nat \ {0}
    PROVE  /\ \A b \in 0..(buckets - 1) : Bucket(b) \subseteq Samples
           /\ \A i \in Samples : \E b \in 0..(buckets - 1) : i \in Bucket(b)
  <1> PICK n \in Nat \ {0} : Samples = 0..(n - 1) /\ Cardinality(Samples) = n
    BY SamplesAre
  <1>1. ASSUME NEW b \in 0..(buckets - 1) PROVE Bucket(b) \subseteq Samples
    <2>1. (b * n) \div buckets \in Nat /\ ((b + 1) * n) \div buckets \in Nat
          /\ ((b + 1) * n) \div buckets <= n
      BY BucketsWithin
    <2> DEFINE x == (b * n) \div buckets
               y == ((b + 1) * n) \div buckets
    <2>2. Bucket(b) = x..(y - 1)
      BY DEF Bucket
    <2>3. x \in Nat /\ y \in Nat /\ y <= n
      BY <2>1
    <2> HIDE DEF x, y
    <2> QED BY <2>2, <2>3
  <1>2. ASSUME NEW i \in Samples PROVE \E b \in 0..(buckets - 1) : i \in Bucket(b)
    <2>1. PICK b \in 0..(buckets - 1) :
             (b * n) \div buckets <= i /\ i <= ((b + 1) * n) \div buckets - 1
      BY BucketsCover
    <2>2. (b * n) \div buckets \in Nat /\ ((b + 1) * n) \div buckets \in Nat
      BY BucketsWithin
    <2> DEFINE x == (b * n) \div buckets
               y == ((b + 1) * n) \div buckets
    <2>3. Bucket(b) = x..(y - 1)
      BY DEF Bucket
    <2>4. x \in Nat /\ y \in Nat /\ x <= i /\ i <= y - 1 /\ i \in Int
      BY <2>1, <2>2
    <2> HIDE DEF x, y
    <2>5. i \in Bucket(b)
      BY <2>3, <2>4
    <2> QED BY <2>5
  <1> QED BY <1>1, <1>2

LEMMA PickWithin ==
    ASSUME SeriesOK, buckets \in Nat \ {0}
    PROVE  /\ {0, Cardinality(Samples) - 1} \subseteq pick
           /\ pick \subseteq Samples
           /\ IsFiniteSet(pick) /\ Cardinality(pick) \in Nat
  <1>1. PICK n \in Nat \ {0} : /\ Samples = 0..(n - 1) /\ IsFiniteSet(Samples)
                               /\ Cardinality(Samples) = n
    BY SamplesAre
  <1>2. \A s \in series, b \in 0..(buckets - 1) : Extremes(s, Bucket(b)) \subseteq Samples
    BY BucketsAre, ExtremesAre
  <1>3. {0, Cardinality(Samples) - 1} \subseteq pick
    BY DEF pick
  <1>4. {0, Cardinality(Samples) - 1} \subseteq Samples
    BY <1>1
  <1>5. pick \subseteq Samples
    BY <1>2, <1>4 DEF pick
  <1>6. IsFiniteSet(pick)
    BY <1>1, <1>5, FS_Subset
  <1> QED BY <1>3, <1>5, <1>6, FS_CardinalityType

\* Each series is picked with its lowest and its highest value.
LEMMA PickHasPeaks ==
    ASSUME SeriesOK, buckets \in Nat \ {0}, NEW s \in series, NEW i \in Extremes(s, Samples)
    PROVE  \E j \in pick : Value(s, j) = Value(s, i)
  <1>1. /\ i \in Samples /\ Value(s, i) \in Levels
        /\ \/ \A j \in Samples : Value(s, j) # Null => Value(s, i) <= Value(s, j)
           \/ \A j \in Samples : Value(s, j) # Null => Value(s, j) <= Value(s, i)
    BY ExtremesAre
  <1>2. PICK b \in 0..(buckets - 1) : i \in Bucket(b)
    BY <1>1, BucketsAre
  <1>3. Bucket(b) \in SUBSET Samples
    BY BucketsAre
  <1>4. Value(s, i) # Null
    BY <1>1, ThinningAssumption
  <1>5. PICK lo, hi \in Extremes(s, Bucket(b)) :
           \A j \in Bucket(b) : Value(s, j) # Null =>
               Value(s, lo) <= Value(s, j) /\ Value(s, j) <= Value(s, hi)
    BY <1>2, <1>3, <1>4, ExtremesAre
  <1>6. /\ lo \in Samples /\ Value(s, lo) \in Levels
        /\ hi \in Samples /\ Value(s, hi) \in Levels
    BY <1>3, ExtremesAre
  <1>7. lo \in pick /\ hi \in pick
    BY DEF pick
  <1>8. Value(s, lo) <= Value(s, i) /\ Value(s, i) <= Value(s, hi)
    BY <1>2, <1>4, <1>5
  <1>9. /\ Value(s, i) \in Int /\ Value(s, lo) \in Int /\ Value(s, hi) \in Int
        /\ Value(s, lo) # Null /\ Value(s, hi) # Null
    BY <1>1, <1>6, ThinningAssumption
  <1>10. Value(s, lo) = Value(s, i) \/ Value(s, hi) = Value(s, i)
    BY <1>1, <1>6, <1>8, <1>9
  <1> QED BY <1>7, <1>10

-----------------------------------------------------------------------------
(* The loop.                                                                *)

\* Nothing is drawn before a pick is good enough, and then that pick.
ThinInv ==
    /\ SeriesOK
    /\ limit \in Nat \ {0}
    /\ \/ buckets = 0 /\ drawn = Samples /\ Cardinality(Samples) <= limit
       \/ buckets \in Nat \ {0} /\ drawn = {}
       \/ /\ buckets \in Nat \ {0} /\ drawn = pick
          /\ Cardinality(pick) <= limit \/ buckets = 1

LEMMA ThinInvInit == ThinInit => ThinInv
  <1> SUFFICES ASSUME ThinInit PROVE ThinInv
    OBVIOUS
  <1>1. ASSUME NEW s \in UNION {[1..n -> Levelled] : n \in 1..MaxLength}
        PROVE  s \in Seq(Levelled) /\ Len(s) # 0
    <2>1. PICK n \in 1..MaxLength : s \in [1..n -> Levelled]
      OBVIOUS
    <2>2. n \in Nat \ {0}
      BY ThinningAssumption
    <2>3. s \in Seq(Levelled)
      BY <2>1, <2>2, SeqDef
    <2>4. Len(s) \in Nat /\ DOMAIN s = 1..Len(s)
      BY <2>3, LenProperties
    <2>5. 1 \in DOMAIN s
      BY <2>1, <2>2
    <2> QED BY <2>3, <2>4, <2>5
  <1>2. MaxLength \div 2 \in Nat /\ MaxLength \div 2 <= MaxLength
    BY ThinningAssumption
  <1>3. SeriesOK
    <2>1. CASE \E s \in UNION {[1..n -> Levelled] : n \in 1..MaxLength} : series = {s}
      BY <1>1, <2>1, FS_Singleton DEF SeriesOK
    <2>2. ASSUME NEW s \in UNION {[1..n -> Levelled] : n \in 1..(MaxLength \div 2)},
                 NEW t \in UNION {[1..n -> Levelled] : n \in 1..(MaxLength \div 2)},
                 series = {s, t}
          PROVE  SeriesOK
      <3>1. \A n \in 1..(MaxLength \div 2) : n \in 1..MaxLength
        BY <1>2, ThinningAssumption
      <3>2. /\ s \in UNION {[1..n -> Levelled] : n \in 1..MaxLength}
            /\ t \in UNION {[1..n -> Levelled] : n \in 1..MaxLength}
        BY <3>1
      <3>3. IsFiniteSet({s, t})
        BY PairFinite
      <3> QED BY <1>1, <2>2, <3>2, <3>3 DEF SeriesOK
    <2> QED BY <2>1, <2>2 DEF ThinInit, Levelled
  <1>4. limit \in Nat \ {0}
    BY ThinningAssumption DEF ThinInit
  <1>5. CASE Cardinality(Samples) <= limit
    BY <1>3, <1>4, <1>5 DEF ThinInit, ThinInv
  <1>6. CASE ~(Cardinality(Samples) <= limit)
    <2>1. buckets = Max({1, limit \div 2}) /\ drawn = {}
      BY <1>6 DEF ThinInit
    <2>2. limit \div 2 \in Int
      BY <1>4
    <2>3. Max({1, limit \div 2}) \in Int /\ Max({1, limit \div 2}) >= 1
      BY <2>2, GreaterOfTwo
    <2>4. buckets \in Nat \ {0}
      BY <2>1, <2>3
    <2> QED BY <1>3, <1>4, <2>1, <2>4 DEF ThinInv
  <1> QED BY <1>5, <1>6

LEMMA ThinInvStep == ThinInv /\ [ThinNext]_thinVars => ThinInv'
  <1> SUFFICES ASSUME ThinInv, [ThinNext]_thinVars PROVE ThinInv'
    OBVIOUS
  <1>1. CASE UNCHANGED thinVars
    <2>1. series' = series /\ limit' = limit /\ buckets' = buckets /\ drawn' = drawn
      BY <1>1 DEF thinVars
    <2>2. pick' = pick /\ Samples' = Samples /\ SeriesOK' = SeriesOK
      BY <2>1 DEF pick, Bucket, Samples, SeriesOK
    <2> QED BY <2>1, <2>2 DEF ThinInv
  <1>2. CASE Draw
    <2>1. buckets \in Nat \ {0}
      BY <1>2 DEF Draw, ThinInv
    <2>2. pick' = pick /\ SeriesOK'
      BY <1>2 DEF Draw, pick, Bucket, Samples, ThinInv, SeriesOK
    <2> QED BY <1>2, <2>1, <2>2 DEF Draw, ThinInv
  <1>3. CASE Widen
    <2>1. buckets \in Nat \ {0} /\ limit \in Nat \ {0} /\ SeriesOK
      BY <1>3 DEF Widen, ThinInv
    <2>2. Cardinality(pick) \in Nat /\ Cardinality(pick) > limit
      BY <1>3, <2>1, PickWithin DEF Widen
    <2> DEFINE q == (buckets * limit) \div Cardinality(pick)
               m == Min({buckets - 1, q})
    <2>3. q \in Int
      BY <2>1, <2>2
    <2>4. m \in Int
      <3> HIDE DEF q
      <3>1. {buckets - 1, q} \in SUBSET Int /\ {buckets - 1, q} # {}
        BY <2>1, <2>3
      <3>2. IsFiniteSet({buckets - 1, q})
        BY PairFinite
      <3>3. m \in {buckets - 1, q}
        BY <3>1, <3>2, LeastOf
      <3> QED BY <3>1, <3>3
    <2>5. buckets' = Max({1, m})
      BY <1>3 DEF Widen
    <2> HIDE DEF m
    <2>6. Max({1, m}) \in {1, m} /\ Max({1, m}) >= 1
      BY <2>4, GreaterOfTwo
    <2>7. buckets' \in Nat \ {0}
      BY <2>4, <2>5, <2>6
    <2> QED BY <1>3, <2>1, <2>7 DEF Widen, ThinInv, SeriesOK
  <1> QED BY <1>1, <1>2, <1>3 DEF ThinNext

\* However long the series and whatever the limit: what is drawn in the end has
\* the first and the last sample and, of every series, a sample with its lowest
\* value and one with its highest; and it is within the limit unless a single
\* bucket is left.
THEOREM ChartsKeepPeaks == ThinSpec => []PeaksDrawn
  <1>1. ThinInv => PeaksDrawn
    <2> SUFFICES ASSUME ThinInv, drawn # {}
                 PROVE  /\ {0, Cardinality(Samples) - 1} \subseteq drawn /\ drawn \subseteq Samples
                        /\ Cardinality(drawn) <= limit \/ buckets = 1
                        /\ \A s \in series : \A i \in Extremes(s, Samples) :
                              \E j \in drawn : Value(s, j) = Value(s, i)
      BY DEF PeaksDrawn
    <2>1. SeriesOK
      BY DEF ThinInv
    <2>2. CASE drawn = Samples /\ Cardinality(Samples) <= limit
      <3>1. {0, Cardinality(Samples) - 1} \subseteq Samples
        BY <2>1, SamplesAre
      <3>2. \A s \in series : Extremes(s, Samples) \subseteq Samples
        BY <2>1, ExtremesAre
      <3> QED BY <2>2, <3>1, <3>2
    <2>3. CASE /\ buckets \in Nat \ {0} /\ drawn = pick
               /\ Cardinality(pick) <= limit \/ buckets = 1
      <3>1. \A s \in series : \A i \in Extremes(s, Samples) :
              \E j \in pick : Value(s, j) = Value(s, i)
        BY <2>1, <2>3, PickHasPeaks
      <3> QED BY <2>1, <2>3, <3>1, PickWithin
    <2> QED BY <2>2, <2>3 DEF ThinInv
  <1> QED BY <1>1, ThinInvInit, ThinInvStep, PTL DEF ThinSpec
==============================================================================
