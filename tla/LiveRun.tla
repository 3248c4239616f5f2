------------------------------ MODULE LiveRun ------------------------------
(***************************************************************************)
(* One live run: the editor's side (executeRun and stopRun in              *)
(* projectStore.ts, runSimulationLive in api.ts), the WebSocket, the       *)
(* engine's handler (run_simulation_live in main.py: a main loop and a     *)
(* receive loop on one event loop) and the solver thread (simulate in      *)
(* core.py).  The connection may break at any time, the user may stop the  *)
(* run and edit a parameter of it at any time, and the solver may fail.    *)
(***************************************************************************)
EXTENDS Integers, Sequences, Functions

CONSTANTS
  STEPS,         (* Steps of the run; step 0 records the initial state.     *)
  output_every,  (* Every output_every-th step is recorded, and the last.   *)
  None,          (* No outcome, no result, nothing stored.                  *)
  MaxEdits,      (* Bound: parameter edits.                                 *)
  MaxStops       (* Bound: presses of Stop.                                 *)

ASSUME StepsAssumption ==
    /\ STEPS \in Nat
    /\ output_every \in Nat \ {0}
ASSUME BoundsAssumption == MaxEdits \in Nat /\ MaxStops \in Nat

VARIABLES
  \* the editor
  socket,     \* ws.readyState: "connecting", "open" or "closed"
  seen,       \* the steps received, in order
  shown,      \* liveT: the last step flushed to the screen
  outcome,    \* how handle.done settled, or None
  stage,      \* executeRun: "running", "ending", "storing" or "ended"
  liveEdits,  \* liveLog.edits: parameter edits, each with the time shown
  stored,     \* the edits in the snapshot that is stored, or None
  edits,      \* edits made so far (bound)
  stops,      \* presses of Stop so far (bound)
  \* the connection
  up,         \* messages on their way to the engine
  down,       \* messages on their way to the editor
  link,       \* "up" or "broken"
  \* the engine's handler
  handler,    \* "accepting", "running" or "closed"
  receiving,  \* receive_loop runs
  pending,    \* pending_control
  calls,      \* callbacks of the solver thread that the event loop has to run
  events,     \* the queue of events to send
  done,       \* sim_future.done()
  client_gone,
  \* the solver thread
  solver,     \* where it is
  step,
  cancelled,  \* a stop was asked for
  cut,        \* what cut the run short: "no", "stopped" or "failed"
  times,      \* the steps recorded
  applied,    \* the control messages applied: the edits among them are in force
  result,     \* the SimResult, or None
  \* history
  heard,      \* Stop was pressed while the socket was open
  unheard,    \* Stop was pressed before the socket was open
  madeAt      \* for each edit, the time shown when it was made

editor == <<socket, seen, shown, outcome, stage, liveEdits, stored, edits, stops>>
connection == <<up, down, link>>
engine == <<handler, receiving, pending, calls, events, done, client_gone>>
thread == <<solver, step, cancelled, cut, times, applied, result>>
history == <<heard, unheard, madeAt>>
vars == <<editor, connection, engine, thread, history>>

Start == [type |-> "start"]
Cancel == [type |-> "cancel"]
SetParam(edit) == [type |-> "set_param", edit |-> edit]
IsEdit(message) == message.type = "set_param"
StepEvent(k) == [type |-> "step", step |-> k]
Done(r) == [type |-> "done", result |-> r]
Error == [type |-> "error"]
Close == [type |-> "close"]
Returned == [type |-> "returned"]

\* What travels: control messages, all that the editor and the engine send, and
\* an edit in the log of the run.
Controls == {Cancel} \cup {SetParam(e) : e \in 1..MaxEdits}
FromEditor == {Start} \cup Controls
StepEvents == {StepEvent(k) : k \in 0..STEPS}
LiveEdit == [edit: 1..MaxEdits, t: 0..STEPS]

\* A result: its status ("warning" is a success here) and its recorded steps.
Result == [status: {"success", "cancelled", "failed"}, points: Seq(0..STEPS)]
Lost == [status |-> "lost", points |-> <<>>]
FromEngine == StepEvents \cup {Error, Close} \cup [type: {"done"}, result: Result]

Init ==
    /\ socket = "connecting"
    /\ seen = <<>> /\ shown = 0
    /\ outcome = None
    /\ stage = "running"
    /\ liveEdits = <<>> /\ stored = None
    /\ edits = 0 /\ stops = 0
    /\ up = <<>> /\ down = <<>> /\ link = "up"
    /\ handler = "accepting"
    /\ receiving = FALSE
    /\ pending = <<>> /\ calls = <<>> /\ events = <<>>
    /\ done = FALSE /\ client_gone = FALSE
    /\ solver = "none"
    /\ step = 0
    /\ cancelled = FALSE /\ cut = "no"
    /\ times = <<>> /\ applied = <<>> /\ result = None
    /\ heard = FALSE /\ unheard = FALSE /\ madeAt = <<>>

-----------------------------------------------------------------------------
(* The editor *)

\* What the handle sends is dropped unless the socket is open, and lost if the
\* connection is broken and the socket does not know yet.
Send(message) ==
    up' = IF socket = "open" /\ link = "up" THEN Append(up, message) ELSE up

\* ws.onopen
Opens ==
    /\ socket = "connecting" /\ link = "up"
    /\ socket' = "open"
    /\ up' = Append(up, Start)
    /\ UNCHANGED <<seen, shown, outcome, stage, liveEdits, stored, edits, stops,
                    down, link, engine, thread, history>>

\* handle.done settles and executeRun goes on at once: the flush timer is
\* cleared, and the snapshot takes the edits made so far.
Settle(with) ==
    /\ outcome' = with
    /\ socket' = "closed"
    /\ stage' = "ending"
    /\ stored' = liveEdits

\* ws.onmessage
Receive ==
    /\ socket = "open" /\ link = "up" /\ down # <<>>
    /\ down' = Tail(down)
    /\ LET message == Head(down)
       IN  CASE message.type = "step" ->
                  /\ seen' = Append(seen, message.step)
                  /\ UNCHANGED <<socket, outcome, stage, stored>>
             [] message.type = "done" -> Settle(message.result) /\ UNCHANGED seen
             [] message.type \in {"error", "close"} -> Settle(Lost) /\ UNCHANGED seen
    /\ UNCHANGED <<shown, liveEdits, edits, stops, up, link, engine, thread, history>>

\* ws.onerror and ws.onclose, when the connection breaks or is refused
ConnectionLost ==
    /\ socket # "closed" /\ link = "broken"
    /\ Settle(Lost)
    /\ UNCHANGED <<seen, shown, liveEdits, edits, stops, connection, engine, thread, history>>

Flush ==
    /\ outcome = None
    /\ seen # <<>> /\ shown # seen[Len(seen)]
    /\ shown' = seen[Len(seen)]
    /\ UNCHANGED <<socket, seen, outcome, stage, liveEdits, stored, edits, stops,
                    connection, engine, thread, history>>

\* The model's fingerprint is there: the run is listed and being stored.
StoreRun ==
    /\ stage = "ending"
    /\ stage' = "storing"
    /\ UNCHANGED <<socket, seen, shown, outcome, liveEdits, stored, edits, stops,
                    connection, engine, thread, history>>

\* Stored, or not: activeRun and liveLog are given up.
RunEnds ==
    /\ stage = "storing"
    /\ stage' = "ended"
    /\ liveEdits' = <<>>
    /\ UNCHANGED <<socket, seen, shown, outcome, stored, edits, stops,
                    connection, engine, thread, history>>

StopRun ==
    /\ stage # "ended"
    /\ stops < MaxStops
    /\ stops' = stops + 1
    /\ Send(Cancel)
    /\ heard' = (heard \/ socket = "open")
    /\ unheard' = (unheard \/ socket = "connecting")
    /\ UNCHANGED <<socket, seen, shown, outcome, stage, liveEdits, stored, edits,
                    down, link, engine, thread, madeAt>>

\* logLiveEdit: an edit at the time of the last one replaces it.
MutantSameTime == liveEdits # <<>>
SameTime == liveEdits # <<>> /\ liveEdits[Len(liveEdits)].t = shown

SetParameter ==
    /\ stage # "ended"
    /\ edits < MaxEdits
    /\ edits' = edits + 1
    /\ Send(SetParam(edits'))
    /\ liveEdits' = LET entry == [edit |-> edits', t |-> shown]
                    IN  IF SameTime THEN [liveEdits EXCEPT ![Len(liveEdits)] = entry]
                                    ELSE Append(liveEdits, entry)
    /\ madeAt' = Append(madeAt, shown)
    /\ UNCHANGED <<socket, seen, shown, outcome, stage, stored, stops,
                    down, link, engine, thread, heard, unheard>>

\* The engine's process ends, or the page is closed: what is on its way is lost.
LinkBreaks ==
    /\ link = "up"
    /\ link' = "broken"
    /\ up' = <<>> /\ down' = <<>>
    /\ UNCHANGED <<editor, engine, thread, history>>

-----------------------------------------------------------------------------
(* The engine's handler *)

Reply(message) == down' = IF link = "up" THEN Append(down, message) ELSE down

\* The first message starts the run, unless the project is invalid or fails
\* its data checks.
Accept ==
    /\ handler = "accepting" /\ up # <<>>
    /\ up' = Tail(up)
    /\ \/ /\ handler' = "running"
          /\ receiving' = TRUE
          /\ solver' = "start"
          /\ UNCHANGED down
       \/ /\ handler' = "closed"
          /\ \/ Reply(Error)
             \/ Reply(Done([status |-> "failed", points |-> <<>>]))
          /\ UNCHANGED <<receiving, solver>>
    /\ UNCHANGED <<editor, link, pending, calls, events, done, client_gone,
                    step, cancelled, cut, times, applied, result, history>>

NeverStarts ==
    /\ handler = "accepting" /\ link = "broken"
    /\ handler' = "closed"
    /\ UNCHANGED <<editor, connection, receiving, pending, calls, events, done,
                    client_gone, thread, history>>

\* receive_loop
ReceiveControl ==
    /\ receiving /\ up # <<>>
    /\ up' = Tail(up)
    /\ pending' = Append(pending, Head(up))
    /\ UNCHANGED <<editor, down, link, handler, receiving, calls, events, done,
                    client_gone, thread, history>>

MutantOnDisconnect == pending
OnDisconnect == Append(pending, Cancel)

ReceiveFails ==
    /\ receiving /\ link = "broken"
    /\ receiving' = FALSE
    /\ pending' = OnDisconnect
    /\ UNCHANGED <<editor, connection, handler, calls, events, done, client_gone,
                    thread, history>>

\* call_soon_threadsafe: the event loop runs the solver's callbacks in order,
\* also when the handler has ended.
RunCallback ==
    /\ calls # <<>>
    /\ calls' = Tail(calls)
    /\ \/ Head(calls) = Returned /\ done' = TRUE /\ UNCHANGED events
       \/ Head(calls) # Returned /\ events' = Append(events, Head(calls)) /\ UNCHANGED done
    /\ UNCHANGED <<editor, connection, handler, receiving, pending, client_gone,
                    thread, history>>

\* The main loop takes the next event; sending it fails on a broken
\* connection, sooner or later.
SendEvent ==
    /\ handler = "running" /\ events # <<>>
    /\ events' = Tail(events)
    /\ \/ client_gone /\ UNCHANGED <<down, pending, client_gone>>
       \/ ~client_gone /\ Reply(Head(events)) /\ UNCHANGED <<pending, client_gone>>
       \/ /\ ~client_gone /\ link = "broken"
          /\ client_gone' = TRUE
          /\ pending' = Append(pending, Cancel)
          /\ UNCHANGED down
    /\ UNCHANGED <<editor, up, link, handler, receiving, calls, done, thread, history>>

\* The loop ends when the solver has returned and every event is sent.
MutantAllSent == done
AllSent == done /\ events = <<>>

\* An exception of the solver thread ends the handler without a result.
SendResult ==
    /\ handler = "running" /\ AllSent
    /\ handler' = "closed"
    /\ receiving' = FALSE
    /\ \/ client_gone /\ UNCHANGED down
       \/ ~client_gone /\ Reply(IF result = None THEN Close ELSE Done(result))
    /\ UNCHANGED <<editor, up, link, pending, calls, events, done, client_gone,
                    thread, history>>

-----------------------------------------------------------------------------
(* The solver thread *)

Emit(event) == calls' = Append(calls, event)

MutantStopAsked == pending # <<>> /\ Head(pending) = Cancel
StopAsked == Cancel \in Range(pending)

\* control() takes everything that is pending, and each message is applied.
Control ==
    /\ pending' = <<>>
    /\ applied' = applied \o pending
    /\ cancelled' = (cancelled \/ StopAsked)

Goto(where) == solver' = where

\* simulate begins: the case may be missing, the model may not build.
Begin ==
    /\ solver = "start"
    /\ \/ Goto("record") /\ UNCHANGED cut
       \/ Goto("return") /\ cut' = "failed"
    /\ UNCHANGED <<editor, connection, engine, step, cancelled, times, applied, result, history>>

\* The top of a step.
Poll ==
    /\ solver = "poll"
    /\ Control
    /\ \/ cancelled' /\ cut' = "stopped" /\ Goto("return")
       \/ ~cancelled' /\ Goto("solve") /\ UNCHANGED cut
    /\ UNCHANGED <<editor, connection, handler, receiving, calls, events, done,
                    client_gone, step, times, result, history>>

Solve ==
    /\ solver = "solve"
    /\ \/ Goto("pace") /\ UNCHANGED cut
       \/ Goto("return") /\ cut' = "failed"
    /\ UNCHANGED <<editor, connection, engine, step, cancelled, times, applied, result, history>>

\* Pacing against real time: sleep, and look at the control messages again.
PacePoll ==
    /\ solver = "pace" /\ ~cancelled
    /\ Control
    /\ UNCHANGED <<editor, connection, handler, receiving, calls, events, done,
                    client_gone, solver, step, cut, times, result, history>>

\* The step's time has come, or the run is not paced at all.
PaceOver ==
    /\ solver = "pace" /\ ~cancelled
    /\ Goto("record")
    /\ UNCHANGED <<editor, connection, engine, step, cancelled, cut, times,
                    applied, result, history>>

MutantLeavesPace == FALSE
LeavesPace == cancelled

PaceCancelled ==
    /\ solver = "pace" /\ LeavesPace
    /\ Goto("record")
    /\ UNCHANGED <<editor, connection, engine, step, cancelled, cut, times,
                    applied, result, history>>

Recorded == step % output_every = 0 \/ step = STEPS

MutantLastStep == step > STEPS
LastStep == step = STEPS

\* The end of a step: recorded or not, and on to the next one.
Record ==
    /\ solver = "record"
    /\ \/ Recorded /\ times' = Append(times, step) /\ Emit(StepEvent(step))
       \/ ~Recorded /\ UNCHANGED <<times, calls>>
    /\ \/ LastStep /\ Goto("return") /\ UNCHANGED step
       \/ ~LastStep /\ Goto("poll") /\ step' = step + 1
    /\ UNCHANGED <<editor, connection, handler, receiving, pending, events, done,
                    client_gone, cancelled, cut, applied, result, history>>

\* `stopped`, not `cancelled`: a stop that came with the last step cut nothing.
Status == IF cut = "stopped" THEN "cancelled" ELSE "success"

\* The verdict and other checks may still fail the run.
Return ==
    /\ solver = "return"
    /\ Goto("ended")
    /\ \E status \in {Status, "failed"} :
          /\ cut = "failed" => status = "failed"
          /\ result' = [status |-> status, points |-> times]
    /\ Emit(Returned)
    /\ UNCHANGED <<editor, connection, handler, receiving, pending, events, done,
                    client_gone, step, cancelled, cut, times, applied, history>>

\* An exception nobody catches.
Raise ==
    /\ solver \in {"start", "record", "poll", "solve", "pace", "return"}
    /\ Goto("ended")
    /\ Emit(Returned)
    /\ UNCHANGED <<editor, connection, handler, receiving, pending, events, done,
                    client_gone, step, cancelled, cut, times, applied, result, history>>

-----------------------------------------------------------------------------
Editor == Opens \/ Receive \/ ConnectionLost \/ Flush \/ StoreRun \/ RunEnds
User == StopRun \/ SetParameter
Handler == Accept \/ NeverStarts \/ ReceiveControl \/ ReceiveFails \/ RunCallback
              \/ SendEvent \/ SendResult
Solver == Begin \/ Poll \/ Solve \/ PacePoll \/ PaceOver \/ PaceCancelled \/ Record
              \/ Return \/ Raise

Next == Editor \/ User \/ Handler \/ Solver \/ LinkBreaks

\* The browser and the engine's event loop handle what arrives, and the solver
\* runs on.  How long a step's real time takes (PaceOver) is not assumed.
Fairness ==
    /\ WF_vars(Receive) /\ WF_vars(ConnectionLost)
    /\ WF_vars(Accept) /\ WF_vars(NeverStarts)
    /\ WF_vars(ReceiveControl) /\ WF_vars(ReceiveFails)
    /\ WF_vars(RunCallback) /\ WF_vars(SendEvent) /\ WF_vars(SendResult)
    /\ WF_vars(Begin \/ Poll \/ Solve \/ PaceCancelled \/ Record \/ Return)
    /\ WF_vars(PacePoll)

Spec == Init /\ [][Next]_vars /\ Fairness

-----------------------------------------------------------------------------
(* Properties *)

EditorOK ==
    /\ socket \in {"connecting", "open", "closed"}
    /\ seen \in Seq(0..STEPS)
    /\ shown \in 0..STEPS
    /\ outcome \in Result \cup {Lost, None}
    /\ stage \in {"running", "ending", "storing", "ended"}
    /\ liveEdits \in Seq(LiveEdit)
    /\ stored \in Seq(LiveEdit) \cup {None}
    /\ edits \in 0..MaxEdits
    /\ stops \in 0..MaxStops

ConnectionOK ==
    /\ up \in Seq(FromEditor)
    /\ down \in Seq(FromEngine)
    /\ link \in {"up", "broken"}

EngineOK ==
    /\ handler \in {"accepting", "running", "closed"}
    /\ receiving \in BOOLEAN
    /\ pending \in Seq(Controls)
    /\ calls \in Seq(StepEvents \cup {Returned})
    /\ events \in Seq(StepEvents)
    /\ done \in BOOLEAN
    /\ client_gone \in BOOLEAN

ThreadOK ==
    /\ solver \in {"none", "start", "record", "poll", "solve", "pace", "return", "ended"}
    /\ step \in 0..STEPS
    /\ cancelled \in BOOLEAN
    /\ cut \in {"no", "stopped", "failed"}
    /\ times \in Seq(0..STEPS)
    /\ applied \in Seq(Controls)
    /\ result \in Result \cup {None}

HistoryOK ==
    /\ heard \in BOOLEAN /\ unheard \in BOOLEAN
    /\ madeAt \in Seq(0..STEPS)

TypeOK == EditorOK /\ ConnectionOK /\ EngineOK /\ ThreadOK /\ HistoryOK

\* A stop that the socket took is on its way, or heard, or nothing is left to
\* stop: however it races with the end of the run and a broken connection.
\* (One pressed while the socket is connecting is dropped: see StopIsHeard.)
StopUnderWay ==
    \/ Cancel \in Range(up) \/ Cancel \in Range(pending)
    \/ cancelled
    \/ solver = "ended"
    \/ link = "broken"
    \/ handler = "closed"

StopGetsThere == heard => StopUnderWay

\* As it is documented ("Ask the solver to stop; the final (partial) result
\* still arrives"): a run that was stopped before the engine had even begun it
\* is not solved to its end.
StopIsHeard == unheard => outcome = None \/ outcome.status # "success"

\* The stored snapshot tells what the solver was given: each edit it applied is
\* there, or a later one at the same time shown that took its place; and the
\* solver applies edits in the order they were made, each once.
Covered(edit) ==
    \E i \in DOMAIN stored :
        /\ stored[i].edit >= edit
        /\ \A e \in edit..stored[i].edit : madeAt[e] = stored[i].t

SnapshotTrue ==
    /\ \A i, j \in DOMAIN applied :
          i < j /\ IsEdit(applied[i]) /\ IsEdit(applied[j]) => applied[i].edit < applied[j].edit
    /\ stored # None =>
          \A i \in DOMAIN applied : IsEdit(applied[i]) => Covered(applied[i].edit)

\* A stop the engine can hear ends the run for the editor, and a lost client
\* ends the solver, however slowly the run is paced.
StopEnds == heard ~> outcome # None
LostClientStops == link = "broken" ~> solver \in {"none", "ended"}

\* What the editor sees is what RunChannel promises.
Channel == INSTANCE RunChannel
ImplementsChannel == Channel!Spec
=============================================================================
