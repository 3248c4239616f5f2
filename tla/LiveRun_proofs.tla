--------------------------- MODULE LiveRun_proofs ---------------------------
(***************************************************************************)
(* Proofs about a live run of any length, with any number of edits and of  *)
(* presses of Stop: the editor is shown what RunChannel promises, a stop   *)
(* that the socket took is never lost, and the snapshot stored with the    *)
(* run tells what the solver was given.                                    *)
(***************************************************************************)
EXTENDS LiveRun, SequenceTheorems, TLAPS

Unrecorded == {"start", "record", "poll", "solve", "pace"}

\* The first message is the one the handler accepts, and there is no other like
\* it; a broken connection holds no messages.
StartInv ==
    /\ socket = "connecting" => up = <<>> /\ (handler = "accepting" \/ link = "broken")
    /\ link = "broken" => up = <<>> /\ down = <<>>
    /\ handler = "accepting" /\ link = "up" /\ socket # "connecting" => up # <<>>
    /\ \A i \in DOMAIN up : up[i] = Start <=> i = 1 /\ handler = "accepting"

\* Where the handler is, and where the solver.
HandlerInv ==
    /\ handler = "accepting" => solver = "none"
    /\ handler = "running" => solver # "none" /\ (link = "up" => receiving)
    /\ receiving => handler = "running"
    /\ handler = "closed" => solver = "none" \/ (done /\ events = <<>>)
    /\ solver = "none" =>
          calls = <<>> /\ events = <<>> /\ ~done /\ times = <<>> /\ result = None
    /\ client_gone => link = "broken"

\* The solver's return is the last callback, and the future is done after it.
CallsInv ==
    /\ \A i \in DOMAIN calls : calls[i] = Returned <=> solver = "ended" /\ i = Len(calls)
    /\ solver = "ended" /\ ~done => calls # <<>>
    /\ done => solver = "ended" /\ calls = <<>>

Reached == times # <<>> /\ times[Len(times)] = STEPS

\* The recorded steps ascend; a step that is under way, or was cut short, is not
\* among them; a run that nothing cut has recorded its last step.
TimesInv ==
    /\ \A i, j \in DOMAIN times : i < j => times[i] < times[j]
    /\ solver \in Unrecorded \/ cut = "stopped" => \A i \in DOMAIN times : times[i] < step
    /\ solver \in Unrecorded \cup {"none"} => cut = "no"
    /\ solver = "return" /\ cut = "no" => Reached

\* What the editor may be told of the run.
Truthful(r) ==
    /\ r.points = times
    /\ r.status = "success" => Reached
    /\ r.status = "cancelled" => ~Reached

ResultInv == result # None => solver = "ended" /\ Truthful(result)

\* The callbacks that carry a step.
StepCalls == IF solver = "ended" /\ ~done THEN Len(calls) - 1 ELSE Len(calls)

\* The first n messages of s are the recorded steps after the first k.
Carries(s, n, k) == \A i \in 1..n : s[i] = StepEvent(times[k + i])

\* What the editor has seen is what was recorded first.
SeenInv ==
    /\ Len(seen) <= Len(times)
    /\ \A i \in DOMAIN seen : seen[i] = times[i]

\* While the handler runs the rest is on its way, in order.
Underway ==
    /\ Len(times) = Len(seen) + Len(down) + Len(events) + StepCalls
    /\ Carries(down, Len(down), Len(seen))
    /\ Carries(events, Len(events), Len(seen) + Len(down))
    /\ Carries(calls, StepCalls, Len(seen) + Len(down) + Len(events))

\* Once it has closed, the rest is sent and so is how the run ended.
Delivered ==
    /\ down # <<>>
    /\ Len(times) = Len(seen) + Len(down) - 1
    /\ Carries(down, Len(down) - 1, Len(seen))
    /\ \/ down[Len(down)] \in {Error, Close}
       \/ down[Len(down)].type = "done" /\ Truthful(down[Len(down)].result)

FlowInv ==
    /\ SeenInv
    /\ link = "up" /\ handler = "accepting" => seen = <<>> /\ down = <<>>
    /\ link = "up" /\ handler = "running" => Underway
    /\ link = "up" /\ handler = "closed" /\ socket # "closed" => Delivered

\* The editor has an outcome, and a snapshot, once its socket is closed.
OutcomeInv ==
    /\ socket # "closed" => outcome = None /\ stored = None /\ stage = "running"
    /\ socket = "closed" => stored \in Seq(LiveEdit)

\* The messages in s were sent before those in t.
InOrder(s) ==
    \A i, j \in DOMAIN s : i < j /\ IsEdit(s[i]) /\ IsEdit(s[j]) => s[i].edit < s[j].edit
Before(s, t) ==
    \A m \in Range(s), n \in Range(t) : IsEdit(m) /\ IsEdit(n) => m.edit < n.edit

OrderInv ==
    /\ InOrder(applied) /\ InOrder(pending) /\ InOrder(up)
    /\ Before(applied, pending) /\ Before(applied, up) /\ Before(pending, up)

\* An edit is in the log, or a later one at the same time shown took its place.
Told(edit, log) ==
    \E i \in DOMAIN log :
        /\ log[i].edit \in edit..edits
        /\ \A e \in edit..log[i].edit : madeAt[e] = log[i].t

\* The log tells every edit until the run is given up.
LogInv ==
    /\ Len(madeAt) = edits
    /\ liveEdits # <<>> => liveEdits[Len(liveEdits)].edit = edits
    /\ stage # "ended" => \A e \in 1..edits : Told(e, liveEdits)

\* The edits that were sent and not lost: they were made, and the snapshot, if
\* there is one, tells them.
Sent == Range(applied) \cup Range(pending) \cup Range(up)
SentInv ==
    \A m \in Sent :
        IsEdit(m) => m.edit <= edits /\ (socket = "closed" => Told(m.edit, stored))

IInv ==
    /\ TypeOK
    /\ StartInv
    /\ HandlerInv
    /\ CallsInv
    /\ TimesInv
    /\ ResultInv
    /\ FlowInv
    /\ OutcomeInv
    /\ OrderInv
    /\ LogInv
    /\ SentInv
    /\ StopGetsThere

-----------------------------------------------------------------------------
(* Messages and sequences.                                                  *)

LEMMA EmptyIsSeq == \A S : <<>> \in Seq(S)
  OBVIOUS

\* The messages, told apart by their type.
LEMMA ControlMessages ==
    /\ Cancel \in Controls /\ ~IsEdit(Cancel)
    /\ \A e \in 1..MaxEdits :
          SetParam(e) \in Controls /\ IsEdit(SetParam(e)) /\ SetParam(e).edit = e
    /\ Start \in FromEditor /\ Start \notin Controls /\ ~IsEdit(Start)
    /\ \A m \in FromEditor : m = Start \/ m \in Controls
    /\ Controls \subseteq FromEditor
    /\ \A m \in Controls : IsEdit(m) => m.edit \in 1..MaxEdits
  <1>1. Cancel # Start /\ ~IsEdit(Cancel) /\ ~IsEdit(Start)
    BY DEF Start, Cancel, IsEdit
  <1>2. ASSUME NEW e \in 1..MaxEdits
        PROVE  /\ IsEdit(SetParam(e)) /\ SetParam(e).edit = e /\ SetParam(e) # Start
               /\ SetParam(e) \in Controls
    <2>1. IsEdit(SetParam(e)) /\ SetParam(e).edit = e
      BY DEF SetParam, IsEdit
    <2> QED BY <1>1, <2>1 DEF Controls
  <1>3. \A m \in Controls : m = Cancel \/ \E e \in 1..MaxEdits : m = SetParam(e)
    BY DEF Controls
  <1> QED BY <1>1, <1>2, <1>3 DEF Controls, FromEditor

LEMMA EngineMessages ==
    /\ \A k \in 0..STEPS :
          StepEvent(k) \in StepEvents /\ StepEvent(k).type = "step" /\ StepEvent(k).step = k
    /\ StepEvents \subseteq FromEngine
    /\ Error \in FromEngine /\ Error.type = "error"
    /\ Close \in FromEngine /\ Close.type = "close"
    /\ Returned \notin StepEvents
    /\ \A m \in StepEvents : m.type = "step" /\ m.step \in 0..STEPS /\ m = StepEvent(m.step)
    /\ \A r \in Result : Done(r) \in FromEngine /\ Done(r).type = "done" /\ Done(r).result = r
    /\ \A m \in FromEngine : 
          \/ m \in StepEvents
          \/ m \in {Error, Close}
          \/ m.type = "done" /\ m.result \in Result
  <1>1. ASSUME NEW k \in 0..STEPS
        PROVE  /\ StepEvent(k).type = "step" /\ StepEvent(k).step = k
               /\ StepEvent(k) \in StepEvents
    <2>1. StepEvent(k).type = "step" /\ StepEvent(k).step = k
      BY DEF StepEvent
    <2> QED BY <2>1 DEF StepEvents
  <1>2. \A m \in StepEvents : \E k \in 0..STEPS : m = StepEvent(k)
    BY DEF StepEvents
  <1>3. Error.type = "error" /\ Close.type = "close" /\ Returned.type = "returned"
    BY DEF Error, Close, Returned
  <1>4. ASSUME NEW r \in Result
        PROVE  /\ Done(r) \in [type: {"done"}, result: Result]
               /\ Done(r).type = "done" /\ Done(r).result = r
    BY DEF Done
  <1>5. \A m \in [type: {"done"}, result: Result] : m.type = "done" /\ m.result \in Result
    OBVIOUS
  <1> HIDE DEF StepEvent, Error, Close, Returned, Done
  <1> DEFINE Results == [type: {"done"}, result: Result]
  <1>6. FromEngine = StepEvents \cup {Error, Close} \cup Results
    BY DEF FromEngine
  <1> HIDE DEF Results
  <1>7. \A m \in StepEvents : m.type = "step" /\ m.step \in 0..STEPS /\ m = StepEvent(m.step)
    BY <1>1, <1>2
  <1>8. Returned \notin StepEvents
    BY <1>3, <1>7
  <1>9. \A r \in Result : Done(r) \in FromEngine /\ Done(r).type = "done" /\ Done(r).result = r
    BY <1>4, <1>6 DEF Results
  <1>10. \A m \in FromEngine :
            m \in StepEvents \/ m \in {Error, Close} \/ (m.type = "done" /\ m.result \in Result)
    BY <1>5, <1>6 DEF Results
  <1>11. StepEvents \subseteq FromEngine /\ Error \in FromEngine /\ Close \in FromEngine
    BY <1>6
  <1> QED BY <1>1, <1>3, <1>7, <1>8, <1>9, <1>10, <1>11

\* A step can only be received as a step, and a result as a result.
LEMMA Received ==
    ASSUME NEW m \in FromEngine
    PROVE  /\ m.type = "step" => m.step \in 0..STEPS /\ m = StepEvent(m.step)
           /\ m.type = "done" => m.result \in Result
  BY EngineMessages DEF Error, Close

-----------------------------------------------------------------------------
LEMMA TypeInit == Init => TypeOK
  <1> USE StepsAssumption, BoundsAssumption
  <1> SUFFICES ASSUME Init PROVE TypeOK
    OBVIOUS
  <1>1. EditorOK
    BY EmptyIsSeq DEF Init, EditorOK
  <1>2. ConnectionOK /\ EngineOK
    BY EmptyIsSeq DEF Init, ConnectionOK, EngineOK
  <1>3. ThreadOK
    <2>1. <<>> \in Seq(0..STEPS) /\ <<>> \in Seq(Controls)
      BY EmptyIsSeq
    <2>2. times = <<>> /\ applied = <<>> /\ result = None
      BY DEF Init
    <2>3. solver = "none" /\ step = 0 /\ cut = "no" /\ cancelled = FALSE
      BY DEF Init
    <2>4. step \in 0..STEPS
      BY <2>3
    <2>5. cancelled \in BOOLEAN
      BY <2>3
    <2>6. times \in Seq(0..STEPS) /\ applied \in Seq(Controls) /\ result \in Result \cup {None}
      BY <2>1, <2>2
    <2>7. /\ cut \in {"no", "stopped", "failed"} 
          /\ solver \in {"none", "start", "record", "poll", "solve", "pace", "return", "ended"}
      BY <2>3
    <2> QED BY <2>4, <2>5, <2>6, <2>7 DEF ThreadOK
  <1>4. HistoryOK
    BY EmptyIsSeq DEF Init, HistoryOK
  <1> QED BY <1>1, <1>2, <1>3, <1>4 DEF TypeOK

LEMMA EditorTypes ==
    ASSUME TypeOK, [Next]_vars
    PROVE  EditorOK'
  <1> USE StepsAssumption, BoundsAssumption
  <1> EditorOK /\ ConnectionOK
    BY DEF TypeOK
  <1>1. CASE Opens
    BY <1>1 DEF Opens, EditorOK
  <1>2. CASE Receive
    <2> DEFINE message == Head(down)
    <2>1. message \in FromEngine
      BY <1>2 DEF Receive, ConnectionOK
    <2> HIDE DEF message
    <2>2. CASE message.type = "step"
      <3>1. message.step \in 0..STEPS
        BY <2>1, <2>2, Received
      <3>2. seen' = Append(seen, message.step) /\ UNCHANGED <<socket, outcome, stage, stored>>
        BY <1>2, <2>2 DEF Receive, message
      <3> QED BY <1>2, <3>1, <3>2 DEF Receive, EditorOK
    <2>3. CASE message.type # "step"
      <3>1. message.type = "done" => message.result \in Result
        BY <2>1, Received
      <3>2. message.type \in {"done", "error", "close"}
        BY <2>1, <2>3, EngineMessages
      <3>3. UNCHANGED seen /\ \E with \in Result \cup {Lost} : Settle(with)
        BY <1>2, <2>3, <3>1, <3>2 DEF Receive, message
      <3> QED BY <1>2, <3>3 DEF Receive, Settle, EditorOK
    <2> QED BY <2>2, <2>3
  <1>3. CASE ConnectionLost \/ Flush
    BY <1>3 DEF ConnectionLost, Flush, Settle, EditorOK
  <1>4. CASE StoreRun \/ RunEnds \/ StopRun
    <2>1. <<>> \in Seq(LiveEdit)
      BY EmptyIsSeq
    <2>2. stage' \in {stage, "storing", "ended"} /\ liveEdits' \in {liveEdits, <<>>}
      BY <1>4 DEF StoreRun, RunEnds, StopRun
    <2>3. stops' \in 0..MaxStops
      BY <1>4 DEF StoreRun, RunEnds, StopRun, EditorOK
    <2>4. UNCHANGED <<socket, seen, shown, outcome, stored, edits>>
      BY <1>4 DEF StoreRun, RunEnds, StopRun
    <2> QED BY <2>1, <2>2, <2>3, <2>4 DEF EditorOK
  <1>5. CASE SetParameter
    <2> DEFINE entry == [edit |-> edits', t |-> shown]
    <2>1. edits' \in 1..MaxEdits /\ entry \in LiveEdit
      BY <1>5 DEF SetParameter, EditorOK, LiveEdit
    <2>2. liveEdits' = IF SameTime THEN [liveEdits EXCEPT ![Len(liveEdits)] = entry]
                                   ELSE Append(liveEdits, entry)
      BY <1>5 DEF SetParameter
    <2> HIDE DEF entry
    <2>3. liveEdits' \in Seq(LiveEdit)
      BY <2>1, <2>2 DEF EditorOK, SameTime
    <2> QED BY <1>5, <2>1, <2>3 DEF SetParameter, EditorOK
  <1>6. CASE UNCHANGED editor
    BY <1>6 DEF editor, EditorOK
  <1>7. Handler \/ Solver \/ LinkBreaks \/ UNCHANGED vars => UNCHANGED editor
    BY DEF Handler, Accept, NeverStarts, ReceiveControl, ReceiveFails, RunCallback, SendEvent,
           SendResult, Solver, Begin, Poll, Solve, PacePoll, PaceOver, PaceCancelled, Record,
           Return, Raise, LinkBreaks, vars
  <1> QED BY <1>1, <1>2, <1>3, <1>4, <1>5, <1>6, <1>7 DEF Next, Editor, User

LEMMA ConnectionTypes ==
    ASSUME TypeOK, [Next]_vars
    PROVE  ConnectionOK'
  <1> USE StepsAssumption, BoundsAssumption
  <1> EditorOK /\ ConnectionOK /\ EngineOK /\ ThreadOK
    BY DEF TypeOK
  <1>1. ASSUME NEW message \in FromEditor PROVE Append(up, message) \in Seq(FromEditor)
    BY DEF ConnectionOK
  <1>2. ASSUME NEW message \in FromEngine PROVE Append(down, message) \in Seq(FromEngine)
    BY DEF ConnectionOK
  <1>3. /\ up # <<>> => Tail(up) \in Seq(FromEditor)
        /\ down # <<>> => Tail(down) \in Seq(FromEngine)
    BY DEF ConnectionOK
  <1>4. CASE Opens
    BY <1>1, <1>4, ControlMessages DEF Opens, ConnectionOK
  <1>5. CASE Receive
    BY <1>3, <1>5 DEF Receive, ConnectionOK
  <1>6. CASE StopRun \/ SetParameter
    <2>1. PICK message \in FromEditor : Send(message)
      BY <1>6, ControlMessages DEF StopRun, SetParameter, EditorOK
    <2>2. UNCHANGED <<down, link>>
      BY <1>6 DEF StopRun, SetParameter
    <2> QED BY <1>1, <2>1, <2>2 DEF Send, ConnectionOK
  <1>7. CASE LinkBreaks
    BY <1>7 DEF LinkBreaks, ConnectionOK
  <1>8. CASE Accept
    <2>1. Error \in FromEngine /\ Done([status |-> "failed", points |-> <<>>]) \in FromEngine
      BY EngineMessages, EmptyIsSeq DEF Result
    <2> QED BY <1>2, <1>3, <1>8, <2>1 DEF Accept, Reply, ConnectionOK
  <1>9. CASE ReceiveControl
    BY <1>3, <1>9 DEF ReceiveControl, ConnectionOK
  <1>10. CASE SendEvent
    <2>1. Head(events) \in FromEngine
      BY <1>10, EngineMessages DEF SendEvent, EngineOK
    <2> QED BY <1>2, <1>10, <2>1 DEF SendEvent, Reply, ConnectionOK
  <1>11. CASE SendResult
    <2>1. (IF result = None THEN Close ELSE Done(result)) \in FromEngine
      BY EngineMessages DEF ThreadOK
    <2> QED BY <1>2, <1>11, <2>1 DEF SendResult, Reply, ConnectionOK
  <1>12. CASE UNCHANGED connection
    BY <1>12 DEF connection, ConnectionOK
  <1>13. \/ ConnectionLost \/ Flush \/ StoreRun \/ RunEnds \/ NeverStarts \/ ReceiveFails
         \/ RunCallback \/ Solver \/ UNCHANGED vars
         => UNCHANGED connection
    BY DEF ConnectionLost, Flush, StoreRun, RunEnds, NeverStarts, ReceiveFails, RunCallback,
           Solver, Begin, Poll, Solve, PacePoll, PaceOver, PaceCancelled, Record, Return, Raise,
           vars, connection
  <1> QED BY <1>4, <1>5, <1>6, <1>7, <1>8, <1>9, <1>10, <1>11, <1>12, <1>13
          DEF Next, Editor, User, Handler

LEMMA EngineTypes ==
    ASSUME TypeOK, StartInv, HandlerInv, [Next]_vars
    PROVE  EngineOK'
  <1> USE StepsAssumption, BoundsAssumption
  <1> ConnectionOK /\ EngineOK /\ ThreadOK
    BY DEF TypeOK
  <1>1. ASSUME NEW message \in Controls PROVE Append(pending, message) \in Seq(Controls)
    BY DEF EngineOK
  <1>2. ASSUME NEW call \in StepEvents \cup {Returned}
        PROVE  Append(calls, call) \in Seq(StepEvents \cup {Returned})
    BY DEF EngineOK
  <1>3. CASE Accept \/ NeverStarts
    BY <1>3 DEF Accept, NeverStarts, EngineOK
  <1>4. CASE ReceiveControl
    <2>1. Head(up) \in FromEditor /\ Head(up) = up[1] /\ 1 \in DOMAIN up
      BY <1>4 DEF ReceiveControl, ConnectionOK
    <2>2. Head(up) \in Controls
      BY <1>4, <2>1, ControlMessages DEF ReceiveControl, StartInv, HandlerInv
    <2> QED BY <1>1, <1>4, <2>2 DEF ReceiveControl, EngineOK
  <1>5. CASE ReceiveFails
    BY <1>1, <1>5, ControlMessages DEF ReceiveFails, OnDisconnect, EngineOK
  <1>6. CASE RunCallback
    <2>1. Head(calls) \in StepEvents \cup {Returned} /\ Tail(calls) \in Seq(StepEvents \cup {Returned})
      BY <1>6 DEF RunCallback, EngineOK
    <2>2. Head(calls) # Returned => Append(events, Head(calls)) \in Seq(StepEvents)
      BY <2>1 DEF EngineOK
    <2> QED BY <1>6, <2>1, <2>2 DEF RunCallback, EngineOK
  <1>7. CASE SendEvent
    <2>1. Tail(events) \in Seq(StepEvents)
      BY <1>7 DEF SendEvent, EngineOK
    <2> QED BY <1>1, <1>7, <2>1, ControlMessages DEF SendEvent, EngineOK
  <1>8. CASE SendResult
    BY <1>8 DEF SendResult, EngineOK
  <1>9. CASE Poll \/ PacePoll
    BY <1>9, EmptyIsSeq DEF Poll, PacePoll, Control, EngineOK
  <1>10. CASE Record
    <2>1. StepEvent(step) \in StepEvents
      BY EngineMessages DEF ThreadOK
    <2> QED BY <1>2, <1>10, <2>1 DEF Record, Emit, EngineOK
  <1>11. CASE Return \/ Raise
    BY <1>2, <1>11 DEF Return, Raise, Emit, EngineOK
  <1>12. CASE UNCHANGED engine
    BY <1>12 DEF engine, EngineOK
  <1>13. Editor \/ User \/ LinkBreaks \/ Begin \/ Solve \/ PaceOver \/ PaceCancelled
         \/ UNCHANGED vars => UNCHANGED engine
    BY DEF Editor, User, Opens, Receive, ConnectionLost, Flush, StoreRun, RunEnds, StopRun,
           SetParameter, LinkBreaks, Begin, Solve, PaceOver, PaceCancelled, vars
  <1> QED BY <1>3, <1>4, <1>5, <1>6, <1>7, <1>8, <1>9, <1>10, <1>11, <1>12, <1>13
          DEF Next, Handler, Solver

LEMMA ThreadTypes ==
    ASSUME TypeOK, [Next]_vars
    PROVE  ThreadOK'
  <1> USE StepsAssumption, BoundsAssumption
  <1> EngineOK /\ ThreadOK
    BY DEF TypeOK
  <1>1. CASE Accept
    BY <1>1 DEF Accept, ThreadOK
  <1>2. CASE Begin \/ Solve \/ PaceOver \/ PaceCancelled \/ Raise
    BY <1>2 DEF Begin, Solve, PaceOver, PaceCancelled, Raise, Goto, ThreadOK
  <1>3. CASE Poll \/ PacePoll
    <2>1. applied \o pending \in Seq(Controls)
      BY DEF EngineOK, ThreadOK
    <2>2. (cancelled \/ StopAsked) \in BOOLEAN
      BY DEF ThreadOK, StopAsked
    <2> QED BY <1>3, <2>1, <2>2 DEF Poll, PacePoll, Control, Goto, ThreadOK
  <1>4. CASE Record
    BY <1>4 DEF Record, LastStep, Goto, ThreadOK
  <1>5. CASE Return
    <2>1. PICK status \in {Status, "failed"} : result' = [status |-> status, points |-> times]
      BY <1>5 DEF Return
    <2>2. status \in {"success", "cancelled", "failed"}
      BY <2>1 DEF Status
    <2>3. result' \in Result
      BY <2>1, <2>2 DEF Result, ThreadOK
    <2> QED BY <1>5, <2>3 DEF Return, Goto, ThreadOK
  <1>6. CASE UNCHANGED thread
    BY <1>6 DEF thread, ThreadOK
  <1>7. \/ Editor \/ User \/ LinkBreaks \/ NeverStarts \/ ReceiveControl \/ ReceiveFails
        \/ RunCallback \/ SendEvent \/ SendResult \/ UNCHANGED vars
        => UNCHANGED thread
    BY DEF Editor, User, Opens, Receive, ConnectionLost, Flush, StoreRun, RunEnds, StopRun,
           SetParameter, LinkBreaks, NeverStarts, ReceiveControl, ReceiveFails, RunCallback,
           SendEvent, SendResult, vars
  <1> QED BY <1>1, <1>2, <1>3, <1>4, <1>5, <1>6, <1>7 DEF Next, Handler, Solver

LEMMA HistoryTypes ==
    ASSUME TypeOK, [Next]_vars
    PROVE  HistoryOK'
  <1> HistoryOK /\ EditorOK
    BY DEF TypeOK
  <1>1. CASE StopRun
    BY <1>1 DEF StopRun, HistoryOK
  <1>2. CASE SetParameter
    BY <1>2 DEF SetParameter, EditorOK, HistoryOK
  <1>3. CASE UNCHANGED history
    BY <1>3 DEF history, HistoryOK
  <1>4. Editor \/ Handler \/ Solver \/ LinkBreaks \/ UNCHANGED vars => UNCHANGED history
    BY DEF Editor, Opens, Receive, ConnectionLost, Flush, StoreRun, RunEnds, Handler, Accept,
           NeverStarts, ReceiveControl, ReceiveFails, RunCallback, SendEvent, SendResult, Solver,
           Begin, Poll, Solve, PacePoll, PaceOver, PaceCancelled, Record, Return, Raise,
           LinkBreaks, vars
  <1> QED BY <1>1, <1>2, <1>3, <1>4 DEF Next, User

LEMMA TypeStep ==
    ASSUME TypeOK, StartInv, HandlerInv, [Next]_vars
    PROVE  TypeOK'
  BY EditorTypes, ConnectionTypes, EngineTypes, ThreadTypes, HistoryTypes DEF TypeOK

-----------------------------------------------------------------------------
(* The handler and the solver.                                              *)

\* What a message is sent on: what was there stays, and it comes last.
LEMMA Appended ==
    ASSUME NEW S, NEW s \in Seq(S), NEW x \in S
    PROVE  /\ Append(s, x) \in Seq(S) /\ Append(s, x) # <<>>
           /\ Len(Append(s, x)) = Len(s) + 1 /\ DOMAIN Append(s, x) = 1..(Len(s) + 1)
           /\ \A i \in 1..Len(s) : Append(s, x)[i] = s[i]
           /\ Append(s, x)[Len(s) + 1] = x
  OBVIOUS

LEMMA Taken ==
    ASSUME NEW S, NEW s \in Seq(S), s # <<>>
    PROVE  /\ Tail(s) \in Seq(S) /\ Len(s) \in Nat /\ Len(s) > 0
           /\ Head(s) \in S /\ Head(s) = s[1]
           /\ Len(Tail(s)) = Len(s) - 1 /\ DOMAIN Tail(s) = 1..(Len(s) - 1)
           /\ \A i \in 1..(Len(s) - 1) : Tail(s)[i] = s[i + 1]
  OBVIOUS

\* What ws.onmessage does with a step, and with the message that ends the run.
LEMMA ReceiveCases ==
    ASSUME TypeOK, Receive
    PROVE  /\ socket = "open" /\ link = "up" /\ down # <<>> /\ down' = Tail(down)
           /\ Head(down) \in FromEngine
           /\ \/ /\ Head(down).type = "step"
                 /\ seen' = Append(seen, Head(down).step)
                 /\ UNCHANGED <<socket, outcome, stage, stored>>
              \/ /\ Head(down).type # "step"
                 /\ UNCHANGED seen
                 /\ Settle(IF Head(down).type = "done" THEN Head(down).result ELSE Lost)
  <1> DEFINE message == Head(down)
  <1>1. socket = "open" /\ link = "up" /\ down # <<>> /\ down' = Tail(down)
    BY DEF Receive
  <1>2. message \in FromEngine
    BY <1>1 DEF TypeOK, ConnectionOK
  <1> HIDE DEF message
  <1>3. message.type \in {"step", "done", "error", "close"}
    BY <1>2, EngineMessages
  <1>4. CASE message.type = "step"
    BY <1>1, <1>2, <1>4 DEF Receive, message
  <1>5. CASE message.type = "done"
    BY <1>1, <1>2, <1>5 DEF Receive, message
  <1>6. CASE message.type \in {"error", "close"}
    BY <1>1, <1>2, <1>6 DEF Receive, message
  <1> QED BY <1>3, <1>4, <1>5, <1>6

LEMMA StartStep ==
    ASSUME TypeOK, StartInv, HandlerInv, [Next]_vars
    PROVE  StartInv'
  <1> EditorOK /\ ConnectionOK /\ EngineOK
    BY DEF TypeOK
  <1>1. CASE Opens
    <2>1. up' = <<Start>> /\ handler = "accepting" /\ UNCHANGED <<down, link, handler>>
      BY <1>1 DEF Opens, StartInv, engine
    <2>2. DOMAIN up' = {1} /\ up'[1] = Start /\ up' # <<>>
      BY <2>1
    <2> QED BY <1>1, <2>1, <2>2 DEF Opens, StartInv
  <1>2. CASE Receive \/ ConnectionLost
    <2>1. socket # "connecting" \/ link = "broken"
      BY <1>2 DEF Receive, ConnectionLost
    <2>2. socket' # "connecting"
      BY <1>2, ReceiveCases DEF ConnectionLost, Settle
    <2>3. /\ UNCHANGED <<up, link, handler>>
          /\ link = "broken" => UNCHANGED down
          /\ socket = "connecting" => link = "broken"
      BY <1>2, <2>1 DEF Receive, ConnectionLost, connection, engine
    <2> QED BY <2>2, <2>3 DEF StartInv
  <1>3. CASE StopRun \/ SetParameter
    <2>1. PICK message \in Controls : Send(message)
      <3>1. SetParameter => edits' \in 1..MaxEdits
        BY BoundsAssumption DEF SetParameter, EditorOK
      <3>2. StopRun => Send(Cancel)
        BY DEF StopRun
      <3>3. SetParameter => Send(SetParam(edits'))
        BY DEF SetParameter
      <3> QED BY <1>3, <3>1, <3>2, <3>3, ControlMessages
    <2>2. UNCHANGED <<socket, down, link, handler>>
      BY <1>3 DEF StopRun, SetParameter, engine
    <2>3. CASE socket = "open" /\ link = "up"
      <3>1. up' = Append(up, message) /\ message \in FromEditor /\ message # Start
        BY <2>1, <2>3, ControlMessages DEF Send
      <3>2. /\ up' # <<>> /\ DOMAIN up' = 1..(Len(up) + 1) /\ up'[Len(up) + 1] = message
            /\ \A i \in 1..Len(up) : up'[i] = up[i]
            /\ Len(up) \in Nat /\ DOMAIN up = 1..Len(up)
        BY <3>1, Appended DEF ConnectionOK
      <3>3. handler = "accepting" => Len(up) > 0
        BY <2>3, <3>1 DEF StartInv, ConnectionOK
      <3>4. ASSUME NEW i \in DOMAIN up'
            PROVE  up'[i] = Start <=> i = 1 /\ handler = "accepting"
        <4>1. CASE i = Len(up) + 1
          BY <3>1, <3>2, <3>3, <4>1
        <4>2. CASE i \in DOMAIN up
          BY <3>2, <4>2 DEF StartInv
        <4> QED BY <3>2, <4>1, <4>2
      <3> QED BY <2>2, <2>3, <3>2, <3>4 DEF StartInv
    <2>4. CASE ~(socket = "open" /\ link = "up")
      BY <2>1, <2>2, <2>4 DEF Send, StartInv
    <2> QED BY <2>3, <2>4
  <1>4. CASE LinkBreaks
    BY <1>4 DEF LinkBreaks, StartInv, editor, engine
  <1>5. CASE Accept \/ ReceiveControl
    <2>1. up # <<>> /\ up' = Tail(up) /\ UNCHANGED <<socket, link>>
      BY <1>5 DEF Accept, ReceiveControl, editor
    <2>2. link = "up" /\ handler' # "accepting"
      BY <1>5, <2>1 DEF Accept, ReceiveControl, StartInv, HandlerInv, ConnectionOK
    <2>3. socket # "connecting"
      BY <2>1 DEF StartInv
    <2>4. ASSUME NEW i \in DOMAIN up' PROVE up'[i] # Start
      <3>1. i \in 1..(Len(up) - 1) /\ up'[i] = up[i + 1] /\ Len(up) \in Nat
        BY <2>1, Taken DEF ConnectionOK
      <3>2. i + 1 \in DOMAIN up /\ i + 1 # 1
        BY <3>1 DEF ConnectionOK
      <3> QED BY <3>1, <3>2 DEF StartInv
    <2> QED BY <2>1, <2>2, <2>3, <2>4 DEF StartInv
  <1>6. CASE NeverStarts
    BY <1>6 DEF NeverStarts, StartInv, connection, editor
  <1>7. CASE SendEvent \/ SendResult
    BY <1>7 DEF SendEvent, SendResult, Reply, StartInv, HandlerInv, editor
  <1>8. CASE UNCHANGED <<socket, connection, handler>>
    BY <1>8 DEF StartInv, connection
  <1>9. \/ Flush \/ StoreRun \/ RunEnds \/ ReceiveFails \/ RunCallback \/ Solver
        \/ UNCHANGED vars
        => UNCHANGED <<socket, connection, handler>>
    BY DEF Flush, StoreRun, RunEnds, ReceiveFails, RunCallback, Solver, Begin, Poll, Solve,
           PacePoll, PaceOver, PaceCancelled, Record, Return, Raise, vars, editor, engine
  <1> QED BY <1>1, <1>2, <1>3, <1>4, <1>5, <1>6, <1>7, <1>8, <1>9
          DEF Next, Editor, User, Handler

LEMMA HandlerStep ==
    ASSUME TypeOK, StartInv, HandlerInv, CallsInv, [Next]_vars
    PROVE  HandlerInv'
  <1> EngineOK /\ ThreadOK
    BY DEF TypeOK
  <1>1. CASE Accept
    BY <1>1 DEF Accept, HandlerInv
  <1>2. CASE NeverStarts
    BY <1>2 DEF NeverStarts, HandlerInv, connection, thread
  <1>3. CASE ReceiveFails
    BY <1>3 DEF ReceiveFails, HandlerInv, connection, thread
  <1>4. CASE RunCallback
    <2>1. calls # <<>> /\ solver # "none" /\ UNCHANGED <<link, handler, receiving, client_gone, solver>>
      BY <1>4 DEF RunCallback, HandlerInv, connection, thread
    <2>2. handler # "closed"
      BY <2>1 DEF CallsInv, HandlerInv
    <2> QED BY <2>1, <2>2 DEF HandlerInv
  <1>5. CASE SendEvent
    <2>1. handler = "running" /\ UNCHANGED <<link, handler, receiving, solver>>
      BY <1>5 DEF SendEvent, thread
    <2>2. client_gone' => link' = "broken"
      BY <1>5 DEF SendEvent, HandlerInv
    <2>3. solver' # "none" /\ handler' = "running"
      BY <2>1 DEF HandlerInv
    <2>4. link' = "up" => receiving'
      BY <2>1 DEF HandlerInv
    <2> QED BY <2>2, <2>3, <2>4 DEF HandlerInv
  <1>6. CASE SendResult
    BY <1>6 DEF SendResult, AllSent, HandlerInv, thread
  <1>7. CASE LinkBreaks
    BY <1>7 DEF LinkBreaks, HandlerInv, engine, thread
  <1>8. CASE Solver
    <2>1. solver # "none" /\ solver' # "none" /\ handler = "running"
      <3>1. solver \notin {"none", "ended"} /\ solver' # "none"
        BY <1>8 DEF Solver, Begin, Poll, Solve, PacePoll, PaceOver, PaceCancelled, Record,
                    Return, Raise, Goto
      <3> QED BY <3>1 DEF HandlerInv, CallsInv, EngineOK
    <2>2. UNCHANGED <<link, handler, receiving, client_gone>>
      BY <1>8 DEF Solver, Begin, Poll, Solve, PacePoll, PaceOver, PaceCancelled, Record, Return,
                  Raise, Goto, connection, engine
    <2> QED BY <2>1, <2>2 DEF HandlerInv
  <1>9. CASE UNCHANGED <<link, handler, receiving, client_gone, calls, events, done, solver, times, result>>
    BY <1>9 DEF HandlerInv
  <1>10. Editor \/ User \/ ReceiveControl \/ UNCHANGED vars
         => UNCHANGED <<link, handler, receiving, client_gone, calls, events, done, solver, times, result>>
    BY DEF Editor, User, Opens, Receive, ConnectionLost, Flush, StoreRun, RunEnds, StopRun,
           SetParameter, ReceiveControl, vars, connection, engine, thread
  <1> QED BY <1>1, <1>2, <1>3, <1>4, <1>5, <1>6, <1>7, <1>8, <1>9, <1>10 DEF Next, Handler

LEMMA CallsStep ==
    ASSUME TypeOK, HandlerInv, CallsInv, [Next]_vars
    PROVE  CallsInv'
  <1> EngineOK /\ ThreadOK
    BY DEF TypeOK
  <1>1. CASE Accept
    <2>1. handler = "accepting" /\ solver' # "ended" /\ UNCHANGED <<calls, done>>
      BY <1>1 DEF Accept, HandlerInv
    <2> QED BY <2>1 DEF CallsInv, HandlerInv
  <1>2. CASE RunCallback
    <2> DEFINE n == Len(calls)
    <2>1. /\ calls' = Tail(calls) /\ UNCHANGED solver /\ n \in Nat /\ n > 0
          /\ Head(calls) = calls[1] /\ DOMAIN calls = 1..n
          /\ Len(calls') = n - 1 /\ DOMAIN calls' = 1..(n - 1)
          /\ \A i \in 1..(n - 1) : calls'[i] = calls[i + 1]
      BY <1>2, Taken DEF RunCallback, EngineOK, thread
    <2>2. calls[1] = Returned <=> solver = "ended" /\ n = 1
      BY <2>1 DEF CallsInv
    <2>3. \A i \in DOMAIN calls' : calls'[i] = Returned <=> solver' = "ended" /\ i = Len(calls')
      BY <2>1 DEF CallsInv
    <2>4. ~done
      BY <1>2 DEF RunCallback, CallsInv
    <2>5. CASE calls[1] = Returned
      <3>1. done' /\ calls' = <<>>
        BY <1>2, <2>1, <2>2, <2>5 DEF RunCallback, EngineOK
      <3> QED BY <2>1, <2>2, <2>3, <2>5, <3>1 DEF CallsInv
    <2>6. CASE calls[1] # Returned
      <3>1. ~done'
        BY <1>2, <2>1, <2>4, <2>6 DEF RunCallback
      <3>2. solver = "ended" => calls' # <<>>
        BY <2>1, <2>2, <2>6
      <3> QED BY <2>1, <2>3, <3>1, <3>2 DEF CallsInv
    <2> QED BY <2>5, <2>6
  <1>3. CASE Record
    <2>1. solver # "ended" /\ solver' # "ended" /\ UNCHANGED done /\ ~done
      BY <1>3 DEF Record, Goto, CallsInv
    <2>2. UNCHANGED calls \/ calls' = Append(calls, StepEvent(step))
      BY <1>3 DEF Record, Emit
    <2>3. StepEvent(step) \in StepEvents /\ StepEvent(step) # Returned
      BY EngineMessages DEF ThreadOK
    <2>4. \A i \in DOMAIN calls' : calls'[i] # Returned
      <3>1. CASE UNCHANGED calls
        BY <2>1, <3>1 DEF CallsInv
      <3>2. CASE calls' = Append(calls, StepEvent(step))
        BY <2>1, <2>3, <3>2 DEF CallsInv, EngineOK
      <3> QED BY <2>2, <3>1, <3>2
    <2> QED BY <2>1, <2>4 DEF CallsInv
  <1>4. CASE Return \/ Raise
    <2>1. /\ solver # "ended" /\ solver' = "ended" /\ calls' = Append(calls, Returned)
          /\ UNCHANGED done
      BY <1>4 DEF Return, Raise, Goto, Emit
    <2>2. /\ calls' # <<>> /\ Len(calls') = Len(calls) + 1 /\ DOMAIN calls' = 1..(Len(calls) + 1)
          /\ \A i \in 1..Len(calls) : calls'[i] = calls[i]
          /\ calls'[Len(calls) + 1] = Returned
          /\ Len(calls) \in Nat /\ DOMAIN calls = 1..Len(calls)
      BY <2>1, Appended DEF EngineOK
    <2>3. \A i \in DOMAIN calls' : calls'[i] = Returned <=> i = Len(calls')
      BY <2>1, <2>2 DEF CallsInv
    <2> QED BY <2>1, <2>2, <2>3 DEF CallsInv
  <1>5. CASE Begin \/ Poll \/ Solve \/ PacePoll \/ PaceOver \/ PaceCancelled
    <2>1. solver # "ended" /\ solver' # "ended" /\ UNCHANGED <<calls, done>>
      BY <1>5 DEF Begin, Poll, Solve, PacePoll, PaceOver, PaceCancelled, Goto, engine
    <2> QED BY <2>1 DEF CallsInv
  <1>6. CASE UNCHANGED <<calls, done, solver>>
    BY <1>6 DEF CallsInv
  <1>7. \/ Editor \/ User \/ LinkBreaks \/ NeverStarts \/ ReceiveControl \/ ReceiveFails
        \/ SendEvent \/ SendResult \/ UNCHANGED vars
        => UNCHANGED <<calls, done, solver>>
    BY DEF Editor, User, Opens, Receive, ConnectionLost, Flush, StoreRun, RunEnds, StopRun,
           SetParameter, LinkBreaks, NeverStarts, ReceiveControl, ReceiveFails, SendEvent,
           SendResult, vars, engine, thread
  <1> QED BY <1>1, <1>2, <1>3, <1>4, <1>5, <1>6, <1>7 DEF Next, Handler, Solver

-----------------------------------------------------------------------------
(* The recorded steps and the result.                                       *)

LEMMA TimesStep ==
    ASSUME TypeOK, HandlerInv, TimesInv, [Next]_vars
    PROVE  TimesInv'
  <1> ThreadOK /\ step \in Nat /\ STEPS \in Nat /\ Len(times) \in Nat /\ DOMAIN times = 1..Len(times)
    BY StepsAssumption DEF TypeOK, ThreadOK
  <1>1. CASE Accept
    <2>1. solver = "none" /\ times = <<>> /\ UNCHANGED <<times, step, cut>> /\ solver' \in {"none", "start"}
      BY <1>1 DEF Accept, HandlerInv
    <2> QED BY <2>1 DEF TimesInv, Unrecorded
  <1>2. CASE Begin \/ Solve \/ PaceOver \/ PaceCancelled
    <2>1. solver \in Unrecorded /\ UNCHANGED <<times, step>>
      BY <1>2 DEF Begin, Solve, PaceOver, PaceCancelled, Unrecorded
    <2>2. \/ solver' \in Unrecorded /\ UNCHANGED cut
          \/ solver' = "return" /\ cut' = "failed"
      BY <1>2 DEF Begin, Solve, PaceOver, PaceCancelled, Unrecorded, Goto
    <2> QED BY <2>1, <2>2 DEF TimesInv, Unrecorded
  <1>3. CASE Poll \/ PacePoll
    <2>1. solver \in Unrecorded /\ UNCHANGED <<times, step>>
      BY <1>3 DEF Poll, PacePoll, Unrecorded
    <2>2. \/ solver' \in Unrecorded /\ UNCHANGED cut
          \/ solver' = "return" /\ cut' = "stopped"
      BY <1>3 DEF Poll, PacePoll, Unrecorded, Goto
    <2> QED BY <2>1, <2>2 DEF TimesInv, Unrecorded
  <1>4. CASE Record
    <2>1. solver = "record" /\ UNCHANGED cut /\ cut = "no"
      BY <1>4 DEF Record, TimesInv, Unrecorded
    <2>2. \A i \in DOMAIN times : times[i] < step
      BY <2>1 DEF TimesInv, Unrecorded
    <2>3. \/ ~Recorded /\ times' = times
          \/ Recorded /\ times' = Append(times, step)
      BY <1>4 DEF Record
    <2>4. /\ \A i \in DOMAIN times' : times'[i] <= step
          /\ \A i, j \in DOMAIN times' : i < j => times'[i] < times'[j]
      <3>1. CASE times' = times
        BY <2>2, <3>1 DEF TimesInv, ThreadOK
      <3>2. CASE times' = Append(times, step)
        <4>1. /\ DOMAIN times' = 1..(Len(times) + 1) /\ times'[Len(times) + 1] = step
              /\ \A i \in 1..Len(times) : times'[i] = times[i]
          BY <3>2, Appended DEF ThreadOK
        <4>2. \A i \in 1..Len(times) : times[i] \in Nat
          BY DEF ThreadOK
        <4> QED BY <2>2, <4>1, <4>2 DEF TimesInv
      <3> QED BY <2>3, <3>1, <3>2
    <2>5. CASE LastStep
      <3>1. Recorded /\ solver' = "return" /\ step = STEPS
        BY <1>4, <2>5 DEF Record, Recorded, LastStep, Goto
      <3>2. Reached'
        BY <2>3, <3>1 DEF Reached, ThreadOK
      <3> QED BY <2>1, <2>4, <3>1, <3>2 DEF TimesInv, Unrecorded
    <2>6. CASE ~LastStep
      <3>1. solver' = "poll" /\ step' = step + 1
        BY <1>4, <2>6 DEF Record, Goto
      <3>2. \A i \in DOMAIN times' : times'[i] \in Int
        BY <2>3 DEF ThreadOK
      <3>3. \A i \in DOMAIN times' : times'[i] < step'
        BY <2>4, <3>1, <3>2
      <3> QED BY <2>1, <2>4, <3>1, <3>3 DEF TimesInv, Unrecorded
    <2> QED BY <2>5, <2>6
  <1>5. CASE Return \/ Raise
    <2>1. solver' = "ended" /\ UNCHANGED <<times, step, cut>>
      BY <1>5 DEF Return, Raise, Goto
    <2> QED BY <2>1 DEF TimesInv, Unrecorded
  <1>6. CASE UNCHANGED <<solver, times, step, cut>>
    BY <1>6 DEF TimesInv, Reached
  <1>7. \/ Editor \/ User \/ LinkBreaks \/ NeverStarts \/ ReceiveControl \/ ReceiveFails
        \/ RunCallback \/ SendEvent \/ SendResult \/ UNCHANGED vars
        => UNCHANGED <<solver, times, step, cut>>
    BY DEF Editor, User, Opens, Receive, ConnectionLost, Flush, StoreRun, RunEnds, StopRun,
           SetParameter, LinkBreaks, NeverStarts, ReceiveControl, ReceiveFails, RunCallback,
           SendEvent, SendResult, vars, thread
  <1> QED BY <1>1, <1>2, <1>3, <1>4, <1>5, <1>6, <1>7 DEF Next, Handler, Solver

\* The status that a returning solver gives its result is true of what it
\* recorded.
LEMMA ResultStep ==
    ASSUME TypeOK, CallsInv, HandlerInv, TimesInv, ResultInv, [Next]_vars
    PROVE  ResultInv'
  <1>1. CASE Accept
    <2>1. solver = "none" /\ UNCHANGED result
      BY <1>1 DEF Accept, HandlerInv
    <2> QED BY <2>1 DEF ResultInv
  <1>2. CASE Return
    <2>1. PICK status \in {Status, "failed"} :
              /\ cut = "failed" => status = "failed"
              /\ result' = [status |-> status, points |-> times]
      BY <1>2 DEF Return
    <2>2. solver = "return" /\ solver' = "ended" /\ times' = times
      BY <1>2 DEF Return, Goto
    <2>3. result'.status = status /\ result'.points = times'
      BY <2>1, <2>2
    <2>4. status = "success" => Reached
      BY <2>1, <2>2 DEF Status, TimesInv, TypeOK, ThreadOK
    <2>5. status = "cancelled" => ~Reached
      <3>1. SUFFICES ASSUME status = "cancelled", Reached PROVE FALSE
        OBVIOUS
      <3>2. cut = "stopped"
        BY <2>1, <3>1 DEF Status
      <3>3. Len(times) \in DOMAIN times
        BY <3>1 DEF Reached, TypeOK, ThreadOK
      <3>4. times[Len(times)] < step
        BY <3>2, <3>3 DEF TimesInv
      <3> QED BY <3>1, <3>4, StepsAssumption DEF Reached, TypeOK, ThreadOK
    <2> QED BY <2>2, <2>3, <2>4, <2>5 DEF ResultInv, Truthful, Reached
  <1>3. CASE Begin \/ Poll \/ Solve \/ PacePoll \/ PaceOver \/ PaceCancelled \/ Record \/ Raise
    <2>1. solver # "ended" /\ UNCHANGED result
      BY <1>3 DEF Begin, Poll, Solve, PacePoll, PaceOver, PaceCancelled, Record, Raise
    <2> QED BY <2>1 DEF ResultInv
  <1>4. CASE UNCHANGED <<solver, times, result>>
    BY <1>4 DEF ResultInv, Truthful, Reached
  <1>5. \/ Editor \/ User \/ LinkBreaks \/ NeverStarts \/ ReceiveControl \/ ReceiveFails
        \/ RunCallback \/ SendEvent \/ SendResult \/ UNCHANGED vars
        => UNCHANGED <<solver, times, result>>
    BY DEF Editor, User, Opens, Receive, ConnectionLost, Flush, StoreRun, RunEnds, StopRun,
           SetParameter, LinkBreaks, NeverStarts, ReceiveControl, ReceiveFails, RunCallback,
           SendEvent, SendResult, vars, thread
  <1> QED BY <1>1, <1>2, <1>3, <1>4, <1>5 DEF Next, Handler, Solver

-----------------------------------------------------------------------------
(* The recorded steps on their way to the editor.                           *)

LEMMA Lengths ==
    ASSUME TypeOK
    PROVE  /\ Len(seen) \in Nat /\ DOMAIN seen = 1..Len(seen)
           /\ Len(down) \in Nat /\ DOMAIN down = 1..Len(down)
           /\ Len(events) \in Nat /\ DOMAIN events = 1..Len(events)
           /\ Len(calls) \in Nat /\ DOMAIN calls = 1..Len(calls)
           /\ Len(times) \in Nat /\ DOMAIN times = 1..Len(times)
           /\ \A i \in 1..Len(times) : times[i] \in 0..STEPS
  <1>1. Len(seen) \in Nat /\ DOMAIN seen = 1..Len(seen)
    BY DEF TypeOK, EditorOK
  <1>2. Len(down) \in Nat /\ DOMAIN down = 1..Len(down)
    BY DEF TypeOK, ConnectionOK
  <1>3. /\ Len(events) \in Nat /\ DOMAIN events = 1..Len(events)
        /\ Len(calls) \in Nat /\ DOMAIN calls = 1..Len(calls)
    <2>1. events \in Seq(StepEvents) /\ calls \in Seq(StepEvents \cup {Returned})
      BY DEF TypeOK, EngineOK
    <2> QED BY <2>1
  <1>4. /\ Len(times) \in Nat /\ DOMAIN times = 1..Len(times)
        /\ \A i \in 1..Len(times) : times[i] \in 0..STEPS
    <2> DEFINE Steps == 0..STEPS
    <2>1. times \in Seq(Steps)
      BY DEF TypeOK, ThreadOK
    <2> HIDE DEF Steps
    <2>2. \A i \in 1..Len(times) : times[i] \in Steps
      BY <2>1
    <2> QED BY <2>1, <2>2 DEF Steps
  <1> QED BY <1>1, <1>2, <1>3, <1>4

LEMMA StepCallsNat ==
    ASSUME TypeOK, CallsInv
    PROVE  StepCalls \in Nat
  <1>1. solver = "ended" /\ ~done => Len(calls) > 0
    BY Lengths DEF CallsInv, TypeOK, EngineOK
  <1> QED BY <1>1, Lengths DEF StepCalls

\* What arrives next is the next step that was recorded, or, when the editor has
\* seen them all, the message that ends the run.
LEMMA Arrives ==
    ASSUME TypeOK, CallsInv, FlowInv, Receive
    PROVE  /\ handler # "accepting"
           /\ Head(down).type = "step" =>
                 /\ Len(seen) < Len(times)
                 /\ Head(down).step = times[Len(seen) + 1]
           /\ Head(down).type # "step" =>
                 /\ handler = "closed" /\ Len(seen) = Len(times)
                 /\ Head(down).type = "done" => Truthful(Head(down).result)
  <1>1. socket = "open" /\ link = "up" /\ down # <<>> /\ Head(down) = down[1] /\ Len(down) > 0
    BY ReceiveCases, Lengths DEF TypeOK, ConnectionOK
  <1>2. handler # "accepting"
    BY <1>1 DEF FlowInv
  <1>3. CASE handler = "running" \/ (handler = "closed" /\ Len(down) > 1)
    <2>1. Len(times) >= Len(seen) + 1 /\ down[1] = StepEvent(times[Len(seen) + 1])
      <3>1. CASE handler = "running"
        BY <1>1, <3>1, Lengths, StepCallsNat DEF FlowInv, Underway, Delivered, Carries
      <3>2. CASE handler = "closed" /\ Len(down) > 1
        BY <1>1, <3>2, Lengths DEF FlowInv, Underway, Delivered, Carries
      <3> QED BY <1>3, <3>1, <3>2
    <2>2. times[Len(seen) + 1] \in 0..STEPS
      BY <2>1, Lengths
    <2>3. Head(down).type = "step" /\ Head(down).step = times[Len(seen) + 1]
      BY <1>1, <2>1, <2>2, EngineMessages
    <2>4. Len(seen) < Len(times)
      BY <2>1, Lengths
    <2> QED BY <1>2, <2>3, <2>4, Zenon
  <1>4. CASE handler = "closed" /\ Len(down) = 1
    <2>1. Len(seen) = Len(times)
      BY <1>1, <1>4, Lengths DEF FlowInv, Delivered
    <2>2. Head(down) \in {Error, Close} \/ (Head(down).type = "done" /\ Truthful(Head(down).result))
      BY <1>1, <1>4 DEF FlowInv, Delivered
    <2>3. Head(down).type # "step" /\ (Head(down).type = "done" => Truthful(Head(down).result))
      BY <2>2, EngineMessages
    <2> QED BY <1>2, <1>4, <2>1, <2>3
  <1>5. handler \in {"running", "closed"} /\ (Len(down) > 1 \/ Len(down) = 1)
    <2>1. handler \in {"accepting", "running", "closed"}
      BY DEF TypeOK, EngineOK
    <2> QED BY <1>1, <1>2, <2>1, Lengths
  <1> QED BY <1>3, <1>4, <1>5

LEMMA SeenStep ==
    ASSUME TypeOK, CallsInv, FlowInv, [Next]_vars
    PROVE  SeenInv'
  <1>1. CASE Receive
    <2>1. UNCHANGED times
      BY <1>1 DEF Receive, thread
    <2>2. CASE Head(down).type = "step"
      <3>1. /\ seen' = Append(seen, Head(down).step)
            /\ Len(seen) < Len(times) /\ Head(down).step = times[Len(seen) + 1]
        BY <1>1, <2>2, ReceiveCases, Arrives
      <3>2. times[Len(seen) + 1] \in 0..STEPS /\ seen \in Seq(0..STEPS)
        BY <3>1, Lengths DEF TypeOK, EditorOK
      <3> DEFINE n == Len(seen)
      <3>3. /\ Len(seen') = n + 1 /\ DOMAIN seen' = 1..(n + 1) /\ n \in Nat
            /\ \A i \in 1..n : seen'[i] = seen[i]
            /\ seen'[n + 1] = times[n + 1]
        BY <3>1, <3>2, Appended, Lengths
      <3>4. \A i \in 1..n : seen[i] = times[i]
        BY Lengths DEF FlowInv, SeenInv
      <3> HIDE DEF n
      <3> QED BY <2>1, <3>1, <3>3, <3>4, Lengths DEF SeenInv, n
    <2>3. CASE Head(down).type # "step"
      BY <1>1, <2>1, <2>3, ReceiveCases DEF FlowInv, SeenInv
    <2> QED BY <2>2, <2>3
  <1>2. CASE Record
    <2>1. UNCHANGED seen /\ (times' = times \/ times' = Append(times, step))
      BY <1>2 DEF Record, editor
    <2>2. Len(times') >= Len(times) /\ \A i \in 1..Len(times) : times'[i] = times[i]
      BY <2>1, Lengths, Appended DEF TypeOK, ThreadOK
    <2>3. Len(times') \in Nat
      BY <2>1, Lengths DEF TypeOK, ThreadOK
    <2> QED BY <2>1, <2>2, <2>3, Lengths DEF FlowInv, SeenInv
  <1>3. CASE UNCHANGED <<seen, times>>
    BY <1>3 DEF FlowInv, SeenInv
  <1>4. \/ Opens \/ ConnectionLost \/ Flush \/ StoreRun \/ RunEnds \/ User \/ Handler \/ LinkBreaks
        \/ Begin \/ Poll \/ Solve \/ PacePoll \/ PaceOver \/ PaceCancelled \/ Return \/ Raise
        \/ UNCHANGED vars
        => UNCHANGED <<seen, times>>
    BY DEF Opens, ConnectionLost, Flush, StoreRun, RunEnds, User, StopRun, SetParameter,
           Handler, Accept, NeverStarts, ReceiveControl, ReceiveFails, RunCallback, SendEvent,
           SendResult, LinkBreaks, Begin, Poll, Solve, PacePoll, PaceOver, PaceCancelled, Return,
           Raise, vars, editor, thread
  <1> QED BY <1>1, <1>2, <1>3, <1>4 DEF Next, Editor, Solver

LEMMA UnderwayStep ==
    ASSUME TypeOK, StartInv, HandlerInv, CallsInv, FlowInv, [Next]_vars, 
           link' = "up", handler' = "running"
    PROVE  Underway'
  <1> DEFINE s == Len(seen)  d == Len(down)  e == Len(events)  t == Len(times)
  <1>1. link = "up" /\ ~client_gone
    BY DEF Next, Editor, Opens, Receive, ConnectionLost, Flush, StoreRun, RunEnds, User, StopRun,
           SetParameter, Handler, Accept, NeverStarts, ReceiveControl, ReceiveFails,
           RunCallback, SendEvent, SendResult, Solver, Begin, Poll, Solve, PacePoll, PaceOver,
           PaceCancelled, Record, Return, Raise, LinkBreaks, vars, connection, HandlerInv
  <1>2. s \in Nat /\ d \in Nat /\ e \in Nat /\ t \in Nat /\ StepCalls \in Nat /\ Len(calls) \in Nat
    BY Lengths, StepCallsNat
  <1>3. handler # "accepting" => handler = "running"
    BY DEF Next, Editor, Opens, Receive, ConnectionLost, Flush, StoreRun, RunEnds, User, StopRun,
           SetParameter, Handler, Accept, NeverStarts, ReceiveControl, ReceiveFails,
           RunCallback, SendEvent, SendResult, Solver, Begin, Poll, Solve, PacePoll, PaceOver,
           PaceCancelled, Record, Return, Raise, LinkBreaks, vars, engine
  <1>4. CASE handler = "accepting"
    <2>1. /\ seen = <<>> /\ down = <<>> /\ events = <<>> /\ calls = <<>> /\ times = <<>> /\ ~done
      BY <1>1, <1>4 DEF FlowInv, HandlerInv
    <2>2. Accept
      BY <1>4, <2>1 DEF Next, Editor, Opens, Receive, ConnectionLost, Flush, StoreRun, RunEnds, User,
             StopRun, SetParameter, Handler, NeverStarts, ReceiveControl, ReceiveFails,
             RunCallback, SendEvent, SendResult, Solver, Begin, Poll, Solve, PacePoll,
             PaceOver, PaceCancelled, Record, Return, Raise, LinkBreaks, vars, engine
    <2>3. UNCHANGED <<seen, down, events, calls, times, done>> /\ solver' = "start"
      BY <2>2 DEF Accept, editor
    <2> QED BY <2>1, <2>3 DEF Underway, Carries, StepCalls
  <1>5. CASE handler = "running"
    <2> DEFINE c == StepCalls
    <2>1. /\ t = s + d + e + c
          /\ \A i \in 1..d : down[i] = StepEvent(times[s + i])
          /\ \A i \in 1..e : events[i] = StepEvent(times[s + d + i])
          /\ \A i \in 1..c : calls[i] = StepEvent(times[s + d + e + i])
      BY <1>1, <1>5 DEF FlowInv, Underway, Carries
    <2>2. CASE Receive
      <3>1. Head(down).type = "step"
        BY <1>5, <2>2, Arrives
      <3>2. /\ down' = Tail(down) /\ down # <<>> /\ UNCHANGED <<events, calls, times, StepCalls>>
            /\ seen' = Append(seen, Head(down).step) /\ Head(down).step \in 0..STEPS
        BY <2>2, <3>1, ReceiveCases, Received DEF Receive, engine, thread, StepCalls
      <3>3. Len(seen') = s + 1
        BY <3>2 DEF TypeOK, EditorOK
      <3>4. Len(down') = d - 1 /\ \A i \in 1..(d - 1) : down'[i] = down[i + 1]
        BY <3>2, Taken DEF TypeOK, ConnectionOK
      <3> HIDE DEF s, d, e, t, c
      <3>5. \A i \in 1..(d - 1) : down'[i] = StepEvent(times[s + 1 + i])
        <4> SUFFICES ASSUME NEW i \in 1..(d - 1) PROVE down'[i] = StepEvent(times[s + 1 + i])
          OBVIOUS
        <4>1. i + 1 \in 1..d /\ s + (i + 1) = s + 1 + i
          BY <1>2 DEF s, d
        <4> QED BY <2>1, <3>4, <4>1
      <3>6. s + 1 + (d - 1) = s + d /\ t = (s + 1) + (d - 1) + e + c
        BY <1>2, <2>1 DEF s, d, e, t, c
      <3>7. Len(events)' = e /\ Len(times)' = t /\ StepCalls' = c
        BY <3>2 DEF e, t, c
      <3> QED BY <2>1, <3>2, <3>3, <3>4, <3>5, <3>6, <3>7 DEF Underway, Carries, s, d, e, t, c
    <2>3. CASE RunCallback
      <3>1. /\ calls # <<>> /\ calls' = Tail(calls) /\ ~done
            /\ UNCHANGED <<seen, down, times, solver>>
        BY <2>3 DEF RunCallback, CallsInv, editor, connection, thread
      <3>2. /\ Head(calls) = calls[1] /\ Len(calls) > 0 /\ Len(calls') = Len(calls) - 1
            /\ \A i \in 1..(Len(calls) - 1) : calls'[i] = calls[i + 1]
        BY <3>1, Taken DEF TypeOK, EngineOK
      <3>3. calls[1] = Returned <=> solver = "ended" /\ Len(calls) = 1
        BY <3>2, Lengths DEF CallsInv
      <3>4. CASE calls[1] = Returned
        <4>1. done' = TRUE /\ solver = "ended" /\ Len(calls) = 1
          BY <2>3, <3>2, <3>3, <3>4 DEF RunCallback
        <4>2. c = 0 /\ StepCalls' = 0
          BY <3>1, <3>2, <4>1 DEF StepCalls
        <4>3. UNCHANGED events
          BY <2>3, <3>2, <3>4 DEF RunCallback
        <4> QED BY <1>2, <2>1, <3>1, <4>2, <4>3 DEF Underway, Carries
      <3>5. CASE calls[1] # Returned
        <4>1. events' = Append(events, calls[1]) /\ UNCHANGED done /\ calls[1] \in StepEvents
          BY <2>3, <3>2, <3>5 DEF RunCallback, TypeOK, EngineOK
        <4>2. c > 0 /\ StepCalls' = c - 1 /\ c <= Len(calls)
          BY <1>2, <3>1, <3>2, <3>3, <3>5, <4>1 DEF StepCalls
        <4>3. /\ Len(events') = e + 1 /\ events'[e + 1] = calls[1]
              /\ \A i \in 1..e : events'[i] = events[i]
          BY <4>1, Appended DEF TypeOK, EngineOK
        <4> HIDE DEF s, d, e, t, c
        <4>4. \A i \in 1..(e + 1) : events'[i] = StepEvent(times[s + d + i])
          <5>1. calls[1] = StepEvent(times[s + d + e + 1])
            BY <1>2, <2>1, <4>2 DEF c
          <5>2. s + d + (e + 1) = s + d + e + 1
            BY <1>2 DEF s, d, e
          <5>3. \A i \in 1..(e + 1) : i = e + 1 \/ i \in 1..e
            BY <1>2 DEF e
          <5>4. \A i \in 1..e : events'[i] = StepEvent(times[s + d + i])
            BY <2>1, <4>3
          <5> QED BY <4>3, <5>1, <5>2, <5>3, <5>4
        <4>5. \A i \in 1..(c - 1) : calls'[i] = StepEvent(times[s + d + (e + 1) + i])
          <5> SUFFICES ASSUME NEW i \in 1..(c - 1)
                       PROVE  calls'[i] = StepEvent(times[s + d + (e + 1) + i])
            OBVIOUS
          <5>1. i \in 1..(Len(calls) - 1) /\ i + 1 \in 1..c
            BY <1>2, <4>2 DEF c
          <5>2. s + d + e + (i + 1) = s + d + (e + 1) + i
            BY <1>2 DEF s, d, e
          <5> QED BY <2>1, <3>2, <5>1, <5>2
        <4>6. t = s + d + (e + 1) + (c - 1)
          BY <1>2, <2>1 DEF s, d, e, t, c
        <4>7. Len(seen)' = s /\ Len(down)' = d /\ Len(times)' = t
          BY <3>1 DEF s, d, t
        <4> QED BY <2>1, <3>1, <4>2, <4>3, <4>4, <4>5, <4>6, <4>7 DEF Underway, Carries, s, d
      <3> QED BY <3>4, <3>5
    <2>4. CASE SendEvent
      <3>1. /\ events # <<>> /\ events' = Tail(events) /\ down' = Append(down, Head(events))
            /\ UNCHANGED <<seen, calls, times, StepCalls>>
        BY <1>1, <2>4 DEF SendEvent, Reply, editor, thread, StepCalls
      <3>2. /\ Head(events) = events[1] /\ e > 0 /\ Len(events') = e - 1 /\ Head(events) \in FromEngine
            /\ \A i \in 1..(e - 1) : events'[i] = events[i + 1]
        BY <3>1, Taken, EngineMessages DEF TypeOK, EngineOK
      <3>3. /\ Len(down') = d + 1 /\ down'[d + 1] = events[1]
            /\ \A i \in 1..d : down'[i] = down[i]
        BY <3>1, <3>2, Appended DEF TypeOK, ConnectionOK
      <3> HIDE DEF s, d, e, t, c
      <3>4. \A i \in 1..(d + 1) : down'[i] = StepEvent(times[s + i])
        <4>1. events[1] = StepEvent(times[s + d + 1])
          BY <1>2, <2>1, <3>2 DEF e
        <4>2. s + (d + 1) = s + d + 1
          BY <1>2 DEF s, d
        <4> QED BY <1>2, <2>1, <3>3, <4>1, <4>2 DEF d
      <3>5. \A i \in 1..(e - 1) : events'[i] = StepEvent(times[s + (d + 1) + i])
        <4> SUFFICES ASSUME NEW i \in 1..(e - 1)
                     PROVE  events'[i] = StepEvent(times[s + (d + 1) + i])
          OBVIOUS
        <4>1. i + 1 \in 1..e /\ s + d + (i + 1) = s + (d + 1) + i
          BY <1>2 DEF s, d, e
        <4> QED BY <2>1, <3>2, <4>1
      <3>6. s + (d + 1) + (e - 1) = s + d + e /\ t = s + (d + 1) + (e - 1) + c
        BY <1>2, <2>1 DEF s, d, e, t, c
      <3>7. Len(seen)' = s /\ Len(times)' = t /\ StepCalls' = c
        BY <3>1 DEF s, t, c
      <3>8. \A i \in 1..c : calls'[i] = StepEvent(times[s + (d + 1) + (e - 1) + i])
        BY <2>1, <3>1, <3>6
      <3> QED BY <3>1, <3>2, <3>3, <3>4, <3>5, <3>6, <3>7, <3>8 DEF Underway, Carries
    <2>5. CASE Record
      <3>1. /\ solver = "record" /\ solver' # "ended" /\ UNCHANGED <<seen, down, events, done>> /\ ~done
            /\ \/ UNCHANGED <<times, calls>>
               \/ times' = Append(times, step) /\ calls' = Append(calls, StepEvent(step))
        BY <2>5 DEF Record, Goto, Emit, editor, connection, CallsInv
      <3>2. c = Len(calls) /\ StepCalls' = Len(calls')
        BY <3>1 DEF StepCalls
      <3>3. CASE UNCHANGED <<times, calls>>
        BY <1>1, <1>5, <3>1, <3>2, <3>3 DEF FlowInv, Underway, Carries
      <3>4. CASE times' = Append(times, step) /\ calls' = Append(calls, StepEvent(step))
        <4>1. /\ Len(times') = t + 1 /\ times'[t + 1] = step
              /\ \A i \in 1..t : times'[i] = times[i]
          BY <3>4, Appended DEF TypeOK, ThreadOK
        <4>2. StepEvent(step) \in StepEvents
          BY EngineMessages DEF TypeOK, ThreadOK
        <4>3. /\ Len(calls') = c + 1 /\ calls'[c + 1] = StepEvent(step)
              /\ \A i \in 1..c : calls'[i] = calls[i]
          BY <3>2, <3>4, <4>2, Appended DEF TypeOK, EngineOK
        <4> HIDE DEF s, d, e, t, c
        <4> s \in Nat /\ d \in Nat /\ e \in Nat /\ t \in Nat /\ c \in Nat
          BY <1>2 DEF s, d, e, t, c
        <4>4. /\ \A i \in 1..d : s + i \in 1..t
              /\ \A i \in 1..e : s + d + i \in 1..t
              /\ \A i \in 1..c : s + d + e + i \in 1..t
              /\ t + 1 = s + d + e + (c + 1)
          BY <2>1
        <4>5. \A i \in 1..(c + 1) : calls'[i] = StepEvent(times'[s + d + e + i])
          BY <2>1, <4>1, <4>3, <4>4
        <4>6. Len(seen)' = s /\ Len(down)' = d /\ Len(events)' = e
          BY <3>1 DEF s, d, e
        <4>7. /\ \A i \in 1..d : down'[i] = StepEvent(times'[s + i])
              /\ \A i \in 1..e : events'[i] = StepEvent(times'[s + d + i])
          BY <2>1, <3>1, <4>1, <4>4
        <4> QED BY <3>2, <4>1, <4>3, <4>4, <4>5, <4>6, <4>7 DEF Underway, Carries
      <3> QED BY <3>1, <3>3, <3>4
    <2>6. CASE Return \/ Raise
      <3>1. /\ solver # "ended" /\ solver' = "ended" /\ calls' = Append(calls, Returned)
            /\ UNCHANGED <<seen, down, events, times, done>> /\ ~done
        BY <2>6 DEF Return, Raise, Goto, Emit, editor, connection, CallsInv
      <3>2. /\ Len(calls') = Len(calls) + 1
            /\ \A i \in 1..Len(calls) : calls'[i] = calls[i]
        BY <3>1, Appended DEF TypeOK, EngineOK
      <3>3. c = Len(calls) /\ StepCalls' = c
        BY <1>2, <3>1, <3>2 DEF StepCalls
      <3> QED BY <2>1, <3>1, <3>2, <3>3 DEF Underway, Carries
    <2>7. CASE UNCHANGED <<seen, down, events, calls, times, StepCalls>>
      BY <1>5, <1>1, <2>7 DEF FlowInv, Underway, Carries
    <2>8. \/ Opens \/ ConnectionLost \/ Flush \/ StoreRun \/ RunEnds \/ User \/ ReceiveControl
          \/ ReceiveFails \/ UNCHANGED vars
          => UNCHANGED <<seen, down, events, calls, times, StepCalls>>
      BY DEF Opens, ConnectionLost, Flush, StoreRun, RunEnds, User, StopRun, SetParameter,
             ReceiveControl, ReceiveFails, vars, editor, connection, engine, thread, StepCalls
    <2>9. \/ Begin \/ Poll \/ Solve \/ PacePoll \/ PaceOver \/ PaceCancelled
          => UNCHANGED <<seen, down, events, calls, times, StepCalls>>
      BY DEF Begin, Poll, Solve, PacePoll, PaceOver, PaceCancelled, Goto, editor, connection,
             engine, thread, StepCalls
    <2>10. ~(Accept \/ NeverStarts \/ SendResult \/ LinkBreaks)
      BY <1>5 DEF Accept, NeverStarts, SendResult, LinkBreaks
    <2> QED BY <2>2, <2>3, <2>4, <2>5, <2>6, <2>7, <2>8, <2>9, <2>10
            DEF Next, Editor, Handler, Solver
  <1> QED BY <1>3, <1>4, <1>5

LEMMA DeliveredStep ==
    ASSUME TypeOK, StartInv, HandlerInv, CallsInv, ResultInv, FlowInv, [Next]_vars,
           link' = "up", handler' = "closed", socket' # "closed"
    PROVE  Delivered'
  <1> DEFINE s == Len(seen)  d == Len(down)  t == Len(times)
  <1>1. link = "up" /\ ~client_gone
    BY DEF Next, Editor, Opens, Receive, ConnectionLost, Flush, StoreRun, RunEnds, User, StopRun,
           SetParameter, Handler, Accept, NeverStarts, ReceiveControl, ReceiveFails,
           RunCallback, SendEvent, SendResult, Solver, Begin, Poll, Solve, PacePoll, PaceOver,
           PaceCancelled, Record, Return, Raise, LinkBreaks, vars, connection, HandlerInv
  <1>2. s \in Nat /\ d \in Nat /\ t \in Nat
    BY Lengths
  <1>3. ASSUME NEW message \in FromEngine, down' = Append(down, message),
               \/ message \in {Error, Close}
               \/ message.type = "done" /\ Truthful(message.result),
               t = s + d, \A i \in 1..d : down[i] = StepEvent(times[s + i]),
               UNCHANGED <<seen, times>>
        PROVE  Delivered'
    <2>1. /\ down' # <<>> /\ Len(down') = d + 1 /\ down'[d + 1] = message
          /\ \A i \in 1..d : down'[i] = down[i]
      BY <1>3, Appended DEF TypeOK, ConnectionOK
    <2>2. /\ \A i \in 1..(Len(down') - 1) : down'[i] = StepEvent(times'[Len(seen') + i])
          /\ Len(times') = Len(seen') + Len(down') - 1
      BY <1>2, <1>3, <2>1
    <2>3. \/ down'[Len(down')] \in {Error, Close}
          \/ down'[Len(down')].type = "done" /\ Truthful(down[Len(down)].result)'
      BY <1>3, <2>1 DEF Truthful, Reached
    <2> QED BY <1>2, <2>1, <2>2, <2>3 DEF Delivered, Carries
  <1>4. CASE Accept
    <2>1. /\ seen = <<>> /\ down = <<>> /\ times = <<>> /\ UNCHANGED <<seen, times>>
      BY <1>1, <1>4 DEF Accept, FlowInv, HandlerInv, editor
    <2> DEFINE refused == [status |-> "failed", points |-> <<>>]
    <2>2. \E message \in {Error, Done(refused)} : down' = Append(down, message)
      BY <1>1, <1>4 DEF Accept, Reply
    <2>3. refused \in Result
      BY EmptyIsSeq DEF Result
    <2>4. Truthful(refused)
      BY <2>1 DEF Truthful
    <2> HIDE DEF refused
    <2>5. Error \in FromEngine /\ Done(refused) \in FromEngine /\ Done(refused).type = "done" /\ Done(refused).result = refused
      BY <2>3, EngineMessages
    <2>6. t = s + d /\ \A i \in 1..d : down[i] = StepEvent(times[s + i])
      BY <2>1
    <2> QED BY <1>3, <2>1, <2>2, <2>4, <2>5, <2>6
  <1>5. CASE SendResult
    <2>1. handler = "running" /\ done /\ events = <<>> /\ UNCHANGED <<seen, times>>
      BY <1>5 DEF SendResult, AllSent, editor, thread
    <2>2. Len(events) = 0 /\ StepCalls = 0
      BY <2>1 DEF CallsInv, StepCalls
    <2>3. t = s + d /\ \A i \in 1..d : down[i] = StepEvent(times[s + i])
      BY <1>1, <1>2, <2>1, <2>2 DEF FlowInv, Underway, Carries
    <2>4. CASE result = None
      <3>1. down' = Append(down, Close) /\ Close \in FromEngine
        BY <1>1, <1>5, <2>4, EngineMessages DEF SendResult, Reply
      <3> QED BY <1>3, <2>1, <2>3, <3>1
    <2>5. CASE result # None
      <3>1. result \in Result /\ Truthful(result)
        BY <2>5 DEF ResultInv, TypeOK, ThreadOK
      <3>2. Done(result) \in FromEngine /\ Done(result).type = "done" /\ Done(result).result = result
        BY <3>1, EngineMessages
      <3>3. down' = Append(down, Done(result))
        BY <1>1, <1>5, <2>5 DEF SendResult, Reply
      <3> QED BY <1>3, <2>1, <2>3, <3>1, <3>2, <3>3
    <2> QED BY <2>4, <2>5
  <1>6. ~NeverStarts /\ ~LinkBreaks /\ ~ConnectionLost
    BY <1>1 DEF NeverStarts, LinkBreaks, ConnectionLost
  <1>7. handler # "closed" => Accept \/ SendResult
    BY <1>6 DEF Next, Editor, Opens, Receive, Flush, StoreRun, RunEnds, User, StopRun,
           SetParameter, Handler, ReceiveControl, ReceiveFails, RunCallback, SendEvent, Solver,
           Begin, Poll, Solve, PacePoll, PaceOver, PaceCancelled, Record, Return, Raise, vars,
           engine
  <1>8. CASE handler = "closed"
    <2>1. socket = "open"
      <3>1. socket # "closed"
        BY DEF Next, Editor, Opens, Receive, ConnectionLost, Flush, StoreRun, RunEnds, User, StopRun,
           SetParameter, Handler, Accept, NeverStarts, ReceiveControl, ReceiveFails,
           RunCallback, SendEvent, SendResult, Solver, Begin, Poll, Solve, PacePoll, PaceOver,
           PaceCancelled, Record, Return, Raise, LinkBreaks, vars, editor
      <3> QED BY <1>1, <1>8, <3>1 DEF StartInv, TypeOK, EditorOK
    <2>2. Delivered
      BY <1>1, <1>8, <2>1 DEF FlowInv
    <2>3. CASE Receive
      <3>1. Head(down).type = "step"
        BY <2>3, ReceiveCases DEF Settle
      <3>2. /\ down' = Tail(down) /\ down # <<>> /\ UNCHANGED times
            /\ seen' = Append(seen, Head(down).step) /\ Head(down).step \in 0..STEPS
        BY <2>3, <3>1, ReceiveCases, Received DEF Receive, thread
      <3>3. Len(seen') = s + 1
        BY <3>2 DEF TypeOK, EditorOK
      <3>4. /\ Len(down') = d - 1 /\ \A i \in 1..(d - 1) : down'[i] = down[i + 1]
            /\ Head(down) = down[1]
        BY <3>2, Taken DEF TypeOK, ConnectionOK
      <3>5. d > 1
        <4>1. s < t
          BY <2>3, <3>1, Arrives
        <4> QED BY <1>2, <2>2, <4>1 DEF Delivered
      <3> HIDE DEF s, d, t
      <3>6. \A i \in 1..(d - 2) : down'[i] = StepEvent(times[s + 1 + i])
        <4> SUFFICES ASSUME NEW i \in 1..(d - 2) PROVE down'[i] = StepEvent(times[s + 1 + i])
          OBVIOUS
        <4>1. i + 1 \in 1..(d - 1) /\ s + (i + 1) = s + 1 + i /\ i \in 1..(d - 1)
          BY <1>2, <3>5
        <4> QED BY <2>2, <3>4, <4>1 DEF Delivered, Carries, s, d
      <3>7. t = (s + 1) + (d - 1) - 1 /\ (d - 1) - 1 = d - 2
        BY <1>2, <2>2 DEF Delivered, s, d, t
      <3>8. down'[d - 1] = down[d] /\ down' # <<>>
        BY <1>2, <3>4, <3>5
      <3>9. \/ down'[d - 1] \in {Error, Close}
            \/ down'[d - 1].type = "done" /\ Truthful(down[Len(down)].result)'
        BY <2>2, <3>2, <3>4, <3>8 DEF Delivered, Truthful, Reached, d
      <3>10. Len(times)' = t
        BY <3>2 DEF t
      <3>11. \A i \in 1..(Len(down') - 1) : down'[i] = StepEvent(times'[Len(seen') + i])
        BY <3>2, <3>3, <3>4, <3>6, <3>7
      <3>12. Len(times') = Len(seen') + Len(down') - 1
        BY <3>3, <3>4, <3>7, <3>10
      <3> QED BY <3>4, <3>8, <3>9, <3>11, <3>12 DEF Delivered, Carries
    <2>4. CASE UNCHANGED <<seen, down, times>>
      BY <2>2, <2>4 DEF Delivered, Carries, Truthful, Reached
    <2>5. ~Solver
      BY <1>8 DEF Solver, Begin, Poll, Solve, PacePoll, PaceOver, PaceCancelled, Record, Return,
                  Raise, HandlerInv, CallsInv
    <2>6. Next /\ ~Receive /\ ~Solver => UNCHANGED <<seen, down, times>>
      BY <1>6, <1>8 DEF Next, Editor, Opens, Flush, StoreRun, RunEnds, User, StopRun,
             SetParameter, Handler, Accept, ReceiveControl, ReceiveFails, RunCallback,
             SendEvent, SendResult, editor, connection, thread
    <2> QED BY <2>3, <2>4, <2>5, <2>6 DEF vars, editor, connection, thread
  <1> QED BY <1>4, <1>5, <1>7, <1>8

LEMMA FlowStep ==
    ASSUME TypeOK, StartInv, HandlerInv, CallsInv, ResultInv, FlowInv, [Next]_vars
    PROVE  FlowInv'
  <1>1. ASSUME link' = "up", handler' = "accepting"
        PROVE  seen' = <<>> /\ down' = <<>>
    <2>1. handler = "accepting" /\ link = "up"
      BY <1>1 DEF Next, Editor, Opens, Receive, ConnectionLost, Flush, StoreRun, RunEnds, User, StopRun,
           SetParameter, Handler, Accept, NeverStarts, ReceiveControl, ReceiveFails,
           RunCallback, SendEvent, SendResult, Solver, Begin, Poll, Solve, PacePoll, PaceOver,
           PaceCancelled, Record, Return, Raise, LinkBreaks, vars, engine, connection
    <2>2. seen = <<>> /\ down = <<>>
      BY <2>1 DEF FlowInv
    <2>3. UNCHANGED <<seen, down>>
      BY <1>1, <2>1, <2>2 DEF Next, Editor, Opens, Receive, ConnectionLost, Flush, StoreRun, RunEnds, User, StopRun,
           SetParameter, Handler, Accept, NeverStarts, ReceiveControl, ReceiveFails,
           RunCallback, SendEvent, SendResult, Solver, Begin, Poll, Solve, PacePoll, PaceOver,
           PaceCancelled, Record, Return, Raise, LinkBreaks, vars, editor, connection
    <2> QED BY <2>2, <2>3
  <1> QED BY <1>1, SeenStep, UnderwayStep, DeliveredStep DEF FlowInv

-----------------------------------------------------------------------------
(* The edits on their way to the solver.                                    *)

LEMMA RangeAppend ==
    ASSUME NEW S, NEW s \in Seq(S), NEW x \in S
    PROVE  Range(Append(s, x)) = Range(s) \cup {x}
  <1> DEFINE n == Len(s)
  <1>1. /\ DOMAIN Append(s, x) = 1..(n + 1) /\ Append(s, x)[n + 1] = x
        /\ \A i \in 1..n : Append(s, x)[i] = s[i]
        /\ DOMAIN s = 1..n /\ n \in Nat
    BY Appended
  <1> HIDE DEF n
  <1>2. 1..(n + 1) = (1..n) \cup {n + 1}
    BY <1>1
  <1> QED BY <1>1, <1>2 DEF Range

LEMMA RangeTail ==
    ASSUME NEW S, NEW s \in Seq(S), s # <<>>
    PROVE  /\ Head(s) \in Range(s) /\ Range(Tail(s)) \subseteq Range(s)
           /\ Range(s) = {Head(s)} \cup Range(Tail(s))
  <1> DEFINE n == Len(s)
  <1>1. /\ DOMAIN Tail(s) = 1..(n - 1) /\ \A i \in 1..(n - 1) : Tail(s)[i] = s[i + 1]
        /\ DOMAIN s = 1..n /\ n \in Nat /\ n > 0 /\ Head(s) = s[1]
    BY Taken
  <1> HIDE DEF n
  <1>2. ASSUME NEW i \in 1..n, i # 1
        PROVE  i - 1 \in DOMAIN Tail(s) /\ Tail(s)[i - 1] = s[i]
    <2>1. i - 1 \in 1..(n - 1) /\ (i - 1) + 1 = i
      BY <1>1, <1>2
    <2> QED BY <1>1, <2>1
  <1>3. \A i \in 1..(n - 1) : i + 1 \in 1..n
    BY <1>1
  <1>4. 1 \in 1..n
    BY <1>1
  <1>5. Head(s) \in Range(s) /\ Range(Tail(s)) \subseteq Range(s)
    BY <1>1, <1>3, <1>4 DEF Range
  <1>6. ASSUME NEW x \in Range(s) PROVE x = Head(s) \/ x \in Range(Tail(s))
    <2>1. PICK i \in 1..n : x = s[i]
      BY <1>1 DEF Range
    <2>2. i # 1 => x \in Range(Tail(s))
      BY <1>2, <2>1 DEF Range
    <2> QED BY <1>1, <2>1, <2>2
  <1> QED BY <1>5, <1>6

LEMMA RangeConcat ==
    ASSUME NEW S, NEW s \in Seq(S), NEW t \in Seq(S)
    PROVE  Range(s \o t) = Range(s) \cup Range(t)
  BY RangeConcatenation

LEMMA RangeEmpty == Range(<<>>) = {}
  BY DEF Range

LEMMA OrderAppend ==
    ASSUME NEW S, NEW s \in Seq(S), NEW x \in S, InOrder(s),
           \A m \in Range(s) : IsEdit(m) /\ IsEdit(x) => m.edit < x.edit
    PROVE  InOrder(Append(s, x))
  <1> DEFINE n == Len(s)  w == Append(s, x)
  <1>1. /\ DOMAIN w = 1..(n + 1) /\ w[n + 1] = x /\ \A i \in 1..n : w[i] = s[i]
        /\ DOMAIN s = 1..n /\ n \in Nat
    BY Appended
  <1>2. \A i \in 1..n : s[i] \in Range(s)
    BY <1>1 DEF Range
  <1> HIDE DEF n, w
  <1>3. ASSUME NEW i \in DOMAIN w, NEW j \in DOMAIN w, i < j, IsEdit(w[i]), IsEdit(w[j])
        PROVE  w[i].edit < w[j].edit
    <2>1. i \in 1..n /\ w[i] = s[i]
      BY <1>1, <1>3
    <2>2. CASE j = n + 1
      BY <1>1, <1>2, <1>3, <2>1, <2>2
    <2>3. CASE j \in 1..n
      BY <1>1, <1>3, <2>1, <2>3 DEF InOrder
    <2> QED BY <1>1, <2>2, <2>3
  <1> QED BY <1>3 DEF InOrder, w

LEMMA OrderTail ==
    ASSUME NEW S, NEW s \in Seq(S), s # <<>>, InOrder(s)
    PROVE  /\ InOrder(Tail(s))
           /\ \A m \in Range(Tail(s)) : IsEdit(m) /\ IsEdit(Head(s)) => Head(s).edit < m.edit
  <1> DEFINE n == Len(s)  w == Tail(s)
  <1>1. /\ DOMAIN w = 1..(n - 1) /\ \A i \in 1..(n - 1) : w[i] = s[i + 1]
        /\ DOMAIN s = 1..n /\ n \in Nat /\ n > 0 /\ Head(s) = s[1]
    BY Taken
  <1> HIDE DEF n, w
  <1>2. \A i \in DOMAIN w : i \in Int /\ i + 1 \in DOMAIN s /\ 1 < i + 1
    BY <1>1
  <1>3. 1 \in DOMAIN s
    BY <1>1
  <1>4. ASSUME NEW i \in DOMAIN w, NEW j \in DOMAIN w, i < j, IsEdit(w[i]), IsEdit(w[j])
        PROVE  w[i].edit < w[j].edit
    BY <1>1, <1>2, <1>4 DEF InOrder
  <1>5. ASSUME NEW i \in DOMAIN w, IsEdit(w[i]), IsEdit(Head(s))
        PROVE  Head(s).edit < w[i].edit
    BY <1>1, <1>2, <1>3, <1>5 DEF InOrder
  <1>6. InOrder(w)
    BY <1>4 DEF InOrder
  <1>7. \A m \in Range(w) : IsEdit(m) /\ IsEdit(Head(s)) => Head(s).edit < m.edit
    BY <1>5 DEF Range
  <1> QED BY <1>6, <1>7 DEF w

LEMMA OrderConcat ==
    ASSUME NEW S, NEW s \in Seq(S), NEW t \in Seq(S), InOrder(s), InOrder(t), Before(s, t)
    PROVE  InOrder(s \o t)
  <1> DEFINE n == Len(s)  k == Len(t)  w == s \o t
  <1>1. /\ DOMAIN w = 1..(n + k) /\ DOMAIN s = 1..n /\ DOMAIN t = 1..k /\ n \in Nat /\ k \in Nat
        /\ \A i \in 1..(n + k) : w[i] = IF i <= n THEN s[i] ELSE t[i - n]
    BY ConcatProperties
  <1>2. /\ \A i \in 1..n : s[i] \in Range(s)
        /\ \A i \in 1..k : t[i] \in Range(t)
    BY <1>1 DEF Range
  <1> HIDE DEF n, k, w
  <1>3. ASSUME NEW i \in DOMAIN w, NEW j \in DOMAIN w, i < j, IsEdit(w[i]), IsEdit(w[j])
        PROVE  w[i].edit < w[j].edit
    <2>1. CASE j <= n
      <3>1. i \in DOMAIN s /\ j \in DOMAIN s /\ w[i] = s[i] /\ w[j] = s[j]
        BY <1>1, <1>3, <2>1
      <3> QED BY <1>3, <3>1 DEF InOrder
    <2>2. CASE i > n
      <3>1. /\ i - n \in DOMAIN t /\ j - n \in DOMAIN t /\ i - n < j - n
            /\ w[i] = t[i - n] /\ w[j] = t[j - n]
        BY <1>1, <1>3, <2>2
      <3> QED BY <1>3, <3>1 DEF InOrder
    <2>3. CASE i <= n /\ j > n
      <3>1. w[i] \in Range(s) /\ w[j] \in Range(t)
        BY <1>1, <1>2, <2>3
      <3> QED BY <1>3, <3>1 DEF Before
    <2> QED BY <1>1, <2>1, <2>2, <2>3
  <1> QED BY <1>3 DEF InOrder, w

\* What a step may do to the messages on their way.
Sends(m) == up' = Append(up, m) /\ UNCHANGED <<applied, pending>>
Accepts == up # <<>> /\ up' = Tail(up) /\ UNCHANGED <<applied, pending>>
Receives ==
    /\ up # <<>> /\ Head(up) \in Controls
    /\ up' = Tail(up) /\ pending' = Append(pending, Head(up)) /\ UNCHANGED applied
Cancels == pending' = Append(pending, Cancel) /\ UNCHANGED <<applied, up>>
Applies == applied' = applied \o pending /\ pending' = <<>> /\ UNCHANGED up
Loses == up' = <<>> /\ UNCHANGED <<applied, pending>>

LEMMA ControlFlow ==
    ASSUME TypeOK, StartInv, HandlerInv, [Next]_vars
    PROVE  \/ UNCHANGED <<applied, pending, up>>
           \/ \E m \in FromEditor : Sends(m) /\ ~IsEdit(m)
           \/ SetParameter /\ socket = "open" /\ edits' \in 1..MaxEdits /\ Sends(SetParam(edits'))
           \/ Accepts \/ Receives \/ Cancels \/ Applies \/ Loses
  <1>1. CASE Opens
    BY <1>1, ControlMessages DEF Opens, Sends, engine, thread
  <1>2. CASE StopRun
    <2>1. Send(Cancel) /\ UNCHANGED <<applied, pending>>
      BY <1>2 DEF StopRun, engine, thread
    <2> QED BY <2>1, ControlMessages DEF Send, Sends
  <1>3. CASE SetParameter
    <2>1. Send(SetParam(edits')) /\ UNCHANGED <<applied, pending>>
      BY <1>3 DEF SetParameter, engine, thread
    <2>2. edits' \in 1..MaxEdits
      BY <1>3, BoundsAssumption DEF SetParameter, TypeOK, EditorOK
    <2> QED BY <1>3, <2>1, <2>2 DEF Send, Sends
  <1>4. CASE Accept
    BY <1>4 DEF Accept, Accepts
  <1>5. CASE ReceiveControl
    <2>1. Head(up) \in FromEditor /\ Head(up) = up[1] /\ 1 \in DOMAIN up
      BY <1>5 DEF ReceiveControl, TypeOK, ConnectionOK
    <2>2. Head(up) \in Controls
      BY <1>5, <2>1, ControlMessages DEF ReceiveControl, StartInv, HandlerInv
    <2> QED BY <1>5, <2>2 DEF ReceiveControl, Receives, thread
  <1>6. CASE ReceiveFails
    BY <1>6 DEF ReceiveFails, OnDisconnect, Cancels, connection, thread
  <1>7. CASE SendEvent
    BY <1>7 DEF SendEvent, Cancels, thread
  <1>8. CASE Poll \/ PacePoll
    BY <1>8 DEF Poll, PacePoll, Control, Applies, connection
  <1>9. CASE LinkBreaks
    BY <1>9 DEF LinkBreaks, Loses, engine, thread
  <1>10. \/ Receive \/ ConnectionLost \/ Flush \/ StoreRun \/ RunEnds \/ NeverStarts
         \/ RunCallback \/ SendResult \/ Begin \/ Solve \/ PaceOver \/ PaceCancelled \/ Record
         \/ Return \/ Raise \/ UNCHANGED vars
         => UNCHANGED <<applied, pending, up>>
    BY DEF Receive, ConnectionLost, Flush, StoreRun, RunEnds, NeverStarts, RunCallback,
           SendResult, Begin, Solve, PaceOver, PaceCancelled, Record, Return, Raise, vars,
           connection, engine, thread
  <1> QED BY <1>1, <1>2, <1>3, <1>4, <1>5, <1>6, <1>7, <1>8, <1>9, <1>10
          DEF Next, Editor, User, Handler, Solver

LEMMA OrderStep ==
    ASSUME TypeOK, StartInv, HandlerInv, OrderInv, SentInv, [Next]_vars
    PROVE  OrderInv'
  <1>1. /\ applied \in Seq(Controls) /\ pending \in Seq(Controls) /\ up \in Seq(FromEditor)
        /\ edits \in Nat
    BY BoundsAssumption DEF TypeOK, EditorOK, ConnectionOK, EngineOK, ThreadOK
  <1>2. InOrder(<<>>)
    BY DEF InOrder
  <1>3. CASE UNCHANGED <<applied, pending, up>>
    BY <1>3 DEF OrderInv, InOrder, Before
  <1>4. ASSUME NEW m \in FromEditor, Sends(m), 
               \A n \in Sent : IsEdit(n) /\ IsEdit(m) => n.edit < m.edit
        PROVE  OrderInv'
    <2>1. Range(up') = Range(up) \cup {m}
      BY <1>1, <1>4, RangeAppend DEF Sends
    <2>2. InOrder(up')
      BY <1>1, <1>4, OrderAppend DEF Sends, OrderInv, Sent
    <2>3. Before(applied, up') /\ Before(pending, up')
      BY <1>4, <2>1 DEF Before, OrderInv, Sent
    <2> QED BY <1>4, <2>2, <2>3 DEF Sends, OrderInv, InOrder, Before
  <1>5. CASE \E m \in FromEditor : Sends(m) /\ ~IsEdit(m)
    BY <1>4, <1>5
  <1>6. CASE SetParameter /\ edits' \in 1..MaxEdits /\ Sends(SetParam(edits'))
    <2>1. edits' = edits + 1 /\ SetParam(edits').edit = edits' /\ SetParam(edits') \in FromEditor
      BY <1>6, ControlMessages DEF SetParameter
    <2>2. \A n \in Sent : IsEdit(n) => n.edit < edits'
      <3>1. \A n \in Sent : IsEdit(n) => n.edit \in Int /\ n.edit <= edits
        BY <1>1, ControlMessages, RangeOfSeq DEF Sent, SentInv
      <3> QED BY <1>1, <2>1, <3>1
    <2> QED BY <1>4, <1>6, <2>1, <2>2
  <1>7. CASE Accepts
    <2>1. InOrder(up') /\ Range(up') \subseteq Range(up)
      BY <1>1, <1>7, OrderTail, RangeTail DEF Accepts, OrderInv
    <2> QED BY <1>7, <2>1 DEF Accepts, OrderInv, InOrder, Before
  <1>8. CASE Receives
    <2>1. /\ InOrder(up') /\ Range(up') \subseteq Range(up) /\ Head(up) \in Range(up)
          /\ \A m \in Range(up') : IsEdit(m) /\ IsEdit(Head(up)) => Head(up).edit < m.edit
      BY <1>1, <1>8, OrderTail, RangeTail DEF Receives, OrderInv
    <2>2. Range(pending') = Range(pending) \cup {Head(up)}
      BY <1>1, <1>8, RangeAppend DEF Receives
    <2>3. InOrder(pending')
      <3>1. \A m \in Range(pending) : IsEdit(m) /\ IsEdit(Head(up)) => m.edit < Head(up).edit
        BY <2>1 DEF OrderInv, Before
      <3> QED BY <1>1, <1>8, <3>1, OrderAppend DEF Receives, OrderInv
    <2>4. Before(applied, pending') /\ Before(applied, up') /\ Before(pending', up')
      BY <2>1, <2>2 DEF OrderInv, Before
    <2> QED BY <1>8, <2>1, <2>3, <2>4 DEF Receives, OrderInv, InOrder, Before
  <1>9. CASE Cancels
    <2>1. Range(pending') = Range(pending) \cup {Cancel} /\ ~IsEdit(Cancel)
      BY <1>1, <1>9, RangeAppend, ControlMessages DEF Cancels
    <2>2. InOrder(pending')
      BY <1>1, <1>9, <2>1, OrderAppend, ControlMessages DEF Cancels, OrderInv
    <2>3. Before(applied, pending') /\ Before(pending', up)
      BY <2>1 DEF OrderInv, Before
    <2> QED BY <1>9, <2>2, <2>3 DEF Cancels, OrderInv, InOrder, Before
  <1>10. CASE Applies
    <2>1. Range(applied') = Range(applied) \cup Range(pending) /\ Range(pending') = {}
      BY <1>1, <1>10, RangeConcat, RangeEmpty DEF Applies
    <2>2. InOrder(applied')
      BY <1>1, <1>10, OrderConcat DEF Applies, OrderInv
    <2>3. Before(applied', up) /\ Before(applied', pending') /\ Before(pending', up)
      BY <2>1 DEF OrderInv, Before
    <2> QED BY <1>2, <1>10, <2>2, <2>3 DEF Applies, OrderInv, InOrder, Before
  <1>11. CASE Loses
    <2>1. Before(applied, up') /\ Before(pending, up')
      BY <1>11, RangeEmpty DEF Loses, Before
    <2> QED BY <1>2, <1>11, <2>1 DEF Loses, OrderInv, InOrder, Before
  <1> QED BY <1>3, <1>5, <1>6, <1>7, <1>8, <1>9, <1>10, <1>11, ControlFlow

LEMMA OutcomeStep ==
    ASSUME TypeOK, OutcomeInv, [Next]_vars
    PROVE  OutcomeInv'
  <1>1. CASE Opens
    BY <1>1 DEF Opens, OutcomeInv
  <1>2. CASE Receive
    <2>1. socket = "open"
      BY <1>2 DEF Receive
    <2> QED BY <1>2, <2>1, ReceiveCases DEF Settle, OutcomeInv, TypeOK, EditorOK
  <1>3. CASE ConnectionLost
    BY <1>3 DEF ConnectionLost, Settle, OutcomeInv, TypeOK, EditorOK
  <1>4. CASE StoreRun \/ RunEnds
    BY <1>4 DEF StoreRun, RunEnds, OutcomeInv
  <1>5. CASE UNCHANGED <<socket, outcome, stage, stored>>
    BY <1>5 DEF OutcomeInv
  <1>6. Flush \/ User \/ Handler \/ Solver \/ LinkBreaks \/ UNCHANGED vars
        => UNCHANGED <<socket, outcome, stage, stored>>
    BY DEF Flush, User, StopRun, SetParameter, Handler, Accept, NeverStarts, ReceiveControl,
           ReceiveFails, RunCallback, SendEvent, SendResult, Solver, Begin, Poll, Solve,
           PacePoll, PaceOver, PaceCancelled, Record, Return, Raise, LinkBreaks, vars, editor
  <1> QED BY <1>1, <1>2, <1>3, <1>4, <1>5, <1>6 DEF Next, Editor

\* The time an edit was made at does not change, so a log goes on telling it.
LEMMA StillTold ==
    ASSUME TypeOK, NEW log, NEW e \in Nat \ {0}, Told(e, log),
           Len(madeAt) = edits,
           \/ UNCHANGED <<madeAt, edits>>
           \/ edits' = edits + 1 /\ madeAt' = Append(madeAt, shown)
    PROVE  \E i \in DOMAIN log :
              /\ log[i].edit \in e..edits'
              /\ \A k \in e..log[i].edit : madeAt'[k] = log[i].t
  <1>1. PICK i \in DOMAIN log :
            log[i].edit \in e..edits /\ \A k \in e..log[i].edit : madeAt[k] = log[i].t
    BY DEF Told
  <1>2. edits \in Nat /\ madeAt \in Seq(0..STEPS) /\ shown \in 0..STEPS
    BY BoundsAssumption DEF TypeOK, EditorOK, HistoryOK
  <1>3. \A k \in 1..edits : madeAt'[k] = madeAt[k]
    BY <1>2, Appended
  <1>4. \A k \in e..log[i].edit : k \in 1..edits
    BY <1>1, <1>2
  <1>5. log[i].edit \in e..edits'
    BY <1>1, <1>2
  <1> QED BY <1>1, <1>3, <1>4, <1>5

LEMMA LogStep ==
    ASSUME TypeOK, OutcomeInv, LogInv, [Next]_vars
    PROVE  LogInv'
  <1>1. /\ edits \in Nat /\ madeAt \in Seq(0..STEPS) /\ shown \in 0..STEPS
        /\ liveEdits \in Seq(LiveEdit)
    BY BoundsAssumption DEF TypeOK, EditorOK, HistoryOK
  <1>2. CASE SetParameter
    <2> DEFINE n == edits + 1  entry == [edit |-> n, t |-> shown]  k == Len(liveEdits)
    <2>1. /\ edits' = n /\ madeAt' = Append(madeAt, shown) /\ stage # "ended" /\ n \in 1..MaxEdits
          /\ liveEdits' = IF SameTime THEN [liveEdits EXCEPT ![k] = entry] ELSE Append(liveEdits, entry)
      BY <1>1, <1>2, BoundsAssumption DEF SetParameter, TypeOK, EditorOK
    <2>2. entry \in LiveEdit /\ entry.edit = n /\ entry.t = shown
      BY <1>1, <2>1 DEF LiveEdit
    <2>3. k \in Nat /\ DOMAIN liveEdits = 1..k /\ (liveEdits # <<>> => k > 0)
      BY <1>1
    <2>4. /\ Len(madeAt') = n /\ madeAt'[n] = shown /\ \A e \in 1..edits : madeAt'[e] = madeAt[e]
      BY <1>1, <2>1, Appended DEF LogInv
    <2> HIDE DEF entry, n, k
    <2>5. n = edits + 1
      BY DEF n
    <2>6. CASE SameTime
      <3>1. /\ k > 0 /\ liveEdits[k].edit = edits /\ liveEdits[k].t = shown
        BY <2>3, <2>6 DEF SameTime, LogInv, k
      <3>2. /\ Len(liveEdits') = k /\ DOMAIN liveEdits' = 1..k /\ liveEdits'[k] = entry
            /\ \A i \in 1..k : i # k => liveEdits'[i] = liveEdits[i]
        <4>1. liveEdits' = [liveEdits EXCEPT ![k] = entry] /\ k \in 1..k
          BY <2>1, <2>3, <2>6, <3>1
        <4> QED BY <1>1, <2>2, <2>3, <4>1, ExceptSeq DEF k
      <3>3. ASSUME NEW e \in 1..n
            PROVE  \E i \in DOMAIN liveEdits' :
                      /\ liveEdits'[i].edit \in e..n
                      /\ \A j \in e..liveEdits'[i].edit : madeAt'[j] = liveEdits'[i].t
        <4>1. CASE e = n
          BY <1>1, <2>2, <2>3, <2>4, <2>5, <3>1, <3>2, <4>1
        <4>2. CASE e # n
          <5>1. e \in 1..edits
            BY <1>1, <2>5, <4>2
          <5>2. PICK i \in 1..k :
                    liveEdits[i].edit \in e..edits /\ \A j \in e..liveEdits[i].edit : madeAt[j] = liveEdits[i].t
            BY <2>1, <2>3, <5>1 DEF LogInv, Told
          <5>3. CASE i # k
            <6>1. liveEdits'[i].edit \in e..n /\ \A j \in e..liveEdits'[i].edit : j \in 1..edits
              BY <1>1, <2>5, <3>2, <5>1, <5>2, <5>3
            <6> QED BY <2>4, <3>2, <5>2, <5>3, <6>1
          <5>4. CASE i = k
            <6>1. \A j \in e..n : j = n \/ (j \in e..edits /\ j \in 1..edits)
              BY <1>1, <2>5, <5>1
            <6>2. \A j \in e..n : madeAt'[j] = shown
              BY <2>4, <3>1, <5>2, <5>4, <6>1
            <6>3. n \in e..n /\ k \in 1..k
              BY <1>1, <2>3, <2>5, <3>1, <5>1
            <6> QED BY <2>2, <3>2, <6>2, <6>3
          <5> QED BY <5>3, <5>4
        <4> QED BY <4>1, <4>2
      <3> QED BY <2>1, <2>2, <2>4, <3>2, <3>3 DEF LogInv, Told
    <2>7. CASE ~SameTime
      <3>1. /\ Len(liveEdits') = k + 1 /\ DOMAIN liveEdits' = 1..(k + 1) /\ liveEdits'[k + 1] = entry
            /\ \A i \in 1..k : liveEdits'[i] = liveEdits[i]
        BY <1>1, <2>1, <2>2, <2>7, Appended DEF k
      <3>2. ASSUME NEW e \in 1..n
            PROVE  \E i \in DOMAIN liveEdits' :
                      /\ liveEdits'[i].edit \in e..n
                      /\ \A j \in e..liveEdits'[i].edit : madeAt'[j] = liveEdits'[i].t
        <4>1. CASE e = n
          <5>1. k + 1 \in 1..(k + 1) /\ n \in e..n /\ \A j \in e..n : j = n
            BY <1>1, <2>3, <2>5, <4>1
          <5> QED BY <2>2, <2>4, <3>1, <5>1
        <4>2. CASE e # n
          <5>1. e \in 1..edits
            BY <1>1, <2>5, <4>2
          <5>2. PICK i \in 1..k :
                    liveEdits[i].edit \in e..edits /\ \A j \in e..liveEdits[i].edit : madeAt[j] = liveEdits[i].t
            BY <2>1, <2>3, <5>1 DEF LogInv, Told
          <5>3. /\ liveEdits'[i].edit \in e..n /\ \A j \in e..liveEdits'[i].edit : j \in 1..edits
                /\ i \in 1..(k + 1)
            BY <1>1, <2>3, <2>5, <3>1, <5>1, <5>2
          <5> QED BY <2>4, <3>1, <5>2, <5>3
        <4> QED BY <4>1, <4>2
      <3> QED BY <2>1, <2>2, <2>4, <3>1, <3>2 DEF LogInv, Told
    <2> QED BY <2>6, <2>7
  <1>3. CASE RunEnds
    BY <1>3 DEF RunEnds, LogInv, Told, history
  <1>4. CASE Receive \/ ConnectionLost \/ StoreRun
    <2>1. UNCHANGED <<edits, madeAt, liveEdits>> /\ (stage' # "ended" \/ UNCHANGED stage)
      BY <1>4, ReceiveCases DEF Receive, ConnectionLost, StoreRun, Settle, history
    <2>2. stage # "ended"
      BY <1>4 DEF Receive, ConnectionLost, StoreRun, OutcomeInv
    <2> QED BY <2>1, <2>2 DEF LogInv, Told
  <1>5. CASE UNCHANGED <<edits, madeAt, liveEdits, stage>>
    BY <1>5 DEF LogInv, Told
  <1>6. Opens \/ Flush \/ StopRun \/ Handler \/ Solver \/ LinkBreaks \/ UNCHANGED vars
        => UNCHANGED <<edits, madeAt, liveEdits, stage>>
    BY DEF Opens, Flush, StopRun, Handler, Accept, NeverStarts, ReceiveControl,
           ReceiveFails, RunCallback, SendEvent, SendResult, Solver, Begin, Poll, Solve,
           PacePoll, PaceOver, PaceCancelled, Record, Return, Raise, LinkBreaks, vars, editor, history
  <1> QED BY <1>2, <1>3, <1>4, <1>5, <1>6 DEF Next, Editor, User

\* Nothing comes on its way but an edit that is made while the socket is open.
LEMMA SentGrows ==
    ASSUME TypeOK, StartInv, HandlerInv, [Next]_vars, NEW m \in Sent', IsEdit(m)
    PROVE  m \in Sent \/ (SetParameter /\ socket = "open" /\ m = SetParam(edits'))
  <1>1. applied \in Seq(Controls) /\ pending \in Seq(Controls) /\ up \in Seq(FromEditor)
    BY DEF TypeOK, ConnectionOK, EngineOK, ThreadOK
  <1>2. CASE UNCHANGED <<applied, pending, up>>
    BY <1>2 DEF Sent
  <1>3. CASE \E x \in FromEditor : Sends(x) /\ ~IsEdit(x)
    <2>1. PICK x \in FromEditor : Sends(x) /\ ~IsEdit(x)
      BY <1>3
    <2>2. Range(up') = Range(up) \cup {x} /\ m # x
      BY <1>1, <2>1, RangeAppend DEF Sends
    <2> QED BY <2>1, <2>2 DEF Sent, Sends
  <1>4. CASE SetParameter /\ socket = "open" /\ edits' \in 1..MaxEdits /\ Sends(SetParam(edits'))
    <2>1. SetParam(edits') \in FromEditor
      BY <1>4, ControlMessages
    <2>2. Range(up') = Range(up) \cup {SetParam(edits')}
      BY <1>1, <1>4, <2>1, RangeAppend DEF Sends
    <2> QED BY <1>4, <2>2 DEF Sent, Sends
  <1>5. CASE Accepts
    <2>1. Range(up') \subseteq Range(up)
      BY <1>1, <1>5, RangeTail DEF Accepts
    <2> QED BY <1>5, <2>1 DEF Sent, Accepts
  <1>6. CASE Receives
    <2>1. Range(up') \subseteq Range(up) /\ Head(up) \in Range(up)
      BY <1>1, <1>6, RangeTail DEF Receives
    <2>2. Range(pending') = Range(pending) \cup {Head(up)}
      BY <1>1, <1>6, RangeAppend DEF Receives
    <2> QED BY <1>6, <2>1, <2>2 DEF Sent, Receives
  <1>7. CASE Cancels
    <2>1. Range(pending') = Range(pending) \cup {Cancel} /\ m # Cancel
      BY <1>1, <1>7, RangeAppend, ControlMessages DEF Cancels
    <2> QED BY <1>7, <2>1 DEF Sent, Cancels
  <1>8. CASE Applies
    <2>1. Range(applied') = Range(applied) \cup Range(pending) /\ Range(pending') = {}
      BY <1>1, <1>8, RangeConcat, RangeEmpty DEF Applies
    <2> QED BY <1>8, <2>1 DEF Sent, Applies
  <1>9. CASE Loses
    BY <1>9, RangeEmpty DEF Sent, Loses
  <1> QED BY <1>2, <1>3, <1>4, <1>5, <1>6, <1>7, <1>8, <1>9, ControlFlow

LEMMA SentStep ==
    ASSUME TypeOK, StartInv, HandlerInv, OutcomeInv, LogInv, SentInv, [Next]_vars
    PROVE  SentInv'
  <1> SUFFICES ASSUME NEW m \in Sent', IsEdit(m)
               PROVE  m.edit <= edits' /\ (socket' = "closed" => Told(m.edit, stored)')
    BY DEF SentInv
  <1>1. edits \in Nat
    BY BoundsAssumption DEF TypeOK, EditorOK
  <1>2. \/ UNCHANGED <<edits, madeAt>>
        \/ SetParameter /\ edits' = edits + 1 /\ madeAt' = Append(madeAt, shown)
    BY DEF Next, Editor, Opens, Receive, ConnectionLost, Flush, StoreRun, RunEnds, User, StopRun,
           SetParameter, Handler, Accept, NeverStarts, ReceiveControl, ReceiveFails,
           RunCallback, SendEvent, SendResult, Solver, Begin, Poll, Solve, PacePoll, PaceOver,
           PaceCancelled, Record, Return, Raise, LinkBreaks, vars, editor, history
  <1>3. CASE m \in Sent
    <2>1. m.edit \in 1..MaxEdits
      <3>1. m \in FromEditor
        BY <1>3, RangeOfSeq, ControlMessages DEF Sent, TypeOK, ConnectionOK, EngineOK, ThreadOK
      <3> QED BY <3>1, ControlMessages
    <2>2. m.edit <= edits /\ m.edit <= edits' /\ m.edit \in Nat \ {0}
      BY <1>1, <1>2, <1>3, <2>1, BoundsAssumption DEF SentInv
    <2>3. CASE socket = "closed"
      <3>1. Told(m.edit, stored)
        BY <1>3, <2>3 DEF SentInv
      <3>2. UNCHANGED stored
        <4>1. ~Receive /\ ~ConnectionLost
          BY <2>3 DEF Receive, ConnectionLost
        <4> QED BY <4>1 DEF Next, Editor, Opens, Flush, StoreRun, RunEnds, User, StopRun,
           SetParameter, Handler, Accept, NeverStarts, ReceiveControl, ReceiveFails,
           RunCallback, SendEvent, SendResult, Solver, Begin, Poll, Solve, PacePoll, PaceOver,
           PaceCancelled, Record, Return, Raise, LinkBreaks, vars, editor
      <3>3. Told(m.edit, stored)'
        <4>1. Len(madeAt) = edits
          BY DEF LogInv
        <4>2. \/ UNCHANGED <<madeAt, edits>>
              \/ edits' = edits + 1 /\ madeAt' = Append(madeAt, shown)
          BY <1>2
        <4>3. \E i \in DOMAIN stored :
                 /\ stored[i].edit \in m.edit..edits'
                 /\ \A k \in m.edit..stored[i].edit : madeAt'[k] = stored[i].t
          BY <2>2, <3>1, <4>1, <4>2, StillTold
        <4> QED BY <3>2, <4>3 DEF Told
      <3> QED BY <2>2, <3>3
    <2>4. CASE socket # "closed"
      <3>1. Told(m.edit, liveEdits)
        BY <1>1, <2>2, <2>4 DEF OutcomeInv, LogInv
      <3>2. socket' = "closed" => stored' = liveEdits /\ UNCHANGED <<edits, madeAt>>
        BY <2>4, ReceiveCases DEF Next, Editor, Opens, Receive, Settle, ConnectionLost, Flush, StoreRun, RunEnds, User, StopRun,
           SetParameter, Handler, Accept, NeverStarts, ReceiveControl, ReceiveFails,
           RunCallback, SendEvent, SendResult, Solver, Begin, Poll, Solve, PacePoll, PaceOver,
           PaceCancelled, Record, Return, Raise, LinkBreaks, vars, editor, history
      <3> QED BY <2>2, <3>1, <3>2 DEF Told
    <2> QED BY <2>3, <2>4
  <1>4. CASE SetParameter /\ socket = "open" /\ m = SetParam(edits')
    <2>1. edits' \in 1..MaxEdits /\ socket' = "open"
      BY <1>4, BoundsAssumption DEF SetParameter, TypeOK, EditorOK
    <2>2. m.edit = edits'
      BY <1>4, <2>1, ControlMessages
    <2> QED BY <2>1, <2>2
  <1> QED BY <1>3, <1>4, SentGrows

-----------------------------------------------------------------------------
LEMMA StopStep ==
    ASSUME TypeOK, StartInv, HandlerInv, StopGetsThere, [Next]_vars
    PROVE  StopGetsThere'
  <1>1. applied \in Seq(Controls) /\ pending \in Seq(Controls) /\ up \in Seq(FromEditor)
    BY DEF TypeOK, ConnectionOK, EngineOK, ThreadOK
  <1>2. CASE StopRun
    <2>1. UNCHANGED <<pending, cancelled, solver, link, handler>>
      BY <1>2 DEF StopRun, engine, thread
    <2>2. CASE socket = "open" /\ link = "up"
      <3>1. up' = Append(up, Cancel)
        BY <1>2, <2>2 DEF StopRun, Send
      <3>2. Cancel \in Range(up')
        BY <1>1, <3>1, RangeAppend, ControlMessages
      <3> QED BY <3>2 DEF StopGetsThere, StopUnderWay
    <2>3. CASE link # "up"
      BY <2>1, <2>3 DEF StopGetsThere, StopUnderWay, TypeOK, ConnectionOK
    <2>4. CASE socket # "open"
      <3>1. heard' = heard /\ up' = up
        BY <1>2, <2>4 DEF StopRun, Send, TypeOK, HistoryOK
      <3> QED BY <2>1, <3>1 DEF StopGetsThere, StopUnderWay
    <2> QED BY <2>2, <2>3, <2>4
  <1>3. CASE ~StopRun
    <2> SUFFICES ASSUME StopUnderWay PROVE StopUnderWay'
      <3>1. heard' = heard
        BY <1>3 DEF Next, Editor, Opens, Receive, ConnectionLost, Flush, StoreRun, RunEnds, User,
           SetParameter, Handler, Accept, NeverStarts, ReceiveControl, ReceiveFails,
           RunCallback, SendEvent, SendResult, Solver, Begin, Poll, Solve, PacePoll, PaceOver,
           PaceCancelled, Record, Return, Raise, LinkBreaks, vars, history
      <3> QED BY <3>1 DEF StopGetsThere
    <2>1. CASE Opens \/ SetParameter
      <3>1. UNCHANGED <<pending, cancelled, solver, link, handler>>
        BY <2>1 DEF Opens, SetParameter, engine, thread
      <3>2. up' = up \/ \E m \in FromEditor : up' = Append(up, m)
        <4>1. SetParameter => edits' \in 1..MaxEdits
          BY BoundsAssumption DEF SetParameter, TypeOK, EditorOK
        <4> QED BY <2>1, <4>1, ControlMessages DEF Opens, SetParameter, Send
      <3>3. Range(up) \subseteq Range(up')
        <4>1. ASSUME NEW m \in FromEditor, up' = Append(up, m)
              PROVE  Range(up') = Range(up) \cup {m}
          BY <1>1, <4>1, RangeAppend
        <4> QED BY <3>2, <4>1
      <3> QED BY <3>1, <3>3 DEF StopUnderWay
    <2>2. CASE LinkBreaks
      BY <2>2 DEF LinkBreaks, StopUnderWay
    <2>3. CASE Accept
      <3>1. up # <<>> /\ up' = Tail(up) /\ UNCHANGED <<pending, link, cancelled>>
            /\ solver = "none" /\ handler = "accepting"
        BY <2>3 DEF Accept, HandlerInv
      <3>2. Head(up) = Start /\ Start # Cancel
        <4>1. 1 \in DOMAIN up /\ Head(up) = up[1]
          BY <1>1, <3>1
        <4> QED BY <3>1, <4>1, ControlMessages DEF StartInv
      <3>3. Cancel \in Range(up) => Cancel \in Range(up')
        BY <1>1, <3>1, <3>2, RangeTail
      <3> QED BY <3>1, <3>3 DEF StopUnderWay
    <2>4. CASE ReceiveControl
      <3>1. UNCHANGED <<cancelled, solver, link, handler>>
        BY <2>4 DEF ReceiveControl, thread
      <3>2. up # <<>> /\ up' = Tail(up) /\ pending' = Append(pending, Head(up)) /\ Head(up) \in FromEditor
        BY <1>1, <2>4 DEF ReceiveControl
      <3>3. pending \in Seq(FromEditor)
        BY <1>1, ControlMessages, SeqMonotonic
      <3>4. /\ Cancel \in Range(up) => Cancel \in Range(up') \/ Cancel = Head(up)
            /\ Range(pending') = Range(pending) \cup {Head(up)}
        BY <1>1, <3>2, <3>3, RangeTail, RangeAppend
      <3> QED BY <3>1, <3>4 DEF StopUnderWay
    <2>5. CASE ReceiveFails \/ NeverStarts \/ SendEvent \/ SendResult
      <3>1. UNCHANGED <<up, cancelled, solver, link>> /\ (handler = "closed" => handler' = "closed")
        BY <2>5 DEF ReceiveFails, NeverStarts, SendEvent, SendResult, connection, thread
      <3>2. pending' = pending \/ pending' = Append(pending, Cancel)
        BY <2>5 DEF ReceiveFails, OnDisconnect, NeverStarts, SendEvent, SendResult
      <3>3. Range(pending) \subseteq Range(pending')
        <4>1. Cancel \in Controls
          BY ControlMessages
        <4>2. Range(Append(pending, Cancel)) = Range(pending) \cup {Cancel}
          BY <1>1, <4>1, RangeAppend
        <4> QED BY <3>2, <4>2
      <3> QED BY <3>1, <3>3 DEF StopUnderWay
    <2>6. CASE Poll \/ PacePoll
      <3>1. UNCHANGED <<up, link, handler>> /\ solver # "ended" /\ cancelled' = (cancelled \/ StopAsked)
        BY <2>6 DEF Poll, PacePoll, Control, connection
      <3> QED BY <3>1 DEF StopUnderWay, StopAsked
    <2>7. CASE Begin \/ Solve \/ PaceOver \/ PaceCancelled \/ Record \/ Return \/ Raise
      <3>1. UNCHANGED <<up, pending, link, handler, cancelled>> /\ solver # "ended"
        BY <2>7 DEF Begin, Solve, PaceOver, PaceCancelled, Record, Return, Raise, connection,
                    engine
      <3> QED BY <3>1 DEF StopUnderWay
    <2>8. CASE UNCHANGED <<up, pending, cancelled, solver, link, handler>>
      BY <2>8 DEF StopUnderWay
    <2>9. Receive \/ ConnectionLost \/ Flush \/ StoreRun \/ RunEnds \/ RunCallback \/ UNCHANGED vars
          => UNCHANGED <<up, pending, cancelled, solver, link, handler>>
      BY DEF Receive, ConnectionLost, Flush, StoreRun, RunEnds, RunCallback, vars, connection,
             engine, thread
    <2> QED BY <1>3, <2>1, <2>2, <2>3, <2>4, <2>5, <2>6, <2>7, <2>8, <2>9
            DEF Next, Editor, User, Handler, Solver
  <1> QED BY <1>2, <1>3

-----------------------------------------------------------------------------
LEMMA IInvInit == Init => IInv
  <1> SUFFICES ASSUME Init PROVE IInv
    OBVIOUS
  <1>1. TypeOK
    BY TypeInit
  <1>2. StartInv /\ HandlerInv /\ CallsInv
    BY DEF Init, StartInv, HandlerInv, CallsInv
  <1>3. TimesInv /\ ResultInv
    BY DEF Init, TimesInv, ResultInv, Unrecorded
  <1>4. FlowInv
    BY DEF Init, FlowInv, SeenInv
  <1>5. OutcomeInv
    BY DEF Init, OutcomeInv
  <1>6. OrderInv /\ SentInv
    BY RangeEmpty DEF Init, OrderInv, InOrder, Before, SentInv, Sent
  <1>7. LogInv
    BY DEF Init, LogInv
  <1>8. StopGetsThere
    BY DEF Init, StopGetsThere
  <1> QED BY <1>1, <1>2, <1>3, <1>4, <1>5, <1>6, <1>7, <1>8 DEF IInv

LEMMA IInvStep == IInv /\ [Next]_vars => IInv'
  BY TypeStep, StartStep, HandlerStep, CallsStep, TimesStep, ResultStep, FlowStep, OutcomeStep,
     OrderStep, LogStep, SentStep, StopStep DEF IInv

\* The invariant of a live run, which all that follows rests on.
LEMMA Invariance == Spec => []IInv
  BY IInvInit, IInvStep, PTL DEF Spec

\* Every variable keeps its type: no result or message of another kind gets where
\* the code does not expect it.
THEOREM LiveRunTypes == Spec => []TypeOK
  <1>1. IInv => TypeOK
    BY DEF IInv
  <1> QED BY <1>1, Invariance, PTL

\* However the messages, the run's end and a broken connection race, a stop that
\* the socket took is on its way to the solver, or heard, or nothing is left to
\* stop.
THEOREM LiveRunStop == Spec => []StopGetsThere
  <1>1. IInv => StopGetsThere
    BY DEF IInv
  <1> QED BY <1>1, Invariance, PTL

\* The solver applies the edits in the order they were made, and the snapshot
\* stored with the run tells each of them, or a later one made at the same time
\* shown.
THEOREM LiveRunSnapshot == Spec => []SnapshotTrue
  <1>1. ASSUME IInv PROVE SnapshotTrue
    <2>1. ASSUME stored # None, NEW i \in DOMAIN applied, IsEdit(applied[i])
          PROVE  Covered(applied[i].edit)
      <3>1. socket = "closed" /\ applied[i] \in Sent
        BY <1>1, <2>1 DEF IInv, OutcomeInv, Sent, Range
      <3>2. Told(applied[i].edit, stored)
        BY <1>1, <2>1, <3>1 DEF IInv, SentInv
      <3>3. applied[i].edit \in Nat
        BY <1>1, <2>1, ControlMessages, BoundsAssumption DEF IInv, TypeOK, ThreadOK
      <3>4. edits \in Nat
        BY <1>1, BoundsAssumption DEF IInv, TypeOK, EditorOK
      <3> QED BY <3>2, <3>3, <3>4 DEF Told, Covered
    <2> QED BY <1>1, <2>1 DEF SnapshotTrue, IInv, OrderInv, InOrder
  <1> QED BY <1>1, Invariance, PTL

-----------------------------------------------------------------------------
(* What the editor sees is what RunChannel promises.                        *)

LEMMA ChannelInit == Init => Channel!Init
  BY DEF Init, Channel!Init

LEMMA ChannelStep ==
    ASSUME IInv, [Next]_vars
    PROVE  [Channel!Next]_(Channel!vars)
  <1> TypeOK /\ OutcomeInv /\ FlowInv /\ CallsInv /\ TimesInv
    BY DEF IInv
  <1>1. CASE Receive
    <2>1. outcome = None
      BY <1>1 DEF Receive, OutcomeInv
    <2>2. CASE Head(down).type = "step"
      <3>1. /\ seen' = Append(seen, Head(down).step) /\ UNCHANGED outcome
            /\ Len(seen) < Len(times) /\ Head(down).step = times[Len(seen) + 1]
        BY <1>1, <2>2, ReceiveCases, Arrives
      <3>2. times[Len(seen) + 1] \in 0..STEPS
        BY <3>1, Lengths
      <3>3. \A i \in DOMAIN seen : i \in DOMAIN times /\ Len(seen) + 1 \in DOMAIN times /\ i < Len(seen) + 1
        BY <3>1, Lengths
      <3>4. \A i \in DOMAIN seen : seen[i] < times[Len(seen) + 1]
        BY <3>3 DEF FlowInv, SeenInv, TimesInv
      <3> QED BY <2>1, <3>1, <3>2, <3>4 DEF Channel!Next, Channel!Show
    <2>3. CASE Head(down).type = "done"
      <3>1. /\ UNCHANGED seen /\ outcome' = Head(down).result /\ Len(seen) = Len(times)
            /\ Truthful(Head(down).result)
        BY <1>1, <2>3, ReceiveCases, Arrives DEF Settle
      <3>2. seen = times
        BY <3>1, Lengths, SeqEqual DEF FlowInv, SeenInv, TypeOK, EditorOK, ThreadOK
      <3>3. Head(down).result \in Result
        BY <1>1, <2>3, ReceiveCases, Received
      <3>4. PICK status \in {"success", "cancelled", "failed"} :
                Head(down).result = [status |-> status, points |-> seen]
        BY <3>1, <3>2, <3>3 DEF Result, Truthful
      <3>5. /\ status = "success" => Channel!Complete
            /\ status = "cancelled" => ~Channel!Complete
        BY <3>1, <3>2, <3>4 DEF Truthful, Reached, Channel!Complete
      <3> QED BY <2>1, <3>1, <3>4, <3>5 DEF Channel!Next, Channel!Finish
    <2>4. CASE Head(down).type \notin {"step", "done"}
      <3>1. UNCHANGED seen /\ outcome' = Lost
        BY <1>1, <2>4, ReceiveCases DEF Settle
      <3> QED BY <2>1, <3>1 DEF Lost, Channel!Next, Channel!Lose
    <2> QED BY <2>2, <2>3, <2>4
  <1>2. CASE ConnectionLost
    <2>1. outcome = None /\ outcome' = Lost /\ UNCHANGED seen
      BY <1>2 DEF ConnectionLost, Settle, OutcomeInv
    <2> QED BY <2>1 DEF Lost, Channel!Next, Channel!Lose
  <1>3. ~Receive /\ ~ConnectionLost => UNCHANGED <<seen, outcome>>
    BY DEF Next, Editor, Opens, Flush, StoreRun, RunEnds, User, StopRun,
           SetParameter, Handler, Accept, NeverStarts, ReceiveControl, ReceiveFails,
           RunCallback, SendEvent, SendResult, Solver, Begin, Poll, Solve, PacePoll, PaceOver,
           PaceCancelled, Record, Return, Raise, LinkBreaks, vars, editor
  <1> QED BY <1>1, <1>2, <1>3 DEF Channel!vars

\* A live run implements RunChannel: whatever is lost, delayed or raced, the
\* editor is shown the recorded steps one by one and in order, and is given a
\* result of exactly those steps, a success only of a complete run and cancelled
\* only of an incomplete one.
THEOREM LiveRunImplements == Spec => ImplementsChannel
  <1>1. IInv /\ [Next]_vars => [Channel!Next]_(Channel!vars)
    BY ChannelStep
  <1> QED BY <1>1, ChannelInit, Invariance, PTL DEF Spec, ImplementsChannel, Channel!Spec
=============================================================================
