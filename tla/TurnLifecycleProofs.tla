------------------------ MODULE TurnLifecycleProofs ------------------------
(* Proofs about TurnLifecycle, for every set of turns, cancels and           *)
(* subscribers, every ring and every bound: type correctness, the inductive  *)
(* invariant TurnInv, and the properties that rest on it.                    *)
EXTENDS TurnLifecycle, TLAPS

-----------------------------------------------------------------------------
(* Type correctness *)

WatchStages == {"reading", "waiting", "rereading", "lagged", "done"}

\* What Receive, Lag, AfterLag, Deliver and Reply make of a subscription.
LEMMA WatchUpdates ==
    ASSUME NEW x \in Watches, NEW p \in WatchStages, NEW b \in BOOLEAN, NEW a \in Answers
    PROVE  /\ [x EXCEPT !.pc = p] \in Watches
           /\ [x EXCEPT !.inbox = b] \in Watches
           /\ [x EXCEPT !.pc = p, !.inbox = b] \in Watches
           /\ [x EXCEPT !.pc = p, !.answer = a, !.inbox = b] \in Watches
BY DEF Watches, WatchStages

LEMMA DeliverType ==
    ASSUME watch \in [Watchers -> Watches \cup {NoWatch}], NEW t \in Turns, Deliver(t)
    PROVE  watch' \in [Watchers -> Watches \cup {NoWatch}]
<1>1. ASSUME NEW w \in Watchers, watch[w].pc \in {"reading", "waiting", "lagged"}
      PROVE  [watch[w] EXCEPT !.inbox = TRUE] \in Watches
  <2>1. watch[w] \in Watches BY <1>1 DEF NoWatch
  <2>2. QED BY <2>1, WatchUpdates DEF WatchStages, Answers
<1>2. QED BY <1>1 DEF Deliver

LEMMA StepTypeOK ==
    ASSUME TypeOK, NEW t \in Turns, Step(t)
    PROVE  TypeOK'
<1> USE TurnAssumption DEF TypeOK, runStep, runFrame, worker, Polled, Returned, Goto, HandOver,
        RunStages, Writes, Results, Works, Fails
<1>1. CASE Start(t) BY <1>1 DEF Start
<1>2. CASE Load(t)
  <2>1. run' \in [Turns -> RunStages] BY <1>2 DEF Load
  <2>2. io' \in [Turns -> Writes \cup Results \cup {"none"}] BY <1>2 DEF Load
  <2>3. QED BY <1>2, <2>1, <2>2 DEF Load
<1>3. CASE Begin(t) BY <1>3 DEF Begin
<1>4. CASE \E empty \in BOOLEAN : Answer(t, empty) BY <1>4 DEF Answer
<1>5. CASE CallTools(t) BY <1>5 DEF CallTools
<1>6. CASE ToolsDone(t)
  <2>1. ring[t] \in [rotations : Nat, tools : Nat] OBVIOUS
  <2>2. [ring[t] EXCEPT !.tools = @ + 1] \in [rotations : Nat, tools : Nat]
    <3>1. ring[t].tools + 1 \in Nat BY <2>1
    <3>2. QED BY ONLY <2>1, <3>1
  <2>3. ring' \in [Turns -> [rotations : Nat, tools : Nat]] BY <1>6, <2>2 DEF ToolsDone
  <2>4. QED BY <1>6, <2>3 DEF ToolsDone
<1>7. CASE Rotate(t)
  <2>1. ring' \in [Turns -> [rotations : Nat, tools : Nat]] BY <1>7 DEF Rotate
  <2>2. QED BY <1>7, <2>1 DEF Rotate
<1>8. CASE GiveUp(t) BY <1>8 DEF GiveUp
<1>9. CASE FailedMarked(t) BY <1>9 DEF FailedMarked
<1>10. CASE ResponseStored(t) BY <1>10 DEF ResponseStored
<1>11. CASE RecordsKept(t) \/ Summarised(t) \/ Audited(t)
  <2>1. PICK stage \in RunStages : Goto(t, stage) BY <1>11 DEF RecordsKept, Summarised, Audited
  <2>2. UNCHANGED <<runStep, io, ring>> BY <1>11 DEF RecordsKept, Summarised, Audited
  <2>3. QED BY <2>1, <2>2
<1>12. CASE Announce(t)
  <2>1. told' \in [Turns -> Seq(Terminal)] BY <1>12 DEF Announce, Terminal
  <2>2. watch' \in [Watchers -> Watches \cup {NoWatch}] BY <1>12, DeliverType DEF Announce
  <2>3. QED BY <1>12, <2>1, <2>2 DEF Announce
<1>13. CASE End(t) BY <1>13 DEF End
<1>14. CASE Drop(t) BY <1>14 DEF Drop, Awaiting, Recording
<1>15. QED
  BY <1>1, <1>2, <1>3, <1>4, <1>5, <1>6, <1>7, <1>8, <1>9, <1>10, <1>11, <1>12, <1>13, <1>14 DEF Step

LEMMA SubmitWorkTypeOK ==
    ASSUME TypeOK, (\E t \in Turns : Submit(t) \/ Execute(t)) \/ Work
    PROVE  TypeOK'
<1> USE TurnAssumption DEF TypeOK, runFrame, worker, Works, Fails
<1>1. CASE \E t \in Turns : Create(t)
  <2>1. PICK t \in Turns : Create(t) BY <1>1
  <2>2. status' \in [Turns -> Statuses] BY <2>1 DEF Create, Statuses
  <2>3. sub' \in [Turns -> SubStages]
    <3>1. PICK x \in {"created", "streaming", "refused"} : sub' = [sub EXCEPT ![t] = x]
      BY <2>1 DEF Create
    <3>2. QED BY <3>1 DEF SubStages
  <2>4. QED BY <2>1, <2>2, <2>3 DEF Create
<1>2. CASE \E t \in Turns : Enqueue(t)
  <2>1. PICK t \in Turns : Enqueue(t) BY <1>2
  <2>2. queue' \in Seq(Turns) /\ Len(queue') <= QueueCap BY <2>1 DEF Enqueue
  <2>3. QED BY <2>1, <2>2 DEF Enqueue, SubStages
<1>3. CASE \E t \in Turns : Execute(t)
  <2>1. PICK t \in Turns : Execute(t) BY <1>3
  <2>2. status' \in [Turns -> Statuses] BY <2>1 DEF Execute, Writes, Statuses
  <2>3. io' \in [Turns -> Writes \cup Results \cup {"none"}] BY <2>1 DEF Execute, Results
  <2>4. stored' \subseteq Turns /\ hurt' \subseteq Turns BY <2>1 DEF Execute
  <2>5. QED BY <2>1, <2>2, <2>3, <2>4 DEF Execute
<1>4. CASE Spawn BY <1>4 DEF Spawn, RunStages
<1>5. CASE Insert BY <1>5 DEF Insert
<1>6. QED BY <1>1, <1>2, <1>3, <1>4, <1>5 DEF Submit, Work

LEMMA CancellingTypeOK ==
    ASSUME TypeOK, NEW k \in Cancels, Cancelling(k)
    PROVE  TypeOK'
<1> USE DEF TypeOK, cancelFrame, worker, Works, Fails
<1>1. CASE \E t \in Turns : TakeHandle(k, t)
  <2>1. PICK t \in Turns : TakeHandle(k, t) BY <1>1
  <2>2. cancel' \in [Cancels -> CancelRequests \cup {NoCancel}]
    BY <2>1 DEF TakeHandle, CancelRequests
  <2>3. QED BY <2>1, <2>2 DEF TakeHandle
<1>2. CASE MarkFailed(k)
  <2>1. cancel[k] \in CancelRequests BY <1>2 DEF MarkFailed, NoCancel
  <2>2. PICK t \in Turns : cancel[k].turn = t BY <2>1 DEF CancelRequests
  <2>3. cancel' \in [Cancels -> CancelRequests \cup {NoCancel}]
    BY <1>2, <2>1 DEF MarkFailed, CancelRequests
  <2>4. QED BY <1>2, <2>2, <2>3 DEF MarkFailed, Statuses
<1>3. CASE TellCancelled(k)
  <2>1. cancel[k] \in CancelRequests BY <1>3 DEF TellCancelled, NoCancel
  <2>2. PICK t \in Turns : cancel[k].turn = t BY <2>1 DEF CancelRequests
  <2>3. cancel' \in [Cancels -> CancelRequests \cup {NoCancel}]
    BY <1>3, <2>1 DEF TellCancelled, CancelRequests
  <2>4. told' \in [Turns -> Seq(Terminal)] BY <1>3, <2>2 DEF TellCancelled, Terminal
  <2>5. watch' \in [Watchers -> Watches \cup {NoWatch}]
    BY <1>3, <2>2, DeliverType DEF TellCancelled
  <2>6. QED BY <1>3, <2>3, <2>4, <2>5 DEF TellCancelled
<1>4. QED BY <1>1, <1>2, <1>3 DEF Cancelling

LEMMA EnvelopeType == \A s \in Statuses : Envelope(s) \in Answers
BY DEF Envelope, Statuses, Answers

LEMMA WatchingTypeOK ==
    ASSUME TypeOK, NEW w \in Watchers, Watching(w)
    PROVE  TypeOK'
<1> USE DEF TypeOK, watchFrame, worker, Works, Fails
<1>1. CASE \E t \in Turns : Subscribe(w, t) BY <1>1 DEF Subscribe, Watches, Answers
<1>2. ASSUME watch[w].pc # "idle" PROVE watch[w] \in Watches /\ watch[w].turn \in Turns
  BY <1>2 DEF NoWatch, Watches
<1>3. ASSUME NEW a \in Answers, watch[w].pc # "idle", Reply(w, a)
      PROVE  watch' \in [Watchers -> Watches \cup {NoWatch}]
  <2>1. [watch[w] EXCEPT !.pc = "done", !.answer = a, !.inbox = FALSE] \in Watches
    BY <1>2, <1>3, WatchUpdates DEF WatchStages
  <2>2. QED BY <1>3, <2>1 DEF Reply
<1>4. ASSUME NEW p \in WatchStages, watch[w].pc # "idle", watch' = [watch EXCEPT ![w].pc = p]
      PROVE  watch' \in [Watchers -> Watches \cup {NoWatch}]
  <2>1. [watch[w] EXCEPT !.pc = p] \in Watches
    BY <1>2, <1>4, WatchUpdates DEF Answers
  <2>2. QED BY <1>4, <2>1
<1>5. ASSUME NEW p \in WatchStages, NEW b \in BOOLEAN, watch[w].pc # "idle",
             watch' = [watch EXCEPT ![w] = [@ EXCEPT !.pc = p, !.inbox = b]]
      PROVE  watch' \in [Watchers -> Watches \cup {NoWatch}]
  <2>1. [watch[w] EXCEPT !.pc = p, !.inbox = b] \in Watches
    BY <1>2, <1>5, WatchUpdates DEF Answers
  <2>2. QED BY <1>5, <2>1
<1>6. CASE FirstRead(w)
  <2>1. watch[w].pc = "reading" BY <1>6 DEF FirstRead
  <2>2. PICK t \in Turns : watch[w].turn = t BY <1>2, <2>1
  <2>3. Envelope(status[t]) \in Answers /\ "dberror" \in Answers BY EnvelopeType DEF Answers
  <2>4. watch' \in [Watchers -> Watches \cup {NoWatch}]
    <3>1. CASE watch' = [watch EXCEPT ![w].pc = "waiting"]
      BY <1>4, <2>1, <3>1 DEF WatchStages
    <3>2. CASE Reply(w, Envelope(status[t])) BY <1>3, <2>1, <2>3, <3>2
    <3>3. CASE Reply(w, "dberror") BY <1>3, <2>1, <2>3, <3>3
    <3>4. QED BY <1>6, <2>2, <3>1, <3>2, <3>3 DEF FirstRead
  <2>5. hurt' \subseteq Turns BY <1>6, <2>2 DEF FirstRead
  <2>6. QED BY <1>6, <2>4, <2>5 DEF FirstRead
<1>7. CASE Receive(w)
  <2>1. watch' \in [Watchers -> Watches \cup {NoWatch}]
    BY <1>5, <1>7 DEF Receive, WatchStages
  <2>2. QED BY <1>7, <2>1 DEF Receive
<1>8. CASE Lag(w)
  <2>1. watch[w].pc = "waiting" BY <1>8 DEF Lag
  <2>2. watch[w].inbox \in BOOLEAN BY <1>2, <2>1 DEF Watches
  <2>3. watch' \in [Watchers -> Watches \cup {NoWatch}]
    BY <1>5, <1>8, <2>1, <2>2 DEF Lag, WatchStages
  <2>4. QED BY <1>8, <2>3 DEF Lag
<1>9. CASE AfterLag(w)
  <2>1. watch[w].pc = "lagged" BY <1>9 DEF AfterLag
  <2>2. watch' \in [Watchers -> Watches \cup {NoWatch}]
    <3>1. CASE watch' = [watch EXCEPT ![w].pc = "waiting"]
      BY <1>4, <2>1, <3>1 DEF WatchStages
    <3>2. CASE watch' = [watch EXCEPT ![w].pc = "rereading"]
      BY <1>4, <2>1, <3>2 DEF WatchStages
    <3>3. QED BY <1>9, <3>1, <3>2 DEF AfterLag
  <2>3. hurt' \subseteq Turns BY <1>2, <1>9, <2>1 DEF AfterLag
  <2>4. QED BY <1>9, <2>2, <2>3 DEF AfterLag
<1>10. CASE LastRead(w)
  <2>1. watch[w].pc = "rereading" BY <1>10 DEF LastRead
  <2>2. PICK t \in Turns : watch[w].turn = t BY <1>2, <2>1
  <2>3. Envelope(status[t]) \in Answers /\ "dberror" \in Answers BY EnvelopeType DEF Answers
  <2>4. watch' \in [Watchers -> Watches \cup {NoWatch}]
    <3>1. CASE Reply(w, Envelope(status[t])) BY <1>3, <2>1, <2>3, <3>1
    <3>2. CASE Reply(w, "dberror") BY <1>3, <2>1, <2>3, <3>2
    <3>3. QED BY <1>10, <2>2, <3>1, <3>2 DEF LastRead
  <2>5. hurt' \subseteq Turns BY <1>10, <2>2 DEF LastRead
  <2>6. QED BY <1>10, <2>4, <2>5 DEF LastRead
<1>11. CASE TimeOut(w)
  <2>1. watch' \in [Watchers -> Watches \cup {NoWatch}]
    BY <1>3, <1>11 DEF TimeOut, Answers
  <2>2. QED BY <1>11, <2>1 DEF TimeOut
<1>12. QED BY <1>1, <1>6, <1>7, <1>8, <1>9, <1>10, <1>11 DEF Watching

LEMMA ProcessTypeOK ==
    ASSUME TypeOK, Crash \/ Restart
    PROVE  TypeOK'
<1> USE TurnAssumption DEF TypeOK
<1>1. CASE Crash
  <2>1. cancel' \in [Cancels -> CancelRequests \cup {NoCancel}]
    <3>1. ASSUME NEW k \in Cancels, cancel[k].pc \in {"mark", "tell"}
          PROVE  [cancel[k] EXCEPT !.pc = "done"] \in CancelRequests
      <4>1. cancel[k] \in CancelRequests BY <3>1 DEF NoCancel
      <4>2. QED BY ONLY <4>1 DEF CancelRequests
    <3>2. QED BY ONLY TypeOK, <1>1, <3>1 DEF Crash, TypeOK
  <2>2. watch' \in [Watchers -> Watches \cup {NoWatch}]
    <3>1. ASSUME NEW w \in Watchers, watch[w].pc \notin {"idle", "done"}
          PROVE  [watch[w] EXCEPT !.pc = "done", !.inbox = FALSE] \in Watches
      <4>1. watch[w] \in Watches BY <3>1 DEF NoWatch
      <4>2. QED BY <4>1, WatchUpdates DEF WatchStages, Answers
    <3>2. QED BY ONLY TypeOK, <1>1, <3>1 DEF Crash, TypeOK
  <2>3. crashes' \in 0 .. MaxCrashes
    <3>1. MaxCrashes \in Nat /\ crashes \in 0 .. MaxCrashes BY TurnAssumption
    <3>2. crashes < MaxCrashes /\ crashes' = crashes + 1 BY <1>1 DEF Crash
    <3>3. QED BY ONLY <3>1, <3>2
  <2>4. queue' \in Seq(Turns) /\ Len(queue') <= QueueCap
    <3>1. queue' = <<>> BY <1>1 DEF Crash
    <3>2. Len(<<>>) <= QueueCap BY TurnAssumption
    <3>3. <<>> \in Seq(Turns) OBVIOUS
    <3>4. QED BY ONLY <3>1, <3>2, <3>3
  <2>5. run' \in [Turns -> RunStages] /\ sub' \in [Turns -> SubStages]
    BY <1>1 DEF Crash, RunStages, SubStages
  <2>6. QED BY <1>1, <2>1, <2>2, <2>3, <2>4, <2>5 DEF Crash
<1>2. CASE Restart BY <1>2 DEF Restart, Statuses, worker
<1>3. QED BY <1>1, <1>2

\* Every variable of the turn lifecycle keeps its type.
THEOREM TypeCorrect == Spec => []TypeOK
<1>1. Init => TypeOK
  BY TurnAssumption DEF Init, TypeOK, Statuses, SubStages, RunStages
<1>2. TypeOK /\ [Next]_vars => TypeOK'
  <2> SUFFICES ASSUME TypeOK, [Next]_vars PROVE TypeOK' OBVIOUS
  <2>1. CASE UNCHANGED vars BY <2>1 DEF TypeOK, vars, worker
  <2>2. CASE Next
    BY <2>2, StepTypeOK, SubmitWorkTypeOK, CancellingTypeOK, WatchingTypeOK, ProcessTypeOK DEF Next
  <2>3. QED BY <2>1, <2>2
<1>3. QED BY <1>1, <1>2, PTL DEF Spec

-----------------------------------------------------------------------------
(* The inductive invariant *)

\* A step that leaves the queue and the submissions alone, and starts no run.
LEMMA QueueStable ==
    ASSUME TypeOK, QueueInv, UNCHANGED <<queue, sub>>,
           \A u \in Turns : run'[u] = "none" <=> run[u] = "none"
    PROVE  QueueInv'
<1>1. \A i \in DOMAIN queue : queue[i] \in Turns BY DEF TypeOK
<1>2. QED BY <1>1 DEF QueueInv

LEMMA CancelStable ==
    ASSUME CancelInv, UNCHANGED cancel, aborted \subseteq aborted'
    PROVE  CancelInv'
BY DEF CancelInv

\* A step that announces nothing, and writes no row of an announced turn.
LEMMA ToldStable ==
    ASSUME ResponseBehindCompletion, SingleOutcome, UNCHANGED told,
           stored \subseteq stored', hurt \subseteq hurt', aborted \subseteq aborted',
           \A u \in Turns \ aborted' : told[u] # <<>> => status'[u] = status[u]
    PROVE  ResponseBehindCompletion' /\ SingleOutcome'
<1>1. ResponseBehindCompletion' BY DEF ResponseBehindCompletion
<1>2. SingleOutcome'
  <2> SUFFICES ASSUME NEW u \in Turns \ aborted'
               PROVE  /\ Len(told[u]) <= 1
                      /\ told[u] = <<"complete">> => status'[u] = "complete"
                      /\ told[u] = <<"failed">> /\ u \notin hurt' => status'[u] = "failed"
    BY DEF SingleOutcome
  <2>1. u \in Turns \ aborted OBVIOUS
  <2>2. <<"complete">> # <<>> /\ <<"failed">> # <<>> OBVIOUS
  <2>3. QED BY <2>1, <2>2 DEF SingleOutcome
<1>3. QED BY <1>1, <1>2

\* The steps of a run but its announcement.
LEMMA QuietStepInv ==
    ASSUME TypeOK, RunInv, NEW t \in Turns, Step(t), ~Announce(t)
    PROVE  RunInv'
<1> USE DEF runStep, runFrame, worker, Polled, Returned, Goto, HandOver, Works, Fails
<1>1. /\ UNCHANGED <<queue, sub, cancel, aborted, told, status, stored>>
      /\ hurt \subseteq hurt'
  BY DEF Step, Start, Load, Begin, Answer, CallTools, ToolsDone, Rotate, GiveUp, FailedMarked,
         ResponseStored, RecordsKept, Summarised, Audited, End, Drop
<1>2. /\ run[t] # "none" /\ run'[t] # "none"
      /\ \A u \in Turns \ {t} : run'[u] = run[u] /\ io'[u] = io[u]
  BY DEF TypeOK, Step, Start, Load, Begin, Answer, CallTools, ToolsDone, Rotate, GiveUp, FailedMarked,
         ResponseStored, RecordsKept, Summarised, Audited, End, Drop, Awaiting, Recording
<1>3. QueueInv' /\ CancelInv' /\ ResponseBehindCompletion' /\ SingleOutcome'
  BY <1>1, <1>2, QueueStable, CancelStable, ToldStable DEF RunInv
<1>4. IoInv' /\ StoredInv' /\ RowInv'
  <2> DEFINE Unsettled ==
        \/ run'[t] = "failing" /\ io'[t] = "failed"
        \/ run'[t] = "storing" /\ io'[t] = "complete"
        \/ run'[t] = "context" /\ io'[t] = "in_progress"
        \/ run'[t] \in {"drain", "tool", "batch"} /\ io'[t] = "none"
        \/ run'[t] = "announceFailed" /\ io'[t] = "none" /\ t \in hurt'
  <2> DEFINE Unannounced == told[t] = <<>> \/ t \in aborted
  <2> USE DEF TypeOK, RunInv, IoInv, StoredInv, RowInv, Recording, Writes, Results
  <2>0. ASSUME Unsettled, Unannounced PROVE IoInv' /\ StoredInv' /\ RowInv'
    <3>1. t \in Turns \ aborted => told[t] = <<>> BY <2>0
    <3>2. IoInv' BY <1>1, <1>2, <2>0
    <3>3. StoredInv' BY <1>1, <1>2, <2>0
    <3>6. ASSUME NEW u \in Turns \ aborted, u # t
          PROVE  run'[u] = run[u] /\ io'[u] = io[u] /\ status'[u] = status[u] /\ told'[u] = told[u]
      BY <1>1, <1>2, <3>6
    <3>4. RowInv'
      <4>1. ASSUME NEW u \in Turns \ aborted, u # t
            PROVE  /\ run'[u] = "failing" /\ io'[u] = "ok" => status'[u] = "failed"
                   /\ run'[u] = "storing" /\ io'[u] = "ok" => status'[u] = "complete"
                   /\ run'[u] \in Recording \cup {"announceComplete"} => status'[u] = "complete"
                   /\ run'[u] = "announceFailed" /\ u \notin hurt' => status'[u] = "failed"
                   /\ told'[u] # <<>> => run'[u] \in {"ending", "done", "lost"}
        BY <1>1, <3>6, <4>1
      <4>2. QED BY <1>1, <2>0, <3>1, <4>1
    <3>5. QED BY <3>2, <3>3, <3>4
  <2>1. CASE Start(t) BY <1>1, <1>2, <2>1 DEF Start
  <2>2. CASE Load(t)
    <3>1. Unsettled BY <2>2 DEF Load
    <3>2. Unannounced BY <2>2 DEF Load
    <3>3. QED BY ONLY <2>0, <3>1, <3>2
  <2>3. CASE Begin(t)
    <3>1. Unsettled BY <2>3 DEF Begin
    <3>2. Unannounced BY <2>3 DEF Begin
    <3>3. QED BY ONLY <2>0, <3>1, <3>2
  <2>4. CASE \E empty \in BOOLEAN : Answer(t, empty)
    <3>1. Unsettled BY <2>4 DEF Answer
    <3>2. Unannounced BY <2>4 DEF Answer
    <3>3. QED BY ONLY <2>0, <3>1, <3>2
  <2>5. CASE CallTools(t) BY <1>1, <1>2, <2>5 DEF CallTools
  <2>6. CASE ToolsDone(t)
    <3>1. run[t] \in {"tool", "batch"} BY <2>6 DEF ToolsDone
    <3>2. Unsettled BY <2>6, <3>1 DEF ToolsDone
    <3>3. Unannounced BY <3>1
    <3>4. QED BY ONLY <2>0, <3>2, <3>3
  <2>7. CASE Rotate(t)
    <3>1. Unsettled BY <2>7 DEF Rotate
    <3>2. Unannounced BY <2>7 DEF Rotate
    <3>3. QED BY ONLY <2>0, <3>1, <3>2
  <2>8. CASE GiveUp(t) BY <1>1, <1>2, <2>8 DEF GiveUp
  <2>9. CASE FailedMarked(t) BY <1>1, <1>2, <2>9 DEF FailedMarked
  <2>10. CASE ResponseStored(t) BY <1>1, <1>2, <2>10 DEF ResponseStored
  <2>11. CASE RecordsKept(t) \/ Summarised(t) \/ Audited(t)
    <3>1. /\ run[t] \in Recording /\ run'[t] \in Recording \cup {"announceComplete"}
          /\ UNCHANGED <<runStep, io, ring>>
      BY <2>11 DEF RecordsKept, Summarised, Audited, Recording
    <3>2. QED BY <1>2, <3>1 DEF Recording
  <2>12. CASE End(t) BY <1>1, <1>2, <2>12 DEF End
  <2>13. CASE Drop(t) BY <1>1, <1>2, <2>13 DEF Drop, Awaiting, Recording
  <2>14. QED
    BY <2>1, <2>2, <2>3, <2>4, <2>5, <2>6, <2>7, <2>8, <2>9, <2>10, <2>11, <2>12, <2>13 DEF Step
<1>5. QED BY <1>3, <1>4 DEF RunInv

\* The announcement: Completed comes over a stored response, and it is the
\* first event of a turn no cancel touched.
LEMMA AnnounceInv ==
    ASSUME TypeOK, RunInv, NEW t \in Turns, Announce(t)
    PROVE  RunInv'
<1> USE DEF runFrame, worker, Goto
<1> DEFINE outcome == IF run[t] = "announceComplete" THEN "complete" ELSE "failed"
<1>1. /\ UNCHANGED <<queue, sub, cancel, aborted, status, stored, io, hurt>>
      /\ run[t] \in {"announceFailed", "announceComplete"}
      /\ run' = [run EXCEPT ![t] = "ending"]
      /\ told' = [told EXCEPT ![t] = Append(@, outcome)]
  BY DEF Announce
<1>2. QueueInv' /\ CancelInv'
  BY <1>1, QueueStable, CancelStable DEF RunInv, TypeOK
<1>3. IoInv' /\ StoredInv' /\ RowInv'
  BY <1>1 DEF TypeOK, RunInv, IoInv, StoredInv, RowInv, Recording, Writes, Results
<1>4. told[t] \in Seq(Terminal) /\ outcome \in Terminal /\ told'[t] = Append(told[t], outcome)
  BY <1>1 DEF TypeOK, Terminal
<1>5. \A u \in Turns \ {t} : told'[u] = told[u] BY <1>1 DEF TypeOK
<1>6. ResponseBehindCompletion'
  <2> SUFFICES ASSUME NEW u \in Turns, NEW i \in DOMAIN told'[u], told'[u][i] = "complete"
               PROVE  u \in stored
    BY <1>1 DEF ResponseBehindCompletion
  <2>1. CASE u # t BY <1>5, <2>1 DEF RunInv, ResponseBehindCompletion
  <2>2. CASE u = t /\ i \in DOMAIN told[t]
    <3>1. told[t][i] = "complete" BY <1>4, <2>2
    <3>2. QED BY <2>2, <3>1 DEF RunInv, ResponseBehindCompletion
  <2>3. CASE u = t /\ i \notin DOMAIN told[t]
    <3>1. outcome = "complete" BY <1>4, <2>3
    <3>2. run[t] = "announceComplete" BY <3>1
    <3>3. QED BY <2>3, <3>2 DEF RunInv, StoredInv
  <2>4. QED BY <2>1, <2>2, <2>3
<1>7. SingleOutcome'
  <2> SUFFICES ASSUME NEW u \in Turns \ aborted
               PROVE  /\ Len(told'[u]) <= 1
                      /\ told'[u] = <<"complete">> => status[u] = "complete"
                      /\ told'[u] = <<"failed">> /\ u \notin hurt => status[u] = "failed"
    BY <1>1 DEF SingleOutcome
  <2>1. CASE u # t BY <1>5, <2>1 DEF RunInv, SingleOutcome
  <2>2. CASE u = t
    <3>1. told[t] = <<>> BY <1>1, <2>2 DEF RunInv, RowInv
    <3>2. told'[t] = <<outcome>> BY <1>4, <3>1
    <3>3. Len(told'[t]) = 1 /\ told'[t][1] = outcome BY <3>2
    <3>4. CASE run[t] = "announceComplete"
      <4>1. status[t] = "complete" BY <2>2, <3>4 DEF RunInv, RowInv
      <4>2. told'[t] # <<"failed">> BY <3>3, <3>4
      <4>3. QED BY <2>2, <3>3, <4>1, <4>2
    <3>5. CASE run[t] = "announceFailed"
      <4>1. t \notin hurt => status[t] = "failed" BY <2>2, <3>5 DEF RunInv, RowInv
      <4>2. told'[t] # <<"complete">> BY <3>3, <3>5
      <4>3. QED BY <2>2, <3>3, <4>1, <4>2
    <3>6. QED BY <1>1, <3>4, <3>5
  <2>3. QED BY <2>1, <2>2
<1>8. QED BY <1>2, <1>3, <1>6, <1>7 DEF RunInv

\* Whatever write a blocking thread still executes, its turn was not announced,
\* or a cancel took its handle.
LEMMA ExecuteInv ==
    ASSUME TypeOK, RunInv, NEW t \in Turns, Execute(t)
    PROVE  RunInv'
<1> USE DEF runFrame, worker, Works, Fails
<1>1. /\ UNCHANGED <<queue, sub, cancel, aborted, told, run>>
      /\ io[t] \in Writes
      /\ stored \subseteq stored' /\ hurt \subseteq hurt'
      /\ \A u \in Turns \ {t} : status'[u] = status[u] /\ io'[u] = io[u]
  BY DEF Execute, TypeOK
<1>2. \A u \in Turns \ aborted' : told[u] # <<>> => status'[u] = status[u]
  BY <1>1 DEF RunInv, IoInv, RowInv, Writes
<1>3. QueueInv' /\ CancelInv' /\ ResponseBehindCompletion' /\ SingleOutcome'
  BY <1>1, <1>2, QueueStable, CancelStable, ToldStable DEF RunInv
<1>4. IoInv' /\ StoredInv' /\ RowInv'
  <2> USE DEF TypeOK, RunInv, IoInv, StoredInv, RowInv, Recording, Writes, Results
  <2>1. CASE io'[t] = "ok" /\ status'[t] = io[t] /\ (io[t] = "complete" => t \in stored')
    <3>1. IoInv' BY <1>1, <2>1
    <3>2. StoredInv' BY <1>1, <2>1
    <3>3. RowInv' BY <1>1, <2>1
    <3>4. QED BY <3>1, <3>2, <3>3
  <2>2. CASE io'[t] = "err" /\ t \in hurt' /\ UNCHANGED status
    BY <1>1, <2>2
  <2>3. QED BY <2>1, <2>2 DEF Execute
<1>5. QED BY <1>3, <1>4 DEF RunInv

\* What a sequence holds with one more at its end.
LEMMA AppendShape ==
    ASSUME NEW S, NEW q \in Seq(S), NEW x \in S
    PROVE  /\ DOMAIN Append(q, x) = DOMAIN q \cup {Len(q) + 1}
           /\ Len(q) + 1 \notin DOMAIN q
           /\ Append(q, x)[Len(q) + 1] = x
           /\ \A i \in DOMAIN q : Append(q, x)[i] = q[i]
OBVIOUS

\* A submission is not yet a run when its row is created, and enters the queue once.
LEMMA SubmitInv ==
    ASSUME TypeOK, RunInv, NEW t \in Turns, Submit(t)
    PROVE  RunInv'
<1> USE DEF worker, Works, Fails
<1>1. CASE Create(t)
  <2>1. /\ UNCHANGED <<queue, cancel, aborted, told, run, io, stored>>
        /\ sub[t] = "new" /\ hurt \subseteq hurt'
        /\ \A u \in Turns \ {t} : status'[u] = status[u] /\ sub'[u] = sub[u]
    BY <1>1 DEF Create, TypeOK
  <2>2. run[t] = "none" BY <2>1 DEF RunInv, QueueInv
  <2>3. \A u \in Turns \ aborted' : told[u] # <<>> => status'[u] = status[u]
    BY <2>1, <2>2 DEF RunInv, RowInv
  <2>4. CancelInv' /\ ResponseBehindCompletion' /\ SingleOutcome'
    BY <2>1, <2>3, CancelStable, ToldStable DEF RunInv
  <2>5. IoInv' /\ StoredInv' /\ RowInv'
    BY <2>1, <2>2 DEF RunInv, IoInv, StoredInv, RowInv, Recording
  <2>6. QueueInv'
    <3>1. \A i \in DOMAIN queue : queue[i] \in Turns \ {t}
      BY <2>1 DEF TypeOK, RunInv, QueueInv
    <3>2. QED BY <2>1, <2>2, <3>1 DEF RunInv, QueueInv
  <2>7. QED BY <2>4, <2>5, <2>6 DEF RunInv
<1>2. CASE Enqueue(t)
  <2>1. /\ UNCHANGED <<cancel, aborted, told, run, io, stored, status, hurt>>
        /\ sub[t] = "created" /\ sub' = [sub EXCEPT ![t] = "replied"]
        /\ queue' = Append(queue, t)
    BY <1>2 DEF Enqueue
  <2>2. run[t] = "none" BY <2>1 DEF RunInv, QueueInv
  <2>3. CancelInv' /\ ResponseBehindCompletion' /\ SingleOutcome'
    BY <2>1, CancelStable, ToldStable DEF RunInv
  <2>4. IoInv' /\ StoredInv' /\ RowInv'
    BY <2>1 DEF RunInv, IoInv, StoredInv, RowInv, Recording
  <2>5. QueueInv'
    <3>1. \A i \in DOMAIN queue : queue[i] # t /\ queue[i] \in Turns
      BY <2>1 DEF TypeOK, RunInv, QueueInv
    <3>0. queue \in Seq(Turns) /\ queue' = Append(queue, t) BY <2>1 DEF TypeOK
    <3>2. /\ DOMAIN queue' = DOMAIN queue \cup {Len(queue) + 1}
          /\ Len(queue) + 1 \notin DOMAIN queue
          /\ queue'[Len(queue) + 1] = t
          /\ \A i \in DOMAIN queue : queue'[i] = queue[i]
      BY <3>0, AppendShape
    <3>3. sub \in [Turns -> SubStages] BY DEF TypeOK
    <3>4. QED BY <2>1, <2>2, <3>1, <3>2, <3>3 DEF RunInv, QueueInv
  <2>6. QED BY <2>3, <2>4, <2>5 DEF RunInv
<1>3. QED BY <1>1, <1>2 DEF Submit

\* The worker takes each submission off the queue once.
LEMMA WorkInv ==
    ASSUME TypeOK, RunInv, Work
    PROVE  RunInv'
<1>1. CASE Spawn
  <2> DEFINE t == Head(queue)
  <2>1. /\ UNCHANGED <<cancel, aborted, told, io, stored, status, hurt, sub>>
        /\ queue # <<>> /\ queue' = Tail(queue)
        /\ run' = [run EXCEPT ![t] = "spawned"]
    BY <1>1 DEF Spawn
  <2>2. queue \in Seq(Turns) /\ run \in [Turns -> RunStages] BY DEF TypeOK
  <2>3. /\ 1 \in DOMAIN queue /\ t = queue[1] /\ t \in Turns
        /\ \A i \in DOMAIN queue' : i + 1 \in DOMAIN queue /\ i \in Nat \ {0}
                                    /\ queue'[i] = queue[i + 1] /\ queue'[i] \in Turns
    BY <2>1, <2>2
  <2>4. run[t] = "none" /\ sub[t] = "replied" BY <2>3 DEF RunInv, QueueInv
  <2>5. CancelInv' /\ ResponseBehindCompletion' /\ SingleOutcome'
    BY <2>1, CancelStable, ToldStable DEF RunInv
  <2> HIDE DEF t
  <2>6. IoInv' /\ StoredInv' /\ RowInv'
    BY <2>1, <2>2, <2>3, <2>4 DEF RunInv, IoInv, StoredInv, RowInv, Recording, Writes, Results
  <2>7. QueueInv'
    <3>1. \A i \in DOMAIN queue' : queue'[i] # t
      BY <2>3 DEF RunInv, QueueInv
    <3>2. \A i, j \in DOMAIN queue' : queue'[i] = queue'[j] => i = j
      <4> SUFFICES ASSUME NEW i \in DOMAIN queue', NEW j \in DOMAIN queue', queue'[i] = queue'[j]
                   PROVE  i = j
        OBVIOUS
      <4>1. i + 1 = j + 1 BY <2>3 DEF RunInv, QueueInv
      <4>2. i \in Nat /\ j \in Nat BY <2>3
      <4>3. QED BY ONLY <4>1, <4>2
    <3>3. \A i \in DOMAIN queue' : sub'[queue'[i]] = "replied" /\ run'[queue'[i]] = "none"
      BY <2>1, <2>2, <2>3, <3>1 DEF RunInv, QueueInv
    <3>4. \A u \in Turns : run'[u] # "none" => sub'[u] = "replied"
      BY <2>1, <2>2, <2>4 DEF RunInv, QueueInv
    <3>5. QED BY <3>2, <3>3, <3>4 DEF QueueInv
  <2>8. QED BY <2>5, <2>6, <2>7 DEF RunInv
<1>2. CASE Insert
  <2>1. UNCHANGED <<queue, cancel, aborted, told, run, io, stored, status, hurt, sub>>
    BY <1>2 DEF Insert
  <2>2. QED
    BY <2>1, QueueStable, CancelStable, ToldStable DEF RunInv, IoInv, StoredInv, RowInv, Recording
<1>3. QED BY <1>1, <1>2 DEF Work

\* A cancel writes and announces only for a run whose handle it took.
LEMMA CancellingInv ==
    ASSUME TypeOK, RunInv, NEW k \in Cancels, Cancelling(k)
    PROVE  RunInv'
<1> USE DEF cancelFrame, worker, Works, Fails
<1>1. /\ UNCHANGED <<queue, sub, run, io, stored>>
      /\ aborted \subseteq aborted' /\ hurt \subseteq hurt'
  BY DEF Cancelling, TakeHandle, MarkFailed, TellCancelled
<1>2. \A u \in Turns \ aborted' : u \notin aborted /\ status'[u] = status[u] /\ told'[u] = told[u]
  <2>1. CASE \E t \in Turns : TakeHandle(k, t) BY <1>1, <2>1 DEF TakeHandle
  <2>2. CASE MarkFailed(k) BY <2>2 DEF MarkFailed, TypeOK, RunInv, CancelInv
  <2>3. CASE TellCancelled(k) BY <2>3 DEF TellCancelled, TypeOK, RunInv, CancelInv
  <2>4. QED BY <2>1, <2>2, <2>3 DEF Cancelling
<1>3. QueueInv' BY <1>1, QueueStable DEF RunInv
<1>4. IoInv' /\ StoredInv' /\ RowInv'
  BY <1>1, <1>2 DEF RunInv, IoInv, StoredInv, RowInv, Recording
<1>5. SingleOutcome' BY <1>1, <1>2 DEF RunInv, SingleOutcome
<1>6. CancelInv'
  <2>1. CASE \E t \in Turns : TakeHandle(k, t)
    BY <2>1 DEF TakeHandle, TypeOK, RunInv, CancelInv
  <2>2. CASE MarkFailed(k) BY <2>2 DEF MarkFailed, TypeOK, RunInv, CancelInv
  <2>3. CASE TellCancelled(k) BY <2>3 DEF TellCancelled, TypeOK, RunInv, CancelInv
  <2>4. QED BY <2>1, <2>2, <2>3 DEF Cancelling
<1>7. ResponseBehindCompletion'
  <2>1. CASE UNCHANGED told BY <1>1, <2>1 DEF RunInv, ResponseBehindCompletion
  <2>2. CASE TellCancelled(k)
    <3>1. cancel[k] \in CancelRequests BY <2>2 DEF TellCancelled, TypeOK, NoCancel
    <3>2. PICK t \in Turns : cancel[k].turn = t BY <3>1 DEF CancelRequests
    <3>3. told' = [told EXCEPT ![t] = Append(@, "failed")] /\ told[t] \in Seq(Terminal)
      BY <2>2, <3>2 DEF TellCancelled, TypeOK
    <3>4. told'[t] = Append(told[t], "failed") /\ \A u \in Turns \ {t} : told'[u] = told[u]
      BY <3>3 DEF TypeOK
    <3>5. \A i \in DOMAIN told'[t] : told'[t][i] = "complete" =>
             i \in DOMAIN told[t] /\ told[t][i] = "complete"
      BY <3>3, <3>4 DEF Terminal
    <3>6. QED BY <1>1, <3>4, <3>5 DEF RunInv, ResponseBehindCompletion
  <2>3. QED BY <2>1, <2>2 DEF Cancelling, TakeHandle, MarkFailed
<1>8. QED BY <1>3, <1>4, <1>5, <1>6, <1>7 DEF RunInv

\* Subscribers only read.
LEMMA WatchingInv ==
    ASSUME TypeOK, RunInv, NEW w \in Watchers, Watching(w)
    PROVE  RunInv'
<1>1. /\ UNCHANGED <<queue, sub, cancel, aborted, told, run, io, stored, status>>
      /\ hurt \subseteq hurt'
  BY DEF Watching, Subscribe, FirstRead, Receive, Lag, AfterLag, LastRead, TimeOut, watchFrame,
         worker, Works, Fails
<1>2. QED
  BY <1>1, QueueStable, CancelStable, ToldStable DEF RunInv, IoInv, StoredInv, RowInv, Recording

\* A crash empties the queue and ends every run; a restart finds the rows as
\* they were left.
LEMMA ProcessInv ==
    ASSUME TypeOK, RunInv, Crash \/ Restart
    PROVE  RunInv'
<1>1. CASE Crash
  <2>1. /\ UNCHANGED <<aborted, told, stored, status, hurt>>
        /\ queue' = <<>>
        /\ \A u \in Turns : /\ io'[u] = "none"
                            /\ run'[u] \in {run[u], "lost"}
                            /\ run[u] \in {"none", "done", "dropped"} <=> run'[u] # "lost"
                            /\ sub[u] # "created" => sub'[u] = sub[u]
    BY <1>1 DEF Crash, TypeOK
  <2>2. ResponseBehindCompletion' /\ SingleOutcome'
    BY <2>1, ToldStable DEF RunInv
  <2>3. CancelInv'
    <3>1. ASSUME NEW k \in Cancels, cancel[k].pc \in {"mark", "tell"}
          PROVE  [cancel[k] EXCEPT !.pc = "done"].pc = "done"
      BY <3>1 DEF TypeOK, CancelRequests, NoCancel
    <3>2. \A k \in Cancels : cancel'[k].pc \notin {"mark", "tell"} BY <1>1, <3>1 DEF Crash
    <3>3. QED BY <3>2 DEF CancelInv
  <2>4. QueueInv'
    <3>1. \A i \in DOMAIN queue' : FALSE
      <4>1. queue' = <<>> BY <2>1
      <4>2. <<>> \in Seq(Turns) /\ Len(<<>>) = 0 OBVIOUS
      <4>3. queue' \in Seq(Turns) /\ Len(queue') = 0 BY ONLY <4>1, <4>2
      <4>4. DOMAIN queue' = 1 .. Len(queue') BY ONLY <4>3
      <4>5. QED BY ONLY <4>3, <4>4
    <3>2. \A u \in Turns : run'[u] # "none" => sub'[u] = "replied"
      BY <2>1 DEF RunInv, QueueInv
    <3>3. QED BY <3>1, <3>2 DEF QueueInv
  <2>5. IoInv' /\ StoredInv' /\ RowInv'
    BY <2>1 DEF RunInv, IoInv, StoredInv, RowInv, Recording, Writes, Results
  <2>6. QED BY <2>2, <2>3, <2>4, <2>5 DEF RunInv
<1>2. CASE Restart
  <2>1. /\ UNCHANGED <<queue, sub, cancel, aborted, told, run, io, stored, hurt>>
        /\ \A u \in Turns : status'[u] = status[u]
    BY <1>2 DEF Restart, SessionStatus, TypeOK, worker
  <2>2. QED
    BY <2>1, QueueStable, CancelStable, ToldStable DEF RunInv, IoInv, StoredInv, RowInv, Recording
<1>3. QED BY <1>1, <1>2

LEMMA InitTurnInv == Init => RunInv
BY DEF Init, RunInv, QueueInv, IoInv, StoredInv, RowInv, Recording, CancelInv, ResponseBehindCompletion,
       SingleOutcome, NoCancel, Writes, Results

LEMMA NextTurnInv ==
    ASSUME TypeOK, RunInv, [Next]_vars
    PROVE  RunInv'
<1>1. CASE UNCHANGED vars
  BY <1>1, QueueStable, CancelStable, ToldStable
     DEF vars, worker, RunInv, IoInv, StoredInv, RowInv, Recording
<1>2. CASE Next
  BY <1>2, QuietStepInv, AnnounceInv, ExecuteInv, SubmitInv, WorkInv, CancellingInv, WatchingInv,
     ProcessInv DEF Next
<1>3. QED BY <1>1, <1>2

LEMMA RunInvariant == Spec => []RunInv
<1>1. Spec => []TypeOK BY TypeCorrect
<1>2. QED BY <1>1, InitTurnInv, NextTurnInv, PTL DEF Spec

-----------------------------------------------------------------------------
(* Rows that only move forward, and what subscribers make of them *)

StatusStep ==
    \A t \in Turns \ aborted' : status'[t] = status[t] \/ Rank(status'[t]) > Rank(status[t])

LEMMA Ranks ==
    /\ \A s \in Statuses : Rank(s) \in 0 .. 3
    /\ \A s \in Statuses : s \in Terminal <=> Rank(s) = 3
    /\ Rank("none") = 0 /\ Rank("queued") = 1 /\ Rank("planned") = 1 /\ Rank("in_progress") = 2
    /\ Rank("failed") = 3 /\ Rank("complete") = 3
BY DEF Rank, Statuses, Terminal

\* A settled row of a turn no cancel touches stays.
LEMMA SettledStays ==
    ASSUME TypeOK, TypeOK', StatusStep, NEW t \in Turns \ aborted', status[t] \in Terminal
    PROVE  status'[t] = status[t]
<1>1. status[t] \in Statuses /\ status'[t] \in Statuses BY DEF TypeOK
<1>2. QED BY <1>1, Ranks DEF StatusStep

\* A step that touches no run, and no row of a turn no cancel touches.
LEMMA ForwardStable ==
    ASSUME TypeOK, RowForward, UNCHANGED <<sub, run, io>>, aborted \subseteq aborted',
           \A u \in Turns \ aborted' : status'[u] = status[u]
    PROVE  RowForward' /\ StatusStep
BY DEF RowForward, StatusStep

\* Whatever a run does, its writes are ahead of its row.
LEMMA StepForward ==
    ASSUME TypeOK, RunInv, RowForward, NEW t \in Turns, Step(t)
    PROVE  RowForward' /\ StatusStep
<1>1. /\ UNCHANGED <<sub, aborted, status>>
      /\ \A u \in Turns \ {t} : run'[u] = run[u] /\ io'[u] = io[u]
      /\ run[t] # "none" /\ run'[t] # "none"
  BY DEF TypeOK, Step, Start, Load, Begin, Answer, CallTools, ToolsDone, Rotate, GiveUp, FailedMarked,
         ResponseStored, RecordsKept, Summarised, Audited, Announce, End, Drop, Awaiting, Recording, runStep, runFrame, Polled,
         Returned, Goto, HandOver
<1>2. sub[t] # "new" BY <1>1 DEF RunInv, QueueInv
<1>3. t \notin aborted =>
        /\ run'[t] \in {"none", "spawned", "loading"} => Rank(status[t]) <= 1
        /\ run'[t] = "context" => io'[t] \in {"in_progress"} \cup Results
        /\ run'[t] \in {"context", "drain", "tool", "batch"} => Rank(status[t]) <= 2
        /\ io'[t] = "in_progress" => Rank(status[t]) <= 1
        /\ io'[t] \in {"failed", "complete"} => Rank(status[t]) <= 2
  <2> DEFINE Row ==
        /\ t \notin aborted => sub[t] # "new"
        /\ t \notin aborted /\ run[t] \in {"none", "spawned", "loading"} => Rank(status[t]) <= 1
        /\ t \notin aborted /\ run[t] = "context" => io[t] \in {"in_progress"} \cup Results
        /\ t \notin aborted /\ run[t] \in {"context", "drain", "tool", "batch"} => Rank(status[t]) <= 2
        /\ t \notin aborted /\ io[t] = "in_progress" => Rank(status[t]) <= 1
        /\ t \notin aborted /\ io[t] \in {"failed", "complete"} => Rank(status[t]) <= 2
  <2> USE DEF Polled, Returned, Goto, HandOver, runStep
  <2>1. Row BY <1>2 DEF RowForward
  <2>2. /\ status[t] \in Statuses /\ Rank(status[t]) \in 0 .. 3
        /\ run \in [Turns -> RunStages] /\ io \in [Turns -> Writes \cup Results \cup {"none"}]
    BY Ranks DEF TypeOK
  <2>3. run[t] \in {"spawned", "loading", "drain", "tool", "batch"} => io[t] = "none"
    BY DEF RunInv, IoInv
  <2> HIDE DEF Rank
  <2>4. CASE Start(t) BY <2>1, <2>2, <2>3, <2>4 DEF Start
  <2>5. CASE Load(t) BY <2>1, <2>2, <2>3, <2>5 DEF Load
  <2>6. CASE Begin(t) BY <2>1, <2>2, <2>6 DEF Begin
  <2>7. CASE \E empty \in BOOLEAN : Answer(t, empty) BY <2>1, <2>2, <2>3, <2>7 DEF Answer
  <2>8. CASE CallTools(t) BY <2>1, <2>2, <2>8 DEF CallTools
  <2>9. CASE ToolsDone(t) BY <2>1, <2>2, <2>3, <2>9 DEF ToolsDone
  <2>10. CASE Rotate(t) BY <2>1, <2>2, <2>3, <2>10 DEF Rotate
  <2>11. CASE GiveUp(t) BY <2>1, <2>2, <2>3, <2>11 DEF GiveUp
  <2>12. CASE FailedMarked(t) \/ ResponseStored(t) \/ RecordsKept(t) \/ Summarised(t) \/ Audited(t)
    BY <2>1, <2>2, <2>12 DEF FailedMarked, ResponseStored, RecordsKept, Summarised, Audited
  <2>13. CASE Announce(t) BY <2>1, <2>2, <2>13 DEF Announce
  <2>14. CASE End(t) \/ Drop(t) BY <2>1, <2>2, <2>14 DEF End, Drop
  <2>15. QED
    BY <2>4, <2>5, <2>6, <2>7, <2>8, <2>9, <2>10, <2>11, <2>12, <2>13, <2>14 DEF Step
<1>4. RowForward' BY <1>1, <1>2, <1>3 DEF RowForward
<1>5. QED BY <1>1, <1>4 DEF StatusStep

\* A write lands on a row behind it.
LEMMA ExecuteForward ==
    ASSUME TypeOK, RunInv, RowForward, NEW t \in Turns, Execute(t)
    PROVE  RowForward' /\ StatusStep
<1>1. /\ UNCHANGED <<sub, aborted, run>> /\ io[t] \in Writes
      /\ \A u \in Turns \ {t} : status'[u] = status[u] /\ io'[u] = io[u]
      /\ io'[t] \in Results
      /\ status'[t] \in {status[t], io[t]}
  BY DEF Execute, runFrame, TypeOK, Results
<1>2. run[t] \notin {"none", "spawned", "loading", "drain", "tool", "batch"} BY <1>1 DEF RunInv, IoInv, Writes
<1>3. t \notin aborted /\ run[t] = "context" => io[t] = "in_progress"
  BY <1>1 DEF RowForward, Writes, Results
<1>4. status[t] \in Statuses /\ Rank(status[t]) \in 0 .. 3 BY Ranks DEF TypeOK
<1>5. ASSUME t \notin aborted
      PROVE  /\ status'[t] = status[t] \/ Rank(status'[t]) > Rank(status[t])
             /\ run[t] = "context" => Rank(status'[t]) <= 2
             /\ sub[t] = "new" => status'[t] = "none"
  <2>1. /\ io[t] = "in_progress" => Rank(status[t]) <= 1
        /\ io[t] \in {"failed", "complete"} => Rank(status[t]) <= 2
        /\ run[t] = "context" => Rank(status[t]) <= 2
    BY <1>5 DEF RowForward
  <2>2. sub[t] # "new" BY <1>2 DEF RunInv, QueueInv
  <2> HIDE DEF Rank
  <2>3. QED BY <1>1, <1>3, <1>4, <1>5, <2>1, <2>2, Ranks DEF Writes
<1>6. RowForward' BY <1>1, <1>2, <1>5 DEF RowForward, Results
<1>7. QED BY <1>1, <1>5, <1>6 DEF StatusStep

\* Every step of the system keeps rows moving forward.
LEMMA NextForward ==
    ASSUME TypeOK, RunInv, RowForward, [Next]_vars
    PROVE  RowForward' /\ StatusStep
<1>1. CASE UNCHANGED vars BY <1>1, ForwardStable DEF vars, worker
<1>2. ASSUME NEW t \in Turns, Create(t) PROVE RowForward' /\ StatusStep
  <2>1. /\ UNCHANGED <<aborted, run, io>>
        /\ \A u \in Turns \ {t} : status'[u] = status[u] /\ sub'[u] = sub[u]
        /\ sub[t] = "new" /\ sub'[t] # "new"
        /\ status'[t] \in {status[t], "planned", "queued"}
    BY <1>2 DEF Create, TypeOK
  <2>2. run[t] = "none" BY <2>1 DEF RunInv, QueueInv
  <2>3. io[t] = "none" BY <2>2 DEF RunInv, IoInv
  <2>4. t \notin aborted => status[t] = "none" BY <2>1 DEF RowForward
  <2>5. t \notin aborted => Rank(status'[t]) <= 1 /\ (status'[t] = status[t] \/ Rank(status'[t]) > Rank(status[t]))
    BY <2>1, <2>4, Ranks
  <2>6. RowForward' BY <2>1, <2>2, <2>3, <2>5 DEF RowForward
  <2>7. QED BY <2>1, <2>5, <2>6 DEF StatusStep
<1>3. ASSUME NEW t \in Turns, Enqueue(t) PROVE RowForward' /\ StatusStep
  <2>1. /\ UNCHANGED <<aborted, run, io, status>>
        /\ \A u \in Turns : sub'[u] = "new" => sub[u] = "new"
    BY <1>3 DEF Enqueue, TypeOK
  <2>2. QED BY <2>1 DEF RowForward, StatusStep
<1>4. CASE Spawn
  <2>1. /\ UNCHANGED <<aborted, io, status, sub>>
        /\ \E t \in Turns : run[t] = "none" /\ run' = [run EXCEPT ![t] = "spawned"]
    <3>1. queue \in Seq(Turns) /\ queue # <<>> BY <1>4 DEF Spawn, TypeOK
    <3>2. Head(queue) \in Turns /\ 1 \in DOMAIN queue /\ Head(queue) = queue[1] BY <3>1
    <3>3. run[Head(queue)] = "none" BY <3>2 DEF RunInv, QueueInv
    <3>4. QED BY <1>4, <3>2, <3>3 DEF Spawn
  <2>2. PICK t \in Turns : run[t] = "none" /\ run' = [run EXCEPT ![t] = "spawned"] BY <2>1
  <2>3. \A u \in Turns \ {t} : run'[u] = run[u] BY <2>2 DEF TypeOK
  <2>4. run'[t] = "spawned" BY <2>2 DEF TypeOK
  <2>5. QED BY <2>1, <2>2, <2>3, <2>4 DEF RowForward, StatusStep
<1>5. CASE Insert BY <1>5, ForwardStable DEF Insert
<1>6. ASSUME NEW k \in Cancels, Cancelling(k) PROVE RowForward' /\ StatusStep
  <2>1. UNCHANGED <<sub, run, io>> /\ aborted \subseteq aborted'
    BY <1>6 DEF Cancelling, TakeHandle, MarkFailed, TellCancelled, cancelFrame
  <2>2. \A u \in Turns \ aborted' : status'[u] = status[u]
    <3>1. CASE \E t \in Turns : TakeHandle(k, t) BY <3>1 DEF TakeHandle
    <3>2. CASE MarkFailed(k) BY <3>2 DEF MarkFailed, TypeOK, RunInv, CancelInv
    <3>3. CASE TellCancelled(k) BY <3>3 DEF TellCancelled
    <3>4. QED BY <1>6, <3>1, <3>2, <3>3 DEF Cancelling
  <2>3. QED BY <2>1, <2>2, ForwardStable
<1>7. ASSUME NEW w \in Watchers, Watching(w) PROVE RowForward' /\ StatusStep
  <2>1. UNCHANGED <<sub, run, io, aborted, status>>
    BY <1>7 DEF Watching, Subscribe, FirstRead, Receive, Lag, AfterLag, LastRead, TimeOut, watchFrame
  <2>2. QED BY <2>1, ForwardStable
<1>8. CASE Crash
  <2>1. /\ UNCHANGED <<aborted, status>>
        /\ \A u \in Turns : /\ io'[u] = "none"
                            /\ run'[u] \in {"none", "done", "dropped", "lost"}
                            /\ run'[u] = "none" => run[u] = "none"
                            /\ sub'[u] = "new" => sub[u] = "new"
    BY <1>8 DEF Crash
  <2>2. QED BY <2>1 DEF RowForward, StatusStep
<1>9. CASE Restart
  <2>1. UNCHANGED <<sub, run, io, aborted>> /\ \A u \in Turns : status'[u] = status[u]
    BY <1>9 DEF Restart, SessionStatus, TypeOK
  <2>2. QED BY <2>1, ForwardStable
<1>10. QED
  BY <1>1, <1>2, <1>3, <1>4, <1>5, <1>6, <1>7, <1>8, <1>9, StepForward, ExecuteForward
     DEF Next, Submit, Work

LEMMA ForwardInvariant == Spec => []RowForward
<1>1. Init => RowForward BY Ranks DEF Init, RowForward
<1>2. QED BY <1>1, NextForward, TypeCorrect, RunInvariant, PTL DEF Spec

\* What WatchInv says of one subscriber.
WatcherInv(w) ==
    /\ watch[w].pc \notin {"idle", "done"} => watch[w].answer = "none"
    /\ watch[w].pc \in {"reading", "waiting", "lagged"} /\ watch[w].inbox
          => told[watch[w].turn] # <<>>
    /\ watch[w].pc = "rereading"
          => watch[w].turn \in aborted \cup hurt \/ status[watch[w].turn] \in Terminal
    /\ watch[w].pc = "waiting" /\ told[watch[w].turn] # <<>>
          => watch[w].inbox \/ watch[w].turn \in aborted \cup hurt
    /\ watch[w].pc = "done" =>
          /\ watch[w].answer = "response" => watch[w].turn \in stored
          /\ watch[w].answer = "failure" /\ watch[w].turn \notin aborted
                => status[watch[w].turn] = "failed"
          /\ watch[w].answer = "unsettled" => watch[w].turn \in aborted \cup hurt

StoredRows == \A t \in Turns : status[t] = "complete" => t \in stored

LEMMA WatchParts == WatchInv <=> StoredRows /\ \A w \in Watchers : WatcherInv(w)
BY DEF WatchInv, WatcherInv, StoredRows, NoLostWakeup, AnswersAgree

LEMMA OneElement ==
    ASSUME NEW S, NEW q \in Seq(S), q # <<>>, Len(q) <= 1
    PROVE  q[1] \in S /\ q = <<q[1]>>
<1>1. Len(q) \in Nat /\ Len(q) # 0 OBVIOUS
<1>2. \A n \in Nat : n # 0 /\ n <= 1 => n = 1 OBVIOUS
<1>3. Len(q) = 1 BY <1>1, <1>2
<1>4. QED BY <1>3

\* An announced turn that no cancel and no failure of the database touched is settled.
LEMMA ToldIsSettled ==
    ASSUME TypeOK, SingleOutcome, NEW t \in Turns \ (aborted \cup hurt), told[t] # <<>>
    PROVE  status[t] \in Terminal
<1>1. told[t] \in Seq(Terminal) /\ Len(told[t]) <= 1 BY DEF TypeOK, SingleOutcome
<1>2. told[t][1] \in Terminal /\ told[t] = <<told[t][1]>> BY <1>1, OneElement
<1>3. told[t] = <<"complete">> \/ told[t] = <<"failed">> BY <1>2 DEF Terminal
<1>4. QED BY <1>3 DEF SingleOutcome, Terminal

\* Only a completed write completes a row, and it stores the response.
LEMMA StoredRowsKept ==
    ASSUME TypeOK, RunInv, StoredRows, [Next]_vars
    PROVE  StoredRows' /\ stored \subseteq stored'
<1> USE DEF StoredRows
<1>1. CASE UNCHANGED vars BY <1>1 DEF vars
<1>2. ASSUME NEW t \in Turns, Submit(t) PROVE StoredRows' /\ stored \subseteq stored'
  BY <1>2 DEF Submit, Create, Enqueue, TypeOK
<1>3. ASSUME NEW t \in Turns, Step(t) PROVE StoredRows' /\ stored \subseteq stored'
  BY <1>3 DEF Step, Start, Load, Begin, Answer, CallTools, ToolsDone, Rotate, GiveUp, FailedMarked,
              ResponseStored, RecordsKept, Summarised, Audited, Announce, End, Drop, runStep
<1>4. ASSUME NEW t \in Turns, Execute(t) PROVE StoredRows' /\ stored \subseteq stored'
  BY <1>4 DEF Execute, TypeOK
<1>5. CASE Work BY <1>5 DEF Work, Spawn, Insert
<1>6. ASSUME NEW k \in Cancels, Cancelling(k) PROVE StoredRows' /\ stored \subseteq stored'
  BY <1>6 DEF Cancelling, TakeHandle, MarkFailed, TellCancelled, cancelFrame, TypeOK
<1>7. ASSUME NEW w \in Watchers, Watching(w) PROVE StoredRows' /\ stored \subseteq stored'
  BY <1>7 DEF Watching, Subscribe, FirstRead, Receive, Lag, AfterLag, LastRead, TimeOut, watchFrame
<1>8. CASE Crash BY <1>8 DEF Crash
<1>9. CASE Restart BY <1>9 DEF Restart, SessionStatus, TypeOK
<1>10. QED BY <1>1, <1>2, <1>3, <1>4, <1>5, <1>6, <1>7, <1>8, <1>9 DEF Next

\* While a subscriber is not served, announcements reach it and rows stay settled.
LEMMA WatcherKept ==
    ASSUME TypeOK, TypeOK', StatusStep, stored \subseteq stored', aborted \subseteq aborted',
           hurt \subseteq hurt', NEW w \in Watchers, WatcherInv(w),
           \/ UNCHANGED <<watch, told>>
           \/ \E t \in Turns : /\ Deliver(t) /\ told'[t] # <<>>
                               /\ \A u \in Turns \ {t} : told'[u] = told[u]
    PROVE  WatcherInv(w)'
<1>1. CASE watch[w] = NoWatch
  <2>1. watch'[w] = watch[w] BY <1>1 DEF Deliver, NoWatch
  <2>2. QED BY <1>1, <2>1 DEF WatcherInv, NoWatch
<1>2. CASE watch[w] \in Watches
  <2> DEFINE u == watch[w].turn
  <2>1. u \in Turns /\ watch[w].inbox \in BOOLEAN BY <1>2 DEF Watches
  <2>2. u \notin aborted' /\ status[u] \in Terminal => status'[u] = status[u] BY <2>1, SettledStays
  <2>3. CASE UNCHANGED <<watch, told>>
    BY <2>1, <2>2, <2>3 DEF WatcherInv, Terminal
  <2>4. ASSUME NEW t \in Turns, Deliver(t), told'[t] # <<>>, \A v \in Turns \ {t} : told'[v] = told[v]
        PROVE  WatcherInv(w)'
    <3>1. CASE watch[w].pc \in {"reading", "waiting", "lagged"} /\ u = t
      <4>1. watch'[w] = [watch[w] EXCEPT !.inbox = TRUE] BY <2>4, <3>1 DEF Deliver
      <4>2. /\ watch'[w].inbox = TRUE /\ watch'[w].turn = t
            /\ watch'[w].pc = watch[w].pc /\ watch'[w].answer = watch[w].answer
        BY <1>2, <3>1, <4>1 DEF Watches
      <4>3. QED BY <2>4, <3>1, <4>2 DEF WatcherInv
    <3>2. CASE ~(watch[w].pc \in {"reading", "waiting", "lagged"} /\ u = t)
      <4>1. watch'[w] = watch[w] BY <2>4, <3>2 DEF Deliver
      <4>2. watch[w].pc \in {"reading", "waiting", "lagged"} => told'[u] = told[u]
        BY <2>1, <2>4, <3>2
      <4>3. QED BY <2>1, <2>2, <4>1, <4>2 DEF WatcherInv, Terminal
    <3>3. QED BY <3>1, <3>2
  <2>5. QED BY <2>3, <2>4
<1>3. QED BY <1>1, <1>2 DEF TypeOK

\* A subscriber's own steps: what it answers is what it read.
LEMMA OwnWatch ==
    ASSUME TypeOK, RunInv, StoredRows, NEW w \in Watchers, WatcherInv(w), Watching(w)
    PROVE  WatcherInv(w)'
<1>1. UNCHANGED <<told, status, stored, aborted>> /\ hurt \subseteq hurt'
  BY DEF Watching, Subscribe, FirstRead, Receive, Lag, AfterLag, LastRead, TimeOut, watchFrame,
         Works, Fails
<1>2. CASE \E t \in Turns : Subscribe(w, t)
  BY <1>1, <1>2 DEF Subscribe, WatcherInv, TypeOK
<1>3. CASE ~\E t \in Turns : Subscribe(w, t)
  <2> DEFINE u == watch[w].turn
  <2>1. watch[w] \in Watches
    BY <1>3 DEF Watching, FirstRead, Receive, Lag, AfterLag, LastRead, TimeOut, TypeOK, NoWatch
  <2>2. u \in Turns /\ watch[w].inbox \in BOOLEAN /\ status[u] \in Statuses
    BY <2>1 DEF Watches, TypeOK
  <2>3. told[u] # <<>> => u \in aborted \cup hurt \/ status[u] \in Terminal
    BY <2>2, ToldIsSettled DEF RunInv
  <2>4. status[u] = "complete" => u \in stored BY <2>2 DEF StoredRows
  <2>5. ASSUME NEW a \in Answers, Reply(w, a),
               a = "response" => u \in stored,
               a = "failure" => status[u] = "failed",
               a = "unsettled" => u \in aborted \cup hurt'
        PROVE  WatcherInv(w)'
    <3>1. watch'[w] = [watch[w] EXCEPT !.pc = "done", !.answer = a, !.inbox = FALSE]
      BY <2>5 DEF Reply, TypeOK
    <3>2. watch'[w].pc = "done" /\ watch'[w].answer = a /\ watch'[w].turn = u
      BY <2>1, <3>1 DEF Watches
    <3>3. QED BY <1>1, <2>5, <3>2 DEF WatcherInv
  <2>6. ASSUME NEW p \in WatchStages \ {"done"}, NEW b \in BOOLEAN, watch[w].pc # "done",
               watch' = [watch EXCEPT ![w] = [@ EXCEPT !.pc = p, !.inbox = b]]
        PROVE  /\ watch'[w].pc = p /\ watch'[w].turn = u /\ watch'[w].inbox = b
               /\ watch'[w].answer = "none"
    <3>1. watch'[w] = [watch[w] EXCEPT !.pc = p, !.inbox = b] BY <2>6 DEF TypeOK
    <3>2. watch[w].answer = "none" BY <2>1, <2>6 DEF WatcherInv, Watches
    <3>3. QED BY <2>1, <3>1, <3>2 DEF Watches
  <2>7. ASSUME NEW p \in WatchStages \ {"done"}, watch[w].pc # "done",
               watch' = [watch EXCEPT ![w].pc = p]
        PROVE  /\ watch'[w].pc = p /\ watch'[w].turn = u /\ watch'[w].inbox = watch[w].inbox
               /\ watch'[w].answer = "none"
    <3>1. watch'[w] = [watch[w] EXCEPT !.pc = p] BY <2>7 DEF TypeOK
    <3>2. watch[w].answer = "none" BY <2>1, <2>7 DEF WatcherInv, Watches
    <3>3. QED BY <2>1, <3>1, <3>2 DEF Watches
  <2>8. CASE FirstRead(w)
    <3>1. CASE Envelope(status[u]) = "unsettled" /\ watch' = [watch EXCEPT ![w].pc = "waiting"]
      <4>1. watch[w].pc = "reading" BY <2>8 DEF FirstRead
      <4>2. status[u] \notin Terminal BY <2>2, <3>1 DEF Envelope, Terminal
      <4>3. /\ watch'[w].pc = "waiting" /\ watch'[w].turn = u /\ watch'[w].inbox = watch[w].inbox
            /\ watch'[w].answer = "none"
        BY <2>7, <3>1, <4>1 DEF WatchStages
      <4>4. QED BY <1>1, <2>3, <4>1, <4>2, <4>3 DEF WatcherInv
    <3>2. CASE Envelope(status[u]) # "unsettled" /\ Reply(w, Envelope(status[u]))
      BY <2>2, <2>4, <2>5, <3>2 DEF Envelope, Statuses, Answers
    <3>3. CASE Reply(w, "dberror") BY <2>5, <3>3 DEF Answers
    <3>4. QED BY <2>8, <3>1, <3>2, <3>3 DEF FirstRead
  <2>9. CASE Receive(w)
    <3>1. watch[w].pc = "waiting" /\ watch[w].inbox BY <2>9 DEF Receive
    <3>2. watch'[w].pc = "rereading" /\ watch'[w].turn = u /\ watch'[w].answer = "none"
      BY <2>6, <2>9, <3>1 DEF Receive, WatchStages
    <3>3. told[u] # <<>> BY <3>1 DEF WatcherInv
    <3>4. QED BY <1>1, <2>3, <3>2, <3>3 DEF WatcherInv
  <2>10. CASE Lag(w)
    <3>1. PICK b \in {FALSE, watch[w].inbox} :
             watch' = [watch EXCEPT ![w] = [@ EXCEPT !.pc = "lagged", !.inbox = b]]
      BY <2>10 DEF Lag
    <3>2. watch[w].pc = "waiting" BY <2>10 DEF Lag
    <3>3. watch'[w].pc = "lagged" /\ watch'[w].turn = u /\ watch'[w].inbox = b /\ watch'[w].answer = "none"
      BY <2>2, <2>6, <3>1, <3>2 DEF WatchStages
    <3>4. QED BY <1>1, <3>1, <3>2, <3>3 DEF WatcherInv
  <2>11. CASE AfterLag(w)
    <3>1. watch[w].pc = "lagged" BY <2>11 DEF AfterLag
    <3>2. PICK p \in {"rereading", "waiting"} :
             /\ watch' = [watch EXCEPT ![w].pc = p]
             /\ p = "rereading" => status[u] \in Terminal
             /\ p = "waiting" => status[u] \notin Terminal \/ u \in hurt'
      BY <2>11 DEF AfterLag, Fails
    <3>3. /\ watch'[w].pc = p /\ watch'[w].turn = u /\ watch'[w].inbox = watch[w].inbox
          /\ watch'[w].answer = "none"
      BY <2>7, <3>1, <3>2 DEF WatchStages
    <3>4. QED BY <1>1, <2>3, <3>1, <3>2, <3>3 DEF WatcherInv
  <2>12. CASE LastRead(w)
    <3>1. watch[w].pc = "rereading" BY <2>12 DEF LastRead
    <3>2. u \in aborted \cup hurt \/ status[u] \in Terminal BY <3>1 DEF WatcherInv
    <3>3. CASE Reply(w, Envelope(status[u]))
      <4>1. Envelope(status[u]) = "unsettled" => u \in aborted \cup hurt'
        BY <1>1, <3>2 DEF Envelope, Terminal
      <4>2. /\ Envelope(status[u]) \in Answers
            /\ Envelope(status[u]) = "response" => u \in stored
            /\ Envelope(status[u]) = "failure" => status[u] = "failed"
        BY <2>2, <2>4 DEF Envelope, Statuses, Answers
      <4>3. QED BY <2>5, <3>3, <4>1, <4>2
    <3>4. CASE Reply(w, "dberror") BY <2>5, <3>4 DEF Answers
    <3>5. QED BY <2>12, <3>3, <3>4 DEF LastRead
  <2>13. CASE TimeOut(w) BY <2>5, <2>13 DEF TimeOut, Answers
  <2>14. QED BY <1>3, <2>8, <2>9, <2>10, <2>11, <2>12, <2>13 DEF Watching
<1>4. QED BY <1>2, <1>3

LEMMA NextWatch ==
    ASSUME TypeOK, TypeOK', RunInv, RowForward, WatchInv, [Next]_vars
    PROVE  WatchInv'
<1> USE DEF Works, Fails
<1>1. StatusStep /\ StoredRows /\ StoredRows' /\ stored \subseteq stored'
  BY NextForward, WatchParts, StoredRowsKept
<1>2. SUFFICES ASSUME NEW w \in Watchers PROVE WatcherInv(w)'
  <2>1. StoredRows' /\ (\A v \in Watchers : WatcherInv(v)') => WatchInv'
    BY DEF WatchInv, WatcherInv, StoredRows, NoLostWakeup, AnswersAgree
  <2>2. QED BY <1>1, <2>1
<1>3. WatcherInv(w) BY WatchParts
<1>4. ASSUME UNCHANGED <<watch, told>>, aborted \subseteq aborted', hurt \subseteq hurt'
      PROVE  WatcherInv(w)'
  BY <1>1, <1>3, <1>4, WatcherKept
<1>5. ASSUME NEW t \in Turns, NEW x \in Terminal, Deliver(t), told' = [told EXCEPT ![t] = Append(@, x)],
             aborted \subseteq aborted', hurt \subseteq hurt'
      PROVE  WatcherInv(w)'
  <2>1. told[t] \in Seq(Terminal) /\ told'[t] = Append(told[t], x) BY <1>5 DEF TypeOK
  <2>2. told'[t] # <<>> BY <2>1
  <2>3. \A u \in Turns \ {t} : told'[u] = told[u] BY <1>5 DEF TypeOK
  <2>4. QED BY <1>1, <1>3, <1>5, <2>2, <2>3, WatcherKept
<1>6. CASE UNCHANGED vars BY <1>4, <1>6 DEF vars
<1>7. ASSUME NEW t \in Turns, Submit(t) PROVE WatcherInv(w)'
  BY <1>4, <1>7 DEF Submit, Create, Enqueue
<1>8. ASSUME NEW t \in Turns, Step(t) PROVE WatcherInv(w)'
  <2>1. CASE Announce(t) BY <1>5, <2>1 DEF Announce, runFrame, Terminal
  <2>2. CASE ~Announce(t)
    BY <1>4, <1>8, <2>2 DEF Step, Start, Load, Begin, Answer, CallTools, ToolsDone, Rotate, GiveUp,
         FailedMarked, ResponseStored, RecordsKept, Summarised, Audited, End, Drop, runStep, runFrame
  <2>3. QED BY <2>1, <2>2
<1>9. ASSUME NEW t \in Turns, Execute(t) PROVE WatcherInv(w)'
  BY <1>4, <1>9 DEF Execute, runFrame
<1>10. CASE Work BY <1>4, <1>10 DEF Work, Spawn, Insert
<1>11. ASSUME NEW k \in Cancels, Cancelling(k) PROVE WatcherInv(w)'
  <2>1. CASE TellCancelled(k)
    <3>1. cancel[k].turn \in Turns BY <2>1 DEF TellCancelled, TypeOK, CancelRequests, NoCancel
    <3>2. QED BY <1>5, <2>1, <3>1 DEF TellCancelled, Terminal
  <2>2. CASE (\E t \in Turns : TakeHandle(k, t)) \/ MarkFailed(k)
    BY <1>4, <2>2 DEF TakeHandle, MarkFailed
  <2>3. QED BY <1>11, <2>1, <2>2 DEF Cancelling
<1>12. ASSUME NEW v \in Watchers, Watching(v) PROVE WatcherInv(w)'
  <2>1. CASE v = w BY <1>1, <1>3, <1>12, <2>1, OwnWatch
  <2>2. CASE v # w
    <3>1. /\ watch'[w] = watch[w] /\ UNCHANGED <<told, aborted, status, stored>> /\ hurt \subseteq hurt'
      BY <1>12, <2>2 DEF Watching, Subscribe, FirstRead, Receive, Lag, AfterLag, LastRead, TimeOut,
           Reply, watchFrame, TypeOK
    <3>2. QED BY <1>3, <3>1 DEF WatcherInv
  <2>3. QED BY <2>1, <2>2
<1>13. CASE Crash
  <2>1. UNCHANGED <<told, aborted, status, stored, hurt>> BY <1>13 DEF Crash
  <2>2. CASE watch[w].pc \in {"idle", "done"}
    <3>1. watch'[w] = watch[w] BY <1>13, <2>2 DEF Crash
    <3>2. QED BY <1>3, <2>1, <3>1 DEF WatcherInv
  <2>3. CASE watch[w].pc \notin {"idle", "done"}
    <3>1. watch'[w] = [watch[w] EXCEPT !.pc = "done", !.inbox = FALSE] BY <1>13, <2>3 DEF Crash
    <3>2. watch[w] \in Watches BY <2>3 DEF TypeOK, NoWatch
    <3>3. watch'[w].pc = "done" /\ watch'[w].answer = watch[w].answer BY <3>1, <3>2 DEF Watches
    <3>4. watch'[w].answer = "none" BY <1>3, <2>3, <3>3 DEF WatcherInv
    <3>5. QED BY <3>3, <3>4 DEF WatcherInv
  <2>4. QED BY <2>2, <2>3
<1>14. CASE Restart BY <1>4, <1>14 DEF Restart
<1>15. QED
  BY <1>6, <1>7, <1>8, <1>9, <1>10, <1>11, <1>12, <1>13, <1>14 DEF Next

LEMMA WatchInvariant == Spec => []WatchInv
<1>1. Init => WatchInv
  BY DEF Init, WatchInv, NoLostWakeup, AnswersAgree, NoWatch
<1>2. QED BY <1>1, NextWatch, TypeCorrect, RunInvariant, ForwardInvariant, PTL DEF Spec

-----------------------------------------------------------------------------
(* What has a row, and runs that announced a completion *)

Ended == {"ending", "done", "lost"}

\* A step that announces nothing, reopens no run, and leaves a row where one is due.
LEMMA RecordStable ==
    ASSUME RecordInv, UNCHANGED told,
           \A u \in Turns : sub'[u] \notin {"new", "refused"} \/ u \in aborted' => status'[u] # "none",
           \A u \in Turns : run[u] \in Ended => run'[u] \in Ended
    PROVE  RecordInv'
BY DEF RecordInv, Ended

\* The commonest such step: no row, submission or cancel changes.
LEMMA RecordQuiet ==
    ASSUME RecordInv, UNCHANGED <<told, sub, aborted, status>>,
           \A u \in Turns : run[u] \in Ended => run'[u] \in Ended
    PROVE  RecordInv'
BY DEF RecordInv, Ended

LEMMA StepRecord ==
    ASSUME TypeOK, RunInv, RecordInv, NEW t \in Turns, Step(t)
    PROVE  RecordInv'
<1>1. UNCHANGED <<sub, aborted, status>>
  BY DEF Step, Start, Load, Begin, Answer, CallTools, ToolsDone, Rotate, GiveUp, FailedMarked,
         ResponseStored, RecordsKept, Summarised, Audited, Announce, End, Drop, runStep, runFrame
<1>2. CASE Announce(t)
  <2>1. PICK x \in Terminal : told' = [told EXCEPT ![t] = Append(@, x)]
    BY <1>2 DEF Announce, Terminal
  <2>2. run'[t] = "ending" /\ \A u \in Turns \ {t} : run'[u] = run[u] /\ told'[u] = told[u]
    BY <1>2, <2>1 DEF Announce, Goto, TypeOK
  <2>3. QED BY <1>1, <2>2 DEF RecordInv
<1>3. CASE ~Announce(t)
  <2>1. /\ UNCHANGED told
        /\ \A u \in Turns \ {t} : run'[u] = run[u]
        /\ run[t] \in Ended => run'[t] \in Ended
    BY <1>3 DEF Step, Start, Load, Begin, Answer, CallTools, ToolsDone, Rotate, GiveUp, FailedMarked,
         ResponseStored, RecordsKept, Summarised, Audited, End, Drop, runStep, runFrame, Polled, Returned, Goto, TypeOK,
         Awaiting, Recording, Ended
  <2>2. QED BY <1>1, <2>1, RecordQuiet
<1>4. QED BY <1>2, <1>3

\* Appending a failure announces no completion.
LEMMA FailureToldRecord ==
    ASSUME TypeOK, RecordInv, NEW t \in Turns, told' = [told EXCEPT ![t] = Append(@, "failed")],
           UNCHANGED <<sub, aborted, status, run>>
    PROVE  RecordInv'
<1>1. told[t] \in Seq(Terminal) /\ "failed" \in Terminal BY DEF TypeOK, Terminal
<1>2. told'[t] = Append(told[t], "failed") /\ \A u \in Turns \ {t} : told'[u] = told[u]
  BY DEF TypeOK
<1>3. \A i \in DOMAIN told'[t] :
         told'[t][i] = "complete" => i \in DOMAIN told[t] /\ told[t][i] = "complete"
  BY <1>1, <1>2, AppendShape
<1>4. QED BY <1>2, <1>3 DEF RecordInv

LEMMA NextRecord ==
    ASSUME TypeOK, RunInv, RecordInv, [Next]_vars
    PROVE  RecordInv'
<1>1. CASE UNCHANGED vars BY <1>1, RecordQuiet DEF vars
<1>2. ASSUME NEW t \in Turns, Create(t) PROVE RecordInv'
  <2>1. /\ UNCHANGED <<told, aborted, run>>
        /\ \A u \in Turns \ {t} : sub'[u] = sub[u] /\ status'[u] = status[u]
        /\ status'[t] # "none" \/ (sub'[t] = "refused" /\ status'[t] = status[t])
    BY <1>2 DEF Create, TypeOK
  <2>2. QED BY <2>1, RecordStable DEF RecordInv
<1>3. ASSUME NEW t \in Turns, Enqueue(t) PROVE RecordInv'
  <2>1. /\ UNCHANGED <<told, aborted, run, status>>
        /\ \A u \in Turns : sub'[u] \notin {"new", "refused"} => sub[u] \notin {"new", "refused"}
    BY <1>3 DEF Enqueue, TypeOK
  <2>2. QED BY <2>1, RecordStable DEF RecordInv
<1>4. ASSUME NEW t \in Turns, Execute(t) PROVE RecordInv'
  <2>1. /\ UNCHANGED <<told, sub, aborted, run>>
        /\ \A u \in Turns : status'[u] = status[u] \/ status'[u] \in Writes
    BY <1>4 DEF Execute, runFrame, TypeOK
  <2>2. QED BY <2>1, RecordStable DEF RecordInv, Writes
<1>5. CASE Spawn
  <2>1. queue \in Seq(Turns) /\ queue # <<>> BY <1>5 DEF Spawn, TypeOK
  <2>2. Head(queue) \in Turns /\ 1 \in DOMAIN queue /\ Head(queue) = queue[1] BY <2>1
  <2>3. run[Head(queue)] = "none" BY <2>2 DEF RunInv, QueueInv
  <2>4. UNCHANGED <<told, sub, aborted, status>>
        /\ \A u \in Turns : run[u] \in Ended => run'[u] \in Ended
    BY <1>5, <2>2, <2>3 DEF Spawn, TypeOK, Ended
  <2>5. QED BY <2>4, RecordQuiet
<1>6. CASE Insert BY <1>6, RecordQuiet DEF Insert
<1>7. ASSUME NEW k \in Cancels, Cancelling(k) PROVE RecordInv'
  <2>1. ASSUME NEW t \in Turns, TakeHandle(k, t) PROVE RecordInv'
    <3>1. UNCHANGED <<told, sub, run, status>> /\ status[t] # "none" /\ aborted' \subseteq aborted \cup {t}
      BY <2>1 DEF TakeHandle, cancelFrame
    <3>2. QED BY <3>1, RecordStable DEF RecordInv
  <2>2. CASE MarkFailed(k)
    <3>1. UNCHANGED <<told, sub, run, aborted>>
          /\ \A u \in Turns : status'[u] \in {status[u], "failed"}
      BY <2>2 DEF MarkFailed, cancelFrame, TypeOK
    <3>2. QED BY <3>1, RecordStable DEF RecordInv
  <2>3. CASE TellCancelled(k)
    <3>1. cancel[k].turn \in Turns BY <2>3 DEF TellCancelled, TypeOK, CancelRequests, NoCancel
    <3>2. QED BY <2>3, <3>1, FailureToldRecord DEF TellCancelled, cancelFrame
  <2>4. QED BY <1>7, <2>1, <2>2, <2>3 DEF Cancelling
<1>8. ASSUME NEW w \in Watchers, Watching(w) PROVE RecordInv'
  <2>1. UNCHANGED <<told, sub, aborted, status, run>>
    BY <1>8 DEF Watching, Subscribe, FirstRead, Receive, Lag, AfterLag, LastRead, TimeOut, watchFrame
  <2>2. QED BY <2>1, RecordQuiet
<1>9. CASE Crash
  <2>1. /\ UNCHANGED <<told, aborted, status>>
        /\ \A u \in Turns : /\ run[u] \in Ended => run'[u] \in Ended
                            /\ sub'[u] \notin {"new", "refused"} => sub[u] \notin {"new", "refused"}
    BY <1>9 DEF Crash, Ended
  <2>2. QED BY <2>1, RecordStable DEF RecordInv
<1>10. CASE Restart
  <2>1. /\ UNCHANGED <<told, sub, aborted, run>>
        /\ \A u \in Turns : status'[u] = status[u]
    BY <1>10 DEF Restart, SessionStatus
  <2>2. QED BY <2>1, RecordStable DEF RecordInv
<1>11. QED
  BY <1>1, <1>2, <1>3, <1>4, <1>5, <1>6, <1>7, <1>8, <1>9, <1>10, StepRecord DEF Next, Submit, Work

LEMMA RecordInvariant == Spec => []RecordInv
<1>1. Init => RecordInv BY DEF Init, RecordInv
<1>2. QED BY <1>1, NextRecord, TypeCorrect, RunInvariant, PTL DEF Spec

-----------------------------------------------------------------------------
(* No accepted turn is forgotten *)

\* What is said of each turn.
Accounted(t) ==
    /\ run[t] \in {"ending", "done"} => told[t] # <<>>
    /\ crashes = 0 /\ sub[t] = "replied" /\ told[t] = <<>> => InHand(t)

\* A handle is made by the worker for a run it spawned, and a cancel takes handles.
LEMMA NextIdle ==
    ASSUME TypeOK, IdleInv, [Next]_vars
    PROVE  IdleInv'
<1>1. CASE UNCHANGED vars BY <1>1 DEF vars, worker, IdleInv
<1>2. ASSUME NEW t \in Turns, Step(t) PROVE IdleInv'
  <2>1. UNCHANGED <<inserting, aborted>> /\ registry' \subseteq registry
    BY <1>2 DEF Step, Start, Load, Begin, Answer, CallTools, ToolsDone, Rotate, GiveUp, FailedMarked,
         ResponseStored, RecordsKept, Summarised, Audited, Announce, End, Drop, runStep, runFrame, worker
  <2>2. \A u \in Turns : run'[u] = "none" => run[u] = "none"
    BY <1>2 DEF Step, Start, Load, Begin, Answer, CallTools, ToolsDone, Rotate, GiveUp, FailedMarked,
         ResponseStored, RecordsKept, Summarised, Audited, Announce, End, Drop, runStep, Goto, TypeOK
  <2>3. QED BY <2>1, <2>2 DEF IdleInv
<1>3. CASE Spawn
  <2>1. queue \in Seq(Turns) /\ queue # <<>> BY <1>3 DEF Spawn, TypeOK
  <2>2. Head(queue) \in Turns BY <2>1
  <2>3. /\ UNCHANGED <<registry, aborted>> /\ inserting' = {Head(queue)}
        /\ run' = [run EXCEPT ![Head(queue)] = "spawned"]
    BY <1>3 DEF Spawn
  <2>4. QED BY <2>2, <2>3 DEF IdleInv, TypeOK
<1>4. CASE Insert BY <1>4 DEF Insert, IdleInv
<1>5. ASSUME NEW k \in Cancels, Cancelling(k) PROVE IdleInv'
  BY <1>5 DEF Cancelling, TakeHandle, MarkFailed, TellCancelled, cancelFrame, worker, IdleInv
<1>6. ASSUME NEW t \in Turns, Create(t) \/ Enqueue(t) \/ Execute(t) PROVE IdleInv'
  BY <1>6 DEF Create, Enqueue, Execute, runFrame, worker, IdleInv
<1>7. ASSUME NEW w \in Watchers, Watching(w) PROVE IdleInv'
  <2>1. UNCHANGED <<inserting, registry, aborted, run>>
    BY <1>7 DEF Watching, Subscribe, FirstRead, Receive, Lag, AfterLag, LastRead, TimeOut, watchFrame, worker
  <2>2. QED BY <2>1 DEF IdleInv
<1>8. CASE Crash BY <1>8 DEF Crash, IdleInv
<1>9. CASE Restart BY <1>9 DEF Restart, worker, IdleInv
<1>10. QED
  BY <1>1, <1>2, <1>3, <1>4, <1>5, <1>6, <1>7, <1>8, <1>9 DEF Next, Submit, Work

\* A step that leaves the run, the announcements and whoever holds the turn.
LEMMA AccountedStays ==
    ASSUME NEW t \in Turns, Accounted(t), run'[t] = run[t], told'[t] = told[t],
           crashes' = crashes, sub'[t] = sub[t], InHand(t) => InHand(t)'
    PROVE  Accounted(t)'
BY DEF Accounted

\* A step of a run moves it on to its announcement.
LEMMA OwnStepAccounted ==
    ASSUME TypeOK, NEW t \in Turns, Step(t), Accounted(t)
    PROVE  Accounted(t)'
<1>1. UNCHANGED <<crashes, sub, queue, aborted, cancel>>
  BY DEF Step, Start, Load, Begin, Answer, CallTools, ToolsDone, Rotate, GiveUp, FailedMarked,
         ResponseStored, RecordsKept, Summarised, Audited, Announce, End, Drop, runStep, runFrame, worker
<1>2. CASE Announce(t)
  <2>1. PICK x \in Terminal : told' = [told EXCEPT ![t] = Append(@, x)]
    BY <1>2 DEF Announce, Terminal
  <2>2. told[t] \in Seq(Terminal) BY DEF TypeOK
  <2>3. told'[t] = Append(told[t], x) BY <2>1 DEF TypeOK
  <2>4. told'[t] # <<>> BY <2>2, <2>3, AppendShape
  <2>5. QED BY <2>4 DEF Accounted
<1>3. CASE End(t)
  <2>1. told' = told /\ run[t] = "ending" BY <1>3 DEF End
  <2>2. QED BY <2>1 DEF Accounted
<1>4. CASE Drop(t)
  <2>1. told' = told /\ t \in aborted /\ run'[t] = "dropped" BY <1>4 DEF Drop, Goto, TypeOK
  <2>2. InHand(t) => InHand(t)' BY <1>1, <2>1 DEF InHand
  <2>3. QED BY <1>1, <2>1, <2>2 DEF Accounted
<1>5. CASE ~Announce(t) /\ ~End(t) /\ ~Drop(t)
  <2>1. told' = told /\ run'[t] \in Underway
    BY <1>5 DEF Step, Start, Load, Begin, Answer, CallTools, ToolsDone, Rotate, GiveUp, FailedMarked,
         ResponseStored, RecordsKept, Summarised, Audited, runStep, runFrame, Polled, Returned, Goto, TypeOK,
         Awaiting, Recording, Underway
  <2>2. InHand(t) => InHand(t)' BY <1>1, <2>1 DEF InHand
  <2>3. run'[t] \notin {"ending", "done"} BY <2>1 DEF Underway, Awaiting, Recording
  <2>4. QED BY <1>1, <2>1, <2>2, <2>3 DEF Accounted
<1>6. QED BY <1>2, <1>3, <1>4, <1>5

\* It leaves every other turn alone.
LEMMA StepAccounted ==
    ASSUME TypeOK, NEW t \in Turns, Step(t), NEW u \in Turns, Accounted(u)
    PROVE  Accounted(u)'
<1>1. CASE u = t BY <1>1, OwnStepAccounted
<1>2. CASE u # t
  <2>1. UNCHANGED <<crashes, sub, queue, aborted, cancel>>
    BY DEF Step, Start, Load, Begin, Answer, CallTools, ToolsDone, Rotate, GiveUp, FailedMarked,
         ResponseStored, RecordsKept, Summarised, Audited, Announce, End, Drop, runStep, runFrame, worker
  <2>2. told'[u] = told[u]
    BY <1>2 DEF Step, Start, Load, Begin, Answer, CallTools, ToolsDone, Rotate, GiveUp, FailedMarked,
         ResponseStored, RecordsKept, Summarised, Audited, Announce, End, Drop, runStep, runFrame, TypeOK
  <2>3. run'[u] = run[u]
    BY <1>2 DEF Step, Start, Load, Begin, Answer, CallTools, ToolsDone, Rotate, GiveUp, FailedMarked,
         ResponseStored, RecordsKept, Summarised, Audited, Announce, End, Drop, runStep, runFrame, Goto, TypeOK
  <2>4. InHand(u) => InHand(u)' BY <2>1, <2>3 DEF InHand
  <2>5. QED BY <2>1, <2>2, <2>3, <2>4, AccountedStays
<1>3. QED BY <1>1, <1>2

\* A cancel takes a turn in hand before it stops its run, and lets it go with an
\* announcement.
LEMMA CancellingAccounted ==
    ASSUME TypeOK, NEW k \in Cancels, Cancelling(k), NEW u \in Turns, Accounted(u)
    PROVE  Accounted(u)'
<1>1. UNCHANGED <<crashes, sub, queue, run>>
  BY DEF Cancelling, TakeHandle, MarkFailed, TellCancelled, cancelFrame, worker
<1>2. \A j \in Cancels \ {k} : cancel'[j] = cancel[j]
  BY DEF Cancelling, TakeHandle, MarkFailed, TellCancelled, TypeOK
<1>3. ASSUME NEW t \in Turns, TakeHandle(k, t) PROVE Accounted(u)'
  <2>1. /\ told' = told /\ cancel[k].pc = "idle"
        /\ u \in aborted' \ aborted => u = t /\ t \in registry
        /\ t \in registry => cancel'[k].pc = "mark" /\ cancel'[k].turn = t
    BY <1>3 DEF TakeHandle, TypeOK
  <2>2. InHand(u) => InHand(u)'
    <3>1. CASE \E i \in DOMAIN queue : queue[i] = u BY <1>1, <3>1 DEF InHand
    <3>2. CASE u \notin aborted /\ run[u] \in Underway BY <1>1, <2>1, <3>2 DEF InHand
    <3>3. CASE \E j \in Cancels : cancel[j].pc \in {"mark", "tell"} /\ cancel[j].turn = u
      BY <1>2, <2>1, <3>3 DEF InHand
    <3>4. QED BY <3>1, <3>2, <3>3 DEF InHand
  <2>3. QED BY <1>1, <2>1, <2>2, AccountedStays
<1>4. CASE MarkFailed(k)
  <2>1. UNCHANGED <<told, aborted>> /\ cancel[k] \in CancelRequests
    BY <1>4 DEF MarkFailed, TypeOK, NoCancel
  <2>2. cancel'[k].pc = "tell" /\ cancel'[k].turn = cancel[k].turn
    BY <1>4, <2>1 DEF MarkFailed, TypeOK, CancelRequests
  <2>3. InHand(u) => InHand(u)' BY <1>1, <1>2, <2>1, <2>2 DEF InHand
  <2>4. QED BY <1>1, <2>1, <2>3, AccountedStays
<1>5. CASE TellCancelled(k)
  <2>1. UNCHANGED aborted /\ cancel[k].turn \in Turns
        /\ told' = [told EXCEPT ![cancel[k].turn] = Append(@, "failed")]
    BY <1>5 DEF TellCancelled, TypeOK, NoCancel, CancelRequests
  <2>2. CASE u = cancel[k].turn
    <3>1. told[u] \in Seq(Terminal) /\ told'[u] = Append(told[u], "failed") BY <2>1, <2>2 DEF TypeOK
    <3>2. told'[u] # <<>> BY <3>1, AppendShape DEF Terminal
    <3>3. QED BY <3>2 DEF Accounted
  <2>3. CASE u # cancel[k].turn
    <3>1. told'[u] = told[u] BY <2>1, <2>3 DEF TypeOK
    <3>2. InHand(u) => InHand(u)' BY <1>1, <1>2, <2>1, <2>3 DEF InHand
    <3>3. QED BY <1>1, <3>1, <3>2, AccountedStays
  <2>4. QED BY <2>2, <2>3
<1>6. QED BY <1>3, <1>4, <1>5 DEF Cancelling

LEMMA NextAccept ==
    ASSUME TypeOK, RunInv, AcceptInv, [Next]_vars
    PROVE  AcceptInv'
<1> SUFFICES ASSUME NEW u \in Turns PROVE Accounted(u)'
  <2>1. IdleInv' BY NextIdle DEF AcceptInv
  <2>2. QED BY <2>1 DEF AcceptInv, NoTurnForgotten, Accounted
<1>0. Accounted(u) BY DEF AcceptInv, NoTurnForgotten, Accounted
<1>1. CASE UNCHANGED vars BY <1>0, <1>1 DEF vars, Accounted, InHand, worker
<1>2. ASSUME NEW t \in Turns, Create(t) PROVE Accounted(u)'
  <2>1. /\ UNCHANGED <<told, aborted, run, crashes, queue, cancel>>
        /\ sub'[u] = "replied" => sub[u] = "replied"
    BY <1>2 DEF Create, TypeOK, worker
  <2>2. QED BY <1>0, <2>1 DEF Accounted, InHand
<1>3. ASSUME NEW t \in Turns, Enqueue(t) PROVE Accounted(u)'
  <2>1. /\ UNCHANGED <<told, aborted, run, crashes, cancel>>
        /\ queue \in Seq(Turns) /\ queue' = Append(queue, t)
        /\ u # t => sub'[u] = sub[u]
    BY <1>3 DEF Enqueue, TypeOK
  <2>2. \A i \in DOMAIN queue : i \in DOMAIN queue' /\ queue'[i] = queue[i] BY <2>1
  <2>3. \E i \in DOMAIN queue' : queue'[i] = t
    <3>1. Len(queue) + 1 \in DOMAIN queue' /\ queue'[Len(queue) + 1] = t BY <2>1
    <3>2. QED BY <3>1
  <2>4. CASE u = t BY <1>0, <2>1, <2>3, <2>4 DEF Accounted, InHand
  <2>5. CASE u # t BY <1>0, <2>1, <2>2, <2>5 DEF Accounted, InHand
  <2>6. QED BY <2>4, <2>5
<1>4. ASSUME NEW t \in Turns, Execute(t) PROVE Accounted(u)'
  <2>1. UNCHANGED <<told, sub, aborted, run, crashes, queue, cancel>>
    BY <1>4 DEF Execute, runFrame, worker
  <2>2. QED BY <1>0, <2>1 DEF Accounted, InHand
<1>5. CASE Spawn
  <2>1. queue \in Seq(Turns) /\ queue # <<>> BY <1>5 DEF Spawn, TypeOK
  <2>2. Head(queue) \in Turns /\ 1 \in DOMAIN queue /\ Head(queue) = queue[1] BY <2>1
  <2>3. run[Head(queue)] = "none" BY <2>2 DEF RunInv, QueueInv
  <2>4. /\ UNCHANGED <<told, sub, aborted, crashes, cancel>> /\ queue' = Tail(queue)
        /\ run'[Head(queue)] = "spawned" /\ \A t \in Turns \ {Head(queue)} : run'[t] = run[t]
    BY <1>5, <2>2 DEF Spawn, TypeOK
  <2>5. CASE u = Head(queue)
    <3>1. u \notin aborted BY <2>3, <2>5 DEF AcceptInv, IdleInv
    <3>2. InHand(u)' /\ run'[u] = "spawned" BY <2>4, <2>5, <3>1 DEF InHand, Underway
    <3>3. QED BY <3>2 DEF Accounted
  <2>6. CASE u # Head(queue)
    <3>1. ASSUME NEW i \in DOMAIN queue, queue[i] = u PROVE \E j \in DOMAIN queue' : queue'[j] = u
      <4>1. i \in 1 .. Len(queue) /\ i # 1 BY <2>1, <2>2, <2>6, <3>1
      <4>2. i - 1 \in 1 .. Len(queue) - 1 BY <2>1, <4>1
      <4>3. i - 1 \in DOMAIN queue' /\ queue'[i - 1] = queue[i] BY <2>1, <2>4, <4>1, <4>2
      <4>4. QED BY <3>1, <4>3
    <3>2. QED BY <1>0, <2>4, <2>6, <3>1 DEF Accounted, InHand
  <2>7. QED BY <2>5, <2>6
<1>6. CASE Insert BY <1>0, <1>6 DEF Insert, Accounted, InHand
<1>7. ASSUME NEW w \in Watchers, Watching(w) PROVE Accounted(u)'
  <2>1. UNCHANGED <<told, sub, aborted, run, crashes, queue, cancel>>
    BY <1>7 DEF Watching, Subscribe, FirstRead, Receive, Lag, AfterLag, LastRead, TimeOut, watchFrame, worker
  <2>2. QED BY <1>0, <2>1 DEF Accounted, InHand
<1>8. CASE Crash
  <2>1. told' = told /\ (run'[u] \in {"ending", "done"} => run[u] \in {"ending", "done"})
    BY <1>8 DEF Crash
  <2>2. crashes' # 0
    <3>1. crashes \in Nat BY TurnAssumption DEF TypeOK
    <3>2. crashes' = crashes + 1 BY <1>8 DEF Crash
    <3>3. QED BY ONLY <3>1, <3>2
  <2>3. QED BY <1>0, <2>1, <2>2 DEF Accounted
<1>9. CASE Restart
  <2>1. UNCHANGED <<told, sub, aborted, run, crashes, queue, cancel>> BY <1>9 DEF Restart, worker
  <2>2. QED BY <1>0, <2>1 DEF Accounted, InHand
<1>10. QED
  BY <1>0, <1>1, <1>2, <1>3, <1>4, <1>5, <1>6, <1>7, <1>8, <1>9, StepAccounted, CancellingAccounted
     DEF Next, Submit, Work

LEMMA AcceptInvariant == Spec => []AcceptInv
<1>1. Init => AcceptInv BY DEF Init, AcceptInv, IdleInv, NoTurnForgotten
<1>2. QED BY <1>1, NextAccept, TypeCorrect, RunInvariant, PTL DEF Spec

-----------------------------------------------------------------------------
(* The invariant and the properties *)

\* The invariant ties a run's stage to its database operation, its task row and
\* its announcements, and a subscriber to both.
THEOREM TurnInvariant == Spec => []TurnInv
<1>1. TypeOK /\ RunInv /\ RowForward /\ WatchInv /\ RecordInv /\ AcceptInv => TurnInv BY DEF TurnInv
<1>2. QED
  BY <1>1, TypeCorrect, RunInvariant, ForwardInvariant, WatchInvariant, RecordInvariant, AcceptInvariant, PTL

\* The Completed event of a turn is only ever published over its stored response.
THEOREM CompletionHasResponse == Spec => []ResponseBehindCompletion
<1>1. RunInv => ResponseBehindCompletion BY DEF RunInv
<1>2. QED BY <1>1, RunInvariant, PTL

\* Every accepted turn stays in the hands of someone who announces its outcome.
THEOREM NoneForgotten == Spec => []NoTurnForgotten
<1>1. AcceptInv => NoTurnForgotten BY DEF AcceptInv
<1>2. QED BY <1>1, AcceptInvariant, PTL

\* A turn no cancel touched announces at most one outcome, the one of its row.
THEOREM OutcomeIsSingle == Spec => []SingleOutcome
<1>1. RunInv => SingleOutcome BY DEF RunInv
<1>2. QED BY <1>1, RunInvariant, PTL

\* A subscriber that still waits for an announced turn has the announcement.
THEOREM WakeupKept == Spec => []NoLostWakeup
<1>1. WatchInv => NoLostWakeup BY DEF WatchInv
<1>2. QED BY <1>1, WatchInvariant, PTL

\* What turn.subscribe answers agrees with the database.
THEOREM AnswersTrue == Spec => []AnswersAgree
<1>1. WatchInv => AnswersAgree BY DEF WatchInv
<1>2. QED BY <1>1, WatchInvariant, PTL

\* Unless a cancel took its handle, a task only moves forward.
THEOREM RowsMoveForward == Spec => StatusForward
<1>1. TypeOK /\ RunInv /\ RowForward /\ [Next]_vars
      => [\A t \in Turns \ aborted' :
            status'[t] = status[t] \/ Rank(status'[t]) > Rank(status[t])]_vars
  BY NextForward DEF StatusStep
<1>2. QED BY <1>1, TypeCorrect, RunInvariant, ForwardInvariant, PTL DEF Spec, StatusForward

-----------------------------------------------------------------------------
(* The lifecycle implements TurnPromise *)

\* What a step that no client can tell leaves alone.
Unseen == UNCHANGED <<status, stored, told, aborted, Asked, Given>>

LEMMA UnseenStep == Unseen /\ hurt \subseteq hurt' => Promise!Next
BY DEF Unseen, Promise!Next

LEMMA WatchUnseen == UNCHANGED watch => UNCHANGED <<Asked, Given>>
BY DEF Asked, Given

\* An announcement puts something into receivers, and answers nobody.
LEMMA DeliverUnseen ==
    ASSUME TypeOK, NEW t \in Turns, Deliver(t)
    PROVE  UNCHANGED <<Asked, Given>>
<1>1. ASSUME NEW w \in Watchers
      PROVE  /\ watch'[w].pc = watch[w].pc
             /\ watch[w].pc # "idle" => watch'[w].turn = watch[w].turn /\ watch'[w].answer = watch[w].answer
  <2>1. CASE watch[w] = NoWatch BY <2>1 DEF Deliver, NoWatch
  <2>2. CASE watch[w] \in Watches BY <2>2 DEF Deliver, Watches
  <2>3. QED BY <2>1, <2>2 DEF TypeOK
<1>2. QED BY <1>1 DEF Asked, Given

\* A row may be written as the promise says: forward, or by a cancel's doing.
MayWrite(t, s) ==
    s \in Promise!After(status[t]) \/ (t \in aborted /\ status[t] # "none")

LEMMA WriteStep ==
    ASSUME NEW t \in Turns, NEW s \in Statuses \ {"none"}, MayWrite(t, s),
           status' = [status EXCEPT ![t] = s],
           stored' = IF s = "complete" THEN stored \cup {t} ELSE stored,
           UNCHANGED <<told, aborted, Asked, Given>>, hurt \subseteq hurt'
    PROVE  Promise!Next
<1>1. s \in {"queued", "planned", "in_progress"} \cup Promise!Final
  BY DEF Statuses, Promise!Final
<1>2. Promise!Write(t) BY <1>1 DEF Promise!Write, MayWrite
<1>3. QED BY <1>2 DEF Promise!Next

\* A submission creates the row, at most once.
LEMMA SubmitPromise ==
    ASSUME TypeOK, RowForward, RecordInv, NEW t \in Turns, Submit(t)
    PROVE  Promise!Next
<1> USE DEF Works, Fails
<1>1. UNCHANGED <<stored, told, aborted, Asked, Given>> /\ hurt \subseteq hurt'
  BY WatchUnseen DEF Submit, Create, Enqueue
<1>2. CASE UNCHANGED status BY <1>1, <1>2, UnseenStep DEF Unseen
<1>3. ASSUME NEW s \in {"queued", "planned"}, sub[t] = "new", status' = [status EXCEPT ![t] = s]
      PROVE  Promise!Next
  <2>1. MayWrite(t, s)
    <3>1. CASE t \in aborted BY <3>1 DEF MayWrite, RecordInv
    <3>2. CASE t \notin aborted
      <4>1. status[t] = "none" BY <1>3, <3>2 DEF RowForward
      <4>2. QED BY <4>1 DEF MayWrite, Promise!After
    <3>3. QED BY <3>1, <3>2
  <2>2. QED BY <1>1, <1>3, <2>1, WriteStep DEF Statuses
<1>4. CASE Create(t)
  <2>1. CASE Via[t] = "rpc" BY <1>2, <1>3, <1>4, <2>1 DEF Create
  <2>2. CASE Via[t] # "rpc" BY <1>2, <1>3, <1>4, <2>2 DEF Create
  <2>3. QED BY <2>1, <2>2
<1>5. CASE Enqueue(t) BY <1>2, <1>5 DEF Enqueue
<1>6. QED BY <1>4, <1>5 DEF Submit

\* The writes of a run, also those that outlive it.
LEMMA ExecutePromise ==
    ASSUME TypeOK, RunInv, RowForward, RecordInv, NEW t \in Turns, Execute(t)
    PROVE  Promise!Next
<1> USE DEF Works, Fails
<1>1. UNCHANGED <<told, aborted, Asked, Given>> /\ hurt \subseteq hurt' /\ io[t] \in Writes
  BY WatchUnseen DEF Execute, runFrame
<1>2. CASE UNCHANGED <<status, stored>> BY <1>1, <1>2, UnseenStep DEF Unseen
<1>3. CASE ~UNCHANGED <<status, stored>>
  <2>1. /\ status' = [status EXCEPT ![t] = io[t]]
        /\ stored' = IF io[t] = "complete" THEN stored \cup {t} ELSE stored
    BY <1>3 DEF Execute
  <2>2. status[t] \in Statuses /\ status[t] # "none"
    <3>1. run[t] # "none" BY <1>1 DEF RunInv, IoInv, Writes
    <3>2. sub[t] = "replied" BY <3>1 DEF RunInv, QueueInv
    <3>3. QED BY <3>2 DEF RecordInv, TypeOK
  <2>3. MayWrite(t, io[t])
    <3>1. CASE t \in aborted BY <2>2, <3>1 DEF MayWrite
    <3>2. CASE t \notin aborted /\ io[t] = "in_progress"
      <4>1. Rank(status[t]) <= 1 BY <3>2 DEF RowForward
      <4>2. status[t] \in {"queued", "planned"} BY <2>2, <4>1 DEF Rank, Statuses
      <4>3. QED BY <3>2, <4>2 DEF MayWrite, Promise!After
    <3>3. CASE t \notin aborted /\ io[t] \in {"failed", "complete"}
      <4>1. Rank(status[t]) <= 2 BY <3>3 DEF RowForward
      <4>2. status[t] \in {"queued", "planned", "in_progress"} BY <2>2, <4>1 DEF Rank, Statuses
      <4>3. QED BY <3>3, <4>2 DEF MayWrite, Promise!After, Promise!Final
    <3>4. QED BY <1>1, <3>1, <3>2, <3>3 DEF Writes
  <2>4. QED BY <1>1, <2>1, <2>3, WriteStep DEF Writes, Statuses
<1>4. QED BY <1>2, <1>3

\* A run announces once, what its row holds, and Completed over a response.
LEMMA AnnouncePromise ==
    ASSUME TypeOK, RunInv, RecordInv, NEW t \in Turns, Announce(t)
    PROVE  Promise!Next
<1> DEFINE x == IF run[t] = "announceComplete" THEN "complete" ELSE "failed"
<1>1. /\ told' = [told EXCEPT ![t] = Append(@, x)]
      /\ UNCHANGED <<status, stored, aborted, Asked, Given, hurt>>
  BY DeliverUnseen DEF Announce, runFrame
<1>2. x \in Promise!Final BY DEF Promise!Final
<1>3. run[t] \in {"announceFailed", "announceComplete"} BY DEF Announce
<1>4. ASSUME x = "complete"
      PROVE  t \in stored /\ \A i \in 1 .. Len(told[t]) : told[t][i] = "failed"
  <2>1. run[t] = "announceComplete" BY <1>4
  <2>2. t \in stored BY <2>1 DEF RunInv, StoredInv
  <2>3. told[t] \in Seq(Terminal) BY DEF TypeOK
  <2>4. \A i \in DOMAIN told[t] : told[t][i] # "complete" BY <2>1 DEF RecordInv
  <2>5. QED BY <2>2, <2>3, <2>4 DEF Terminal
<1>5. ASSUME t \notin aborted
      PROVE  told[t] = <<>> /\ (status[t] = x \/ (x = "failed" /\ t \in hurt))
  BY <1>3, <1>5 DEF RunInv, RowInv
<1> HIDE DEF x
<1>6. Promise!Announce(t) BY <1>1, <1>2, <1>4, <1>5 DEF Promise!Announce
<1>7. QED BY <1>1, <1>6 DEF Promise!Next

\* Nothing else a run does can be told from outside.
LEMMA StepPromise ==
    ASSUME TypeOK, RunInv, RecordInv, NEW t \in Turns, Step(t)
    PROVE  Promise!Next
<1>1. CASE Announce(t) BY <1>1, AnnouncePromise
<1>2. CASE ~Announce(t)
  <2>1. UNCHANGED <<status, stored, aborted, told, watch>> /\ hurt \subseteq hurt'
    BY <1>2 DEF Step, Start, Load, Begin, Answer, CallTools, ToolsDone, Rotate, GiveUp, FailedMarked,
         ResponseStored, RecordsKept, Summarised, Audited, End, Drop, runStep, runFrame, Works, Fails
  <2>2. QED BY <2>1, WatchUnseen, UnseenStep DEF Unseen
<1>3. QED BY <1>1, <1>2

\* A cancel takes hold of a turn that exists, and then fails it and says so.
LEMMA CancellingPromise ==
    ASSUME TypeOK, RunInv, RecordInv, NEW k \in Cancels, Cancelling(k)
    PROVE  Promise!Next
<1> USE DEF Works, Fails, cancelFrame
<1>1. UNCHANGED stored /\ hurt \subseteq hurt'
  BY DEF Cancelling, TakeHandle, MarkFailed, TellCancelled
<1>2. ASSUME NEW t \in Turns, TakeHandle(k, t) PROVE Promise!Next
  <2>1. UNCHANGED <<status, told, Asked, Given>> BY <1>2, WatchUnseen DEF TakeHandle
  <2>2. CASE t \in registry
    <3>1. Promise!Cancel(t) BY <1>1, <1>2, <2>1, <2>2 DEF TakeHandle, Promise!Cancel
    <3>2. QED BY <1>1, <3>1 DEF Promise!Next
  <2>3. CASE t \notin registry BY <1>1, <1>2, <2>1, <2>3, UnseenStep DEF TakeHandle, Unseen
  <2>4. QED BY <2>2, <2>3
<1>3. ASSUME cancel[k].pc \in {"mark", "tell"}
      PROVE  cancel[k].turn \in Turns /\ cancel[k].turn \in aborted
  BY <1>3 DEF TypeOK, CancelRequests, NoCancel, RunInv, CancelInv
<1>4. CASE MarkFailed(k)
  <2>1. PICK t \in Turns : t = cancel[k].turn /\ t \in aborted BY <1>3, <1>4 DEF MarkFailed
  <2>2. UNCHANGED <<told, aborted, Asked, Given>> BY <1>4, WatchUnseen DEF MarkFailed
  <2>3. MayWrite(t, "failed") BY <2>1 DEF MayWrite, RecordInv
  <2>4. CASE UNCHANGED status BY <1>1, <2>2, <2>4, UnseenStep DEF Unseen
  <2>5. CASE status' = [status EXCEPT ![t] = "failed"]
    BY <1>1, <2>2, <2>3, <2>5, WriteStep DEF Statuses
  <2>6. QED BY <1>4, <2>1, <2>4, <2>5 DEF MarkFailed
<1>5. CASE TellCancelled(k)
  <2>1. PICK t \in Turns : t = cancel[k].turn /\ t \in aborted BY <1>3, <1>5 DEF TellCancelled
  <2>2. UNCHANGED <<status, aborted, Asked, Given>> /\ told' = [told EXCEPT ![t] = Append(@, "failed")]
    BY <1>5, <2>1, DeliverUnseen DEF TellCancelled
  <2>3. Promise!Announce(t) BY <1>1, <2>1, <2>2 DEF Promise!Announce, Promise!Final
  <2>4. QED BY <1>1, <2>3 DEF Promise!Next
<1>6. QED BY <1>2, <1>4, <1>5 DEF Cancelling

\* A subscriber gets one answer, and it is what it read.
LEMMA AnswerStep ==
    ASSUME TypeOK, WatchInv, NEW w \in Watchers, watch[w].pc \notin {"idle", "done"},
           NEW a \in Answers \ {"none"}, Reply(w, a), Promise!Holds(watch[w].turn, a),
           UNCHANGED <<status, stored, told, aborted>>, hurt \subseteq hurt'
    PROVE  Promise!Next
<1>1. watch[w] \in Watches /\ watch[w].turn \in Turns BY DEF TypeOK, NoWatch, Watches
<1>2. Given[w] = "none" /\ Asked[w] = {watch[w].turn} BY DEF Given, Asked, WatchInv
<1>3. watch'[w] = [watch[w] EXCEPT !.pc = "done", !.answer = a, !.inbox = FALSE]
      /\ \A v \in Watchers \ {w} : watch'[v] = watch[v]
  BY DEF Reply, TypeOK
<1>4. watch'[w].pc = "done" /\ watch'[w].answer = a /\ watch'[w].turn = watch[w].turn
  BY <1>1, <1>3 DEF Watches
<1>5. UNCHANGED Asked BY <1>3, <1>4 DEF Asked
<1>6. Given' = [Given EXCEPT ![w] = a] BY <1>3, <1>4 DEF Given
<1>7. Promise!Answer(w) BY <1>2, <1>5, <1>6 DEF Promise!Answer, Answers
<1>8. QED BY <1>7 DEF Promise!Next

LEMMA WatchingPromise ==
    ASSUME TypeOK, WatchInv, NEW w \in Watchers, Watching(w)
    PROVE  Promise!Next
<1>1. UNCHANGED <<status, stored, told, aborted>> /\ hurt \subseteq hurt'
  BY DEF Watching, Subscribe, FirstRead, Receive, Lag, AfterLag, LastRead, TimeOut, watchFrame,
         Works, Fails
<1>2. ASSUME NEW t \in Turns, Subscribe(w, t) PROVE Promise!Next
  <2>1. watch' = [watch EXCEPT ![w] = [turn |-> t, inbox |-> FALSE, answer |-> "none", pc |-> "reading"]]
    BY <1>2 DEF Subscribe
  <2>2. watch'[w].pc = "reading" /\ watch'[w].turn = t /\ watch'[w].answer = "none"
        /\ \A v \in Watchers \ {w} : watch'[v] = watch[v]
    BY <2>1 DEF TypeOK
  <2>3. watch[w].pc = "idle" BY <1>2 DEF Subscribe
  <2>4. Asked[w] = {} /\ Asked' = [Asked EXCEPT ![w] = {t}] BY <2>2, <2>3 DEF Asked
  <2>5. UNCHANGED Given BY <2>2, <2>3 DEF Given
  <2>6. Promise!Ask(w) BY <1>1, <2>4, <2>5 DEF Promise!Ask
  <2>7. QED BY <1>1, <2>6 DEF Promise!Next
<1>3. CASE ~\E t \in Turns : Subscribe(w, t)
  <2> DEFINE u == watch[w].turn
  <2>1. watch[w] \in Watches /\ watch[w].pc \notin {"idle", "done"}
    BY <1>3 DEF Watching, FirstRead, Receive, Lag, AfterLag, LastRead, TimeOut, TypeOK, NoWatch
  <2>2. u \in Turns /\ status[u] \in Statuses BY <2>1 DEF Watches, TypeOK
  <2>3. CASE \E p \in WatchStages, b \in BOOLEAN : p # "done"
                /\ watch'[w] = [watch[w] EXCEPT !.pc = p, !.inbox = b]
                /\ \A v \in Watchers \ {w} : watch'[v] = watch[v]
    <3>1. watch'[w].pc # "idle" /\ watch'[w].turn = u /\ watch'[w].answer = watch[w].answer
          /\ \A v \in Watchers \ {w} : watch'[v] = watch[v]
      BY <2>1, <2>3 DEF Watches, WatchStages
    <3>2. UNCHANGED <<Asked, Given>> BY <2>1, <3>1 DEF Asked, Given
    <3>3. QED BY <1>1, <3>2, UnseenStep DEF Unseen
  <2>4. ASSUME NEW a \in Answers \ {"none"}, Reply(w, a), Promise!Holds(u, a) PROVE Promise!Next
    BY <1>1, <2>1, <2>4, AnswerStep
  <2>5. u \in stored \/ status[u] # "complete" BY <2>2 DEF WatchInv
  <2>6. ASSUME Envelope(status[u]) = "unsettled" => u \in aborted \cup hurt,
               Reply(w, Envelope(status[u]))
        PROVE  Promise!Next
    <3>1. Envelope(status[u]) \in Answers \ {"none"} BY <2>2 DEF Envelope, Answers
    <3>2. Promise!Holds(u, Envelope(status[u]))
      BY <2>2, <2>5, <2>6 DEF Promise!Holds, Promise!Final, Envelope, Statuses
    <3>3. QED BY <2>4, <2>6, <3>1, <3>2
  <2>7. ASSUME Reply(w, "dberror"), Fails(u) PROVE Promise!Next
    BY <2>4, <2>7 DEF Promise!Holds, Answers, Fails
  <2>8. ASSUME NEW p \in WatchStages \ {"done"}, watch' = [watch EXCEPT ![w].pc = p]
        PROVE  Promise!Next
    <3>1. watch'[w] = [watch[w] EXCEPT !.pc = p] /\ \A v \in Watchers \ {w} : watch'[v] = watch[v]
      BY <2>8 DEF TypeOK
    <3>2. watch'[w] = [watch[w] EXCEPT !.pc = p, !.inbox = watch[w].inbox] /\ watch[w].inbox \in BOOLEAN
      BY <2>1, <3>1 DEF Watches
    <3>3. QED BY <2>3, <3>1, <3>2
  <2>9. ASSUME NEW p \in WatchStages \ {"done"}, NEW b \in BOOLEAN,
               watch' = [watch EXCEPT ![w] = [@ EXCEPT !.pc = p, !.inbox = b]]
        PROVE  Promise!Next
    <3>1. watch'[w] = [watch[w] EXCEPT !.pc = p, !.inbox = b]
          /\ \A v \in Watchers \ {w} : watch'[v] = watch[v]
      BY <2>9 DEF TypeOK
    <3>2. QED BY <2>3, <3>1
  <2>10. CASE FirstRead(w)
    <3>1. CASE Envelope(status[u]) = "unsettled" /\ watch' = [watch EXCEPT ![w].pc = "waiting"]
      BY <2>8, <3>1 DEF WatchStages
    <3>2. CASE Envelope(status[u]) # "unsettled" /\ Reply(w, Envelope(status[u])) BY <2>6, <3>2
    <3>3. CASE Fails(u) /\ Reply(w, "dberror") BY <2>7, <3>3
    <3>4. QED BY <2>10, <3>1, <3>2, <3>3 DEF FirstRead
  <2>11. CASE Receive(w) BY <2>9, <2>11 DEF Receive, WatchStages
  <2>12. CASE Lag(w)
    <3>1. PICK b \in {FALSE, watch[w].inbox} :
             watch' = [watch EXCEPT ![w] = [@ EXCEPT !.pc = "lagged", !.inbox = b]]
      BY <2>12 DEF Lag
    <3>2. b \in BOOLEAN BY <2>1 DEF Watches
    <3>3. QED BY <2>9, <3>1, <3>2 DEF WatchStages
  <2>13. CASE AfterLag(w)
    <3>1. PICK p \in {"rereading", "waiting"} : watch' = [watch EXCEPT ![w].pc = p]
      BY <2>13 DEF AfterLag
    <3>2. QED BY <2>8, <3>1 DEF WatchStages
  <2>14. CASE LastRead(w)
    <3>1. u \in aborted \cup hurt \/ status[u] \in Terminal
      BY <2>14 DEF LastRead, WatchInv
    <3>2. Envelope(status[u]) = "unsettled" => u \in aborted \cup hurt
      BY <3>1 DEF Envelope, Terminal
    <3>3. QED BY <2>6, <2>7, <2>14, <3>2 DEF LastRead
  <2>15. CASE TimeOut(w) BY <2>4, <2>15 DEF TimeOut, Answers, Promise!Holds
  <2>16. QED BY <1>3, <2>10, <2>11, <2>12, <2>13, <2>14, <2>15 DEF Watching
<1>4. QED BY <1>2, <1>3

\* A crash answers nobody, and a restart changes no row.
LEMMA ProcessPromise ==
    ASSUME TypeOK, Crash \/ Restart
    PROVE  Promise!Next
<1>1. CASE Crash
  <2>1. UNCHANGED <<status, stored, told, aborted, hurt>> BY <1>1 DEF Crash
  <2>2. ASSUME NEW w \in Watchers
        PROVE  /\ watch'[w].pc = "idle" <=> watch[w].pc = "idle"
               /\ watch[w].pc # "idle" => watch'[w].turn = watch[w].turn /\ watch'[w].answer = watch[w].answer
    <3>1. CASE watch[w].pc \in {"idle", "done"} BY <1>1, <3>1 DEF Crash
    <3>2. CASE watch[w].pc \notin {"idle", "done"}
      <4>1. watch[w] \in Watches BY <3>2 DEF TypeOK, NoWatch
      <4>2. watch'[w] = [watch[w] EXCEPT !.pc = "done", !.inbox = FALSE] BY <1>1, <3>2 DEF Crash
      <4>3. QED BY <3>2, <4>1, <4>2 DEF Watches
    <3>3. QED BY <3>1, <3>2
  <2>3. UNCHANGED <<Asked, Given>> BY <2>2 DEF Asked, Given
  <2>4. QED BY <2>1, <2>3, UnseenStep DEF Unseen
<1>2. CASE Restart
  <2>1. UNCHANGED <<stored, told, aborted, hurt, Asked, Given>> BY <1>2, WatchUnseen DEF Restart
  <2>2. UNCHANGED status BY <1>2 DEF Restart, SessionStatus, TypeOK
  <2>3. QED BY <2>1, <2>2, UnseenStep DEF Unseen
<1>3. QED BY <1>1, <1>2

LEMMA NextPromise == TurnInv /\ [Next]_vars => [Promise!Next]_Promise!vars
<1> SUFFICES ASSUME TurnInv, [Next]_vars PROVE [Promise!Next]_Promise!vars OBVIOUS
<1> USE DEF TurnInv
<1>1. CASE UNCHANGED vars
  BY <1>1, WatchUnseen, UnseenStep DEF vars, Unseen
<1>2. CASE Work
  BY <1>2, WatchUnseen, UnseenStep DEF Work, Spawn, Insert, Unseen
<1>3. CASE Next
  BY <1>2, <1>3, SubmitPromise, StepPromise, ExecutePromise, CancellingPromise, WatchingPromise,
     ProcessPromise DEF Next
<1>4. QED BY <1>1, <1>3

\* To its clients the daemon's handling of a turn, with its runs, cancels,
\* blocking threads, subscriptions, crashes and restarts, is TurnPromise.
THEOREM PromiseKept == Spec => KeepsPromise
<1>1. Init => Promise!Init
  BY DEF Init, Promise!Init, Asked, Given, NoWatch
<1>2. QED
  BY <1>1, NextPromise, TurnInvariant, PTL DEF Spec, KeepsPromise, Promise!Spec

=============================================================================
