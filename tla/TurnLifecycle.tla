--------------------------- MODULE TurnLifecycle ---------------------------
(***************************************************************************)
(* The life of a turn in the daemon: a submission records a task and       *)
(* queues it, the worker spawns a run for it, the run drives providers and *)
(* tools and announces one terminal event, while clients cancel it and     *)
(* wait for it, and the process may crash and restart over its database.   *)
(*                                                                         *)
(* Every database operation of a run is two steps: the run hands it to a   *)
(* blocking thread and awaits it, the thread executes it.  Aborting the    *)
(* run drops the await, never the operation (ingot/handle.rs).  The        *)
(* operations of RPC handlers, which nothing aborts, are one step each.    *)
(* Between two awaits a run is one step, except that the announcement and  *)
(* the end of the task are separate: a cancel may fall between them.       *)
(***************************************************************************)
EXTENDS Naturals, Sequences, FiniteSets

CONSTANTS
    Turns,        \* submissions; each is its own task id
    Via,          \* Turns -> "rpc" (turn.submit) or "acp" (POST .../prompt)
    Cancels,      \* turn.cancel requests
    Watchers,     \* turn.subscribe requests
    QueueCap,     \* capacity of the work channel (256)
    RingSize,     \* Turns -> number of providers eligible for the turn
    MaxRotations, \* MAX_PROVIDER_ROTATIONS
    ToolCap,      \* effective_max_tool_turns: tool iterations per provider
    DbMayFail,    \* whether a database operation may return an error
    MaxCrashes    \* bound on process crashes

ASSUME TurnAssumption ==
    /\ Via \in [Turns -> {"rpc", "acp"}]
    /\ QueueCap \in Nat \ {0}
    /\ RingSize \in [Turns -> Nat]
    /\ MaxRotations \in Nat
    /\ ToolCap \in Nat
    /\ DbMayFail \in BOOLEAN
    /\ MaxCrashes \in Nat

VARIABLES
    up,        \* the daemon process is running
    crashes,   \* how often it crashed
    status,    \* tasks.status in the database
    stored,    \* turns whose response is in the database
    sub,       \* where each submission is
    queue,     \* the mpsc channel to the worker
    inserting, \* the turn the worker spawned and has not registered yet
    registry,  \* turns with an abort handle
    run,       \* where the run of each turn is
    io,        \* the run's database operation: handed over, or its result
    ring,      \* rotations and tool iterations of each run
    aborted,   \* turns whose abort handle a cancel took
    told,      \* terminal events published for each turn
    cancel,    \* turn.cancel requests
    watch,     \* turn.subscribe requests
    hurt       \* turns one of whose database operations failed

worker == <<queue, inserting>>
vars == <<up, crashes, status, stored, sub, queue, inserting, registry, run,
          io, ring, aborted, told, cancel, watch, hurt>>

-----------------------------------------------------------------------------
Statuses == {"none", "queued", "planned", "in_progress", "complete", "failed"}
Terminal == {"complete", "failed"}
SubStages == {"new", "created", "replied", "streaming", "refused", "lost"}
RunStages == {"none", "spawned", "loading", "context", "drain", "tool", "batch",
              "failing", "storing", "records", "summarising", "audit", "announceFailed",
              "announceComplete", "ending", "done", "dropped", "lost"}
\* After the response: the ledger writes, the summary, the audit record.
Recording == {"records", "summarising", "audit"}
\* The stages at which the run is suspended in an await.
Awaiting == {"loading", "context", "drain", "tool", "batch", "failing", "storing"}
            \cup Recording
\* A single tool call runs outside the turn deadline, and so does the stream of
\* the summariser.
NoDeadline == {"tool", "summarising"}
\* The stages of a run that has its outcome still to announce.
Underway == {"spawned"} \cup Awaiting \cup {"announceFailed", "announceComplete"}
Writes == {"in_progress", "failed", "complete"}
Results == {"ok", "err"}
Answers == {"none", "response", "failure", "absent", "timeout", "unsettled", "dberror"}

NoCancel == [pc |-> "idle"]
CancelRequests == [turn : Turns, pc : {"mark", "tell", "done"}, found : BOOLEAN]
NoWatch == [pc |-> "idle"]
Watches == [turn : Turns, inbox : BOOLEAN, answer : Answers,
            pc : {"reading", "waiting", "rereading", "lagged", "done"}]

Init ==
    /\ up = TRUE
    /\ crashes = 0
    /\ status = [t \in Turns |-> "none"]
    /\ stored = {}
    /\ sub = [t \in Turns |-> "new"]
    /\ queue = <<>>
    /\ inserting = {}
    /\ registry = {}
    /\ run = [t \in Turns |-> "none"]
    /\ io = [t \in Turns |-> "none"]
    /\ ring = [t \in Turns |-> [rotations |-> 0, tools |-> 0]]
    /\ aborted = {}
    /\ told = [t \in Turns |-> <<>>]
    /\ cancel = [k \in Cancels |-> NoCancel]
    /\ watch = [w \in Watchers |-> NoWatch]
    /\ hurt = {}

-----------------------------------------------------------------------------
(* Submission *)

\* The two ways a database operation for t can end.
Fails(t) == DbMayFail /\ hurt' = hurt \cup {t}
Works == UNCHANGED hurt

\* submit / submit_prompt: create_task, then publish Started.
Create(t) ==
    /\ sub[t] = "new"
    /\ \/ /\ Works
          /\ status' = [status EXCEPT ![t] = IF Via[t] = "rpc" THEN "planned" ELSE "queued"]
          /\ sub' = [sub EXCEPT ![t] = IF Via[t] = "rpc" THEN "created" ELSE "streaming"]
       \/ /\ Fails(t)
          /\ sub' = [sub EXCEPT ![t] = "refused"]
          /\ UNCHANGED status
    /\ UNCHANGED <<up, crashes, stored, worker, registry, run, io, ring, aborted, told, cancel, watch>>

\* A variant with try_send, its error dropped.
EnqueueOrDrop(t) ==
    /\ sub[t] = "created"
    /\ queue' = IF Len(queue) < QueueCap THEN Append(queue, t) ELSE queue
    /\ sub' = [sub EXCEPT ![t] = "replied"]
    /\ UNCHANGED <<up, crashes, status, stored, inserting, registry, run, io, ring, aborted, told, cancel, watch, hurt>>

\* work_tx.send: suspends while the channel is full.
Enqueue(t) ==
    /\ sub[t] = "created"
    /\ Len(queue) < QueueCap
    /\ queue' = Append(queue, t)
    /\ sub' = [sub EXCEPT ![t] = "replied"]
    /\ UNCHANGED <<up, crashes, status, stored, inserting, registry, run, io, ring, aborted, told, cancel, watch, hurt>>

-----------------------------------------------------------------------------
(* The worker: spawn first, register after *)

Spawn ==
    /\ inserting = {}
    /\ queue # <<>>
    /\ inserting' = {Head(queue)}
    /\ queue' = Tail(queue)
    /\ run' = [run EXCEPT ![Head(queue)] = "spawned"]
    /\ UNCHANGED <<up, crashes, status, stored, sub, registry, io, ring, aborted, told, cancel, watch, hurt>>

Insert ==
    /\ inserting # {}
    /\ registry' = registry \cup inserting
    /\ inserting' = {}
    /\ UNCHANGED <<up, crashes, status, stored, sub, queue, run, io, ring, aborted, told, cancel, watch, hurt>>

-----------------------------------------------------------------------------
(* The run *)

runFrame == <<up, crashes, sub, worker, aborted, cancel>>

\* The next poll of a suspended run; an aborted run is not polled again.
Polled(t, stage) == run[t] = stage /\ t \notin aborted
Goto(t, stage) == run' = [run EXCEPT ![t] = stage]
HandOver(t, op) == io' = [io EXCEPT ![t] = op]

\* Awaiting a write that has been executed.
Returned(t, stage) == Polled(t, stage) /\ io[t] \in Results

\* First poll: the deregister guard is built, get_task handed over.
Start(t) ==
    /\ Polled(t, "spawned")
    /\ Goto(t, "loading")
    /\ UNCHANGED <<runFrame, status, stored, registry, io, ring, told, watch, hurt>>

\* get_task, the routing reads, the ring; then either mark in_progress or,
\* without an eligible provider, failed.  A failed load is announced without
\* touching the task.
Load(t) ==
    /\ Polled(t, "loading")
    /\ \/ /\ Works
          /\ IF RingSize[t] = 0
             THEN Goto(t, "failing") /\ HandOver(t, "failed")
             ELSE Goto(t, "context") /\ HandOver(t, "in_progress")
       \/ Fails(t) /\ Goto(t, "announceFailed") /\ UNCHANGED io
    /\ UNCHANGED <<runFrame, status, stored, registry, ring, told, watch>>

\* The outcome of the mark is logged, never acted upon.  With no tool
\* iteration allowed the loop over the first provider ends at once.
Begin(t) ==
    /\ Returned(t, "context")
    /\ IF ToolCap = 0
       THEN Goto(t, "failing") /\ HandOver(t, "failed")
       ELSE Goto(t, "drain") /\ HandOver(t, "none")
    /\ UNCHANGED <<runFrame, status, stored, registry, ring, told, watch, hurt>>

runStep == <<runFrame, status, stored, registry, told, watch, hurt>>

\* A tool-free reply: the final answer.  An empty one after a rotation is
\* taken for an exhausted ring.
Answer(t, empty) ==
    /\ Polled(t, "drain")
    /\ IF empty /\ ring[t].rotations > 0
       THEN Goto(t, "failing") /\ HandOver(t, "failed")
       ELSE Goto(t, "storing") /\ HandOver(t, "complete")
    /\ UNCHANGED <<runStep, ring>>

\* A reply with tool calls, which run before the next iteration: several as a
\* batch under the turn deadline, a single one without.
CallTools(t) ==
    /\ Polled(t, "drain")
    /\ \E stage \in {"tool", "batch"} : Goto(t, stage)
    /\ UNCHANGED <<runStep, io, ring>>

ToolsDone(t) ==
    /\ Polled(t, "tool") \/ Polled(t, "batch")
    /\ ring' = [ring EXCEPT ![t].tools = @ + 1]
    /\ IF ring[t].tools + 1 = ToolCap
       THEN Goto(t, "failing") /\ HandOver(t, "failed")
       ELSE Goto(t, "drain") /\ UNCHANGED io
    /\ UNCHANGED runStep

\* A retryable failure, or a rate limit after its retries: the next provider of
\* the ring, with a fresh tool budget.
Rotate(t) ==
    /\ Polled(t, "drain")
    /\ ring' = [ring EXCEPT ![t] = [rotations |-> @.rotations + 1, tools |-> 0]]
    /\ IF ring[t].rotations + 1 > MaxRotations \/ ring[t].rotations + 1 = RingSize[t]
       THEN Goto(t, "failing") /\ HandOver(t, "failed")
       ELSE UNCHANGED <<run, io>>
    /\ UNCHANGED runStep

\* A variant that leaves the task as it is.
GiveUpUnmarked(t) ==
    /\ Polled(t, "drain") \/ Polled(t, "batch")
    /\ Goto(t, "announceFailed")
    /\ UNCHANGED <<runStep, io, ring>>

\* A stream error, or the turn deadline while draining or in a batch.
GiveUp(t) ==
    /\ Polled(t, "drain") \/ Polled(t, "batch")
    /\ Goto(t, "failing")
    /\ HandOver(t, "failed")
    /\ UNCHANGED <<runStep, ring>>

\* Marked failed, or not: the error is ignored.
FailedMarked(t) ==
    /\ Returned(t, "failing")
    /\ Goto(t, "announceFailed")
    /\ UNCHANGED <<runStep, io, ring>>

\* A variant that logs the error and goes on.
ResponseStoredOrNot(t) ==
    /\ Returned(t, "storing")
    /\ Goto(t, "records")
    /\ UNCHANGED <<runStep, io, ring>>

\* set_task_response: without it, a Failed event and no further write.
ResponseStored(t) ==
    /\ Returned(t, "storing")
    /\ Goto(t, IF io[t] = "ok" THEN "records" ELSE "announceFailed")
    /\ UNCHANGED <<runStep, io, ring>>

\* A variant in which a ledger write breaks the turn.
RecordsBreak(t) ==
    /\ Polled(t, "records")
    /\ Goto(t, "failing")
    /\ HandOver(t, "failed")
    /\ UNCHANGED <<runStep, ring>>

\* Cost, savings, checkpoint and snapshot: awaited one after the other, their
\* errors swallowed.  Under context pressure maybe_compact then streams a summary.
RecordsKept(t) ==
    /\ Polled(t, "records")
    /\ \E stage \in {"summarising", "audit"} : Goto(t, stage)
    /\ UNCHANGED <<runStep, io, ring>>

\* drain_stream returns, with a summary or an error; nothing bounds it.
Summarised(t) ==
    /\ Polled(t, "summarising")
    /\ Goto(t, "audit")
    /\ UNCHANGED <<runStep, io, ring>>

\* The audit record, its error swallowed.
Audited(t) ==
    /\ Polled(t, "audit")
    /\ Goto(t, "announceComplete")
    /\ UNCHANGED <<runStep, io, ring>>

\* Every subscriber of the dispatcher that waits for t gets the event.
Deliver(t) ==
    watch' = [w \in Watchers |->
        IF watch[w].pc \in {"reading", "waiting", "lagged"} /\ watch[w].turn = t
        THEN [watch[w] EXCEPT !.inbox = TRUE] ELSE watch[w]]

\* Dispatcher::publish of the terminal event; no await before the run ends.
Announce(t) ==
    /\ run[t] \in {"announceFailed", "announceComplete"}
    /\ told' = [told EXCEPT ![t] =
            Append(@, IF run[t] = "announceComplete" THEN "complete" ELSE "failed")]
    /\ Deliver(t)
    /\ Goto(t, "ending")
    /\ UNCHANGED <<runFrame, status, stored, registry, io, ring, hurt>>

\* The run returns: Deregister::drop.
End(t) ==
    /\ run[t] = "ending"
    /\ registry' = registry \ {t}
    /\ Goto(t, "done")
    /\ UNCHANGED <<runFrame, status, stored, io, ring, told, watch, hurt>>

\* A variant with tools that cannot be dropped.
DropOutsideTools(t) ==
    /\ t \in aborted
    /\ run[t] \in (Awaiting \ {"tool"}) \cup {"spawned"}
    /\ registry' = IF run[t] = "spawned" THEN registry ELSE registry \ {t}
    /\ Goto(t, "dropped")
    /\ UNCHANGED <<runFrame, status, stored, io, ring, told, watch, hurt>>

\* The runtime drops an aborted run at its await; its guard deregisters it,
\* unless it was never polled.
Drop(t) ==
    /\ t \in aborted
    /\ run[t] \in Awaiting \cup {"spawned"}
    /\ registry' = IF run[t] = "spawned" THEN registry ELSE registry \ {t}
    /\ Goto(t, "dropped")
    /\ UNCHANGED <<runFrame, status, stored, io, ring, told, watch, hurt>>

\* A blocking thread executes the write the run handed over, whether or not
\* the run still waits for it.
Execute(t) ==
    /\ io[t] \in Writes
    /\ \/ /\ Works
          /\ status' = [status EXCEPT ![t] = io[t]]
          /\ stored' = IF io[t] = "complete" THEN stored \cup {t} ELSE stored
          /\ io' = [io EXCEPT ![t] = "ok"]
       \/ /\ Fails(t)
          /\ io' = [io EXCEPT ![t] = "err"]
          /\ UNCHANGED <<status, stored>>
    /\ UNCHANGED <<runFrame, registry, run, ring, told, watch>>

-----------------------------------------------------------------------------
(* turn.cancel *)

cancelFrame == <<up, crashes, stored, sub, worker, run, io, ring>>

\* The handle is taken out of the registry and aborted, or there is none.
TakeHandle(k, t) ==
    /\ cancel[k].pc = "idle"
    /\ status[t] # "none"
    /\ cancel' = [cancel EXCEPT ![k] =
            [turn |-> t, found |-> t \in registry,
             pc |-> IF t \in registry THEN "mark" ELSE "done"]]
    /\ registry' = registry \ {t}
    /\ aborted' = IF t \in registry THEN aborted \cup {t} ELSE aborted
    /\ UNCHANGED <<cancelFrame, status, told, watch, hurt>>

\* A variant that gives up when the update fails.
MarkFailedOrReturn(k) ==
    /\ cancel[k].pc = "mark"
    /\ \/ /\ Works
          /\ status' = [status EXCEPT ![cancel[k].turn] = "failed"]
          /\ cancel' = [cancel EXCEPT ![k].pc = "tell"]
       \/ /\ Fails(cancel[k].turn)
          /\ cancel' = [cancel EXCEPT ![k].pc = "done"]
          /\ UNCHANGED status
    /\ UNCHANGED <<cancelFrame, registry, aborted, told, watch>>

\* get_task for the session id, then update_task_status; errors are ignored.
MarkFailed(k) ==
    /\ cancel[k].pc = "mark"
    /\ \/ Works /\ status' = [status EXCEPT ![cancel[k].turn] = "failed"]
       \/ Fails(cancel[k].turn) /\ UNCHANGED status
    /\ cancel' = [cancel EXCEPT ![k].pc = "tell"]
    /\ UNCHANGED <<cancelFrame, registry, aborted, told, watch>>

TellCancelled(k) ==
    /\ cancel[k].pc = "tell"
    /\ told' = [told EXCEPT ![cancel[k].turn] = Append(@, "failed")]
    /\ Deliver(cancel[k].turn)
    /\ cancel' = [cancel EXCEPT ![k].pc = "done"]
    /\ UNCHANGED <<cancelFrame, status, registry, aborted, hurt>>

-----------------------------------------------------------------------------
(* turn.subscribe: await_turn_terminal *)

watchFrame == <<up, crashes, status, stored, sub, worker, registry, run, io,
                ring, aborted, told, cancel>>

\* terminal_envelope for a status that is terminal or of no task.
Envelope(s) == CASE s = "complete" -> "response"
                 [] s = "failed" -> "failure"
                 [] s = "none" -> "absent"
                 [] OTHER -> "unsettled"

Reply(w, answer) ==
    watch' = [watch EXCEPT ![w] = [@ EXCEPT !.pc = "done", !.answer = answer, !.inbox = FALSE]]

\* dispatcher.subscribe() comes before the first read of the task.
Subscribe(w, t) ==
    /\ watch[w].pc = "idle"
    /\ watch' = [watch EXCEPT ![w] =
            [turn |-> t, inbox |-> FALSE, answer |-> "none", pc |-> "reading"]]
    /\ UNCHANGED <<watchFrame, hurt>>

FirstRead(w) ==
    /\ watch[w].pc = "reading"
    /\ \/ /\ Works
          /\ LET a == Envelope(status[watch[w].turn]) IN
             IF a = "unsettled" THEN watch' = [watch EXCEPT ![w].pc = "waiting"]
             ELSE Reply(w, a)
       \/ Fails(watch[w].turn) /\ Reply(w, "dberror")
    /\ UNCHANGED watchFrame

Receive(w) ==
    /\ watch[w].pc = "waiting"
    /\ watch[w].inbox
    /\ watch' = [watch EXCEPT ![w] = [@ EXCEPT !.pc = "rereading", !.inbox = FALSE]]
    /\ UNCHANGED <<watchFrame, hurt>>

\* A burst overran the receiver: the oldest of what it had not received is gone.
Lag(w) ==
    /\ watch[w].pc = "waiting"
    /\ \E kept \in {FALSE, watch[w].inbox} :
          watch' = [watch EXCEPT ![w] = [@ EXCEPT !.pc = "lagged", !.inbox = kept]]
    /\ UNCHANGED <<watchFrame, hurt>>

\* A variant that takes the lag for the terminal event.
AfterLagTerminal(w) ==
    /\ watch[w].pc = "lagged"
    /\ watch' = [watch EXCEPT ![w].pc = "rereading"]
    /\ UNCHANGED <<watchFrame, hurt>>

\* A variant that skips the burst and goes on waiting.
AfterLagWait(w) ==
    /\ watch[w].pc = "lagged"
    /\ watch' = [watch EXCEPT ![w].pc = "waiting"]
    /\ UNCHANGED <<watchFrame, hurt>>

\* ... so the task is read; a read that fails leaves the subscriber waiting.
AfterLag(w) ==
    /\ watch[w].pc = "lagged"
    /\ \/ /\ Works
          /\ watch' = [watch EXCEPT ![w].pc =
                IF status[watch[w].turn] \in Terminal THEN "rereading" ELSE "waiting"]
       \/ Fails(watch[w].turn) /\ watch' = [watch EXCEPT ![w].pc = "waiting"]
    /\ UNCHANGED watchFrame

LastRead(w) ==
    /\ watch[w].pc = "rereading"
    /\ \/ Works /\ Reply(w, Envelope(status[watch[w].turn]))
       \/ Fails(watch[w].turn) /\ Reply(w, "dberror")
    /\ UNCHANGED watchFrame

\* The 60 s deadline around the wait.
TimeOut(w) ==
    /\ watch[w].pc \in {"waiting", "lagged"}
    /\ Reply(w, "timeout")
    /\ UNCHANGED <<watchFrame, hurt>>

-----------------------------------------------------------------------------
(* The process *)

\* Everything but the database and what was already announced is gone.
Crash ==
    /\ crashes < MaxCrashes
    /\ crashes' = crashes + 1
    /\ up' = FALSE
    /\ queue' = <<>>
    /\ inserting' = {}
    /\ registry' = {}
    /\ run' = [t \in Turns |-> IF run[t] \in {"none", "done", "dropped"} THEN run[t] ELSE "lost"]
    /\ sub' = [t \in Turns |-> IF sub[t] = "created" THEN "lost" ELSE sub[t]]
    /\ io' = [t \in Turns |-> "none"]
    /\ cancel' = [k \in Cancels |->
            IF cancel[k].pc \in {"mark", "tell"} THEN [cancel[k] EXCEPT !.pc = "done"] ELSE cancel[k]]
    /\ watch' = [w \in Watchers |->
            IF watch[w].pc \in {"idle", "done"} THEN watch[w]
            ELSE [watch[w] EXCEPT !.pc = "done", !.inbox = FALSE]]
    /\ UNCHANGED <<status, stored, ring, aborted, told, hurt>>

\* Session rows are created "active" and no code sets another status.
SessionStatus == "active"

\* Startup: the tasks in progress of sessions left "in_flight" are failed.
Restart ==
    /\ up' = TRUE
    /\ status' = [t \in Turns |->
            IF SessionStatus = "in_flight" /\ status[t] = "in_progress" THEN "failed" ELSE status[t]]
    /\ UNCHANGED <<crashes, stored, sub, worker, registry, run, io, ring, aborted, told, cancel, watch, hurt>>

Step(t) ==
    \/ Start(t) \/ Load(t) \/ Begin(t)
    \/ (\E empty \in BOOLEAN : Answer(t, empty))
    \/ CallTools(t) \/ ToolsDone(t) \/ Rotate(t) \/ GiveUp(t)
    \/ FailedMarked(t) \/ ResponseStored(t) \/ RecordsKept(t) \/ Summarised(t) \/ Audited(t)
    \/ Announce(t) \/ End(t) \/ Drop(t)

Submit(t) == Create(t) \/ Enqueue(t)
Work == Spawn \/ Insert
Cancelling(k) == (\E t \in Turns : TakeHandle(k, t)) \/ MarkFailed(k) \/ TellCancelled(k)
Watching(w) ==
    \/ (\E t \in Turns : Subscribe(w, t))
    \/ FirstRead(w) \/ Receive(w) \/ Lag(w) \/ AfterLag(w) \/ LastRead(w) \/ TimeOut(w)

Next ==
    \/ /\ up
       /\ \/ \E t \in Turns : Submit(t) \/ Step(t) \/ Execute(t)
          \/ Work
          \/ \E k \in Cancels : Cancelling(k)
          \/ \E w \in Watchers : Watching(w)
          \/ Crash
    \/ ~up /\ Restart

Spec == Init /\ [][Next]_vars

\* What the runtime and the turn deadline bring about.  A run in an await that
\* nothing bounds may stay there, unless it was aborted.
Bounded(t) == Step(t) /\ (run[t] \in NoDeadline => t \in aborted)

(* Fairness: the runtime polls every ready task and runs every blocking       *)
(* closure; a stream and a batch of tools end or run into the turn deadline.  *)
(* A single tool call and the summariser's stream may never end.  Nobody is   *)
(* bound to submit, cancel or subscribe.  The 60 s deadline of a subscription *)
(* fires if nothing else ends it.                                             *)
Fairness ==
    /\ \A t \in Turns : WF_vars(up /\ Enqueue(t)) /\ WF_vars(up /\ Bounded(t))
                        /\ WF_vars(up /\ Execute(t))
    /\ WF_vars(up /\ Work)
    /\ \A k \in Cancels : WF_vars(up /\ (MarkFailed(k) \/ TellCancelled(k)))
    /\ \A w \in Watchers : WF_vars(up /\ (FirstRead(w) \/ Receive(w) \/ AfterLag(w)
                                          \/ LastRead(w) \/ TimeOut(w)))

FairSpec == Spec /\ Fairness

-----------------------------------------------------------------------------
(* Properties *)

\* Every variable keeps its type.
TypeOK ==
    /\ up \in BOOLEAN
    /\ crashes \in 0 .. MaxCrashes
    /\ status \in [Turns -> Statuses]
    /\ stored \subseteq Turns
    /\ sub \in [Turns -> SubStages]
    /\ queue \in Seq(Turns) /\ Len(queue) <= QueueCap
    /\ inserting \subseteq Turns
    /\ registry \subseteq Turns
    /\ run \in [Turns -> RunStages]
    /\ io \in [Turns -> Writes \cup Results \cup {"none"}]
    /\ ring \in [Turns -> [rotations : Nat, tools : Nat]]
    /\ aborted \subseteq Turns
    /\ told \in [Turns -> Seq(Terminal)]
    /\ cancel \in [Cancels -> CancelRequests \cup {NoCancel}]
    /\ watch \in [Watchers -> Watches \cup {NoWatch}]
    /\ hurt \subseteq Turns

\* Whoever hears that a turn completed can read its response: the Completed
\* event is only published over a stored response, whatever was cancelled,
\* failed or crashed in between.
ResponseBehindCompletion ==
    \A t \in Turns : \A i \in DOMAIN told[t] : told[t][i] = "complete" => t \in stored

\* Unless the process died, a turn that turn.submit acknowledged and nobody
\* announced yet is in the hands of someone who will: in the work channel, with
\* a run that no cancel stopped, or with the cancel that stopped it.
InHand(t) ==
    \/ \E i \in DOMAIN queue : queue[i] = t
    \/ t \notin aborted /\ run[t] \in Underway
    \/ \E k \in Cancels : cancel[k].pc \in {"mark", "tell"} /\ cancel[k].turn = t
NoTurnForgotten ==
    \A t \in Turns : crashes = 0 /\ sub[t] = "replied" /\ told[t] = <<>> => InHand(t)

\* A turn nobody cancelled announces one outcome, and the task row holds the
\* same one: always for Completed, and for Failed unless the database refused
\* the write.
SingleOutcome ==
    \A t \in Turns \ aborted :
        /\ Len(told[t]) <= 1
        /\ told[t] = <<"complete">> => status[t] = "complete"
        /\ told[t] = <<"failed">> /\ t \notin hurt => status[t] = "failed"

\* await_turn_terminal subscribes before it reads: once the outcome of a turn
\* is out, a subscriber that still waits for it has it in its receiver.
NoLostWakeup ==
    \A w \in Watchers : watch[w].pc = "waiting" /\ told[watch[w].turn] # <<>>
        => watch[w].inbox \/ watch[w].turn \in aborted \cup hurt

\* What turn.subscribe answers agrees with the database: a response is stored,
\* and only a cancel or a database failure makes a terminal event that finds
\* the task unsettled.
AnswersAgree ==
    \A w \in Watchers : watch[w].pc = "done" =>
        /\ watch[w].answer = "response" => watch[w].turn \in stored
        /\ watch[w].answer = "failure" /\ watch[w].turn \notin aborted
              => status[watch[w].turn] = "failed"
        /\ watch[w].answer = "unsettled" => watch[w].turn \in aborted \cup hurt

\* Unless a cancel took its handle, a task only moves forward: it is never
\* reopened, and a terminal status is never replaced, not even by a restart.
Rank(s) == CASE s = "none" -> 0 [] s \in {"queued", "planned"} -> 1
             [] s = "in_progress" -> 2 [] OTHER -> 3
StatusForward ==
    [][\A t \in Turns \ aborted' :
          status'[t] = status[t] \/ Rank(status'[t]) > Rank(status[t])]_vars

\* The lifecycle implements what clients are promised: every step, of any actor
\* and with whatever a cancel, a database error or a crash leaves behind, writes,
\* announces, cancels or answers as TurnPromise allows.
Asked == [w \in Watchers |-> IF watch[w].pc = "idle" THEN {} ELSE {watch[w].turn}]
Given == [w \in Watchers |-> IF watch[w].pc = "idle" THEN "none" ELSE watch[w].answer]
Promise == INSTANCE TurnPromise WITH
    row <- status, cancelled <- aborted, asks <- Asked, answer <- Given
KeepsPromise == Promise!Spec

\* Every turn turn.submit accepted is announced, completed or failed, unless the
\* process dies or the run waits for ever in one of the two awaits without a
\* deadline: a single tool call (test_run starts a process and waits for it) or
\* the stream of the summariser, which comes after the response was stored.
TurnsEnd == \A t \in Turns :
    (sub[t] = "replied") ~> (told[t] # <<>> \/ crashes > 0 \/ run[t] \in NoDeadline)

\* A cancelled run stops and gives its handle back: it does not hang in an
\* await it was dropped from.
CancelledRunsStop == \A t \in Turns :
    (t \in aborted) ~> (run[t] \in {"done", "dropped", "lost"})

-----------------------------------------------------------------------------
(* The inductive invariant behind the safety properties: what each stage of  *)
(* a run says about its database operation, its task row and what was        *)
(* announced for it, and what a subscriber knows of that.                    *)

\* A submission is queued at most once, and runs only after it left the queue.
QueueInv ==
    /\ \A i, j \in DOMAIN queue : queue[i] = queue[j] => i = j
    /\ \A i \in DOMAIN queue : sub[queue[i]] = "replied" /\ run[queue[i]] = "none"
    /\ \A t \in Turns : run[t] # "none" => sub[t] = "replied"

\* The operations a run awaits at each stage; an aborted run leaves its own behind.
IoInv ==
    \A t \in Turns :
        /\ run[t] \in {"none", "spawned", "loading", "drain", "tool", "batch", "lost"} => io[t] = "none"
        /\ run[t] = "failing" => io[t] \in {"failed"} \cup Results
        /\ run[t] = "storing" => io[t] \in {"complete"} \cup Results
        /\ run[t] \in Recording \cup {"announceFailed", "announceComplete", "ending", "done"}
              => io[t] \notin Writes
        /\ run[t] = "dropped" => t \in aborted
        /\ io[t] = "err" => t \in hurt

\* What the awaited operation left in the database.
StoredInv ==
    \A t \in Turns :
        /\ run[t] = "storing" /\ io[t] = "ok" => t \in stored
        /\ run[t] \in Recording \cup {"announceComplete"} => t \in stored

\* The row of a run no cancel touched, up to its announcement and after it.
RowInv ==
    \A t \in Turns \ aborted :
        /\ run[t] = "failing" /\ io[t] = "ok" => status[t] = "failed"
        /\ run[t] = "storing" /\ io[t] = "ok" => status[t] = "complete"
        /\ run[t] \in Recording \cup {"announceComplete"} => status[t] = "complete"
        /\ run[t] = "announceFailed" /\ t \notin hurt => status[t] = "failed"
        /\ told[t] # <<>> => run[t] \in {"ending", "done", "lost"}

CancelInv ==
    \A k \in Cancels : cancel[k].pc \in {"mark", "tell"} => cancel[k].turn \in aborted

RunInv ==
    /\ QueueInv /\ IoInv /\ StoredInv /\ RowInv /\ CancelInv
    /\ ResponseBehindCompletion /\ SingleOutcome

\* A write under way is ahead of the row of a run no cancel touched, and of a
\* stage that has yet to hand one over.
RowForward ==
    \A t \in Turns \ aborted :
        /\ sub[t] = "new" => status[t] = "none"
        /\ run[t] \in {"none", "spawned", "loading"} => Rank(status[t]) <= 1
        /\ run[t] = "context" => io[t] \in {"in_progress"} \cup Results
        /\ run[t] \in {"context", "drain", "tool", "batch"} => Rank(status[t]) <= 2
        /\ io[t] = "in_progress" => Rank(status[t]) <= 1
        /\ io[t] \in {"failed", "complete"} => Rank(status[t]) <= 2

\* What a subscriber has in its receiver, and knows before its last read.
WatchInv ==
    /\ \A t \in Turns : status[t] = "complete" => t \in stored
    /\ \A w \in Watchers :
        /\ watch[w].pc \notin {"idle", "done"} => watch[w].answer = "none"
        /\ watch[w].pc \in {"reading", "waiting", "lagged"} /\ watch[w].inbox
              => told[watch[w].turn] # <<>>
        /\ watch[w].pc = "rereading"
              => watch[w].turn \in aborted \cup hurt \/ status[watch[w].turn] \in Terminal
    /\ NoLostWakeup /\ AnswersAgree

\* What was queued, run or cancelled has a row, and a run that announced a
\* completion announces nothing more.
RecordInv ==
    \A t \in Turns :
        /\ sub[t] \notin {"new", "refused"} \/ t \in aborted => status[t] # "none"
        /\ \A i \in DOMAIN told[t] :
              told[t][i] = "complete" => run[t] \in {"ending", "done", "lost"}

\* A run that is over has announced something, and only what runs has a handle.
IdleInv == \A t \in Turns : run[t] = "none" => t \notin inserting \cup registry \cup aborted
AcceptInv ==
    /\ \A t \in Turns : run[t] \in {"ending", "done"} => told[t] # <<>>
    /\ IdleInv
    /\ NoTurnForgotten

\* With the types: what every reachable state satisfies, and an induction needs.
TurnInv == TypeOK /\ RunInv /\ RowForward /\ WatchInv /\ RecordInv /\ AcceptInv

=============================================================================
