--------------------------- MODULE SessionLedger ---------------------------
(***************************************************************************)
(* The durable record of a session: its completed turns, their checkpoints *)
(* and token snapshots (crates/smedja-ingot), as written by finishing      *)
(* turns (orchestrator/turn_run.rs) and rewritten by session.rollback,     *)
(* session.compact, session.fork and session.takeover.                     *)
(*                                                                         *)
(* Each statement is atomic (one connection behind a mutex) and no         *)
(* transaction spans two of them, so the operations interleave between     *)
(* statements, and a turn.cancel or the end of the process may stop a turn *)
(* between any two.  A session's conversation is abstracted to the set of  *)
(* turns whose prompts it holds; a turn uses one token.                    *)
(***************************************************************************)
EXTENDS Naturals, FiniteSets

CONSTANTS
    Turns,       \* turns, of whatever session they are submitted to
    Roots,       \* sessions created by session.create
    Children,    \* sessions created by session.fork or session.takeover
    Compactions, \* session.compact requests; each is its own compaction id
    Rewinds,     \* bound on the number of rollbacks
    Stops,       \* bound on the number of turns that are stopped
    Troubles     \* no overlap and no database error once a session had so many

Sessions == Roots \cup Children

ASSUME LedgerAssumption ==
    /\ Roots \cap Children = {}
    /\ Rewinds \in Nat
    /\ Stops \in Nat
    /\ Troubles \in Nat

VARIABLES
    turn,        \* where each turn is, with its session and its local variables
    complete,    \* turns with a stored response: status complete in tasks
    voided,      \* turns with a stored response that a cancel then marked failed
    stopped,     \* turns whose run a cancel or the end of the process stopped
    checkpoints, \* ordinary rows of checkpoints, per session
    compactions, \* rows with a compaction_id, per session
    snapshots,   \* rows of turn_token_snapshots, per session
    compact,     \* the session.compact requests
    fork,        \* the forks, by the session they create
    rewinds,     \* rollbacks so far
    newest,      \* the turn of the checkpoint each session continues from
    disturbed    \* how often each session's operations overlapped or its database failed

vars == <<turn, complete, voided, stopped, checkpoints, compactions, snapshots, compact, fork,
          rewinds, newest, disturbed>>

-----------------------------------------------------------------------------
TurnStages == {"new", "running", "answered", "counted", "saved", "totalled",
               "recorded", "done"}

\* The turn numbers a request may name.
Counters == 0 .. Cardinality(Turns)

Checkpoint == [n : Nat, by : Turns, msgs : SUBSET Turns]
Compaction == [id : Compactions, n : Nat, msgs : SUBSET Turns]
Snapshot == [n : Nat, by : Turns, total : Nat]

NewTurn == [pc |-> "new"]
StartedTurn == [pc : TurnStages \ {"new"}, session : Sessions,
                context : SUBSET Turns, n : Nat, prior : Nat]
NewCompact == [pc |-> "new"]
StartedCompact == [pc : {"summary", "counted", "done"}, session : Sessions,
                   msgs : SUBSET Turns, n : Nat]
NewFork == [pc |-> "new"]
StartedFork == [pc : {"read", "created", "done"}, base : SUBSET Checkpoint]

Init ==
    /\ turn = [t \in Turns |-> NewTurn]
    /\ complete = {}
    /\ voided = {}
    /\ stopped = {}
    /\ checkpoints = [s \in Sessions |-> {}]
    /\ compactions = [s \in Sessions |-> {}]
    /\ snapshots = [s \in Sessions |-> {}]
    /\ compact = [k \in Compactions |-> NewCompact]
    /\ fork = [c \in Children |-> NewFork]
    /\ rewinds = 0
    /\ newest = [s \in Sessions |-> {}]
    /\ disturbed = [s \in Sessions |-> 0]

-----------------------------------------------------------------------------
(* Rows *)

\* INSERT OR REPLACE under the unique (session_id, turn_n).
Upsert(rows, row) == {r \in rows : r.n # row.n} \cup {row}

\* ORDER BY turn_n DESC LIMIT 1, as a set of at most one row.
Last(rows) == {r \in rows : \A q \in rows : q.n <= r.n}

\* A variant that counts every row of the table.
RowCount(s) == Cardinality(checkpoints[s]) + Cardinality(compactions[s])

\* list_checkpoints(session).len(): compaction rows are not counted.
CheckpointCount(s) == Cardinality(checkpoints[s])

Exists(s) == IF s \in Roots THEN TRUE ELSE fork[s].pc \in {"created", "done"}

\* An operation on s is under way.
Busy(s) ==
    \/ \E t \in Turns : turn[t].pc \notin {"new", "done"} /\ turn[t].session = s
    \/ \E k \in Compactions : compact[k].pc \in {"summary", "counted"} /\ compact[k].session = s

Trouble(s) ==
    /\ \A u \in Sessions : disturbed[u] < Troubles
    /\ disturbed' = [disturbed EXCEPT ![s] = @ + 1]

Overlap(s) == IF Busy(s) THEN Trouble(s) ELSE UNCHANGED disturbed

\* A statement of the running operation on s succeeds, or returns an error.
Works == UNCHANGED disturbed
Fails(s) == Trouble(s)

-----------------------------------------------------------------------------
(* A turn *)

turnFrame == <<compactions, compact, fork, rewinds>>
runFrame == <<turnFrame, voided, stopped>>
MoveTo(t, stage) == turn' = [turn EXCEPT ![t].pc = stage]

\* ... where its local variables are gone or of no use any more.
Leave(t, stage) == turn' = [turn EXCEPT ![t] =
    [pc |-> stage, session |-> @.session, context |-> {}, n |-> 0, prior |-> 0]]

\* turn.submit, then session_history: every completed turn of the session is
\* replayed; when the query fails the turn goes on without it.
Begin(t, s) ==
    /\ turn[t].pc = "new"
    /\ Exists(s)
    /\ \E ok \in BOOLEAN :
         /\ turn' = [turn EXCEPT ![t] =
               [pc |-> "running", session |-> s, n |-> 0, prior |-> 0,
                context |-> {u \in complete : turn[u].session = s /\ ok}]]
         /\ IF ok THEN Overlap(s) ELSE Fails(s)
    /\ UNCHANGED <<runFrame, complete, checkpoints, snapshots, newest>>

\* The turn fails, or its response cannot be stored.
Fail(t) ==
    /\ turn[t].pc = "running"
    /\ Leave(t, "done")
    /\ UNCHANGED <<runFrame, complete, checkpoints, snapshots, newest, disturbed>>

\* set_task_response.
StoreResponse(t) ==
    /\ complete' = complete \cup {t}
    /\ UNCHANGED <<checkpoints, snapshots, newest, disturbed>>

Respond(t) ==
    /\ turn[t].pc = "running"
    /\ StoreResponse(t)
    /\ MoveTo(t, "answered")
    /\ UNCHANGED runFrame

\* turn_n is the number of checkpoints, 0 when they cannot be listed.
Count(t) ==
    LET s == turn[t].session IN
    /\ turn[t].pc = "answered"
    /\ \/ Works /\ turn' = [turn EXCEPT ![t].pc = "counted", ![t].n = CheckpointCount(s)]
       \/ Fails(s) /\ turn' = [turn EXCEPT ![t].pc = "counted", ![t].n = 0]
    /\ UNCHANGED <<runFrame, complete, checkpoints, snapshots, newest>>

\* save_checkpoint; its error is logged.
InsertCheckpoint(t) ==
    LET s == turn[t].session
        row == [n |-> turn[t].n, by |-> t, msgs |-> turn[t].context \cup {t}] IN
    /\ \/ /\ Works
          /\ checkpoints' = [checkpoints EXCEPT ![s] = Upsert(@, row)]
          /\ newest' = [newest EXCEPT ![s] = {t}]
       \/ Fails(s) /\ UNCHANGED <<checkpoints, newest>>
    /\ UNCHANGED <<complete, snapshots>>

SaveCheckpoint(t) ==
    /\ turn[t].pc = "counted"
    /\ InsertCheckpoint(t)
    /\ MoveTo(t, "saved")
    /\ UNCHANGED runFrame

\* A variant that takes the first snapshot for the last.
ReadTotalsFirst(t) ==
    LET rows == snapshots[turn[t].session] IN
    /\ turn[t].pc = "saved"
    /\ Works
    /\ turn' = [turn EXCEPT ![t].pc = "totalled", ![t].prior =
          IF rows = {} THEN 0
          ELSE (CHOOSE r \in rows : \A q \in rows : r.n <= q.n).total]
    /\ UNCHANGED <<runFrame, complete, checkpoints, snapshots, newest>>

\* session_token_snapshots(session).last(), (0, 0) when it fails.
ReadTotals(t) ==
    LET s == turn[t].session
        prior == {r.total : r \in Last(snapshots[s])} IN
    /\ turn[t].pc = "saved"
    /\ \/ /\ Works
          /\ turn' = [turn EXCEPT ![t].pc = "totalled",
                ![t].prior = IF prior = {} THEN 0 ELSE CHOOSE p \in prior : TRUE]
       \/ Fails(s) /\ MoveTo(t, "totalled")
    /\ UNCHANGED <<runFrame, complete, checkpoints, snapshots, newest>>

\* save_token_snapshot; its error is logged.
InsertSnapshot(t) ==
    LET s == turn[t].session
        row == [n |-> turn[t].n, by |-> t, total |-> turn[t].prior + 1] IN
    /\ \/ Works /\ snapshots' = [snapshots EXCEPT ![s] = Upsert(@, row)]
       \/ Fails(s) /\ UNCHANGED snapshots
    /\ UNCHANGED <<complete, checkpoints, newest>>

SaveSnapshot(t) ==
    /\ turn[t].pc = "totalled"
    /\ InsertSnapshot(t)
    /\ Leave(t, "recorded")
    /\ UNCHANGED runFrame

\* maybe_compact, the audit record and the announcement.
Finish(t) ==
    /\ turn[t].pc = "recorded"
    /\ Leave(t, "done")
    /\ UNCHANGED <<runFrame, complete, checkpoints, snapshots, newest, disturbed>>

\* turn.cancel aborts the run at any await, or the process ends.  A write that
\* was already with the blocking pool is executed all the same, later (Late).
Stop(t) ==
    /\ turn[t].pc \notin {"new", "done"}
    /\ t \notin stopped /\ Cardinality(stopped) < Stops
    /\ stopped' = stopped \cup {t}
    /\ \/ Leave(t, "done")
       \/ turn[t].pc \in {"running", "counted", "totalled"} /\ UNCHANGED turn
    /\ UNCHANGED <<turnFrame, complete, voided, checkpoints, snapshots, newest, disturbed>>

\* The write a stopped turn left behind.
Late(t) ==
    /\ t \in stopped
    /\ \/ turn[t].pc = "running" /\ StoreResponse(t)
       \/ turn[t].pc = "counted" /\ InsertCheckpoint(t)
       \/ turn[t].pc = "totalled" /\ InsertSnapshot(t)
    /\ Leave(t, "done")
    /\ UNCHANGED runFrame

\* The cancel that aborted the run marks the task failed, complete or not; a
\* task that is not complete is none of the session's history anyway.
MarkFailed(t) ==
    /\ t \in stopped \cap complete
    /\ complete' = complete \ {t}
    /\ voided' = voided \cup {t}
    /\ UNCHANGED <<turnFrame, turn, stopped, checkpoints, snapshots, newest, disturbed>>

-----------------------------------------------------------------------------
(* session.rollback: one transaction; a turn without a checkpoint is refused *)

\* A variant that deletes the checkpoint of the target turn with the later ones.
RollbackTarget(s, n) ==
    /\ rewinds < Rewinds
    /\ \E r \in checkpoints[s] :
         /\ r.n = n
         /\ newest' = [newest EXCEPT ![s] = {r.by}]
    /\ checkpoints' = [checkpoints EXCEPT ![s] = {r \in @ : r.n < n}]
    /\ rewinds' = rewinds + 1
    /\ Overlap(s)
    /\ UNCHANGED <<turn, complete, voided, stopped, compactions, snapshots, compact, fork>>

\* A variant whose DELETE does not spare the compaction rows.
RollbackEveryRow(s, n) ==
    /\ rewinds < Rewinds
    /\ \E r \in checkpoints[s] :
         /\ r.n = n
         /\ newest' = [newest EXCEPT ![s] = {r.by}]
    /\ checkpoints' = [checkpoints EXCEPT ![s] = {r \in @ : r.n <= n}]
    /\ compactions' = [compactions EXCEPT ![s] = {r \in @ : r.n <= n}]
    /\ rewinds' = rewinds + 1
    /\ Overlap(s)
    /\ UNCHANGED <<turn, complete, voided, stopped, snapshots, compact, fork>>

Rollback(s, n) ==
    /\ rewinds < Rewinds
    /\ \E r \in checkpoints[s] :
         /\ r.n = n
         /\ newest' = [newest EXCEPT ![s] = {r.by}]
    /\ checkpoints' = [checkpoints EXCEPT ![s] = {r \in @ : r.n <= n}]
    /\ rewinds' = rewinds + 1
    /\ Overlap(s)
    /\ UNCHANGED <<turn, complete, voided, stopped, compactions, snapshots, compact, fork>>

-----------------------------------------------------------------------------
(* session.compact: read, summarise, count, save *)

compactFrame == <<turn, complete, voided, stopped, checkpoints, snapshots, fork, rewinds, newest>>

CompactLeave(k) == compact' = [compact EXCEPT ![k] =
    [pc |-> "done", session |-> @.session, msgs |-> {}, n |-> 0]]

\* latest_checkpoint; an error ends the request.
CompactRead(k, s) ==
    /\ compact[k].pc = "new"
    /\ Exists(s)
    /\ compact' = [compact EXCEPT ![k] =
          [pc |-> "summary", session |-> s, n |-> 0,
           msgs |-> UNION {r.msgs : r \in Last(checkpoints[s])}]]
    /\ Overlap(s)
    /\ UNCHANGED <<compactFrame, compactions>>

\* The provider's stream fails, or the process ends.
CompactGiveUp(k) ==
    /\ compact[k].pc \in {"summary", "counted"}
    /\ CompactLeave(k)
    /\ UNCHANGED <<compactFrame, compactions, disturbed>>

CompactCount(k) ==
    LET s == compact[k].session IN
    /\ compact[k].pc = "summary"
    /\ \/ Works /\ compact' = [compact EXCEPT ![k].pc = "counted", ![k].n = CheckpointCount(s)]
       \/ Fails(s) /\ compact' = [compact EXCEPT ![k].pc = "counted", ![k].n = 0]
    /\ UNCHANGED <<compactFrame, compactions>>

CompactSave(k) ==
    LET s == compact[k].session IN
    /\ compact[k].pc = "counted"
    /\ CompactLeave(k)
    /\ \/ /\ Works
          /\ compactions' = [compactions EXCEPT ![s] = @ \cup
                {[id |-> k, n |-> compact[k].n, msgs |-> compact[k].msgs]}]
       \/ Fails(s) /\ UNCHANGED compactions
    /\ UNCHANGED compactFrame

-----------------------------------------------------------------------------
(* session.fork and session.takeover, which the end of the process may leave *)
(* at any point: no step of theirs is bound to happen.                       *)

forkFrame == <<turn, complete, voided, stopped, compactions, snapshots, compact, rewinds>>

\* The checkpoint with the largest turn_n up to the target; without a target,
\* and for a takeover, the latest.  A target before the first is refused.
ForkRead(c, s, target) ==
    LET base == Last({r \in checkpoints[s] : r.n <= target}) IN
    /\ fork[c].pc = "new"
    /\ Exists(s)
    /\ base # {} \/ target = Cardinality(Turns)
    /\ fork' = [fork EXCEPT ![c] = [pc |-> "read", base |-> base]]
    /\ UNCHANGED <<forkFrame, checkpoints, newest, disturbed>>

ForkCreate(c) ==
    /\ fork[c].pc = "read"
    /\ fork' = [fork EXCEPT ![c].pc = "created"]
    /\ UNCHANGED <<forkFrame, checkpoints, newest, disturbed>>

\* The copy keeps its turn_n; when it cannot be saved the request fails, with
\* the session already there.
ForkSave(c) ==
    /\ fork[c].pc = "created"
    /\ fork' = [fork EXCEPT ![c] = [pc |-> "done", base |-> {}]]
    /\ \/ /\ Works
          /\ checkpoints' = [checkpoints EXCEPT ![c] =
                {r \in @ : \A b \in fork[c].base : b.n # r.n} \cup fork[c].base]
          /\ newest' = [newest EXCEPT ![c] = {b.by : b \in fork[c].base}]
       \/ Fails(c) /\ UNCHANGED <<checkpoints, newest>>
    /\ UNCHANGED forkFrame

-----------------------------------------------------------------------------
\* The run of a turn, unless it was stopped.
Advance(t) ==
    /\ t \notin stopped
    /\ \/ Fail(t) \/ Respond(t) \/ Count(t) \/ SaveCheckpoint(t)
       \/ ReadTotals(t) \/ SaveSnapshot(t) \/ Finish(t)

Next ==
    \/ \E t \in Turns :
          (\E s \in Sessions : Begin(t, s))
          \/ Advance(t) \/ Stop(t) \/ Late(t) \/ MarkFailed(t)
    \/ \E s \in Sessions, n \in Counters : Rollback(s, n)
    \/ \E k \in Compactions :
          (\E s \in Sessions : CompactRead(k, s))
          \/ CompactGiveUp(k) \/ CompactCount(k) \/ CompactSave(k)
    \/ \E c \in Children :
          (\E s \in Sessions, n \in Counters : ForkRead(c, s, n))
          \/ ForkCreate(c) \/ ForkSave(c)

Spec == Init /\ [][Next]_vars

-----------------------------------------------------------------------------
(* Properties *)

\* Every variable keeps its type; rows are finite in number.
TypeOK ==
    /\ turn \in [Turns -> StartedTurn \cup {NewTurn}]
    /\ complete \subseteq Turns /\ voided \subseteq Turns /\ stopped \subseteq Turns
    /\ checkpoints \in [Sessions -> SUBSET Checkpoint]
    /\ \A s \in Sessions : IsFiniteSet(checkpoints[s])
    /\ compactions \in [Sessions -> SUBSET Compaction]
    /\ snapshots \in [Sessions -> SUBSET Snapshot]
    /\ \A s \in Sessions : IsFiniteSet(snapshots[s])
    /\ compact \in [Compactions -> StartedCompact \cup {NewCompact}]
    /\ fork \in [Children -> StartedFork \cup {NewFork}]
    /\ \A c \in Children : fork[c].pc # "new" => IsFiniteSet(fork[c].base)
    /\ rewinds \in 0 .. Rewinds
    /\ newest \in [Sessions -> SUBSET Turns]
    /\ disturbed \in [Sessions -> 0 .. Troubles]

\* The sessions a single client drove, one operation after the other, over a
\* database that did not fail: what the terminal interface does.
Orderly == {s \in Roots : disturbed[s] = 0}

\* The row latest_checkpoint picks by number is the one saved, or rewound to,
\* last: compaction, takeover and session load start from the right one.
LatestIsNewest ==
    \A s \in Orderly : {r.by : r \in Last(checkpoints[s])} = newest[s]

\* Each checkpoint extends the conversation of the ones before it, but for turns
\* that a cancel marked failed after their response was stored.
CheckpointsExtend ==
    \A s \in Orderly : \A q, r \in checkpoints[s] : q.n < r.n => q.msgs \ voided \subseteq r.msgs

\* Once such a session is at rest, and as long as none of its turns was rolled
\* back, the running total of its last snapshot counts every turn that has one,
\* and every turn it completed has one unless it was stopped on the way.
TotalsAddUp ==
    \A s \in Orderly : rewinds = 0 /\ ~Busy(s) =>
        /\ \A r \in Last(snapshots[s]) : r.total = Cardinality(snapshots[s])
        /\ \A t \in complete \ stopped : turn[t].session = s => \E r \in snapshots[s] : r.by = t

\* Whatever turns, rollbacks and forks do meanwhile, a session keeps every
\* compaction it ever saved.
CompactionsKept ==
    [][\A s \in Sessions : compactions[s] \subseteq compactions'[s]]_vars

\* The turns of s whose response was ever stored, and whose checkpoint is not pending.
Ever(s) == {t \in complete \cup voided : turn[t].session = s}
Settled(s) == {t \in Ever(s) : turn[t].pc \notin {"answered", "counted"}}

\* The rows of an orderly session by their numbers; they tell its history.
RowAt(rows, n) == CHOOSE r \in rows : r.n = n
Log(s) == IF s \in Orderly THEN [i \in 1 .. CheckpointCount(s) |-> RowAt(checkpoints[s], i - 1)]
                           ELSE <<>>

\* The rows that finishing turns, rollbacks and compactions write, statement by
\* statement, while forks read them and with turns stopped between any two of
\* them, are for each orderly session a history as SessionHistory has it.
Promise == INSTANCE SessionHistory WITH
    log <- [s \in Sessions |-> Log(s)],
    recorded <- [s \in Sessions |-> Settled(s)],
    kept <- compactions,
    lost <- stopped,
    failed <- voided,
    loose <- Sessions \ Orderly
KeepsHistory == Promise!Spec

-----------------------------------------------------------------------------
(* The inductive invariant behind LatestIsNewest, CheckpointsExtend and      *)
(* TotalsAddUp: what the stage of the one running turn of an orderly session *)
(* says about its rows.                                                      *)

Of(s) == {t \in Turns : turn[t].pc # "new" /\ turn[t].session = s}
At(s, stages) == {t \in Of(s) : turn[t].pc \in stages}
Running(s) == {t \in Of(s) : turn[t].pc # "done"}

\* A task is complete from the moment its response is stored, unless it was
\* stopped and marked failed; what a stopped turn left behind is a write.
CompleteInv ==
    /\ voided \subseteq stopped /\ voided \cap complete = {}
    /\ \A t \in Turns :
        /\ turn[t].pc \in {"answered", "counted", "saved", "totalled", "recorded"}
              => t \in complete \cup voided
        /\ t \in complete \cup voided => turn[t].pc \notin {"new", "running"}
        /\ t \in stopped => turn[t].pc \in {"running", "counted", "totalled", "done"}

\* The checkpoints are numbered without a gap, through rollbacks and
\* compactions, so that a turn never replaces the checkpoint of another.
Numbered(s) ==
    /\ \A q, r \in checkpoints[s] : q.n = r.n => q = r
    /\ {r.n : r \in checkpoints[s]} = 0 .. CheckpointCount(s) - 1
    /\ \A t \in At(s, {"counted"}) : turn[t].n = CheckpointCount(s)

\* Each holds turns with a response only, and those of the checkpoints before it
\* that are still complete; the one the running turn is about to save will.
Extending(s) ==
    /\ \A r \in checkpoints[s] : r.msgs \subseteq Ever(s)
    /\ \A q, r \in checkpoints[s] : q.n < r.n => q.msgs \ voided \subseteq r.msgs
    /\ \A t \in At(s, {"running", "answered", "counted"}) :
          /\ turn[t].context \subseteq Ever(s)
          /\ \A r \in checkpoints[s] : r.msgs \ voided \subseteq turn[t].context

\* The last snapshot counts them all, and the turn about to write one numbers it
\* past them; a turn that went its whole way has its own.
Totalled(s) ==
    /\ \A r \in snapshots[s] : r.n < CheckpointCount(s)
    /\ snapshots[s] # {} => Last(snapshots[s]) # {}
    /\ \A r \in Last(snapshots[s]) : r.total = Cardinality(snapshots[s])
    /\ \A t \in At(s, {"saved", "totalled"}) :
          /\ turn[t].n + 1 = CheckpointCount(s)
          /\ \A r \in snapshots[s] : r.n < turn[t].n
    /\ \A t \in At(s, {"totalled"}) : turn[t].prior = Cardinality(snapshots[s])
    /\ \A t \in At(s, {"recorded", "done"}) \cap (complete \ stopped) :
          \E r \in snapshots[s] : r.by = t

SessionInv(s) ==
    /\ \A t, u \in Running(s) : t = u
    /\ Numbered(s)
    /\ {r.by : r \in Last(checkpoints[s])} = newest[s]
    /\ Extending(s)
    /\ rewinds = 0 => Totalled(s)

\* What a turn continues, and what a checkpoint holds, was recorded; a compaction
\* has the session to itself and holds its latest conversation.
Compacting(s) == {k \in Compactions : compact[k].pc \in {"summary", "counted"}
                                        /\ compact[k].session = s}
Latest(s) == UNION {r.msgs : r \in Last(checkpoints[s])}
HistoryInv(s) ==
    /\ \A t \in At(s, {"running", "answered", "counted"}) : turn[t].context \subseteq Settled(s)
    /\ \A r \in checkpoints[s] : r.by \in r.msgs /\ r.msgs \subseteq Settled(s)
    /\ \A k \in Compacting(s) :
          /\ Running(s) = {}
          /\ compact[k].msgs = Latest(s)
          /\ compact[k].pc = "counted" => compact[k].n = CheckpointCount(s)

LedgerInv ==
    /\ TypeOK /\ CompleteInv
    /\ \A s \in Orderly : SessionInv(s) /\ HistoryInv(s)

=============================================================================
