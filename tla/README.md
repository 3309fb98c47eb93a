# smedja: a TLA+ development

smedja is an agent daemon (`bin/smdjad`) with its clients: a terminal interface
(`bin/smedja-tui`), a command line (`bin/smj`) and a GPU terminal (`term/`).
Clients submit *turns* to *sessions*; the daemon runs each turn against a ring of
model providers, lets the model call tools, asks a human before a tool does
something that may need it, and records what happened in SQLite.

This directory holds TLA+ models of the parts of the daemon whose correctness
depends on the order of events, the TLC instances that check them, and TLAPS
proofs of their main properties for every value of the parameters.

## 1. Inventory

| Part | State | Operations | What is hard | What makes it correct |
|---|---|---|---|---|
| Approval gate (`cowork.rs`, `handlers/audit.rs`) | map of pending prompts with their oneshot senders, allow-always flags and notes, session mode, the rules file | gate a call (turn loop, tool batch, PreToolUse hook, ACP, `@shell`), approve, approve always, deny, modify, set mode, time out, drop | several locks per operation, answers racing each other, the timer and cancellation | one resolver per prompt, no call runs that nobody allowed, no prompt outlives its caller |
| Turn lifecycle (`handlers/turn.rs`, `turn_wait.rs`, `bootstrap.rs`, `orchestrator/turn_run.rs`) | task row, work channel, abort registry, run, terminal events | submit, run, rotate, finish, cancel, subscribe, crash, restart | abort at any await while a blocking write goes on, lagging receivers, failing database, process death | an announced outcome agrees with the row, every accepted turn is announced |
| Session ledger (`smedja-ingot`, `handlers/checkpoint.rs`, `handlers/session/lifecycle.rs`) | checkpoints, compactions, token snapshots, complete tasks | finish a turn, rollback, compact, fork, takeover | counting and writing in separate statements, three tables, partial failures, a turn stopped between any two | numbering without gaps, nothing lost, the latest row is the newest |
| Stream server (`stream_server/`) | one bounded event buffer per turn and one for the session, the position of the buffer task and of each connection on the broadcast ring | buffer, evict, retire answered prompts, sweep, remove; subscribe, replay, follow, close | the buffer task, the connections and three timers run at their own pace, and each receiver may lag | an unanswered prompt reaches every client, an answered one does not come back, a stream ends and says "stalled" only when it stalled |
| Gate registry (`cowork.rs`, `handlers/audit.rs`, `handlers/session/`) | gates in memory, `cowork_mode` in the session row | cowork.set, set_mode, get-or-create, fork, takeover, restart | the two copies drift apart | a session that asked for approval has a gate that asks |
| Provider ring (`provider_pool/`, `router.rs`, `smedja-assayer`) | pool snapshot, breakers, routing state | route, rotate, reload | reload during a turn | a turn sees one ring |
| ACP bridge (`acp.rs`) | ACP sessions, SSE streams | prompt, stream, approve | shares the tables but not the worker's channel | as for turns |
| Loop runner (`loop_runner.rs`, `handlers/loops.rs`, `smedja-loop`) | loop record, policy file, `tasks.md`, one checkpoint file per workspace, engines | create, run, resume, cancel, retire; plan, implement, verify, fix, review, checkpoint | several engines on one record and one file, checks that are stale when acted upon, a policy edited in between, statuses and files half written, crash | a slice counted as done passed under the policy named; a loop that says it runs has an engine |
| RPC service and shutdown (`smedja-rpc`, `main.rs`, `bootstrap.rs`) | connections, handler tasks, answers under way, work channel, running turns and loops | accept, read, handle, answer, time out, submit; signal, join, drain, exit, or the error of a listener | handlers that hang, late answers, senders that outlive the server, order of shutdown | each call gets its own answer, a shutdown leaves nothing acknowledged unstarted, the daemon exits |
| Executor and sandbox (`executor/`, `sandbox/`) | none between calls | run a tool | I/O | a tool is checked before it runs |
| Memory, vault, embedders, graph, spec, review, eval, plugins, security, sre | indexes and reports | queries | numeric code, parsing | per-function contracts |
| TUI, `smj`, terminal | views | display, input | rendering | the environment of the models |

How they interact: `turn.submit` writes the task and sends `(session, turn)` to
the worker over an mpsc channel; the run publishes events on a broadcast
channel (`smedja-bellows`) that `turn.subscribe`, the stream server, the agent
server and ACP receive; a tool call of the run suspends on the session's gate
until an RPC request of any client resolves it; a finishing run writes the
ledger, which rollback, compaction and fork rewrite.  `PROJECT.json` lists every
component with its status, and every hazard at its line.

## 2. The modules

| Module | What it models |
|---|---|
| `CoworkGate` | the gate of one session, one action per lock-delimited section |
| `ApprovalPromise` | what the gate promises a caller; `CoworkGate!Promise` is the refinement |
| `CoworkGateProofs` | TLAPS: types, invariant, refinement |
| `TurnLifecycle` | submission, worker, run, cancel, subscription, crash and restart |
| `TurnPromise` | what the lifecycle promises the clients of a turn; `TurnLifecycle!Promise` is the refinement |
| `TurnLifecycleProofs` | TLAPS: types, invariant, outcome properties, accepted turns, refinement |
| `SessionLedger` | the rows finishing turns, rollback, compaction and fork write |
| `SessionHistory` | what the rows promise a session one client drives; `SessionLedger!Promise` is the refinement |
| `SessionLedgerProofs` | TLAPS: invariant, row properties, refinement |
| `DeltaStream` | publishers, the buffer task with its sweeps, and the stream connections |
| `ReplayLog` | what the buffers promise a client that connects late; `DeltaStream!Promise` is the refinement |
| `DeltaStreamProofs` | TLAPS: invariant, prompts, stalls, refinement |
| `LoopEngine` | loop records, policy, checkpoint file, and the engines that drive them |
| `LoopPromise` | what loops promise whoever reads their status or checkpoint; `LoopEngine!Promise` is the refinement |
| `LoopEngineProofs` | TLAPS: invariant, completeness, no stranded loop, refinement |
| `DaemonService` | RPC clients and connections, worker, shutdown |
| `CallPromise` | what the service promises its clients; `DaemonService!Promise` is the refinement |
| `DaemonServiceProofs` | TLAPS: invariant, own answers, shutdown, refinement |
| `...Claims` | a statement of a document or comment that the code does not keep |
| `MC...` | the constants of the TLC instances |

### CoworkGate

`pending`, `always`, `notes` and `mode` are the fields of `CoworkGate`; `rules`
is `.smedja/workspace.toml` as a reader finds it, `draft` what the holder of
`rule_write_lock` is about to write; while it writes, and after a failed write, a
reader finds no rules.  `blind` is history: the calls whose last rule check found
the hand-written rules gone.  A call is also its approval id (a UUID);
`chan` is the value sent on its oneshot, `verdict` and `basis` what the caller
acts on and why, `events` what was broadcast.  The five values of `Path` are the
five ways a tool call reaches the gate, which differ in guards: the single-call
arm (`gate_tool_call`) forces a prompt for high-risk mutations and checks the
rules once more, the batch arm does not gate reads, the hook and ACP enter
directly, `@shell` announces nothing and cannot be modified.

Abstractions: rules and arguments are *scopes* (`Targets`); the segment parser
and glob matcher decide which scope a command is, outside the model.  A rules
file that cannot be read or parsed has no rules, as in `load_permission_rules`.
`cowork.set`, which creates and drops gates, belongs to the registry.

### TurnLifecycle

A run is a program counter (`run`) over the awaits of `run_turn`/`run_inner`.
`io` is its database operation on the blocking pool: `Execute` may happen after
the run was aborted, which is the point.  `told` is the sequence of terminal
events published for a turn, `watch` the subscriptions of `turn.subscribe`,
`hurt` marks turns one of whose database operations failed (the properties
exempt them where the code knowingly swallows the error).  `Crash` loses
everything but `status`, `stored` and what was announced; `Restart` is the
startup sweep of `main.rs`.

A response with one tool call runs it in an await of its own (`tool`), outside the
turn deadline that covers the drain of a stream and a batch of several calls
(`batch`).  Between the stored response and the announcement a finishing run
passes through `records`, the ledger writes; `summarising`, where `maybe_compact`
drains a provider's stream; and `audit` (`RecordsKept`, `Summarised`, `Audited`).
`NoDeadline` names the two stages nothing bounds.

Abstractions: a provider answers, calls tools, or fails; the tool calls of a
response are one await; the ledger writes of a finishing run are one await
(`RecordsKept`), since their errors are swallowed; `SessionLedger` opens them up.

`TurnPromise` sees the row, the stored responses, the announcements and the
subscribers' answers.  A run, its blocking thread, the channel and the abort
registry are hidden: every database write that lands is its `Write`, every event
its `Announce`, and a crash is a stutter, since what it loses is hidden.  A turn
is `cancelled` from the moment `cancel` takes its handle.  The promise is weaker
there, and where the database returned an error, by what the code gives up: a
cancelled run may leave writes behind, an error may part the row from the event.

### SessionLedger

`checkpoints`, `compactions` and `snapshots` are the rows of each session
(compactions are rows with a `compaction_id`); `complete` is the set of tasks
`session_history` replays.  A conversation is the set of turns whose prompts it
holds.  Every statement is one action, since the store runs each under a
connection mutex; only `rollback_session` is a transaction.  A turn goes from its
response (`Respond`) over the number (`Count`), the checkpoint, the totals and the
snapshot to `Finish`.  `Stop` is a cancel or the end of the process at any await of
it: the turn ends there, or leaves behind the write it had handed to the blocking
pool, which is executed at any later moment (`Late`).  `MarkFailed` is what the
cancel does next: it marks the task failed, whatever its status, which takes a
stored response out of the history that `session_history` replays (`voided`).

`newest` is a history variable, `disturbed` counts the overlaps and database errors
a session has met.  A session is *orderly* while that is zero: one client
doing one thing at a time, as the terminal interface enforces.  A cancel does not
make it disorderly; a turn begun while a write of a stopped turn is still pending
does, since the two can interleave.

`SessionHistory` sees for each orderly session the sequence of its checkpoints
(`Log`, the rows by their numbers), the turns whose response was stored, but for the
one that still has its checkpoint to write (`Settled`), and its compactions, and
which turns were stopped or marked failed (`lost`, `failed`).  The statement that
saves the checkpoint is `Record`, the rollback transaction `Rewind`, the save of a
compaction `Compact`; a turn that is stopped between response and checkpoint is
`Lose`; what is read and counted in between is hidden.  A step may make a session disorderly, and takes it out of
the promise with that.

### DeltaStream

The ring is `log`, everything ever published, of which a receiver sees the last
`RingCap` events: `seen` is the position of the buffer task, `at[s]` that of a
connection.  `held`, `lines` and `clipped` are the `DeltaStore`: keys with an
entry, the positions of the events in it, and whether the overflow marker is at
its front.  Since a buffer is pushed at the back with newer events and popped at
the front, the set of positions is its content in order.  `doomed` are the turns
whose removal `cleanup_turn` is scheduled for.  `since`, `taken`, `replay`,
`live` and `skipped` say what a connection was given, and through which path.
An audit (`audits`) publishes heartbeats and a report and no `Started`.

The properties exempt three losses the code accepts, each by a named set: `lost`
(the buffer task lagged, evicted, or had no buffer for the event), `skipped` (the
connection lagged) and the events between `taken` and `since`, which were
published before the connection subscribed and buffered after it replayed.

Abstractions: time is not measured.  A buffer may be of any age whenever a sweep
or a replay looks at it, and an armed timer may fire.  `StallsOnlyUnreported`
needs one fact about time, that a connection takes an event that is there before
its idle timer fires, which is the guard of `Lapse`.  A connection's request line
is assumed to arrive.  The quality snapshot follows a completion once.

### LoopEngine

An engine is one task spawned by `loop.run` or `loop.resume`; `pc` is where its
`drive` is, `stage[e][p]` where the slice at position `p` of its list is.
`policy` stands for the content of `loop.json`, compared by hash; `tasks` for the
pending slices of `tasks.md`; `checkpoint` is the file all engines of the
workspace share, which a crash may leave torn.  `serial` is the
`shared_workspace` argument: the daemon always passes `true`, the engine's other
mode is modelled because the crate offers it.  A request checks the loop in one step and acts in another: `Call` is the check of
`loop.run` and `loop.resume`, `SpawnEngine` what comes of it; `RetireCheck` and
`Retire` are the two halves of `loop.retire`, and `retiring` the loops between them.
`SetStatus` may lose the status, as `set_status` logs an error and goes on;
`unwritten` are the loops whose engines' last status was lost.  `WriteCheckpoint`
leaves the new file, the old one, or a torn one, and a reader may find it half
written while another engine is at work (`HalfWritten`).
`passed` and `edited` are history:
which slice passed under which policy, and whose list was changed while an engine
could use it, after which positions in the old list mean nothing (see
`claim_resume`).

Abstractions: a role, a verification or a review succeeds or fails; a turn of
unknown status counts as a success, as in `run_role`.  A step runs from one agent
turn, verification or file access to the next and includes the statuses written
on the way.  `current_slice`, guides and telemetry are left out.  `loop.run`'s strict validation of the change may always
pass.

`LoopPromise` sees the statuses, which of them were lost, and what is to be retired;
of an engine that it is idle, starting, working or over, the
policy it runs by, its list and what it has done; loading, reloading and comparing
are its `Prepare` and `Refuse`, the roles, attempts and places of the slices are
hidden, a slice that passes is `Do`.  Where slices go one at a time it promises
that all before one are done when it is.  Nothing is promised of a change whose
`tasks.md` was edited while engines could use it.

### DaemonService

`made`, `waiting`, `missed` and `got` are a client's calls; the frames on the way
to a connection are the numbers after `read`, and `outbox` holds the answers in
the writer's channel and in the socket.  `handling` are the handler tasks.
`job` follows what a request started: a turn through the work channel (`queued`,
taken by the worker) or a loop in the shared task set.  `phase` is the main task
from `select!` to its return, which has two ways out: a signal, and the shutdown
after it (`Signal`, `Join`, `Drained`, `Exit`), or an error of `accept`, which `serve`
hands to `result?` (`AcceptFails`): main returns at once, and the runtime drops every
task, queued turns and requests under way included.

Abstractions: frames are well formed and want an answer; the socket and the
writer's channel are unbounded; of a turn only its being queued, running and over
matters here, `TurnLifecycle` opens it up.  `Kind` says what each call is, so that
fairness can speak of calls whose handler ends.

`CallPromise` has a stage for each request in place of sockets, permits, readers,
writers and the channel.  Accepting a connection, admitting it and closing it are
stutters; `Signal` is its `ToEnd`; `Join` its `Close`, at which every request made
was answered and every turn it acknowledged was started; `AcceptFails` its `Break`,
which is possible only before the signal and keeps nothing.

## 3. The runs

| Run | Instance | Question |
|---|---|---|
| `gate_safety` | a high-risk exec call of the turn loop and an `@shell` fragment under an Ask rule, two requests | does the gate keep its safety properties and implement `ApprovalPromise` under all races? |
| `gate_paths` | a batch: a read, a mutation of a read-only role, an edit that may be rewritten onto a denied scope, an exec call on that scope; rules appended; fair | do deny rules hold, and does every prompt end though nobody answers? |
| `turn_life` | one RPC and one ACP submission, two providers, one cancel, one subscriber, one crash, database may fail, a summariser that may hang | do announcement, row and answer agree, is no accepted turn forgotten, does it implement `TurnPromise`? |
| `turn_pair` | two RPC submissions on a channel of capacity 1, the second without provider, one cancel, one crash; fair | is every accepted turn announced that does not hang in an await without a deadline, does every cancelled run stop? |
| `ledger` | three turns, one root session and one fork, one compaction, one rollback, one turn stopped at any await, one trouble | is the record of an orderly session numbered, growing and complete, is it a `SessionHistory`? |
| `stream` | a turn or an audit, one approval of the turn or of the session, one connection, a ring of 4, buffers of 2; fair | do prompts reach clients and answered ones vanish, does `ReplayLog` hold, do streams end and buffers go? |
| `loop` | two engines on one loop of two slices, serial or parallel, three policies, one edit, lost status or crash | is every slice that is counted as done one that passed, does a loop look active without an engine only after a crash or a lost status, do the engines implement `LoopPromise`? |
| `daemon` | two clients with two calls each, one permit, a channel of 1, a handler that hangs, a signal or a failing listener; fair | do answers reach their calls, does shutdown leave nothing behind, does it implement `CallPromise`, does the daemon exit? |
| `claim_*` | see section 5 | is the documented statement true? (each is refuted) |

Bounds.  Two calls and two requests are the smallest instance in which two
answers race for a prompt while another call appends a rule to the same file;
`gate_paths` needs a call for each guard of the batch, and two on the guarded path,
so that one reads the rules file while the other's allow-always truncates it.  One turn with one cancel
and one subscriber meets every pair of actors; a second turn matters only for
the work channel, hence capacity 1 in `turn_pair`.  Two providers and one
rotation give each exit of the ring loop; two tool iterations give "another
iteration" and "the cap".  Three turns are needed for a rollback to be followed
by a turn that could collide with a pruned one.  `Troubles = 1` lets one
session meet one overlap or failure, after which the properties no longer speak
of it: more would only enlarge the part of the state space they ignore.
`Stops = 1` stops one of the three turns at any of its awaits, so that the others
come before and after it.

In `stream`, buffers of two lines overflow with the second delta, so that the
marker, the eviction of a prompt and the unlimited pushes of outcome and
snapshot all occur; a ring of four lets the buffer task and the connection lag,
separately, on a log of at most seven events.  Turns, buffers and connections
share no state but the ring and the session's buffer, so one turn, one approval
and one connection with the session meet every pair; that it holds for more is
proved.  In `loop`, two engines are needed for one to write the checkpoint
another resumes from; two slices for a gap in a parallel run; of the policies one
plans and requires review, one does not review, and one lets the implementer
review itself, which `drive` refuses.  An advisory review behaves like a required
one whose reviewer never fails, and no separated policy of the instance has it.
`MaxTroubles = 1` lets one edit, one lost status or one crash happen, in any state;
to the others an engine that makes no more steps is like one that crashed, and what
they do in combination is in the proofs, which bound none of them.
In `daemon`, one of the clients submits a turn behind a call that hangs and the
other submits one and starts a loop, over one permit and one place in the channel.

Deadlock is disabled except in the gate runs, since every request may be over;
the gate runs check it, as the mode can always be changed.

Symmetry is used for the requests in `gate_safety`, the turns in `ledger` and the
engines in `loop`, none of which checks liveness.

Fairness.  Weak fairness on the steps of each task: tokio polls every task
whose await is ready, the blocking pool runs every closure, timers fire.  For
the gate it includes `Expire`: the prompt timeout is a tokio timer.  For a run
it covers "the provider answers, fails or hits the turn deadline" as one
disjunction, since the drain loop and a batch of tools are bounded by that deadline.
A single tool call and the summariser's stream have no deadline (`turn_run.rs:761`,
`common.rs:285`), hence no fairness, unless the run was aborted (`Bounded`);
`TurnsEnd` exempts a run that stays in one of them.  For streams it
covers the buffer task, each connection as a whole (its timer fires when nothing
is received), the sweeper and the scheduled removals; publishers have none, a
turn may fall silent at any time.  That a connection goes on assumes that its client
reads: a write to a socket nobody empties has no deadline either.  In the daemon it covers the main task and the
connections' reads; strong fairness is used where tasks queue for a place, a
permit of the semaphore and room in the channel, because tokio's queues are
first come, first served while others may take the place in between.  A `slow`
handler has no fairness, nor have turns and loops.  Nothing obliges a human to
answer or a client to submit, cancel, subscribe or leave, and no fairness is
assumed of crashes.

Each property of a passing run has a mutant in `PROJECT.json`: a plausible bug
of the code it maps (a timeout that keeps the entry, a sweeper that takes an
unanswered prompt for a stranded turn, a resume that does not compare the policy
hash, a main task that does not wait for the worker) under which TLC finds the
property violated.  The mutated forms are the definitions commented
"A variant ..." in the modules; no other definition uses them.

## 4. The proofs

All are checked by TLAPS with SMT, Zenon and LS4, from the named assumptions on
the constants only (that functions have their types, bounds are naturals and
capacities positive).  No set of turns, calls, sessions, connections, engines or
clients is assumed finite.

`CoworkGateProofs`

- `TypeCorrect`: `Spec => []TypeOK`.
- `GateInvariant`: `Spec => []GateInv`, types, `PromptInv` and `PolicyInv`.  `EntryInv`
  says that a call in the map has no decision and is suspended, or is about to be
  removed by the guard's task; `StageInv` says for each stage of a call whether it
  is in the map, what was sent and why it was decided; `ResolverInv` says that a
  decision was sent iff a request was told that it sent it.  `OneResolver` alone is
  not inductive: that the second request finds nothing rests on the first having
  removed the entry and on no entry coexisting with a sent decision.  `PolicyInv`
  is about who lets a call pass: `RiskInv` that a high-risk mutation never stands at
  the mode check, `TimeoutInv` where a call can be once its timeout was broadcast,
  `RuleInv` that every stage on the way to an append traces back to a request.
- `ResolvedOnce`, `NoOrphans`, `GrantedByAnswer`: `OneResolver`, `NoOrphanEntry`
  and `AskedRunsOnlyOnAnswer` from the invariant.
- `RiskAsksHuman`, `RulesAreRequested`, `TimeoutsAreFinal`: `HighRiskNeverByMode`,
  `RuleWasRequested` and, for every step, `TimeoutIsFinal`.
- `DenyRulesStand`: `DenyRulesHold`, with appends that complete, fail or are under
  way.  The induction is on `DenyInv`: a call past the rules is in `blind`, or matched
  none that denies.  A check replaces what an earlier one saw, so a call that was
  blind once is judged again when `gate_tool` or the rewrite reads the file anew.
- `GateKeepsPromise`: `Spec => KeepsPromise`.  Inserting the entry is `Ask`, the
  resolve that finds it is `Answer`, the caller's last step is `Grant` or `Refuse`,
  a drop is `Abandon`; every other step is a stutter.  The delicate case is a
  dropped call: `WasAsked` survives the removal of its entry because the guard
  broadcasts what it removes.

`TurnLifecycleProofs`

- `TypeCorrect`: `Spec => []TypeOK`.
- `TurnInvariant`: `Spec => []TurnInv`, types, `RunInv`, `RowForward`, `WatchInv`,
  `RecordInv` and `AcceptInv`.
  `ResponseBehindCompletion` and `SingleOutcome` speak of events; what makes them
  inductive is what each stage of a run knows: which write it awaits (`IoInv`),
  what its success left in the database (`StoredInv`), and, for a run no cancel
  touched, its row and that it has announced nothing yet (`RowInv`).  That a run
  happens only once rests on the queue holding each submission once
  (`QueueInv`); that a cancel's own announcement concerns an aborted run on
  `CancelInv`.  `RowForward` bounds the status by the stage of the run,
  `WatchInv` says what a subscriber has in its receiver and knew before its last
  read; `RecordInv` that what runs or was cancelled has a row, and that a
  completion is the last thing a run announces.
- `OutcomeIsSingle`, `WakeupKept`, `AnswersTrue`: `SingleOutcome`,
  `NoLostWakeup`, `AnswersAgree`.  `CompletionHasResponse` and, for every step,
  `RowsMoveForward` (`ResponseBehindCompletion`, `StatusForward`) are stated on
  their own; no run lists them, since `TurnInv` and the promise imply them.
- `NoneForgotten`: `NoTurnForgotten`, from `AcceptInv`.  What was acknowledged and
  is not announced is in the channel, or with a run that no cancel stopped and
  that is not over, or with the cancel that stopped it.  A handle moves from one to
  the next, so the induction needs that a run ends only after it announced, and
  that a turn still in the channel has no handle a cancel could take (`IdleInv`).
  It is the part of `TurnsEnd` that does not need fairness: somebody always has the
  turn in hand; that they go on is what TLC checks.
- `PromiseKept`: `Spec => KeepsPromise`.  The lemmas `...Promise`, a group of
  actions each, say which step of `TurnPromise` an action is.  The delicate cases are `Execute`, whose write may
  come from a run that was aborted (`IoInv` for the others), the announcements,
  whose conditions are `RowInv` and `RecordInv`, and the subscriber's answer after
  a lag, which is given by the row while the promise asks what the row says then.

`SessionLedgerProofs`

- `LedgerInvariant`: `Spec => []LedgerInv`.  A turn's number is a count, so that
  it is free rests on the numbers being exactly `0 .. count - 1` (`Numbered`), which
  in turn rests on a session's turns not overlapping and on a rollback keeping a
  prefix.  A stopped turn leaves the numbers whole: it saved its checkpoint or it did
  not, and what it left with the blocking pool keeps the session busy (`CompleteInv`).  `Extending` and `Totalled` say the same of the conversations and of the
  snapshots, and what the turn in progress has read of them; `HistoryInv` that
  what a turn continues was recorded, and that a compaction has the session to
  itself, so that what it read is still so when it saves.  All of it is stated
  of orderly sessions, and a step that disturbs a session leaves the others alone.
- `LatestNewest`, `TotalsCount`: `LatestIsNewest`, and `TotalsAddUp`, which says that
  the last total counts the snapshots there are, and that a completed turn has one
  unless it was stopped on the way.
  `CheckpointsGrow` and `CompactionsStay` (`CheckpointsExtend`, and that no step
  touches a saved compaction) are theorems of their own that no run lists; the
  history implies them.  A conversation may shrink by turns marked failed only.
- `HistoryKept`: `Spec => KeepsHistory`.  The promise speaks of a sequence, the
  database of a set of rows with numbers.  `RowsInOrder` says that in an orderly
  session the row of a number is that number's; `AppendRow` that saving the
  checkpoint with the next number appends, `PrefixRows` that pruning the numbers
  above a checkpoint leaves a prefix.  The other steps leave `Log`, `Settled` and
  the compactions of every orderly session as they were.

`DeltaStreamProofs`

- `StreamInvariant`: `Spec => []StreamInv`.  What is not lost and not answered is
  in its buffer (`PromptsHeld`), which needs that a turn asks only after its
  `Started`, the one event that empties a buffer (`PromptsFollowStart`), that every
  line is in the buffer it belongs to (`AtHome`) and that removals concern turns
  with an outcome (`DoomedAreOver`); `Cursors` bounds what a connection was given
  by its positions, `MetOutcome` says that a connection past its outcome is in its
  grace window.
- `PendingReaches`: by induction over the steps of the connection, from
  `PromptsHeld` at the moment of the replay.  `AnsweredGone`, `StallsUnreported`
  likewise.
- `BuffersBounded`: `BufferBounded`, from two facts proved along with it: a buffer
  exceeds its limit by no more than the events met that are pushed without one
  (`SizeInv`), which needs that an eviction makes the room the push takes; and a
  turn has one outcome and one snapshot (`OutcomesOnce`).
- `ReplayKept`: `Spec => KeepsReplay`.  An absorbed event is `Add` to one buffer,
  a resolution is `Answer`, a sweep or a removal `GiveUp`; lag is a stutter of the
  buffers.  The delicate case is eviction: the remaining lines must be the newest
  of the old ones, which rests on `Oldest` being a prefix of the positions.

`LoopEngineProofs`

- `LoopInvariant`: `Spec => []LoopInv`.  `CheckpointSound` is not inductive
  without what the engines hold (`EngineSound`): that what an engine took from the
  file as done was done under the policy it runs by, which `Reload` re-establishes
  by comparing the hashes; that its list is the one of the file unless that was
  edited; and that in serial mode the slices before a started one passed, without
  which a checkpoint written after slice `p` would claim too much.
- `NoLoopStranded`: `NoStrandedLoop`.  Every path of an engine ends with a status
  written, or with the loop in `unwritten`; a retire that comes late may put `retired`
  over an engine's status, which is not active.  `CompletePassed` (`CompleteMeansPassed`) is
  proved with the invariant; no run lists it, as the promise contains it.
- `PromiseKept`: `Spec => KeepsPromise`.  The promise speaks of the engine's own
  list, the checkpoint of the file: `GapfreeDone` leads from `Prefix` and what was
  taken from a checkpoint to the list.  That no ended engine writes a status, and
  that none changes its policy once it works, is a matter of the cases; that a
  report of `complete` is true rests on `EngineSound` at `Finish`.

`DaemonServiceProofs`

- `DaemonInvariant`: `Spec => []DaemonInv`.  `HandledOnce` places each request and
  keeps two answers apart; `InStep` says of a client that never timed out that all
  its earlier calls have returned, so that the one frame under way is the answer
  to the call it waits for.
  `Served` says that a connection closes when all was read of a client that left,
  and that work has begun only for requests that were answered.
- `OwnAnswers` from it, and `NothingIsLeftBehind`: after `Join` no sender is left,
  and only a sender could queue a turn or admit a connection.
- `PromiseKept`: `Spec => KeepsPromise`.  The lemmas
  `...Promised` say which step of `CallPromise` an action is.  That a request is the first of its client in
  its stage is the order of the frames; that a returned answer was nobody's yet is
  `HandledOnce`, that it is the caller's own `InStep`; and that after the signal the
  daemon closes over answered requests only, and that nothing starts after it, rests
  on `NothingLeftBehind`.
- `ShutdownMoves`: `Spec => []ShutdownNeverStuck`, the part of
  `ExitsOnceClientsLeave` that does not need fairness.  The main task waits for the
  worker, the worker for the last sender, a sender for its permit or for room in
  the channel, and a permit for handlers that may wait for that room.  The theorem
  says that no cycle closes: if the channel is full the worker can take, if the
  permits are taken one of their holders can read, answer or close.  No run lists
  it, as it speaks of the states `ExitsOnceClientsLeave` already covers there; the
  theorem says it for every number of clients, permits and places.

Every safety property the passing runs check is proved for all values of the
constants, and every abstract specification is implemented for all of them.  The liveness properties
(`EventuallyDecided`, `EventuallyDismissed`, `TurnsEnd`, `CancelledRunsStop`,
`StreamsClose`, `BuffersReclaimed`, `AnsweredDespiteSlow`,
`ExitsOnceClientsLeave`) rest on fairness and ENABLED, which TLAPS does not
handle here, and are only model-checked.

## 5. Divergences

Refuted by a run:

- `claim_flag_visible` (`cowork.rs:1106`): the loser of two allow-always answers
  takes back the winner's flag before the caller wakes; the rule is lost although
  its client was told `resolved`.
- `claim_acp_prompt` (`acp.rs:421`): a prompt posted over ACP is recorded and
  announced as started, and nothing sends it to the worker.
- `claim_resume` (`engine.rs:95`): the checkpoint counts slices in the list the
  engine read, `loop.resume` applies the count to the list of what is still
  unticked; with its finished slices ticked off, a loop skips as many others and
  reports itself complete.
- `claim_late_answer` (`client.rs:52`): the answer to a call that timed out is
  taken for the answer to the next call on the same client, and every later call
  is one behind.  The terminal interface keeps one client for its whole run.

In the models, without a run of their own (a property that states the document's
sentence fails on them):

- `cowork.rs:599`: `append_allow_rule` truncates the rules file; a gate that reads
  it meanwhile (`AppendOpen`), or after the write failed and left it empty
  (`AppendFail`), finds no rules and the mode decides a call that a
  Deny rule names.  `DenyRulesHold` exempts these calls and no others.
- `handlers/turn.rs:158`: a write the aborted run had handed to the blocking pool
  (`Execute`) lands after the cancel's own `failed`.
- `main.rs:375`: the startup sweep looks for sessions `in_flight`, a status nothing
  writes (`SessionStatus`, `Restart`); tasks of a crashed process stay
  `in_progress`.
- `turn_run.rs:2019`: a turn whose response is stored and whose task is complete is
  announced only after `maybe_compact`, which drains the summariser's stream without
  a deadline (`Summarised`); a provider that falls silent there leaves its turn
  unannounced for ever.  Likewise a single tool call that never returns
  (`turn_run.rs:761`): `test_run` and `review_run` start processes and wait for them
  without one.
- `handlers/turn.rs:162`: a cancel, or the end of the process, while a run records its
  turn (`Stop`) leaves a complete task without a checkpoint, or a checkpoint without
  a snapshot, so that later totals count one turn less; and the cancel marks the task
  failed though its response is stored, so that the next turn does not replay it.
- `docs/smj.md:44`: a rollback deletes checkpoints only; the pruned turns are still
  complete tasks and the next turn replays them.
- `main.rs:864`: the 30 s deadline covers the drain only; before it
  `worker_handle.await` waits for the last sender, which every open connection
  holds, so one idle client keeps the daemon from exiting.
  `ExitsOnceClientsLeave` says what does hold.
- `main.rs:862`: turns and loops are not drained when the listener fails: an error of
  `accept`, a lack of file descriptors for one, ends `serve` and with `result?` the
  daemon (`AcceptFails`), and every turn it acknowledged is dropped.
- `serve.rs:157`: a connection that replays a stale `done` without a snapshot does
  not close at once, as the comment says, but idles for `STREAM_TIMEOUT_SECS` and
  then reports a stall (`Replay` without grace, then `Lapse`).
- `serve.rs:87`: "so we don't miss events" holds for events the buffer task has
  seen; one published before the subscription that it has not yet buffered is
  missed (the exemption `taken < i <= since`).
- `docs/tui.md:89`: `loop.cancel` writes the status of the record; the engine goes
  on and its next status replaces `cancelled`.  Likewise a second engine
  overwrites a terminal status, against `state.rs:49`.
- After a crash a loop keeps the active status its engine wrote last; nothing
  looks at the loops at startup (`NoStrandedLoop` exempts crashes).
- `loop_runner.rs:110`: a status the database refuses is logged and dropped; when it
  is the last one of an engine the loop stays active without one (`unwritten`).
- `handlers/loops.rs:111`: `loop.retire` reads the status and writes `retired` later,
  over whatever an engine that started in between has written; `loop.run` and
  `loop.resume` (`loops.rs:167`, `loops.rs:243`) spawn an engine on a loop that was
  retired after they looked.
- `checkpoint.rs:28` of the engine: the checkpoint is truncated before it is written,
  so a failed write leaves an empty or torn file, and a resume at that moment reads
  half of it and fails.
- `loop_runner.rs:384`: an unreadable `tasks.md` is an empty list, and the loop
  completes at once.

Read from the code while modelling:

- `buffer.rs:88`: `evict_and_push` pops the front before it looks for the marker
  there, so it pops the marker itself: the count it means to increment is always 1,
  and each further overflow costs the marker and a line.
- `buffer.rs:203`: outcome and snapshot are pushed without the limit, so a buffer
  may exceed `MAX_BUFFER_PER_TURN` by two (`BufferBounded`).
- `serve.rs:133`: the replay does not recognise an `audit_report` as an end; a
  client that connects after an audit waits for the idle time-out.
- `wire.rs:257`: `HistoryReplaced` reaches a live client as an empty line.
- `cowork.rs:1011` publishes `CoworkRequest` after it released the lock over the
  entry: a client polling `cowork.pending` can answer before the request is
  broadcast, against the order `event.rs:369` describes; the stream server then
  buffers a prompt that is already answered.
- `cowork.rs:1061` broadcasts a timeout even when a resolution got there first;
  `event.rs:99` describes a timeout as the absence of a decision.
- `cowork.rs:1129` stores the veto note after the resolution, so the woken caller
  may look for it too early.
- `turn_run.rs:1482` reads the mode for the audit trail before the gate: a switch
  in between records a human approval as a bypass, or misses one.
- `acp.rs` hands modified arguments to its client without the rule check of the
  turn loop (`cowork.rs:709`).
- `turn_run.rs:1226`: batched reads are not gated, so rules that name them do not
  apply there (`docs/configuration.md:118` makes no exception).
- `turn_run.rs:1275`: the batch path calls the plain gate where the single-call
  path calls `gate_tool_forced_ask`; `docs/tui.md:102` says of the role `iac` that
  it "always confirms".
- `bootstrap.rs:121` registers the abort handle after the spawn; a run that is
  over by then leaves its handle behind, against `turn_wait.rs:142`, and a later
  cancel marks a complete task failed.
- `turn_run.rs:148`: a turn whose task cannot be loaded is announced as failed
  and its task is not marked so.
- `main.rs:611` calls the channel capacity a bound on in-flight turns; the worker
  empties the channel at once, so it bounds the backlog only.
- `turn_run.rs`: an empty final answer after a rotation is reported as "all
  eligible providers failed".
- The ledger: two turns of one session that overlap take the same number and one
  replaces the other's checkpoint and snapshot; a failed listing gives number 0
  (`turn_run.rs:1999`); a fork keeps its parent's number for its only row, so its
  own turns are numbered below or onto it (`lifecycle.rs:382`, against
  `checkpoint.rs:13`); after a rollback the token totals continue from a
  snapshot of a pruned turn; a checkpoint does not hold the turn's own reply
  (`README.md:293` says "the entire conversation"); the automatic compaction writes no
  checkpoint; `session.compact` answers `compaction_checkpoint_saved: true` even
  when the save failed.

## 6. Not modelled

- The gate registry: which session has a gate in memory, against the
  `cowork_mode` of its row.  `cowork.set`, fork, takeover and restart each insert or
  look up under one lock; the question it raises is listed as a hazard.
- The order of the provider ring, circuit breakers and the reload of the pool:
  sequential functions of configuration and measurements.  A turn takes a snapshot
  of the pool (`bootstrap.rs:94`), so a reload cannot reach a running turn.
- Language servers, MCP servers and provider adapters: external processes whose
  protocols the source answers to but does not determine.  A run sees an answer, a
  failure or silence.
- The agent server and the ACP sessions: connection handling; their answers are
  requests of `CoworkGate`, their events those of `DeltaStream`.
- The executor and the sandbox: each call is checked and run on its own.
- Memory, vault, graph, spec, review, eval, plugins, methodology, security, sre:
  sequential functions over data.
- The terminal interface, `smj` and the terminal emulator: presentation.  What
  they may request, in any order, is the environment of the models.

The modules are not composed into one: they meet in narrow places, each of which
one side models in full and the other as a choice.  A dropped run drops its
suspended call (`Cancel` of the gate at any await), a finishing run writes the
ledger (`RecordsKept`, opened up in `SessionLedger`), a turn's events are
`DeltaStream`'s publishers, a submission is `DaemonService`'s `turn` request.

## 7. Running

    tlc -config gate_safety.cfg MCCoworkGate.tla
    tlc -config turn_life.cfg MCTurnLifecycle.tla
    tlc -config ledger.cfg MCSessionLedger.tla
    tlc -config stream.cfg MCDeltaStream.tla
    tlc -config loop.cfg MCLoopEngine.tla
    tlc -config daemon.cfg MCDaemonService.tla
    tlapm CoworkGateProofs.tla       # and the other ...Proofs modules
