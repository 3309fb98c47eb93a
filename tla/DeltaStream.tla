---------------------------- MODULE DeltaStream ----------------------------
(***************************************************************************)
(* The stream server of the daemon.  Turns publish events on a broadcast   *)
(* ring; a background task copies them into one replay buffer per turn,    *)
(* and one for the session; a connection subscribes to the ring, replays   *)
(* the buffers and then forwards what it receives until the turn is        *)
(* reported.  Every receiver runs at its own pace and may lag.             *)
(*                                                                         *)
(* The ring is the sequence of everything ever published, a receiver a     *)
(* position in it; a receiver more than RingCap behind has lost events.    *)
(* An event is its position in log.  A buffer is pushed at its back with   *)
(* newer events only and popped at its front, so the set of its positions  *)
(* is its content in order; clipped tells that the overflow marker is at   *)
(* its front (the count in the marker is always 1 and is left out).  Time  *)
(* is not measured: a buffer may be of any age whenever its age is looked  *)
(* at, and a timer may fire whenever it is armed.                          *)
(***************************************************************************)
EXTENDS Naturals, Sequences, FiniteSets

CONSTANTS
    Turns,     \* turn ids
    Named,     \* the turns whose Started carries an agent name
    Approvals, \* approval ids
    Session,   \* SESSION_BUFFER_KEY
    Streams,   \* connections
    RingCap,   \* capacity of the broadcast ring (1024)
    MaxBuffer, \* MAX_BUFFER_PER_TURN (8192)
    Permits,   \* connections served at a time (32)
    MaxChunks  \* bound on the deltas, tool events or heartbeats of a turn

Keys == Turns \cup {Session}

ASSUME StreamAssumption ==
    /\ Session \notin Turns
    /\ Named \subseteq Turns
    /\ RingCap \in Nat \ {0}
    /\ MaxBuffer \in Nat \ {0, 1}
    /\ Permits \in Nat \ {0}
    /\ MaxChunks \in Nat

VARIABLES
    audits,   \* the turns that are audits, which publish no Started
    scope,    \* Approvals -> the chat turn that asks, or Session
    log,      \* the events published so far
    phase,    \* how far the publisher of each turn is
    seen,     \* position of the buffer task in log
    held,     \* keys with a buffer
    lines,    \* the events in each buffer
    clipped,  \* buffers with an overflow marker
    doomed,   \* turns with a removal scheduled
    lost,     \* events the buffer task missed, evicted or dropped with a finished turn
    pc,       \* where each connection is
    target,   \* the turn each connection asked for
    since,    \* position of each connection's subscription
    taken,    \* how much was buffered when the connection replayed
    replay,   \* the events each connection replayed
    at,       \* position of each connection's receiver
    live,     \* the events each connection forwarded
    skipped,  \* the events each connection lost to lag
    grace     \* connections waiting for the trailing quality snapshot

given == <<audits, scope>>
bus == <<given, log, phase>>
store == <<held, lines, clipped, doomed, lost>>
conns == <<pc, target, since, taken, replay, at, live, skipped, grace>>
vars == <<bus, seen, store, conns>>

-----------------------------------------------------------------------------
TurnKinds == {"started", "chunk", "heartbeat", "done", "failed", "report", "quality"}
Event == [kind : TurnKinds, of : Turns] \cup [kind : {"request", "resolved"}, of : Approvals]
Terminals == {"done", "failed", "report"}
\* A connection that ends tells its client that the stream stalled, or not.
Ended == {"closed", "stalled"}
Stages == {"new", "subscribed", "live"} \cup Ended

IsEvent(i, kind, x) == i \in 1..Len(log) /\ log[i] = [kind |-> kind, of |-> x]
Published(kind, x) == \E i \in 1..Len(log) : IsEvent(i, kind, x)
IsPrompt(i) == log[i].kind = "request"
\* The buffer an event belongs to.
KeyOf(e) == IF e.kind = "request" THEN scope[e.of] ELSE e.of

Init ==
    /\ audits \in SUBSET Turns
    /\ scope \in [Approvals -> Keys \ audits]
    /\ log = <<>>
    /\ phase = [t \in Turns |-> "new"]
    /\ seen = 0
    /\ held = {}
    /\ lines = [k \in Keys |-> {}]
    /\ clipped = {}
    /\ doomed = {}
    /\ lost = {}
    /\ pc = [s \in Streams |-> "new"]
    /\ target \in [Streams -> Turns]
    /\ since = [s \in Streams |-> 0]
    /\ taken = [s \in Streams |-> 0]
    /\ replay = [s \in Streams |-> {}]
    /\ at = [s \in Streams |-> 0]
    /\ live = [s \in Streams |-> {}]
    /\ skipped = [s \in Streams |-> {}]
    /\ grace = {}

-----------------------------------------------------------------------------
(* Publishers *)

Publish(kind, x) ==
    /\ log' = Append(log, [kind |-> kind, of |-> x])
    /\ UNCHANGED <<given, seen, store, conns>>

ToPhase(t, p) == phase' = [phase EXCEPT ![t] = p]

\* submit publishes Started; an audit begins with its first heartbeat.
Start(t) ==
    /\ phase[t] = "new"
    /\ ToPhase(t, "running")
    /\ IF t \in audits THEN UNCHANGED <<given, log, seen, store, conns>> ELSE Publish("started", t)

\* Deltas, tool events and usage of a chat turn, the heartbeats of an audit.
Chunk(t) ==
    /\ phase[t] = "running"
    /\ Cardinality({i \in 1..Len(log) : log[i].of = t /\ log[i].kind \in {"chunk", "heartbeat"}}) < MaxChunks
    /\ Publish(IF t \in audits THEN "heartbeat" ELSE "chunk", t)
    /\ UNCHANGED phase

\* Completed, AuditReport, or Failed.
Finish(t) ==
    /\ phase[t] = "running"
    /\ \/ /\ Publish(IF t \in audits THEN "report" ELSE "done", t)
          /\ ToPhase(t, IF t \in audits THEN "over" ELSE "done")
       \/ /\ Publish("failed", t)
          /\ ToPhase(t, "over")

\* The post-turn hook publishes the quality snapshot of a completed turn.
Review(t) ==
    /\ phase[t] = "done"
    /\ Publish("quality", t)
    /\ ToPhase(t, "over")

\* The gate publishes a request after it registered it; whoever resolves a
\* registered request publishes that, which may come first.
Prompt(a) ==
    /\ ~Published("request", a)
    /\ scope[a] \in Turns => phase[scope[a]] = "running"
    /\ Publish("request", a)
    /\ UNCHANGED phase

Resolve(a) ==
    /\ ~Published("resolved", a)
    /\ scope[a] \in Turns => phase[scope[a]] # "new"
    /\ Publish("resolved", a)
    /\ UNCHANGED phase

-----------------------------------------------------------------------------
(* The buffer task *)

Oldest(S, n) == {i \in S : Cardinality({j \in S : j < i}) < n}

\* TurnBuffer::touch, then push_back without a limit.
Push(k, i) ==
    /\ held' = held \cup {k}
    /\ lines' = [lines EXCEPT ![k] = @ \cup {i}]
    /\ UNCHANGED <<clipped, lost>>

\* A variant that keeps pushing into a full buffer.
PushUnbounded(k, i) == Push(k, i)

\* A variant that evicts the newest event instead of the oldest.
EvictNewest(k, i) ==
    LET full == Cardinality(lines[k]) + (IF k \in clipped THEN 1 ELSE 0) >= MaxBuffer
        out == IF full THEN lines[k] \ Oldest(lines[k], Cardinality(lines[k]) - 1) ELSE {}
    IN  /\ held' = held \cup {k}
        /\ lines' = [lines EXCEPT ![k] = (@ \ out) \cup {i}]
        /\ clipped' = IF full THEN clipped \cup {k} ELSE clipped
        /\ lost' = lost \cup out

\* The marker is itself at the front: the eviction that finds it pops it and
\* one event, and puts a new one.
EvictAndPush(k, i) ==
    LET full == Cardinality(lines[k]) + (IF k \in clipped THEN 1 ELSE 0) >= MaxBuffer
        out == IF full THEN Oldest(lines[k], IF k \in clipped THEN 1 ELSE 2) ELSE {}
    IN  /\ held' = held \cup {k}
        /\ lines' = [lines EXCEPT ![k] = (@ \ out) \cup {i}]
        /\ clipped' = IF full THEN clipped \cup {k} ELSE clipped
        /\ lost' = lost \cup out

\* Started replaces the buffer; the line is kept if it names an agent.
Open(t, i) ==
    /\ held' = held \cup {t}
    /\ lines' = [lines EXCEPT ![t] = IF t \in Named THEN {i} ELSE {}]
    /\ clipped' = clipped \ {t}
    /\ UNCHANGED lost

\* A variant that retires the request from the session's buffer only.
RetireInSession(a) ==
    /\ lines' = [lines EXCEPT ![Session] = {i \in @ : ~IsEvent(i, "request", a)}]
    /\ UNCHANGED <<held, clipped, lost>>

\* CoworkResolved drops the request from every buffer and touches none.
Retire(a) ==
    /\ lines' = [k \in Keys |-> {i \in lines[k] : ~IsEvent(i, "request", a)}]
    /\ UNCHANGED <<held, clipped, lost>>

\* An event whose turn has no buffer is not kept.
NotBuffered == lost' = lost \cup {seen + 1} /\ UNCHANGED <<held, lines, clipped>>
Buffering(k, A) == IF k \in held THEN A ELSE NotBuffered

\* One event taken from the ring and put where it belongs.
Absorb ==
    /\ seen < Len(log)
    /\ Len(log) - seen <= RingCap
    /\ seen' = seen + 1
    /\ LET e == log[seen + 1]
           k == KeyOf(e)
       IN /\ \/ e.kind = "started" /\ Open(k, seen + 1)
             \/ e.kind = "heartbeat" /\ EvictAndPush(k, seen + 1)
             \/ e.kind = "request" /\ k = Session /\ EvictAndPush(k, seen + 1)
             \/ e.kind = "request" /\ k \in Turns /\ Buffering(k, EvictAndPush(k, seen + 1))
             \/ e.kind = "chunk" /\ Buffering(k, EvictAndPush(k, seen + 1))
             \/ e.kind = "report" /\ Push(k, seen + 1)
             \/ e.kind \in {"done", "failed", "quality"} /\ Buffering(k, Push(k, seen + 1))
             \/ e.kind = "resolved" /\ Retire(e.of)
          /\ doomed' = IF e.kind \in Terminals THEN doomed \cup {k} ELSE doomed
    /\ UNCHANGED <<bus, conns>>

\* RecvError::Lagged: the events that fell off the ring are skipped.
BufferLag ==
    /\ Len(log) - seen > RingCap
    /\ seen' = Len(log) - RingCap
    /\ lost' = lost \cup (seen + 1)..(Len(log) - RingCap)
    /\ UNCHANGED <<bus, held, lines, clipped, doomed, conns>>

Drop(S) ==
    /\ held' = held \ S
    /\ lines' = [k \in Keys |-> IF k \in S THEN {} ELSE lines[k]]
    /\ clipped' = clipped \ S

\* cleanup_turn, DELTA_TTL_SECS after the outcome was buffered.
CleanupTurn(t) ==
    /\ t \in doomed
    /\ Drop({t})
    /\ lost' = lost \cup lines[t]
    /\ doomed' = doomed \ {t}
    /\ UNCHANGED <<bus, seen, conns>>

Prompting(k) == \E i \in lines[k] : IsPrompt(i)

\* A variant that takes an unanswered prompt for a stranded turn.
SweepAll(k) ==
    /\ k \in held \ doomed
    /\ Drop({k})
    /\ UNCHANGED <<bus, seen, doomed, lost, conns>>

\* A variant that keeps the buffer of a turn without an outcome.
SweepSession(k) ==
    /\ k \in held \ Turns
    /\ ~Prompting(k)
    /\ Drop({k})
    /\ UNCHANGED <<bus, seen, doomed, lost, conns>>

\* The sweep of a buffer without activity for STRANDED_TTL_SECS; one that
\* prompts is kept, and one with a removal scheduled is removed before.
Sweep(k) ==
    /\ k \in held \ doomed
    /\ ~Prompting(k)
    /\ Drop({k})
    /\ UNCHANGED <<bus, seen, doomed, lost, conns>>

-----------------------------------------------------------------------------
(* Connections *)

Serving == {s \in Streams : pc[s] \in {"subscribed", "live"}}

\* The connection ends and its task with it.
Close(s, how) ==
    /\ pc' = [pc EXCEPT ![s] = how]
    /\ since' = [since EXCEPT ![s] = 0]
    /\ taken' = [taken EXCEPT ![s] = 0]
    /\ replay' = [replay EXCEPT ![s] = {}]
    /\ at' = [at EXCEPT ![s] = 0]
    /\ live' = [live EXCEPT ![s] = {}]
    /\ skipped' = [skipped EXCEPT ![s] = {}]
    /\ grace' = grace \ {s}

\* A variant that follows the ring from where the buffer task is.
SubscribeAtBuffer(s) ==
    /\ pc[s] = "new"
    /\ Cardinality(Serving) < Permits
    /\ pc' = [pc EXCEPT ![s] = "subscribed"]
    /\ since' = [since EXCEPT ![s] = Len(log)]
    /\ at' = [at EXCEPT ![s] = seen]
    /\ UNCHANGED <<bus, seen, store, target, taken, replay, live, skipped, grace>>

\* The connection's task gets a permit, reads the request line, which the
\* client is assumed to send at once, and subscribes to the ring.
Subscribe(s) ==
    /\ pc[s] = "new"
    /\ Cardinality(Serving) < Permits
    /\ pc' = [pc EXCEPT ![s] = "subscribed"]
    /\ since' = [since EXCEPT ![s] = Len(log)]
    /\ at' = [at EXCEPT ![s] = Len(log)]
    /\ UNCHANGED <<bus, seen, store, target, taken, replay, live, skipped, grace>>

Reports(S, kind) == \E i \in S : log[i].kind = kind

\* The buffers are copied under the lock and replayed.  A failure, or a
\* completion with its snapshot, ends the stream; a completion younger than
\* QUALITY_GRACE_SECS is held open for the snapshot.
Replay(s) ==
    /\ pc[s] = "subscribed"
    /\ LET own == lines[target[s]]
           all == own \cup lines[Session]
           reported == Reports(own, "failed") \/ (Reports(own, "done") /\ Reports(own, "quality"))
       IN  \/ all # {} /\ Close(s, "closed")    \* the client hung up, or all is said
           \/ /\ ~reported
              /\ pc' = [pc EXCEPT ![s] = "live"]
              /\ replay' = [replay EXCEPT ![s] = all]
              /\ taken' = [taken EXCEPT ![s] = seen]
              /\ grace' \in IF Reports(own, "done") THEN {grace, grace \cup {s}} ELSE {grace}
              /\ UNCHANGED <<since, at, live, skipped>>
    /\ UNCHANGED <<bus, seen, store, target>>

\* Whether an event is written to s: its own turn's, every resolution, and
\* the requests of the session.
Concerns(s, e) ==
    \/ e.kind \in TurnKinds /\ e.of = target[s] /\ (e.kind = "started" => e.of \in Named)
    \/ e.kind = "request" /\ scope[e.of] \in {target[s], Session}
    \/ e.kind = "resolved"

Ahead(s) == Len(log) - at[s]

\* A variant that treats done like any other line.
ForwardNoGrace(s) ==
    /\ pc[s] = "live"
    /\ Ahead(s) \in 1..RingCap
    /\ at' = [at EXCEPT ![s] = @ + 1]
    /\ live' = [live EXCEPT ![s] = IF Concerns(s, log[at[s] + 1]) THEN @ \cup {at[s] + 1} ELSE @]
    /\ UNCHANGED <<bus, seen, store, pc, target, since, taken, replay, skipped, grace>>

\* One event received: passed over, or written, which fails once the client
\* hung up.  A snapshot, a failure or a report ends the stream.
Forward(s) ==
    /\ pc[s] = "live"
    /\ Ahead(s) \in 1..RingCap
    /\ LET e == log[at[s] + 1]
           last == e.kind \in {"quality", "failed", "report"}
       IN  \/ Concerns(s, e) /\ Close(s, "closed") \* the client hung up, or all is said
           \/ /\ ~(Concerns(s, e) /\ last)
              /\ at' = [at EXCEPT ![s] = @ + 1]
              /\ live' = [live EXCEPT ![s] = IF Concerns(s, e) THEN @ \cup {at[s] + 1} ELSE @]
              /\ grace' = IF Concerns(s, e) /\ e.kind = "done" THEN grace \cup {s} ELSE grace
              /\ UNCHANGED <<pc, since, taken, replay, skipped>>
    /\ UNCHANGED <<bus, seen, store, target>>

Lag(s) ==
    /\ pc[s] = "live"
    /\ Ahead(s) > RingCap
    /\ at' = [at EXCEPT ![s] = Len(log) - RingCap]
    /\ skipped' = [skipped EXCEPT ![s] = @ \cup (at[s] + 1)..(Len(log) - RingCap)]
    /\ UNCHANGED <<bus, seen, store, pc, target, since, taken, replay, live, grace>>

\* A variant without the idle timeout.
LapseInGrace(s) ==
    /\ pc[s] = "live" /\ s \in grace
    /\ Ahead(s) = 0
    /\ Close(s, "closed")
    /\ UNCHANGED <<bus, seen, store, target>>

\* Nothing was received for STREAM_TIMEOUT_SECS, or until the grace window
\* closed: a received event would have been taken first.
Lapse(s) ==
    /\ pc[s] = "live"
    /\ Ahead(s) = 0
    /\ Close(s, IF s \in grace THEN "closed" ELSE "stalled")
    /\ UNCHANGED <<bus, seen, store, target>>

-----------------------------------------------------------------------------
BufferStep == Absorb \/ BufferLag
Serve(s) == Subscribe(s) \/ Replay(s) \/ Forward(s) \/ Lag(s) \/ Lapse(s)

Next ==
    \/ \E t \in Turns : Start(t) \/ Chunk(t) \/ Finish(t) \/ Review(t) \/ CleanupTurn(t)
    \/ \E a \in Approvals : Prompt(a) \/ Resolve(a)
    \/ BufferStep
    \/ \E k \in Keys : Sweep(k)
    \/ \E s \in Streams : Serve(s)

\* The runtime polls every ready task and fires every timer; a client sends
\* its request line or hangs up.  Publishers promise nothing: a turn may fall
\* silent at any time.
Fairness ==
    /\ WF_vars(BufferStep)
    /\ \A t \in Turns : WF_vars(CleanupTurn(t))
    /\ \A k \in Keys : WF_vars(Sweep(k))
    /\ \A s \in Streams : WF_vars(Serve(s))

Spec == Init /\ [][Next]_vars /\ Fairness

-----------------------------------------------------------------------------
(* Properties *)

Positions == 1..Len(log)

TypeOK ==
    /\ audits \subseteq Turns
    /\ scope \in [Approvals -> Keys \ audits]
    /\ log \in Seq(Event)
    /\ phase \in [Turns -> {"new", "running", "done", "over"}]
    /\ seen \in 0..Len(log)
    /\ held \subseteq Keys /\ clipped \subseteq held
    /\ lines \in [Keys -> SUBSET (1..seen)]
    /\ doomed \subseteq Turns
    /\ lost \subseteq 1..seen
    /\ pc \in [Streams -> Stages]
    /\ target \in [Streams -> Turns]
    /\ since \in [Streams -> 0..Len(log)] /\ at \in [Streams -> 0..Len(log)]
    /\ taken \in [Streams -> 0..seen]
    /\ replay \in [Streams -> SUBSET (1..seen)]
    /\ live \in [Streams -> SUBSET Positions] /\ skipped \in [Streams -> SUBSET Positions]
    /\ grace \subseteq Streams

\* Request i was not answered among the events i+1..n.
Unanswered(i, n) == ~\E j \in (i + 1)..n : IsEvent(j, "resolved", log[i].of)

\* A stream connection replays the pending approvals: a prompt that concerns
\* it and that nobody answered yet has reached it, by replay or live, whatever
\* the sweeper and the timers did meanwhile.  Exempt are what the buffer task
\* lost to lag, overflow or the end of the turn, what the connection lost to
\* its own lag, and what was published before it subscribed and buffered only
\* after it replayed.
PendingReachesStream ==
    \A s \in Streams : pc[s] = "live" =>
        \A i \in 1..at[s] :
            \/ log[i].kind # "request" \/ ~Concerns(s, log[i])
            \/ ~Unanswered(i, at[s]) \/ ~Unanswered(i, taken[s])
            \/ i \in lost \cup skipped[s]
            \/ taken[s] < i /\ i <= since[s]
            \/ i \in replay[s] \cup live[s]

\* A reconnecting client no longer replays an answered approval: no buffer
\* holds a prompt whose resolution followed it and was seen by the buffer
\* task, unless it missed the resolution.
AnsweredNotReplayed ==
    \A k \in Keys : \A i \in lines[k] :
        IsPrompt(i) => \A j \in (i + 1)..seen :
            IsEvent(j, "resolved", log[i].of) => j \in lost

\* Nothing is delivered twice except what was published after the connection
\* subscribed and buffered before it replayed.
NoLineTwice ==
    \A s \in Streams : replay[s] \cap live[s] \subseteq (since[s] + 1)..taken[s]

\* A connection tells its client that the stream stalled only if no outcome of
\* its turn was published since it subscribed, or it lost it to lag.
StallsOnlyUnreported ==
    [][\A s \in Streams : pc[s] = "live" /\ pc'[s] = "stalled" =>
        \A i \in (since[s] + 1)..Len(log) :
            log[i].of = target[s] /\ log[i].kind \in Terminals => i \in skipped[s]]_vars

\* A buffer exceeds its limit by no more than the lines pushed without a
\* limit: an outcome and the snapshot after it.
BufferBounded ==
    \A k \in Keys : Cardinality(lines[k]) + (IF k \in clipped THEN 1 ELSE 0) <= MaxBuffer + 2

\* A prompt that was seen, is not answered and was not lost is in its buffer.
PromptsHeld ==
    \A i \in 1..seen : IsPrompt(i) /\ Unanswered(i, seen) /\ i \notin lost => i \in lines[scope[log[i].of]]

\* A turn asks after its Started only.
PromptsFollowStart ==
    \A t \in Turns, i \in Positions : IsPrompt(i) /\ scope[log[i].of] = t =>
        /\ phase[t] # "new"
        /\ \A j \in (i + 1)..Len(log) : ~IsEvent(j, "started", t)

\* What a connection knows is between its subscription and its position.
Cursors ==
    \A s \in Streams :
        /\ pc[s] = "subscribed" => at[s] = since[s]
        /\ pc[s] = "live" =>
            /\ since[s] <= at[s]
            /\ replay[s] \subseteq 1..taken[s]
            /\ live[s] \subseteq (since[s] + 1)..at[s]
        /\ pc[s] # "live" => replay[s] = {} /\ live[s] = {}

\* A connection that met the outcome of its turn and is still open waits for
\* the snapshot only.
MetOutcome ==
    \A s \in Streams : pc[s] = "live" /\ s \notin grace =>
        \A i \in (since[s] + 1)..at[s] :
            log[i].of = target[s] /\ log[i].kind \in Terminals => i \in skipped[s]

\* The turns whose outcome the buffer task has met, lost or not.
Over == {k \in Keys : \E i \in 1..seen : log[i].kind \in Terminals /\ log[i].of = k}

\* A removal is scheduled for turns with an outcome only.
DoomedAreOver == doomed \subseteq Over

\* Every line is in the buffer it belongs to.
AtHome == \A k \in Keys : \A i \in lines[k] : log[i].kind # "resolved" /\ KeyOf(log[i]) = k

\* The inductive invariant behind the proofs: types, no line delivered twice
\* but in the window between subscription and replay, and the bookkeeping
\* that the properties above rest on.
StreamInv ==
    /\ TypeOK
    /\ NoLineTwice
    /\ PromptsHeld
    /\ PromptsFollowStart
    /\ Cursors
    /\ MetOutcome
    /\ DoomedAreOver
    /\ AtHome

\* The buffers implement the promise of ReplayLog to late clients.
Promise == INSTANCE ReplayLog WITH kept <- lines, prompts <- {i \in Positions : IsPrompt(i)}, over <- Over
KeepsReplay == Promise!Spec

\* Every connection is served and ends.
StreamsClose == \A s \in Streams : <>(pc[s] \in Ended)

\* No buffer stays for ever, except for a prompt whose answer did not follow
\* it or was missed: a turn that panicked leaks nothing.
BuffersReclaimed ==
    \A k \in Keys : <>[](k \in held =>
        \E i \in lines[k] : IsPrompt(i) /\ \A j \in (i + 1)..Len(log) :
            IsEvent(j, "resolved", log[i].of) => j \in lost)

=============================================================================
