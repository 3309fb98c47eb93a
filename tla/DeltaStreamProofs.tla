------------------------- MODULE DeltaStreamProofs -------------------------
(***************************************************************************)
(* Proofs about DeltaStream: the inductive invariant, that an unanswered   *)
(* prompt reaches every stream and an answered one is not replayed, that a *)
(* stream stalls only while its turn is unreported, that the buffers stay  *)
(* bounded, and that they implement ReplayLog.                             *)
(***************************************************************************)
EXTENDS DeltaStream, SequenceTheorems, FiniteSetTheorems, WellFoundedInduction, TLAPS

\* The log only grows.
LogKept ==
    /\ log' \in Seq(Event)
    /\ Len(log) <= Len(log')
    /\ \A i \in 1..Len(log) : log'[i] = log[i]

\* What an event may be.
LEMMA EventFacts ==
    ASSUME NEW e \in Event
    PROVE  /\ e.kind \in TurnKinds => e.of \in Turns
           /\ e.kind \notin TurnKinds => e.kind \in {"request", "resolved"} /\ e.of \in Approvals
BY DEF Event, TurnKinds

\* The published events are events.
LEMMA LogFacts ==
    ASSUME TypeOK
    PROVE  /\ Len(log) \in Nat
           /\ \A i \in 1..Len(log) : log[i] \in Event
BY ElementOfSeq, LenProperties DEF TypeOK

\* Publishing appends one event.
LEMMA PublishKept ==
    ASSUME TypeOK, NEW kind, NEW x, [kind |-> kind, of |-> x] \in Event, Publish(kind, x)
    PROVE  /\ LogKept
           /\ Len(log') = Len(log) + 1
           /\ log'[Len(log) + 1] = [kind |-> kind, of |-> x]
<1>1. log \in Seq(Event)
    BY DEF TypeOK
<1> QED
    BY <1>1, AppendProperties, LenProperties DEF Publish, LogKept

\* Every step only adds to the log.
PublisherStep ==
    \/ \E t \in Turns : Start(t) \/ Chunk(t) \/ Finish(t) \/ Review(t)
    \/ \E a \in Approvals : Prompt(a) \/ Resolve(a)

LEMMA PublisherKept ==
    ASSUME TypeOK, PublisherStep
    PROVE  LogKept /\ UNCHANGED <<given, seen, store, conns>>
<1>1. ASSUME NEW t \in Turns, Start(t) \/ Chunk(t) \/ Finish(t) \/ Review(t)
      PROVE  LogKept /\ UNCHANGED <<given, seen, store, conns>>
    <2>1. \A kind \in TurnKinds : [kind |-> kind, of |-> t] \in Event
        BY DEF Event
    <2>2. CASE UNCHANGED <<given, log, seen, store, conns>>
        BY <2>2, LogFacts DEF LogKept, TypeOK
    <2>3. ASSUME NEW kind \in TurnKinds, Publish(kind, t) PROVE LogKept /\ UNCHANGED <<given, seen, store, conns>>
        BY <2>1, <2>3, PublishKept DEF Publish
    <2> QED
        BY <1>1, <2>2, <2>3 DEF Start, Chunk, Finish, Review, TurnKinds
<1>2. ASSUME NEW a \in Approvals, Prompt(a) \/ Resolve(a)
      PROVE  LogKept /\ UNCHANGED <<given, seen, store, conns>>
    <2>1. \A kind \in {"request", "resolved"} : [kind |-> kind, of |-> a] \in Event
        BY DEF Event
    <2>2. ASSUME NEW kind \in {"request", "resolved"}, Publish(kind, a)
          PROVE  LogKept /\ UNCHANGED <<given, seen, store, conns>>
        BY <2>1, <2>2, PublishKept DEF Publish
    <2> QED
        BY <1>2, <2>2 DEF Prompt, Resolve
<1> QED
    BY <1>1, <1>2 DEF PublisherStep

-----------------------------------------------------------------------------
(* Buffers *)

\* The oldest of a finite set of numbers precede the rest.
LEMMA OldestPrecede ==
    ASSUME NEW S, NEW m \in Nat, S \subseteq 1..m, NEW n \in Nat,
           NEW i \in Oldest(S, n), NEW j \in S \ Oldest(S, n)
    PROVE  i < j
<1>1. SUFFICES ASSUME j <= i PROVE FALSE
    BY DEF Oldest
<1> DEFINE I == {x \in S : x < i}
           J == {x \in S : x < j}
<1>0. i \in 1..m /\ j \in 1..m
    BY DEF Oldest
<1>2. J \subseteq I /\ I \subseteq 1..m
    <2>1. ASSUME NEW x \in S, x < j PROVE x < i
        BY <1>0, <1>1, <2>1
    <2> QED
        BY <2>1
<1>3. IsFiniteSet(I)
    <2>1. IsFiniteSet(1..m)
        BY FS_Interval
    <2> QED
        BY <1>2, <2>1, FS_Subset
<1>4. Cardinality(J) <= Cardinality(I) /\ Cardinality(J) \in Nat /\ Cardinality(I) \in Nat
    BY <1>2, <1>3, FS_Subset, FS_CardinalityType
<1>5. Cardinality(I) < n /\ ~(Cardinality(J) < n)
    BY DEF Oldest
<1> HIDE DEF I, J
<1> QED
    BY <1>4, <1>5

\* The event at position i, for buffer k, is buffered after some of the oldest
\* were evicted, or is lost.
Buffered(k, i) ==
    \/ \E out \in SUBSET lines[k] :
         /\ lines' = [lines EXCEPT ![k] = (@ \ out) \cup {i}]
         /\ \A x \in out : \A y \in lines[k] \ out : x < y
         /\ lost' = lost \cup out
         /\ held' = held \cup {k}
         /\ clipped' \in {clipped, clipped \cup {k}}
    \/ lost' = lost \cup {i} /\ UNCHANGED <<lines, held, clipped>>

\* Pushing does that, with or without a limit.
LEMMA PushBuffers ==
    ASSUME TypeOK, NEW k \in Keys, NEW i, Push(k, i) \/ EvictAndPush(k, i)
    PROVE  Buffered(k, i)
<1>1. CASE Push(k, i)
    <2> DEFINE out == {}
    <2>1. /\ out \in SUBSET lines[k]
          /\ lines' = [lines EXCEPT ![k] = (@ \ out) \cup {i}]
          /\ \A x \in out : \A y \in lines[k] \ out : x < y
          /\ lost' = lost \cup out
          /\ held' = held \cup {k}
          /\ clipped' \in {clipped, clipped \cup {k}}
        BY <1>1 DEF Push
    <2> HIDE DEF out
    <2> QED
        BY <2>1 DEF Buffered
<1>2. CASE EvictAndPush(k, i)
    <2> DEFINE full == Cardinality(lines[k]) + (IF k \in clipped THEN 1 ELSE 0) >= MaxBuffer
               out == IF full THEN Oldest(lines[k], IF k \in clipped THEN 1 ELSE 2) ELSE {}
    <2>1. out \in SUBSET lines[k]
        BY DEF Oldest
    <2>2. ASSUME NEW x \in out, NEW y \in lines[k] \ out PROVE x < y
        <3>1. lines[k] \subseteq 1..seen /\ seen \in Nat
            BY LogFacts DEF TypeOK
        <3> QED
            BY <2>2, <3>1, OldestPrecede
    <2>3. /\ lines' = [lines EXCEPT ![k] = (@ \ out) \cup {i}]
          /\ lost' = lost \cup out
          /\ held' = held \cup {k}
          /\ clipped' \in {clipped, clipped \cup {k}}
        BY <1>2 DEF EvictAndPush
    <2> HIDE DEF out
    <2> QED
        BY <2>1, <2>2, <2>3 DEF Buffered
<1> QED
    BY <1>1, <1>2

\* What the buffer task does with the event after seen.
LEMMA AbsorbCases ==
    ASSUME TypeOK, Absorb
    PROVE  LET e == log[seen + 1] IN
           /\ e \in Event /\ seen' = seen + 1 /\ seen + 1 \in 1..Len(log)
           /\ UNCHANGED <<bus, conns>>
           /\ doomed' = IF e.kind \in Terminals THEN doomed \cup {e.of} ELSE doomed
           /\ \/ e.kind = "started" /\ Open(e.of, seen + 1)
              \/ e.kind = "resolved" /\ Retire(e.of)
              \/ e.kind \notin {"started", "resolved"} /\ Buffered(KeyOf(e), seen + 1)
<1> DEFINE e == log[seen + 1]
<1>1. seen + 1 \in 1..Len(log) /\ e \in Event
    BY LogFacts DEF Absorb, TypeOK
<1>2. e.kind # "resolved" => KeyOf(e) \in Keys
    BY <1>1, EventFacts DEF KeyOf, Keys, TurnKinds, TypeOK
<1>3. e.kind # "request" => KeyOf(e) = e.of
    BY DEF KeyOf
<1>4. ASSUME e.kind \notin {"started", "resolved"},
             Push(KeyOf(e), seen + 1) \/ EvictAndPush(KeyOf(e), seen + 1) \/ NotBuffered
      PROVE  Buffered(KeyOf(e), seen + 1)
    BY <1>2, <1>4, PushBuffers DEF NotBuffered, Buffered
<1> QED
    BY <1>1, <1>3, <1>4 DEF Absorb, Buffering, Terminals

-----------------------------------------------------------------------------
(* Types *)

KeeperStep == Absorb \/ BufferLag \/ (\E t \in Turns : CleanupTurn(t)) \/ (\E k \in Keys : Sweep(k))

\* A publisher's step preserves the types.
LEMMA PublisherType ==
    ASSUME TypeOK, PublisherStep PROVE TypeOK'
<1>1. LogKept /\ UNCHANGED <<given, seen, store, conns>>
    BY PublisherKept
<1>2. phase' \in [Turns -> {"new", "running", "done", "over"}]
    BY DEF PublisherStep, Start, Chunk, Finish, Review, Prompt, Resolve, ToPhase, TypeOK
<1>3. Len(log) \in Nat /\ Len(log') \in Nat /\ Len(log) <= Len(log')
    BY <1>1, LenProperties DEF LogKept, TypeOK
<1>4. \A n \in 0..Len(log) : n \in 0..Len(log')
    BY <1>3
<1>5. 1..Len(log) \subseteq 1..Len(log')
    BY <1>3
<1>6. seen' \in 0..Len(log') /\ log' \in Seq(Event)
    BY <1>1, <1>4 DEF LogKept, TypeOK
<1>7. since' \in [Streams -> 0..Len(log')] /\ at' \in [Streams -> 0..Len(log')]
    BY <1>1, <1>4 DEF conns, TypeOK
<1>8. live' \in [Streams -> SUBSET Positions'] /\ skipped' \in [Streams -> SUBSET Positions']
    BY <1>1, <1>5 DEF conns, TypeOK, Positions
<1> QED
    BY <1>1, <1>2, <1>6, <1>7, <1>8 DEF TypeOK, given, store, conns

\* What a step of the buffer task or its sweeper leaves alone, and how the rest grows.
LEMMA KeeperGrows ==
    ASSUME TypeOK, KeeperStep
    PROVE  /\ UNCHANGED <<bus, conns>>
           /\ seen' \in seen..Len(log)
           /\ lost \subseteq lost' /\ lost' \subseteq 1..seen'
           /\ lines' \in [Keys -> SUBSET (1..seen')]
           /\ held' \subseteq Keys /\ clipped' \subseteq held'
           /\ doomed' \subseteq Turns
<1>0. /\ seen \in Nat /\ seen <= Len(log) /\ Len(log) \in Nat
      /\ \A k \in Keys : lines[k] \subseteq 1..seen
    BY LogFacts DEF TypeOK
<1>1. CASE Absorb
    <2> DEFINE e == log[seen + 1]
    <2>1. /\ e \in Event /\ seen' = seen + 1 /\ seen + 1 <= Len(log)
          /\ UNCHANGED <<bus, conns>>
          /\ doomed' = IF e.kind \in Terminals THEN doomed \cup {e.of} ELSE doomed
          /\ \/ e.kind = "started" /\ Open(e.of, seen + 1)
             \/ e.kind = "resolved" /\ Retire(e.of)
             \/ e.kind \notin {"started", "resolved"} /\ Buffered(KeyOf(e), seen + 1)
        BY <1>0, <1>1, AbsorbCases
    <2>2. /\ e.kind \in Terminals \cup {"started"} => e.of \in Turns
          /\ e.kind # "resolved" => KeyOf(e) \in Keys
        BY <2>1, EventFacts DEF KeyOf, Keys, TurnKinds, Terminals, TypeOK
    <2>3. 1..seen \subseteq 1..(seen + 1) /\ seen + 1 \in 1..(seen + 1) /\ seen + 1 \in seen..Len(log)
        BY <1>0, <2>1
    <2> HIDE DEF e
    <2>4. doomed' \subseteq Turns
        BY <2>1, <2>2 DEF TypeOK
    <2>5. CASE e.kind = "started" /\ Open(e.of, seen + 1)
        <3>1. lines' \in [Keys -> SUBSET (1..seen')]
            BY <1>0, <2>1, <2>3, <2>5 DEF Open, TypeOK
        <3>2. held' \subseteq Keys /\ clipped' \subseteq held' /\ lost' = lost
            BY <2>2, <2>5 DEF Open, TypeOK, Keys
        <3> QED
            BY <2>1, <2>3, <2>4, <3>1, <3>2 DEF TypeOK
    <2>6. CASE e.kind = "resolved" /\ Retire(e.of)
        <3>1. lines' \in [Keys -> SUBSET (1..seen')]
            BY <1>0, <2>1, <2>3, <2>6 DEF Retire
        <3> QED
            BY <2>1, <2>3, <2>4, <2>6, <3>1 DEF Retire, TypeOK
    <2>7. CASE e.kind # "resolved" /\ Buffered(KeyOf(e), seen + 1)
        <3> DEFINE k == KeyOf(e)
        <3>1. k \in Keys
            BY <2>2, <2>7
        <3> HIDE DEF k
        <3>2. CASE lost' = lost \cup {seen + 1} /\ UNCHANGED <<lines, held, clipped>>
            <4>1. lines' \in [Keys -> SUBSET (1..seen')]
                BY <1>0, <2>1, <2>3, <3>2 DEF TypeOK
            <4> QED
                BY <2>1, <2>3, <2>4, <3>2, <4>1 DEF TypeOK
        <3>3. ASSUME NEW out \in SUBSET lines[k],
                     lines' = [lines EXCEPT ![k] = (@ \ out) \cup {seen + 1}],
                     lost' = lost \cup out, held' = held \cup {k}, clipped' \in {clipped, clipped \cup {k}}
              PROVE  /\ lost \subseteq lost' /\ lost' \subseteq 1..seen'
                     /\ lines' \in [Keys -> SUBSET (1..seen')]
                     /\ held' \subseteq Keys /\ clipped' \subseteq held'
            <4>1. lines' \in [Keys -> SUBSET (1..seen')]
                BY <1>0, <2>1, <2>3, <3>1, <3>3 DEF TypeOK
            <4>2. lost' \subseteq 1..seen'
                BY <1>0, <2>1, <2>3, <3>1, <3>3 DEF TypeOK
            <4> QED
                BY <3>1, <3>3, <4>1, <4>2 DEF TypeOK
        <3>4. Buffered(k, seen + 1)
            BY <2>7 DEF k
        <3> QED
            BY <2>1, <2>3, <2>4, <3>2, <3>3, <3>4 DEF Buffered
    <2> QED
        BY <2>1, <2>5, <2>6, <2>7
<1>2. CASE BufferLag
    <2>1. /\ seen' = Len(log) - RingCap /\ seen < seen' /\ seen' <= Len(log) /\ seen' \in Nat
          /\ lost' = lost \cup (seen + 1)..seen'
          /\ UNCHANGED <<bus, held, lines, clipped, doomed, conns>>
        BY <1>0, <1>2, StreamAssumption DEF BufferLag
    <2>2. 1..seen \subseteq 1..seen' /\ (seen + 1)..seen' \subseteq 1..seen' /\ seen' \in seen..Len(log)
        BY <1>0, <2>1
    <2>3. lines' \in [Keys -> SUBSET (1..seen')]
        BY <1>0, <2>1, <2>2 DEF TypeOK
    <2> QED
        BY <2>1, <2>2, <2>3 DEF TypeOK
<1>3. ASSUME NEW t \in Turns, CleanupTurn(t)
      PROVE  /\ UNCHANGED <<bus, conns>>
             /\ seen' \in seen..Len(log)
             /\ lost \subseteq lost' /\ lost' \subseteq 1..seen'
             /\ lines' \in [Keys -> SUBSET (1..seen')]
             /\ held' \subseteq Keys /\ clipped' \subseteq held'
             /\ doomed' \subseteq Turns
    <2>1. t \in Keys /\ lines[t] \subseteq 1..seen
        BY <1>0 DEF Keys
    <2>2. lines' \in [Keys -> SUBSET (1..seen)]
        BY <1>0, <1>3 DEF CleanupTurn, Drop
    <2>3. lost' \subseteq 1..seen /\ lost \subseteq lost'
        BY <1>3, <2>1 DEF CleanupTurn, TypeOK
    <2>4. held' \subseteq Keys /\ clipped' \subseteq held' /\ doomed' \subseteq Turns
        BY <1>3 DEF CleanupTurn, Drop, TypeOK
    <2>5. seen' = seen /\ UNCHANGED <<bus, conns>> /\ seen' \in seen..Len(log)
        BY <1>0, <1>3 DEF CleanupTurn
    <2> QED
        BY <2>2, <2>3, <2>4, <2>5
<1>4. ASSUME NEW k \in Keys, Sweep(k)
      PROVE  /\ UNCHANGED <<bus, conns>>
             /\ seen' \in seen..Len(log)
             /\ lost \subseteq lost' /\ lost' \subseteq 1..seen'
             /\ lines' \in [Keys -> SUBSET (1..seen')]
             /\ held' \subseteq Keys /\ clipped' \subseteq held'
             /\ doomed' \subseteq Turns
    BY <1>0, <1>4 DEF Sweep, Drop, TypeOK
<1> QED
    BY <1>1, <1>2, <1>3, <1>4 DEF KeeperStep

\* A step of the buffer task or its sweeper preserves the types.
LEMMA KeeperType ==
    ASSUME TypeOK, KeeperStep PROVE TypeOK'
<1>1. /\ UNCHANGED <<bus, conns>>
      /\ seen' \in seen..Len(log)
      /\ lost' \subseteq 1..seen'
      /\ lines' \in [Keys -> SUBSET (1..seen')]
      /\ held' \subseteq Keys /\ clipped' \subseteq held'
      /\ doomed' \subseteq Turns
    BY KeeperGrows
<1>2. seen' \in 0..Len(log) /\ seen <= seen' /\ seen \in Nat /\ seen' \in Nat
    BY <1>1, LogFacts DEF TypeOK
<1>3. taken' \in [Streams -> 0..seen'] /\ replay' \in [Streams -> SUBSET (1..seen')]
    <2>1. 1..seen \subseteq 1..seen' /\ 0..seen \subseteq 0..seen'
        BY <1>2
    <2> QED
        BY <1>1, <2>1 DEF conns, TypeOK
<1> QED
    BY <1>1, <1>2, <1>3 DEF bus, given, conns, TypeOK, Positions

\* A step of a connection preserves the types.
LEMMA ServeType ==
    ASSUME TypeOK, NEW s \in Streams, Serve(s) PROVE TypeOK'
<1>0. Len(log) \in Nat /\ seen \in 0..Len(log) /\ Len(log) \in 0..Len(log)
    BY LogFacts DEF TypeOK
<1> USE DEF Stages, Ended
<1>1. CASE Subscribe(s)
    BY <1>0, <1>1 DEF Subscribe, TypeOK, bus, given, store, Positions
<1>2. ASSUME NEW how \in {"closed", "stalled"}, Close(s, how), UNCHANGED <<bus, seen, store, target>>
      PROVE  TypeOK'
    BY <1>0, <1>2 DEF Close, TypeOK, bus, given, store, Positions
<1>3. CASE Replay(s) /\ pc'[s] = "live"
    <2>1. lines[target[s]] \cup lines[Session] \subseteq 1..seen
        BY DEF TypeOK, Keys
    <2>2. /\ replay' = [replay EXCEPT ![s] = lines[target[s]] \cup lines[Session]]
          /\ taken' = [taken EXCEPT ![s] = seen]
          /\ pc' = [pc EXCEPT ![s] = "live"]
          /\ grace' \subseteq Streams
          /\ UNCHANGED <<since, at, live, skipped>>
          /\ UNCHANGED <<bus, seen, store, target>>
        BY <1>3 DEF Replay, Close, TypeOK
    <2> QED
        BY <1>0, <2>1, <2>2 DEF TypeOK, bus, given, store, Positions
<1>4. CASE Forward(s) /\ pc'[s] = "live"
    <2>1. at[s] + 1 \in 1..Len(log) /\ at[s] + 1 \in 0..Len(log)
        BY <1>0, <1>4, StreamAssumption DEF Forward, Ahead, TypeOK
    <2>2. /\ at' = [at EXCEPT ![s] = @ + 1]
          /\ live' = [live EXCEPT ![s] = IF Concerns(s, log[at[s] + 1]) THEN @ \cup {at[s] + 1} ELSE @]
          /\ grace' \subseteq Streams
          /\ UNCHANGED <<pc, since, taken, replay, skipped>>
          /\ UNCHANGED <<bus, seen, store, target>>
        BY <1>4 DEF Forward, Close, TypeOK
    <2>3. live' \in [Streams -> SUBSET Positions] /\ at' \in [Streams -> 0..Len(log)]
        BY <2>1, <2>2 DEF TypeOK, Positions
    <2> QED
        BY <1>0, <2>2, <2>3 DEF TypeOK, bus, given, store, Positions
<1>5. CASE Lag(s)
    <2>1. Len(log) - RingCap \in 0..Len(log) /\ (at[s] + 1)..(Len(log) - RingCap) \subseteq 1..Len(log)
        BY <1>0, <1>5, StreamAssumption DEF Lag, Ahead, TypeOK
    <2>2. skipped' \in [Streams -> SUBSET Positions] /\ at' \in [Streams -> 0..Len(log)]
        BY <1>5, <2>1 DEF Lag, TypeOK, Positions
    <2> QED
        BY <1>0, <1>5, <2>2 DEF Lag, TypeOK, bus, given, store, Positions
<1> DEFINE Closes == \E how \in {"closed", "stalled"} : Close(s, how) /\ UNCHANGED <<bus, seen, store, target>>
<1>6. Serve(s) => \/ Subscribe(s)
                  \/ Lag(s)
                  \/ Replay(s) /\ pc'[s] = "live"
                  \/ Forward(s) /\ pc'[s] = "live"
                  \/ Closes
    <2>1. Replay(s) => pc'[s] = "live" \/ Closes
        BY DEF Replay, TypeOK
    <2>2. Forward(s) => pc'[s] = "live" \/ Closes
        BY DEF Forward, TypeOK
    <2>3. Lapse(s) => Closes
        BY DEF Lapse
    <2> HIDE DEF Closes
    <2> QED
        BY <2>1, <2>2, <2>3 DEF Serve
<1> QED
    BY <1>1, <1>2, <1>3, <1>4, <1>5, <1>6

\* Next, by who steps.
LEMMA NextCases ==
    ASSUME [Next]_vars
    PROVE  PublisherStep \/ KeeperStep \/ (\E s \in Streams : Serve(s)) \/ UNCHANGED vars
BY DEF Next, PublisherStep, KeeperStep, BufferStep

\* Types are preserved.
LEMMA NextTypeOK == TypeOK /\ [Next]_vars => TypeOK'
<1>1. TypeOK /\ UNCHANGED vars => TypeOK'
    BY DEF vars, bus, given, store, conns, TypeOK, Positions
<1> QED
    BY <1>1, NextCases, PublisherType, KeeperType, ServeType

-----------------------------------------------------------------------------
(* Prompts and buffers *)

\* A connection changes nothing but itself.
LEMMA ServeKeeps ==
    ASSUME NEW s \in Streams, Serve(s)
    PROVE  UNCHANGED <<bus, seen, store, target>>
BY DEF Serve, Subscribe, Replay, Forward, Lag, Lapse

\* A prompt leaves its buffer when it is answered, lost, or given up by Started.
LEMMA PromptsStay ==
    ASSUME TypeOK, PromptsFollowStart, KeeperStep,
           NEW k \in Keys, NEW i \in lines[k], IsPrompt(i), KeyOf(log[i]) = k
    PROVE  \/ i \in lines'[k] \/ i \in lost'
           \/ seen' = seen + 1 /\ IsEvent(seen + 1, "resolved", log[i].of)
<1>0. i \in 1..seen /\ seen \in Nat /\ Len(log) \in Nat /\ i \in Positions
    BY LogFacts DEF TypeOK, Positions
<1>1. CASE Absorb
    <2> DEFINE e == log[seen + 1]
    <2>1. /\ e \in Event /\ seen' = seen + 1 /\ seen + 1 \in 1..Len(log)
          /\ \/ e.kind = "started" /\ Open(e.of, seen + 1)
             \/ e.kind = "resolved" /\ Retire(e.of)
             \/ e.kind \notin {"started", "resolved"} /\ Buffered(KeyOf(e), seen + 1)
        BY <1>1, AbsorbCases
    <2>2. CASE e.kind = "started" /\ Open(e.of, seen + 1)
        <3>1. e.of \in Turns /\ e = [kind |-> "started", of |-> e.of]
            BY <2>1, <2>2 DEF Event, TurnKinds
        <3>2. IsEvent(seen + 1, "started", e.of)
            BY <2>1, <3>1 DEF IsEvent
        <3>3. seen + 1 \in (i + 1)..Len(log)
            BY <1>0, <2>1
        <3>4. scope[log[i].of] # e.of
            BY <1>0, <3>1, <3>2, <3>3 DEF PromptsFollowStart
        <3>5. k # e.of
            BY <3>4 DEF KeyOf, IsPrompt
        <3> HIDE DEF e
        <3> QED
            BY <2>2, <3>5 DEF Open, TypeOK
    <2>3. CASE e.kind = "resolved" /\ Retire(e.of)
        <3>1. e = [kind |-> "resolved", of |-> e.of]
            BY <2>1, <2>3 DEF Event, TurnKinds
        <3>2. IsEvent(seen + 1, "resolved", e.of)
            BY <2>1, <3>1 DEF IsEvent
        <3> HIDE DEF e
        <3>3. i \in lines'[k] \/ IsEvent(i, "request", e.of)
            BY <2>3 DEF Retire
        <3> QED
            BY <2>1, <3>2, <3>3 DEF IsEvent
    <2>4. CASE Buffered(KeyOf(e), seen + 1)
        <3> DEFINE h == KeyOf(e)
        <3>1. Buffered(h, seen + 1) /\ lines \in [Keys -> SUBSET (1..seen)]
            BY <2>4 DEF TypeOK
        <3> HIDE DEF e, h
        <3>2. CASE k = h
            BY <3>1, <3>2 DEF Buffered
        <3>3. CASE k # h
            BY <3>1, <3>3 DEF Buffered
        <3> QED
            BY <3>2, <3>3
    <2> QED
        BY <2>1, <2>2, <2>3, <2>4
<1>2. CASE BufferLag
    BY <1>2 DEF BufferLag
<1>3. ASSUME NEW t \in Turns, CleanupTurn(t) PROVE i \in lines'[k] \/ i \in lost'
    BY <1>3 DEF CleanupTurn, Drop
<1>4. ASSUME NEW h \in Keys, Sweep(h) PROVE i \in lines'[k]
    BY <1>4 DEF Sweep, Drop, Prompting
<1> QED
    BY <1>1, <1>2, <1>3, <1>4 DEF KeeperStep

\* A prompt that the buffer task meets goes into its buffer or is lost.
LEMMA PromptsEnter ==
    ASSUME TypeOK, KeeperStep, NEW i \in (seen + 1)..seen', IsPrompt(i)
    PROVE  i \in lines'[scope[log[i].of]] \/ i \in lost'
<1>0. seen \in Nat /\ Len(log) \in Nat
    BY LogFacts DEF TypeOK
<1>1. CASE Absorb
    <2> DEFINE e == log[seen + 1]
    <2>1. /\ e \in Event /\ seen' = seen + 1
          /\ \/ e.kind = "started" /\ Open(e.of, seen + 1)
             \/ e.kind = "resolved" /\ Retire(e.of)
             \/ e.kind \notin {"started", "resolved"} /\ Buffered(KeyOf(e), seen + 1)
        BY <1>1, AbsorbCases
    <2>2. i = seen + 1
        BY <1>0, <2>1
    <2>3. e.kind = "request" /\ KeyOf(e) = scope[e.of] /\ KeyOf(e) \in Keys
        BY <2>1, <2>2, EventFacts DEF IsPrompt, KeyOf, TurnKinds, TypeOK
    <2>4. Buffered(KeyOf(e), seen + 1)
        BY <2>1, <2>3
    <2>5. \A k \in Keys : Buffered(k, seen + 1) => seen + 1 \in lines'[k] \/ seen + 1 \in lost'
        BY DEF Buffered, TypeOK
    <2> QED
        BY <2>2, <2>3, <2>4, <2>5
<1>2. CASE BufferLag
    BY <1>2 DEF BufferLag
<1>3. CASE seen' = seen
    BY <1>0, <1>3
<1> QED
    BY <1>1, <1>2, <1>3 DEF KeeperStep, CleanupTurn, Sweep

\* PromptsHeld is preserved.
LEMMA PromptsHeldStep ==
    ASSUME TypeOK, PromptsHeld, PromptsFollowStart, AtHome, [Next]_vars
    PROVE  PromptsHeld'
<1>0. seen \in Nat /\ seen <= Len(log) /\ Len(log) \in Nat
    BY LogFacts DEF TypeOK
<1>1. CASE PublisherStep
    <2>1. LogKept /\ UNCHANGED <<given, seen, store, conns>>
        BY <1>1, PublisherKept
    <2>2. \A i \in 1..seen : log'[i] = log[i] /\ i \in 1..Len(log) /\ i \in 1..Len(log')
        BY <1>0, <2>1, LenProperties DEF LogKept
    <2>3. SUFFICES ASSUME NEW i \in 1..seen, log[i].kind = "request", Unanswered(i, seen)', i \notin lost
                   PROVE  i \in lines[scope[log[i].of]]
        BY <2>1, <2>2 DEF PromptsHeld, IsPrompt, store, given
    <2>4. Unanswered(i, seen)
        <3>1. \A j \in (i + 1)..seen : j \in 1..seen
            BY <1>0
        <3>2. \A j \in (i + 1)..seen : IsEvent(j, "resolved", log[i].of) => IsEvent(j, "resolved", log[i].of)'
            BY <2>2, <3>1 DEF IsEvent
        <3> QED
            BY <2>1, <2>3, <3>2 DEF Unanswered
    <2> QED
        BY <2>3, <2>4 DEF PromptsHeld, IsPrompt
<1>2. CASE KeeperStep
    <2>1. UNCHANGED <<bus, conns>> /\ seen' \in seen..Len(log) /\ lost \subseteq lost'
        BY <1>2, KeeperGrows
    <2>2. SUFFICES ASSUME NEW i \in 1..seen', IsPrompt(i), Unanswered(i, seen'), i \notin lost'
                   PROVE  i \in lines'[scope[log[i].of]]
        BY <2>1 DEF PromptsHeld, IsPrompt, Unanswered, IsEvent, bus, given
    <2>3. CASE i <= seen
        <3>1. i \in 1..seen /\ \A j \in (i + 1)..seen : j \in (i + 1)..seen'
            BY <1>0, <2>1, <2>3
        <3>2. Unanswered(i, seen) /\ i \notin lost
            BY <2>1, <2>2, <3>1 DEF Unanswered
        <3>3. log[i] \in Event /\ scope[log[i].of] \in Keys /\ KeyOf(log[i]) = scope[log[i].of]
            <4>1. i \in 1..Len(log) /\ log[i].kind = "request"
                BY <1>0, <2>2, <3>1 DEF IsPrompt
            <4>2. log[i] \in Event
                BY <4>1, LogFacts
            <4>3. log[i].of \in Approvals
                BY <4>1, <4>2, EventFacts DEF TurnKinds
            <4> QED
                BY <4>1, <4>2, <4>3 DEF KeyOf, TypeOK
        <3>4. i \in lines[scope[log[i].of]]
            BY <2>2, <3>1, <3>2 DEF PromptsHeld
        <3>5. seen' = seen + 1 => ~IsEvent(seen + 1, "resolved", log[i].of)
            BY <1>0, <2>2, <3>1 DEF Unanswered
        <3> QED
            BY <1>2, <2>2, <3>3, <3>4, <3>5, PromptsStay
    <2>4. CASE i > seen
        <3>1. i \in (seen + 1)..seen'
            BY <1>0, <2>1, <2>4
        <3> QED
            BY <1>2, <2>2, <3>1, PromptsEnter
    <2> QED
        BY <1>0, <2>1, <2>3, <2>4
<1>3. CASE UNCHANGED <<bus, seen, store>>
    BY <1>3 DEF PromptsHeld, IsPrompt, Unanswered, IsEvent, bus, given, store
<1> QED
    BY <1>1, <1>2, <1>3, NextCases, ServeKeeps DEF vars

\* PromptsFollowStart is preserved.
LEMMA PromptsFollowStep ==
    ASSUME TypeOK, PromptsFollowStart, [Next]_vars
    PROVE  PromptsFollowStart'
<1>0. Len(log) \in Nat
    BY LogFacts
<1>1. ASSUME UNCHANGED <<given, log>>, phase' = phase \/ \E t \in Turns, p \in {"running", "done", "over"} : ToPhase(t, p)
      PROVE  PromptsFollowStart'
    BY <1>1 DEF PromptsFollowStart, Positions, IsPrompt, IsEvent, given, ToPhase, TypeOK
<1>2. ASSUME NEW kind \in TurnKinds \cup {"request", "resolved"}, NEW x, [kind |-> kind, of |-> x] \in Event,
             Publish(kind, x),
             phase' = phase \/ \E t \in Turns, p \in {"running", "done", "over"} : ToPhase(t, p),
             kind = "started" => x \in Turns /\ phase[x] = "new",
             kind = "request" /\ scope[x] \in Turns => phase[scope[x]] = "running"
      PROVE  PromptsFollowStart'
    <2>1. /\ LogKept /\ Len(log') = Len(log) + 1
          /\ log'[Len(log) + 1] = [kind |-> kind, of |-> x]
          /\ scope' = scope
        BY <1>2, PublishKept DEF Publish, given
    <2>2. SUFFICES ASSUME NEW t \in Turns, NEW i \in 1..(Len(log) + 1), log'[i].kind = "request", scope[log'[i].of] = t
                   PROVE  /\ phase'[t] # "new"
                          /\ \A j \in (i + 1)..(Len(log) + 1) : log'[j] # [kind |-> "started", of |-> t]
        BY <2>1 DEF PromptsFollowStart, Positions, IsPrompt, IsEvent
    <2>3. phase[t] # "new" => phase'[t] # "new"
        BY <1>2 DEF ToPhase, TypeOK
    <2>4. CASE i \in 1..Len(log)
        <3>1. log[i].kind = "request" /\ scope[log[i].of] = t
            BY <2>1, <2>2, <2>4 DEF LogKept
        <3>2. phase[t] # "new" /\ \A j \in (i + 1)..Len(log) : ~IsEvent(j, "started", t)
            BY <2>4, <3>1 DEF PromptsFollowStart, Positions, IsPrompt
        <3>3. ASSUME NEW j \in (i + 1)..(Len(log) + 1) PROVE log'[j] # [kind |-> "started", of |-> t]
            <4>1. CASE j \in 1..Len(log)
                <5>1. j \in (i + 1)..Len(log) /\ log'[j] = log[j]
                    BY <2>1, <3>3, <4>1 DEF LogKept
                <5> QED
                    BY <3>2, <4>1, <5>1 DEF IsEvent
            <4>2. CASE j = Len(log) + 1
                <5>1. kind = "started" => x # t
                    BY <1>2, <3>2
                <5> QED
                    BY <2>1, <4>2, <5>1
            <4> QED
                BY <1>0, <2>4, <3>3, <4>1, <4>2
        <3> QED
            BY <2>3, <3>2, <3>3
    <2>5. CASE i = Len(log) + 1
        <3>1. kind = "request" /\ scope[x] = t
            BY <2>1, <2>2, <2>5
        <3>2. phase[t] # "new"
            BY <1>2, <3>1
        <3>3. (i + 1)..(Len(log) + 1) = {}
            BY <1>0, <2>5
        <3> QED
            BY <2>3, <3>2, <3>3
    <2> QED
        BY <1>0, <2>2, <2>4, <2>5
<1>3. ASSUME NEW t \in Turns, Start(t) \/ Chunk(t) \/ Finish(t) \/ Review(t)
      PROVE  PromptsFollowStart'
    <2>1. \A kind \in TurnKinds : [kind |-> kind, of |-> t] \in Event
        BY DEF Event
    <2>2. phase' = phase \/ \E u \in Turns, p \in {"running", "done", "over"} : ToPhase(u, p)
        BY <1>3 DEF Start, Chunk, Finish, Review
    <2>3. \/ UNCHANGED <<given, log>>
          \/ phase[t] = "new" /\ Publish("started", t)
          \/ \E kind \in TurnKinds \ {"started"} : Publish(kind, t)
        BY <1>3 DEF Start, Chunk, Finish, Review, TurnKinds
    <2> QED
        BY <1>1, <1>2, <2>1, <2>2, <2>3 DEF TurnKinds
<1>4. ASSUME NEW a \in Approvals, Prompt(a) \/ Resolve(a)
      PROVE  PromptsFollowStart'
    <2>1. \A kind \in {"request", "resolved"} : [kind |-> kind, of |-> a] \in Event
        BY DEF Event
    <2> QED
        BY <1>2, <1>4, <2>1 DEF Prompt, Resolve
<1>5. CASE UNCHANGED bus
    BY <1>1, <1>5 DEF bus
<1>6. KeeperStep => UNCHANGED bus
    BY KeeperGrows
<1> QED
    BY <1>3, <1>4, <1>5, <1>6, NextCases, ServeKeeps DEF PublisherStep, vars

\* The events the buffer task has seen stay what they are.
LEMMA SeenKept ==
    ASSUME TypeOK, [Next]_vars
    PROVE  /\ seen \in Nat /\ seen' \in Nat /\ seen <= seen' /\ seen <= Len(log) /\ Len(log) \in Nat
           /\ scope' = scope
           /\ LogKept
<1>0. seen \in Nat /\ seen <= Len(log) /\ Len(log) \in Nat
    BY LogFacts DEF TypeOK
<1>1. CASE PublisherStep
    BY <1>0, <1>1, PublisherKept DEF given
<1>2. CASE KeeperStep
    BY <1>0, <1>2, KeeperGrows DEF bus, given, LogKept, TypeOK
<1>3. CASE UNCHANGED <<bus, seen>>
    BY <1>0, <1>3 DEF bus, given, LogKept, TypeOK
<1> QED
    BY <1>1, <1>2, <1>3, NextCases, ServeKeeps DEF vars

\* A line in a buffer was there, or is the event just met, in its own buffer.
LEMMA LinesComeHome ==
    ASSUME TypeOK, KeeperStep, NEW k \in Keys, NEW i \in lines'[k], i \notin lines[k]
    PROVE  /\ i = seen + 1 /\ seen' = seen + 1
           /\ log[i].kind # "resolved" /\ KeyOf(log[i]) = k
<1>1. CASE Absorb
    <2> DEFINE e == log[seen + 1]
    <2>1. /\ e \in Event /\ seen' = seen + 1
          /\ \/ e.kind = "started" /\ Open(e.of, seen + 1)
             \/ e.kind = "resolved" /\ Retire(e.of)
             \/ e.kind \notin {"started", "resolved"} /\ Buffered(KeyOf(e), seen + 1)
        BY <1>1, AbsorbCases
    <2>2. CASE e.kind = "started" /\ Open(e.of, seen + 1)
        <3>1. KeyOf(e) = e.of
            BY <2>2 DEF KeyOf
        <3>2. i = seen + 1 /\ k = e.of
            <4> HIDE DEF e
            <4> QED
                BY <2>2 DEF Open, TypeOK
        <3> QED
            BY <2>1, <2>2, <3>1, <3>2
    <2>3. CASE e.kind = "resolved" /\ Retire(e.of)
        BY <2>3 DEF Retire
    <2>4. CASE e.kind \notin {"started", "resolved"} /\ Buffered(KeyOf(e), seen + 1)
        <3> DEFINE h == KeyOf(e)
        <3>1. Buffered(h, seen + 1) /\ lines \in [Keys -> SUBSET (1..seen)]
            BY <2>4 DEF TypeOK
        <3>2. i = seen + 1 /\ k = h
            <4> HIDE DEF e, h
            <4> QED
                BY <3>1 DEF Buffered
        <3> QED
            BY <2>1, <2>4, <3>2
    <2> QED
        BY <2>1, <2>2, <2>3, <2>4
<1>2. CASE BufferLag \/ (\E t \in Turns : CleanupTurn(t)) \/ (\E h \in Keys : Sweep(h))
    BY <1>2 DEF BufferLag, CleanupTurn, Sweep, Drop
<1> QED
    BY <1>1, <1>2 DEF KeeperStep

\* AtHome is preserved.
LEMMA AtHomeStep ==
    ASSUME TypeOK, AtHome, [Next]_vars
    PROVE  AtHome'
<1>0. seen \in Nat /\ seen <= Len(log) /\ Len(log) \in Nat /\ \A k \in Keys : lines[k] \subseteq 1..Len(log)
    BY SeenKept DEF TypeOK
<1>1. \A i \in 1..Len(log) : log'[i] = log[i] /\ KeyOf(log[i])' = KeyOf(log[i])
    BY SeenKept DEF LogKept, KeyOf
<1>2. CASE UNCHANGED lines
    BY <1>0, <1>1, <1>2 DEF AtHome
<1>3. CASE KeeperStep
    <2>1. log' = log /\ scope' = scope
        BY <1>3, KeeperGrows DEF bus, given
    <2> QED
        BY <1>3, <2>1, LinesComeHome DEF AtHome, KeyOf
<1> QED
    BY <1>2, <1>3, NextCases, PublisherKept, ServeKeeps DEF store, vars

\* Outcomes the buffer task met stay met.
LEMMA OverKept ==
    ASSUME TypeOK, [Next]_vars
    PROVE  Over \subseteq Over'
<1> SUFFICES ASSUME NEW k \in Keys, NEW i \in 1..seen, log[i].kind \in Terminals, log[i].of = k
             PROVE  i \in 1..seen' /\ log'[i] = log[i]
    BY DEF Over
<1> QED
    BY SeenKept DEF LogKept

\* DoomedAreOver is preserved.
LEMMA DoomedStep ==
    ASSUME TypeOK, DoomedAreOver, [Next]_vars
    PROVE  DoomedAreOver'
<1>1. CASE UNCHANGED doomed
    BY <1>1, OverKept DEF DoomedAreOver
<1>2. CASE Absorb
    <2> DEFINE e == log[seen + 1]
    <2>1. /\ e \in Event /\ seen' = seen + 1 /\ log' = log /\ seen \in Nat
          /\ doomed' = IF e.kind \in Terminals THEN doomed \cup {e.of} ELSE doomed
        BY <1>2, AbsorbCases, SeenKept DEF bus
    <2>2. e.kind \in Terminals => e.of \in Over'
        <3>1. e.kind \in Terminals => e.of \in Keys
            BY <2>1, EventFacts DEF Terminals, TurnKinds, Keys
        <3>2. seen + 1 \in 1..seen'
            BY <2>1
        <3> QED
            BY <2>1, <3>1, <3>2 DEF Over
    <2> QED
        BY <2>1, <2>2, OverKept DEF DoomedAreOver
<1>3. ASSUME NEW t \in Turns, CleanupTurn(t) PROVE DoomedAreOver'
    BY <1>3, OverKept DEF CleanupTurn, DoomedAreOver
<1> QED
    BY <1>1, <1>2, <1>3, NextCases, PublisherKept, ServeKeeps DEF KeeperStep, BufferLag, Sweep, store, vars

-----------------------------------------------------------------------------
(* Connections *)

\* What StreamInv says of one connection.
StreamSound(s) ==
    /\ pc[s] = "subscribed" => at[s] = since[s]
    /\ pc[s] = "live" =>
        /\ since[s] <= at[s]
        /\ replay[s] \subseteq 1..taken[s]
        /\ live[s] \subseteq (since[s] + 1)..at[s]
        /\ replay[s] \cap live[s] \subseteq (since[s] + 1)..taken[s]
        /\ s \notin grace => \A i \in (since[s] + 1)..at[s] :
               log[i].of = target[s] /\ log[i].kind \in Terminals => i \in skipped[s]
    /\ pc[s] # "live" => replay[s] = {} /\ live[s] = {}

\* What PendingReachesStream says of one connection.
Reached(s) ==
    pc[s] = "live" =>
        \A i \in 1..at[s] :
            \/ log[i].kind # "request" \/ ~Concerns(s, log[i])
            \/ ~Unanswered(i, at[s]) \/ ~Unanswered(i, taken[s])
            \/ i \in lost \cup skipped[s]
            \/ taken[s] < i /\ i <= since[s]
            \/ i \in replay[s] \cup live[s]

\* The three conjuncts about connections are StreamSound of each.
LEMMA SoundAll ==
    NoLineTwice /\ Cursors /\ MetOutcome <=> \A s \in Streams : StreamSound(s)
<1>1. ASSUME NEW s \in Streams, StreamSound(s)
      PROVE  replay[s] \cap live[s] \subseteq (since[s] + 1)..taken[s]
    BY <1>1 DEF StreamSound
<1> QED
    BY <1>1 DEF NoLineTwice, Cursors, MetOutcome, StreamSound

\* Unanswered in the next state, of values of this one.
UnansweredNext(i, n) ==
    ~\E j \in (i + 1)..n : j \in 1..Len(log') /\ log'[j] = [kind |-> "resolved", of |-> log'[i].of]

\* What belongs to connection s is as it was.
Same(s) ==
    /\ pc'[s] = pc[s] /\ target'[s] = target[s] /\ since'[s] = since[s] /\ taken'[s] = taken[s]
    /\ replay'[s] = replay[s] /\ at'[s] = at[s] /\ live'[s] = live[s] /\ skipped'[s] = skipped[s]
    /\ (s \in grace' <=> s \in grace)

\* What a connection holds is sound while others act.
LEMMA SameSound ==
    ASSUME TypeOK, LogKept, scope' = scope, lost \subseteq lost', NEW s \in Streams, Same(s)
    PROVE  (StreamSound(s) => StreamSound(s)') /\ (Reached(s) => Reached(s)')
<1>0. /\ at[s] \in 0..Len(log) /\ taken[s] \in 0..Len(log) /\ since[s] \in 0..Len(log) /\ Len(log) \in Nat
      /\ seen \in 0..Len(log)
    BY LogFacts DEF TypeOK
<1>1. \A i \in 1..Len(log) : log'[i] = log[i] /\ i \in 1..Len(log')
    BY <1>0, LenProperties DEF LogKept
<1>2. ASSUME StreamSound(s) PROVE StreamSound(s)'
    <2>1. \A i \in (since[s] + 1)..at[s] : log'[i] = log[i]
        BY <1>0, <1>1
    <2> QED
        BY <1>2, <2>1 DEF StreamSound, Same
<1>3. ASSUME NEW i \in 1..Len(log), NEW n \in 0..Len(log), UnansweredNext(i, n)
      PROVE  Unanswered(i, n)
    <2>1. \A j \in (i + 1)..n : j \in 1..Len(log)
        BY <1>0
    <2> QED
        BY <1>1, <1>3, <2>1 DEF Unanswered, UnansweredNext, IsEvent
<1>4. ASSUME Reached(s) PROVE Reached(s)'
    <2>1. SUFFICES ASSUME pc[s] = "live", NEW i \in 1..at[s], log'[i].kind = "request", Concerns(s, log[i])',
                          UnansweredNext(i, at[s]), UnansweredNext(i, taken[s]), i \notin lost' \cup skipped[s],
                          ~(taken[s] < i /\ i <= since[s])
                   PROVE  i \in replay[s] \cup live[s]
        BY DEF Reached, Same, Unanswered, UnansweredNext, IsEvent
    <2>2. i \in 1..Len(log) /\ log'[i] = log[i]
        BY <1>0, <1>1
    <2>3. Concerns(s, log[i])
        BY <2>1, <2>2 DEF Concerns, Same
    <2>4. Unanswered(i, at[s]) /\ Unanswered(i, taken[s])
        BY <1>0, <1>3, <2>1, <2>2
    <2> QED
        BY <1>4, <2>1, <2>2, <2>3, <2>4 DEF Reached
<1> QED
    BY <1>2, <1>4

\* A connection's step leaves the others as they are.
LEMMA OthersSame ==
    ASSUME TypeOK, NEW s \in Streams, Serve(s), NEW d \in Streams, d # s
    PROVE  Same(d)
<1> USE DEF TypeOK, Same
<1>1. CASE Subscribe(s) \/ Lag(s)
    BY <1>1 DEF Subscribe, Lag
<1>2. CASE Replay(s)
    <2>1. \A G : G \in {grace, grace \cup {s}} \/ G = grace \ {s} => (d \in G <=> d \in grace)
        OBVIOUS
    <2>2. grace' \in {grace, grace \cup {s}} \/ grace' = grace \ {s}
        BY <1>2 DEF Replay, Close
    <2> QED
        BY <1>2, <2>1, <2>2 DEF Replay, Close
<1>3. CASE Forward(s)
    BY <1>3 DEF Forward, Close
<1>4. CASE Lapse(s)
    BY <1>4 DEF Lapse, Close
<1> QED
    BY <1>1, <1>2, <1>3, <1>4 DEF Serve

\* A connection that closes holds nothing.
LEMMA CloseSound ==
    ASSUME TypeOK, NEW s \in Streams, NEW how \in Ended, Close(s, how)
    PROVE  StreamSound(s)' /\ Reached(s)'
<1>1. pc'[s] \notin {"subscribed", "live"} /\ replay'[s] = {} /\ live'[s] = {}
    BY DEF Close, Ended, TypeOK
<1> QED
    BY <1>1 DEF StreamSound, Reached

\* Replaying the buffers delivers the prompts that are pending.
LEMMA ReplaySound ==
    ASSUME TypeOK, PromptsHeld, NEW s \in Streams, StreamSound(s), Replay(s), pc'[s] = "live"
    PROVE  StreamSound(s)' /\ Reached(s)'
<1>0. /\ at[s] \in 0..Len(log) /\ Len(log) \in Nat /\ seen \in 0..Len(log)
      /\ \A k \in Keys : lines[k] \subseteq 1..seen
    BY LogFacts DEF TypeOK
<1> DEFINE all == lines[target[s]] \cup lines[Session]
<1>1. /\ UNCHANGED <<log, scope, seen, lost, target>>
      /\ replay'[s] = all /\ taken'[s] = seen
      /\ at'[s] = at[s] /\ since'[s] = since[s] /\ live'[s] = {} /\ skipped'[s] = skipped[s]
      /\ at[s] = since[s]
    BY DEF Replay, Close, TypeOK, StreamSound, bus, given, store
<1>2. StreamSound(s)'
    <2>1. all \subseteq 1..seen
        BY <1>0 DEF TypeOK, Keys
    <2>2. (since[s] + 1)..at[s] = {}
        BY <1>0, <1>1
    <2> QED
        BY <1>0, <1>1, <2>1, <2>2 DEF StreamSound
<1>3. Reached(s)'
    <2>1. SUFFICES ASSUME NEW i \in 1..at[s], log[i].kind = "request", Concerns(s, log[i]), Unanswered(i, seen),
                          i \notin lost, ~(seen < i /\ i <= since[s])
                   PROVE  i \in all
        BY <1>1 DEF Reached, Concerns, Unanswered, IsEvent
    <2>2. i \in 1..seen
        BY <1>0, <1>1, <2>1
    <2>3. i \in lines[scope[log[i].of]]
        BY <2>1, <2>2 DEF PromptsHeld, IsPrompt
    <2>4. scope[log[i].of] \in {target[s], Session}
        BY <2>1 DEF Concerns, TurnKinds
    <2> QED
        BY <2>3, <2>4
<1> QED
    BY <1>2, <1>3

\* Forwarding keeps a connection in step with the ring.
LEMMA ForwardSound ==
    ASSUME TypeOK, NEW s \in Streams, StreamSound(s), Forward(s), pc'[s] = "live"
    PROVE  StreamSound(s)' /\ (Reached(s) => Reached(s)')
<1>0. /\ at[s] \in Nat /\ since[s] \in Nat /\ taken[s] \in Nat /\ Len(log) \in Nat
      /\ pc[s] = "live" /\ at[s] + 1 \in 1..Len(log)
    BY LogFacts, StreamAssumption DEF TypeOK, Forward, Ahead
<1> DEFINE e == log[at[s] + 1]
<1>1. /\ UNCHANGED <<log, scope, seen, lost, target, pc, since, taken, replay, skipped>>
      /\ at'[s] = at[s] + 1
      /\ live'[s] = IF Concerns(s, e) THEN live[s] \cup {at[s] + 1} ELSE live[s]
      /\ s \notin grace' => s \notin grace /\ ~(Concerns(s, e) /\ e.kind = "done")
      /\ ~(Concerns(s, e) /\ e.kind \in {"quality", "failed", "report"})
    BY DEF Forward, Close, TypeOK, bus, given, store
<1>2. \A i \in (since[s] + 1)..(at[s] + 1) : i \in (since[s] + 1)..at[s] \/ i = at[s] + 1
    BY <1>0
<1>3. StreamSound(s)'
    <2>1. since[s] <= at[s] + 1 /\ live'[s] \subseteq (since[s] + 1)..(at[s] + 1)
        BY <1>0, <1>1 DEF StreamSound
    <2>2. replay[s] \cap live'[s] \subseteq (since[s] + 1)..taken[s]
        BY <1>0, <1>1 DEF StreamSound
    <2>3. ASSUME s \notin grace', NEW i \in (since[s] + 1)..(at[s] + 1),
                 log[i].of = target[s], log[i].kind \in Terminals
          PROVE  i \in skipped[s]
        <3>1. CASE i \in (since[s] + 1)..at[s]
            BY <1>0, <1>1, <2>3, <3>1 DEF StreamSound
        <3>2. CASE i = at[s] + 1
            <4>1. Concerns(s, e)
                BY <2>3, <3>2 DEF Concerns, Terminals, TurnKinds
            <4> QED
                BY <1>1, <2>3, <3>2, <4>1 DEF Terminals
        <3> QED
            BY <1>2, <3>1, <3>2
    <2> QED
        BY <1>0, <1>1, <2>1, <2>2, <2>3 DEF StreamSound
<1>4. ASSUME Reached(s) PROVE Reached(s)'
    <2>1. SUFFICES ASSUME NEW i \in 1..(at[s] + 1), log[i].kind = "request", Concerns(s, log[i]),
                          Unanswered(i, at[s] + 1), Unanswered(i, taken[s]), i \notin lost \cup skipped[s],
                          ~(taken[s] < i /\ i <= since[s])
                   PROVE  i \in replay[s] \cup live'[s]
        BY <1>1 DEF Reached, Concerns, Unanswered, IsEvent
    <2>2. CASE i = at[s] + 1
        BY <1>1, <2>1, <2>2
    <2>3. CASE i \in 1..at[s]
        <3>1. \A j \in (i + 1)..at[s] : j \in (i + 1)..(at[s] + 1)
            BY <1>0
        <3>2. Unanswered(i, at[s])
            BY <2>1, <3>1 DEF Unanswered
        <3> QED
            BY <1>0, <1>1, <1>4, <2>1, <2>3, <3>2 DEF Reached
    <2> QED
        BY <1>0, <2>2, <2>3
<1> QED
    BY <1>3, <1>4

\* What a connection loses to its lag is known as lost.
LEMMA LagSound ==
    ASSUME TypeOK, NEW s \in Streams, StreamSound(s), Lag(s)
    PROVE  StreamSound(s)' /\ (Reached(s) => Reached(s)')
<1> DEFINE n == Len(log) - RingCap
<1>0. /\ at[s] \in Nat /\ since[s] \in Nat /\ taken[s] \in Nat /\ Len(log) \in Nat
      /\ pc[s] = "live" /\ n \in Nat /\ at[s] < n
    BY LogFacts, StreamAssumption DEF TypeOK, Lag, Ahead
<1>1. /\ UNCHANGED <<log, scope, seen, lost, target, pc, since, taken, replay, live, grace>>
      /\ at'[s] = n
      /\ skipped'[s] = skipped[s] \cup (at[s] + 1)..n
    BY DEF Lag, TypeOK, bus, given, store
<1> HIDE DEF n
<1>3. StreamSound(s)'
    <2>1. since[s] <= n /\ live[s] \subseteq (since[s] + 1)..n
        BY <1>0 DEF StreamSound
    <2>2. \A i \in (since[s] + 1)..n : i \in (since[s] + 1)..at[s] \/ i \in (at[s] + 1)..n
        BY <1>0
    <2> QED
        BY <1>0, <1>1, <2>1, <2>2 DEF StreamSound
<1>4. ASSUME Reached(s) PROVE Reached(s)'
    <2>1. SUFFICES ASSUME NEW i \in 1..n, log[i].kind = "request", Concerns(s, log[i]),
                          Unanswered(i, n), Unanswered(i, taken[s]), i \notin lost \cup skipped'[s],
                          ~(taken[s] < i /\ i <= since[s])
                   PROVE  i \in replay[s] \cup live[s]
        BY <1>1 DEF Reached, Concerns, Unanswered, IsEvent
    <2>2. i \in 1..at[s]
        BY <1>0, <1>1, <2>1
    <2>3. \A j \in (i + 1)..at[s] : j \in (i + 1)..n
        BY <1>0
    <2>4. Unanswered(i, at[s])
        BY <2>1, <2>3 DEF Unanswered
    <2> QED
        BY <1>0, <1>1, <1>4, <2>1, <2>2, <2>4 DEF Reached
<1> QED
    BY <1>3, <1>4

\* A step of connection s.
LEMMA ServeSound ==
    ASSUME TypeOK, PromptsHeld, NEW s \in Streams, StreamSound(s), Serve(s)
    PROVE  StreamSound(s)' /\ (Reached(s) => Reached(s)')
<1>1. CASE Subscribe(s)
    <2>1. pc[s] = "new" /\ pc'[s] = "subscribed" /\ at'[s] = since'[s] /\ replay'[s] = replay[s] /\ live'[s] = live[s]
        BY <1>1 DEF Subscribe, TypeOK
    <2> QED
        BY <2>1 DEF StreamSound, Reached
<1>2. CASE Replay(s) /\ pc'[s] = "live"
    BY <1>2, ReplaySound
<1>3. CASE Forward(s) /\ pc'[s] = "live"
    BY <1>3, ForwardSound
<1>4. CASE Lag(s)
    BY <1>4, LagSound
<1>5. ASSUME NEW how \in Ended, Close(s, how) PROVE StreamSound(s)' /\ (Reached(s) => Reached(s)')
    BY <1>5, CloseSound
<1>6. Replay(s) => pc'[s] = "live" \/ \E how \in Ended : Close(s, how)
    BY DEF Replay, TypeOK, Ended
<1>7. Forward(s) => pc'[s] = "live" \/ \E how \in Ended : Close(s, how)
    BY DEF Forward, TypeOK, Ended
<1>8. Lapse(s) => \E how \in Ended : Close(s, how)
    BY DEF Lapse, Ended
<1> QED
    BY <1>1, <1>2, <1>3, <1>4, <1>5, <1>6, <1>7, <1>8 DEF Serve

\* Every step keeps every connection sound.
LEMMA StreamsSound ==
    ASSUME TypeOK, PromptsHeld, [Next]_vars, NEW d \in Streams, StreamSound(d)
    PROVE  StreamSound(d)' /\ (Reached(d) => Reached(d)')
<1>0. LogKept /\ scope' = scope
    BY SeenKept
<1>1. ASSUME NEW s \in Streams, Serve(s)
      PROVE  StreamSound(d)' /\ (Reached(d) => Reached(d)')
    <2>1. lost' = lost
        BY <1>1, ServeKeeps DEF store
    <2>2. CASE d = s
        BY <1>1, <2>2, ServeSound
    <2>3. CASE d # s
        BY <1>0, <1>1, <2>1, <2>3, OthersSame, SameSound
    <2> QED
        BY <2>2, <2>3
<1>2. CASE PublisherStep \/ KeeperStep \/ UNCHANGED vars
    <2>1. UNCHANGED conns /\ lost \subseteq lost'
        BY <1>2, PublisherKept, KeeperGrows DEF store, vars
    <2>2. Same(d)
        BY <2>1 DEF conns, Same
    <2> QED
        BY <1>0, <2>1, <2>2, SameSound
<1> QED
    BY <1>1, <1>2, NextCases

-----------------------------------------------------------------------------
(* The theorems *)

\* Initially nothing is published, buffered or connected.
LEMMA InitInv == Init => StreamInv
<1> SUFFICES ASSUME Init PROVE StreamInv
    OBVIOUS
<1>0. log = <<>> /\ log \in Seq(Event) /\ Len(log) = 0 /\ 1..Len(log) = {} /\ 0..Len(log) = {0} /\ seen = 0
    BY EmptySeq DEF Init
<1>1. TypeOK
    BY <1>0 DEF Init, TypeOK, Stages, Positions
<1>2. \A s \in Streams : StreamSound(s)
    BY DEF Init, StreamSound
<1>3. PromptsHeld /\ PromptsFollowStart /\ DoomedAreOver /\ AtHome
    BY <1>0 DEF Init, PromptsHeld, PromptsFollowStart, DoomedAreOver, AtHome, Positions
<1> QED
    BY <1>1, <1>2, <1>3, SoundAll DEF StreamInv

\* No step breaks the invariant.
LEMMA NextInv == StreamInv /\ [Next]_vars => StreamInv'
<1> SUFFICES ASSUME StreamInv, [Next]_vars PROVE StreamInv'
    OBVIOUS
<1>1. TypeOK' /\ PromptsHeld' /\ PromptsFollowStart' /\ DoomedAreOver' /\ AtHome'
    BY NextTypeOK, PromptsHeldStep, PromptsFollowStep, DoomedStep, AtHomeStep DEF StreamInv
<1>2. (\A s \in Streams : StreamSound(s))'
    BY SoundAll, StreamsSound DEF StreamInv
<1>3. (NoLineTwice /\ Cursors /\ MetOutcome)'
    BY <1>2, SoundAll, PTL
<1> QED
    BY <1>1, <1>3 DEF StreamInv

\* Every reachable state satisfies StreamInv: no line is delivered twice, for
\* any number of turns, connections and events and any sizes of ring and buffers.
THEOREM StreamInvariant == Spec => []StreamInv
BY InitInv, NextInv, PTL DEF Spec

\* A pending approval reaches every connection that subscribed to its turn.
THEOREM PendingReaches == Spec => []PendingReachesStream
<1>1. PendingReachesStream <=> \A s \in Streams : Reached(s)
    BY DEF PendingReachesStream, Reached
<1>2. Init => PendingReachesStream
    BY DEF Init, PendingReachesStream
<1>3. StreamInv /\ (\A s \in Streams : Reached(s)) /\ [Next]_vars => \A s \in Streams : Reached(s)'
    BY SoundAll, StreamsSound DEF StreamInv
<1>4. PendingReachesStream' <=> \A s \in Streams : Reached(s)'
    BY DEF PendingReachesStream, Reached
<1>5. StreamInv /\ PendingReachesStream /\ [Next]_vars => PendingReachesStream'
    BY <1>1, <1>3, <1>4
<1> QED
    BY StreamInvariant, <1>2, <1>5, PTL DEF Spec

\* An answered approval is not replayed unless the buffer task missed the answer.
THEOREM AnsweredGone == Spec => []AnsweredNotReplayed
<1>1. Init => AnsweredNotReplayed
    BY DEF Init, AnsweredNotReplayed
<1>2. StreamInv /\ AnsweredNotReplayed /\ [Next]_vars => AnsweredNotReplayed'
    <2> SUFFICES ASSUME TypeOK, AnsweredNotReplayed, [Next]_vars,
                        NEW k \in Keys, NEW i \in lines'[k], log'[i].kind = "request",
                        NEW j \in (i + 1)..seen', j \in 1..Len(log'), log'[j] = [kind |-> "resolved", of |-> log'[i].of]
                 PROVE  j \in lost'
        BY DEF StreamInv, AnsweredNotReplayed, IsPrompt, IsEvent
    <2>0. seen \in Nat /\ seen <= Len(log) /\ Len(log) \in Nat /\ \A n \in 1..Len(log) : log'[n] = log[n]
        BY SeenKept DEF LogKept
    <2>1. CASE UNCHANGED <<lines, seen, lost>>
        <3>1. i \in 1..seen /\ i \in 1..Len(log) /\ j \in 1..Len(log)
            BY <2>0, <2>1 DEF TypeOK
        <3>2. IsPrompt(i) /\ IsEvent(j, "resolved", log[i].of)
            BY <2>0, <3>1 DEF IsPrompt, IsEvent
        <3> QED
            BY <2>1, <3>2 DEF AnsweredNotReplayed
    <2>2. CASE KeeperStep
        <3>1. log' = log /\ lost \subseteq lost' /\ seen' \in seen..Len(log)
            BY <2>2, KeeperGrows DEF bus
        <3>2. CASE i \notin lines[k]
            <4>1. i = seen + 1 /\ seen' = seen + 1
                BY <2>2, <3>2, LinesComeHome
            <4> QED
                BY <2>0, <4>1
        <3>3. CASE i \in lines[k] /\ j <= seen
            BY <2>0, <3>1, <3>3 DEF AnsweredNotReplayed, IsPrompt, IsEvent, TypeOK
        <3>4. CASE i \in lines[k] /\ j > seen
            <4>1. seen' # seen
                BY <2>0, <3>1, <3>4
            <4>2. CASE Absorb
                <5>1. seen' = seen + 1 /\ j = seen + 1 /\ log[seen + 1].kind = "resolved" /\ log[seen + 1].of = log[i].of
                    BY <2>0, <3>1, <3>4, <4>2, AbsorbCases
                <5>2. Retire(log[i].of)
                    BY <4>2, <5>1, AbsorbCases
                <5>3. IsEvent(i, "request", log[i].of)
                    <6>1. i \in 1..Len(log) /\ log[i] \in Event
                        BY <2>0, <3>4, LogFacts DEF TypeOK
                    <6>2. log[i] = [kind |-> "request", of |-> log[i].of]
                        BY <3>1, <6>1 DEF Event, TurnKinds
                    <6> QED
                        BY <6>1, <6>2 DEF IsEvent
                <5> QED
                    BY <5>2, <5>3 DEF Retire
            <4>3. CASE BufferLag
                BY <2>0, <3>1, <3>4, <4>3 DEF BufferLag
            <4> QED
                BY <2>2, <4>1, <4>2, <4>3 DEF KeeperStep, CleanupTurn, Sweep
        <3> QED
            BY <2>0, <3>1, <3>2, <3>3, <3>4 DEF TypeOK
    <2> QED
        BY <2>1, <2>2, NextCases, PublisherKept, ServeKeeps DEF store, vars
<1> QED
    BY StreamInvariant, <1>1, <1>2, PTL DEF Spec

\* A connection reports a stall only while its turn is unreported.
THEOREM StallsUnreported == Spec => StallsOnlyUnreported
<1> DEFINE Stalls == \A s \in Streams : pc[s] = "live" /\ pc'[s] = "stalled" =>
        \A i \in (since[s] + 1)..Len(log) :
            log[i].of = target[s] /\ log[i].kind \in Terminals => i \in skipped[s]
<1>1. StreamInv /\ [Next]_vars => Stalls
    <2> SUFFICES ASSUME StreamInv, [Next]_vars, NEW s \in Streams, pc[s] = "live", pc'[s] = "stalled",
                        NEW i \in (since[s] + 1)..Len(log), log[i].of = target[s], log[i].kind \in Terminals
                 PROVE  i \in skipped[s]
        OBVIOUS
    <2>0. TypeOK /\ StreamSound(s)
        BY SoundAll DEF StreamInv
    <2>1. Serve(s)
        <3>1. PublisherStep \/ KeeperStep => pc' = pc
            BY <2>0, PublisherKept, KeeperGrows DEF conns
        <3>2. \A d \in Streams : Serve(d) /\ d # s => pc'[s] = pc[s]
            BY <2>0, OthersSame DEF Same
        <3> QED
            BY <3>1, <3>2, NextCases DEF vars, conns
    <2>2. Lapse(s) /\ s \notin grace
        BY <2>0, <2>1 DEF Serve, Subscribe, Replay, Forward, Lag, Lapse, Close, TypeOK
    <2>3. at[s] = Len(log)
        BY <2>0, <2>2, LogFacts DEF Lapse, Ahead, TypeOK
    <2> QED
        BY <2>0, <2>2, <2>3 DEF StreamSound
<1>2. [Next]_vars /\ Stalls => [Stalls]_vars
    OBVIOUS
<1> QED
    BY StreamInvariant, <1>1, PTL DEF Spec, StallsOnlyUnreported

\* The buffers keep the promise of ReplayLog: they forget the oldest lines
\* first, and a prompt early only when it was answered.
THEOREM ReplayKept == Spec => KeepsReplay
<1>1. Init => Promise!Init
    BY EmptySeq DEF Init, Promise!Init, Over
<1>2. StreamInv /\ [Next]_vars => Promise!Next
    <2> SUFFICES ASSUME StreamInv, [Next]_vars, NEW k \in Keys
                 PROVE  Promise!Add(k) \/ Promise!Answer(k) \/ Promise!GiveUp(k)
        BY OverKept DEF Promise!Next, StreamInv
    <2>0. /\ TypeOK /\ PromptsFollowStart /\ AtHome /\ DoomedAreOver
          /\ seen \in Nat /\ seen <= Len(log) /\ Len(log) \in Nat /\ lines[k] \subseteq 1..seen
        BY SeenKept DEF StreamInv, TypeOK
    <2> DEFINE prompts == {i \in Positions : IsPrompt(i)}
    <2>1. CASE lines'[k] = lines[k]
        BY <2>1 DEF Promise!Answer
    <2>2. CASE Absorb
        <3> DEFINE e == log[seen + 1]
        <3>1. /\ e \in Event /\ seen + 1 \in 1..Len(log)
              /\ \/ e.kind = "started" /\ Open(e.of, seen + 1)
                 \/ e.kind = "resolved" /\ Retire(e.of)
                 \/ e.kind \notin {"started", "resolved"} /\ Buffered(KeyOf(e), seen + 1)
            BY <2>0, <2>2, AbsorbCases
        <3>2. ASSUME e.kind = "started", Open(e.of, seen + 1), k = e.of
              PROVE  Promise!Add(k) \/ Promise!GiveUp(k)
            <4>1. e = [kind |-> "started", of |-> e.of] /\ k \in Turns
                BY <3>1, <3>2 DEF Event, TurnKinds
            <4>2. lines[k] \cap prompts = {}
                <5> SUFFICES ASSUME NEW i \in lines[k], i \in Positions, IsPrompt(i) PROVE FALSE
                    OBVIOUS
                <5>1. scope[log[i].of] = k
                    BY <2>0 DEF AtHome, KeyOf, IsPrompt
                <5>2. seen + 1 \in (i + 1)..Len(log) /\ IsEvent(seen + 1, "started", k)
                    BY <2>0, <3>1, <3>2, <4>1 DEF IsEvent
                <5> QED
                    BY <2>0, <4>1, <5>1, <5>2 DEF PromptsFollowStart
            <4>3. lines'[k] = {seen + 1} \/ lines'[k] = {}
                <5> HIDE DEF e
                <5> QED
                    BY <3>2, <2>0 DEF Open, TypeOK
            <4>4. lines'[k] = {seen + 1} => Promise!Add(k)
                BY <2>0 DEF Promise!Add, Promise!NewestOf
            <4>5. lines'[k] = {} => Promise!GiveUp(k)
                BY <4>2 DEF Promise!GiveUp
            <4> QED
                BY <4>3, <4>4, <4>5
        <3>3. ASSUME Open(e.of, seen + 1), k # e.of PROVE lines'[k] = lines[k]
            <4> HIDE DEF e
            <4> QED
                BY <2>0, <3>3 DEF Open, TypeOK
        <3>4. ASSUME Retire(e.of) PROVE Promise!Answer(k)
            <4>1. \A i \in lines[k] \ lines'[k] : IsEvent(i, "request", e.of)
                <5> HIDE DEF e
                <5> QED
                    BY <3>4 DEF Retire
            <4>2. lines'[k] \subseteq lines[k]
                <5> HIDE DEF e
                <5> QED
                    BY <3>4 DEF Retire
            <4>3. \A i \in lines[k] \ lines'[k] : i \in Positions /\ IsPrompt(i)
                BY <4>1 DEF IsEvent, IsPrompt, Positions
            <4> QED
                BY <4>2, <4>3 DEF Promise!Answer
        <3>5. ASSUME Buffered(KeyOf(e), seen + 1) PROVE Promise!Add(k) \/ lines'[k] = lines[k]
            <4> DEFINE h == KeyOf(e)
            <4>1. Buffered(h, seen + 1)
                BY <3>5
            <4> HIDE DEF e, h
            <4>2. CASE lines'[k] = lines[k]
                BY <4>2
            <4>3. ASSUME k = h, NEW out \in SUBSET lines[k],
                         lines' = [lines EXCEPT ![k] = (@ \ out) \cup {seen + 1}],
                         \A x \in out : \A y \in lines[k] \ out : x < y
                  PROVE  Promise!Add(k)
                <5>1. lines'[k] = (lines[k] \ out) \cup {seen + 1} /\ seen + 1 \notin lines[k]
                    BY <2>0, <4>3 DEF TypeOK
                <5>2. lines'[k] \ {seen + 1} = lines[k] \ out /\ lines[k] \ (lines[k] \ out) = out
                    BY <5>1
                <5>3. \A j \in lines[k] : j < seen + 1
                    BY <2>0
                <5> QED
                    BY <4>3, <5>1, <5>2, <5>3 DEF Promise!Add, Promise!NewestOf
            <4> QED
                BY <2>0, <4>1, <4>2, <4>3 DEF Buffered, TypeOK
        <3> QED
            BY <2>1, <3>1, <3>2, <3>3, <3>4, <3>5
    <2>3. ASSUME NEW t \in Turns, CleanupTurn(t) PROVE lines'[k] = lines[k] \/ Promise!GiveUp(k)
        BY <2>0, <2>3 DEF CleanupTurn, Drop, DoomedAreOver, Promise!GiveUp
    <2>4. ASSUME NEW h \in Keys, Sweep(h) PROVE lines'[k] = lines[k] \/ Promise!GiveUp(k)
        BY <2>0, <2>4 DEF Sweep, Drop, Prompting, Promise!GiveUp
    <2>5. BufferLag \/ PublisherStep \/ (\E s \in Streams : Serve(s)) \/ UNCHANGED vars => lines'[k] = lines[k]
        BY <2>0, PublisherKept, ServeKeeps DEF BufferLag, store, vars
    <2> QED
        BY <2>1, <2>2, <2>3, <2>4, <2>5, NextCases DEF KeeperStep
<1> QED
    BY StreamInvariant, <1>1, <1>2, PTL DEF Spec, KeepsReplay, Promise!Spec

-----------------------------------------------------------------------------
(* The size of the buffers *)

\* Every set of numbers has a least one.
LEMMA Least ==
    ASSUME NEW S, S \subseteq Nat, S # {}
    PROVE  \E x \in S : \A y \in S : x <= y
<1>1. PICK x \in S : \A y \in S : <<y, x>> \notin OpToRel(<, Nat)
    BY NatLessThanWellFounded, WFMin
<1>2. ASSUME NEW y \in S PROVE x <= y
    <2>1. x \in Nat /\ y \in Nat
        OBVIOUS
    <2>2. y < x => <<y, x>> \in OpToRel(<, Nat)
        BY <2>1 DEF OpToRel
    <2>3. ~(y < x)
        BY <1>1, <2>2
    <2> QED
        BY <2>1, <2>3
<1> QED
    BY <1>2

\* Evicting the oldest n, of one or two, makes room for n.
LEMMA EvictionMakesRoom ==
    ASSUME NEW S, NEW m \in Nat, S \subseteq 1..m, NEW n \in {1, 2}, Cardinality(S) >= n
    PROVE  Cardinality(S \ Oldest(S, n)) <= Cardinality(S) - n
<1>0. IsFiniteSet(S) /\ Cardinality(S) \in Nat /\ S \subseteq Nat
    <2>1. IsFiniteSet(1..m)
        BY FS_Interval
    <2>2. IsFiniteSet(S)
        BY <2>1, FS_Subset
    <2>3. S \subseteq Nat
        OBVIOUS
    <2> QED
        BY <2>2, <2>3, FS_CardinalityType
<1>7. S # {}
    BY FS_EmptySet
<1>1. PICK x \in S : \A y \in S : x <= y
    BY <1>0, <1>7, Least
<1> DEFINE R == S \ {x}
<1>2. IsFiniteSet(R) /\ Cardinality(R) = Cardinality(S) - 1 /\ R \subseteq S
    BY <1>0, FS_RemoveElement
<1>3. x \in Oldest(S, n)
    <2>1. {j \in S : j < x} = {}
        <3>1. ASSUME NEW j \in S PROVE ~(j < x)
            <4>1. j \in Nat /\ x \in Nat /\ x <= j
                BY <1>0, <1>1
            <4> QED
                BY <4>1
        <3> QED
            BY <3>1
    <2> QED
        BY <2>1, FS_EmptySet DEF Oldest
<1>4. CASE n = 1
    <2>1. S \ Oldest(S, n) \subseteq R
        BY <1>3
    <2>2. Cardinality(S \ Oldest(S, n)) <= Cardinality(R)
        BY <1>2, <2>1, FS_Subset
    <2> QED
        BY <1>2, <1>4, <2>2
<1>5. CASE n = 2
    <2>1. R # {} /\ R \subseteq Nat
        BY <1>0, <1>2, <1>5, FS_EmptySet
    <2>2. PICK z \in R : \A y \in R : z <= y
        BY <2>1, Least
    <2>3. z \in Oldest(S, n)
        <3> DEFINE before == {j \in S : j < z}
                   first == {x}
        <3>1. ASSUME NEW j \in R PROVE ~(j < z)
            <4>1. j \in Nat /\ z \in Nat /\ z <= j
                BY <2>1, <2>2
            <4> QED
                BY <4>1
        <3>2. before \in SUBSET first
            BY <3>1
        <3>3. IsFiniteSet(first) /\ Cardinality(first) = 1
            BY FS_Singleton
        <3> HIDE DEF before, first
        <3>4. IsFiniteSet(before) /\ Cardinality(before) <= Cardinality(first)
            BY <3>2, <3>3, FS_Subset
        <3>5. Cardinality(before) < 2
            BY <3>3, <3>4, FS_CardinalityType
        <3> QED
            BY <1>5, <2>2, <3>5 DEF Oldest, before
    <2> DEFINE Q == R \ {z}
    <2>4. IsFiniteSet(Q) /\ Cardinality(Q) = Cardinality(R) - 1
        BY <1>2, FS_RemoveElement
    <2>5. S \ Oldest(S, n) \subseteq Q
        BY <1>3, <2>3
    <2>6. Cardinality(S \ Oldest(S, n)) <= Cardinality(Q)
        BY <2>4, <2>5, FS_Subset
    <2> HIDE DEF R, Q
    <2> QED
        BY <1>0, <1>2, <1>5, <2>4, <2>6
<1> QED
    BY <1>4, <1>5

\* The lines that are pushed without a limit, as far as the buffer task got.
Unlimited == Terminals \cup {"quality"}
Extra(k) == {i \in 1..seen : log[i].kind \in Unlimited /\ log[i].of = k}
Size(k) == Cardinality(lines[k]) + (IF k \in clipped THEN 1 ELSE 0)
SizeInv == \A k \in Keys : Size(k) <= MaxBuffer + Cardinality(Extra(k))

\* A turn has one outcome and one snapshot at most, the latter after the former.
OutcomesOnce ==
    \A t \in Turns :
        /\ phase[t] \in {"new", "running"} =>
             \A i \in Positions : ~(log[i].kind \in Unlimited /\ log[i].of = t)
        /\ phase[t] = "done" => \A i \in Positions : ~IsEvent(i, "quality", t)
        /\ \A i, j \in Positions :
             /\ log[i].kind \in Terminals /\ log[j].kind \in Terminals /\ log[i].of = t /\ log[j].of = t => i = j
             /\ IsEvent(i, "quality", t) /\ IsEvent(j, "quality", t) => i = j

\* Buffers and what is counted of them are finite.
Finite(k) ==
    /\ IsFiniteSet(lines[k]) /\ Cardinality(lines[k]) \in Nat /\ Size(k) \in Nat
    /\ IsFiniteSet(Extra(k)) /\ Cardinality(Extra(k)) \in Nat
AllFinite == \A k \in Keys : Finite(k)

LEMMA SizesFinite == TypeOK => AllFinite
<1> SUFFICES ASSUME TypeOK, NEW k \in Keys PROVE Finite(k)
    BY DEF AllFinite
<1>1. IsFiniteSet(1..seen)
    <2>1. seen \in Int
        BY LogFacts DEF TypeOK
    <2> QED
        BY <2>1, FS_Interval
<1>2. lines[k] \subseteq 1..seen /\ Extra(k) \subseteq 1..seen
    BY DEF TypeOK, Extra
<1>3. IsFiniteSet(lines[k]) /\ IsFiniteSet(Extra(k))
    BY <1>1, <1>2, FS_Subset
<1>4. Cardinality(lines[k]) \in Nat /\ Cardinality(Extra(k)) \in Nat
    BY <1>3, FS_CardinalityType
<1> QED
    BY <1>3, <1>4 DEF Size, Finite

\* A push with a limit leaves the buffer no larger than it was, or than the limit.
LEMMA PushSize ==
    ASSUME TypeOK, NEW k \in Keys, EvictAndPush(k, seen + 1)
    PROVE  Size(k)' <= Size(k) \/ Size(k)' <= MaxBuffer
<1> DEFINE full == Size(k) >= MaxBuffer
           n == IF k \in clipped THEN 1 ELSE 2
           out == IF full THEN Oldest(lines[k], n) ELSE {}
           rest == lines[k] \ out
<1>0. /\ lines[k] \subseteq 1..seen /\ seen \in Nat /\ MaxBuffer \in Nat /\ MaxBuffer >= 2
      /\ IsFiniteSet(lines[k]) /\ Cardinality(lines[k]) \in Nat
    BY LogFacts, SizesFinite, StreamAssumption DEF TypeOK, AllFinite, Finite
<1>1. /\ lines'[k] = rest \cup {seen + 1}
      /\ clipped' = IF full THEN clipped \cup {k} ELSE clipped
    BY DEF EvictAndPush, Size, TypeOK
<1>2. IsFiniteSet(rest) /\ Cardinality(rest) \in Nat
    BY <1>0, FS_Subset, FS_CardinalityType
<1>3. Cardinality(lines'[k]) <= Cardinality(rest) + 1 /\ Cardinality(lines'[k]) \in Nat
    <2> HIDE DEF rest
    <2>1. IsFiniteSet(lines'[k]) /\ Cardinality(lines'[k]) <= Cardinality(rest) + 1
        BY <1>1, <1>2, FS_AddElement
    <2> QED
        BY <2>1, FS_CardinalityType
<1>4. CASE full
    <2>1. Cardinality(lines[k]) >= n
        BY <1>0, <1>4 DEF Size
    <2>2. Cardinality(rest) <= Cardinality(lines[k]) - n
        BY <1>0, <1>4, <2>1, EvictionMakesRoom
    <2>3. k \in clipped'
        BY <1>1, <1>4
    <2> HIDE DEF rest
    <2> QED
        BY <1>0, <1>2, <1>3, <2>2, <2>3 DEF Size
<1>5. CASE ~full
    <2>1. rest = lines[k] /\ clipped' = clipped
        BY <1>1, <1>5
    <2> HIDE DEF rest
    <2> QED
        BY <1>0, <1>3, <1>5, <2>1 DEF Size
<1> QED
    BY <1>4, <1>5

\* An event met stays counted.
LEMMA ExtraGrows ==
    ASSUME TypeOK, TypeOK', [Next]_vars, NEW k \in Keys
    PROVE  /\ Cardinality(Extra(k)) \in Nat /\ Cardinality(Extra(k)') \in Nat
           /\ Extra(k) \subseteq Extra(k)'
           /\ Cardinality(Extra(k)) <= Cardinality(Extra(k)')
<1>1. TypeOK' => AllFinite'
    BY SizesFinite, PTL
<1>2. IsFiniteSet(Extra(k)') /\ Cardinality(Extra(k)') \in Nat /\ Cardinality(Extra(k)) \in Nat
    BY <1>1, SizesFinite DEF AllFinite, Finite
<1>3. Extra(k) \subseteq Extra(k)'
    <2>1. /\ seen \in Nat /\ seen' \in Nat /\ seen <= seen'
          /\ \A i \in 1..seen : log'[i] = log[i]
        BY SeenKept DEF LogKept
    <2> QED
        BY <2>1 DEF Extra
<1> QED
    BY <1>2, <1>3, FS_Subset

\* What becomes of the size of a buffer when an event is absorbed.
Sized(k) ==
    \/ Size(k)' <= Size(k)
    \/ Size(k)' <= MaxBuffer
    \/ Size(k)' <= Size(k) + 1 /\ Cardinality(Extra(k)') = Cardinality(Extra(k)) + 1

LEMMA AbsorbSize ==
    ASSUME TypeOK, TypeOK', Absorb, NEW k \in Keys
    PROVE  Sized(k)
<1> DEFINE e == log[seen + 1]
           h == KeyOf(e)
<1>0. seen' = seen + 1 /\ log' = log /\ seen \in Nat /\ MaxBuffer \in Nat \ {0, 1} /\ k \in DOMAIN lines
    BY LogFacts, StreamAssumption DEF Absorb, bus, TypeOK
<1>1. Finite(k) /\ Finite(k)'
    <2>1. TypeOK' => AllFinite'
        BY SizesFinite, PTL
    <2> QED
        BY <2>1, SizesFinite DEF AllFinite
<1>2. CASE lines'[k] = lines[k] /\ (k \in clipped' <=> k \in clipped)
    BY <1>1, <1>2 DEF Sized, Size, Finite
<1>3. CASE Open(h, seen + 1)
    <2>1. CASE h = k
        <3>1. lines'[k] \subseteq {seen + 1} /\ k \notin clipped'
            BY <1>0, <1>3, <2>1 DEF Open
        <3>2. IsFiniteSet({seen + 1}) /\ Cardinality({seen + 1}) = 1
            BY FS_Singleton
        <3>3. Cardinality(lines'[k]) <= 1
            BY <3>1, <3>2, FS_Subset
        <3> QED
            BY <1>0, <1>1, <3>1, <3>3 DEF Sized, Size, Finite
    <2>2. CASE h # k
        <3>1. lines'[k] = lines[k] /\ (k \in clipped' <=> k \in clipped)
            BY <1>0, <1>3, <2>2 DEF Open
        <3> QED
            BY <1>2, <3>1
    <2> QED
        BY <2>1, <2>2
<1>4. CASE EvictAndPush(h, seen + 1)
    <2>1. CASE h = k
        BY <1>4, <2>1, PushSize DEF Sized
    <2>2. CASE h # k
        <3>1. lines'[k] = lines[k] /\ (k \in clipped' <=> k \in clipped)
            BY <1>0, <1>4, <2>2 DEF EvictAndPush
        <3> QED
            BY <1>2, <3>1
    <2> QED
        BY <2>1, <2>2
<1>5. CASE e.kind \in Unlimited /\ Push(h, seen + 1)
    <2>1. CASE h = k
        <3>1. e.of = k
            BY <1>5, <2>1 DEF KeyOf, Unlimited, Terminals
        <3>2. Extra(k)' = Extra(k) \cup {seen + 1} /\ seen + 1 \notin Extra(k)
            BY <1>0, <1>5, <3>1 DEF Extra
        <3>3. Cardinality(Extra(k)') = Cardinality(Extra(k)) + 1
            BY <1>1, <3>2, FS_AddElement DEF Finite
        <3>4. lines'[k] = lines[k] \cup {seen + 1} /\ clipped' = clipped
            BY <1>0, <1>5, <2>1 DEF Push
        <3>5. Cardinality(lines'[k]) <= Cardinality(lines[k]) + 1
            <4>1. IsFiniteSet(lines[k]) /\ Cardinality(lines[k]) \in Nat
                BY <1>1 DEF Finite
            <4>2. \/ Cardinality(lines[k] \cup {seen + 1}) = Cardinality(lines[k])
                  \/ Cardinality(lines[k] \cup {seen + 1}) = Cardinality(lines[k]) + 1
                BY <4>1, FS_AddElement
            <4> QED
                BY <3>4, <4>1, <4>2
        <3> QED
            BY <1>1, <3>3, <3>4, <3>5 DEF Sized, Size, Finite
    <2>2. CASE h # k
        <3>1. lines'[k] = lines[k] /\ clipped' = clipped
            BY <1>0, <1>5, <2>2 DEF Push
        <3> QED
            BY <1>2, <3>1
    <2> QED
        BY <2>1, <2>2
<1>6. CASE Retire(e.of)
    <2>1. lines'[k] \subseteq lines[k] /\ clipped' = clipped
        BY <1>6 DEF Retire
    <2>2. Cardinality(lines'[k]) <= Cardinality(lines[k])
        BY <1>1, <2>1, FS_Subset DEF Finite
    <2> QED
        BY <1>1, <2>1, <2>2 DEF Sized, Size, Finite
<1>7. CASE NotBuffered
    BY <1>2, <1>7 DEF NotBuffered
<1>8. \/ Open(h, seen + 1) \/ EvictAndPush(h, seen + 1)
      \/ e.kind \in Unlimited /\ Push(h, seen + 1)
      \/ Retire(e.of) \/ NotBuffered
    BY DEF Absorb, Buffering, Unlimited, Terminals
<1> HIDE DEF e, h
<1> QED
    BY <1>3, <1>4, <1>5, <1>6, <1>7, <1>8

\* SizeInv is preserved.
LEMMA SizeStep ==
    ASSUME TypeOK, TypeOK', SizeInv, [Next]_vars
    PROVE  SizeInv'
<1>1. TypeOK' => AllFinite'
    BY SizesFinite, PTL
<1> SUFFICES ASSUME NEW k \in Keys PROVE Sized(k)
    <2>1. ASSUME NEW k \in Keys, Sized(k) PROVE Size(k)' <= MaxBuffer + Cardinality(Extra(k)')
        <3>1. Size(k) \in Nat /\ Size(k)' \in Nat /\ MaxBuffer \in Nat
            BY <1>1, SizesFinite, StreamAssumption DEF AllFinite, Finite
        <3>2. /\ Cardinality(Extra(k)) \in Nat /\ Cardinality(Extra(k)') \in Nat
              /\ Cardinality(Extra(k)) <= Cardinality(Extra(k)')
            BY ExtraGrows
        <3>3. Size(k) <= MaxBuffer + Cardinality(Extra(k))
            BY DEF SizeInv
        <3> QED
            BY <2>1, <3>1, <3>2, <3>3 DEF Sized
    <2> QED
        BY <2>1 DEF SizeInv
<1>2. Size(k) \in Nat /\ Size(k)' \in Nat /\ MaxBuffer \in Nat
    BY <1>1, SizesFinite, StreamAssumption DEF AllFinite, Finite
<1>3. CASE Absorb
    BY <1>3, AbsorbSize
<1>4. CASE UNCHANGED <<lines, clipped>>
    BY <1>2, <1>4 DEF Sized, Size
<1>5. ASSUME NEW S, Drop(S) PROVE Sized(k)
    <2>1. CASE k \in S
        <3>1. lines'[k] = {} /\ k \notin clipped'
            BY <1>5, <2>1 DEF Drop
        <3> QED
            BY <1>2, <3>1, FS_EmptySet DEF Sized, Size
    <2>2. CASE k \notin S
        <3>1. lines'[k] = lines[k] /\ (k \in clipped' <=> k \in clipped)
            BY <1>5, <2>2 DEF Drop
        <3> QED
            BY <1>2, <3>1 DEF Sized, Size
    <2> QED
        BY <2>1, <2>2
<1>6. BufferLag => UNCHANGED <<lines, clipped>>
    BY DEF BufferLag
<1>7. (\E t \in Turns : CleanupTurn(t)) \/ (\E h \in Keys : Sweep(h)) => \E S : Drop(S)
    BY DEF CleanupTurn, Sweep
<1> QED
    BY <1>3, <1>4, <1>5, <1>6, <1>7, NextCases, PublisherKept, ServeKeeps DEF KeeperStep, store, vars

\* Publishing an event that is neither an outcome nor a snapshot of a turn, or
\* the first, keeps OutcomesOnce.
LEMMA PublishOnce ==
    ASSUME TypeOK, OutcomesOnce, NEW kind, NEW x, [kind |-> kind, of |-> x] \in Event, Publish(kind, x),
           kind \in Terminals => phase[x] = "running" /\ phase'[x] \in {"done", "over"},
           kind = "quality" => phase[x] = "done" /\ phase'[x] = "over",
           \A t \in Turns : /\ phase'[t] \in {"new", "running"} => phase[t] \in {"new", "running"}
                            /\ phase'[t] = "done" => phase[t] \in {"running", "done"}
    PROVE  OutcomesOnce'
<1>1. /\ Len(log') = Len(log) + 1 /\ Len(log) \in Nat
      /\ log'[Len(log) + 1] = [kind |-> kind, of |-> x]
      /\ \A i \in 1..Len(log) : log'[i] = log[i]
    BY PublishKept, LogFacts DEF LogKept
<1>2. \A i \in 1..Len(log') : i \in 1..Len(log) \/ i = Len(log) + 1
    BY <1>1
<1> SUFFICES ASSUME NEW t \in Turns
             PROVE  /\ phase'[t] \in {"new", "running"} =>
                         \A i \in 1..Len(log') : ~(log'[i].kind \in Unlimited /\ log'[i].of = t)
                    /\ phase'[t] = "done" => \A i \in 1..Len(log') : log'[i] # [kind |-> "quality", of |-> t]
                    /\ \A i, j \in 1..Len(log') :
                         /\ log'[i].kind \in Terminals /\ log'[j].kind \in Terminals
                              /\ log'[i].of = t /\ log'[j].of = t => i = j
                         /\ log'[i] = [kind |-> "quality", of |-> t] /\ log'[j] = [kind |-> "quality", of |-> t] => i = j
    BY DEF OutcomesOnce, Positions, IsEvent
<1> USE DEF Terminals, Unlimited
<1>3. ASSUME phase'[t] \in {"new", "running"}, NEW i \in 1..Len(log')
      PROVE  ~(log'[i].kind \in Unlimited /\ log'[i].of = t)
    <2>1. CASE i \in 1..Len(log)
        BY <1>1, <1>3, <2>1 DEF OutcomesOnce, Positions
    <2>2. CASE i = Len(log) + 1
        BY <1>1, <1>3, <2>2
    <2> QED
        BY <1>2, <2>1, <2>2
<1>4. ASSUME phase'[t] = "done", NEW i \in 1..Len(log')
      PROVE  log'[i] # [kind |-> "quality", of |-> t]
    <2>1. CASE i \in 1..Len(log)
        <3>1. log'[i] = log[i]
            BY <1>1, <2>1
        <3>2. phase[t] = "running" => log[i] # [kind |-> "quality", of |-> t]
            BY <2>1 DEF OutcomesOnce, Positions
        <3>3. phase[t] = "done" => log[i] # [kind |-> "quality", of |-> t]
            BY <2>1 DEF OutcomesOnce, Positions, IsEvent
        <3> QED
            BY <1>4, <3>1, <3>2, <3>3
    <2>2. CASE i = Len(log) + 1
        BY <1>1, <1>4, <2>2
    <2> QED
        BY <1>2, <2>1, <2>2
<1>5. ASSUME NEW i \in 1..Len(log'), NEW j \in 1..Len(log'),
             log'[i].kind \in Terminals, log'[j].kind \in Terminals, log'[i].of = t, log'[j].of = t
      PROVE  i = j
    <2>1. ASSUME kind \in Terminals, x = t, NEW n \in 1..Len(log) PROVE ~(log'[n].kind \in Terminals /\ log'[n].of = t)
        BY <1>1, <2>1 DEF OutcomesOnce, Positions
    <2>2. CASE i \in 1..Len(log) /\ j \in 1..Len(log)
        BY <1>1, <1>5, <2>2 DEF OutcomesOnce, Positions
    <2>3. CASE i = Len(log) + 1 /\ j \in 1..Len(log)
        BY <1>1, <1>5, <2>1, <2>3
    <2>4. CASE j = Len(log) + 1 /\ i \in 1..Len(log)
        BY <1>1, <1>5, <2>1, <2>4
    <2> QED
        BY <1>2, <2>2, <2>3, <2>4
<1>6. ASSUME NEW i \in 1..Len(log'), NEW j \in 1..Len(log'),
             log'[i] = [kind |-> "quality", of |-> t], log'[j] = [kind |-> "quality", of |-> t]
      PROVE  i = j
    <2>1. ASSUME kind = "quality", x = t, NEW n \in 1..Len(log) PROVE log'[n] # [kind |-> "quality", of |-> t]
        BY <1>1, <2>1 DEF OutcomesOnce, Positions, IsEvent
    <2>2. CASE i \in 1..Len(log) /\ j \in 1..Len(log)
        BY <1>1, <1>6, <2>2 DEF OutcomesOnce, Positions, IsEvent
    <2>3. CASE i = Len(log) + 1 /\ j \in 1..Len(log)
        BY <1>1, <1>6, <2>1, <2>3
    <2>4. CASE j = Len(log) + 1 /\ i \in 1..Len(log)
        BY <1>1, <1>6, <2>1, <2>4
    <2> QED
        BY <1>2, <2>2, <2>3, <2>4
<1> QED
    BY <1>3, <1>4, <1>5, <1>6

\* OutcomesOnce is preserved.
LEMMA OutcomesStep ==
    ASSUME TypeOK, OutcomesOnce, [Next]_vars
    PROVE  OutcomesOnce'
<1>0. phase \in [Turns -> {"new", "running", "done", "over"}]
    BY DEF TypeOK
<1> DEFINE Forth(t) == /\ phase'[t] \in {"new", "running"} => phase[t] \in {"new", "running"}
                       /\ phase'[t] = "done" => phase[t] \in {"running", "done"}
<1>1. ASSUME NEW u \in Turns, Start(u) \/ Chunk(u) \/ Finish(u) \/ Review(u)
      PROVE  OutcomesOnce'
    <2>1. \A kind \in TurnKinds : [kind |-> kind, of |-> u] \in Event
        BY DEF Event
    <2>2. \A t \in Turns : Forth(t)
        BY <1>0, <1>1 DEF Start, Chunk, Finish, Review, ToPhase
    <2>3. CASE UNCHANGED log
        BY <2>2, <2>3 DEF OutcomesOnce, Positions, IsEvent, Unlimited
    <2>4. ASSUME NEW kind \in TurnKinds, Publish(kind, u),
                 kind \in Terminals => phase[u] = "running" /\ phase'[u] \in {"done", "over"},
                 kind = "quality" => phase[u] = "done" /\ phase'[u] = "over"
          PROVE  OutcomesOnce'
        BY <2>1, <2>2, <2>4, PublishOnce
    <2> HIDE DEF Forth
    <2>5. CASE Start(u)
        BY <2>3, <2>4, <2>5 DEF Start, TurnKinds, Terminals
    <2>6. CASE Chunk(u)
        BY <2>4, <2>6 DEF Chunk, TurnKinds, Terminals
    <2>7. CASE Finish(u)
        BY <1>0, <2>4, <2>7 DEF Finish, ToPhase, TurnKinds, Terminals
    <2>8. CASE Review(u)
        BY <1>0, <2>4, <2>8 DEF Review, ToPhase, TurnKinds, Terminals
    <2> QED
        BY <1>1, <2>5, <2>6, <2>7, <2>8
<1>2. ASSUME NEW a \in Approvals, Prompt(a) \/ Resolve(a)
      PROVE  OutcomesOnce'
    <2>1. \A kind \in {"request", "resolved"} : [kind |-> kind, of |-> a] \in Event
        BY DEF Event
    <2>2. phase' = phase /\ \A t \in Turns : Forth(t)
        BY <1>2 DEF Prompt, Resolve
    <2>3. ASSUME NEW kind \in {"request", "resolved"}, Publish(kind, a) PROVE OutcomesOnce'
        BY <2>1, <2>2, <2>3, PublishOnce DEF Terminals
    <2> QED
        BY <1>2, <2>3 DEF Prompt, Resolve
<1>3. CASE UNCHANGED bus
    BY <1>3 DEF bus, OutcomesOnce, Positions, IsEvent
<1>4. KeeperStep => UNCHANGED bus
    BY KeeperGrows
<1> QED
    BY <1>1, <1>2, <1>3, <1>4, NextCases, ServeKeeps DEF PublisherStep, vars

\* No more than an outcome and a snapshot were pushed without a limit.
LEMMA TwoAtMost ==
    ASSUME TypeOK, OutcomesOnce, NEW k \in Keys
    PROVE  Cardinality(Extra(k)) <= 2
<1> DEFINE A == {i \in Extra(k) : log[i].kind \in Terminals}
           B == Extra(k) \ A
<1>0. Extra(k) \subseteq Positions /\ IsFiniteSet(Extra(k))
    <2>1. seen \in Nat /\ seen <= Len(log) /\ Len(log) \in Nat
        BY LogFacts DEF TypeOK
    <2>2. Extra(k) \subseteq Positions
        BY <2>1 DEF Extra, Positions
    <2> QED
        BY <2>2, SizesFinite DEF AllFinite, Finite
<1>1. CASE k \notin Turns
    <2>1. \A i \in Positions : log[i] \in Event
        BY LogFacts DEF Positions
    <2>2. Extra(k) = {}
        BY <1>0, <1>1, <2>1, EventFacts DEF Extra, Unlimited, Terminals, TurnKinds
    <2> QED
        BY <2>2, FS_EmptySet
<1>2. CASE k \in Turns
    <2>1. \A i, j \in A : i = j
        BY <1>0, <1>2 DEF OutcomesOnce, Extra
    <2>2. \A i, j \in B : i = j
        <3>1. ASSUME NEW i \in B PROVE i \in Positions /\ IsEvent(i, "quality", k)
            <4>1. log[i] \in Event /\ log[i].kind = "quality" /\ log[i].of = k /\ i \in Positions
                BY <1>0, LogFacts DEF Extra, Unlimited, Positions
            <4>2. log[i] = [kind |-> "quality", of |-> k]
                BY <4>1 DEF Event
            <4> QED
                BY <4>1, <4>2 DEF IsEvent, Positions
        <3> QED
            BY <1>2, <3>1 DEF OutcomesOnce
    <2>3. ASSUME NEW S \in SUBSET Extra(k), \A i, j \in S : i = j
          PROVE  IsFiniteSet(S) /\ Cardinality(S) \in Nat /\ Cardinality(S) <= 1
        <3>1. S = {} \/ \E i : S = {i}
            BY <2>3
        <3>2. IsFiniteSet(S)
            BY <1>0, FS_Subset
        <3>3. Cardinality(S) = 0 \/ Cardinality(S) = 1
            BY <3>1, <3>2, FS_EmptySet, FS_Singleton
        <3> QED
            BY <3>2, <3>3
    <2>4. Extra(k) = A \cup B /\ A \subseteq Extra(k) /\ B \subseteq Extra(k) /\ A \cap B = {}
        OBVIOUS
    <2> HIDE DEF A, B
    <2>5. /\ IsFiniteSet(A) /\ Cardinality(A) \in Nat /\ Cardinality(A) <= 1
          /\ IsFiniteSet(B) /\ Cardinality(B) \in Nat /\ Cardinality(B) <= 1
        BY <2>1, <2>2, <2>3, <2>4
    <2>6. Cardinality(A \cup B) = Cardinality(A) + Cardinality(B) - Cardinality({})
        BY <2>4, <2>5, FS_Union
    <2> QED
        BY <2>4, <2>5, <2>6, FS_EmptySet
<1> QED
    BY <1>1, <1>2

\* A buffer exceeds MAX_BUFFER_PER_TURN by an outcome and a snapshot at most,
\* for any number of turns and events.
THEOREM BuffersBounded == Spec => []BufferBounded
<1>1. Init => SizeInv /\ OutcomesOnce
    <2> SUFFICES ASSUME Init PROVE SizeInv /\ OutcomesOnce
        OBVIOUS
    <2>1. Len(log) = 0 /\ 1..Len(log) = {} /\ seen = 0 /\ 1..seen = {}
        BY EmptySeq DEF Init
    <2>2. OutcomesOnce
        BY <2>1 DEF OutcomesOnce, Positions
    <2>3. \A k \in Keys : lines[k] = {} /\ k \notin clipped /\ Extra(k) = {}
        BY <2>1 DEF Init, Extra
    <2>4. SizeInv
        BY <2>3, FS_EmptySet, StreamAssumption DEF SizeInv, Size
    <2> QED
        BY <2>2, <2>4
<1>2. TypeOK /\ TypeOK' /\ SizeInv /\ OutcomesOnce /\ [Next]_vars => SizeInv' /\ OutcomesOnce'
    BY SizeStep, OutcomesStep
<1>3. TypeOK /\ SizeInv /\ OutcomesOnce => BufferBounded
    <2> SUFFICES ASSUME TypeOK, SizeInv, OutcomesOnce, NEW k \in Keys PROVE Size(k) <= MaxBuffer + 2
        BY DEF BufferBounded, Size
    <2>1. Cardinality(Extra(k)) <= 2 /\ Cardinality(Extra(k)) \in Nat /\ Size(k) \in Nat /\ MaxBuffer \in Nat
        BY TwoAtMost, SizesFinite, StreamAssumption DEF AllFinite, Finite
    <2> QED
        BY <2>1 DEF SizeInv
<1>4. Spec => []TypeOK
    <2>1. StreamInv => TypeOK
        BY DEF StreamInv
    <2> QED
        BY <2>1, StreamInvariant, PTL
<1> QED
    BY <1>1, <1>2, <1>3, <1>4, PTL DEF Spec

=============================================================================
