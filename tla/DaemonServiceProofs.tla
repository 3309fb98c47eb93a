------------------------ MODULE DaemonServiceProofs ------------------------
(***************************************************************************)
(* Proofs about DaemonService: the inductive invariant DaemonInv, and the   *)
(* two safety properties, one of answers and one of the shutdown.           *)
(***************************************************************************)
EXTENDS DaemonService, SequenceTheorems, FiniteSetTheorems, TLAPS

USE DEF Up

\* The actions of one client, its connection and its jobs.
ClientNext(c) ==
    \/ Connect(c) \/ Call(c) \/ Receive(c) \/ TimeOut(c) \/ Leave(c)
    \/ Admit(c) \/ Read(c) \/ Close(c)
    \/ \E k \in Calls : Handle(c, k) \/ Take(c, k) \/ JobEnds(c, k)

\* Initially the invariant holds.
LEMMA InitInv == Init => DaemonInv
<1> SUFFICES ASSUME Init PROVE DaemonInv
    OBVIOUS
<1> USE DaemonAssumption, EmptySeq DEF Init, Calls
<1>1. TypeOK
    BY DEF TypeOK, JobStates
<1>2. ASSUME NEW c \in Clients PROVE HandledOnce(c) /\ InStep(c) /\ Served(c)
    BY DEF HandledOnce, InStep, Served
<1> QED
    BY <1>1, <1>2 DEF DaemonInv

\* Setting the state of a job keeps its type.
LEMMA ToJobType ==
    ASSUME job \in [Clients -> [Calls -> JobStates]],
           NEW c \in Clients, NEW k \in Calls, NEW s \in JobStates, ToJob(c, k, s)
    PROVE  job' \in [Clients -> [Calls -> JobStates]]
<1>1. [job[c] EXCEPT ![k] = s] \in [Calls -> JobStates]
    OBVIOUS
<1> QED
    BY <1>1 DEF ToJob

\* ... and leaves every other job.
LEMMA ToJobMoves ==
    ASSUME job \in [Clients -> [Calls -> JobStates]],
           NEW c \in Clients, NEW k \in Calls, NEW s, ToJob(c, k, s),
           NEW d \in Clients, NEW l \in Calls, d # c \/ l # k
    PROVE  job'[d][l] = job[d][l]
<1>1. job' = [job EXCEPT ![c] = [job[c] EXCEPT ![k] = s]]
    BY DEF ToJob
<1>2. CASE d = c
    BY <1>1, <1>2
<1>3. CASE d # c
    BY <1>1, <1>3
<1> QED
    BY <1>2, <1>3

\* Types are preserved.
LEMMA NextTypeOK == TypeOK /\ [Next]_vars => TypeOK'
<1> SUFFICES ASSUME TypeOK, [Next]_vars PROVE TypeOK'
    OBVIOUS
<1> USE DaemonAssumption DEF TypeOK, Calls
<1>1. ASSUME NEW c \in Clients, Connect(c) \/ Admit(c) \/ Close(c) PROVE TypeOK'
    BY <1>1 DEF Connect, Admit, Close, ToConn, client
<1>2. ASSUME NEW c \in Clients, Call(c) PROVE TypeOK'
    <2>1. made[c] + 1 \in 0..MaxCalls
        BY <1>2 DEF Call
    <2>2. /\ made' = [made EXCEPT ![c] = made[c] + 1] /\ waiting' = [waiting EXCEPT ![c] = made[c] + 1]
          /\ UNCHANGED <<phase, left, missed, got, server>>
        BY <1>2 DEF Call
    <2>3. made' \in [Clients -> 0..MaxCalls] /\ waiting' \in [Clients -> 0..MaxCalls]
        BY <2>1, <2>2
    <2> QED
        BY <2>2, <2>3 DEF server
<1>3. ASSUME NEW c \in Clients, Receive(c) PROVE TypeOK'
    <2>0. outbox[c] \in Seq(1..MaxCalls) /\ outbox[c] # <<>> /\ waiting[c] \in 1..MaxCalls
        BY <1>3 DEF Receive
    <2>1. Head(outbox[c]) \in 1..MaxCalls /\ Tail(outbox[c]) \in Seq(1..MaxCalls)
        BY <2>0, HeadTailProperties
    <2>2. got' \in [Clients -> [1..MaxCalls -> 0..MaxCalls]]
        <3>1. [got[c] EXCEPT ![waiting[c]] = Head(outbox[c])] \in [1..MaxCalls -> 0..MaxCalls]
            BY <2>0, <2>1
        <3> QED
            BY <1>3, <3>1 DEF Receive
    <2>3. outbox' \in [Clients -> Seq(1..MaxCalls)]
        BY <1>3, <2>1 DEF Receive
    <2>4. waiting' \in [Clients -> 0..MaxCalls]
        BY <1>3 DEF Receive
    <2> QED
        BY <1>3, <2>2, <2>3, <2>4 DEF Receive
<1>4. ASSUME NEW c \in Clients, TimeOut(c) PROVE TypeOK'
    BY <1>4 DEF TimeOut, server
<1>5. ASSUME NEW c \in Clients, Leave(c) PROVE TypeOK'
    <2>1. outbox' = [outbox EXCEPT ![c] = <<>>] /\ <<>> \in Seq(1..MaxCalls)
        BY <1>5, EmptySeq DEF Leave
    <2>2. outbox' \in [Clients -> Seq(1..MaxCalls)]
        BY <2>1
    <2>3. left' \subseteq Clients /\ waiting' \in [Clients -> 0..MaxCalls]
        BY <1>5 DEF Leave
    <2> QED
        BY <1>5, <2>2, <2>3 DEF Leave
<1>6. ASSUME NEW c \in Clients, Read(c) PROVE TypeOK'
    <2>1. read' \in [Clients -> 0..MaxCalls] /\ read[c] + 1 \in 1..MaxCalls
        BY <1>6 DEF Read
    <2>2. handling' \in [Clients -> SUBSET (1..MaxCalls)]
        BY <1>6, <2>1 DEF Read
    <2> QED
        BY <1>6, <2>1, <2>2 DEF Read, client
<1>7. ASSUME NEW c \in Clients, NEW k \in Calls, Handle(c, k) PROVE TypeOK'
    <2>1. job' \in [Clients -> [Calls -> JobStates]]
        BY <1>7, ToJobType DEF Handle, JobStates
    <2>2. Append(outbox[c], k) \in Seq(Calls)
        BY AppendProperties
    <2>3. outbox' \in [Clients -> Seq(Calls)]
        BY <1>7, <2>2 DEF Handle, Answer
    <2>4. handling' \in [Clients -> SUBSET Calls]
        BY <1>7 DEF Handle, Answer
    <2> QED
        BY <1>7, <2>1, <2>3, <2>4 DEF Handle, Answer, client
<1>8. ASSUME NEW c \in Clients, NEW k \in Calls, Take(c, k) \/ JobEnds(c, k) PROVE TypeOK'
    <2>1. job' \in [Clients -> [Calls -> JobStates]]
        BY <1>8, ToJobType DEF Take, JobEnds, JobStates
    <2> QED
        BY <1>8, <2>1 DEF Take, JobEnds, client
<1>9. ASSUME Signal \/ Join \/ Drained PROVE TypeOK'
    BY <1>9 DEF Signal, Join, Drained, ToPhase, client, server
<1>10. ASSUME NEW p \in {"exited", "failed"}, Return(p) PROVE TypeOK'
    <2>1. job' \in [Clients -> [Calls -> JobStates]]
        BY <1>10 DEF Return, JobStates
    <2>2. outbox' \in [Clients -> Seq(Calls)]
        BY <1>10, EmptySeq DEF Return
    <2> QED
        BY <1>10, <2>1, <2>2 DEF Return, ToPhase
<1>11. ASSUME UNCHANGED vars PROVE TypeOK'
    BY <1>11 DEF vars, client, server
<1> QED
    BY <1>1, <1>2, <1>3, <1>4, <1>5, <1>6, <1>7, <1>8, <1>9, <1>10, <1>11 DEF Next, Main, Exit, AcceptFails

\* What belongs to client d is as it was.
Same(d) ==
    /\ made'[d] = made[d] /\ waiting'[d] = waiting[d] /\ missed'[d] = missed[d] /\ got'[d] = got[d]
    /\ read'[d] = read[d] /\ handling'[d] = handling[d] /\ outbox'[d] = outbox[d]
    /\ (d \in left' <=> d \in left)

\* A client's step touches nothing of another's, and no phase.
LEMMA OthersSame ==
    ASSUME TypeOK, NEW c \in Clients, ClientNext(c), NEW d \in Clients, d # c
    PROVE  Same(d)
<1> USE DEF TypeOK, Same
<1>1. CASE Connect(c) \/ Admit(c) \/ Close(c)
    BY <1>1 DEF Connect, Admit, Close, client
<1>2. CASE Call(c) \/ TimeOut(c)
    BY <1>2 DEF Call, TimeOut, server
<1>3. CASE Receive(c) \/ Leave(c)
    BY <1>3 DEF Receive, Leave
<1>4. CASE Read(c)
    BY <1>4 DEF Read, client
<1>5. ASSUME NEW k \in Calls, Handle(c, k) PROVE Same(d)
    BY <1>5 DEF Handle, Answer, client
<1>6. ASSUME NEW k \in Calls, Take(c, k) \/ JobEnds(c, k) PROVE Same(d)
    BY <1>6 DEF Take, JobEnds, client
<1> QED
    BY <1>1, <1>2, <1>3, <1>4, <1>5, <1>6 DEF ClientNext

\* What is as it was satisfies what it satisfied; a stop loses nothing.
LEMMA SameInv ==
    ASSUME NEW d \in Clients, Same(d), HandledOnce(d), InStep(d), phase' = phase
    PROVE  HandledOnce(d)' /\ InStep(d)'
BY DEF Same, HandledOnce, InStep

\* A client's own step keeps its requests in one place and the client in step.
LEMMA OwnStep ==
    ASSUME TypeOK, NEW c \in Clients, HandledOnce(c), InStep(c), ClientNext(c)
    PROVE  HandledOnce(c)' /\ InStep(c)'
<1> USE DaemonAssumption DEF TypeOK, Calls
<1>1. CASE Connect(c) \/ Admit(c) \/ Close(c)
    BY <1>1, SameInv DEF Connect, Admit, Close, client, Same
<1>2. CASE Call(c)
    <2> USE <1>2 DEF Call, Connected, server
    <2>1. HandledOnce(c)'
        BY DEF HandledOnce
    <2>2. InStep(c)'
        BY DEF InStep
    <2> QED
        BY <2>1, <2>2
<1>3. CASE Receive(c)
    <2> DEFINE w == waiting[c]
               o == outbox[c]
    <2>1. o \in Seq(1..MaxCalls) /\ o # <<>> /\ w \in 1..MaxCalls
        BY <1>3 DEF Receive
    <2>2. /\ Len(o) \in Nat \ {0}
          /\ Len(Tail(o)) = Len(o) - 1
          /\ \A i \in 1..Len(Tail(o)) : Tail(o)[i] = o[i + 1]
          /\ Head(o) = o[1]
        BY <2>1, HeadTailProperties, EmptySeq
    <2>3. /\ got'[c] = [got[c] EXCEPT ![w] = Head(o)]
          /\ outbox'[c] = Tail(o)
          /\ waiting'[c] = 0
          /\ read'[c] = read[c] /\ made'[c] = made[c] /\ missed'[c] = missed[c] /\ handling'[c] = handling[c]
          /\ left' = left /\ phase' = phase
        BY <1>3 DEF Receive
    <2>4. /\ \A i \in 1..Len(o) : /\ o[i] \in (1..read[c]) \ handling[c]
                                /\ \A j \in 1..Len(o) : o[j] = o[i] => i = j
                                /\ \A k \in 1..MaxCalls : got[c][k] # o[i]
          /\ \A k \in 1..MaxCalls : got[c][k] # 0 =>
                 /\ got[c][k] \in (1..read[c]) \ handling[c]
                 /\ \A l \in 1..MaxCalls : got[c][l] = got[c][k] => k = l
          /\ read[c] <= made[c] /\ handling[c] \subseteq 1..read[c]
        BY DEF HandledOnce
    <2>5. 1 \in 1..Len(o) /\ \A i \in 1..Len(Tail(o)) : i + 1 \in 1..Len(o) /\ i + 1 # 1
        BY <2>2
    <2>6. \A k \in 1..MaxCalls : got'[c][k] = IF k = w THEN o[1] ELSE got[c][k]
        BY <2>1, <2>2, <2>3
    <2>7. o[1] \in (1..read[c]) \ handling[c] /\ \A k \in 1..MaxCalls : got[c][k] # o[1]
        BY <2>4, <2>5
    <2>8. HandledOnce(c)'
        <3>2. ASSUME NEW i \in 1..Len(Tail(o))
              PROVE  /\ Tail(o)[i] \in (1..read[c]) \ handling[c]
                     /\ \A j \in 1..Len(Tail(o)) : Tail(o)[j] = Tail(o)[i] => i = j
                     /\ \A k \in 1..MaxCalls : got'[c][k] # Tail(o)[i]
            <4>1. Tail(o)[i] = o[i + 1] /\ i + 1 \in 1..Len(o) /\ o[i + 1] # o[1]
                BY <2>2, <2>4, <2>5
            <4>2. \A j \in 1..Len(Tail(o)) : Tail(o)[j] = o[j + 1] /\ j + 1 \in 1..Len(o)
                BY <2>2, <2>5
            <4>3. \A j \in 1..Len(Tail(o)) : Tail(o)[j] = Tail(o)[i] => j + 1 = i + 1
                BY <2>4, <4>1, <4>2
            <4>4. Tail(o)[i] \in (1..read[c]) \ handling[c] /\ \A k \in 1..MaxCalls : got[c][k] # Tail(o)[i]
                BY <2>4, <4>1
            <4>5. \A j \in 1..Len(Tail(o)) : Tail(o)[j] = Tail(o)[i] => i = j
                <5>1. SUFFICES ASSUME NEW j \in 1..Len(Tail(o)), Tail(o)[j] = Tail(o)[i] PROVE i = j
                    OBVIOUS
                <5>2. j + 1 = i + 1
                    BY <4>3, <5>1
                <5>3. \A a, b \in Int : a + 1 = b + 1 => a = b
                    OBVIOUS
                <5>4. i \in Int /\ j \in Int
                    OBVIOUS
                <5> QED
                    BY <5>2, <5>3, <5>4
            <4>6. \A k \in 1..MaxCalls : got'[c][k] # Tail(o)[i]
                BY <2>6, <4>1, <4>4
            <4> QED
                BY <4>4, <4>5, <4>6
        <3>3. ASSUME NEW k \in 1..MaxCalls, got'[c][k] # 0
              PROVE  /\ got'[c][k] \in (1..read[c]) \ handling[c]
                     /\ \A l \in 1..MaxCalls : got'[c][l] = got'[c][k] => k = l
            BY <2>4, <2>6, <2>7, <3>3
        <3>4. read'[c] <= made'[c] /\ waiting'[c] <= made'[c] /\ handling'[c] \subseteq 1..read'[c]
            BY <2>3, <2>4
        <3>5. /\ read'[c] = read[c] /\ handling'[c] = handling[c] /\ waiting'[c] = 0
              /\ outbox'[c] = Tail(o)
            BY <2>3
        <3> HIDE DEF o, w
        <3> QED
            BY <3>2, <3>3, <3>4, <3>5 DEF HandledOnce
    <2>9. InStep(c)'
        <3>1. c \notin left /\ Up
            BY <2>1 DEF HandledOnce
        <3>2. missed[c] = {} => o[1] = w
            <4>1. o[1] \in 1..MaxCalls /\ o[1] \in 1..made[c]
                <5>1. o[1] \in 1..read[c] /\ read[c] \in 0..MaxCalls /\ made[c] \in 0..MaxCalls /\ read[c] <= made[c]
                    BY <2>4, <2>7
                <5> HIDE DEF o
                <5> QED
                    BY <5>1
            <4> QED
                BY <2>7, <3>1, <4>1 DEF InStep
        <3>3. missed[c] = {} => \A k \in 1..made[c] : k # w => got[c][k] = k
            BY <3>1 DEF InStep
        <3>4. missed[c] = {} => \A k \in 1..MaxCalls : got[c][k] \in {0, k}
            BY DEF InStep
        <3>5. \A k \in 1..made[c] : k \in 1..MaxCalls
            OBVIOUS
        <3> HIDE DEF o, w
        <3> QED
            BY <2>3, <2>6, <3>2, <3>3, <3>4, <3>5 DEF InStep
    <2> QED
        BY <2>8, <2>9
<1>4. CASE TimeOut(c)
    BY <1>4 DEF TimeOut, server, HandledOnce, InStep
<1>5. CASE Leave(c)
    BY <1>5 DEF Leave, Connected, HandledOnce, InStep
<1>6. CASE Read(c)
    <2>0. /\ read[c] < made[c] /\ read'[c] = read[c] + 1
          /\ handling'[c] = handling[c] \cup {read[c] + 1}
          /\ outbox'[c] = outbox[c] /\ got'[c] = got[c] /\ made'[c] = made[c] /\ waiting'[c] = waiting[c]
          /\ missed'[c] = missed[c] /\ left' = left /\ phase' = phase
          /\ read[c] \in Nat /\ made[c] \in Nat
        BY <1>6 DEF Read, client
    <2>1. HandledOnce(c)'
        <3>1. read'[c] <= made'[c] /\ handling'[c] \subseteq 1..read'[c]
            BY <2>0 DEF HandledOnce
        <3>2. \A n \in (1..read[c]) \ handling[c] : n \in (1..read'[c]) \ handling'[c]
            BY <2>0
        <3>3. waiting'[c] <= made'[c] /\ (c \in left' \/ ~Up' => waiting'[c] = 0)
            BY <2>0 DEF HandledOnce
        <3>4. \A i \in 1..Len(outbox'[c]) :
                /\ outbox'[c][i] \in (1..read'[c]) \ handling'[c]
                /\ \A j \in 1..Len(outbox'[c]) : outbox'[c][j] = outbox'[c][i] => i = j
                /\ \A k \in Calls : got'[c][k] # outbox'[c][i]
            <4>1. ASSUME NEW i \in 1..Len(outbox[c])
                  PROVE  /\ outbox[c][i] \in (1..read'[c]) \ handling'[c]
                         /\ \A j \in 1..Len(outbox[c]) : outbox[c][j] = outbox[c][i] => i = j
                         /\ \A k \in Calls : got[c][k] # outbox[c][i]
                <5>1. /\ outbox[c][i] \in (1..read[c]) \ handling[c]
                      /\ \A j \in 1..Len(outbox[c]) : outbox[c][j] = outbox[c][i] => i = j
                      /\ \A k \in Calls : got[c][k] # outbox[c][i]
                    BY DEF HandledOnce
                <5> QED
                    BY <3>2, <5>1
            <4> QED
                BY <2>0, <4>1
        <3>5. \A k \in Calls : got'[c][k] # 0 =>
                /\ got'[c][k] \in (1..read'[c]) \ handling'[c]
                /\ \A l \in Calls : got'[c][l] = got'[c][k] => k = l
            BY <2>0, <3>2 DEF HandledOnce
        <3> QED
            BY <3>1, <3>3, <3>4, <3>5 DEF HandledOnce
    <2>2. InStep(c)'
        BY <2>0 DEF InStep
    <2> QED
        BY <2>1, <2>2
<1>7. ASSUME NEW k \in Calls, Handle(c, k) PROVE HandledOnce(c)' /\ InStep(c)'
    <2> DEFINE o == outbox[c]
    <2>1. /\ handling'[c] = handling[c] \ {k}
          /\ outbox'[c] = IF c \in left THEN o ELSE Append(o, k)
          /\ made'[c] = made[c] /\ waiting'[c] = waiting[c] /\ got'[c] = got[c] /\ missed'[c] = missed[c]
          /\ read'[c] = read[c] /\ left' = left /\ phase' = phase
          /\ k \in handling[c]
        BY <1>7 DEF Handle, Answer, client
    <2>2. /\ Len(o) \in Nat
          /\ Len(Append(o, k)) = Len(o) + 1
          /\ \A i \in 1..Len(o) : Append(o, k)[i] = o[i]
          /\ Append(o, k)[Len(o) + 1] = k
        BY AppendProperties, LenProperties
    <2>3. \A n \in Nat : \A i \in 1..(n + 1) : i \in 1..n \/ i = n + 1
        OBVIOUS
    <2>4. HandledOnce(c)'
        <3>0. /\ read'[c] <= made'[c] /\ waiting'[c] <= made'[c]
              /\ c \in left' \/ ~Up' => waiting'[c] = 0
              /\ handling'[c] \subseteq 1..read'[c]
            BY <2>1 DEF HandledOnce
        <3>3. \A l \in Calls : got'[c][l] # 0 =>
                /\ got'[c][l] \in (1..read'[c]) \ handling'[c]
                /\ \A m \in Calls : got'[c][m] = got'[c][l] => l = m
            BY <2>1 DEF HandledOnce
        <3>4. \A i \in 1..Len(o) :
                /\ o[i] \in (1..read[c]) \ handling'[c]
                /\ \A j \in 1..Len(o) : o[j] = o[i] => i = j
                /\ \A l \in Calls : got[c][l] # o[i]
            BY <2>1 DEF HandledOnce
        <3>1. CASE c \in left
            <4>1. outbox'[c] = o /\ read'[c] = read[c] /\ got'[c] = got[c]
                BY <2>1, <3>1
            <4>2. \A i \in 1..Len(outbox'[c]) :
                    /\ outbox'[c][i] \in (1..read'[c]) \ handling'[c]
                    /\ \A j \in 1..Len(outbox'[c]) : outbox'[c][j] = outbox'[c][i] => i = j
                    /\ \A l \in Calls : got'[c][l] # outbox'[c][i]
                BY <3>4, <4>1
            <4> QED
                BY <3>0, <3>3, <4>2 DEF HandledOnce
        <3>2. CASE c \notin left
            <4>0. k \in 1..read[c] /\ \A i \in 1..Len(o) : o[i] # k
                <5>1. k \in handling[c] /\ k \notin handling'[c] /\ handling[c] \subseteq 1..read[c]
                    BY <2>1 DEF HandledOnce
                <5>2. \A i \in 1..Len(o) : o[i] \notin handling[c]
                    BY DEF HandledOnce
                <5> QED
                    BY <5>1, <5>2
            <4>1. ASSUME NEW i \in 1..(Len(o) + 1)
                  PROVE  /\ Append(o, k)[i] \in (1..read[c]) \ handling'[c]
                         /\ \A j \in 1..(Len(o) + 1) : Append(o, k)[j] = Append(o, k)[i] => i = j
                         /\ \A l \in Calls : got[c][l] # Append(o, k)[i]
                <5>0. \A j \in 1..(Len(o) + 1) : \/ j \in 1..Len(o) /\ Append(o, k)[j] = o[j]
                                                 \/ j = Len(o) + 1 /\ Append(o, k)[j] = k
                    BY <2>2, <2>3
                <5>4. \A j, m \in 1..Len(o) : o[j] = o[m] => j = m
                    BY <3>4
                <5>5. \A j \in 1..Len(o) : /\ o[j] \in (1..read[c]) \ handling'[c]
                                           /\ \A l \in Calls : got[c][l] # o[j]
                    BY <3>4
                <5>6. k \in (1..read[c]) \ handling'[c]
                    BY <2>1, <4>0
                <5>7. \A l \in Calls : got[c][l] # k
                    BY <2>1, <4>0 DEF HandledOnce
                <5>3. /\ \A j, m \in 1..Len(o) : o[j] = o[m] => j = m
                      /\ \A j \in 1..Len(o) : /\ o[j] \in (1..read[c]) \ handling'[c]
                                              /\ \A l \in Calls : got[c][l] # o[j]
                      /\ k \in (1..read[c]) \ handling'[c]
                      /\ \A l \in Calls : got[c][l] # k
                    BY <5>4, <5>5, <5>6, <5>7
                <5> HIDE DEF o
                <5>1. CASE i \in 1..Len(o) /\ Append(o, k)[i] = o[i]
                    BY <4>0, <5>0, <5>1, <5>3
                <5>2. CASE i = Len(o) + 1 /\ Append(o, k)[i] = k
                    BY <4>0, <5>0, <5>2, <5>3
                <5> QED
                    BY <5>0, <5>1, <5>2
            <4>2. outbox'[c] = Append(o, k) /\ Len(outbox'[c]) = Len(o) + 1
                BY <2>1, <2>2, <3>2
            <4>3. \A i \in 1..Len(outbox'[c]) :
                    /\ outbox'[c][i] \in (1..read'[c]) \ handling'[c]
                    /\ \A j \in 1..Len(outbox'[c]) : outbox'[c][j] = outbox'[c][i] => i = j
                    /\ \A l \in Calls : got'[c][l] # outbox'[c][i]
                BY <2>1, <4>1, <4>2
            <4> QED
                BY <3>0, <3>3, <4>3 DEF HandledOnce
        <3> QED
            BY <3>1, <3>2
    <2>5. InStep(c)'
        BY <2>1 DEF InStep
    <2> QED
        BY <2>4, <2>5
<1>8. ASSUME NEW k \in Calls, Take(c, k) \/ JobEnds(c, k) PROVE HandledOnce(c)' /\ InStep(c)'
    BY <1>8, SameInv DEF Take, JobEnds, client, Same
<1> QED
    BY <1>1, <1>2, <1>3, <1>4, <1>5, <1>6, <1>7, <1>8 DEF ClientNext

\* A job changes state only from its request's answer on.
LEMMA ServedStep ==
    ASSUME TypeOK, \A c \in Clients : HandledOnce(c) /\ Served(c), [Next]_vars, NEW d \in Clients
    PROVE  Served(d)'
<1> USE DaemonAssumption DEF TypeOK, Calls
<1>0. Served(d) /\ HandledOnce(d)
    OBVIOUS
<1>1. ASSUME NEW c \in Clients, Connect(c) \/ Admit(c) \/ Close(c) PROVE Served(d)'
    BY <1>0, <1>1 DEF Connect, Admit, Close, ToConn, client, Served
<1>2. ASSUME NEW c \in Clients, Call(c) PROVE Served(d)'
    BY <1>0, <1>2 DEF Call, Connected, server, Served
<1>3. ASSUME NEW c \in Clients, Receive(c) \/ TimeOut(c) \/ Leave(c) PROVE Served(d)'
    BY <1>0, <1>3 DEF Receive, TimeOut, Leave, server, Served
<1>4. ASSUME NEW c \in Clients, Read(c) PROVE Served(d)'
    <2>1. CASE d # c
        BY <1>0, <1>4, <2>1 DEF Read, client, Served
    <2>2. CASE d = c
        <3>1. /\ read'[d] = read[d] + 1 /\ handling'[d] = handling[d] \cup {read[d] + 1}
              /\ made'[d] = made[d] /\ conn'[d] = "open" /\ job' = job
            BY <1>4, <2>2 DEF Read, client
        <3>2. \A k \in (1..read[d]) \ handling[d] : k \in (1..read'[d]) \ handling'[d]
            <4>1. read[d] \in Nat
                OBVIOUS
            <4> QED
                BY ONLY <3>1, <4>1
        <3> QED
            BY <1>0, <3>1, <3>2 DEF Served
    <2> QED
        BY <2>1, <2>2
<1>5. ASSUME NEW c \in Clients, NEW k \in Calls, Handle(c, k) PROVE Served(d)'
    <2>1. /\ conn' = conn /\ made' = made /\ left' = left /\ read' = read
          /\ k \in handling[c] /\ handling' = [handling EXCEPT ![c] = @ \ {k}]
        BY <1>5 DEF Handle, Answer, client
    <2>2. job' = job \/ \E s \in JobStates : ToJob(c, k, s)
        BY <1>5 DEF Handle, JobStates
    <2>3. \A l \in Calls : job'[d][l] # job[d][l] => d = c /\ l = k
        <3> SUFFICES ASSUME NEW l \in Calls, d # c \/ l # k PROVE job'[d][l] = job[d][l]
            OBVIOUS
        <3>1. CASE job' = job
            BY <3>1
        <3>2. CASE \E s \in JobStates : ToJob(c, k, s)
            <4>1. PICK s \in JobStates : ToJob(c, k, s)
                BY <3>2
            <4>2. job \in [Clients -> [Calls -> JobStates]]
                OBVIOUS
            <4>3. c \in Clients /\ k \in Calls /\ d \in Clients /\ l \in Calls /\ (d # c \/ l # k)
                OBVIOUS
            <4> QED
                BY ONLY <4>1, <4>2, <4>3, ToJobMoves
        <3> QED
            BY <2>2, <3>1, <3>2
    <2>4. k \in 1..read[c]
        BY <2>1 DEF HandledOnce
    <2> QED
        BY <1>0, <2>1, <2>3, <2>4 DEF Served
<1>6. ASSUME NEW c \in Clients, NEW k \in Calls, Take(c, k) \/ JobEnds(c, k) PROVE Served(d)'
    <2>1. /\ conn' = conn /\ made' = made /\ left' = left /\ read' = read /\ handling' = handling
          /\ job[c][k] # "none" /\ \E s \in JobStates : ToJob(c, k, s)
        BY <1>6 DEF Take, JobEnds, client, JobStates
    <2>2. \A l \in Calls : job'[d][l] # "none" => job[d][l] # "none"
        BY <2>1 DEF ToJob
    <2> QED
        BY <1>0, <2>1, <2>2 DEF Served
<1>7. ASSUME Signal \/ Join \/ Drained \/ UNCHANGED vars PROVE Served(d)'
    BY <1>0, <1>7 DEF Signal, Join, Drained, vars, client, server, Served
<1>8. ASSUME NEW p, Return(p) PROVE Served(d)'
    BY <1>0, <1>8 DEF Return, Served
<1> QED
    BY <1>1, <1>2, <1>3, <1>4, <1>5, <1>6, <1>7, <1>8 DEF Next, Main, Exit, AcceptFails

\* No step breaks the invariant.
LEMMA NextInv == DaemonInv /\ [Next]_vars => DaemonInv'
<1> SUFFICES ASSUME DaemonInv, [Next]_vars,
                    NEW d \in Clients
             PROVE  HandledOnce(d)' /\ InStep(d)'
    BY NextTypeOK, ServedStep DEF DaemonInv
<1>0. TypeOK /\ HandledOnce(d) /\ InStep(d)
    BY DEF DaemonInv
<1>1. ASSUME NEW c \in Clients, ClientNext(c) PROVE HandledOnce(d)' /\ InStep(d)'
    <2>1. phase' = phase
        BY <1>1 DEF ClientNext, Connect, Call, Receive, TimeOut, Leave, Admit, Read, Close, Handle, Answer, Take, JobEnds
    <2>2. CASE d = c
        BY <1>0, <1>1, <2>2, OwnStep
    <2>3. CASE d # c
        BY <1>0, <1>1, <2>1, <2>3, OthersSame, SameInv
    <2> QED
        BY <2>2, <2>3
<1>2. ASSUME Signal \/ Join \/ Drained PROVE HandledOnce(d)' /\ InStep(d)'
    BY <1>0, <1>2 DEF Signal, Join, Drained, ToPhase, client, server, HandledOnce, InStep
<1>3. ASSUME NEW p \in {"exited", "failed"}, Return(p) PROVE HandledOnce(d)' /\ InStep(d)'
    BY <1>0, <1>3, DaemonAssumption, EmptySeq DEF Return, ToPhase, HandledOnce, InStep, TypeOK, Calls
<1>4. ASSUME UNCHANGED vars PROVE HandledOnce(d)' /\ InStep(d)'
    BY <1>0, <1>4, SameInv DEF vars, client, server, Same
<1> QED
    BY <1>1, <1>2, <1>3, <1>4 DEF Next, ClientNext, Main, Exit, AcceptFails

\* Every reachable state satisfies DaemonInv: no request is answered twice.
THEOREM DaemonInvariant == Spec => []DaemonInv
BY InitInv, NextInv, PTL DEF Spec

\* A client that never timed out gets its own answers, whatever the order in
\* which handlers end.
THEOREM OwnAnswers == Spec => []OwnAnswerUnlessTimedOut
<1>1. DaemonInv => OwnAnswerUnlessTimedOut
    BY DEF DaemonInv, InStep, OwnAnswerUnlessTimedOut
<1> QED
    BY DaemonInvariant, <1>1, PTL

\* Nothing is submitted behind the back of a shutdown that took stock.
THEOREM NothingIsLeftBehind == Spec => []NothingLeftBehind
<1>1. Init => NothingLeftBehind
    BY DEF Init, NothingLeftBehind
<1>2. TypeOK /\ NothingLeftBehind /\ [Next]_vars => NothingLeftBehind'
    <2> SUFFICES ASSUME TypeOK, NothingLeftBehind, [Next]_vars,
                        phase' \in {"draining", "flushing", "exited"}
                 PROVE  Senders' = {} /\ Jobs("queued")' = {}
        BY DEF NothingLeftBehind
    <2> USE DEF Senders, Jobs
    <2>1. CASE phase \in {"serving", "joining", "failed"}
        <3>1. Join
            BY <2>1 DEF Next, Main, vars, Connect, Call, Receive, TimeOut, Leave, Admit, Read, Close, Handle, Answer,
                        Take, JobEnds, Signal, Drained, Exit, AcceptFails, Return, ToPhase
        <3> QED
            BY <3>1 DEF Join, client, server
    <2>2. CASE phase \in {"draining", "flushing", "exited"}
        <3> USE <2>2
        <3>0. Senders = {} /\ Jobs("queued") = {}
            BY DEF NothingLeftBehind
        <3>1. ASSUME NEW c \in Clients, ClientNext(c) PROVE Senders' = {} /\ Jobs("queued")' = {}
            <4>1. c \notin Senders
                BY <3>0
            <4>2. conn' = conn /\ handling' = handling
                BY <3>1, <4>1, <2>2 DEF ClientNext, Connect, Call, Receive, TimeOut, Leave, Connected, Admit, Read, Close,
                                  Handle, Take, JobEnds, client, server, TypeOK
            <4>3. job' = job \/ \E k \in Calls : Take(c, k) \/ JobEnds(c, k)
                BY <3>1, <4>1 DEF ClientNext, Connect, Call, Receive, TimeOut, Leave, Admit, Read, Close, Handle,
                                  client, server
            <4>4. ASSUME NEW k \in Calls, Take(c, k) \/ JobEnds(c, k) PROVE Jobs("queued")' = {}
                <5> SUFFICES ASSUME NEW d \in Clients, NEW l \in Calls, job'[d][l] = "queued" PROVE FALSE
                    OBVIOUS
                <5>1. job[d][l] # "queued"
                    <6>1. job[d][l] = "queued" => <<d, l>> \in Jobs("queued")
                        BY DEF Jobs
                    <6> QED
                        BY <3>0, <6>1
                <5>2. \E s \in {"running", "over"} : ToJob(c, k, s)
                    BY <4>4 DEF Take, JobEnds
                <5> QED
                    BY <5>1, <5>2 DEF ToJob, TypeOK
            <4> QED
                BY <3>0, <4>2, <4>3, <4>4
        <3>2. ASSUME Signal \/ Main PROVE Senders' = {} /\ Jobs("queued")' = {}
            <4>1. conn' = conn /\ handling' = handling
                BY <3>2 DEF Signal, Main, Join, Drained, Exit, Return, client, server
            <4>2. job' = job \/ Exit
                BY <3>2 DEF Signal, Main, Join, Drained, client, server
            <4>3. CASE Exit
                BY <3>0, <4>1, <4>3 DEF Exit, Return, TypeOK
            <4> QED
                BY <3>0, <4>1, <4>2, <4>3
        <3>3. ASSUME UNCHANGED vars PROVE Senders' = {} /\ Jobs("queued")' = {}
            BY <3>0, <3>3 DEF vars, client, server
        <3> QED
            BY <3>1, <3>2, <3>3 DEF Next, ClientNext, AcceptFails
    <2> QED
        BY <2>1, <2>2 DEF TypeOK
<1>3. DaemonInv => TypeOK
    BY DEF DaemonInv
<1> QED
    BY <1>1, <1>2, <1>3, DaemonInvariant, PTL DEF Spec

\* Nobody waits in a circle when the daemon shuts down.
THEOREM ShutdownMoves == Spec => []ShutdownNeverStuck
<1>1. DaemonInv => ShutdownNeverStuck
    <2> SUFFICES ASSUME DaemonInv, phase = "joining", ClientsGone, ~Hanging, Jobs("queued") = {},
                        NEW c \in Senders
                 PROVE  \E d \in Clients :
                          \/ conn[d] = "accepted" /\ Permit
                          \/ conn[d] = "open" /\ read[d] < made[d]
                          \/ conn[d] = "open" /\ read[d] = made[d] /\ handling[d] = {}
                          \/ \E k \in handling[d] : Kind[d][k] # "turn" \/ Room
        BY DEF ShutdownNeverStuck, Jobs, Senders
    <2>1. Room
        <3>1. Cardinality({}) = 0
            BY FS_EmptySet
        <3> QED
            BY <3>1, DaemonAssumption DEF Room
    <2>2. ASSUME NEW d \in Clients, conn[d] = "open" \/ handling[d] # {}
          PROVE  \/ conn[d] = "open" /\ read[d] < made[d]
                 \/ conn[d] = "open" /\ read[d] = made[d] /\ handling[d] = {}
                 \/ \E k \in handling[d] : Room
        <3>1. read[d] \in Nat /\ made[d] \in Nat /\ read[d] <= made[d]
            BY DaemonAssumption DEF DaemonInv, TypeOK, HandledOnce
        <3> QED
            BY <2>1, <2>2, <3>1
    <2>3. c \in Clients /\ (conn[c] \in {"accepted", "open"} \/ handling[c] # {})
        BY DEF Senders
    <2>4. CASE conn[c] = "open" \/ handling[c] # {}
        BY <2>2, <2>3, <2>4
    <2>5. CASE conn[c] = "accepted" /\ Held = {}
        <3>1. Cardinality({}) = 0
            BY FS_EmptySet
        <3>2. Permit
            BY <2>5, <3>1, DaemonAssumption DEF Permit
        <3> QED
            BY <2>3, <2>5, <3>2
    <2>6. CASE Held # {}
        <3>1. PICK d \in Clients : conn[d] = "open"
            BY <2>6 DEF Held
        <3> QED
            BY <2>2, <3>1
    <2> QED
        BY <2>3, <2>4, <2>5, <2>6
<1> QED
    BY DaemonInvariant, <1>1, PTL

-----------------------------------------------------------------------------
(* The service implements CallPromise *)

\* What each stage says of a request.
LEMMA StageFacts ==
    ASSUME DaemonInv, NEW c \in Clients, NEW k \in Calls
    PROVE  /\ StageOf(c, k) = "unmade" <=> k > made[c]
           /\ StageOf(c, k) = "sent" <=> k > read[c] /\ k <= made[c]
           /\ StageOf(c, k) = "handling" <=> k \in handling[c]
           /\ StageOf(c, k) = "answered" <=> k \in (1..read[c]) \ handling[c]
<1>1. /\ made[c] \in Nat /\ read[c] \in Nat /\ read[c] <= made[c] /\ k \in Nat \ {0}
      /\ \A l \in handling[c] : l <= read[c]
    BY DaemonAssumption DEF DaemonInv, TypeOK, HandledOnce, Calls
<1> QED
    BY <1>1 DEF StageOf

\* One request changes its stage.
LEMMA StageMoves ==
    ASSUME NEW c \in Clients, NEW k \in Calls, NEW s, StageOf(c, k)' = s,
           \A d \in Clients, l \in Calls : d # c \/ l # k => StageOf(d, l)' = StageOf(d, l)
    PROVE  Promise!ToStage(c, k, s)
<1>1. Stages' = [d \in Clients |-> [l \in Calls |-> StageOf(d, l)']]
    BY DEF Stages
<1>2. [Stages EXCEPT ![c][k] = s] =
        [d \in Clients |-> IF d = c THEN [Stages[c] EXCEPT ![k] = s] ELSE Stages[d]]
    BY DEF Stages
<1>3. [Stages[c] EXCEPT ![k] = s] = [l \in Calls |-> StageOf(c, l)']
    BY DEF Stages
<1>4. \A d \in Clients : d # c => Stages[d] = [l \in Calls |-> StageOf(d, l)']
    BY DEF Stages
<1> QED
    BY <1>1, <1>2, <1>3, <1>4 DEF Promise!ToStage

\* While anyone may submit and main has not failed, the daemon takes requests.
LEMMA OpenWithSenders ==
    ASSUME TypeOK, NothingLeftBehind, Up, Senders # {}
    PROVE  Openness \in {"open", "ending"}
BY DEF TypeOK, NothingLeftBehind, Openness

LEMMA CallPromised ==
    ASSUME DaemonInv, NothingLeftBehind, NEW c \in Clients, Call(c)
    PROVE  Promise!Make(c)
<1>1. TypeOK /\ HandledOnce(c)
    BY DEF DaemonInv
<1>k. PICK k \in Calls : k = made[c] + 1
    BY <1>1, DaemonAssumption DEF TypeOK, Calls, Call
<1>2. made[c] \in Nat /\ read[c] \in Nat /\ read[c] <= made[c] /\ k \in Nat
    BY <1>1, <1>k, DaemonAssumption DEF TypeOK, HandledOnce, Calls
<1>3. Openness \in {"open", "ending"} /\ Openness' = Openness
    <2>1. c \in Senders /\ Up
        BY DEF Call, Connected, Senders
    <2>2. phase' = phase
        BY DEF Call
    <2> QED
        BY <1>1, <2>1, <2>2, OpenWithSenders DEF Openness
<1>4. made'[c] = k /\ read' = read /\ handling' = handling /\ \A d \in Clients : d # c => made'[d] = made[d]
    BY <1>1, <1>k DEF Call, server, TypeOK
<1>5. Promise!First(c, k, "unmade")
    <2>1. \A l \in Calls : l < k => ~(l > made[c])
        BY <1>k, <1>2 DEF Calls
    <2>2. k > made[c]
        BY <1>k, <1>2
    <2> QED
        BY <1>k, <1>2, <2>1, <2>2, StageFacts DEF Promise!First, Stages
<1>6. Promise!ToStage(c, k, "sent")
    <2>1. k \notin handling[c]
        BY <1>k, <1>1, <1>2 DEF HandledOnce
    <2>2. StageOf(c, k)' = "sent"
        BY <1>k, <1>2, <1>4, <2>1 DEF StageOf
    <2>3. \A d \in Clients, l \in Calls : d # c => StageOf(d, l)' = StageOf(d, l)
        BY <1>4 DEF StageOf
    <2>4. \A l \in Calls : l # k => (l > made'[c] <=> l > made[c]) /\ (l <= made'[c] <=> l <= made[c])
        BY <1>k, <1>2, <1>4 DEF Calls
    <2>5. \A l \in Calls : l # k => StageOf(c, l)' = StageOf(c, l)
        BY <1>4, <2>4 DEF StageOf
    <2> QED
        BY <1>k, <1>2, <2>2, <2>3, <2>5, StageMoves
<1> QED
    BY <1>k, <1>2, <1>3, <1>5, <1>6 DEF Call, Connected, server, Promise!Make, Promise!Taking

LEMMA ReadPromised ==
    ASSUME DaemonInv, NothingLeftBehind, NEW c \in Clients, Read(c)
    PROVE  Promise!Start(c)
<1>1. TypeOK /\ HandledOnce(c)
    BY DEF DaemonInv
<1>k. PICK k \in Calls : k = read[c] + 1
    BY <1>1, DaemonAssumption DEF TypeOK, Calls, Read
<1>2. made[c] \in Nat /\ read[c] \in Nat /\ k <= made[c] /\ k \in Nat
    BY <1>1, <1>k, DaemonAssumption DEF TypeOK, Calls, Read
<1>3. Openness \in {"open", "ending"} /\ Openness' = Openness
    <2>1. c \in Senders /\ Up
        BY DEF Read, Senders
    <2>2. phase' = phase
        BY DEF Read
    <2> QED
        BY <1>1, <2>1, <2>2, OpenWithSenders DEF Openness
<1>4. /\ made' = made /\ read'[c] = k /\ handling'[c] = handling[c] \cup {k}
      /\ \A d \in Clients : d # c => read'[d] = read[d] /\ handling'[d] = handling[d]
    BY <1>1, <1>k DEF Read, client, TypeOK
<1>5. Promise!First(c, k, "sent")
    <2>1. \A l \in Calls : l < k => ~(l > read[c])
        BY <1>k, <1>2 DEF Calls
    <2>2. k > read[c]
        BY <1>k, <1>2
    <2> QED
        BY <1>k, <1>2, <2>1, <2>2, StageFacts DEF Promise!First, Stages
<1>6. Promise!ToStage(c, k, "handling")
    <2>1. StageOf(c, k)' = "handling"
        BY <1>k, <1>2, <1>4 DEF StageOf
    <2>2. \A d \in Clients, l \in Calls : d # c => StageOf(d, l)' = StageOf(d, l)
        BY <1>4 DEF StageOf
    <2>3. \A l \in Calls : l # k => /\ l > read'[c] <=> l > read[c]
                                    /\ l <= read'[c] <=> l <= read[c]
                                    /\ l \in handling'[c] <=> l \in handling[c]
        BY <1>k, <1>2, <1>4 DEF Calls
    <2>4. \A l \in Calls : l # k => StageOf(c, l)' = StageOf(c, l)
        BY <1>4, <2>3 DEF StageOf
    <2> QED
        BY <1>k, <1>2, <2>1, <2>2, <2>4, StageMoves
<1> QED
    BY <1>k, <1>2, <1>3, <1>5, <1>6 DEF Read, client, Promise!Start, Promise!Taking

LEMMA HandlePromised ==
    ASSUME DaemonInv, NothingLeftBehind, NEW c \in Clients, NEW k \in Calls, Handle(c, k)
    PROVE  Promise!Answer(c, k)
<1>1. TypeOK /\ HandledOnce(c) /\ Served(c)
    BY DEF DaemonInv
<1>2. k \in handling[c] /\ k \in 1..read[c] /\ read[c] \in Nat /\ made[c] \in Nat /\ read[c] <= made[c]
    BY <1>1, DaemonAssumption DEF Handle, HandledOnce, TypeOK, Calls
<1>3. Openness \in {"open", "ending"} /\ Openness' = Openness
    <2>1. c \in Senders /\ Up
        BY <1>2 DEF Senders, Handle
    <2>2. phase' = phase
        BY DEF Handle, Answer
    <2> QED
        BY <1>1, <2>1, <2>2, OpenWithSenders DEF Openness
<1>4. /\ made' = made /\ read' = read /\ handling'[c] = handling[c] \ {k}
      /\ \A d \in Clients : d # c => handling'[d] = handling[d]
    BY <1>1 DEF Handle, Answer, client, TypeOK
<1>5. StageOf(c, k) = "handling" /\ job[c][k] = "none"
    BY <1>1, <1>2, StageFacts DEF Served
<1>6. Promise!ToStage(c, k, "answered")
    <2>1. StageOf(c, k)' = "answered"
        <3>1. ~(k > made[c]) /\ ~(k > read[c]) /\ k \notin handling'[c]
            BY <1>2, <1>4
        <3> QED
            BY <1>4, <3>1 DEF StageOf
    <2>2. \A d \in Clients, l \in Calls : d # c \/ l # k => StageOf(d, l)' = StageOf(d, l)
        BY <1>4 DEF StageOf
    <2> QED
        BY <2>1, <2>2, StageMoves
<1>7. \/ Kind[c][k] = "turn" /\ job' = [job EXCEPT ![c][k] = "queued"]
      \/ Kind[c][k] = "loop" /\ job' = [job EXCEPT ![c][k] = "running"]
      \/ Kind[c][k] \notin {"turn", "loop"} /\ UNCHANGED job
    BY DEF Handle, ToJob
<1>8. UNCHANGED <<waiting, got, {d \in Clients : missed[d] # {}}, left>>
    BY DEF Handle, Answer, client
<1> QED
    BY <1>3, <1>5, <1>6, <1>7, <1>8 DEF Promise!Answer, Promise!Taking, Stages

\* Steps that leave every stage.
LEMMA StagesStay ==
    ASSUME UNCHANGED <<made, read, handling>>
    PROVE  Stages' = Stages
BY DEF Stages, StageOf

LEMMA ReceivePromised ==
    ASSUME DaemonInv, DaemonInv', NEW c \in Clients, Receive(c)
    PROVE  Promise!Return(c)
<1> DEFINE k == Head(outbox[c])
           w == waiting[c]
<1>1. TypeOK /\ HandledOnce(c) /\ InStep(c)' /\ outbox[c] # <<>> /\ w # 0
    BY DEF DaemonInv, Receive
<1>2. w \in Calls /\ outbox[c] \in Seq(Calls)
    BY <1>1, DaemonAssumption DEF TypeOK, Calls
<1>3. 1 \in 1..Len(outbox[c]) /\ k = outbox[c][1] /\ k \in Calls
    <2>1. Len(outbox[c]) \in Nat \ {0}
        BY <1>1, <1>2, EmptySeq
    <2> QED
        BY <1>1, <1>2, <2>1, HeadTailProperties
<1>4. k \in (1..read[c]) \ handling[c] /\ \A l \in Calls : got[c][l] # k
    BY <1>1, <1>3 DEF HandledOnce
<1>5. StageOf(c, k) = "answered"
    BY <1>3, <1>4, StageFacts
<1>6. got' = [got EXCEPT ![c][w] = k] /\ waiting' = [waiting EXCEPT ![c] = 0] /\ missed' = missed
    BY DEF Receive
<1>7. missed[c] = {} => k = w
    <2>1. got'[c] = [got[c] EXCEPT ![w] = k]
        BY <1>1, <1>6 DEF TypeOK
    <2>2. got'[c][w] = k
        BY <1>1, <1>2, <2>1 DEF TypeOK
    <2>3. k # 0
        BY <1>3 DEF Calls
    <2> QED
        BY <1>1, <1>2, <1>6, <2>2, <2>3 DEF InStep
<1>8. Stages' = Stages /\ UNCHANGED <<Openness, {d \in Clients : missed[d] # {}}, left, job>>
    BY StagesStay DEF Receive, Openness
<1>9. c \notin {d \in Clients : missed[d] # {}} => k = w
    BY <1>7
<1> HIDE DEF k
<1> QED
    BY <1>1, <1>3, <1>4, <1>5, <1>6, <1>8, <1>9 DEF Promise!Return, Stages

\* The rest of a client's steps.
LEMMA ClientPromised ==
    ASSUME DaemonInv, DaemonInv', NothingLeftBehind, NEW c \in Clients, ClientNext(c)
    PROVE  Promise!Next \/ UNCHANGED Promise!vars
<1>0. TypeOK
    BY DEF DaemonInv
<1>1. CASE Connect(c) \/ Admit(c) \/ Close(c)
    <2>1. UNCHANGED <<phase, client, read, handling, job>>
        BY <1>1 DEF Connect, Admit, Close
    <2> QED
        BY <2>1, StagesStay DEF client, Openness, Promise!vars
<1>2. CASE Call(c)
    BY <1>2, CallPromised DEF Promise!Next
<1>3. CASE Receive(c)
    BY <1>3, ReceivePromised DEF Promise!Next
<1>4. CASE TimeOut(c)
    <2>1. Stages' = Stages /\ UNCHANGED <<Openness, got, left, job>>
        BY <1>4, StagesStay DEF TimeOut, server, Openness
    <2>2. {d \in Clients : missed'[d] # {}} = {d \in Clients : missed[d] # {}} \cup {c}
        BY <1>0, <1>4 DEF TimeOut, TypeOK
    <2>3. Promise!GiveUp(c)
        BY <1>4, <2>1, <2>2 DEF TimeOut, Promise!GiveUp
    <2> QED
        BY <2>3 DEF Promise!Next
<1>5. CASE Leave(c)
    <2>1. Stages' = Stages /\ UNCHANGED <<Openness, got, {d \in Clients : missed[d] # {}}, job>>
        BY <1>5, StagesStay DEF Leave, Openness
    <2>2. Promise!Leave(c)
        BY <1>5, <2>1 DEF Leave, Promise!Leave
    <2> QED
        BY <2>2 DEF Promise!Next
<1>6. CASE Read(c)
    BY <1>6, ReadPromised DEF Promise!Next
<1>7. ASSUME NEW k \in Calls, Handle(c, k) PROVE Promise!Next
    BY <1>7, HandlePromised DEF Promise!Next
<1>8. ASSUME NEW k \in Calls, Take(c, k) \/ JobEnds(c, k) PROVE Promise!Next
    <2>1. Stages' = Stages /\ UNCHANGED <<Openness, waiting, got, {d \in Clients : missed[d] # {}}, left>>
        BY <1>8, StagesStay DEF Take, JobEnds, client, Openness
    <2>2. Openness \notin {"over", "broken"}
        BY <1>8 DEF Take, JobEnds, Openness
    <2>3. Promise!Work(c, k)
        BY <1>8, <2>1, <2>2 DEF Take, JobEnds, ToJob, Promise!Work
    <2> QED
        BY <2>3 DEF Promise!Next
<1> QED
    BY <1>1, <1>2, <1>3, <1>4, <1>5, <1>6, <1>7, <1>8 DEF ClientNext

\* The worker is joined when every request is answered.
LEMMA JoinPromised ==
    ASSUME DaemonInv, Join
    PROVE  Promise!Close
<1>1. TypeOK /\ Senders = {} /\ Jobs("queued") = {}
    BY DEF DaemonInv, Join
<1>2. ASSUME NEW c \in Clients, NEW k \in Calls
      PROVE  Stages[c][k] \in {"unmade", "answered"} /\ job[c][k] # "queued"
    <2>1. conn[c] \in {"away", "closed"} /\ handling[c] = {}
        BY <1>1 DEF Senders, TypeOK
    <2>2. HandledOnce(c) /\ Served(c)
        BY DEF DaemonInv
    <2>3. made[c] \in Nat /\ read[c] \in Nat /\ k \in Nat \ {0} /\ read[c] = made[c]
        BY <1>1, <2>1, <2>2, DaemonAssumption DEF HandledOnce, Served, TypeOK, Calls
    <2>4. StageOf(c, k) \in {"unmade", "answered"}
        BY <2>1, <2>3 DEF StageOf
    <2>5. <<c, k>> \notin Jobs("queued")
        BY <1>1
    <2> QED
        BY <2>4, <2>5 DEF Stages, Jobs
<1>3. Openness = "ending" /\ Openness' = "closed"
    BY DEF Join, ToPhase, Openness
<1>4. Stages' = Stages /\ UNCHANGED <<waiting, got, {d \in Clients : missed[d] # {}}, left, job>>
    BY StagesStay DEF Join, client, server
<1> QED
    BY <1>2, <1>3, <1>4 DEF Promise!Close

\* Every step of the service is one of the promise, or changes nothing of it.
LEMMA NextPromised ==
    DaemonInv /\ DaemonInv' /\ NothingLeftBehind /\ [Next]_vars => [Promise!Next]_(Promise!vars)
<1> SUFFICES ASSUME DaemonInv, DaemonInv', NothingLeftBehind, [Next]_vars
             PROVE  Promise!Next \/ UNCHANGED Promise!vars
    OBVIOUS
<1>1. ASSUME NEW c \in Clients, ClientNext(c) PROVE Promise!Next \/ UNCHANGED Promise!vars
    BY <1>1, ClientPromised
<1>2. CASE Join
    BY <1>2, JoinPromised DEF Promise!Next
<1>3. CASE Drained \/ UNCHANGED vars
    <2>1. UNCHANGED <<client, server, Openness>>
        BY <1>3 DEF Drained, ToPhase, vars, Openness
    <2> QED
        BY <2>1, StagesStay DEF client, server, Promise!vars
<1>4. CASE Signal
    <2>1. Openness = "open" /\ Openness' = "ending"
        BY <1>4 DEF Signal, ToPhase, Openness
    <2>2. Stages' = Stages /\ UNCHANGED <<waiting, got, {d \in Clients : missed[d] # {}}, left, job>>
        BY <1>4, StagesStay DEF Signal, client, server
    <2>3. Promise!ToEnd
        BY <2>1, <2>2 DEF Promise!ToEnd
    <2> QED
        BY <2>3 DEF Promise!Next
<1>5. ASSUME NEW p, Return(p) PROVE Promise!Stop
    <2>1. Stages' = Stages /\ UNCHANGED <<got, {d \in Clients : missed[d] # {}}, left>>
        BY <1>5, StagesStay DEF Return
    <2> QED
        BY <1>5, <2>1 DEF Return, Promise!Stop
<1>6. CASE Exit
    <2>1. Openness = "closed" /\ Openness' = "over"
        BY <1>6 DEF Exit, Return, ToPhase, Openness
    <2> QED
        BY <1>5, <1>6, <2>1 DEF Exit, Promise!End, Promise!Next
<1>7. CASE AcceptFails
    <2>1. Openness = "open" /\ Openness' = "broken"
        BY <1>7 DEF AcceptFails, Return, ToPhase, Openness
    <2> QED
        BY <1>5, <1>7, <2>1 DEF AcceptFails, Promise!Break, Promise!Next
<1> QED
    BY <1>1, <1>2, <1>3, <1>4, <1>6, <1>7 DEF Next, Main, ClientNext

\* The service implements CallPromise, for every number of clients and calls.
THEOREM PromiseKept == Spec => KeepsPromise
<1>1. Init => Promise!Init
    <2> SUFFICES ASSUME Init PROVE Promise!Init
        OBVIOUS
    <2>1. ASSUME NEW c \in Clients, NEW k \in Calls PROVE StageOf(c, k) = "unmade"
        <3>1. made[c] = 0 /\ read[c] = 0 /\ k \in Nat /\ k > 0
            BY DaemonAssumption DEF Init, Calls
        <3> QED
            BY <3>1 DEF StageOf
    <2>2. Stages = [c \in Clients |-> [k \in Calls |-> "unmade"]]
        BY <2>1 DEF Stages
    <2>3. {c \in Clients : missed[c] # {}} = {}
        BY DEF Init
    <2> QED
        BY <2>2, <2>3 DEF Init, Openness, Promise!Init
<1> QED
    BY <1>1, NextPromised, DaemonInvariant, NothingIsLeftBehind, PTL DEF Spec, KeepsPromise, Promise!Spec

=============================================================================
