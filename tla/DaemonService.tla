---------------------------- MODULE DaemonService ----------------------------
(***************************************************************************)
(* The RPC service of the daemon and its shutdown.  Clients call over a     *)
(* socket each, one call at a time and with a timeout; a connection reads   *)
(* requests in order, handles each on a task of its own and answers through *)
(* one writer; turn.submit hands turns to the worker over a bounded         *)
(* channel, loop.run spawns into a shared task set.  On a signal the main   *)
(* task stops serving, waits for the worker, drains what runs until a       *)
(* deadline, and exits.  When the listener fails to accept a connection, it *)
(* returns at once instead, and the runtime drops every task.               *)
(*                                                                         *)
(* A request is a client and the number of its call.  Requests on the way  *)
(* to a connection are the numbers after the last one read; answers on the *)
(* way back, in the writer's channel or in the socket, are a sequence.  A   *)
(* request from the client library is well formed and wants an answer.      *)
(***************************************************************************)
EXTENDS Naturals, Sequences, FiniteSets

CONSTANTS
    Clients,        \* clients, each with a connection
    MaxCalls,       \* bound on the calls of a client
    Kind,           \* Clients -> calls -> "plain", "slow", "turn" or "loop"
    MaxConnections, \* connections served at a time (64)
    WorkCap         \* capacity of the work channel (256)

Calls == 1..MaxCalls
Kinds == {"plain", "slow", "turn", "loop"}

ASSUME DaemonAssumption ==
    /\ MaxCalls \in Nat
    /\ Kind \in [Clients -> [Calls -> Kinds]]
    /\ MaxConnections \in Nat \ {0}
    /\ WorkCap \in Nat \ {0}

VARIABLES
    phase,    \* how far the main task is
    conn,     \* the server's side of each connection
    left,     \* clients that hung up
    made,     \* calls each client made
    waiting,  \* the call each client waits for, or 0
    missed,   \* calls that timed out
    got,      \* the request whose answer each call returned, or 0
    read,     \* requests each connection has read
    handling, \* requests with a handler task
    outbox,   \* answers on their way to each client
    job       \* the turn or loop of each request

client == <<left, made, waiting, missed, got>>
server == <<conn, read, handling, outbox, job>>
vars == <<phase, client, server>>

-----------------------------------------------------------------------------
Init ==
    /\ phase = "serving"
    /\ conn = [c \in Clients |-> "away"]
    /\ left = {}
    /\ made = [c \in Clients |-> 0]
    /\ waiting = [c \in Clients |-> 0]
    /\ missed = [c \in Clients |-> {}]
    /\ got = [c \in Clients |-> [k \in Calls |-> 0]]
    /\ read = [c \in Clients |-> 0]
    /\ handling = [c \in Clients |-> {}]
    /\ outbox = [c \in Clients |-> <<>>]
    /\ job = [c \in Clients |-> [k \in Calls |-> "none"]]

JobStates == {"none", "queued", "running", "over", "aborted"}
\* Main has not returned, neither after its shutdown nor on an error.
Up == phase \notin {"exited", "failed"}
Held == {c \in Clients : conn[c] = "open"}
Jobs(state) == {j \in Clients \X Calls : job[j[1]][j[2]] = state}
\* A permit of the semaphore, and room in the work channel.
Permit == Cardinality(Held) < MaxConnections
Room == Cardinality(Jobs("queued")) < WorkCap
ToConn(c, s) == conn' = [conn EXCEPT ![c] = s]
ToJob(c, k, s) == job' = [job EXCEPT ![c][k] = s]

-----------------------------------------------------------------------------
(* A client *)

\* The listener accepts as long as the main task serves.
Connect(c) ==
    /\ phase = "serving"
    /\ conn[c] = "away"
    /\ ToConn(c, "accepted")
    /\ UNCHANGED <<phase, client, read, handling, outbox, job>>

Connected(c) == conn[c] \in {"accepted", "open"} /\ c \notin left /\ Up

\* A variant that calls again without waiting for the answer.
CallAhead(c) ==
    /\ Connected(c)
    /\ made[c] < MaxCalls
    /\ made' = [made EXCEPT ![c] = @ + 1]
    /\ waiting' = [waiting EXCEPT ![c] = made[c] + 1]
    /\ UNCHANGED <<phase, left, missed, got, server>>

\* call_with_timeout sends the request and awaits the next frame.
Call(c) ==
    /\ Connected(c)
    /\ waiting[c] = 0
    /\ made[c] < MaxCalls
    /\ made' = [made EXCEPT ![c] = @ + 1]
    /\ waiting' = [waiting EXCEPT ![c] = made[c] + 1]
    /\ UNCHANGED <<phase, left, missed, got, server>>

\* The frame is taken for the answer, whatever its id.
Receive(c) ==
    /\ waiting[c] # 0
    /\ outbox[c] # <<>>
    /\ got' = [got EXCEPT ![c][waiting[c]] = Head(outbox[c])]
    /\ outbox' = [outbox EXCEPT ![c] = Tail(@)]
    /\ waiting' = [waiting EXCEPT ![c] = 0]
    /\ UNCHANGED <<phase, left, made, missed, conn, read, handling, job>>

\* The timeout abandons the read, not the request.
TimeOut(c) ==
    /\ waiting[c] # 0
    /\ missed' = [missed EXCEPT ![c] = @ \cup {waiting[c]}]
    /\ waiting' = [waiting EXCEPT ![c] = 0]
    /\ UNCHANGED <<phase, left, made, got, server>>

\* The client is dropped, or its process ends.
Leave(c) ==
    /\ Connected(c)
    /\ left' = left \cup {c}
    /\ waiting' = [waiting EXCEPT ![c] = 0]
    /\ outbox' = [outbox EXCEPT ![c] = <<>>]
    /\ UNCHANGED <<phase, made, missed, got, conn, read, handling, job>>

-----------------------------------------------------------------------------
(* A connection of the server *)

\* Its task gets a permit.
Admit(c) ==
    /\ Up
    /\ conn[c] = "accepted"
    /\ Permit
    /\ ToConn(c, "open")
    /\ UNCHANGED <<phase, client, read, handling, outbox, job>>

\* A variant that reads the next request once the last one is answered.
ReadInTurn(c) ==
    /\ Up
    /\ conn[c] = "open" /\ read[c] < made[c]
    /\ handling[c] = {}
    /\ read' = [read EXCEPT ![c] = @ + 1]
    /\ handling' = [handling EXCEPT ![c] = @ \cup {read[c] + 1}]
    /\ UNCHANGED <<phase, client, conn, outbox, job>>

\* A request is read and its handler spawned.
Read(c) ==
    /\ Up
    /\ conn[c] = "open" /\ read[c] < made[c]
    /\ read' = [read EXCEPT ![c] = @ + 1]
    /\ handling' = [handling EXCEPT ![c] = @ \cup {read[c] + 1}]
    /\ UNCHANGED <<phase, client, conn, outbox, job>>

\* A variant whose handler does not end with its answer.
AnswerAgain(c, k) ==
    /\ outbox' = IF c \in left THEN outbox ELSE [outbox EXCEPT ![c] = Append(@, k)]
    /\ UNCHANGED <<phase, client, conn, read, handling>>

\* A handler ends and its answer goes to the writer, which fails to write it
\* once the client hung up.
Answer(c, k) ==
    /\ handling' = [handling EXCEPT ![c] = @ \ {k}]
    /\ outbox' = IF c \in left THEN outbox ELSE [outbox EXCEPT ![c] = Append(@, k)]
    /\ UNCHANGED <<phase, client, conn, read>>

\* turn.submit waits for room in the work channel; loop.run spawns at once.
Handle(c, k) ==
    /\ Up
    /\ k \in handling[c]
    /\ \/ Kind[c][k] = "turn" /\ Room /\ ToJob(c, k, "queued")
       \/ Kind[c][k] = "loop" /\ ToJob(c, k, "running")
       \/ Kind[c][k] \in {"plain", "slow"} /\ UNCHANGED job
    /\ Answer(c, k)

\* End of file; the task ends with the writer, which ends when the handlers
\* have, or earlier when it fails to write.
Close(c) ==
    /\ Up
    /\ conn[c] = "open"
    /\ c \in left /\ read[c] = made[c]
    /\ ToConn(c, "closed")
    /\ UNCHANGED <<phase, client, read, handling, outbox, job>>

-----------------------------------------------------------------------------
(* The worker, the tasks, and the main task *)

\* The worker takes a turn and spawns it.
Take(c, k) ==
    /\ Up
    /\ job[c][k] = "queued"
    /\ ToJob(c, k, "running")
    /\ UNCHANGED <<phase, client, conn, read, handling, outbox>>

JobEnds(c, k) ==
    /\ Up
    /\ job[c][k] = "running"
    /\ ToJob(c, k, "over")
    /\ UNCHANGED <<phase, client, conn, read, handling, outbox>>

ToPhase(p) == phase' = p

\* A signal drops the listener and the main task's own sender.
Signal ==
    /\ phase = "serving"
    /\ ToPhase("joining")
    /\ UNCHANGED <<client, server>>

\* Every connection and every handler holds the router, and so a sender.
Senders == {c \in Clients : conn[c] \in {"accepted", "open"} \/ handling[c] # {}}

\* A variant that does not wait for the worker.
JoinAtOnce ==
    /\ phase = "joining"
    /\ ToPhase("draining")
    /\ UNCHANGED <<client, server>>

\* The worker ends when the channel is empty and its last sender is gone;
\* then the main task takes the turns and the loops that run.
Join ==
    /\ phase = "joining"
    /\ Senders = {} /\ Jobs("queued") = {}
    /\ ToPhase("draining")
    /\ UNCHANGED <<client, server>>

\* A variant without the deadline.
Drain ==
    /\ phase = "draining"
    /\ Jobs("running") = {}
    /\ ToPhase("flushing")
    /\ UNCHANGED <<client, server>>

\* All of them ended, or the deadline passed.
Drained ==
    /\ phase = "draining"
    /\ ToPhase("flushing")
    /\ UNCHANGED <<client, server>>

\* Main returns: the runtime drops its tasks, the channel and the sockets.
Return(p) ==
    /\ ToPhase(p)
    /\ job' = [c \in Clients |-> [k \in Calls |->
                IF job[c][k] \in {"queued", "running"} THEN "aborted" ELSE job[c][k]]]
    /\ waiting' = [c \in Clients |-> 0]
    /\ outbox' = [c \in Clients |-> <<>>]
    /\ UNCHANGED <<left, made, missed, got, conn, read, handling>>

\* It does so after a pause for the streams.
Exit == phase = "flushing" /\ Return("exited")

\* The listener fails to accept a connection: serve returns the error and main
\* returns it too, without waiting for anything.
AcceptFails == phase = "serving" /\ Return("failed")

-----------------------------------------------------------------------------
Main == Join \/ Drained \/ Exit

Next ==
    \/ \E c \in Clients :
        \/ Connect(c) \/ Call(c) \/ Receive(c) \/ TimeOut(c) \/ Leave(c)
        \/ Admit(c) \/ Read(c) \/ Close(c)
        \/ \E k \in Calls : Handle(c, k) \/ Take(c, k) \/ JobEnds(c, k)
    \/ Signal \/ AcceptFails \/ Main

\* The runtime polls what is ready.  A handler ends unless it is a slow one;
\* of several that wait for room in the work channel each gets its turn.
\* Clients promise nothing, turns and loops need not end.
Fairness ==
    /\ WF_vars(Main)
    /\ \A c \in Clients :
        /\ WF_vars(Read(c))
        /\ SF_vars(Admit(c))
        /\ WF_vars(handling[c] = {} /\ Close(c))
        /\ \A k \in Calls :
            /\ SF_vars(Kind[c][k] # "slow" /\ Handle(c, k))
            /\ WF_vars(Take(c, k))

Spec == Init /\ [][Next]_vars /\ Fairness

-----------------------------------------------------------------------------
(* Properties *)

TypeOK ==
    /\ phase \in {"serving", "joining", "draining", "flushing", "exited", "failed"}
    /\ conn \in [Clients -> {"away", "accepted", "open", "closed"}]
    /\ left \subseteq Clients
    /\ made \in [Clients -> 0..MaxCalls]
    /\ waiting \in [Clients -> 0..MaxCalls]
    /\ missed \in [Clients -> SUBSET Calls]
    /\ got \in [Clients -> [Calls -> 0..MaxCalls]]
    /\ read \in [Clients -> 0..MaxCalls]
    /\ handling \in [Clients -> SUBSET Calls]
    /\ outbox \in [Clients -> Seq(Calls)]
    /\ job \in [Clients -> [Calls -> JobStates]]

\* A request is in one place: with its handler, on its way back, or returned
\* to a call, and it is answered at most once.
HandledOnce(c) ==
    /\ read[c] <= made[c] /\ waiting[c] <= made[c]
    /\ c \in left \/ ~Up => waiting[c] = 0
    /\ handling[c] \subseteq 1..read[c]
    /\ \A i \in 1..Len(outbox[c]) :
        /\ outbox[c][i] \in (1..read[c]) \ handling[c]
        /\ \A j \in 1..Len(outbox[c]) : outbox[c][j] = outbox[c][i] => i = j
        /\ \A k \in Calls : got[c][k] # outbox[c][i]
    /\ \A k \in Calls : got[c][k] # 0 =>
        /\ got[c][k] \in (1..read[c]) \ handling[c]
        /\ \A l \in Calls : got[c][l] = got[c][k] => k = l

\* What a client without a timeout behind it has outstanding.
InStep(c) ==
    missed[c] = {} =>
        /\ \A k \in Calls : got[c][k] \in {0, k}
        /\ c \notin left /\ Up =>
            \A k \in 1..made[c] : k # waiting[c] => got[c][k] = k
        /\ waiting[c] # 0 => waiting[c] = made[c]

\* Who is not connected has asked for nothing, a connection closes once it read
\* everything, and only an answered request has started its work.
Served(c) ==
    /\ conn[c] = "away" => made[c] = 0
    /\ conn[c] = "closed" => c \in left /\ read[c] = made[c]
    /\ \A k \in Calls : job[c][k] # "none" => k \in (1..read[c]) \ handling[c]

\* A client that never timed out gets to each call the answer to that call,
\* though answers carry no more than their order.
OwnAnswerUnlessTimedOut ==
    \A c \in Clients : missed[c] = {} => \A k \in Calls : got[c][k] \in {0, k}

\* When the main task takes stock nothing can be submitted any more: every
\* turn whose submission was acknowledged has been started.  It takes no stock
\* when the listener failed.
NothingLeftBehind ==
    phase \in {"draining", "flushing", "exited"} => Senders = {} /\ Jobs("queued") = {}

\* The inductive invariant of the proofs.
DaemonInv == TypeOK /\ \A c \in Clients : HandledOnce(c) /\ InStep(c) /\ Served(c)

\* How far a request is, and whether the daemon takes any.
StageOf(c, k) ==
    CASE k > made[c] -> "unmade"
      [] k <= made[c] /\ k > read[c] -> "sent"
      [] k <= read[c] /\ k \in handling[c] -> "handling"
      [] OTHER -> "answered"
Stages == [c \in Clients |-> [k \in Calls |-> StageOf(c, k)]]
Openness ==
    CASE phase = "serving" -> "open"
      [] phase = "joining" -> "ending"
      [] phase = "exited" -> "over"
      [] phase = "failed" -> "broken"
      [] OTHER -> "closed"

Promise == INSTANCE CallPromise WITH
    daemon <- Openness, stage <- Stages, result <- got,
    gaveUp <- {c \in Clients : missed[c] # {}}, gone <- left

\* The service implements CallPromise: requests are taken in order and answered
\* once, each answer comes to one call, and the daemon closes with none left or
\* breaks down while it serves.
KeepsPromise == Promise!Spec

\* A handler that never ends holds up neither the requests after it nor those
\* of other connections.
AnsweredDespiteSlow ==
    \A c \in Clients, k \in Calls :
        k <= made[c] /\ conn[c] = "open" /\ Kind[c][k] # "slow"
            ~> ~Up \/ (k <= read[c] /\ k \notin handling[c])

ClientsGone == \A c \in Clients : conn[c] = "away" \/ c \in left
Hanging == \E c \in Clients : \E k \in handling[c] : Kind[c][k] = "slow"

\* The daemon exits once every client has left and no handler hangs, even when
\* turns and loops do not end.
ExitsOnceClientsLeave ==
    phase = "joining" /\ ClientsGone ~> phase = "exited" \/ Hanging

\* The safety behind it: while the main task waits for the worker, and the worker
\* for the last sender, no cycle closes over the permits, the handlers and the
\* full channel.  Someone can go on: the main task, a connection that waits for a
\* permit, reads or closes, a handler, or the worker.
ShutdownNeverStuck ==
    phase = "joining" /\ ClientsGone /\ ~Hanging =>
        \/ Senders = {} /\ Jobs("queued") = {}
        \/ \E c \in Clients :
            \/ conn[c] = "accepted" /\ Permit
            \/ conn[c] = "open" /\ read[c] < made[c]
            \/ conn[c] = "open" /\ read[c] = made[c] /\ handling[c] = {}
            \/ \E k \in handling[c] : Kind[c][k] # "turn" \/ Room
            \/ \E k \in Calls : job[c][k] = "queued"

=============================================================================
