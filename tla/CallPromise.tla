----------------------------- MODULE CallPromise -----------------------------
(***************************************************************************)
(* What the RPC service promises its clients.  Requests of a client are     *)
(* taken in the order in which they were made; each is handled and answered *)
(* once, however long those before it take; its answer starts the work that *)
(* was asked for, once; an answer is returned to one call at most, and to   *)
(* its own when the client never gave up waiting.                          *)
(*                                                                         *)
(* Once the daemon is told to end it closes only when every request is      *)
(* answered and every turn it acknowledged runs; from then on nothing       *)
(* starts, and what still runs when it is over is aborted.  While it is     *)
(* open it may also break down: nothing is promised then to the requests    *)
(* without an answer and to the turns and loops that are not over.          *)
(***************************************************************************)
EXTENDS Naturals

CONSTANTS Clients, Calls, Kind

VARIABLES
    daemon,  \* "open", "ending", "closed" or "over"; or "broken"
    stage,   \* "unmade", "sent", "handling" or "answered", of each request
    waiting, \* the call each client waits for, or 0
    result,  \* the request whose answer each call returned, or 0
    gaveUp,  \* clients that ever gave up waiting
    gone,    \* clients that hung up
    job      \* the turn or the loop of each request

vars == <<daemon, stage, waiting, result, gaveUp, gone, job>>

Init ==
    /\ daemon = "open"
    /\ stage = [c \in Clients |-> [k \in Calls |-> "unmade"]]
    /\ waiting = [c \in Clients |-> 0]
    /\ result = [c \in Clients |-> [k \in Calls |-> 0]]
    /\ gaveUp = {} /\ gone = {}
    /\ job = [c \in Clients |-> [k \in Calls |-> "none"]]

Taking == daemon \in {"open", "ending"}

\* The first request of a client that is in a stage goes to the next.
First(c, k, from) == stage[c][k] = from /\ \A l \in Calls : l < k => stage[c][l] # from
ToStage(c, k, s) == stage' = [stage EXCEPT ![c][k] = s]

Make(c) ==
    /\ Taking /\ c \notin gone
    /\ waiting[c] = 0
    /\ \E k \in Calls :
        /\ First(c, k, "unmade") /\ ToStage(c, k, "sent")
        /\ waiting' = [waiting EXCEPT ![c] = k]
    /\ UNCHANGED <<daemon, result, gaveUp, gone, job>>

Start(c) ==
    /\ Taking
    /\ \E k \in Calls : First(c, k, "sent") /\ ToStage(c, k, "handling")
    /\ UNCHANGED <<daemon, waiting, result, gaveUp, gone, job>>

Answer(c, k) ==
    /\ Taking
    /\ stage[c][k] = "handling" /\ job[c][k] = "none"
    /\ ToStage(c, k, "answered")
    /\ \/ Kind[c][k] = "turn" /\ job' = [job EXCEPT ![c][k] = "queued"]
       \/ Kind[c][k] = "loop" /\ job' = [job EXCEPT ![c][k] = "running"]
       \/ Kind[c][k] \notin {"turn", "loop"} /\ UNCHANGED job
    /\ UNCHANGED <<daemon, waiting, result, gaveUp, gone>>

Return(c) ==
    /\ waiting[c] # 0
    /\ \E k \in Calls :
        /\ stage[c][k] = "answered" /\ \A l \in Calls : result[c][l] # k
        /\ c \notin gaveUp => k = waiting[c]
        /\ result' = [result EXCEPT ![c][waiting[c]] = k]
    /\ waiting' = [waiting EXCEPT ![c] = 0]
    /\ UNCHANGED <<daemon, stage, gaveUp, gone, job>>

GiveUp(c) ==
    /\ waiting[c] # 0
    /\ waiting' = [waiting EXCEPT ![c] = 0]
    /\ gaveUp' = gaveUp \cup {c}
    /\ UNCHANGED <<daemon, stage, result, gone, job>>

Leave(c) ==
    /\ gone' = gone \cup {c}
    /\ waiting' = [waiting EXCEPT ![c] = 0]
    /\ UNCHANGED <<daemon, stage, result, gaveUp, job>>

Work(c, k) ==
    /\ daemon \notin {"over", "broken"}
    /\ \/ job[c][k] = "queued" /\ job' = [job EXCEPT ![c][k] = "running"]
       \/ job[c][k] = "running" /\ job' = [job EXCEPT ![c][k] = "over"]
    /\ UNCHANGED <<daemon, stage, waiting, result, gaveUp, gone>>

ToEnd ==
    /\ daemon = "open" /\ daemon' = "ending"
    /\ UNCHANGED <<stage, waiting, result, gaveUp, gone, job>>

Close ==
    /\ daemon = "ending" /\ daemon' = "closed"
    /\ \A c \in Clients, k \in Calls :
        stage[c][k] \in {"unmade", "answered"} /\ job[c][k] # "queued"
    /\ UNCHANGED <<stage, waiting, result, gaveUp, gone, job>>

\* Nobody waits any more, and what is not over never will be.
Stop ==
    /\ waiting' = [c \in Clients |-> 0]
    /\ job' = [c \in Clients |-> [k \in Calls |->
                IF job[c][k] \in {"queued", "running"} THEN "aborted" ELSE job[c][k]]]
    /\ UNCHANGED <<stage, result, gaveUp, gone>>

End == daemon = "closed" /\ daemon' = "over" /\ Stop

Break == daemon = "open" /\ daemon' = "broken" /\ Stop

Next ==
    \/ \E c \in Clients :
        \/ Make(c) \/ Start(c) \/ Return(c) \/ GiveUp(c) \/ Leave(c)
        \/ \E k \in Calls : Answer(c, k) \/ Work(c, k)
    \/ ToEnd \/ Close \/ End \/ Break

Spec == Init /\ [][Next]_vars

=============================================================================
