-------------------------- MODULE ApprovalPromise ---------------------------
(***************************************************************************)
(* What the approval gate promises its callers, whatever the timing: a call*)
(* is decided once; a call that was put to the human runs only on the      *)
(* human's own approval or modification, of which there is at most one;    *)
(* refusing, or abandoning the call, is always allowed.                    *)
(***************************************************************************)
CONSTANT Calls

VARIABLES
    asked,   \* calls put to the human
    answer,  \* the accepted answer, or "none"
    status   \* the fate of each call

vars == <<asked, answer, status>>

Init ==
    /\ asked = {}
    /\ answer = [c \in Calls |-> "none"]
    /\ status = [c \in Calls |-> "undecided"]

Ask(c) ==
    /\ status[c] = "undecided" /\ c \notin asked
    /\ asked' = asked \cup {c}
    /\ UNCHANGED <<answer, status>>

\* An answer may arrive when the asker has already given up on it.
Answer(c, d) ==
    /\ c \in asked /\ answer[c] = "none"
    /\ answer' = [answer EXCEPT ![c] = d]
    /\ UNCHANGED <<asked, status>>

Grant(c) ==
    /\ status[c] = "undecided"
    /\ c \in asked => answer[c] \in {"approve", "modify"}
    /\ status' = [status EXCEPT ![c] = "granted"]
    /\ UNCHANGED <<asked, answer>>

Refuse(c) ==
    /\ status[c] = "undecided"
    /\ status' = [status EXCEPT ![c] = "refused"]
    /\ UNCHANGED <<asked, answer>>

Abandon(c) ==
    /\ status[c] = "undecided"
    /\ status' = [status EXCEPT ![c] = "abandoned"]
    /\ UNCHANGED <<asked, answer>>

Next ==
    \E c \in Calls :
        \/ Ask(c) \/ Grant(c) \/ Refuse(c) \/ Abandon(c)
        \/ \E d \in {"approve", "deny", "modify"} : Answer(c, d)

Spec == Init /\ [][Next]_vars

=============================================================================
