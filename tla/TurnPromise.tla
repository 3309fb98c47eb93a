----------------------------- MODULE TurnPromise -----------------------------
(***************************************************************************)
(* What the turn lifecycle promises the clients of a turn, whatever the    *)
(* timing: the task row of a turn nobody cancelled moves forward only; its *)
(* outcome is announced once, as the row has it; Completed is announced    *)
(* once and over a stored response; and a subscriber is answered once,     *)
(* with what the row says at that moment.  A cancel releases the row and   *)
(* the Failed announcements from this, an error of the database what was   *)
(* to be read or written.                                                  *)
(***************************************************************************)
EXTENDS Naturals, Sequences

CONSTANTS Turns, Watchers

VARIABLES
    row,       \* Turns -> the status of the task
    stored,    \* turns with a stored response
    told,      \* Turns -> the outcomes announced
    cancelled, \* turns a cancel took hold of
    hurt,      \* turns for which the database returned an error
    asks,      \* Watchers -> the turn each subscribed to, if any
    answer     \* Watchers -> the answer each was given, or "none"

vars == <<row, stored, told, cancelled, hurt, asks, answer>>

Final == {"complete", "failed"}

\* What may follow a status while nobody cancels.
After(status) ==
    CASE status = "none" -> {"queued", "planned"}
      [] status \in {"queued", "planned"} -> {"in_progress"} \cup Final
      [] status = "in_progress" -> Final
      [] OTHER -> {}

Init ==
    /\ row = [t \in Turns |-> "none"]
    /\ stored = {}
    /\ told = [t \in Turns |-> <<>>]
    /\ cancelled = {}
    /\ hurt = {}
    /\ asks = [w \in Watchers |-> {}]
    /\ answer = [w \in Watchers |-> "none"]

\* A cancelled run leaves writes behind, which come in any order.
Write(t) ==
    \E status \in {"queued", "planned", "in_progress"} \cup Final :
        /\ status \in After(row[t]) \/ (t \in cancelled /\ row[t] # "none")
        /\ row' = [row EXCEPT ![t] = status]
        /\ stored' = IF status = "complete" THEN stored \cup {t} ELSE stored
        /\ UNCHANGED <<told, cancelled, asks, answer>>

Announce(t) ==
    \E outcome \in Final :
        /\ outcome = "complete" =>
              t \in stored /\ \A i \in 1..Len(told[t]) : told[t][i] = "failed"
        /\ t \notin cancelled =>
              /\ told[t] = <<>>
              /\ row[t] = outcome \/ (outcome = "failed" /\ t \in hurt)
        /\ told' = [told EXCEPT ![t] = Append(@, outcome)]
        /\ UNCHANGED <<row, stored, cancelled, asks, answer>>

Cancel(t) ==
    /\ row[t] # "none"
    /\ cancelled' = cancelled \cup {t}
    /\ UNCHANGED <<row, stored, told, asks, answer>>

Ask(w) ==
    /\ asks[w] = {}
    /\ \E t \in Turns : asks' = [asks EXCEPT ![w] = {t}]
    /\ UNCHANGED <<row, stored, told, cancelled, answer>>

\* An answer tells how t stands when it is given, or that nobody knows.
Holds(t, a) ==
    \/ a = "response" /\ row[t] = "complete" /\ t \in stored
    \/ a = "failure" /\ row[t] = "failed"
    \/ a = "absent" /\ row[t] = "none"
    \/ a = "unsettled" /\ row[t] \notin Final /\ t \in cancelled \cup hurt
    \/ a = "dberror" /\ t \in hurt'
    \/ a = "timeout"

Answer(w) ==
    /\ answer[w] = "none"
    /\ \E t \in asks[w],
          a \in {"response", "failure", "absent", "unsettled", "dberror", "timeout"} :
             Holds(t, a) /\ answer' = [answer EXCEPT ![w] = a]
    /\ UNCHANGED <<row, stored, told, cancelled, asks>>

Next ==
    /\ hurt \subseteq hurt'
    /\ \/ \E t \in Turns : Write(t) \/ Announce(t) \/ Cancel(t)
       \/ \E w \in Watchers : Ask(w) \/ Answer(w)
       \/ UNCHANGED <<row, stored, told, cancelled, asks, answer>>

Spec == Init /\ [][Next]_vars

=============================================================================
