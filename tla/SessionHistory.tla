--------------------------- MODULE SessionHistory ---------------------------
(***************************************************************************)
(* What the ledger promises a session that one client drives over a        *)
(* database that works: a history of checkpoints, numbered from 0, that    *)
(* grows at its end by one turn and the conversation it continued, loses   *)
(* only its end, and only when it is rewound to a checkpoint it has; turns *)
(* that are recorded once; and compactions that hold what the session had  *)
(* said when they were saved.  A turn that was stopped after its response  *)
(* was stored may be missing from the history, and one that was also       *)
(* marked failed from the conversation.  Of any other session it promises  *)
(* that compactions are kept.                                              *)
(***************************************************************************)
EXTENDS Naturals, Sequences

CONSTANTS Sessions, Turns, Compactions

VARIABLES
    log,      \* Sessions -> its checkpoints, oldest first
    recorded, \* Sessions -> the turns that got a checkpoint, or never will
    kept,     \* Sessions -> its compactions
    lost,     \* turns that were stopped on their way into the history
    failed,   \* those of them that were marked failed over their response
    loose     \* sessions that nothing more is promised of

vars == <<log, recorded, kept, lost, failed, loose>>

\* The prompts of the conversation a history stands for.
Conversation(history) == IF history = <<>> THEN {} ELSE history[Len(history)].msgs

Init ==
    /\ log = [s \in Sessions |-> <<>>]
    /\ recorded = [s \in Sessions |-> {}]
    /\ kept = [s \in Sessions |-> {}]
    /\ lost = {}
    /\ failed = {}

\* What was pruned by a rewind may come back into a conversation, what was never
\* recorded may not.
Record(s) ==
    /\ \E t \in Turns \ recorded[s], msgs \in SUBSET Turns :
         /\ (Conversation(log[s]) \ failed) \cup {t} \subseteq msgs
         /\ msgs \subseteq recorded[s] \cup {t}
         /\ log'[s] = Append(log[s], [n |-> Len(log[s]), by |-> t, msgs |-> msgs])
         /\ recorded'[s] = recorded[s] \cup {t}
    /\ kept'[s] = kept[s]

\* A turn that was stopped never gets the checkpoint its response promised.
Lose(s) ==
    /\ \E t \in lost' \ recorded[s] : recorded'[s] = recorded[s] \cup {t}
    /\ log'[s] = log[s] /\ kept'[s] = kept[s]

Rewind(s) ==
    /\ \E n \in 1 .. Len(log[s]) : log'[s] = SubSeq(log[s], 1, n)
    /\ recorded'[s] = recorded[s] /\ kept'[s] = kept[s]

Compact(s) ==
    /\ \E k \in Compactions :
         kept'[s] = kept[s] \cup
            {[id |-> k, n |-> Len(log[s]), msgs |-> Conversation(log[s])]}
    /\ log'[s] = log[s] /\ recorded'[s] = recorded[s]

Rest(s) == log'[s] = log[s] /\ recorded'[s] = recorded[s] /\ kept'[s] = kept[s]

Next ==
    /\ loose \subseteq loose' /\ lost \subseteq lost'
    /\ failed \subseteq failed' /\ failed' \subseteq lost'
    /\ \A s \in Sessions :
         /\ kept[s] \subseteq kept'[s]
         /\ s \in loose' \/ Rest(s) \/ Record(s) \/ Lose(s) \/ Rewind(s) \/ Compact(s)

Spec == Init /\ [][Next]_vars

=============================================================================
