------------------------------ MODULE ReplayLog ------------------------------
(***************************************************************************)
(* What the replay buffers of the stream server promise to a client that   *)
(* connects late: each holds the newest events, it forgets the oldest      *)
(* first, a prompt leaves early only because it was answered, and a buffer *)
(* is given up as a whole only when its turn is over or nobody is prompted.*)
(***************************************************************************)
EXTENDS Naturals

CONSTANT Keys \* the turns, and the session

VARIABLES
    kept,    \* Keys -> positions of the buffered events, oldest first
    prompts, \* positions that hold a request for approval
    over     \* keys whose outcome the buffer task has met

\* S is what remains of T when some of its oldest elements are dropped.
NewestOf(S, T) == S \subseteq T /\ \A i \in S : \A j \in T \ S : j < i

Init == kept = [k \in Keys |-> {}] /\ over = {}

Add(k) ==
    \E i \in kept'[k] :
        /\ \A j \in kept[k] : j < i
        /\ NewestOf(kept'[k] \ {i}, kept[k])

Answer(k) == kept'[k] \subseteq kept[k] /\ kept[k] \ kept'[k] \subseteq prompts

GiveUp(k) ==
    /\ k \in over \/ kept[k] \cap prompts = {}
    /\ kept'[k] = {}

Next == over \subseteq over' /\ \A k \in Keys : Add(k) \/ Answer(k) \/ GiveUp(k)

Spec == Init /\ [][Next]_<<kept, over>>

=============================================================================
