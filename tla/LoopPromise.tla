----------------------------- MODULE LoopPromise -----------------------------
(***************************************************************************)
(* What loops promise whoever reads their status or their checkpoint.  An  *)
(* engine starts once, sets to work under the policy the file holds then,  *)
(* keeps to it, and ends once; what it writes of a loop's status is where  *)
(* it stands.  A slice is done by an engine at work, in order where slices *)
(* go one at a time; a checkpoint counts what was done under the policy it *)
(* names, and a loop is reported complete by an engine that has its whole  *)
(* list done.  Nothing is promised of a list that was edited meanwhile.  A *)
(* report may be lost, a checkpoint spoilt; a loop is retired when it had  *)
(* ended at the time it was asked for, whatever runs on it by then.        *)
(***************************************************************************)
EXTENDS Naturals, Sequences

CONSTANTS Loops, ChangeOf, Engines, Separated, MaxSlices

VARIABLES
    ordered,    \* one slice at a time
    policy,     \* the policy in force, if it is valid
    status,     \* Loops -> what is reported of each
    unsaid,     \* loops the last report of which was lost
    asked,      \* loops that had ended and are to be retired
    phase,      \* Engines -> "idle", "starting", "working", or how it ended
    loop,       \* Engines -> the loop each drives
    by,         \* Engines -> the policy each runs by
    work,       \* Engines -> the list of slices each drives
    done,       \* slices that were done, of which change and by which policy
    checkpoint, \* what a resume would take as done
    loose       \* changes whose list was edited

vars == <<ordered, policy, status, unsaid, asked, phase, loop, by, work, done, checkpoint, loose>>

AtWork == {"planning", "slicing", "verifying", "reviewing", "fixed"}

Init ==
    /\ status = [l \in Loops |-> "absent"]
    /\ unsaid = {} /\ asked = {}
    /\ phase = [e \in Engines |-> "idle"]
    /\ done = {}
    /\ checkpoint = [state |-> "none"]

Slice(e, p) == <<ChangeOf[loop[e]], work'[e][p], by'[e]>>

\* The first n slices of an engine's list are done by its policy.
FirstDone(e, n) ==
    ChangeOf[loop[e]] \notin loose' =>
        n <= Len(work'[e]) /\ \A p \in 1..n : Slice(e, p) \in done'

\* A checkpoint is kept, spoilt, or replaced by one that says no more than is so.
Record(e) ==
    \/ checkpoint' \in {checkpoint, [state |-> "torn"]}
    \/ \E n \in 0..MaxSlices :
        /\ FirstDone(e, n)
        /\ checkpoint' = [state |-> "ok", change |-> ChangeOf[loop[e]],
                          policy |-> by'[e], done |-> n]

Reports(e, st) ==
    /\ \/ status' = [status EXCEPT ![loop[e]] = st] /\ unsaid' = unsaid \ {loop[e]}
       \/ status' = status /\ unsaid' = unsaid \cup {loop[e]}
    /\ UNCHANGED asked
Silent == UNCHANGED <<status, unsaid, asked>>
Enters(e, ph) == phase' = [phase EXCEPT ![e] = ph]

Client(l) ==
    /\ \/ status[l] = "absent" /\ status' = [status EXCEPT ![l] = "planned"] /\ UNCHANGED asked
       \/ status[l] # "absent" /\ status' = [status EXCEPT ![l] = "cancelled"] /\ UNCHANGED asked
       \/ status[l] \in {"complete", "failed"} /\ asked' = asked \cup {l} /\ UNCHANGED status
       \/ /\ l \in asked
          /\ asked' \in {asked, asked \ {l}}
          /\ status' \in {status, [status EXCEPT ![l] = "retired"]}
    /\ UNCHANGED <<policy, unsaid, phase, by, work, done, checkpoint, loose>>

Start(e) ==
    /\ phase[e] = "idle"
    /\ status[loop[e]] \notin {"absent", "retired"}
    /\ Enters(e, "starting")
    /\ Silent /\ UNCHANGED <<policy, by, work, done, checkpoint, loose>>

\* Before it sets to work an engine gathers what it needs.
Prepare(e) ==
    /\ phase[e] = "starting"
    /\ \A d \in Engines \ {e} : by'[d] = by[d] /\ work'[d] = work[d]
    /\ Silent /\ UNCHANGED <<policy, phase, done, checkpoint, loose>>

SetToWork(e) ==
    /\ phase[e] = "starting"
    /\ by[e] = policy /\ by[e] \in Separated
    /\ Enters(e, "working") /\ Reports(e, "planning")
    /\ UNCHANGED <<policy, by, work, done, checkpoint, loose>>

\* A list may be planned where there is none.
Plan(e) ==
    /\ phase[e] = "working"
    /\ \A d \in Engines : work'[d] = work[d] \/ (d = e /\ work[e] = <<>>)
    /\ loose \subseteq loose'
    /\ Record(e)
    /\ Reports(e, "slicing")
    /\ UNCHANGED <<policy, phase, by, done>>

Do(e) ==
    /\ phase[e] = "working"
    /\ \E p \in 1..Len(work[e]) :
        /\ done' = done \cup {Slice(e, p)}
        /\ ordered => FirstDone(e, p)
    /\ Record(e)
    /\ Silent /\ UNCHANGED <<policy, phase, by, work, loose>>

Report(e) ==
    /\ phase[e] = "working"
    /\ \E st \in AtWork : Reports(e, st)
    /\ UNCHANGED <<policy, phase, by, work, done, checkpoint, loose>>

Complete(e) ==
    /\ phase[e] = "working"
    /\ FirstDone(e, Len(work[e]))
    /\ Record(e)
    /\ Enters(e, "complete") /\ Reports(e, "complete")
    /\ UNCHANGED <<policy, by, work, done, loose>>

Fail(e) ==
    /\ phase[e] \in {"starting", "working"}
    /\ phase[e] = "starting" => checkpoint' = checkpoint
    /\ Record(e)
    /\ Enters(e, "failed") /\ Reports(e, "failed")
    /\ UNCHANGED <<policy, by, work, done, loose>>

\* The policy is not the one it was told to run by.
Refuse(e) ==
    /\ phase[e] = "starting" /\ policy # by[e]
    /\ Enters(e, "tampered") /\ Reports(e, "policy_tampered")
    /\ UNCHANGED <<policy, by, work, done, checkpoint, loose>>

Edit ==
    /\ loose \subseteq loose'
    /\ Silent /\ UNCHANGED <<phase, by, work, done, checkpoint>>

\* Whoever runs is lost, and the checkpoint if it was being written.
Crash ==
    /\ phase' = [e \in Engines |->
                    IF phase[e] \in {"starting", "working"} THEN "lost" ELSE phase[e]]
    /\ \/ checkpoint' = checkpoint
       \/ checkpoint' = [state |-> "torn"] /\ \E e \in Engines : phase[e] = "working"
    /\ asked' = {}
    /\ UNCHANGED <<policy, status, unsaid, by, work, done, loose>>

Next ==
    /\ UNCHANGED <<ordered, loop>>
    /\ \/ \E l \in Loops : Client(l)
       \/ \E e \in Engines : Start(e) \/ Prepare(e) \/ SetToWork(e) \/ Plan(e) \/ Do(e)
                             \/ Report(e) \/ Complete(e) \/ Fail(e) \/ Refuse(e)
       \/ Edit \/ Crash

Spec == Init /\ [][Next]_vars

=============================================================================
