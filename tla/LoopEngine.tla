----------------------------- MODULE LoopEngine -----------------------------
(***************************************************************************)
(* Loops: a loop record in the database, the policy file, the list of      *)
(* pending slices and the one checkpoint file of the workspace, and the    *)
(* engine tasks that loop.run and loop.resume spawn over them.  An engine  *)
(* plans, drives each slice through implement, verify, fix and review, and *)
(* checkpoints; clients cancel and retire the record meanwhile, the policy *)
(* is edited, and the process may crash.                                   *)
(*                                                                         *)
(* tasks.md is the list of its unticked slices, a policy its hash.  A step *)
(* of an engine runs from one agent turn, verification or file access to   *)
(* the next and includes the statuses it writes on the way.  A request     *)
(* checks the loop in one step and acts in another.                        *)
(***************************************************************************)
EXTENDS Naturals, Sequences, FiniteSets

CONSTANTS
    Changes,    \* spec changes, each with a tasks.md
    Loops,      \* loop records
    ChangeOf,   \* Loops -> Changes: change_name
    Engines,    \* calls of loop.run and loop.resume
    Policies,   \* valid contents of loop.json
    Separated,  \* policies that pass evaluator separation
    Planned,    \* policies with a plan role
    Review,     \* Policies -> "none", "advisory" or "required": review per slice
    Slices,     \* slices
    Lists,      \* contents of tasks.md: sequences of slices
    MaxSlices,  \* bound on their length
    MaxAttempts,\* limits.max_attempts
    MaxParallel,\* limits.max_parallel_slices, for slices with a worktree each
    MaxTroubles \* bound on edits of loop.json and tasks.md, statuses lost and crashes

ASSUME LoopAssumption ==
    /\ ChangeOf \in [Loops -> Changes]
    /\ Separated \subseteq Policies /\ Planned \subseteq Policies
    /\ Review \in [Policies -> {"none", "advisory", "required"}]
    /\ Lists \subseteq Seq(Slices) /\ \A l \in Lists : Len(l) <= MaxSlices
    /\ MaxAttempts \in Nat \ {0}
    /\ MaxParallel \in Nat \ {0, 1}
    /\ MaxSlices \in Nat /\ MaxTroubles \in Nat

VARIABLES
    serial,     \* one slice at a time: always so in the daemon, on its one tree
    policy,     \* loop.json: a policy, or invalid
    tasks,      \* Changes -> Lists
    edited,     \* changes whose tasks.md was changed after an engine could use it
    checkpoint, \* .smedja/loop-state.json
    status,     \* loops.status in the database
    unwritten,  \* history: loops the last status of whose engines was lost
    retiring,   \* loops a loop.retire has read as ended and not yet written
    pc,         \* where each engine is
    loop,       \* the loop each engine drives
    config,     \* the policy it loaded
    first,      \* how many slices it takes as done from the checkpoint
    list,       \* the slices it drives
    stage,      \* where each of its slices is
    attempt,    \* failed verifications of each of its slices
    passed,     \* history: slices that passed, under which policy
    edits, faults, crashes \* how many edits, statuses lost and crashes

world == <<serial, policy, tasks, edited, edits>>
engine == <<pc, loop, config, first, list, stage, attempt>>
report == <<status, unwritten, faults>>
vars == <<world, checkpoint, report, retiring, engine, passed, crashes>>

-----------------------------------------------------------------------------
Positions == 1..MaxSlices
Blank == [p \in Positions |-> "todo"]
Active == {"planning", "slicing", "verifying", "reviewing", "fixed"}
Statuses == {"absent", "planned", "complete", "failed", "policy_tampered", "cancelled", "retired"} \cup Active
Running == {"run", "resume", "resuming", "driving", "planning", "slicing"}
Waiting == {"unused", "called"}
Ended == {"complete", "failed", "tampered", "lost"}
InFlight == {"role", "verify", "review"}
Invalid == "invalid"
NoFile == [state |-> "none"]
Torn == [state |-> "torn"]
Checkpoints == [state : {"ok"}, change : Changes, policy : Policies, done : 0..MaxSlices]

Init ==
    /\ serial \in BOOLEAN
    /\ policy \in Policies \cup {Invalid}
    /\ tasks \in [Changes -> Lists]
    /\ edited = {}
    /\ checkpoint = NoFile
    /\ status = [l \in Loops |-> "absent"]
    /\ unwritten = {} /\ retiring = {}
    /\ pc = [e \in Engines |-> "unused"]
    /\ loop \in [Engines -> Loops]
    /\ config = [e \in Engines |-> Invalid]
    /\ first = [e \in Engines |-> 0]
    /\ list = [e \in Engines |-> <<>>]
    /\ stage = [e \in Engines |-> Blank]
    /\ attempt = [e \in Engines |-> [p \in Positions |-> 0]]
    /\ passed = {}
    /\ edits = 0 /\ faults = 0 /\ crashes = 0

Trouble == edits + faults + crashes < MaxTroubles

Goto(e, p) == pc' = [pc EXCEPT ![e] = p]

\* A status is written; an error of the database is logged and the status lost.
SetStatus(e, st) ==
    \/ /\ status' = [status EXCEPT ![loop[e]] = st]
       /\ unwritten' = unwritten \ {loop[e]}
       /\ UNCHANGED faults
    \/ /\ Trouble
       /\ faults' = faults + 1
       /\ unwritten' = unwritten \cup {loop[e]}
       /\ UNCHANGED status
Change(e) == ChangeOf[loop[e]]

-----------------------------------------------------------------------------
(* Clients and the workspace *)

Create(l) ==
    /\ status[l] = "absent"
    /\ status' = [status EXCEPT ![l] = "planned"]
    /\ UNCHANGED <<world, checkpoint, unwritten, faults, retiring, engine, passed, crashes>>

\* loop.run or loop.resume finds the loop in the database, and not retired.
Call(e) ==
    /\ pc[e] = "unused"
    /\ status[loop[e]] \notin {"absent", "retired"}
    /\ Goto(e, "called")
    /\ UNCHANGED <<world, checkpoint, report, retiring, loop, config, first, list, stage, attempt, passed, crashes>>

\* Then, unless it refuses the change, it spawns the engine, whatever became of
\* the loop.
SpawnEngine(e) ==
    /\ pc[e] = "called"
    /\ \E how \in {"run", "resume"} : Goto(e, how)
    /\ UNCHANGED <<world, checkpoint, report, retiring, loop, config, first, list, stage, attempt, passed, crashes>>

\* loop.cancel writes the status and nothing else.
Cancel(l) ==
    /\ status[l] # "absent"
    /\ status' = [status EXCEPT ![l] = "cancelled"]
    /\ UNCHANGED <<world, checkpoint, unwritten, faults, retiring, engine, passed, crashes>>

\* loop.retire reads that the loop has ended.
RetireCheck(l) ==
    /\ status[l] \in {"complete", "failed"}
    /\ retiring' = retiring \cup {l}
    /\ UNCHANGED <<world, checkpoint, report, engine, passed, crashes>>

\* Then it writes the status, whatever it is by now, or fails to; another
\* request for the same loop may be left.
Retire(l) ==
    /\ l \in retiring
    /\ retiring' \in {retiring, retiring \ {l}}
    /\ status' \in {status, [status EXCEPT ![l] = "retired"]}
    /\ UNCHANGED <<world, checkpoint, unwritten, faults, engine, passed, crashes>>

EditPolicy ==
    /\ Trouble
    /\ edits' = edits + 1
    /\ policy' \in (Policies \cup {Invalid}) \ {policy}
    /\ UNCHANGED <<serial, tasks, edited, checkpoint, report, retiring, engine, passed, crashes>>

\* A user or an agent ticks slices off, or writes new ones.
EditTasks(c) ==
    /\ Trouble
    /\ edits' = edits + 1
    /\ \E l \in Lists : tasks' = [tasks EXCEPT ![c] = l]
    /\ edited' = edited \cup {c}
    /\ UNCHANGED <<serial, policy, checkpoint, report, retiring, engine, passed, crashes>>

-----------------------------------------------------------------------------
(* An engine *)

\* Its last status is written and its task ends.
End(e, how, st) ==
    /\ Goto(e, how)
    /\ SetStatus(e, st)

\* run: load loop.json, then the pending slices.
Load(e) ==
    /\ pc[e] = "run"
    /\ \/ /\ policy = Invalid
          /\ End(e, "failed", "failed")
          /\ UNCHANGED <<config, list>>
       \/ /\ policy # Invalid
          /\ config' = [config EXCEPT ![e] = policy]
          /\ list' = [list EXCEPT ![e] = tasks[Change(e)]]
          /\ Goto(e, "driving")
          /\ UNCHANGED report
    /\ UNCHANGED <<world, checkpoint, retiring, loop, first, stage, attempt, passed, crashes>>

\* The file is not replaced at once: another engine may have it half written.
HalfWritten(e) == \E d \in Engines \ {e} : pc[d] \in {"planning", "slicing"}

\* resume: a checkpoint of this change must be there.
LoadCheckpoint(e) ==
    /\ pc[e] = "resume"
    /\ LET usable == checkpoint.state = "ok" /\ checkpoint.change = Change(e)
       IN  \/ /\ usable
              /\ config' = [config EXCEPT ![e] = checkpoint.policy]
              /\ first' = [first EXCEPT ![e] = checkpoint.done]
              /\ Goto(e, "resuming")
              /\ UNCHANGED report
           \/ /\ ~usable \/ HalfWritten(e)
              /\ End(e, "failed", "failed")
              /\ UNCHANGED <<config, first>>
    /\ UNCHANGED <<world, checkpoint, retiring, loop, list, stage, attempt, passed, crashes>>

\* A variant that does not compare the hash with the checkpoint's.
ReloadUnchecked(e) ==
    /\ pc[e] = "resuming"
    /\ policy # Invalid
    /\ config' = [config EXCEPT ![e] = policy]
    /\ list' = [list EXCEPT ![e] = tasks[Change(e)]]
    /\ Goto(e, "driving")
    /\ UNCHANGED <<world, checkpoint, report, retiring, loop, first, stage, attempt, passed, crashes>>

\* Then loop.json is loaded; its hash must be the checkpoint's.
Reload(e) ==
    /\ pc[e] = "resuming"
    /\ \/ policy = Invalid /\ End(e, "failed", "failed") /\ UNCHANGED list
       \/ policy \notin {Invalid, config[e]} /\ End(e, "tampered", "policy_tampered") /\ UNCHANGED list
       \/ /\ policy = config[e]
          /\ list' = [list EXCEPT ![e] = tasks[Change(e)]]
          /\ Goto(e, "driving")
          /\ UNCHANGED report
    /\ UNCHANGED <<world, checkpoint, retiring, loop, config, first, stage, attempt, passed, crashes>>

\* drive: the file must still hash to what was loaded, the reviewer must be
\* another runner than the implementer.
Drive(e) ==
    /\ pc[e] = "driving"
    /\ \/ policy # config[e] /\ End(e, "tampered", "policy_tampered")
       \/ policy = config[e] /\ config[e] \notin Separated /\ End(e, "failed", "failed")
       \/ policy = config[e] /\ config[e] \in Separated /\ SetStatus(e, "planning") /\ Goto(e, "planning")
    /\ UNCHANGED <<world, checkpoint, retiring, loop, config, first, list, stage, attempt, passed, crashes>>

\* Best effort: a failed write leaves the file as it was, or cut short.
WriteCheckpoint(e, n) ==
    checkpoint' \in
        {[state |-> "ok", change |-> Change(e), policy |-> config[e], done |-> n], checkpoint, Torn}

\* A fresh run with a plan role and no slices has a planner write tasks.md;
\* then the first checkpoint is written and the slices begin.
Plan(e) ==
    /\ pc[e] = "planning"
    /\ LET plans == first[e] = 0 /\ config[e] \in Planned /\ list[e] = <<>>
           c == Change(e)
       IN  \/ /\ plans
              /\ End(e, "failed", "failed")
              /\ UNCHANGED <<tasks, edited, list, checkpoint>>
           \/ /\ IF plans
                 THEN \E l \in Lists :
                        /\ tasks' = [tasks EXCEPT ![c] = l]
                        /\ list' = [list EXCEPT ![e] = l]
                        /\ edited' = IF tasks[c] = <<>> THEN edited ELSE edited \cup {c}
                 ELSE UNCHANGED <<tasks, edited, list>>
              /\ WriteCheckpoint(e, first[e])
              /\ SetStatus(e, "slicing")
              /\ Goto(e, "slicing")
    /\ UNCHANGED <<serial, policy, edits, retiring, loop, config, first, stage, attempt, passed, crashes>>

ToStage(e, p, g) == stage' = [stage EXCEPT ![e][p] = g]
Own(e) == {p \in Positions : first[e] < p /\ p <= Len(list[e])}
At(e, g) == {p \in Own(e) : stage[e][p] = g}
Busy(e) == {p \in Own(e) : stage[e][p] \in InFlight}

\* One at a time: a slice starts when all before it passed.  Otherwise it
\* starts when there is a permit.
Begin(e, p) ==
    /\ pc[e] = "slicing"
    /\ p \in At(e, "todo")
    /\ IF serial
       THEN \A j \in Own(e) : j < p => stage[e][j] = "passed"
       ELSE Cardinality(Busy(e)) < MaxParallel
    /\ ToStage(e, p, "role")
    /\ UNCHANGED <<world, checkpoint, report, retiring, pc, loop, config, first, list, attempt, passed, crashes>>

\* A slice is settled: the counter of its attempts is gone.
Settle(e, p, g) ==
    /\ ToStage(e, p, g)
    /\ attempt' = [attempt EXCEPT ![e][p] = 0]

\* The slice passed; an engine that goes one at a time checkpoints at once.
Pass(e, p) ==
    /\ Settle(e, p, "passed")
    /\ passed' = passed \cup {<<Change(e), list[e][p], config[e]>>}
    /\ IF serial THEN WriteCheckpoint(e, p) ELSE UNCHANGED checkpoint

Fail(e, p) ==
    /\ Settle(e, p, "failed")
    /\ UNCHANGED <<checkpoint, passed>>

\* The implementer's turn, or the fix role's, ends; an error ends the slice.
RoleEnds(e, p) ==
    /\ pc[e] = "slicing"
    /\ p \in At(e, "role")
    /\ \/ Fail(e, p) /\ UNCHANGED report
       \/ /\ ToStage(e, p, "verify")
          /\ SetStatus(e, "verifying")
          /\ UNCHANGED <<checkpoint, attempt, passed>>
    /\ UNCHANGED <<world, retiring, pc, loop, config, first, list, crashes>>

\* The verification command ends.  A failure is handed to the fix role until
\* the attempts are used up.
VerifyEnds(e, p) ==
    /\ pc[e] = "slicing"
    /\ p \in At(e, "verify")
    /\ \/ /\ Review[config[e]] = "none"
          /\ Pass(e, p)
          /\ UNCHANGED report
       \/ /\ Review[config[e]] # "none"
          /\ SetStatus(e, "reviewing")
          /\ ToStage(e, p, "review")
          /\ UNCHANGED <<checkpoint, attempt, passed>>
       \/ /\ SetStatus(e, "fixed")
          /\ \/ /\ attempt[e][p] + 1 < MaxAttempts
                /\ ToStage(e, p, "role")
                /\ attempt' = [attempt EXCEPT ![e][p] = @ + 1]
                /\ UNCHANGED <<checkpoint, passed>>
             \/ attempt[e][p] + 1 = MaxAttempts /\ Fail(e, p)
    /\ UNCHANGED <<world, retiring, pc, loop, config, first, list, crashes>>

\* The reviewer's turn ends; its error stops a slice that requires review.
ReviewEnds(e, p) ==
    /\ pc[e] = "slicing"
    /\ p \in At(e, "review")
    /\ Pass(e, p) \/ (Review[config[e]] = "required" /\ Fail(e, p))
    /\ UNCHANGED <<world, report, retiring, pc, loop, config, first, list, crashes>>

\* The slices up to n passed without a gap, and no further.
Prefix(e, n) ==
    /\ \A p \in (first[e] + 1)..n : p \in At(e, "passed")
    /\ n + 1 \notin At(e, "passed")

\* All slices are settled, or one of a row failed.
Settled(e) ==
    /\ pc[e] = "slicing"
    /\ Busy(e) = {}
    /\ At(e, "todo") = {} \/ (serial /\ At(e, "failed") # {})
Result(e) == IF At(e, "failed") = {} THEN "complete" ELSE "failed"

\* The engine's task is over, in parallel with a last checkpoint.
Leave(e, n) ==
    /\ IF serial THEN UNCHANGED checkpoint ELSE WriteCheckpoint(e, n)
    /\ stage' = [stage EXCEPT ![e] = Blank]
    /\ UNCHANGED <<world, retiring, loop, config, first, list, attempt, passed, crashes>>

\* A variant that checkpoints the number of slices that passed.
FinishCounting(e) ==
    /\ Settled(e)
    /\ End(e, Result(e), Result(e))
    /\ Leave(e, first[e] + Cardinality(At(e, "passed")))

\* A variant that stops without writing the failure of a slice.
FinishSilently(e) ==
    /\ Settled(e)
    /\ Goto(e, Result(e))
    /\ IF Result(e) = "complete" THEN SetStatus(e, "complete") ELSE UNCHANGED report
    /\ \E n \in first[e]..MaxSlices : Prefix(e, n) /\ Leave(e, n)

\* The checkpoint of a parallel run covers the slices that passed without a gap.
Finish(e) ==
    /\ Settled(e)
    /\ End(e, Result(e), Result(e))
    /\ \E n \in first[e]..MaxSlices : Prefix(e, n) /\ Leave(e, n)

\* The process dies with its engines, perhaps in the middle of a checkpoint.
\* After the restart nothing looks at the loops.
Crash ==
    /\ Trouble
    /\ crashes' = crashes + 1
    /\ pc' = [e \in Engines |-> IF pc[e] \in Running \cup {"called"} THEN "lost" ELSE pc[e]]
    /\ retiring' = {}
    /\ \/ UNCHANGED checkpoint
       \/ (\E e \in Engines : pc[e] \in {"planning", "slicing"}) /\ checkpoint' = Torn
    /\ stage' = [e \in Engines |-> Blank]
    /\ attempt' = [e \in Engines |-> [p \in Positions |-> 0]]
    /\ UNCHANGED <<world, report, loop, config, first, list, passed>>

-----------------------------------------------------------------------------
Step(e) ==
    \/ Load(e) \/ LoadCheckpoint(e) \/ Reload(e) \/ Drive(e) \/ Plan(e) \/ Finish(e)
    \/ \E p \in Positions : Begin(e, p) \/ RoleEnds(e, p) \/ VerifyEnds(e, p) \/ ReviewEnds(e, p)

Next ==
    \/ \E e \in Engines : Call(e) \/ SpawnEngine(e) \/ Step(e)
    \/ \E l \in Loops : Create(l) \/ Cancel(l) \/ RetireCheck(l) \/ Retire(l)
    \/ \E c \in Changes : EditTasks(c)
    \/ EditPolicy
    \/ Crash

Spec == Init /\ [][Next]_vars

-----------------------------------------------------------------------------
(* Properties *)

TypeOK ==
    /\ serial \in BOOLEAN
    /\ policy \in Policies \cup {Invalid}
    /\ tasks \in [Changes -> Lists]
    /\ edited \subseteq Changes
    /\ checkpoint \in Checkpoints \cup {NoFile, Torn}
    /\ status \in [Loops -> Statuses]
    /\ unwritten \subseteq Loops /\ retiring \subseteq Loops
    /\ pc \in [Engines -> Waiting \cup Running \cup Ended]
    /\ loop \in [Engines -> Loops]
    /\ config \in [Engines -> Policies \cup {Invalid}]
    /\ first \in [Engines -> 0..MaxSlices]
    /\ list \in [Engines -> Lists \cup {<<>>}]
    /\ stage \in [Engines -> [Positions -> {"todo", "passed", "failed"} \cup InFlight]]
    /\ attempt \in [Engines -> [Positions -> 0..(MaxAttempts - 1)]]
    /\ passed \subseteq Changes \X Slices \X Policies
    /\ edits \in Nat /\ faults \in Nat /\ crashes \in Nat

\* The first n slices of change c passed under policy h.
DoneUnder(c, n, h) ==
    n <= Len(tasks[c]) /\ \A p \in 1..n : <<c, tasks[c][p], h>> \in passed

\* Whatever engines wrote the checkpoint file, in whatever order, and however
\* a parallel run ended: every slice it counts as done passed, under the
\* policy it names, while nobody changes tasks.md under the engines.
CheckpointSound ==
    checkpoint.state = "ok" /\ checkpoint.change \notin edited =>
        DoneUnder(checkpoint.change, checkpoint.done, checkpoint.policy)

\* The engine that reports a change complete, resumed or not, leaves no slice
\* of its list that did not pass under the one policy it runs by: an edit of
\* loop.json never lets a run mix slices of two policies, and neither a crash
\* nor another engine's checkpoint makes a resume skip one.
CompleteMeansPassed ==
    \A e \in Engines : pc[e] = "complete" /\ Change(e) \notin edited =>
        \A p \in 1..Len(list[e]) : <<Change(e), list[e][p], config[e]>> \in passed

\* What an engine holds.
EngineSound(e) ==
    /\ pc[e] \in {"resuming", "driving", "planning", "slicing"} => config[e] \in Policies
    /\ pc[e] \in {"planning", "slicing"} => config[e] \in Separated
    /\ pc[e] \in Waiting \cup {"run", "resume"} => first[e] = 0
    /\ pc[e] \in Waiting \cup {"run", "resume", "resuming", "driving", "planning"} =>
         stage[e] = Blank
    /\ pc[e] \in {"resuming", "driving", "planning", "slicing", "complete"} /\ Change(e) \notin edited =>
         /\ DoneUnder(Change(e), first[e], config[e])
         /\ pc[e] # "resuming" => list[e] \in {<<>>, tasks[Change(e)]}
         /\ pc[e] # "resuming" /\ list[e] = <<>> => first[e] = 0
    /\ \A p \in Positions : stage[e][p] = "passed" =>
         p <= Len(list[e]) /\ <<Change(e), list[e][p], config[e]>> \in passed
    /\ serial => \A p, q \in Own(e) : p < q /\ stage[e][q] # "todo" => stage[e][p] = "passed"

\* The inductive invariant of the proofs.
LoopInv == TypeOK /\ CheckpointSound /\ \A e \in Engines : EngineSound(e)

\* Unless the process crashed, or the database lost the last status an engine of
\* the loop wrote, a loop that says it is being worked on has an engine: no path
\* of an engine, and no request that races it, forgets the last status.
NoStrandedLoop ==
    \A l \in Loops : crashes = 0 /\ l \notin unwritten /\ status[l] \in Active =>
        \E e \in Engines : loop[e] = l /\ pc[e] \in Running

\* How an engine stands to the outside.
Phase(e) ==
    CASE pc[e] = "unused" -> "idle"
      [] pc[e] \in {"planning", "slicing"} -> "working"
      [] pc[e] \in ({"called"} \cup Running) \ {"planning", "slicing"} -> "starting"
      [] OTHER -> pc[e]
Phases == [e \in Engines |-> Phase(e)]

Promise == INSTANCE LoopPromise WITH
    ordered <- serial, phase <- Phases, by <- config, work <- list, done <- passed,
    loose <- edited, unsaid <- unwritten, asked <- retiring

\* The engines implement LoopPromise: each runs by one policy from the moment it
\* sets to work, checkpoints and reports as complete what was done by it, and
\* writes the status of its loop, unless the database loses it, while it runs and
\* when it ends, never after; a loop is retired that had ended when it was asked for.
KeepsPromise == Promise!Spec

=============================================================================
