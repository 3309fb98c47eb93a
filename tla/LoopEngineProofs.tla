-------------------------- MODULE LoopEngineProofs --------------------------
(***************************************************************************)
(* Proofs about LoopEngine: what a checkpoint counts as done has passed,   *)
(* whatever engines wrote it, and so has everything an engine reports as   *)
(* complete; no loop is left active without an engine, unless the process  *)
(* crashed or the database lost its last status; and the engines implement *)
(* LoopPromise.                                                            *)
(***************************************************************************)
EXTENDS LoopEngine, SequenceTheorems, TLAPS

\* What CompleteMeansPassed says of one engine.
CompleteSound(e) ==
    pc[e] = "complete" /\ Change(e) \notin edited =>
        \A p \in 1..Len(list[e]) : <<Change(e), list[e][p], config[e]>> \in passed

\* LoopInv implies only part of CompleteMeansPassed, which is kept beside it.
IInv == LoopInv /\ \A e \in Engines : CompleteSound(e)

\* What engines may do to the world under one another.
WorldKept ==
    /\ serial' = serial
    /\ edited \subseteq edited'
    /\ passed \subseteq passed'
    /\ \A c \in Changes \ edited' : tasks'[c] = tasks[c] \/ tasks[c] = <<>>

\* What belongs to engine d is as it was.
Same(d) ==
    /\ pc'[d] = pc[d] /\ loop'[d] = loop[d] /\ config'[d] = config[d]
    /\ first'[d] = first[d] /\ list'[d] = list[d] /\ stage'[d] = stage[d]

-----------------------------------------------------------------------------
(* Types *)

\* The lists an engine may hold.
LEMMA ListFacts ==
    ASSUME TypeOK, NEW e \in Engines
    PROVE  /\ list[e] \in Seq(Slices) /\ Len(list[e]) \in 0..MaxSlices
           /\ Change(e) \in Changes
           /\ tasks[Change(e)] \in Lists
           /\ first[e] \in 0..MaxSlices
           /\ Own(e) \subseteq Positions
<1> USE LoopAssumption, EmptySeq DEF TypeOK
<1>1. list[e] \in Seq(Slices) /\ Len(list[e]) <= MaxSlices
    <2>1. CASE list[e] \in Lists
        BY <2>1
    <2>2. CASE list[e] = <<>>
        BY <2>2
    <2> QED
        BY <2>1, <2>2
<1>2. Change(e) \in Changes
    BY DEF Change
<1> QED
    BY <1>1, <1>2, LenProperties DEF Own

\* The contents of tasks.md.
LEMMA TaskFacts ==
    ASSUME TypeOK, NEW c \in Changes
    PROVE  tasks[c] \in Seq(Slices) /\ Len(tasks[c]) \in 0..MaxSlices
<1>1. tasks[c] \in Seq(Slices) /\ Len(tasks[c]) <= MaxSlices
    BY LoopAssumption DEF TypeOK
<1> QED
    BY <1>1, LoopAssumption, LenProperties

\* What is reported of the loops has its type.
ReportOK ==
    /\ status \in [Loops -> Statuses]
    /\ unwritten \subseteq Loops
    /\ faults \in Nat

\* Writing a status, or losing it, keeps the type of what is reported.
LEMMA StatusType ==
    ASSUME TypeOK, NEW e \in Engines, NEW st \in Statuses, SetStatus(e, st)
    PROVE  ReportOK'
<1>1. loop[e] \in Loops
    BY DEF TypeOK
<1>2. CASE status' = [status EXCEPT ![loop[e]] = st] /\ unwritten' = unwritten \ {loop[e]} /\ faults' = faults
    BY <1>1, <1>2 DEF TypeOK, ReportOK
<1>3. CASE status' = status /\ unwritten' = unwritten \cup {loop[e]} /\ faults' = faults + 1
    BY <1>1, <1>3 DEF TypeOK, ReportOK
<1> QED
    BY <1>2, <1>3 DEF SetStatus

\* Setting the stage of one slice keeps the type of all.
LEMMA StageType ==
    ASSUME TypeOK, NEW e \in Engines, NEW p \in Positions,
           NEW g \in {"todo", "passed", "failed"} \cup InFlight, ToStage(e, p, g)
    PROVE  stage' \in [Engines -> [Positions -> {"todo", "passed", "failed"} \cup InFlight]]
<1>1. [stage[e] EXCEPT ![p] = g] \in [Positions -> {"todo", "passed", "failed"} \cup InFlight]
    BY DEF TypeOK
<1> QED
    BY <1>1 DEF ToStage, TypeOK

\* Settling a slice keeps the types of stages and attempts.
LEMMA SettleType ==
    ASSUME TypeOK, NEW e \in Engines, NEW p \in Positions,
           NEW g \in {"passed", "failed"}, Settle(e, p, g)
    PROVE  /\ stage' \in [Engines -> [Positions -> {"todo", "passed", "failed"} \cup InFlight]]
           /\ attempt' \in [Engines -> [Positions -> 0..(MaxAttempts - 1)]]
<1>1. [attempt[e] EXCEPT ![p] = 0] \in [Positions -> 0..(MaxAttempts - 1)]
    BY LoopAssumption DEF TypeOK
<1>2. attempt' \in [Engines -> [Positions -> 0..(MaxAttempts - 1)]]
    BY <1>1 DEF Settle, TypeOK
<1> QED
    BY <1>2, StageType DEF Settle

\* A checkpoint that is written has its type.
LEMMA CheckpointType ==
    ASSUME TypeOK, NEW e \in Engines, NEW n \in 0..MaxSlices, config[e] \in Policies,
           WriteCheckpoint(e, n)
    PROVE  checkpoint' \in Checkpoints \cup {NoFile, Torn}
<1>1. [state |-> "ok", change |-> Change(e), policy |-> config[e], done |-> n] \in Checkpoints
    BY ListFacts DEF Checkpoints
<1> QED
    BY <1>1 DEF WriteCheckpoint, TypeOK

\* Passing a slice keeps the types.
LEMMA PassType ==
    ASSUME TypeOK, NEW e \in Engines, config[e] \in Policies, NEW p \in Own(e), Pass(e, p)
    PROVE  /\ stage' \in [Engines -> [Positions -> {"todo", "passed", "failed"} \cup InFlight]]
           /\ attempt' \in [Engines -> [Positions -> 0..(MaxAttempts - 1)]]
           /\ passed' \subseteq Changes \X Slices \X Policies
           /\ checkpoint' \in Checkpoints \cup {NoFile, Torn}
<1>1. p \in Positions /\ p \in 1..Len(list[e]) /\ p \in 0..MaxSlices
    BY ListFacts DEF Own, Positions
<1>2. list[e][p] \in Slices
    BY <1>1, ListFacts, ElementOfSeq
<1>3. passed' \subseteq Changes \X Slices \X Policies
    BY <1>2, ListFacts DEF Pass, TypeOK
<1>4. checkpoint' \in Checkpoints \cup {NoFile, Torn}
    BY <1>1, CheckpointType DEF Pass, TypeOK
<1> QED
    BY <1>1, <1>3, <1>4, SettleType DEF Pass

\* Failing a slice keeps the types.
LEMMA FailType ==
    ASSUME TypeOK, NEW e \in Engines, NEW p \in Positions, Fail(e, p)
    PROVE  /\ stage' \in [Engines -> [Positions -> {"todo", "passed", "failed"} \cup InFlight]]
           /\ attempt' \in [Engines -> [Positions -> 0..(MaxAttempts - 1)]]
           /\ passed' \subseteq Changes \X Slices \X Policies
           /\ checkpoint' \in Checkpoints \cup {NoFile, Torn}
BY SettleType DEF Fail, TypeOK

\* Types are preserved.
LEMMA NextTypeOK ==
    ASSUME LoopInv, [Next]_vars
    PROVE  TypeOK'
<1>0. TypeOK
    BY DEF LoopInv
<1> USE LoopAssumption, <1>0 DEF Statuses, Active, Waiting, Running, Ended, InFlight
<1> DEFINE Stages == [Engines -> [Positions -> {"todo", "passed", "failed"} \cup InFlight]]
           Attempts == [Engines -> [Positions -> 0..(MaxAttempts - 1)]]
<1>1. ASSUME NEW l \in Loops, Create(l) \/ Cancel(l) \/ RetireCheck(l) \/ Retire(l) PROVE TypeOK'
    BY <1>1 DEF Create, Cancel, RetireCheck, Retire, TypeOK, world, report, engine
<1>2. CASE EditPolicy
    BY <1>2 DEF EditPolicy, TypeOK, report, engine
<1>3. ASSUME NEW c \in Changes, EditTasks(c) PROVE TypeOK'
    BY <1>3 DEF EditTasks, TypeOK, report, engine
<1>4. ASSUME NEW e \in Engines, Call(e) \/ SpawnEngine(e) PROVE TypeOK'
    <2>1. UNCHANGED <<world, checkpoint, report, retiring, loop, config, first, list, stage, attempt, passed, crashes>>
        BY <1>4 DEF Call, SpawnEngine
    <2>2. \E q \in {"called", "run", "resume"} : pc' = [pc EXCEPT ![e] = q]
        BY <1>4 DEF Call, SpawnEngine, Goto
    <2> QED
        BY <2>1, <2>2 DEF TypeOK, world, report
<1>5. ASSUME NEW e \in Engines, Load(e) PROVE TypeOK'
    <2>1. tasks[Change(e)] \in Lists
        BY ListFacts
    <2>2. list' \in [Engines -> Lists \cup {<<>>}] /\ config' \in [Engines -> Policies \cup {Invalid}]
        <3> DEFINE l == tasks[Change(e)]
        <3>1. \/ UNCHANGED <<config, list>>
              \/ config' = [config EXCEPT ![e] = policy] /\ list' = [list EXCEPT ![e] = l]
            BY <1>5 DEF Load
        <3>2. l \in Lists
            BY <2>1
        <3> HIDE DEF l
        <3>3. config' \in [Engines -> Policies \cup {Invalid}]
            BY <3>1 DEF TypeOK
        <3>4. list' \in [Engines -> Lists \cup {<<>>}]
            BY <3>1, <3>2 DEF TypeOK
        <3> QED
            BY <3>3, <3>4
    <2>3. pc' \in [Engines -> Waiting \cup Running \cup Ended]
        BY <1>5 DEF Load, Goto, End, TypeOK
    <2>4. ReportOK'
        BY <1>5, StatusType DEF Load, End, TypeOK, ReportOK, report
    <2> QED
        BY <1>5, <2>2, <2>3, <2>4 DEF Load, TypeOK, ReportOK, world
<1>6. ASSUME NEW e \in Engines, LoadCheckpoint(e) PROVE TypeOK'
    <2>1. checkpoint.state = "ok" => checkpoint \in Checkpoints
        BY DEF TypeOK, NoFile, Torn
    <2>2. first' \in [Engines -> 0..MaxSlices] /\ config' \in [Engines -> Policies \cup {Invalid}]
        BY <1>6, <2>1 DEF LoadCheckpoint, TypeOK, Checkpoints
    <2>3. pc' \in [Engines -> Waiting \cup Running \cup Ended]
        BY <1>6 DEF LoadCheckpoint, Goto, End, TypeOK
    <2>4. ReportOK'
        BY <1>6, StatusType DEF LoadCheckpoint, End, TypeOK, ReportOK, report
    <2> QED
        BY <1>6, <2>2, <2>3, <2>4 DEF LoadCheckpoint, TypeOK, ReportOK, world
<1>7. ASSUME NEW e \in Engines, Reload(e) PROVE TypeOK'
    <2>1. ReportOK'
        BY <1>7, StatusType DEF Reload, End, TypeOK, ReportOK, report
    <2>2. pc' \in [Engines -> Waiting \cup Running \cup Ended]
        <3>1. PICK x \in {"failed", "tampered", "driving"} : pc' = [pc EXCEPT ![e] = x]
            BY <1>7 DEF Reload, Goto, End
        <3>2. x \in Waiting \cup Running \cup Ended
            BY <3>1
        <3> HIDE DEF Waiting, Running, Ended
        <3> QED
            BY <3>1, <3>2 DEF TypeOK
    <2>3. list' \in [Engines -> Lists \cup {<<>>}]
        BY <1>7, ListFacts DEF Reload, TypeOK
    <2> QED
        BY <1>7, <2>1, <2>2, <2>3 DEF Reload, TypeOK, ReportOK, world
<1>8. ASSUME NEW e \in Engines, Drive(e) PROVE TypeOK'
    <2>1. ReportOK'
        BY <1>8, StatusType DEF Drive, End, TypeOK, ReportOK, report
    <2>2. pc' \in [Engines -> Waiting \cup Running \cup Ended]
        <3>1. PICK x \in {"tampered", "failed", "planning"} : pc' = [pc EXCEPT ![e] = x]
            BY <1>8 DEF Drive, Goto, End
        <3>2. x \in Waiting \cup Running \cup Ended
            BY <3>1
        <3> HIDE DEF Waiting, Running, Ended
        <3> QED
            BY <3>1, <3>2 DEF TypeOK
    <2> QED
        BY <1>8, <2>1, <2>2 DEF Drive, TypeOK, ReportOK, world
<1>9. ASSUME NEW e \in Engines, Plan(e) PROVE TypeOK'
    <2>1. config[e] \in Policies /\ first[e] \in 0..MaxSlices /\ Change(e) \in Changes
        BY <1>9, ListFacts DEF Plan, LoopInv, EngineSound
    <2>2. checkpoint' \in Checkpoints \cup {NoFile, Torn}
        BY <1>9, <2>1, CheckpointType DEF Plan, TypeOK
    <2>3. tasks' \in [Changes -> Lists] /\ edited' \subseteq Changes /\ list' \in [Engines -> Lists \cup {<<>>}]
        <3>1. CASE UNCHANGED <<tasks, edited, list>>
            BY <3>1 DEF TypeOK
        <3>2. ASSUME NEW l \in Lists,
                     tasks' = [tasks EXCEPT ![Change(e)] = l],
                     list' = [list EXCEPT ![e] = l],
                     edited' = IF tasks[Change(e)] = <<>> THEN edited ELSE edited \cup {Change(e)}
              PROVE  tasks' \in [Changes -> Lists] /\ edited' \subseteq Changes
                     /\ list' \in [Engines -> Lists \cup {<<>>}]
            BY <2>1, <3>2 DEF TypeOK
        <3> QED
            BY <1>9, <3>1, <3>2 DEF Plan
    <2>4. pc' \in [Engines -> Waiting \cup Running \cup Ended]
        BY <1>9 DEF Plan, End, Goto, TypeOK
    <2>5. ReportOK'
        BY <1>9, StatusType DEF Plan, End
    <2> QED
        BY <1>9, <2>2, <2>3, <2>4, <2>5 DEF Plan, TypeOK, ReportOK
<1>10. ASSUME NEW e \in Engines, NEW p \in Positions, Begin(e, p) PROVE TypeOK'
    <2>1. stage' \in Stages
        BY <1>10, StageType DEF Begin
    <2> QED
        BY <1>10, <2>1 DEF Begin, TypeOK, world, report
<1>11. ASSUME NEW e \in Engines, NEW p \in Positions, RoleEnds(e, p) PROVE TypeOK'
    <2>1. /\ stage' \in Stages /\ attempt' \in Attempts
          /\ checkpoint' \in Checkpoints \cup {NoFile, Torn} /\ passed' \subseteq Changes \X Slices \X Policies
        BY <1>11, StageType, FailType DEF RoleEnds, TypeOK
    <2>2. ReportOK'
        BY <1>11, StatusType DEF RoleEnds, TypeOK, ReportOK, report
    <2> QED
        BY <1>11, <2>1, <2>2 DEF RoleEnds, TypeOK, ReportOK, world
<1>12. ASSUME NEW e \in Engines, NEW p \in Positions, VerifyEnds(e, p) PROVE TypeOK'
    <2>0. config[e] \in Policies /\ p \in Own(e)
        BY <1>12 DEF VerifyEnds, At, LoopInv, EngineSound
    <2>1. /\ stage' \in Stages /\ attempt' \in Attempts
          /\ checkpoint' \in Checkpoints \cup {NoFile, Torn} /\ passed' \subseteq Changes \X Slices \X Policies
        <3>1. CASE Pass(e, p)
            BY <2>0, <3>1, PassType
        <3>2. CASE Fail(e, p)
            BY <3>2, FailType
        <3>3. CASE ToStage(e, p, "review") /\ UNCHANGED <<checkpoint, attempt, passed>>
            BY <3>3, StageType DEF TypeOK
        <3>4. CASE /\ attempt[e][p] + 1 < MaxAttempts
                   /\ ToStage(e, p, "role")
                   /\ attempt' = [attempt EXCEPT ![e][p] = @ + 1]
                   /\ UNCHANGED <<checkpoint, passed>>
            <4>1. attempt[e][p] + 1 \in 0..(MaxAttempts - 1)
                BY <3>4 DEF TypeOK
            <4>2. [attempt[e] EXCEPT ![p] = @ + 1] \in [Positions -> 0..(MaxAttempts - 1)]
                BY <4>1 DEF TypeOK
            <4>3. attempt' \in Attempts
                BY <3>4, <4>2 DEF TypeOK
            <4> QED
                BY <3>4, <4>3, StageType DEF TypeOK
        <3> QED
            BY <1>12, <3>1, <3>2, <3>3, <3>4 DEF VerifyEnds
    <2>2. ReportOK'
        BY <1>12, StatusType DEF VerifyEnds, TypeOK, ReportOK, report
    <2> QED
        BY <1>12, <2>1, <2>2 DEF VerifyEnds, TypeOK, ReportOK, world
<1>13. ASSUME NEW e \in Engines, NEW p \in Positions, ReviewEnds(e, p) PROVE TypeOK'
    <2>0. config[e] \in Policies /\ p \in Own(e)
        BY <1>13 DEF ReviewEnds, At, LoopInv, EngineSound
    <2>1. /\ stage' \in Stages /\ attempt' \in Attempts
          /\ checkpoint' \in Checkpoints \cup {NoFile, Torn} /\ passed' \subseteq Changes \X Slices \X Policies
        BY <1>13, <2>0, PassType, FailType DEF ReviewEnds
    <2> QED
        BY <1>13, <2>1 DEF ReviewEnds, TypeOK, world, report
<1>14. ASSUME NEW e \in Engines, Finish(e) PROVE TypeOK'
    <2>0. config[e] \in Policies /\ first[e] \in 0..MaxSlices
        BY <1>14, ListFacts DEF Finish, Settled, LoopInv, EngineSound
    <2>1. PICK n \in 0..MaxSlices : Leave(e, n)
        BY <1>14, <2>0 DEF Finish
    <2>2. checkpoint' \in Checkpoints \cup {NoFile, Torn}
        BY <2>0, <2>1, CheckpointType DEF Leave, TypeOK
    <2>3. stage' \in Stages
        BY <2>1 DEF Leave, Blank, TypeOK
    <2>4. pc' \in [Engines -> Waiting \cup Running \cup Ended]
        BY <1>14 DEF Finish, Result, End, Goto, TypeOK
    <2>5. ReportOK'
        BY <1>14, StatusType DEF Finish, Result, End
    <2> QED
        BY <2>1, <2>2, <2>3, <2>4, <2>5 DEF Leave, TypeOK, ReportOK, world
<1>15. CASE Crash
    <2>1. stage' \in Stages /\ attempt' \in Attempts
        BY <1>15 DEF Crash, Blank
    <2>2. pc' \in [Engines -> Waiting \cup Running \cup Ended] /\ checkpoint' \in Checkpoints \cup {NoFile, Torn}
        BY <1>15 DEF Crash, TypeOK
    <2> QED
        BY <1>15, <2>1, <2>2 DEF Crash, TypeOK, world, report
<1>16. CASE UNCHANGED vars
    BY <1>16 DEF vars, world, report, engine, TypeOK
<1> QED
    BY <1>1, <1>2, <1>3, <1>4, <1>5, <1>6, <1>7, <1>8, <1>9, <1>10, <1>11, <1>12, <1>13, <1>14, <1>15, <1>16
    DEF Next, Step

-----------------------------------------------------------------------------
(* What engines do to one another *)

\* DoneUnder in the next state, of values of this one.
DoneNext(c, n, h) ==
    n <= Len(tasks'[c]) /\ \A p \in 1..n : <<c, tasks'[c][p], h>> \in passed'

\* Slices that were done stay done under the other engines.
LEMMA DoneKept ==
    ASSUME TypeOK, WorldKept, NEW c \in Changes \ edited', NEW n \in Nat, NEW h, DoneUnder(c, n, h)
    PROVE  DoneNext(c, n, h)
<1>1. CASE tasks'[c] = tasks[c]
    BY <1>1 DEF WorldKept, DoneUnder, DoneNext
<1>2. CASE tasks[c] = <<>>
    <2>1. n = 0
        BY <1>2 DEF DoneUnder
    <2>2. Len(tasks'[c]) \in Nat
        BY <2>1
    <2> QED
        BY <2>1, <2>2 DEF DoneNext
<1> QED
    BY <1>1, <1>2 DEF WorldKept

\* What an engine holds is sound while others act.
LEMMA EngineKept ==
    ASSUME TypeOK, WorldKept, NEW d \in Engines, Same(d), EngineSound(d), CompleteSound(d)
    PROVE  EngineSound(d)' /\ CompleteSound(d)'
<1> USE DEF Same
<1>1. Change(d)' = Change(d) /\ Own(d)' = Own(d) /\ Change(d) \in Changes /\ first[d] \in Nat
    BY ListFacts, LoopAssumption DEF Change, Own
<1>2. Change(d)' \notin edited' => Change(d) \notin edited
    BY <1>1 DEF WorldKept
<1>3. ASSUME pc[d] \in {"resuming", "driving", "planning", "slicing", "complete"}, Change(d)' \notin edited'
      PROVE  /\ DoneUnder(Change(d), first[d], config[d])'
             /\ pc[d] # "resuming" => list[d] \in {<<>>, tasks'[Change(d)]}
             /\ pc[d] # "resuming" /\ list[d] = <<>> => first[d] = 0
    <2>1. /\ DoneUnder(Change(d), first[d], config[d])
          /\ pc[d] # "resuming" => list[d] \in {<<>>, tasks[Change(d)]}
          /\ pc[d] # "resuming" /\ list[d] = <<>> => first[d] = 0
        BY <1>2, <1>3 DEF EngineSound
    <2>2. tasks'[Change(d)] = tasks[Change(d)] \/ tasks[Change(d)] = <<>>
        BY <1>1, <1>3 DEF WorldKept
    <2>3. DoneUnder(Change(d), first[d], config[d])'
        <3>1. DoneNext(Change(d), first[d], config[d])
            BY <1>1, <1>3, <2>1, DoneKept
        <3> QED
            BY <3>1, <1>1 DEF DoneNext, DoneUnder
    <2> QED
        BY <2>1, <2>2, <2>3
<1> QED
    BY <1>1, <1>2, <1>3 DEF EngineSound, CompleteSound, WorldKept

-----------------------------------------------------------------------------
(* The steps of an engine *)

\* An engine whose slices up to n passed has done them, with those of the checkpoint.
LEMMA PrefixDone ==
    ASSUME TypeOK, NEW e \in Engines, EngineSound(e), pc[e] = "slicing", Change(e) \notin edited,
           NEW n \in first[e]..MaxSlices,
           passed \subseteq passed', tasks' = tasks,
           \A p \in (first[e] + 1)..n : p \in Own(e) /\ <<Change(e), list[e][p], config[e]>> \in passed'
    PROVE  DoneNext(Change(e), n, config[e])
<1> DEFINE c == Change(e)
           h == config[e]
<1>1. /\ first[e] <= Len(tasks[c]) /\ \A p \in 1..first[e] : <<c, tasks[c][p], h>> \in passed
      /\ list[e] \in {<<>>, tasks[c]}
      /\ first[e] \in Nat /\ n \in Nat /\ first[e] <= n /\ Len(tasks[c]) \in Nat
    <2>1. DoneUnder(c, first[e], h) /\ list[e] \in {<<>>, tasks[c]}
        BY DEF EngineSound
    <2>2. first[e] \in Nat /\ c \in Changes
        BY ListFacts
    <2>3. Len(tasks[c]) \in Nat
        BY <2>2, TaskFacts
    <2>4. n \in Nat /\ first[e] <= n
        BY <2>2, LoopAssumption
    <2> HIDE DEF c, h
    <2>5. first[e] <= Len(tasks[c]) /\ \A p \in 1..first[e] : <<c, tasks[c][p], h>> \in passed
        BY <2>1 DEF DoneUnder
    <2> QED
        BY <2>1, <2>2, <2>3, <2>4, <2>5
<1>2. CASE n = first[e]
    BY <1>1, <1>2 DEF DoneNext
<1>3. CASE n # first[e]
    <2>1. n \in Own(e)
        <3>1. n \in (first[e] + 1)..n
            BY <1>1, <1>3
        <3> QED
            BY <3>1
    <2>2. list[e] = tasks[c] /\ n <= Len(tasks[c])
        BY <1>1, <2>1, EmptySeq DEF Own
    <2>3. ASSUME NEW p \in 1..n PROVE <<c, tasks[c][p], h>> \in passed'
        <3>1. CASE p <= first[e]
            BY <1>1, <3>1
        <3>2. CASE p > first[e]
            <4>1. p \in (first[e] + 1)..n
                BY <1>1, <3>2
            <4> QED
                BY <2>2, <4>1
        <3> QED
            BY <1>1, <3>1, <3>2
    <2> QED
        BY <2>2, <2>3 DEF DoneNext
<1> QED
    BY <1>2, <1>3

\* An engine between its slices is sound when what it holds about them is.
LEMMA BlankSound ==
    ASSUME NEW e \in Engines, stage[e] = Blank, NEW p \in Positions
    PROVE  stage[e][p] = "todo"
BY DEF Blank

\* The world as the steps of an engine leave it.
LEMMA StepWorld ==
    ASSUME TypeOK, NEW e \in Engines, Step(e)
    PROVE  WorldKept
<1>1. CASE Load(e) \/ LoadCheckpoint(e) \/ Reload(e) \/ Drive(e)
    BY <1>1 DEF Load, LoadCheckpoint, Reload, Drive, world, WorldKept
<1>2. CASE Plan(e)
    BY <1>2 DEF Plan, WorldKept, TypeOK
<1>3. CASE Finish(e)
    BY <1>3 DEF Finish, Leave, world, WorldKept
<1>4. ASSUME NEW p \in Positions, Begin(e, p) \/ RoleEnds(e, p) \/ VerifyEnds(e, p) \/ ReviewEnds(e, p)
      PROVE  WorldKept
    BY <1>4 DEF Begin, RoleEnds, VerifyEnds, ReviewEnds, Pass, Fail, world, WorldKept
<1> QED
    BY <1>1, <1>2, <1>3, <1>4 DEF Step

\* A step of an engine leaves the others as they are.
LEMMA OthersSame ==
    ASSUME TypeOK, NEW e \in Engines, Step(e) \/ Call(e) \/ SpawnEngine(e), NEW d \in Engines, d # e
    PROVE  Same(d)
<1> USE DEF TypeOK, Same
<1>1. CASE Load(e) \/ LoadCheckpoint(e) \/ Reload(e) \/ Drive(e) \/ Call(e) \/ SpawnEngine(e)
    BY <1>1 DEF Load, LoadCheckpoint, Reload, Drive, Call, SpawnEngine, End, Goto
<1>2. CASE Plan(e)
    BY <1>2 DEF Plan, End, Goto
<1>3. CASE Finish(e)
    BY <1>3 DEF Finish, Leave, End, Goto
<1>4. ASSUME NEW p \in Positions, Begin(e, p) \/ RoleEnds(e, p) \/ VerifyEnds(e, p) \/ ReviewEnds(e, p)
      PROVE  Same(d)
    BY <1>4 DEF Begin, RoleEnds, VerifyEnds, ReviewEnds, Pass, Fail, Settle, ToStage
<1> QED
    BY <1>1, <1>2, <1>3, <1>4 DEF Step

\* A step that moves one slice of e from a stage in flight or not begun to g.
SliceMoves(e, p, g) ==
    /\ p \in Own(e) /\ ToStage(e, p, g)
    /\ UNCHANGED <<pc, loop, config, first, list, tasks, edited, serial>>
    /\ passed \subseteq passed'
    /\ pc[e] = "slicing" /\ stage[e][p] # "passed"
    /\ g = "passed" => <<Change(e), list[e][p], config[e]>> \in passed'
    /\ serial /\ g # "todo" => \A j \in Own(e) : j < p => stage[e][j] = "passed"

\* Such a step keeps the engine sound.
LEMMA SliceSound ==
    ASSUME TypeOK, NEW e \in Engines, EngineSound(e), NEW p \in Positions, NEW g, SliceMoves(e, p, g)
    PROVE  EngineSound(e)' /\ CompleteSound(e)'
<1> USE DEF SliceMoves
<1>0. /\ stage'[e] = [stage[e] EXCEPT ![p] = g]
      /\ \A q \in Positions : stage'[e][q] = IF q = p THEN g ELSE stage[e][q]
    BY DEF ToStage, TypeOK
<1>1. Change(e)' = Change(e) /\ Own(e)' = Own(e) /\ Own(e) \subseteq Positions /\ first[e] \in Nat
    BY ListFacts, LoopAssumption DEF Change, Own
<1>2. \A q \in Positions : stage'[e][q] = "passed" =>
          q <= Len(list'[e]) /\ <<Change(e), list'[e][q], config'[e]>> \in passed'
    BY <1>0 DEF EngineSound, Own
<1>3. ASSUME serial, NEW j \in Own(e), NEW q \in Own(e), j < q, stage'[e][q] # "todo"
      PROVE  stage'[e][j] = "passed"
    <2>1. CASE q = p
        BY <1>0, <1>1, <1>3, <2>1 DEF Positions
    <2>2. CASE q # p
        <3>1. stage[e][j] = "passed"
            BY <1>0, <1>1, <1>3, <2>2 DEF EngineSound
        <3> QED
            BY <1>0, <1>1, <3>1
    <2> QED
        BY <2>1, <2>2
<1>4. DoneUnder(Change(e), first[e], config[e]) => DoneUnder(Change(e), first[e], config[e])'
    BY <1>1 DEF DoneUnder
<1> QED
    BY <1>1, <1>2, <1>3, <1>4 DEF EngineSound, CompleteSound, Waiting

\* The steps of a slice are such moves.
LEMMA SliceSteps ==
    ASSUME TypeOK, NEW e \in Engines, EngineSound(e), NEW p \in Positions,
           Begin(e, p) \/ RoleEnds(e, p) \/ VerifyEnds(e, p) \/ ReviewEnds(e, p)
    PROVE  \E g \in {"role", "verify", "review", "passed", "failed"} : SliceMoves(e, p, g)
<1>1. CASE Begin(e, p)
    <2>1. serial => \A j \in Own(e) : j < p => stage[e][j] = "passed"
        BY <1>1 DEF Begin
    <2>2. SliceMoves(e, p, "role")
        BY <1>1, <2>1 DEF Begin, At, world, SliceMoves
    <2> QED
        BY <2>2
<1>2. CASE RoleEnds(e, p) \/ VerifyEnds(e, p) \/ ReviewEnds(e, p)
    <2>1. /\ p \in Own(e) /\ stage[e][p] \in InFlight /\ pc[e] = "slicing"
          /\ UNCHANGED <<pc, loop, config, first, list, tasks, edited, serial>>
        BY <1>2 DEF RoleEnds, VerifyEnds, ReviewEnds, At, world, InFlight
    <2>2. serial => \A j \in Own(e) : j < p => stage[e][j] = "passed"
        BY <2>1 DEF EngineSound, InFlight
    <2>3. \E g \in {"role", "verify", "review", "passed", "failed"} :
             /\ ToStage(e, p, g) /\ passed \subseteq passed'
             /\ g = "passed" => <<Change(e), list[e][p], config[e]>> \in passed'
        <3>1. CASE Pass(e, p)
            BY <3>1 DEF Pass, Settle
        <3>2. CASE Fail(e, p)
            BY <3>2 DEF Fail, Settle
        <3>3. CASE ToStage(e, p, "verify") /\ UNCHANGED passed
            BY <3>3
        <3>4. CASE ToStage(e, p, "review") /\ UNCHANGED passed
            BY <3>4
        <3>5. CASE ToStage(e, p, "role") /\ UNCHANGED passed
            BY <3>5
        <3> QED
            BY <1>2, <3>1, <3>2, <3>3, <3>4, <3>5 DEF RoleEnds, VerifyEnds, ReviewEnds
    <2> QED
        BY <2>1, <2>2, <2>3 DEF SliceMoves, InFlight
<1> QED
    BY <1>1, <1>2

\* The step that reports a change complete.
LEMMA FinishSound ==
    ASSUME TypeOK, NEW e \in Engines, EngineSound(e), Finish(e)
    PROVE  EngineSound(e)' /\ CompleteSound(e)'
<1>1. /\ pc[e] = "slicing" /\ pc'[e] = Result(e) /\ Result(e) \in {"complete", "failed"}
      /\ UNCHANGED <<serial, tasks, edited, loop, config, first, list, passed>>
      /\ stage'[e] = Blank
    BY DEF Finish, Settled, Leave, End, Goto, Result, world, TypeOK
<1>2. Change(e)' = Change(e) /\ Change(e) \in Changes /\ Own(e) \subseteq Positions
    BY <1>1, ListFacts DEF Change
<1>3. \A p \in Positions : stage'[e][p] = "todo"
    BY <1>1 DEF Blank
<1>4. EngineSound(e)'
    <2>1. Own(e)' \subseteq Positions
        BY DEF Own
    <2> QED
        BY <1>1, <1>2, <1>3, <2>1 DEF EngineSound, DoneUnder, Waiting
<1>5. ASSUME Result(e) = "complete", Change(e) \notin edited, NEW p \in 1..Len(list[e])
      PROVE  <<Change(e), list[e][p], config[e]>> \in passed
    <2>1. At(e, "failed") = {} /\ At(e, "todo") = {} /\ Busy(e) = {}
        BY <1>5 DEF Finish, Settled, Result
    <2>2. CASE p <= first[e]
        <3>1. list[e] = tasks[Change(e)]
            BY <1>1, <1>5, EmptySeq DEF EngineSound
        <3>2. p \in 1..first[e]
            BY <2>2, ListFacts, LoopAssumption
        <3> QED
            BY <1>1, <1>5, <3>1, <3>2 DEF EngineSound, DoneUnder
    <2>3. CASE first[e] < p
        <3>1. p \in Own(e) /\ p \in Positions
            BY <2>3, ListFacts, LoopAssumption DEF Own, Positions
        <3>2. stage[e][p] = "passed"
            BY <2>1, <3>1 DEF At, Busy, TypeOK
        <3> QED
            BY <3>1, <3>2 DEF EngineSound
    <2> QED
        BY <2>2, <2>3, ListFacts, LoopAssumption
<1> QED
    BY <1>1, <1>2, <1>4, <1>5 DEF CompleteSound

\* The step after which the slices begin.
LEMMA PlanSound ==
    ASSUME TypeOK, NEW e \in Engines, EngineSound(e), Plan(e)
    PROVE  EngineSound(e)' /\ CompleteSound(e)'
<1>1. /\ pc[e] = "planning" /\ pc'[e] \in {"failed", "slicing"}
      /\ UNCHANGED <<serial, loop, config, first, stage, passed>>
      /\ stage[e] = Blank
    BY DEF Plan, EngineSound, End, Goto, TypeOK
<1>2. Change(e)' = Change(e) /\ Change(e) \in Changes /\ Own(e)' \subseteq Positions
    BY <1>1, ListFacts DEF Change, Own
<1>3. \A p \in Positions : stage'[e][p] = "todo"
    BY <1>1 DEF Blank
<1>4. ASSUME pc'[e] = "slicing", Change(e) \notin edited'
      PROVE  /\ DoneUnder(Change(e), first[e], config[e])'
             /\ list'[e] \in {<<>>, tasks'[Change(e)]}
             /\ list'[e] = <<>> => first[e] = 0
    <2>0. /\ Change(e) \notin edited
          /\ DoneUnder(Change(e), first[e], config[e])
          /\ list[e] \in {<<>>, tasks[Change(e)]}
          /\ list[e] = <<>> => first[e] = 0
        BY <1>1, <1>4, StepWorld DEF EngineSound, Step, WorldKept
    <2>1. CASE UNCHANGED <<tasks, edited, list>>
        BY <1>1, <1>2, <2>0, <2>1 DEF DoneUnder
    <2>2. CASE first[e] = 0 /\ list'[e] = tasks'[Change(e)]
        <3>1. Len(tasks'[Change(e)]) \in Nat
            <4>1. tasks'[Change(e)] = tasks[Change(e)] \/ \E l \in Lists : tasks'[Change(e)] = l
                BY <1>2 DEF Plan, TypeOK
            <4> QED
                BY <1>2, <4>1, TaskFacts, LoopAssumption, LenProperties
        <3> QED
            BY <1>1, <1>2, <2>2, <3>1 DEF DoneUnder
    <2> QED
        BY <1>2, <2>1, <2>2 DEF Plan, TypeOK
<1> QED
    BY <1>1, <1>2, <1>3, <1>4 DEF EngineSound, CompleteSound, Waiting

\* The steps before the slices.
LEMMA EarlySound ==
    ASSUME TypeOK, CheckpointSound, NEW e \in Engines, EngineSound(e),
           Call(e) \/ SpawnEngine(e) \/ Load(e) \/ LoadCheckpoint(e) \/ Reload(e) \/ Drive(e)
    PROVE  EngineSound(e)' /\ CompleteSound(e)'
<1>1. /\ UNCHANGED <<serial, tasks, edited, loop, passed, stage>>
      /\ stage[e] = Blank
      /\ pc'[e] \in {"called", "run", "resume", "failed", "driving", "resuming", "tampered", "planning"}
    BY DEF Call, SpawnEngine, Waiting, Load, LoadCheckpoint, Reload, Drive, End, Goto, world, TypeOK, EngineSound
<1>2. /\ Change(e)' = Change(e) /\ Change(e) \in Changes /\ Own(e)' \subseteq Positions
      /\ Len(tasks[Change(e)]) \in Nat
    BY <1>1, ListFacts, TaskFacts DEF Change, Own
<1>3. \A p \in Positions : stage'[e][p] = "todo"
    BY <1>1 DEF Blank
<1>4. SUFFICES /\ pc'[e] \in {"resuming", "driving", "planning"} => config'[e] \in Policies
               /\ pc'[e] = "planning" => config'[e] \in Separated
               /\ pc'[e] \in {"called", "run", "resume"} => first'[e] = 0
               /\ pc'[e] \in {"resuming", "driving", "planning"} /\ Change(e) \notin edited =>
                    /\ first'[e] <= Len(tasks[Change(e)])
                    /\ \A p \in 1..first'[e] : <<Change(e), tasks[Change(e)][p], config'[e]>> \in passed
                    /\ pc'[e] # "resuming" => list'[e] \in {<<>>, tasks[Change(e)]}
                    /\ pc'[e] # "resuming" /\ list'[e] = <<>> => first'[e] = 0
    BY <1>1, <1>2, <1>3 DEF EngineSound, CompleteSound, DoneUnder, Waiting
<1>5. CASE Call(e) \/ SpawnEngine(e)
    BY <1>5 DEF Call, SpawnEngine, Goto, EngineSound, TypeOK, Waiting
<1>6. CASE Load(e)
    BY <1>2, <1>6 DEF Load, Goto, End, EngineSound, TypeOK
<1>7. CASE LoadCheckpoint(e)
    <2>1. checkpoint.state = "ok" => checkpoint \in Checkpoints
        BY DEF TypeOK, NoFile, Torn
    <2>2. CASE pc'[e] = "resuming"
        BY <1>2, <1>7, <2>1, <2>2 DEF LoadCheckpoint, Goto, End, TypeOK, CheckpointSound, DoneUnder, Checkpoints
    <2>3. CASE pc'[e] = "failed"
        BY <2>3
    <2> QED
        BY <1>7, <2>2, <2>3 DEF LoadCheckpoint, Goto, End, TypeOK
<1>8. CASE Reload(e)
    <2>1. UNCHANGED <<first, config>> /\ pc[e] = "resuming" /\ pc'[e] \in {"failed", "tampered", "driving"}
        BY <1>8 DEF Reload, Goto, End, TypeOK
    <2>2. pc'[e] = "driving" => list'[e] = tasks[Change(e)]
        BY <1>8 DEF Reload, Goto, End, TypeOK
    <2>3. list'[e] = <<>> => Len(list'[e]) = 0
        BY EmptySeq
    <2>4. first[e] \in Nat
        BY ListFacts, LoopAssumption
    <2>5. config[e] \in Policies /\ config'[e] = config[e] /\ first'[e] = first[e]
        BY <2>1 DEF EngineSound
    <2>6. Change(e) \notin edited =>
            /\ first[e] <= Len(tasks[Change(e)])
            /\ \A p \in 1..first[e] : <<Change(e), tasks[Change(e)][p], config[e]>> \in passed
        BY <2>1 DEF EngineSound, DoneUnder
    <2>7. pc'[e] = "driving" /\ list'[e] = <<>> /\ Change(e) \notin edited => first[e] = 0
        BY <1>2, <2>2, <2>3, <2>4, <2>6
    <2> QED
        BY <2>1, <2>2, <2>5, <2>6, <2>7
<1>9. CASE Drive(e)
    <2>1. UNCHANGED <<first, config, list>> /\ pc[e] = "driving" /\ pc'[e] \in {"failed", "tampered", "planning"}
        BY <1>9 DEF Drive, Goto, End, TypeOK
    <2>2. pc'[e] = "planning" => config[e] \in Separated
        BY <1>9 DEF Drive, Goto, End, TypeOK
    <2> QED
        BY <1>2, <2>1, <2>2 DEF EngineSound, DoneUnder
<1> QED
    BY <1>5, <1>6, <1>7, <1>8, <1>9

\* A step of engine e keeps e sound.
LEMMA OwnStep ==
    ASSUME TypeOK, CheckpointSound, NEW e \in Engines, EngineSound(e), Call(e) \/ SpawnEngine(e) \/ Step(e)
    PROVE  EngineSound(e)' /\ CompleteSound(e)'
<1>1. ASSUME NEW p \in Positions, Begin(e, p) \/ RoleEnds(e, p) \/ VerifyEnds(e, p) \/ ReviewEnds(e, p)
      PROVE  EngineSound(e)' /\ CompleteSound(e)'
    BY <1>1, SliceSteps, SliceSound
<1> QED
    BY <1>1, EarlySound, PlanSound, FinishSound DEF Step

-----------------------------------------------------------------------------
(* The checkpoint file *)

\* A checkpoint nobody writes stays sound, and so does one that is torn.
LEMMA CheckpointKept ==
    ASSUME TypeOK, CheckpointSound, WorldKept, checkpoint' \in {checkpoint, Torn}
    PROVE  CheckpointSound'
<1>1. SUFFICES ASSUME checkpoint' = checkpoint, checkpoint.state = "ok", checkpoint.change \notin edited'
               PROVE  DoneUnder(checkpoint.change, checkpoint.done, checkpoint.policy)'
    BY DEF CheckpointSound, Torn
<1>2. checkpoint \in Checkpoints
    BY <1>1 DEF TypeOK, NoFile, Torn
<1>3. /\ checkpoint.change \in Changes \ edited' /\ checkpoint.done \in Nat
      /\ DoneUnder(checkpoint.change, checkpoint.done, checkpoint.policy)
    BY <1>1, <1>2, LoopAssumption DEF Checkpoints, CheckpointSound, WorldKept
<1>4. DoneNext(checkpoint.change, checkpoint.done, checkpoint.policy)
    BY <1>3, DoneKept
<1> QED
    BY <1>1, <1>4 DEF DoneNext, DoneUnder

\* A checkpoint that is written over what is done is sound.
LEMMA CheckpointWritten ==
    ASSUME TypeOK, CheckpointSound, WorldKept, NEW e \in Engines, NEW n \in Nat, WriteCheckpoint(e, n),
           Change(e) \notin edited' => DoneNext(Change(e), n, config[e])
    PROVE  CheckpointSound'
<1>1. CASE checkpoint' \in {checkpoint, Torn}
    BY <1>1, CheckpointKept
<1>2. CASE checkpoint' = [state |-> "ok", change |-> Change(e), policy |-> config[e], done |-> n]
    BY <1>2 DEF CheckpointSound, DoneNext, DoneUnder
<1> QED
    BY <1>1, <1>2 DEF WriteCheckpoint

\* The checkpoint of a slice that passed after all before it.
LEMMA PassCheckpoint ==
    ASSUME TypeOK, CheckpointSound, NEW e \in Engines, EngineSound(e), pc[e] = "slicing",
           NEW p \in Own(e), stage[e][p] # "todo", Pass(e, p), UNCHANGED world
    PROVE  CheckpointSound'
<1>0. WorldKept
    BY DEF Pass, world, WorldKept
<1>1. CASE serial
    <2>1. p \in first[e]..MaxSlices /\ p \in Nat /\ first[e] \in Nat
        BY ListFacts, LoopAssumption DEF Own, Positions
    <2>2. ASSUME NEW j \in (first[e] + 1)..p
          PROVE  j \in Own(e) /\ <<Change(e), list[e][j], config[e]>> \in passed'
        <3>1. j \in Own(e)
            BY <2>1, ListFacts, LoopAssumption DEF Own, Positions
        <3>2. CASE j = p
            BY <3>1, <3>2 DEF Pass
        <3>3. CASE j < p
            <4>1. stage[e][j] = "passed"
                BY <1>1, <3>1, <3>3 DEF EngineSound
            <4> QED
                BY <3>1, <4>1, <1>0, ListFacts DEF EngineSound, WorldKept
        <3> QED
            BY <2>1, <3>2, <3>3
    <2>3. Change(e) \notin edited' => DoneNext(Change(e), p, config[e])
        BY <1>0, <2>1, <2>2, PrefixDone DEF world, WorldKept
    <2> QED
        BY <1>0, <1>1, <2>1, <2>3, CheckpointWritten DEF Pass
<1>2. CASE ~serial
    BY <1>0, <1>2, CheckpointKept DEF Pass
<1> QED
    BY <1>1, <1>2

\* Every step of an engine keeps the checkpoint sound.
LEMMA CheckpointStep ==
    ASSUME TypeOK, CheckpointSound, NEW e \in Engines, EngineSound(e), EngineSound(e)', Step(e)
    PROVE  CheckpointSound'
<1>0. WorldKept
    BY StepWorld
<1>1. CASE Load(e) \/ LoadCheckpoint(e) \/ Reload(e) \/ Drive(e)
    BY <1>0, <1>1, CheckpointKept DEF Load, LoadCheckpoint, Reload, Drive
<1>2. CASE Plan(e)
    <2>1. UNCHANGED <<loop, config, first>> /\ first[e] \in Nat /\ pc'[e] \in {"failed", "slicing"}
        BY <1>2, ListFacts, LoopAssumption DEF Plan, End, Goto, TypeOK
    <2>2. CASE UNCHANGED checkpoint
        BY <1>0, <2>2, CheckpointKept
    <2>3. CASE WriteCheckpoint(e, first[e]) /\ pc'[e] = "slicing"
        <3>1. Change(e) \notin edited' => DoneNext(Change(e), first[e], config[e])
            BY <2>1, <2>3 DEF EngineSound, DoneUnder, DoneNext, Change
        <3> QED
            BY <1>0, <2>1, <2>3, <3>1, CheckpointWritten
    <2> QED
        BY <1>2, <2>2, <2>3 DEF Plan, Goto, TypeOK
<1>3. CASE Finish(e)
    <2>1. PICK n \in first[e]..MaxSlices : Prefix(e, n) /\ Leave(e, n)
        BY <1>3 DEF Finish
    <2>2. CASE UNCHANGED checkpoint
        BY <1>0, <2>2, CheckpointKept
    <2>3. CASE WriteCheckpoint(e, n)
        <3>0. n \in Nat /\ pc[e] = "slicing" /\ tasks' = tasks /\ passed' = passed /\ edited' = edited
            BY <1>3, <2>1, ListFacts, LoopAssumption DEF Finish, Settled, Leave, world
        <3>1. ASSUME NEW p \in (first[e] + 1)..n
              PROVE  p \in Own(e) /\ <<Change(e), list[e][p], config[e]>> \in passed'
            BY <2>1, <3>0, ListFacts DEF Prefix, At, EngineSound
        <3>2. Change(e) \notin edited' => DoneNext(Change(e), n, config[e])
            BY <3>0, <3>1, PrefixDone
        <3> QED
            BY <1>0, <2>3, <3>0, <3>2, CheckpointWritten
    <2> QED
        BY <2>1, <2>2, <2>3 DEF Leave
<1>4. ASSUME NEW p \in Positions, Begin(e, p) \/ RoleEnds(e, p) \/ VerifyEnds(e, p) \/ ReviewEnds(e, p)
      PROVE  CheckpointSound'
    <2>1. CASE UNCHANGED checkpoint
        BY <1>0, <2>1, CheckpointKept
    <2>2. CASE Pass(e, p) /\ (VerifyEnds(e, p) \/ ReviewEnds(e, p))
        <3>1. p \in Own(e) /\ stage[e][p] # "todo" /\ pc[e] = "slicing" /\ UNCHANGED world
            BY <2>2 DEF VerifyEnds, ReviewEnds, At
        <3> QED
            BY <2>2, <3>1, PassCheckpoint
    <2> QED
        BY <1>4, <2>1, <2>2 DEF Begin, RoleEnds, VerifyEnds, ReviewEnds, Fail
<1> QED
    BY <1>1, <1>2, <1>3, <1>4 DEF Step

-----------------------------------------------------------------------------
(* The invariants *)

\* Initially no engine runs and there is no checkpoint.
LEMMA InitInv == Init => IInv
<1> SUFFICES ASSUME Init PROVE IInv
    OBVIOUS
<1>1. TypeOK
    BY LoopAssumption DEF Init, TypeOK, Statuses, Waiting, Blank, Checkpoints
<1>2. CheckpointSound
    BY DEF Init, CheckpointSound, NoFile
<1>3. ASSUME NEW e \in Engines PROVE EngineSound(e) /\ CompleteSound(e)
    <2>1. Own(e) \subseteq Positions
        BY DEF Own
    <2> QED
        BY <2>1, BlankSound DEF Init, EngineSound, CompleteSound, Waiting
<1> QED
    BY <1>1, <1>2, <1>3 DEF IInv, LoopInv

\* No step breaks the invariant.
LEMMA NextInv == IInv /\ [Next]_vars => IInv'
<1> SUFFICES ASSUME IInv, [Next]_vars PROVE IInv'
    OBVIOUS
<1>0. TypeOK /\ CheckpointSound /\ \A d \in Engines : EngineSound(d) /\ CompleteSound(d)
    BY DEF IInv, LoopInv
<1>1. TypeOK'
    BY NextTypeOK DEF IInv
<1>2. SUFFICES CheckpointSound' /\ \A d \in Engines : EngineSound(d)' /\ CompleteSound(d)'
    BY <1>1 DEF IInv, LoopInv
<1>3. ASSUME NEW e \in Engines, Call(e) \/ SpawnEngine(e) \/ Step(e)
      PROVE  CheckpointSound' /\ \A d \in Engines : EngineSound(d)' /\ CompleteSound(d)'
    <2>1. WorldKept
        BY <1>0, <1>3, StepWorld DEF Call, SpawnEngine, world, WorldKept
    <2>2. ASSUME NEW d \in Engines PROVE EngineSound(d)' /\ CompleteSound(d)'
        <3>1. CASE d = e
            BY <1>0, <1>3, <3>1, OwnStep
        <3>2. CASE d # e
            BY <1>0, <1>3, <2>1, <3>2, OthersSame, EngineKept
        <3> QED
            BY <3>1, <3>2
    <2>3. CheckpointSound'
        <3>1. CASE Call(e) \/ SpawnEngine(e)
            BY <1>0, <2>1, <3>1, CheckpointKept DEF Call, SpawnEngine
        <3>2. CASE Step(e)
            BY <1>0, <2>2, <3>2, CheckpointStep
        <3> QED
            BY <1>3, <3>1, <3>2
    <2> QED
        BY <2>2, <2>3
<1>4. ASSUME \/ \E l \in Loops : Create(l) \/ Cancel(l) \/ RetireCheck(l) \/ Retire(l)
             \/ \E c \in Changes : EditTasks(c)
             \/ EditPolicy
             \/ UNCHANGED vars
      PROVE  CheckpointSound' /\ \A d \in Engines : EngineSound(d)' /\ CompleteSound(d)'
    <2>1. WorldKept
        BY <1>0, <1>4 DEF Create, Cancel, RetireCheck, Retire, EditTasks, EditPolicy, vars, world, WorldKept, TypeOK
    <2>2. UNCHANGED checkpoint /\ UNCHANGED engine
        BY <1>4 DEF Create, Cancel, RetireCheck, Retire, EditTasks, EditPolicy, vars
    <2>3. \A d \in Engines : Same(d)
        BY <2>2 DEF engine, Same
    <2> QED
        BY <1>0, <2>1, <2>2, <2>3, CheckpointKept, EngineKept
<1>5. CASE Crash
    <2>1. WorldKept /\ checkpoint' \in {checkpoint, Torn}
        BY <1>5 DEF Crash, world, WorldKept
    <2>2. ASSUME NEW d \in Engines PROVE EngineSound(d)' /\ CompleteSound(d)'
        <3>1. CASE pc[d] \in Running \cup {"called"}
            <4>1. pc'[d] = "lost" /\ stage'[d] = Blank /\ \A p \in Positions : stage'[d][p] = "todo"
                BY <1>5, <3>1 DEF Crash, Blank
            <4>2. Own(d)' \subseteq Positions
                BY DEF Own
            <4> QED
                BY <4>1, <4>2 DEF EngineSound, CompleteSound, Waiting
        <3>2. CASE pc[d] \notin Running \cup {"called"}
            <4>1. /\ pc'[d] = pc[d] /\ stage'[d] = Blank
                  /\ UNCHANGED <<serial, tasks, edited, loop, config, first, list, passed>>
                BY <1>5, <3>2 DEF Crash, world
            <4>2. \A p \in Positions : stage'[d][p] = "todo"
                BY <4>1 DEF Blank
            <4>3. Own(d)' \subseteq Positions /\ Change(d)' = Change(d)
                BY <4>1 DEF Own, Change
            <4>4. pc[d] \in {"unused", "complete", "failed", "tampered", "lost"}
                BY <1>0, <3>2 DEF TypeOK, Waiting, Running, Ended
            <4>5. CompleteSound(d)'
                BY <1>0, <4>1, <4>3 DEF CompleteSound
            <4>6. EngineSound(d)'
                <5>1. DoneUnder(Change(d), first[d], config[d])' <=> DoneUnder(Change(d), first[d], config[d])
                    BY <4>1, <4>3 DEF DoneUnder
                <5> QED
                    BY <1>0, <4>1, <4>2, <4>3, <4>4, <5>1 DEF EngineSound, Waiting
            <4> QED
                BY <4>5, <4>6
        <3> QED
            BY <3>1, <3>2
    <2> QED
        BY <1>0, <2>1, <2>2, CheckpointKept
<1> QED
    BY <1>3, <1>4, <1>5 DEF Next

\* What the checkpoint counts as done has passed, and so has what an engine
\* takes over from it, for any number of loops, engines, slices and edits.
THEOREM LoopInvariant == Spec => []LoopInv
<1>1. IInv => LoopInv
    BY DEF IInv
<1> QED
    BY InitInv, NextInv, <1>1, PTL DEF Spec

\* An engine that reports a change complete leaves out no slice.
THEOREM CompletePassed == Spec => []CompleteMeansPassed
<1>1. IInv => CompleteMeansPassed
    BY DEF IInv, CompleteSound, CompleteMeansPassed
<1> QED
    BY InitInv, NextInv, <1>1, PTL DEF Spec

\* A loop that is being worked on has an engine, unless the process crashed or
\* the database lost the last status an engine of it wrote.
THEOREM NoLoopStranded == Spec => []NoStrandedLoop
<1>1. Init => NoStrandedLoop
    BY DEF Init, NoStrandedLoop, Active
<1>2. TypeOK /\ NoStrandedLoop /\ [Next]_vars => NoStrandedLoop'
    <2> SUFFICES ASSUME TypeOK, NoStrandedLoop, [Next]_vars,
                        NEW l \in Loops, crashes' = 0, l \notin unwritten', status'[l] \in Active
                 PROVE  \E e \in Engines : loop'[e] = l /\ pc'[e] \in Running
        BY DEF NoStrandedLoop
    <2> USE DEF TypeOK, Running
    <2>1. ASSUME NEW e \in Engines, Step(e), pc'[e] \in Running
          PROVE  \E d \in Engines : loop'[d] = l /\ pc'[d] \in Running
        <3>1. loop' = loop /\ \A d \in Engines : d # e => pc'[d] = pc[d]
            BY <2>1 DEF Step, Load, LoadCheckpoint, Reload, Drive, Plan, Finish, Leave, Begin, RoleEnds,
                        VerifyEnds, ReviewEnds, End, Goto
        <3>2. CASE l = loop[e]
            BY <2>1, <3>1, <3>2
        <3>3. CASE l # loop[e]
            <4>1. status'[l] = status[l] /\ (l \in unwritten' <=> l \in unwritten) /\ crashes' = crashes
                BY <2>1, <3>3 DEF report, Step, Load, LoadCheckpoint, Reload, Drive, Plan, Finish, Leave, Begin, RoleEnds,
                        VerifyEnds, ReviewEnds, End, SetStatus
            <4> QED
                BY <3>1, <3>3, <4>1 DEF NoStrandedLoop
        <3> QED
            BY <3>2, <3>3
    <2>2. ASSUME NEW e \in Engines, Step(e), pc'[e] \notin Running
          PROVE  \E d \in Engines : loop'[d] = l /\ pc'[d] \in Running
        <3>1. loop' = loop /\ crashes' = crashes /\ \A d \in Engines : d # e => pc'[d] = pc[d]
            BY <2>2 DEF Step, Load, LoadCheckpoint, Reload, Drive, Plan, Finish, Leave, Begin, RoleEnds,
                        VerifyEnds, ReviewEnds, End, Goto
        <3>2. \E st \in {"failed", "complete", "policy_tampered"} : SetStatus(e, st)
            BY <2>2 DEF Step, Load, LoadCheckpoint, Reload, Drive, Plan, Finish, Result, Begin, RoleEnds,
                        VerifyEnds, ReviewEnds, End, Goto
        <3>3. l # loop[e] /\ status'[l] = status[l] /\ l \notin unwritten
            BY <3>2 DEF SetStatus, Active
        <3> QED
            BY <3>1, <3>3 DEF NoStrandedLoop
    <2>3. ASSUME NEW e \in Engines, Call(e) \/ SpawnEngine(e)
          PROVE  \E d \in Engines : loop'[d] = l /\ pc'[d] \in Running
        <3>1. UNCHANGED <<loop, crashes, status, unwritten>>
            BY <2>3 DEF Call, SpawnEngine, report
        <3>2. PICK d \in Engines : loop[d] = l /\ pc[d] \in Running
            BY <3>1 DEF NoStrandedLoop
        <3>3. d # e /\ pc'[d] = pc[d]
            BY <2>3, <3>2 DEF Call, SpawnEngine, Goto
        <3> QED
            BY <3>1, <3>2, <3>3
    <2>4. ASSUME NEW k \in Loops, Create(k) \/ Cancel(k) \/ RetireCheck(k) \/ Retire(k)
          PROVE  \E d \in Engines : loop'[d] = l /\ pc'[d] \in Running
        <3>1. UNCHANGED <<loop, pc, crashes, unwritten>> /\ status[l] \in Active
            BY <2>4 DEF Create, Cancel, RetireCheck, Retire, report, engine, Active
        <3> QED
            BY <3>1 DEF NoStrandedLoop
    <2>5. ASSUME \/ EditPolicy \/ \E c \in Changes : EditTasks(c)
                 \/ UNCHANGED vars
          PROVE  \E d \in Engines : loop'[d] = l /\ pc'[d] \in Running
        BY <2>5 DEF EditPolicy, EditTasks, vars, report, engine, NoStrandedLoop
    <2>6. ~Crash
        BY DEF Crash
    <2> QED
        BY <2>1, <2>2, <2>3, <2>4, <2>5, <2>6 DEF Next
<1>3. LoopInv => TypeOK
    BY DEF LoopInv
<1> QED
    BY <1>1, <1>2, <1>3, LoopInvariant, PTL DEF Spec

-----------------------------------------------------------------------------
(* The engines implement LoopPromise *)

\* An engine moves on, and so does how it stands to the outside.
LEMMA PhaseEnters ==
    ASSUME TypeOK, NEW e \in Engines, NEW q, Goto(e, q), NEW ph, Phase(e)' = ph
    PROVE  Promise!Enters(e, ph)
<1>1. \A d \in Engines : d # e => Phase(d)' = Phase(d)
    BY DEF Goto, Phase, TypeOK
<1>2. Phases' = [d \in Engines |-> Phase(d)']
    BY DEF Phases
<1>3. [Phases EXCEPT ![e] = ph] = [d \in Engines |-> IF d = e THEN ph ELSE Phase(d)]
    BY DEF Phases
<1> QED
    BY <1>1, <1>2, <1>3 DEF Promise!Enters

\* It stands as before when it stays where it is, or prepares further.
LEMMA PhaseStays ==
    ASSUME TypeOK, NEW e \in Engines, NEW q, Goto(e, q), Phase(e)' = Phase(e)
    PROVE  Phases' = Phases
<1>1. \A d \in Engines : Phase(d)' = Phase(d)
    BY DEF Goto, Phase, TypeOK
<1> QED
    BY <1>1 DEF Phases

LEMMA PhasesKept ==
    ASSUME UNCHANGED pc
    PROVE  Phases' = Phases
BY DEF Phases, Phase

\* An engine whose task ends reports how.
LEMMA EndReports ==
    ASSUME TypeOK, NEW e \in Engines, NEW how \in {"complete", "failed", "tampered"}, NEW st, End(e, how, st),
           UNCHANGED retiring
    PROVE  Promise!Enters(e, how) /\ Promise!Reports(e, st)
<1>1. pc'[e] = how
    BY DEF End, Goto, TypeOK
<1>2. Phase(e)' = how
    BY <1>1 DEF Phase, Running
<1> QED
    BY <1>2, PhaseEnters DEF End, SetStatus, Promise!Reports

\* What is done of the slices in the file is done of the engine's list.
LEMMA ListDone ==
    ASSUME NEW e \in Engines, NEW n \in Nat, Len(list'[e]) \in Nat,
           Change(e) \notin edited' =>
              n = 0 \/ (DoneNext(Change(e), n, config'[e]) /\ list'[e] = tasks'[Change(e)])
    PROVE  Promise!FirstDone(e, n)
BY DEF Promise!FirstDone, Promise!Slice, DoneNext, Change

\* A checkpoint over what is done keeps the promise.
LEMMA WriteRecords ==
    ASSUME NEW e \in Engines, NEW n \in 0..MaxSlices, WriteCheckpoint(e, n), config' = config,
           Promise!FirstDone(e, n)
    PROVE  Promise!Record(e)
BY DEF WriteCheckpoint, Torn, Change, Promise!Record

\* The slices an engine passed without a gap are the first of its list.
LEMMA GapfreeDone ==
    ASSUME TypeOK, NEW e \in Engines, EngineSound(e), pc[e] = "slicing",
           NEW n \in first[e]..MaxSlices, passed \subseteq passed',
           UNCHANGED <<tasks, edited, list, config>>,
           \A p \in (first[e] + 1)..n : p \in Own(e) /\ <<Change(e), list[e][p], config[e]>> \in passed'
    PROVE  Promise!FirstDone(e, n)
<1>1. first[e] \in Nat /\ n \in Nat /\ first[e] <= n /\ Len(list[e]) \in Nat
    BY ListFacts, LoopAssumption
<1>2. CASE Change(e) \notin edited /\ n # 0
    <2>1. DoneNext(Change(e), n, config[e])
        BY <1>2, PrefixDone
    <2>2. list[e] \in {<<>>, tasks[Change(e)]} /\ (list[e] = <<>> => first[e] = 0)
        BY <1>2 DEF EngineSound
    <2>3. list[e] # <<>>
        <3>1. SUFFICES ASSUME list[e] = <<>> PROVE FALSE
            OBVIOUS
        <3>2. n \in (first[e] + 1)..n
            BY <1>1, <1>2, <2>2, <3>1
        <3>3. n \in Own(e)
            BY <3>2
        <3> QED
            BY <1>1, <1>2, <3>1, <3>3, EmptySeq DEF Own
    <2> QED
        BY <1>1, <2>1, <2>2, <2>3, ListDone
<1> QED
    BY <1>1, <1>2, ListDone

\* A step that says nothing new to the outside.
Unseen == UNCHANGED <<serial, policy, status, unwritten, retiring, Phases, loop, config, list, passed, checkpoint, edited>>

LEMMA StartPromised ==
    ASSUME TypeOK, NEW e \in Engines, Call(e)
    PROVE  Promise!Start(e)
<1>1. pc'[e] = "called" /\ pc[e] = "unused"
    BY DEF Goto, Call, TypeOK
<1>2. Phase(e)' = "starting" /\ Phase(e) = "idle"
    BY <1>1 DEF Phase, Running
<1>3. Promise!Enters(e, "starting")
    BY <1>2, PhaseEnters DEF Call
<1> QED
    BY <1>2, <1>3 DEF Call, world, report, Promise!Start, Promise!Silent, Phases

\* That its task is spawned is not seen.
LEMMA SpawnUnseen ==
    ASSUME TypeOK, NEW e \in Engines, SpawnEngine(e)
    PROVE  Unseen
<1>1. PICK how \in {"run", "resume"} : Goto(e, how)
    BY DEF SpawnEngine
<1>2. pc'[e] = how /\ pc[e] = "called"
    BY <1>1 DEF SpawnEngine, Goto, TypeOK
<1>3. Phase(e)' = "starting" /\ Phase(e) = "starting"
    BY <1>2 DEF Phase, Running
<1>4. Phases' = Phases
    BY <1>1, <1>3, PhaseStays
<1> QED
    BY <1>4 DEF SpawnEngine, world, report, Unseen

\* Before an engine sets to work it gathers, refuses or gives up.
LEMMA EarlyPromised ==
    ASSUME TypeOK, NEW e \in Engines, Load(e) \/ LoadCheckpoint(e) \/ Reload(e) \/ Drive(e)
    PROVE  Promise!Prepare(e) \/ Promise!SetToWork(e) \/ Promise!Fail(e) \/ Promise!Refuse(e)
<1>1. /\ pc[e] \in {"run", "resume", "resuming", "driving"}
      /\ UNCHANGED <<policy, edited, checkpoint, passed, retiring>>
    BY DEF Load, LoadCheckpoint, Reload, Drive, world
<1>2. Phase(e) = "starting" /\ Phases[e] = "starting"
    BY <1>1 DEF Phase, Phases, Running
<1>3. CASE End(e, "failed", "failed") /\ UNCHANGED <<config, list>>
    BY <1>1, <1>2, <1>3, EndReports DEF Promise!Fail, Promise!Record
<1>4. CASE End(e, "tampered", "policy_tampered") /\ policy # config[e] /\ UNCHANGED <<config, list>>
    BY <1>1, <1>2, <1>4, EndReports DEF Promise!Refuse
<1>5. ASSUME NEW q \in {"resuming", "driving"}, Goto(e, q), UNCHANGED report,
             \A d \in Engines \ {e} : config'[d] = config[d] /\ list'[d] = list[d]
      PROVE  Promise!Prepare(e)
    <2>1. Phase(e)' = "starting"
        BY <1>5 DEF Goto, Phase, Running, TypeOK
    <2>2. Phases' = Phases
        BY <1>2, <1>5, <2>1, PhaseStays
    <2> QED
        BY <1>1, <1>2, <1>5, <2>2 DEF report, Promise!Silent, Promise!Prepare
<1>6. CASE Load(e)
    BY <1>3, <1>5, <1>6 DEF Load, TypeOK
<1>7. CASE LoadCheckpoint(e)
    BY <1>3, <1>5, <1>7 DEF LoadCheckpoint, TypeOK
<1>8. CASE Reload(e)
    BY <1>3, <1>4, <1>5, <1>8 DEF Reload, TypeOK
<1>9. CASE Drive(e)
    <2>1. CASE /\ policy = config[e] /\ config[e] \in Separated
               /\ SetStatus(e, "planning") /\ Goto(e, "planning")
        <3>1. Phase(e)' = "working"
            BY <2>1 DEF Goto, Phase, TypeOK
        <3> QED
            BY <1>1, <1>2, <1>9, <2>1, <3>1, PhaseEnters DEF Drive, SetStatus, Promise!Reports, Promise!SetToWork
    <2> QED
        BY <1>3, <1>4, <1>9, <2>1 DEF Drive
<1> QED
    BY <1>6, <1>7, <1>8, <1>9

LEMMA PlanPromised ==
    ASSUME TypeOK, TypeOK', NEW e \in Engines, EngineSound(e), Plan(e)
    PROVE  Promise!Plan(e) \/ Promise!Fail(e)
<1>1. pc[e] = "planning" /\ UNCHANGED <<serial, policy, retiring, loop, config, first, passed>>
    BY DEF Plan
<1>2. Phase(e) = "working" /\ Phases[e] = "working"
    BY <1>1 DEF Phase, Phases
<1>3. CASE End(e, "failed", "failed") /\ UNCHANGED <<tasks, edited, list, checkpoint>>
    BY <1>1, <1>2, <1>3, EndReports DEF Promise!Fail, Promise!Record
<1>4. CASE WriteCheckpoint(e, first[e]) /\ SetStatus(e, "slicing") /\ Goto(e, "slicing")
    <2>1. pc'[e] = "slicing" /\ Phase(e)' = "working"
        BY <1>4 DEF Goto, Phase, TypeOK
    <2>2. Phases' = Phases
        BY <1>2, <1>4, <2>1, PhaseStays
    <2>3. /\ \A d \in Engines : list'[d] = list[d] \/ (d = e /\ list[e] = <<>>)
          /\ edited \subseteq edited'
        BY <2>1 DEF Plan, End, Goto, TypeOK
    <2>4. first[e] \in 0..MaxSlices /\ first[e] \in Nat /\ Len(list'[e]) \in Nat /\ Change(e)' = Change(e)
        BY <1>1, ListFacts, LoopAssumption, EmptySeq, LenProperties DEF TypeOK, Change
    <2>5. Promise!FirstDone(e, first[e])
        <3>1. EngineSound(e)'
            BY PlanSound
        <3>2. Change(e) \notin edited' =>
                 /\ DoneNext(Change(e), first[e], config[e])
                 /\ list'[e] \in {<<>>, tasks'[Change(e)]}
                 /\ list'[e] = <<>> => first[e] = 0
            BY <1>1, <2>1, <2>4, <3>1 DEF EngineSound, DoneUnder, DoneNext
        <3> QED
            BY <1>1, <2>4, <3>2, ListDone
    <2>6. Promise!Record(e)
        BY <1>1, <1>4, <2>4, <2>5, WriteRecords
    <2> QED
        BY <1>1, <1>2, <1>4, <2>2, <2>3, <2>6 DEF SetStatus, Promise!Reports, Promise!Plan
<1> QED
    BY <1>3, <1>4 DEF Plan

\* A slice that passes is done, in order where slices go one at a time.
LEMMA PassPromised ==
    ASSUME TypeOK, NEW e \in Engines, EngineSound(e), pc[e] = "slicing",
           NEW p \in Own(e), stage[e][p] # "todo", Pass(e, p),
           UNCHANGED <<world, report, retiring, pc, loop, config, first, list>>
    PROVE  Promise!Do(e)
<1>1. /\ Phases' = Phases /\ Phases[e] = "working"
      /\ UNCHANGED <<serial, policy, tasks, edited>>
    BY PhasesKept DEF Phases, Phase, world
<1>2. p \in first[e]..MaxSlices /\ p \in Nat /\ first[e] \in Nat /\ p \in 1..Len(list[e]) /\ p \in 0..MaxSlices
    BY ListFacts, LoopAssumption DEF Own, Positions
<1>3. passed' = passed \cup {<<Change(e), list[e][p], config[e]>>}
    BY DEF Pass
<1>4. ASSUME serial PROVE Promise!FirstDone(e, p)
    <2>1. ASSUME NEW j \in (first[e] + 1)..p
          PROVE  j \in Own(e) /\ <<Change(e), list[e][j], config[e]>> \in passed'
        <3>1. j \in Own(e)
            BY <1>2, ListFacts, LoopAssumption DEF Own, Positions
        <3>2. CASE j = p
            BY <1>3, <3>1, <3>2
        <3>3. CASE j < p
            <4>1. stage[e][j] = "passed"
                BY <1>4, <3>1, <3>3 DEF EngineSound
            <4> QED
                BY <1>3, <3>1, <4>1, ListFacts DEF EngineSound
        <3> QED
            BY <1>2, <3>2, <3>3
    <2> QED
        BY <1>1, <1>2, <1>3, <2>1, GapfreeDone
<1>5. Promise!Record(e)
    <2>1. CASE serial
        BY <1>2, <1>4, <2>1, WriteRecords DEF Pass
    <2>2. CASE ~serial
        BY <2>2 DEF Pass, Promise!Record
    <2> QED
        BY <2>1, <2>2
<1>6. passed' = passed \cup {Promise!Slice(e, p)}
    BY <1>3 DEF Promise!Slice, Change
<1> QED
    BY <1>1, <1>2, <1>4, <1>5, <1>6 DEF report, Promise!Silent, Promise!Do

\* A status an engine at work writes on the way.
LEMMA ReportPromised ==
    ASSUME NEW e \in Engines, pc[e] = "slicing", NEW st \in {"verifying", "reviewing", "fixed"},
           SetStatus(e, st), UNCHANGED <<policy, retiring, pc, config, list, passed, checkpoint, edited>>
    PROVE  Promise!Report(e)
<1>1. Phases' = Phases /\ Phases[e] = "working"
    BY PhasesKept DEF Phases, Phase
<1> QED
    BY <1>1 DEF SetStatus, Promise!Report, Promise!Reports, Promise!AtWork

LEMMA SlicePromised ==
    ASSUME TypeOK, NEW e \in Engines, EngineSound(e), NEW p \in Positions,
           Begin(e, p) \/ RoleEnds(e, p) \/ VerifyEnds(e, p) \/ ReviewEnds(e, p)
    PROVE  Promise!Do(e) \/ Promise!Report(e) \/ Unseen
<1>1. pc[e] = "slicing" /\ UNCHANGED <<world, retiring, pc, loop, config, first, list>>
    BY DEF Begin, RoleEnds, VerifyEnds, ReviewEnds
<1>2. UNCHANGED <<serial, policy, edited>> /\ Phases' = Phases
    BY <1>1, PhasesKept DEF world
<1>3. CASE UNCHANGED <<report, passed, checkpoint>>
    BY <1>1, <1>2, <1>3 DEF report, Unseen
<1>4. ASSUME NEW st \in {"verifying", "reviewing", "fixed"}, SetStatus(e, st), UNCHANGED <<passed, checkpoint>>
      PROVE  Promise!Report(e)
    BY <1>1, <1>2, <1>4, ReportPromised
<1>5. ASSUME Pass(e, p), UNCHANGED report, p \in Own(e), stage[e][p] # "todo"
      PROVE  Promise!Do(e)
    BY <1>1, <1>5, PassPromised
<1>6. CASE Begin(e, p)
    BY <1>3, <1>6 DEF Begin
<1>7. CASE RoleEnds(e, p)
    BY <1>3, <1>4, <1>7 DEF RoleEnds, Fail
<1>8. CASE VerifyEnds(e, p)
    <2>1. p \in Own(e) /\ stage[e][p] # "todo"
        BY <1>8 DEF VerifyEnds, At
    <2> QED
        BY <1>4, <1>5, <1>8, <2>1 DEF VerifyEnds, Fail
<1>9. CASE ReviewEnds(e, p)
    <2>1. p \in Own(e) /\ stage[e][p] # "todo"
        BY <1>9 DEF ReviewEnds, At
    <2> QED
        BY <1>3, <1>5, <1>9, <2>1 DEF ReviewEnds, Fail
<1> QED
    BY <1>6, <1>7, <1>8, <1>9

LEMMA FinishPromised ==
    ASSUME TypeOK, NEW e \in Engines, EngineSound(e), Finish(e)
    PROVE  Promise!Complete(e) \/ Promise!Fail(e)
<1>1. /\ pc[e] = "slicing" /\ pc'[e] = Result(e) /\ Result(e) \in {"complete", "failed"}
      /\ UNCHANGED <<policy, tasks, edited, retiring, loop, config, first, list, passed>>
    BY DEF Finish, Settled, Leave, End, Goto, Result, world, TypeOK
<1>2. Phases[e] = "working" /\ Promise!Enters(e, Result(e)) /\ Promise!Reports(e, Result(e))
    <2>1. Phases[e] = "working"
        BY <1>1 DEF Phases, Phase
    <2>2. End(e, Result(e), Result(e))
        BY DEF Finish
    <2> QED
        BY <1>1, <2>1, <2>2, EndReports
<1>3. Promise!Record(e)
    <2>1. PICK n \in first[e]..MaxSlices : Prefix(e, n) /\ Leave(e, n)
        BY DEF Finish
    <2>2. n \in 0..MaxSlices
        BY ListFacts, LoopAssumption
    <2>3. \A p \in (first[e] + 1)..n : p \in Own(e) /\ <<Change(e), list[e][p], config[e]>> \in passed'
        BY <1>1, <2>1, ListFacts DEF Prefix, At, EngineSound
    <2>4. Promise!FirstDone(e, n)
        BY <1>1, <2>3, GapfreeDone
    <2>5. CASE UNCHANGED checkpoint
        BY <2>5 DEF Promise!Record
    <2>6. CASE WriteCheckpoint(e, n)
        BY <1>1, <2>2, <2>4, <2>6, WriteRecords
    <2> QED
        BY <2>1, <2>5, <2>6 DEF Leave
<1>4. ASSUME Result(e) = "complete" PROVE Promise!FirstDone(e, Len(list[e]))
    <2>1. CompleteSound(e)' /\ Change(e)' = Change(e) /\ Len(list[e]) \in Nat
        BY <1>1, FinishSound, ListFacts, LoopAssumption DEF Change
    <2> QED
        BY <1>1, <1>4, <2>1 DEF CompleteSound, Promise!FirstDone, Promise!Slice, Change
<1> QED
    BY <1>1, <1>2, <1>3, <1>4 DEF Promise!Complete, Promise!Fail

LEMMA ClientPromised ==
    ASSUME NEW l \in Loops, Create(l) \/ Cancel(l) \/ RetireCheck(l) \/ Retire(l)
    PROVE  Promise!Client(l)
<1>1. UNCHANGED <<policy, unwritten, pc, config, list, passed, checkpoint, edited>>
    BY DEF Create, Cancel, RetireCheck, Retire, world, report, engine
<1> QED
    BY <1>1, PhasesKept DEF Create, Cancel, RetireCheck, Retire, report, Promise!Client

LEMMA CrashPromised ==
    ASSUME TypeOK, Crash
    PROVE  Promise!Crash
<1>1. Phases' = [e \in Engines |-> IF Phases[e] \in {"starting", "working"} THEN "lost" ELSE Phases[e]]
    <2>1. ASSUME NEW e \in Engines
          PROVE  Phase(e)' = IF Phase(e) \in {"starting", "working"} THEN "lost" ELSE Phase(e)
        <3>1. pc'[e] = IF pc[e] \in Running \cup {"called"} THEN "lost" ELSE pc[e]
            BY DEF Crash
        <3>2. pc[e] \in Waiting \cup Running \cup Ended
            BY DEF TypeOK
        <3> QED
            BY <3>1, <3>2 DEF Phase, Waiting, Running, Ended
    <2> QED
        BY <2>1 DEF Phases
<1>2. \/ checkpoint' = checkpoint
      \/ checkpoint' = [state |-> "torn"] /\ \E e \in Engines : Phases[e] = "working"
    BY DEF Crash, Torn, Phases, Phase
<1> QED
    BY <1>1, <1>2 DEF Crash, world, report, Promise!Crash

\* Every step of the loops is one of the promise, or changes nothing of it.
LEMMA NextPromised == IInv /\ IInv' /\ [Next]_vars => [Promise!Next]_(Promise!vars)
<1> SUFFICES ASSUME IInv, IInv', [Next]_vars
             PROVE  Promise!Next \/ UNCHANGED Promise!vars
    OBVIOUS
<1>0. TypeOK /\ TypeOK' /\ \A d \in Engines : EngineSound(d)
    BY DEF IInv, LoopInv
<1>1. UNCHANGED <<serial, loop>>
    BY DEF Next, vars, Call, SpawnEngine, Step, Load, LoadCheckpoint, Reload, Drive, Plan, Finish, Leave, Begin, RoleEnds,
           VerifyEnds, ReviewEnds, Create, Cancel, RetireCheck, Retire, EditTasks, EditPolicy, Crash, world, engine
<1>2. ASSUME NEW e \in Engines, Call(e) PROVE Promise!Next
    BY <1>0, <1>1, <1>2, StartPromised DEF Promise!Next
<1>11. ASSUME NEW e \in Engines, SpawnEngine(e) PROVE UNCHANGED Promise!vars
    BY <1>0, <1>11, SpawnUnseen DEF Unseen, Promise!vars
<1>3. ASSUME NEW e \in Engines, Load(e) \/ LoadCheckpoint(e) \/ Reload(e) \/ Drive(e) PROVE Promise!Next
    BY <1>0, <1>1, <1>3, EarlyPromised DEF Promise!Next
<1>4. ASSUME NEW e \in Engines, Plan(e) PROVE Promise!Next
    BY <1>0, <1>1, <1>4, PlanPromised DEF Promise!Next
<1>5. ASSUME NEW e \in Engines, Finish(e) PROVE Promise!Next
    BY <1>0, <1>1, <1>5, FinishPromised DEF Promise!Next
<1>6. ASSUME NEW e \in Engines, NEW p \in Positions,
             Begin(e, p) \/ RoleEnds(e, p) \/ VerifyEnds(e, p) \/ ReviewEnds(e, p)
      PROVE  Promise!Next \/ UNCHANGED Promise!vars
    <2>1. CASE Unseen
        BY <2>1 DEF Unseen, Promise!vars
    <2> QED
        BY <1>0, <1>1, <1>6, <2>1, SlicePromised DEF Promise!Next
<1>7. ASSUME NEW l \in Loops, Create(l) \/ Cancel(l) \/ RetireCheck(l) \/ Retire(l) PROVE Promise!Next
    BY <1>1, <1>7, ClientPromised DEF Promise!Next
<1>8. CASE EditPolicy \/ \E c \in Changes : EditTasks(c)
    <2>1. UNCHANGED <<report, retiring, pc, config, list, passed, checkpoint>> /\ edited \subseteq edited'
        BY <1>8 DEF EditPolicy, EditTasks, engine
    <2> QED
        BY <1>1, <2>1, PhasesKept DEF report, Promise!Silent, Promise!Edit, Promise!Next
<1>9. CASE Crash
    BY <1>0, <1>1, <1>9, CrashPromised DEF Promise!Next
<1>10. CASE UNCHANGED vars
    BY <1>10, PhasesKept DEF vars, world, report, engine, Promise!vars
<1> QED
    BY <1>2, <1>3, <1>4, <1>5, <1>6, <1>7, <1>8, <1>9, <1>10, <1>11 DEF Next, Step

\* The engines implement LoopPromise, for every number of loops, engines and
\* slices, whatever is edited and wherever the process dies.
THEOREM PromiseKept == Spec => KeepsPromise
<1>1. Init => Promise!Init
    <2> SUFFICES ASSUME Init PROVE Promise!Init
        OBVIOUS
    <2>1. ASSUME NEW e \in Engines PROVE Phase(e) = "idle"
        <3>1. pc[e] = "unused"
            BY DEF Init
        <3> QED
            BY <3>1 DEF Phase, Running
    <2>2. Phases = [e \in Engines |-> "idle"]
        BY <2>1 DEF Phases
    <2> QED
        BY <2>2 DEF Init, NoFile, Promise!Init
<1> QED
    BY <1>1, InitInv, NextInv, NextPromised, PTL DEF Spec, KeepsPromise, Promise!Spec

=============================================================================
