------------------------ MODULE SessionLedgerProofs ------------------------
(***************************************************************************)
(* Proofs about SessionLedger: the inductive invariant LedgerInv, by        *)
(* session, and the properties of the record that rest on it.               *)
(***************************************************************************)
EXTENDS SessionLedger, Sequences, FiniteSetTheorems, FunctionTheorems, TLAPS

-----------------------------------------------------------------------------
(* Rows *)

\* Rows with numbers of their own that fill 0..m-1 are m rows.
LEMMA Ranked ==
    ASSUME NEW rows, NEW m \in Nat,
           \A q, r \in rows : q.n = r.n => q = r,
           {r.n : r \in rows} = 0 .. m - 1
    PROVE  IsFiniteSet(rows) /\ Cardinality(rows) = m
<1> DEFINE row == [i \in 0 .. m - 1 |-> CHOOSE r \in rows : r.n = i]
<1>1. ASSUME NEW i \in 0 .. m - 1 PROVE row[i] \in rows /\ row[i].n = i
  <2>1. \E r \in rows : r.n = i OBVIOUS
  <2>2. row[i] = CHOOSE r \in rows : r.n = i OBVIOUS
  <2> QED BY <2>1, <2>2
<1>2. row \in Bijection(0 .. m - 1, rows)
  <2>1. row \in [0 .. m - 1 -> rows] BY <1>1
  <2>2. \A a, b \in 0 .. m - 1 : row[a] = row[b] => a = b BY <1>1
  <2>3. \A r \in rows : r.n \in 0 .. m - 1 /\ row[r.n] = r BY <1>1
  <2>4. \A r \in rows : \E i \in 0 .. m - 1 : row[i] = r BY <2>3
  <2> QED BY <2>1, <2>2, <2>4, Fun_IsBij
<1>3. ExistsBijection(0 .. m - 1, rows) BY <1>2 DEF ExistsBijection
<1>4. IsFiniteSet(0 .. m - 1) /\ Cardinality(0 .. m - 1) = m BY FS_Interval
<1> QED BY <1>3, <1>4, FS_Bijection

\* The rows of a session can be counted.
LEMMA CountType ==
    ASSUME TypeOK, NEW s \in Sessions
    PROVE  CheckpointCount(s) \in Nat /\ Cardinality(snapshots[s]) \in Nat
BY FS_CardinalityType DEF TypeOK, CheckpointCount

-----------------------------------------------------------------------------
(* Types *)

\* A turn that moves keeps its type.
LEMMA MoveToType ==
    ASSUME turn \in [Turns -> StartedTurn \cup {NewTurn}],
           NEW t \in Turns, turn[t].pc # "new",
           NEW stage \in TurnStages \ {"new"}, MoveTo(t, stage) \/ Leave(t, stage)
    PROVE  /\ turn' \in [Turns -> StartedTurn \cup {NewTurn}]
           /\ turn[t] \in StartedTurn /\ turn'[t] \in StartedTurn
           /\ turn'[t].session = turn[t].session /\ turn'[t].pc = stage
           /\ MoveTo(t, stage) => /\ turn'[t].context = turn[t].context
                                  /\ turn'[t].n = turn[t].n /\ turn'[t].prior = turn[t].prior
           /\ \A u \in Turns \ {t} : turn'[u] = turn[u]
<1>1. turn[t] \in StartedTurn BY DEF NewTurn
<1>2. CASE MoveTo(t, stage)
  <2>1. [turn[t] EXCEPT !.pc = stage] \in StartedTurn BY <1>1 DEF StartedTurn
  <2> QED BY <1>1, <1>2, <2>1 DEF MoveTo, StartedTurn
<1>3. CASE Leave(t, stage) /\ ~MoveTo(t, stage)
  <2> DEFINE x == [pc |-> stage, session |-> turn[t].session, context |-> {}, n |-> 0, prior |-> 0]
  <2>1. x \in StartedTurn BY <1>1 DEF StartedTurn
  <2>2. turn' = [turn EXCEPT ![t] = x] BY <1>3 DEF Leave
  <2> QED BY <1>1, <1>3, <2>1, <2>2
<1> QED BY <1>2, <1>3

\* So does the account of the troubles.
LEMMA TroubleType ==
    ASSUME disturbed \in [Sessions -> 0 .. Troubles], NEW s \in Sessions,
           Overlap(s) \/ Works \/ Fails(s) \/ UNCHANGED disturbed
    PROVE  disturbed' \in [Sessions -> 0 .. Troubles]
BY LedgerAssumption DEF Overlap, Works, Fails, Trouble

\* The writes of a finishing turn.
LEMMA InsertType ==
    ASSUME TypeOK, NEW t \in Turns, turn[t].pc # "new",
           StoreResponse(t) \/ InsertCheckpoint(t) \/ InsertSnapshot(t)
    PROVE  /\ complete' \subseteq Turns
           /\ checkpoints' \in [Sessions -> SUBSET Checkpoint]
           /\ \A z \in Sessions : IsFiniteSet(checkpoints'[z])
           /\ snapshots' \in [Sessions -> SUBSET Snapshot]
           /\ \A z \in Sessions : IsFiniteSet(snapshots'[z])
           /\ newest' \in [Sessions -> SUBSET Turns]
           /\ disturbed' \in [Sessions -> 0 .. Troubles]
<1>1. turn[t] \in StartedTurn BY DEF TypeOK, NewTurn
<1>2. turn[t].session \in Sessions /\ turn[t].n \in Nat /\ turn[t].prior \in Nat
      /\ turn[t].context \subseteq Turns
  BY <1>1 DEF StartedTurn
<1> DEFINE s == turn[t].session
<1>3. CASE StoreResponse(t) BY <1>3 DEF StoreResponse, TypeOK
<1>4. CASE InsertCheckpoint(t)
  <2> DEFINE row == [n |-> turn[t].n, by |-> t, msgs |-> turn[t].context \cup {t}]
  <2>1. row \in Checkpoint BY <1>2 DEF Checkpoint
  <2>2. ASSUME NEW z \in Sessions
        PROVE  Upsert(checkpoints[z], row) \subseteq Checkpoint /\ IsFiniteSet(Upsert(checkpoints[z], row))
    <3>1. IsFiniteSet({r \in checkpoints[z] : r.n # row.n}) BY FS_Subset DEF TypeOK
    <3> QED BY <2>1, <3>1, FS_AddElement DEF Upsert, TypeOK
  <2>3. disturbed' \in [Sessions -> 0 .. Troubles]
    BY <1>2, <1>4, TroubleType DEF InsertCheckpoint, TypeOK
  <2>4. CASE checkpoints' = [checkpoints EXCEPT ![s] = Upsert(@, row)] /\ newest' = [newest EXCEPT ![s] = {t}]
    <3>1. checkpoints' = [z \in Sessions |-> IF z = s THEN Upsert(checkpoints[z], row) ELSE checkpoints[z]]
      BY <2>4 DEF TypeOK
    <3>2. checkpoints' \in [Sessions -> SUBSET Checkpoint] /\ \A z \in Sessions : IsFiniteSet(checkpoints'[z])
      <4> HIDE DEF row
      <4> QED BY <2>2, <3>1 DEF TypeOK
    <3>3. newest' \in [Sessions -> SUBSET Turns] BY <2>4 DEF TypeOK
    <3> QED BY <1>4, <2>3, <3>2, <3>3 DEF InsertCheckpoint, TypeOK
  <2>5. CASE UNCHANGED <<checkpoints, newest>> BY <1>4, <2>3, <2>5 DEF InsertCheckpoint, TypeOK
  <2> QED BY <1>4, <2>4, <2>5 DEF InsertCheckpoint
<1>5. CASE InsertSnapshot(t)
  <2> DEFINE row == [n |-> turn[t].n, by |-> t, total |-> turn[t].prior + 1]
  <2>1. row \in Snapshot BY <1>2 DEF Snapshot
  <2>2. ASSUME NEW z \in Sessions
        PROVE  Upsert(snapshots[z], row) \subseteq Snapshot /\ IsFiniteSet(Upsert(snapshots[z], row))
    <3>1. IsFiniteSet({r \in snapshots[z] : r.n # row.n}) BY FS_Subset DEF TypeOK
    <3> QED BY <2>1, <3>1, FS_AddElement DEF Upsert, TypeOK
  <2>3. disturbed' \in [Sessions -> 0 .. Troubles]
    BY <1>2, <1>5, TroubleType DEF InsertSnapshot, TypeOK
  <2>4. CASE snapshots' = [snapshots EXCEPT ![s] = Upsert(@, row)]
    <3>1. snapshots' = [z \in Sessions |-> IF z = s THEN Upsert(snapshots[z], row) ELSE snapshots[z]]
      BY <2>4 DEF TypeOK
    <3> QED BY <1>5, <2>2, <2>3, <3>1 DEF InsertSnapshot, TypeOK
  <2>5. CASE UNCHANGED snapshots BY <1>5, <2>3, <2>5 DEF InsertSnapshot, TypeOK
  <2> QED BY <1>5, <2>4, <2>5 DEF InsertSnapshot
<1> QED BY <1>3, <1>4, <1>5

\* A step of a turn, of the cancel that stops it, or of a write it left behind.
TurnStep(t) == Advance(t) \/ Stop(t) \/ Late(t) \/ MarkFailed(t)

LEMMA TurnStepType ==
    ASSUME TypeOK, NEW t \in Turns, TurnStep(t)
    PROVE  TypeOK'
<1> USE DEF turnFrame, runFrame
<1>1. CASE MarkFailed(t) BY <1>1 DEF MarkFailed, TypeOK
<1>2. ASSUME ~MarkFailed(t) PROVE turn[t].pc # "new"
  BY <1>2 DEF TurnStep, Advance, Fail, Respond, Count, SaveCheckpoint, ReadTotals, SaveSnapshot, Finish,
     Stop, Late
<1>3. CASE Fail(t) \/ Finish(t) \/ Stop(t)
  <2>1. turn[t].pc # "new" BY <1>3 DEF Fail, Finish, Stop
  <2>2. turn' \in [Turns -> StartedTurn \cup {NewTurn}]
    <3>1. CASE Leave(t, "done") BY <2>1, <3>1, MoveToType DEF TypeOK, TurnStages
    <3>2. CASE UNCHANGED turn BY <3>2 DEF TypeOK
    <3> QED BY <1>3, <3>1, <3>2 DEF Fail, Finish, Stop
  <2> QED BY <1>3, <2>2 DEF Fail, Finish, Stop, TypeOK
<1>4. CASE Respond(t) \/ SaveCheckpoint(t) \/ SaveSnapshot(t) \/ Late(t)
  <2>1. turn[t].pc # "new" BY <1>4 DEF Respond, SaveCheckpoint, SaveSnapshot, Late
  <2>2. StoreResponse(t) \/ InsertCheckpoint(t) \/ InsertSnapshot(t)
    BY <1>4 DEF Respond, SaveCheckpoint, SaveSnapshot, Late
  <2>3. PICK stage \in TurnStages \ {"new"} : MoveTo(t, stage) \/ Leave(t, stage)
    BY <1>4 DEF Respond, SaveCheckpoint, SaveSnapshot, Late, TurnStages
  <2>4. turn' \in [Turns -> StartedTurn \cup {NewTurn}] BY <2>1, <2>3, MoveToType DEF TypeOK
  <2>5. UNCHANGED runFrame BY <1>4 DEF Respond, SaveCheckpoint, SaveSnapshot, Late
  <2> QED BY <2>1, <2>2, <2>4, <2>5, InsertType DEF TypeOK
<1>5. CASE Count(t)
  <2>1. turn[t] \in StartedTurn BY <1>5 DEF TypeOK, NewTurn, Count
  <2>2. turn[t].session \in Sessions BY <2>1 DEF StartedTurn
  <2>3. PICK n \in Nat : turn' = [turn EXCEPT ![t].pc = "counted", ![t].n = n]
    BY <1>5, <2>2, CountType DEF Count
  <2>4. [turn[t] EXCEPT !.pc = "counted", !.n = n] \in StartedTurn
    BY <2>1 DEF StartedTurn, TurnStages
  <2>5. turn' \in [Turns -> StartedTurn \cup {NewTurn}] BY <2>3, <2>4 DEF TypeOK
  <2>6. disturbed' \in [Sessions -> 0 .. Troubles]
    BY <1>5, <2>2, TroubleType DEF Count, TypeOK
  <2> QED BY <1>5, <2>5, <2>6 DEF Count, TypeOK
<1>6. CASE ReadTotals(t)
  <2> DEFINE s == turn[t].session
             prior == {r.total : r \in Last(snapshots[s])}
             p == IF prior = {} THEN 0 ELSE CHOOSE q \in prior : TRUE
  <2>1. turn[t] \in StartedTurn BY <1>6 DEF TypeOK, NewTurn, ReadTotals
  <2>2. s \in Sessions BY <2>1 DEF StartedTurn
  <2>3. p \in Nat
    <3>1. prior \subseteq Nat BY <2>2 DEF TypeOK, Snapshot, Last
    <3>2. prior # {} => (CHOOSE q \in prior : TRUE) \in prior OBVIOUS
    <3> QED BY <3>1, <3>2
  <2>4. disturbed' \in [Sessions -> 0 .. Troubles]
    BY <1>6, <2>2, TroubleType DEF ReadTotals, TypeOK
  <2>5. turn' \in [Turns -> StartedTurn \cup {NewTurn}]
    <3>1. CASE turn' = [turn EXCEPT ![t].pc = "totalled", ![t].prior = p]
      <4> HIDE DEF p
      <4>1. [turn[t] EXCEPT !.pc = "totalled", !.prior = p] \in StartedTurn
        BY <2>1, <2>3 DEF StartedTurn, TurnStages
      <4> QED BY <3>1, <4>1 DEF TypeOK
    <3>2. CASE MoveTo(t, "totalled")
      <4>1. turn[t].pc # "new" BY <1>6 DEF ReadTotals
      <4> QED BY <3>2, <4>1, MoveToType DEF TypeOK, TurnStages
    <3> QED BY <1>6, <3>1, <3>2 DEF ReadTotals
  <2> QED BY <1>6, <2>4, <2>5 DEF ReadTotals, TypeOK
<1> QED BY <1>1, <1>3, <1>4, <1>5, <1>6 DEF TurnStep, Advance

LEMMA RequestStepType ==
    ASSUME TypeOK, NEW s \in Sessions,
           \/ \E t \in Turns : Begin(t, s)
           \/ \E n \in Counters : Rollback(s, n)
    PROVE  TypeOK'
<1>1. ASSUME NEW t \in Turns, Begin(t, s) PROVE TypeOK'
  <2>1. PICK ok \in BOOLEAN :
          /\ turn' = [turn EXCEPT ![t] =
               [pc |-> "running", session |-> s, n |-> 0, prior |-> 0,
                context |-> {u \in complete : turn[u].session = s /\ ok}]]
          /\ IF ok THEN Overlap(s) ELSE Fails(s)
    BY <1>1 DEF Begin
  <2>2. {u \in complete : turn[u].session = s /\ ok} \subseteq Turns BY DEF TypeOK
  <2>3. turn'[t] \in StartedTurn BY <2>1, <2>2 DEF StartedTurn, TurnStages, TypeOK
  <2>4. turn' \in [Turns -> StartedTurn \cup {NewTurn}] BY <2>1, <2>3 DEF TypeOK
  <2>5. disturbed' \in [Sessions -> 0 .. Troubles] BY <2>1, TroubleType DEF TypeOK
  <2> QED BY <1>1, <2>4, <2>5 DEF Begin, turnFrame, runFrame, TypeOK
<1>2. ASSUME NEW n \in Counters, Rollback(s, n) PROVE TypeOK'
  <2>1. disturbed' \in [Sessions -> 0 .. Troubles] BY <1>2, TroubleType DEF Rollback, TypeOK
  <2>2. \A z \in Sessions : checkpoints'[z] \subseteq checkpoints[z] BY <1>2 DEF Rollback, TypeOK
  <2>3. \A z \in Sessions : IsFiniteSet(checkpoints'[z]) BY <2>2, FS_Subset DEF TypeOK
  <2>4. checkpoints' \in [Sessions -> SUBSET Checkpoint] BY <1>2 DEF Rollback, TypeOK
  <2>5. rewinds' \in 0 .. Rewinds BY <1>2, LedgerAssumption DEF Rollback, TypeOK
  <2>6. newest' \in [Sessions -> SUBSET Turns] BY <1>2 DEF Rollback, TypeOK, Checkpoint
  <2> QED BY <1>2, <2>1, <2>3, <2>4, <2>5, <2>6 DEF Rollback, TypeOK
<1> QED BY <1>1, <1>2

LEMMA CompactStepType ==
    ASSUME TypeOK, NEW k \in Compactions,
           \/ \E s \in Sessions : CompactRead(k, s)
           \/ CompactGiveUp(k) \/ CompactCount(k) \/ CompactSave(k)
    PROVE  TypeOK'
<1> USE DEF compactFrame
<1>1. ASSUME NEW s \in Sessions, CompactRead(k, s) PROVE TypeOK'
  <2> DEFINE heard == UNION {r.msgs : r \in Last(checkpoints[s])}
  <2>1. heard \subseteq Turns BY DEF TypeOK, Last, Checkpoint
  <2>2. [pc |-> "summary", session |-> s, n |-> 0, msgs |-> heard] \in StartedCompact
    BY <2>1 DEF StartedCompact
  <2>3. compact' \in [Compactions -> StartedCompact \cup {NewCompact}]
    BY <1>1, <2>2 DEF CompactRead, TypeOK
  <2>4. disturbed' \in [Sessions -> 0 .. Troubles] BY <1>1, TroubleType DEF CompactRead, TypeOK
  <2> QED BY <1>1, <2>3, <2>4 DEF CompactRead, TypeOK
<1>2. ASSUME CompactGiveUp(k) \/ CompactCount(k) \/ CompactSave(k) PROVE TypeOK'
  <2>1. compact[k] \in StartedCompact
    BY <1>2 DEF TypeOK, NewCompact, CompactGiveUp, CompactCount, CompactSave
  <2>2. compact[k].session \in Sessions /\ compact[k].n \in Nat /\ compact[k].msgs \subseteq Turns
    BY <2>1 DEF StartedCompact
  <2> DEFINE left == [pc |-> "done", session |-> compact[k].session, msgs |-> {}, n |-> 0]
  <2>a. left \in StartedCompact BY <2>2 DEF StartedCompact
  <2>b. CompactLeave(k) => compact' \in [Compactions -> StartedCompact \cup {NewCompact}]
    <3>1. CompactLeave(k) => compact' = [compact EXCEPT ![k] = left] BY DEF CompactLeave
    <3> HIDE DEF left
    <3> QED BY <2>a, <3>1 DEF TypeOK
  <2>3. CASE CompactGiveUp(k) BY <2>3, <2>b DEF CompactGiveUp, TypeOK
  <2>4. CASE CompactCount(k)
    <3>1. PICK n \in Nat : compact' = [compact EXCEPT ![k].pc = "counted", ![k].n = n]
      BY <2>2, <2>4, CountType DEF CompactCount
    <3>2. [compact[k] EXCEPT !.pc = "counted", !.n = n] \in StartedCompact BY <2>1 DEF StartedCompact
    <3>3. disturbed' \in [Sessions -> 0 .. Troubles]
      BY <2>2, <2>4, TroubleType DEF CompactCount, TypeOK
    <3> QED BY <2>4, <3>1, <3>2, <3>3 DEF CompactCount, TypeOK
  <2>5. CASE CompactSave(k)
    <3>2. [id |-> k, n |-> compact[k].n, msgs |-> compact[k].msgs] \in Compaction
      BY <2>2 DEF Compaction
    <3>3. disturbed' \in [Sessions -> 0 .. Troubles]
      BY <2>2, <2>5, TroubleType DEF CompactSave, TypeOK
    <3>4. compactions' \in [Sessions -> SUBSET Compaction] BY <2>5, <3>2 DEF CompactSave, TypeOK
    <3> QED BY <2>5, <2>b, <3>3, <3>4 DEF CompactSave, TypeOK
  <2> QED BY <1>2, <2>3, <2>4, <2>5
<1> QED BY <1>1, <1>2

LEMMA ForkStepType ==
    ASSUME TypeOK, NEW c \in Children,
           \/ \E s \in Sessions, n \in Counters : ForkRead(c, s, n)
           \/ ForkCreate(c) \/ ForkSave(c)
    PROVE  TypeOK'
<1> USE DEF forkFrame
<1>1. ASSUME NEW s \in Sessions, NEW n \in Counters, ForkRead(c, s, n) PROVE TypeOK'
  <2> DEFINE base == Last({r \in checkpoints[s] : r.n <= n})
  <2>1. base \subseteq checkpoints[s] BY DEF Last
  <2>2. IsFiniteSet(base) BY <2>1, FS_Subset DEF TypeOK
  <2>3. base \subseteq Checkpoint BY <2>1 DEF TypeOK
  <2> HIDE DEF base
  <2>4. [pc |-> "read", base |-> base] \in StartedFork BY <2>3 DEF StartedFork
  <2>5. fork' = [fork EXCEPT ![c] = [pc |-> "read", base |-> base]] BY <1>1 DEF ForkRead, base
  <2>6. fork' \in [Children -> StartedFork \cup {NewFork}] BY <2>4, <2>5 DEF TypeOK
  <2>7. \A d \in Children : fork'[d].pc # "new" => IsFiniteSet(fork'[d].base)
    BY <2>2, <2>5 DEF TypeOK
  <2> QED BY <1>1, <2>6, <2>7 DEF ForkRead, TypeOK
<1>2. ASSUME ForkCreate(c) \/ ForkSave(c) PROVE TypeOK'
  <2>1. fork[c] \in StartedFork /\ IsFiniteSet(fork[c].base) /\ fork[c].base \subseteq Checkpoint
    BY <1>2 DEF TypeOK, NewFork, StartedFork, ForkCreate, ForkSave
  <2>2. PICK x \in StartedFork : fork' = [fork EXCEPT ![c] = x] /\ IsFiniteSet(x.base)
    <3>1. CASE ForkCreate(c)
      <4>1. [fork[c] EXCEPT !.pc = "created"] \in StartedFork
            /\ [fork[c] EXCEPT !.pc = "created"].base = fork[c].base
        BY <2>1 DEF StartedFork
      <4>2. fork' = [fork EXCEPT ![c] = [fork[c] EXCEPT !.pc = "created"]] BY <3>1 DEF ForkCreate
      <4> QED BY <2>1, <4>1, <4>2
    <3>2. CASE ForkSave(c)
      <4>1. [pc |-> "done", base |-> {}] \in StartedFork BY DEF StartedFork
      <4> QED BY <3>2, <4>1, FS_EmptySet DEF ForkSave
    <3> QED BY <1>2, <3>1, <3>2
  <2>4. fork' \in [Children -> StartedFork \cup {NewFork}] BY <2>2 DEF TypeOK
  <2>5. \A d \in Children : fork'[d].pc # "new" => IsFiniteSet(fork'[d].base) BY <2>2 DEF TypeOK
  <2>6. CASE ForkCreate(c) BY <2>4, <2>5, <2>6 DEF ForkCreate, TypeOK
  <2>7. CASE ForkSave(c)
    <3> DEFINE kept(rows) == {r \in rows : \A b \in fork[c].base : b.n # r.n}
    <3>1. c \in Sessions BY DEF Sessions
    <3>2. disturbed' \in [Sessions -> 0 .. Troubles]
      BY <2>7, <3>1, TroubleType DEF ForkSave, TypeOK
    <3>3. IsFiniteSet(kept(checkpoints[c]) \cup fork[c].base)
          /\ kept(checkpoints[c]) \cup fork[c].base \subseteq Checkpoint
      <4>1. IsFiniteSet(kept(checkpoints[c])) BY <3>1, FS_Subset DEF TypeOK
      <4> QED BY <2>1, <3>1, <4>1, FS_Union DEF TypeOK
    <3>4. checkpoints' \in [Sessions -> SUBSET Checkpoint] /\ \A z \in Sessions : IsFiniteSet(checkpoints'[z])
      <4>1. CASE UNCHANGED checkpoints BY <4>1 DEF TypeOK
      <4>2. CASE checkpoints' = [checkpoints EXCEPT ![c] = kept(@) \cup fork[c].base]
        BY <3>3, <4>2 DEF TypeOK
      <4> QED BY <2>7, <4>1, <4>2 DEF ForkSave
    <3>5. newest' \in [Sessions -> SUBSET Turns] BY <2>1, <2>7 DEF ForkSave, TypeOK, Checkpoint
    <3> QED BY <2>4, <2>5, <2>7, <3>2, <3>4, <3>5 DEF ForkSave, TypeOK
  <2> QED BY <1>2, <2>6, <2>7
<1> QED BY <1>1, <1>2

LEMMA NextType ==
    ASSUME TypeOK, [Next]_vars
    PROVE  TypeOK'
<1>1. CASE UNCHANGED vars BY <1>1 DEF vars, TypeOK
<1>2. CASE Next
  BY <1>2, TurnStepType, RequestStepType, CompactStepType, ForkStepType DEF Next, TurnStep
<1> QED BY <1>1, <1>2

-----------------------------------------------------------------------------
(* One session *)

\* A turn of s that moves, if it does, without touching the rows of s.
Quiet(s, u) ==
    /\ turn[u].pc = "done" => turn'[u].pc = "done"
    /\ turn'[u].pc \in {"running", "answered", "counted"} =>
          turn[u].pc \in {"running", "answered", "counted"} /\ turn'[u].context = turn[u].context
    /\ turn'[u].pc = "counted" => turn'[u].n = CheckpointCount(s)
    /\ turn'[u].pc \in {"saved", "totalled"} =>
          turn[u].pc \in {"saved", "totalled"} /\ turn'[u].n = turn[u].n
    /\ turn'[u].pc = "totalled" /\ rewinds = 0 => turn'[u].prior = Cardinality(snapshots[s])
    /\ turn'[u].pc \in {"recorded", "done"} /\ u \in complete' \ stopped' =>
          turn[u].pc \in {"recorded", "done"} /\ u \in complete \ stopped

\* One that stays where it is, does.
LEMMA StaysQuiet ==
    ASSUME NEW s, SessionInv(s), NEW u \in Of(s), turn'[u] = turn[u],
           u \in complete' \ stopped' => u \in complete \ stopped
    PROVE  Quiet(s, u)
<1>1. turn[u].pc = "counted" => turn[u].n = CheckpointCount(s)
  BY DEF SessionInv, Numbered, At
<1>2. turn[u].pc = "totalled" /\ rewinds = 0 => turn[u].prior = Cardinality(snapshots[s])
  BY DEF SessionInv, Totalled, At
<1> QED BY <1>1, <1>2 DEF Quiet

\* A step with which the rows stay and the turns are quiet keeps what is said of
\* the session.
LEMMA QuietStep ==
    ASSUME NEW s, SessionInv(s),
           checkpoints'[s] = checkpoints[s], snapshots'[s] = snapshots[s],
           newest'[s] = newest[s], rewinds' = 0 => rewinds = 0,
           voided \subseteq voided', Ever(s) \subseteq Ever(s)',
           \A u \in Of(s)' : u \in Of(s) /\ Quiet(s, u)
    PROVE  SessionInv(s)'
<1>1. CheckpointCount(s)' = CheckpointCount(s) BY DEF CheckpointCount
<1>2. Running(s)' \subseteq Running(s) BY DEF Running, Quiet
<1>3. (\A t, u \in Running(s) : t = u)' BY <1>2 DEF SessionInv
<1>4. Numbered(s)'
  <2>1. \A u \in At(s, {"counted"})' : turn'[u].n = CheckpointCount(s) BY DEF At, Quiet
  <2> QED BY <1>1, <2>1 DEF SessionInv, Numbered
<1>5. ({r.by : r \in Last(checkpoints[s])} = newest[s])' BY DEF SessionInv
<1>6. Extending(s)'
  <2>1. ASSUME NEW u \in At(s, {"running", "answered", "counted"})'
        PROVE  u \in At(s, {"running", "answered", "counted"}) /\ turn'[u].context = turn[u].context
    BY DEF At, Quiet
  <2> QED BY <2>1 DEF SessionInv, Extending
<1>7. ASSUME rewinds' = 0 PROVE Totalled(s)'
  <2>1. Totalled(s) /\ rewinds = 0 BY <1>7 DEF SessionInv
  <2>2. ASSUME NEW u \in At(s, {"saved", "totalled"})'
        PROVE  u \in At(s, {"saved", "totalled"}) /\ turn'[u].n = turn[u].n
    BY DEF At, Quiet
  <2>3. \A u \in At(s, {"totalled"})' : turn'[u].prior = Cardinality(snapshots[s])
    BY <2>1 DEF At, Quiet
  <2>4. ASSUME NEW u \in At(s, {"recorded", "done"})' \cap (complete' \ stopped')
        PROVE  u \in At(s, {"recorded", "done"}) \cap (complete \ stopped)
    BY DEF At, Quiet
  <2> QED BY <1>1, <2>1, <2>2, <2>3, <2>4 DEF Totalled
<1> QED BY <1>3, <1>4, <1>5, <1>6, <1>7 DEF SessionInv

\* What every step of a turn does and leaves alone.
LEMMA TurnMove ==
    ASSUME TypeOK, CompleteInv, NEW t \in Turns, TurnStep(t)
    PROVE  /\ turn[t] \in StartedTurn /\ turn'[t] \in StartedTurn
           /\ turn'[t].session = turn[t].session
           /\ \A u \in Turns \ {t} : turn'[u] = turn[u]
           /\ turn[t].pc = "done" => turn'[t] = turn[t]
           /\ complete' \ {t} = complete \ {t} /\ voided' \ {t} = voided \ {t}
           /\ stopped' \ {t} = stopped \ {t}
           /\ voided \subseteq voided' /\ stopped \subseteq stopped'
           /\ complete \cup voided \subseteq complete' \cup voided'
           /\ UNCHANGED <<compactions, compact, fork, rewinds>>
           /\ \A z \in Sessions \ {turn[t].session} :
                 /\ checkpoints'[z] = checkpoints[z] /\ snapshots'[z] = snapshots[z]
                 /\ newest'[z] = newest[z]
<1> USE DEF turnFrame, runFrame
<1>1. CASE MarkFailed(t)
  <2>1. turn[t].pc # "new" BY <1>1 DEF MarkFailed, CompleteInv
  <2>2. turn[t] \in StartedTurn BY <2>1 DEF TypeOK, NewTurn
  <2> QED BY <1>1, <2>2 DEF MarkFailed
<1>2. CASE Fail(t) \/ Finish(t) \/ Stop(t)
  <2>1. turn[t].pc \notin {"new", "done"} BY <1>2 DEF Fail, Finish, Stop
  <2>2. turn[t] \in StartedTurn BY <2>1 DEF TypeOK, NewTurn
  <2>3. Leave(t, "done") \/ UNCHANGED turn BY <1>2 DEF Fail, Finish, Stop
  <2>4. /\ turn'[t] \in StartedTurn /\ turn'[t].session = turn[t].session
        /\ \A u \in Turns \ {t} : turn'[u] = turn[u]
    BY <2>1, <2>2, <2>3, MoveToType DEF TypeOK, TurnStages
  <2> QED BY <1>2, <2>1, <2>2, <2>4 DEF Fail, Finish, Stop
<1>3. CASE Respond(t) \/ SaveCheckpoint(t) \/ SaveSnapshot(t) \/ Late(t)
  <2>1. turn[t].pc \notin {"new", "done"} BY <1>3 DEF Respond, SaveCheckpoint, SaveSnapshot, Late
  <2>2. turn[t] \in StartedTurn BY <2>1 DEF TypeOK, NewTurn
  <2>3. StoreResponse(t) \/ InsertCheckpoint(t) \/ InsertSnapshot(t)
    BY <1>3 DEF Respond, SaveCheckpoint, SaveSnapshot, Late
  <2>4. PICK stage \in TurnStages \ {"new"} : MoveTo(t, stage) \/ Leave(t, stage)
    BY <1>3 DEF Respond, SaveCheckpoint, SaveSnapshot, Late, TurnStages
  <2>5. /\ turn'[t] \in StartedTurn /\ turn'[t].session = turn[t].session
        /\ \A u \in Turns \ {t} : turn'[u] = turn[u]
    BY <2>1, <2>4, MoveToType DEF TypeOK
  <2>6. UNCHANGED runFrame BY <1>3 DEF Respond, SaveCheckpoint, SaveSnapshot, Late
  <2>7. complete' \ {t} = complete \ {t} /\ complete \subseteq complete'
    BY <2>3 DEF StoreResponse, InsertCheckpoint, InsertSnapshot
  <2>8. \A z \in Sessions \ {turn[t].session} :
           /\ checkpoints'[z] = checkpoints[z] /\ snapshots'[z] = snapshots[z]
           /\ newest'[z] = newest[z]
    BY <2>3 DEF StoreResponse, InsertCheckpoint, InsertSnapshot, TypeOK
  <2> QED BY <2>1, <2>2, <2>5, <2>6, <2>7, <2>8
<1>4. CASE Count(t) \/ ReadTotals(t)
  <2>1. turn[t].pc \in {"answered", "saved"} BY <1>4 DEF Count, ReadTotals
  <2>2. turn[t] \in StartedTurn BY <2>1 DEF TypeOK, NewTurn
  <2>3. TypeOK' BY TurnStepType
  <2>4. /\ turn'[t].session = turn[t].session /\ turn'[t].pc \in {"counted", "totalled"}
        /\ \A u \in Turns \ {t} : turn'[u] = turn[u]
    <3>1. CASE Count(t) BY <2>2, <3>1 DEF Count, TypeOK, StartedTurn
    <3>2. CASE ReadTotals(t) BY <2>2, <3>2 DEF ReadTotals, MoveTo, TypeOK, StartedTurn
    <3> QED BY <1>4, <3>1, <3>2
  <2>5. turn'[t] \in StartedTurn BY <2>3, <2>4 DEF TypeOK, NewTurn
  <2> QED BY <1>4, <2>1, <2>2, <2>4, <2>5 DEF Count, ReadTotals
<1> QED BY <1>1, <1>2, <1>3, <1>4 DEF TurnStep, Advance

\* A task is complete from its stored response on, unless a cancel marked it.
LEMMA CompleteStep ==
    ASSUME TypeOK, CompleteInv, [Next]_vars
    PROVE  CompleteInv'
<1> USE DEF turnFrame, runFrame
<1>1. CASE UNCHANGED <<turn, complete, voided, stopped>> BY <1>1 DEF CompleteInv
<1>2. ASSUME NEW t \in Turns, NEW s \in Sessions, Begin(t, s) PROVE CompleteInv'
  <2>1. /\ turn[t].pc = "new" /\ turn'[t].pc = "running"
        /\ \A u \in Turns \ {t} : turn'[u] = turn[u]
        /\ UNCHANGED <<complete, voided, stopped>>
    BY <1>2 DEF Begin, TypeOK
  <2> QED BY <2>1 DEF CompleteInv
<1>3. ASSUME NEW t \in Turns, TurnStep(t) PROVE CompleteInv'
  <2>1. /\ turn[t] \in StartedTurn /\ turn'[t] \in StartedTurn
        /\ \A u \in Turns \ {t} : turn'[u] = turn[u]
        /\ complete' \ {t} = complete \ {t} /\ voided' \ {t} = voided \ {t}
        /\ stopped' \ {t} = stopped \ {t}
    BY <1>3, TurnMove
  <2>2. SUFFICES
          /\ t \in voided' => t \in stopped' /\ t \notin complete'
          /\ turn'[t].pc \in {"answered", "counted", "saved", "totalled", "recorded"}
                => t \in complete' \cup voided'
          /\ t \in complete' \cup voided' => turn'[t].pc \notin {"new", "running"}
          /\ t \in stopped' => turn'[t].pc \in {"running", "counted", "totalled", "done"}
    BY <2>1 DEF CompleteInv
  <2>3. turn[t].pc # "new" BY <2>1 DEF StartedTurn
  <2>4. \A stage \in TurnStages \ {"new"} :
          MoveTo(t, stage) \/ Leave(t, stage) => turn'[t].pc = stage
    BY <2>3, MoveToType DEF TypeOK
  <2>5. CASE Fail(t) \/ Finish(t)
    BY <1>3, <2>4, <2>5 DEF Fail, Finish, CompleteInv, TurnStages
  <2>6. CASE t \notin stopped /\ Respond(t)
    BY <2>4, <2>6 DEF Respond, StoreResponse, CompleteInv, TurnStages
  <2>7. CASE Count(t)
    <3>1. turn'[t].pc = "counted" BY <2>1, <2>7 DEF Count, TypeOK, StartedTurn
    <3> QED BY <2>7, <3>1 DEF Count, CompleteInv
  <2>8. CASE t \notin stopped /\ SaveCheckpoint(t)
    BY <2>4, <2>8 DEF SaveCheckpoint, InsertCheckpoint, CompleteInv, TurnStages
  <2>9. CASE ReadTotals(t)
    <3>1. turn'[t].pc = "totalled" BY <2>1, <2>9 DEF ReadTotals, MoveTo, TypeOK, StartedTurn
    <3> QED BY <2>9, <3>1 DEF ReadTotals, CompleteInv
  <2>10. CASE t \notin stopped /\ SaveSnapshot(t)
    BY <2>4, <2>10 DEF SaveSnapshot, InsertSnapshot, CompleteInv, TurnStages
  <2>11. CASE Stop(t)
    <3>1. turn'[t].pc = "done" \/ UNCHANGED turn BY <2>4, <2>11 DEF Stop, TurnStages
    <3>2. turn'[t].pc = "done" \/ turn'[t].pc \in {"running", "counted", "totalled"}
      BY <2>4, <2>11 DEF Stop, TurnStages
    <3>3. t \in stopped' /\ t \notin stopped /\ UNCHANGED <<complete, voided>> BY <2>11 DEF Stop
    <3> QED BY <3>1, <3>2, <3>3 DEF CompleteInv
  <2>12. CASE Late(t)
    <3>1. turn'[t].pc = "done" BY <2>4, <2>12 DEF Late, TurnStages
    <3>2. UNCHANGED <<voided, stopped>> /\ t \in stopped BY <2>12 DEF Late
    <3>3. complete' = complete \/ turn[t].pc = "running"
      BY <2>12 DEF Late, InsertCheckpoint, InsertSnapshot
    <3> QED BY <3>1, <3>2, <3>3 DEF CompleteInv
  <2>13. CASE MarkFailed(t)
    BY <2>13 DEF MarkFailed, CompleteInv
  <2> QED BY <1>3, <2>5, <2>6, <2>7, <2>8, <2>9, <2>10, <2>11, <2>12, <2>13 DEF TurnStep, Advance
<1> QED BY <1>1, <1>2, <1>3 DEF Next, TurnStep, vars, Rollback, CompactRead, CompactGiveUp,
       CompactCount, CompactSave, compactFrame, ForkRead, ForkCreate, ForkSave, forkFrame

-----------------------------------------------------------------------------
(* The steps of a session's running turn *)

\* The running turn of a session is the only one in any stage but the last.
LEMMA OnlyRunner ==
    ASSUME NEW s, NEW t \in Running(s), \A u, v \in Running(s) : u = v,
           \A u \in Turns \ {t} : turn'[u] = turn[u],
           turn'[t].pc # "new", turn'[t].session = s
    PROVE  /\ t \in Turns /\ Of(s)' = Of(s)
           /\ Running(s)' \subseteq {t}
           /\ \A u \in Of(s) \ {t} : turn'[u] = turn[u] /\ turn[u].pc = "done"
<1>1. t \in Of(s) /\ t \in Turns BY DEF Running, Of
<1>2. Of(s)' = Of(s) BY <1>1 DEF Of
<1>3. \A u \in Of(s) \ {t} : turn'[u] = turn[u] /\ turn[u].pc = "done"
  BY DEF Running, Of
<1>4. Running(s)' \subseteq {t} BY <1>2, <1>3 DEF Running
<1> QED BY <1>1, <1>2, <1>3, <1>4

\* A saved row gets a number no row of its session has, so it replaces none.
LEMMA AppendedRow ==
    ASSUME TypeOK, NEW t \in Turns, NEW s \in Sessions, s = turn[t].session,
           turn[t].pc = "counted", SessionInv(s), disturbed'[s] = disturbed[s],
           InsertCheckpoint(t)
    PROVE  checkpoints'[s] = checkpoints[s] \cup {[n |-> turn[t].n, by |-> t, msgs |-> turn[t].context \cup {t}]}
<1> DEFINE row == [n |-> turn[t].n, by |-> t, msgs |-> turn[t].context \cup {t}]
           m == CheckpointCount(s)
<1>1. ~Fails(s) BY DEF Fails, Trouble, TypeOK
<1>2. checkpoints' = [checkpoints EXCEPT ![s] = Upsert(@, row)] BY <1>1 DEF InsertCheckpoint
<1>3. checkpoints'[s] = Upsert(checkpoints[s], row) BY <1>2 DEF TypeOK
<1>4. m \in Nat BY CountType
<1>5. row.n = m BY DEF SessionInv, Numbered, At, Of
<1>6. {r.n : r \in checkpoints[s]} = 0 .. m - 1 BY DEF SessionInv, Numbered
<1>7. \A r \in checkpoints[s] : r.n # row.n BY <1>4, <1>5, <1>6
<1> QED BY <1>3, <1>7 DEF Upsert

\* Saving a checkpoint of an orderly session appends one row.
LEMMA Appended ==
    ASSUME TypeOK, NEW t \in Turns, NEW s \in Sessions, s = turn[t].session,
           turn[t].pc = "counted", SessionInv(s), disturbed'[s] = disturbed[s],
           InsertCheckpoint(t), NEW row,
           row = [n |-> turn[t].n, by |-> t, msgs |-> turn[t].context \cup {t}]
    PROVE  /\ CheckpointCount(s) \in Nat /\ turn[t].n = CheckpointCount(s)
           /\ \A r \in checkpoints[s] : r.n \in 0 .. CheckpointCount(s) - 1
           /\ checkpoints'[s] = checkpoints[s] \cup {row}
           /\ \A q, r \in checkpoints'[s] : q.n = r.n => q = r
           /\ {r.n : r \in checkpoints'[s]} = 0 .. (CheckpointCount(s) + 1) - 1
           /\ CheckpointCount(s)' = CheckpointCount(s) + 1
           /\ newest'[s] = {t}
           /\ UNCHANGED <<complete, snapshots>>
<1> DEFINE m == CheckpointCount(s)
<1>1. m \in Nat BY CountType
<1>2. ~Fails(s) BY DEF Fails, Trouble, TypeOK
<1>3. newest' = [newest EXCEPT ![s] = {t}] BY <1>2 DEF InsertCheckpoint
<1>4. turn[t].n = m BY DEF SessionInv, Numbered, At, Of
<1>5. {r.n : r \in checkpoints[s]} = 0 .. m - 1 BY DEF SessionInv, Numbered
<1>6. \A r \in checkpoints[s] : r.n \in 0 .. m - 1 BY <1>5
<1>7. \A q, r \in checkpoints[s] : q.n = r.n => q = r BY DEF SessionInv, Numbered
<1>8. row.n = m /\ m \notin 0 .. m - 1 BY <1>1, <1>4
<1>9. newest'[s] = {t} BY <1>3 DEF TypeOK
<1>10. checkpoints'[s] = checkpoints[s] \cup {row} BY AppendedRow
<1>11. \A q, r \in checkpoints'[s] : q.n = r.n => q = r BY ONLY <1>6, <1>7, <1>8, <1>10
<1>12. {r.n : r \in checkpoints'[s]} = 0 .. (m + 1) - 1
  <2>1. {r.n : r \in checkpoints'[s]} = {r.n : r \in checkpoints[s]} \cup {m} BY <1>8, <1>10
  <2> QED BY <1>1, <1>5, <2>1
<1>13. CheckpointCount(s)' = m + 1
  <2> HIDE DEF m
  <2>1. m + 1 \in Nat BY <1>1
  <2>2. Cardinality(checkpoints'[s]) = m + 1 BY ONLY <1>11, <1>12, <2>1, Ranked
  <2> QED BY <2>2 DEF CheckpointCount
<1> QED BY <1>1, <1>4, <1>6, <1>9, <1>10, <1>11, <1>12, <1>13 DEF InsertCheckpoint

LEMMA CheckpointStep ==
    ASSUME TypeOK, CompleteInv, CompleteInv', NEW t \in Turns, NEW s \in Sessions,
           s = turn[t].session, TurnStep(t), SessionInv(s), disturbed'[s] = disturbed[s],
           turn[t].pc = "counted", InsertCheckpoint(t),
           \/ turn'[t].pc = "saved" /\ turn'[t].n = turn[t].n
           \/ turn'[t].pc = "done" /\ t \in stopped'
    PROVE  SessionInv(s)'
<1> DEFINE row == [n |-> turn[t].n, by |-> t, msgs |-> turn[t].context \cup {t}]
           m == CheckpointCount(s)
<1>1. /\ m \in Nat /\ turn[t].n = m
      /\ \A r \in checkpoints[s] : r.n \in 0 .. m - 1
      /\ checkpoints'[s] = checkpoints[s] \cup {row}
      /\ \A q, r \in checkpoints'[s] : q.n = r.n => q = r
      /\ {r.n : r \in checkpoints'[s]} = 0 .. (m + 1) - 1
      /\ CheckpointCount(s)' = m + 1
      /\ newest'[s] = {t}
      /\ UNCHANGED <<complete, snapshots>>
  BY Appended
<1>2. /\ turn'[t].session = s /\ turn'[t] \in StartedTurn
      /\ \A u \in Turns \ {t} : turn'[u] = turn[u]
      /\ voided \subseteq voided' /\ stopped \subseteq stopped' /\ rewinds' = rewinds
      /\ complete \cup voided \subseteq complete' \cup voided'
  BY TurnMove
<1>3. t \in Running(s) BY DEF Running, Of
<1>4. /\ Of(s)' = Of(s) /\ Running(s)' \subseteq {t}
      /\ \A u \in Of(s) \ {t} : turn'[u] = turn[u] /\ turn[u].pc = "done"
  <2>1. turn'[t].pc # "new" OBVIOUS
  <2>2. \A u, v \in Running(s) : u = v BY DEF SessionInv
  <2> HIDE DEF m, row
  <2> QED BY <1>2, <1>3, <2>1, <2>2, OnlyRunner
<1>5. row.n = m /\ row.by = t /\ row.msgs = turn[t].context \cup {t} BY <1>1
<1> HIDE DEF row, m
<1>6. /\ At(s, {"counted"})' = {} /\ At(s, {"running", "answered", "counted"})' = {}
      /\ At(s, {"saved", "totalled"})' \subseteq {t} /\ At(s, {"totalled"})' = {}
  BY <1>4 DEF At
<1>7. Numbered(s)' BY <1>1, <1>6 DEF Numbered
<1>8. ({r.by : r \in Last(checkpoints[s])} = newest[s])'
  <2>1. Last(checkpoints'[s]) = {row}
    <3>1. \A r \in checkpoints[s] : r.n <= row.n /\ ~(row.n <= r.n) BY <1>1, <1>5
    <3>2. row.n <= row.n BY <1>1, <1>5
    <3> QED BY <1>1, <3>1, <3>2 DEF Last
  <2>2. {r.by : r \in Last(checkpoints'[s])} = {t} BY <1>5, <2>1
  <2> QED BY <1>1, <2>2
<1>9. Ever(s) \subseteq Ever(s)' /\ t \in Ever(s)
  <2>1. t \in complete \cup voided BY DEF CompleteInv
  <2> QED BY <1>2, <2>1 DEF Ever, TypeOK
<1>10. Extending(s)'
  <2>1. t \in At(s, {"running", "answered", "counted"}) BY DEF At, Of
  <2>2. /\ turn[t].context \subseteq Ever(s)
        /\ \A r \in checkpoints[s] : r.msgs \ voided \subseteq turn[t].context
        /\ \A r \in checkpoints[s] : r.msgs \subseteq Ever(s)
        /\ \A q, r \in checkpoints[s] : q.n < r.n => q.msgs \ voided \subseteq r.msgs
    BY <2>1 DEF SessionInv, Extending
  <2>3. \A r \in checkpoints'[s] : r.msgs \subseteq Ever(s)' BY <1>1, <1>5, <1>9, <2>2
  <2>4. ASSUME NEW q \in checkpoints'[s], NEW r \in checkpoints'[s], q.n < r.n
        PROVE  q.msgs \ voided' \subseteq r.msgs
    <3>1. q \in checkpoints[s] BY <1>1, <1>5, <2>4
    <3>2. q.msgs \ voided \subseteq r.msgs BY <1>1, <1>5, <2>2, <2>4, <3>1
    <3> QED BY <1>2, <3>2
  <2> QED BY <1>6, <2>3, <2>4 DEF Extending
<1>11. ASSUME rewinds' = 0 PROVE Totalled(s)'
  <2>1. Totalled(s) BY <1>2, <1>11 DEF SessionInv
  <2>2. \A r \in snapshots[s] : r.n < m BY <2>1 DEF Totalled, m
  <2>3. \A r \in snapshots'[s] : r.n < CheckpointCount(s)'
    <3>1. \A r \in snapshots[s] : r.n \in Nat
      BY DEF TypeOK, Snapshot
    <3> QED BY <1>1, <2>2, <3>1
  <2>4. ASSUME NEW u \in At(s, {"saved", "totalled"})'
        PROVE  turn'[u].n + 1 = CheckpointCount(s)' /\ \A r \in snapshots'[s] : r.n < turn'[u].n
    BY <1>1, <1>6, <2>2 DEF At
  <2>5. ASSUME NEW u \in At(s, {"recorded", "done"})' \cap (complete' \ stopped')
        PROVE  \E r \in snapshots'[s] : r.by = u
    <3>1. u # t BY <2>5 DEF At
    <3>2. u \in At(s, {"recorded", "done"}) \cap (complete \ stopped)
      BY <1>1, <1>2, <1>4, <3>1 DEF At
    <3> QED BY <1>1, <2>1, <3>2 DEF Totalled
  <2> QED BY <1>1, <1>6, <2>1, <2>3, <2>4, <2>5 DEF Totalled
<1>12. (\A u, v \in Running(s) : u = v)' BY <1>4
<1> QED BY <1>7, <1>8, <1>10, <1>11, <1>12 DEF SessionInv

\* Saving a snapshot leaves the checkpoints alone.
LEMMA SnapshotStep ==
    ASSUME TypeOK, CompleteInv, CompleteInv', NEW t \in Turns, NEW s \in Sessions,
           s = turn[t].session, TurnStep(t), SessionInv(s), disturbed'[s] = disturbed[s],
           turn[t].pc = "totalled", InsertSnapshot(t),
           turn'[t].pc \in {"recorded", "done"}
    PROVE  SessionInv(s)'
<1> DEFINE row == [n |-> turn[t].n, by |-> t, total |-> turn[t].prior + 1]
           m == CheckpointCount(s)
<1>1. /\ turn'[t].session = s /\ turn'[t] \in StartedTurn /\ turn[t] \in StartedTurn
      /\ \A u \in Turns \ {t} : turn'[u] = turn[u]
      /\ voided \subseteq voided' /\ stopped \subseteq stopped' /\ rewinds' = rewinds
      /\ complete \cup voided \subseteq complete' \cup voided'
  BY TurnMove
<1>2. /\ snapshots'[s] = Upsert(snapshots[s], row)
      /\ UNCHANGED <<checkpoints, newest, complete>>
  <2>1. ~Fails(s) BY DEF Fails, Trouble, TypeOK
  <2>2. snapshots' = [snapshots EXCEPT ![s] = Upsert(@, row)] BY <2>1 DEF InsertSnapshot
  <2> QED BY <2>2 DEF InsertSnapshot, TypeOK
<1>3. t \in Running(s) BY DEF Running, Of
<1>4. /\ Of(s)' = Of(s) /\ Running(s)' \subseteq {t}
      /\ \A u \in Of(s) \ {t} : turn'[u] = turn[u] /\ turn[u].pc = "done"
  <2>1. turn'[t].pc # "new" OBVIOUS
  <2>2. \A u, v \in Running(s) : u = v BY DEF SessionInv
  <2> HIDE DEF m, row
  <2> QED BY <1>1, <1>3, <2>1, <2>2, OnlyRunner
<1>5. row.n = turn[t].n /\ row.by = t /\ row.total = turn[t].prior + 1 OBVIOUS
<1> HIDE DEF row
<1>6. /\ At(s, {"counted"})' = {} /\ At(s, {"running", "answered", "counted"})' = {}
      /\ At(s, {"saved", "totalled"})' = {} /\ At(s, {"totalled"})' = {}
  BY <1>4 DEF At
<1>7. CheckpointCount(s)' = m BY <1>2 DEF CheckpointCount
<1>8. Numbered(s)' BY <1>2, <1>6, <1>7 DEF SessionInv, Numbered
<1>9. ({r.by : r \in Last(checkpoints[s])} = newest[s])' BY <1>2 DEF SessionInv
<1>10. Ever(s) \subseteq Ever(s)' BY <1>1 DEF Ever, TypeOK
<1>11. Extending(s)' BY <1>1, <1>2, <1>6, <1>10 DEF SessionInv, Extending
<1>12. ASSUME rewinds' = 0 PROVE Totalled(s)'
  <2>1. Totalled(s) BY <1>1, <1>12 DEF SessionInv
  <2>2. t \in At(s, {"saved", "totalled"}) /\ t \in At(s, {"totalled"}) BY DEF At, Of
  <2>3. /\ turn[t].n + 1 = m /\ turn[t].prior = Cardinality(snapshots[s])
        /\ \A r \in snapshots[s] : r.n < turn[t].n
    BY <2>1, <2>2 DEF Totalled
  <2>4. turn[t].n \in Nat /\ m \in Nat /\ \A r \in snapshots[s] : r.n \in Nat
    BY <1>1, CountType DEF StartedTurn, TypeOK, Snapshot
  <2>5. snapshots'[s] = snapshots[s] \cup {row} /\ row \notin snapshots[s]
    BY <1>2, <1>5, <2>3, <2>4 DEF Upsert
  <2>6. Cardinality(snapshots'[s]) = Cardinality(snapshots[s]) + 1
    <3>1. IsFiniteSet(snapshots[s]) BY DEF TypeOK
    <3> QED BY <2>5, <3>1, FS_AddElement
  <2>7. Last(snapshots'[s]) = {row}
    <3>1. \A r \in snapshots[s] : r.n <= row.n /\ ~(row.n <= r.n) BY <1>5, <2>3, <2>4
    <3>2. row.n <= row.n BY <1>5, <2>4
    <3> QED BY <2>5, <3>1, <3>2 DEF Last
  <2>8. \A r \in snapshots'[s] : r.n < CheckpointCount(s)'
    BY <1>5, <1>7, <2>3, <2>4, <2>5
  <2>9. row.total = Cardinality(snapshots'[s]) BY <1>5, <2>3, <2>6
  <2>10. ASSUME NEW u \in At(s, {"recorded", "done"})' \cap (complete' \ stopped')
         PROVE  \E r \in snapshots'[s] : r.by = u
    <3>1. CASE u = t BY <1>5, <2>5, <3>1
    <3>2. CASE u # t
      <4>1. u \in At(s, {"recorded", "done"}) \cap (complete \ stopped)
        BY <1>1, <1>2, <1>4, <3>2 DEF At
      <4> QED BY <2>1, <2>5, <4>1 DEF Totalled
    <3> QED BY <3>1, <3>2
  <2> QED BY <1>6, <2>7, <2>8, <2>9, <2>10 DEF Totalled
<1>13. (\A u, v \in Running(s) : u = v)' BY <1>4
<1> QED BY <1>8, <1>9, <1>11, <1>12, <1>13 DEF SessionInv

\* The two writes of rows, by the run itself or left behind by it.
Saves(t) == SaveCheckpoint(t) \/ (turn[t].pc = "counted" /\ Late(t))
Snaps(t) == SaveSnapshot(t) \/ (turn[t].pc = "totalled" /\ Late(t))

LEMMA RowWrites ==
    ASSUME TypeOK, NEW t \in Turns, Saves(t) \/ Snaps(t)
    PROVE  /\ Saves(t) => /\ turn[t].pc = "counted" /\ InsertCheckpoint(t)
                          /\ \/ turn'[t].pc = "saved" /\ turn'[t].n = turn[t].n
                             \/ turn'[t].pc = "done" /\ t \in stopped'
                          /\ UNCHANGED voided
           /\ Snaps(t) => /\ turn[t].pc = "totalled" /\ InsertSnapshot(t)
                          /\ turn'[t].pc \in {"recorded", "done"}
                          /\ UNCHANGED voided
<1>1. turn[t].pc \in {"counted", "totalled"} BY DEF Saves, Snaps, SaveCheckpoint, SaveSnapshot
<1>2. \A stage \in TurnStages \ {"new"} :
        /\ MoveTo(t, stage) \/ Leave(t, stage) => turn'[t].pc = stage
        /\ MoveTo(t, stage) => turn'[t].n = turn[t].n
  BY <1>1, MoveToType DEF TypeOK
<1>3. CASE SaveCheckpoint(t) \/ SaveSnapshot(t)
  BY <1>2, <1>3 DEF SaveCheckpoint, SaveSnapshot, Saves, Snaps, Late, TurnStages, runFrame
<1>4. CASE Late(t)
  BY <1>2, <1>4 DEF Late, SaveCheckpoint, SaveSnapshot, Saves, Snaps, TurnStages, runFrame
<1> QED BY <1>3, <1>4 DEF Saves, Snaps

\* What a turn of the session tells by the stage it moves to, while no row of the
\* session changes.
LEMMA QuietTurn ==
    ASSUME TypeOK, CompleteInv, NEW t \in Turns, NEW s \in Sessions, s = turn[t].session,
           TurnStep(t), SessionInv(s), disturbed'[s] = disturbed[s],
           ~Saves(t), ~Snaps(t)
    PROVE  /\ Quiet(s, t)
           /\ UNCHANGED <<checkpoints, snapshots, newest>>
<1>1. turn[t] \in StartedTurn /\ t \in Of(s) BY TurnMove DEF Of, StartedTurn, TurnStages
<1>2. \A stage \in TurnStages \ {"new"} :
        /\ MoveTo(t, stage) \/ Leave(t, stage) => turn'[t].pc = stage
        /\ MoveTo(t, stage) => /\ turn'[t].context = turn[t].context
                               /\ turn'[t].n = turn[t].n /\ turn'[t].prior = turn[t].prior
  <2>1. turn[t].pc # "new" BY <1>1 DEF StartedTurn
  <2> QED BY <2>1, MoveToType DEF TypeOK
<1>3. ~Fails(s) BY DEF Fails, Trouble, TypeOK
<1>4. CASE Fail(t) \/ Finish(t)
  BY <1>2, <1>4 DEF Fail, Finish, Quiet, CompleteInv, TurnStages, runFrame
<1>5. CASE Respond(t)
  BY <1>2, <1>5 DEF Respond, StoreResponse, Quiet, TurnStages
<1>6. CASE Count(t)
  <2>1. turn' = [turn EXCEPT ![t].pc = "counted", ![t].n = CheckpointCount(s)]
    BY <1>3, <1>6 DEF Count
  <2>2. /\ turn'[t].pc = "counted" /\ turn'[t].n = CheckpointCount(s)
        /\ turn'[t].context = turn[t].context
    BY <1>1, <2>1 DEF TypeOK, StartedTurn
  <2> QED BY <1>6, <2>2 DEF Count, Quiet
<1>7. CASE ReadTotals(t)
  <2> DEFINE prior == {r.total : r \in Last(snapshots[s])}
             p == IF prior = {} THEN 0 ELSE CHOOSE q \in prior : TRUE
  <2>1. turn' = [turn EXCEPT ![t].pc = "totalled", ![t].prior = p]
    BY <1>3, <1>7 DEF ReadTotals
  <2>2. ASSUME rewinds = 0 PROVE p = Cardinality(snapshots[s])
    <3>1. Totalled(s) BY <2>2 DEF SessionInv
    <3>2. \A q \in prior : q = Cardinality(snapshots[s]) BY <3>1 DEF Totalled
    <3>3. CASE prior # {}
      <4>1. (CHOOSE q \in prior : TRUE) \in prior BY <3>3
      <4> QED BY <3>2, <3>3, <4>1
    <3>4. CASE prior = {}
      <4>1. snapshots[s] = {} BY <3>1, <3>4 DEF Totalled
      <4> QED BY <3>4, <4>1, FS_EmptySet
    <3> QED BY <3>3, <3>4
  <2> HIDE DEF p
  <2>3. /\ turn'[t].pc = "totalled" /\ turn'[t].prior = p /\ turn'[t].n = turn[t].n
    BY <1>1, <2>1 DEF TypeOK, StartedTurn
  <2>4. turn[t].pc = "saved" BY <1>7 DEF ReadTotals
  <2> QED BY <1>7, <2>2, <2>3, <2>4 DEF ReadTotals, Quiet
<1>8. CASE Stop(t)
  <2>1. /\ turn[t].pc # "done" /\ t \in stopped'
        /\ UNCHANGED <<complete, checkpoints, snapshots, newest, rewinds>>
        /\ turn'[t].pc = "done" \/ UNCHANGED turn
    BY <1>2, <1>8 DEF Stop, turnFrame, TurnStages
  <2>2. CASE turn'[t].pc = "done" BY <2>1, <2>2 DEF Quiet
  <2>3. CASE UNCHANGED turn BY <1>1, <2>1, <2>3, StaysQuiet
  <2> QED BY <2>1, <2>2, <2>3
<1>9. CASE Late(t)
  <2>1. turn'[t].pc = "done" /\ t \in stopped' BY <1>2, <1>9 DEF Late, TurnStages, runFrame
  <2>2. StoreResponse(t) BY <1>9 DEF Late, Saves, Snaps
  <2> QED BY <2>1, <2>2 DEF StoreResponse, Quiet
<1>10. CASE MarkFailed(t)
  <2>1. t \notin complete' /\ UNCHANGED <<turn, checkpoints, snapshots, newest>>
    BY <1>10 DEF MarkFailed
  <2>2. turn'[t] = turn[t] BY <2>1
  <2>3. t \in complete' \ stopped' => t \in complete \ stopped BY <2>1
  <2> QED BY <1>1, <2>1, <2>2, <2>3, StaysQuiet
<1> QED BY <1>4, <1>5, <1>6, <1>7, <1>8, <1>9, <1>10 DEF TurnStep, Advance, Saves, Snaps

\* What a step of its own turn keeps of an orderly session.
LEMMA OwnStep ==
    ASSUME TypeOK, CompleteInv, CompleteInv', NEW t \in Turns, NEW s \in Sessions,
           s = turn[t].session, TurnStep(t), SessionInv(s), disturbed'[s] = disturbed[s]
    PROVE  SessionInv(s)'
<1>1. CASE Saves(t) BY <1>1, RowWrites, CheckpointStep
<1>2. CASE Snaps(t) BY <1>2, RowWrites, SnapshotStep
<1>3. CASE ~Saves(t) /\ ~Snaps(t)
  <2>1. Quiet(s, t) /\ UNCHANGED <<checkpoints, snapshots, newest>> BY <1>3, QuietTurn
  <2>2. /\ turn[t] \in StartedTurn /\ turn'[t] \in StartedTurn /\ turn'[t].session = s
        /\ \A u \in Turns \ {t} : turn'[u] = turn[u]
        /\ complete' \ {t} = complete \ {t} /\ stopped' \ {t} = stopped \ {t}
        /\ voided \subseteq voided' /\ rewinds' = rewinds
        /\ complete \cup voided \subseteq complete' \cup voided'
    BY TurnMove
  <2>3. Ever(s) \subseteq Ever(s)' BY <2>2 DEF Ever, TypeOK
  <2>4. ASSUME NEW u \in Of(s)' PROVE u \in Of(s) /\ Quiet(s, u)
    <3>1. CASE u = t
      <4>1. t \in Of(s) BY <2>2 DEF Of, StartedTurn, TurnStages
      <4> QED BY <2>1, <3>1, <4>1
    <3>2. CASE u # t
      <4>1. u \in Turns /\ u \in Of(s) /\ turn'[u] = turn[u] BY <2>2, <3>2 DEF Of
      <4>2. u \in complete' \ stopped' => u \in complete \ stopped BY <2>2, <3>2
      <4> QED BY <4>1, <4>2, StaysQuiet
    <3> QED BY <3>1, <3>2
  <2> QED BY <2>1, <2>2, <2>3, <2>4, QuietStep
<1> QED BY <1>1, <1>2, <1>3

\* A step that leaves the turns and rows of a session alone.
LEMMA Elsewhere ==
    ASSUME NEW s, SessionInv(s),
           checkpoints'[s] = checkpoints[s], snapshots'[s] = snapshots[s],
           newest'[s] = newest[s], rewinds' = 0 => rewinds = 0,
           Of(s)' = Of(s), \A t \in Of(s) : turn'[t] = turn[t],
           \A t \in Of(s) : t \in complete' \ stopped' => t \in complete \ stopped,
           voided \subseteq voided', Ever(s) \subseteq Ever(s)'
    PROVE  SessionInv(s)'
<1>1. \A u \in Of(s)' : u \in Of(s) /\ Quiet(s, u) BY StaysQuiet
<1> QED BY <1>1, QuietStep

-----------------------------------------------------------------------------
(* The other steps *)

\* A turn begins in an orderly session that is at rest, over all its completed
\* turns.
LEMMA BeginsAlone ==
    ASSUME TypeOK, CompleteInv, NEW t \in Turns, NEW s \in Sessions,
           disturbed[s] = 0, disturbed'[s] = 0, Begin(t, s)
    PROVE  /\ ~Busy(s)
           /\ t \notin Of(s) /\ t \notin complete \cup voided
           /\ \A u \in Turns \ {t} : turn'[u] = turn[u]
           /\ turn'[t].pc = "running" /\ turn'[t].session = s
           /\ turn'[t].context = {u \in complete : turn[u].session = s}
           /\ \A u \in Of(s)' : u = t \/ (u \in Of(s) /\ turn[u].pc = "done")
           /\ Ever(s)' = Ever(s)
           /\ UNCHANGED <<checkpoints, snapshots, newest, rewinds, complete, voided, stopped,
                          compactions, compact>>
<1>1. PICK ok \in BOOLEAN :
        /\ turn' = [turn EXCEPT ![t] =
             [pc |-> "running", session |-> s, n |-> 0, prior |-> 0,
              context |-> {u \in complete : turn[u].session = s /\ ok}]]
        /\ IF ok THEN Overlap(s) ELSE Fails(s)
  BY DEF Begin
<1>2. ok /\ ~Busy(s) BY <1>1 DEF Overlap, Fails, Trouble, TypeOK
<1>3. /\ \A u \in Turns \ {t} : turn'[u] = turn[u]
      /\ turn'[t].pc = "running" /\ turn'[t].session = s
      /\ turn'[t].context = {u \in complete : turn[u].session = s}
  BY <1>1, <1>2 DEF TypeOK
<1>4. UNCHANGED <<checkpoints, snapshots, newest, rewinds, complete, voided, stopped, compactions, compact>>
  BY DEF Begin, turnFrame, runFrame
<1>5. t \notin Of(s) /\ t \notin complete \cup voided BY DEF Begin, Of, CompleteInv
<1>6. \A u \in Of(s)' : u = t \/ (u \in Of(s) /\ turn[u].pc = "done")
  BY <1>2, <1>3 DEF Of, Busy
<1>7. Ever(s)' = Ever(s) BY <1>3, <1>4, <1>5 DEF Ever, TypeOK
<1> QED BY <1>2, <1>3, <1>4, <1>5, <1>6, <1>7

LEMMA BeginStep ==
    ASSUME TypeOK, CompleteInv, NEW t \in Turns, NEW s \in Sessions, SessionInv(s),
           disturbed[s] = 0, disturbed'[s] = 0, Begin(t, s)
    PROVE  SessionInv(s)'
<1>1. /\ t \notin Of(s) /\ t \notin complete \cup voided
      /\ \A u \in Turns \ {t} : turn'[u] = turn[u]
      /\ turn'[t].pc = "running" /\ turn'[t].session = s
      /\ turn'[t].context = {u \in complete : turn[u].session = s}
      /\ \A u \in Of(s)' : u = t \/ (u \in Of(s) /\ turn[u].pc = "done")
      /\ Ever(s)' = Ever(s)
      /\ UNCHANGED <<checkpoints, snapshots, newest, rewinds, complete, voided, stopped>>
  BY BeginsAlone
<1>2. \A u \in Of(s)' : u \in Turns BY DEF Of
<1>3. /\ \A u \in Running(s)' : u = t
      /\ At(s, {"counted"})' = {} /\ At(s, {"saved", "totalled"})' = {}
      /\ At(s, {"totalled"})' = {} /\ At(s, {"running", "answered", "counted"})' \subseteq {t}
  BY <1>1, <1>2 DEF Running, At
<1>4. CheckpointCount(s)' = CheckpointCount(s) BY <1>1 DEF CheckpointCount
<1>5. Numbered(s)' BY <1>1, <1>3, <1>4 DEF SessionInv, Numbered
<1>6. ({r.by : r \in Last(checkpoints[s])} = newest[s])' BY <1>1 DEF SessionInv
<1>7. Extending(s)'
  <2>1. \A r \in checkpoints[s] : r.msgs \subseteq Ever(s) BY DEF SessionInv, Extending
  <2>2. turn'[t].context \subseteq Ever(s) BY <1>1 DEF Ever
  <2>3. Ever(s) \ voided \subseteq turn'[t].context BY <1>1 DEF Ever
  <2> QED BY <1>1, <1>3, <2>1, <2>2, <2>3 DEF SessionInv, Extending
<1>8. ASSUME rewinds' = 0 PROVE Totalled(s)'
  <2>1. Totalled(s) BY <1>1, <1>8 DEF SessionInv
  <2>2. At(s, {"recorded", "done"})' \subseteq At(s, {"recorded", "done"})
    BY <1>1, <1>2 DEF At
  <2> QED BY <1>1, <1>3, <1>4, <2>1, <2>2 DEF Totalled
<1> QED BY <1>3, <1>5, <1>6, <1>7, <1>8 DEF SessionInv

\* A session at rest has no turn and no compaction under way.
LEMMA RestsAlone ==
    ASSUME NEW s, ~Busy(s)
    PROVE  /\ Running(s) = {} /\ Compacting(s) = {}
           /\ \A stages : "done" \notin stages => At(s, stages) = {}
BY DEF Busy, Running, Of, Compacting, At

\* A rollback of an orderly session at rest keeps the rows up to its target.
LEMMA RollbackStep ==
    ASSUME TypeOK, NEW s \in Sessions, NEW n \in Counters, SessionInv(s),
           disturbed[s] = 0, disturbed'[s] = 0, Rollback(s, n)
    PROVE  SessionInv(s)'
<1>1. ~Busy(s) BY DEF Rollback, Overlap, Trouble, TypeOK
<1>2. Running(s) = {} BY <1>1, RestsAlone
<1>3. /\ checkpoints'[s] = {r \in checkpoints[s] : r.n <= n}
      /\ rewinds' = rewinds + 1
      /\ UNCHANGED <<turn, complete, voided, stopped, snapshots>>
  BY DEF Rollback, TypeOK
<1>4. PICK target \in checkpoints[s] : target.n = n /\ newest'[s] = {target.by}
  BY DEF Rollback, TypeOK
<1>5. n \in Nat BY <1>4 DEF TypeOK, Checkpoint
<1>6. /\ \A q, r \in checkpoints[s] : q.n = r.n => q = r
      /\ {r.n : r \in checkpoints[s]} = 0 .. CheckpointCount(s) - 1
  BY DEF SessionInv, Numbered
<1>7. CheckpointCount(s) \in Nat BY CountType
<1>8. n \in 0 .. CheckpointCount(s) - 1 BY <1>4, <1>6
<1>9. {r.n : r \in checkpoints'[s]} = 0 .. (n + 1) - 1
  <2>1. ASSUME NEW i \in 0 .. n PROVE \E r \in checkpoints'[s] : r.n = i
    <3>1. i \in 0 .. CheckpointCount(s) - 1 BY <1>5, <1>7, <1>8
    <3>2. PICK r \in checkpoints[s] : r.n = i BY <1>6, <3>1
    <3> QED BY <1>3, <1>5, <3>2
  <2>2. ASSUME NEW r \in checkpoints'[s] PROVE r.n \in 0 .. n
    BY <1>3, <1>5, <2>2 DEF TypeOK, Checkpoint
  <2> QED BY <1>5, <2>1, <2>2
<1>10. CheckpointCount(s)' = n + 1
  <2>1. \A q, r \in checkpoints'[s] : q.n = r.n => q = r BY <1>3, <1>6
  <2>2. Cardinality(checkpoints'[s]) = n + 1
    <3>1. n + 1 \in Nat BY <1>5
    <3> QED BY ONLY <1>9, <2>1, <3>1, Ranked
  <2> QED BY <2>2 DEF CheckpointCount
<1>11. /\ Running(s)' = {} /\ Ever(s)' = Ever(s)
       /\ At(s, {"counted"})' = {} /\ At(s, {"running", "answered", "counted"})' = {}
  <2>1. At(s, {"counted"}) = {} /\ At(s, {"running", "answered", "counted"}) = {}
    BY <1>1, RestsAlone
  <2> QED BY <1>2, <1>3, <2>1 DEF Running, Ever, Of, At
<1>12. Numbered(s)' BY <1>3, <1>6, <1>9, <1>10, <1>11 DEF Numbered
<1>13. Extending(s)' BY <1>3, <1>11 DEF SessionInv, Extending
<1>14. ({r.by : r \in Last(checkpoints[s])} = newest[s])'
  <2>1. target \in checkpoints'[s] BY <1>3, <1>4, <1>5
  <2>2. \A r \in checkpoints'[s] : r.n \in Nat /\ r.n <= n BY <1>3 DEF TypeOK, Checkpoint
  <2>3. Last(checkpoints'[s]) = {target}
    BY <1>3, <1>4, <1>5, <1>6, <2>1, <2>2 DEF Last
  <2> QED BY <1>4, <2>3
<1>15. rewinds' # 0 BY <1>3 DEF TypeOK
<1> QED BY <1>11, <1>12, <1>13, <1>14, <1>15 DEF SessionInv

-----------------------------------------------------------------------------
(* All steps *)

\* Troubles are not forgotten.
LEMMA StaysOrderly ==
    ASSUME TypeOK, [Next]_vars, NEW s \in Roots, disturbed'[s] = 0
    PROVE  disturbed[s] = 0
<1>1. CASE UNCHANGED disturbed BY <1>1
<1>2. ASSUME NEW z, disturbed' = [disturbed EXCEPT ![z] = @ + 1] PROVE disturbed[s] = 0
  BY <1>2 DEF TypeOK, Sessions
<1>3. UNCHANGED disturbed \/ \E z : disturbed' = [disturbed EXCEPT ![z] = @ + 1]
  BY DEF Next, vars, Begin, Advance, Fail, StoreResponse, Respond, Count, InsertCheckpoint,
     SaveCheckpoint, ReadTotals, InsertSnapshot, SaveSnapshot, Finish, Stop, Late, MarkFailed,
     Rollback, CompactRead, CompactGiveUp, CompactCount, CompactSave, ForkRead, ForkCreate, ForkSave,
     Overlap, Works, Fails, Trouble
<1> QED BY <1>1, <1>2, <1>3

\* What an orderly session has, it keeps.
LEMMA SessionStep ==
    ASSUME TypeOK, CompleteInv, CompleteInv', [Next]_vars, NEW s \in Roots, SessionInv(s),
           disturbed'[s] = 0
    PROVE  SessionInv(s)'
<1>1. s \in Sessions /\ s \notin Children BY LedgerAssumption DEF Sessions
<1>2. disturbed[s] = 0 BY StaysOrderly
<1>3. ASSUME UNCHANGED <<turn, complete, voided, stopped, snapshots>>, rewinds' = 0 => rewinds = 0,
             checkpoints'[s] = checkpoints[s], newest'[s] = newest[s]
      PROVE  SessionInv(s)'
  BY <1>3, Elsewhere DEF Of, Ever
<1>4. ASSUME NEW t \in Turns, NEW z \in Sessions, Begin(t, z) PROVE SessionInv(s)'
  <2>1. CASE z = s BY <1>1, <1>2, <1>4, <2>1, BeginStep
  <2>2. CASE z # s
    <3>1. /\ turn[t].pc = "new" /\ turn'[t].session = z
          /\ \A u \in Turns \ {t} : turn'[u] = turn[u]
          /\ UNCHANGED <<complete, voided, stopped, checkpoints, snapshots, newest, rewinds>>
      BY <1>4 DEF Begin, turnFrame, runFrame, TypeOK
    <3>2. t \notin Of(s) /\ Of(s)' = Of(s) BY <2>2, <3>1 DEF Of
    <3>3. \A u \in Of(s) : turn'[u] = turn[u] BY <3>1, <3>2 DEF Of
    <3>4. Ever(s) \subseteq Ever(s)'
      <4>1. t \notin complete \cup voided BY <3>1 DEF CompleteInv
      <4> QED BY <3>1, <4>1 DEF Ever, TypeOK
    <3> QED BY <3>1, <3>2, <3>3, <3>4, Elsewhere
  <2> QED BY <2>1, <2>2
<1>5. ASSUME NEW t \in Turns, TurnStep(t) PROVE SessionInv(s)'
  <2>1. CASE turn[t].session = s BY <1>1, <1>2, <1>5, <2>1, OwnStep
  <2>2. CASE turn[t].session # s
    <3>1. /\ turn'[t].session = turn[t].session /\ \A u \in Turns \ {t} : turn'[u] = turn[u]
          /\ complete' \ {t} = complete \ {t} /\ voided' \ {t} = voided \ {t}
          /\ stopped' \ {t} = stopped \ {t} /\ voided \subseteq voided' /\ rewinds' = rewinds
          /\ complete \cup voided \subseteq complete' \cup voided'
          /\ checkpoints'[s] = checkpoints[s] /\ newest'[s] = newest[s]
          /\ snapshots'[s] = snapshots[s]
      BY <1>1, <1>5, <2>2, TurnMove
    <3>2. t \notin Of(s) /\ Of(s)' = Of(s) BY <2>2, <3>1 DEF Of
    <3>3. \A u \in Of(s) : u # t /\ turn'[u] = turn[u] BY <3>1, <3>2 DEF Of
    <3>4. Ever(s) \subseteq Ever(s)' BY <3>1 DEF Ever, TypeOK
    <3>5. \A u \in Of(s) : u \in complete' \ stopped' => u \in complete \ stopped BY <3>1, <3>3
    <3> QED BY <3>1, <3>2, <3>3, <3>4, <3>5, Elsewhere
  <2> QED BY <2>1, <2>2
<1>6. ASSUME NEW z \in Sessions, NEW n \in Counters, Rollback(z, n) PROVE SessionInv(s)'
  <2>1. CASE z = s BY <1>1, <1>2, <1>6, <2>1, RollbackStep
  <2>2. CASE z # s
    <3>1. /\ UNCHANGED <<turn, complete, voided, stopped, snapshots>>
          /\ checkpoints'[s] = checkpoints[s] /\ newest'[s] = newest[s]
          /\ rewinds' # 0
      BY <1>1, <1>6, <2>2 DEF Rollback, TypeOK
    <3> QED BY <1>3, <3>1
  <2> QED BY <2>1, <2>2
<1>7. ASSUME NEW k \in Compactions,
             \/ \E z \in Sessions : CompactRead(k, z)
             \/ CompactGiveUp(k) \/ CompactCount(k) \/ CompactSave(k)
      PROVE  SessionInv(s)'
  BY <1>3, <1>7 DEF CompactRead, CompactGiveUp, CompactCount, CompactSave, compactFrame
<1>8. ASSUME NEW c \in Children,
             \/ \E z \in Sessions, n \in Counters : ForkRead(c, z, n)
             \/ ForkCreate(c) \/ ForkSave(c)
      PROVE  SessionInv(s)'
  <2>1. UNCHANGED <<turn, complete, voided, stopped, snapshots, rewinds>>
    BY <1>8 DEF ForkRead, ForkCreate, ForkSave, forkFrame
  <2>2. checkpoints'[s] = checkpoints[s] /\ newest'[s] = newest[s]
    BY <1>1, <1>8 DEF ForkRead, ForkCreate, ForkSave, TypeOK
  <2> QED BY <1>3, <2>1, <2>2
<1>9. CASE UNCHANGED vars BY <1>3, <1>9 DEF vars
<1> QED BY <1>4, <1>5, <1>6, <1>7, <1>8, <1>9 DEF Next, TurnStep

-----------------------------------------------------------------------------
(* What conversations are made of *)

\* A turn settles when it saves its checkpoint, or when it was stopped before.
LEMMA SettlesOnce ==
    ASSUME TypeOK, CompleteInv, NEW t \in Turns, TurnStep(t)
    PROVE  /\ turn'[t].pc \in {"running", "answered", "counted"} =>
                 /\ turn[t].pc \in {"running", "answered", "counted"}
                 /\ turn'[t].context = turn[t].context
           /\ \A s \in Sessions :
                 /\ Settled(s) \subseteq Settled(s)'
                 /\ Settled(s)' \subseteq Settled(s) \cup {t}
                 /\ turn[t].session # s => Settled(s)' = Settled(s)
                 /\ t \in Settled(s)' \ Settled(s) => Saves(t) \/ t \in stopped'
<1>1. /\ turn[t] \in StartedTurn /\ turn'[t] \in StartedTurn
      /\ turn'[t].session = turn[t].session
      /\ \A u \in Turns \ {t} : turn'[u] = turn[u]
      /\ complete' \ {t} = complete \ {t} /\ voided' \ {t} = voided \ {t}
      /\ complete \cup voided \subseteq complete' \cup voided'
  BY TurnMove
<1>2. complete' \subseteq Turns /\ voided' \subseteq Turns BY TurnStepType DEF TypeOK
<1>3. \A stage \in TurnStages \ {"new"} :
        /\ MoveTo(t, stage) \/ Leave(t, stage) => turn'[t].pc = stage
        /\ MoveTo(t, stage) => turn'[t].context = turn[t].context
  <2>1. turn[t].pc # "new" BY <1>1 DEF StartedTurn
  <2> QED BY <2>1, MoveToType DEF TypeOK
<1>4. /\ turn'[t].pc \in {"running", "answered", "counted"} =>
            turn[t].pc \in {"running", "answered", "counted"} /\ turn'[t].context = turn[t].context
      /\ turn[t].pc = "running" => t \notin complete \cup voided
      /\ turn'[t].pc \notin {"answered", "counted"} /\ t \in complete' \cup voided' =>
            \/ turn[t].pc \notin {"answered", "counted"} /\ t \in complete \cup voided
            \/ Saves(t) \/ t \in stopped'
  <2>1. CASE Fail(t) \/ Finish(t)
    BY <1>3, <2>1 DEF Fail, Finish, runFrame, CompleteInv, TurnStages
  <2>2. CASE Respond(t) BY <1>3, <2>2 DEF Respond, CompleteInv, TurnStages
  <2>3. CASE Count(t)
    <3>1. turn'[t].pc = "counted" /\ turn'[t].context = turn[t].context
      BY <1>1, <2>3 DEF Count, TypeOK, StartedTurn
    <3> QED BY <2>3, <3>1 DEF Count
  <2>4. CASE SaveCheckpoint(t)
    BY <1>3, <2>4 DEF SaveCheckpoint, Saves, TurnStages
  <2>5. CASE ReadTotals(t)
    <3>1. turn'[t].pc = "totalled" BY <1>1, <2>5 DEF ReadTotals, MoveTo, TypeOK, StartedTurn
    <3> QED BY <2>5, <3>1 DEF ReadTotals, runFrame
  <2>6. CASE SaveSnapshot(t)
    BY <1>3, <2>6 DEF SaveSnapshot, InsertSnapshot, runFrame, TurnStages
  <2>7. CASE Stop(t)
    <3>1. turn'[t].pc = "done" \/ UNCHANGED turn BY <1>3, <2>7 DEF Stop, TurnStages
    <3>2. turn[t].pc = "running" => t \notin complete \cup voided BY DEF CompleteInv
    <3> QED BY <2>7, <3>1, <3>2 DEF Stop
  <2>8. CASE Late(t)
    <3>1. turn'[t].pc = "done" BY <1>3, <2>8 DEF Late, TurnStages
    <3>2. t \in stopped' BY <2>8 DEF Late, runFrame
    <3>3. turn[t].pc = "running" => t \notin complete \cup voided BY DEF CompleteInv
    <3> QED BY <3>1, <3>2, <3>3
  <2>9. CASE MarkFailed(t)
    BY <2>9 DEF MarkFailed, CompleteInv
  <2> QED BY <2>1, <2>2, <2>3, <2>4, <2>5, <2>6, <2>7, <2>8, <2>9 DEF TurnStep, Advance, CompleteInv
<1>5. ASSUME NEW s \in Sessions
      PROVE  /\ Settled(s) \subseteq Settled(s)'
             /\ Settled(s)' \subseteq Settled(s) \cup {t}
             /\ turn[t].session # s => Settled(s)' = Settled(s)
             /\ t \in Settled(s)' \ Settled(s) => Saves(t) \/ t \in stopped'
  <2>1. \A u : u \in Settled(s) <=> /\ u \in complete \cup voided /\ turn[u].session = s
                                    /\ turn[u].pc \notin {"answered", "counted"}
    BY DEF Settled, Ever
  <2>2. \A u : u \in Settled(s)' <=> /\ u \in complete' \cup voided' /\ turn'[u].session = s
                                     /\ turn'[u].pc \notin {"answered", "counted"}
    BY DEF Settled, Ever
  <2>3. \A u \in Turns \ {t} : u \in Settled(s)' <=> u \in Settled(s)
    BY <1>1, <2>1, <2>2
  <2>4. Settled(s) \subseteq Turns /\ Settled(s)' \subseteq Turns
    BY <1>2, <2>1, <2>2 DEF TypeOK
  <2>5. t \in Settled(s) => t \in Settled(s)' BY <1>1, <1>4, <2>1, <2>2
  <2>6. turn[t].session # s => t \notin Settled(s) /\ t \notin Settled(s)'
    BY <1>1, <2>1, <2>2
  <2>7. t \in Settled(s)' \ Settled(s) => Saves(t) \/ t \in stopped'
    BY <1>1, <1>4, <2>1, <2>2
  <2> QED BY <2>3, <2>4, <2>5, <2>6, <2>7
<1> QED BY <1>4, <1>5

\* A step that leaves the rows and compactions of a session alone.
LEMMA HistoryQuiet ==
    ASSUME NEW s, HistoryInv(s), checkpoints'[s] = checkpoints[s],
           \A u \in Of(s)' :
              /\ u \in Of(s) /\ turn[u].pc = "done" => turn'[u].pc = "done"
              /\ turn'[u].pc \in {"running", "answered", "counted"} =>
                    /\ u \in Of(s) /\ turn[u].pc \in {"running", "answered", "counted"}
                    /\ turn'[u].context = turn[u].context,
           Of(s)' = Of(s), Settled(s) \subseteq Settled(s)',
           Compacting(s)' = Compacting(s), \A k \in Compacting(s) : compact'[k] = compact[k]
    PROVE  HistoryInv(s)'
<1>1. Running(s)' \subseteq Running(s) BY DEF Running
<1>2. ASSUME NEW u \in At(s, {"running", "answered", "counted"})'
      PROVE  turn'[u].context \subseteq Settled(s)
  <2>1. u \in At(s, {"running", "answered", "counted"}) /\ turn'[u].context = turn[u].context
    BY DEF At
  <2> QED BY <2>1 DEF HistoryInv
<1>3. Latest(s)' = Latest(s) /\ CheckpointCount(s)' = CheckpointCount(s)
  BY DEF Latest, Last, CheckpointCount
<1>4. \A k \in Compacting(s)' :
        /\ Running(s)' = {} /\ compact'[k].msgs = Latest(s)'
        /\ compact'[k].pc = "counted" => compact'[k].n = CheckpointCount(s)'
  BY <1>1, <1>3 DEF HistoryInv
<1>5. \A r \in checkpoints'[s] : r.by \in r.msgs /\ r.msgs \subseteq Settled(s)'
  BY DEF HistoryInv
<1> QED BY <1>2, <1>4, <1>5 DEF HistoryInv

\* A session that runs a turn compacts nothing.
LEMMA HistoryOwn ==
    ASSUME TypeOK, CompleteInv, CompleteInv', NEW t \in Turns, NEW s \in Sessions,
           s = turn[t].session, TurnStep(t), SessionInv(s), HistoryInv(s),
           disturbed'[s] = disturbed[s]
    PROVE  HistoryInv(s)'
<1>1. /\ turn[t] \in StartedTurn /\ turn'[t] \in StartedTurn /\ turn'[t].session = s
      /\ \A u \in Turns \ {t} : turn'[u] = turn[u]
      /\ turn[t].pc = "done" => turn'[t] = turn[t]
      /\ UNCHANGED compact
  BY TurnMove
<1>2. /\ turn'[t].pc \in {"running", "answered", "counted"} =>
           /\ turn[t].pc \in {"running", "answered", "counted"}
           /\ turn'[t].context = turn[t].context
      /\ Settled(s) \subseteq Settled(s)'
  BY SettlesOnce
<1>3. t \in Of(s) /\ Of(s)' = Of(s) BY <1>1 DEF Of, StartedTurn, TurnStages
<1>4. Compacting(s)' = Compacting(s) BY <1>1 DEF Compacting
<1>5. \A u \in Of(s)' :
        /\ u \in Of(s) /\ turn[u].pc = "done" => turn'[u].pc = "done"
        /\ turn'[u].pc \in {"running", "answered", "counted"} =>
              /\ u \in Of(s) /\ turn[u].pc \in {"running", "answered", "counted"}
              /\ turn'[u].context = turn[u].context
  BY <1>1, <1>2, <1>3 DEF Of
<1>6. CASE ~Saves(t)
  <2>1. checkpoints'[s] = checkpoints[s]
    <3>1. CASE Snaps(t) BY <3>1, RowWrites DEF InsertSnapshot
    <3>2. CASE ~Snaps(t) BY <1>6, <3>2, QuietTurn
    <3> QED BY <3>1, <3>2
  <2> QED BY <1>1, <1>2, <1>3, <1>4, <1>5, <2>1, HistoryQuiet
<1>7. CASE Saves(t)
  <2> DEFINE row == [n |-> turn[t].n, by |-> t, msgs |-> turn[t].context \cup {t}]
  <2>1. turn[t].pc = "counted" /\ InsertCheckpoint(t) /\ turn'[t].pc \in {"saved", "done"}
    BY <1>7, RowWrites
  <2>2. checkpoints'[s] = checkpoints[s] \cup {row}
    <3>1. TypeOK /\ SessionInv(s) /\ disturbed'[s] = disturbed[s] OBVIOUS
    <3>2. t \in Turns /\ s \in Sessions /\ s = turn[t].session OBVIOUS
    <3>3. turn[t].pc = "counted" /\ InsertCheckpoint(t) BY <2>1
    <3> QED BY ONLY <3>1, <3>2, <3>3, AppendedRow
  <2>3. t \in At(s, {"running", "answered", "counted"}) /\ t \in Running(s)
    BY <2>1 DEF At, Of, Running
  <2>4. Compacting(s)' = {} BY <1>4, <2>3 DEF HistoryInv
  <2>5. t \in Settled(s)'
    <3>1. t \in complete \cup voided BY <2>1 DEF CompleteInv
    <3>2. complete \cup voided \subseteq complete' \cup voided' BY TurnMove
    <3> QED BY <1>1, <2>1, <3>1, <3>2 DEF Settled, Ever
  <2>6. turn[t].context \subseteq Settled(s) BY <2>3 DEF HistoryInv
  <2>7. row.by = t /\ row.msgs = turn[t].context \cup {t} OBVIOUS
  <2> HIDE DEF row
  <2>8. ASSUME NEW r \in checkpoints'[s] PROVE r.by \in r.msgs /\ r.msgs \subseteq Settled(s)'
    <3>1. CASE r \in checkpoints[s] BY <1>2, <3>1 DEF HistoryInv
    <3>2. CASE r = row BY <1>2, <2>5, <2>6, <2>7, <3>2
    <3> QED BY <2>2, <3>1, <3>2
  <2>9. ASSUME NEW u \in At(s, {"running", "answered", "counted"})'
        PROVE  turn'[u].context \subseteq Settled(s)'
    <3>1. u \in At(s, {"running", "answered", "counted"}) /\ turn'[u].context = turn[u].context
      BY <1>5 DEF At
    <3> QED BY <1>2, <3>1 DEF HistoryInv
  <2> QED BY <2>4, <2>8, <2>9 DEF HistoryInv
<1> QED BY <1>6, <1>7

LEMMA HistoryBegin ==
    ASSUME TypeOK, CompleteInv, NEW t \in Turns, NEW s \in Sessions, HistoryInv(s),
           disturbed[s] = 0, disturbed'[s] = 0, Begin(t, s)
    PROVE  HistoryInv(s)'
<1>1. /\ ~Busy(s)
      /\ t \notin Of(s) /\ t \notin complete \cup voided
      /\ \A u \in Turns \ {t} : turn'[u] = turn[u]
      /\ turn'[t].pc = "running" /\ turn'[t].session = s
      /\ turn'[t].context = {u \in complete : turn[u].session = s}
      /\ \A u \in Of(s)' : u = t \/ (u \in Of(s) /\ turn[u].pc = "done")
      /\ UNCHANGED <<checkpoints, complete, voided, compact>>
  BY BeginsAlone
<1>2. Running(s) = {} /\ Compacting(s) = {} BY <1>1, RestsAlone
<1>3. turn'[t].context \subseteq Settled(s)
  <2>1. ASSUME NEW u \in complete, turn[u].session = s
        PROVE  turn[u].pc \notin {"answered", "counted"}
    <3>1. u \in Turns /\ turn[u].pc # "new" BY DEF TypeOK, CompleteInv
    <3> QED BY <1>2, <2>1, <3>1 DEF Running, Of
  <2> QED BY <1>1, <2>1 DEF Settled, Ever
<1>4. Settled(s) \subseteq Settled(s)' BY <1>1 DEF Settled, Ever, TypeOK
<1>5. Compacting(s)' = {} BY <1>1, <1>2 DEF Compacting
<1>6. \A u \in At(s, {"running", "answered", "counted"})' : u = t
  BY <1>1 DEF At, Of
<1> QED BY <1>1, <1>3, <1>4, <1>5, <1>6 DEF HistoryInv

LEMMA HistoryRollback ==
    ASSUME TypeOK, NEW s \in Sessions, NEW n \in Counters, HistoryInv(s),
           disturbed[s] = 0, disturbed'[s] = 0, Rollback(s, n)
    PROVE  HistoryInv(s)'
<1>1. ~Busy(s) BY DEF Rollback, Overlap, Trouble, TypeOK
<1>2. Running(s) = {} /\ Compacting(s) = {} BY <1>1, RestsAlone
<1>3. checkpoints'[s] \subseteq checkpoints[s] /\ UNCHANGED <<turn, complete, voided, compact>>
  BY DEF Rollback, TypeOK
<1>4. /\ Settled(s)' = Settled(s) /\ Compacting(s)' = {}
      /\ At(s, {"running", "answered", "counted"})' = {}
  BY <1>2, <1>3 DEF Settled, Ever, Compacting, At, Of, Running
<1> QED BY <1>3, <1>4 DEF HistoryInv

\* A compaction reads a session at rest, and counts what it has read.
LEMMA HistoryCompact ==
    ASSUME TypeOK, NEW s \in Sessions, HistoryInv(s), NEW k \in Compactions,
           disturbed[s] = 0, disturbed'[s] = 0,
           \/ \E z \in Sessions : CompactRead(k, z)
           \/ CompactGiveUp(k) \/ CompactCount(k) \/ CompactSave(k)
    PROVE  HistoryInv(s)'
<1>1. UNCHANGED <<turn, complete, voided, checkpoints>>
  BY DEF CompactRead, CompactGiveUp, CompactCount, CompactSave, compactFrame
<1>2. /\ Settled(s)' = Settled(s) /\ Latest(s)' = Latest(s) /\ Running(s)' = Running(s)
      /\ CheckpointCount(s)' = CheckpointCount(s)
      /\ At(s, {"running", "answered", "counted"})' = At(s, {"running", "answered", "counted"})
  BY <1>1 DEF Settled, Ever, Latest, Last, Running, CheckpointCount, At, Of
<1>3. SUFFICES ASSUME NEW j \in Compacting(s)'
               PROVE  /\ Running(s) = {}
                      /\ compact'[j].msgs = Latest(s)
                      /\ compact'[j].pc = "counted" => compact'[j].n = CheckpointCount(s)
  BY <1>1, <1>2 DEF HistoryInv
<1>4. j \in Compactions /\ compact'[j].pc \in {"summary", "counted"} /\ compact'[j].session = s
  BY DEF Compacting
<1>5. ASSUME j # k \/ compact'[k] = compact[k]
      PROVE  j \in Compacting(s) /\ compact'[j] = compact[j]
  BY <1>4, <1>5 DEF Compacting, CompactRead, CompactGiveUp, CompactCount, CompactSave, CompactLeave, TypeOK
<1>6. CASE j # k \/ compact'[k] = compact[k] BY <1>5, <1>6 DEF HistoryInv
<1>7. CASE j = k /\ \E z \in Sessions : CompactRead(k, z)
  <2>1. PICK z \in Sessions : CompactRead(k, z) BY <1>7
  <2>2. compact'[k] = [pc |-> "summary", session |-> z, n |-> 0,
                       msgs |-> UNION {r.msgs : r \in Last(checkpoints[z])}]
    BY <2>1 DEF CompactRead, TypeOK
  <2>3. z = s BY <1>4, <1>7, <2>2
  <2>4. ~Busy(s) BY <2>1, <2>3 DEF CompactRead, Overlap, Trouble, TypeOK
  <2>5. Running(s) = {} BY <2>4, RestsAlone
  <2> QED BY <1>7, <2>2, <2>3, <2>5 DEF Latest
<1>8. CASE j = k /\ (CompactGiveUp(k) \/ CompactCount(k) \/ CompactSave(k))
  <2>1. compact[k] \in StartedCompact
    BY <1>8 DEF TypeOK, NewCompact, CompactGiveUp, CompactCount, CompactSave
  <2>2. ~CompactGiveUp(k) /\ ~CompactSave(k)
    BY <1>4, <1>8, <2>1 DEF CompactGiveUp, CompactSave, CompactLeave, TypeOK, StartedCompact
  <2>3. CompactCount(k) BY <1>8, <2>2
  <2>4. PICK n \in {CheckpointCount(compact[k].session), 0} :
          /\ compact' = [compact EXCEPT ![k].pc = "counted", ![k].n = n]
          /\ n = CheckpointCount(compact[k].session) \/ Fails(compact[k].session)
    BY <2>3 DEF CompactCount
  <2>5. /\ compact'[k].session = compact[k].session /\ compact'[k].msgs = compact[k].msgs
        /\ compact'[k].n = n
    BY <2>1, <2>4 DEF TypeOK, StartedCompact
  <2>6. k \in Compacting(s) BY <1>4, <1>8, <2>3, <2>5 DEF Compacting, CompactCount
  <2>7. n = CheckpointCount(s) BY <1>4, <1>8, <2>4, <2>5 DEF Fails, Trouble, TypeOK
  <2> QED BY <1>8, <2>5, <2>6, <2>7 DEF HistoryInv
<1> QED BY <1>6, <1>7, <1>8

LEMMA HistoryStep ==
    ASSUME TypeOK, CompleteInv, CompleteInv', [Next]_vars, NEW s \in Roots,
           SessionInv(s), HistoryInv(s), disturbed'[s] = 0
    PROVE  HistoryInv(s)'
<1>1. s \in Sessions /\ s \notin Children BY LedgerAssumption DEF Sessions
<1>2. disturbed[s] = 0 BY StaysOrderly
<1>3. ASSUME UNCHANGED <<turn, complete, voided, compact>>, checkpoints'[s] = checkpoints[s]
      PROVE  HistoryInv(s)'
  BY <1>3, HistoryQuiet DEF Of, Settled, Ever, Compacting
<1>4. ASSUME NEW t \in Turns, NEW z \in Sessions, Begin(t, z) PROVE HistoryInv(s)'
  <2>1. CASE z = s BY <1>1, <1>2, <1>4, <2>1, HistoryBegin
  <2>2. CASE z # s
    <3>1. /\ turn[t].pc = "new" /\ turn'[t].session = z
          /\ \A u \in Turns \ {t} : turn'[u] = turn[u]
          /\ UNCHANGED <<complete, voided, checkpoints, compact>>
      BY <1>4 DEF Begin, turnFrame, runFrame, TypeOK
    <3>2. t \notin Of(s) /\ Of(s)' = Of(s) BY <2>2, <3>1 DEF Of
    <3>3. \A u \in Of(s) : turn'[u] = turn[u] BY <3>1, <3>2 DEF Of
    <3>4. Settled(s) \subseteq Settled(s)'
      <4>1. t \notin complete \cup voided BY <3>1 DEF CompleteInv
      <4> QED BY <3>1, <4>1 DEF Settled, Ever, TypeOK
    <3>5. Compacting(s)' = Compacting(s) BY <3>1 DEF Compacting
    <3> QED BY <3>1, <3>2, <3>3, <3>4, <3>5, HistoryQuiet
  <2> QED BY <2>1, <2>2
<1>5. ASSUME NEW t \in Turns, TurnStep(t) PROVE HistoryInv(s)'
  <2>1. CASE turn[t].session = s BY <1>1, <1>2, <1>5, <2>1, HistoryOwn
  <2>2. CASE turn[t].session # s
    <3>1. /\ turn'[t].session = turn[t].session /\ \A u \in Turns \ {t} : turn'[u] = turn[u]
          /\ UNCHANGED compact /\ checkpoints'[s] = checkpoints[s]
      BY <1>1, <1>5, <2>2, TurnMove
    <3>2. t \notin Of(s) /\ Of(s)' = Of(s) BY <2>2, <3>1 DEF Of
    <3>3. \A u \in Of(s) : turn'[u] = turn[u] BY <3>1, <3>2 DEF Of
    <3>4. Settled(s) \subseteq Settled(s)' BY <1>1, <1>5, SettlesOnce
    <3>5. Compacting(s)' = Compacting(s) BY <3>1 DEF Compacting
    <3> QED BY <3>1, <3>2, <3>3, <3>4, <3>5, HistoryQuiet
  <2> QED BY <2>1, <2>2
<1>6. ASSUME NEW z \in Sessions, NEW n \in Counters, Rollback(z, n) PROVE HistoryInv(s)'
  <2>1. CASE z = s BY <1>1, <1>2, <1>6, <2>1, HistoryRollback
  <2>2. CASE z # s
    <3>1. UNCHANGED <<turn, complete, voided, compact>> /\ checkpoints'[s] = checkpoints[s]
      BY <1>1, <1>6, <2>2 DEF Rollback, TypeOK
    <3> QED BY <1>3, <3>1
  <2> QED BY <2>1, <2>2
<1>7. ASSUME NEW k \in Compactions,
             \/ \E z \in Sessions : CompactRead(k, z)
             \/ CompactGiveUp(k) \/ CompactCount(k) \/ CompactSave(k)
      PROVE  HistoryInv(s)'
  BY <1>1, <1>2, <1>7, HistoryCompact
<1>8. ASSUME NEW c \in Children,
             \/ \E z \in Sessions, n \in Counters : ForkRead(c, z, n)
             \/ ForkCreate(c) \/ ForkSave(c)
      PROVE  HistoryInv(s)'
  <2>1. UNCHANGED <<turn, complete, voided, compact>>
    BY <1>8 DEF ForkRead, ForkCreate, ForkSave, forkFrame
  <2>2. checkpoints'[s] = checkpoints[s]
    BY <1>1, <1>8 DEF ForkRead, ForkCreate, ForkSave, TypeOK
  <2> QED BY <1>3, <2>1, <2>2
<1>9. CASE UNCHANGED vars BY <1>3, <1>9 DEF vars
<1> QED BY <1>4, <1>5, <1>6, <1>7, <1>8, <1>9 DEF Next, TurnStep

LEMMA InitLedger == Init => LedgerInv
<1> SUFFICES ASSUME Init PROVE LedgerInv OBVIOUS
<1>1. TypeOK BY LedgerAssumption, FS_EmptySet DEF Init, TypeOK, NewTurn, NewFork, NewCompact
<1>2. CompleteInv BY DEF Init, CompleteInv, NewTurn
<1>3. ASSUME NEW s \in Orderly PROVE SessionInv(s)
  <2>1. s \in Sessions BY DEF Orderly, Sessions
  <2>2. checkpoints[s] = {} /\ snapshots[s] = {} /\ newest[s] = {} BY <2>1 DEF Init
  <2>3. Of(s) = {} BY DEF Of, Init, NewTurn
  <2>4. Running(s) = {} /\ \A stages : At(s, stages) = {} BY <2>3 DEF Running, At
  <2>5. CheckpointCount(s) = 0 BY <2>2, FS_EmptySet DEF CheckpointCount
  <2>6. Numbered(s) BY <2>2, <2>4, <2>5 DEF Numbered
  <2>7. Extending(s) BY <2>2, <2>4 DEF Extending
  <2>8. Totalled(s) BY <2>2, <2>4 DEF Totalled, Last
  <2> QED BY <2>2, <2>4, <2>6, <2>7, <2>8 DEF SessionInv, Last
<1>4. ASSUME NEW s \in Orderly PROVE HistoryInv(s)
  <2>1. s \in Sessions BY DEF Orderly, Sessions
  <2>2. checkpoints[s] = {} BY <2>1 DEF Init
  <2>3. \A stages : At(s, stages) = {} BY DEF At, Of, Init, NewTurn
  <2>4. Compacting(s) = {} BY DEF Compacting, Init, NewCompact
  <2> QED BY <2>2, <2>3, <2>4 DEF HistoryInv
<1> QED BY <1>1, <1>2, <1>3, <1>4 DEF LedgerInv

LEMMA NextLedger ==
    ASSUME LedgerInv, [Next]_vars
    PROVE  LedgerInv'
<1>1. TypeOK /\ CompleteInv BY DEF LedgerInv
<1>2. TypeOK' BY <1>1, NextType
<1>3. CompleteInv' BY <1>1, CompleteStep
<1>4. ASSUME NEW s \in Orderly' PROVE SessionInv(s)' /\ HistoryInv(s)'
  <2>1. s \in Roots /\ disturbed'[s] = 0 BY DEF Orderly
  <2>2. s \in Orderly BY <1>1, <2>1, StaysOrderly DEF Orderly
  <2>3. SessionInv(s) /\ HistoryInv(s) BY <2>2 DEF LedgerInv
  <2> QED BY <1>1, <1>2, <1>3, <2>1, <2>3, SessionStep, HistoryStep
<1> QED BY <1>2, <1>3, <1>4 DEF LedgerInv

-----------------------------------------------------------------------------
(* The theorems *)

\* The record of an orderly session is numbered without gaps and only grows,
\* from turn to turn and from rollback to rollback.
THEOREM LedgerInvariant == Spec => []LedgerInv
BY InitLedger, NextLedger, PTL DEF Spec

\* The latest checkpoint by number is the newest.
THEOREM LatestNewest == Spec => []LatestIsNewest
<1>1. LedgerInv => LatestIsNewest BY DEF LedgerInv, SessionInv, LatestIsNewest
<1> QED BY <1>1, LedgerInvariant, PTL

\* Each checkpoint extends the ones before it.
THEOREM CheckpointsGrow == Spec => []CheckpointsExtend
<1>1. LedgerInv => CheckpointsExtend BY DEF LedgerInv, SessionInv, Extending, CheckpointsExtend
<1> QED BY <1>1, LedgerInvariant, PTL

\* The running total of the last snapshot counts every turn that has one, and
\* every completed turn has one unless it was stopped on its way.
THEOREM TotalsCount == Spec => []TotalsAddUp
<1>1. ASSUME LedgerInv PROVE TotalsAddUp
  <2> SUFFICES ASSUME NEW s \in Orderly, rewinds = 0, ~Busy(s)
               PROVE  /\ \A r \in Last(snapshots[s]) : r.total = Cardinality(snapshots[s])
                      /\ \A t \in complete \ stopped :
                            turn[t].session = s => \E r \in snapshots[s] : r.by = t
    BY DEF TotalsAddUp
  <2>1. TypeOK /\ CompleteInv /\ Totalled(s) BY <1>1 DEF LedgerInv, SessionInv
  <2>2. ASSUME NEW t \in complete \ stopped, turn[t].session = s
        PROVE  t \in At(s, {"recorded", "done"}) \cap (complete \ stopped)
    <3>1. t \in Turns /\ turn[t].pc # "new" BY <2>1 DEF TypeOK, CompleteInv
    <3>2. turn[t].pc = "done" BY <2>2, <3>1 DEF Busy
    <3> QED BY <2>2, <3>1, <3>2 DEF At, Of
  <2> QED BY <2>1, <2>2 DEF Totalled
<1> QED BY <1>1, LedgerInvariant, PTL

\* No step removes a compaction.
LEMMA CompactionsGrow ==
    ASSUME TypeOK, [Next]_vars
    PROVE  \A s \in Sessions : compactions[s] \subseteq compactions'[s]
<1>1. CASE UNCHANGED compactions BY <1>1
<1>2. ASSUME NEW k \in Compactions, CompactSave(k)
      PROVE  \A s \in Sessions : compactions[s] \subseteq compactions'[s]
  BY <1>2 DEF CompactSave, TypeOK
<1>3. UNCHANGED compactions \/ \E k \in Compactions : CompactSave(k)
  BY DEF Next, vars, Begin, Advance, Fail, Respond, Count, SaveCheckpoint, ReadTotals,
     SaveSnapshot, Finish, Stop, Late, MarkFailed, turnFrame, runFrame, Rollback, CompactRead, CompactGiveUp, CompactCount, ForkRead,
     ForkCreate, ForkSave, forkFrame
<1> QED BY <1>1, <1>2, <1>3

\* A session keeps every compaction it ever saved.
THEOREM CompactionsStay == Spec => CompactionsKept
<1>1. ASSUME TypeOK, [Next]_vars
      PROVE  [\A s \in Sessions : compactions[s] \subseteq compactions'[s]]_vars
  BY <1>1, CompactionsGrow
<1>2. LedgerInv => TypeOK BY DEF LedgerInv
<1> QED BY <1>1, <1>2, LedgerInvariant, PTL DEF Spec, CompactionsKept

-----------------------------------------------------------------------------
(* The ledger implements SessionHistory *)

InOrder(rows, m) == [i \in 1 .. m |-> RowAt(rows, i - 1)]

\* Rows numbered 0..m-1, in the order of their numbers.
LEMMA RowsInOrder ==
    ASSUME NEW rows, NEW m \in Nat,
           \A q, r \in rows : q.n = r.n => q = r,
           {r.n : r \in rows} = 0 .. m - 1
    PROVE  /\ InOrder(rows, m) \in Seq(rows)
           /\ Len(InOrder(rows, m)) = m
           /\ \A i \in 1 .. m : InOrder(rows, m)[i] \in rows /\ InOrder(rows, m)[i].n = i - 1
           /\ \A r \in rows : r.n + 1 \in 1 .. m /\ InOrder(rows, m)[r.n + 1] = r
<1>1. ASSUME NEW i \in 1 .. m PROVE RowAt(rows, i - 1) \in rows /\ RowAt(rows, i - 1).n = i - 1
  <2>1. i - 1 \in 0 .. m - 1 OBVIOUS
  <2>2. \E r \in rows : r.n = i - 1 BY <2>1
  <2> QED BY <2>2 DEF RowAt
<1>2. \A i \in 1 .. m : InOrder(rows, m)[i] = RowAt(rows, i - 1) BY DEF InOrder
<1>3. InOrder(rows, m) \in Seq(rows) /\ Len(InOrder(rows, m)) = m BY <1>1 DEF InOrder
<1>4. ASSUME NEW r \in rows PROVE r.n + 1 \in 1 .. m /\ InOrder(rows, m)[r.n + 1] = r
  <2>1. r.n \in 0 .. m - 1 OBVIOUS
  <2>2. r.n + 1 \in 1 .. m /\ (r.n + 1) - 1 = r.n BY <2>1
  <2> QED BY <1>1, <1>2, <2>2
<1> QED BY <1>1, <1>2, <1>3, <1>4

\* Sequences are equal that agree at every index.
LEMMA SameSeq ==
    ASSUME NEW S, NEW p \in Seq(S), NEW q \in Seq(S), Len(p) = Len(q),
           \A i \in 1 .. Len(p) : p[i] = q[i]
    PROVE  p = q
OBVIOUS

\* One more row, with the next number, is appended.
LEMMA AppendRow ==
    ASSUME NEW S, NEW rows \in SUBSET S, NEW row \in S, NEW m \in Nat, row.n = m,
           \A q, r \in rows : q.n = r.n => q = r,
           {r.n : r \in rows} = 0 .. m - 1
    PROVE  InOrder(rows \cup {row}, m + 1) = Append(InOrder(rows, m), row)
<1> DEFINE more == rows \cup {row}
<1>1. \A r \in rows : r.n \in 0 .. m - 1 OBVIOUS
<1>2. \A q, r \in more : q.n = r.n => q = r BY <1>1
<1>3. {r.n : r \in more} = 0 .. (m + 1) - 1
  <2>1. {r.n : r \in more} = {r.n : r \in rows} \cup {m} OBVIOUS
  <2> QED BY <2>1
<1> DEFINE p == InOrder(more, m + 1)
           q == InOrder(rows, m)
<1> HIDE DEF more
<1>4. /\ p \in Seq(more) /\ Len(p) = m + 1
      /\ \A r \in more : p[r.n + 1] = r
  BY <1>2, <1>3, RowsInOrder
<1>5. /\ q \in Seq(rows) /\ Len(q) = m
      /\ \A i \in 1 .. m : q[i] \in rows /\ q[i].n = i - 1
  BY RowsInOrder
<1> HIDE DEF p, q
<1>6. rows \subseteq more /\ row \in more BY DEF more
<1>7. q \in Seq(more) BY <1>5, <1>6
<1>8. Append(q, row) \in Seq(more) /\ Len(Append(q, row)) = m + 1 BY <1>5, <1>6, <1>7
<1>9. ASSUME NEW i \in 1 .. m + 1 PROVE p[i] = Append(q, row)[i]
  <2>1. CASE i = m + 1
    <3>1. Append(q, row)[i] = row BY <1>5, <1>7, <1>6, <2>1
    <3>2. p[row.n + 1] = row BY <1>4, <1>6
    <3> QED BY <2>1, <3>1, <3>2
  <2>2. CASE i # m + 1
    <3>1. i \in 1 .. m BY <2>2
    <3>2. Append(q, row)[i] = q[i] BY <1>5, <1>6, <1>7, <3>1
    <3>3. q[i] \in more /\ q[i].n + 1 = i BY <1>5, <1>6, <3>1
    <3> QED BY <1>4, <3>2, <3>3
  <2> QED BY <2>1, <2>2
<1>10. p = Append(q, row) BY <1>4, <1>8, <1>9, SameSeq
<1> QED BY <1>10 DEF p, q, more

\* Rows up to a number are a prefix.
LEMMA PrefixRows ==
    ASSUME NEW rows, NEW m \in Nat, NEW n \in 0 .. m - 1,
           \A q, r \in rows : q.n = r.n => q = r,
           {r.n : r \in rows} = 0 .. m - 1
    PROVE  InOrder({r \in rows : r.n <= n}, n + 1) = SubSeq(InOrder(rows, m), 1, n + 1)
<1> DEFINE less == {r \in rows : r.n <= n}
<1>1. \A q, r \in less : q.n = r.n => q = r OBVIOUS
<1>2. {r.n : r \in less} = 0 .. (n + 1) - 1
  <2>1. ASSUME NEW i \in 0 .. n PROVE \E r \in less : r.n = i
    <3>1. i \in 0 .. m - 1 /\ i <= n OBVIOUS
    <3>2. PICK r \in rows : r.n = i BY <3>1
    <3> QED BY <3>1, <3>2
  <2>2. ASSUME NEW r \in less PROVE r.n \in 0 .. n
    <3>1. r.n \in 0 .. m - 1 /\ r.n <= n OBVIOUS
    <3> QED BY <3>1
  <2> QED BY <2>1, <2>2
<1> DEFINE p == InOrder(less, n + 1)
           q == InOrder(rows, m)
<1>3. less \subseteq rows OBVIOUS
<1> HIDE DEF less
<1>4. /\ p \in Seq(less) /\ Len(p) = n + 1
      /\ \A i \in 1 .. n + 1 : p[i] \in less /\ p[i].n = i - 1
  <2>1. n + 1 \in Nat OBVIOUS
  <2> QED BY <1>1, <1>2, <2>1, RowsInOrder
<1>5. /\ q \in Seq(rows) /\ Len(q) = m
      /\ \A r \in rows : q[r.n + 1] = r
  BY RowsInOrder
<1> HIDE DEF p, q
<1>6. p \in Seq(rows) BY <1>3, <1>4
<1>7. /\ SubSeq(q, 1, n + 1) \in Seq(rows) /\ Len(SubSeq(q, 1, n + 1)) = n + 1
      /\ \A i \in 1 .. n + 1 : SubSeq(q, 1, n + 1)[i] = q[i]
  BY <1>5
<1>8. ASSUME NEW i \in 1 .. n + 1 PROVE p[i] = SubSeq(q, 1, n + 1)[i]
  <2>1. p[i] \in rows /\ p[i].n + 1 = i BY <1>3, <1>4
  <2>2. q[i] = p[i] BY <1>5, <2>1
  <2> QED BY <1>7, <2>2
<1>9. p = SubSeq(q, 1, n + 1) BY <1>4, <1>6, <1>7, <1>8, SameSeq
<1> QED BY <1>9 DEF p, q, less

\* The history of an orderly session ends in its latest conversation.
LEMMA LogFacts ==
    ASSUME LedgerInv, NEW s \in Orderly
    PROVE  /\ s \in Sessions /\ CheckpointCount(s) \in Nat
           /\ Log(s) = InOrder(checkpoints[s], CheckpointCount(s))
           /\ Len(Log(s)) = CheckpointCount(s)
           /\ \A q, r \in checkpoints[s] : q.n = r.n => q = r
           /\ {r.n : r \in checkpoints[s]} = 0 .. CheckpointCount(s) - 1
           /\ Promise!Conversation(Log(s)) = Latest(s)
<1> DEFINE m == CheckpointCount(s)
           rows == checkpoints[s]
<1>1. s \in Sessions BY DEF Orderly, Sessions
<1>2. m \in Nat BY <1>1, CountType DEF LedgerInv
<1>3. Log(s) = InOrder(rows, m) BY DEF Log, InOrder
<1>4. /\ \A q, r \in rows : q.n = r.n => q = r
      /\ {r.n : r \in rows} = 0 .. m - 1
  BY DEF LedgerInv, SessionInv, Numbered
<1> HIDE DEF m, rows
<1>5. /\ Log(s) \in Seq(rows) /\ Len(Log(s)) = m
      /\ \A i \in 1 .. m : Log(s)[i] \in rows /\ Log(s)[i].n = i - 1
  BY ONLY <1>2, <1>3, <1>4, RowsInOrder
<1>6. \A r \in rows : r.n \in 0 .. m - 1 BY <1>4
<1>7. Promise!Conversation(Log(s)) = UNION {r.msgs : r \in Last(rows)}
  <2>1. CASE m = 0
    <3>1. rows = {} BY <1>6, <2>1
    <3>2. Last(rows) = {} BY <3>1 DEF Last
    <3>3. Log(s) = <<>> BY <1>5, <2>1
    <3> QED BY <3>2, <3>3 DEF Promise!Conversation
  <2>2. CASE m # 0
    <3>1. m \in 1 .. m BY <1>2, <2>2
    <3>2. Log(s)[m] \in rows /\ Log(s)[m].n = m - 1 BY <1>5, <3>1
    <3>3. Last(rows) = {Log(s)[m]} BY <1>2, <1>4, <1>6, <3>2 DEF Last
    <3>4. Log(s) # <<>> BY <1>5, <2>2
    <3> QED BY <1>5, <3>3, <3>4 DEF Promise!Conversation
  <2> QED BY <2>1, <2>2
<1> QED BY <1>1, <1>2, <1>3, <1>4, <1>5, <1>7 DEF m, rows, Latest

LEMMA LogFactsNext ==
    ASSUME LedgerInv', NEW s \in Orderly'
    PROVE  Log(s)' = InOrder(checkpoints'[s], CheckpointCount(s)')
BY DEF Log, InOrder

\* Saving a checkpoint records the turn.
LEMMA RecordPromise ==
    ASSUME LedgerInv, LedgerInv', NEW s \in Orderly, s \in Orderly',
           NEW t \in Turns, turn[t].session = s, TurnStep(t), Saves(t)
    PROVE  Promise!Record(s)
<1> DEFINE row == [n |-> turn[t].n, by |-> t, msgs |-> turn[t].context \cup {t}]
           m == CheckpointCount(s)
<1>0. TypeOK /\ TypeOK' /\ CompleteInv /\ SessionInv(s) /\ HistoryInv(s) BY DEF LedgerInv
<1>1. /\ s \in Sessions /\ m \in Nat
      /\ Log(s) = InOrder(checkpoints[s], m) /\ Len(Log(s)) = m
      /\ \A q, r \in checkpoints[s] : q.n = r.n => q = r
      /\ {r.n : r \in checkpoints[s]} = 0 .. m - 1
      /\ Promise!Conversation(Log(s)) = Latest(s)
  BY LogFacts
<1>2. turn[t].pc = "counted" /\ InsertCheckpoint(t) /\ turn'[t].pc \in {"saved", "done"}
      /\ UNCHANGED voided
  BY <1>0, RowWrites
<1>3. turn[t] \in StartedTurn /\ turn'[t].session = s /\ UNCHANGED compactions
  BY <1>0, TurnMove
<1>4. disturbed[s] = 0 /\ disturbed'[s] = 0 BY DEF Orderly
<1>5. row = [n |-> turn[t].n, by |-> t, msgs |-> turn[t].context \cup {t}] OBVIOUS
<1>6. m = CheckpointCount(s) OBVIOUS
<1> HIDE DEF row, m
<1>7. /\ turn[t].n = m
      /\ checkpoints'[s] = checkpoints[s] \cup {row}
      /\ CheckpointCount(s)' = m + 1
      /\ UNCHANGED complete
  <2>1. t \in Turns /\ s = turn[t].session /\ disturbed'[s] = disturbed[s] BY <1>4
  <2>2. TypeOK /\ SessionInv(s) /\ s \in Sessions BY <1>0, <1>1
  <2>3. turn[t].pc = "counted" /\ InsertCheckpoint(t) BY <1>2
  <2>4. /\ turn[t].n = CheckpointCount(s)
        /\ checkpoints'[s] = checkpoints[s] \cup {row}
        /\ CheckpointCount(s)' = CheckpointCount(s) + 1
    BY ONLY <1>5, <2>1, <2>2, <2>3, Appended
  <2> QED BY <1>6, <2>3, <2>4 DEF InsertCheckpoint
<1>8. row = [n |-> m, by |-> t, msgs |-> turn[t].context \cup {t}] /\ row.n = m BY <1>5, <1>7
<1>9. row \in checkpoints'[s] BY <1>7
<1>10. Log(s)' = Append(Log(s), row)
  <2>1. Log(s)' = InOrder(checkpoints[s] \cup {row}, m + 1) BY <1>7, LogFactsNext
  <2>2. InOrder(checkpoints[s] \cup {row}, m + 1) = Append(InOrder(checkpoints[s], m), row)
    <3>1. m \in Nat /\ row.n = m BY <1>1, <1>8
    <3>2. \A q, r \in checkpoints[s] : q.n = r.n => q = r BY <1>1
    <3>3. {r.n : r \in checkpoints[s]} = 0 .. m - 1 BY <1>1
    <3>4. checkpoints[s] \in SUBSET checkpoints'[s] BY <1>7
    <3> QED BY ONLY <1>9, <3>1, <3>2, <3>3, <3>4, AppendRow
  <2> QED BY <1>1, <2>1, <2>2
<1>11. t \in At(s, {"running", "answered", "counted"}) BY <1>2 DEF At, Of
<1>12. turn[t].context \subseteq Settled(s) BY <1>0, <1>11 DEF HistoryInv
<1>13. t \notin Settled(s) BY <1>2 DEF Settled
<1>14. Settled(s)' = Settled(s) \cup {t}
  <2>1. Settled(s) \subseteq Settled(s)' /\ Settled(s)' \subseteq Settled(s) \cup {t}
    BY <1>0, <1>1, SettlesOnce
  <2>2. t \in complete' \cup voided' BY <1>0, <1>2, <1>7 DEF CompleteInv
  <2>3. t \in Settled(s)' BY <1>2, <1>3, <2>2 DEF Settled, Ever
  <2> QED BY <2>1, <2>3
<1>15. Latest(s) \ voided \subseteq turn[t].context
  BY <1>0, <1>11 DEF Latest, Last, SessionInv, Extending
<1> DEFINE msgs == turn[t].context \cup {t}
<1>16. msgs \in SUBSET Turns BY <1>3 DEF StartedTurn
<1>17. /\ t \in Turns \ Settled(s)
       /\ (Latest(s) \ voided) \cup {t} \subseteq msgs
       /\ msgs \subseteq Settled(s) \cup {t}
  BY <1>12, <1>13, <1>15
<1>18. Log(s)' = Append(Log(s), [n |-> Len(Log(s)), by |-> t, msgs |-> msgs])
  BY <1>1, <1>8, <1>10
<1> HIDE DEF msgs
<1> QED BY <1>1, <1>3, <1>14, <1>16, <1>17, <1>18 DEF Promise!Record

\* A step that leaves the rows of a session and what it settled.
LEMMA RestPromise ==
    ASSUME NEW s \in Orderly, s \in Orderly', s \in Sessions, checkpoints'[s] = checkpoints[s],
           Settled(s)' = Settled(s), compactions'[s] = compactions[s]
    PROVE  Promise!Rest(s)
<1>1. Log(s)' = Log(s) BY DEF Log, CheckpointCount
<1> QED BY <1>1 DEF Promise!Rest

LEMMA RewindPromise ==
    ASSUME LedgerInv, LedgerInv', NEW s \in Orderly, s \in Orderly', NEW n \in Counters, Rollback(s, n)
    PROVE  Promise!Rewind(s)
<1> DEFINE m == CheckpointCount(s)
<1>0. TypeOK BY DEF LedgerInv
<1>1. /\ s \in Sessions /\ m \in Nat
      /\ Log(s) = InOrder(checkpoints[s], m) /\ Len(Log(s)) = m
      /\ \A q, r \in checkpoints[s] : q.n = r.n => q = r
      /\ {r.n : r \in checkpoints[s]} = 0 .. m - 1
  BY LogFacts
<1>2. PICK target \in checkpoints[s] : target.n = n BY DEF Rollback
<1>3. n \in 0 .. m - 1 BY <1>1, <1>2
<1>4. checkpoints'[s] = {r \in checkpoints[s] : r.n <= n} BY <1>0, <1>1 DEF Rollback, TypeOK
<1>5. CheckpointCount(s)' = n + 1
  <2>1. \A q, r \in checkpoints'[s] : q.n = r.n => q = r BY <1>1, <1>4
  <2>2. {r.n : r \in checkpoints'[s]} = 0 .. (n + 1) - 1
    <3>1. ASSUME NEW i \in 0 .. n PROVE \E r \in checkpoints'[s] : r.n = i
      <4>1. i \in 0 .. m - 1 /\ i <= n BY <1>1, <1>3
      <4>2. PICK r \in checkpoints[s] : r.n = i BY <1>1, <4>1
      <4> QED BY <1>4, <4>1, <4>2
    <3>2. ASSUME NEW r \in checkpoints'[s] PROVE r.n \in 0 .. n
      <4>1. r.n \in 0 .. m - 1 /\ r.n <= n BY <1>1, <1>4
      <4> QED BY <1>3, <4>1
    <3> QED BY <1>3, <3>1, <3>2
  <2>3. n + 1 \in Nat BY <1>3
  <2>4. Cardinality(checkpoints'[s]) = n + 1 BY ONLY <2>1, <2>2, <2>3, Ranked
  <2> QED BY <2>4 DEF CheckpointCount
<1>6. Log(s)' = SubSeq(Log(s), 1, n + 1)
  <2>1. Log(s)' = InOrder({r \in checkpoints[s] : r.n <= n}, n + 1) BY <1>4, <1>5, LogFactsNext
  <2> HIDE DEF m
  <2>2. InOrder({r \in checkpoints[s] : r.n <= n}, n + 1) = SubSeq(InOrder(checkpoints[s], m), 1, n + 1)
    BY ONLY <1>1, <1>3, PrefixRows
  <2> QED BY <1>1, <2>1, <2>2
<1>7. n + 1 \in 1 .. Len(Log(s)) BY <1>1, <1>3
<1>8. Settled(s)' = Settled(s) /\ UNCHANGED compactions BY DEF Rollback, Settled, Ever
<1> QED BY <1>1, <1>6, <1>7, <1>8 DEF Promise!Rewind

\* A compaction is saved over the conversation it was made of.
LEMMA CompactPromise ==
    ASSUME LedgerInv, NEW s \in Orderly, s \in Orderly', NEW k \in Compactions,
           compact[k].session = s, CompactSave(k)
    PROVE  Promise!Compact(s)
<1>0. TypeOK /\ HistoryInv(s) BY DEF LedgerInv
<1>1. /\ s \in Sessions
      /\ Len(Log(s)) = CheckpointCount(s) /\ Promise!Conversation(Log(s)) = Latest(s)
  BY LogFacts
<1>2. disturbed[s] = 0 /\ disturbed'[s] = 0 BY DEF Orderly
<1>3. compactions'[s] = compactions[s] \cup {[id |-> k, n |-> compact[k].n, msgs |-> compact[k].msgs]}
  BY <1>0, <1>1, <1>2 DEF CompactSave, Fails, Trouble, TypeOK
<1>4. k \in Compacting(s) BY DEF Compacting, CompactSave
<1>5. compact[k].n = CheckpointCount(s) /\ compact[k].msgs = Latest(s)
  BY <1>0, <1>4 DEF HistoryInv, CompactSave
<1>6. Log(s)' = Log(s) /\ Settled(s)' = Settled(s)
  BY DEF CompactSave, compactFrame, Log, CheckpointCount, Settled, Ever
<1> QED BY <1>1, <1>3, <1>5, <1>6 DEF Promise!Compact

\* The other steps of a turn save no checkpoint, and settle nothing but what was
\* stopped.
LEMMA TurnPromise ==
    ASSUME LedgerInv, LedgerInv', NEW s \in Orderly, s \in Orderly', NEW t \in Turns, TurnStep(t)
    PROVE  Promise!Record(s) \/ Promise!Lose(s) \/ Promise!Rest(s)
<1>0. TypeOK /\ CompleteInv /\ s \in Sessions /\ SessionInv(s)
  BY DEF LedgerInv, Orderly, Sessions
<1>1. /\ compactions'[s] = compactions[s]
      /\ turn[t].session # s => checkpoints'[s] = checkpoints[s]
  BY <1>0, TurnMove
<1>2. /\ Settled(s) \subseteq Settled(s)' /\ Settled(s)' \subseteq Settled(s) \cup {t}
      /\ turn[t].session # s => Settled(s)' = Settled(s)
      /\ t \in Settled(s)' \ Settled(s) => Saves(t) \/ t \in stopped'
  BY <1>0, SettlesOnce
<1>3. CASE turn[t].session = s /\ Saves(t) BY <1>3, RecordPromise
<1>4. CASE turn[t].session # s
  <2>1. Promise!Rest(s)
    <3>1. checkpoints'[s] = checkpoints[s] /\ Settled(s)' = Settled(s) BY <1>1, <1>2, <1>4
    <3>2. s \in Sessions BY <1>0
    <3> QED BY <1>1, <3>1, <3>2, RestPromise
  <2> QED BY <2>1
<1>5. CASE turn[t].session = s /\ ~Saves(t)
  <2>1. checkpoints'[s] = checkpoints[s]
    <3>1. CASE Snaps(t) BY <1>0, <3>1, RowWrites DEF InsertSnapshot
    <3>2. CASE ~Snaps(t)
      <4>1. disturbed'[s] = disturbed[s] BY DEF Orderly
      <4> QED BY <1>0, <1>5, <3>2, <4>1, QuietTurn
    <3> QED BY <3>1, <3>2
  <2>2. CASE Settled(s)' = Settled(s)
    <3>1. s \in Sessions BY <1>0
    <3>2. Promise!Rest(s) BY <1>1, <2>1, <2>2, <3>1, RestPromise
    <3> QED BY <3>2
  <2>3. CASE Settled(s)' # Settled(s)
    <3>1. t \notin Settled(s) /\ Settled(s)' = Settled(s) \cup {t} /\ t \in stopped'
      BY <1>2, <1>5, <2>3
    <3>2. Log(s)' = Log(s) BY <2>1 DEF Log, CheckpointCount
    <3>3. s \in Sessions BY <1>0
    <3>4. Promise!Lose(s) BY <1>1, <3>1, <3>2, <3>3 DEF Promise!Lose
    <3> QED BY <3>4
  <2> QED BY <2>2, <2>3
<1> QED BY <1>3, <1>4, <1>5

LEMMA SessionPromise ==
    ASSUME LedgerInv, LedgerInv', [Next]_vars, NEW s \in Orderly, s \in Orderly'
    PROVE  \/ Promise!Rest(s) \/ Promise!Record(s) \/ Promise!Lose(s)
           \/ Promise!Rewind(s) \/ Promise!Compact(s)
<1>0. TypeOK /\ CompleteInv /\ s \in Sessions /\ s \notin Children
  BY LedgerAssumption DEF LedgerInv, Orderly, Sessions
<1>1. CASE UNCHANGED vars BY <1>0, <1>1, RestPromise DEF vars, Settled, Ever
<1>2. ASSUME NEW t \in Turns, NEW z \in Sessions, Begin(t, z) PROVE Promise!Rest(s)
  <2>1. UNCHANGED <<checkpoints, compactions, complete, voided>> /\ t \notin complete \cup voided
        /\ \A u \in Turns \ {t} : turn'[u] = turn[u]
    BY <1>0, <1>2 DEF Begin, turnFrame, runFrame, CompleteInv, TypeOK
  <2>2. Settled(s)' = Settled(s) BY <1>0, <2>1 DEF Settled, Ever, TypeOK
  <2> QED BY <1>0, <2>1, <2>2, RestPromise
<1>3. ASSUME NEW z \in Sessions, NEW n \in Counters, Rollback(z, n)
      PROVE  Promise!Rewind(s) \/ Promise!Rest(s)
  <2>1. CASE z = s BY <1>3, <2>1, RewindPromise
  <2>2. CASE z # s
    <3>1. checkpoints'[s] = checkpoints[s] /\ UNCHANGED <<compactions, turn, complete, voided>>
      BY <1>0, <1>3, <2>2 DEF Rollback, TypeOK
    <3> QED BY <1>0, <3>1, RestPromise DEF Settled, Ever
  <2> QED BY <2>1, <2>2
<1>4. ASSUME NEW k \in Compactions,
             \/ \E z \in Sessions : CompactRead(k, z)
             \/ CompactGiveUp(k) \/ CompactCount(k) \/ CompactSave(k)
      PROVE  Promise!Compact(s) \/ Promise!Rest(s)
  <2>1. UNCHANGED <<turn, complete, voided, checkpoints>>
    BY <1>4 DEF CompactRead, CompactGiveUp, CompactCount, CompactSave, compactFrame
  <2>2. CASE CompactSave(k) /\ compact[k].session = s BY <2>2, CompactPromise
  <2>3. CASE ~(CompactSave(k) /\ compact[k].session = s)
    <3>1. compactions'[s] = compactions[s]
      BY <1>0, <1>4, <2>3 DEF CompactRead, CompactGiveUp, CompactCount, CompactSave, TypeOK
    <3> QED BY <1>0, <2>1, <3>1, RestPromise DEF Settled, Ever
  <2> QED BY <2>2, <2>3
<1>5. ASSUME NEW c \in Children,
             \/ \E z \in Sessions, n \in Counters : ForkRead(c, z, n)
             \/ ForkCreate(c) \/ ForkSave(c)
      PROVE  Promise!Rest(s)
  <2>1. UNCHANGED <<turn, complete, voided, compactions>>
    BY <1>5 DEF ForkRead, ForkCreate, ForkSave, forkFrame
  <2>2. checkpoints'[s] = checkpoints[s]
    BY <1>0, <1>5 DEF ForkRead, ForkCreate, ForkSave, TypeOK
  <2> QED BY <1>0, <2>1, <2>2, RestPromise DEF Settled, Ever
<1> QED BY <1>1, <1>2, <1>3, <1>4, <1>5, TurnPromise DEF Next, TurnStep

LEMMA NextHistory == LedgerInv /\ LedgerInv' /\ [Next]_vars => [Promise!Next]_Promise!vars
<1> SUFFICES ASSUME LedgerInv, LedgerInv', [Next]_vars PROVE Promise!Next OBVIOUS
<1>0. TypeOK BY DEF LedgerInv
<1>1. ASSUME NEW s \in Orderly' PROVE s \in Orderly
  BY <1>0, <1>1, StaysOrderly DEF Orderly
<1>2. (Sessions \ Orderly) \subseteq (Sessions \ Orderly)' BY <1>1
<1>3. ASSUME NEW s \in Sessions
      PROVE  /\ compactions[s] \subseteq compactions'[s]
             /\ \/ s \in (Sessions \ Orderly)'
                \/ Promise!Rest(s) \/ Promise!Record(s) \/ Promise!Lose(s)
                \/ Promise!Rewind(s) \/ Promise!Compact(s)
  <2>1. compactions[s] \subseteq compactions'[s] BY <1>0, CompactionsGrow
  <2>2. CASE s \in Orderly' BY <1>1, <2>1, <2>2, SessionPromise
  <2>3. CASE s \notin Orderly' BY <2>1, <2>3
  <2> QED BY <2>2, <2>3
<1>4. stopped \subseteq stopped' /\ voided \subseteq voided'
  <2>1. ASSUME NEW t \in Turns, TurnStep(t)
        PROVE  stopped \subseteq stopped' /\ voided \subseteq voided'
    BY <1>0, <2>1, TurnMove DEF LedgerInv
  <2>2. CASE UNCHANGED <<stopped, voided>> BY <2>2
  <2> QED BY <2>1, <2>2 DEF Next, TurnStep, vars, Begin, runFrame, Rollback, CompactRead, CompactGiveUp,
         CompactCount, CompactSave, compactFrame, ForkRead, ForkCreate, ForkSave, forkFrame
<1>5. voided' \subseteq stopped' BY DEF LedgerInv, CompleteInv
<1> QED BY <1>2, <1>3, <1>4, <1>5 DEF Promise!Next

\* For a session one client drives over a working database, the statements of
\* finishing turns, rollbacks and compactions, with forks reading in between and
\* turns stopped between any two of them, are a history as SessionHistory has it.
THEOREM HistoryKept == Spec => KeepsHistory
<1>1. Init => Promise!Init
  <2> SUFFICES ASSUME Init, NEW s \in Sessions PROVE Log(s) = <<>> /\ Settled(s) = {} /\ compactions[s] = {}
    BY DEF Init, Promise!Init
  <2>1. CheckpointCount(s) = 0 BY FS_EmptySet DEF Init, CheckpointCount
  <2>2. Log(s) = <<>> BY <2>1 DEF Log
  <2> QED BY <2>2 DEF Init, Settled, Ever
<1> QED BY <1>1, NextHistory, LedgerInvariant, PTL DEF Spec, KeepsHistory, Promise!Spec

=============================================================================
