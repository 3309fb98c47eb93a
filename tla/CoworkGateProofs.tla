-------------------------- MODULE CoworkGateProofs --------------------------
(***************************************************************************)
(* Proofs about CoworkGate for every set of calls, requests and scopes and *)
(* every assignment of their attributes.                                   *)
(***************************************************************************)
EXTENDS CoworkGate, TLAPS

\* Every variable keeps its type through a call's own step.
LEMMA CallStepTypeOK ==
    ASSUME TypeOK, NEW c \in Calls, CallStep(c)
    PROVE  TypeOK'
<1> USE CallsAssumption DEF TypeOK, At, Goto, Decide, CheckRules, fileVars, callVars, Stages, Modes, RulesFile, Events
<1>1. CASE BeginBatchedRead(c) BY <1>1 DEF BeginBatchedRead
<1>2. CASE BeginReadOnlyRole(c) BY <1>2 DEF BeginReadOnlyRole
<1>3. CASE BeginSingle(c) BY <1>3 DEF BeginSingle
<1>4. CASE Peek(c) BY <1>4 DEF Peek
<1>5. CASE BeginGated(c) BY <1>5 DEF BeginGated
<1>6. CASE ConsultRules(c) BY <1>6 DEF ConsultRules
<1>7. CASE ConsultMode(c) BY <1>7 DEF ConsultMode
<1>8. CASE Register(c) BY <1>8 DEF Register
<1>9. CASE Announce(c) BY <1>9 DEF Announce, Publish
<1>10. CASE Wake(c) BY <1>10 DEF Wake
<1>11. CASE Expire(c) BY <1>11 DEF Expire
<1>12. CASE TimeoutDeny(c) BY <1>12 DEF TimeoutDeny, Publish
<1>13. CASE TakeAlways(c) BY <1>13 DEF TakeAlways
<1>14. CASE TakeNote(c) BY <1>14 DEF TakeNote
<1>15. CASE AppendOpen(c)
  <2>1. NoRules \in RulesFile BY DEF NoRules
  <2>2. [rules EXCEPT !.allows = @ \cup {Target[c]}] \in RulesFile OBVIOUS
  <2>3. rules' \in RulesFile /\ draft' \in RulesFile
    BY <1>15, <2>1, <2>2 DEF AppendOpen
  <2> QED BY <1>15, <2>3 DEF AppendOpen
<1>16. CASE AppendWrite(c) BY <1>16 DEF AppendWrite
<1>17. CASE AppendFail(c) BY <1>17 DEF AppendFail
<1>18. CASE Settle(c) BY <1>18 DEF Settle
<1> QED
  BY <1>1, <1>2, <1>3, <1>4, <1>5, <1>6, <1>7, <1>8, <1>9, <1>10, <1>11, <1>12,
     <1>13, <1>14, <1>15, <1>16, <1>17, <1>18 DEF CallStep

\* ... through a request's step ...
LEMMA RpcStepTypeOK ==
    ASSUME TypeOK, NEW r \in Requests, RpcStep(r)
    PROVE  TypeOK'
<1> USE DEF TypeOK, RpcAt, RpcGoto, fileVars, callVars, RpcStages, Sent, Idle, Ops, Events
<1>1. CASE PeekVeto(r)
  <2>1. rpc[r] \in Sent BY <1>1 DEF PeekVeto
  <2> DEFINE vetoed == rpc[r].call \in pending \cap ScrubVeto
             peeked == [rpc[r] EXCEPT !.pc = "flag", !.note = vetoed]
  <2>2. peeked \in Sent
    <3>1. \A b \in BOOLEAN : [rpc[r] EXCEPT !.pc = "flag", !.note = b] \in Sent BY <2>1
    <3>2. vetoed \in BOOLEAN OBVIOUS
    <3> HIDE DEF vetoed
    <3> QED BY <3>1, <3>2
  <2>3. rpc' = [rpc EXCEPT ![r] = peeked] BY <1>1, Zenon DEF PeekVeto
  <2> HIDE DEF peeked
  <2>4. rpc' \in [Requests -> Sent \cup {Idle}] BY <2>2, <2>3
  <2> QED BY <1>1, <2>4 DEF PeekVeto
<1>2. CASE InsertFlag(r) BY <1>2 DEF InsertFlag
<1>3. CASE Validate(r) BY <1>3 DEF Validate
<1>4. CASE Resolve(r)
  <2>1. rpc[r] \in Sent BY <1>4 DEF Resolve
  <2>2. rpc' \in [Requests -> Sent \cup {Idle}] BY <1>4, <2>1 DEF Resolve
  <2>3. chan' \in [Calls -> {"none", "approve", "deny", "modify"}]
    BY <1>4, <2>1 DEF Resolve
  <2>4. sent' \in [Calls -> Targets] BY <1>4, <2>1 DEF Resolve
  <2>5. events' \in [Calls -> SUBSET Events] BY <1>4, <2>1 DEF Resolve, Publish
  <2> QED BY <1>4, <2>2, <2>3, <2>4, <2>5 DEF Resolve
<1>5. CASE SettleAlways(r) BY <1>5 DEF SettleAlways
<1> QED BY <1>1, <1>2, <1>3, <1>4, <1>5 DEF RpcStep

THEOREM TypeCorrect == Spec => []TypeOK
<1>1. Init => TypeOK
  BY CallsAssumption DEF Init, TypeOK, Stages, Modes, RulesFile, NoRules, Events
<1>2. TypeOK /\ [Next]_vars => TypeOK'
  <2> SUFFICES ASSUME TypeOK, [Next]_vars PROVE TypeOK' OBVIOUS
  <2>1. CASE \E c \in Calls : CallStep(c) BY <2>1, CallStepTypeOK
  <2>2. CASE \E r \in Requests : RpcStep(r) BY <2>2, RpcStepTypeOK
  <2>3. CASE \E c \in Calls : Cancel(c)
    BY <2>3 DEF Cancel, TypeOK, DropEntry, Publish, Goto, fileVars, Stages, Events
  <2>4. CASE \E c \in Calls : CleanUp(c)
    BY <2>4 DEF CleanUp, TypeOK, DropEntry, Publish, fileVars, callVars, Events
  <2>5. CASE \E r \in Requests, op \in Ops, c \in Calls, t \in Targets : SendRpc(r, op, c, t)
    BY <2>5 DEF SendRpc, TypeOK, fileVars, callVars, Ops, Sent, Idle, RpcStages
  <2>6. CASE \E m \in Modes : SetMode(m)
    BY <2>6 DEF SetMode, TypeOK, fileVars, callVars
  <2>7. CASE UNCHANGED vars BY <2>7 DEF vars, fileVars, TypeOK
  <2> QED BY <2>1, <2>2, <2>3, <2>4, <2>5, <2>6, <2>7 DEF Next
<1> QED BY <1>1, <1>2, PTL DEF Spec

-----------------------------------------------------------------------------
(* The inductive invariant *)

\* Requests and channels are what ResolverInv speaks of: a call's own step
\* touches neither.
LEMMA ResolverInvStable ==
    ASSUME ResolverInv, UNCHANGED <<rpc, chan>>
    PROVE  ResolverInv'
BY DEF ResolverInv, Resolvers, OneResolver

\* A call's own step leaves every request and every channel alone.
LEMMA CallStepFrame ==
    ASSUME NEW c \in Calls, CallStep(c)
    PROVE  UNCHANGED <<rpc, chan, sent, cleanup>>
<1>1. CASE BeginBatchedRead(c) BY <1>1 DEF BeginBatchedRead
<1>2. CASE BeginReadOnlyRole(c) BY <1>2 DEF BeginReadOnlyRole
<1>3. CASE BeginSingle(c) BY <1>3 DEF BeginSingle
<1>4. CASE Peek(c) BY <1>4 DEF Peek
<1>5. CASE BeginGated(c) BY <1>5 DEF BeginGated
<1>6. CASE ConsultRules(c) BY <1>6 DEF ConsultRules
<1>7. CASE ConsultMode(c) BY <1>7 DEF ConsultMode
<1>8. CASE Register(c) BY <1>8 DEF Register
<1>9. CASE Announce(c) BY <1>9 DEF Announce
<1>10. CASE Wake(c) BY <1>10 DEF Wake
<1>11. CASE Expire(c) BY <1>11 DEF Expire
<1>12. CASE TimeoutDeny(c) BY <1>12 DEF TimeoutDeny
<1>13. CASE TakeAlways(c) BY <1>13 DEF TakeAlways
<1>14. CASE TakeNote(c) BY <1>14 DEF TakeNote
<1>15. CASE AppendOpen(c) BY <1>15 DEF AppendOpen
<1>16. CASE AppendWrite(c) BY <1>16 DEF AppendWrite
<1>17. CASE AppendFail(c) BY <1>17 DEF AppendFail
<1>18. CASE Settle(c) BY <1>18 DEF Settle
<1> QED
  BY <1>1, <1>2, <1>3, <1>4, <1>5, <1>6, <1>7, <1>8, <1>9,
     <1>10, <1>11, <1>12, <1>13, <1>14, <1>15, <1>16, <1>17, <1>18 DEF CallStep

LEMMA CallStepEntryInv ==
    ASSUME TypeOK, EntryInv, StageInv, NEW c \in Calls, CallStep(c)
    PROVE  EntryInv'
<1> USE DEF TypeOK, EntryInv, StageInv, At, Goto, Decide, BeforeAsk, Suspended, Approving, Untouched
<1>1. CASE BeginBatchedRead(c) BY <1>1 DEF BeginBatchedRead
<1>2. CASE BeginReadOnlyRole(c) BY <1>2 DEF BeginReadOnlyRole
<1>3. CASE BeginSingle(c) BY <1>3 DEF BeginSingle
<1>4. CASE Peek(c) BY <1>4 DEF Peek
<1>5. CASE BeginGated(c) BY <1>5 DEF BeginGated
<1>6. CASE ConsultRules(c) BY <1>6 DEF ConsultRules
<1>7. CASE ConsultMode(c) BY <1>7 DEF ConsultMode
<1>8. CASE Register(c) BY <1>8 DEF Register
<1>9. CASE Announce(c) BY <1>9 DEF Announce
<1>10. CASE Wake(c) BY <1>10 DEF Wake
<1>11. CASE Expire(c) BY <1>11 DEF Expire
<1>12. CASE TimeoutDeny(c) BY <1>12 DEF TimeoutDeny
<1>13. CASE TakeAlways(c) BY <1>13 DEF TakeAlways
<1>14. CASE TakeNote(c) BY <1>14 DEF TakeNote
<1>15. CASE AppendOpen(c) BY <1>15 DEF AppendOpen
<1>16. CASE AppendWrite(c) BY <1>16 DEF AppendWrite
<1>17. CASE AppendFail(c) BY <1>17 DEF AppendFail
<1>18. CASE Settle(c) BY <1>18 DEF Settle
<1> QED
  BY <1>1, <1>2, <1>3, <1>4, <1>5, <1>6, <1>7, <1>8, <1>9,
     <1>10, <1>11, <1>12, <1>13, <1>14, <1>15, <1>16, <1>17, <1>18 DEF CallStep

LEMMA CallStepStageInv ==
    ASSUME TypeOK, EntryInv, StageInv, NEW c \in Calls, CallStep(c)
    PROVE  StageInv'
<1> USE DEF TypeOK, EntryInv, StageInv, At, Goto, Decide, BeforeAsk, Suspended, Approving, Untouched
<1>1. CASE BeginBatchedRead(c) BY <1>1 DEF BeginBatchedRead
<1>2. CASE BeginReadOnlyRole(c) BY <1>2 DEF BeginReadOnlyRole
<1>3. CASE BeginSingle(c) BY <1>3 DEF BeginSingle
<1>4. CASE Peek(c) BY <1>4 DEF Peek
<1>5. CASE BeginGated(c) BY <1>5 DEF BeginGated
<1>6. CASE ConsultRules(c) BY <1>6 DEF ConsultRules
<1>7. CASE ConsultMode(c) BY <1>7 DEF ConsultMode
<1>8. CASE Register(c) BY <1>8 DEF Register
<1>9. CASE Announce(c) BY <1>9 DEF Announce, Publish
<1>10. CASE Wake(c) BY <1>10 DEF Wake
<1>11. CASE Expire(c) BY <1>11 DEF Expire
<1>12. CASE TimeoutDeny(c) BY <1>12 DEF TimeoutDeny, Publish
<1>13. CASE TakeAlways(c) BY <1>13 DEF TakeAlways
<1>14. CASE TakeNote(c) BY <1>14 DEF TakeNote
<1>15. CASE AppendOpen(c) BY <1>15 DEF AppendOpen
<1>16. CASE AppendWrite(c) BY <1>16 DEF AppendWrite
<1>17. CASE AppendFail(c) BY <1>17 DEF AppendFail
<1>18. CASE Settle(c) BY <1>18 DEF Settle
<1> QED
  BY <1>1, <1>2, <1>3, <1>4, <1>5, <1>6, <1>7, <1>8, <1>9,
     <1>10, <1>11, <1>12, <1>13, <1>14, <1>15, <1>16, <1>17, <1>18 DEF CallStep

\* Dropping the future and the guard's removal, at once or in a spawned task.
LEMMA CancelGateInv ==
    ASSUME TypeOK, PromptInv, NEW c \in Calls, Cancel(c) \/ CleanUp(c)
    PROVE  PromptInv'
<1> USE DEF PromptInv
<1>1. ResolverInv'
  BY ResolverInvStable DEF Cancel, CleanUp
<1>2. CASE Cancel(c)
  BY <1>1, <1>2 DEF Cancel, TypeOK, EntryInv, StageInv, DropEntry, Publish, Goto,
     Awaiting, BeforeAsk, Suspended, Approving, Untouched
<1>3. CASE CleanUp(c)
  BY <1>1, <1>3 DEF CleanUp, TypeOK, EntryInv, StageInv, DropEntry, Publish,
     BeforeAsk, Suspended, Approving, Untouched, callVars
<1> QED BY <1>2, <1>3

\* Sending a request, and the steps of one that do not take the entry.
LEMMA RpcStepGateInv ==
    ASSUME TypeOK, PromptInv, NEW r \in Requests,
           \/ \E op \in Ops, c \in Calls, t \in Targets : SendRpc(r, op, c, t)
           \/ PeekVeto(r) \/ InsertFlag(r) \/ Validate(r) \/ SettleAlways(r)
    PROVE  PromptInv'
<1>1. UNCHANGED <<pending, chan, pc, events, verdict, basis, cleanup>>
  BY DEF SendRpc, PeekVeto, InsertFlag, Validate, SettleAlways, callVars
<1>2. EntryInv' /\ StageInv'
  BY <1>1 DEF PromptInv, EntryInv, StageInv, Untouched
<1>3. \A q \in Requests \ {r} : rpc'[q] = rpc[q]
  BY DEF TypeOK, SendRpc, PeekVeto, InsertFlag, Validate, SettleAlways, RpcGoto
<1>4. /\ rpc'[r].pc # "idle"
      /\ rpc'[r].pc \in {"note", "flag", "validate", "resolve"} => ~rpc'[r].found
      /\ rpc'[r].found => /\ rpc[r].found /\ rpc[r].pc # "idle"
                          /\ rpc'[r].call = rpc[r].call /\ rpc'[r].op = rpc[r].op
      /\ rpc[r].found /\ rpc[r].pc # "idle" =>
            rpc'[r].found /\ rpc'[r].call = rpc[r].call /\ rpc'[r].op = rpc[r].op
  <2> USE DEF TypeOK, PromptInv, ResolverInv, Sent, Idle, RpcAt, RpcGoto, RpcStages
  <2>1. CASE \E op \in Ops, c \in Calls, t \in Targets : SendRpc(r, op, c, t)
    BY <2>1 DEF SendRpc, Ops
  <2>2. CASE PeekVeto(r) BY <2>2 DEF PeekVeto
  <2>3. CASE InsertFlag(r) BY <2>3 DEF InsertFlag
  <2>4. CASE Validate(r) BY <2>4 DEF Validate
  <2>5. CASE SettleAlways(r) BY <2>5 DEF SettleAlways
  <2> QED BY <2>1, <2>2, <2>3, <2>4, <2>5
<1>5. \A c \in Calls : Resolvers(c)' = Resolvers(c)
  BY <1>3, <1>4 DEF Resolvers
<1>6. \A c \in Calls : \A q \in Resolvers(c) : rpc'[q].op = rpc[q].op
  BY <1>3, <1>4 DEF Resolvers
<1>7. ResolverInv'
  BY <1>1, <1>3, <1>4, <1>5, <1>6 DEF PromptInv, ResolverInv, OneResolver
<1> QED BY <1>2, <1>7 DEF PromptInv

\* resolve takes the entry, or finds none.
LEMMA ResolveGateInv ==
    ASSUME TypeOK, PromptInv, NEW r \in Requests, Resolve(r)
    PROVE  PromptInv'
<1>1. rpc[r] \in Sent /\ ~rpc[r].found /\ rpc[r].pc = "resolve"
  BY DEF Resolve, RpcAt, TypeOK, Idle, Sent, PromptInv, ResolverInv
<1>2. CASE rpc[r].call \notin pending
  <2>1. UNCHANGED <<pending, chan, pc, events, verdict, basis, cleanup>>
    BY <1>2 DEF Resolve, callVars
  <2>2. EntryInv' /\ StageInv' BY <2>1 DEF PromptInv, EntryInv, StageInv, Untouched
  <2>3. \A q \in Requests \ {r} : rpc'[q] = rpc[q]
    BY <1>2 DEF Resolve, RpcGoto, TypeOK
  <2>4. ~rpc'[r].found /\ rpc'[r].pc # "idle"
    BY <1>1, <1>2 DEF Resolve, RpcGoto, TypeOK, Sent
  <2>5. \A c \in Calls : Resolvers(c)' = Resolvers(c)
    BY <1>1, <2>3, <2>4 DEF Resolvers
  <2>6. \A c \in Calls : \A q \in Resolvers(c) : rpc'[q].op = rpc[q].op
    BY <1>1, <2>3 DEF Resolvers
  <2>7. ResolverInv'
    BY <2>1, <2>3, <2>4, <2>5, <2>6 DEF PromptInv, ResolverInv, OneResolver
  <2> QED BY <2>2, <2>7 DEF PromptInv
<1>3. CASE rpc[r].call \in pending
  <2>1. PICK c \in Calls, d \in {"approve", "deny", "modify"} :
           c = rpc[r].call /\ d = DecisionOf(rpc[r].op)
    BY <1>1 DEF Sent, Ops, DecisionOf
  <2>2. /\ pending' = pending \ {c} /\ chan' = [chan EXCEPT ![c] = d]
        /\ \A b \in Calls \ {c} : events'[b] = events[b]
        /\ UNCHANGED <<pc, verdict, basis, cleanup>>
    BY <1>3, <2>1 DEF Resolve, DecisionOf, Publish, TypeOK, callVars
  <2>3. chan[c] = "none" /\ (pc[c] \in Suspended \/ c \in cleanup)
    BY <1>3, <2>1 DEF PromptInv, EntryInv
  <2>4. EntryInv'
    BY <2>1, <2>2, <2>3 DEF PromptInv, EntryInv, TypeOK
  <2>5. StageInv'
    BY <2>1, <2>2, <2>3 DEF PromptInv, StageInv, EntryInv, Untouched, TypeOK,
       BeforeAsk, Suspended, Approving
  <2>6. \A q \in Requests \ {r} : rpc'[q] = rpc[q]
    BY <1>3 DEF Resolve, TypeOK
  <2>7. /\ rpc'[r].found /\ rpc'[r].pc \in {"settle", "done"}
        /\ rpc'[r].call = c /\ rpc'[r].op = rpc[r].op
    BY <1>1, <1>3, <2>1 DEF Resolve, TypeOK, Sent
  <2>8. \A b \in Calls \ {c} : Resolvers(b)' = Resolvers(b)
    BY <1>1, <2>1, <2>6, <2>7 DEF Resolvers
  <2>9. Resolvers(c)' = {r}
    <3>1. Resolvers(c) = {} BY <2>1, <2>3 DEF PromptInv, ResolverInv
    <3> QED BY <1>1, <2>6, <2>7, <3>1 DEF Resolvers
  <2>10. \A b \in Calls \ {c} : \A q \in Resolvers(b) : rpc'[q].op = rpc[q].op
    BY <1>1, <2>1, <2>6 DEF Resolvers
  <2>11. ResolverInv'
    <3>1. \A q \in Requests :
             rpc'[q].pc \in {"note", "flag", "validate", "resolve"} => ~rpc'[q].found
      BY <2>6, <2>7 DEF PromptInv, ResolverInv
    <3>2. \A b \in Calls : chan'[b] # "none" =>
             \E q \in Resolvers(b)' : DecisionOf(rpc'[q].op) = chan'[b]
      BY <2>1, <2>2, <2>7, <2>8, <2>9, <2>10 DEF PromptInv, ResolverInv, TypeOK
    <3>3. \A b \in Calls : Resolvers(b)' # {} => chan'[b] # "none"
      BY <2>1, <2>2, <2>8, <2>9 DEF PromptInv, ResolverInv, TypeOK
    <3>4. OneResolver'
      BY <2>8, <2>9 DEF PromptInv, ResolverInv, OneResolver
    <3> QED BY <3>1, <3>2, <3>3, <3>4 DEF ResolverInv
  <2> QED BY <2>4, <2>5, <2>11 DEF PromptInv
<1> QED BY <1>2, <1>3

LEMMA InitGateInv == Init => PromptInv
BY DEF Init, PromptInv, EntryInv, StageInv, ResolverInv, Resolvers, OneResolver,
   Untouched, BeforeAsk, Suspended, Approving, Idle

LEMMA NextGateInv ==
    ASSUME TypeOK, PromptInv, [Next]_vars
    PROVE  PromptInv'
<1>1. ASSUME NEW c \in Calls, CallStep(c) PROVE PromptInv'
  BY <1>1, CallStepFrame, CallStepEntryInv, CallStepStageInv, ResolverInvStable DEF PromptInv
<1>2. ASSUME NEW c \in Calls, Cancel(c) \/ CleanUp(c) PROVE PromptInv'
  BY <1>2, CancelGateInv
<1>3. ASSUME NEW r \in Requests, RpcStep(r) PROVE PromptInv'
  BY <1>3, RpcStepGateInv, ResolveGateInv DEF RpcStep
<1>4. ASSUME NEW r \in Requests, \E op \in Ops, c \in Calls, t \in Targets : SendRpc(r, op, c, t)
      PROVE PromptInv'
  BY <1>4, RpcStepGateInv
<1>5. CASE (\E m \in Modes : SetMode(m)) \/ UNCHANGED vars
  BY <1>5 DEF SetMode, vars, callVars, PromptInv, EntryInv, StageInv, ResolverInv, Resolvers,
     OneResolver, Untouched
<1> QED BY <1>1, <1>2, <1>3, <1>4, <1>5 DEF Next

LEMMA PromptInvariant == Spec => []PromptInv
BY InitGateInv, NextGateInv, TypeCorrect, PTL DEF Spec

\* At most one request is ever told that it resolved a given prompt.
THEOREM ResolvedOnce == Spec => []OneResolver
<1>1. PromptInv => OneResolver BY DEF PromptInv, ResolverInv
<1> QED BY <1>1, PromptInvariant, PTL

\* No entry outlives its waiter.
THEOREM NoOrphans == Spec => []NoOrphanEntry
<1>1. TypeOK /\ PromptInv => NoOrphanEntry
  BY DEF PromptInv, EntryInv, NoOrphanEntry, Suspended, TypeOK
<1> QED BY <1>1, PromptInvariant, TypeCorrect, PTL

\* A call put to the human is granted only by the request that answered it.
THEOREM GrantedByAnswer == Spec => []AskedRunsOnlyOnAnswer
<1>1. TypeOK /\ PromptInv => AskedRunsOnlyOnAnswer
  <2> SUFFICES ASSUME TypeOK, PromptInv, NEW c \in Calls, Granted(c), WasAsked(c)
               PROVE  \E r \in Resolvers(c) :
                         rpc[r].op \in (IF verdict[c] = "modify" THEN {"modify"}
                                                                 ELSE {"approve", "always"})
    BY DEF AskedRunsOnlyOnAnswer
  <2>1. chan[c] # "none" /\ verdict[c] = chan[c]
    BY DEF PromptInv, StageInv, Granted, WasAsked, Untouched
  <2>2. PICK r \in Resolvers(c) : DecisionOf(rpc[r].op) = chan[c]
    BY <2>1 DEF PromptInv, ResolverInv
  <2> QED BY <2>1, <2>2 DEF Granted, DecisionOf, TypeOK
<1> QED BY <1>1, PromptInvariant, TypeCorrect, PTL

-----------------------------------------------------------------------------
(* The gate implements ApprovalPromise *)

\* A step that answers no prompt, asks for none and ends no call is a stutter.
LEMMA PromiseStutters ==
    ASSUME UNCHANGED chan,
           \A d \in Calls : (WasAsked(d) <=> WasAsked(d)') /\ Fate(d)' = Fate(d)
    PROVE  UNCHANGED Promise!vars
BY DEF Promise!vars, Asked

\* A call's own step touches neither the map entry nor the stage of another.
LEMMA CallStepOthers ==
    ASSUME TypeOK, NEW c \in Calls, CallStep(c), NEW d \in Calls \ {c}
    PROVE  /\ pc'[d] = pc[d] /\ verdict'[d] = verdict[d] /\ basis'[d] = basis[d]
           /\ events'[d] = events[d] /\ (d \in pending' <=> d \in pending)
<1> USE DEF TypeOK, Goto, Decide, fileVars, callVars, Publish
<1>1. CASE BeginBatchedRead(c) BY <1>1 DEF BeginBatchedRead
<1>2. CASE BeginReadOnlyRole(c) BY <1>2 DEF BeginReadOnlyRole
<1>3. CASE BeginSingle(c) BY <1>3 DEF BeginSingle
<1>4. CASE Peek(c) BY <1>4 DEF Peek
<1>5. CASE BeginGated(c) BY <1>5 DEF BeginGated
<1>6. CASE ConsultRules(c) BY <1>6 DEF ConsultRules
<1>7. CASE ConsultMode(c) BY <1>7 DEF ConsultMode
<1>8. CASE Register(c) BY <1>8 DEF Register
<1>9. CASE Announce(c) BY <1>9 DEF Announce
<1>10. CASE Wake(c) BY <1>10 DEF Wake
<1>11. CASE Expire(c) BY <1>11 DEF Expire
<1>12. CASE TimeoutDeny(c) BY <1>12 DEF TimeoutDeny
<1>13. CASE TakeAlways(c) BY <1>13 DEF TakeAlways
<1>14. CASE TakeNote(c) BY <1>14 DEF TakeNote
<1>15. CASE AppendOpen(c) BY <1>15 DEF AppendOpen
<1>16. CASE AppendWrite(c) BY <1>16 DEF AppendWrite
<1>17. CASE AppendFail(c) BY <1>17 DEF AppendFail
<1>18. CASE Settle(c)
  BY <1>18 DEF Settle
<1> QED
  BY <1>1, <1>2, <1>3, <1>4, <1>5, <1>6, <1>7, <1>8, <1>9, <1>10, <1>11, <1>12, <1>13, <1>14,
     <1>15, <1>16, <1>17, <1>18 DEF CallStep

\* Between the entry in the map and the end of the task, a call's step changes
\* neither whether it was asked nor its fate.
LEMMA CallStepQuiet ==
    ASSUME TypeOK, PromptInv, NEW c \in Calls, CallStep(c), ~Register(c), ~Settle(c)
    PROVE  (WasAsked(c) <=> WasAsked(c)') /\ Fate(c) = "undecided" /\ Fate(c)' = "undecided"
<1> USE DEF TypeOK, PromptInv, EntryInv, StageInv, At, Goto, Decide, fileVars, Publish, Untouched,
        BeforeAsk, Suspended, Approving, WasAsked, Fate
<1>1. CASE BeginBatchedRead(c) BY <1>1 DEF BeginBatchedRead
<1>2. CASE BeginReadOnlyRole(c) BY <1>2 DEF BeginReadOnlyRole
<1>3. CASE BeginSingle(c) BY <1>3 DEF BeginSingle
<1>4. CASE Peek(c) BY <1>4 DEF Peek
<1>5. CASE BeginGated(c) BY <1>5 DEF BeginGated
<1>6. CASE ConsultRules(c) BY <1>6 DEF ConsultRules
<1>7. CASE ConsultMode(c) BY <1>7 DEF ConsultMode
<1>9. CASE Announce(c) BY <1>9 DEF Announce
<1>10. CASE Wake(c) BY <1>10 DEF Wake
<1>11. CASE Expire(c) BY <1>11 DEF Expire
<1>12. CASE TimeoutDeny(c) BY <1>12 DEF TimeoutDeny
<1>13. CASE TakeAlways(c) BY <1>13 DEF TakeAlways
<1>14. CASE TakeNote(c) BY <1>14 DEF TakeNote
<1>15. CASE AppendOpen(c) BY <1>15 DEF AppendOpen
<1>16. CASE AppendWrite(c) BY <1>16 DEF AppendWrite
<1>17. CASE AppendFail(c) BY <1>17 DEF AppendFail
<1> QED
  BY <1>1, <1>2, <1>3, <1>4, <1>5, <1>6, <1>7, <1>9, <1>10, <1>11, <1>12, <1>13, <1>14,
     <1>15, <1>16, <1>17 DEF CallStep

LEMMA CallStepPromise ==
    ASSUME TypeOK, PromptInv, NEW c \in Calls, CallStep(c)
    PROVE  [Promise!Next]_(Promise!vars)
<1>1. UNCHANGED chan BY CallStepFrame
<1>2. \A d \in Calls \ {c} : (WasAsked(d) <=> WasAsked(d)') /\ Fate(d)' = Fate(d)
  BY <1>1, CallStepOthers DEF WasAsked, Fate
<1>3. CASE Register(c)
  <2>1. ~WasAsked(c) /\ WasAsked(c)' /\ Fate(c) = "undecided" /\ Fate(c)' = "undecided"
    BY <1>3 DEF Register, At, Goto, TypeOK, PromptInv, StageInv, BeforeAsk, Untouched, WasAsked, Fate
  <2>2. Asked' = Asked \cup {c} /\ c \notin Asked BY <1>2, <2>1 DEF Asked
  <2>3. [d \in Calls |-> Fate(d)]' = [d \in Calls |-> Fate(d)] BY <1>2, <2>1
  <2>4. Promise!Ask(c) BY <1>1, <2>1, <2>2, <2>3 DEF Promise!Ask
  <2> QED BY <2>4 DEF Promise!Next
<1>4. CASE Settle(c)
  <2>1. pc[c] = "settle" /\ pc'[c] = "done" /\ Fate(c) = "undecided"
    BY <1>4 DEF Settle, At, Goto, TypeOK, Fate
  <2>2. WasAsked(c) <=> WasAsked(c)' BY <1>1, <1>4 DEF Settle, WasAsked
  <2>3. UNCHANGED Asked BY <1>2, <2>2 DEF Asked
  <2>4. [d \in Calls |-> Fate(d)]' = [[d \in Calls |-> Fate(d)] EXCEPT ![c] = Fate(c)']
    BY <1>2
  <2>5. CASE verdict'[c] = "deny"
    <3>1. Fate(c)' = "refused" BY <2>1, <2>5 DEF Fate
    <3>2. Promise!Refuse(c) BY <1>1, <2>1, <2>3, <2>4, <3>1 DEF Promise!Refuse
    <3> QED BY <3>2 DEF Promise!Next
  <2>6. CASE verdict'[c] # "deny"
    <3>1. Fate(c)' = "granted" BY <2>1, <2>6 DEF Fate
    <3>2. verdict[c] # "deny" BY <1>4, <2>6 DEF Settle, TypeOK
    <3>3. WasAsked(c) => chan[c] \in {"approve", "modify"}
      BY <2>1, <3>2 DEF TypeOK, PromptInv, StageInv, Untouched, WasAsked
    <3>4. Promise!Grant(c) BY <1>1, <2>1, <2>3, <2>4, <3>1, <3>3 DEF Promise!Grant, Asked
    <3> QED BY <3>4 DEF Promise!Next
  <2> QED BY <2>5, <2>6
<1>5. CASE ~Register(c) /\ ~Settle(c)
  <2>1. \A d \in Calls : (WasAsked(d) <=> WasAsked(d)') /\ Fate(d)' = Fate(d)
    BY <1>2, <1>5, CallStepQuiet
  <2> QED BY <1>1, <2>1, PromiseStutters
<1> QED BY <1>3, <1>4, <1>5

\* Dropping the future of an undecided call abandons it; what its guard removes
\* was broadcast, so that the call still counts as asked.
LEMMA CancelPromise ==
    ASSUME TypeOK, PromptInv, NEW c \in Calls, Cancel(c) \/ CleanUp(c)
    PROVE  [Promise!Next]_(Promise!vars)
<1>1. UNCHANGED <<chan, verdict, basis>> BY DEF Cancel, CleanUp, callVars
<1>2. Abortable(c) => Announced(c) BY DEF Abortable, Announced
<1>3. \A d \in Calls : WasAsked(d) <=> WasAsked(d)'
  <2>1. CASE Cancel(c)
    BY <1>1, <1>2, <2>1 DEF Cancel, DropEntry, Publish, TypeOK, WasAsked
  <2>2. CASE CleanUp(c)
    BY <1>1, <1>2, <2>2 DEF CleanUp, DropEntry, Publish, TypeOK, WasAsked, PromptInv, EntryInv
  <2> QED BY <2>1, <2>2
<1>4. UNCHANGED Asked BY <1>3 DEF Asked
<1>5. CASE Cancel(c)
  <2>1. Fate(c) = "undecided" /\ Fate(c)' = "abandoned"
    BY <1>5 DEF Cancel, Goto, Awaiting, Fate, TypeOK
  <2>2. \A d \in Calls \ {c} : Fate(d)' = Fate(d)
    BY <1>1, <1>5 DEF Cancel, Goto, Fate, TypeOK
  <2>3. [d \in Calls |-> Fate(d)]' = [[d \in Calls |-> Fate(d)] EXCEPT ![c] = "abandoned"]
    BY <2>1, <2>2
  <2>4. Promise!Abandon(c) BY <1>1, <1>4, <2>1, <2>3 DEF Promise!Abandon
  <2> QED BY <2>4 DEF Promise!Next
<1>6. CASE CleanUp(c)
  <2>1. \A d \in Calls : Fate(d)' = Fate(d) BY <1>6 DEF CleanUp, callVars, Fate
  <2> QED BY <1>1, <1>3, <2>1, PromiseStutters
<1> QED BY <1>5, <1>6

\* The resolution that finds the entry answers the prompt.
LEMMA ResolvePromise ==
    ASSUME TypeOK, PromptInv, NEW r \in Requests, Resolve(r)
    PROVE  [Promise!Next]_(Promise!vars)
<1>1. UNCHANGED <<pc, verdict, basis>> /\ rpc[r] \in Sent
  BY DEF Resolve, RpcAt, callVars, TypeOK, Idle
<1>2. PICK c \in Calls : c = rpc[r].call BY <1>1 DEF Sent
<1>3. \A d \in Calls : Fate(d)' = Fate(d) BY <1>1 DEF Fate
<1>4. CASE c \in pending
  <2>1. PICK d \in {"approve", "deny", "modify"} :
           d = IF rpc[r].op = "always" THEN "approve" ELSE rpc[r].op
    BY <1>1 DEF Sent, Ops
  <2>2. chan' = [chan EXCEPT ![c] = d] /\ pending' = pending \ {c}
    BY <1>2, <1>4, <2>1 DEF Resolve
  <2>3. chan[c] = "none" /\ chan'[c] # "none" /\ \A e \in Calls \ {c} : chan'[e] = chan[e]
    BY <1>4, <2>2 DEF PromptInv, EntryInv, TypeOK
  <2>4. \A e \in Calls \ {c} : events'[e] = events[e]
    BY <1>2, <1>4 DEF Resolve, Publish, TypeOK
  <2>5. \A e \in Calls : WasAsked(e) <=> WasAsked(e)'
    BY <1>1, <1>4, <2>2, <2>3, <2>4 DEF WasAsked
  <2>6. UNCHANGED Asked /\ c \in Asked BY <1>4, <2>5 DEF Asked, WasAsked
  <2>7. UNCHANGED [e \in Calls |-> Fate(e)] BY <1>3
  <2>8. Promise!Answer(c, d) BY <2>2, <2>3, <2>6, <2>7 DEF Promise!Answer
  <2> QED BY <2>1, <2>8 DEF Promise!Next
<1>5. CASE c \notin pending
  <2>1. UNCHANGED <<pending, chan, events>> BY <1>2, <1>5 DEF Resolve
  <2>2. \A d \in Calls : WasAsked(d) <=> WasAsked(d)' BY <1>1, <2>1 DEF WasAsked
  <2> QED BY <1>3, <2>1, <2>2, PromiseStutters
<1> QED BY <1>4, <1>5

\* The other steps concern the requests, the mode and the standing rules only.
LEMMA OtherPromise ==
    ASSUME UNCHANGED <<pending, chan, pc, events, verdict, basis>>
    PROVE  UNCHANGED Promise!vars
<1>1. \A d \in Calls : (WasAsked(d) <=> WasAsked(d)') /\ Fate(d)' = Fate(d)
  BY DEF WasAsked, Fate
<1> QED BY <1>1, PromiseStutters

\* The gate implements its promise: a call is decided once, and one that was put
\* to the human is granted only on the single answer the human gave.
THEOREM GateKeepsPromise == Spec => KeepsPromise
<1>1. Init => Promise!Init
  BY DEF Init, Promise!Init, Asked, WasAsked, Fate
<1>2. TypeOK /\ PromptInv /\ [Next]_vars => [Promise!Next]_(Promise!vars)
  <2> SUFFICES ASSUME TypeOK, PromptInv, [Next]_vars PROVE [Promise!Next]_(Promise!vars)
    OBVIOUS
  <2>1. ASSUME NEW c \in Calls, CallStep(c) PROVE [Promise!Next]_(Promise!vars)
    BY <2>1, CallStepPromise
  <2>2. ASSUME NEW c \in Calls, Cancel(c) \/ CleanUp(c) PROVE [Promise!Next]_(Promise!vars)
    BY <2>2, CancelPromise
  <2>3. ASSUME NEW r \in Requests, Resolve(r) PROVE [Promise!Next]_(Promise!vars)
    BY <2>3, ResolvePromise
  <2>4. CASE \/ \E r \in Requests :
                   \/ PeekVeto(r) \/ InsertFlag(r) \/ Validate(r) \/ SettleAlways(r)
                   \/ \E op \in Ops, c \in Calls, t \in Targets : SendRpc(r, op, c, t)
             \/ \E m \in Modes : SetMode(m)
             \/ UNCHANGED vars
    <3>1. UNCHANGED <<pending, chan, pc, events, verdict, basis>>
      BY <2>4 DEF PeekVeto, InsertFlag, Validate, SettleAlways, SendRpc, SetMode, vars, callVars
    <3> QED BY <3>1, OtherPromise
  <2> QED BY <2>1, <2>2, <2>3, <2>4 DEF Next, RpcStep
<1> QED BY <1>1, <1>2, PromptInvariant, TypeCorrect, PTL DEF Spec, KeepsPromise, Promise!Spec

-----------------------------------------------------------------------------
(* The invariants behind the policy properties *)

\* The stage a call's own step leads to, as far as the policy depends on it.
LEMMA CallStepRisk ==
    ASSUME TypeOK, RiskInv, NEW c \in Calls, CallStep(c), c \in AlwaysAsked
    PROVE  /\ pc'[c] # "mode" /\ basis'[c] \notin {"mode", "ungated"}
           /\ basis'[c] = "role" => verdict'[c] = "deny"
<1> USE DEF TypeOK, RiskInv, AlwaysAsked, At, Goto, Decide, Forced
<1>1. CASE BeginBatchedRead(c) BY <1>1 DEF BeginBatchedRead
<1>2. CASE BeginReadOnlyRole(c) BY <1>2 DEF BeginReadOnlyRole
<1>3. CASE BeginSingle(c) BY <1>3 DEF BeginSingle
<1>4. CASE Peek(c) BY <1>4 DEF Peek
<1>5. CASE BeginGated(c) BY <1>5 DEF BeginGated
<1>6. CASE ConsultRules(c)
  <2>1. RuleVerdict(rules, Target[c]) \in {"allow", "deny", "ask", "none"}
    BY CallsAssumption DEF RuleVerdict, Verdicts
  <2>2. Forced(c) OBVIOUS
  <2> HIDE DEF Forced
  <2> QED BY <1>6, <2>1, <2>2 DEF ConsultRules
<1>7. CASE ConsultMode(c) BY <1>7 DEF ConsultMode
<1>8. CASE Register(c) BY <1>8 DEF Register
<1>9. CASE Announce(c) BY <1>9 DEF Announce
<1>10. CASE Wake(c) BY <1>10 DEF Wake
<1>11. CASE Expire(c) BY <1>11 DEF Expire
<1>12. CASE TimeoutDeny(c) BY <1>12 DEF TimeoutDeny
<1>13. CASE TakeAlways(c) BY <1>13 DEF TakeAlways
<1>14. CASE TakeNote(c) BY <1>14 DEF TakeNote
<1>15. CASE AppendOpen(c) BY <1>15 DEF AppendOpen
<1>16. CASE AppendWrite(c) BY <1>16 DEF AppendWrite
<1>17. CASE AppendFail(c) BY <1>17 DEF AppendFail
<1>18. CASE Settle(c) BY <1>18 DEF Settle
<1> QED
  BY <1>1, <1>2, <1>3, <1>4, <1>5, <1>6, <1>7, <1>8, <1>9, <1>10, <1>11, <1>12,
     <1>13, <1>14, <1>15, <1>16, <1>17, <1>18 DEF CallStep

LEMMA CallStepTimeout ==
    ASSUME TypeOK, PromptInv, TimeoutInv, NEW c \in Calls, CallStep(c), "timeout" \in events'[c]
    PROVE  /\ c \notin pending' /\ pc'[c] \in {"settle", "done", "dropped"}
           /\ pc'[c] # "dropped" => basis'[c] = "timeout"
<1> USE DEF TypeOK, PromptInv, EntryInv, StageInv, TimeoutInv, At, Goto, Decide, Publish, Untouched,
        BeforeAsk, Suspended
<1>1. CASE BeginBatchedRead(c) BY <1>1 DEF BeginBatchedRead
<1>2. CASE BeginReadOnlyRole(c) BY <1>2 DEF BeginReadOnlyRole
<1>3. CASE BeginSingle(c) BY <1>3 DEF BeginSingle
<1>4. CASE Peek(c) BY <1>4 DEF Peek
<1>5. CASE BeginGated(c) BY <1>5 DEF BeginGated
<1>6. CASE ConsultRules(c) BY <1>6 DEF ConsultRules
<1>7. CASE ConsultMode(c) BY <1>7 DEF ConsultMode
<1>8. CASE Register(c) BY <1>8 DEF Register
<1>9. CASE Announce(c) BY <1>9 DEF Announce
<1>10. CASE Wake(c) BY <1>10 DEF Wake
<1>11. CASE Expire(c) BY <1>11 DEF Expire
<1>12. CASE TimeoutDeny(c) BY <1>12 DEF TimeoutDeny
<1>13. CASE TakeAlways(c) BY <1>13 DEF TakeAlways
<1>14. CASE TakeNote(c) BY <1>14 DEF TakeNote
<1>15. CASE AppendOpen(c) BY <1>15 DEF AppendOpen
<1>16. CASE AppendWrite(c) BY <1>16 DEF AppendWrite
<1>17. CASE AppendFail(c) BY <1>17 DEF AppendFail
<1>18. CASE Settle(c) BY <1>18 DEF Settle
<1> QED
  BY <1>1, <1>2, <1>3, <1>4, <1>5, <1>6, <1>7, <1>8, <1>9, <1>10, <1>11, <1>12,
     <1>13, <1>14, <1>15, <1>16, <1>17, <1>18 DEF CallStep

\* The persisted rules: a step leaves them, adds the call's own, or empties them.
LEMMA CallStepRule ==
    ASSUME TypeOK, PromptInv, RuleInv, NEW c \in Calls, CallStep(c)
    PROVE  /\ always' \subseteq always
           /\ pc'[c] \in {"notes", "append", "writing"} =>
                 c \in always \/ pc[c] \in {"notes", "append", "writing"}
           /\ pc'[c] \in {"append", "writing"} => c \notin RawVeto
           /\ \A t \in rules'.allows \cup draft'.allows :
                 \/ t \in rules.allows \cup draft.allows
                 \/ t = Target[c] /\ pc[c] = "append" /\ chan[c] = "approve"
<1> USE DEF TypeOK, RuleInv, At, Goto, Decide, CheckRules, fileVars
<1>1. CASE BeginBatchedRead(c) BY <1>1 DEF BeginBatchedRead
<1>2. CASE BeginReadOnlyRole(c) BY <1>2 DEF BeginReadOnlyRole
<1>3. CASE BeginSingle(c) BY <1>3 DEF BeginSingle
<1>4. CASE Peek(c) BY <1>4 DEF Peek
<1>5. CASE BeginGated(c) BY <1>5 DEF BeginGated
<1>6. CASE ConsultRules(c) BY <1>6 DEF ConsultRules
<1>7. CASE ConsultMode(c) BY <1>7 DEF ConsultMode
<1>8. CASE Register(c) BY <1>8 DEF Register
<1>9. CASE Announce(c) BY <1>9 DEF Announce
<1>10. CASE Wake(c) BY <1>10 DEF Wake
<1>11. CASE Expire(c) BY <1>11 DEF Expire
<1>12. CASE TimeoutDeny(c) BY <1>12 DEF TimeoutDeny
<1>13. CASE TakeAlways(c) BY <1>13 DEF TakeAlways
<1>14. CASE TakeNote(c) BY <1>14 DEF TakeNote
<1>15. CASE AppendOpen(c) BY <1>15 DEF AppendOpen, PromptInv, StageInv, Approving, NoRules, RulesFile
<1>16. CASE AppendWrite(c) BY <1>16 DEF AppendWrite, RulesFile
<1>17. CASE AppendFail(c) BY <1>17 DEF AppendFail
<1>18. CASE Settle(c) BY <1>18 DEF Settle
<1> QED
  BY <1>1, <1>2, <1>3, <1>4, <1>5, <1>6, <1>7, <1>8, <1>9, <1>10, <1>11, <1>12,
     <1>13, <1>14, <1>15, <1>16, <1>17, <1>18 DEF CallStep

\* A call that goes on was not denied by the file, if it saw the hand-written rules.
LEMMA CallStepDeny ==
    ASSUME TypeOK, PromptInv, DenyInv, NEW c \in Calls, CallStep(c)
    PROVE  /\ pc'[c] # "done" => args'[c] = Target[c]
           /\ PastRules(c)' /\ c \notin blind' => BaseRule[Target[c]] # "deny"
           /\ Granted(c)' /\ c \notin blind' /\ basis'[c] # "ungated" /\ (Path[c] # "acp" \/ verdict'[c] = "approve") =>
                 BaseRule[args'[c]] # "deny"
           /\ \A d \in Calls \ {c} : args'[d] = args[d] /\ (d \in blind' <=> d \in blind)
<1> USE CallsAssumption
    DEF TypeOK, DenyInv, DenyRulesHold, Granted, PastRules, RuleVerdict, At, Goto, Decide, CheckRules, fileVars,
        Suspended, Approving
<1>1. CASE BeginBatchedRead(c) BY <1>1 DEF BeginBatchedRead
<1>2. CASE BeginReadOnlyRole(c) BY <1>2 DEF BeginReadOnlyRole
<1>3. CASE BeginSingle(c) BY <1>3 DEF BeginSingle
<1>4. CASE Peek(c) BY <1>4 DEF Peek
<1>5. CASE BeginGated(c) BY <1>5 DEF BeginGated
<1>6. CASE ConsultRules(c)
  <2>1. \/ ~rules.base
        \/ RuleVerdict(rules, Target[c]) = "deny"
        \/ BaseRule[Target[c]] # "deny"
    OBVIOUS
  <2> HIDE DEF RuleVerdict
  <2>2. UNCHANGED args /\ pc[c] = "rules" /\ args[c] = Target[c]
    BY <1>6 DEF ConsultRules
  <2>3. \A d \in Calls \ {c} : d \in blind' <=> d \in blind
    BY <1>6 DEF ConsultRules
  <2>4. pc'[c] # "done"
    BY <1>6, <2>2 DEF ConsultRules
  <2>5. CASE ~rules.base
    <3>1. c \in blind' BY <1>6, <2>5 DEF ConsultRules
    <3> QED BY <2>2, <2>3, <2>4, <3>1
  <2>6. CASE RuleVerdict(rules, Target[c]) = "deny"
    <3>1. pc'[c] = "settle" /\ verdict'[c] = "deny" BY <1>6, <2>6 DEF ConsultRules
    <3> QED BY <2>2, <2>3, <3>1
  <2>7. CASE BaseRule[Target[c]] # "deny"
    BY <2>2, <2>3, <2>4, <2>7
  <2> QED BY <2>1, <2>5, <2>6, <2>7
<1>7. CASE ConsultMode(c) BY <1>7 DEF ConsultMode
<1>8. CASE Register(c) BY <1>8 DEF Register
<1>9. CASE Announce(c) BY <1>9 DEF Announce
<1>10. CASE Wake(c) BY <1>10 DEF Wake
<1>11. CASE Expire(c) BY <1>11 DEF Expire
<1>12. CASE TimeoutDeny(c) BY <1>12 DEF TimeoutDeny
<1>13. CASE TakeAlways(c) BY <1>13 DEF TakeAlways
<1>14. CASE TakeNote(c) BY <1>14 DEF TakeNote
<1>15. CASE AppendOpen(c) BY <1>15 DEF AppendOpen
<1>16. CASE AppendWrite(c) BY <1>16 DEF AppendWrite
<1>17. CASE AppendFail(c) BY <1>17 DEF AppendFail
<1>18. CASE Settle(c) BY <1>18 DEF Settle, ModifyDenied
<1> QED
  BY <1>1, <1>2, <1>3, <1>4, <1>5, <1>6, <1>7, <1>8, <1>9, <1>10, <1>11, <1>12,
     <1>13, <1>14, <1>15, <1>16, <1>17, <1>18 DEF CallStep

\* Every step keeps the policy invariants.
LEMMA NextPolicy ==
    ASSUME TypeOK, PromptInv, PolicyInv, [Next]_vars
    PROVE  PolicyInv'
<1> USE DEF PolicyInv
<1>1. ASSUME NEW c \in Calls, CallStep(c) PROVE PolicyInv'
  <2>1. UNCHANGED <<rpc, chan, sent, cleanup>> BY <1>1, CallStepFrame
  <2>2. \A d \in Calls \ {c} :
          /\ pc'[d] = pc[d] /\ verdict'[d] = verdict[d] /\ basis'[d] = basis[d]
          /\ events'[d] = events[d] /\ (d \in pending' <=> d \in pending)
    BY <1>1, CallStepOthers
  <2>3. RiskInv'
    <3>1. \A d \in AlwaysAsked \ {c} :
             /\ pc'[d] # "mode" /\ basis'[d] \notin {"mode", "ungated"}
             /\ basis'[d] = "role" => verdict'[d] = "deny"
      BY <2>2, CallsAssumption DEF RiskInv, AlwaysAsked
    <3> QED BY <1>1, <3>1, CallStepRisk DEF RiskInv
  <2>4. TimeoutInv'
    <3>1. \A d \in Calls \ {c} : "timeout" \in events'[d] =>
             /\ d \notin pending' /\ pc'[d] \in {"settle", "done", "dropped"}
             /\ pc'[d] # "dropped" => basis'[d] = "timeout"
      BY <2>2 DEF TimeoutInv
    <3> QED BY <1>1, <3>1, CallStepTimeout DEF TimeoutInv
  <2>5. RuleInv'
    <3>1. /\ always' \subseteq always
          /\ pc'[c] \in {"notes", "append", "writing"} =>
                c \in always \/ pc[c] \in {"notes", "append", "writing"}
          /\ pc'[c] \in {"append", "writing"} => c \notin RawVeto
          /\ \A t \in rules'.allows \cup draft'.allows :
                \/ t \in rules.allows \cup draft.allows
                \/ t = Target[c] /\ pc[c] = "append" /\ chan[c] = "approve"
      BY <1>1, CallStepRule
    <3>2. \A d \in Calls : Requested(d)' <=> Requested(d) BY <2>1 DEF Requested
    <3>3. ASSUME NEW d \in Calls
          PROVE  /\ d \in always' \/ pc'[d] \in {"notes", "append", "writing"} => Requested(d)'
                 /\ pc'[d] \in {"append", "writing"} => d \notin RawVeto
      <4>1. CASE d = c BY <3>1, <3>2, <4>1 DEF RuleInv
      <4>2. CASE d # c BY <2>2, <3>1, <3>2, <4>2 DEF RuleInv
      <4> QED BY <4>1, <4>2
    <3>4. ASSUME NEW t \in rules'.allows \cup draft'.allows
          PROVE  \E d \in Calls \ RawVeto :
                    Target[d] = t /\ chan'[d] = "approve" /\ Requested(d)'
      <4>1. CASE t \in rules.allows \cup draft.allows
        BY <2>1, <3>2, <4>1 DEF RuleInv, RuleWasRequested, Requested
      <4>2. CASE t = Target[c] /\ pc[c] = "append" /\ chan[c] = "approve"
        BY <2>1, <3>2, <4>2 DEF RuleInv
      <4> QED BY <3>1, <4>1, <4>2
    <3>5. \A r \in Requests : rpc'[r].pc \in {"note", "flag"} => rpc'[r].op = "always"
      BY <2>1 DEF RuleInv
    <3> QED BY <3>3, <3>4, <3>5 DEF RuleInv, RuleWasRequested, Requested
  <2> QED BY <2>3, <2>4, <2>5
<1>2. ASSUME NEW c \in Calls, Cancel(c) \/ CleanUp(c) PROVE PolicyInv'
  <2>1. /\ UNCHANGED <<basis, verdict, chan, always, rules, draft, rpc>>
        /\ pending' \subseteq pending
        /\ \A d \in Calls : /\ pc'[d] \in {pc[d], "dropped"}
                            /\ "timeout" \in events'[d] => "timeout" \in events[d]
    BY <1>2 DEF Cancel, CleanUp, DropEntry, Publish, Goto, TypeOK, fileVars, callVars
  <2>2. RiskInv' BY <2>1, CallsAssumption DEF RiskInv, AlwaysAsked
  <2>3. TimeoutInv' BY <2>1 DEF TimeoutInv
  <2>4. RuleInv' BY <2>1 DEF RuleInv, RuleWasRequested, Requested
  <2> QED BY <2>2, <2>3, <2>4
<1>3. ASSUME NEW r \in Requests,
             RpcStep(r) \/ \E op \in Ops, c \in Calls, t \in Targets : SendRpc(r, op, c, t)
      PROVE  PolicyInv'
  <2>1. /\ UNCHANGED <<pc, basis, verdict, rules, draft>>
        /\ pending' \subseteq pending
        /\ \A d \in Calls : "timeout" \in events'[d] => "timeout" \in events[d]
    BY <1>3 DEF RpcStep, PeekVeto, InsertFlag, Validate, Resolve, SettleAlways, SendRpc, Publish,
         TypeOK, fileVars, callVars
  <2>2. RiskInv' BY <2>1 DEF RiskInv
  <2>3. TimeoutInv' BY <2>1 DEF TimeoutInv
  <2>4. \A d \in Calls : chan[d] # "none" => chan'[d] = chan[d]
    <3>1. CASE Resolve(r)
      BY <3>1 DEF Resolve, PromptInv, EntryInv, TypeOK
    <3>2. CASE ~Resolve(r)
      BY <1>3, <3>2 DEF RpcStep, PeekVeto, InsertFlag, Validate, SettleAlways, SendRpc
    <3> QED BY <3>1, <3>2
  <2>5. \A d \in Calls : Requested(d) => Requested(d)'
    <3>1. \A q \in Requests \ {r} : rpc'[q] = rpc[q]
      BY <1>3 DEF RpcStep, PeekVeto, InsertFlag, Validate, Resolve, SettleAlways, SendRpc, RpcGoto, TypeOK
    <3>2. rpc[r].pc # "idle" => rpc'[r].pc # "idle" /\ rpc'[r].op = rpc[r].op /\ rpc'[r].call = rpc[r].call
      <4> SUFFICES ASSUME rpc[r].pc # "idle"
                   PROVE  rpc'[r].pc # "idle" /\ rpc'[r].op = rpc[r].op /\ rpc'[r].call = rpc[r].call
        OBVIOUS
      <4>1. rpc[r] \in Sent BY DEF TypeOK, Idle
      <4>2. CASE PeekVeto(r)
        <5>1. PICK x : rpc' = [rpc EXCEPT ![r].pc = "flag", ![r].note = x] BY <4>2 DEF PeekVeto
        <5> QED BY <4>1, <5>1 DEF TypeOK, Sent
      <4>3. CASE InsertFlag(r) BY <4>1, <4>3 DEF InsertFlag, RpcGoto, TypeOK, Sent
      <4>4. CASE Validate(r) BY <4>1, <4>4 DEF Validate, RpcGoto, TypeOK, Sent
      <4>5. CASE Resolve(r) BY <4>1, <4>5 DEF Resolve, RpcGoto, TypeOK, Sent
      <4>6. CASE SettleAlways(r) BY <4>1, <4>6 DEF SettleAlways, RpcGoto, TypeOK, Sent
      <4>7. CASE \E op \in Ops, c \in Calls, t \in Targets : SendRpc(r, op, c, t)
        BY <4>7 DEF SendRpc, RpcAt
      <4> QED BY <1>3, <4>2, <4>3, <4>4, <4>5, <4>6, <4>7 DEF RpcStep
    <3> QED BY <3>1, <3>2 DEF Requested
  <2>6. \A d \in Calls : d \in always' => d \in always \/ Requested(d)
    <3>1. CASE InsertFlag(r)
      <4>1. rpc[r] \in Sent /\ rpc[r].pc = "flag" BY <3>1 DEF InsertFlag, RpcAt, TypeOK, Idle
      <4>2. rpc[r].op = "always" BY <4>1 DEF RuleInv
      <4> QED BY <3>1, <4>1, <4>2 DEF InsertFlag, Requested
    <3>2. CASE ~InsertFlag(r)
      BY <1>3, <3>2 DEF RpcStep, PeekVeto, Validate, Resolve, SettleAlways, SendRpc
    <3> QED BY <3>1, <3>2
  <2>7. RuleInv'
    <3>1. \A d \in Calls :
            /\ d \in always' \/ pc'[d] \in {"notes", "append", "writing"} => Requested(d)'
            /\ pc'[d] \in {"append", "writing"} => d \notin RawVeto
      BY <2>1, <2>5, <2>6 DEF RuleInv
    <3>2. \A t \in rules.allows \cup draft.allows :
            \E d \in Calls \ RawVeto : Target[d] = t /\ chan'[d] = "approve" /\ Requested(d)'
      BY <2>4, <2>5 DEF RuleInv, RuleWasRequested, Requested
    <3>3. ASSUME NEW q \in Requests, rpc'[q].pc \in {"note", "flag"} PROVE rpc'[q].op = "always"
      <4>1. CASE q # r
        <5>1. rpc'[q] = rpc[q]
          BY <1>3, <4>1 DEF RpcStep, PeekVeto, InsertFlag, Validate, Resolve, SettleAlways, SendRpc,
               RpcGoto, TypeOK
        <5> QED BY <3>3, <5>1 DEF RuleInv
      <4>2. CASE q = r /\ PeekVeto(r)
        <5>1. rpc[r] \in Sent /\ rpc[r].pc = "note" BY <4>2 DEF PeekVeto, RpcAt, TypeOK, Idle
        <5>2. PICK x : rpc' = [rpc EXCEPT ![r].pc = "flag", ![r].note = x] BY <4>2 DEF PeekVeto
        <5>3. rpc'[r].op = rpc[r].op BY <5>1, <5>2 DEF TypeOK, Sent
        <5> QED BY <4>2, <5>1, <5>3 DEF RuleInv
      <4>3. CASE q = r /\ (InsertFlag(r) \/ Validate(r) \/ Resolve(r) \/ SettleAlways(r))
        <5>1. rpc'[r].pc \in {"resolve", "done", "settle"}
          BY <4>3 DEF InsertFlag, Validate, Resolve, SettleAlways, RpcAt, RpcGoto, TypeOK, Idle, Sent
        <5> QED BY <3>3, <4>3, <5>1
      <4>4. CASE q = r /\ \E op \in Ops, c \in Calls, t \in Targets : SendRpc(r, op, c, t)
        BY <3>3, <4>4 DEF SendRpc, Ops, TypeOK
      <4> QED BY <1>3, <4>1, <4>2, <4>3, <4>4 DEF RpcStep
    <3> QED BY <2>1, <3>1, <3>2, <3>3 DEF RuleInv, RuleWasRequested, Requested
  <2> QED BY <2>2, <2>3, <2>7
<1>4. CASE (\E m \in Modes : SetMode(m)) \/ UNCHANGED vars
  <2>1. UNCHANGED <<pending, always, rules, draft, pc, chan, verdict, basis, events, rpc>>
    BY <1>4 DEF SetMode, vars, fileVars, callVars
  <2> QED BY <2>1 DEF RiskInv, TimeoutInv, RuleInv, RuleWasRequested, Requested
<1> QED BY <1>1, <1>2, <1>3, <1>4 DEF Next

LEMMA PolicyInvariant == Spec => []PolicyInv
<1>1. Init => PolicyInv
  <2> SUFFICES ASSUME Init PROVE PolicyInv OBVIOUS
  <2>1. RiskInv BY CallsAssumption DEF Init, RiskInv, AlwaysAsked
  <2>2. TimeoutInv BY DEF Init, TimeoutInv
  <2>3. rules.allows \cup draft.allows = {} BY DEF Init, NoRules
  <2>4. RuleWasRequested BY <2>3 DEF RuleWasRequested
  <2>5. RuleInv BY <2>4 DEF Init, RuleInv, Idle
  <2> QED BY <2>1, <2>2, <2>5 DEF PolicyInv
<1> QED BY <1>1, NextPolicy, TypeCorrect, PromptInvariant, PTL DEF Spec

\* Every step keeps what the hand-written Deny rules stopped.
LEMMA NextDeny ==
    ASSUME TypeOK, PromptInv, DenyInv, [Next]_vars
    PROVE  DenyInv'
<1>1. ASSUME NEW c \in Calls, CallStep(c) PROVE DenyInv'
  <2>1. \A d \in Calls \ {c} :
          pc'[d] = pc[d] /\ verdict'[d] = verdict[d] /\ basis'[d] = basis[d]
    BY <1>1, CallStepOthers
  <2>2. /\ pc'[c] # "done" => args'[c] = Target[c]
        /\ PastRules(c)' /\ c \notin blind' => BaseRule[Target[c]] # "deny"
        /\ Granted(c)' /\ c \notin blind' /\ basis'[c] # "ungated" /\ (Path[c] # "acp" \/ verdict'[c] = "approve") =>
              BaseRule[args'[c]] # "deny"
        /\ \A d \in Calls \ {c} : args'[d] = args[d] /\ (d \in blind' <=> d \in blind)
    BY <1>1, CallStepDeny
  <2>3. ASSUME NEW d \in Calls
        PROVE  /\ pc'[d] # "done" => args'[d] = Target[d]
               /\ PastRules(d)' /\ d \notin blind' => BaseRule[Target[d]] # "deny"
               /\ Granted(d)' /\ d \notin blind' /\ basis'[d] # "ungated" /\ (Path[d] # "acp" \/ verdict'[d] = "approve") =>
                     BaseRule[args'[d]] # "deny"
    <3>1. CASE d = c BY <2>2, <3>1
    <3>2. CASE d # c BY <2>1, <2>2, <3>2 DEF DenyInv, DenyRulesHold, Granted, PastRules
    <3> QED BY <3>1, <3>2
  <2> QED BY <2>2, <2>3 DEF DenyInv, DenyRulesHold
<1>2. ASSUME NEW c \in Calls, Cancel(c) \/ CleanUp(c) PROVE DenyInv'
  <2>1. /\ UNCHANGED <<basis, verdict, blind, args>>
        /\ \A d \in Calls : pc'[d] = pc[d] \/ (pc[d] # "done" /\ pc'[d] = "dropped")
    BY <1>2 DEF Cancel, CleanUp, Awaiting, Goto, TypeOK, fileVars, callVars
  <2> QED
    BY <2>1 DEF DenyInv, DenyRulesHold, Granted, PastRules, Suspended, Approving
<1>3. ASSUME NEW r \in Requests,
             RpcStep(r) \/ \E op \in Ops, c \in Calls, t \in Targets : SendRpc(r, op, c, t)
      PROVE  DenyInv'
  <2>1. UNCHANGED <<pc, basis, verdict, blind, args>>
    BY <1>3 DEF RpcStep, PeekVeto, InsertFlag, Validate, Resolve, SettleAlways, SendRpc, fileVars, callVars
  <2> QED BY <2>1 DEF DenyInv, DenyRulesHold, Granted, PastRules
<1>4. CASE (\E m \in Modes : SetMode(m)) \/ UNCHANGED vars
  <2>1. UNCHANGED <<pc, basis, verdict, blind, args>>
    BY <1>4 DEF SetMode, vars, fileVars, callVars
  <2> QED BY <2>1 DEF DenyInv, DenyRulesHold, Granted, PastRules
<1> QED BY <1>1, <1>2, <1>3, <1>4 DEF Next

-----------------------------------------------------------------------------
(* The invariant and the policy properties *)

\* The inductive invariant holds in every reachable state.
THEOREM GateInvariant == Spec => []GateInv
<1>1. TypeOK /\ PromptInv /\ PolicyInv => GateInv BY DEF GateInv
<1> QED BY <1>1, PromptInvariant, PolicyInvariant, TypeCorrect, PTL

\* A high-risk mutation of the turn loop is never approved by the session mode,
\* whenever the mode changes.
THEOREM RiskAsksHuman == Spec => []HighRiskNeverByMode
<1>1. TypeOK /\ PromptInv /\ PolicyInv => HighRiskNeverByMode
  BY CallsAssumption
     DEF PromptInv, StageInv, PolicyInv, RiskInv, AlwaysAsked, HighRiskNeverByMode, Granted, TypeOK
<1> QED BY <1>1, PromptInvariant, PolicyInvariant, TypeCorrect, PTL

\* A permission rule is only persisted for an approved call that an
\* allow-always request named.
THEOREM RulesAreRequested == Spec => []RuleWasRequested
<1>1. PolicyInv => RuleWasRequested BY DEF PolicyInv, RuleInv
<1> QED BY <1>1, PolicyInvariant, PTL

\* After the broadcast of a timeout no request resolves the call and nothing
\* grants it.
THEOREM TimeoutsAreFinal == Spec => TimeoutIsFinal
<1>1. TypeOK /\ TypeOK' /\ PromptInv /\ PromptInv' /\ PolicyInv /\ PolicyInv' /\ [Next]_vars
      => [\A c \in Calls : "timeout" \in events[c] => Resolvers(c)' = Resolvers(c) /\ ~Granted(c)']_vars
  <2> SUFFICES ASSUME TypeOK, TypeOK', PromptInv, PromptInv', PolicyInv, PolicyInv', Next,
                      NEW c \in Calls, "timeout" \in events[c]
               PROVE  Resolvers(c)' = Resolvers(c) /\ ~Granted(c)'
    OBVIOUS
  <2> USE DEF PolicyInv
  <2>1. c \notin pending BY DEF TimeoutInv
  <2>2. "timeout" \in events'[c]
    <3>1. ASSUME NEW d \in Calls, CallStep(d) PROVE events[c] \subseteq events'[c]
      BY <3>1 DEF CallStep, BeginBatchedRead, BeginReadOnlyRole, BeginSingle, Peek, BeginGated, ConsultRules,
           ConsultMode, Register, Announce, Wake, Expire, TimeoutDeny, TakeAlways, TakeNote,
           AppendOpen, AppendWrite, AppendFail, Settle, Publish, TypeOK
    <3>2. ASSUME NEW d \in Calls, Cancel(d) \/ CleanUp(d) PROVE events[c] \subseteq events'[c]
      BY <3>2 DEF Cancel, CleanUp, DropEntry, Publish, TypeOK
    <3>3. ASSUME NEW r \in Requests, RpcStep(r) PROVE events[c] \subseteq events'[c]
      BY <3>3 DEF RpcStep, PeekVeto, InsertFlag, Validate, Resolve, SettleAlways, Publish, TypeOK
    <3>4. CASE \/ \E r \in Requests, op \in Ops, d \in Calls, t \in Targets : SendRpc(r, op, d, t)
               \/ \E m \in Modes : SetMode(m)
      BY <3>4 DEF SendRpc, SetMode
    <3> QED BY <3>1, <3>2, <3>3, <3>4 DEF Next
  <2>3. ~Granted(c)'
    <3>1. pc'[c] = "done" => basis'[c] = "timeout" BY <2>2 DEF TimeoutInv
    <3>2. pc'[c] = "done" /\ basis'[c] = "timeout" => verdict'[c] = "deny"
      BY DEF PromptInv, StageInv
    <3> QED BY <3>1, <3>2 DEF Granted
  <2>4. Resolvers(c)' = Resolvers(c)
    <3> DEFINE In(x) == x.pc # "idle" /\ x.call = c /\ x.found
    <3>1. ASSUME NEW r \in Requests PROVE In(rpc'[r]) <=> In(rpc[r])
      <4>1. CASE rpc'[r] = rpc[r] BY <4>1
      <4>2. CASE PeekVeto(r)
        <5>1. rpc[r] \in Sent BY <4>2 DEF PeekVeto, RpcAt, TypeOK, Idle
        <5>2. PICK x : rpc' = [rpc EXCEPT ![r].pc = "flag", ![r].note = x] BY <4>2 DEF PeekVeto
        <5> QED BY <4>2, <5>1, <5>2 DEF PeekVeto, RpcAt, TypeOK, Sent
      <4>3. CASE InsertFlag(r) \/ Validate(r) \/ SettleAlways(r)
        BY <4>3 DEF InsertFlag, Validate, SettleAlways, RpcAt, RpcGoto, TypeOK, Idle, Sent
      <4>4. CASE Resolve(r)
        <5>1. rpc[r] \in Sent /\ rpc[r].pc = "resolve" BY <4>4 DEF Resolve, RpcAt, TypeOK, Idle
        <5>2. CASE rpc[r].call = c
          BY <2>1, <4>4, <5>1, <5>2 DEF Resolve, RpcGoto, TypeOK, Sent
        <5>3. CASE rpc[r].call # c
          BY <4>4, <5>1, <5>3 DEF Resolve, RpcGoto, TypeOK, Sent
        <5> QED BY <5>2, <5>3
      <4>5. CASE \E op \in Ops, d \in Calls, t \in Targets : SendRpc(r, op, d, t)
        BY <4>5 DEF SendRpc, RpcAt, TypeOK
      <4>6. \/ rpc'[r] = rpc[r] \/ RpcStep(r)
            \/ \E op \in Ops, d \in Calls, t \in Targets : SendRpc(r, op, d, t)
        <5>1. ASSUME NEW d \in Calls, CallStep(d) PROVE rpc'[r] = rpc[r] BY <5>1, CallStepFrame
        <5>2. ASSUME NEW d \in Calls, Cancel(d) \/ CleanUp(d) PROVE rpc'[r] = rpc[r]
          BY <5>2 DEF Cancel, CleanUp
        <5>3. ASSUME NEW q \in Requests, q # r,
                     RpcStep(q) \/ \E op \in Ops, d \in Calls, t \in Targets : SendRpc(q, op, d, t)
              PROVE  rpc'[r] = rpc[r]
          BY <5>3 DEF RpcStep, PeekVeto, InsertFlag, Validate, Resolve, SettleAlways, SendRpc, RpcGoto, TypeOK
        <5>4. CASE \E m \in Modes : SetMode(m) BY <5>4 DEF SetMode
        <5> QED BY <5>1, <5>2, <5>3, <5>4 DEF Next
      <4> QED BY <4>1, <4>2, <4>3, <4>4, <4>5, <4>6 DEF RpcStep
    <3> QED BY <3>1 DEF Resolvers
  <2> QED BY <2>3, <2>4
<1> QED BY <1>1, PromptInvariant, PolicyInvariant, TypeCorrect, PTL DEF Spec, TimeoutIsFinal

\* A hand-written Deny rule holds for every call that saw the hand-written rules
\* when it last checked them, whatever is appended to the file meanwhile.
THEOREM DenyRulesStand == Spec => []DenyRulesHold
<1>1. Init => DenyInv
  BY DEF Init, DenyInv, DenyRulesHold, Granted, PastRules, Suspended, Approving
<1>2. TypeOK /\ PromptInv /\ DenyInv /\ [Next]_vars => DenyInv' BY NextDeny
<1>3. DenyInv => DenyRulesHold BY DEF DenyInv
<1> QED BY <1>1, <1>2, <1>3, PromptInvariant, TypeCorrect, PTL DEF Spec

=============================================================================
