----------------------------- MODULE CoworkGate -----------------------------
(***************************************************************************)
(* The human approval gate of one session (bin/smdjad/src/cowork.rs),      *)
(* together with the four callers that drive tool calls through it (the    *)
(* single-call and batch arms of the turn loop, the claude PreToolUse      *)
(* hook, the industry-ACP bridge and @shell fragments) and the RPC         *)
(* requests that answer it (handlers/audit.rs).                            *)
(*                                                                         *)
(* A call suspends by inserting an entry in `pending` and awaiting a       *)
(* oneshot channel; an RPC request resolves it by removing the entry under *)
(* the same lock.  Every action is one lock-delimited section: between two *)
(* actions of a task the code awaits a lock, a timer or a channel, or runs *)
(* synchronously while another thread may run.  Approval ids are UUIDs, so *)
(* a call stands for its own approval id.                                  *)
(***************************************************************************)
EXTENDS Naturals, Sequences, FiniteSets

CONSTANTS
    Calls,        \* gated tool calls; each is its own approval id
    Requests,     \* cowork.approve / deny / modify / resolve RPCs, one task each
    Targets,      \* the scopes (tool, path, command) a permission rule can name
    Kind,         \* Calls -> ToolKind of the tool
    Path,         \* Calls -> the code path that gates the call
    Target,       \* Calls -> the scope of the call's arguments
    HighRisk,     \* calls made under a high-risk (IaC) role
    ReadOnlyRole, \* calls made under a role that may never mutate
    RawVeto,      \* calls whose raw arguments may not be persisted
    ScrubVeto,    \* calls whose scrubbed arguments may not be persisted
    BaseRule      \* Targets -> the hand-written rule in .smedja/workspace.toml

Modes == {"ask", "accept_edits", "plan", "auto"}
ToolKinds == {"read", "edit", "exec"}
Paths == {"single", "batch", "hook", "acp", "shell"}
Verdicts == {"allow", "deny", "ask"}

ASSUME CallsAssumption ==
    /\ Kind \in [Calls -> ToolKinds]
    /\ Path \in [Calls -> Paths]
    /\ Target \in [Calls -> Targets]
    /\ HighRisk \subseteq Calls
    /\ ReadOnlyRole \subseteq Calls
    /\ RawVeto \subseteq Calls
    /\ ScrubVeto \subseteq Calls
    /\ BaseRule \in [Targets -> Verdicts \cup {"none"}]

VARIABLES
    mode,     \* CoworkGate::mode
    pending,  \* CoworkGate::pending, the ids awaiting a decision
    always,   \* CoworkGate::always_ids
    notes,    \* CoworkGate::always_notes
    rules,    \* .smedja/workspace.toml as a reader sees it now
    draft,    \* the text the holder of rule_write_lock is about to write
    blind,    \* calls whose last rule check found no hand-written rules (history)
    pc,       \* where each call is
    seen,     \* the mode gate_tool_call read before gating
    chan,     \* the decision sent on the call's oneshot
    sent,     \* the replacement arguments of a modify decision
    args,     \* the scope the call would execute with
    verdict,  \* the decision the caller of the gate acts on
    basis,    \* why: a rule, the mode, the human, the timer, the role
    events,   \* CoworkRequest / CoworkResolved events published, per call
    audited,  \* calls with an auto_approved audit event
    cleanup,  \* removals PendingGuard::drop handed to a spawned task
    rpc       \* the resolving requests

fileVars == <<rules, draft, blind>>
callVars == <<pc, seen, args, verdict, basis, audited>>
vars == <<mode, pending, always, notes, fileVars, pc, seen, chan, sent,
          args, verdict, basis, events, audited, cleanup, rpc>>

-----------------------------------------------------------------------------
(* Policy *)

\* evaluate(mode, tool)
Evaluate(m, kind) ==
    IF kind = "read" \/ m = "auto" \/ (m = "accept_edits" /\ kind = "edit")
    THEN "allow"
    ELSE IF m = "plan" THEN "deny" ELSE "ask"

\* A rules file: the hand-written rules and the allow rules appended after them.
RulesFile == [base : BOOLEAN, allows : SUBSET Targets]

\* What a reader finds while std::fs::write has truncated the file, and what
\* load_permission_rules answers for a file that does not parse: no rules.
NoRules == [base |-> FALSE, allows |-> {}]

\* evaluate_permission_rules: first match in document order, or "none".
RuleVerdict(file, t) ==
    IF file.base /\ BaseRule[t] # "none" THEN BaseRule[t]
    ELSE IF t \in file.allows THEN "allow" ELSE "none"

\* The call's rules are read from the file as it is now.
CheckRules(c) ==
    /\ blind' = IF rules.base THEN blind \ {c} ELSE blind \cup {c}
    /\ UNCHANGED <<rules, draft>>

\* A variant that re-checks the arguments the human saw, not the replacement.
ModifyDeniedOnOriginal(c) ==
    Path[c] # "acp" /\ RuleVerdict(rules, Target[c]) = "deny"

\* modified_input_denied, on the two turn paths and the hook.  The ACP bridge
\* hands the replacement to its client without the re-check.
ModifyDenied(c) ==
    /\ Path[c] # "acp"
    /\ RuleVerdict(rules, sent[c]) = "deny"

\* A variant that takes only edits for mutations.
ForcedForEdits(c) == Path[c] = "single" /\ c \in HighRisk /\ Kind[c] = "edit"

\* gate_tool_forced_ask is only reached from gate_tool_call.
Forced(c) == Path[c] = "single" /\ c \in HighRisk /\ Kind[c] # "read"

\* @shell passes no dispatcher (push = None): nothing is broadcast for it.
Announced(c) == Path[c] # "shell"

Publish(c, e) == IF Announced(c) THEN [events EXCEPT ![c] = @ \cup {e}] ELSE events

-----------------------------------------------------------------------------
Stages == {"new", "peek", "rules", "mode", "register", "announce", "waiting",
           "expired", "woken", "notes", "append", "writing", "settle",
           "done", "dropped"}
RpcStages == {"note", "flag", "validate", "resolve", "settle", "done"}
Ops == {"approve", "always", "deny", "modify"}
Events == {"request", "approved", "denied", "timeout", "cancelled"}

\* A request nobody has sent yet, and one in flight or answered.
Idle == [pc |-> "idle"]
Sent == [op : Ops, call : Calls, edit : Targets, pc : RpcStages,
         note : BOOLEAN, found : BOOLEAN]

Init ==
    /\ mode = "ask"
    /\ pending = {}
    /\ always = {}
    /\ notes = {}
    /\ rules = [base |-> TRUE, allows |-> {}]
    /\ draft = NoRules
    /\ blind = {}
    /\ pc = [c \in Calls |-> "new"]
    /\ seen = [c \in Calls |-> "ask"]
    /\ chan = [c \in Calls |-> "none"]
    /\ sent = Target
    /\ args = Target
    /\ verdict = [c \in Calls |-> "none"]
    /\ basis = [c \in Calls |-> "none"]
    /\ events = [c \in Calls |-> {}]
    /\ audited = {}
    /\ cleanup = {}
    /\ rpc = [r \in Requests |-> Idle]

-----------------------------------------------------------------------------
(* The gated call *)

At(c, stage) == pc[c] = stage
Goto(c, stage) == pc' = [pc EXCEPT ![c] = stage]

\* The gate (or its caller) has its answer; the caller still has to act on it.
Decide(c, v, b) ==
    /\ Goto(c, "settle")
    /\ verdict' = [verdict EXCEPT ![c] = v]
    /\ basis' = [basis EXCEPT ![c] = b]

\* run_multi_tool_batch runs the tools of READ_ONLY_TOOLS without any gate.
BeginBatchedRead(c) ==
    /\ At(c, "new") /\ Path[c] = "batch" /\ Kind[c] = "read"
    /\ Decide(c, "approve", "ungated")
    /\ UNCHANGED <<mode, pending, always, notes, fileVars, seen, chan, sent,
                   args, events, audited, cleanup, rpc>>

\* A read-only role never mutates, whatever the mode.
BeginReadOnlyRole(c) ==
    /\ At(c, "new") /\ Path[c] \in {"single", "batch"}
    /\ c \in ReadOnlyRole /\ Kind[c] # "read"
    /\ Decide(c, "deny", "role")
    /\ UNCHANGED <<mode, pending, always, notes, fileVars, seen, chan, sent,
                   args, events, audited, cleanup, rpc>>

\* gate_tool_call evaluates the rules once itself: a Deny stops here, an Allow
\* will skip the gate, anything else reaches gate_tool, which reads them again.
BeginSingle(c) ==
    /\ At(c, "new") /\ Path[c] = "single"
    /\ ~(c \in ReadOnlyRole /\ Kind[c] # "read")
    /\ CASE RuleVerdict(rules, Target[c]) = "deny"  -> Decide(c, "deny", "rule")
         [] RuleVerdict(rules, Target[c]) = "allow" ->
                Goto(c, "peek") /\ UNCHANGED verdict
                    /\ basis' = [basis EXCEPT ![c] = "rule"]
         [] OTHER -> Goto(c, "peek") /\ UNCHANGED <<verdict, basis>>
    /\ CheckRules(c)
    /\ UNCHANGED <<mode, pending, always, notes, seen, chan, sent,
                   args, events, audited, cleanup, rpc>>

\* gate_tool_call reads the mode for the audit trail, then enters the gate.
Peek(c) ==
    /\ At(c, "peek")
    /\ seen' = [seen EXCEPT ![c] = mode]
    /\ IF basis[c] = "rule" THEN Decide(c, "approve", "rule")
       ELSE Goto(c, "rules") /\ UNCHANGED <<verdict, basis>>
    /\ UNCHANGED <<mode, pending, always, notes, fileVars, chan, sent, args,
                   events, audited, cleanup, rpc>>

\* The other callers enter the gate directly.
BeginGated(c) ==
    /\ At(c, "new") /\ Path[c] \in {"batch", "hook", "acp", "shell"}
    /\ ~(Path[c] = "batch" /\ (Kind[c] = "read" \/ c \in ReadOnlyRole))
    /\ Goto(c, "rules")
    /\ UNCHANGED <<mode, pending, always, notes, fileVars, seen, chan, sent,
                   args, verdict, basis, events, audited, cleanup, rpc>>

\* rule_decision: Allow and Deny answer outright; an Ask rule, a forced ask and
\* an @shell fragment suspend; no match falls through to the session mode.
ConsultRules(c) ==
    /\ At(c, "rules")
    /\ LET v == RuleVerdict(rules, Target[c])
       IN CASE v = "allow" -> Decide(c, "approve", "rule")
            [] v = "deny"  -> Decide(c, "deny", "rule")
            [] v = "ask" \/ (v = "none" /\ (Forced(c) \/ Path[c] = "shell")) ->
                   Goto(c, "register") /\ UNCHANGED <<verdict, basis>>
            [] OTHER -> Goto(c, "mode") /\ UNCHANGED <<verdict, basis>>
    /\ CheckRules(c)
    /\ UNCHANGED <<mode, pending, always, notes, seen, chan, sent,
                   args, events, audited, cleanup, rpc>>

\* evaluate under the mode read now.
ConsultMode(c) ==
    /\ At(c, "mode")
    /\ CASE Evaluate(mode, Kind[c]) = "allow" -> Decide(c, "approve", "mode")
         [] Evaluate(mode, Kind[c]) = "deny"  -> Decide(c, "deny", "mode")
         [] OTHER -> Goto(c, "register") /\ UNCHANGED <<verdict, basis>>
    /\ UNCHANGED <<mode, pending, always, notes, fileVars, seen, chan, sent,
                   args, events, audited, cleanup, rpc>>

\* intercept_tracked inserts the entry and releases the lock ...
Register(c) ==
    /\ At(c, "register")
    /\ pending' = pending \cup {c}
    /\ Goto(c, "announce")
    /\ UNCHANGED <<mode, always, notes, fileVars, seen, chan, sent, args,
                   verdict, basis, events, audited, cleanup, rpc>>

\* ... and only then publishes the CoworkRequest.
Announce(c) ==
    /\ At(c, "announce")
    /\ events' = Publish(c, "request")
    /\ Goto(c, "waiting")
    /\ UNCHANGED <<mode, pending, always, notes, fileVars, seen, chan, sent,
                   args, verdict, basis, audited, cleanup, rpc>>

\* A variant that takes whatever arrives for an approval.
WakeApproved(c) ==
    /\ At(c, "waiting") /\ chan[c] # "none"
    /\ verdict' = [verdict EXCEPT ![c] = "approve"]
    /\ basis' = [basis EXCEPT ![c] = "human"]
    /\ Goto(c, "woken")
    /\ UNCHANGED <<mode, pending, always, notes, fileVars, seen, chan, sent,
                   args, events, audited, cleanup, rpc>>

\* The oneshot delivers; only an Approve goes on to take_always.
Wake(c) ==
    /\ At(c, "waiting") /\ chan[c] # "none"
    /\ verdict' = [verdict EXCEPT ![c] = chan[c]]
    /\ basis' = [basis EXCEPT ![c] = "human"]
    /\ Goto(c, IF chan[c] = "approve" THEN "woken" ELSE "settle")
    /\ UNCHANGED <<mode, pending, always, notes, fileVars, seen, chan, sent,
                   args, events, audited, cleanup, rpc>>

\* A variant that awaits the channel without the timer.
ExpireNever(c) == At(c, "waiting") /\ FALSE /\ UNCHANGED vars

\* tokio::time::timeout polls the receiver first, so it elapses only while
\* nothing has been sent.  The lock is taken in a later step.
Expire(c) ==
    /\ At(c, "waiting") /\ chan[c] = "none"
    /\ Goto(c, "expired")
    /\ UNCHANGED <<mode, pending, always, notes, fileVars, seen, chan, sent,
                   args, verdict, basis, events, audited, cleanup, rpc>>

\* Variants that fail open, that leave the entry in the map, and that do not
\* broadcast the dismissal.
TimeoutApprove(c) ==
    /\ At(c, "expired")
    /\ pending' = pending \ {c}
    /\ events' = Publish(c, "timeout")
    /\ Decide(c, "approve", "timeout")
    /\ UNCHANGED <<mode, always, notes, fileVars, seen, chan, sent, args,
                   audited, cleanup, rpc>>

TimeoutKeepingEntry(c) ==
    /\ At(c, "expired")
    /\ events' = Publish(c, "timeout")
    /\ Decide(c, "deny", "timeout")
    /\ UNCHANGED <<mode, pending, always, notes, fileVars, seen, chan, sent, args,
                   audited, cleanup, rpc>>

TimeoutSilently(c) ==
    /\ At(c, "expired")
    /\ pending' = pending \ {c}
    /\ Decide(c, "deny", "timeout")
    /\ UNCHANGED <<mode, always, notes, fileVars, seen, chan, sent, args,
                   events, audited, cleanup, rpc>>

\* Removes the entry, then broadcasts the timeout even when a resolve got
\* there first, and denies.
TimeoutDeny(c) ==
    /\ At(c, "expired")
    /\ pending' = pending \ {c}
    /\ events' = Publish(c, "timeout")
    /\ Decide(c, "deny", "timeout")
    /\ UNCHANGED <<mode, always, notes, fileVars, seen, chan, sent, args,
                   audited, cleanup, rpc>>

\* A variant that persists a rule for every approval.
TakeAlwaysUnflagged(c) ==
    /\ At(c, "woken")
    /\ always' = always \ {c}
    /\ Goto(c, "append")
    /\ UNCHANGED <<mode, pending, notes, fileVars, seen, chan, sent, args,
                   verdict, basis, events, audited, cleanup, rpc>>

\* take_always consumes the flag.  The ACP bridge never reads the note.
TakeAlways(c) ==
    /\ At(c, "woken")
    /\ always' = always \ {c}
    /\ Goto(c, CASE c \notin always -> "settle"
                 [] c \in always /\ Path[c] # "acp" -> "notes"
                 [] OTHER -> IF c \in RawVeto THEN "settle" ELSE "append")
    /\ UNCHANGED <<mode, pending, notes, fileVars, seen, chan, sent, args,
                   verdict, basis, events, audited, cleanup, rpc>>

\* take_always_note is evaluated whatever the raw veto says.
TakeNote(c) ==
    /\ At(c, "notes")
    /\ notes' = notes \ {c}
    /\ Goto(c, IF c \in RawVeto \/ c \in notes THEN "settle" ELSE "append")
    /\ UNCHANGED <<mode, pending, always, fileVars, seen, chan, sent, args,
                   verdict, basis, events, audited, cleanup, rpc>>

\* append_allow_rule under rule_write_lock: an identical rule ends the call;
\* otherwise std::fs::write truncates the file before it writes the new text.
AppendOpen(c) ==
    /\ At(c, "append") /\ \A d \in Calls : ~At(d, "writing")
    /\ IF Target[c] \in rules.allows
       THEN Goto(c, "settle") /\ UNCHANGED fileVars
       ELSE /\ draft' = [rules EXCEPT !.allows = @ \cup {Target[c]}]
            /\ rules' = NoRules
            /\ UNCHANGED blind
            /\ Goto(c, "writing")
    /\ UNCHANGED <<mode, pending, always, notes, seen, chan, sent, args,
                   verdict, basis, events, audited, cleanup, rpc>>

AppendWrite(c) ==
    /\ At(c, "writing")
    /\ rules' = draft
    /\ Goto(c, "settle")
    /\ UNCHANGED <<mode, pending, always, notes, draft, blind, seen, chan, sent, args,
                   verdict, basis, events, audited, cleanup, rpc>>

\* The write fails after the truncation: the error is logged, the file stays empty.
AppendFail(c) ==
    /\ At(c, "writing")
    /\ Goto(c, "settle")
    /\ UNCHANGED <<mode, pending, always, notes, fileVars, seen, chan, sent,
                   args, verdict, basis, events, audited, cleanup, rpc>>

\* The caller acts: gate_tool_call records an auto_approved event from the mode
\* it read before the gate; a modify adopts its arguments unless they are denied.
Settle(c) ==
    /\ At(c, "settle")
    /\ Goto(c, "done")
    /\ audited' = IF /\ Path[c] = "single" /\ verdict[c] = "approve"
                     /\ seen[c] = "auto" /\ Evaluate("ask", Kind[c]) = "ask"
                  THEN audited \cup {c} ELSE audited
    /\ verdict' = IF verdict[c] = "modify" /\ ModifyDenied(c)
                  THEN [verdict EXCEPT ![c] = "deny"] ELSE verdict
    /\ args' = IF verdict'[c] = "modify" THEN [args EXCEPT ![c] = sent[c]] ELSE args
    /\ IF verdict[c] = "modify" /\ Path[c] # "acp" THEN CheckRules(c) ELSE UNCHANGED fileVars
    /\ UNCHANGED <<mode, pending, always, notes, seen, chan, sent,
                   basis, events, cleanup, rpc>>

-----------------------------------------------------------------------------
(* Cancellation: turn.cancel aborts the turn task, the batch deadline drops  *)
(* its future, a closed ACP connection drops the handler's.  The RPC tasks   *)
(* of the hook and of turn.submit run to their end.                          *)

Abortable(c) == Path[c] \in {"single", "batch", "acp"}

\* Stages at which the future is suspended in an await.
Awaiting == {"new", "peek", "mode", "register", "waiting", "expired", "woken",
             "notes", "settle"}

\* PendingGuard::remove_and_notify_cancelled
DropEntry(c) ==
    /\ pending' = pending \ {c}
    /\ events' = IF c \in pending THEN Publish(c, "cancelled") ELSE events

\* A variant without the guard: the dropped future leaves its entry behind.
CancelWithoutGuard(c) ==
    /\ Abortable(c) /\ pc[c] \in Awaiting
    /\ Goto(c, "dropped")
    /\ UNCHANGED <<mode, pending, always, notes, fileVars, seen, chan, sent, args,
                   verdict, basis, events, audited, cleanup, rpc>>

\* The guard removes the entry at once when try_lock succeeds, else in a
\* spawned task.  The guard exists only while intercept_tracked is suspended.
Cancel(c) ==
    /\ Abortable(c) /\ pc[c] \in Awaiting
    /\ Goto(c, "dropped")
    /\ \/ DropEntry(c) /\ UNCHANGED cleanup
       \/ /\ pc[c] \in {"waiting", "expired"}
          /\ cleanup' = cleanup \cup {c}
          /\ UNCHANGED <<pending, events>>
    /\ UNCHANGED <<mode, always, notes, fileVars, seen, chan, sent, args,
                   verdict, basis, audited, rpc>>

\* A variant whose spawned task only broadcasts the cancellation.
CleanUpKeepingEntry(c) ==
    /\ c \in cleanup
    /\ cleanup' = cleanup \ {c}
    /\ events' = IF c \in pending THEN Publish(c, "cancelled") ELSE events
    /\ UNCHANGED <<mode, pending, always, notes, fileVars, callVars, chan, sent, rpc>>

CleanUp(c) ==
    /\ c \in cleanup
    /\ cleanup' = cleanup \ {c}
    /\ DropEntry(c)
    /\ UNCHANGED <<mode, always, notes, fileVars, callVars, chan, sent, rpc>>

-----------------------------------------------------------------------------
(* The resolving requests *)

RpcAt(r, stage) == rpc[r].pc = stage
RpcGoto(r, stage) == rpc' = [rpc EXCEPT ![r].pc = stage]

\* A client learns an id from the stream or from cowork.pending, and may act on
\* it long after.
Known(c) == c \in pending \/ events[c] # {}

\* A variant of handlers/audit.rs approve that ignores the requested scope.
SendRpcAnyScope(r, op, c, t) ==
    /\ RpcAt(r, "idle") /\ Known(c)
    /\ op # "modify" => t = Target[c]
    /\ rpc' = [rpc EXCEPT ![r] =
                 [op |-> op, call |-> c, edit |-> t, note |-> FALSE, found |-> FALSE,
                  pc |-> CASE op \in {"approve", "always"} -> "note"
                           [] op = "modify" -> "validate"
                           [] OTHER -> "resolve"]]
    /\ UNCHANGED <<mode, pending, always, notes, fileVars, callVars, chan,
                   sent, events, cleanup>>

SendRpc(r, op, c, t) ==
    /\ RpcAt(r, "idle") /\ Known(c)
    /\ op # "modify" => t = Target[c]
    /\ rpc' = [rpc EXCEPT ![r] =
                 [op |-> op, call |-> c, edit |-> t, note |-> FALSE, found |-> FALSE,
                  pc |-> CASE op = "always" -> "note"
                           [] op = "modify" -> "validate"
                           [] OTHER -> "resolve"]]
    /\ UNCHANGED <<mode, pending, always, notes, fileVars, callVars, chan,
                   sent, events, cleanup>>

\* approve_always: the veto note from the prompt, if the id is still pending ...
PeekVeto(r) ==
    /\ RpcAt(r, "note")
    /\ rpc' = [rpc EXCEPT ![r].pc = "flag",
                          ![r].note = rpc[r].call \in pending \cap ScrubVeto]
    /\ UNCHANGED <<mode, pending, always, notes, fileVars, callVars, chan,
                   sent, events, cleanup>>

\* ... then the flag, before resolving ...
InsertFlag(r) ==
    /\ RpcAt(r, "flag")
    /\ always' = always \cup {rpc[r].call}
    /\ RpcGoto(r, "resolve")
    /\ UNCHANGED <<mode, pending, notes, fileVars, callVars, chan, sent,
                   events, cleanup>>

\* modify: an unknown id, a backend without a modify channel (@shell) or an
\* instruction that is not a JSON object is rejected, the prompt stays pending.
Validate(r) ==
    /\ RpcAt(r, "validate")
    /\ \/ /\ rpc[r].call \in pending /\ Path[rpc[r].call] # "shell"
          /\ RpcGoto(r, "resolve")
       \/ RpcGoto(r, "done")
    /\ UNCHANGED <<mode, pending, always, notes, fileVars, callVars, chan,
                   sent, events, cleanup>>

\* A variant that looks the entry up without removing it.
ResolveKeepingEntry(r) ==
    /\ RpcAt(r, "resolve")
    /\ LET c == rpc[r].call
           d == IF rpc[r].op = "always" THEN "approve" ELSE rpc[r].op
           next == IF rpc[r].op = "always" THEN "settle" ELSE "done"
       IN IF c \in pending
          THEN /\ pending' = pending
               /\ events' = Publish(c, IF d = "deny" THEN "denied" ELSE "approved")
               /\ chan' = [chan EXCEPT ![c] = d]
               /\ sent' = IF d = "modify" THEN [sent EXCEPT ![c] = rpc[r].edit] ELSE sent
               /\ rpc' = [rpc EXCEPT ![r].pc = next, ![r].found = TRUE]
          ELSE RpcGoto(r, next) /\ UNCHANGED <<pending, events, chan, sent>>
    /\ UNCHANGED <<mode, always, notes, fileVars, callVars, cleanup>>

\* resolve(id, decision), under the pending lock.
Resolve(r) ==
    /\ RpcAt(r, "resolve")
    /\ LET c == rpc[r].call
           d == IF rpc[r].op = "always" THEN "approve" ELSE rpc[r].op
           next == IF rpc[r].op = "always" THEN "settle" ELSE "done"
       IN IF c \in pending
          THEN /\ pending' = pending \ {c}
               /\ events' = Publish(c, IF d = "deny" THEN "denied" ELSE "approved")
               /\ chan' = [chan EXCEPT ![c] = d]
               /\ sent' = IF d = "modify" THEN [sent EXCEPT ![c] = rpc[r].edit] ELSE sent
               /\ rpc' = [rpc EXCEPT ![r].pc = next, ![r].found = TRUE]
          ELSE RpcGoto(r, next) /\ UNCHANGED <<pending, events, chan, sent>>
    /\ UNCHANGED <<mode, always, notes, fileVars, callVars, cleanup>>

\* approve_always: keep the note when the id was found, else take the flag back.
SettleAlways(r) ==
    /\ RpcAt(r, "settle")
    /\ IF rpc[r].found
       THEN /\ notes' = IF rpc[r].note THEN notes \cup {rpc[r].call} ELSE notes
            /\ UNCHANGED always
       ELSE always' = always \ {rpc[r].call} /\ UNCHANGED notes
    /\ RpcGoto(r, "done")
    /\ UNCHANGED <<mode, pending, fileVars, callVars, chan, sent, events, cleanup>>

\* set_mode and cycle_mode (Shift+Tab) reach every mode from every mode.
SetMode(m) ==
    /\ mode' = m
    /\ UNCHANGED <<pending, always, notes, fileVars, callVars, chan, sent,
                   events, cleanup, rpc>>

-----------------------------------------------------------------------------
\* The steps a call's own task takes (the timer is one of them).
CallStep(c) ==
    \/ BeginBatchedRead(c) \/ BeginReadOnlyRole(c) \/ BeginSingle(c) \/ Peek(c)
    \/ BeginGated(c) \/ ConsultRules(c) \/ ConsultMode(c) \/ Register(c)
    \/ Announce(c) \/ Wake(c) \/ Expire(c) \/ TimeoutDeny(c) \/ TakeAlways(c)
    \/ TakeNote(c) \/ AppendOpen(c) \/ AppendWrite(c) \/ AppendFail(c) \/ Settle(c)

RpcStep(r) ==
    PeekVeto(r) \/ InsertFlag(r) \/ Validate(r) \/ Resolve(r) \/ SettleAlways(r)

Next ==
    \/ \E c \in Calls : CallStep(c) \/ Cancel(c) \/ CleanUp(c)
    \/ \E r \in Requests :
          \/ RpcStep(r)
          \/ \E op \in Ops, c \in Calls, t \in Targets : SendRpc(r, op, c, t)
    \/ \E m \in Modes : SetMode(m)

Spec == Init /\ [][Next]_vars

\* The runtime polls every ready task and every timer fires; nobody has to
\* answer, cancel or change the mode.
Fairness ==
    /\ \A c \in Calls : WF_vars(CallStep(c)) /\ WF_vars(CleanUp(c))
    /\ \A r \in Requests : WF_vars(RpcStep(r))

FairSpec == Spec /\ Fairness

-----------------------------------------------------------------------------
(* Correctness *)

\* Every variable keeps its type.
TypeOK ==
    /\ mode \in Modes
    /\ pending \subseteq Calls
    /\ always \subseteq Calls
    /\ notes \subseteq Calls
    /\ rules \in RulesFile
    /\ draft \in RulesFile
    /\ blind \subseteq Calls
    /\ pc \in [Calls -> Stages]
    /\ seen \in [Calls -> Modes]
    /\ chan \in [Calls -> {"none", "approve", "deny", "modify"}]
    /\ sent \in [Calls -> Targets]
    /\ args \in [Calls -> Targets]
    /\ verdict \in [Calls -> {"none", "approve", "deny", "modify"}]
    /\ basis \in [Calls -> {"none", "rule", "mode", "human", "timeout", "role", "ungated"}]
    /\ events \in [Calls -> SUBSET Events]
    /\ audited \subseteq Calls
    /\ cleanup \subseteq Calls
    /\ rpc \in [Requests -> Sent \cup {Idle}]

\* The requests that were told `resolved: true` for a call.
Resolvers(c) ==
    {r \in Requests : rpc[r].pc # "idle" /\ rpc[r].call = c /\ rpc[r].found}

Granted(c) == pc[c] = "done" /\ verdict[c] \in {"approve", "modify"}
Finished(c) == pc[c] \in {"done", "dropped"}
WasAsked(c) == c \in pending \/ chan[c] # "none" \/ basis[c] \in {"human", "timeout"} \/ events[c] # {}

\* A resolved approval has exactly one resolver: whatever requests race, only
\* one of them is told it resolved the prompt (resolve removes the entry).
OneResolver == \A c \in Calls : \A r, q \in Resolvers(c) : r = q

\* A call that was put to the human runs only if some request was told it
\* resolved the prompt, with the operation the call then acts on.
AskedRunsOnlyOnAnswer ==
    \A c \in Calls : Granted(c) /\ WasAsked(c) =>
        \E r \in Resolvers(c) :
            rpc[r].op \in (IF verdict[c] = "modify" THEN {"modify"}
                                                    ELSE {"approve", "always"})

\* PendingGuard: an entry stays in the map only while its caller still waits
\* for it, or a spawned task is about to remove it.
NoOrphanEntry ==
    \A c \in pending : pc[c] \in {"announce", "waiting", "expired"} \/ c \in cleanup

\* A high-risk mutation on the single-call path is approved by a rule or by the
\* human, never by the session mode, even when the mode changes meanwhile.
HighRiskNeverByMode ==
    \A c \in HighRisk : Granted(c) /\ Path[c] = "single" /\ Kind[c] # "read" =>
        basis[c] \in {"rule", "human"}

\* A hand-written Deny rule stops the call it names and every rewrite into such
\* a call, whatever the mode and the human say.  Exempt is a call whose last rule
\* check fell into an append, or came after one that failed and left the file
\* empty.  The ACP bridge leaves rewrites to its client, batched reads are not
\* gated at all.
DenyRulesHold ==
    \A c \in Calls \ blind :
        Granted(c) /\ basis[c] # "ungated" /\ (Path[c] # "acp" \/ verdict[c] = "approve") =>
            BaseRule[args[c]] # "deny"

\* Every allow rule in the file (or about to be written) comes from a call that
\* was approved, whose raw arguments may be persisted, and for which an
\* allow-always request went out.
RuleWasRequested ==
    \A t \in rules.allows \cup draft.allows :
        \E c \in Calls \ RawVeto :
            /\ Target[c] = t /\ chan[c] = "approve"
            /\ \E r \in Requests : rpc[r].pc # "idle" /\ rpc[r].op = "always" /\ rpc[r].call = c

\* Once a timeout is broadcast no request can still resolve the call, and the
\* call is never granted ("a timed-out approval cannot be resolved late").
TimeoutIsFinal ==
    [][\A c \in Calls : "timeout" \in events[c] =>
          Resolvers(c)' = Resolvers(c) /\ ~Granted(c)']_vars

\* The calls put to the human, and where the task of a call ended.
Asked == {c \in Calls : WasAsked(c)}
Fate(c) ==
    IF pc[c] = "dropped" THEN "abandoned"
    ELSE IF pc[c] # "done" THEN "undecided"
    ELSE IF verdict[c] = "deny" THEN "refused" ELSE "granted"

\* The gate implements its promise.
Promise == INSTANCE ApprovalPromise WITH
    asked <- Asked, answer <- chan, status <- [c \in Calls |-> Fate(c)]

KeepsPromise == Promise!Spec

\* A call that suspends on the gate is eventually decided or dropped, even if
\* nobody ever answers (the approval timeout).
EventuallyDecided == \A c \in Calls : pc[c] = "waiting" ~> Finished(c)

\* Every broadcast prompt is eventually dismissed by a broadcast resolution.
EventuallyDismissed ==
    \A c \in Calls : "request" \in events[c] ~>
        events[c] \cap {"approved", "denied", "timeout", "cancelled"} # {}

-----------------------------------------------------------------------------
(* The inductive invariant behind OneResolver, NoOrphanEntry,              *)
(* AskedRunsOnlyOnAnswer and KeepsPromise: what each stage of a call says  *)
(* about its map entry, its channel and its verdict.                       *)

\* Stages before the entry is inserted, while it may be in the map, and on the
\* way from an approval to the persisted rule.
BeforeAsk == {"new", "peek", "rules", "mode", "register"}
Suspended == {"announce", "waiting", "expired"}
Approving == {"woken", "notes", "append", "writing"}

Untouched(c) == c \notin pending /\ chan[c] = "none" /\ events[c] = {}

\* The decision a resolving operation sends.
DecisionOf(op) == IF op = "always" THEN "approve" ELSE op

EntryInv ==
    \A c \in Calls :
        /\ c \in cleanup => pc[c] = "dropped" /\ Abortable(c)
        /\ c \in pending => chan[c] = "none" /\ (pc[c] \in Suspended \/ c \in cleanup)

StageInv ==
    \A c \in Calls :
        /\ pc[c] \in BeforeAsk => Untouched(c) /\ basis[c] \in {"none", "rule"}
        /\ pc[c] \in BeforeAsk \ {"peek"} => basis[c] = "none"
        /\ pc[c] \in Suspended => basis[c] = "none" /\ (c \in pending \/ chan[c] # "none")
        /\ pc[c] \in Approving => chan[c] = "approve" /\ verdict[c] = "approve" /\ basis[c] = "human"
        /\ pc[c] \in {"settle", "done"} =>
              \/ basis[c] = "human" /\ chan[c] # "none" /\ verdict[c] \in {chan[c], "deny"}
              \/ basis[c] = "timeout" /\ verdict[c] = "deny"
              \/ /\ basis[c] \in {"rule", "mode", "role", "ungated"}
                 /\ Untouched(c) /\ verdict[c] \in {"approve", "deny"}
        /\ basis[c] = "human" => chan[c] # "none"

ResolverInv ==
    /\ \A r \in Requests : rpc[r].pc \in {"note", "flag", "validate", "resolve"} => ~rpc[r].found
    /\ \A c \in Calls : chan[c] # "none" =>
          \E r \in Resolvers(c) : DecisionOf(rpc[r].op) = chan[c]
    /\ \A c \in Calls : Resolvers(c) # {} => chan[c] # "none"
    /\ OneResolver

PromptInv == EntryInv /\ StageInv /\ ResolverInv

(* What makes the policy properties inductive.                              *)

\* The calls that the mode alone may never approve.
AlwaysAsked == {c \in HighRisk : Path[c] = "single" /\ Kind[c] # "read"}

RiskInv ==
    \A c \in AlwaysAsked :
        /\ pc[c] # "mode" /\ basis[c] \notin {"mode", "ungated"}
        /\ basis[c] = "role" => verdict[c] = "deny"

TimeoutInv ==
    \A c \in Calls : "timeout" \in events[c] =>
        /\ c \notin pending /\ pc[c] \in {"settle", "done", "dropped"}
        /\ pc[c] # "dropped" => basis[c] = "timeout"

Requested(c) ==
    \E r \in Requests : rpc[r].pc # "idle" /\ rpc[r].op = "always" /\ rpc[r].call = c

RuleInv ==
    /\ \A c \in Calls :
        /\ c \in always \/ pc[c] \in {"notes", "append", "writing"} => Requested(c)
        /\ pc[c] \in {"append", "writing"} => c \notin RawVeto
    /\ \A r \in Requests : rpc[r].pc \in {"note", "flag"} => rpc[r].op = "always"
    /\ RuleWasRequested

PolicyInv == RiskInv /\ TimeoutInv /\ RuleInv

\* A call the rules have let through, and which no one has denied since.
PastRules(c) ==
    \/ pc[c] \in {"mode", "register"} \cup Suspended \cup Approving
    \/ pc[c] = "peek" /\ basis[c] = "rule"
    \/ pc[c] = "settle" /\ verdict[c] # "deny" /\ basis[c] # "ungated"

\* What its rules say of it stands from its last check on.
DenyInv ==
    /\ \A c \in Calls :
        /\ pc[c] # "done" => args[c] = Target[c]
        /\ PastRules(c) /\ c \notin blind => BaseRule[Target[c]] # "deny"
    /\ DenyRulesHold

\* With the types: what every reachable state satisfies, and an induction needs.
GateInv == TypeOK /\ PromptInv /\ PolicyInv

=============================================================================
