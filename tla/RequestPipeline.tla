-------------------------- MODULE RequestPipeline ---------------------------
(***************************************************************************)
(* One MCP request through the server: ToolboxMCPServer._handle_call_tool  *)
(* turns what a tool does into a result, AuditMiddleware turns what comes  *)
(* back (or is raised, or is cancelled) into an audit event, records it,   *)
(* counts it in MetricsRegistry, and only then lets the reply go.          *)
(*                                                                         *)
(* Middleware code runs on the event loop, between two awaits without      *)
(* interruption: loop is the request whose "finally" block has it.  Tools  *)
(* run beside it, toolbox_metrics_snapshot among them.  The audit log is   *)
(* its promise, AuditLedger, and the events are the requests' own.         *)
(***************************************************************************)
EXTENDS Naturals, Sequences, FiniteSets

CONSTANTS
  Requests,      \* the requests of this history
  Nobody,        \* no request has the loop or the metrics lock
  ToolFailures,  \* what tools raise: sequences of exceptions, each the cause
                 \* of the one before it
  Retention,     \* of the audit log, in ticks
  MaxClock,      \* bound: the clock stops here
  AuditMayFail,  \* whether JsonlAuditLogger.record may raise
  MaxRestarts    \* bound: how often the process is restarted

VARIABLES
  clock, status, ts, stored,  \* the audit log, see AuditLedger
  req,       \* each request: how far it is and what is known of it
  loop,      \* the request whose finally block runs on the event loop
  lock,      \* who holds MetricsRegistry._lock
  metrics,   \* MetricsRegistry's counters
  restarts   \* how often the process was restarted

vars == <<clock, status, ts, stored, req, loop, lock, metrics, restarts>>

Ledger == INSTANCE AuditLedger WITH Events <- Requests

-----------------------------------------------------------------------------
(* Outcomes *)

\* ToolboxError carries one of these; they stand for themselves in a chain.
ErrorCategory == {"permission_denied", "invalid_input", "unsupported_operation",
                  "timeout", "internal_error"}
Exceptions == ErrorCategory \cup {"ToolError", "ValidationError", "MCPError", "Exception"}

ASSUME RequestAssumption == IsFiniteSet(Requests) /\ Nobody \notin Requests
ASSUME FailureAssumption ==
  ToolFailures \subseteq Seq(Exceptions) /\ <<>> \notin ToolFailures
ASSUME BoundAssumption ==
  /\ Retention \in Nat /\ MaxClock \in Nat /\ MaxRestarts \in Nat
  /\ AuditMayFail \in BOOLEAN

Methods == {"tools/call", "toolbox_metrics_snapshot", "initialize", "notification"}
IsToolCall(method) == method \in {"tools/call", "toolbox_metrics_snapshot"}

\* What call_next gives back to the middleware.
Returned == [kind |-> "result", error |-> "none"]
ErrorResult(category) == [kind |-> "errorResult", error |-> category]
Raised(exception) == [kind |-> "raised", error |-> exception]
Cancelled == [kind |-> "cancelled", error |-> "none"]

Contains(chain, exceptions) == \E i \in 1..Len(chain) : chain[i] \in exceptions

\* _nested_toolbox_error: the outermost one counts.
NestedToolboxError(chain) ==
  chain[CHOOSE i \in 1..Len(chain) :
          /\ chain[i] \in ErrorCategory
          /\ \A j \in 1..(i - 1) : chain[j] \notin ErrorCategory]

\* Mutant: only the exception itself is looked at, not its causes.
HandleCallTool_Shallow(chain) ==
  IF chain[1] = "MCPError" THEN Raised("MCPError")
  ELSE ErrorResult(IF chain[1] \in ErrorCategory THEN chain[1]
                   ELSE IF chain = <<"ToolError">> THEN "unsupported_operation"
                   ELSE IF chain[1] = "ValidationError" THEN "invalid_input"
                   ELSE "internal_error")

HandleCallTool(chain) ==
  IF chain[1] = "MCPError" THEN Raised("MCPError")
  ELSE ErrorResult(IF Contains(chain, ErrorCategory) THEN NestedToolboxError(chain)
                   ELSE IF chain = <<"ToolError">> THEN "unsupported_operation"
                   ELSE IF Contains(chain, {"ValidationError"}) THEN "invalid_input"
                   ELSE "internal_error")

\* What a request's handler makes of what was raised below it: only a tool call
\* goes through _handle_call_tool, the SDK's own handlers raise on their own.
HandlerOutcome(method, chain) ==
  IF method = "tools/call" THEN HandleCallTool(chain) ELSE Raised(chain[1])

\* The policy refused the tool, and no other ToolboxError came of it.
PolicyRefused(method, chain) ==
  /\ method = "tools/call"
  /\ Contains(chain, {"permission_denied"})
  /\ ~Contains(chain, ErrorCategory \ {"permission_denied"})
  /\ chain[1] # "MCPError"

AuditEvent(st, category, decision) ==
  [status |-> st, category |-> category, decision |-> decision]

Refusal(category, decision) ==
  IF category = "permission_denied" THEN AuditEvent("denied", category, "denied")
  ELSE AuditEvent("error", category, decision)

\* Mutant: the category of an error result is not read.
EventOf_NoCategory(method, outcome) ==
  CASE outcome.kind = "result" ->
         AuditEvent("success", "none", IF IsToolCall(method) THEN "allowed" ELSE "not_applicable")
    [] outcome.kind = "errorResult" -> Refusal("internal_error", "error")
    [] outcome.kind = "raised" /\ outcome.error \in ErrorCategory ->
         Refusal(outcome.error, "error")
    [] outcome.kind = "raised" /\ outcome.error \notin ErrorCategory ->
         Refusal("internal_error", "error")
    [] outcome.kind = "cancelled" -> AuditEvent("success", "none", "not_applicable")

\* The event AuditMiddleware.__call__ records for an outcome.  No except clause
\* catches a cancellation: the initial values of the local variables stand.
EventOf(method, outcome) ==
  CASE outcome.kind = "result" ->
         AuditEvent("success", "none", IF IsToolCall(method) THEN "allowed" ELSE "not_applicable")
    [] outcome.kind = "errorResult" \/ outcome.error \in ErrorCategory ->
         Refusal(outcome.error, "error")
    [] outcome.kind = "raised" /\ outcome.error = "ValidationError" ->
         Refusal("invalid_input", "invalid_input")
    [] outcome.kind = "raised" /\ outcome.error \in {"ToolError", "MCPError", "Exception"} ->
         Refusal("internal_error", "error")
    [] outcome.kind = "cancelled" -> AuditEvent("success", "none", "not_applicable")

-----------------------------------------------------------------------------
(* MetricsRegistry *)

Statuses == {"success", "error", "denied"}
Modules == {"known", "unknown"}   \* a module of _KNOWN_MODULES, any other name

NoMetrics == [count |-> 0, statuses |-> [s \in Statuses |-> 0],
              modules |-> [m \in Modules |-> 0]]

-----------------------------------------------------------------------------
PCs == {"new", "running", "reading", "returned", "audit", "metrics", "labels",
        "done", "lost"}
NoEvent == AuditEvent("none", "none", "none")

Init ==
  /\ Ledger!Init
  /\ req = [r \in Requests |->
              [pc |-> "new", method |-> "tools/call", module |-> "known", boot |-> 0,
               outcome |-> Returned, event |-> NoEvent, reply |-> "none",
               refused |-> FALSE, seen |-> NoMetrics]]
  /\ loop = Nobody
  /\ lock = Nobody
  /\ metrics = NoMetrics
  /\ restarts = 0

Set(r, field, value) == [req EXCEPT ![r][field] = value]

ledger == <<clock, status, ts, stored>>

\* _audit_identity: the module of a tool call is the prefix of the tool's name,
\* that of anything else is "protocol".
Receive(r) ==
  /\ req[r].pc = "new" /\ loop = Nobody
  /\ \E method \in Methods, module \in Modules :
       /\ module = "known" \/ method = "tools/call"
       /\ req' = [req EXCEPT ![r].pc = "running", ![r].method = method,
                             ![r].module = module, ![r].boot = restarts]
  /\ UNCHANGED <<ledger, loop, lock, metrics, restarts>>

\* The handler ends, one way or the other.
HandlerReturns(r) ==
  /\ req[r].pc = "running"
  /\ req[r].method # "toolbox_metrics_snapshot"
  /\ req' = [req EXCEPT ![r].pc = "returned", ![r].outcome = Returned]
  /\ UNCHANGED <<ledger, loop, lock, metrics, restarts>>

HandlerRaises(r) ==
  /\ req[r].pc = "running"
  /\ req[r].method \in {"tools/call", "initialize"}
  /\ \E chain \in ToolFailures :
       req' = [req EXCEPT ![r].pc = "returned",
                          ![r].outcome = HandlerOutcome(req[r].method, chain),
                          ![r].refused = PolicyRefused(req[r].method, chain)]
  /\ UNCHANGED <<ledger, loop, lock, metrics, restarts>>

\* Mutant: the total is read before the lock is taken.
SnapshotCount_Unlocked(r) ==
  /\ req[r].pc = "running"
  /\ req[r].method = "toolbox_metrics_snapshot"
  /\ req' = [req EXCEPT ![r].pc = "reading", ![r].seen.count = metrics.count]
  /\ UNCHANGED <<ledger, loop, lock, metrics, restarts>>

\* MetricsRegistry.snapshot takes the lock and copies the counters.
SnapshotCount(r) ==
  /\ req[r].pc = "running"
  /\ req[r].method = "toolbox_metrics_snapshot"
  /\ lock = Nobody
  /\ lock' = r
  /\ req' = [req EXCEPT ![r].pc = "reading", ![r].seen.count = metrics.count]
  /\ UNCHANGED <<ledger, loop, metrics, restarts>>

SnapshotLabels(r) ==
  /\ req[r].pc = "reading"
  /\ lock' = Nobody
  /\ req' = [req EXCEPT ![r].pc = "returned", ![r].outcome = Returned,
                        ![r].seen = [metrics EXCEPT !.count = req[r].seen.count]]
  /\ UNCHANGED <<ledger, loop, metrics, restarts>>

\* The client cancels the request, or its session ends: the await is left with
\* CancelledError.  A tool's thread is waited for first.
Cancel(r) ==
  /\ req[r].pc \in {"running", "returned"}
  /\ loop = Nobody
  /\ req' = [req EXCEPT ![r].pc = "returned", ![r].outcome = Cancelled]
  /\ UNCHANGED <<ledger, loop, lock, metrics, restarts>>

\* A notification has no request_id and passes.
Passthrough(r) ==
  /\ req[r].pc = "returned" /\ loop = Nobody
  /\ req[r].method = "notification"
  /\ req' = Set(r, "pc", "done")
  /\ UNCHANGED <<ledger, loop, lock, metrics, restarts>>

\* The finally block begins: the event is made and record() called.
Finally(r) ==
  /\ req[r].pc = "returned" /\ loop = Nobody
  /\ req[r].method # "notification"
  /\ Ledger!Submit(r)
  /\ loop' = r
  /\ req' = [req EXCEPT ![r].pc = "audit",
                        ![r].event = EventOf(req[r].method, req[r].outcome)]
  /\ UNCHANGED <<lock, metrics, restarts>>

AuditStores(r) ==
  /\ req[r].pc = "audit"
  /\ Ledger!Store(r)
  /\ UNCHANGED <<req, loop, lock, metrics, restarts>>

AuditReturns(r) ==
  /\ req[r].pc = "audit"
  /\ Ledger!Ack(r)
  /\ req' = Set(r, "pc", "metrics")
  /\ UNCHANGED <<loop, lock, metrics, restarts>>

\* Mutants: the failure is swallowed; the request is counted all the same.
AuditRaises_Swallowed(r) ==
  /\ AuditMayFail
  /\ req[r].pc = "audit"
  /\ Ledger!Fail(r)
  /\ req' = [req EXCEPT ![r].pc = "done", ![r].reply = req[r].outcome.kind]
  /\ loop' = Nobody
  /\ UNCHANGED <<lock, metrics, restarts>>

AuditRaises_Counted(r) ==
  /\ AuditMayFail
  /\ req[r].pc = "audit"
  /\ Ledger!Fail(r)
  /\ req' = [req EXCEPT ![r].pc = "metrics", ![r].outcome = Raised("Exception")]
  /\ UNCHANGED <<loop, lock, metrics, restarts>>

\* record() raises.  Its exception replaces the result, and nothing is counted.
AuditRaises(r) ==
  /\ AuditMayFail
  /\ req[r].pc = "audit"
  /\ Ledger!Fail(r)
  /\ req' = [req EXCEPT ![r].pc = "done", ![r].reply = "auditFailure"]
  /\ loop' = Nobody
  /\ UNCHANGED <<lock, metrics, restarts>>

\* MetricsRegistry.record, under its lock.
MetricsCount(r) ==
  /\ req[r].pc = "metrics"
  /\ lock = Nobody
  /\ lock' = r
  /\ metrics' = [metrics EXCEPT !.count = @ + 1]
  /\ req' = Set(r, "pc", "labels")
  /\ UNCHANGED <<ledger, loop, restarts>>

\* Mutant: the lock is not released.
MetricsLabels_KeepsLock(r) ==
  /\ req[r].pc = "labels"
  /\ metrics' = [metrics EXCEPT !.statuses[req[r].event.status] = @ + 1,
                                !.modules[req[r].module] = @ + 1]
  /\ req' = [req EXCEPT ![r].pc = "done", ![r].reply = req[r].outcome.kind]
  /\ loop' = Nobody
  /\ UNCHANGED <<ledger, lock, restarts>>

\* The counters are done, the finally block ends and the reply goes out.
MetricsLabels(r) ==
  /\ req[r].pc = "labels"
  /\ lock' = Nobody
  /\ metrics' = [metrics EXCEPT !.statuses[req[r].event.status] = @ + 1,
                                !.modules[req[r].module] = @ + 1]
  /\ req' = [req EXCEPT ![r].pc = "done", ![r].reply = req[r].outcome.kind]
  /\ loop' = Nobody
  /\ UNCHANGED <<ledger, restarts>>

\* The process dies and is started again: the requests under way are gone and
\* the metrics start from nothing.
Restart ==
  /\ restarts < MaxRestarts
  /\ restarts' = restarts + 1
  /\ Ledger!Restart
  /\ req' = [r \in Requests |-> IF req[r].pc \in {"new", "done", "lost"} THEN req[r]
                                ELSE [req[r] EXCEPT !.pc = "lost"]]
  /\ loop' = Nobody
  /\ lock' = Nobody
  /\ metrics' = NoMetrics

\* Retention runs inside record(), which deletes before it returns.
Retain(r) ==
  /\ req[r].pc = "audit"
  /\ Ledger!Expire
  /\ UNCHANGED <<req, loop, lock, metrics, restarts>>

Tick == Ledger!Tick /\ UNCHANGED <<req, loop, lock, metrics, restarts>>

\* Every request has ended.
Rest ==
  /\ clock = MaxClock
  /\ \A r \in Requests : req[r].pc \in {"done", "lost"}
  /\ UNCHANGED vars

\* What the server does by itself for a request it received.
Progress(r) ==
  \/ HandlerReturns(r) \/ HandlerRaises(r) \/ SnapshotCount(r) \/ SnapshotLabels(r) \/ Passthrough(r)
  \/ Finally(r) \/ AuditStores(r) \/ AuditReturns(r) \/ AuditRaises(r)
  \/ MetricsCount(r) \/ MetricsLabels(r)

Next ==
  \/ \E r \in Requests : Receive(r) \/ Progress(r) \/ Cancel(r) \/ Retain(r)
  \/ Restart \/ Tick \/ Rest

Spec == Init /\ [][Next]_vars

\* Handlers end (their tools are bounded by limits.timeout_seconds), the event
\* loop runs what is ready, and a released lock is taken by who waits for it.
FairSpec == Spec /\ \A r \in Requests : WF_vars(Progress(r))

-----------------------------------------------------------------------------
(* Properties *)

Audited(r) == req[r].method # "notification" /\ req[r].reply # "auditFailure"

Kinds == {"result", "errorResult", "raised", "cancelled"}
OutcomeType ==
  {o \in [kind: Kinds, error: Exceptions \cup {"none"}] :
     /\ o.kind = "errorResult" => o.error \in ErrorCategory
     /\ o.kind = "raised" => o.error \in Exceptions
     /\ o.kind \in {"result", "cancelled"} => o.error = "none"}
EventType == [status: Statuses \cup {"none"}, category: ErrorCategory \cup {"none"},
              decision: {"allowed", "not_applicable", "denied", "error", "invalid_input", "none"}]
MetricsType == [count: Nat, statuses: [Statuses -> Nat], modules: [Modules -> Nat]]
RequestType ==
  [pc: PCs, method: Methods, module: Modules, boot: Nat, outcome: OutcomeType,
   event: EventType, reply: Kinds \cup {"none", "auditFailure"}, refused: BOOLEAN,
   seen: MetricsType]
RecordStatus == {"new", "waiting", "acked", "failed", "lost"}

Typed ==
  /\ clock \in Nat /\ status \in [Requests -> RecordStatus]
  /\ ts \in [Requests -> Nat] /\ stored \subseteq Requests
  /\ req \in [Requests -> RequestType]
  /\ loop \in Requests \cup {Nobody} /\ lock \in Requests \cup {Nobody}
  /\ metrics \in MetricsType /\ restarts \in Nat

\* Every variable holds values of its kind: the audit log's, what is known of each
\* request (an error result has a category, anything raised is an exception, no
\* label is invented), MetricsRegistry's counters and lock, and the restarts.  A
\* request has the loop exactly in its finally block, and the lock exactly while it
\* counts or reads.
TypeOK ==
  /\ Typed
  /\ \A r \in Requests :
       /\ req[r].pc \in {"audit", "metrics", "labels"} => req[r].event.status \in Statuses
       /\ req[r].pc \in {"audit", "metrics", "labels"} <=> loop = r
       /\ req[r].pc \in {"reading", "labels"} <=> lock = r

\* "Do not bypass the audit requirement to make a call succeed": whatever the
\* audit storage does, a request that was answered (with anything but the audit
\* failure itself) is in the log until its retention is over.
AnsweredIsAudited ==
  \A r \in Requests :
    req[r].pc = "done" /\ Audited(r) => r \in stored \/ Ledger!OutOfRetention(r)

\* The log tells what the client was told: an error result's category is that of
\* the event, a denial is the only thing called denied, and a success was none.
AuditTellsReply ==
  \A r \in Requests :
    req[r].pc = "done" /\ req[r].method # "notification" =>
      /\ req[r].reply = "result" => req[r].event.status = "success"
      /\ req[r].reply = "errorResult" =>
           /\ req[r].event.category = req[r].outcome.error
           /\ req[r].event.status = "denied" <=> req[r].outcome.error = "permission_denied"
      /\ req[r].reply = "raised" => req[r].event.status # "success"

\* A tool call the policy refused is answered and logged as a denial, however
\* deep its ToolboxError hides among the causes the SDK and the handler chained,
\* unless the call was cancelled or its audit failed.
RefusalReachesClient ==
  \A r \in Requests :
    req[r].refused /\ req[r].pc = "done" /\ req[r].reply \notin {"auditFailure", "cancelled"} =>
      /\ req[r].reply = "errorResult" /\ req[r].outcome.error = "permission_denied"
      /\ req[r].event = AuditEvent("denied", "permission_denied", "denied")

\* The metrics count exactly the requests whose audit record this process stored:
\* at rest each status count is the number of those whose event says so.
MetricsMatchAudit ==
  lock = Nobody /\ loop = Nobody =>
    \A s \in Statuses :
      metrics.statuses[s] =
        Cardinality({r \in Requests : /\ req[r].pc = "done" /\ status[r] = "acked"
                                      /\ req[r].boot = restarts
                                      /\ req[r].event.status = s})

\* A snapshot is consistent: its total is the sum of its status counts and the
\* sum of its module counts, whatever is being counted while it is taken.
SnapshotConsistent ==
  \A r \in Requests :
    req[r].method = "toolbox_metrics_snapshot" /\ req[r].pc \notin {"running", "reading", "lost"} =>
      LET seen == req[r].seen IN
      /\ seen.count = seen.statuses["success"] + seen.statuses["error"] + seen.statuses["denied"]
      /\ seen.count = seen.modules["known"] + seen.modules["unknown"]

\* Every request is answered, or its process dies: the lock, the loop and the
\* audit failure included.
EveryRequestEnds ==
  \A r \in Requests : req[r].pc = "running" ~> req[r].pc \in {"done", "lost"}

\* "Audit events record ... actual result decision" (docs/security-model.md):
\* an event that says success belongs to a request that had a result.
SuccessHadResult ==
  \A r \in Requests : req[r].event.status = "success" => req[r].outcome.kind = "result"
=============================================================================
