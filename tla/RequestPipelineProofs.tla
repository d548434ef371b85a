------------------------ MODULE RequestPipelineProofs ------------------------
(***************************************************************************)
(* Proofs about RequestPipeline, for any requests, any failures of their   *)
(* tools, and any number of restarts: what is answered is audited, the     *)
(* event says what the client was told, and the metrics count what was     *)
(* audited.                                                                *)
(***************************************************************************)
EXTENDS RequestPipeline, FiniteSetTheorems, NaturalsInduction,
        WellFoundedInduction, TLAPS

-----------------------------------------------------------------------------
(* Outcomes *)

\* A chain of exceptions has an outermost ToolboxError if it has one.
LEMMA NestedIsCategory ==
  ASSUME NEW chain \in Seq(Exceptions), Contains(chain, ErrorCategory)
  PROVE  /\ NestedToolboxError(chain) \in ErrorCategory
         /\ Contains(chain, {NestedToolboxError(chain)})
<1> DEFINE At == {i \in Nat : i \in 1..Len(chain) /\ chain[i] \in ErrorCategory}
           Less == {ss \in Nat \X Nat : ss[1] < ss[2]}
           First(i) == /\ chain[i] \in ErrorCategory
                       /\ \A j \in 1..(i - 1) : chain[j] \notin ErrorCategory
<1>1. IsWellFoundedOn(Less, Nat)
  BY NatLessThanWellFounded DEF OpToRel
<1>2. At # {} /\ At \subseteq Nat
  BY DEF Contains
<1>3. PICK m \in At : \A u \in At : ~(<<u, m>> \in Less)
  <2> HIDE DEF At, Less
  <2> QED BY <1>1, <1>2, WFMin
<1>4. \A u \in At : ~(u < m)
  BY <1>3
<1>5. m \in 1..Len(chain) /\ First(m)
  <2>1. ASSUME NEW j \in 1..(m - 1) PROVE chain[j] \notin ErrorCategory
    <3>1. j \in 1..Len(chain) /\ j < m /\ j \in Nat
      OBVIOUS
    <3> QED BY <3>1, <1>4
  <2> QED BY <2>1
<1>6. PICK k : k = CHOOSE i \in 1..Len(chain) : First(i)
  OBVIOUS
<1>7. k \in 1..Len(chain) /\ First(k)
  <2> HIDE DEF First
  <2> QED BY <1>5, <1>6
<1>8. NestedToolboxError(chain) = chain[k]
  BY <1>6 DEF NestedToolboxError
<1> QED BY <1>7, <1>8 DEF Contains

\* What _handle_call_tool and the SDK make of a chain is an outcome, and a
\* policy's refusal is an error result that says so.
LEMMA HandlerOutcomes ==
  ASSUME NEW method \in Methods, NEW chain \in ToolFailures
  PROVE  /\ HandlerOutcome(method, chain) \in OutcomeType
         /\ PolicyRefused(method, chain) =>
              HandlerOutcome(method, chain) = ErrorResult("permission_denied")
<1>1. /\ chain \in Seq(Exceptions) /\ chain # <<>> /\ chain[1] \in Exceptions
  BY FailureAssumption
<1>2. /\ Contains(chain, ErrorCategory) => NestedToolboxError(chain) \in ErrorCategory
      /\ Contains(chain, ErrorCategory) => Contains(chain, {NestedToolboxError(chain)})
  BY <1>1, NestedIsCategory
<1>3. ASSUME NEW x \in Exceptions PROVE Raised(x) \in OutcomeType
  BY DEF Raised, OutcomeType, Kinds
<1>4. ASSUME NEW c \in ErrorCategory PROVE ErrorResult(c) \in OutcomeType
  BY DEF ErrorResult, OutcomeType, Kinds, Exceptions
<1>5. HandlerOutcome(method, chain) \in OutcomeType
  <2>1. {"unsupported_operation", "invalid_input", "internal_error"} \subseteq ErrorCategory
    BY DEF ErrorCategory
  <2> QED BY <1>1, <1>2, <1>3, <1>4, <2>1 DEF HandlerOutcome, HandleCallTool
<1>6. ASSUME PolicyRefused(method, chain)
      PROVE  HandlerOutcome(method, chain) = ErrorResult("permission_denied")
  <2>1. Contains(chain, ErrorCategory)
    BY <1>6 DEF PolicyRefused, Contains, ErrorCategory
  <2>2. NestedToolboxError(chain) = "permission_denied"
    BY <1>2, <1>6, <2>1 DEF PolicyRefused, Contains
  <2> QED BY <1>6, <2>1, <2>2 DEF HandlerOutcome, HandleCallTool, PolicyRefused
<1> QED BY <1>5, <1>6

\* The event of an outcome says what it was.
LEMMA EventFacts ==
  ASSUME NEW method \in Methods, NEW o \in OutcomeType
  PROVE  LET event == EventOf(method, o) IN
         /\ event \in EventType /\ event.status \in Statuses
         /\ o.kind = "result" => event.status = "success"
         /\ o.kind = "errorResult" =>
              /\ event.category = o.error
              /\ event.status = "denied" <=> o.error = "permission_denied"
         /\ o.kind = "raised" => event.status # "success"
         /\ o = ErrorResult("permission_denied") =>
              event = AuditEvent("denied", "permission_denied", "denied")
<1> USE DEF AuditEvent, Statuses
<1>1. ASSUME NEW c \in ErrorCategory, NEW d \in {"error", "invalid_input"}
      PROVE  /\ Refusal(c, d) \in EventType /\ Refusal(c, d).category = c
             /\ Refusal(c, d).status \in {"error", "denied"}
             /\ Refusal(c, d).status = "denied" <=> c = "permission_denied"
             /\ c = "permission_denied" =>
                  Refusal(c, d) = AuditEvent("denied", "permission_denied", "denied")
  BY DEF Refusal, EventType
<1>2. {"invalid_input", "internal_error"} \subseteq ErrorCategory
  BY DEF ErrorCategory
<1>3. CASE o.kind = "result"
  BY <1>3 DEF EventOf, OutcomeType, EventType, ErrorCategory, ErrorResult
<1>4. CASE o.kind = "cancelled"
  BY <1>4 DEF EventOf, OutcomeType, EventType, ErrorCategory, ErrorResult
<1>5. CASE o.kind = "errorResult"
  <2>1. EventOf(method, o) = Refusal(o.error, "error") /\ o.error \in ErrorCategory
    BY <1>5 DEF EventOf, OutcomeType
  <2> QED BY <1>1, <1>5, <2>1 DEF ErrorResult
<1>6. CASE o.kind = "raised"
  <2>1. o.error \in Exceptions /\ o # ErrorResult("permission_denied")
    BY <1>6 DEF OutcomeType, ErrorResult
  <2>2. CASE o.error \in ErrorCategory
    <3>1. EventOf(method, o) = Refusal(o.error, "error")
      BY <1>6, <2>2 DEF EventOf, ErrorCategory
    <3> QED BY <1>1, <1>6, <2>1, <2>2, <3>1
  <2>3. CASE o.error \notin ErrorCategory
    <3>1. \/ EventOf(method, o) = Refusal("invalid_input", "invalid_input")
          \/ EventOf(method, o) = Refusal("internal_error", "error")
      BY <1>6, <2>1, <2>3 DEF EventOf, Exceptions
    <3> QED BY <1>1, <1>2, <1>6, <2>1, <3>1
  <2> QED BY <2>2, <2>3
<1> QED BY <1>3, <1>4, <1>5, <1>6 DEF OutcomeType, Kinds

-----------------------------------------------------------------------------
(* The inductive invariant.  The properties are about requests that have    *)
(* ended; what makes them so is what holds of each stage before: who has    *)
(* the loop and the lock (Owners), what is recorded of a request at its     *)
(* stage (Stages), and what the counters show while one of them is behind   *)
(* the others (Counting).                                                   *)

\* Who is in the finally block has the loop; who is between the two steps of the
\* registry has its lock.
Owners ==
  \A r \in Requests :
    /\ req[r].pc \in {"audit", "metrics", "labels"} <=> loop = r
    /\ req[r].pc \in {"reading", "labels"} <=> lock = r

\* Of an audited event that was acknowledged, retention took only what it may.
LedgerKeeps ==
  \A r \in Requests : status[r] = "acked" => r \in stored \/ Ledger!OutOfRetention(r)

\* A request that ended was passed through, or recorded and answered, or neither
\* recorded nor answered.
Ended(r) ==
  IF req[r].method = "notification" THEN status[r] = "new"
  ELSE /\ req[r].event = EventOf(req[r].method, req[r].outcome)
       /\ \/ req[r].reply = "auditFailure" /\ status[r] = "failed"
          \/ req[r].reply = req[r].outcome.kind /\ status[r] = "acked"

Stage(r) ==
  /\ req[r].pc \in {"new", "running", "reading", "returned"} => status[r] = "new"
  /\ req[r].pc \in {"new", "running", "reading"} => ~req[r].refused
  /\ req[r].pc \in {"audit", "metrics", "labels"} =>
       /\ req[r].method # "notification"
       /\ req[r].event = EventOf(req[r].method, req[r].outcome)
  /\ req[r].pc = "audit" => status[r] = "waiting"
  /\ req[r].pc \in {"metrics", "labels"} => status[r] = "acked"
  /\ req[r].pc \in {"running", "reading", "returned", "audit", "metrics", "labels"} => req[r].boot = restarts
  /\ req[r].pc = "done" => Ended(r)
  /\ req[r].boot <= restarts
  /\ req[r].refused => /\ req[r].method = "tools/call"
                      /\ req[r].outcome \in {ErrorResult("permission_denied"), Cancelled}

Stages == \A r \in Requests : Stage(r)

\* The requests whose record this process counted under a status.
Counted(s) ==
  {r \in Requests : /\ req[r].pc = "done" /\ status[r] = "acked"
                    /\ req[r].boot = restarts /\ req[r].event.status = s}

StatusesExact == \A s \in Statuses : metrics.statuses[s] = Cardinality(Counted(s))

\* The total is ahead of the labels by the request that has the lock for them.
Ahead == IF \E r \in Requests : req[r].pc = "labels" THEN 1 ELSE 0
Counting ==
  /\ metrics.count = metrics.statuses["success"] + metrics.statuses["error"]
                       + metrics.statuses["denied"] + Ahead
  /\ metrics.count = metrics.modules["known"] + metrics.modules["unknown"] + Ahead

Sums(m) ==
  /\ m.count = m.statuses["success"] + m.statuses["error"] + m.statuses["denied"]
  /\ m.count = m.modules["known"] + m.modules["unknown"]

\* While a snapshot is being taken its total is the registry's.
Seeing ==
  \A r \in Requests :
    /\ req[r].pc \in {"new", "running", "returned", "audit", "metrics", "labels", "done"} => Sums(req[r].seen)
    /\ req[r].pc = "reading" => req[r].seen.count = metrics.count

PipelineInv ==
  Typed /\ Owners /\ LedgerKeeps /\ Stages /\ StatusesExact /\ Counting /\ Seeing

-----------------------------------------------------------------------------
(* Steps *)

\* One field of a request at a time.
LEMMA FieldTypes ==
  ASSUME NEW c \in RequestType
  PROVE  /\ \A v \in PCs : [c EXCEPT !.pc = v] \in RequestType
         /\ \A v \in Methods : [c EXCEPT !.method = v] \in RequestType
         /\ \A v \in Modules : [c EXCEPT !.module = v] \in RequestType
         /\ \A v \in Nat : [c EXCEPT !.boot = v] \in RequestType
         /\ \A v \in OutcomeType : [c EXCEPT !.outcome = v] \in RequestType
         /\ \A v \in EventType : [c EXCEPT !.event = v] \in RequestType
         /\ \A v \in Kinds \cup {"none", "auditFailure"} : [c EXCEPT !.reply = v] \in RequestType
         /\ \A v \in BOOLEAN : [c EXCEPT !.refused = v] \in RequestType
         /\ \A v \in MetricsType : [c EXCEPT !.seen = v] \in RequestType
BY DEF RequestType

\* A step of one request changes that request.
LEMMA RequestChange ==
  ASSUME req \in [Requests -> RequestType], NEW r \in Requests, NEW c \in RequestType,
         req' = [req EXCEPT ![r] = c]
  PROVE  /\ req' \in [Requests -> RequestType] /\ req'[r] = c
         /\ \A q \in Requests \ {r} : req'[q] = req[q]
OBVIOUS

\* A step of one request that neither counts nor ends a counted one: of the
\* invariant, only what it says of this request is to be shown.
LEMMA QuietStep ==
  ASSUME PipelineInv, NEW r \in Requests, UNCHANGED <<metrics, restarts>>,
         req' \in [Requests -> RequestType], status' \in [Requests -> RecordStatus],
         \A q \in Requests \ {r} : req'[q] = req[q] /\ status'[q] = status[q],
         req[r].pc \notin {"labels", "done"}, req'[r].pc # "labels",
         req'[r].pc = "done" => status'[r] # "acked",
         Stage(r)',
         req'[r].pc = "reading" => req'[r].seen.count = metrics.count,
         req'[r].pc # "reading" => Sums(req'[r].seen)
  PROVE  Stages' /\ StatusesExact' /\ Counting' /\ Seeing'
<1> USE DEF PipelineInv
<1>1. Stages'
  <2> SUFFICES ASSUME NEW q \in Requests, q # r PROVE Stage(q)'
    BY DEF Stages
  <2>1. Stage(q) /\ req'[q] = req[q] /\ status'[q] = status[q]
    BY DEF Stages
  <2> QED BY <2>1 DEF Stage, Ended
<1>2. StatusesExact'
  <2>1. \A s : Counted(s)' = Counted(s)
    BY DEF Counted
  <2> QED BY <2>1 DEF StatusesExact
<1>3. Counting'
  <2>1. Ahead' = Ahead
    BY DEF Ahead
  <2> QED BY <2>1 DEF Counting
<1>4. Seeing'
  BY DEF Seeing, Sums
<1> QED BY <1>1, <1>2, <1>3, <1>4

\* A step that changes no request and no count: of the ledger, of another reader.
LEMMA LedgerStep ==
  ASSUME PipelineInv, UNCHANGED <<req, loop, lock, metrics, restarts, status, ts>>,
         clock' \in Nat, clock <= clock', stored' \subseteq Requests,
         \A r \in Requests : r \in stored => r \in stored' \/ Ledger!OutOfRetention(r)
  PROVE  PipelineInv'
<1> USE DEF PipelineInv
<1>1. Typed'
  BY DEF Typed
<1>2. Owners' /\ Stages' /\ StatusesExact' /\ Counting' /\ Seeing'
  BY DEF Owners, Stages, Stage, Ended, StatusesExact, Counted, Counting, Ahead, Seeing, Sums
<1>3. LedgerKeeps'
  <2> SUFFICES ASSUME NEW r \in Requests, status[r] = "acked"
               PROVE  r \in stored' \/ Ledger!OutOfRetention(r)'
    BY DEF LedgerKeeps
  <2>1. r \in stored \/ Ledger!OutOfRetention(r)
    BY DEF LedgerKeeps
  <2>2. Ledger!OutOfRetention(r) => Ledger!OutOfRetention(r)'
    BY BoundAssumption DEF Ledger!OutOfRetention, Typed
  <2> QED BY <2>1, <2>2
<1> QED BY <1>1, <1>2, <1>3

\* A request that moves on without the ledger, the loop and the lock.
LEMMA AloneKeeps ==
  ASSUME PipelineInv, NEW r \in Requests,
         UNCHANGED <<ledger, loop, lock, metrics, restarts>>,
         req' \in [Requests -> RequestType],
         \A q \in Requests \ {r} : req'[q] = req[q],
         req[r].pc \in {"new", "running", "returned"},
         req'[r].pc \in {"running", "returned", "done"},
         Stage(r)', Sums(req'[r].seen)
  PROVE  PipelineInv'
<1>1. UNCHANGED <<clock, status, ts, stored, loop, lock, metrics, restarts>>
  BY DEF ledger
<1>2. Typed'
  BY <1>1 DEF PipelineInv, Typed
<1>3. Owners'
  BY <1>1 DEF PipelineInv, Owners
<1>4. LedgerKeeps'
  BY <1>1 DEF PipelineInv, LedgerKeeps, Ledger!OutOfRetention
<1>5. req'[r].pc = "done" => status'[r] # "acked"
  BY <1>1 DEF PipelineInv, Stages, Stage
<1>6. Stages' /\ StatusesExact' /\ Counting' /\ Seeing'
  BY <1>1, <1>5, QuietStep DEF PipelineInv, Typed
<1> QED BY <1>2, <1>3, <1>4, <1>6 DEF PipelineInv

\* A request is received.
LEMMA ReceiveKeeps ==
  ASSUME PipelineInv, NEW r \in Requests, Receive(r)
  PROVE  PipelineInv'
<1>1. PICK method \in Methods, module \in Modules :
        req' = [req EXCEPT ![r].pc = "running", ![r].method = method,
                           ![r].module = module, ![r].boot = restarts]
  BY DEF Receive
<1>2. /\ req[r].pc = "new" /\ UNCHANGED <<ledger, loop, lock, metrics, restarts>>
      /\ req \in [Requests -> RequestType] /\ restarts \in Nat
      /\ status' = status
  BY DEF Receive, PipelineInv, Typed, ledger
<1>3. /\ req' \in [Requests -> RequestType]
      /\ \A q \in Requests \ {r} : req'[q] = req[q]
      /\ req'[r].pc = "running" /\ req'[r].boot = restarts
      /\ req'[r].refused = req[r].refused /\ req'[r].outcome = req[r].outcome
      /\ req'[r].seen = req[r].seen
  <2>1. PICK c : c = [req[r] EXCEPT !.pc = "running", !.method = method,
                                    !.module = module, !.boot = restarts]
    OBVIOUS
  <2>2. req' = [req EXCEPT ![r] = c]
    BY <1>1, <1>2, <2>1
  <2>3. "running" \in PCs
    BY DEF PCs
  <2>4. c \in RequestType
    BY <1>2, <2>1, <2>3, FieldTypes
  <2>5. /\ c.pc = "running" /\ c.boot = restarts /\ c.refused = req[r].refused
        /\ c.outcome = req[r].outcome /\ c.seen = req[r].seen
    BY <1>2, <2>1 DEF RequestType
  <2> QED BY <1>2, <2>2, <2>4, <2>5, RequestChange
<1>4. Stage(r)'
  BY <1>2, <1>3 DEF PipelineInv, Stages, Stage
<1>5. Sums(req'[r].seen)
  BY <1>2, <1>3 DEF PipelineInv, Seeing
<1> QED BY <1>2, <1>3, <1>4, <1>5, AloneKeeps

\* A handler that ends makes an outcome, refused or not.
LEMMA HandlerKeeps ==
  ASSUME PipelineInv, NEW r \in Requests, req[r].pc = "running",
         UNCHANGED <<ledger, loop, lock, metrics, restarts>>,
         NEW o \in OutcomeType, NEW refused \in BOOLEAN,
         refused => req[r].method = "tools/call" /\ o = ErrorResult("permission_denied"),
         req' = [req EXCEPT ![r].pc = "returned", ![r].outcome = o, ![r].refused = refused]
  PROVE  PipelineInv'
<1>1. req \in [Requests -> RequestType] /\ status' = status /\ restarts' = restarts
  BY DEF PipelineInv, Typed, ledger
<1>2. /\ req' \in [Requests -> RequestType]
      /\ \A q \in Requests \ {r} : req'[q] = req[q]
      /\ req'[r].pc = "returned" /\ req'[r].boot = req[r].boot
      /\ req'[r].method = req[r].method
      /\ req'[r].refused = refused /\ req'[r].outcome = o /\ req'[r].seen = req[r].seen
  <2>1. PICK c : c = [req[r] EXCEPT !.pc = "returned", !.outcome = o, !.refused = refused]
    OBVIOUS
  <2>2. req' = [req EXCEPT ![r] = c]
    BY <1>1, <2>1
  <2>3. "returned" \in PCs
    BY DEF PCs
  <2>4. c \in RequestType
    BY <1>1, <2>1, <2>3, FieldTypes
  <2>5. /\ c.pc = "returned" /\ c.boot = req[r].boot /\ c.refused = refused /\ c.method = req[r].method
        /\ c.outcome = o /\ c.seen = req[r].seen
    BY <1>1, <2>1 DEF RequestType
  <2> QED BY <1>1, <2>2, <2>4, <2>5, RequestChange
<1>3. Stage(r)'
  BY <1>1, <1>2 DEF PipelineInv, Stages, Stage
<1>4. Sums(req'[r].seen)
  BY <1>2 DEF PipelineInv, Seeing
<1> QED BY <1>2, <1>3, <1>4, AloneKeeps

LEMMA HandlerReturnsKeeps ==
  ASSUME PipelineInv, NEW r \in Requests, HandlerReturns(r)
  PROVE  PipelineInv'
<1>1. req \in [Requests -> RequestType] /\ req[r].refused = FALSE
  BY DEF HandlerReturns, PipelineInv, Typed, Stages, Stage, RequestType
<1>2. Returned \in OutcomeType
  BY DEF Returned, OutcomeType, Kinds
<1>3. req' = [req EXCEPT ![r].pc = "returned", ![r].outcome = Returned, ![r].refused = FALSE]
  BY <1>1 DEF HandlerReturns, RequestType
<1> QED BY <1>2, <1>3, HandlerKeeps DEF HandlerReturns

LEMMA HandlerRaisesKeeps ==
  ASSUME PipelineInv, NEW r \in Requests, HandlerRaises(r)
  PROVE  PipelineInv'
<1>1. PICK chain \in ToolFailures :
        req' = [req EXCEPT ![r].pc = "returned",
                           ![r].outcome = HandlerOutcome(req[r].method, chain),
                           ![r].refused = PolicyRefused(req[r].method, chain)]
  BY DEF HandlerRaises
<1>2. req[r].method \in Methods
  BY DEF PipelineInv, Typed, RequestType
<1>3. /\ HandlerOutcome(req[r].method, chain) \in OutcomeType
      /\ PolicyRefused(req[r].method, chain) =>
           HandlerOutcome(req[r].method, chain) = ErrorResult("permission_denied")
  BY <1>2, HandlerOutcomes
<1>4. /\ PolicyRefused(req[r].method, chain) \in BOOLEAN
      /\ PolicyRefused(req[r].method, chain) => req[r].method = "tools/call"
  BY DEF PolicyRefused
<1> QED BY <1>1, <1>3, <1>4, HandlerKeeps DEF HandlerRaises

\* A cancellation replaces the outcome, of a refused call too.
LEMMA CancelKeeps ==
  ASSUME PipelineInv, NEW r \in Requests, Cancel(r)
  PROVE  PipelineInv'
<1>1. /\ req \in [Requests -> RequestType] /\ req[r].pc \in {"running", "returned"}
      /\ UNCHANGED <<ledger, loop, lock, metrics, restarts>>
      /\ status' = status /\ restarts' = restarts
      /\ req' = [req EXCEPT ![r].pc = "returned", ![r].outcome = Cancelled]
  BY DEF Cancel, PipelineInv, Typed, ledger
<1>2. Cancelled \in OutcomeType
  BY DEF Cancelled, OutcomeType, Kinds
<1>3. /\ req' \in [Requests -> RequestType]
      /\ \A q \in Requests \ {r} : req'[q] = req[q]
      /\ req'[r].pc = "returned" /\ req'[r].boot = req[r].boot /\ req'[r].method = req[r].method
      /\ req'[r].outcome = Cancelled /\ req'[r].seen = req[r].seen
  <2>1. PICK c : c = [req[r] EXCEPT !.pc = "returned", !.outcome = Cancelled]
    OBVIOUS
  <2>2. req' = [req EXCEPT ![r] = c]
    BY <1>1, <2>1
  <2>3. "returned" \in PCs
    BY DEF PCs
  <2>4. c \in RequestType
    BY <1>1, <1>2, <2>1, <2>3, FieldTypes
  <2>5. /\ c.pc = "returned" /\ c.boot = req[r].boot /\ c.method = req[r].method
        /\ c.outcome = Cancelled /\ c.seen = req[r].seen
    BY <1>1, <2>1 DEF RequestType
  <2> QED BY <1>1, <2>2, <2>4, <2>5, RequestChange
<1>4. Stage(r)'
  BY <1>1, <1>3 DEF PipelineInv, Stages, Stage
<1>5. Sums(req'[r].seen)
  BY <1>1, <1>3 DEF PipelineInv, Seeing
<1> QED BY <1>1, <1>3, <1>4, <1>5, AloneKeeps

LEMMA PassthroughKeeps ==
  ASSUME PipelineInv, NEW r \in Requests, Passthrough(r)
  PROVE  PipelineInv'
<1>1. /\ req \in [Requests -> RequestType] /\ req[r].pc = "returned"
      /\ req[r].method = "notification"
      /\ UNCHANGED <<ledger, loop, lock, metrics, restarts>>
      /\ status' = status /\ restarts' = restarts
      /\ req' = [req EXCEPT ![r].pc = "done"]
  BY DEF Passthrough, Set, PipelineInv, Typed, ledger
<1>2. /\ req' \in [Requests -> RequestType]
      /\ \A q \in Requests \ {r} : req'[q] = req[q]
      /\ req'[r].pc = "done" /\ req'[r].boot = req[r].boot
      /\ req'[r].method = req[r].method /\ req'[r].refused = req[r].refused
      /\ req'[r].outcome = req[r].outcome /\ req'[r].seen = req[r].seen
  BY <1>1 DEF RequestType, PCs
<1>3. Stage(r)'
  BY <1>1, <1>2 DEF PipelineInv, Stages, Stage, Ended
<1>4. Sums(req'[r].seen)
  BY <1>1, <1>2 DEF PipelineInv, Seeing
<1> QED BY <1>1, <1>2, <1>3, <1>4, AloneKeeps

\* A snapshot takes the lock and the total: nobody is being counted.
LEMMA SnapshotCountKeeps ==
  ASSUME PipelineInv, NEW r \in Requests, SnapshotCount(r)
  PROVE  PipelineInv'
<1>1. /\ req \in [Requests -> RequestType] /\ req[r].pc = "running"
      /\ lock = Nobody /\ lock' = r
      /\ UNCHANGED <<clock, status, ts, stored, loop, metrics, restarts>>
      /\ req' = [req EXCEPT ![r].pc = "reading", ![r].seen.count = metrics.count]
  BY DEF SnapshotCount, PipelineInv, Typed, ledger
<1>2. metrics \in MetricsType /\ req[r].seen \in MetricsType
  BY <1>1 DEF PipelineInv, Typed, RequestType
<1>3. /\ req' \in [Requests -> RequestType]
      /\ \A q \in Requests \ {r} : req'[q] = req[q]
      /\ req'[r].pc = "reading" /\ req'[r].boot = req[r].boot /\ req'[r].method = req[r].method
      /\ req'[r].refused = req[r].refused /\ req'[r].outcome = req[r].outcome
      /\ req'[r].seen.count = metrics.count
  <2>1. PICK seen : seen = [req[r].seen EXCEPT !.count = metrics.count]
    OBVIOUS
  <2>2. seen \in MetricsType /\ seen.count = metrics.count
    BY <1>2, <2>1 DEF MetricsType
  <2>3. PICK c : c = [req[r] EXCEPT !.pc = "reading", !.seen = seen]
    OBVIOUS
  <2>4. req' = [req EXCEPT ![r] = c]
    BY <1>1, <2>1, <2>3
  <2>5. "reading" \in PCs
    BY DEF PCs
  <2>6. c \in RequestType
    BY <1>1, <2>2, <2>3, <2>5, FieldTypes
  <2>7. /\ c.pc = "reading" /\ c.boot = req[r].boot /\ c.seen = seen /\ c.method = req[r].method
        /\ c.refused = req[r].refused /\ c.outcome = req[r].outcome
    BY <1>1, <2>3 DEF RequestType
  <2> QED BY <1>1, <2>2, <2>4, <2>6, <2>7, RequestChange
<1>4. Typed'
  BY <1>1, <1>3 DEF PipelineInv, Typed
<1>5. Owners'
  BY <1>1, <1>3, RequestAssumption DEF PipelineInv, Owners
<1>6. LedgerKeeps'
  BY <1>1 DEF PipelineInv, LedgerKeeps, Ledger!OutOfRetention
<1>7. Stage(r)'
  BY <1>1, <1>3 DEF PipelineInv, Stages, Stage
<1>8. Stages' /\ StatusesExact' /\ Counting' /\ Seeing'
  BY <1>1, <1>3, <1>4, <1>7, QuietStep DEF Typed
<1> QED BY <1>4, <1>5, <1>6, <1>8 DEF PipelineInv

\* It copies the labels while it has the lock, and nobody counted in between.
LEMMA SnapshotLabelsKeeps ==
  ASSUME PipelineInv, NEW r \in Requests, SnapshotLabels(r)
  PROVE  PipelineInv'
<1>1. /\ req \in [Requests -> RequestType] /\ req[r].pc = "reading" /\ lock' = Nobody
      /\ UNCHANGED <<clock, status, ts, stored, loop, metrics, restarts>>
      /\ req' = [req EXCEPT ![r].pc = "returned", ![r].outcome = Returned,
                            ![r].seen = [metrics EXCEPT !.count = req[r].seen.count]]
  BY DEF SnapshotLabels, PipelineInv, Typed, ledger
<1>2. metrics \in MetricsType /\ req[r].seen.count = metrics.count
  BY <1>1 DEF PipelineInv, Typed, Seeing
<1>3. [metrics EXCEPT !.count = req[r].seen.count] = metrics
  BY <1>2 DEF MetricsType
<1>4. Returned \in OutcomeType
  BY DEF Returned, OutcomeType, Kinds
<1>5. /\ req' \in [Requests -> RequestType]
      /\ \A q \in Requests \ {r} : req'[q] = req[q]
      /\ req'[r].pc = "returned" /\ req'[r].boot = req[r].boot /\ req'[r].method = req[r].method
      /\ req'[r].refused = req[r].refused /\ req'[r].seen = metrics
  <2>1. PICK c : c = [req[r] EXCEPT !.pc = "returned", !.outcome = Returned, !.seen = metrics]
    OBVIOUS
  <2>2. req' = [req EXCEPT ![r] = c]
    BY <1>1, <1>3, <2>1
  <2>3. "returned" \in PCs
    BY DEF PCs
  <2>4. c \in RequestType
    BY <1>1, <1>2, <1>4, <2>1, <2>3, FieldTypes
  <2>5. /\ c.pc = "returned" /\ c.boot = req[r].boot /\ c.refused = req[r].refused
        /\ c.seen = metrics /\ c.method = req[r].method
    BY <1>1, <2>1 DEF RequestType
  <2> QED BY <1>1, <2>2, <2>4, <2>5, RequestChange
<1>6. lock = r /\ \A q \in Requests : req[q].pc # "labels"
  BY <1>1 DEF PipelineInv, Owners
<1>7. Sums(metrics)
  <2>1. Ahead = 0
    BY <1>6 DEF Ahead
  <2> QED BY <1>2, <2>1 DEF PipelineInv, Counting, Sums, MetricsType, Statuses, Modules
<1>8. Typed'
  BY <1>1, <1>5 DEF PipelineInv, Typed
<1>9. Owners'
  BY <1>1, <1>5, <1>6, RequestAssumption DEF PipelineInv, Owners
<1>10. LedgerKeeps'
  BY <1>1 DEF PipelineInv, LedgerKeeps, Ledger!OutOfRetention
<1>11. Stage(r)'
  BY <1>1, <1>5 DEF PipelineInv, Stages, Stage
<1>12. Stages' /\ StatusesExact' /\ Counting' /\ Seeing'
  BY <1>1, <1>5, <1>7, <1>8, <1>11, QuietStep DEF Typed
<1> QED BY <1>8, <1>9, <1>10, <1>12 DEF PipelineInv

\* The finally block begins: the event is that of the outcome.
LEMMA FinallyKeeps ==
  ASSUME PipelineInv, NEW r \in Requests, Finally(r)
  PROVE  PipelineInv'
<1> DEFINE event == EventOf(req[r].method, req[r].outcome)
<1>1. /\ req \in [Requests -> RequestType] /\ req[r].pc = "returned" /\ loop = Nobody
      /\ req[r].method # "notification"
      /\ status[r] = "new" /\ status' = [status EXCEPT ![r] = "waiting"]
      /\ ts' = [ts EXCEPT ![r] = clock]
      /\ loop' = r /\ UNCHANGED <<clock, stored, lock, metrics, restarts>>
      /\ req' = [req EXCEPT ![r].pc = "audit", ![r].event = event]
  BY DEF Finally, Ledger!Submit, PipelineInv, Typed
<1>2. req[r].method \in Methods /\ req[r].outcome \in OutcomeType
  BY <1>1 DEF RequestType
<1>3. event \in EventType
  BY <1>2, EventFacts
<1>4. /\ req' \in [Requests -> RequestType]
      /\ \A q \in Requests \ {r} : req'[q] = req[q]
      /\ req'[r].pc = "audit" /\ req'[r].boot = req[r].boot
      /\ req'[r].method = req[r].method /\ req'[r].outcome = req[r].outcome
      /\ req'[r].refused = req[r].refused /\ req'[r].seen = req[r].seen
      /\ req'[r].event = event
  <2> HIDE DEF event
  <2>1. PICK c : c = [req[r] EXCEPT !.pc = "audit", !.event = event]
    OBVIOUS
  <2>2. req' = [req EXCEPT ![r] = c]
    BY <1>1, <2>1
  <2>3. "audit" \in PCs
    BY DEF PCs
  <2>4. c \in RequestType
    BY <1>1, <1>3, <2>1, <2>3, FieldTypes
  <2>5. /\ c.pc = "audit" /\ c.boot = req[r].boot /\ c.method = req[r].method
        /\ c.outcome = req[r].outcome /\ c.refused = req[r].refused
        /\ c.seen = req[r].seen /\ c.event = event
    BY <1>1, <2>1 DEF RequestType
  <2> QED BY <1>1, <2>2, <2>4, <2>5, RequestChange
<1>5. /\ status' \in [Requests -> RecordStatus] /\ status'[r] = "waiting"
      /\ \A q \in Requests \ {r} : status'[q] = status[q] /\ ts'[q] = ts[q]
      /\ ts' \in [Requests -> Nat]
  BY <1>1 DEF PipelineInv, Typed, RecordStatus
<1>6. Typed'
  BY <1>1, <1>4, <1>5 DEF PipelineInv, Typed
<1>7. Owners'
  BY <1>1, <1>4, RequestAssumption DEF PipelineInv, Owners
<1>8. LedgerKeeps'
  BY <1>1, <1>5 DEF PipelineInv, LedgerKeeps, Ledger!OutOfRetention
<1>9. Stage(r)'
  <2> HIDE DEF event
  <2>1. req'[r].event = EventOf(req'[r].method, req'[r].outcome)
    BY <1>4 DEF event
  <2> QED BY <1>1, <1>4, <1>5, <2>1 DEF PipelineInv, Stages, Stage
<1>10. Sums(req'[r].seen)
  BY <1>1, <1>4 DEF PipelineInv, Seeing
<1>11. Stages' /\ StatusesExact' /\ Counting' /\ Seeing'
  BY <1>1, <1>4, <1>5, <1>9, <1>10, QuietStep
<1> QED BY <1>6, <1>7, <1>8, <1>11 DEF PipelineInv

\* record() writes, retention deletes, time passes: the requests stand.
LEMMA AuditStoresKeeps ==
  ASSUME PipelineInv, NEW r \in Requests, AuditStores(r)
  PROVE  PipelineInv'
<1>1. /\ UNCHANGED <<req, loop, lock, metrics, restarts, status, ts, clock>>
      /\ stored' = stored \cup {r}
  BY DEF AuditStores, Ledger!Store
<1>2. clock' \in Nat /\ clock <= clock' /\ stored' \subseteq Requests
  BY <1>1 DEF PipelineInv, Typed
<1> QED BY <1>1, <1>2, LedgerStep

LEMMA RetainKeeps ==
  ASSUME PipelineInv, NEW r \in Requests, Retain(r)
  PROVE  PipelineInv'
<1>1. UNCHANGED <<req, loop, lock, metrics, restarts, status, ts, clock>>
  BY DEF Retain, Ledger!Expire
<1>2. PICK old \in (SUBSET stored) \ {{}} :
        /\ \A q \in old : Ledger!OutOfRetention(q)
        /\ stored' = stored \ old
  BY DEF Retain, Ledger!Expire
<1>3. clock' \in Nat /\ clock <= clock' /\ stored' \subseteq Requests
  BY <1>1, <1>2 DEF PipelineInv, Typed
<1>4. \A q \in Requests : q \in stored => q \in stored' \/ Ledger!OutOfRetention(q)
  BY <1>2
<1> QED BY <1>1, <1>3, <1>4, LedgerStep

LEMMA TickKeeps ==
  ASSUME PipelineInv, Tick
  PROVE  PipelineInv'
<1>1. /\ UNCHANGED <<req, loop, lock, metrics, restarts, status, ts, stored>>
      /\ clock' = clock + 1
  BY DEF Tick, Ledger!Tick
<1>2. clock' \in Nat /\ clock <= clock' /\ stored' \subseteq Requests
  BY <1>1 DEF PipelineInv, Typed
<1> QED BY <1>1, <1>2, LedgerStep

LEMMA StutterKeeps ==
  ASSUME PipelineInv, UNCHANGED vars
  PROVE  PipelineInv'
<1>1. UNCHANGED <<req, loop, lock, metrics, restarts, status, ts, clock, stored>>
  BY DEF vars
<1>2. clock' \in Nat /\ clock <= clock' /\ stored' \subseteq Requests
  BY <1>1 DEF PipelineInv, Typed
<1> QED BY <1>1, <1>2, LedgerStep

\* record() returns: the event is stored, and retention has not met it.
LEMMA AuditReturnsKeeps ==
  ASSUME PipelineInv, NEW r \in Requests, AuditReturns(r)
  PROVE  PipelineInv'
<1>1. /\ req \in [Requests -> RequestType] /\ req[r].pc = "audit"
      /\ status[r] = "waiting" /\ status' = [status EXCEPT ![r] = "acked"]
      /\ r \in stored
      /\ UNCHANGED <<clock, ts, stored, loop, lock, metrics, restarts>>
      /\ req' = [req EXCEPT ![r].pc = "metrics"]
  BY DEF AuditReturns, Ledger!Ack, Set, PipelineInv, Typed
<1>2. /\ req' \in [Requests -> RequestType]
      /\ \A q \in Requests \ {r} : req'[q] = req[q]
      /\ req'[r].pc = "metrics" /\ req'[r].boot = req[r].boot
      /\ req'[r].method = req[r].method /\ req'[r].outcome = req[r].outcome
      /\ req'[r].refused = req[r].refused /\ req'[r].seen = req[r].seen
      /\ req'[r].event = req[r].event
  BY <1>1 DEF RequestType, PCs
<1>3. /\ status' \in [Requests -> RecordStatus] /\ status'[r] = "acked"
      /\ \A q \in Requests \ {r} : status'[q] = status[q]
  BY <1>1 DEF PipelineInv, Typed, RecordStatus
<1>4. Typed'
  BY <1>1, <1>2, <1>3 DEF PipelineInv, Typed
<1>5. Owners'
  BY <1>1, <1>2 DEF PipelineInv, Owners
<1>6. LedgerKeeps'
  BY <1>1, <1>3 DEF PipelineInv, LedgerKeeps, Ledger!OutOfRetention
<1>7. Stage(r)'
  BY <1>1, <1>2, <1>3 DEF PipelineInv, Stages, Stage
<1>8. Sums(req'[r].seen)
  BY <1>1, <1>2 DEF PipelineInv, Seeing
<1>9. Stages' /\ StatusesExact' /\ Counting' /\ Seeing'
  BY <1>1, <1>2, <1>3, <1>7, <1>8, QuietStep
<1> QED BY <1>4, <1>5, <1>6, <1>9 DEF PipelineInv

\* record() raises: the loop is free, the reply is the failure, nothing counts.
LEMMA AuditRaisesKeeps ==
  ASSUME PipelineInv, NEW r \in Requests, AuditRaises(r)
  PROVE  PipelineInv'
<1>1. /\ req \in [Requests -> RequestType] /\ req[r].pc = "audit"
      /\ status' = [status EXCEPT ![r] = "failed"] /\ loop' = Nobody
      /\ UNCHANGED <<clock, ts, stored, lock, metrics, restarts>>
      /\ req' = [req EXCEPT ![r].pc = "done", ![r].reply = "auditFailure"]
  BY DEF AuditRaises, Ledger!Fail, PipelineInv, Typed
<1>2. /\ req' \in [Requests -> RequestType]
      /\ \A q \in Requests \ {r} : req'[q] = req[q]
      /\ req'[r].pc = "done" /\ req'[r].reply = "auditFailure" /\ req'[r].boot = req[r].boot
      /\ req'[r].method = req[r].method /\ req'[r].outcome = req[r].outcome
      /\ req'[r].refused = req[r].refused /\ req'[r].seen = req[r].seen
      /\ req'[r].event = req[r].event
  <2>1. PICK c : c = [req[r] EXCEPT !.pc = "done", !.reply = "auditFailure"]
    OBVIOUS
  <2>2. req' = [req EXCEPT ![r] = c]
    BY <1>1, <2>1
  <2>3. "done" \in PCs
    BY DEF PCs
  <2>4. c \in RequestType
    BY <1>1, <2>1, <2>3, FieldTypes
  <2>5. /\ c.pc = "done" /\ c.reply = "auditFailure" /\ c.boot = req[r].boot
        /\ c.method = req[r].method /\ c.outcome = req[r].outcome
        /\ c.refused = req[r].refused /\ c.seen = req[r].seen /\ c.event = req[r].event
    BY <1>1, <2>1 DEF RequestType
  <2> QED BY <1>1, <2>2, <2>4, <2>5, RequestChange
<1>3. /\ status' \in [Requests -> RecordStatus] /\ status'[r] = "failed"
      /\ \A q \in Requests \ {r} : status'[q] = status[q]
  BY <1>1 DEF PipelineInv, Typed, RecordStatus
<1>4. Typed'
  BY <1>1, <1>2, <1>3 DEF PipelineInv, Typed
<1>5. Owners'
  BY <1>1, <1>2, RequestAssumption DEF PipelineInv, Owners
<1>6. LedgerKeeps'
  BY <1>1, <1>3 DEF PipelineInv, LedgerKeeps, Ledger!OutOfRetention
<1>7. Stage(r)'
  BY <1>1, <1>2, <1>3 DEF PipelineInv, Stages, Stage, Ended
<1>8. Sums(req'[r].seen)
  BY <1>1, <1>2 DEF PipelineInv, Seeing
<1>9. Stages' /\ StatusesExact' /\ Counting' /\ Seeing'
  BY <1>1, <1>2, <1>3, <1>7, <1>8, QuietStep
<1> QED BY <1>4, <1>5, <1>6, <1>9 DEF PipelineInv

\* The total is counted first: it is one ahead of the labels.
LEMMA MetricsCountKeeps ==
  ASSUME PipelineInv, NEW r \in Requests, MetricsCount(r)
  PROVE  PipelineInv'
<1>1. /\ req \in [Requests -> RequestType] /\ req[r].pc = "metrics"
      /\ lock = Nobody /\ lock' = r
      /\ UNCHANGED <<clock, status, ts, stored, loop, restarts>>
      /\ metrics' = [metrics EXCEPT !.count = @ + 1]
      /\ req' = [req EXCEPT ![r].pc = "labels"]
  BY DEF MetricsCount, Set, PipelineInv, Typed, ledger
<1>2. /\ req' \in [Requests -> RequestType]
      /\ \A q \in Requests \ {r} : req'[q] = req[q]
      /\ req'[r].pc = "labels" /\ req'[r].boot = req[r].boot
      /\ req'[r].method = req[r].method /\ req'[r].outcome = req[r].outcome
      /\ req'[r].refused = req[r].refused /\ req'[r].seen = req[r].seen
      /\ req'[r].event = req[r].event
  BY <1>1 DEF RequestType, PCs
<1>3. /\ metrics \in MetricsType /\ metrics' \in MetricsType
      /\ metrics'.count = metrics.count + 1
      /\ metrics'.statuses = metrics.statuses /\ metrics'.modules = metrics.modules
  BY <1>1 DEF PipelineInv, Typed, MetricsType
<1>4. \A q \in Requests : req[q].pc \notin {"reading", "labels"}
  BY <1>1, RequestAssumption DEF PipelineInv, Owners
<1>5. Typed'
  BY <1>1, <1>2, <1>3 DEF PipelineInv, Typed
<1>6. Owners'
  BY <1>1, <1>2, <1>4 DEF PipelineInv, Owners
<1>7. LedgerKeeps'
  BY <1>1 DEF PipelineInv, LedgerKeeps, Ledger!OutOfRetention
<1>8. Stages'
  <2>1. Stage(r)'
    BY <1>1, <1>2 DEF PipelineInv, Stages, Stage
  <2>2. ASSUME NEW q \in Requests \ {r} PROVE Stage(q)'
    <3>1. Stage(q) /\ req'[q] = req[q]
      BY <1>2 DEF PipelineInv, Stages
    <3> QED BY <1>1, <3>1 DEF Stage, Ended
  <2> QED BY <2>1, <2>2 DEF Stages
<1>9. StatusesExact'
  <2>1. \A s : Counted(s)' = Counted(s)
    BY <1>1, <1>2 DEF Counted
  <2> QED BY <1>3, <2>1 DEF PipelineInv, StatusesExact
<1>10. Counting'
  <2>1. Ahead = 0 /\ Ahead' = 1
    BY <1>2, <1>4 DEF Ahead
  <2> QED BY <1>3, <2>1 DEF PipelineInv, Counting, MetricsType, Statuses, Modules
<1>11. Seeing'
  <2>1. Sums(req'[r].seen)
    BY <1>1, <1>2 DEF PipelineInv, Seeing
  <2>2. \A q \in Requests : req'[q].pc # "reading"
    BY <1>2, <1>4
  <2> QED BY <1>2, <2>1, <2>2 DEF PipelineInv, Seeing, Sums
<1> QED BY <1>5, <1>6, <1>7, <1>8, <1>9, <1>10, <1>11 DEF PipelineInv

\* The labels follow: the request has ended, and is the one more of its status.
LEMMA MetricsLabelsKeeps ==
  ASSUME PipelineInv, NEW r \in Requests, MetricsLabels(r)
  PROVE  PipelineInv'
<1> DEFINE st == req[r].event.status
           mod == req[r].module
           kind == req[r].outcome.kind
<1>1. /\ req \in [Requests -> RequestType] /\ req[r].pc = "labels" /\ lock' = Nobody
      /\ loop' = Nobody /\ UNCHANGED <<clock, status, ts, stored, restarts>>
      /\ metrics' = [metrics EXCEPT !.statuses[st] = @ + 1, !.modules[mod] = @ + 1]
      /\ req' = [req EXCEPT ![r].pc = "done", ![r].reply = kind]
  BY DEF MetricsLabels, PipelineInv, Typed, ledger
<1>2. /\ status[r] = "acked" /\ req[r].method # "notification"
      /\ req[r].event = EventOf(req[r].method, req[r].outcome)
      /\ req[r].boot = restarts
  BY <1>1 DEF PipelineInv, Stages, Stage
<1>3. st \in Statuses /\ mod \in Modules /\ kind \in Kinds
  <2>1. req[r].method \in Methods /\ req[r].outcome \in OutcomeType /\ mod \in Modules
    BY <1>1 DEF RequestType
  <2>2. st \in Statuses
    BY <1>2, <2>1, EventFacts
  <2> QED BY <2>1, <2>2 DEF OutcomeType
<1>4. metrics \in MetricsType
  BY DEF PipelineInv, Typed
<1>5. /\ metrics' \in MetricsType /\ metrics'.count = metrics.count
      /\ metrics'.statuses[st] = metrics.statuses[st] + 1
      /\ \A t \in Statuses \ {st} : metrics'.statuses[t] = metrics.statuses[t]
      /\ metrics'.modules[mod] = metrics.modules[mod] + 1
      /\ \A t \in Modules \ {mod} : metrics'.modules[t] = metrics.modules[t]
  <2> HIDE DEF st, mod
  <2>1. PICK statuses : statuses = [metrics.statuses EXCEPT ![st] = metrics.statuses[st] + 1]
    OBVIOUS
  <2>2. PICK modules : modules = [metrics.modules EXCEPT ![mod] = metrics.modules[mod] + 1]
    OBVIOUS
  <2>3. metrics' = [metrics EXCEPT !.statuses = statuses, !.modules = modules]
    BY <1>1, <2>1, <2>2
  <2>4. /\ statuses \in [Statuses -> Nat] /\ statuses[st] = metrics.statuses[st] + 1
        /\ \A t \in Statuses \ {st} : statuses[t] = metrics.statuses[t]
    BY <1>3, <1>4, <2>1 DEF MetricsType
  <2>5. /\ modules \in [Modules -> Nat] /\ modules[mod] = metrics.modules[mod] + 1
        /\ \A t \in Modules \ {mod} : modules[t] = metrics.modules[t]
    BY <1>3, <1>4, <2>2 DEF MetricsType
  <2> QED BY <1>4, <2>3, <2>4, <2>5 DEF MetricsType
<1>6. /\ req' \in [Requests -> RequestType]
      /\ \A q \in Requests \ {r} : req'[q] = req[q]
      /\ req'[r].pc = "done" /\ req'[r].reply = kind /\ req'[r].boot = req[r].boot
      /\ req'[r].method = req[r].method /\ req'[r].outcome = req[r].outcome
      /\ req'[r].refused = req[r].refused /\ req'[r].seen = req[r].seen
      /\ req'[r].event = req[r].event
  <2>1. PICK c : c = [req[r] EXCEPT !.pc = "done", !.reply = kind]
    OBVIOUS
  <2>2. req' = [req EXCEPT ![r] = c]
    BY <1>1, <2>1
  <2>3. "done" \in PCs
    BY DEF PCs
  <2>4. c \in RequestType
    BY <1>1, <1>3, <2>1, <2>3, FieldTypes
  <2>5. /\ c.pc = "done" /\ c.reply = kind /\ c.boot = req[r].boot
        /\ c.method = req[r].method /\ c.outcome = req[r].outcome
        /\ c.refused = req[r].refused /\ c.seen = req[r].seen /\ c.event = req[r].event
    BY <1>1, <2>1 DEF RequestType
  <2> QED BY <1>1, <2>2, <2>4, <2>5, RequestChange
<1>7. \A q \in Requests \ {r} : req[q].pc \notin {"audit", "metrics", "reading", "labels"}
  BY <1>1 DEF PipelineInv, Owners
<1>8. Typed'
  BY <1>1, <1>5, <1>6 DEF PipelineInv, Typed
<1>9. Owners'
  BY <1>1, <1>6, <1>7, RequestAssumption DEF PipelineInv, Owners
<1>10. LedgerKeeps'
  BY <1>1 DEF PipelineInv, LedgerKeeps, Ledger!OutOfRetention
<1>11. Stages'
  <2>1. Stage(r)'
    BY <1>1, <1>2, <1>6 DEF PipelineInv, Stages, Stage, Ended
  <2>2. ASSUME NEW q \in Requests \ {r} PROVE Stage(q)'
    <3>1. Stage(q) /\ req'[q] = req[q]
      BY <1>6 DEF PipelineInv, Stages
    <3> QED BY <1>1, <3>1 DEF Stage, Ended
  <2> QED BY <2>1, <2>2 DEF Stages
<1>12. StatusesExact'
  <2> SUFFICES ASSUME NEW s \in Statuses
               PROVE  metrics'.statuses[s] = Cardinality(Counted(s)')
    BY DEF StatusesExact
  <2>1. metrics.statuses[s] = Cardinality(Counted(s))
    BY DEF PipelineInv, StatusesExact
  <2>2. CASE s = st
    <3>1. Counted(s)' = Counted(s) \cup {r} /\ r \notin Counted(s)
      BY <1>1, <1>2, <1>6, <2>2 DEF Counted
    <3>2. IsFiniteSet(Counted(s))
      BY RequestAssumption, FS_Subset DEF Counted
    <3>3. Cardinality(Counted(s) \cup {r}) = Cardinality(Counted(s)) + 1
      BY <3>1, <3>2, FS_AddElement
    <3> QED BY <1>5, <2>1, <2>2, <3>1, <3>3
  <2>3. CASE s # st
    <3>1. Counted(s)' = Counted(s)
      BY <1>1, <1>6, <2>3 DEF Counted
    <3> QED BY <1>5, <2>1, <2>3, <3>1
  <2> QED BY <2>2, <2>3
<1>13. Sums(metrics')
  <2>1. Ahead = 1
    BY <1>1 DEF Ahead
  <2> HIDE DEF st, mod
  <2>2. metrics.count \in Nat /\ metrics.statuses \in [Statuses -> Nat] /\ metrics.modules \in [Modules -> Nat]
    BY <1>4 DEF MetricsType
  <2>3. /\ metrics.count = metrics.statuses["success"] + metrics.statuses["error"]
                             + metrics.statuses["denied"] + 1
        /\ metrics.count = metrics.modules["known"] + metrics.modules["unknown"] + 1
    BY <2>1 DEF PipelineInv, Counting
  <2> QED BY <1>3, <1>5, <2>2, <2>3 DEF Sums, Statuses, Modules
<1>14. Counting'
  <2>1. Ahead' = 0
    BY <1>6, <1>7 DEF Ahead
  <2> QED BY <1>5, <1>13, <2>1 DEF Counting, Sums, MetricsType, Statuses, Modules
<1>15. Seeing'
  <2>1. Sums(req'[r].seen)
    BY <1>1, <1>6 DEF PipelineInv, Seeing
  <2>2. \A q \in Requests : req'[q].pc # "reading"
    BY <1>6, <1>7
  <2> QED BY <1>6, <2>1, <2>2 DEF PipelineInv, Seeing, Sums
<1> QED BY <1>8, <1>9, <1>10, <1>11, <1>12, <1>14, <1>15 DEF PipelineInv

\* Metrics that start from nothing add up, and count nobody.
LEMMA NoMetricsFacts ==
  /\ NoMetrics \in MetricsType /\ Sums(NoMetrics) /\ NoMetrics.count = 0
  /\ \A s \in Statuses : NoMetrics.statuses[s] = 0
BY DEF NoMetrics, MetricsType, Sums, Statuses, Modules

\* The process is started again: nobody has the loop or the lock, no request of
\* the new process is counted, and the old ones keep what they ended with.
LEMMA RestartKeeps ==
  ASSUME PipelineInv, Restart
  PROVE  PipelineInv'
<1>1. /\ restarts \in Nat /\ restarts' = restarts + 1
      /\ loop' = Nobody /\ lock' = Nobody /\ metrics' = NoMetrics
      /\ UNCHANGED <<clock, ts>>
      /\ req \in [Requests -> RequestType] /\ status \in [Requests -> RecordStatus]
  BY DEF Restart, Ledger!Restart, PipelineInv, Typed
<1>2. /\ req' \in [Requests -> RequestType]
      /\ \A r \in Requests :
           /\ req[r].pc \in {"new", "done", "lost"} => req'[r] = req[r]
           /\ req[r].pc \notin {"new", "done", "lost"} => req'[r] = [req[r] EXCEPT !.pc = "lost"]
  <2>1. "lost" \in PCs
    BY DEF PCs
  <2>2. \A r \in Requests : [req[r] EXCEPT !.pc = "lost"] \in RequestType
    BY <1>1, <2>1, FieldTypes
  <2> QED BY <1>1, <2>2 DEF Restart
<1>3. \A r \in Requests :
        /\ req'[r].pc \in {"new", "done", "lost"}
        /\ req'[r].pc # "lost" => req'[r] = req[r]
        /\ req'[r].boot = req[r].boot /\ req'[r].refused = req[r].refused
        /\ req'[r].outcome = req[r].outcome /\ req'[r].method = req[r].method
  BY <1>1, <1>2 DEF RequestType
<1>4. /\ status' \in [Requests -> RecordStatus]
      /\ \A r \in Requests : status[r] # "waiting" => status'[r] = status[r]
      /\ \A r \in Requests : status'[r] = "acked" => status[r] = "acked"
  BY <1>1 DEF Restart, Ledger!Restart, RecordStatus
<1>5. /\ stored' \subseteq Requests
      /\ \A r \in stored : r \in stored' \/ status[r] # "acked" \/ Ledger!OutOfRetention(r)
  BY DEF Restart, Ledger!Restart
<1>6. \A r \in Requests : req[r].boot <= restarts /\ req[r].boot \in Nat
  BY <1>1 DEF PipelineInv, Stages, Stage, RequestType
<1>7. Typed'
  BY <1>1, <1>2, <1>4, <1>5, NoMetricsFacts DEF PipelineInv, Typed
<1>8. Owners'
  BY <1>1, <1>3, RequestAssumption DEF Owners
<1>9. LedgerKeeps'
  BY <1>1, <1>4, <1>5 DEF PipelineInv, LedgerKeeps, Ledger!OutOfRetention
<1>10. Stages'
  <2> SUFFICES ASSUME NEW r \in Requests PROVE Stage(r)'
    BY DEF Stages
  <2>1. Stage(r)
    BY DEF PipelineInv, Stages
  <2>2. CASE req'[r].pc = "lost"
    BY <1>1, <1>3, <1>6, <2>1, <2>2 DEF Stage
  <2>3. CASE req'[r].pc \in {"new", "done"}
    <3>1. req'[r] = req[r] /\ status[r] # "waiting"
      BY <1>3, <2>1, <2>3 DEF Stage, Ended
    <3>2. status'[r] = status[r]
      BY <1>4, <3>1
    <3> QED BY <1>1, <1>6, <2>1, <2>3, <3>1, <3>2 DEF Stage, Ended
  <2> QED BY <1>3, <2>2, <2>3
<1>11. StatusesExact'
  <2>1. \A s : Counted(s)' = {}
    BY <1>1, <1>3, <1>6 DEF Counted
  <2> QED BY <1>1, <2>1, NoMetricsFacts, FS_EmptySet DEF StatusesExact
<1>12. Counting'
  <2>1. Ahead' = 0
    BY <1>3 DEF Ahead
  <2>2. Sums(metrics') /\ metrics' \in MetricsType
    BY <1>1, NoMetricsFacts
  <2> QED BY <2>1, <2>2 DEF Counting, Sums, MetricsType, Statuses, Modules
<1>13. Seeing'
  BY <1>3 DEF PipelineInv, Seeing, Sums
<1> QED BY <1>7, <1>8, <1>9, <1>10, <1>11, <1>12, <1>13 DEF PipelineInv

LEMMA PipelineInvInit == Init => PipelineInv
<1> SUFFICES ASSUME Init PROVE PipelineInv
  OBVIOUS
<1>1. /\ \A r \in Requests : req[r] =
           [pc |-> "new", method |-> "tools/call", module |-> "known", boot |-> 0,
            outcome |-> Returned, event |-> NoEvent, reply |-> "none",
            refused |-> FALSE, seen |-> NoMetrics]
      /\ loop = Nobody /\ lock = Nobody /\ metrics = NoMetrics /\ restarts = 0
      /\ clock = 0 /\ status = [r \in Requests |-> "new"]
      /\ ts = [r \in Requests |-> 0] /\ stored = {}
  BY DEF Init, Ledger!Init
<1>2. Typed
  <2>1. Returned \in OutcomeType
    BY DEF Returned, OutcomeType, Kinds
  <2>2. NoEvent \in EventType
    BY DEF NoEvent, AuditEvent, EventType
  <2>3. "new" \in PCs /\ "tools/call" \in Methods /\ "known" \in Modules
    BY DEF PCs, Methods, Modules
  <2>4. req \in [Requests -> RequestType]
    BY <2>1, <2>2, <2>3, NoMetricsFacts DEF Init, RequestType
  <2> QED BY <1>1, <2>4, NoMetricsFacts DEF Typed, RecordStatus
<1>3. Owners
  BY <1>1, RequestAssumption DEF Owners
<1>4. LedgerKeeps /\ Stages
  BY <1>1 DEF LedgerKeeps, Stages, Stage
<1>5. StatusesExact
  <2>1. \A s : Counted(s) = {}
    BY <1>1 DEF Counted
  <2> QED BY <1>1, <2>1, NoMetricsFacts, FS_EmptySet DEF StatusesExact
<1>6. Counting
  <2>1. Ahead = 0
    BY <1>1 DEF Ahead
  <2>2. Sums(metrics) /\ metrics \in MetricsType
    BY <1>1, NoMetricsFacts
  <2> QED BY <2>1, <2>2 DEF Counting, Sums, MetricsType, Statuses, Modules
<1>7. Seeing
  BY <1>1, NoMetricsFacts DEF Seeing
<1> QED BY <1>2, <1>3, <1>4, <1>5, <1>6, <1>7 DEF PipelineInv

\* PipelineInv is inductive.
LEMMA PipelineInvStep == PipelineInv /\ [Next]_vars => PipelineInv'
<1> SUFFICES ASSUME PipelineInv, [Next]_vars PROVE PipelineInv'
  OBVIOUS
<1>1. ASSUME NEW r \in Requests, Receive(r) \/ Cancel(r) \/ Retain(r) PROVE PipelineInv'
  BY <1>1, ReceiveKeeps, CancelKeeps, RetainKeeps
<1>2. ASSUME NEW r \in Requests, Progress(r) PROVE PipelineInv'
  BY <1>2, HandlerReturnsKeeps, HandlerRaisesKeeps, SnapshotCountKeeps, SnapshotLabelsKeeps,
     PassthroughKeeps, FinallyKeeps, AuditStoresKeeps, AuditReturnsKeeps, AuditRaisesKeeps,
     MetricsCountKeeps, MetricsLabelsKeeps DEF Progress
<1>3. CASE Restart
  BY <1>3, RestartKeeps
<1>4. CASE Tick
  BY <1>4, TickKeeps
<1>5. CASE Rest \/ UNCHANGED vars
  BY <1>5, StutterKeeps DEF Rest
<1> QED BY <1>1, <1>2, <1>3, <1>4, <1>5 DEF Next

-----------------------------------------------------------------------------
(* The properties.                                                          *)

\* Whatever the requests are, what their tools raise, and whatever the audit log
\* does: at every moment of a history of the server the invariant holds
\* (AuditMiddleware.__call__, MetricsRegistry, ToolboxMCPServer._handle_call_tool).
THEOREM PipelineInvariant == Spec => []PipelineInv
<1>1. Init => PipelineInv
  BY PipelineInvInit
<1>2. PipelineInv /\ [Next]_vars => PipelineInv'
  BY PipelineInvStep
<1> QED BY <1>1, <1>2, PTL DEF Spec

\* The audit log, what is known of each request, the loop, the registry's lock and
\* its counters, and the number of restarts hold values of their kinds; and only
\* who is in the finally block has the loop, only who counts or reads the lock.
THEOREM PipelineTypeOK == Spec => []TypeOK
<1>1. PipelineInv => TypeOK
  <2> SUFFICES ASSUME PipelineInv PROVE TypeOK
    OBVIOUS
  <2>1. ASSUME NEW r \in Requests, req[r].pc \in {"audit", "metrics", "labels"}
        PROVE  req[r].event.status \in Statuses
    <3>1. /\ req[r].method \in Methods /\ req[r].outcome \in OutcomeType
          /\ req[r].event = EventOf(req[r].method, req[r].outcome)
      BY <2>1 DEF PipelineInv, Typed, RequestType, Stages, Stage
    <3> QED BY <3>1, EventFacts
  <2> QED BY <2>1 DEF PipelineInv, Owners, TypeOK
<1> QED BY <1>1, PipelineInvariant, PTL

\* A request that was answered is in the audit log until its retention is over,
\* whatever fails: the finally block of AuditMiddleware comes before the reply.
THEOREM AnsweredRequestsAreAudited == Spec => []AnsweredIsAudited
<1>1. PipelineInv => AnsweredIsAudited
  BY DEF PipelineInv, Stages, Stage, Ended, LedgerKeeps, AnsweredIsAudited, Audited
<1> QED BY <1>1, PipelineInvariant, PTL

\* The event recorded for a request says what its client was told.
THEOREM AuditTellsTheReply == Spec => []AuditTellsReply
<1>1. PipelineInv => AuditTellsReply
  <2> SUFFICES ASSUME PipelineInv, NEW r \in Requests,
                      req[r].pc = "done", req[r].method # "notification",
                      req[r].reply # "auditFailure"
               PROVE  /\ req[r].reply = "result" => req[r].event.status = "success"
                      /\ req[r].reply = "errorResult" =>
                           /\ req[r].event.category = req[r].outcome.error
                           /\ req[r].event.status = "denied" <=> req[r].outcome.error = "permission_denied"
                      /\ req[r].reply = "raised" => req[r].event.status # "success"
    BY DEF AuditTellsReply
  <2>1. /\ req[r].method \in Methods /\ req[r].outcome \in OutcomeType
        /\ req[r].event = EventOf(req[r].method, req[r].outcome)
        /\ req[r].reply = req[r].outcome.kind
    BY DEF PipelineInv, Typed, RequestType, Stages, Stage, Ended
  <2> QED BY <2>1, EventFacts
<1> QED BY <1>1, PipelineInvariant, PTL

\* A call the policy refused is answered and logged as a denial, for every chain
\* of causes in which the refusal hides.
THEOREM RefusalsReachClients == Spec => []RefusalReachesClient
<1>1. PipelineInv => RefusalReachesClient
  <2> SUFFICES ASSUME PipelineInv, NEW r \in Requests, req[r].refused, req[r].pc = "done",
                      req[r].reply \notin {"auditFailure", "cancelled"}
               PROVE  /\ req[r].reply = "errorResult" /\ req[r].outcome.error = "permission_denied"
                      /\ req[r].event = AuditEvent("denied", "permission_denied", "denied")
    BY DEF RefusalReachesClient
  <2>1. /\ req[r].method = "tools/call" /\ req[r].method \in Methods
        /\ req[r].outcome \in {ErrorResult("permission_denied"), Cancelled}
        /\ req[r].outcome \in OutcomeType
        /\ req[r].event = EventOf(req[r].method, req[r].outcome)
        /\ req[r].reply = req[r].outcome.kind
    BY DEF PipelineInv, Typed, RequestType, Stages, Stage, Ended
  <2>2. req[r].outcome = ErrorResult("permission_denied")
    BY <2>1 DEF Cancelled
  <2> QED BY <2>1, <2>2, EventFacts DEF ErrorResult
<1> QED BY <1>1, PipelineInvariant, PTL

\* At rest each status count is the number of requests of this process whose
\* record with that status was stored: counted once, and never without it.
THEOREM MetricsMatchTheAudit == Spec => []MetricsMatchAudit
<1>1. PipelineInv => MetricsMatchAudit
  BY DEF PipelineInv, StatusesExact, Counted, MetricsMatchAudit
<1> QED BY <1>1, PipelineInvariant, PTL

\* A snapshot adds up whatever is being counted while it is taken: it reads
\* under MetricsRegistry._lock, and the lock is free only when the counts agree.
THEOREM SnapshotsAreConsistent == Spec => []SnapshotConsistent
<1>1. PipelineInv => SnapshotConsistent
  BY DEF PipelineInv, Typed, RequestType, PCs, Seeing, Sums, SnapshotConsistent
<1> QED BY <1>1, PipelineInvariant, PTL
=============================================================================
