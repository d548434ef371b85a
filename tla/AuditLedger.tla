---------------------------- MODULE AuditLedger -----------------------------
(***************************************************************************)
(* What JsonlAuditLogger.record promises, whatever files, names, syncs and *)
(* rotations it takes: an event whose record() returned is stored, and     *)
(* stays stored until its retention is over.  AuditLog implements this     *)
(* (AuditLog!Ledger); the failures under which it does are the business of *)
(* the runs.                                                               *)
(***************************************************************************)
EXTENDS Naturals

CONSTANTS Events, Retention, MaxClock

VARIABLES
  clock,
  status,   \* of the record() call of each event
  ts,       \* the event's own timestamp
  stored    \* the events that can be read back

ledgerVars == <<clock, status, ts, stored>>

Over == {"acked", "failed", "lost"}
OutOfRetention(e) == ts[e] + Retention < clock

Init ==
  /\ clock = 0
  /\ status = [e \in Events |-> "new"]
  /\ ts = [e \in Events |-> 0]
  /\ stored = {}

Submit(e) ==
  /\ status[e] = "new"
  /\ status' = [status EXCEPT ![e] = "waiting"]
  /\ ts' = [ts EXCEPT ![e] = clock]
  /\ UNCHANGED <<clock, stored>>

Store(e) ==
  /\ status[e] = "waiting"
  /\ e \notin stored
  /\ stored' = stored \cup {e}
  /\ UNCHANGED <<clock, status, ts>>

Ack(e) ==
  /\ status[e] = "waiting"
  /\ e \in stored
  /\ status' = [status EXCEPT ![e] = "acked"]
  /\ UNCHANGED <<clock, ts, stored>>

\* record() raised.  Whether the event was stored is then not told.
Fail(e) ==
  /\ status[e] = "waiting"
  /\ status' = [status EXCEPT ![e] = "failed"]
  /\ UNCHANGED <<clock, ts, stored>>

\* Retention takes only what is out of retention, and never what is being
\* recorded: that is in the active file.
Expire ==
  /\ \E old \in (SUBSET stored) \ {{}} :
       /\ \A e \in old : OutOfRetention(e) /\ status[e] # "waiting"
       /\ stored' = stored \ old
  /\ UNCHANGED <<clock, status, ts>>

\* The process ends, with or without its machine.  Of what was acked only what
\* is out of retention may be missing; of the rest anything may be.
Restart ==
  /\ status' = [e \in Events |-> IF status[e] = "waiting" THEN "lost" ELSE status[e]]
  /\ \E left \in SUBSET {e \in Events : status[e] # "new"} :
       /\ \A e \in stored \ left : status[e] # "acked" \/ OutOfRetention(e)
       /\ stored' = left
  /\ UNCHANGED <<clock, ts>>

Tick ==
  /\ clock < MaxClock
  /\ clock' = clock + 1
  /\ UNCHANGED <<status, ts, stored>>

Next ==
  \/ \E e \in Events : Submit(e) \/ Store(e) \/ Ack(e) \/ Fail(e)
  \/ Expire \/ Restart \/ Tick

Spec == Init /\ [][Next]_ledgerVars
=============================================================================
