----------------------------- MODULE MCAuditLog -----------------------------
(* Small instances of AuditLog: two-byte lines in three-byte segments, two  *)
(* ticks a day and a retention of one day.                                  *)
EXTENDS AuditLog, TLC

CONSTANTS e1, e2, e3

Symmetry == Permutations(Events)

=============================================================================
