----------------------------- MODULE BanditScan -----------------------------
(***************************************************************************)
(* security_scan_repository (tools/security/handlers.py): Bandit over a    *)
(* private copy of the sources that the policy allows.                     *)
(*                                                                         *)
(* os.walk goes by paths, so a directory may have become a link when it is *)
(* entered; the files are read without following one.  What a failed write *)
(* leaves in the copy is scanned too, and must not be reported.            *)
(***************************************************************************)
EXTENDS ScanTree

CONSTANTS
  Sources,          \* the paths that end in .py or .pyw
  BanditBlocked,    \* the paths of which a name matches a blocked pattern
  BanditSkipped,    \* the paths named as a directory that Bandit skips
  MaxSourceBytes, MaxCopiedBytes,   \* _MAX_FILE_BYTES, _MAX_SNAPSHOT_BYTES
  BanditLimit,      \* the limit asked for
  Foreign           \* how many findings Bandit may add that are in no file of the copy

ASSUME BanditAssumption ==
  /\ Sources \cup BanditBlocked \cup BanditSkipped \subseteq Paths
  /\ MaxSourceBytes \in Nat /\ MaxCopiedBytes \in Nat /\ BanditLimit \in Nat
  /\ Foreign \subseteq Nat

VARIABLE bandit   \* the call: the locals of the tool, and its private directory

BanditOff == [pc |-> "off"]

BanditBegin ==
  [pc |-> "list", directories |-> <<Top>>, directory |-> Top, names |-> <<>>, sub |-> <<>>,
   copy |-> <<>>, authorized |-> {}, copied |-> 0, withheld |-> 0, truncated |-> FALSE,
   outcome |-> "none", findings |-> {}, unreported |-> 0, more |-> FALSE]

BanditEnds(outcome) == bandit' = [bandit EXCEPT !.pc = "over", !.outcome = outcome]

-----------------------------------------------------------------------------
(* The copy *)

\* os.walk lists a directory; it is silent about one it cannot list.
BanditList ==
  /\ bandit.pc = "list"
  /\ LET d == Head(bandit.directories)
         met == IF Look(d) \in {"dir", "link"} THEN {p \in Children(d) : Kind(p) # "none"} ELSE {} IN
     bandit' = [bandit EXCEPT
       !.pc = "files", !.directories = Tail(@), !.directory = d,
       !.names = Sorted({p \in met \cap Sources : ~IsDirectory(p)}),
       !.sub = Sorted({p \in met \ BanditSkipped : IsDirectory(p)})]
  /\ UNCHANGED world

\* A file of the private directory, whole or what a failed write left of it.
Copied(p, whole) == [size |-> tree[p].size, whole |-> whole]

\* What may be read of the next file.
BanditBudget == Min({MaxSourceBytes, MaxCopiedBytes - bandit.copied})

\* _copy_if_authorized, when the next file is blocked or not read.
BanditSkip ==
  /\ bandit.pc = "files" /\ bandit.names # <<>>
  /\ LET p == Head(bandit.names)
         refused == p \in BanditBlocked \/ ~SafeRead(p, BanditBudget).ok IN
     /\ refused
     /\ bandit' = [bandit EXCEPT
          !.names = Tail(@), !.withheld = @ + 1,
          !.truncated = @ \/ (p \notin BanditBlocked /\ SafeRead(p, BanditBudget).over
                              /\ tree[p].size <= MaxSourceBytes)]
  /\ UNCHANGED world

\* _copy_if_authorized, when the file is read and written.
BanditCopy ==
  /\ bandit.pc = "files" /\ bandit.names # <<>>
  /\ LET p == Head(bandit.names) IN
     /\ p \notin BanditBlocked /\ SafeRead(p, BanditBudget).ok
     /\ bandit' = [bandit EXCEPT !.names = Tail(@), !.copy = Added(@, p, Copied(p, TRUE)),
                                 !.authorized = @ \cup {p}, !.copied = @ + tree[p].size]
  /\ UNCHANGED world

\* Mutant: a file is authorized before it is written.
BanditWriteFails_Authorized ==
  /\ bandit.pc = "files" /\ bandit.names # <<>>
  /\ LET p == Head(bandit.names) IN
     /\ p \notin BanditBlocked /\ SafeRead(p, BanditBudget).ok
     /\ Fault(p)
     /\ \E copy \in {bandit.copy, Added(bandit.copy, p, Copied(p, FALSE))} :
          bandit' = [bandit EXCEPT !.names = Tail(@), !.copy = copy,
                                   !.authorized = @ \cup {p}]

\* The copy cannot be made, or not completed: part of it may be left.
BanditWriteFails ==
  /\ bandit.pc = "files" /\ bandit.names # <<>>
  /\ LET p == Head(bandit.names) IN
     /\ p \notin BanditBlocked /\ SafeRead(p, BanditBudget).ok
     /\ Fault(p)
     /\ \E copy \in {bandit.copy, Added(bandit.copy, p, Copied(p, FALSE))} :
          bandit' = [bandit EXCEPT !.names = Tail(@), !.copy = copy, !.withheld = @ + 1]

\* The subdirectories that are no links now are walked next.
BanditDescend ==
  /\ bandit.pc = "files" /\ bandit.names = <<>>
  /\ LET next == Sorted({p \in Range(bandit.sub) : Look(p) # "link"}) \o bandit.directories IN
     bandit' = [bandit EXCEPT !.pc = IF next = <<>> THEN "run" ELSE "list", !.directories = next]
  /\ UNCHANGED world

-----------------------------------------------------------------------------
(* Bandit and its report *)

\* run_bandit: not installed, not started, killed at the timeout, an exit code
\* of its own, a report that is too long or that is not one.
BanditFails ==
  /\ bandit.pc = "run"
  /\ \E why \in {"unavailable", "timeout", "outputLimit"} : BanditEnds(why)
  /\ UNCHANGED world

\* One finding in each file of the copy, and the others; those whose path is
\* authorized are reported (the first BanditLimit of them), the rest counted.
BanditReports ==
  /\ bandit.pc = "run"
  /\ \E foreign \in Foreign :
       LET mapped == DOMAIN bandit.copy \cap bandit.authorized IN
       bandit' = [bandit EXCEPT !.pc = "over", !.outcome = "report", !.findings = mapped,
                                !.unreported = foreign + Cardinality(DOMAIN bandit.copy \ mapped),
                                !.more = Cardinality(mapped) > BanditLimit]
  /\ UNCHANGED world

BanditNext ==
  \/ BanditList \/ BanditSkip \/ BanditCopy \/ BanditWriteFails \/ BanditDescend
  \/ BanditFails \/ BanditReports

-----------------------------------------------------------------------------
(* Properties *)

BanditReported == bandit.pc = "over" /\ bandit.outcome = "report"

BanditEligible ==
  {p \in Sources : /\ Untouched(p) /\ Anchored(Front(p)) /\ Above(p) \cap BanditSkipped = {}
                   /\ p \notin BanditBlocked /\ Kind(p) = "file"
                   /\ tree[p].size <= MaxSourceBytes}

\* A source that stays where it is, with the directories above it, is scanned
\* and its findings reported whatever happens elsewhere, or the report says that
\* the copy is truncated.
BanditMissesNothing ==
  BanditReported => BanditEligible \subseteq bandit.findings \/ bandit.truncated

\* Whatever fails, what is reported is of files that were copied whole, and the
\* budget has room for all of them.
BanditReportsWholeFiles ==
  bandit.pc = "over" =>
    /\ \A p \in bandit.findings : bandit.copy[p].whole
    /\ TotalOf(bandit.copy, {p \in DOMAIN bandit.copy : bandit.copy[p].whole}) <= MaxCopiedBytes

\* In an untouched tree: every source met is authorized or withheld, and the
\* copy is truncated exactly when a source fit for it found no room.
BanditQuietExact ==
  BanditReported /\ touched = {} =>
    LET met == {p \in Sources : /\ Anchored(Front(p)) /\ Above(p) \cap BanditSkipped = {}
                                /\ Kind(p) # "none" /\ ~IsDirectory(p)} IN
    /\ bandit.withheld = Cardinality(met \ bandit.authorized)
    /\ bandit.authorized \subseteq BanditEligible
    /\ bandit.truncated = (bandit.authorized # BanditEligible)
=============================================================================
