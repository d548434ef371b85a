------------------------------ MODULE TreeTools -----------------------------
(***************************************************************************)
(* The tools that walk directories, one of them at a time, while others    *)
(* change what is there.  The tools write nothing another one reads, so    *)
(* that two of them at once are no more than two of the others.            *)
(***************************************************************************)
EXTENDS AgentScan, BanditScan, GitSnapshot, DirectoryPages, EnvInspection

tools == <<scan, bandit, snap, pages>>
vars == <<world, tools, envWorld, audit>>

\* One call, of one of the tools that walk the tree.
Starts ==
  {<<AgentBegin(request), BanditOff, SnapOff, PagesOff>> : request \in AgentRequests}
  \cup {<<AgentOff, BanditBegin, SnapOff, PagesOff>>, <<AgentOff, BanditOff, SnapBegin, PagesOff>>}
  \cup {<<AgentOff, BanditOff, SnapOff, PagesBegin(limit)>> : limit \in PageLimits}

ATreeTool ==
  /\ WorldInit
  /\ \E start \in Starts :
       scan = start[1] /\ bandit = start[2] /\ snap = start[3] /\ pages = start[4]
  /\ env = [root |-> 0] /\ coming = {} /\ calm = TRUE
  /\ audit = AuditOff

TheAuditor ==
  /\ WorldInit /\ plan = CHOOSE p \in Plans : p.changes = 0
  /\ scan = AgentOff /\ bandit = BanditOff /\ snap = SnapOff /\ pages = PagesOff
  /\ EnvInit
  /\ audit = AuditBegin

Init == ATreeTool \/ TheAuditor

Ended == "over" \in {scan.pc, bandit.pc, snap.pc, pages.pc, audit.pc}

\* After the call, nobody looks at the tree any more.
Rest == Ended /\ UNCHANGED vars

Next ==
  \/ AgentNext /\ UNCHANGED <<bandit, snap, pages, envWorld, audit>>
  \/ BanditNext /\ UNCHANGED <<scan, snap, pages, envWorld, audit>>
  \/ SnapshotNext /\ UNCHANGED <<scan, bandit, pages, envWorld, audit>>
  \/ PagesNext /\ UNCHANGED <<scan, bandit, snap, envWorld, audit>>
  \/ EnvNext /\ UNCHANGED <<world, tools>>
  \/ ~Ended /\ Others /\ UNCHANGED <<tools, envWorld, audit>>
  \/ ~Ended /\ Installer /\ UNCHANGED <<world, tools>>
  \/ Rest

Spec == Init /\ [][Next]_vars

\* The call that is under way has its locals, each of its kind; the tree is one.
TypeOK ==
  /\ tree \in [Paths -> Entries] /\ plan \in Plans
  /\ changes \in 0..plan.changes /\ touched \subseteq Paths \cup {Top}
  /\ scan.pc \in AgentPCs
  /\ scan.pc # "off" =>
       /\ scan.request \in AgentRequests
       /\ {scan.regular, scan.links, scan.scanned} \subseteq SUBSET Paths
       /\ Range(scan.directories) \cup Range(scan.opened) \subseteq Paths \cup {Top}
       /\ Range(scan.names) \cup Range(scan.candidates) \subseteq Paths
       /\ {scan.discovered, scan.withheld, scan.total} \subseteq Nat
       /\ scan.outcome \in {"none", "report", "denied", "notFound", "outputLimit"}
  /\ bandit.pc \in {"off", "list", "files", "run", "over"}
  /\ bandit.pc # "off" =>
       /\ bandit.authorized \subseteq Sources /\ DOMAIN bandit.copy \subseteq Sources
       /\ {bandit.copied, bandit.withheld, bandit.unreported} \subseteq Nat
  /\ snap.pc \in {"off", "pop", "scan", "entries", "file", "config", "over"}
  /\ snap.pc # "off" =>
       /\ DOMAIN snap.copy \subseteq Paths
       /\ snap.remaining \in 0..MaxSnapshotBytes /\ snap.count \in Nat
  /\ pages.pc \in {"off", "call", "next", "stat", "answer", "over"}
  /\ pages.pc # "off" => pages.entries \subseteq Listed /\ pages.offset \in Nat
  /\ AuditTypeOK

-----------------------------------------------------------------------------
(* What the tools have in common *)

\* Whatever others do elsewhere in the tree: what stays in its place, and is meant
\* to be, is in the report or in the copy of each tool, or the report says that
\* it is truncated.
MissesNothing == AgentMissesNothing /\ BanditMissesNothing /\ SnapMissesNothing

\* However the tree or the environment changes, and whatever fails: what a report
\* counts adds up with itself and with the limits, findings are of files that
\* were read whole, a copy is within its limits, and a client's pages come to
\* an end.
AddsUp ==
  AgentAccounts /\ BanditReportsWholeFiles /\ SnapKeepsLimits /\ PagesEnd /\ ReportAddsUp

\* Of a tree or an environment nobody touches, each tool says exactly what is in
\* it: each limit lets through what is at it, each refusal has its reason, and
\* each reserve of a report has its cause.
QuietExact ==
  AgentQuietExact /\ AgentRefusesForCause /\ BanditQuietExact /\ SnapQuietExact /\ AuditQuietExact
=============================================================================
