----------------------------- MODULE AgentScan ------------------------------
(***************************************************************************)
(* audit_agent_configs (tools/security/agent_audit.py): the audit of agent *)
(* instructions and MCP configurations under an approved directory.        *)
(*                                                                         *)
(* The directory is walked by descriptors, one name at a time; only then   *)
(* are the files chosen and read, each by its path from the top.  Whatever *)
(* is found and not read must show in the report.                          *)
(***************************************************************************)
EXTENDS ScanTree

CONSTANTS
  Wanted,          \* the paths an audit is about (_matches_target_filter)
  BlockedNames,    \* the paths whose last name a blocked pattern matches
  SkippedNames,    \* the paths whose last name is that of a skipped directory
  Outside,         \* a path that is not below the approved directory
  AgentRequests,   \* calls: target, maxFiles, limit
  MaxFileBytes, MaxTotalBytes

ASSUME AgentAssumption ==
  /\ Wanted \cup BlockedNames \cup SkippedNames \subseteq Paths
  /\ Outside \notin Paths \cup {Top}
  /\ AgentRequests \subseteq [target: Paths \cup {Top, Outside}, maxFiles: Nat \ {0}, limit: Nat]
  /\ MaxFileBytes \in Nat /\ MaxTotalBytes \in Nat

VARIABLE scan   \* the audit: the locals of audit_agent_configs and of _walk_fd

AgentOff == [pc |-> "off"]

AgentBegin(request) ==
  [pc |-> "policy", request |-> request, outcome |-> "none",
   size |-> 0, directories |-> <<>>, names |-> <<>>, opened |-> <<>>,
   regular |-> {}, links |-> {}, candidates |-> <<>>,
   discovered |-> 0, withheld |-> 0, truncated |-> FALSE, total |-> 0, scanned |-> {},
   findings |-> 0, more |-> FALSE]

Blocked(p) == Upto(p) \cap BlockedNames # {}

AgentEnds(outcome) == scan' = [scan EXCEPT !.pc = "over", !.outcome = outcome]
AgentGoes(pc) == scan' = [scan EXCEPT !.pc = pc]

-----------------------------------------------------------------------------
(* The target *)

\* The path as written, and what it resolves to, are below the approved
\* directory, and no name of it is blocked.
AgentPolicy ==
  /\ scan.pc = "policy"
  /\ LET p == scan.request.target IN
     IF p = Outside \/ Blocked(p) \/ Look(p) = "link"
        \/ \E q \in Above(p) : Look(q) = "link"
     THEN AgentEnds("denied") ELSE AgentGoes("chain")
  /\ UNCHANGED world

AgentChain ==
  /\ scan.pc = "chain"
  /\ LET found == LinkChain(scan.request.target) IN
     IF found = "ok" THEN AgentGoes("lstat") ELSE AgentEnds(found)
  /\ UNCHANGED world

\* lexical.lstat(), and the branch it chooses.
AgentLstat ==
  /\ scan.pc = "lstat"
  /\ LET kind == Look(scan.request.target) IN
     CASE kind = "none" -> AgentEnds("notFound")
       [] kind \in {"file", "hard"} ->
            scan' = [scan EXCEPT !.pc = "readTarget", !.size = tree[scan.request.target].size]
       [] kind \in {"dir", "locked"} -> AgentGoes("open")
       [] OTHER -> AgentEnds("denied")
  /\ UNCHANGED world

AgentReadTarget ==
  /\ scan.pc = "readTarget"
  /\ LET p == scan.request.target
         read == SafeRead(p, Min({MaxFileBytes, MaxTotalBytes})) IN
     IF read.ok
     THEN scan' = [scan EXCEPT !.pc = "read", !.discovered = 1, !.scanned = {p},
                               !.total = tree[p].size]
     ELSE AgentEnds(IF read.over \/ scan.size > MaxFileBytes THEN "outputLimit" ELSE "denied")
  /\ UNCHANGED world

-----------------------------------------------------------------------------
(* The walk *)

AgentOpen ==
  /\ scan.pc = "open"
  /\ LET d == scan.request.target IN
     IF Anchored(d) THEN scan' = [scan EXCEPT !.pc = "list", !.directories = <<d>>]
     ELSE AgentEnds(IF Look(d) = "none" THEN "notFound" ELSE "denied")
  /\ UNCHANGED world

\* os.listdir of a directory that is held open.
AgentList ==
  /\ scan.pc = "list"
  /\ LET d == Head(scan.directories) IN
     scan' = [scan EXCEPT !.pc = "names", !.directories = Tail(@),
                          !.names = Sorted({p \in Children(d) : Kind(p) # "none"}),
                          !.opened = <<>>]
  /\ UNCHANGED world

AgentListFails ==
  /\ scan.pc = "list"
  /\ Fault(Head(scan.directories))
  /\ scan' = [scan EXCEPT !.pc = IF Len(scan.directories) = 1 THEN "choose" ELSE "list",
                          !.directories = Tail(@), !.withheld = @ + 1]

\* os.stat of the next name, in the directory held open.
AgentStat ==
  /\ scan.pc = "names" /\ scan.names # <<>>
  /\ LET p == Head(scan.names)
         next == [scan EXCEPT !.names = Tail(@)] IN
     scan' = CASE Kind(p) = "none" -> [next EXCEPT !.withheld = @ + 1]
               [] Kind(p) = "link" -> [next EXCEPT !.links = @ \cup {p}]
               [] Kind(p) \in {"dir", "locked"} ->
                    IF p \in SkippedNames THEN next ELSE [scan EXCEPT !.pc = "enter"]
               [] OTHER -> [next EXCEPT !.regular = @ \cup {p}]
  /\ UNCHANGED world

\* A subdirectory is opened while its parent is listed, and walked later.
AgentEnter ==
  /\ scan.pc = "enter"
  /\ LET p == Head(scan.names)
         next == [scan EXCEPT !.names = Tail(@), !.pc = "names"] IN
     scan' = IF Kind(p) = "dir" THEN [next EXCEPT !.opened = Append(@, p)]
             ELSE [next EXCEPT !.withheld = @ + 1]
  /\ UNCHANGED world

AgentDescend ==
  /\ scan.pc = "names" /\ scan.names = <<>>
  /\ LET left == scan.opened \o scan.directories IN
     scan' = [scan EXCEPT !.pc = IF left = <<>> THEN "choose" ELSE "list", !.directories = left]
  /\ UNCHANGED world

-----------------------------------------------------------------------------
(* The files *)

\* Links that are not wanted are withheld; wanted ones are tried as the rest.
AgentChoose ==
  /\ scan.pc = "choose"
  /\ LET found == Sorted((scan.regular \cup scan.links) \cap Wanted)
         some == SubSeq(found, 1, Min({Len(found), scan.request.maxFiles})) IN
     scan' = [scan EXCEPT !.pc = "read", !.candidates = some, !.discovered = Len(found),
                          !.truncated = Len(found) > Len(some),
                          !.withheld = @ + Len(found) - Len(some)
                                       + Cardinality(scan.links \ (Wanted \cup SkippedNames))]
  /\ UNCHANGED world

\* Mutant: what the total budget refuses does not truncate the report.
AgentRead_TotalUnsaid ==
  /\ scan.pc = "read" /\ scan.candidates # <<>>
  /\ LET p == Head(scan.candidates)
         next == [scan EXCEPT !.candidates = Tail(@)]
         left == MaxTotalBytes - scan.total
         read == IF Blocked(p) THEN [ok |-> FALSE, over |-> FALSE]
                 ELSE SafeRead(p, Min({MaxFileBytes, left})) IN
     scan' = IF left > 0 /\ read.ok
             THEN [next EXCEPT !.scanned = @ \cup {p}, !.total = @ + tree[p].size]
             ELSE [next EXCEPT !.withheld = @ + 1, !.truncated = @ \/ (left > 0 /\ read.over)]
  /\ UNCHANGED world

\* read_safe_candidate of the next file, with what is left of the budget; with
\* nothing left it is not even tried.
AgentRead ==
  /\ scan.pc = "read" /\ scan.candidates # <<>>
  /\ LET p == Head(scan.candidates)
         next == [scan EXCEPT !.candidates = Tail(@)]
         left == MaxTotalBytes - scan.total
         read == IF Blocked(p) THEN [ok |-> FALSE, over |-> FALSE]
                 ELSE SafeRead(p, Min({MaxFileBytes, left})) IN
     scan' = IF left > 0 /\ read.ok
             THEN [next EXCEPT !.scanned = @ \cup {p}, !.total = @ + tree[p].size]
             ELSE [next EXCEPT !.withheld = @ + 1, !.truncated = @ \/ left <= 0 \/ read.over]
  /\ UNCHANGED world

\* The report, with the first of the findings; here every byte read is one.
AgentReport ==
  /\ scan.pc = "read" /\ scan.candidates = <<>>
  /\ scan' = [scan EXCEPT !.pc = "over", !.outcome = "report",
                          !.findings = Min({scan.total, scan.request.limit}),
                          !.more = scan.total > scan.request.limit]
  /\ UNCHANGED world

AgentNext ==
  \/ AgentPolicy \/ AgentChain \/ AgentLstat \/ AgentReadTarget
  \/ AgentOpen \/ AgentList \/ AgentListFails \/ AgentStat \/ AgentEnter \/ AgentDescend
  \/ AgentChoose \/ AgentRead \/ AgentReport

-----------------------------------------------------------------------------
(* Properties *)

AgentPCs == {"off", "policy", "chain", "lstat", "readTarget", "open", "list", "names",
             "enter", "choose", "read", "over"}

AgentReported == scan.pc = "over" /\ scan.outcome = "report"

\* However the tree changes, the counters of the report agree: each file
\* discovered was scanned, is among the withheld, or is still to be tried, and
\* what was read is within the budgets and max_files.
AgentAccounts ==
  scan.pc \in {"read", "over"} =>
    /\ scan.discovered <= Cardinality(scan.scanned) + scan.withheld + Len(scan.candidates)
    /\ scan.total <= MaxTotalBytes
    /\ Cardinality(scan.scanned) <= scan.request.maxFiles

\* The files an audit should scan, when nothing disturbs it.
AgentTargets ==
  {p \in Wanted : /\ IsPrefix(scan.request.target, p)
                  /\ Untouched(p) /\ Anchored(Front(p))
                  /\ (Above(p) \ Upto(scan.request.target)) \cap SkippedNames = {}
                  /\ ~Blocked(p) /\ Kind(p) = "file"}

\* A file that stays where it is, in directories that do, is scanned whatever
\* happens elsewhere, unless the report says it is truncated.
AgentMissesNothing ==
  AgentReported /\ Kind(scan.request.target) # "file" =>
    AgentTargets \subseteq scan.scanned \/ scan.truncated

\* In a tree nobody touches the report is exact: every wanted file met is counted
\* once, all that is not scanned is withheld, only files one may read are scanned,
\* all of them unless it is truncated, and it is truncated only for a limit.
AgentQuietExact ==
  AgentReported /\ touched = {} /\ Kind(scan.request.target) = "dir" =>
    LET d == scan.request.target
        met == {p \in Paths : /\ IsPrefix(d, Front(p)) /\ Anchored(Front(p))
                              /\ (Above(p) \ Upto(d)) \cap SkippedNames = {}
                              /\ Kind(p) # "none"}
        files == {p \in met \cap Wanted : Kind(p) \notin {"dir", "locked"}}
        aside == {p \in met \ SkippedNames :
                    Kind(p) = "locked" \/ (Kind(p) = "link" /\ p \notin Wanted)}
    IN /\ scan.discovered = Cardinality(files)
       /\ scan.withheld = Cardinality(aside) + Cardinality(files \ scan.scanned)
       /\ scan.scanned \subseteq AgentTargets \cap files
       /\ scan.total = TotalSize(scan.scanned)
       /\ ~scan.truncated => scan.scanned = AgentTargets
       /\ scan.truncated =>
            \/ Cardinality(files) > scan.request.maxFiles
            \/ scan.total = MaxTotalBytes
            \/ \E p \in AgentTargets \ scan.scanned :
                 tree[p].size > Min({MaxFileBytes, MaxTotalBytes - scan.total})

\* A refusal of an untouched tree has its reason in the tree: what is asked for
\* is outside, blocked, missing, not a plain file or directory, reached through
\* a link, or longer than the limit.
AgentRefusesForCause ==
  scan.pc = "over" /\ touched = {} /\ scan.request.target # Outside =>
    LET p == scan.request.target
        plain == Anchored(Front(p)) /\ Kind(p) \in {"dir", "file"} IN
    (scan.outcome = "report") =
      (~Blocked(p) /\ (p = Top \/ plain)
         /\ (p \in Paths /\ Kind(p) = "file" => tree[p].size <= Min({MaxFileBytes, MaxTotalBytes})))
=============================================================================
