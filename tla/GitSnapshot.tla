---------------------------- MODULE GitSnapshot -----------------------------
(***************************************************************************)
(* private_repository_snapshot (tools/git/snapshot.py): the copy of a      *)
(* repository that Git is given where descriptors have no paths.  The copy *)
(* is complete, or there is none.                                          *)
(***************************************************************************)
EXTENDS ScanTree

CONSTANTS
  NestedNames,       \* the paths named .gitmodules, or .git below the top
  ConfigPath,        \* .git/config
  AlternatesPath,    \* .git/objects/info/alternates
  MaxSnapshotBytes, MaxSnapshotEntries, MaxSnapshotDepth,
  MaxConfigBytes

ASSUME SnapshotAssumption ==
  /\ NestedNames \cup {ConfigPath, AlternatesPath} \subseteq Paths
  /\ {MaxSnapshotBytes, MaxSnapshotEntries, MaxSnapshotDepth, MaxConfigBytes} \subseteq Nat

VARIABLE snap   \* the call, and its private directory

SnapOff == [pc |-> "off"]

SnapBegin ==
  [pc |-> "pop", pending |-> <<[path |-> Top, depth |-> 0]>>, source |-> Top, depth |-> 0,
   names |-> {}, entry |-> Top, count |-> 0, remaining |-> MaxSnapshotBytes,
   copy |-> <<>>, late |-> FALSE, outcome |-> "none"]

SnapEnds(outcome) == snap' = [snap EXCEPT !.pc = "over", !.outcome = outcome]
SnapGoes(pc) == snap' = [snap EXCEPT !.pc = pc]

-----------------------------------------------------------------------------
\* The deadline passes.
SnapLate ==
  /\ snap.pc \notin {"off", "over"} /\ ~snap.late
  /\ snap' = [snap EXCEPT !.late = TRUE]
  /\ UNCHANGED world

\* The next directory: the clock, the depth, and the links on the way to it.
SnapPop ==
  /\ snap.pc = "pop" /\ snap.pending # <<>>
  /\ LET next == Last(snap.pending)
         chain == LinkChain(next.path) IN
     IF snap.late THEN SnapEnds("timeout")
     ELSE IF next.depth > MaxSnapshotDepth THEN SnapEnds("denied")
     ELSE IF chain # "ok" THEN SnapEnds(chain)
     ELSE snap' = [snap EXCEPT !.pc = "scan", !.pending = Front(@),
                               !.source = next.path, !.depth = next.depth]
  /\ UNCHANGED world

\* os.scandir, which follows links; the entries come in any order.
SnapScan ==
  /\ snap.pc = "scan"
  /\ LET d == snap.source IN
     IF Look(d) \in {"dir", "link"}
     THEN snap' = [snap EXCEPT !.pc = "entries",
                               !.names = {p \in Children(d) : Kind(p) # "none"}]
     ELSE SnapEnds("denied")
  /\ UNCHANGED world

\* Mutant: the entry at the limit is one too many.
SnapEntry_AtLimit(p) ==
  /\ snap.pc = "entries" /\ p \in snap.names
  /\ LET next == [snap EXCEPT !.names = @ \ {p}, !.count = @ + 1]
         refuse(why) == [next EXCEPT !.pc = "over", !.outcome = why] IN
     snap' = IF snap.count + 1 >= MaxSnapshotEntries \/ snap.late THEN refuse("denied")
             ELSE IF p \in NestedNames THEN refuse("denied")
             ELSE IF LinkChain(p) # "ok" THEN refuse(LinkChain(p))
             ELSE CASE Kind(p) \in {"dir", "locked"} ->
                         [next EXCEPT !.copy = Added(@, p, [kind |-> "dir", size |-> 0]),
                                      !.pending = Append(@, [path |-> p, depth |-> snap.depth + 1])]
                    [] Kind(p) \in {"file", "hard"} -> [next EXCEPT !.pc = "file", !.entry = p]
                    [] OTHER -> refuse("denied")
  /\ UNCHANGED world

\* One entry: counted, judged by its name and the way to it, and looked at.
SnapEntry(p) ==
  /\ snap.pc = "entries" /\ p \in snap.names
  /\ LET next == [snap EXCEPT !.names = @ \ {p}, !.count = @ + 1]
         refuse(why) == [next EXCEPT !.pc = "over", !.outcome = why] IN
     snap' = IF snap.count + 1 > MaxSnapshotEntries \/ snap.late THEN refuse("denied")
             ELSE IF p \in NestedNames THEN refuse("denied")
             ELSE IF LinkChain(p) # "ok" THEN refuse(LinkChain(p))
             ELSE CASE Kind(p) \in {"dir", "locked"} ->
                         [next EXCEPT !.copy = Added(@, p, [kind |-> "dir", size |-> 0]),
                                      !.pending = Append(@, [path |-> p, depth |-> snap.depth + 1])]
                    [] Kind(p) \in {"file", "hard"} -> [next EXCEPT !.pc = "file", !.entry = p]
                    [] OTHER -> refuse("denied")
  /\ UNCHANGED world

\* Mutant: every file has the whole budget.
SnapFile_WholeBudget ==
  /\ snap.pc = "file"
  /\ LET p == snap.entry IN
     IF SafeRead(p, MaxSnapshotBytes).ok
     THEN snap' = [snap EXCEPT !.pc = "entries", !.remaining = @ - tree[p].size,
                               !.copy = Added(@, p, [kind |-> "file", size |-> tree[p].size])]
     ELSE SnapEnds("denied")
  /\ UNCHANGED world

\* The file is copied, within what is left, or the snapshot is given up.
SnapFile ==
  /\ snap.pc = "file"
  /\ LET p == snap.entry IN
     IF SafeRead(p, snap.remaining).ok
     THEN snap' = [snap EXCEPT !.pc = "entries", !.remaining = @ - tree[p].size,
                               !.copy = Added(@, p, [kind |-> "file", size |-> tree[p].size])]
     ELSE SnapEnds("denied")
  /\ UNCHANGED world

SnapFails ==
  /\ snap.pc \in {"scan", "file"}
  /\ Fault(IF snap.pc = "file" THEN snap.entry ELSE snap.source)
  /\ SnapEnds("denied")

SnapNext ==
  /\ snap.pc = "entries" /\ snap.names = {}
  /\ SnapGoes(IF snap.pending = <<>> THEN "config" ELSE "pop")
  /\ UNCHANGED world

\* _validate_snapshot_config: what the copy shows, and what Git says of it.
SnapConfig ==
  /\ snap.pc = "config"
  /\ IF \/ ConfigPath \notin DOMAIN snap.copy \/ AlternatesPath \in DOMAIN snap.copy
        \/ snap.copy[ConfigPath].kind = "dir" \/ snap.copy[ConfigPath].size > MaxConfigBytes
     THEN SnapEnds("denied")
     ELSE \E verdict \in {"noGit", "timeout", "unsupported", "copy"} : SnapEnds(verdict)
  /\ UNCHANGED world

SnapshotNext ==
  \/ SnapLate \/ SnapPop \/ SnapScan \/ (\E p \in Paths : SnapEntry(p))
  \/ SnapFile \/ SnapFails \/ SnapNext \/ SnapConfig

-----------------------------------------------------------------------------
(* Properties *)

SnapCopied == snap.pc = "over" /\ snap.outcome = "copy"

\* A copy that is handed to Git has everything that stayed in its place during
\* the call, as it is, whatever happened elsewhere.
SnapMissesNothing ==
  SnapCopied =>
    /\ \A p \in Paths :
         Untouched(p) /\ Anchored(Front(p)) /\ Kind(p) # "none" =>
           /\ p \in DOMAIN snap.copy
           /\ snap.copy[p] = tree[p]

\* However the tree grows while it is copied, the copy keeps to the limits.
SnapKeepsLimits ==
  snap.pc # "off" =>
    /\ Cardinality(DOMAIN snap.copy) <= MaxSnapshotEntries
    /\ TotalOf(snap.copy, DOMAIN snap.copy) <= MaxSnapshotBytes

\* An untouched repository is copied exactly when it is plain and within every
\* limit: the entry, the byte and the level at the limit still fit, and an
\* empty file does when nothing is left.
SnapQuietExact ==
  snap.pc \in {"config", "over"} /\ touched = {} /\ ~snap.late =>
    LET all == {p \in Paths : Anchored(Front(p)) /\ Kind(p) # "none"}
        files == {p \in all : Kind(p) = "file"}
        dirs == {p \in all : Kind(p) = "dir"}
        fits == /\ all = files \cup dirs /\ all \cap NestedNames = {}
                /\ Cardinality(all) <= MaxSnapshotEntries
                /\ TotalSize(files) <= MaxSnapshotBytes
                /\ \A p \in dirs : Len(p) <= MaxSnapshotDepth
        usable == ConfigPath \in files /\ AlternatesPath \notin all
    IN /\ fits => DOMAIN snap.copy = all
       /\ snap.outcome \in {"copy", "noGit", "timeout", "unsupported"} =>
            fits /\ usable /\ tree[ConfigPath].size <= MaxConfigBytes
       /\ snap.outcome = "denied" =>
            ~(fits /\ usable /\ tree[ConfigPath].size <= MaxConfigBytes)
=============================================================================
