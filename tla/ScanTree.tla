------------------------------ MODULE ScanTree ------------------------------
(***************************************************************************)
(* A directory tree that others change while a tool walks it, and the      *)
(* helpers of safe_reader.py through which the tools look at it.           *)
(*                                                                         *)
(* A path is the sequence of the names below the approved directory, which *)
(* itself is <<>>.  Bytes are counted, not kept.  A link leads outside; one*)
(* that stands where a directory is expected leads to a directory with the *)
(* same names, so that following it by mistake goes unnoticed.  A directory*)
(* that is moved away keeps what it holds, for those who have it open.     *)
(***************************************************************************)
EXTENDS Naturals, Sequences, SequencesExt, FiniteSetsExt

CONSTANTS
  Order,     \* the paths of the tree, as the tools come by them: the names of a
             \* directory sorted, then what is in its subdirectories
  Plans      \* bound: trees a run starts from, and how often each is changed

Paths == Range(Order)
Top == <<>>
Children(d) == {p \in Paths : Front(p) = d}
Upto(p) == {SubSeq(p, 1, i) : i \in 1..Len(p)}
Above(p) == Upto(p) \ {p}

\* Some of the paths as they are come by: each has as many before it as its rank.
Place(p) == CHOOSE i \in DOMAIN Order : Order[i] = p
Rank(p, ps) == Cardinality({q \in ps : Place(q) < Place(p)})
Sorted(ps) == [i \in 1..Cardinality(ps) |-> CHOOSE p \in ps : Rank(p, ps) = i - 1]

\* "hard": a regular file with a second name.  "locked": a directory one may
\* neither list nor enter.
Kinds == {"none", "file", "hard", "dir", "locked", "link", "other"}
Entries == {e \in [kind: Kinds, size: Nat] : e.kind \in {"file", "hard"} \/ e.size = 0}

ASSUME OrderAssumption ==
  /\ Order \in Seq(Seq(STRING)) /\ IsInjective(Order)
  /\ \A p \in Paths : p # Top /\ Upto(p) \subseteq Paths
ASSUME PlansAssumption ==
  \A plan \in Plans : /\ plan.tree \in [Paths -> Entries]
                      /\ plan.changes \in Nat /\ plan.to \in [Paths -> SUBSET Entries]

VARIABLES
  tree,     \* what is at each path; counts only if the directories above are there
  plan,     \* bound: how often it changes, and to what
  changes,  \* how often it did, faults of the disk included
  touched   \* the paths a change or fault was at (history)

world == <<tree, plan, changes, touched>>

WorldInit ==
  /\ plan \in Plans
  /\ tree = plan.tree
  /\ changes = 0
  /\ touched = {}

Disturb(p) ==
  /\ changes < plan.changes
  /\ changes' = changes + 1
  /\ touched' = touched \cup {p}
  /\ UNCHANGED plan

\* Another program puts something else at a path, or removes it.
Others ==
  \E p \in Paths : \E e \in plan.to[p] \ {tree[p]} :
    /\ Disturb(p)
    /\ tree' = [tree EXCEPT ![p] = e]

\* A system call about a path fails for a reason of its own.
Fault(p) == Disturb(p) /\ UNCHANGED tree

-----------------------------------------------------------------------------
(* Looking at it *)

Kind(p) == IF p = Top THEN "dir" ELSE tree[p].kind
\* The first path, from the top, that satisfies a condition.
First(ps) == CHOOSE p \in ps : \A q \in ps : Len(p) <= Len(q)

\* What a path names for a system call that follows the links above it.
Look(p) ==
  LET broken == {q \in Above(p) : Kind(q) \notin {"dir", "link"}} IN
  IF broken = {} THEN Kind(p)
  ELSE IF Kind(First(broken)) = "none" THEN "none" ELSE "denied"

\* reject_link_or_junction_chain.
LinkChain(p) ==
  LET bad == {q \in Upto(p) : \/ Kind(q) \in {"none", "link"}
                              \/ (q # p /\ Kind(q) # "dir")}
  IN IF bad = {} THEN "ok" ELSE IF Kind(First(bad)) = "none" THEN "notFound" ELSE "denied"

\* open_anchored_dir_fd, every component opened without following.
Anchored(d) == \A p \in Upto(d) : Kind(p) = "dir"

\* read_without_following and read_checked_fd, at the moment of the read (the
\* steps in between are those of BoundedRead): whether the file is returned,
\* and whether it was refused for being longer than the budget.
SafeRead(p, budget) ==
  LET found == Anchored(Front(p)) /\ Kind(p) = "file" IN
  [ok |-> found /\ tree[p].size <= budget,
   over |-> found /\ tree[p].size > budget]

\* is_dir() of a path or of a directory entry follows a link.
IsDirectory(p) == Kind(p) \in {"dir", "locked"} \/ (Kind(p) = "link" /\ Children(p) # {})

\* Nothing at the path, or on the way to it, was disturbed during the call.
Untouched(p) == touched \cap (Upto(p) \cup {Top}) = {}

\* A copy with one thing more; what is there stays (it is opened for creation).
Added(copy, p, e) ==
  [q \in DOMAIN copy \cup {p} |-> IF q \in DOMAIN copy THEN copy[q] ELSE e]

\* What a copy has at these paths, and what the tree has.
TotalOf(copy, ps) == FoldFunctionOnSet(+, 0, [p \in ps |-> copy[p].size], ps)
TotalSize(ps) == TotalOf(tree, ps)
=============================================================================
