------------------------------ MODULE GitRunner ------------------------------
(***************************************************************************)
(* GitRunner._run_checked (tools/git/handlers.py): one Git command over a  *)
(* repository that others change meanwhile.                                *)
(*                                                                         *)
(* The call refuses links, walks the object stores that alternates files   *)
(* borrow from, takes a fingerprint of everything Git will read, takes it  *)
(* again, opens the stores for a private view, lists the configured        *)
(* filters, runs Git, and takes the fingerprint a third time; only if it   *)
(* is still the same is Git's output returned.                             *)
(*                                                                         *)
(* A part is one entry the fingerprint stamps by identity and times: an    *)
(* object store, or the refs.  Its content is known by its stamp, which    *)
(* grows with every change, as ctime does.                                 *)
(***************************************************************************)
EXTENDS Naturals, Sequences, SequencesExt, FiniteSetsExt

CONSTANTS
  Main,       \* .git/objects
  Borrowed,   \* the other object stores inside the repository
  Refs,       \* .git/refs
  Outside,    \* an alternates entry _read_alternates_targets refuses by itself
  Lists,      \* what an alternates file may list
  Leads,      \* bound: where the name of a store leads while it is a link
  MaxStores,  \* _MAX_ALTERNATE_STORES
  MaxVisits,  \* four times as many
  MaxLoose,   \* _MAX_LOOSE_OBJECTS
  MaxReads,   \* bound: how much of it Git reads
  Plans       \* bound: repositories a run starts from, and how often each changes

Stores == {Main} \cup Borrowed
Parts == Stores \cup {Refs}

\* What there is on disk: the alternates and the number of loose objects of each
\* store, the parts whose names are links and those that hold a link, the stores
\* that are not there, and the stamp of each part.
Repositories == [lists: [Stores -> Lists], loose: [Stores -> Nat], linked: SUBSET Parts,
                 holding: SUBSET Parts, missing: SUBSET Stores, stamp: [Parts -> Nat]]

ASSUME PartsAssumption ==
  /\ IsFiniteSet(Borrowed)
  /\ Main \notin Borrowed /\ Refs \notin Stores /\ Outside \notin Parts
  /\ Lists \subseteq Seq(Stores \cup {Outside})
\* .git/objects only ever leads out of the repository, and no link to a link.
ASSUME LeadsAssumption == Leads \in [Stores -> Stores \cup {Outside}] /\ Leads[Main] = Outside
Straight(links) == \A s \in links \cap Stores : Leads[s] \notin links
ASSUME LimitsAssumption ==
  MaxStores \in Nat \ {0} /\ MaxVisits \in Nat \ {0} /\ MaxLoose \in Nat
ASSUME PlansAssumption ==
  \A plan \in Plans : /\ plan.repo \in Repositories
                      /\ \A p \in Parts : plan.repo.stamp[p] = 1
                      /\ Straight(plan.repo.linked)
                      /\ plan.changes \in Nat

VARIABLES
  repo,     \* the repository
  first,    \* the repository when the call began (history)
  changes,  \* how often others changed it since
  limit,    \* bound: how often they will
  call,     \* the call under way
  read,     \* what Git read: pairs of a place in Stamped and a stamp
  begun     \* the repository when Git was started (history)

world == <<repo, changes>>
past == <<first, limit>>
vars == <<repo, first, changes, limit, call, read, begun>>

-----------------------------------------------------------------------------
PCs == {"entries", "walk", "stores", "before", "again", "view", "filters",
        "git", "after", "judge", "over"}

\* Outcomes: Git's output, and the errors, each by its own name.
Outcomes == {"none", "output", "noGit", "linked", "alternates", "strayed", "changed",
             "looseObjects", "filters", "notStarted", "timeout", "noWorkTree", "outputLimit"}

Init ==
  /\ \E plan \in Plans : repo = plan.repo /\ limit = plan.changes
  /\ first = repo /\ begun = repo
  /\ changes = 0
  /\ call = [pc |-> "entries", todo |-> <<Main, Refs>>,
             pending |-> <<>>, seen |-> {}, ordered |-> <<>>, visits |-> 0,
             before |-> <<>>, now |-> <<>>, pinned |-> <<>>, loose |-> 0,
             exit |-> "none", outcome |-> "none"]
  /\ read = {}

Continue(next) == call' = next
End(outcome) == call' = [call EXCEPT !.pc = "over", !.outcome = outcome]

Quietly == UNCHANGED <<world, past, read, begun>>

\* The stores of the private view, in the order they are opened in.
ViewStores == <<Main>> \o call.ordered

\* What the fingerprint stamps, in its order.
Stamped == ViewStores \o <<Refs>>

\* The parts that hold a link, and those that are one or hold one.
Holding == repo.holding \ repo.missing
Links == repo.linked \cup Holding

\* Path.resolve of the name of a store.
Resolved(s) == IF s \in repo.linked THEN Leads[s] ELSE s

-----------------------------------------------------------------------------
(* The check: _require_self_contained_git_dir *)

\* _refuse_invalid_metadata_entries and _refuse_nested_symlinks, and later
\* _refuse_object_store_entries of each store.
Examining == call.pc \in {"entries", "stores"}

\* There is no executable.
NoGit ==
  /\ call.pc = "entries" /\ call.todo = <<Main, Refs>>
  /\ End("noGit")
  /\ Quietly

\* .git/objects and .git/refs may not be links; a store is listed by its name,
\* and if that has become a link since the walk, what it leads to is listed.
ExamineRefused ==
  /\ Examining /\ call.todo # <<>>
  /\ LET part == Head(call.todo) IN
     IF call.pc = "entries" THEN part \in Links ELSE Resolved(part) \in Holding \cup {Outside}
  /\ End("linked")
  /\ Quietly

Examine ==
  /\ Examining /\ call.todo # <<>>
  /\ LET part == Head(call.todo) IN
     IF call.pc = "entries" THEN part \notin Links ELSE Resolved(part) \notin Holding
  /\ Continue([call EXCEPT !.todo = Tail(@)])
  /\ Quietly

\* .git/objects is resolved once more, and must be inside the repository.
InitialStoreRefused ==
  /\ call.pc = "entries" /\ call.todo = <<>>
  /\ Main \in repo.linked
  /\ End("alternates")
  /\ Quietly

ExaminedEntries ==
  /\ call.pc = "entries" /\ call.todo = <<>>
  /\ Main \notin repo.linked
  /\ Continue([call EXCEPT !.pc = "walk", !.pending = <<Main>>])
  /\ Quietly

ExaminedStores ==
  /\ call.pc = "stores" /\ call.todo = <<>>
  /\ Continue([call EXCEPT !.pc = "before"])
  /\ Quietly

\* _walk_alternate_stores: the last of the pending stores is visited next, under
\* the name it resolves to by then.
Walking == call.pc = "walk" /\ call.pending # <<>>
NextVisited == Resolved(Last(call.pending))

\* _read_alternates_targets resolves what is listed before it looks for links:
\* one that leads to a store in the repository is followed, under its real path.
Targets(s) ==
  IF s \in repo.missing THEN <<>>
  ELSE [i \in 1..Len(repo.lists[s]) |-> Resolved(repo.lists[s][i])]
RefusedTargets(s) == \E i \in 1..Len(Targets(s)) : Targets(s)[i] = Outside

VisitTooMany ==
  /\ Walking
  /\ call.visits + 1 > MaxVisits
  /\ End("alternates")
  /\ Quietly

\* The name of a pending store became a link out of the repository.  The walk does
\* not look where it is; what it can still do is fail, at the latest when the view
\* is to open the store by its place in the repository.
VisitStrayed ==
  /\ Walking
  /\ call.visits + 1 <= MaxVisits
  /\ NextVisited = Outside
  /\ End("strayed")
  /\ Quietly

\* Mutant: "continue" before the store is popped and the visit counted.
VisitSeen_Kept ==
  /\ Walking
  /\ call.visits + 1 <= MaxVisits
  /\ NextVisited \in call.seen
  /\ Continue(call)
  /\ Quietly

VisitSeen ==
  /\ Walking
  /\ call.visits + 1 <= MaxVisits
  /\ NextVisited \in call.seen
  /\ Continue([call EXCEPT !.pending = Front(@), !.visits = @ + 1])
  /\ Quietly

VisitRefused ==
  /\ Walking
  /\ call.visits + 1 <= MaxVisits
  /\ NextVisited \notin call.seen \cup {Outside}
  /\ Cardinality(call.seen) + 1 > MaxStores \/ RefusedTargets(NextVisited)
  /\ End("alternates")
  /\ Quietly

\* Mutant: of the targets only the last is followed.
Visit_LastTarget ==
  /\ Walking
  /\ call.visits + 1 <= MaxVisits
  /\ NextVisited \notin call.seen \cup {Outside}
  /\ Cardinality(call.seen) + 1 <= MaxStores /\ ~RefusedTargets(NextVisited)
  /\ LET targets == Targets(NextVisited) IN
     Continue([call EXCEPT !.pending = Front(@) \o
                                        (IF targets = <<>> THEN <<>> ELSE <<Last(targets)>>),
                           !.visits = @ + 1,
                           !.seen = @ \cup {NextVisited},
                           !.ordered = IF NextVisited = Main THEN @ ELSE Append(@, NextVisited)])
  /\ Quietly

Visit ==
  /\ Walking
  /\ call.visits + 1 <= MaxVisits
  /\ NextVisited \notin call.seen \cup {Outside}
  /\ Cardinality(call.seen) + 1 <= MaxStores /\ ~RefusedTargets(NextVisited)
  /\ Continue([call EXCEPT !.pending = Front(@) \o Targets(NextVisited),
                           !.visits = @ + 1,
                           !.seen = @ \cup {NextVisited},
                           !.ordered = IF NextVisited = Main THEN @ ELSE Append(@, NextVisited)])
  /\ Quietly

Walked ==
  /\ call.pc = "walk" /\ call.pending = <<>>
  /\ Continue([call EXCEPT !.pc = "stores", !.todo = call.ordered])
  /\ Quietly

-----------------------------------------------------------------------------
(* The fingerprints: _git_dir_fingerprint *)

Fingerprinting == call.pc \in {"before", "again", "after"}
NextStamped == Stamped[Len(call.now) + 1]

\* What os.lstat tells of a part; 0 if it is not there.
Observed(p) == IF p \in repo.missing THEN 0 ELSE repo.stamp[p]

StampLinked ==
  /\ Fingerprinting /\ Len(call.now) < Len(Stamped)
  /\ NextStamped \in Links
  /\ End("changed")
  /\ Quietly

Stamp ==
  /\ Fingerprinting /\ Len(call.now) < Len(Stamped)
  /\ NextStamped \notin Links
  /\ Continue([call EXCEPT !.now = Append(@, Observed(NextStamped))])
  /\ Quietly

Fingerprinted == Fingerprinting /\ Len(call.now) = Len(Stamped)

FirstFingerprint ==
  /\ Fingerprinted /\ call.pc = "before"
  /\ Continue([call EXCEPT !.pc = "again", !.before = call.now, !.now = <<>>])
  /\ Quietly

FingerprintDiffers ==
  /\ Fingerprinted /\ call.pc # "before"
  /\ call.now # call.before
  /\ End("changed")
  /\ Quietly

SecondFingerprint ==
  /\ Fingerprinted /\ call.pc = "again"
  /\ call.now = call.before
  /\ Continue([call EXCEPT !.pc = "view", !.now = <<>>])
  /\ Quietly

\* Mutant: the third fingerprint is compared with nothing.
LastFingerprint_Unchecked ==
  /\ Fingerprinted /\ call.pc = "after"
  /\ Continue([call EXCEPT !.pc = "judge"])
  /\ Quietly

LastFingerprint ==
  /\ Fingerprinted /\ call.pc = "after"
  /\ call.now = call.before
  /\ Continue([call EXCEPT !.pc = "judge"])
  /\ Quietly

-----------------------------------------------------------------------------
(* The private view and the run of Git *)

\* A store once opened stays at hand, whatever its name comes to mean.
NextStore == ViewStores[Len(call.pinned) + 1]
Opening == call.pc = "view" /\ Len(call.pinned) < Len(ViewStores)

\* An open without following links fails: any OSError means "changed".  Not all
\* that a store holds is opened.
OpenFails ==
  /\ Opening
  /\ NextStore \in Links \cup repo.missing
  /\ End("changed")
  /\ Quietly

\* _populate_object_store_view: the count of loose objects goes on from the
\* store before.
OpenTooMany ==
  /\ Opening
  /\ NextStore \notin repo.linked \cup repo.missing
  /\ call.loose + repo.loose[NextStore] > MaxLoose
  /\ End("looseObjects")
  /\ Quietly

\* Mutant: each store is counted by itself.
OpenStore_PerStore ==
  /\ Opening
  /\ NextStore \notin repo.linked \cup repo.missing
  /\ repo.loose[NextStore] <= MaxLoose
  /\ Continue([call EXCEPT !.pinned = Append(@, repo.stamp[NextStore]),
                           !.loose = repo.loose[NextStore]])
  /\ Quietly

OpenStore ==
  /\ Opening
  /\ NextStore \notin repo.linked \cup repo.missing
  /\ call.loose + repo.loose[NextStore] <= MaxLoose
  /\ Continue([call EXCEPT !.pinned = Append(@, repo.stamp[NextStore]),
                           !.loose = @ + repo.loose[NextStore]])
  /\ Quietly

ViewBuilt ==
  /\ call.pc = "view" /\ Len(call.pinned) = Len(ViewStores)
  /\ Continue([call EXCEPT !.pc = "filters"])
  /\ Quietly

\* _filter_driver_overrides fails, times out or finds a name it refuses.
FiltersRefused ==
  /\ call.pc = "filters"
  /\ End("filters")
  /\ Quietly

\* The process cannot be started.
NotStarted ==
  /\ call.pc = "filters"
  /\ End("notStarted")
  /\ Quietly

StartGit ==
  /\ call.pc = "filters"
  /\ Continue([call EXCEPT !.pc = "git"])
  /\ begun' = repo
  /\ UNCHANGED <<world, past, read>>

\* Git reads what it was given, in whatever order and however often it likes:
\* as it is now, or, of a store that was replaced, as it was when it was opened.
Readable(i) ==
  {repo.stamp[p] : p \in {Stamped[i]} \ repo.missing} \cup
  {call.pinned[k] : k \in {i} \cap 1..Len(call.pinned)}

GitReads ==
  /\ call.pc = "git" /\ Cardinality(read) < MaxReads
  /\ \E i \in 1..Len(Stamped) : \E stamp \in Readable(i) :
       /\ <<i, stamp>> \notin read
       /\ read' = read \cup {<<i, stamp>>}
  /\ UNCHANGED <<world, past, call, begun>>

\* It exits: with output, with more than max_output_bytes, or with an error.
GitExits ==
  /\ call.pc = "git"
  /\ \E exit \in {"output", "outputLimit", "noWorkTree"} :
       Continue([call EXCEPT !.pc = "after", !.exit = exit])
  /\ Quietly

GitTimesOut ==
  /\ call.pc = "git"
  /\ End("timeout")
  /\ Quietly

\* Nothing changed: the exit status and the length of the output decide.
Judge ==
  /\ call.pc = "judge"
  /\ End(call.exit)
  /\ Quietly

-----------------------------------------------------------------------------
(* The others *)

\* One change by someone else, of one part.
Changed(p, new) ==
  /\ call.pc # "over" /\ changes < limit
  /\ changes' = changes + 1
  /\ repo' = [new EXCEPT !.stamp[p] = changes + 2]
  /\ UNCHANGED <<past, call, read, begun>>

Rewrite(p) == Changed(p, repo)

AddObject(s) == Changed(s, [repo EXCEPT !.loose[s] = @ + 1])

Relist(s) == \E list \in Lists : Changed(s, [repo EXCEPT !.lists[s] = list])

Toggled(set, p) == IF p \in set THEN set \ {p} ELSE set \cup {p}

LinkOrUnlink(p) ==
  \/ Straight(Toggled(repo.linked, p)) /\ Changed(p, [repo EXCEPT !.linked = Toggled(@, p)])
  \/ Changed(p, [repo EXCEPT !.holding = Toggled(@, p)])

RemoveOrCreate(s) ==
  Changed(s, [repo EXCEPT !.missing = Toggled(@, s)])

Others ==
  \/ \E p \in Parts : Rewrite(p) \/ LinkOrUnlink(p)
  \/ \E s \in Stores : AddObject(s) \/ Relist(s) \/ RemoveOrCreate(s)

-----------------------------------------------------------------------------
Step ==
  \/ NoGit \/ ExamineRefused \/ Examine
  \/ InitialStoreRefused \/ ExaminedEntries \/ ExaminedStores
  \/ VisitTooMany \/ VisitStrayed \/ VisitSeen \/ VisitRefused \/ Visit \/ Walked
  \/ StampLinked \/ Stamp \/ FirstFingerprint \/ FingerprintDiffers
  \/ SecondFingerprint \/ LastFingerprint
  \/ OpenFails \/ OpenTooMany \/ OpenStore \/ ViewBuilt
  \/ FiltersRefused \/ NotStarted \/ StartGit
  \/ GitReads \/ GitExits \/ GitTimesOut
  \/ Judge

Rest == call.pc = "over" /\ UNCHANGED vars

Next == Step \/ Others \/ Rest

Spec == Init /\ [][Next]_vars

\* The call goes on, and Git ends or is ended by its timeout.
FairSpec == Spec /\ WF_vars(Step)

-----------------------------------------------------------------------------
(* Properties *)

Calls == [pc: PCs, todo: Seq(Parts), pending: Seq(Stores), seen: SUBSET Stores,
          ordered: Seq(Borrowed), visits: Nat, before: Seq(Nat), now: Seq(Nat),
          pinned: Seq(Nat), loose: Nat, exit: Outcomes, outcome: Outcomes]

\* Every variable holds values of its kind; no store is walked to twice, and
\* .git/objects is none of the borrowed ones (_walk_alternate_stores).
TypeOK ==
  /\ repo \in Repositories /\ first \in Repositories /\ begun \in Repositories
  /\ changes \in Nat /\ limit \in Nat
  /\ call \in Calls
  /\ \A i, j \in 1..Len(call.ordered) : call.ordered[i] = call.ordered[j] => i = j
  /\ read \subseteq (1..Len(Stamped)) \X Nat

\* The output of Git, or the error it exits with, is that of one version of the
\* repository: every part the first fingerprint found was, each time Git read
\* it, what it was then and when Git was started.  Anything else is discarded.
OneVersion ==
  call.outcome \in {"output", "outputLimit", "noWorkTree"} =>
    \A pair \in read :
      call.before[pair[1]] # 0 => /\ pair[2] = call.before[pair[1]]
                                  /\ pair[2] = begun.stamp[Stamped[pair[1]]]

\* The object stores Git may come to by alternates: the least set that has
\* .git/objects and what its members list.
Closed(set) == \A s \in set : ToSet(Targets(s)) \cap Stores \subseteq set
Reachable ==
  {s \in Stores : \A set \in SUBSET Stores : Main \in set /\ Closed(set) => s \in set}

Listed == FoldFunctionOnSet(+, 0, [s \in Stores |-> Len(Targets(s))], Reachable)
LooseObjects == FoldFunctionOnSet(+, 0, repo.loose, Reachable)

\* While nobody touches the repository, the walk ends with every store Git may
\* come to and no other, whatever cycles and repetitions the alternates hold.
WalkExact ==
  (/\ changes = 0 /\ call.pc \notin {"entries", "walk"}
   /\ call.outcome \notin {"noGit", "linked", "alternates"})
     => ToSet(call.ordered) = Reachable \ {Main}

\* While nobody touches the repository, each refusal has its reason and what
\* has none is answered; the limits are those of all stores together.  A listed
\* link is what it leads to: out of the repository it is refused, to a store in it
\* that store counts, and the link does not.  A store that is listed and not there
\* is called a change.
QuietCallExact ==
  changes = 0 /\ call.pc = "over" =>
    CASE call.outcome = "noGit" -> TRUE
      [] call.outcome = "linked" -> Links \cap ({Refs} \cup Reachable) # {}
      [] call.outcome = "alternates" ->
           \/ \E s \in Reachable : RefusedTargets(s)
           \/ Cardinality(Reachable) > MaxStores
           \/ Listed + 1 > MaxVisits
      [] call.outcome = "strayed" -> FALSE
      [] call.outcome = "looseObjects" -> LooseObjects > MaxLoose
      [] call.outcome = "changed" -> repo.missing \cap Reachable # {}
      [] OTHER ->
           /\ Links \cap ({Refs} \cup Reachable) = {}
           /\ repo.missing \cap Reachable = {}
           /\ \A s \in Reachable : ~RefusedTargets(s)
           /\ Cardinality(Reachable) <= MaxStores
           /\ Listed + 1 <= MaxVisits
           /\ LooseObjects <= MaxLoose

\* Every call ends, whatever cycle the alternates form and however often they
\* change while they are walked.
CallEnds == <>(call.pc = "over")
=============================================================================
