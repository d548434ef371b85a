--------------------------- MODULE GitRunnerProofs ---------------------------
(***************************************************************************)
(* Proofs about GitRunner, for every repository, every limit and any       *)
(* number of changes: output is returned only of one version of what Git   *)
(* read, the walk of the alternates visits what can be reached, and a call *)
(* that nobody disturbs gives the verdict that the repository deserves.    *)
(***************************************************************************)
EXTENDS GitRunner, SumTheorems, SequenceTheorems

-----------------------------------------------------------------------------
(* Sequences *)

\* The last element of a sequence, and what is left without it.
LEMMA FrontLast ==
  ASSUME NEW S, NEW s \in Seq(S), s # <<>>
  PROVE  /\ Last(s) \in S /\ Front(s) \in Seq(S)
         /\ ToSet(s) = ToSet(Front(s)) \cup {Last(s)}
         /\ Len(s) \in Nat \ {0} /\ Len(Front(s)) = Len(s) - 1
<1>1. Len(s) \in Nat \ {0} /\ DOMAIN s = 1..Len(s)
  BY EmptySeq, LenProperties
<1>2. \A i \in 1..(Len(s) - 1) : s[i] \in S
  BY <1>1, ElementOfSeq
<1>3. /\ Front(s) \in Seq(S) /\ Len(Front(s)) = Len(s) - 1
      /\ \A i \in 1..(Len(s) - 1) : Front(s)[i] = s[i]
  <2>1. 1 \in Int /\ Len(s) - 1 \in Int
    BY <1>1
  <2>2. /\ SubSeq(s, 1, Len(s) - 1) \in Seq(S)
        /\ Len(SubSeq(s, 1, Len(s) - 1)) = IF 1 <= Len(s) - 1 THEN (Len(s) - 1) - 1 + 1 ELSE 0
        /\ \A i \in 1..((Len(s) - 1) - 1 + 1) : SubSeq(s, 1, Len(s) - 1)[i] = s[1 + i - 1]
    BY <1>2, <2>1, SubSeqProperties
  <2> QED BY <1>1, <2>2 DEF Front
<1>4. Last(s) \in S
  BY <1>1, ElementOfSeq DEF Last
<1>5. ToSet(s) = {s[i] : i \in 1..Len(s)}
  BY <1>1 DEF ToSet
<1>6. ToSet(Front(s)) = {s[i] : i \in 1..(Len(s) - 1)}
  BY <1>3, LenProperties DEF ToSet
<1>7. 1..Len(s) = (1..(Len(s) - 1)) \cup {Len(s)}
  BY <1>1
<1> QED BY <1>1, <1>3, <1>4, <1>5, <1>6, <1>7 DEF Last

\* The elements of a concatenation.
LEMMA ToSetConcat ==
  ASSUME NEW S, NEW s \in Seq(S), NEW t \in Seq(S)
  PROVE  s \o t \in Seq(S) /\ ToSet(s \o t) = ToSet(s) \cup ToSet(t)
<1>1. Len(s) \in Nat /\ Len(t) \in Nat /\ DOMAIN s = 1..Len(s) /\ DOMAIN t = 1..Len(t)
  BY LenProperties
<1>2. /\ s \o t \in Seq(S) /\ DOMAIN (s \o t) = 1..(Len(s) + Len(t))
      /\ \A i \in 1..(Len(s) + Len(t)) : (s \o t)[i] = IF i <= Len(s) THEN s[i] ELSE t[i - Len(s)]
  BY ConcatProperties, LenProperties
<1>3. ASSUME NEW i \in DOMAIN (s \o t)
      PROVE  (s \o t)[i] \in ToSet(s) \cup ToSet(t)
  <2>1. CASE i <= Len(s)
    BY <1>1, <1>2, <1>3, <2>1 DEF ToSet
  <2>2. CASE ~(i <= Len(s))
    <3>1. i - Len(s) \in DOMAIN t
      BY <1>1, <1>2, <1>3, <2>2
    <3> QED BY <1>2, <1>3, <2>2, <3>1 DEF ToSet
  <2> QED BY <2>1, <2>2
<1>4. ASSUME NEW i \in DOMAIN s
      PROVE  s[i] \in ToSet(s \o t)
  <2>1. i \in 1..(Len(s) + Len(t)) /\ i <= Len(s)
    BY <1>1
  <2> QED BY <1>2, <2>1 DEF ToSet
<1>5. ASSUME NEW i \in DOMAIN t
      PROVE  t[i] \in ToSet(s \o t)
  <2>1. /\ Len(s) + i \in 1..(Len(s) + Len(t)) /\ ~(Len(s) + i <= Len(s))
        /\ (Len(s) + i) - Len(s) = i
    BY <1>1
  <2> QED BY <1>2, <2>1 DEF ToSet
<1> QED BY <1>2, <1>3, <1>4, <1>5 DEF ToSet

\* The elements of a sequence with one more.
LEMMA ToSetAppend ==
  ASSUME NEW S, NEW s \in Seq(S), NEW e \in S
  PROVE  ToSet(Append(s, e)) = ToSet(s) \cup {e}
<1>1. /\ Len(s) \in Nat /\ DOMAIN s = 1..Len(s)
      /\ DOMAIN Append(s, e) = 1..(Len(s) + 1)
      /\ \A i \in 1..Len(s) : Append(s, e)[i] = s[i]
      /\ Append(s, e)[Len(s) + 1] = e
  BY LenProperties, AppendProperties
<1>2. 1..(Len(s) + 1) = (1..Len(s)) \cup {Len(s) + 1}
  BY <1>1
<1> QED BY <1>1, <1>2 DEF ToSet

\* A sequence whose elements are all in a set.
LEMMA SeqOfElements ==
  ASSUME NEW S, NEW T, NEW s \in Seq(S), \A i \in 1..Len(s) : s[i] \in T
  PROVE  s \in Seq(T) /\ ToSet(s) \subseteq T
<1>1. Len(s) \in Nat /\ DOMAIN s = 1..Len(s) /\ s = [i \in 1..Len(s) |-> s[i]]
  BY LenProperties
<1>2. [i \in 1..Len(s) |-> s[i]] \in Seq(T)
  BY <1>1, IsASeq
<1> QED BY <1>1, <1>2 DEF ToSet

-----------------------------------------------------------------------------
(* The invariant *)

Checking == {"entries", "walk", "stores"}
Compared == {"again", "view", "filters", "git", "after", "judge"}
Started == {"git", "after", "judge"}

\* Stamps only grow, and nothing is stamped later than the last change.
Stamps ==
  \A p \in Parts : begun.stamp[p] <= repo.stamp[p] /\ repo.stamp[p] <= changes + 1

\* A borrowed store is listed once, when it is first seen.
Walks ==
  /\ \A i \in 1..Len(call.ordered) : call.ordered[i] \in call.seen
  /\ \A i, j \in 1..Len(call.ordered) : call.ordered[i] = call.ordered[j] => i = j

\* What the fingerprints say: the first was taken before Git was started, Git
\* read before the third was taken.
Prints ==
  /\ call.pc \in Compared =>
       /\ Len(call.before) = Len(Stamped)
       /\ \A i \in 1..Len(call.before) : call.before[i] <= repo.stamp[Stamped[i]]
  /\ call.pc = "before" =>
       /\ Len(call.now) <= Len(Stamped)
       /\ \A i \in 1..Len(call.now) : call.now[i] <= repo.stamp[Stamped[i]]
  /\ call.pc \in Started =>
       \A i \in 1..Len(call.before) : call.before[i] <= begun.stamp[Stamped[i]]
  /\ \A pair \in read :
       call.before[pair[1]] <= pair[2] /\ pair[2] <= repo.stamp[Stamped[pair[1]]]
  /\ call.pc \in {"after", "judge"} =>
       /\ \A i \in 1..Len(call.now) :
            call.now[i] # 0 => begun.stamp[Stamped[i]] <= call.now[i]
       /\ \A pair \in read :
            pair[1] \in 1..Len(call.now) /\ call.now[pair[1]] # 0
              => pair[2] <= call.now[pair[1]]

\* A store is opened after its first stamp was taken.
Pins ==
  /\ Len(call.pinned) <= Len(ViewStores)
  /\ \A k \in 1..Len(call.pinned) :
       call.before[k] <= call.pinned[k] /\ call.pinned[k] <= repo.stamp[Stamped[k]]

\* What holds at each place.
Places ==
  /\ call.pc \in Checking \cup {"view", "filters", "git"} => call.now = <<>>
  /\ call.pc \notin Started \cup {"over"} => read = {}
  /\ call.pc \in Checking \cup {"before", "again"} => call.pinned = <<>>
  /\ call.pc # "over" => call.outcome = "none"
  /\ call.pc = "judge" => call.now = call.before

IInv == TypeOK /\ Stamps /\ Walks /\ Prints /\ Pins /\ Places /\ OneVersion

-----------------------------------------------------------------------------
(* Facts about one state *)

\* What TypeOK says of the call and of the repositories, part by part.
LEMMA CallFacts ==
  ASSUME TypeOK
  PROVE  /\ call.pc \in PCs /\ call.todo \in Seq(Parts) /\ call.pending \in Seq(Stores)
         /\ call.seen \subseteq Stores /\ call.ordered \in Seq(Borrowed)
         /\ call.visits \in Nat /\ call.before \in Seq(Nat) /\ call.now \in Seq(Nat)
         /\ call.pinned \in Seq(Nat) /\ call.loose \in Nat
         /\ call.exit \in Outcomes /\ call.outcome \in Outcomes
BY DEF TypeOK, Calls

LEMMA RepoFacts ==
  ASSUME TypeOK
  PROVE  /\ \A p \in Parts : repo.stamp[p] \in Nat /\ begun.stamp[p] \in Nat
         /\ \A s \in Stores : repo.lists[s] \in Lists /\ repo.loose[s] \in Nat
         /\ \A p \in Parts : Observed(p) \in Nat /\ Observed(p) <= repo.stamp[p]
         /\ \A p \in Parts : Observed(p) # 0 => Observed(p) = repo.stamp[p]
         /\ changes \in Nat
BY DEF TypeOK, Repositories, Observed

\* The fingerprint stamps parts, .git/objects first and the refs last.
LEMMA StampedFacts ==
  ASSUME TypeOK
  PROVE  /\ ViewStores \in Seq(Stores) /\ Stamped \in Seq(Parts)
         /\ Len(Stamped) \in Nat /\ Len(ViewStores) \in Nat
         /\ \A i \in 1..Len(Stamped) : Stamped[i] \in Parts
         /\ \A i \in 1..Len(ViewStores) : ViewStores[i] \in Stores /\ Stamped[i] = ViewStores[i]
         /\ Len(Stamped) = Len(ViewStores) + 1
<1>1. call.ordered \in Seq(Stores) /\ <<Main>> \in Seq(Stores) /\ <<Refs>> \in Seq(Parts)
  BY CallFacts, SeqMonotonic DEF Stores, Parts
<1>2. ViewStores \in Seq(Stores)
  BY <1>1, ToSetConcat DEF ViewStores
<1>3. ViewStores \in Seq(Parts)
  BY <1>2, SeqMonotonic DEF Parts
<1>4. Stamped \in Seq(Parts)
  BY <1>1, <1>3, ToSetConcat DEF Stamped
<1>5. /\ Len(Stamped) = Len(ViewStores) + 1 /\ Len(ViewStores) \in Nat
      /\ \A i \in 1..Len(ViewStores) : Stamped[i] = ViewStores[i]
  BY <1>1, <1>3, ConcatProperties, LenProperties DEF Stamped
<1> QED BY <1>2, <1>4, <1>5, LenProperties, ElementOfSeq

-----------------------------------------------------------------------------
(* Steps of the call *)

\* The world and the history stand still.
LEMMA QuietFacts ==
  ASSUME IInv, Quietly
  PROVE  /\ repo' = repo /\ begun' = begun /\ first' = first /\ changes' = changes
         /\ limit' = limit /\ read' = read
         /\ Stamps'
         /\ \A p : (Observed(p))' = Observed(p)
BY DEF Quietly, world, past, IInv, Stamps, Observed

\* A step that goes on with the check.
LEMMA CheckInvariant ==
  ASSUME IInv, Quietly, call' \in Calls, Walks',
         call.pc \in Checking, call'.pc \in Checking \cup {"before"},
         call'.now = call.now, call'.pinned = call.pinned, call'.outcome = call.outcome
  PROVE  IInv'
<1>2. call.now = <<>> /\ call.pinned = <<>> /\ read = {} /\ call.outcome = "none"
  BY DEF IInv, Places, Checking, Started
<1>1. TypeOK' /\ Len(ViewStores)' \in Nat
  <2>1. TypeOK'
    BY <1>2, QuietFacts DEF IInv, TypeOK, Walks
  <2>2. call'.ordered \in Seq(Stores) /\ <<Main>> \in Seq(Stores)
    BY SeqMonotonic DEF Calls, Stores
  <2> QED BY <2>1, <2>2, ToSetConcat, LenProperties DEF ViewStores
<1>3. Len(call'.now) = 0 /\ call'.pc \notin Compared /\ call'.pc \notin Started
      /\ call'.pc \notin {"after", "judge", "over"}
  BY <1>2, EmptySeq DEF Checking, Compared, Started
<1>4. Prints' /\ Pins'
  BY <1>1, <1>2, <1>3, QuietFacts, EmptySeq DEF Prints, Pins
<1>5. Places'
  BY <1>2, <1>3, QuietFacts DEF Places
<1>6. OneVersion'
  BY <1>2 DEF OneVersion
<1> QED BY <1>1, <1>4, <1>5, <1>6, QuietFacts DEF IInv

\* A step that ends the call without Git's output or exit.
LEMMA EndInvariant ==
  ASSUME IInv, Quietly, NEW outcome \in Outcomes, End(outcome), call.pc # "judge",
         outcome \notin {"output", "outputLimit", "noWorkTree"}
  PROVE  IInv'
<1>1. /\ call' \in Calls /\ call'.pc = "over" /\ call'.outcome = outcome
      /\ call'.ordered = call.ordered /\ call'.seen = call.seen
      /\ call'.before = call.before /\ call'.pinned = call.pinned
  BY DEF End, IInv, TypeOK, Calls, PCs
<1>2. TypeOK' /\ Walks' /\ Stamped' = Stamped /\ ViewStores' = ViewStores
  BY <1>1, QuietFacts DEF IInv, TypeOK, Walks, Stamped, ViewStores
<1>3. Prints' /\ Pins'
  BY <1>1, <1>2, QuietFacts DEF IInv, Prints, Pins, Compared, Started
<1>4. Places' /\ OneVersion'
  BY <1>1 DEF Places, OneVersion, Checking, Started
<1> QED BY <1>2, <1>3, <1>4, QuietFacts DEF IInv

\* What a name resolves to: itself, unless it is a link.
LEMMA ResolvedFacts ==
  ASSUME TypeOK, NEW s \in Stores \cup {Outside}
  PROVE  /\ Resolved(s) \in Stores \cup {Outside}
         /\ s \notin repo.linked => Resolved(s) = s
         /\ s \in repo.linked => s \in Stores /\ Resolved(s) = Leads[s]
<1>1. repo.linked \subseteq Parts
  BY DEF TypeOK, Repositories
<1>2. s \in repo.linked => s \in Stores
  BY <1>1, PartsAssumption
<1> QED BY <1>2, LeadsAssumption DEF Resolved

\* Targets that are not refused are object stores inside the repository.
LEMMA TargetFacts ==
  ASSUME TypeOK, NEW s \in Stores
  PROVE  /\ Targets(s) \in Seq(Stores \cup {Outside})
         /\ ~RefusedTargets(s) => Targets(s) \in Seq(Stores) /\ ToSet(Targets(s)) \subseteq Stores
<1>1. Targets(s) \in Seq(Stores \cup {Outside})
  <2>1. repo.lists[s] \in Seq(Stores \cup {Outside})
    BY RepoFacts, PartsAssumption
  <2>2. Len(repo.lists[s]) \in Nat
    BY <2>1, LenProperties
  <2>3. \A i \in 1..Len(repo.lists[s]) : Resolved(repo.lists[s][i]) \in Stores \cup {Outside}
    BY <2>1, ElementOfSeq, ResolvedFacts
  <2>4. [i \in 1..Len(repo.lists[s]) |-> Resolved(repo.lists[s][i])] \in Seq(Stores \cup {Outside})
    BY <2>2, <2>3, IsASeq
  <2> QED BY <2>4, EmptySeq DEF Targets
<1>2. \A i \in 1..Len(Targets(s)) : Targets(s)[i] \in Stores \cup {Outside}
  BY <1>1, ElementOfSeq
<1>3. ~RefusedTargets(s) => \A i \in 1..Len(Targets(s)) : Targets(s)[i] \in Stores
  BY <1>2 DEF RefusedTargets
<1> QED BY <1>1, <1>3, SeqOfElements

\* The walk: what is visited for the first time is listed, unless it is where
\* the walk began.
LEMMA WalkInvariant ==
  ASSUME IInv, Visit
  PROVE  IInv'
<1> DEFINE s == NextVisited
<1>1. /\ Quietly /\ call.pc = "walk" /\ call.pending # <<>>
      /\ s \notin call.seen /\ s # Outside /\ ~RefusedTargets(s)
      /\ call' = [call EXCEPT !.pending = Front(@) \o Targets(s), !.visits = @ + 1,
                              !.seen = @ \cup {s},
                              !.ordered = IF s = Main THEN @ ELSE Append(@, s)]
  BY DEF Visit, Walking, Continue
<1>2. TypeOK
  BY DEF IInv
<1>3. s \in Stores /\ Front(call.pending) \in Seq(Stores)
  <2>1. Last(call.pending) \in Stores /\ Front(call.pending) \in Seq(Stores)
    BY <1>1, <1>2, CallFacts, FrontLast
  <2> QED BY <1>1, <1>2, <2>1, ResolvedFacts DEF NextVisited
<1>4. Targets(s) \in Seq(Stores)
  BY <1>1, <1>2, <1>3, TargetFacts
<1>5. Front(call.pending) \o Targets(s) \in Seq(Stores)
  BY <1>3, <1>4, ToSetConcat
<1>6. s # Main => s \in Borrowed
  BY <1>3 DEF Stores
<1>7. (IF s = Main THEN call.ordered ELSE Append(call.ordered, s)) \in Seq(Borrowed)
  BY <1>2, <1>6, CallFacts, AppendProperties
<1>8. call' \in Calls
  <2>1. call.visits + 1 \in Nat /\ call.seen \cup {s} \in SUBSET Stores
    BY <1>2, <1>3, CallFacts
  <2> QED BY <1>1, <1>2, <1>5, <1>7, <2>1 DEF TypeOK, Calls
<1>9. call'.seen = call.seen \cup {s}
  BY <1>1, <1>2 DEF TypeOK, Calls
<1>10. Walks'
  <2>1. CASE s = Main
    <3>1. call'.ordered = call.ordered
      BY <1>1, <1>2, <2>1 DEF TypeOK, Calls
    <3> QED BY <1>9, <3>1 DEF IInv, Walks
  <2>2. CASE s # Main
    <3>1. /\ call'.ordered = Append(call.ordered, s)
          /\ Len(call'.ordered) = Len(call.ordered) + 1
          /\ Len(call.ordered) \in Nat
          /\ \A i \in 1..Len(call.ordered) : call'.ordered[i] = call.ordered[i]
          /\ call'.ordered[Len(call.ordered) + 1] = s
      BY <1>1, <1>2, <1>6, <2>2, CallFacts, AppendProperties, LenProperties DEF TypeOK, Calls
    <3>2. \A i \in 1..Len(call.ordered) : call.ordered[i] \in call.seen /\ call.ordered[i] # s
      BY <1>1 DEF IInv, Walks
    <3>3. \A i \in 1..Len(call'.ordered) :
            i \in 1..Len(call.ordered) \/ i = Len(call.ordered) + 1
      BY <3>1
    <3>4. \A i \in 1..Len(call'.ordered) : call'.ordered[i] \in call'.seen
      BY <1>9, <3>1, <3>2, <3>3
    <3>5. \A i, j \in 1..Len(call'.ordered) : call'.ordered[i] = call'.ordered[j] => i = j
      BY <3>1, <3>2, <3>3 DEF IInv, Walks
    <3> QED BY <3>4, <3>5 DEF Walks
  <2> QED BY <2>1, <2>2
<1>11. /\ call'.pc = "walk" /\ call'.now = call.now /\ call'.pinned = call.pinned
       /\ call'.outcome = call.outcome
  BY <1>1, <1>2 DEF TypeOK, Calls
<1> QED BY <1>1, <1>8, <1>10, <1>11, CheckInvariant DEF Checking

\* The rest of the check and of the walk.
LEMMA ExamineInvariant ==
  ASSUME IInv, Examine \/ ExaminedEntries \/ ExaminedStores \/ VisitSeen \/ Walked
  PROVE  IInv'
<1>1. TypeOK /\ Main \in Stores /\ <<Main>> \in Seq(Stores)
  BY DEF IInv, Stores
<1>2. call.ordered \in Seq(Parts)
  BY <1>1, CallFacts, SeqMonotonic DEF Parts, Stores
<1> SUFFICES /\ Quietly /\ call' \in Calls
             /\ call.pc \in Checking /\ call'.pc \in Checking \cup {"before"}
             /\ call'.now = call.now /\ call'.pinned = call.pinned
             /\ call'.outcome = call.outcome
             /\ call'.ordered = call.ordered /\ call.seen = call'.seen
  BY CheckInvariant DEF IInv, Walks
<1>3. CASE Examine
  <2>1. Tail(call.todo) \in Seq(Parts)
    BY <1>1, <1>3, CallFacts, HeadTailProperties DEF Examine
  <2> QED BY <1>1, <1>3, <2>1 DEF Examine, Examining, Continue, Checking, TypeOK, Calls
<1>4. CASE ExaminedEntries
  BY <1>1, <1>4 DEF ExaminedEntries, Continue, Checking, TypeOK, Calls, PCs
<1>5. CASE ExaminedStores
  BY <1>1, <1>5 DEF ExaminedStores, Continue, Checking, TypeOK, Calls, PCs
<1>6. CASE VisitSeen
  <2>1. Front(call.pending) \in Seq(Stores)
    BY <1>1, <1>6, CallFacts, FrontLast DEF VisitSeen, Walking
  <2>2. /\ Quietly /\ call.pc = "walk" /\ call.visits + 1 \in Nat
        /\ call' = [call EXCEPT !.pending = Front(@), !.visits = @ + 1]
    BY <1>1, <1>6, CallFacts DEF VisitSeen, Walking, Continue
  <2> QED BY <1>1, <2>1, <2>2 DEF Checking, TypeOK, Calls
<1>7. CASE Walked
  BY <1>1, <1>2, <1>7 DEF Walked, Continue, Checking, TypeOK, Calls, PCs
<1> QED BY <1>3, <1>4, <1>5, <1>6, <1>7

\* The steps that end the call early.
LEMMA RefusalInvariant ==
  ASSUME IInv,
         \/ NoGit \/ ExamineRefused \/ InitialStoreRefused
         \/ VisitTooMany \/ VisitStrayed \/ VisitRefused \/ StampLinked
         \/ FingerprintDiffers \/ OpenFails \/ OpenTooMany \/ FiltersRefused \/ NotStarted
         \/ GitTimesOut
  PROVE  IInv'
<1>1. PICK outcome \in {"noGit", "linked", "alternates", "strayed", "changed", "looseObjects",
                         "filters", "notStarted", "timeout"} :
        Quietly /\ End(outcome) /\ call.pc # "judge"
  BY DEF NoGit, ExamineRefused, InitialStoreRefused, VisitTooMany, VisitStrayed, VisitRefused, StampLinked, FingerprintDiffers,
         OpenFails, OpenTooMany, FiltersRefused, NotStarted, GitTimesOut, Examining, Walking,
         Fingerprinted, Fingerprinting, Opening
<1>2. outcome \in Outcomes /\ outcome \notin {"output", "outputLimit", "noWorkTree"}
  BY DEF Outcomes
<1> QED BY <1>1, <1>2, EndInvariant

\* A step that neither walks nor ends the call keeps what is stamped.
LEMMA StepFacts ==
  ASSUME IInv, Quietly, call' \in Calls, call'.ordered = call.ordered, call'.seen = call.seen
  PROVE  TypeOK' /\ Stamps' /\ Walks' /\ Stamped' = Stamped /\ ViewStores' = ViewStores
BY QuietFacts DEF IInv, TypeOK, Walks, Stamped, ViewStores

\* A part is stamped: the stamp is the one it has, if it is there.
LEMMA StampInvariant ==
  ASSUME IInv, Stamp
  PROVE  IInv'
<1> DEFINE n == Len(call.now) + 1
           new == Observed(NextStamped)
<1>1. /\ Quietly /\ call.pc \in {"before", "again", "after"}
      /\ Len(call.now) < Len(Stamped)
      /\ call' = [call EXCEPT !.now = Append(@, new)]
  BY DEF Stamp, Fingerprinting, Continue
<1>2. TypeOK
  BY DEF IInv
<1>3. Len(call.now) \in Nat /\ n \in 1..Len(Stamped)
  BY <1>1, <1>2, CallFacts, StampedFacts, LenProperties
<1>4. NextStamped = Stamped[n] /\ Stamped[n] \in Parts
  BY <1>2, <1>3, StampedFacts DEF NextStamped
<1>5. new \in Nat /\ new <= repo.stamp[Stamped[n]] /\ (new # 0 => new = repo.stamp[Stamped[n]])
  BY <1>2, <1>4, RepoFacts
<1>6. /\ Append(call.now, new) \in Seq(Nat) /\ Len(Append(call.now, new)) = n
      /\ Append(call.now, new)[n] = new
      /\ \A i \in 1..Len(call.now) : Append(call.now, new)[i] = call.now[i]
  BY <1>2, <1>5, CallFacts, AppendProperties
<1>7. /\ call' \in Calls /\ call'.now = Append(call.now, new)
      /\ call'.pc = call.pc /\ call'.before = call.before /\ call'.ordered = call.ordered
      /\ call'.seen = call.seen /\ call'.outcome = call.outcome /\ call'.pinned = call.pinned
  BY <1>1, <1>2, <1>6 DEF TypeOK, Calls
<1>8. TypeOK' /\ Stamps' /\ Walks' /\ Stamped' = Stamped /\ ViewStores' = ViewStores
  BY <1>1, <1>7, StepFacts
<1>9. repo' = repo /\ begun' = begun /\ read' = read
  BY <1>1, QuietFacts
<1>10. \A i \in 1..n : i \in 1..Len(call.now) \/ i = n
  BY <1>3
<1>11. Prints'
  <2>1. call'.pc \in Compared =>
          /\ Len(call'.before) = Len(Stamped')
          /\ \A i \in 1..Len(call'.before) : call'.before[i] <= repo'.stamp[Stamped'[i]]
    BY <1>7, <1>8, <1>9 DEF IInv, Prints
  <2>2. call'.pc = "before" =>
          /\ Len(call'.now) <= Len(Stamped')
          /\ \A i \in 1..Len(call'.now) : call'.now[i] <= repo'.stamp[Stamped'[i]]
    BY <1>3, <1>5, <1>6, <1>7, <1>8, <1>9, <1>10 DEF IInv, Prints
  <2>3. call'.pc \in Started =>
          \A i \in 1..Len(call'.before) : call'.before[i] <= begun'.stamp[Stamped'[i]]
    BY <1>7, <1>8, <1>9 DEF IInv, Prints
  <2>4. \A pair \in read' :
          call'.before[pair[1]] <= pair[2] /\ pair[2] <= repo'.stamp[Stamped'[pair[1]]]
    BY <1>7, <1>8, <1>9 DEF IInv, Prints
  <2>5. call'.pc \in {"after", "judge"} =>
          /\ \A i \in 1..Len(call'.now) :
               call'.now[i] # 0 => begun'.stamp[Stamped'[i]] <= call'.now[i]
          /\ \A pair \in read' :
               pair[1] \in 1..Len(call'.now) /\ call'.now[pair[1]] # 0
                 => pair[2] <= call'.now[pair[1]]
    <3>1. ASSUME call.pc = "after", NEW pair \in read, pair[1] \in 1..n,
                 Append(call.now, new)[pair[1]] # 0
          PROVE  pair[2] <= Append(call.now, new)[pair[1]]
      <4>1. CASE pair[1] = n
        BY <1>5, <1>6, <3>1, <4>1 DEF IInv, Prints
      <4>2. CASE pair[1] \in 1..Len(call.now)
        BY <1>6, <3>1, <4>2 DEF IInv, Prints
      <4> QED BY <1>10, <3>1, <4>1, <4>2
    <3>2. ASSUME call.pc = "after", NEW i \in 1..n, Append(call.now, new)[i] # 0
          PROVE  begun.stamp[Stamped[i]] <= Append(call.now, new)[i]
      <4>1. CASE i = n
        BY <1>4, <1>5, <1>6, <3>2, <4>1 DEF IInv, Stamps
      <4>2. CASE i \in 1..Len(call.now)
        BY <1>6, <3>2, <4>2 DEF IInv, Prints
      <4> QED BY <1>10, <4>1, <4>2
    <3> QED BY <1>1, <1>6, <1>7, <1>8, <1>9, <3>1, <3>2
  <2> QED BY <2>1, <2>2, <2>3, <2>4, <2>5 DEF Prints
<1>12. Places' /\ Pins'
  BY <1>1, <1>7, <1>8, <1>9 DEF IInv, Places, Pins, Checking, Started
<1>13. OneVersion'
  BY <1>1, <1>7 DEF OneVersion, IInv, Places
<1> QED BY <1>8, <1>11, <1>12, <1>13 DEF IInv

\* A fingerprint is complete, and is the first, or the same as it.
LEMMA FingerprintInvariant ==
  ASSUME IInv, FirstFingerprint \/ SecondFingerprint \/ LastFingerprint
  PROVE  IInv'
<1>1. /\ Quietly /\ TypeOK /\ <<>> \in Seq(Nat) /\ Len(<<>>) = 0
      /\ call.outcome = "none"
  BY EmptySeq DEF FirstFingerprint, SecondFingerprint, LastFingerprint, IInv, Places,
                  Fingerprinted, Fingerprinting
<1>2. repo' = repo /\ begun' = begun /\ read' = read
  BY <1>1, QuietFacts
<1>3. CASE FirstFingerprint
  <2>1. /\ call.pc = "before" /\ Len(call.now) = Len(Stamped) /\ call' \in Calls
        /\ call'.pc = "again" /\ call'.before = call.now /\ call'.now = <<>>
        /\ call'.ordered = call.ordered /\ call'.seen = call.seen
        /\ call'.outcome = call.outcome /\ call'.pinned = call.pinned
    BY <1>1, <1>3 DEF FirstFingerprint, Fingerprinted, Continue, TypeOK, Calls, PCs
  <2>2. TypeOK' /\ Stamps' /\ Walks' /\ Stamped' = Stamped /\ ViewStores' = ViewStores
    BY <1>1, <2>1, StepFacts
  <2>3. Prints'
    BY <1>1, <1>2, <2>1, <2>2 DEF IInv, Prints, Places, Compared, Started
  <2>4. Pins'
    BY <1>1, <1>2, <2>1, <2>2 DEF IInv, Pins, Places
  <2>5. Places' /\ OneVersion'
    BY <1>1, <1>2, <2>1 DEF IInv, Places, OneVersion, Checking, Started
  <2> QED BY <2>2, <2>3, <2>4, <2>5 DEF IInv
<1>4. CASE SecondFingerprint
  <2>1. /\ call.pc = "again" /\ call' \in Calls
        /\ call'.pc = "view" /\ call'.before = call.before /\ call'.now = <<>>
        /\ call'.ordered = call.ordered /\ call'.seen = call.seen
        /\ call'.outcome = call.outcome /\ call'.pinned = call.pinned
    BY <1>1, <1>4 DEF SecondFingerprint, Continue, TypeOK, Calls, PCs
  <2>2. TypeOK' /\ Stamps' /\ Walks' /\ Stamped' = Stamped /\ ViewStores' = ViewStores
    BY <1>1, <2>1, StepFacts
  <2>3. Prints'
    BY <1>1, <1>2, <2>1, <2>2 DEF IInv, Prints, Places, Compared, Started
  <2>4. Pins'
    BY <1>1, <1>2, <2>1, <2>2 DEF IInv, Pins, Places
  <2>5. Places' /\ OneVersion'
    BY <1>1, <1>2, <2>1 DEF IInv, Places, OneVersion, Checking, Started
  <2> QED BY <2>2, <2>3, <2>4, <2>5 DEF IInv
<1>5. CASE LastFingerprint
  <2>1. /\ call.pc = "after" /\ call' \in Calls /\ call.now = call.before
        /\ call'.pc = "judge" /\ call'.before = call.before /\ call'.now = call.now
        /\ call'.ordered = call.ordered /\ call'.seen = call.seen
        /\ call'.outcome = call.outcome /\ call'.pinned = call.pinned
    BY <1>1, <1>5 DEF LastFingerprint, Continue, TypeOK, Calls, PCs
  <2>2. TypeOK' /\ Stamps' /\ Walks' /\ Stamped' = Stamped /\ ViewStores' = ViewStores
    BY <1>1, <2>1, StepFacts
  <2>3. Prints'
    BY <1>1, <1>2, <2>1, <2>2 DEF IInv, Prints, Places, Compared, Started
  <2>4. Pins'
    BY <1>1, <1>2, <2>1, <2>2 DEF IInv, Pins, Places
  <2>5. Places' /\ OneVersion'
    BY <1>1, <1>2, <2>1 DEF IInv, Places, OneVersion, Checking, Started
  <2> QED BY <2>2, <2>3, <2>4, <2>5 DEF IInv
<1> QED BY <1>3, <1>4, <1>5

\* A store is opened: its first stamp is no newer than what is there.
LEMMA OpenInvariant ==
  ASSUME IInv, OpenStore
  PROVE  IInv'
<1> DEFINE n == Len(call.pinned) + 1
           new == repo.stamp[NextStore]
<1>1. /\ TypeOK /\ Quietly /\ call.pc = "view" /\ Len(call.pinned) < Len(ViewStores)
      /\ call' = [call EXCEPT !.pinned = Append(@, new), !.loose = @ + repo.loose[NextStore]]
  BY DEF OpenStore, Opening, Continue, IInv
<1>2. n \in 1..Len(ViewStores) /\ Len(call.pinned) \in Nat /\ Len(ViewStores) \in Nat
  <2>1. Len(call.pinned) \in Nat /\ Len(ViewStores) \in Nat
    BY <1>1, CallFacts, StampedFacts, LenProperties
  <2> QED BY <1>1, <2>1
<1>3. NextStore \in Stores /\ NextStore = Stamped[n] /\ n \in 1..Len(Stamped)
  BY <1>1, <1>2, StampedFacts DEF NextStore
<1>4. new \in Nat /\ call.loose + repo.loose[NextStore] \in Nat
  <2>1. NextStore \in Parts
    BY <1>3 DEF Parts
  <2>2. new \in Nat /\ repo.loose[NextStore] \in Nat
    BY <1>1, <1>3, <2>1, RepoFacts
  <2>3. call.loose \in Nat
    BY <1>1, CallFacts
  <2> QED BY <2>2, <2>3
<1>5. /\ Append(call.pinned, new) \in Seq(Nat) /\ Len(Append(call.pinned, new)) = n
      /\ Append(call.pinned, new)[n] = new
      /\ \A k \in 1..Len(call.pinned) : Append(call.pinned, new)[k] = call.pinned[k]
  BY <1>1, <1>4, CallFacts, AppendProperties
<1>6. /\ call' \in Calls /\ call'.pinned = Append(call.pinned, new) /\ call'.pc = "view"
      /\ call'.ordered = call.ordered /\ call'.seen = call.seen
      /\ call'.outcome = call.outcome /\ call'.before = call.before /\ call'.now = call.now
  BY <1>1, <1>4, <1>5 DEF TypeOK, Calls
<1>7. TypeOK' /\ Stamps' /\ Walks' /\ Stamped' = Stamped /\ ViewStores' = ViewStores
  BY <1>1, <1>6, StepFacts
<1>8. repo' = repo /\ begun' = begun /\ read' = read
  BY <1>1, QuietFacts
<1>9. Prints'
  BY <1>1, <1>6, <1>7, <1>8 DEF IInv, Prints, Compared, Started
<1>10. Pins'
  <2>1. call.before[n] <= new
    BY <1>1, <1>3 DEF IInv, Prints, Compared
  <2>2. new <= repo.stamp[Stamped[n]]
    BY <1>3, <1>4
  <2>3. \A k \in 1..n : k \in 1..Len(call.pinned) \/ k = n
    BY <1>2
  <2> QED BY <1>2, <1>5, <1>6, <1>7, <1>8, <2>1, <2>2, <2>3 DEF IInv, Pins
<1>11. Places' /\ OneVersion'
  BY <1>1, <1>6, <1>8 DEF IInv, Places, OneVersion, Checking, Started
<1> QED BY <1>7, <1>9, <1>10, <1>11 DEF IInv

\* The private view is built, or Git exits: nothing but the place changes.
LEMMA ViewInvariant ==
  ASSUME IInv, ViewBuilt \/ GitExits
  PROVE  IInv'
<1>1. TypeOK /\ Quietly
  BY DEF ViewBuilt, GitExits, IInv
<1>2. repo' = repo /\ begun' = begun /\ read' = read
  BY <1>1, QuietFacts
<1>3. /\ call' \in Calls
      /\ call'.ordered = call.ordered /\ call'.seen = call.seen /\ call'.outcome = call.outcome
      /\ call'.before = call.before /\ call'.now = call.now /\ call'.pinned = call.pinned
      /\ \/ call.pc = "view" /\ call'.pc = "filters"
         \/ call.pc = "git" /\ call'.pc = "after"
  <2>1. CASE ViewBuilt
    BY <1>1, <2>1 DEF ViewBuilt, Continue, TypeOK, Calls, PCs
  <2>2. CASE GitExits
    BY <1>1, <2>2 DEF GitExits, Continue, TypeOK, Calls, PCs, Outcomes
  <2> QED BY <2>1, <2>2
<1>4. TypeOK' /\ Stamps' /\ Walks' /\ Stamped' = Stamped /\ ViewStores' = ViewStores
  BY <1>1, <1>3, StepFacts
<1>5. call'.now = <<>> /\ Len(call'.now) = 0
  BY <1>3, EmptySeq DEF IInv, Places
<1>6. Prints' /\ Pins'
  BY <1>2, <1>3, <1>4, <1>5 DEF IInv, Prints, Pins, Compared, Started
<1>7. Places'
  BY <1>2, <1>3, <1>5 DEF IInv, Places, Checking, Started
<1>8. OneVersion'
  BY <1>3 DEF IInv, Places, OneVersion
<1> QED BY <1>4, <1>6, <1>7, <1>8 DEF IInv

\* Git is started: the first fingerprint is older than that.
LEMMA StartInvariant ==
  ASSUME IInv, StartGit
  PROVE  IInv'
<1>1. /\ TypeOK /\ call.pc = "filters" /\ begun' = repo /\ repo' = repo /\ read' = read
      /\ changes' = changes /\ first' = first /\ limit' = limit
      /\ call' = [call EXCEPT !.pc = "git"]
  BY DEF StartGit, Continue, world, past, IInv
<1>2. /\ call' \in Calls /\ call'.pc = "git" /\ call'.ordered = call.ordered
      /\ call'.seen = call.seen /\ call'.outcome = call.outcome
      /\ call'.before = call.before /\ call'.now = call.now /\ call'.pinned = call.pinned
  BY <1>1 DEF TypeOK, Calls, PCs
<1>3. read = {} /\ call.now = <<>>
  BY <1>1 DEF IInv, Places, Started
<1>4. TypeOK' /\ Walks' /\ Stamped' = Stamped /\ ViewStores' = ViewStores
  BY <1>1, <1>2 DEF IInv, TypeOK, Walks, Stamped, ViewStores
<1>5. Stamps'
  BY <1>1, RepoFacts DEF IInv, Stamps
<1>6. Prints' /\ Pins'
  BY <1>1, <1>2, <1>3, <1>4 DEF IInv, Prints, Pins, Compared, Started
<1>7. Places'
  BY <1>1, <1>2, <1>3 DEF IInv, Places, Checking, Started
<1>8. OneVersion'
  BY <1>1, <1>2 DEF IInv, Places, OneVersion
<1> QED BY <1>4, <1>5, <1>6, <1>7, <1>8 DEF IInv

\* Git reads a part: no older than its first stamp.
LEMMA ReadInvariant ==
  ASSUME IInv, GitReads
  PROVE  IInv'
<1>0. PICK i \in 1..Len(Stamped) :
        \E stamp \in Readable(i) : read' = read \cup {<<i, stamp>>}
  BY DEF GitReads
<1>1. PICK stamp \in Readable(i) : read' = read \cup {<<i, stamp>>}
  BY <1>0
<1>2. /\ TypeOK /\ call.pc = "git" /\ call' = call /\ begun' = begun /\ repo' = repo
      /\ changes' = changes /\ first' = first /\ limit' = limit
  BY DEF GitReads, world, past, IInv
<1>3. Stamped' = Stamped /\ ViewStores' = ViewStores
  BY <1>2 DEF Stamped, ViewStores
<1>4. stamp \in Nat /\ call.before[i] <= stamp /\ stamp <= repo.stamp[Stamped[i]]
  <2>1. Stamped[i] \in Parts
    BY <1>2, StampedFacts
  <2>2. repo.stamp[Stamped[i]] \in Nat
    BY <1>2, <2>1, RepoFacts
  <2>3. CASE stamp = repo.stamp[Stamped[i]]
    <3>1. call.before[i] <= repo.stamp[Stamped[i]]
      BY <1>2 DEF IInv, Prints, Compared
    <3> QED BY <2>2, <2>3, <3>1
  <2>4. CASE i \in 1..Len(call.pinned) /\ stamp = call.pinned[i]
    <3>1. call.pinned[i] \in Nat
      BY <1>2, <2>4, CallFacts, ElementOfSeq
    <3> QED BY <2>4, <3>1 DEF IInv, Pins
  <2> QED BY <1>1, <2>3, <2>4 DEF Readable
<1>5. TypeOK'
  BY <1>1, <1>2, <1>3, <1>4 DEF TypeOK
<1>6. Stamps' /\ Walks' /\ Pins' /\ Places' /\ OneVersion'
  BY <1>2, <1>3 DEF IInv, Stamps, Walks, Pins, Places, OneVersion, Checking, Started
<1>7. \A pair \in read' :
        call.before[pair[1]] <= pair[2] /\ pair[2] <= repo.stamp[Stamped[pair[1]]]
  BY <1>1, <1>4 DEF IInv, Prints
<1>8. Prints'
  BY <1>2, <1>3, <1>7 DEF IInv, Prints
<1> QED BY <1>5, <1>6, <1>8 DEF IInv

\* Git's output is judged with two equal fingerprints around its run: a part
\* the first one found was at the same stamp when Git was started, when Git
\* read it and when the third one was taken.
LEMMA JudgeInvariant ==
  ASSUME IInv, Judge
  PROVE  IInv'
<1>1. /\ TypeOK /\ Quietly /\ call.pc = "judge"
      /\ call' = [call EXCEPT !.pc = "over", !.outcome = call.exit]
  BY DEF Judge, End, IInv
<1>2. /\ call' \in Calls /\ call'.pc = "over" /\ call'.ordered = call.ordered
      /\ call'.seen = call.seen /\ call'.before = call.before /\ call'.pinned = call.pinned
  BY <1>1 DEF TypeOK, Calls, PCs
<1>3. TypeOK' /\ Stamps' /\ Walks' /\ Stamped' = Stamped /\ ViewStores' = ViewStores
  BY <1>1, <1>2, StepFacts
<1>4. repo' = repo /\ begun' = begun /\ read' = read
  BY <1>1, QuietFacts
<1>5. Prints' /\ Pins'
  BY <1>2, <1>3, <1>4 DEF IInv, Prints, Pins, Compared, Started
<1>6. Places'
  BY <1>2 DEF Places, Checking, Started
<1>7. ASSUME NEW pair \in read, call.before[pair[1]] # 0
      PROVE  pair[2] = call.before[pair[1]] /\ pair[2] = begun.stamp[Stamped[pair[1]]]
  <2> DEFINE i == pair[1]
  <2>1. /\ i \in 1..Len(Stamped) /\ pair[2] \in Nat
        /\ Len(call.before) = Len(Stamped) /\ call.now = call.before
    BY <1>1 DEF TypeOK, IInv, Prints, Places, Compared
  <2>2. /\ call.before[i] \in Nat /\ Stamped[i] \in Parts
        /\ begun.stamp[Stamped[i]] \in Nat /\ repo.stamp[Stamped[i]] \in Nat
    BY <1>1, <2>1, CallFacts, RepoFacts, StampedFacts, ElementOfSeq
  <2>3. call.before[i] <= pair[2] /\ pair[2] <= call.before[i]
    BY <1>1, <1>7, <2>1 DEF IInv, Prints
  <2>4. begun.stamp[Stamped[i]] = call.before[i]
    <3>1. call.before[i] <= begun.stamp[Stamped[i]]
      BY <1>1, <2>1 DEF IInv, Prints, Started
    <3>2. begun.stamp[Stamped[i]] <= call.before[i]
      BY <1>1, <1>7, <2>1 DEF IInv, Prints
    <3> QED BY <2>2, <3>1, <3>2
  <2> QED BY <2>1, <2>2, <2>3, <2>4
<1>8. OneVersion'
  BY <1>2, <1>3, <1>4, <1>7 DEF OneVersion
<1> QED BY <1>3, <1>5, <1>6, <1>8 DEF IInv

\* Someone else changes a part: its stamp grows, and stays the newest there is.
LEMMA OthersInvariant ==
  ASSUME IInv, Others
  PROVE  IInv'
<1>1. PICK p \in Parts, new \in Repositories :
        Changed(p, new) /\ new.stamp = repo.stamp
  <2>1. TypeOK /\ Stores \subseteq Parts
    BY DEF IInv, Parts
  <2>2. repo \in Repositories /\ repo.linked \subseteq Parts /\ repo.missing \subseteq Stores
    BY <2>1 DEF TypeOK, Repositories
  <2>3. ASSUME NEW p \in Parts, Rewrite(p)
        PROVE  \E new \in Repositories : Changed(p, new) /\ new.stamp = repo.stamp
    BY <2>2, <2>3 DEF Rewrite
  <2>4. ASSUME NEW p \in Parts, LinkOrUnlink(p)
        PROVE  \E new \in Repositories : Changed(p, new) /\ new.stamp = repo.stamp
    <3> DEFINE link == [repo EXCEPT !.linked = Toggled(@, p)]
               hold == [repo EXCEPT !.holding = Toggled(@, p)]
    <3>1. /\ link \in Repositories /\ link.stamp = repo.stamp
          /\ hold \in Repositories /\ hold.stamp = repo.stamp
      BY <2>2 DEF Repositories, Toggled
    <3>2. Changed(p, link) \/ Changed(p, hold)
      BY <2>4 DEF LinkOrUnlink
    <3> QED BY <3>1, <3>2
  <2>5. ASSUME NEW s \in Stores, AddObject(s)
        PROVE  \E new \in Repositories : Changed(s, new) /\ new.stamp = repo.stamp
    <3> DEFINE new == [repo EXCEPT !.loose[s] = @ + 1]
    <3>1. new \in Repositories /\ new.stamp = repo.stamp
      BY <2>2 DEF Repositories
    <3>2. Changed(s, new)
      BY <2>5 DEF AddObject
    <3> QED BY <3>1, <3>2
  <2>6. ASSUME NEW s \in Stores, Relist(s)
        PROVE  \E new \in Repositories : Changed(s, new) /\ new.stamp = repo.stamp
    <3>1. PICK list \in Lists : Changed(s, [repo EXCEPT !.lists[s] = list])
      BY <2>6 DEF Relist
    <3> DEFINE new == [repo EXCEPT !.lists[s] = list]
    <3>2. new \in Repositories /\ new.stamp = repo.stamp
      BY <2>2 DEF Repositories
    <3> QED BY <3>1, <3>2
  <2>7. ASSUME NEW s \in Stores, RemoveOrCreate(s)
        PROVE  \E new \in Repositories : Changed(s, new) /\ new.stamp = repo.stamp
    <3> DEFINE new == [repo EXCEPT !.missing = Toggled(@, s)]
    <3>1. new \in Repositories /\ new.stamp = repo.stamp
      BY <2>2 DEF Repositories, Toggled
    <3>2. Changed(s, new)
      BY <2>7 DEF RemoveOrCreate
    <3> QED BY <3>1, <3>2
  <2> QED BY <2>1, <2>3, <2>4, <2>5, <2>6, <2>7 DEF Others
<1>2. /\ TypeOK /\ call.pc # "over" /\ changes' = changes + 1
      /\ repo' = [new EXCEPT !.stamp[p] = changes + 2]
      /\ call' = call /\ read' = read /\ begun' = begun /\ first' = first /\ limit' = limit
  BY <1>1 DEF Changed, past, IInv
<1>3. changes \in Nat /\ changes + 1 \in Nat /\ changes + 2 \in Nat
  BY <1>2, RepoFacts
<1>4. /\ repo' \in Repositories
      /\ repo'.stamp = [repo.stamp EXCEPT ![p] = changes + 2]
      /\ repo.stamp \in [Parts -> Nat]
  BY <1>1, <1>2, <1>3 DEF Repositories
<1>5. \A q \in Parts : /\ repo'.stamp[q] \in Nat /\ repo.stamp[q] <= repo'.stamp[q]
                       /\ repo'.stamp[q] <= changes + 2
  <2>1. \A q \in Parts : repo.stamp[q] <= changes + 1 /\ repo.stamp[q] \in Nat
    BY <1>2, RepoFacts DEF IInv, Stamps
  <2> QED BY <1>3, <1>4, <2>1
<1>6. TypeOK'
  <2>1. Stamped' = Stamped
    BY <1>2 DEF Stamped, ViewStores
  <2> QED BY <1>2, <1>3, <1>4, <2>1 DEF TypeOK
<1>7. Stamps'
  <2>1. \A q \in Parts : begun.stamp[q] <= repo.stamp[q] /\ begun.stamp[q] \in Nat /\ repo.stamp[q] \in Nat
    BY <1>2, RepoFacts DEF IInv, Stamps
  <2> QED BY <1>2, <1>3, <1>5, <2>1 DEF Stamps
<1>8. Walks' /\ Places' /\ Stamped' = Stamped /\ ViewStores' = ViewStores /\ OneVersion'
  BY <1>2 DEF IInv, Walks, Places, Stamped, ViewStores, OneVersion, Checking, Started
<1>9. \A n \in Nat, q \in Parts : n <= repo.stamp[q] => n <= repo'.stamp[q]
  <2>1. \A q \in Parts : repo.stamp[q] \in Nat
    BY <1>2, RepoFacts
  <2> QED BY <1>5, <2>1
<1>10. Prints'
  <2>1. /\ \A i \in 1..Len(call.before) : call.before[i] \in Nat
        /\ \A i \in 1..Len(call.now) : call.now[i] \in Nat
        /\ \A pair \in read : Stamped[pair[1]] \in Parts /\ pair[2] \in Nat
    BY <1>2, CallFacts, StampedFacts, ElementOfSeq DEF TypeOK
  <2>2. call.pc \in Compared =>
          /\ Len(call.before) = Len(Stamped)
          /\ \A i \in 1..Len(call.before) : call.before[i] <= repo'.stamp[Stamped[i]]
    BY <1>2, <1>9, <2>1, StampedFacts DEF IInv, Prints
  <2>3. call.pc = "before" =>
          /\ Len(call.now) <= Len(Stamped)
          /\ \A i \in 1..Len(call.now) : call.now[i] <= repo'.stamp[Stamped[i]]
    <3>1. SUFFICES ASSUME call.pc = "before", NEW i \in 1..Len(call.now)
                   PROVE  call.now[i] <= repo'.stamp[Stamped[i]]
      BY DEF IInv, Prints
    <3>2. Len(call.now) <= Len(Stamped)
      BY <3>1 DEF IInv, Prints
    <3>3. Len(call.now) \in Nat /\ Len(Stamped) \in Nat
      BY <1>2, CallFacts, StampedFacts, LenProperties
    <3>4. i \in 1..Len(Stamped)
      BY <3>2, <3>3
    <3>5. Stamped[i] \in Parts
      BY <1>2, <3>4, StampedFacts
    <3>6. call.now[i] \in Nat /\ call.now[i] <= repo.stamp[Stamped[i]]
      BY <2>1, <3>1 DEF IInv, Prints
    <3> QED BY <1>9, <3>5, <3>6
  <2>4. \A pair \in read :
          call.before[pair[1]] <= pair[2] /\ pair[2] <= repo'.stamp[Stamped[pair[1]]]
    BY <1>9, <2>1 DEF IInv, Prints
  <2> QED BY <1>2, <1>8, <2>2, <2>3, <2>4 DEF IInv, Prints
<1>11. Pins'
  <2>1. Len(call.pinned) \in Nat /\ Len(call.pinned) <= Len(ViewStores)
    BY <1>2, CallFacts, LenProperties DEF IInv, Pins
  <2>2. \A k \in 1..Len(call.pinned) : call.pinned[k] \in Nat /\ Stamped[k] \in Parts
    <3>1. SUFFICES ASSUME NEW k \in 1..Len(call.pinned)
                   PROVE  call.pinned[k] \in Nat /\ Stamped[k] \in Parts
      OBVIOUS
    <3>2. call.pinned[k] \in Nat
      BY <1>2, CallFacts, ElementOfSeq
    <3>3. Len(ViewStores) \in Nat /\ Len(Stamped) = Len(ViewStores) + 1
      BY <1>2, StampedFacts
    <3>4. k \in 1..Len(Stamped)
      BY <2>1, <3>3
    <3> QED BY <1>2, <3>2, <3>4, StampedFacts
  <2> QED BY <1>2, <1>8, <1>9, <2>1, <2>2 DEF IInv, Pins
<1> QED BY <1>6, <1>7, <1>8, <1>10, <1>11 DEF IInv

\* The call begins with nothing stamped and nothing read.
LEMMA InitInvariant ==
  ASSUME Init
  PROVE  IInv
<1>1. PICK plan \in Plans : repo = plan.repo /\ limit = plan.changes
  BY DEF Init
<1>2. /\ repo \in Repositories /\ limit \in Nat /\ \A p \in Parts : repo.stamp[p] = 1
      /\ first = repo /\ begun = repo /\ changes = 0 /\ read = {}
  BY <1>1, PlansAssumption DEF Init
<1>3. /\ <<Main, Refs>> \in Seq(Parts) /\ <<>> \in Seq(Stores) /\ <<>> \in Seq(Borrowed)
      /\ <<>> \in Seq(Nat) /\ Len(<<>>) = 0
  BY EmptySeq DEF Parts, Stores
<1>4. call \in Calls
  BY <1>3 DEF Init, Calls, PCs, Outcomes
<1>5. /\ call.pc = "entries" /\ call.now = <<>> /\ call.outcome = "none"
      /\ call.ordered = <<>> /\ call.pinned = <<>>
  BY DEF Init
<1>6. TypeOK
  BY <1>2, <1>3, <1>4, <1>5 DEF TypeOK
<1>7. Stamps /\ Walks
  BY <1>2, <1>3, <1>5 DEF Stamps, Walks
<1>8. Prints /\ Places /\ OneVersion
  BY <1>2, <1>3, <1>5 DEF Prints, Places, OneVersion, Compared, Started, Checking
<1>9. Pins
  BY <1>3, <1>5, <1>6, StampedFacts DEF Pins
<1> QED BY <1>6, <1>7, <1>8, <1>9 DEF IInv

-----------------------------------------------------------------------------
(* The theorems *)

\* The strengthened invariant holds throughout every call.
THEOREM Inductive == Spec => []IInv
<1>1. Init => IInv
  BY InitInvariant
<1>2. IInv /\ [Next]_vars => IInv'
  <2>1. SUFFICES ASSUME IInv, [Next]_vars
                 PROVE  IInv'
    OBVIOUS
  <2>2. CASE Step
    BY <2>1, <2>2, ExamineInvariant, WalkInvariant, RefusalInvariant, StampInvariant,
       FingerprintInvariant, OpenInvariant, ViewInvariant, StartInvariant, ReadInvariant, JudgeInvariant
       DEF Step
  <2>3. CASE Others
    BY <2>1, <2>3, OthersInvariant
  <2>4. CASE UNCHANGED vars
    <3>1. /\ repo' = repo /\ changes' = changes /\ first' = first /\ limit' = limit
          /\ call' = call /\ read' = read /\ begun' = begun
      BY <2>4 DEF vars
    <3>2. Stamped' = Stamped /\ ViewStores' = ViewStores
      BY <3>1 DEF Stamped, ViewStores
    <3>3. TypeOK' /\ Stamps' /\ Walks'
      BY <2>1, <3>1, <3>2 DEF IInv, TypeOK, Stamps, Walks
    <3>4. Prints' /\ Pins'
      BY <2>1, <3>1, <3>2 DEF IInv, Prints, Pins
    <3>5. Places' /\ OneVersion'
      BY <2>1, <3>1, <3>2 DEF IInv, Places, OneVersion
    <3> QED BY <3>3, <3>4, <3>5 DEF IInv
  <2> QED BY <2>1, <2>2, <2>3, <2>4 DEF Next, Rest
<1> QED BY <1>1, <1>2, PTL DEF Spec

\* Every variable keeps its type, and no store is listed twice.
THEOREM TypeCorrect == Spec => []TypeOK
<1>1. IInv => TypeOK
  BY DEF IInv
<1> QED BY <1>1, Inductive, PTL

\* What Git printed is returned only if every part the first fingerprint found
\* was, each time Git read it, as it was then and as it was when Git started
\* (GitRunner._run_checked), however many others change the repository.
THEOREM OutputOfOneVersion == Spec => []OneVersion
<1>1. IInv => OneVersion
  BY DEF IInv
<1> QED BY <1>1, Inductive, PTL

-----------------------------------------------------------------------------
(* The walk, while nobody changes the repository *)

\* During the walk: what is still to visit leads to everything reachable, and
\* to nothing else.
Underway ==
  /\ Main \in call.seen \cup ToSet(call.pending)
  /\ call.seen \cup ToSet(call.pending) \subseteq Reachable
  /\ \A s \in call.seen : ToSet(Targets(s)) \cap Stores \subseteq call.seen \cup ToSet(call.pending)
  /\ ToSet(call.ordered) = call.seen \ {Main}

\* Nobody made a link of a store that a link leads to, nor of .git/objects.
Direct ==
  changes = 0 => /\ Straight(repo.linked)
                 /\ call.pc \notin {"entries", "over"} => Main \notin repo.linked

WalkInv ==
  /\ Direct
  /\ changes = 0 /\ call.pc = "entries" => call.seen = {} /\ call.ordered = <<>>
  /\ changes = 0 /\ call.pc = "walk" => Underway
  /\ WalkExact

\* What can be reached: the least set with .git/objects and what its members list.
LEMMA ReachableFacts ==
  ASSUME TypeOK
  PROVE  /\ Main \in Reachable /\ Reachable \subseteq Stores
         /\ \A s \in Reachable : ToSet(Targets(s)) \cap Stores \subseteq Reachable
         /\ \A set \in SUBSET Stores : Main \in set /\ Closed(set) => Reachable \subseteq set
<1>1. Main \in Stores
  BY DEF Stores
<1>2. ASSUME NEW s \in Reachable, NEW t \in ToSet(Targets(s)) \cap Stores
      PROVE  t \in Reachable
  <2>1. ASSUME NEW set \in SUBSET Stores, Main \in set, Closed(set)
        PROVE  t \in set
    <3>1. s \in set
      BY <1>2, <2>1 DEF Reachable
    <3> QED BY <1>2, <2>1, <3>1 DEF Closed
  <2> QED BY <1>2, <2>1 DEF Reachable
<1> QED BY <1>1, <1>2 DEF Reachable

\* A quiet step sees the same alternates.
LEMMA SameReachable ==
  ASSUME repo' = repo
  PROVE  Reachable' = Reachable /\ \A s : (Targets(s))' = Targets(s)
<1>1. \A s : (Targets(s))' = Targets(s)
  BY DEF Targets, Resolved
<1>2. \A set : (Closed(set))' = Closed(set)
  BY DEF Closed, Targets, Resolved
<1> QED BY <1>1, <1>2 DEF Reachable

\* What is listed was resolved: no store Git may come to is a link.
LEMMA ReachableUnlinked ==
  ASSUME TypeOK, Straight(repo.linked), Main \notin repo.linked
  PROVE  Reachable \cap repo.linked = {}
<1> DEFINE direct == Stores \ repo.linked
<1>1. direct \in SUBSET Stores /\ Main \in direct
  BY DEF Stores
<1>2. ASSUME NEW s \in direct, NEW t \in ToSet(Targets(s)) \cap Stores
      PROVE  t \in direct
  <2>1. s \notin repo.missing
    <3>1. SUFFICES ASSUME s \in repo.missing
                   PROVE  FALSE
      OBVIOUS
    <3>2. Targets(s) = <<>>
      BY <3>1 DEF Targets
    <3>3. ToSet(<<>>) = {}
      BY DEF ToSet
    <3> QED BY <1>2, <3>2, <3>3
  <2>2. /\ repo.lists[s] \in Seq(Stores \cup {Outside})
        /\ Len(repo.lists[s]) \in Nat
    BY <1>2, RepoFacts, PartsAssumption, LenProperties
  <2>3. PICK i \in 1..Len(repo.lists[s]) : t = Resolved(repo.lists[s][i])
    BY <1>2, <2>1, <2>2 DEF Targets, ToSet
  <2>4. repo.lists[s][i] \in Stores \cup {Outside}
    BY <2>2, <2>3, ElementOfSeq
  <2>5. CASE repo.lists[s][i] \in repo.linked
    BY <1>2, <2>3, <2>4, <2>5, ResolvedFacts DEF Straight
  <2>6. CASE repo.lists[s][i] \notin repo.linked
    BY <1>2, <2>3, <2>4, <2>6, ResolvedFacts
  <2> QED BY <2>5, <2>6
<1>3. Closed(direct)
  BY <1>2 DEF Closed
<1>4. Reachable \subseteq direct
  BY <1>1, <1>3, ReachableFacts
<1> QED BY <1>4

\* The next store has the name that was pending, and can be reached.
LEMMA NextVisitedFacts ==
  ASSUME IInv, Direct, Underway, changes = 0, Walking
  PROVE  /\ NextVisited = Last(call.pending) /\ NextVisited \in Reachable
         /\ NextVisited \in Stores /\ NextVisited # Outside
<1>1. TypeOK /\ call.pc = "walk" /\ call.pending # <<>>
  BY DEF IInv, Walking
<1>2. /\ Last(call.pending) \in Stores
      /\ ToSet(call.pending) = ToSet(Front(call.pending)) \cup {Last(call.pending)}
  BY <1>1, CallFacts, FrontLast
<1>3. Last(call.pending) \in Reachable
  BY <1>2 DEF Underway
<1>4. Last(call.pending) \notin repo.linked
  BY <1>1, <1>3, ReachableUnlinked DEF Direct
<1>5. NextVisited = Last(call.pending)
  BY <1>1, <1>2, <1>4, ResolvedFacts DEF NextVisited
<1>6. Outside \notin Stores
  BY PartsAssumption DEF Parts
<1> QED BY <1>2, <1>3, <1>5, <1>6

\* A visit replaces a store by what it lists.
LEMMA VisitUnderway ==
  ASSUME IInv, Direct, Underway, changes = 0, Visit
  PROVE  Underway'
<1> DEFINE s == NextVisited
<1>0. Walking
  BY DEF Visit
<1>1. /\ TypeOK /\ Quietly /\ call.pending # <<>> /\ s = Last(call.pending)
      /\ ~RefusedTargets(s)
      /\ call' = [call EXCEPT !.pending = Front(@) \o Targets(s), !.visits = @ + 1,
                              !.seen = @ \cup {s},
                              !.ordered = IF s = Main THEN @ ELSE Append(@, s)]
  BY <1>0, NextVisitedFacts DEF Visit, Walking, Continue, IInv
<1>2. /\ s \in Stores /\ Front(call.pending) \in Seq(Stores)
      /\ ToSet(call.pending) = ToSet(Front(call.pending)) \cup {s}
  BY <1>1, CallFacts, FrontLast
<1>3. Targets(s) \in Seq(Stores) /\ ToSet(Targets(s)) \subseteq Stores
  BY <1>1, <1>2, TargetFacts
<1>4. /\ call'.seen = call.seen \cup {s}
      /\ call'.pending = Front(call.pending) \o Targets(s)
      /\ call'.ordered = IF s = Main THEN call.ordered ELSE Append(call.ordered, s)
  BY <1>1 DEF TypeOK, Calls
<1>5. ToSet(call'.pending) = ToSet(Front(call.pending)) \cup ToSet(Targets(s))
  BY <1>2, <1>3, <1>4, ToSetConcat
<1>6. call'.seen \cup ToSet(call'.pending) =
        call.seen \cup ToSet(call.pending) \cup ToSet(Targets(s))
  BY <1>2, <1>4, <1>5
<1>7. Reachable' = Reachable /\ \A t : (Targets(t))' = Targets(t)
  BY <1>1, QuietFacts, SameReachable
<1>8. s \in Reachable
  BY <1>2 DEF Underway
<1>9. ToSet(Targets(s)) \subseteq Reachable
  BY <1>1, <1>3, <1>8, ReachableFacts
<1>10. call'.seen \cup ToSet(call'.pending) \subseteq Reachable'
  BY <1>6, <1>7, <1>9 DEF Underway
<1>11. \A t \in call'.seen :
         ToSet((Targets(t))') \cap Stores \subseteq call'.seen \cup ToSet(call'.pending)
  BY <1>4, <1>6, <1>7 DEF Underway
<1>12. ToSet(call'.ordered) = call'.seen \ {Main}
  <2>1. CASE s = Main
    BY <1>4, <2>1 DEF Underway
  <2>2. CASE s # Main
    <3>1. s \in Borrowed
      BY <1>2, <2>2 DEF Stores
    <3>2. ToSet(Append(call.ordered, s)) = ToSet(call.ordered) \cup {s}
      BY <1>1, <3>1, CallFacts, ToSetAppend
    <3> QED BY <1>4, <2>2, <3>2 DEF Underway
  <2> QED BY <2>1, <2>2
<1> QED BY <1>6, <1>10, <1>11, <1>12 DEF Underway

\* The walk ends with nothing left to visit: all that is reachable was seen.
LEMMA WalkedExact ==
  ASSUME TypeOK, Underway, call.pending = <<>>
  PROVE  ToSet(call.ordered) = Reachable \ {Main}
<1>1. ToSet(call.pending) = {}
  BY DEF ToSet
<1>2. call.seen \in SUBSET Stores /\ Main \in call.seen /\ Closed(call.seen)
  BY <1>1, CallFacts DEF Underway, Closed
<1>3. Reachable \subseteq call.seen
  BY <1>2, ReachableFacts
<1> QED BY <1>1, <1>3 DEF Underway

\* A step of the call that leaves the walk alone.
LEMMA AfterWalk ==
  ASSUME IInv, WalkInv, repo' = repo, changes' = changes,
         call.pc \notin {"entries", "walk", "over"},
         call'.pc \notin {"entries", "walk"}, call'.ordered = call.ordered
  PROVE  WalkInv'
<1>1. call.outcome = "none"
  BY DEF IInv, Places
<1>2. Reachable' = Reachable
  BY SameReachable
<1>3. Direct'
  BY DEF WalkInv, Direct, Straight
<1> QED BY <1>1, <1>2, <1>3 DEF WalkInv, WalkExact

\* The walk is exact after every step of the call.
LEMMA WalkStep ==
  ASSUME IInv, WalkInv, Step
  PROVE  WalkInv'
<1>1. /\ TypeOK /\ repo' = repo /\ changes' = changes
      /\ Reachable' = Reachable /\ \A s : (Targets(s))' = Targets(s)
  <2>1. repo' = repo /\ changes' = changes
    BY DEF Step, NoGit, NotStarted, ExamineRefused, Examine, InitialStoreRefused,
           ExaminedEntries, ExaminedStores, VisitTooMany, VisitStrayed, VisitSeen, VisitRefused, Visit, Walked, StampLinked, Stamp, FirstFingerprint,
           FingerprintDiffers, SecondFingerprint, LastFingerprint, OpenFails, OpenTooMany,
           OpenStore, ViewBuilt, FiltersRefused, StartGit, GitReads, GitExits, GitTimesOut,
           Judge, Quietly, world
  <2> QED BY <2>1, SameReachable DEF IInv
<1>0. /\ call'.pc = "over" => Direct'
      /\ call'.pc = "entries" => Direct'
      /\ call.pc \notin {"entries", "over"} => Direct'
      /\ Main \notin repo.linked => Direct'
  BY <1>1 DEF WalkInv, Direct, Straight
<1>2. CASE \/ NoGit \/ ExamineRefused \/ InitialStoreRefused
           \/ VisitTooMany \/ VisitRefused
  <2>1. call'.pc = "over" /\ call'.outcome \in {"noGit", "linked", "alternates"}
    BY <1>1, <1>2 DEF NoGit, ExamineRefused, InitialStoreRefused, VisitTooMany, VisitRefused,
                      End, TypeOK, Calls
  <2> QED BY <1>0, <2>1 DEF WalkInv, WalkExact
<1>11. CASE VisitStrayed
  <2>1. /\ Walking /\ call.pc = "walk" /\ NextVisited = Outside /\ call'.pc = "over"
    BY <1>1, <1>11 DEF VisitStrayed, Walking, End, TypeOK, Calls
  <2>2. changes # 0
    BY <2>1, NextVisitedFacts DEF WalkInv
  <2> QED BY <1>0, <1>1, <2>1, <2>2 DEF WalkInv, WalkExact
<1>3. CASE Examine
  <2>1. /\ call'.pc = call.pc /\ call'.seen = call.seen /\ call'.ordered = call.ordered
        /\ call'.outcome = call.outcome /\ call.pc \in {"entries", "stores"}
    BY <1>1, <1>3 DEF Examine, Examining, Continue, TypeOK, Calls
  <2> QED BY <1>0, <1>1, <2>1 DEF WalkInv, WalkExact
<1>4. CASE ExaminedEntries
  <2>1. /\ call.pc = "entries" /\ call'.pc = "walk" /\ call'.seen = call.seen
        /\ call'.ordered = call.ordered /\ call'.pending = <<Main>>
        /\ Main \notin repo.linked
    BY <1>1, <1>4 DEF ExaminedEntries, Continue, TypeOK, Calls
  <2>2. ToSet(<<Main>>) = {Main} /\ ToSet(<<>>) = {}
    BY DEF ToSet
  <2>3. changes = 0 => Underway'
    BY <1>1, <2>1, <2>2, ReachableFacts DEF WalkInv, Underway
  <2> QED BY <1>0, <1>1, <2>1, <2>3 DEF WalkInv, WalkExact
<1>5. CASE VisitSeen
  <2>1. /\ Walking /\ call.pc = "walk" /\ call.pending # <<>> /\ NextVisited \in call.seen
        /\ call' = [call EXCEPT !.pending = Front(@), !.visits = @ + 1]
    BY <1>5 DEF VisitSeen, Walking, Continue
  <2>2. /\ call'.pc = "walk" /\ call'.seen = call.seen /\ call'.ordered = call.ordered
        /\ call'.pending = Front(call.pending)
    BY <1>1, <2>1 DEF TypeOK, Calls
  <2>3. ToSet(call.pending) = ToSet(Front(call.pending)) \cup {Last(call.pending)}
    BY <1>1, <2>1, CallFacts, FrontLast
  <2>4. ASSUME changes = 0
        PROVE  call'.seen \cup ToSet(call'.pending) = call.seen \cup ToSet(call.pending)
    <3>1. NextVisited = Last(call.pending)
      BY <2>1, <2>4, NextVisitedFacts DEF WalkInv
    <3> QED BY <2>1, <2>2, <2>3, <3>1
  <2>5. changes = 0 => Underway'
    BY <1>1, <2>1, <2>2, <2>4 DEF WalkInv, Underway
  <2> QED BY <1>0, <1>1, <2>1, <2>2, <2>5 DEF WalkInv, WalkExact
<1>6. CASE Visit
  <2>1. call.pc = "walk" /\ call'.pc = "walk"
    BY <1>1, <1>6 DEF Visit, Walking, Continue, TypeOK, Calls
  <2>2. changes = 0 => Underway'
    BY <1>6, <2>1, VisitUnderway DEF WalkInv
  <2> QED BY <1>0, <1>1, <2>1, <2>2 DEF WalkInv, WalkExact
<1>7. CASE Walked
  <2>1. /\ call.pc = "walk" /\ call.pending = <<>> /\ call'.pc = "stores"
        /\ call'.ordered = call.ordered
    BY <1>1, <1>7 DEF Walked, Continue, TypeOK, Calls
  <2>2. changes = 0 => ToSet(call.ordered) = Reachable \ {Main}
    BY <1>1, <2>1, WalkedExact DEF WalkInv
  <2> QED BY <1>0, <1>1, <2>1, <2>2 DEF WalkInv, WalkExact
<1>8. CASE \/ StampLinked \/ FingerprintDiffers \/ OpenFails \/ OpenTooMany
           \/ FiltersRefused \/ NotStarted \/ GitTimesOut \/ Judge
  <2>1. /\ call.pc \notin {"entries", "walk", "over"}
        /\ \E outcome : call' = [call EXCEPT !.pc = "over", !.outcome = outcome]
    BY <1>8 DEF StampLinked, FingerprintDiffers, OpenFails, OpenTooMany, FiltersRefused,
                NotStarted, GitTimesOut, Judge, End, Fingerprinted, Fingerprinting, Opening
  <2>2. call'.pc = "over" /\ call'.ordered = call.ordered
    BY <1>1, <2>1 DEF TypeOK, Calls
  <2> QED BY <1>1, <2>1, <2>2, AfterWalk
<1>9. CASE ExaminedStores \/ Stamp \/ FirstFingerprint \/ SecondFingerprint \/ LastFingerprint
  <2>1. /\ call.pc \notin {"entries", "walk", "over"} /\ call'.pc \notin {"entries", "walk"}
        /\ call'.ordered = call.ordered
    BY <1>1, <1>9 DEF ExaminedStores, Stamp, FirstFingerprint, SecondFingerprint,
                      LastFingerprint, Continue, Fingerprinted, Fingerprinting, TypeOK, Calls
  <2> QED BY <1>1, <2>1, AfterWalk
<1>10. CASE \/ OpenStore \/ ViewBuilt \/ StartGit \/ GitReads
            \/ GitExits
  <2>1. /\ call.pc \notin {"entries", "walk", "over"} /\ call'.pc \notin {"entries", "walk"}
        /\ call'.ordered = call.ordered
    BY <1>1, <1>10 DEF OpenStore, ViewBuilt, StartGit, GitReads, GitExits, Continue, Opening,
                       TypeOK, Calls
  <2> QED BY <1>1, <2>1, AfterWalk
<1> QED BY <1>2, <1>3, <1>4, <1>5, <1>6, <1>7, <1>8, <1>9, <1>10, <1>11 DEF Step

\* The walk is underway or exact, always.
LEMMA WalkKnown == Spec => []WalkInv
<1>1. Init => WalkInv
  <2>1. SUFFICES ASSUME Init
                 PROVE  WalkInv
    OBVIOUS
  <2>2. Straight(repo.linked)
    BY <2>1, PlansAssumption DEF Init
  <2>3. /\ call.pc = "entries" /\ call.seen = {} /\ call.ordered = <<>>
    BY <2>1 DEF Init
  <2> QED BY <2>2, <2>3 DEF WalkInv, WalkExact, Direct
<1>2. IInv /\ WalkInv /\ [Next]_vars => WalkInv'
  <2>1. SUFFICES ASSUME IInv, WalkInv, [Next]_vars
                 PROVE  WalkInv'
    OBVIOUS
  <2>2. CASE Others
    <3>1. PICK p, new : Changed(p, new)
      BY <2>2 DEF Others, Rewrite, LinkOrUnlink, AddObject, Relist, RemoveOrCreate
    <3>2. changes' = changes + 1 /\ changes \in Nat
      BY <2>1, <3>1, RepoFacts DEF Changed, IInv
    <3>3. changes' # 0
      BY <3>2
    <3> QED BY <3>3 DEF WalkInv, WalkExact, Direct
  <2>3. CASE UNCHANGED vars
    <3>1. repo' = repo /\ changes' = changes /\ call' = call
      BY <2>3 DEF vars
    <3>2. Reachable' = Reachable /\ \A s : (Targets(s))' = Targets(s)
      BY <3>1, SameReachable
    <3> QED BY <2>1, <3>1, <3>2 DEF WalkInv, WalkExact, Underway, Direct, Straight
  <2> QED BY <2>1, <2>2, <2>3, WalkStep DEF Next, Rest
<1> QED BY <1>1, <1>2, Inductive, PTL DEF Spec

\* While nobody touches the repository, the walk of the alternates ends with
\* every store that can be reached and no other (_walk_alternate_stores),
\* whatever cycles and repetitions the alternates hold.
THEOREM WalkIsExact == Spec => []WalkExact
<1>1. WalkInv => WalkExact
  BY DEF WalkInv
<1> QED BY <1>1, WalkKnown, PTL

-----------------------------------------------------------------------------
(* The verdict, while nobody changes the repository *)

\* The first element of a sequence, and what is left without it.
LEMMA HeadTail ==
  ASSUME NEW S, NEW s \in Seq(S), s # <<>>
  PROVE  Head(s) \in S /\ Tail(s) \in Seq(S) /\ ToSet(s) = {Head(s)} \cup ToSet(Tail(s))
<1>1. /\ Head(s) \in S /\ Tail(s) \in Seq(S) /\ Len(s) \in Nat \ {0} /\ Head(s) = s[1]
      /\ Len(Tail(s)) = Len(s) - 1 /\ \A i \in 1..Len(Tail(s)) : Tail(s)[i] = s[i + 1]
      /\ DOMAIN s = 1..Len(s) /\ DOMAIN Tail(s) = 1..Len(Tail(s))
  BY HeadTailProperties, EmptySeq, LenProperties
<1>2. ASSUME NEW i \in 1..Len(s), i # 1 PROVE s[i] \in ToSet(Tail(s))
  <2>1. i - 1 \in 1..Len(Tail(s)) /\ (i - 1) + 1 = i
    BY <1>1, <1>2
  <2>2. Tail(s)[i - 1] = s[i]
    BY <1>1, <2>1
  <2> QED BY <1>1, <2>1, <2>2 DEF ToSet
<1>3. ToSet(s) \subseteq {Head(s)} \cup ToSet(Tail(s))
  BY <1>1, <1>2 DEF ToSet
<1>4. \A i \in 1..Len(Tail(s)) : Tail(s)[i] \in ToSet(s)
  <2>1. \A i \in 1..Len(Tail(s)) : i + 1 \in 1..Len(s)
    BY <1>1
  <2> QED BY <1>1, <2>1 DEF ToSet
<1>5. Head(s) \in ToSet(s)
  BY <1>1 DEF ToSet
<1>6. ToSet(Tail(s)) \subseteq ToSet(s)
  BY <1>1, <1>4 DEF ToSet
<1> QED BY <1>1, <1>3, <1>5, <1>6

GitAnswers == {"output", "outputLimit", "noWorkTree"}
Lengths == [s \in Stores |-> Len(Targets(s))]
Refusing == {s \in Stores : RefusedTargets(s)}
Current == [p \in Parts |-> Observed(p)]
Opened == {ViewStores[i] : i \in 1..Len(call.pinned)}

\* What was examined holds no link.
ExaminedSoFar ==
  /\ call.pc = "entries" =>
       /\ ToSet(call.todo) \subseteq {Main, Refs}
       /\ Links \cap ({Main, Refs} \ ToSet(call.todo)) = {}
       /\ call.visits = 0
  /\ call.pc \notin {"entries", "over"} => Links \cap {Main, Refs} = {}
  /\ call.pc = "stores" =>
       /\ ToSet(call.todo) \subseteq Reachable
       /\ Links \cap (ToSet(call.ordered) \ ToSet(call.todo)) = {}
  /\ call.pc \notin {"entries", "walk", "stores", "over"} => Links \cap Reachable = {}

\* Each visit took one store off those pending and put what it lists there.
WithinWalk ==
  /\ Refusing \cap Reachable = {} /\ Cardinality(Reachable) <= MaxStores
  /\ Listed + 1 <= MaxVisits
WalkedSoFar ==
  /\ call.pc = "walk" =>
       /\ call.visits + Len(call.pending) = SumOver(Lengths, call.seen) + 1
       /\ call.visits <= MaxVisits
       /\ Refusing \cap call.seen = {} /\ Cardinality(call.seen) <= MaxStores
  /\ call.pc \notin {"entries", "walk", "over"} => WithinWalk

\* Every stamp is the one the part has.
PrintedSoFar ==
  /\ call.pc \in {"before", "again", "after"} =>
       \A i \in 1..Len(call.now) : call.now[i] = Current[Stamped[i]]
  /\ call.pc \in Compared =>
       \A i \in 1..Len(call.before) : call.before[i] = Current[Stamped[i]]

\* The loose objects of the stores that are open are counted.
OpenedSoFar ==
  /\ call.pc # "over" =>
       /\ Opened \cap repo.missing = {}
       /\ call.loose = SumOver(repo.loose, Opened) /\ call.loose <= MaxLoose
  /\ call.pc \in {"filters", "git", "after", "judge"} =>
       repo.missing \cap Reachable = {} /\ LooseObjects <= MaxLoose
  /\ call.pc \in {"after", "judge"} => call.exit \in GitAnswers

\* What each outcome says of the repository.
Reason(outcome) ==
  CASE outcome = "noGit" -> TRUE
    [] outcome = "linked" -> Links \cap ({Refs} \cup Reachable) # {}
    [] outcome = "alternates" -> ~WithinWalk
    [] outcome = "strayed" -> FALSE
    [] outcome = "looseObjects" -> LooseObjects > MaxLoose
    [] outcome = "changed" -> repo.missing \cap Reachable # {}
    [] OTHER -> /\ Links \cap ({Refs} \cup Reachable) = {} /\ WithinWalk
                /\ repo.missing \cap Reachable = {} /\ LooseObjects <= MaxLoose
Judged == call.pc = "over" => Reason(call.outcome)

QuietInv ==
  changes = 0 => ExaminedSoFar /\ WalkedSoFar /\ PrintedSoFar /\ OpenedSoFar /\ Judged

\* The limits count over the stores that can be reached.
LEMMA ListedIs == Listed = SumOver(Lengths, Reachable)
BY DEF Listed, SumOver, Lengths

LEMMA LooseIs == LooseObjects = SumOver(repo.loose, Reachable)
BY DEF LooseObjects, SumOver

\* Finitely many stores, with numbers to add up.
LEMMA SumsOfStores ==
  ASSUME TypeOK
  PROVE  /\ IsFiniteSet(Stores) /\ \A S \in SUBSET Stores : IsFiniteSet(S)
         /\ \A s \in Stores : Lengths[s] \in Nat /\ Lengths[s] = Len(Targets(s))
         /\ \A s \in Stores : repo.loose[s] \in Nat
         /\ Listed = SumOver(Lengths, Reachable) /\ LooseObjects = SumOver(repo.loose, Reachable)
         /\ \A S \in SUBSET Reachable :
              /\ SumOver(Lengths, S) \in Nat /\ SumOver(Lengths, S) <= Listed
              /\ SumOver(repo.loose, S) \in Nat /\ SumOver(repo.loose, S) <= LooseObjects
         /\ Listed \in Nat /\ LooseObjects \in Nat
<1>1. IsFiniteSet(Stores)
  BY PartsAssumption, FS_AddElement DEF Stores
<1>2. \A S \in SUBSET Stores : IsFiniteSet(S)
  BY <1>1, FS_Subset
<1>3. ASSUME NEW s \in Stores PROVE Lengths[s] \in Nat /\ Lengths[s] = Len(Targets(s))
  <2>1. Targets(s) \in Seq(Stores \cup {Outside})
    BY TargetFacts
  <2> QED BY <2>1, LenProperties DEF Lengths
<1>4. \A s \in Stores : repo.loose[s] \in Nat
  BY RepoFacts
<1>5. Listed = SumOver(Lengths, Reachable) /\ LooseObjects = SumOver(repo.loose, Reachable)
  BY ListedIs, LooseIs
<1>6. Reachable \in SUBSET Stores /\ IsFiniteSet(Reachable)
  BY <1>2, ReachableFacts
<1>7. ASSUME NEW S \in SUBSET Reachable
      PROVE  /\ SumOver(Lengths, S) \in Nat /\ SumOver(Lengths, S) <= SumOver(Lengths, Reachable)
             /\ SumOver(Lengths, Reachable) \in Nat
             /\ SumOver(repo.loose, S) \in Nat
             /\ SumOver(repo.loose, S) <= SumOver(repo.loose, Reachable)
             /\ SumOver(repo.loose, Reachable) \in Nat
  <2>1. \A s \in Reachable : Lengths[s] \in Nat
    BY <1>3, <1>6
  <2>2. \A s \in Reachable : repo.loose[s] \in Nat
    BY <1>4, <1>6
  <2>3. /\ SumOver(Lengths, S) \in Nat /\ SumOver(Lengths, S) <= SumOver(Lengths, Reachable)
        /\ SumOver(Lengths, Reachable) \in Nat
    BY <1>6, <2>1, SumWithin
  <2>4. /\ SumOver(repo.loose, S) \in Nat
        /\ SumOver(repo.loose, S) <= SumOver(repo.loose, Reachable)
        /\ SumOver(repo.loose, Reachable) \in Nat
    BY <1>6, <2>2, SumWithin
  <2> QED BY <2>3, <2>4
<1>8. Listed \in Nat /\ LooseObjects \in Nat
  BY <1>5, <1>7
<1> QED BY <1>1, <1>2, <1>3, <1>4, <1>5, <1>7, <1>8

\* A repository that stays the same gives the same verdict.
LEMMA SameVerdict ==
  ASSUME repo' = repo
  PROVE  /\ Links' = Links /\ Reachable' = Reachable /\ Lengths' = Lengths
         /\ Refusing' = Refusing /\ Current' = Current
         /\ Listed' = Listed /\ LooseObjects' = LooseObjects /\ WithinWalk' = WithinWalk
         /\ \A outcome : Reason(outcome)' = Reason(outcome)
<1>1. Links' = Links
  BY DEF Links, Holding
<1>2. Reachable' = Reachable /\ \A s : (Targets(s))' = Targets(s)
  BY SameReachable
<1>3. Lengths' = Lengths /\ Refusing' = Refusing /\ Current' = Current
  BY DEF Lengths, Refusing, RefusedTargets, Targets, Resolved, Current, Observed
<1>4. Listed' = Listed /\ LooseObjects' = LooseObjects
  <2>1. (Listed = SumOver(Lengths, Reachable))'
    BY ListedIs, PTL
  <2>2. (LooseObjects = SumOver(repo.loose, Reachable))'
    BY LooseIs, PTL
  <2> QED BY <1>2, <1>3, <2>1, <2>2, ListedIs, LooseIs
<1>5. WithinWalk' = WithinWalk
  BY <1>2, <1>3, <1>4 DEF WithinWalk
<1>6. \A outcome : Reason(outcome)' = Reason(outcome)
  BY <1>1, <1>2, <1>4, <1>5 DEF Reason
<1> QED BY <1>1, <1>2, <1>3, <1>4, <1>5, <1>6

\* The stores of the view are those that can be reached, each of them once.
LEMMA ViewFacts ==
  ASSUME IInv
  PROVE  /\ ToSet(ViewStores) = {Main} \cup ToSet(call.ordered)
         /\ \A i, j \in 1..Len(ViewStores) : ViewStores[i] = ViewStores[j] => i = j
         /\ ToSet(Stamped) = ToSet(ViewStores) \cup {Refs}
<1>1. /\ TypeOK /\ call.ordered \in Seq(Stores) /\ call.ordered \in Seq(Borrowed)
      /\ <<Main>> \in Seq(Stores) /\ <<Refs>> \in Seq(Parts)
  BY CallFacts, SeqMonotonic DEF IInv, Stores, Parts
<1>2. Len(<<Main>>) = 1 /\ <<Main>>[1] = Main /\ ToSet(<<Main>>) = {Main} /\ ToSet(<<Refs>>) = {Refs}
  BY DEF ToSet
<1>3. ToSet(ViewStores) = {Main} \cup ToSet(call.ordered)
  <2>1. ToSet(<<Main>> \o call.ordered) = ToSet(<<Main>>) \cup ToSet(call.ordered)
    <3> DEFINE main == <<Main>>
               rest == call.ordered
    <3>1. main \in Seq(Stores) /\ rest \in Seq(Stores)
      BY <1>1
    <3> HIDE DEF main, rest
    <3>2. ToSet(main \o rest) = ToSet(main) \cup ToSet(rest)
      BY <3>1, ToSetConcat
    <3> QED BY <3>2 DEF main, rest
  <2> QED BY <1>2, <2>1 DEF ViewStores
<1>4. ToSet(Stamped) = ToSet(ViewStores) \cup {Refs}
  <2>1. ViewStores \in Seq(Parts)
    BY <1>1, StampedFacts, SeqMonotonic DEF Parts
  <2>2. ToSet(ViewStores \o <<Refs>>) = ToSet(ViewStores) \cup ToSet(<<Refs>>)
    <3> DEFINE refs == <<Refs>>
    <3>1. refs \in Seq(Parts)
      BY <1>1
    <3> HIDE DEF refs
    <3>2. ToSet(ViewStores \o refs) = ToSet(ViewStores) \cup ToSet(refs)
      BY <2>1, <3>1, ToSetConcat
    <3> QED BY <3>2 DEF refs
  <2> QED BY <1>2, <2>2 DEF Stamped
<1>5. /\ Len(ViewStores) = Len(call.ordered) + 1 /\ Len(call.ordered) \in Nat
      /\ \A i \in 1..Len(ViewStores) :
           ViewStores[i] = IF i <= 1 THEN Main ELSE call.ordered[i - 1]
  <2>1. /\ Len(<<Main>> \o call.ordered) = Len(<<Main>>) + Len(call.ordered)
        /\ \A i \in 1..(Len(<<Main>>) + Len(call.ordered)) :
             (<<Main>> \o call.ordered)[i] =
                IF i <= Len(<<Main>>) THEN <<Main>>[i] ELSE call.ordered[i - Len(<<Main>>)]
    BY <1>1, ConcatProperties
  <2>2. Len(call.ordered) \in Nat
    BY <1>1, LenProperties
  <2>3. \A i \in 1..(1 + Len(call.ordered)) : i <= 1 => i = 1
    OBVIOUS
  <2> QED BY <1>2, <2>1, <2>2, <2>3 DEF ViewStores
<1>6. ASSUME NEW i \in 1..Len(ViewStores), NEW j \in 1..Len(ViewStores),
             ViewStores[i] = ViewStores[j]
      PROVE  i = j
  <2>1. \A k \in 1..Len(ViewStores) : k <= 1 <=> k = 1
    BY <1>5
  <2>2. \A k \in 1..Len(ViewStores) :
           k # 1 => k - 1 \in 1..Len(call.ordered) /\ ViewStores[k] = call.ordered[k - 1]
    BY <1>5
  <2>3. \A k \in 1..Len(call.ordered) : call.ordered[k] # Main
    BY <1>1, ElementOfSeq, PartsAssumption
  <2>4. CASE i = 1 /\ j # 1
    BY <1>5, <1>6, <2>1, <2>2, <2>3, <2>4
  <2>5. CASE i # 1 /\ j = 1
    BY <1>5, <1>6, <2>1, <2>2, <2>3, <2>5
  <2>6. CASE i # 1 /\ j # 1
    <3>1. i - 1 = j - 1
      BY <1>1, <1>6, <2>2, <2>6 DEF TypeOK
    <3> QED BY <1>5, <3>1
  <2> QED BY <2>4, <2>5, <2>6
<1> QED BY <1>3, <1>4, <1>6

Later == {"before", "again", "view", "filters", "git", "after", "judge"}

\* A step that ends the call tells the reason.
LEMMA QuietEnds ==
  ASSUME IInv, Quietly, NEW outcome, End(outcome), changes = 0 => Reason(outcome)
  PROVE  QuietInv'
<1>1. repo' = repo /\ changes' = changes
  BY QuietFacts
<1>2. call'.pc = "over" /\ call'.outcome = outcome
  BY DEF End, IInv, TypeOK, Calls
<1>3. ExaminedSoFar' /\ WalkedSoFar' /\ PrintedSoFar' /\ OpenedSoFar'
  BY <1>2 DEF ExaminedSoFar, WalkedSoFar, PrintedSoFar, OpenedSoFar, Compared
<1>4. changes = 0 => Judged'
  <2>1. /\ Links' = Links /\ Reachable' = Reachable /\ LooseObjects' = LooseObjects
        /\ WithinWalk' = WithinWalk /\ repo'.missing = repo.missing
    BY <1>1, SameVerdict
  <2> QED BY <1>1, <1>2, <2>1 DEF Judged, Reason
<1> QED BY <1>1, <1>3, <1>4 DEF QuietInv

\* After the walk, the call knows the stores that can be reached, and no link
\* is among them.
LEMMA WalkDone ==
  ASSUME IInv, WalkInv, QuietInv, changes = 0, call.pc \in Later
  PROVE  /\ TypeOK /\ ExaminedSoFar /\ WalkedSoFar /\ PrintedSoFar /\ OpenedSoFar
         /\ Links \cap ({Refs} \cup Reachable) = {} /\ WithinWalk
         /\ ToSet(ViewStores) = Reachable /\ ToSet(Stamped) = Reachable \cup {Refs}
<1>1. /\ TypeOK /\ call.outcome = "none" /\ call.pc \notin {"entries", "walk", "stores", "over"}
  BY DEF IInv, Places, Later
<1>2. ToSet(call.ordered) = Reachable \ {Main}
  BY <1>1 DEF WalkInv, WalkExact
<1>3. Main \in Reachable
  BY <1>1, ReachableFacts
<1>4. ToSet(ViewStores) = Reachable /\ ToSet(Stamped) = Reachable \cup {Refs}
  BY <1>2, <1>3, ViewFacts
<1>5. ExaminedSoFar /\ WalkedSoFar /\ PrintedSoFar /\ OpenedSoFar
  BY DEF QuietInv
<1>6. Links \cap Reachable = {} /\ Links \cap {Main, Refs} = {}
  BY <1>1, <1>5 DEF ExaminedSoFar
<1>7. WithinWalk
  BY <1>1, <1>5 DEF WalkedSoFar
<1> QED BY <1>1, <1>4, <1>5, <1>6, <1>7

\* A step that goes on after the walk: links and limits are as they were found.
LEMMA LaterStays ==
  ASSUME IInv, WalkInv, QuietInv, changes = 0, call.pc \in Later,
         repo' = repo, changes' = changes, call'.pc \in Later, call'.ordered = call.ordered,
         PrintedSoFar', OpenedSoFar'
  PROVE  QuietInv'
<1>1. /\ Links' = Links /\ Reachable' = Reachable /\ WithinWalk' = WithinWalk
  BY SameVerdict
<1>2. Links \cap ({Refs} \cup Reachable) = {} /\ WithinWalk /\ Main \in Reachable
  BY WalkDone, ReachableFacts
<1>3. ExaminedSoFar'
  BY <1>1, <1>2 DEF ExaminedSoFar, Later
<1>4. WalkedSoFar'
  BY <1>1, <1>2 DEF WalkedSoFar, Later
<1>5. Judged'
  BY DEF Judged, Later
<1> QED BY <1>3, <1>4, <1>5 DEF QuietInv

\* What was opened and what was stamped, after a step that leaves them alone.
LEMMA OpenedStays ==
  ASSUME QuietInv, changes = 0, repo' = repo, call.pc # "over",
         call'.ordered = call.ordered, call'.pinned = call.pinned, call'.loose = call.loose,
         call'.pc \in {"filters", "git", "after", "judge"}
           => call.pc \in {"filters", "git", "after", "judge"},
         call'.pc \in {"after", "judge"} => call'.exit \in GitAnswers
  PROVE  OpenedSoFar'
<1>1. Opened' = Opened
  BY DEF Opened, ViewStores
<1>2. Reachable' = Reachable /\ LooseObjects' = LooseObjects
  BY SameVerdict
<1>3. OpenedSoFar
  BY DEF QuietInv
<1>4. /\ Opened \cap repo.missing = {}
      /\ call.loose = SumOver(repo.loose, Opened) /\ call.loose <= MaxLoose
  BY <1>3 DEF OpenedSoFar
<1>5. SumOver(repo.loose, Opened)' = SumOver(repo.loose, Opened)
  BY <1>1
<1>6. call'.pc \in {"filters", "git", "after", "judge"} =>
        repo.missing \cap Reachable = {} /\ LooseObjects <= MaxLoose
  BY <1>3 DEF OpenedSoFar
<1> QED BY <1>1, <1>2, <1>4, <1>5, <1>6 DEF OpenedSoFar

-----------------------------------------------------------------------------
(* The check, while nobody changes the repository *)

\* One part is examined: a link among those examined ends the call.
LEMMA QuietExamine ==
  ASSUME IInv, WalkInv, QuietInv, changes = 0,
         Examine \/ ExamineRefused
  PROVE  QuietInv'
<1>1. /\ TypeOK /\ Quietly /\ call.pc \in {"entries", "stores"} /\ call.todo # <<>>
  BY DEF Examine, ExamineRefused, Examining, IInv
<1>2. /\ Head(call.todo) \in Parts /\ Tail(call.todo) \in Seq(Parts)
      /\ ToSet(call.todo) = {Head(call.todo)} \cup ToSet(Tail(call.todo))
  BY <1>1, CallFacts, HeadTail
<1>3. ExaminedSoFar /\ WalkedSoFar /\ OpenedSoFar
  BY DEF QuietInv
<1>6. call.pc = "stores" =>
        Head(call.todo) \in Reachable /\ Resolved(Head(call.todo)) = Head(call.todo)
  <2>1. SUFFICES ASSUME call.pc = "stores"
                 PROVE  /\ Head(call.todo) \in Reachable
                        /\ Resolved(Head(call.todo)) = Head(call.todo)
    OBVIOUS
  <2>2. Head(call.todo) \in Reachable
    BY <1>2, <1>3, <2>1 DEF ExaminedSoFar
  <2>3. Reachable \cap repo.linked = {} /\ Reachable \subseteq Stores
    BY <1>1, <2>1, ReachableUnlinked, ReachableFacts DEF WalkInv, Direct
  <2> QED BY <1>1, <2>2, <2>3, ResolvedFacts
<1>4. CASE ExamineRefused
  <2>1. Main \in Reachable
    BY <1>1, ReachableFacts
  <2>2. Head(call.todo) \in {Refs} \cup Reachable
    BY <1>1, <1>2, <1>3, <2>1 DEF ExaminedSoFar
  <2>3. Head(call.todo) \in Links /\ End("linked")
    <3>1. Head(call.todo) # Outside
      BY <1>2, PartsAssumption
    <3> QED BY <1>1, <1>4, <1>6, <3>1 DEF ExamineRefused, Links
  <2>4. Reason("linked")
    BY <2>2, <2>3 DEF Reason
  <2> QED BY <1>1, <2>3, <2>4, QuietEnds
<1>5. CASE Examine
  <2>1. Head(call.todo) \notin Links /\ call' = [call EXCEPT !.todo = Tail(@)]
    <3>1. call.pc = "stores" => Head(call.todo) \notin repo.linked
      <4>1. SUFFICES ASSUME call.pc = "stores" PROVE Head(call.todo) \notin repo.linked
        OBVIOUS
      <4> QED BY <1>1, <1>6, <4>1, ReachableUnlinked DEF WalkInv, Direct
    <3> QED BY <1>1, <1>5, <1>6, <3>1 DEF Examine, Continue, Links
  <2>2. /\ call'.pc = call.pc /\ call'.todo = Tail(call.todo) /\ call'.visits = call.visits
        /\ call'.ordered = call.ordered /\ call'.pinned = call.pinned
        /\ call'.loose = call.loose
    BY <1>1, <2>1 DEF TypeOK, Calls
  <2>3. repo' = repo /\ changes' = changes
    BY <1>1, QuietFacts
  <2>4. Links' = Links /\ Reachable' = Reachable /\ WithinWalk' = WithinWalk
    BY <2>3, SameVerdict
  <2>5. ExaminedSoFar'
    BY <1>1, <1>2, <1>3, <2>1, <2>2, <2>4 DEF ExaminedSoFar
  <2>6. WalkedSoFar' /\ PrintedSoFar' /\ Judged'
    BY <1>1, <1>3, <2>2, <2>4 DEF WalkedSoFar, PrintedSoFar, Judged, Compared
  <2>7. OpenedSoFar'
    BY <1>1, <2>2, <2>3, OpenedStays
  <2> QED BY <2>5, <2>6, <2>7 DEF QuietInv
<1> QED BY <1>4, <1>5

\* .git/objects was just examined, and is what it was.
LEMMA QuietInitialStore ==
  ASSUME IInv, QuietInv, changes = 0
  PROVE  ~InitialStoreRefused
<1>1. SUFFICES ASSUME InitialStoreRefused
               PROVE  FALSE
  OBVIOUS
<1>2. call.pc = "entries" /\ call.todo = <<>> /\ Main \in Links
  BY <1>1 DEF InitialStoreRefused, Links
<1>3. ToSet(call.todo) = {}
  BY <1>2 DEF ToSet
<1> QED BY <1>2, <1>3 DEF QuietInv, ExaminedSoFar

\* The entries held no link: the walk begins at .git/objects.
LEMMA QuietEntries ==
  ASSUME IInv, WalkInv, QuietInv, changes = 0, ExaminedEntries
  PROVE  QuietInv'
<1>1. /\ TypeOK /\ Quietly /\ call.pc = "entries" /\ call.todo = <<>>
      /\ call' = [call EXCEPT !.pc = "walk", !.pending = <<Main>>]
  BY DEF ExaminedEntries, Continue, IInv
<1>2. /\ call'.pc = "walk" /\ call'.pending = <<Main>> /\ call'.visits = call.visits
      /\ call'.ordered = call.ordered /\ call'.pinned = call.pinned /\ call'.loose = call.loose
      /\ call'.seen = call.seen /\ call.seen = {}
  BY <1>1 DEF TypeOK, Calls, WalkInv
<1>3. repo' = repo /\ changes' = changes
  BY <1>1, QuietFacts
<1>4. Links' = Links /\ Reachable' = Reachable /\ Lengths' = Lengths /\ Refusing' = Refusing
  BY <1>3, SameVerdict
<1>5. ToSet(call.todo) = {} /\ call.visits = 0 /\ Links \cap {Main, Refs} = {}
  <2>1. ToSet(call.todo) = {}
    BY <1>1 DEF ToSet
  <2> QED BY <1>1, <2>1 DEF QuietInv, ExaminedSoFar
<1>6. ExaminedSoFar'
  BY <1>2, <1>4, <1>5 DEF ExaminedSoFar
<1>7. WalkedSoFar'
  <2>1. SumOver(Lengths, call.seen)' = 0
    BY <1>2, SumOfNone
  <2>2. Cardinality(call'.seen) = 0 /\ Len(call'.pending) = 1
    BY <1>2, FS_EmptySet
  <2>3. Refusing \cap call'.seen = {}
    BY <1>2
  <2> QED BY <1>2, <1>4, <1>5, <2>1, <2>2, <2>3, LimitsAssumption DEF WalkedSoFar
<1>8. OpenedSoFar'
  BY <1>1, <1>2, <1>3, OpenedStays
<1>9. PrintedSoFar' /\ Judged'
  BY <1>2 DEF PrintedSoFar, Judged, Compared
<1> QED BY <1>6, <1>7, <1>8, <1>9 DEF QuietInv

\* The stores held no link.
LEMMA QuietStores ==
  ASSUME IInv, WalkInv, QuietInv, changes = 0, ExaminedStores
  PROVE  QuietInv'
<1>1. /\ TypeOK /\ Quietly /\ call.pc = "stores" /\ call.todo = <<>>
      /\ call' = [call EXCEPT !.pc = "before"]
  BY DEF ExaminedStores, Continue, IInv
<1>2. /\ call'.pc = "before" /\ call'.now = call.now
      /\ call'.ordered = call.ordered /\ call'.pinned = call.pinned /\ call'.loose = call.loose
      /\ call.now = <<>> /\ call.outcome = "none"
  BY <1>1 DEF TypeOK, Calls, IInv, Places, Checking
<1>3. repo' = repo /\ changes' = changes
  BY <1>1, QuietFacts
<1>4. Links' = Links /\ Reachable' = Reachable /\ WithinWalk' = WithinWalk
  BY <1>3, SameVerdict
<1>5. Links \cap Reachable = {} /\ Links \cap {Main, Refs} = {} /\ WithinWalk
  <2>1. ToSet(call.todo) = {}
    BY <1>1 DEF ToSet
  <2>2. ToSet(call.ordered) = Reachable \ {Main}
    BY <1>1, <1>2 DEF WalkInv, WalkExact
  <2> QED BY <1>1, <2>1, <2>2 DEF QuietInv, ExaminedSoFar, WalkedSoFar
<1>6. ExaminedSoFar'
  BY <1>2, <1>4, <1>5 DEF ExaminedSoFar
<1>7. WalkedSoFar'
  BY <1>2, <1>4, <1>5 DEF WalkedSoFar
<1>8. PrintedSoFar' /\ Judged'
  BY <1>2, EmptySeq DEF PrintedSoFar, Judged, Compared
<1>9. OpenedSoFar'
  BY <1>1, <1>2, <1>3, OpenedStays
<1> QED BY <1>6, <1>7, <1>8, <1>9 DEF QuietInv

\* During the walk, what was seen can be reached: the sums are within those of
\* the verdict.
LEMMA WalkingFacts ==
  ASSUME IInv, WalkInv, QuietInv, changes = 0, call.pc = "walk"
  PROVE  /\ TypeOK /\ Underway /\ Direct
         /\ call.seen \subseteq Reachable /\ IsFiniteSet(call.seen)
         /\ SumOver(Lengths, call.seen) \in Nat /\ SumOver(Lengths, call.seen) <= Listed
         /\ Listed \in Nat
         /\ call.visits + Len(call.pending) = SumOver(Lengths, call.seen) + 1
         /\ Len(call.pending) \in Nat /\ call.visits \in Nat
         /\ Links \cap {Main, Refs} = {} /\ call.visits <= MaxVisits
         /\ Refusing \cap call.seen = {} /\ Cardinality(call.seen) <= MaxStores
         /\ call.outcome = "none"
<1>1. TypeOK /\ Underway /\ Direct /\ call.outcome = "none"
  BY DEF IInv, WalkInv, Places
<1>2. call.seen \in SUBSET Reachable /\ call.seen \subseteq Stores
  BY <1>1, ReachableFacts DEF Underway
<1>3. IsFiniteSet(call.seen)
  BY <1>1, <1>2, SumsOfStores
<1>4. /\ SumOver(Lengths, call.seen) \in Nat /\ SumOver(Lengths, call.seen) <= Listed
      /\ Listed \in Nat
  BY <1>1, <1>2, SumsOfStores
<1>5. Len(call.pending) \in Nat /\ call.visits \in Nat
  BY <1>1, CallFacts, LenProperties
<1> QED BY <1>1, <1>2, <1>3, <1>4, <1>5 DEF QuietInv, WalkedSoFar, ExaminedSoFar

\* A walk that is given up: a store that can be reached is refused, there are
\* too many of them or they list too many.
LEMMA QuietWalkEnds ==
  ASSUME IInv, WalkInv, QuietInv, changes = 0, VisitTooMany \/ VisitRefused
  PROVE  QuietInv'
<1>0. Walking /\ Direct /\ Underway
  BY WalkingFacts DEF VisitTooMany, VisitRefused, Walking
<1>1. /\ Quietly /\ call.pc = "walk" /\ call.pending # <<>> /\ End("alternates")
      /\ TypeOK /\ Underway
  BY WalkingFacts DEF VisitTooMany, VisitRefused, Walking
<1>2. /\ Last(call.pending) \in Stores /\ Len(call.pending) \in Nat \ {0}
      /\ ToSet(call.pending) = ToSet(Front(call.pending)) \cup {Last(call.pending)}
  BY <1>1, CallFacts, FrontLast
<1>3. NextVisited \in Reachable /\ NextVisited \in Stores
  BY <1>0, NextVisitedFacts
<1>4. CASE VisitTooMany
  <2>1. call.visits + 1 > MaxVisits
    BY <1>4 DEF VisitTooMany
  <2>2. Listed + 1 > MaxVisits
    BY <1>1, <1>2, <2>1, WalkingFacts, LimitsAssumption
  <2>3. Listed \in Nat /\ MaxVisits \in Nat
    BY <1>1, WalkingFacts, LimitsAssumption
  <2>4. ~WithinWalk
    BY <2>2, <2>3 DEF WithinWalk
  <2> QED BY <1>1, <2>4, QuietEnds DEF Reason
<1>5. CASE VisitRefused
  <2>1. /\ NextVisited \notin call.seen
        /\ Cardinality(call.seen) + 1 > MaxStores \/ RefusedTargets(NextVisited)
    BY <1>5 DEF VisitRefused
  <2>2. CASE RefusedTargets(NextVisited)
    <3>1. NextVisited \in Refusing
      BY <1>3, <2>2 DEF Refusing
    <3>2. ~WithinWalk
      BY <1>3, <3>1 DEF WithinWalk
    <3> QED BY <1>1, <3>2, QuietEnds DEF Reason
  <2>3. CASE Cardinality(call.seen) + 1 > MaxStores
    <3>1. call.seen \cup {NextVisited} \subseteq Reachable /\ IsFiniteSet(call.seen)
      BY <1>1, <1>3, WalkingFacts
    <3>2. IsFiniteSet(Reachable)
      BY <1>1, ReachableFacts, SumsOfStores
    <3>3. /\ Cardinality(call.seen \cup {NextVisited}) = Cardinality(call.seen) + 1
          /\ Cardinality(call.seen) \in Nat
      BY <2>1, <3>1, FS_AddElement, FS_CardinalityType
    <3>4. Cardinality(call.seen \cup {NextVisited}) <= Cardinality(Reachable)
      BY <3>1, <3>2, FS_Subset
    <3>5. Cardinality(Reachable) \in Nat
      BY <3>2, FS_CardinalityType
    <3>6. ~(Cardinality(Reachable) <= MaxStores)
      BY <2>3, <3>3, <3>4, <3>5, LimitsAssumption
    <3>7. ~WithinWalk
      BY <3>6 DEF WithinWalk
    <3> QED BY <1>1, <3>7, QuietEnds DEF Reason
  <2> QED BY <2>1, <2>2, <2>3
<1> QED BY <1>4, <1>5

\* No pending store leads out of the repository.
LEMMA QuietStays ==
  ASSUME IInv, WalkInv, QuietInv, changes = 0
  PROVE  ~VisitStrayed
BY WalkingFacts, NextVisitedFacts DEF VisitStrayed, Walking

\* A visit takes one store off those pending and puts what it lists there.
LEMMA QuietVisit ==
  ASSUME IInv, WalkInv, QuietInv, changes = 0, VisitSeen \/ Visit
  PROVE  QuietInv'
<1> DEFINE s == Last(call.pending)
<1>0. NextVisited = s
  <2>1. Walking /\ Direct /\ Underway
    BY WalkingFacts DEF VisitSeen, Visit, Walking
  <2> QED BY <2>1, NextVisitedFacts
<1>1. /\ Quietly /\ call.pc = "walk" /\ call.pending # <<>> /\ call.visits + 1 <= MaxVisits
      /\ TypeOK
  BY WalkingFacts DEF VisitSeen, Visit, Walking
<1>2. /\ s \in Stores /\ Front(call.pending) \in Seq(Stores) /\ Len(call.pending) \in Nat \ {0}
      /\ Len(Front(call.pending)) = Len(call.pending) - 1
  BY <1>1, CallFacts, FrontLast
<1>3. repo' = repo /\ changes' = changes
  BY <1>1, QuietFacts
<1>4. Links' = Links /\ Reachable' = Reachable /\ Lengths' = Lengths /\ Refusing' = Refusing
  BY <1>3, SameVerdict
<1>5. /\ call'.pc = "walk" /\ call'.visits = call.visits + 1
      /\ call'.pinned = call.pinned /\ call'.loose = call.loose
  BY <1>1 DEF VisitSeen, Visit, Continue, TypeOK, Calls
<1>6. WalkedSoFar'
  <2>1. CASE VisitSeen
    <3>1. call'.seen = call.seen /\ call'.pending = Front(call.pending)
      BY <1>1, <2>1 DEF VisitSeen, Continue, TypeOK, Calls
    <3>2. call'.visits + Len(call'.pending) = SumOver(Lengths, call.seen) + 1
      BY <1>1, <1>2, <1>5, <3>1, WalkingFacts
    <3>3. SumOver(Lengths, call.seen)' = SumOver(Lengths, call.seen)
      BY <1>4, <3>1
    <3> QED BY <1>1, <1>4, <1>5, <3>1, <3>2, <3>3, WalkingFacts DEF WalkedSoFar
  <2>2. CASE Visit
    <3>1. /\ s \notin call.seen /\ Cardinality(call.seen) + 1 <= MaxStores
          /\ ~RefusedTargets(s)
          /\ call'.seen = call.seen \cup {s}
          /\ call'.pending = Front(call.pending) \o Targets(s)
      BY <1>0, <1>1, <2>2 DEF Visit, Continue, TypeOK, Calls
    <3>2. /\ Targets(s) \in Seq(Stores) /\ Len(Targets(s)) \in Nat
          /\ Lengths[s] = Len(Targets(s))
      BY <1>1, <1>2, <3>1, TargetFacts, LenProperties DEF Lengths
    <3>3. Len(call'.pending) = Len(Front(call.pending)) + Len(Targets(s))
      BY <1>2, <3>1, <3>2, ConcatProperties
    <3>4. SumOver(Lengths, call.seen \cup {s}) = SumOver(Lengths, call.seen) + Lengths[s]
      <4>1. \A t \in call.seen : Lengths[t] \in Nat
        BY <1>1, SumsOfStores, CallFacts
      <4>2. Lengths[s] \in Nat /\ s \notin call.seen /\ IsFiniteSet(call.seen)
        BY <1>1, <3>1, <3>2, WalkingFacts
      <4> HIDE DEF s
      <4> QED BY <4>1, <4>2, SumAdd
    <3>5. SumOver(Lengths, call.seen)' = SumOver(Lengths, call.seen \cup {s})
      BY <1>4, <3>1
    <3>6. call'.visits + Len(call'.pending) = SumOver(Lengths, call.seen \cup {s}) + 1
      <4>1. /\ call.visits + Len(call.pending) = SumOver(Lengths, call.seen) + 1
            /\ call.visits \in Nat /\ SumOver(Lengths, call.seen) \in Nat
        BY <1>1, WalkingFacts
      <4>2. Len(call.pending) \in Nat /\ Len(Targets(s)) \in Nat
        BY <1>2, <3>2
      <4>3. (call.visits + 1) + ((Len(call.pending) - 1) + Len(Targets(s))) =
              (SumOver(Lengths, call.seen) + Len(Targets(s))) + 1
        <5>1. \A v, p, l, t \in Nat : v + p = l + 1 => (v + 1) + ((p - 1) + t) = (l + t) + 1
          OBVIOUS
        <5> DEFINE visits == call.visits
                   pending == Len(call.pending)
                   listed == SumOver(Lengths, call.seen)
                   targets == Len(Targets(s))
        <5>2. /\ visits \in Nat /\ pending \in Nat /\ listed \in Nat /\ targets \in Nat
              /\ visits + pending = listed + 1
          BY <4>1, <4>2
        <5> HIDE DEF visits, pending, listed, targets
        <5>3. (visits + 1) + ((pending - 1) + targets) = (listed + targets) + 1
          BY <5>1, <5>2
        <5> QED BY <5>3 DEF visits, pending, listed, targets
      <4>4. Len(call'.pending) = (Len(call.pending) - 1) + Len(Targets(s))
        BY <1>2, <3>3
      <4>5. SumOver(Lengths, call.seen \cup {s}) = SumOver(Lengths, call.seen) + Len(Targets(s))
        BY <3>2, <3>4
      <4> QED BY <1>5, <4>3, <4>4, <4>5
    <3>7. Cardinality(call'.seen) <= MaxStores
      BY <1>1, <3>1, WalkingFacts, FS_AddElement
    <3>8. Refusing \cap call'.seen = {}
      BY <1>1, <3>1, WalkingFacts DEF Refusing
    <3> QED BY <1>1, <1>4, <1>5, <3>5, <3>6, <3>7, <3>8 DEF WalkedSoFar
  <2> QED BY <2>1, <2>2
<1>7. ExaminedSoFar'
  BY <1>1, <1>4, <1>5, WalkingFacts DEF ExaminedSoFar
<1>8. OpenedSoFar'
  <2>1. call.pinned = <<>>
    BY <1>1 DEF IInv, Places, Checking
  <2>2. Opened = {} /\ Opened' = {}
    BY <1>5, <2>1 DEF Opened
  <2>3. OpenedSoFar
    BY DEF QuietInv
  <2>4. call.loose <= MaxLoose /\ call.loose = SumOver(repo.loose, Opened)
    BY <1>1, <2>3 DEF OpenedSoFar
  <2>5. SumOver(repo.loose, Opened)' = SumOver(repo.loose, Opened)
    BY <1>3, <2>2
  <2> QED BY <1>5, <2>2, <2>4, <2>5 DEF OpenedSoFar
<1>9. PrintedSoFar' /\ Judged'
  BY <1>5 DEF PrintedSoFar, Judged, Compared
<1> QED BY <1>3, <1>6, <1>7, <1>8, <1>9 DEF QuietInv

\* The walk is over: it saw what can be reached.
LEMMA QuietWalked ==
  ASSUME IInv, WalkInv, QuietInv, changes = 0, Walked
  PROVE  QuietInv'
<1>1. /\ Quietly /\ call.pc = "walk" /\ call.pending = <<>>
      /\ call' = [call EXCEPT !.pc = "stores", !.todo = call.ordered]
      /\ TypeOK /\ Underway
  BY WalkingFacts DEF Walked, Continue
<1>2. /\ call'.pc = "stores" /\ call'.todo = call.ordered /\ call'.ordered = call.ordered
      /\ call'.pinned = call.pinned /\ call'.loose = call.loose
  BY <1>1 DEF TypeOK, Calls
<1>3. repo' = repo /\ changes' = changes
  BY <1>1, QuietFacts
<1>4. Links' = Links /\ Reachable' = Reachable /\ WithinWalk' = WithinWalk
  BY <1>3, SameVerdict
<1>5. call.seen = Reachable
  <2>1. ToSet(call.pending) = {}
    BY <1>1 DEF ToSet
  <2>2. call.seen \in SUBSET Stores /\ Main \in call.seen /\ Closed(call.seen)
    BY <1>1, <2>1, CallFacts DEF Underway, Closed
  <2> QED BY <1>1, <2>2, ReachableFacts, WalkingFacts
<1>6. WithinWalk
  <2>1. Len(call.pending) = 0
    BY <1>1, EmptySeq
  <2>2. SumOver(Lengths, call.seen) = Listed
    BY <1>5, ListedIs
  <2>3. Listed + 1 <= MaxVisits
    BY <1>1, <2>1, <2>2, WalkingFacts
  <2> QED BY <1>1, <1>5, <2>3, WalkingFacts DEF WithinWalk
<1>7. ToSet(call.ordered) = Reachable \ {Main}
  BY <1>1, WalkedExact
<1>8. ExaminedSoFar'
  BY <1>1, <1>2, <1>4, <1>7, WalkingFacts DEF ExaminedSoFar
<1>9. WalkedSoFar' /\ PrintedSoFar' /\ Judged'
  BY <1>2, <1>4, <1>6 DEF WalkedSoFar, PrintedSoFar, Judged, Compared
<1>10. OpenedSoFar'
  BY <1>1, <1>2, <1>3, OpenedStays
<1> QED BY <1>8, <1>9, <1>10 DEF QuietInv

-----------------------------------------------------------------------------
(* Fingerprints and view, while nobody changes the repository *)

\* What is stamped next is a part that holds no link.
LEMMA NextStampedFacts ==
  ASSUME IInv, WalkInv, QuietInv, changes = 0, Fingerprinting, Len(call.now) < Len(Stamped)
  PROVE  /\ call.pc \in Later /\ Len(call.now) \in Nat
         /\ Len(call.now) + 1 \in 1..Len(Stamped)
         /\ NextStamped \in Parts /\ NextStamped \notin Links
<1>1. call.pc \in Later /\ TypeOK
  BY DEF Fingerprinting, Later, IInv
<1>2. Len(Stamped) \in Nat /\ Stamped \in Seq(Parts) /\ Len(call.now) \in Nat
  BY <1>1, StampedFacts, CallFacts, LenProperties
<1>3. Len(call.now) + 1 \in 1..Len(Stamped)
  BY <1>2
<1>4. NextStamped \in ToSet(Stamped) /\ NextStamped \in Parts
  BY <1>2, <1>3, LenProperties, ElementOfSeq DEF ToSet, NextStamped
<1> QED BY <1>1, <1>2, <1>3, <1>4, WalkDone

\* Stamps are taken one by one, each the one the part has.
LEMMA QuietStamp ==
  ASSUME IInv, WalkInv, QuietInv, changes = 0, StampLinked \/ Stamp
  PROVE  QuietInv'
<1>1. /\ call.pc \in Later /\ TypeOK /\ Fingerprinting /\ Len(call.now) < Len(Stamped)
      /\ Quietly
  BY DEF StampLinked, Stamp, Fingerprinting, Later, IInv
<1>2. Stamp
  BY <1>1, NextStampedFacts DEF StampLinked
<1>3. call' = [call EXCEPT !.now = Append(@, Observed(NextStamped))]
  BY <1>2 DEF Stamp, Continue
<1>4. /\ call'.pc = call.pc /\ call'.ordered = call.ordered /\ call'.before = call.before
      /\ call'.now = Append(call.now, Observed(NextStamped))
      /\ call'.pinned = call.pinned /\ call'.loose = call.loose /\ call'.exit = call.exit
  BY <1>1, <1>3 DEF TypeOK, Calls
<1>5. repo' = repo /\ changes' = changes
  BY <1>1, QuietFacts
<1>6. Current' = Current /\ Stamped' = Stamped
  BY <1>4, <1>5, SameVerdict DEF Stamped, ViewStores
<1>7. PrintedSoFar'
  <2>1. NextStamped \in Parts /\ call.now \in Seq(Nat) /\ Observed(NextStamped) \in Nat
    BY <1>1, NextStampedFacts, CallFacts, RepoFacts
  <2>2. /\ Len(call'.now) = Len(call.now) + 1 /\ Len(call.now) \in Nat
        /\ \A i \in 1..Len(call.now) : call'.now[i] = call.now[i]
        /\ call'.now[Len(call.now) + 1] = Observed(NextStamped)
    BY <1>4, <2>1, AppendProperties, LenProperties
  <2>3. Observed(NextStamped) = Current[Stamped[Len(call.now) + 1]]
    BY <2>1 DEF Current, NextStamped
  <2>4. \A i \in 1..Len(call'.now) : i \in 1..Len(call.now) \/ i = Len(call.now) + 1
    BY <2>2
  <2>5. PrintedSoFar
    BY DEF QuietInv
  <2>6. \A i \in 1..Len(call.now) : call.now[i] = Current[Stamped[i]]
    BY <1>1, <2>5 DEF PrintedSoFar, Fingerprinting
  <2>7. \A i \in 1..Len(call'.now) : call'.now[i] = Current[Stamped[i]]
    BY <2>2, <2>3, <2>4, <2>6
  <2> QED BY <1>4, <1>6, <2>5, <2>7 DEF PrintedSoFar
<1>8. OpenedSoFar'
  <2>1. call.pc \in {"after", "judge"} => call.exit \in GitAnswers
    BY <1>1 DEF QuietInv, OpenedSoFar, Later
  <2>2. call.pc # "over"
    BY <1>1 DEF Later
  <2> QED BY <1>4, <1>5, <2>1, <2>2, OpenedStays
<1> QED BY <1>1, <1>4, <1>5, <1>7, <1>8, LaterStays

\* Fingerprints that are all current are the same.
LEMMA QuietFingerprint ==
  ASSUME IInv, WalkInv, QuietInv, changes = 0,
         FirstFingerprint \/ FingerprintDiffers \/ SecondFingerprint \/ LastFingerprint
  PROVE  QuietInv'
<1>1. /\ call.pc \in {"before", "again", "after"} /\ call.pc \in Later /\ TypeOK /\ Quietly
      /\ Len(call.now) = Len(Stamped)
  BY DEF FirstFingerprint, FingerprintDiffers, SecondFingerprint, LastFingerprint,
         Fingerprinted, Fingerprinting, Later, IInv
<1>2. repo' = repo /\ changes' = changes
  BY <1>1, QuietFacts
<1>3. PrintedSoFar /\ OpenedSoFar
  BY DEF QuietInv
<1>4. \A i \in 1..Len(call.now) : call.now[i] = Current[Stamped[i]]
  BY <1>1, <1>3 DEF PrintedSoFar
<1>5. CASE FingerprintDiffers
  <2>1. call.pc \in Compared /\ call.now # call.before
    BY <1>1, <1>5 DEF FingerprintDiffers, Compared
  <2>2. Len(call.before) = Len(Stamped)
    BY <2>1 DEF IInv, Prints
  <2>3. \A i \in 1..Len(call.before) : call.before[i] = Current[Stamped[i]]
    BY <1>3, <2>1 DEF PrintedSoFar
  <2>4. call.now \in Seq(Nat) /\ call.before \in Seq(Nat)
    BY <1>1, CallFacts
  <2>5. call.now = call.before
    <3>1. Len(call.now) = Len(call.before)
      BY <1>1, <2>2
    <3>2. \A i \in 1..Len(call.now) : call.now[i] = call.before[i]
      BY <1>4, <2>3, <3>1
    <3> QED BY <2>4, <3>1, <3>2, SeqEqual
  <2> QED BY <2>1, <2>5
<1>6. CASE FirstFingerprint
  <2>1. /\ call.pc = "before"
        /\ call' = [call EXCEPT !.pc = "again", !.before = call.now, !.now = <<>>]
    BY <1>6 DEF FirstFingerprint, Continue
  <2>2. /\ call'.pc = "again" /\ call'.ordered = call.ordered /\ call'.before = call.now
        /\ call'.now = <<>> /\ call'.pinned = call.pinned /\ call'.loose = call.loose
    BY <1>1, <2>1 DEF TypeOK, Calls
  <2>3. Current' = Current /\ Stamped' = Stamped
    BY <1>2, <2>2, SameVerdict DEF Stamped, ViewStores
  <2>4. PrintedSoFar'
    BY <1>4, <2>2, <2>3, EmptySeq DEF PrintedSoFar
  <2>5. OpenedSoFar'
    BY <1>2, <2>1, <2>2, OpenedStays
  <2> QED BY <1>1, <1>2, <2>2, <2>4, <2>5, LaterStays DEF Later
<1>7. CASE SecondFingerprint
  <2>1. /\ call.pc = "again"
        /\ call' = [call EXCEPT !.pc = "view", !.now = <<>>]
    BY <1>7 DEF SecondFingerprint, Continue
  <2>2. /\ call'.pc = "view" /\ call'.ordered = call.ordered /\ call'.before = call.before
        /\ call'.pinned = call.pinned /\ call'.loose = call.loose
    BY <1>1, <2>1 DEF TypeOK, Calls
  <2>3. Current' = Current /\ Stamped' = Stamped
    BY <1>2, <2>2, SameVerdict DEF Stamped, ViewStores
  <2>4. PrintedSoFar'
    BY <1>3, <2>1, <2>2, <2>3 DEF PrintedSoFar, Compared
  <2>5. OpenedSoFar'
    BY <1>2, <2>1, <2>2, OpenedStays
  <2> QED BY <1>1, <1>2, <2>2, <2>4, <2>5, LaterStays DEF Later
<1>8. CASE LastFingerprint
  <2>1. call.pc = "after" /\ call' = [call EXCEPT !.pc = "judge"]
    BY <1>8 DEF LastFingerprint, Continue
  <2>2. /\ call'.pc = "judge" /\ call'.ordered = call.ordered /\ call'.before = call.before
        /\ call'.pinned = call.pinned /\ call'.loose = call.loose /\ call'.exit = call.exit
    BY <1>1, <2>1 DEF TypeOK, Calls
  <2>3. Current' = Current /\ Stamped' = Stamped
    BY <1>2, <2>2, SameVerdict DEF Stamped, ViewStores
  <2>4. PrintedSoFar'
    BY <1>3, <2>1, <2>2, <2>3 DEF PrintedSoFar, Compared
  <2>5. OpenedSoFar'
    <3>1. call.exit \in GitAnswers
      BY <1>3, <2>1 DEF OpenedSoFar
    <3> QED BY <1>2, <2>1, <2>2, <3>1, OpenedStays
  <2> QED BY <1>1, <1>2, <2>2, <2>4, <2>5, LaterStays DEF Later
<1> QED BY <1>5, <1>6, <1>7, <1>8

\* The store to open next is one that can be reached and is not open yet: what
\* is counted with it is no more than what all of them hold.
LEMMA NextStoreFacts ==
  ASSUME IInv, WalkInv, QuietInv, changes = 0, Opening
  PROVE  /\ TypeOK /\ call.pc = "view" /\ Len(call.pinned) \in Nat
         /\ NextStore \in Reachable /\ NextStore \in Stores /\ NextStore \notin Links
         /\ repo.loose[NextStore] \in Nat
         /\ Opened \subseteq Reachable
         /\ SumOver(repo.loose, Opened \cup {NextStore}) = call.loose + repo.loose[NextStore]
         /\ call.loose + repo.loose[NextStore] <= LooseObjects
<1>1. TypeOK /\ call.pc = "view" /\ call.pc \in Later /\ Len(call.pinned) < Len(ViewStores)
  BY DEF Opening, Later, IInv
<1>2. /\ Len(ViewStores) \in Nat /\ ViewStores \in Seq(Stores) /\ Len(call.pinned) \in Nat
      /\ DOMAIN ViewStores = 1..Len(ViewStores)
  BY <1>1, StampedFacts, CallFacts, LenProperties
<1>3. /\ Len(call.pinned) + 1 \in 1..Len(ViewStores)
      /\ 1..Len(call.pinned) \subseteq 1..Len(ViewStores)
      /\ Len(call.pinned) + 1 \notin 1..Len(call.pinned)
  BY <1>1, <1>2
<1>4. ToSet(ViewStores) = Reachable /\ Links \cap Reachable = {}
  BY <1>1, WalkDone
<1>5. NextStore \in Reachable /\ NextStore \notin Links
  BY <1>2, <1>3, <1>4 DEF ToSet, NextStore
<1>6. Opened \subseteq Reachable
  BY <1>2, <1>3, <1>4 DEF ToSet, Opened
<1>7. NextStore \notin Opened
  <2>1. \A i \in 1..Len(call.pinned) : ViewStores[i] # ViewStores[Len(call.pinned) + 1]
    BY <1>3, ViewFacts
  <2> QED BY <2>1 DEF Opened, NextStore
<1>8. Reachable \subseteq Stores /\ IsFiniteSet(Opened)
  BY <1>1, <1>6, ReachableFacts, SumsOfStores
<1>9. /\ NextStore \in Stores /\ repo.loose[NextStore] \in Nat
      /\ \A s \in Opened : repo.loose[s] \in Nat
  BY <1>1, <1>5, <1>6, <1>8, RepoFacts
<1>10. SumOver(repo.loose, Opened \cup {NextStore}) =
         SumOver(repo.loose, Opened) + repo.loose[NextStore]
  BY <1>7, <1>8, <1>9, SumAdd
<1>11. call.loose = SumOver(repo.loose, Opened)
  BY <1>1 DEF QuietInv, OpenedSoFar
<1>12. Opened \cup {NextStore} \in SUBSET Reachable
  BY <1>5, <1>6
<1>13. SumOver(repo.loose, Opened \cup {NextStore}) <= LooseObjects
  BY <1>1, <1>12, SumsOfStores
<1> QED BY <1>1, <1>2, <1>5, <1>6, <1>9, <1>10, <1>11, <1>13

\* A store is opened, or it is not there, or it holds too much.
LEMMA QuietOpen ==
  ASSUME IInv, WalkInv, QuietInv, changes = 0, OpenFails \/ OpenTooMany \/ OpenStore
  PROVE  QuietInv'
<1>1. /\ Opening /\ Quietly /\ call.pc = "view" /\ call.pc \in Later /\ TypeOK
      /\ OpenedSoFar /\ PrintedSoFar
  BY DEF OpenFails, OpenTooMany, OpenStore, Opening, Later, IInv, QuietInv
<1>2. CASE OpenFails
  <2>1. NextStore \in repo.missing /\ NextStore \in Reachable
    BY <1>1, <1>2, NextStoreFacts DEF OpenFails
  <2>2. Reason("changed")
    BY <2>1 DEF Reason
  <2> QED BY <1>2, <2>2, QuietEnds DEF OpenFails
<1>3. CASE OpenTooMany
  <2>1. call.loose + repo.loose[NextStore] > MaxLoose
    BY <1>3 DEF OpenTooMany
  <2>2. /\ call.loose + repo.loose[NextStore] <= LooseObjects
        /\ call.loose \in Nat /\ repo.loose[NextStore] \in Nat /\ LooseObjects \in Nat
    BY <1>1, NextStoreFacts, CallFacts, SumsOfStores
  <2>3. LooseObjects > MaxLoose
    BY <2>1, <2>2, LimitsAssumption
  <2>4. Reason("looseObjects")
    BY <2>3 DEF Reason
  <2> QED BY <1>3, <2>4, QuietEnds DEF OpenTooMany
<1>4. CASE OpenStore
  <2>1. /\ NextStore \notin repo.missing
        /\ call.loose + repo.loose[NextStore] <= MaxLoose
        /\ call' = [call EXCEPT !.pinned = Append(@, repo.stamp[NextStore]),
                                !.loose = @ + repo.loose[NextStore]]
    BY <1>4 DEF OpenStore, Continue
  <2>2. /\ call'.pc = "view" /\ call'.ordered = call.ordered /\ call'.before = call.before
        /\ call'.pinned = Append(call.pinned, repo.stamp[NextStore])
        /\ call'.loose = call.loose + repo.loose[NextStore]
    BY <1>1, <2>1 DEF TypeOK, Calls
  <2>3. repo' = repo /\ changes' = changes
    BY <1>1, QuietFacts
  <2>4. Current' = Current /\ Stamped' = Stamped /\ ViewStores' = ViewStores
    BY <2>2, <2>3, SameVerdict DEF Stamped, ViewStores
  <2>5. PrintedSoFar'
    BY <1>1, <2>2, <2>4 DEF PrintedSoFar, Compared
  <2>6. Opened' = Opened \cup {NextStore}
    <3>1. call.pinned \in Seq(Nat) /\ repo.stamp[NextStore] \in Nat /\ Len(call.pinned) \in Nat
      BY <1>1, CallFacts, NextStoreFacts, RepoFacts DEF Parts
    <3>2. Len(call'.pinned) = Len(call.pinned) + 1
      BY <2>2, <3>1, AppendProperties
    <3>3. 1..(Len(call.pinned) + 1) = 1..Len(call.pinned) \cup {Len(call.pinned) + 1}
      BY <3>1
    <3>4. Opened' = {ViewStores[i] : i \in 1..(Len(call.pinned) + 1)}
      BY <2>4, <3>2 DEF Opened
    <3> QED BY <3>3, <3>4 DEF Opened, NextStore
  <2>7. SumOver(repo.loose, Opened)' = SumOver(repo.loose, Opened \cup {NextStore})
    BY <2>3, <2>6
  <2>8. OpenedSoFar'
    BY <1>1, <2>1, <2>2, <2>3, <2>6, <2>7, NextStoreFacts DEF OpenedSoFar
  <2> QED BY <1>1, <2>2, <2>3, <2>5, <2>8, LaterStays
<1> QED BY <1>2, <1>3, <1>4

\* The view is complete: it counted what all the stores hold.
LEMMA QuietViewBuilt ==
  ASSUME IInv, WalkInv, QuietInv, changes = 0, ViewBuilt
  PROVE  QuietInv'
<1>1. /\ Quietly /\ call.pc = "view" /\ call.pc \in Later /\ TypeOK
      /\ OpenedSoFar /\ PrintedSoFar /\ Len(call.pinned) = Len(ViewStores)
      /\ call' = [call EXCEPT !.pc = "filters"]
  BY DEF ViewBuilt, Continue, Later, IInv, QuietInv
<1>2. /\ call'.pc = "filters" /\ call'.ordered = call.ordered /\ call'.before = call.before
      /\ call'.pinned = call.pinned /\ call'.loose = call.loose
  BY <1>1 DEF TypeOK, Calls
<1>3. repo' = repo /\ changes' = changes
  BY <1>1, QuietFacts
<1>4. /\ Current' = Current /\ Stamped' = Stamped /\ ViewStores' = ViewStores
      /\ Reachable' = Reachable /\ LooseObjects' = LooseObjects
  BY <1>2, <1>3, SameVerdict DEF Stamped, ViewStores
<1>5. PrintedSoFar'
  BY <1>1, <1>2, <1>4 DEF PrintedSoFar, Compared
<1>6. Opened' = Opened
  BY <1>2, <1>4 DEF Opened
<1>7. Opened = Reachable
  <2>1. ViewStores \in Seq(Stores)
    BY <1>1, StampedFacts
  <2>2. DOMAIN ViewStores = 1..Len(ViewStores)
    BY <2>1, LenProperties
  <2>3. ToSet(ViewStores) = Reachable
    BY <1>1, WalkDone
  <2> QED BY <1>1, <2>2, <2>3 DEF ToSet, Opened
<1>8. /\ Reachable \cap repo.missing = {}
      /\ call.loose = SumOver(repo.loose, Reachable) /\ call.loose <= MaxLoose
  BY <1>1, <1>7 DEF OpenedSoFar
<1>9. LooseObjects <= MaxLoose
  BY <1>8, LooseIs
<1>10. SumOver(repo.loose, Opened)' = SumOver(repo.loose, Reachable)
  BY <1>3, <1>6, <1>7
<1>11. OpenedSoFar'
  BY <1>2, <1>3, <1>4, <1>6, <1>7, <1>8, <1>9, <1>10 DEF OpenedSoFar
<1> QED BY <1>1, <1>2, <1>3, <1>5, <1>11, LaterStays DEF Later

\* Once the view is built, what ends the call finds a repository without fault.
LEMMA QuietAnswers ==
  ASSUME IInv, WalkInv, QuietInv, changes = 0,
         FiltersRefused \/ NotStarted \/ GitTimesOut \/ Judge
  PROVE  QuietInv'
<1>1. /\ Quietly /\ call.pc \in {"filters", "git", "judge"} /\ call.pc \in Later
      /\ OpenedSoFar
  BY DEF FiltersRefused, NotStarted, GitTimesOut, Judge, Later, QuietInv
<1>2. /\ Links \cap ({Refs} \cup Reachable) = {} /\ WithinWalk
      /\ repo.missing \cap Reachable = {} /\ LooseObjects <= MaxLoose
  BY <1>1, WalkDone DEF OpenedSoFar
<1>3. \A outcome \in {"filters", "notStarted", "timeout"} \cup GitAnswers : Reason(outcome)
  BY <1>2 DEF Reason, GitAnswers
<1>4. PICK outcome \in {"filters", "notStarted", "timeout"} \cup GitAnswers : End(outcome)
  <2>1. CASE FiltersRefused
    BY <2>1 DEF FiltersRefused
  <2>2. CASE NotStarted
    BY <2>2 DEF NotStarted
  <2>3. CASE GitTimesOut
    BY <2>3 DEF GitTimesOut
  <2>4. CASE Judge
    <3>1. call.pc = "judge" /\ End(call.exit)
      BY <2>4 DEF Judge
    <3>2. call.exit \in GitAnswers
      BY <1>1, <3>1 DEF OpenedSoFar
    <3> QED BY <3>1, <3>2
  <2> QED BY <2>1, <2>2, <2>3, <2>4
<1> QED BY <1>1, <1>3, <1>4, QuietEnds

\* Git runs: the repository is the same.
LEMMA QuietGit ==
  ASSUME IInv, WalkInv, QuietInv, changes = 0, StartGit \/ GitReads \/ GitExits
  PROVE  QuietInv'
<1>1. /\ call.pc \in {"filters", "git"} /\ call.pc \in Later /\ TypeOK
      /\ repo' = repo /\ changes' = changes /\ PrintedSoFar
  BY DEF StartGit, GitReads, GitExits, Quietly, world, Later, IInv, QuietInv
<1>2. /\ call'.pc \in {"git", "after"} /\ call'.ordered = call.ordered
      /\ call'.before = call.before
      /\ call'.pinned = call.pinned /\ call'.loose = call.loose /\ call'.now = call.now
      /\ call'.pc = "after" => call'.exit \in GitAnswers
  <2>1. CASE StartGit
    BY <1>1, <2>1 DEF StartGit, Continue, TypeOK, Calls
  <2>2. CASE GitReads
    BY <1>1, <2>2 DEF GitReads
  <2>3. CASE GitExits
    <3>1. PICK exit \in GitAnswers : call' = [call EXCEPT !.pc = "after", !.exit = exit]
      BY <2>3 DEF GitExits, Continue, GitAnswers
    <3> QED BY <1>1, <3>1 DEF TypeOK, Calls
  <2> QED BY <2>1, <2>2, <2>3
<1>3. Current' = Current /\ Stamped' = Stamped
  BY <1>1, <1>2, SameVerdict DEF Stamped, ViewStores
<1>4. call.now = <<>>
  BY <1>1 DEF IInv, Places
<1>5. PrintedSoFar'
  BY <1>1, <1>2, <1>3, <1>4, EmptySeq DEF PrintedSoFar, Compared
<1>6. OpenedSoFar'
  BY <1>1, <1>2, OpenedStays
<1> QED BY <1>1, <1>2, <1>5, <1>6, LaterStays DEF Later

\* At the start nothing was examined.
LEMMA QuietInit ==
  ASSUME Init
  PROVE  QuietInv
<1>1. /\ call.pc = "entries" /\ call.todo = <<Main, Refs>> /\ call.visits = 0
      /\ call.pinned = <<>> /\ call.loose = 0
  BY DEF Init
<1>2. ToSet(call.todo) = {Main, Refs}
  BY <1>1 DEF ToSet
<1>3. Opened = {}
  BY <1>1 DEF Opened
<1>4. SumOver(repo.loose, Opened) = 0
  BY <1>3, SumOfNone
<1>5. ExaminedSoFar
  BY <1>1, <1>2 DEF ExaminedSoFar
<1>6. WalkedSoFar /\ PrintedSoFar /\ Judged
  BY <1>1 DEF WalkedSoFar, PrintedSoFar, Judged, Compared
<1>7. OpenedSoFar
  BY <1>1, <1>3, <1>4, LimitsAssumption DEF OpenedSoFar
<1> QED BY <1>5, <1>6, <1>7 DEF QuietInv

\* Every step keeps what a quiet call knows; a change by others ends the quiet.
LEMMA QuietStep ==
  ASSUME IInv, WalkInv, QuietInv, [Next]_vars
  PROVE  QuietInv'
<1>1. CASE Others
  <2>1. PICK p, new : Changed(p, new)
    BY <1>1 DEF Others, Rewrite, LinkOrUnlink, AddObject, Relist, RemoveOrCreate
  <2>2. changes' = changes + 1 /\ changes \in Nat
    BY <2>1, RepoFacts DEF Changed, IInv
  <2>3. changes' # 0
    BY <2>2
  <2> QED BY <2>3 DEF QuietInv
<1>2. CASE UNCHANGED vars
  <2>1. /\ repo' = repo /\ changes' = changes /\ call' = call
    BY <1>2 DEF vars
  <2>2. /\ Links' = Links /\ Reachable' = Reachable /\ Lengths' = Lengths
        /\ Refusing' = Refusing /\ Current' = Current
        /\ LooseObjects' = LooseObjects /\ WithinWalk' = WithinWalk
    BY <2>1, SameVerdict
  <2>3. Opened' = Opened /\ Stamped' = Stamped
    BY <2>1 DEF Opened, Stamped, ViewStores
  <2>4. /\ SumOver(Lengths, call.seen)' = SumOver(Lengths, call.seen)
        /\ SumOver(repo.loose, Opened)' = SumOver(repo.loose, Opened)
    BY <2>1, <2>2, <2>3
  <2>5. changes = 0 => ExaminedSoFar' /\ WalkedSoFar'
    BY <2>1, <2>2, <2>4 DEF QuietInv, ExaminedSoFar, WalkedSoFar
  <2>6. changes = 0 => PrintedSoFar'
    BY <2>1, <2>2, <2>3 DEF QuietInv, PrintedSoFar
  <2>7. changes = 0 => OpenedSoFar'
    BY <2>1, <2>2, <2>3, <2>4 DEF QuietInv, OpenedSoFar
  <2>8. changes = 0 => Judged'
    BY <2>1, <2>2 DEF QuietInv, Judged, Reason
  <2> QED BY <2>1, <2>5, <2>6, <2>7, <2>8 DEF QuietInv
<1>3. CASE Step /\ changes # 0
  <2>1. changes' = changes
    BY <1>3 DEF Step, NoGit, NotStarted, ExamineRefused, Examine, InitialStoreRefused,
           ExaminedEntries, ExaminedStores, VisitTooMany, VisitStrayed, VisitSeen, VisitRefused, Visit, Walked, StampLinked,
           Stamp, FirstFingerprint, FingerprintDiffers, SecondFingerprint, LastFingerprint,
           OpenFails, OpenTooMany, OpenStore, ViewBuilt, FiltersRefused, StartGit, GitReads,
           GitExits, GitTimesOut, Judge, Quietly, world
  <2> QED BY <1>3, <2>1 DEF QuietInv
<1>4. CASE Step /\ changes = 0
  <2>1. CASE NoGit
    <3>1. Reason("noGit") /\ Quietly /\ End("noGit")
      BY <2>1 DEF Reason, NoGit
    <3> QED BY <3>1, QuietEnds
  <2>2. CASE Examine \/ ExamineRefused \/ ExaminedEntries \/ ExaminedStores
    BY <1>4, <2>2, QuietExamine, QuietEntries, QuietStores
  <2>3. CASE VisitTooMany \/ VisitSeen \/ VisitRefused \/ Visit \/ Walked
    BY <1>4, <2>3, QuietWalkEnds, QuietVisit, QuietWalked
  <2>8. ~InitialStoreRefused /\ ~VisitStrayed
    BY <1>4, QuietInitialStore, QuietStays
  <2>4. CASE \/ StampLinked \/ Stamp \/ FirstFingerprint \/ FingerprintDiffers
             \/ SecondFingerprint \/ LastFingerprint
    BY <1>4, <2>4, QuietStamp, QuietFingerprint
  <2>5. CASE OpenFails \/ OpenTooMany \/ OpenStore \/ ViewBuilt
    BY <1>4, <2>5, QuietOpen, QuietViewBuilt
  <2>6. CASE FiltersRefused \/ NotStarted \/ GitTimesOut \/ Judge
    BY <1>4, <2>6, QuietAnswers
  <2>7. CASE StartGit \/ GitReads \/ GitExits
    BY <1>4, <2>7, QuietGit
  <2> QED BY <1>4, <2>1, <2>2, <2>3, <2>4, <2>5, <2>6, <2>7, <2>8 DEF Step
<1> QED BY <1>1, <1>2, <1>3, <1>4 DEF Next, Rest

\* The reasons are those of the property.
LEMMA QuietReasons ==
  ASSUME IInv, QuietInv
  PROVE  QuietCallExact
<1>1. SUFFICES ASSUME changes = 0, call.pc = "over"
               PROVE  QuietCallExact
  BY DEF QuietCallExact
<1>2. TypeOK /\ Reason(call.outcome)
  BY <1>1 DEF IInv, QuietInv, Judged
<1>3. /\ Reachable \subseteq Stores /\ Cardinality(Reachable) \in Nat /\ Listed \in Nat
  BY <1>2, ReachableFacts, SumsOfStores, FS_CardinalityType
<1>4. WithinWalk => /\ \A s \in Reachable : ~RefusedTargets(s)
                    /\ Cardinality(Reachable) <= MaxStores /\ Listed + 1 <= MaxVisits
  BY <1>3 DEF WithinWalk, Refusing
<1>5. ~WithinWalk => \/ \E s \in Reachable : RefusedTargets(s)
                     \/ Cardinality(Reachable) > MaxStores \/ Listed + 1 > MaxVisits
  <2>1. SUFFICES ASSUME ~WithinWalk, \A s \in Reachable : ~RefusedTargets(s)
                 PROVE  Cardinality(Reachable) > MaxStores \/ Listed + 1 > MaxVisits
    OBVIOUS
  <2>2. ~(Cardinality(Reachable) <= MaxStores) \/ ~(Listed + 1 <= MaxVisits)
    BY <2>1 DEF WithinWalk, Refusing
  <2> QED BY <1>3, <2>2, LimitsAssumption
<1> QED BY <1>2, <1>4, <1>5 DEF Reason, QuietCallExact

\* While nobody touches the repository, _run_checked refuses for a reason it
\* names and answers when there is none: links, alternates and loose objects are
\* judged over all stores Git may come to, and fingerprints never differ.
THEOREM VerdictsHaveReasons == Spec => []QuietCallExact
<1>1. Init => QuietInv
  BY QuietInit
<1>2. IInv /\ WalkInv /\ QuietInv /\ [Next]_vars => QuietInv'
  BY QuietStep
<1>3. IInv /\ QuietInv => QuietCallExact
  BY QuietReasons
<1> QED BY <1>1, <1>2, <1>3, Inductive, WalkKnown, PTL DEF Spec

=============================================================================
