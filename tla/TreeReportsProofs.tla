------------------------- MODULE TreeReportsProofs --------------------------
(***************************************************************************)
(* Theorems about what the tools that walk directories report of a tree or *)
(* an environment that nobody touches, for every tree and limits.          *)
(***************************************************************************)
EXTENDS TreeToolsProofs

-----------------------------------------------------------------------------
(* What a report says of a tree that stands still *)

\* As long as nothing is touched, the tree is what it was.
LEMMA QuietStill ==
  ASSUME WorldOK, WorldOK', Moves, touched' = {}
  PROVE  touched = {} /\ tree' = tree
<1>1. tree \in [Paths -> Entries] /\ tree' \in [Paths -> Entries]
  BY DEF WorldOK
<1>2. \A p \in Paths : tree'[p] = tree[p]
  BY DEF Moves
<1> QED BY <1>1, <1>2 DEF Moves

\* What is below a directory that can be reached can be reached.
LEMMA ReachedBelow ==
  ASSUME NEW d \in Nodes, d = Top \/ Anchored(Front(d)), NEW p \in Children(d)
  PROVE  /\ Look(d) = Kind(d) /\ Upto(p) = Upto(d) \cup {p} /\ Above(p) = Upto(d)
         /\ Kind(d) = "dir" => Anchored(Front(p)) /\ Look(p) = Kind(p)
<1>1. p \in Paths /\ Front(p) = d /\ Upto(Front(p)) = Above(p) /\ p \in Upto(p)
  BY PathFacts DEF Children
<1>2. Upto(p) = Upto(d) \cup {p} /\ Above(p) = Upto(d)
  BY <1>1 DEF Above
<1>3. Look(d) = Kind(d) /\ (Kind(d) = "dir" => Anchored(d))
  <2>1. CASE d = Top
    BY <2>1, TopFacts DEF Look, Anchored
  <2>2. CASE d # Top
    <3>1. d \in Paths /\ Anchored(Front(d)) /\ d \in Upto(d)
      BY <2>2, PathFacts DEF Nodes
    <3>2. Look(d) = Kind(d) /\ \A q \in Above(d) : Kind(q) = "dir"
      BY <3>1, AnchoredAbove
    <3> QED BY <3>1, <3>2 DEF Anchored, Above
  <2> QED BY <2>1, <2>2
<1>4. Kind(d) = "dir" => Anchored(Front(p)) /\ Look(p) = Kind(p)
  BY <1>1, <1>3, AnchoredAbove
<1> QED BY <1>2, <1>3, <1>4

\* One element more, or one less, of some paths.
LEMMA OnePathMore ==
  ASSUME NEW ps \in SUBSET Paths, NEW q \in Paths
  PROVE  /\ Cardinality(ps) \in Nat
         /\ q \notin ps => Cardinality(ps \cup {q}) = Cardinality(ps) + 1
<1>1. IsFiniteSet(ps)
  BY PathsAreFinite
<1> QED BY <1>1, FS_CardinalityType, FS_AddElement

-----------------------------------------------------------------------------
(* Bandit's report *)

\* The sources the walk meets, and those of them that it has met.
BanditMet ==
  {p \in Sources : /\ Anchored(Front(p)) /\ Above(p) \cap BanditSkipped = {}
                   /\ Kind(p) # "none" /\ ~IsDirectory(p)}
BanditToMeet(p) == p \in BanditWaiting \/ \E e \in BanditAhead : e \in Over(p)
BanditPassed == {p \in BanditMet : ~BanditToMeet(p)}

\* A directory that may be walked: kinds are what it can be.
BanditWalks(d, kinds) ==
  d = Top \/ (d \in Paths /\ Anchored(Front(d)) /\ Kind(d) \in kinds /\ Upto(d) \cap BanditSkipped = {})

\* Each source that was met is authorized, and fit for it, or withheld; if the copy
\* is truncated one that is fit was withheld.
BanditTells ==
  bandit.pc # "off" /\ touched = {} =>
    /\ BanditWaiting \subseteq BanditMet
    /\ \A d \in Range(bandit.directories) : BanditWalks(d, {"dir", "locked"})
    /\ bandit.pc = "files" =>
         \A d \in Range(bandit.sub) : BanditWalks(d, {"dir", "locked", "link"})
    /\ bandit.pc \in {"run", "over"} => bandit.directories = <<>>
    /\ bandit.authorized \subseteq BanditPassed \cap BanditEligible
    /\ bandit.withheld = Cardinality(BanditPassed \ bandit.authorized)
    /\ bandit.truncated => \E p \in BanditPassed \cap BanditEligible : p \notin bandit.authorized

LEMMA BanditMetFacts ==
  /\ BanditMet \subseteq Sources /\ Sources \subseteq Paths
  /\ BanditPassed \subseteq BanditMet /\ BanditEligible \subseteq Paths
  /\ \A p \in BanditMet : /\ \A e \in Over(p) : Look(e) = "dir" /\ Kind(e) = "dir"
                          /\ \A q \in Above(p) : q \notin BanditSkipped /\ q \in Over(p)
<1>1. BanditMet \subseteq Sources /\ Sources \subseteq Paths
  BY BanditAssumption DEF BanditMet
<1>2. ASSUME NEW p \in BanditMet
      PROVE  /\ \A e \in Over(p) : Look(e) = "dir" /\ Kind(e) = "dir"
             /\ \A q \in Above(p) : q \notin BanditSkipped /\ q \in Over(p)
  <2>1. p \in Paths /\ Anchored(Front(p)) /\ Above(p) \cap BanditSkipped = {}
    BY <1>1, <1>2 DEF BanditMet
  <2> QED BY <2>1, AnchoredAbove DEF Over
<1>3. BanditEligible \subseteq Paths
  BY <1>1 DEF BanditEligible
<1> QED BY <1>1, <1>2, <1>3 DEF BanditPassed

\* If the walk has as much before it as it had, the report is the same.
LEMMA BanditSamePassed ==
  ASSUME tree' = tree, \A p \in BanditMet : BanditToMeet(p)' = BanditToMeet(p)
  PROVE  BanditMet' = BanditMet /\ BanditPassed' = BanditPassed
<1>1. BanditMet' = BanditMet
  BY DEF BanditMet, Anchored, Kind, IsDirectory
<1> QED BY <1>1 DEF BanditPassed

LEMMA BanditEligibleSame ==
  ASSUME tree' = tree, touched' = touched
  PROVE  BanditEligible' = BanditEligible
BY DEF BanditEligible, Untouched, Anchored, Kind

LEMMA BanditWalksSame ==
  ASSUME tree' = tree, NEW d, NEW kinds, BanditWalks(d, kinds)
  PROVE  BanditWalks(d, kinds)'
BY DEF BanditWalks, Anchored, Kind

LEMMA BanditTellsStands ==
  ASSUME WorldOK, WorldOK', Moves, BanditTells, UNCHANGED bandit
  PROVE  BanditTells'
<1> SUFFICES ASSUME bandit.pc # "off", touched' = {}
             PROVE  BanditTells'
  BY DEF BanditTells
<1>1. touched = {} /\ tree' = tree /\ touched' = touched
  BY QuietStill
<1>2. /\ BanditAhead' = BanditAhead /\ BanditWaiting' = BanditWaiting
  BY DEF BanditAhead, BanditWaiting
<1>3. BanditMet' = BanditMet /\ BanditPassed' = BanditPassed /\ BanditEligible' = BanditEligible
  BY <1>1, <1>2, BanditSamePassed, BanditEligibleSame DEF BanditToMeet
<1> QED BY <1>1, <1>2, <1>3, BanditWalksSame DEF BanditTells

LEMMA BanditTellsFirst ==
  ASSUME bandit = BanditBegin \/ bandit = BanditOff
  PROVE  BanditTells
<1>1. CASE bandit = BanditOff
  BY <1>1 DEF BanditTells, BanditOff
<1>2. CASE bandit = BanditBegin
  <2>1. /\ bandit.pc = "list" /\ bandit.directories = <<Top>> /\ bandit.authorized = {}
        /\ bandit.withheld = 0 /\ bandit.truncated = FALSE
    BY <1>2 DEF BanditBegin
  <2>2. Range(<<Top>>) = {Top}
    BY SingletonRange DEF Nodes
  <2>3. BanditPassed = {} /\ BanditWaiting = {}
    BY <2>1, <2>2 DEF BanditPassed, BanditToMeet, BanditAhead, BanditWaiting, Over
  <2> QED BY <2>1, <2>2, <2>3, FS_EmptySet DEF BanditTells, BanditWalks
<1> QED BY <1>1, <1>2

LEMMA BanditTellsList ==
  ASSUME WorldOK, BanditInv, BanditTells, BanditList
  PROVE  BanditTells'
<1> SUFFICES ASSUME touched' = {} PROVE BanditTells'
  BY DEF BanditTells
<1>1. /\ bandit.pc = "list" /\ bandit \in BanditType /\ BanditApart
      /\ UNCHANGED world /\ bandit.directories # <<>> /\ bandit.directories \in Seq(Nodes)
      /\ touched = {} /\ tree' = tree /\ touched' = touched
  BY BanditSteps DEF BanditList, BanditApart, BanditType, world
<1>0. PICK d \in Nodes : d = Head(bandit.directories)
  BY <1>1, HeadRange
<1> DEFINE met == IF Look(d) \in {"dir", "link"} THEN {p \in Children(d) : Kind(p) # "none"} ELSE {}
           files == {p \in met \cap Sources : ~IsDirectory(p)}
           dirs == {p \in met \ BanditSkipped : IsDirectory(p)}
           names == Sorted(files)
           sub == Sorted(dirs)
           rest == Tail(bandit.directories)
<1>2. files \in SUBSET Children(d) /\ dirs \in SUBSET Children(d) /\ Children(d) \in SUBSET Paths
  BY DEF Children
<1>3. Range(names) = files /\ Range(sub) = dirs
  <2>1. files \in SUBSET Paths /\ dirs \in SUBSET Paths
    BY <1>2
  <2> HIDE DEF files, dirs
  <2> QED BY <2>1, SortedFacts
<1>4. Range(bandit.directories) = {d} \cup Range(rest)
  BY <1>0, <1>1, HeadRange
<1>5. bandit' = [bandit EXCEPT !.pc = "files", !.directories = rest, !.directory = d,
                               !.names = names, !.sub = sub]
  BY <1>0 DEF BanditList
<1>6. BanditWalks(d, {"dir", "locked"})
  BY <1>1, <1>4 DEF BanditTells
<1>7. ASSUME NEW p \in Children(d), p \in files \cup dirs
      PROVE  /\ Kind(d) = "dir" /\ Anchored(Front(p)) /\ Above(p) = Upto(d)
             /\ Upto(p) = Upto(d) \cup {p} /\ Upto(d) \cap BanditSkipped = {} /\ p \in Paths
  <2>1. d = Top \/ Anchored(Front(d))
    BY <1>6 DEF BanditWalks
  <2>2. /\ Look(d) = Kind(d) /\ Upto(p) = Upto(d) \cup {p} /\ Above(p) = Upto(d)
        /\ Kind(d) = "dir" => Anchored(Front(p))
    BY <2>1, ReachedBelow
  <2>3. Look(d) \in {"dir", "link"}
    BY <1>7
  <2>4. Kind(d) = "dir" /\ Upto(d) \cap BanditSkipped = {}
    BY <1>6, <2>2, <2>3, TopFacts DEF BanditWalks, Kind
  <2> QED BY <1>2, <2>2, <2>4
<1>8. ASSUME NEW p \in files PROVE p \in BanditMet
  <2>1. p \in Children(d) /\ p \in Sources /\ Kind(p) # "none" /\ ~IsDirectory(p)
    BY <1>8
  <2> QED BY <1>7, <1>8, <2>1 DEF BanditMet
<1>9. ASSUME NEW q \in dirs PROVE BanditWalks(q, {"dir", "locked", "link"})
  <2>1. q \in Children(d) /\ q \notin BanditSkipped /\ IsDirectory(q)
    BY <1>9
  <2>2. Kind(q) \in {"dir", "locked", "link"}
    BY <2>1 DEF IsDirectory
  <2>3. Anchored(Front(q)) /\ Upto(q) \cap BanditSkipped = {} /\ q \in Paths
    BY <1>7, <1>9, <2>1
  <2> QED BY <2>2, <2>3 DEF BanditWalks
<1>10. ASSUME NEW p \in BanditMet
       PROVE  d \in Over(p) <=> (p \in files \/ \E q \in dirs : q \in Over(p))
  <2>1. p \in Paths
    BY BanditMetFacts
  <2>2. ASSUME d \in Over(p) PROVE p \in files \/ \E q \in dirs : q \in Over(p)
    <3>1. PICK q \in Upto(p) : q \in Children(d)
      BY <2>1, <2>2, NextDown
    <3>2. Look(d) = "dir"
      BY <2>2, BanditMetFacts
    <3>3. CASE q = p
      BY <3>1, <3>2, <3>3 DEF BanditMet
    <3>4. CASE q # p
      <4>1. q \in Above(p)
        BY <3>1, <3>4 DEF Above
      <4>2. Kind(q) = "dir" /\ q \notin BanditSkipped /\ q \in Over(p)
        BY <4>1, BanditMetFacts
      <4> QED BY <3>1, <3>2, <4>2 DEF IsDirectory
    <3> QED BY <3>3, <3>4
  <2>3. ASSUME p \in files PROVE d \in Over(p)
    BY <1>2, <2>3, ChildFacts
  <2>4. ASSUME NEW q \in dirs, q \in Over(p) PROVE d \in Over(p)
    <3>1. q \in Children(d)
      BY <1>2
    <3>2. d \in Over(q)
      BY <3>1, ChildFacts
    <3> QED BY <2>1, <2>4, <3>2, OverFacts
  <2> QED BY <2>2, <2>3, <2>4
<1> HIDE DEF met, files, dirs, names, sub, rest
<1>11. /\ bandit'.pc = "files" /\ bandit'.directories = rest
       /\ bandit'.names = names /\ bandit'.sub = sub /\ bandit'.authorized = bandit.authorized
       /\ bandit'.withheld = bandit.withheld /\ bandit'.truncated = bandit.truncated
  BY <1>1, <1>5 DEF BanditType
<1>12. /\ BanditAhead = {d} \cup Range(rest) /\ BanditWaiting = {}
       /\ BanditAhead' = Range(rest) \cup dirs /\ BanditWaiting' = files
  BY <1>1, <1>3, <1>4, <1>11 DEF BanditAhead, BanditWaiting
<1>13. ASSUME NEW p \in BanditMet PROVE BanditToMeet(p)' = BanditToMeet(p)
  <2>1. BanditToMeet(p) <=> d \in Over(p) \/ \E e \in Range(rest) : e \in Over(p)
    BY <1>12 DEF BanditToMeet
  <2>2. BanditToMeet(p)' <=> p \in files \/ \E e \in Range(rest) \cup dirs : e \in Over(p)
    BY <1>12 DEF BanditToMeet
  <2> QED BY <1>10, <2>1, <2>2 DEF BanditToMeet
<1>14. BanditMet' = BanditMet /\ BanditPassed' = BanditPassed /\ BanditEligible' = BanditEligible
  BY <1>1, <1>13, BanditSamePassed, BanditEligibleSame
<1>15. /\ \A e \in Range(rest) : BanditWalks(e, {"dir", "locked"})'
       /\ \A e \in dirs : BanditWalks(e, {"dir", "locked", "link"})'
  BY <1>1, <1>4, <1>9, BanditWalksSame DEF BanditTells
<1> QED BY <1>1, <1>3, <1>8, <1>11, <1>12, <1>14, <1>15 DEF BanditTells

\* The next file is not ahead any more.
LEMMA BanditGoesPast ==
  ASSUME WorldOK, BanditInv, BanditTells, bandit.pc = "files", bandit.names # <<>>,
         touched = {}, tree' = tree,
         NEW q, q = Head(bandit.names), bandit'.pc = "files",
         bandit'.names = Tail(bandit.names), bandit'.directories = bandit.directories,
         bandit'.sub = bandit.sub
  PROVE  /\ q \in BanditMet /\ q \notin BanditPassed /\ BanditPassed' = BanditPassed \cup {q}
         /\ BanditWaiting' \subseteq BanditMet' /\ BanditMet' = BanditMet
         /\ \A d \in Range(bandit.directories) : BanditWalks(d, {"dir", "locked"})'
         /\ \A d \in Range(bandit.sub) : BanditWalks(d, {"dir", "locked", "link"})'
         /\ bandit.authorized \subseteq BanditPassed \cap BanditEligible
         /\ bandit.withheld = Cardinality(BanditPassed \ bandit.authorized)
         /\ bandit.truncated => \E p \in BanditPassed \cap BanditEligible : p \notin bandit.authorized
<1>1. /\ bandit \in BanditType /\ BanditApart /\ bandit.names \in Seq(Paths)
  BY BanditSteps DEF BanditType
<1>2. /\ Range(bandit.names) = {q} \cup Range(Tail(bandit.names))
      /\ q \notin Range(Tail(bandit.names))
  BY <1>1, HeadRange DEF BanditApart
<1>3. /\ BanditAhead' = BanditAhead
      /\ BanditWaiting = Range(bandit.names) /\ BanditWaiting' = Range(Tail(bandit.names))
  BY DEF BanditAhead, BanditWaiting
<1>4. q \in BanditMet /\ Range(Tail(bandit.names)) \subseteq BanditMet
  BY <1>2, <1>3 DEF BanditTells
<1>5. \A e \in BanditAhead : e \notin Over(q)
  BY <1>1, <1>2, <1>3 DEF BanditApart
<1>6. BanditMet' = BanditMet
  BY DEF BanditMet, Anchored, Kind, IsDirectory
<1>7. ASSUME NEW p \in BanditMet
      PROVE  BanditToMeet(p) <=> p = q \/ BanditToMeet(p)'
  BY <1>2, <1>3 DEF BanditToMeet
<1>8. ~BanditToMeet(q)' /\ BanditToMeet(q)
  BY <1>2, <1>3, <1>5 DEF BanditToMeet
<1>9. BanditPassed' = BanditPassed \cup {q} /\ q \notin BanditPassed
  BY <1>4, <1>6, <1>7, <1>8 DEF BanditPassed
<1>10. /\ \A d \in Range(bandit.directories) : BanditWalks(d, {"dir", "locked"})'
       /\ \A d \in Range(bandit.sub) : BanditWalks(d, {"dir", "locked", "link"})'
  BY BanditWalksSame DEF BanditTells
<1> QED BY <1>3, <1>4, <1>6, <1>9, <1>10 DEF BanditTells

LEMMA BanditTellsSkip ==
  ASSUME WorldOK, BanditInv, BanditTells, BanditSkip
  PROVE  BanditTells'
<1> SUFFICES ASSUME touched' = {} PROVE BanditTells'
  BY DEF BanditTells
<1>1. /\ bandit.pc = "files" /\ bandit.names # <<>>
      /\ touched = {} /\ tree' = tree /\ touched' = touched
  BY DEF BanditSkip, world
<1>0. PICK q : q = Head(bandit.names)
  OBVIOUS
<1> DEFINE fits == /\ q \notin BanditBlocked /\ SafeRead(q, BanditBudget).over
                   /\ tree[q].size <= MaxSourceBytes
<1>2. /\ bandit \in BanditType /\ q \in Paths
      /\ bandit.withheld \in Nat /\ bandit.truncated \in BOOLEAN
  BY <1>0, <1>1, BanditFileFacts
<1>3. bandit' = [bandit EXCEPT !.names = Tail(bandit.names), !.withheld = bandit.withheld + 1,
                               !.truncated = bandit.truncated \/ fits]
  BY <1>0 DEF BanditSkip
<1>4. /\ bandit'.pc = "files" /\ bandit'.directories = bandit.directories
      /\ bandit'.names = Tail(bandit.names) /\ bandit'.sub = bandit.sub
      /\ bandit'.authorized = bandit.authorized
      /\ bandit'.withheld = bandit.withheld + 1
      /\ bandit'.truncated = (bandit.truncated \/ fits)
  BY <1>1, <1>2, <1>3 DEF BanditType
<1>5. /\ q \in BanditMet /\ q \notin BanditPassed /\ BanditPassed' = BanditPassed \cup {q}
      /\ BanditWaiting' \subseteq BanditMet'
      /\ \A d \in Range(bandit.directories) : BanditWalks(d, {"dir", "locked"})'
      /\ \A d \in Range(bandit.sub) : BanditWalks(d, {"dir", "locked", "link"})'
      /\ bandit.authorized \subseteq BanditPassed \cap BanditEligible
      /\ bandit.withheld = Cardinality(BanditPassed \ bandit.authorized)
      /\ bandit.truncated => \E p \in BanditPassed \cap BanditEligible : p \notin bandit.authorized
  BY <1>0, <1>1, <1>4, BanditGoesPast
<1>6. BanditEligible' = BanditEligible
  BY <1>1, BanditEligibleSame
<1>7. fits => q \in BanditEligible
  <2>1. ASSUME fits PROVE q \in BanditEligible
    <3>1. Anchored(Front(q)) /\ Kind(q) = "file"
      BY <2>1 DEF SafeRead
    <3>2. Above(q) \cap BanditSkipped = {} /\ q \in Sources /\ Untouched(q)
      BY <1>1, <1>5 DEF BanditMet, Untouched
    <3> QED BY <2>1, <3>1, <3>2 DEF BanditEligible
  <2> QED BY <2>1
<1> HIDE DEF fits
<1>8. Cardinality(BanditPassed' \ bandit.authorized) = bandit.withheld + 1
  <2>1. BanditPassed \ bandit.authorized \in SUBSET Paths
    BY BanditMetFacts
  <2>2. BanditPassed' \ bandit.authorized = (BanditPassed \ bandit.authorized) \cup {q}
    BY <1>5
  <2>3. q \notin BanditPassed \ bandit.authorized
    BY <1>5
  <2> QED BY <1>2, <1>5, <2>1, <2>2, <2>3, OnePathMore
<1>9. q \notin bandit.authorized
  BY <1>5
<1> QED BY <1>4, <1>5, <1>6, <1>7, <1>8, <1>9 DEF BanditTells

LEMMA BanditTellsCopy ==
  ASSUME WorldOK, BanditInv, BanditTells, BanditCopy
  PROVE  BanditTells'
<1> SUFFICES ASSUME touched' = {} PROVE BanditTells'
  BY DEF BanditTells
<1>1. /\ bandit.pc = "files" /\ bandit.names # <<>>
      /\ touched = {} /\ tree' = tree /\ touched' = touched
  BY DEF BanditCopy, world
<1>0. PICK q : q = Head(bandit.names)
  OBVIOUS
<1>2. /\ bandit \in BanditType /\ q \in Paths /\ tree[q].size \in Nat
      /\ BanditBudget \in Int /\ BanditBudget <= MaxSourceBytes
  BY <1>0, <1>1, BanditFileFacts
<1>3. PICK more, total :
        bandit' = [bandit EXCEPT !.names = Tail(bandit.names), !.copy = more,
                                 !.authorized = bandit.authorized \cup {q}, !.copied = total]
  BY <1>0 DEF BanditCopy
<1>4. /\ bandit'.pc = "files" /\ bandit'.directories = bandit.directories
      /\ bandit'.names = Tail(bandit.names) /\ bandit'.sub = bandit.sub
      /\ bandit'.authorized = bandit.authorized \cup {q}
      /\ bandit'.withheld = bandit.withheld /\ bandit'.truncated = bandit.truncated
  BY <1>1, <1>2, <1>3 DEF BanditType
<1>5. /\ q \in BanditMet /\ q \notin BanditPassed /\ BanditPassed' = BanditPassed \cup {q}
      /\ BanditWaiting' \subseteq BanditMet'
      /\ \A d \in Range(bandit.directories) : BanditWalks(d, {"dir", "locked"})'
      /\ \A d \in Range(bandit.sub) : BanditWalks(d, {"dir", "locked", "link"})'
      /\ bandit.authorized \subseteq BanditPassed \cap BanditEligible
      /\ bandit.withheld = Cardinality(BanditPassed \ bandit.authorized)
      /\ bandit.truncated => \E p \in BanditPassed \cap BanditEligible : p \notin bandit.authorized
  BY <1>0, <1>1, <1>4, BanditGoesPast
<1>6. BanditEligible' = BanditEligible
  BY <1>1, BanditEligibleSame
<1>7. q \in BanditEligible
  <2>1. q \notin BanditBlocked /\ SafeRead(q, BanditBudget).ok
    BY <1>0 DEF BanditCopy
  <2>2. Anchored(Front(q)) /\ Kind(q) = "file" /\ tree[q].size <= BanditBudget
    BY <2>1 DEF SafeRead
  <2>3. Above(q) \cap BanditSkipped = {} /\ q \in Sources /\ Untouched(q)
    BY <1>1, <1>5 DEF BanditMet, Untouched
  <2>4. tree[q].size <= MaxSourceBytes
    BY <1>2, <2>2, BanditAssumption
  <2> QED BY <2>1, <2>2, <2>3, <2>4 DEF BanditEligible
<1>8. BanditPassed' \ (bandit.authorized \cup {q}) = BanditPassed \ bandit.authorized
  BY <1>5
<1> QED BY <1>4, <1>5, <1>6, <1>7, <1>8 DEF BanditTells

LEMMA BanditTellsDescend ==
  ASSUME WorldOK, BanditInv, BanditTells, BanditDescend
  PROVE  BanditTells'
<1> SUFFICES ASSUME touched' = {} PROVE BanditTells'
  BY DEF BanditTells
<1>1. /\ bandit.pc = "files" /\ bandit.names = <<>>
      /\ touched = {} /\ tree' = tree /\ touched' = touched
      /\ bandit \in BanditType /\ bandit.directories \in Seq(Nodes) /\ bandit.sub \in Seq(Paths)
      /\ Range(bandit.names) = {}
  BY BanditSteps, EmptyRange DEF BanditDescend, BanditType, world
<1> DEFINE stay == {p \in Range(bandit.sub) : Look(p) # "link"}
           found == Sorted(stay)
           next == found \o bandit.directories
           pc == IF next = <<>> THEN "run" ELSE "list"
<1>2. stay \in SUBSET Paths
  BY <1>1, EmptyRange
<1>3. bandit' = [bandit EXCEPT !.pc = pc, !.directories = next]
  BY DEF BanditDescend
<1>4. \A d \in Range(bandit.sub) : BanditWalks(d, {"dir", "locked", "link"}) /\ d \in Paths
  BY <1>1, EmptyRange DEF BanditTells
<1>5. ASSUME NEW d \in stay PROVE BanditWalks(d, {"dir", "locked"})
  <2>1. d \in Range(bandit.sub) /\ Look(d) # "link" /\ d # Top
    BY <1>4, TopFacts
  <2>2. /\ d \in Paths /\ Anchored(Front(d)) /\ Kind(d) \in {"dir", "locked", "link"}
        /\ Upto(d) \cap BanditSkipped = {}
    BY <1>4, <2>1 DEF BanditWalks
  <2>3. Look(d) = Kind(d)
    BY <2>2, AnchoredAbove
  <2> QED BY <2>1, <2>2, <2>3 DEF BanditWalks
<1>6. ASSUME NEW p \in BanditMet, NEW d \in Range(bandit.sub), d \in Over(p)
      PROVE  d \in stay
  BY <1>6, BanditMetFacts
<1>7. stay \subseteq Range(bandit.sub)
  OBVIOUS
<1> HIDE DEF stay
<1>8. found \in Seq(Nodes) /\ Range(found) = stay
  <2>1. found \in Seq(stay) /\ Range(found) = stay
    BY <1>2, SortedFacts
  <2>2. stay \in SUBSET Nodes
    BY <1>2 DEF Nodes
  <2> QED BY <2>1, <2>2, SeqOfSubset
<1> HIDE DEF found
<1>9. next \in Seq(Nodes) /\ Range(next) = stay \cup Range(bandit.directories)
  BY <1>1, <1>8, ConcatRange
<1> HIDE DEF next
<1>10. pc \in {"run", "list"} /\ (pc = "run" => next = <<>>)
  OBVIOUS
<1> HIDE DEF pc
<1>11. /\ bandit'.pc = pc /\ bandit'.directories = next
       /\ bandit'.authorized = bandit.authorized
       /\ bandit'.withheld = bandit.withheld /\ bandit'.truncated = bandit.truncated
  BY <1>1, <1>3 DEF BanditType
<1>12. /\ BanditAhead = Range(bandit.directories) \cup Range(bandit.sub) /\ BanditWaiting = {}
       /\ BanditAhead' = stay \cup Range(bandit.directories) /\ BanditWaiting' = {}
  BY <1>1, <1>9, <1>10, <1>11 DEF BanditAhead, BanditWaiting
<1>13. ASSUME NEW p \in BanditMet PROVE BanditToMeet(p)' = BanditToMeet(p)
  BY <1>6, <1>7, <1>12 DEF BanditToMeet
<1>14. BanditMet' = BanditMet /\ BanditPassed' = BanditPassed /\ BanditEligible' = BanditEligible
  BY <1>1, <1>13, BanditSamePassed, BanditEligibleSame
<1>15. \A e \in Range(next) : BanditWalks(e, {"dir", "locked"})'
  BY <1>1, <1>5, <1>9, BanditWalksSame DEF BanditTells
<1> QED BY <1>1, <1>10, <1>11, <1>12, <1>14, <1>15 DEF BanditTells

\* Bandit's run has no part in the walk.
LEMMA BanditTellsEnd ==
  ASSUME WorldOK, BanditInv, BanditTells, BanditFails \/ BanditReports
  PROVE  BanditTells'
<1> SUFFICES ASSUME touched' = {} PROVE BanditTells'
  BY DEF BanditTells
<1>1. /\ bandit.pc = "run" /\ touched = {} /\ tree' = tree /\ touched' = touched
      /\ bandit \in BanditType
  <2>1. bandit.pc = "run" /\ UNCHANGED world
    BY Zenon DEF BanditFails, BanditReports
  <2> QED BY <2>1, BanditSteps DEF world
<1>2. /\ bandit'.pc = "over" /\ bandit'.directories = bandit.directories
      /\ bandit'.authorized = bandit.authorized
      /\ bandit'.withheld = bandit.withheld /\ bandit'.truncated = bandit.truncated
  <2>1. CASE BanditFails
    BY <1>1, <2>1 DEF BanditFails, BanditEnds, BanditType
  <2>2. CASE BanditReports
    <3>1. \E findings, unreported, more :
            bandit' = [bandit EXCEPT !.pc = "over", !.outcome = "report", !.findings = findings,
                                     !.unreported = unreported, !.more = more]
      BY <2>2, Zenon DEF BanditReports
    <3> QED BY <1>1, <3>1 DEF BanditType
  <2> QED BY <2>1, <2>2
<1>3. BanditAhead' = BanditAhead /\ BanditWaiting' = BanditWaiting
  BY <1>1, <1>2 DEF BanditAhead, BanditWaiting
<1>4. BanditMet' = BanditMet /\ BanditPassed' = BanditPassed /\ BanditEligible' = BanditEligible
  BY <1>1, <1>3, BanditSamePassed, BanditEligibleSame DEF BanditToMeet
<1> QED BY <1>1, <1>2, <1>3, <1>4, BanditWalksSame DEF BanditTells

LEMMA BanditTellsStep ==
  ASSUME WorldOK, BanditInv, BanditTells, BanditNext
  PROVE  BanditTells'
<1>1. CASE BanditWriteFails
  <2>1. touched' # {}
    BY <1>1 DEF BanditWriteFails, Fault, Disturb
  <2> QED BY <2>1 DEF BanditTells
<1> QED BY <1>1, BanditTellsList, BanditTellsSkip, BanditTellsCopy, BanditTellsDescend, BanditTellsEnd
        DEF BanditNext

LEMMA BanditQuiet ==
  ASSUME BanditInv, BanditTells
  PROVE  BanditQuietExact
<1> SUFFICES ASSUME BanditReported, touched = {}
             PROVE  BanditQuietExact
  BY DEF BanditQuietExact
<1>1. /\ bandit.pc = "over" /\ bandit \in BanditType /\ BanditWhole /\ BanditCovers
      /\ bandit.truncated \in BOOLEAN
  BY BanditSteps DEF BanditReported, BanditType
<1>2. Range(bandit.directories) = {}
  BY <1>1, EmptyRange DEF BanditTells
<1>3. BanditPassed = BanditMet
  BY <1>1, <1>2 DEF BanditPassed, BanditToMeet, BanditAhead, BanditWaiting
<1>4. bandit.truncated = (bandit.authorized # BanditEligible)
  <2>1. ASSUME bandit.truncated PROVE bandit.authorized # BanditEligible
    BY <1>1, <2>1 DEF BanditTells
  <2>2. ASSUME ~bandit.truncated PROVE bandit.authorized = BanditEligible
    BY <1>1, <2>2 DEF BanditTells, BanditCovers, BanditWhole
  <2> QED BY <1>1, <2>1, <2>2
<1> QED BY <1>1, <1>3, <1>4 DEF BanditQuietExact, BanditTells, BanditMet

-----------------------------------------------------------------------------
(* Refusals of the agent auditor *)

\* The way to a path is without links and with directories exactly if it can be
\* reached and is no link.
LEMMA LinkChainOk ==
  ASSUME NEW p \in Paths
  PROVE  LinkChain(p) = "ok" <=> Anchored(Front(p)) /\ Kind(p) \notin {"none", "link"}
<1> DEFINE bad == {q \in Upto(p) : \/ Kind(q) \in {"none", "link"}
                                   \/ (q # p /\ Kind(q) # "dir")}
<1>1. LinkChain(p) = "ok" <=> bad = {}
  BY DEF LinkChain
<1>2. p \in Upto(p) /\ Upto(Front(p)) = Above(p) /\ Above(p) = Upto(p) \ {p}
  BY PathFacts DEF Above
<1>3. bad = {} <=> Kind(p) \notin {"none", "link"} /\ \A q \in Above(p) : Kind(q) = "dir"
  BY <1>2
<1> QED BY <1>1, <1>2, <1>3 DEF Anchored

\* A target that is audited.
AgentFit ==
  LET p == scan.request.target IN
  /\ ~Blocked(p)
  /\ p = Top \/ (p \in Paths /\ Anchored(Front(p)) /\ Kind(p) \in {"dir", "file"})
  /\ p \in Paths /\ Kind(p) = "file" => tree[p].size <= Min({MaxFileBytes, MaxTotalBytes})

\* What is known of the target at each step.
AgentAsks == {"policy", "chain", "lstat", "readTarget", "open"}
AgentScans == {"list", "names", "enter", "choose"}
AgentJudged ==
  scan.pc # "off" /\ touched = {} =>
    LET t == scan.request.target IN
    /\ scan.pc \in {"chain", "lstat", "readTarget", "open"} => ~Blocked(t)
    /\ scan.pc \in {"lstat", "readTarget", "open"} =>
         t = Top \/ (t \in Paths /\ Anchored(Front(t)) /\ Kind(t) \notin {"none", "link"})
    /\ scan.pc = "readTarget" => t \in Paths /\ Kind(t) \in {"file", "hard"}
    /\ scan.pc = "open" => Kind(t) \in {"dir", "locked"}
    /\ scan.pc \in AgentScans => AgentFit /\ Kind(t) = "dir"
    /\ scan.pc = "read" => AgentFit /\ t \in Nodes
    /\ scan.pc = "over" /\ t # Outside => (scan.outcome = "report" <=> AgentFit)
    /\ scan.outcome = "report" => scan.pc = "over" /\ t \in Nodes

LEMMA AgentJudgedStands ==
  ASSUME WorldOK, WorldOK', Moves, AgentJudged, UNCHANGED scan
  PROVE  AgentJudged'
<1> SUFFICES ASSUME scan.pc # "off", touched' = {} PROVE AgentJudged'
  BY DEF AgentJudged
<1>1. touched = {} /\ tree' = tree
  BY QuietStill
<1>2. AgentFit' = AgentFit
  BY <1>1 DEF AgentFit, Anchored, Kind
<1>3. \A p : Kind(p)' = Kind(p) /\ Anchored(p)' = Anchored(p)
  BY <1>1 DEF Anchored, Kind
<1> QED BY <1>1, <1>2, <1>3 DEF AgentJudged

LEMMA AgentJudgedFirst ==
  ASSUME scan = AgentOff \/ \E request \in AgentRequests : scan = AgentBegin(request)
  PROVE  AgentJudged
BY DEF AgentJudged, AgentOff, AgentBegin, AgentScans

\* The target of a step before the walk.
LEMMA AgentTargetKinds ==
  ASSUME WorldOK, NEW t \in Nodes, t = Top \/ Anchored(Front(t))
  PROVE  /\ Look(t) = Kind(t) /\ (t = Top => Kind(t) = "dir")
         /\ Anchored(t) <=> Kind(t) = "dir"
         /\ \A q \in Above(t) : Look(q) = "dir"
         /\ Kind(t) \in Kinds
<1>1. CASE t = Top
  BY <1>1, TopFacts DEF Look, Kind, Anchored, Kinds
<1>2. CASE t # Top
  <2>1. t \in Paths /\ Anchored(Front(t)) /\ t \in Upto(t)
    BY <1>2, PathFacts DEF Nodes
  <2>2. Look(t) = Kind(t) /\ \A q \in Above(t) : Kind(q) = "dir" /\ Look(q) = "dir"
    BY <2>1, AnchoredAbove DEF Over
  <2>3. Anchored(t) <=> Kind(t) = "dir"
    BY <2>1, <2>2 DEF Anchored, Above
  <2>4. Kind(t) \in Kinds
    BY <1>2, <2>1 DEF WorldOK, Entries, Kind
  <2> QED BY <1>2, <2>2, <2>3, <2>4
<1> QED BY <1>1, <1>2

\* The end of a call that is refused.
LEMMA AgentRefused ==
  ASSUME scan \in AgentType, NEW outcome \in {"denied", "notFound", "outputLimit"}, AgentEnds(outcome),
         tree' = tree, scan.request.target # Outside => ~AgentFit
  PROVE  AgentJudged'
<1>1. /\ scan'.pc = "over" /\ scan'.outcome = outcome /\ scan'.request = scan.request
  BY DEF AgentEnds, AgentType
<1>2. AgentFit' = AgentFit
  BY <1>1 DEF AgentFit, Anchored, Kind
<1>3. scan'.outcome # "report" /\ scan'.pc \notin {"chain", "lstat", "readTarget", "open", "read"} \cup AgentScans
  BY <1>1 DEF AgentScans
<1>4. scan'.request.target # Outside => ~AgentFit'
  BY <1>1, <1>2
<1> QED BY <1>3, <1>4 DEF AgentJudged

LEMMA AgentJudgedStep ==
  ASSUME WorldOK, AgentInv, AgentJudged, AgentNext, touched' = {}
  PROVE  AgentJudged'
<1> DEFINE t == scan.request.target
<1>0. ~AgentListFails
  BY DEF AgentListFails, Fault, Disturb
<1>1. /\ UNCHANGED world /\ touched = {} /\ tree' = tree /\ scan.pc # "off"
      /\ scan \in AgentType /\ AgentPlace
  <2>1. UNCHANGED world /\ scan.pc # "off"
    BY <1>0 DEF AgentNext, AgentPolicy, AgentChain, AgentLstat, AgentReadTarget, AgentOpen, AgentList,
                AgentStat, AgentEnter, AgentDescend, AgentChoose, AgentRead, AgentReport
  <2> QED BY <2>1, AgentSteps DEF world
<1>2. /\ \A p : Kind(p)' = Kind(p) /\ Anchored(p)' = Anchored(p)
      /\ t \in Nodes \cup {Outside} /\ Outside \notin Nodes
  BY <1>1, AgentAssumption DEF Anchored, Kind, AgentType, Nodes
<1>3. CASE AgentPolicy
  <2>1. CASE AgentEnds("denied") /\ (t = Outside \/ Blocked(t) \/ Look(t) = "link"
                                     \/ \E q \in Above(t) : Look(q) = "link")
    <3>1. ASSUME t # Outside, AgentFit PROVE FALSE
      <4>1. t \in Nodes /\ (t = Top \/ Anchored(Front(t))) /\ ~Blocked(t)
            /\ (t = Top \/ Kind(t) \in {"dir", "file"})
        BY <1>2, <3>1 DEF AgentFit
      <4>2. Look(t) = Kind(t) /\ (t = Top => Kind(t) = "dir") /\ \A q \in Above(t) : Look(q) = "dir"
        BY <4>1, AgentTargetKinds
      <4> QED BY <2>1, <3>1, <4>1, <4>2
    <3> QED BY <1>1, <2>1, <3>1, AgentRefused
  <2>2. CASE AgentGoes("chain") /\ ~Blocked(t)
    <3>1. scan'.pc = "chain" /\ scan'.request = scan.request /\ scan'.outcome = scan.outcome
      BY <1>1, <2>2 DEF AgentGoes, AgentType
    <3>2. scan.outcome # "report"
      BY <1>1, <1>3 DEF AgentJudged, AgentPolicy
    <3> QED BY <2>2, <3>1, <3>2 DEF AgentJudged, AgentScans, Blocked
  <2> QED BY <1>3, <2>1, <2>2 DEF AgentPolicy
<1>4. CASE AgentChain
  <2>0. scan.pc = "chain" /\ t \in Nodes /\ ~Blocked(t) /\ scan.outcome # "report"
    BY <1>1, <1>4 DEF AgentChain, AgentPlace, AgentJudged
  <2>1. t = Top => LinkChain(t) = "ok"
    BY TopFacts DEF LinkChain
  <2>2. CASE LinkChain(t) = "ok" /\ AgentGoes("lstat")
    <3>1. scan'.pc = "lstat" /\ scan'.request = scan.request /\ scan'.outcome = scan.outcome
      BY <1>1, <2>2 DEF AgentGoes, AgentType
    <3>2. t = Top \/ (t \in Paths /\ Anchored(Front(t)) /\ Kind(t) \notin {"none", "link"})
      BY <2>0, <2>2, LinkChainOk DEF Nodes
    <3> QED BY <1>2, <2>0, <3>1, <3>2 DEF AgentJudged, AgentScans, Blocked
  <2>3. CASE LinkChain(t) # "ok" /\ AgentEnds(LinkChain(t))
    <3>1. ~AgentFit
      <4>1. t \in Paths
        BY <2>0, <2>1, <2>3 DEF Nodes
      <4> QED BY <2>3, <4>1, LinkChainOk, TopFacts DEF AgentFit
    <3>2. LinkChain(t) \in {"denied", "notFound"}
      BY <2>3, LinkChainAnswers
    <3> QED BY <1>1, <2>3, <3>1, <3>2, AgentRefused
  <2> QED BY <1>4, <2>2, <2>3 DEF AgentChain
<1>5. CASE AgentLstat
  <2>0. /\ scan.pc = "lstat" /\ t \in Nodes /\ ~Blocked(t) /\ scan.outcome # "report"
        /\ t = Top \/ (t \in Paths /\ Anchored(Front(t)) /\ Kind(t) \notin {"none", "link"})
    BY <1>1, <1>5 DEF AgentLstat, AgentPlace, AgentJudged
  <2>1. Look(t) = Kind(t) /\ (t = Top => Kind(t) = "dir") /\ Kind(t) \in Kinds
    BY <2>0, AgentTargetKinds
  <2>2. CASE Kind(t) \in {"file", "hard"}
    <3>1. scan' = [scan EXCEPT !.pc = "readTarget", !.size = tree[t].size] /\ t \in Paths
      BY <1>5, <2>0, <2>1, <2>2 DEF AgentLstat
    <3>2. scan'.pc = "readTarget" /\ scan'.request = scan.request /\ scan'.outcome = scan.outcome
      BY <1>1, <3>1 DEF AgentType
    <3> QED BY <1>2, <2>0, <2>2, <3>1, <3>2 DEF AgentJudged, AgentScans, Blocked
  <2>3. CASE Kind(t) \in {"dir", "locked"}
    <3>1. AgentGoes("open")
      BY <1>5, <2>1, <2>3 DEF AgentLstat
    <3>2. scan'.pc = "open" /\ scan'.request = scan.request /\ scan'.outcome = scan.outcome
      BY <1>1, <3>1 DEF AgentGoes, AgentType
    <3> QED BY <1>2, <2>0, <2>3, <3>1, <3>2 DEF AgentJudged, AgentScans, Blocked
  <2>4. CASE Kind(t) \notin {"file", "hard", "dir", "locked"}
    <3>1. ~AgentFit
      BY <2>1, <2>4 DEF AgentFit
    <3>2. AgentEnds("notFound") \/ AgentEnds("denied")
      BY <1>5, <2>1, <2>4 DEF AgentLstat
    <3> QED BY <1>1, <3>1, <3>2, AgentRefused
  <2> QED BY <2>2, <2>3, <2>4
<1>6. CASE AgentReadTarget
  <2>0. /\ scan.pc = "readTarget" /\ t \in Paths /\ ~Blocked(t) /\ scan.outcome # "report"
        /\ Anchored(Front(t)) /\ t # Top
    BY <1>1, <1>6, TopFacts DEF AgentReadTarget, AgentJudged
  <2> DEFINE most == Min({MaxFileBytes, MaxTotalBytes})
             read == SafeRead(t, most)
  <2>1. read.ok <=> AgentFit
    <3>1. read.ok <=> Kind(t) = "file" /\ tree[t].size <= most
      BY <2>0 DEF SafeRead
    <3>2. Kind(t) \in {"file", "hard"}
      BY <1>1, <2>0 DEF AgentJudged
    <3> QED BY <2>0, <3>1, <3>2 DEF AgentFit
  <2> HIDE DEF read
  <2>2. CASE read.ok
    <3>1. scan' = [scan EXCEPT !.pc = "read", !.discovered = 1, !.scanned = {t}, !.total = tree[t].size]
      BY <1>6, <2>2 DEF AgentReadTarget, read
    <3>2. scan'.pc = "read" /\ scan'.request = scan.request /\ scan'.outcome = scan.outcome
      BY <1>1, <3>1 DEF AgentType
    <3>3. AgentFit'
      BY <1>1, <2>1, <2>2, <3>2 DEF AgentFit, Anchored, Kind
    <3> QED BY <2>0, <3>2, <3>3 DEF AgentJudged, AgentScans, Nodes
  <2>3. CASE ~read.ok
    <3>1. AgentEnds("outputLimit") \/ AgentEnds("denied")
      BY <1>6, <2>3 DEF AgentReadTarget, read
    <3> QED BY <1>1, <2>1, <2>3, <3>1, AgentRefused
  <2> QED BY <2>2, <2>3
<1>7. CASE AgentOpen
  <2>0. /\ scan.pc = "open" /\ t \in Nodes /\ ~Blocked(t) /\ scan.outcome # "report"
        /\ t = Top \/ (t \in Paths /\ Anchored(Front(t)))
        /\ Kind(t) \in {"dir", "locked"}
    BY <1>1, <1>7 DEF AgentOpen, AgentPlace, AgentJudged
  <2>1. (Anchored(t) <=> Kind(t) = "dir") /\ (t = Top => Kind(t) = "dir")
    BY <2>0, AgentTargetKinds
  <2>2. CASE Anchored(t)
    <3>1. scan' = [scan EXCEPT !.pc = "list", !.directories = <<t>>]
      BY <1>7, <2>2 DEF AgentOpen
    <3>2. scan'.pc = "list" /\ scan'.request = scan.request /\ scan'.outcome = scan.outcome
      BY <1>1, <3>1 DEF AgentType
    <3>3. AgentFit
      BY <2>0, <2>1, <2>2 DEF AgentFit
    <3>4. AgentFit' /\ Kind(t)' = "dir"
      BY <1>1, <2>1, <2>2, <3>2, <3>3 DEF AgentFit, Anchored, Kind
    <3> QED BY <2>0, <3>2, <3>4 DEF AgentJudged, AgentScans
  <2>3. CASE ~Anchored(t)
    <3>1. AgentEnds("notFound") \/ AgentEnds("denied")
      BY <1>7, <2>3 DEF AgentOpen
    <3>2. ~AgentFit
      BY <1>1, <2>0, <2>1, <2>3 DEF AgentFit, AgentJudged
    <3> QED BY <1>1, <3>1, <3>2, AgentRefused
  <2> QED BY <2>2, <2>3
<1>8. ASSUME scan.pc \in AgentScans, scan'.pc \in AgentScans \cup {"read"}, scan'.request = scan.request,
             scan'.outcome = scan.outcome
      PROVE  AgentJudged'
  <2>1. AgentFit /\ Kind(t) = "dir" /\ scan.outcome # "report" /\ t \in Nodes
    BY <1>1, <1>8 DEF AgentJudged, AgentPlace, AgentScans
  <2>2. AgentFit' /\ Kind(t)' = "dir"
    BY <1>1, <1>8, <2>1 DEF AgentFit, Anchored, Kind
  <2> QED BY <1>8, <2>1, <2>2 DEF AgentJudged, AgentScans
<1>9. CASE AgentList \/ AgentStat \/ AgentEnter \/ AgentDescend \/ AgentChoose
  <2>1. scan.pc \in AgentScans
    BY <1>9 DEF AgentList, AgentStat, AgentEnter, AgentDescend, AgentChoose, AgentScans
  <2>2. /\ scan'.pc \in AgentScans \cup {"read"} /\ scan'.request = scan.request
        /\ scan'.outcome = scan.outcome
    <3>1. CASE AgentList
      BY <1>1, <3>1 DEF AgentList, AgentScans, AgentType
    <3>2. CASE AgentStat
      BY <1>1, <3>2 DEF AgentStat, AgentScans, AgentType
    <3>3. CASE AgentEnter
      BY <1>1, <3>3 DEF AgentEnter, AgentScans, AgentType
    <3>4. CASE AgentDescend
      BY <1>1, <3>4 DEF AgentDescend, AgentScans, AgentType
    <3>5. CASE AgentChoose
      BY <1>1, <3>5 DEF AgentChoose, AgentScans, AgentType
    <3> QED BY <1>9, <3>1, <3>2, <3>3, <3>4, <3>5
  <2> QED BY <1>8, <2>1, <2>2
<1>10. CASE AgentRead
  <2>1. scan.pc = "read" /\ AgentFit /\ t \in Nodes /\ scan.outcome # "report"
    BY <1>1, <1>10 DEF AgentRead, AgentJudged
  <2>2. scan'.pc = "read" /\ scan'.request = scan.request /\ scan'.outcome = scan.outcome
    BY <1>1, <1>10 DEF AgentRead, AgentType
  <2>3. AgentFit'
    BY <1>1, <2>1, <2>2 DEF AgentFit, Anchored, Kind
  <2> QED BY <2>1, <2>2, <2>3 DEF AgentJudged, AgentScans
<1>11. CASE AgentReport
  <2>1. scan.pc = "read" /\ AgentFit /\ t \in Nodes
    BY <1>1, <1>11 DEF AgentReport, AgentJudged
  <2>2. scan'.pc = "over" /\ scan'.request = scan.request /\ scan'.outcome = "report"
    BY <1>1, <1>11 DEF AgentReport, AgentType
  <2>3. AgentFit'
    BY <1>1, <2>1, <2>2 DEF AgentFit, Anchored, Kind
  <2> QED BY <2>1, <2>2, <2>3 DEF AgentJudged, AgentScans
<1> QED BY <1>0, <1>3, <1>4, <1>5, <1>6, <1>7, <1>9, <1>10, <1>11 DEF AgentNext

LEMMA AgentRefuses ==
  ASSUME WorldOK, AgentInv, AgentJudged
  PROVE  AgentRefusesForCause
<1> SUFFICES ASSUME scan.pc = "over", touched = {}, scan.request.target # Outside
             PROVE  AgentRefusesForCause
  BY DEF AgentRefusesForCause
<1>1. scan.request.target \in Nodes
  BY AgentSteps, AgentAssumption DEF AgentType, Nodes
<1>2. scan.outcome = "report" <=> AgentFit
  BY DEF AgentJudged
<1> DEFINE p == scan.request.target
           plain == Anchored(Front(p)) /\ Kind(p) \in {"dir", "file"}
<1>3. AgentFit =
        (~Blocked(p) /\ (p = Top \/ plain)
           /\ (p \in Paths /\ Kind(p) = "file" => tree[p].size <= Min({MaxFileBytes, MaxTotalBytes})))
  BY <1>1 DEF AgentFit, Nodes
<1> QED BY <1>2, <1>3 DEF AgentRefusesForCause

-----------------------------------------------------------------------------
(* What the agent auditor has met *)

\* A path is in a directory below another one if that one is above it.
LEMMA BelowTarget ==
  ASSUME NEW p \in Paths, NEW d \in Nodes
  PROVE  /\ IsPrefix(d, Front(p)) <=> d \in Over(p)
         /\ d \in Over(p) => IsPrefix(d, p) /\ d \notin {p}
<1>1. p \in Seq(STRING) /\ Len(p) \in Nat \ {0} /\ Front(p) \in Nodes /\ p \in Children(Front(p))
      /\ p # Top
  BY PathFacts
<1>2. Over(p) = Over(Front(p)) \cup {Front(p)}
  BY <1>1, ChildFacts
<1>3. Len(d) \in Nat /\ d \in Seq(STRING)
  BY LenOfNode
<1>4. ASSUME IsPrefix(d, Front(p)) PROVE d \in Over(p)
  <2>1. CASE Front(p) \in Paths
    <3>1. d = Front(p) \/ d \in Over(Front(p))
      BY <1>4, <2>1, PrefixIsAbove
    <3> QED BY <1>2, <3>1
  <2>2. CASE Front(p) = Top
    <3>1. Len(d) <= 0
      BY <1>4, <2>2, TopFacts DEF IsPrefix
    <3>2. d = Top
      BY <1>3, <3>1, Parts
    <3> QED BY <3>2 DEF Over
  <2> QED BY <1>1, <2>1, <2>2 DEF Nodes
<1>5. ASSUME d \in Over(p) PROVE IsPrefix(d, Front(p)) /\ IsPrefix(d, p) /\ d # p
  <2>1. PICK i \in 0..(Len(p) - 1) : d = Part(p, i)
    <3>1. CASE d = Top
      BY <1>1, <3>1, Parts
    <3>2. CASE d \in Above(p)
      <4>1. PICK i \in 1..Len(p) : d = Part(p, i)
        BY <1>1, <3>2, Parts DEF Above
      <4>2. i # Len(p)
        BY <1>1, <3>2, <4>1, Parts DEF Above
      <4> QED BY <1>1, <4>1, <4>2
    <3> QED BY <1>5, <3>1, <3>2 DEF Over
  <2>2. i \in 0..Len(p) /\ Len(p) - 1 \in 0..Len(p) /\ i \in 0..i /\ Len(p) - 1 \in Nat
    BY <1>1
  <2>3. Len(d) = i /\ Part(d, i) = Part(p, i)
    BY <1>1, <2>1, <2>2, Parts
  <2>4. Front(p) = Part(p, Len(p) - 1) /\ Len(Front(p)) = Len(p) - 1
        /\ Part(Front(p), i) = Part(p, i)
    <3>1. Front(p) = Part(p, Len(p) - 1)
      BY <1>1, Parts
    <3>2. PICK k \in 0..Len(p) : k = Len(p) - 1
      BY <2>2
    <3>3. i \in 0..k
      BY <2>1, <3>2
    <3>4. Len(Part(p, k)) = k /\ Part(Part(p, k), i) = Part(p, i)
      BY <1>1, <3>3, Parts
    <3> QED BY <3>1, <3>2, <3>4
  <2>5. Len(d) <= Len(p) /\ Len(d) <= Len(Front(p)) /\ Len(d) # Len(p)
    BY <1>1, <2>1, <2>3, <2>4
  <2> QED BY <2>3, <2>4, <2>5 DEF IsPrefix, Part
<1> QED BY <1>4, <1>5

\* What there is below the target outside of skipped directories, what the walk has
\* still to come to, and what it has gone past.
AgentMet ==
  LET d == scan.request.target IN
  {p \in Paths : /\ d \in Over(p) /\ Anchored(Front(p)) /\ Kind(p) # "none"
                 /\ (Above(p) \ Upto(d)) \cap SkippedNames = {}}
AgentDirs ==
  Range(scan.directories) \cup (IF scan.pc \in {"names", "enter"} THEN Range(scan.opened) ELSE {})
AgentNames == IF scan.pc \in {"names", "enter"} THEN Range(scan.names) ELSE {}
AgentToMeet(p) == (\E e \in AgentDirs : e \in Over(p)) \/ \E q \in AgentNames : q \in Upto(p)
AgentSeen == {p \in AgentMet : ~AgentToMeet(p)}

\* A directory of the walk: held open, and not below a skipped one.
AgentOpens(e) ==
  LET d == scan.request.target IN
  /\ e \in Nodes /\ Anchored(e) /\ d \in Over(e) \cup {e}
  /\ (Upto(e) \ Upto(d)) \cap SkippedNames = {}

\* Nothing is to be come to twice.
AgentApart ==
  /\ IsInjective(scan.directories)
  /\ \A e, f \in AgentDirs : e # f => e \notin Over(f)
  /\ \A q \in AgentNames : \A e \in AgentDirs : e \notin Over(q) /\ q \notin Over(e) /\ q # e
  /\ \A q, r \in AgentNames : q \notin Over(r)
  /\ scan.pc \in {"names", "enter"} =>
       /\ IsInjective(scan.names) /\ IsInjective(scan.opened)
       /\ Range(scan.opened) \cap Range(scan.directories) = {}

\* What was gone past is sorted out by its kind.
AgentCounted(seen) ==
  /\ scan.regular = {p \in seen : Kind(p) \in {"file", "hard", "other"}}
  /\ scan.links = {p \in seen : Kind(p) = "link"}
  /\ scan.withheld = Cardinality({p \in seen \ SkippedNames : Kind(p) = "locked"})
  /\ ~scan.truncated

AgentTells ==
  touched = {} =>
    /\ scan.pc \in AgentAsks => AgentCounted({})
    /\ scan.pc \in AgentScans =>
         /\ \A e \in AgentDirs : AgentOpens(e)
         /\ AgentNames \subseteq AgentMet
         /\ AgentApart
         /\ AgentCounted(AgentSeen)
    /\ scan.pc = "enter" => Head(scan.names) \notin SkippedNames
    /\ scan.pc = "choose" => scan.directories = <<>>

LEMMA AgentMetSame ==
  ASSUME tree' = tree, scan'.request = scan.request
  PROVE  /\ AgentMet' = AgentMet /\ \A e : AgentOpens(e)' = AgentOpens(e)
         /\ \A seen : /\ scan'.regular = scan.regular /\ scan'.links = scan.links
                       /\ scan'.withheld = scan.withheld /\ scan'.truncated = scan.truncated
                       /\ AgentCounted(seen)
                       => AgentCounted(seen)'
BY DEF AgentMet, AgentOpens, AgentCounted, Anchored, Kind

LEMMA AgentMetFacts ==
  ASSUME scan.request.target \in Nodes, NEW p \in AgentMet
  PROVE  /\ p \in Paths /\ Kind(p) # "none" /\ Anchored(Front(p))
         /\ \A e \in Over(p) : Kind(e) = "dir" /\ Look(e) = "dir"
         /\ \A q \in Upto(p) \ {p} :
              /\ q \in Over(p) /\ Kind(q) = "dir"
              /\ scan.request.target \in Over(q) => q \notin SkippedNames
<1> DEFINE d == scan.request.target
<1>1. p \in Paths /\ Anchored(Front(p)) /\ Kind(p) # "none" /\ d \in Over(p)
      /\ (Above(p) \ Upto(d)) \cap SkippedNames = {}
  BY DEF AgentMet
<1>2. \A e \in Over(p) : Kind(e) = "dir" /\ Look(e) = "dir"
  BY <1>1, AnchoredAbove
<1>3. ASSUME NEW q \in Upto(p), q # p
      PROVE  q \in Over(p) /\ Kind(q) = "dir" /\ (d \in Over(q) => q \notin SkippedNames)
  <2>1. q \in Above(p) /\ q \in Over(p) /\ q \in Paths
    BY <1>1, <1>3, PathFacts DEF Above, Over
  <2>2. ASSUME d \in Over(q) PROVE q \notin Upto(d)
    <3>1. Len(d) < Len(q) /\ Len(d) \in Nat /\ Len(q) \in Nat
      BY <2>1, <2>2, OverFacts, LenOfNode, PathFacts
    <3>2. CASE d = Top
      BY <3>2, TopFacts
    <3>3. CASE d \in Paths
      BY <3>1, <3>3, UptoFacts
    <3> QED BY <3>2, <3>3 DEF Nodes
  <2> QED BY <1>1, <1>2, <2>1, <2>2
<1> QED BY <1>1, <1>2, <1>3

LEMMA AgentTellsStands ==
  ASSUME WorldOK, WorldOK', Moves, AgentTells, UNCHANGED scan
  PROVE  AgentTells'
<1> SUFFICES ASSUME touched' = {} PROVE AgentTells'
  BY DEF AgentTells
<1>1. touched = {} /\ tree' = tree
  BY QuietStill
<1>2. AgentDirs' = AgentDirs /\ AgentNames' = AgentNames /\ AgentApart' = AgentApart
  BY DEF AgentDirs, AgentNames, AgentApart
<1>3. AgentMet' = AgentMet /\ AgentSeen' = AgentSeen /\ \A e : AgentOpens(e)' = AgentOpens(e)
  BY <1>1, <1>2, AgentMetSame DEF AgentSeen, AgentToMeet
<1>4. AgentCounted({}) => AgentCounted({})'
  BY <1>1, AgentMetSame
<1>5. AgentCounted(AgentSeen) => AgentCounted(AgentSeen)'
  BY <1>1, <1>3 DEF AgentCounted, Kind
<1> QED BY <1>1, <1>2, <1>3, <1>4, <1>5 DEF AgentTells

LEMMA AgentTellsFirst ==
  ASSUME scan = AgentOff \/ \E request \in AgentRequests : scan = AgentBegin(request)
  PROVE  AgentTells
<1>1. CASE scan = AgentOff
  BY <1>1 DEF AgentTells, AgentOff, AgentAsks, AgentScans
<1>2. CASE \E request \in AgentRequests : scan = AgentBegin(request)
  <2>1. scan.pc = "policy" /\ scan.regular = {} /\ scan.links = {} /\ scan.withheld = 0
        /\ scan.truncated = FALSE
    BY <1>2 DEF AgentBegin
  <2>2. {p \in {} \ SkippedNames : Kind(p) = "locked"} = {} /\ Cardinality({}) = 0
    BY FS_EmptySet
  <2>3. AgentCounted({})
    BY <2>1, <2>2 DEF AgentCounted
  <2> QED BY <2>1, <2>3 DEF AgentTells, AgentScans
<1> QED BY <1>1, <1>2

\* A sequence without repetitions, and one element more.
LEMMA AppendOnce ==
  ASSUME NEW S, NEW s \in Seq(S), NEW x \in S, IsInjective(s), x \notin Range(s)
  PROVE  IsInjective(Append(s, x))
<1>1. PICK n \in Nat : n = Len(s)
  BY EmptyRange
<1>2. /\ Append(s, x) \in Seq(S) /\ Len(Append(s, x)) = n + 1
      /\ \A i \in 1..n : Append(s, x)[i] = s[i]
      /\ Append(s, x)[n + 1] = x
  BY <1>1, AppendProperties
<1>3. DOMAIN s = 1..n /\ DOMAIN Append(s, x) = 1..(n + 1)
  BY <1>1, <1>2, LenProperties
<1>4. \A i \in 1..n : s[i] # x
  BY <1>3 DEF Range
<1>5. ASSUME NEW i \in 1..(n + 1), NEW j \in 1..(n + 1), Append(s, x)[i] = Append(s, x)[j]
      PROVE  i = j
  <2>1. CASE i = n + 1
    BY <1>2, <1>4, <1>5, <2>1
  <2>2. CASE j = n + 1
    BY <1>2, <1>4, <1>5, <2>2
  <2>3. CASE i \in 1..n /\ j \in 1..n
    BY <1>2, <1>3, <1>5, <2>3 DEF IsInjective
  <2> QED BY <2>1, <2>2, <2>3
<1> QED BY <1>3, <1>5 DEF IsInjective

\* The walk begins at the target.
LEMMA AgentTellsOpen ==
  ASSUME WorldOK, AgentInv, AgentTells, AgentOpen
  PROVE  AgentTells'
<1> SUFFICES ASSUME touched' = {} PROVE AgentTells'
  BY DEF AgentTells
<1>1. /\ scan.pc = "open" /\ scan \in AgentType /\ UNCHANGED world /\ tree' = tree /\ touched = {}
      /\ scan.request.target \in Nodes
  BY AgentSteps DEF AgentOpen, AgentPlace, world
<1>0. PICK d \in Nodes : d = scan.request.target
  BY <1>1
<1>2. AgentCounted({})
  BY <1>1 DEF AgentTells, AgentAsks
<1>3. CASE \E outcome : AgentEnds(outcome)
  <2>1. scan'.pc = "over"
    BY <1>1, <1>3 DEF AgentEnds, AgentType
  <2> QED BY <2>1 DEF AgentTells, AgentAsks, AgentScans
<1>4. CASE Anchored(d) /\ scan' = [scan EXCEPT !.pc = "list", !.directories = <<d>>]
  <2>1. <<d>> \in Seq(Nodes) /\ Range(<<d>>) = {d} /\ IsInjective(<<d>>)
    BY SingletonRange DEF IsInjective
  <2>2. /\ scan'.pc = "list" /\ scan'.directories = <<d>> /\ scan'.request = scan.request
        /\ scan'.regular = scan.regular /\ scan'.links = scan.links
        /\ scan'.withheld = scan.withheld /\ scan'.truncated = scan.truncated
    BY <1>1, <1>4 DEF AgentType
  <2>3. AgentDirs' = {d} /\ AgentNames' = {}
    BY <2>1, <2>2 DEF AgentDirs, AgentNames
  <2>4. AgentSeen' = {}
    <3>1. \A p \in AgentMet' : d \in Over(p)
      BY <1>0, <2>2 DEF AgentMet
    <3> QED BY <2>3, <3>1 DEF AgentSeen, AgentToMeet
  <2>5. AgentCounted({})'
    BY <1>1, <1>2, <2>2, AgentMetSame
  <2>6. AgentOpens(d)'
    BY <1>0, <1>1, <1>4, <2>2 DEF AgentOpens, Anchored, Kind
  <2>7. AgentApart'
    BY <2>1, <2>2, <2>3 DEF AgentApart
  <2> QED BY <2>2, <2>3, <2>4, <2>5, <2>6, <2>7 DEF AgentTells, AgentAsks
<1> QED BY <1>0, <1>3, <1>4 DEF AgentOpen

LEMMA AgentTellsList ==
  ASSUME WorldOK, AgentInv, AgentTells, AgentList
  PROVE  AgentTells'
<1> SUFFICES ASSUME touched' = {} PROVE AgentTells'
  BY DEF AgentTells
<1>1. /\ scan.pc = "list" /\ scan \in AgentType /\ UNCHANGED world /\ tree' = tree /\ touched = {}
      /\ scan.directories # <<>> /\ scan.directories \in Seq(Nodes)
      /\ scan.request.target \in Nodes
  BY AgentSteps DEF AgentList, AgentPlace, AgentType, world
<1>0. PICK d \in Nodes : d = Head(scan.directories)
  BY <1>1, HeadRange
<1> DEFINE met == {p \in Children(d) : Kind(p) # "none"}
           names == Sorted(met)
           rest == Tail(scan.directories)
           t == scan.request.target
<1>2. met \in SUBSET Children(d) /\ Children(d) \in SUBSET Paths
  BY DEF Children
<1>3. names \in Seq(Paths) /\ Range(names) = met /\ IsInjective(names)
  <2>1. met \in SUBSET Paths
    BY <1>2
  <2> HIDE DEF met
  <2> QED BY <2>1, SortedFacts, SeqOfSubset
<1>4. /\ AgentApart /\ AgentCounted(AgentSeen) /\ AgentDirs = Range(scan.directories)
      /\ AgentNames = {} /\ \A e \in AgentDirs : AgentOpens(e)
  BY <1>1 DEF AgentTells, AgentScans, AgentDirs, AgentNames
<1>5. /\ Range(scan.directories) = {d} \cup Range(rest) /\ rest \in Seq(Nodes)
      /\ IsInjective(rest) /\ d \notin Range(rest)
  BY <1>0, <1>1, <1>4, HeadRange DEF AgentApart
<1>6. scan' = [scan EXCEPT !.pc = "names", !.directories = rest, !.names = names, !.opened = <<>>]
  BY <1>0 DEF AgentList
<1>7. /\ Anchored(d) /\ Kind(d) = "dir" /\ t \in Over(d) \cup {d}
      /\ (Upto(d) \ Upto(t)) \cap SkippedNames = {}
  <2>1. AgentOpens(d)
    BY <1>4, <1>5
  <2>2. Kind(d) = "dir"
    BY <2>1, PathFacts DEF AgentOpens, Anchored, Nodes, Kind
  <2> QED BY <2>1, <2>2 DEF AgentOpens
<1>8. ASSUME NEW q \in met PROVE q \in AgentMet
  <2>1. q \in Paths /\ Front(q) = d /\ Kind(q) # "none"
    BY <1>2 DEF Children
  <2>2. Over(q) = Over(d) \cup {d} /\ Above(q) = Upto(d)
    BY <1>2, <2>1, ChildFacts, PathFacts
  <2> QED BY <1>7, <2>1, <2>2 DEF AgentMet
<1>9. ASSUME NEW p \in AgentMet PROVE d \in Over(p) <=> \E q \in met : q \in Upto(p)
  <2>1. p \in Paths
    BY DEF AgentMet
  <2>2. ASSUME d \in Over(p) PROVE \E q \in met : q \in Upto(p)
    <3>1. PICK q \in Upto(p) : q \in Children(d)
      BY <2>1, <2>2, NextDown
    <3>2. Kind(q) # "none"
      BY <1>1, AgentMetFacts
    <3> QED BY <3>1, <3>2
  <2>3. ASSUME NEW q \in met, q \in Upto(p) PROVE d \in Over(p)
    <3>1. d \in Over(q) /\ q \in Paths
      BY <1>2, ChildFacts
    <3>2. Over(q) \subseteq Over(p)
      BY <2>1, <2>3, UptoFacts
    <3> QED BY <3>1, <3>2
  <2> QED BY <2>2, <2>3
<1> DEFINE A == Range(scan.directories)
<1>10. /\ \A q \in met : \A e \in A \ {d} : e \notin Over(q) /\ q \notin Over(e) /\ q # e
       /\ \A q, r \in met : q \notin Over(r)
  <2>1. A \in SUBSET Nodes /\ \A e, f \in A : e # f => e \notin Over(f)
    BY <1>1, <1>4, EmptyRange DEF AgentApart
  <2>2. d \in A
    BY <1>5
  <2> HIDE DEF met, A
  <2> QED BY <1>2, <2>1, <2>2, GoingDown
<1> HIDE DEF met, names, rest
<1>11. /\ scan'.pc = "names" /\ scan'.directories = rest /\ scan'.names = names
       /\ scan'.opened = <<>> /\ scan'.request = scan.request
       /\ scan'.regular = scan.regular /\ scan'.links = scan.links
       /\ scan'.withheld = scan.withheld /\ scan'.truncated = scan.truncated
  BY <1>1, <1>6 DEF AgentType
<1>12. AgentDirs' = Range(rest) /\ AgentNames' = met /\ Range(<<>>) = {}
  BY <1>3, <1>11, EmptyRange DEF AgentDirs, AgentNames
<1>13. AgentMet' = AgentMet /\ \A e : AgentOpens(e)' = AgentOpens(e)
  BY <1>1, <1>11, AgentMetSame
<1>14. \A p \in AgentMet : AgentToMeet(p)' = AgentToMeet(p)
  <2>1. ASSUME NEW p \in AgentMet PROVE AgentToMeet(p)' <=> AgentToMeet(p)
    <3>1. AgentToMeet(p) <=> d \in Over(p) \/ \E e \in Range(rest) : e \in Over(p)
      BY <1>4, <1>5 DEF AgentToMeet
    <3>2. AgentToMeet(p)' <=> (\E e \in Range(rest) : e \in Over(p)) \/ \E q \in met : q \in Upto(p)
      BY <1>12 DEF AgentToMeet
    <3> QED BY <1>9, <3>1, <3>2
  <2> QED BY <2>1 DEF AgentToMeet
<1>15. AgentSeen' = AgentSeen
  BY <1>13, <1>14 DEF AgentSeen
<1>16. AgentCounted(AgentSeen)'
  BY <1>1, <1>4, <1>11, <1>15 DEF AgentCounted, Kind
<1>17. AgentApart'
  <2>1. \A e \in Range(rest) : e \in A \ {d}
    BY <1>5
  <2>2. \A e, f \in Range(rest) : e # f => e \notin Over(f)
    BY <1>4, <2>1 DEF AgentApart
  <2>3. IsInjective(<<>>)
    BY DEF IsInjective
  <2> QED BY <1>3, <1>5, <1>10, <1>11, <1>12, <2>1, <2>2, <2>3 DEF AgentApart
<1>18. AgentNames' \subseteq AgentMet'
  BY <1>8, <1>12, <1>13
<1>19. \A e \in AgentDirs' : AgentOpens(e)'
  BY <1>4, <1>5, <1>12, <1>13
<1> QED BY <1>11, <1>16, <1>17, <1>18, <1>19 DEF AgentTells, AgentAsks

\* One name more is gone past: if it is a directory that is walked, that was opened.
LEMMA AgentGoesPast ==
  ASSUME WorldOK, AgentInv, AgentTells, scan.pc \in {"names", "enter"}, scan.names # <<>>,
         touched = {}, tree' = tree,
         NEW q, q = Head(scan.names), scan'.pc = "names", scan'.names = Tail(scan.names),
         scan'.directories = scan.directories, scan'.request = scan.request,
         NEW opens \in BOOLEAN, opens <=> Kind(q) = "dir" /\ q \notin SkippedNames,
         scan'.opened = IF opens THEN Append(scan.opened, q) ELSE scan.opened
  PROVE  /\ q \in AgentMet /\ q \notin AgentSeen /\ AgentSeen' = AgentSeen \cup {q}
         /\ AgentCounted(AgentSeen) /\ AgentNames' \subseteq AgentMet' /\ AgentApart'
         /\ \A e \in AgentDirs' : AgentOpens(e)'
<1> DEFINE t == scan.request.target
<1>1. /\ scan \in AgentType /\ scan.names \in Seq(Paths) /\ scan.opened \in Seq(Nodes)
      /\ scan.directories \in Seq(Nodes) /\ t \in Nodes
  BY AgentSteps DEF AgentPlace, AgentType
<1>2. /\ AgentApart /\ AgentCounted(AgentSeen) /\ AgentNames \subseteq AgentMet
      /\ AgentDirs = Range(scan.directories) \cup Range(scan.opened)
      /\ AgentNames = Range(scan.names) /\ \A e \in AgentDirs : AgentOpens(e)
  BY DEF AgentTells, AgentScans, AgentDirs, AgentNames
<1>3. /\ Range(scan.names) = {q} \cup Range(Tail(scan.names)) /\ Tail(scan.names) \in Seq(Paths)
      /\ IsInjective(Tail(scan.names)) /\ q \notin Range(Tail(scan.names)) /\ q \in Paths
  BY <1>1, <1>2, HeadRange DEF AgentApart
<1>4. q \in AgentMet /\ q \in Nodes /\ q \in Upto(q)
  BY <1>2, <1>3, PathFacts DEF Nodes
<1>5. AgentMet' = AgentMet /\ \A e : AgentOpens(e)' = AgentOpens(e)
  BY AgentMetSame
<1> DEFINE more == IF opens THEN {q} ELSE {}
<1>6. Range(scan'.opened) = Range(scan.opened) \cup more
  BY <1>1, <1>4, AppendRange
<1>7. AgentDirs' = AgentDirs \cup more /\ AgentNames' = Range(Tail(scan.names))
  BY <1>2, <1>6 DEF AgentDirs, AgentNames
<1>8. t \in Over(q) /\ Anchored(Front(q)) /\ (Above(q) \ Upto(t)) \cap SkippedNames = {}
  BY <1>4 DEF AgentMet
<1>9. opens => AgentOpens(q)
  <2>1. Upto(q) = Above(q) \cup {q} /\ Upto(Front(q)) = Above(q)
    BY <1>3, PathFacts DEF Above
  <2>2. opens => Anchored(q)
    BY <1>8, <2>1 DEF Anchored
  <2> QED BY <1>4, <1>8, <2>1, <2>2 DEF AgentOpens
<1>10. /\ \A e \in AgentDirs : e \notin Over(q) /\ q \notin Over(e) /\ q # e
       /\ \A r \in AgentNames : r \notin Over(q) /\ q \notin Over(r)
  BY <1>2, <1>3 DEF AgentApart
<1>11. q \notin Over(q)
  BY <1>3, OverFacts
<1>12. \A r \in Range(Tail(scan.names)) : r \notin Upto(q)
  <2>1. ASSUME NEW r \in Range(Tail(scan.names)), r \in Upto(q) PROVE FALSE
    <3>1. r # q /\ r \in AgentNames
      BY <1>2, <1>3, <2>1
    <3>2. r \in Over(q)
      BY <2>1, <3>1 DEF Over, Above
    <3> QED BY <1>10, <3>1, <3>2
  <2> QED BY <2>1
<1>13. ASSUME NEW p \in AgentMet, q \in Upto(p), q # p PROVE opens /\ q \in Over(p)
  BY <1>1, <1>8, <1>13, AgentMetFacts
<1>14. ASSUME NEW p \in AgentMet, q \in Over(p) PROVE q \in Upto(p)
  <2>1. p \in Paths /\ q # Top
    BY <1>3, PathFacts DEF AgentMet
  <2> QED BY <1>14, <2>1 DEF Over, Above
<1>15. ASSUME NEW p \in AgentMet PROVE AgentToMeet(p) <=> p = q \/ AgentToMeet(p)'
  <2>1. AgentToMeet(p) <=> \/ \E e \in AgentDirs : e \in Over(p)
                           \/ q \in Upto(p) \/ \E r \in Range(Tail(scan.names)) : r \in Upto(p)
    BY <1>2, <1>3 DEF AgentToMeet
  <2>2. AgentToMeet(p)' <=> \/ \E e \in AgentDirs : e \in Over(p)
                            \/ opens /\ q \in Over(p)
                            \/ \E r \in Range(Tail(scan.names)) : r \in Upto(p)
    BY <1>7 DEF AgentToMeet
  <2>3. q \in Upto(p) <=> p = q \/ (opens /\ q \in Over(p))
    BY <1>4, <1>13, <1>14
  <2> QED BY <2>1, <2>2, <2>3
<1>16. AgentToMeet(q) /\ ~AgentToMeet(q)'
  <2>1. AgentToMeet(q)
    BY <1>4, <1>15
  <2>2. ASSUME NEW e \in AgentDirs' PROVE e \notin Over(q)
    BY <1>7, <1>10, <1>11
  <2> QED BY <1>7, <1>12, <2>1, <2>2 DEF AgentToMeet
<1>17. AgentSeen' = AgentSeen \cup {q} /\ q \notin AgentSeen
  BY <1>4, <1>5, <1>15, <1>16 DEF AgentSeen
<1>18. AgentApart'
  <2>1. IsInjective(scan'.opened) /\ Range(scan'.opened) \cap Range(scan.directories) = {}
    <3>1. q \notin Range(scan.opened) /\ q \notin Range(scan.directories)
      BY <1>2, <1>10
    <3>2. IsInjective(Append(scan.opened, q))
      BY <1>1, <1>2, <1>4, <3>1, AppendOnce DEF AgentApart
    <3> QED BY <1>2, <1>6, <3>1, <3>2 DEF AgentApart
  <2>2. \A e, f \in AgentDirs' : e # f => e \notin Over(f)
    BY <1>2, <1>7, <1>10, <1>11 DEF AgentApart
  <2>3. \A r \in AgentNames' : r \in AgentNames /\ r # q
    BY <1>2, <1>3, <1>7
  <2>4. \A r \in AgentNames' : \A e \in AgentDirs' : e \notin Over(r) /\ r \notin Over(e) /\ r # e
    BY <1>2, <1>7, <1>10, <2>3 DEF AgentApart
  <2>5. \A r, s \in AgentNames' : r \notin Over(s)
    BY <1>2, <2>3 DEF AgentApart
  <2> HIDE DEF more
  <2> QED BY <1>2, <1>3, <2>1, <2>2, <2>4, <2>5 DEF AgentApart
<1>19. AgentNames' \subseteq AgentMet'
  BY <1>2, <1>3, <1>5, <1>7
<1>20. \A e \in AgentDirs' : AgentOpens(e)'
  BY <1>2, <1>5, <1>7, <1>9
<1> QED BY <1>2, <1>4, <1>17, <1>18, <1>19, <1>20

\* One path more to sort out.
LEMMA AgentCountsMore ==
  ASSUME NEW seen \in SUBSET Paths, NEW q \in Paths, q \notin seen, AgentCounted(seen)
  PROVE  LET all == seen \cup {q} IN
         /\ {p \in all : Kind(p) \in {"file", "hard", "other"}} =
              IF Kind(q) \in {"file", "hard", "other"} THEN scan.regular \cup {q} ELSE scan.regular
         /\ {p \in all : Kind(p) = "link"} =
              IF Kind(q) = "link" THEN scan.links \cup {q} ELSE scan.links
         /\ Cardinality({p \in all \ SkippedNames : Kind(p) = "locked"}) =
              IF Kind(q) = "locked" /\ q \notin SkippedNames THEN scan.withheld + 1 ELSE scan.withheld
         /\ ~scan.truncated
<1> DEFINE aside == {p \in seen \ SkippedNames : Kind(p) = "locked"}
           next == {p \in (seen \cup {q}) \ SkippedNames : Kind(p) = "locked"}
           more == Kind(q) = "locked" /\ q \notin SkippedNames
<1>1. aside \in SUBSET Paths /\ q \notin aside
  OBVIOUS
<1>2. next = IF more THEN aside \cup {q} ELSE aside
  OBVIOUS
<1>3. scan.withheld = Cardinality(aside)
  BY DEF AgentCounted
<1> HIDE DEF aside, next, more
<1>4. Cardinality(next) = IF more THEN scan.withheld + 1 ELSE scan.withheld
  BY <1>1, <1>2, <1>3, OnePathMore
<1>5. /\ {p \in seen \cup {q} : Kind(p) \in {"file", "hard", "other"}} =
           IF Kind(q) \in {"file", "hard", "other"} THEN scan.regular \cup {q} ELSE scan.regular
      /\ {p \in seen \cup {q} : Kind(p) = "link"} =
           IF Kind(q) = "link" THEN scan.links \cup {q} ELSE scan.links
      /\ ~scan.truncated
  BY DEF AgentCounted
<1> QED BY <1>4, <1>5 DEF next, more

LEMMA AgentTellsStat ==
  ASSUME WorldOK, AgentInv, AgentTells, AgentStat
  PROVE  AgentTells'
<1> SUFFICES ASSUME touched' = {} PROVE AgentTells'
  BY DEF AgentTells
<1>1. /\ scan.pc = "names" /\ scan \in AgentType /\ UNCHANGED world /\ tree' = tree /\ touched = {}
      /\ scan.names # <<>> /\ scan.names \in Seq(Paths)
  BY AgentSteps DEF AgentStat, AgentType, world
<1>0. PICK q \in Paths : q = Head(scan.names)
  BY <1>1, HeadRange
<1>2. /\ AgentNames = Range(scan.names) /\ q \in AgentNames /\ q \in AgentMet
  <2>1. AgentNames = Range(scan.names) /\ q \in Range(scan.names)
    BY <1>0, <1>1, HeadRange DEF AgentNames
  <2> QED BY <1>1, <2>1 DEF AgentTells, AgentScans
<1>3. Kind(q) \in Kinds \ {"none"}
  BY <1>0, <1>2, PathFacts DEF WorldOK, Entries, Kind, AgentMet
<1>4. CASE Kind(q) \in {"dir", "locked"} /\ q \notin SkippedNames
  <2>1. scan' = [scan EXCEPT !.pc = "enter"]
    BY <1>0, <1>4 DEF AgentStat
  <2>2. /\ scan'.pc = "enter" /\ scan'.names = scan.names /\ scan'.opened = scan.opened
        /\ scan'.directories = scan.directories /\ scan'.request = scan.request
        /\ scan'.regular = scan.regular /\ scan'.links = scan.links
        /\ scan'.withheld = scan.withheld /\ scan'.truncated = scan.truncated
    BY <1>1, <2>1 DEF AgentType
  <2>3. AgentDirs' = AgentDirs /\ AgentNames' = AgentNames
    BY <1>1, <2>2 DEF AgentDirs, AgentNames
  <2>4. AgentApart => AgentApart'
    BY <1>1, <2>2, <2>3 DEF AgentApart
  <2>5. AgentMet' = AgentMet /\ AgentSeen' = AgentSeen /\ \A e : AgentOpens(e)' = AgentOpens(e)
    BY <1>1, <2>2, <2>3, AgentMetSame DEF AgentSeen, AgentToMeet
  <2>6. AgentCounted(AgentSeen) => AgentCounted(AgentSeen)'
    BY <1>1, <2>2, <2>5 DEF AgentCounted, Kind
  <2>7. /\ AgentApart /\ AgentCounted(AgentSeen) /\ AgentNames \subseteq AgentMet
        /\ \A e \in AgentDirs : AgentOpens(e)
    BY <1>1 DEF AgentTells, AgentScans
  <2> QED BY <1>0, <1>4, <2>2, <2>3, <2>4, <2>5, <2>6, <2>7 DEF AgentTells, AgentAsks
<1>5. CASE Kind(q) \notin {"dir", "locked"} \/ q \in SkippedNames
  <2> DEFINE regular == IF Kind(q) \in {"file", "hard", "other"} THEN scan.regular \cup {q} ELSE scan.regular
             links == IF Kind(q) = "link" THEN scan.links \cup {q} ELSE scan.links
  <2>1. scan' = [scan EXCEPT !.names = Tail(scan.names), !.regular = regular, !.links = links]
    <3>1. CASE Kind(q) = "link"
      <4>1. scan' = [scan EXCEPT !.names = Tail(scan.names), !.links = scan.links \cup {q}]
        BY <1>0, <1>1, <3>1 DEF AgentStat, AgentType
      <4> QED BY <1>1, <3>1, <4>1 DEF AgentType
    <3>2. CASE Kind(q) \in {"dir", "locked"} /\ q \in SkippedNames
      <4>1. scan' = [scan EXCEPT !.names = Tail(scan.names)]
        BY <1>0, <1>1, <3>2 DEF AgentStat
      <4> QED BY <1>1, <3>2, <4>1 DEF AgentType
    <3>3. CASE Kind(q) \in {"file", "hard", "other"}
      <4>1. scan' = [scan EXCEPT !.names = Tail(scan.names), !.regular = scan.regular \cup {q}]
        BY <1>0, <1>1, <3>3 DEF AgentStat, AgentType
      <4> QED BY <1>1, <3>3, <4>1 DEF AgentType
    <3> QED BY <1>3, <1>5, <3>1, <3>2, <3>3 DEF Kinds
  <2> HIDE DEF regular, links
  <2>2. /\ scan'.pc = "names" /\ scan'.names = Tail(scan.names) /\ scan'.opened = scan.opened
        /\ scan'.directories = scan.directories /\ scan'.request = scan.request
        /\ scan'.regular = regular /\ scan'.links = links
        /\ scan'.withheld = scan.withheld /\ scan'.truncated = scan.truncated
    BY <1>1, <2>1 DEF AgentType
  <2>3. /\ q \notin AgentSeen /\ AgentSeen' = AgentSeen \cup {q}
        /\ AgentCounted(AgentSeen) /\ AgentNames' \subseteq AgentMet' /\ AgentApart'
        /\ \A e \in AgentDirs' : AgentOpens(e)'
    <3>1. FALSE <=> Kind(q) = "dir" /\ q \notin SkippedNames
      BY <1>5
    <3>2. scan'.opened = IF FALSE THEN Append(scan.opened, q) ELSE scan.opened
      BY <2>2
    <3> QED BY <1>0, <1>1, <2>2, <3>1, <3>2, AgentGoesPast
  <2>4. AgentSeen \in SUBSET Paths
    BY DEF AgentSeen, AgentMet
  <2>5. AgentCounted(AgentSeen)'
    <3>1. ~(Kind(q) = "locked" /\ q \notin SkippedNames)
      BY <1>5
    <3>2. \A p : Kind(p)' = Kind(p)
      BY <1>1 DEF Kind
    <3>3. /\ {p \in AgentSeen' : Kind(p) \in {"file", "hard", "other"}} = regular
          /\ {p \in AgentSeen' : Kind(p) = "link"} = links
          /\ Cardinality({p \in AgentSeen' \ SkippedNames : Kind(p) = "locked"}) = scan.withheld
          /\ ~scan.truncated
      BY <1>0, <2>3, <2>4, <3>1, AgentCountsMore DEF regular, links
    <3> QED BY <2>2, <3>2, <3>3 DEF AgentCounted
  <2> QED BY <2>2, <2>3, <2>5 DEF AgentTells, AgentAsks
<1> QED BY <1>4, <1>5

LEMMA AgentTellsEnter ==
  ASSUME WorldOK, AgentInv, AgentTells, AgentEnter
  PROVE  AgentTells'
<1> SUFFICES ASSUME touched' = {} PROVE AgentTells'
  BY DEF AgentTells
<1>1. /\ scan.pc = "enter" /\ scan \in AgentType /\ UNCHANGED world /\ tree' = tree /\ touched = {}
      /\ scan.names # <<>> /\ scan.names \in Seq(Paths) /\ scan.withheld \in Nat /\ AgentPlace
  BY AgentSteps DEF AgentEnter, AgentPlace, AgentType, world
<1>0. PICK q \in Paths : q = Head(scan.names)
  BY <1>1, HeadRange
<1>2. Kind(q) \in {"dir", "locked"} /\ q \notin SkippedNames
  BY <1>0, <1>1 DEF AgentPlace, AgentTells, Untouched
<1> DEFINE opened == IF Kind(q) = "dir" THEN Append(scan.opened, q) ELSE scan.opened
           withheld == IF Kind(q) = "locked" THEN scan.withheld + 1 ELSE scan.withheld
<1>3. scan' = [scan EXCEPT !.names = Tail(scan.names), !.pc = "names", !.opened = opened,
                           !.withheld = withheld]
  <2>1. CASE Kind(q) = "dir"
    <3>1. scan' = [scan EXCEPT !.names = Tail(scan.names), !.pc = "names",
                               !.opened = Append(scan.opened, q)]
      BY <1>0, <1>1, <2>1 DEF AgentEnter, AgentType
    <3> QED BY <1>1, <2>1, <3>1 DEF AgentType
  <2>2. CASE Kind(q) = "locked"
    <3>1. scan' = [scan EXCEPT !.names = Tail(scan.names), !.pc = "names",
                               !.withheld = scan.withheld + 1]
      BY <1>0, <1>1, <2>2 DEF AgentEnter, AgentType
    <3> QED BY <1>1, <2>2, <3>1 DEF AgentType
  <2> QED BY <1>2, <2>1, <2>2
<1>4. /\ scan'.pc = "names" /\ scan'.names = Tail(scan.names) /\ scan'.opened = opened
      /\ scan'.directories = scan.directories /\ scan'.request = scan.request
      /\ scan'.regular = scan.regular /\ scan'.links = scan.links
      /\ scan'.withheld = withheld /\ scan'.truncated = scan.truncated
  BY <1>1, <1>3 DEF AgentType
<1>5. PICK opens \in BOOLEAN : opens <=> Kind(q) = "dir"
  OBVIOUS
<1>6. /\ q \notin AgentSeen /\ AgentSeen' = AgentSeen \cup {q}
      /\ AgentCounted(AgentSeen) /\ AgentNames' \subseteq AgentMet' /\ AgentApart'
      /\ \A e \in AgentDirs' : AgentOpens(e)'
  <2>1. opens <=> Kind(q) = "dir" /\ q \notin SkippedNames
    BY <1>2, <1>5
  <2>2. scan'.opened = IF opens THEN Append(scan.opened, q) ELSE scan.opened
    BY <1>4, <1>5
  <2> QED BY <1>0, <1>1, <1>4, <2>1, <2>2, AgentGoesPast
<1>7. AgentSeen \in SUBSET Paths
  BY DEF AgentSeen, AgentMet
<1>8. AgentCounted(AgentSeen)'
  <2>1. \A p : Kind(p)' = Kind(p)
    BY <1>1 DEF Kind
  <2>2. /\ {p \in AgentSeen' : Kind(p) \in {"file", "hard", "other"}} = scan.regular
        /\ {p \in AgentSeen' : Kind(p) = "link"} = scan.links
        /\ Cardinality({p \in AgentSeen' \ SkippedNames : Kind(p) = "locked"}) = withheld
        /\ ~scan.truncated
    BY <1>2, <1>6, <1>7, AgentCountsMore
  <2> QED BY <1>4, <2>1, <2>2 DEF AgentCounted
<1> QED BY <1>4, <1>6, <1>8 DEF AgentTells, AgentAsks

LEMMA AgentTellsDescend ==
  ASSUME WorldOK, AgentInv, AgentTells, AgentDescend
  PROVE  AgentTells'
<1> SUFFICES ASSUME touched' = {} PROVE AgentTells'
  BY DEF AgentTells
<1>1. /\ scan.pc = "names" /\ scan \in AgentType /\ UNCHANGED world /\ tree' = tree /\ touched = {}
      /\ scan.names = <<>> /\ scan.opened \in Seq(Nodes) /\ scan.directories \in Seq(Nodes)
      /\ Range(scan.names) = {}
  BY AgentSteps, EmptyRange DEF AgentDescend, AgentType, world
<1> DEFINE left == scan.opened \o scan.directories
           pc == IF left = <<>> THEN "choose" ELSE "list"
<1>2. /\ AgentApart /\ AgentCounted(AgentSeen)
      /\ AgentDirs = Range(scan.directories) \cup Range(scan.opened) /\ AgentNames = {}
      /\ \A e \in AgentDirs : AgentOpens(e)
  BY <1>1 DEF AgentTells, AgentScans, AgentDirs, AgentNames
<1>3. scan' = [scan EXCEPT !.pc = pc, !.directories = left]
  BY DEF AgentDescend
<1>4. pc \in {"choose", "list"} /\ (pc = "choose" => left = <<>>)
  OBVIOUS
<1>5. /\ left \in Seq(Nodes) /\ Range(left) = Range(scan.opened) \cup Range(scan.directories)
      /\ IsInjective(left)
  BY <1>1, <1>2, ConcatRange, ConcatInjective DEF AgentApart
<1> HIDE DEF left, pc
<1>6. /\ scan'.pc = pc /\ scan'.directories = left /\ scan'.request = scan.request
      /\ scan'.regular = scan.regular /\ scan'.links = scan.links
      /\ scan'.withheld = scan.withheld /\ scan'.truncated = scan.truncated
  BY <1>1, <1>3 DEF AgentType
<1>7. AgentDirs' = AgentDirs /\ AgentNames' = AgentNames
  BY <1>2, <1>4, <1>5, <1>6 DEF AgentDirs, AgentNames
<1>8. AgentMet' = AgentMet /\ AgentSeen' = AgentSeen /\ \A e : AgentOpens(e)' = AgentOpens(e)
  BY <1>1, <1>6, <1>7, AgentMetSame DEF AgentSeen, AgentToMeet
<1>9. AgentCounted(AgentSeen)'
  BY <1>1, <1>2, <1>6, <1>8 DEF AgentCounted, Kind
<1>10. AgentApart'
  BY <1>2, <1>4, <1>5, <1>6, <1>7 DEF AgentApart
<1> QED BY <1>2, <1>4, <1>6, <1>7, <1>8, <1>9, <1>10 DEF AgentTells, AgentAsks

\* The other steps are before the walk or after it.
LEMMA AgentTellsStep ==
  ASSUME WorldOK, AgentInv, AgentTells, AgentNext
  PROVE  AgentTells'
<1>0. ASSUME AgentListFails PROVE AgentTells'
  BY <1>0 DEF AgentListFails, Fault, Disturb, AgentTells
<1>1. ASSUME touched' = {}, UNCHANGED world, scan.pc \in {"policy", "chain", "lstat"},
             AgentGoes("chain") \/ AgentGoes("lstat") \/ AgentGoes("open")
               \/ scan' = [scan EXCEPT !.pc = "readTarget", !.size = tree[scan.request.target].size]
      PROVE  AgentTells'
  <2>1. scan \in AgentType
    BY <1>1, AgentSteps
  <2>2. /\ scan'.pc \in {"chain", "lstat", "open", "readTarget"} /\ scan'.request = scan.request
        /\ scan'.regular = scan.regular /\ scan'.links = scan.links
        /\ scan'.withheld = scan.withheld /\ scan'.truncated = scan.truncated
    BY <1>1, <2>1 DEF AgentGoes, AgentType
  <2>3. AgentCounted({})
    BY <1>1 DEF AgentTells, AgentAsks, world
  <2>4. AgentCounted({})'
    BY <1>1, <2>2, <2>3, AgentMetSame DEF world
  <2> QED BY <2>2, <2>4 DEF AgentTells, AgentScans
<1>2. ASSUME scan.pc # "off", scan'.pc \in {"read", "over"} PROVE AgentTells'
  BY <1>2 DEF AgentTells, AgentAsks, AgentScans
<1>3. ASSUME scan.pc # "off", NEW outcome, AgentEnds(outcome) PROVE AgentTells'
  <2>1. scan'.pc = "over"
    BY <1>3, AgentSteps DEF AgentEnds, AgentType
  <2> QED BY <1>2, <1>3, <2>1
<1>4. ASSUME AgentPolicy \/ AgentChain \/ AgentLstat PROVE AgentTells'
  <2>1. /\ UNCHANGED world /\ scan.pc \in {"policy", "chain", "lstat"}
        /\ \/ \E outcome : AgentEnds(outcome)
           \/ AgentGoes("chain") \/ AgentGoes("lstat") \/ AgentGoes("open")
           \/ scan' = [scan EXCEPT !.pc = "readTarget", !.size = tree[scan.request.target].size]
    BY <1>4 DEF AgentPolicy, AgentChain, AgentLstat
  <2>2. touched' # {} => AgentTells'
    BY DEF AgentTells
  <2> QED BY <1>1, <1>3, <2>1, <2>2
<1>5. ASSUME AgentReadTarget \/ AgentChoose \/ AgentRead \/ AgentReport PROVE AgentTells'
  <2>1. scan.pc # "off" /\ scan \in AgentType
    BY <1>5, AgentSteps DEF AgentReadTarget, AgentChoose, AgentRead, AgentReport
  <2>2. scan'.pc \in {"read", "over"}
    <3>1. CASE AgentReadTarget
      <4>1. \/ \E outcome : AgentEnds(outcome)
            \/ \E total : scan' = [scan EXCEPT !.pc = "read", !.discovered = 1,
                                               !.scanned = {scan.request.target}, !.total = total]
        BY <3>1, Zenon DEF AgentReadTarget
      <4> QED BY <2>1, <4>1 DEF AgentEnds, AgentType
    <3>2. CASE AgentChoose
      BY <2>1, <3>2 DEF AgentChoose, AgentType
    <3>3. CASE AgentRead
      BY <2>1, <3>3 DEF AgentRead, AgentType
    <3>4. CASE AgentReport
      BY <2>1, <3>4 DEF AgentReport, AgentType
    <3> QED BY <1>5, <3>1, <3>2, <3>3, <3>4
  <2> QED BY <1>2, <2>1, <2>2
<1> QED BY <1>0, <1>4, <1>5, AgentTellsOpen, AgentTellsList, AgentTellsStat, AgentTellsEnter,
           AgentTellsDescend DEF AgentNext

-----------------------------------------------------------------------------
(* The agent auditor's report *)

\* What an audit of a tree that stands still discovers, and what it leaves out
\* before that.
AgentFiles == {p \in AgentMet \cap Wanted : Kind(p) \notin {"dir", "locked"}}
AgentAside ==
  {p \in AgentMet \ SkippedNames : Kind(p) = "locked" \/ (Kind(p) = "link" /\ p \notin Wanted)}

\* The largest file that could be read now.
AgentRoom == Min({MaxFileBytes, MaxTotalBytes - scan.total})

\* Each file discovered is scanned, withheld or still to be tried, and each reserve
\* has its cause.
AgentAddsUp ==
  /\ scan.discovered = Cardinality(AgentFiles)
  /\ scan.withheld + Cardinality(scan.scanned) + Len(scan.candidates) =
       Cardinality(AgentAside) + Cardinality(AgentFiles)
  /\ Range(scan.candidates) \subseteq AgentFiles
  /\ scan.scanned \subseteq AgentTargets \cap AgentFiles
  /\ scan.total = TotalOf(tree, scan.scanned)
  /\ scan.truncated =>
       \/ Cardinality(AgentFiles) > scan.request.maxFiles
       \/ scan.total = MaxTotalBytes
       \/ \E p \in AgentTargets \ (scan.scanned \cup Range(scan.candidates)) :
            tree[p].size > AgentRoom
  /\ AgentReported => scan.candidates = <<>>

AgentReads ==
  (/\ touched = {} /\ Kind(scan.request.target) = "dir"
   /\ (scan.pc = "read" \/ AgentReported))
    => AgentAddsUp

LEMMA AgentFilesSame ==
  ASSUME tree' = tree, touched' = touched, scan'.request = scan.request
  PROVE  /\ AgentFiles' = AgentFiles /\ AgentAside' = AgentAside /\ AgentTargets' = AgentTargets
         /\ Kind(scan.request.target)' = Kind(scan.request.target)
<1>1. AgentMet' = AgentMet
  BY AgentMetSame
<1>2. AgentFiles' = AgentFiles /\ AgentAside' = AgentAside
  BY <1>1 DEF AgentFiles, AgentAside, Kind
<1>3. AgentTargets' = AgentTargets
  BY DEF AgentTargets, Untouched, Anchored, Kind
<1> QED BY <1>1, <1>2, <1>3 DEF Kind

LEMMA AgentReadsStands ==
  ASSUME WorldOK, WorldOK', Moves, AgentReads, UNCHANGED scan
  PROVE  AgentReads'
<1> SUFFICES ASSUME touched' = {} PROVE AgentReads'
  BY DEF AgentReads
<1>1. touched = {} /\ tree' = tree /\ touched' = touched
  BY QuietStill
<1>2. /\ AgentFiles' = AgentFiles /\ AgentAside' = AgentAside /\ AgentTargets' = AgentTargets
      /\ Kind(scan.request.target)' = Kind(scan.request.target)
      /\ AgentReported' = AgentReported /\ AgentRoom' = AgentRoom
  BY <1>1, AgentFilesSame DEF AgentReported, AgentRoom
<1>3. AgentAddsUp' <=> AgentAddsUp
  BY <1>1, <1>2 DEF AgentAddsUp
<1> QED BY <1>1, <1>2, <1>3 DEF AgentReads

LEMMA AgentFilesFacts ==
  /\ AgentFiles \in SUBSET Paths /\ AgentAside \in SUBSET Paths
  /\ Cardinality(AgentFiles) \in Nat /\ Cardinality(AgentAside) \in Nat
<1>1. AgentFiles \in SUBSET Paths /\ AgentAside \in SUBSET Paths
  BY DEF AgentFiles, AgentAside, AgentMet
<1> QED BY <1>1, PathsAreFinite, FS_CardinalityType

LEMMA AgentReadsChoose ==
  ASSUME WorldOK, AgentInv, AgentTells, AgentChoose
  PROVE  AgentReads'
<1> SUFFICES ASSUME touched' = {} PROVE AgentReads'
  BY DEF AgentReads
<1>1. /\ scan.pc = "choose" /\ scan \in AgentType /\ AgentCounts
      /\ tree' = tree /\ touched' = touched /\ touched = {}
      /\ scan.regular \in SUBSET Paths /\ scan.links \in SUBSET Paths
      /\ scan.withheld \in Nat /\ scan.request.maxFiles \in Nat \ {0}
      /\ scan.scanned = {} /\ scan.total = 0
  BY AgentSteps, AgentAssumption DEF AgentChoose, AgentType, AgentCounts, world
<1>2. AgentSeen = AgentMet /\ AgentCounted(AgentMet)
  <2>1. scan.directories = <<>> /\ AgentCounted(AgentSeen)
    BY <1>1 DEF AgentTells, AgentScans
  <2>2. AgentDirs = {} /\ AgentNames = {}
    BY <1>1, <2>1, EmptyRange DEF AgentDirs, AgentNames
  <2>3. AgentSeen = AgentMet
    BY <2>2 DEF AgentSeen, AgentToMeet
  <2> QED BY <2>1, <2>3
<1> DEFINE chosen == (scan.regular \cup scan.links) \cap Wanted
           found == Sorted(chosen)
           most == Min({Len(found), scan.request.maxFiles})
           some == SubSeq(found, 1, most)
           apart == scan.links \ (Wanted \cup SkippedNames)
           withheld == scan.withheld + Len(found) - Len(some) + Cardinality(apart)
           cut == Len(found) > Len(some)
<1>3. chosen = AgentFiles
  <2>1. \A p \in AgentMet : Kind(p) \in Kinds \ {"none"}
    BY PathFacts DEF AgentMet, WorldOK, Entries, Kind
  <2>2. \A p \in AgentMet : Kind(p) \in {"file", "hard", "other"} \/ Kind(p) = "link"
                              <=> Kind(p) \notin {"dir", "locked"}
    BY <2>1 DEF Kinds
  <2>3. /\ scan.regular = {p \in AgentMet : Kind(p) \in {"file", "hard", "other"}}
        /\ scan.links = {p \in AgentMet : Kind(p) = "link"}
    BY <1>2 DEF AgentCounted
  <2> QED BY <2>2, <2>3 DEF AgentFiles
<1>4. /\ found \in Seq(Paths) /\ Len(found) = Cardinality(AgentFiles) /\ Range(found) = AgentFiles
      /\ Len(found) \in Nat
  <2>1. chosen \in SUBSET Paths
    BY <1>1
  <2>2. found \in Seq(chosen) /\ Len(found) = Cardinality(chosen) /\ Range(found) = chosen
    <3> HIDE DEF chosen
    <3> QED BY <2>1, SortedFacts
  <2>3. found \in Seq(Paths)
    <3> HIDE DEF chosen, found
    <3> QED BY <2>1, <2>2, SeqOfSubset
  <2> HIDE DEF chosen, found
  <2> QED BY <1>3, <2>2, <2>3, EmptyRange
<1> HIDE DEF found
<1>5. most \in 0..Len(found) /\ most <= scan.request.maxFiles
      /\ (most = Len(found) \/ most = scan.request.maxFiles)
  BY <1>1, <1>4, Smaller
<1> HIDE DEF most
<1>6. some \in Seq(Paths) /\ Len(some) = most /\ Range(some) \subseteq AgentFiles
  BY <1>4, <1>5, BeginningRange
<1>7. Cardinality(AgentAside) = scan.withheld + Cardinality(apart) /\ Cardinality(apart) \in Nat
  <2> DEFINE locked == {p \in AgentMet \ SkippedNames : Kind(p) = "locked"}
  <2>1. scan.withheld = Cardinality(locked) /\ scan.links = {p \in AgentMet : Kind(p) = "link"}
    BY <1>2 DEF AgentCounted
  <2>2. AgentAside = locked \cup apart /\ locked \cap apart = {}
    BY <2>1 DEF AgentAside
  <2>3. IsFiniteSet(locked) /\ IsFiniteSet(apart)
    <3>1. locked \in SUBSET Paths /\ apart \in SUBSET Paths
      BY <1>1 DEF AgentMet
    <3> QED BY <3>1, PathsAreFinite
  <2> HIDE DEF locked, apart
  <2>4. Cardinality(locked) \in Nat /\ Cardinality(apart) \in Nat
    BY <2>3, FS_CardinalityType
  <2>5. Cardinality(AgentAside) = Cardinality(locked) + Cardinality(apart) - Cardinality({})
    BY <2>2, <2>3, FS_Union
  <2> QED BY <2>1, <2>4, <2>5, FS_EmptySet
<1>8. scan' = [scan EXCEPT !.pc = "read", !.candidates = some, !.discovered = Len(found),
                           !.truncated = cut, !.withheld = withheld]
  BY DEF AgentChoose, found, most
<1> HIDE DEF some, cut, withheld, apart
<1>9. /\ scan'.pc = "read" /\ scan'.candidates = some /\ scan'.discovered = Len(found)
      /\ scan'.truncated = cut /\ scan'.withheld = withheld /\ scan'.request = scan.request
      /\ scan'.scanned = {} /\ scan'.total = 0
  BY <1>1, <1>8 DEF AgentType
<1>10. AgentFiles' = AgentFiles /\ AgentAside' = AgentAside
  BY <1>1, <1>9, AgentFilesSame
<1>11. withheld + 0 + Len(some) = Cardinality(AgentAside) + Cardinality(AgentFiles)
  <2>1. Len(some) \in Nat /\ Cardinality(AgentFiles) \in Nat
    BY <1>4, <1>5, <1>6
  <2> QED BY <1>1, <1>4, <1>7, <2>1 DEF withheld
<1>12. cut => Cardinality(AgentFiles) > scan.request.maxFiles
  <2>1. cut => most # Len(found)
    BY <1>4, <1>6 DEF cut
  <2>2. cut => Len(found) > most
    BY <1>6 DEF cut
  <2> QED BY <1>4, <1>5, <2>1, <2>2
<1>13. TotalOf(tree', {}) = 0 /\ Cardinality({}) = 0
  BY TotalOfNone, FS_EmptySet
<1>14. scan'.withheld + Cardinality(scan'.scanned) + Len(scan'.candidates) =
         Cardinality(AgentAside) + Cardinality(AgentFiles)
  BY <1>9, <1>11, <1>13
<1>15. ~AgentReported'
  BY <1>9 DEF AgentReported
<1>16. AgentAddsUp'
  BY <1>4, <1>6, <1>9, <1>10, <1>12, <1>13, <1>14, <1>15 DEF AgentAddsUp
<1> QED BY <1>16 DEF AgentReads

\* The room becomes smaller.
LEMMA RoomShrinks ==
  ASSUME NEW a \in Nat, NEW b \in Nat, NEW x \in Nat, NEW y \in Nat
  PROVE  /\ Min({a, b - (x + y)}) \in Int /\ Min({a, b - x}) \in Int
         /\ Min({a, b - (x + y)}) <= Min({a, b - x}) /\ Min({a, b - x}) <= b - x
<1>1. b - x \in Int /\ b - (x + y) \in Int /\ b - (x + y) <= b - x
  OBVIOUS
<1> QED BY <1>1, Smaller

LEMMA AgentReadsRead ==
  ASSUME WorldOK, AgentInv, AgentReads, AgentRead
  PROVE  AgentReads'
<1> SUFFICES ASSUME touched' = {} PROVE AgentReads'
  BY DEF AgentReads
<1>1. /\ scan.pc = "read" /\ scan \in AgentType /\ AgentCounts /\ AgentPlace
      /\ tree' = tree /\ touched' = touched /\ touched = {}
      /\ scan.candidates # <<>> /\ scan.candidates \in Seq(Paths)
      /\ scan.scanned \in SUBSET Paths /\ scan.withheld \in Nat /\ scan.total \in Nat
      /\ scan.total <= MaxTotalBytes
      /\ scan.truncated \in BOOLEAN /\ scan.request.target \in Nodes
  BY AgentSteps DEF AgentRead, AgentPlace, AgentType, AgentCounts, world
<1>0. PICK q \in Paths : q = Head(scan.candidates)
  BY <1>1, HeadRange
<1> DEFINE left == MaxTotalBytes - scan.total
           read == IF Blocked(q) THEN [ok |-> FALSE, over |-> FALSE] ELSE SafeRead(q, AgentRoom)
           rest == Tail(scan.candidates)
           size == tree[q].size
           cut == scan.truncated \/ left <= 0 \/ read.over
           tried == left > 0 /\ read.ok
<1>2. /\ rest \in Seq(Paths) /\ q \notin Range(rest)
      /\ Range(scan.candidates) = {q} \cup Range(rest)
      /\ Len(scan.candidates) = Len(rest) + 1 /\ Len(rest) \in Nat
  BY <1>0, <1>1, HeadRange, EmptyRange DEF AgentCounts
<1>3. /\ q \notin scan.scanned /\ Cardinality(scan.scanned) \in Nat
      /\ Cardinality(scan.scanned \cup {q}) = Cardinality(scan.scanned) + 1
  <2>1. q \notin scan.scanned
    BY <1>1, <1>2 DEF AgentCounts
  <2> QED BY <1>0, <1>1, <2>1, OnePathMore
<1>4. size \in Nat /\ left \in Int /\ left >= 0 /\ MaxFileBytes \in Nat /\ MaxTotalBytes \in Nat
  BY <1>0, <1>1, AgentAssumption DEF WorldOK, Entries
<1>5. scan' = IF tried
              THEN [scan EXCEPT !.candidates = rest, !.scanned = scan.scanned \cup {q},
                                !.total = scan.total + size]
              ELSE [scan EXCEPT !.candidates = rest, !.withheld = scan.withheld + 1,
                                !.truncated = cut]
  BY <1>0, <1>1 DEF AgentRead, AgentType, AgentRoom
<1>6. scan'.pc = "read" /\ scan'.request = scan.request /\ scan'.candidates = rest
      /\ scan'.discovered = scan.discovered
  BY <1>1, <1>5 DEF AgentType
<1>7. /\ AgentFiles' = AgentFiles /\ AgentAside' = AgentAside /\ AgentTargets' = AgentTargets
      /\ Kind(scan.request.target)' = Kind(scan.request.target)
  BY <1>1, <1>6, AgentFilesSame
<1> SUFFICES ASSUME Kind(scan.request.target) = "dir" PROVE AgentAddsUp'
  BY <1>7 DEF AgentReads
<1>8. /\ scan.discovered = Cardinality(AgentFiles)
      /\ scan.withheld + Cardinality(scan.scanned) + Len(scan.candidates) =
           Cardinality(AgentAside) + Cardinality(AgentFiles)
      /\ Range(scan.candidates) \subseteq AgentFiles
      /\ scan.scanned \subseteq AgentTargets \cap AgentFiles
      /\ scan.total = TotalOf(tree, scan.scanned)
      /\ scan.truncated =>
           \/ Cardinality(AgentFiles) > scan.request.maxFiles
           \/ scan.total = MaxTotalBytes
           \/ \E p \in AgentTargets \ (scan.scanned \cup Range(scan.candidates)) :
                tree[p].size > AgentRoom
  BY <1>1 DEF AgentReads, AgentAddsUp
<1>9. q \in AgentFiles /\ Cardinality(AgentFiles) \in Nat /\ Cardinality(AgentAside) \in Nat
  BY <1>2, <1>8, AgentFilesFacts
<1>10. ASSUME ~Blocked(q), Anchored(Front(q)), Kind(q) = "file" PROVE q \in AgentTargets
  <2>1. IsPrefix(scan.request.target, q)
    BY <1>0, <1>1, <1>9, BelowTarget DEF AgentFiles, AgentMet
  <2> QED BY <1>1, <1>9, <1>10, <2>1 DEF AgentFiles, AgentMet, AgentTargets, Untouched
<1>11. /\ read.ok => q \in AgentTargets /\ size <= AgentRoom
       /\ read.over => q \in AgentTargets /\ size > AgentRoom
  <2>1. CASE Blocked(q)
    BY <2>1
  <2>2. CASE ~Blocked(q)
    BY <1>10, <2>2 DEF SafeRead
  <2> QED BY <2>1, <2>2
<1> HIDE DEF read, rest
<1>12. ~AgentReported'
  BY <1>6 DEF AgentReported
<1>13. CASE tried
  <2>1. /\ scan'.scanned = scan.scanned \cup {q} /\ scan'.total = scan.total + size
        /\ scan'.withheld = scan.withheld /\ scan'.truncated = scan.truncated
    BY <1>1, <1>5, <1>13 DEF AgentType
  <2>2. scan'.withheld + Cardinality(scan'.scanned) + Len(rest) =
          Cardinality(AgentAside) + Cardinality(AgentFiles)
    BY <1>1, <1>2, <1>3, <1>8, <1>9, <2>1
  <2>3. scan'.total = TotalOf(tree', scan'.scanned)
    <3>1. Alike(tree, tree, scan.scanned)
      BY <1>1 DEF Alike, WorldOK, Entries
    <3>2. SizeIn(tree, q) = size /\ SizeIn(tree, q) \in Nat
      BY <1>4 DEF SizeIn
    <3>3. TotalOf(tree, scan.scanned \cup {q}) = TotalOf(tree, scan.scanned) + SizeIn(tree, q)
      BY <1>0, <1>3, <3>1, <3>2, TotalMore
    <3> QED BY <1>1, <1>8, <2>1, <3>2, <3>3
  <2>4. AgentRoom' \in Int /\ AgentRoom \in Int /\ AgentRoom' <= AgentRoom /\ AgentRoom <= left
    BY <1>1, <1>4, <2>1, RoomShrinks DEF AgentRoom
  <2>5. scan.total # MaxTotalBytes
    BY <1>1, <1>4, <1>13
  <2>6. ASSUME scan.truncated, NEW p \in AgentTargets \ (scan.scanned \cup Range(scan.candidates)),
               tree[p].size > AgentRoom
        PROVE  /\ p \in AgentTargets \ (scan'.scanned \cup Range(rest))
               /\ tree'[p].size > AgentRoom'
    <3>1. p \in Paths /\ tree[p].size \in Nat
      BY AgentAssumption DEF AgentTargets, WorldOK, Entries
    <3>2. tree'[p].size > AgentRoom'
      BY <1>1, <2>4, <2>6, <3>1
    <3> QED BY <1>2, <2>1, <2>6, <3>2
  <2>7. Range(rest) \subseteq AgentFiles /\ scan'.scanned \subseteq AgentTargets \cap AgentFiles
    BY <1>2, <1>8, <1>9, <1>11, <1>13, <2>1
  <2> HIDE DEF size, left, cut, tried
  <2>8. scan'.truncated =>
          \/ Cardinality(AgentFiles) > scan'.request.maxFiles
          \/ \E p \in AgentTargets \ (scan'.scanned \cup Range(rest)) : tree'[p].size > AgentRoom'
    BY <1>6, <1>8, <2>1, <2>5, <2>6
  <2> QED BY <1>6, <1>7, <1>8, <1>12, <2>2, <2>3, <2>7, <2>8 DEF AgentAddsUp
<1>14. CASE ~tried
  <2>1. /\ scan'.scanned = scan.scanned /\ scan'.total = scan.total
        /\ scan'.withheld = scan.withheld + 1 /\ scan'.truncated = cut
    BY <1>1, <1>5, <1>14 DEF AgentType
  <2>2. scan'.withheld + Cardinality(scan'.scanned) + Len(rest) =
          Cardinality(AgentAside) + Cardinality(AgentFiles)
    <3>1. \A w, s, r, n \in Nat : w + s + (r + 1) = n => (w + 1) + s + r = n
      OBVIOUS
    <3>2. Cardinality(AgentAside) + Cardinality(AgentFiles) \in Nat
      BY <1>9
    <3>3. scan.withheld + Cardinality(scan.scanned) + (Len(rest) + 1) =
            Cardinality(AgentAside) + Cardinality(AgentFiles)
      BY <1>2, <1>8
    <3>4. scan.withheld \in Nat /\ Cardinality(scan.scanned) \in Nat /\ Len(rest) \in Nat
      BY <1>1, <1>2, <1>3
    <3> DEFINE w == scan.withheld
               s == Cardinality(scan.scanned)
               r == Len(rest)
               n == Cardinality(AgentAside) + Cardinality(AgentFiles)
    <3>5. (w + 1) + s + r = n
      <4>1. w \in Nat /\ s \in Nat /\ r \in Nat /\ n \in Nat /\ w + s + (r + 1) = n
        BY <3>2, <3>3, <3>4
      <4> HIDE DEF w, s, r, n
      <4> QED BY <3>1, <4>1
    <3> QED BY <2>1, <3>5
  <2>3. scan'.total = TotalOf(tree', scan'.scanned) /\ AgentRoom' = AgentRoom
    BY <1>1, <1>8, <2>1 DEF AgentRoom
  <2>4. left <= 0 => scan.total = MaxTotalBytes
    BY <1>1, <1>4
  <2>5. read.over => q \in AgentTargets \ (scan'.scanned \cup Range(rest)) /\ tree'[q].size > AgentRoom'
    BY <1>1, <1>2, <1>3, <1>11, <2>1, <2>3
  <2>6. Range(rest) \subseteq AgentFiles /\ scan'.scanned \subseteq AgentTargets \cap AgentFiles
        /\ Range(rest) \subseteq Range(scan.candidates)
    BY <1>2, <1>8, <2>1
  <2>7. cut <=> scan.truncated \/ left <= 0 \/ read.over
    OBVIOUS
  <2> HIDE DEF size, left, cut, tried
  <2>8. scan'.truncated =>
          \/ Cardinality(AgentFiles) > scan'.request.maxFiles
          \/ scan'.total = MaxTotalBytes
          \/ \E p \in AgentTargets \ (scan'.scanned \cup Range(rest)) : tree'[p].size > AgentRoom'
    <3>1. CASE scan.truncated
      BY <1>1, <1>6, <1>8, <2>1, <2>3, <2>6, <3>1
    <3>2. CASE left <= 0 \/ read.over
      BY <2>1, <2>4, <2>5, <3>2
    <3> QED BY <2>1, <2>7, <3>1, <3>2
  <2> QED BY <1>6, <1>7, <1>8, <1>12, <2>2, <2>3, <2>6, <2>8 DEF AgentAddsUp
<1> QED BY <1>13, <1>14

LEMMA AgentReadsReport ==
  ASSUME WorldOK, AgentInv, AgentReads, AgentReport
  PROVE  AgentReads'
<1> SUFFICES ASSUME touched' = {} PROVE AgentReads'
  BY DEF AgentReads
<1>1. /\ scan.pc = "read" /\ scan \in AgentType /\ scan.candidates = <<>>
      /\ tree' = tree /\ touched' = touched /\ touched = {}
  BY AgentSteps DEF AgentReport, world
<1>2. \E findings, more : scan' = [scan EXCEPT !.pc = "over", !.outcome = "report",
                                               !.findings = findings, !.more = more]
  BY Zenon DEF AgentReport
<1>3. /\ scan'.candidates = <<>> /\ scan'.request = scan.request
      /\ scan'.discovered = scan.discovered /\ scan'.truncated = scan.truncated
      /\ scan'.withheld = scan.withheld
      /\ scan'.scanned = scan.scanned /\ scan'.total = scan.total
  BY <1>1, <1>2 DEF AgentType
<1>4. /\ AgentFiles' = AgentFiles /\ AgentAside' = AgentAside /\ AgentTargets' = AgentTargets
      /\ Kind(scan.request.target)' = Kind(scan.request.target)
      /\ AgentRoom' = AgentRoom
  BY <1>1, <1>3, AgentFilesSame DEF AgentRoom
<1> SUFFICES ASSUME Kind(scan.request.target) = "dir" PROVE AgentAddsUp'
  BY <1>4 DEF AgentReads
<1>5. AgentAddsUp
  BY <1>1 DEF AgentReads
<1> QED BY <1>1, <1>3, <1>4, <1>5 DEF AgentAddsUp

LEMMA AgentReadsStep ==
  ASSUME WorldOK, AgentInv, AgentJudged, AgentTells, AgentReads, AgentNext
  PROVE  AgentReads'
<1>1. CASE AgentListFails
  BY <1>1 DEF AgentListFails, Fault, Disturb, AgentReads
<1>2. ASSUME scan.pc # "off", scan'.pc # "read", scan'.outcome # "report" PROVE AgentReads'
  BY <1>2 DEF AgentReads, AgentReported
<1>3. ASSUME scan.pc # "off", NEW outcome, outcome # "report", AgentEnds(outcome)
      PROVE  AgentReads'
  <2>1. scan'.pc = "over" /\ scan'.outcome = outcome
    BY <1>3, AgentSteps DEF AgentEnds, AgentType
  <2> QED BY <1>2, <1>3, <2>1
<1>4. ASSUME scan.pc # "off", NEW pc, AgentGoes(pc), pc \notin {"read", "over"} PROVE AgentReads'
  <2>1. scan'.pc = pc
    BY <1>4, AgentSteps DEF AgentGoes, AgentType
  <2> QED BY <1>4, <2>1 DEF AgentReads, AgentReported
<1>5. ASSUME AgentPolicy \/ AgentChain \/ AgentLstat \/ AgentOpen PROVE AgentReads'
  <2>1. scan.pc # "off" /\ scan \in AgentType
    BY <1>5, AgentSteps DEF AgentPolicy, AgentChain, AgentLstat, AgentOpen
  <2>2. ASSUME \/ scan' = [scan EXCEPT !.pc = "readTarget", !.size = tree[scan.request.target].size]
               \/ scan' = [scan EXCEPT !.pc = "list", !.directories = <<scan.request.target>>]
        PROVE  AgentReads'
    <3>1. scan'.pc \in {"readTarget", "list"}
      BY <2>1, <2>2 DEF AgentType
    <3> QED BY <3>1 DEF AgentReads, AgentReported
  <2>3. CASE AgentPolicy
    BY <1>3, <1>4, <2>1, <2>3 DEF AgentPolicy
  <2>4. CASE AgentChain
    <3>1. LinkChain(scan.request.target) # "report"
      BY LinkChainAnswers
    <3> QED BY <1>3, <1>4, <2>1, <2>4, <3>1 DEF AgentChain
  <2>5. CASE AgentLstat
    <3>1. AgentEnds("notFound") \/ AgentEnds("denied") \/ AgentGoes("open")
          \/ scan' = [scan EXCEPT !.pc = "readTarget", !.size = tree[scan.request.target].size]
      BY <2>5 DEF AgentLstat
    <3> QED BY <1>3, <1>4, <2>1, <2>2, <3>1
  <2>6. CASE AgentOpen
    <3>1. AgentEnds("notFound") \/ AgentEnds("denied")
          \/ scan' = [scan EXCEPT !.pc = "list", !.directories = <<scan.request.target>>]
      BY <2>6 DEF AgentOpen
    <3> QED BY <1>3, <2>1, <2>2, <3>1
  <2> QED BY <1>5, <2>3, <2>4, <2>5, <2>6
<1>6. CASE AgentReadTarget
  <2> SUFFICES ASSUME touched' = {} PROVE AgentReads'
    BY DEF AgentReads
  <2>1. scan.pc = "readTarget" /\ scan \in AgentType /\ tree' = tree /\ touched = {}
    BY <1>6, AgentSteps DEF AgentReadTarget, world
  <2>2. scan'.request = scan.request
    <3>1. \/ \E outcome : AgentEnds(outcome)
          \/ \E total : scan' = [scan EXCEPT !.pc = "read", !.discovered = 1,
                                             !.scanned = {scan.request.target}, !.total = total]
      BY <1>6, Zenon DEF AgentReadTarget
    <3> QED BY <2>1, <3>1 DEF AgentEnds, AgentType
  <2>3. Kind(scan.request.target) \in {"file", "hard"}
    BY <2>1 DEF AgentJudged
  <2>4. (Kind(scan.request.target) # "dir")'
    BY <2>1, <2>2, <2>3 DEF Kind
  <2> QED BY <2>4 DEF AgentReads
<1>7. ASSUME AgentList \/ AgentStat \/ AgentEnter \/ AgentDescend PROVE AgentReads'
  <2>1. scan \in AgentType
    BY <1>7, AgentSteps DEF AgentList, AgentStat, AgentEnter, AgentDescend
  <2>2. scan'.pc \notin {"read", "over"}
    <3>1. CASE AgentList
      BY <2>1, <3>1 DEF AgentList, AgentType
    <3>2. CASE AgentStat
      BY <2>1, <3>2 DEF AgentStat, AgentType
    <3>3. CASE AgentEnter
      BY <2>1, <3>3 DEF AgentEnter, AgentType
    <3>4. CASE AgentDescend
      BY <2>1, <3>4 DEF AgentDescend, AgentType
    <3> QED BY <1>7, <3>1, <3>2, <3>3, <3>4
  <2> QED BY <2>2 DEF AgentReads, AgentReported
<1> QED BY <1>1, <1>5, <1>6, <1>7, AgentReadsChoose, AgentReadsRead, AgentReadsReport DEF AgentNext

LEMMA AgentReadsFirst ==
  ASSUME scan = AgentOff \/ \E request \in AgentRequests : scan = AgentBegin(request)
  PROVE  AgentReads
BY DEF AgentReads, AgentReported, AgentOff, AgentBegin

LEMMA AgentQuiet ==
  ASSUME AgentInv, AgentJudged, AgentReads
  PROVE  AgentQuietExact
<1> SUFFICES ASSUME AgentReported, touched = {}, Kind(scan.request.target) = "dir"
             PROVE  AgentQuietExact
  BY DEF AgentQuietExact
<1>1. /\ scan.pc = "over" /\ scan \in AgentType /\ scan.withheld \in Nat
      /\ scan.scanned \in SUBSET Paths
  BY AgentSteps DEF AgentReported, AgentType
<1>2. /\ scan.discovered = Cardinality(AgentFiles)
      /\ scan.withheld + Cardinality(scan.scanned) + Len(scan.candidates) =
           Cardinality(AgentAside) + Cardinality(AgentFiles)
      /\ scan.scanned \subseteq AgentTargets \cap AgentFiles
      /\ scan.total = TotalOf(tree, scan.scanned)
      /\ scan.truncated =>
           \/ Cardinality(AgentFiles) > scan.request.maxFiles
           \/ scan.total = MaxTotalBytes
           \/ \E p \in AgentTargets \ (scan.scanned \cup Range(scan.candidates)) :
                tree[p].size > AgentRoom
      /\ scan.candidates = <<>>
  BY <1>1 DEF AgentReads, AgentAddsUp
<1>3. scan.withheld = Cardinality(AgentAside) + Cardinality(AgentFiles \ scan.scanned)
  <2>1. /\ Cardinality(AgentFiles) \in Nat /\ Cardinality(AgentAside) \in Nat
        /\ Cardinality(scan.scanned) \in Nat /\ Len(<<>>) = 0
    BY <1>1, AgentFilesFacts, OnePathMore, PathsAreFinite, FS_CardinalityType, EmptyRange
  <2>2. AgentFiles \cap scan.scanned = scan.scanned
    BY <1>2
  <2>3. Cardinality(AgentFiles \ scan.scanned) = Cardinality(AgentFiles) - Cardinality(scan.scanned)
    BY <2>2, AgentFilesFacts, PathsAreFinite, FS_Difference
  <2> QED BY <1>1, <1>2, <2>1, <2>3
<1>4. ~scan.truncated => scan.scanned = AgentTargets
  BY <1>2, AgentAnswers DEF AgentMissesNothing
<1>5. scan.request.target \in Nodes
  BY <1>1 DEF AgentJudged, AgentReported
<1>6. AgentMet = {p \in Paths : /\ IsPrefix(scan.request.target, Front(p)) /\ Anchored(Front(p))
                                /\ (Above(p) \ Upto(scan.request.target)) \cap SkippedNames = {}
                                /\ Kind(p) # "none"}
  BY <1>5, BelowTarget DEF AgentMet
<1> QED BY <1>2, <1>3, <1>4, <1>6 DEF AgentQuietExact, AgentFiles, AgentAside, AgentRoom, TotalSize

-----------------------------------------------------------------------------
(* What the snapshot says of a repository that stands still *)

SnapAll == {p \in Paths : Anchored(Front(p)) /\ Kind(p) # "none"}
SnapFiles == {p \in SnapAll : Kind(p) = "file"}
SnapDirs == {p \in SnapAll : Kind(p) = "dir"}
SnapFits ==
  /\ SnapAll = SnapFiles \cup SnapDirs /\ SnapAll \cap NestedNames = {}
  /\ Cardinality(SnapAll) <= MaxSnapshotEntries
  /\ TotalSize(SnapFiles) <= MaxSnapshotBytes
  /\ \A p \in SnapDirs : Len(p) <= MaxSnapshotDepth
SnapUsable ==
  /\ ConfigPath \in SnapFiles /\ AlternatesPath \notin SnapAll
  /\ tree[ConfigPath].size <= MaxConfigBytes

\* Where the copy may be made: plain things, none of them with a nested name.
SnapPlain == {p \in SnapAll \ NestedNames : Kind(p) \in {"file", "dir", "locked"}}
SnapMade == DOMAIN snap.copy

\* A directory that is copied, or the top, and nothing of what is in it.
SnapOpens(d) == d \in SnapMade \cup {Top} /\ Kind(d) \in {"dir", "locked"}
SnapUnlisted(d) == Children(d) \cap SnapMade = {}

\* The copy is counted and weighed, thing by thing, and no directory in it is too
\* deep but one still to be opened.
SnapCounts ==
  /\ SnapMade \subseteq SnapPlain
  /\ \A p \in SnapMade :
       /\ Front(p) \in SnapMade \cup {Top}
       /\ Kind(p) = "dir" => p \in PathsOf(snap.pending) \/ Len(p) <= MaxSnapshotDepth
  /\ snap.count = SnapHolds + SnapNeeds /\ snap.outcome = "none"
  /\ TotalOf(snap.copy, SnapMade) + snap.remaining = MaxSnapshotBytes

\* The directories still to be opened are different ones, at their depths.
SnapToOpen ==
  /\ \A i, j \in DOMAIN snap.pending : snap.pending[i].path = snap.pending[j].path => i = j
  /\ \A place \in Range(snap.pending) :
       SnapOpens(place.path) /\ SnapUnlisted(place.path) /\ place.depth = Len(place.path)

\* The directory that is open is another one, and what is left of its names is not
\* copied yet.
SnapOpen ==
  /\ snap.pc \in {"scan", "entries", "file"} =>
       /\ SnapOpens(snap.source) /\ snap.source \notin PathsOf(snap.pending)
       /\ snap.depth = Len(snap.source) /\ snap.depth <= MaxSnapshotDepth
  /\ snap.pc = "scan" => SnapUnlisted(snap.source)
  /\ snap.pc \in {"entries", "file"} =>
       /\ Kind(snap.source) = "dir"
       /\ snap.names \subseteq (Children(snap.source) \cap SnapAll) \ SnapMade
  /\ snap.pc = "file" =>
       /\ snap.entry \in (Children(snap.source) \cap SnapAll) \ (SnapMade \cup snap.names)
       /\ snap.entry \notin NestedNames /\ Kind(snap.entry) \in {"file", "hard"}

\* The verdict, and before it, that all is copied.
SnapJudged ==
  IF snap.pc = "config" \/ snap.outcome \in {"copy", "noGit", "timeout", "unsupported"}
  THEN /\ SnapFits /\ SnapMade = SnapAll
       /\ IF snap.pc = "config" THEN snap.outcome = "none" ELSE SnapUsable
  ELSE SnapFits => SnapMade = SnapAll /\ ~SnapUsable

SnapTells ==
  snap.pc # "off" /\ touched = {} /\ ~snap.late =>
    IF snap.pc \in {"config", "over"} THEN SnapJudged ELSE SnapCounts /\ SnapToOpen /\ SnapOpen

-----------------------------------------------------------------------------
(* Sizes of what the tree has *)

LEMMA TotalWithin ==
  ASSUME WorldOK, NEW ps \in SUBSET Paths, NEW qs \in SUBSET ps
  PROVE  /\ TotalOf(tree, ps) \in Nat /\ TotalOf(tree, qs) \in Nat
         /\ TotalOf(tree, qs) <= TotalOf(tree, ps)
         /\ (\A p \in ps \ qs : tree[p].size = 0) => TotalOf(tree, qs) = TotalOf(tree, ps)
<1> DEFINE f == [p \in ps |-> tree[p].size]
           g == [p \in qs |-> tree[p].size]
<1>1. TotalOf(tree, ps) = SumOver(f, ps) /\ TotalOf(tree, qs) = SumOver(g, qs)
  BY DEF TotalOf, SumOver, FoldFunctionOnSet, MapThenFoldSet
<1>2. /\ \A p \in ps : f[p] = tree[p].size /\ f[p] \in Nat
      /\ \A p \in qs : f[p] = g[p]
  BY DEF WorldOK, Entries
<1> HIDE DEF f, g
<1>3. IsFiniteSet(ps) /\ IsFiniteSet(qs)
  <2>1. qs \in SUBSET Paths
    OBVIOUS
  <2> QED BY <2>1, PathsAreFinite
<1>4. SumOver(g, qs) = SumOver(f, qs)
  <2>1. \A p \in qs : g[p] = f[p]
    BY <1>2
  <2> QED BY <1>3, <2>1, SumAgrees
<1>5. SumOver(f, qs) \in Nat /\ SumOver(f, ps) \in Nat /\ SumOver(f, qs) <= SumOver(f, ps)
  BY <1>2, <1>3, SumWithin
<1>6. ASSUME \A p \in ps \ qs : f[p] = 0 PROVE SumOver(f, qs) = SumOver(f, ps)
  <2> DEFINE Bad == {U \in SUBSET ps : qs \subseteq U /\ SumOver(f, U) # SumOver(f, qs)}
  <2>1. SUFFICES ASSUME Bad # {} PROVE FALSE
    BY <2>1
  <2>2. Bad \in SUBSET SUBSET ps
    OBVIOUS
  <2>3. PICK T \in Bad : \A U \in SUBSET T : U # T => U \notin Bad
    <3> HIDE DEF Bad
    <3> QED BY <1>3, <2>1, <2>2, SmallestSubset
  <2>4. T \in SUBSET ps /\ qs \subseteq T /\ SumOver(f, T) # SumOver(f, qs)
    OBVIOUS
  <2>5. PICK x \in T : x \notin qs
    BY <2>4
  <2>6. SumOver(f, T \ {x}) = SumOver(f, qs)
    BY <2>3, <2>4, <2>5
  <2>7. IsFiniteSet(T) /\ \A y \in T : f[y] \in Nat
    BY <1>2, <1>3, <2>4, FS_Subset
  <2> HIDE DEF Bad
  <2>8. SumOver(f, T) = f[x] + SumOver(f, T \ {x})
    BY <2>7, SumRemove
  <2>9. f[x] = 0
    BY <1>6, <2>4, <2>5
  <2> QED BY <1>5, <2>4, <2>6, <2>8, <2>9
<1> QED BY <1>1, <1>2, <1>4, <1>5, <1>6

\* What one new thing adds.
AddsTo(copy, e, more) ==
  /\ Cardinality(DOMAIN more) = Cardinality(DOMAIN copy) + 1
  /\ TotalOf(copy, DOMAIN copy) \in Nat
  /\ TotalOf(more, DOMAIN more) = TotalOf(copy, DOMAIN copy) + EntrySize(e)

LEMMA AddedNew ==
  \A copy, q, e, more :
    copy \in SnapCopies /\ q \in Paths /\ e \in Entries /\ more = Added(copy, q, e)
    /\ ~(q \in DOMAIN copy) => AddsTo(copy, e, more)
<1> SUFFICES ASSUME NEW copy \in SnapCopies, NEW q \in Paths, NEW e \in Entries,
                    NEW more, more = Added(copy, q, e), ~(q \in DOMAIN copy)
             PROVE  AddsTo(copy, e, more)
  OBVIOUS
<1> DEFINE ps == DOMAIN copy
<1>1. Grows(Entries, copy, q, e, more)
  BY AddedFacts DEF SnapCopies
<1>2. /\ ps \in SUBSET Paths /\ DOMAIN more = ps \cup {q}
      /\ \A p \in ps : more[p] = copy[p] /\ copy[p].size \in Nat
      /\ more[q] = e /\ e.size \in Nat
  BY <1>1 DEF Grows, Entries
<1>3. IsFiniteSet(ps)
  BY <1>2, PathsAreFinite
<1>4. Cardinality(ps \cup {q}) = Cardinality(ps) + 1
  BY <1>3, FS_AddElement
<1>5. Alike(copy, more, ps)
  BY <1>2 DEF Alike
<1>6. TotalOf(copy, ps) \in Nat
  BY <1>5, TotalSame
<1>7. SizeIn(more, q) = EntrySize(e) /\ SizeIn(more, q) \in Nat
  BY <1>2 DEF SizeIn, EntrySize
<1>8. TotalOf(more, ps \cup {q}) = TotalOf(copy, ps) + SizeIn(more, q)
  BY <1>5, <1>7, TotalMore
<1>9. DOMAIN more = ps \cup {q}
  BY <1>2
<1> HIDE DEF ps
<1>10. /\ Cardinality(DOMAIN more) = Cardinality(ps) + 1
       /\ TotalOf(more, DOMAIN more) = TotalOf(copy, ps) + EntrySize(e)
  BY <1>4, <1>7, <1>8, <1>9
<1> QED BY <1>6, <1>10 DEF AddsTo, ps

-----------------------------------------------------------------------------
(* The snapshot, step by step *)

\* The tree tells all but what is in the copy.
LEMMA SnapTreeSame ==
  ASSUME tree' = tree
  PROVE  /\ SnapAll' = SnapAll /\ SnapPlain' = SnapPlain
         /\ (SnapFits' <=> SnapFits) /\ (SnapUsable' <=> SnapUsable)
<1>1. SnapAll' = SnapAll /\ SnapPlain' = SnapPlain /\ SnapFiles' = SnapFiles /\ SnapDirs' = SnapDirs
  BY DEF SnapAll, SnapPlain, SnapFiles, SnapDirs, Anchored, Kind
<1>2. TotalSize(SnapFiles)' = TotalSize(SnapFiles)
  BY <1>1 DEF TotalSize
<1> QED BY <1>1, <1>2 DEF SnapFits, SnapUsable

LEMMA SnapWalks ==
  ASSUME SnapInv, SnapTells, touched = {}, snap.pc \in {"pop", "scan", "entries", "file"}, ~snap.late
  PROVE  /\ SnapCounts /\ SnapToOpen /\ SnapOpen
         /\ snap \in SnapType /\ snap.copy \in SnapCopies /\ SnapMade \in SUBSET Paths
         /\ SnapHolds \in Nat /\ snap.count \in Nat /\ snap.remaining \in Nat
         /\ snap.pending \in Seq(SnapPlaces) /\ snap.source \in Nodes /\ snap.depth \in Nat
         /\ SnapMade \subseteq SnapAll /\ SnapAll \in SUBSET Paths
<1>1. /\ snap \in SnapType /\ snap.copy \in SnapCopies /\ SnapMade \in SUBSET Paths
      /\ SnapHolds \in Nat /\ snap.count \in Nat /\ snap.remaining \in Nat
  BY SnapSteps DEF SnapMade
<1>2. SnapCounts /\ SnapToOpen /\ SnapOpen
  BY DEF SnapTells
<1>3. SnapMade \subseteq SnapAll /\ SnapAll \in SUBSET Paths
  BY <1>2 DEF SnapCounts, SnapPlain, SnapAll
<1> QED BY <1>1, <1>2, <1>3 DEF SnapType

LEMMA SnapOdd ==
  ASSUME NEW p \in SnapAll, Kind(p) \notin {"file", "dir"}
  PROVE  ~SnapFits
BY DEF SnapFits, SnapFiles, SnapDirs

\* On the way to what is there and no link, there is no link.
LEMMA SnapWay ==
  ASSUME NEW p \in SnapAll \cup {Top}, Kind(p) # "link"
  PROVE  /\ LinkChain(p) = "ok" /\ Look(p) = Kind(p)
         /\ Kind(p) = "dir" => Anchored(p)
<1>1. CASE p = Top
  BY <1>1, TopFacts DEF LinkChain, Look, Anchored
<1>2. CASE p \in SnapAll
  <2>1. p \in Paths /\ Anchored(Front(p)) /\ Kind(p) # "none"
    BY <1>2 DEF SnapAll
  <2>2. (\A q \in Above(p) : Kind(q) = "dir") /\ Look(p) = Kind(p)
    BY <2>1, AnchoredAbove
  <2>3. \A q \in Upto(p) : q # p => Kind(q) = "dir"
    BY <2>2 DEF Above
  <2> QED BY <2>1, <2>2, <2>3 DEF LinkChain, Anchored
<1> QED BY <1>1, <1>2

\* A repository that does not fit is refused for a reason.
LEMMA SnapRefused ==
  ASSUME ~SnapFits, tree' = tree, snap'.pc = "over", snap'.outcome \in {"denied", "notFound"}
  PROVE  SnapTells'
<1>1. ~SnapFits'
  BY SnapTreeSame
<1>2. SnapJudged'
  BY <1>1 DEF SnapJudged
<1> QED BY <1>2 DEF SnapTells

LEMMA SnapTellsStands ==
  ASSUME WorldOK, WorldOK', Moves, SnapTells, UNCHANGED snap
  PROVE  SnapTells'
<1> SUFFICES ASSUME touched' = {} PROVE SnapTells'
  BY DEF SnapTells
<1>1. touched = {} /\ tree' = tree
  BY QuietStill
<1>2. \A p : Kind(p)' = Kind(p)
  BY <1>1 DEF Kind
<1>3. SnapMade' = SnapMade /\ SnapHolds' = SnapHolds /\ SnapNeeds' = SnapNeeds
  BY DEF SnapMade, SnapHolds, SnapNeeds
<1>4. SnapJudged' <=> SnapJudged
  BY <1>1, <1>3, SnapTreeSame DEF SnapJudged
<1>5. SnapCounts' <=> SnapCounts
  BY <1>1, <1>2, <1>3, SnapTreeSame DEF SnapCounts
<1>6. SnapToOpen' <=> SnapToOpen
  BY <1>2, <1>3 DEF SnapToOpen, SnapOpens, SnapUnlisted
<1>7. SnapOpen' <=> SnapOpen
  BY <1>1, <1>2, <1>3, SnapTreeSame DEF SnapOpen, SnapOpens, SnapUnlisted
<1> QED BY <1>1, <1>4, <1>5, <1>6, <1>7 DEF SnapTells

LEMMA SnapTellsFirst ==
  ASSUME snap = SnapOff \/ snap = SnapBegin
  PROVE  SnapTells
<1>1. CASE snap = SnapOff
  BY <1>1 DEF SnapOff, SnapTells
<1>2. CASE snap = SnapBegin
  <2> DEFINE start == [path |-> Top, depth |-> 0]
  <2>1. start.path = Top /\ start.depth = 0 /\ start \in SnapPlaces
    BY DEF SnapPlaces, Nodes
  <2>2. /\ snap.pc = "pop" /\ snap.pending = <<start>> /\ snap.copy = <<>> /\ snap.count = 0
        /\ snap.remaining = MaxSnapshotBytes /\ snap.outcome = "none"
    BY <1>2 DEF SnapBegin, start
  <2> HIDE DEF start
  <2>3. SnapMade = {} /\ SnapHolds = 0 /\ SnapNeeds = 0
    BY <2>2, FS_EmptySet DEF SnapMade, SnapHolds, SnapNeeds
  <2>4. TotalOf(snap.copy, SnapMade) = 0
    BY <2>3, TotalOfNone
  <2>5. SnapCounts
    BY <2>2, <2>3, <2>4, SnapshotAssumption DEF SnapCounts
  <2>6. Range(snap.pending) = {start} /\ DOMAIN snap.pending = {1}
    BY <2>1, <2>2, SingletonRange
  <2>7. SnapToOpen
    BY <2>1, <2>3, <2>6, TopFacts DEF SnapToOpen, SnapOpens, SnapUnlisted, Kind
  <2>8. SnapOpen
    BY <2>2 DEF SnapOpen
  <2> QED BY <2>2, <2>5, <2>7, <2>8 DEF SnapTells
<1> QED BY <1>1, <1>2

\* The last of the directories still to be opened is none of the others.
LEMMA LastApart ==
  ASSUME NEW s \in Seq(SnapPlaces), s # <<>>,
         \A i, j \in DOMAIN s : s[i].path = s[j].path => i = j
  PROVE  /\ Last(s) \in Range(s) /\ Range(Front(s)) \subseteq Range(s)
         /\ Last(s).path \notin PathsOf(Front(s))
         /\ \A i, j \in DOMAIN Front(s) : Front(s)[i].path = Front(s)[j].path => i = j
<1>1. Len(s) \in Nat /\ Len(s) > 0 /\ DOMAIN s = 1..Len(s)
  BY EmptyRange, LenProperties
<1>2. PICK n \in 0..Len(s) : n = Len(s) - 1
  <2>1. Len(s) - 1 \in 0..Len(s)
    BY <1>1
  <2> QED BY <2>1
<1>3. Front(s) = SubSeq(s, 1, n)
  BY <1>2 DEF Front
<1>4. Front(s) \in Seq(SnapPlaces) /\ Len(Front(s)) = n
  <2>1. SubSeq(s, 1, n) \in Seq(SnapPlaces) /\ Len(SubSeq(s, 1, n)) = n
    BY BeginningRange
  <2> QED BY <1>3, <2>1
<1>5. \A i \in 1..n : Front(s)[i] = s[i]
  <2>1. \A i \in 1..n : s[i] \in SnapPlaces
    BY <1>1, ElementOfSeq
  <2>2. \A j \in 1..(n - 1 + 1) : SubSeq(s, 1, n)[j] = s[1 + j - 1]
    BY <2>1, SubSeqProperties, 1 \in Int, n \in Int
  <2> QED BY <1>3, <2>2
<1>6. DOMAIN Front(s) = 1..n
  BY <1>4, LenProperties
<1>7. \A i \in 1..n : i \in DOMAIN s /\ i # Len(s)
  <2>1. \A m \in Nat : \A k \in 0..m : k = m - 1 => \A i \in 1..k : i \in 1..m /\ i # m
    OBVIOUS
  <2>2. Len(s) \in Nat /\ n \in 0..Len(s) /\ n = Len(s) - 1
    BY <1>1, <1>2
  <2>3. \A i \in 1..n : i \in 1..Len(s) /\ i # Len(s)
    BY <2>1, <2>2, Zenon
  <2>4. DOMAIN s = 1..Len(s)
    BY <1>1
  <2> QED BY <2>3, <2>4, Zenon
<1>8. Len(s) \in DOMAIN s /\ Last(s) = s[Len(s)]
  BY <1>1 DEF Last
<1>9. Last(s).path \notin PathsOf(Front(s))
  <2>1. ASSUME NEW i \in 1..n, Front(s)[i].path = Last(s).path PROVE FALSE
    BY <1>5, <1>7, <1>8, <2>1
  <2>2. \A place \in Range(Front(s)) : place.path # Last(s).path
    BY <1>6, <2>1 DEF Range
  <2> QED BY <2>2 DEF PathsOf
<1> QED BY <1>5, <1>6, <1>7, <1>8, <1>9 DEF Range

LEMMA SnapTellsPop ==
  ASSUME WorldOK, SnapInv, SnapTells, SnapPop
  PROVE  SnapTells'
<1> SUFFICES ASSUME touched' = {}, ~snap'.late PROVE SnapTells'
  BY DEF SnapTells
<1>1. /\ snap.pc = "pop" /\ snap.pending # <<>> /\ tree' = tree /\ touched = {}
      /\ snap \in SnapType /\ snap.pending \in Seq(SnapPlaces)
  BY SnapSteps DEF SnapPop, world, SnapType
<1>0. PICK next \in SnapPlaces : next = Last(snap.pending)
  BY <1>1, LastFacts
<1> DEFINE rest == Front(snap.pending)
           d == next.path
<1>2. \/ SnapEnds("timeout") \/ SnapEnds("denied") \/ SnapEnds("notFound")
      \/ snap' = [snap EXCEPT !.pc = "scan", !.pending = rest, !.source = d, !.depth = next.depth]
  BY <1>0, LinkChainFacts DEF SnapPop
<1>3. ~snap.late
  <2>1. snap'.late = snap.late
    BY <1>1, <1>2 DEF SnapEnds, SnapType
  <2> QED BY <2>1
<1>4. /\ SnapCounts /\ SnapToOpen /\ SnapOpen /\ SnapMade \subseteq SnapAll
      /\ SnapAll \in SUBSET Paths
  BY <1>1, <1>3, SnapWalks
<1>5. /\ next \in Range(snap.pending) /\ Range(rest) \subseteq Range(snap.pending)
      /\ d \notin PathsOf(rest)
      /\ \A i, j \in DOMAIN rest : rest[i].path = rest[j].path => i = j
      /\ rest \in Seq(SnapPlaces) /\ PathsOf(snap.pending) \subseteq PathsOf(rest) \cup {d}
  BY <1>0, <1>1, <1>4, LastApart, LastFacts DEF SnapToOpen
<1>6. SnapOpens(d) /\ SnapUnlisted(d) /\ next.depth = Len(d) /\ Len(d) \in Nat /\ d \in Nodes
  <2>1. d \in Nodes
    BY DEF SnapPlaces
  <2> QED BY <1>4, <1>5, <2>1, LenOfNode DEF SnapToOpen
<1>7. d \in SnapAll \cup {Top} /\ LinkChain(d) = "ok"
  <2>1. d \in SnapAll \cup {Top} /\ Kind(d) # "link"
    BY <1>4, <1>6 DEF SnapOpens
  <2> QED BY <2>1, SnapWay
<1>8. CASE next.depth > MaxSnapshotDepth
  <2>1. SnapEnds("denied")
    BY <1>0, <1>3, <1>8 DEF SnapPop
  <2>2. d # Top
    BY <1>6, <1>8, TopFacts, SnapshotAssumption
  <2>3. ~SnapFits
    <3>1. CASE Kind(d) = "dir"
      <4>1. d \in SnapDirs /\ ~(Len(d) <= MaxSnapshotDepth)
        BY <1>6, <1>7, <1>8, <2>2, <3>1, SnapshotAssumption DEF SnapDirs
      <4> QED BY <4>1 DEF SnapFits
    <3>2. CASE Kind(d) = "locked"
      BY <1>7, <2>2, <3>2, SnapOdd
    <3> QED BY <1>6, <3>1, <3>2 DEF SnapOpens
  <2>4. snap'.pc = "over" /\ snap'.outcome = "denied"
    BY <1>1, <2>1 DEF SnapEnds, SnapType
  <2> QED BY <1>1, <2>3, <2>4, SnapRefused
<1>9. CASE ~(next.depth > MaxSnapshotDepth)
  <2>1. snap' = [snap EXCEPT !.pc = "scan", !.pending = rest, !.source = d, !.depth = next.depth]
    BY <1>0, <1>3, <1>7, <1>9 DEF SnapPop
  <2>2. next.depth <= MaxSnapshotDepth
    BY <1>6, <1>9, SnapshotAssumption
  <2> HIDE DEF rest, d
  <2>3. /\ snap'.pc = "scan" /\ snap'.pending = rest /\ snap'.source = d
        /\ snap'.depth = next.depth /\ snap'.copy = snap.copy /\ snap'.count = snap.count
        /\ snap'.remaining = snap.remaining /\ snap'.outcome = snap.outcome
    BY <1>1, <2>1 DEF SnapType
  <2>4. /\ SnapMade' = SnapMade /\ SnapHolds' = SnapHolds /\ SnapNeeds' = SnapNeeds
        /\ SnapPlain' = SnapPlain /\ \A p : Kind(p)' = Kind(p)
    BY <1>1, <2>3, SnapTreeSame DEF SnapMade, SnapHolds, SnapNeeds, Kind
  <2>5. SnapCounts'
    <3>1. ASSUME NEW p \in SnapMade, Kind(p) = "dir"
          PROVE  p \in PathsOf(rest) \/ Len(p) <= MaxSnapshotDepth
      BY <1>4, <1>5, <1>6, <2>2, <3>1 DEF SnapCounts
    <3> QED BY <1>4, <2>3, <2>4, <3>1 DEF SnapCounts
  <2>6. SnapToOpen'
    BY <1>4, <1>5, <2>3, <2>4 DEF SnapToOpen, SnapOpens, SnapUnlisted
  <2>7. SnapOpen'
    BY <1>5, <1>6, <2>2, <2>3, <2>4 DEF SnapOpen, SnapOpens, SnapUnlisted
  <2> QED BY <2>3, <2>5, <2>6, <2>7 DEF SnapTells
<1> QED BY <1>8, <1>9

LEMMA SnapTellsScan ==
  ASSUME WorldOK, SnapInv, SnapTells, SnapScan
  PROVE  SnapTells'
<1> SUFFICES ASSUME touched' = {}, ~snap'.late PROVE SnapTells'
  BY DEF SnapTells
<1>1. snap.pc = "scan" /\ tree' = tree /\ touched = {} /\ snap \in SnapType
  BY SnapSteps DEF SnapScan, world
<1> DEFINE d == snap.source
           names == {p \in Children(d) : Kind(p) # "none"}
<1>2. SnapEnds("denied") \/ snap' = [snap EXCEPT !.pc = "entries", !.names = names]
  BY DEF SnapScan
<1>3. ~snap.late
  <2>1. snap'.late = snap.late
    BY <1>1, <1>2 DEF SnapEnds, SnapType
  <2> QED BY <2>1
<1>4. /\ SnapCounts /\ SnapToOpen /\ SnapOpen /\ SnapMade \subseteq SnapAll
      /\ SnapAll \in SUBSET Paths
  BY <1>1, <1>3, SnapWalks
<1>5. /\ SnapOpens(d) /\ SnapUnlisted(d) /\ d \notin PathsOf(snap.pending)
      /\ snap.depth = Len(d) /\ snap.depth <= MaxSnapshotDepth
  BY <1>1, <1>4 DEF SnapOpen
<1>6. /\ d \in SnapAll \cup {Top} /\ Look(d) = Kind(d) /\ Kind(d) \in {"dir", "locked"}
      /\ Kind(d) = "dir" => Anchored(d)
  <2>1. d \in SnapAll \cup {Top} /\ Kind(d) \in {"dir", "locked"}
    BY <1>4, <1>5 DEF SnapOpens
  <2>2. Kind(d) # "link"
    BY <2>1
  <2> QED BY <2>1, <2>2, SnapWay
<1>7. CASE Kind(d) = "locked"
  <2>1. SnapEnds("denied")
    BY <1>6, <1>7 DEF SnapScan
  <2>2. snap'.pc = "over" /\ snap'.outcome = "denied"
    BY <1>1, <2>1 DEF SnapEnds, SnapType
  <2>3. d # Top
    BY <1>7 DEF Kind
  <2>4. ~SnapFits
    BY <1>6, <1>7, <2>3, SnapOdd
  <2> QED BY <1>1, <2>2, <2>4, SnapRefused
<1>8. CASE Kind(d) = "dir"
  <2>1. snap' = [snap EXCEPT !.pc = "entries", !.names = names]
    BY <1>6, <1>8 DEF SnapScan
  <2>2. names \subseteq (Children(d) \cap SnapAll) \ SnapMade
    <3>1. ASSUME NEW p \in names PROVE p \in SnapAll \ SnapMade
      <4>1. p \in Paths /\ Front(p) = d /\ p \in Children(d) /\ Kind(p) # "none"
        BY DEF Children
      <4> QED BY <1>5, <1>6, <1>8, <4>1 DEF SnapAll, SnapUnlisted
    <3> QED BY <3>1
  <2> HIDE DEF names
  <2>3. /\ snap'.pc = "entries" /\ snap'.pending = snap.pending /\ snap'.source = snap.source
        /\ snap'.depth = snap.depth /\ snap'.copy = snap.copy /\ snap'.count = snap.count
        /\ snap'.remaining = snap.remaining /\ snap'.outcome = snap.outcome /\ snap'.names = names
    BY <1>1, <2>1 DEF SnapType
  <2>4. /\ SnapMade' = SnapMade /\ SnapHolds' = SnapHolds /\ SnapNeeds' = SnapNeeds
        /\ SnapPlain' = SnapPlain /\ SnapAll' = SnapAll /\ \A p : Kind(p)' = Kind(p)
    BY <1>1, <2>3, SnapTreeSame DEF SnapMade, SnapHolds, SnapNeeds, Kind
  <2>5. SnapCounts'
    BY <1>4, <2>3, <2>4 DEF SnapCounts
  <2>6. SnapToOpen'
    BY <1>4, <2>3, <2>4 DEF SnapToOpen, SnapOpens, SnapUnlisted
  <2>7. SnapOpen'
    BY <1>5, <1>8, <2>2, <2>3, <2>4 DEF SnapOpen, SnapOpens
  <2> QED BY <2>3, <2>5, <2>6, <2>7 DEF SnapTells
<1> QED BY <1>6, <1>7, <1>8

\* All is copied as it is in the tree, where nothing is locked.
LEMMA SnapCopiedWhole ==
  ASSUME WorldOK, SnapInv, snap.pc # "off", touched = {}, SnapMade \subseteq SnapAll,
         \A p \in SnapMade : Kind(p) # "locked"
  PROVE  /\ \A p \in SnapMade : snap.copy[p] = tree[p]
         /\ TotalOf(snap.copy, SnapMade) = TotalOf(tree, SnapMade)
         /\ TotalOf(snap.copy, SnapMade) \in Nat
<1>1. SnapTrue /\ SnapMade \in SUBSET Paths
  BY SnapSteps DEF SnapMade
<1>2. \A p \in SnapMade : SnapStays(p)
  BY DEF SnapStays, SnapAll, Untouched
<1>3. \A p \in SnapMade : snap.copy[p] = tree[p]
  BY <1>1, <1>2 DEF SnapTrue, SnapMade
<1>4. Alike(snap.copy, tree, SnapMade)
  BY <1>1, <1>3 DEF Alike, WorldOK, Entries
<1> QED BY <1>3, <1>4, TotalSame

\* What is neither a file nor a second name of one has no size.
LEMMA SnapSizes ==
  ASSUME WorldOK, SnapAll = SnapFiles \cup SnapDirs
  PROVE  /\ SnapAll \in SUBSET Paths /\ TotalOf(tree, SnapAll) = TotalSize(SnapFiles)
         /\ TotalOf(tree, SnapAll) \in Nat
<1>1. SnapAll \in SUBSET Paths /\ SnapFiles \in SUBSET SnapAll
  BY DEF SnapAll, SnapFiles
<1>2. ASSUME NEW p \in SnapAll \ SnapFiles PROVE tree[p].size = 0
  <2>1. p \in SnapDirs /\ p \in Paths
    BY <1>1
  <2>2. tree[p].kind = "dir"
    BY <2>1, PathFacts DEF SnapDirs, Kind
  <2> QED BY <2>1, <2>2 DEF WorldOK, Entries
<1>3. /\ TotalOf(tree, SnapAll) \in Nat
      /\ (\A p \in SnapAll \ SnapFiles : tree[p].size = 0)
           => TotalOf(tree, SnapFiles) = TotalOf(tree, SnapAll)
  BY <1>1, TotalWithin
<1> QED BY <1>1, <1>2, <1>3 DEF TotalSize

\* A place appended to others, whose path is none of theirs.
LEMMA OneMorePlace ==
  ASSUME NEW s \in Seq(SnapPlaces), NEW place \in SnapPlaces, place.path \notin PathsOf(s),
         \A i, j \in DOMAIN s : s[i].path = s[j].path => i = j
  PROVE  \A i, j \in DOMAIN Append(s, place) :
           Append(s, place)[i].path = Append(s, place)[j].path => i = j
<1> DEFINE more == Append(s, place)
<1>1. /\ Len(s) \in Nat /\ DOMAIN s = 1..Len(s)
      /\ more \in Seq(SnapPlaces) /\ Len(more) = Len(s) + 1
      /\ more[Len(s) + 1] = place /\ \A i \in 1..Len(s) : more[i] = s[i]
  BY AppendProperties, LenProperties
<1>2. DOMAIN more = 1..(Len(s) + 1)
  BY <1>1, LenProperties
<1>3. \A i \in DOMAIN s : s[i].path \in PathsOf(s)
  BY DEF PathsOf, Range
<1> HIDE DEF more
<1>4. \A i \in 1..(Len(s) + 1) : i \in DOMAIN s \/ i = Len(s) + 1
  BY <1>1
<1>5. \A i \in DOMAIN s : more[i] = s[i] /\ more[i].path # place.path
  BY <1>1, <1>3
<1>6. ASSUME NEW i \in DOMAIN more, NEW j \in DOMAIN more, more[i].path = more[j].path
      PROVE  i = j
  <2>1. (i \in DOMAIN s \/ i = Len(s) + 1) /\ (j \in DOMAIN s \/ j = Len(s) + 1)
    BY <1>2, <1>4
  <2>2. CASE i \in DOMAIN s /\ j \in DOMAIN s
    BY <1>5, <1>6, <2>2
  <2>3. CASE i = Len(s) + 1 /\ j \in DOMAIN s
    BY <1>1, <1>5, <1>6, <2>3
  <2>4. CASE j = Len(s) + 1 /\ i \in DOMAIN s
    BY <1>1, <1>5, <1>6, <2>4
  <2>5. CASE i = Len(s) + 1 /\ j = Len(s) + 1
    BY <2>5
  <2> QED BY <2>1, <2>2, <2>3, <2>4, <2>5
<1> QED BY <1>6 DEF more

\* The names of the open directory that are there and not copied yet.
SnapWaits(p) == p \in (Children(snap.source) \cap SnapAll) \ SnapMade

\* Copying one of them leaves the others as they were.
LEMMA SnapMadeOne ==
  ASSUME SnapOpen, SnapToOpen, SnapCounts, snap.pc \in {"entries", "file"}, snap.source \in Nodes,
         snap \in SnapType, SnapMade \in SUBSET Paths, SnapHolds \in Nat,
         tree' = tree, NEW p \in Paths, SnapWaits(p), p \notin NestedNames,
         Kind(p) \in {"file", "dir", "locked"}, NEW e \in Entries,
         snap.copy \in SnapCopies, snap'.copy = Added(snap.copy, p, e)
  PROVE  /\ SnapMade' = SnapMade \cup {p} /\ SnapHolds' = SnapHolds + 1
         /\ TotalOf(snap.copy, SnapMade) \in Nat
         /\ TotalOf(snap'.copy, SnapMade') = TotalOf(snap.copy, SnapMade) + EntrySize(e)
         /\ SnapPlain' = SnapPlain /\ SnapAll' = SnapAll /\ SnapMade' \subseteq SnapPlain
         /\ \A q : Kind(q)' = Kind(q)
         /\ Front(p) = snap.source /\ snap.source # p /\ Front(p) \in SnapMade \cup {Top}
         /\ \A d \in PathsOf(snap.pending) : SnapOpens(d)' /\ SnapUnlisted(d)'
         /\ snap.source \in SnapMade' \cup {Top} /\ Kind(snap.source) \in {"dir", "locked"}
         /\ SnapUnlisted(p)'
         /\ p \notin PathsOf(snap.pending)
<1>1. /\ Grows(Entries, snap.copy, p, e, snap'.copy) /\ p \notin DOMAIN snap.copy
  BY AddedFacts DEF SnapCopies, SnapWaits, SnapMade
<1>2. SnapMade' = SnapMade \cup {p}
  BY <1>1 DEF Grows, SnapMade
<1>3. AddsTo(snap.copy, e, snap'.copy)
  BY <1>1, AddedNew
<1>4. /\ SnapHolds' = SnapHolds + 1 /\ TotalOf(snap.copy, SnapMade) \in Nat
      /\ TotalOf(snap'.copy, SnapMade') = TotalOf(snap.copy, SnapMade) + EntrySize(e)
  BY <1>3 DEF AddsTo, SnapHolds, SnapMade
<1>5. SnapPlain' = SnapPlain /\ SnapAll' = SnapAll /\ \A q : Kind(q)' = Kind(q)
  BY SnapTreeSame DEF Kind
<1>6. SnapMade' \subseteq SnapPlain
  BY <1>2 DEF SnapCounts, SnapPlain, SnapWaits
<1>7. Front(p) = snap.source /\ p \in Children(snap.source) /\ p # Top /\ p \notin SnapMade
  BY PathFacts DEF Children, SnapWaits
<1>8. Len(p) = Len(snap.source) + 1 /\ Len(snap.source) \in Nat
  BY <1>7, PathFacts, LenOfNode
<1>9. snap.source # p
  BY <1>8
<1>10. SnapOpens(snap.source) /\ snap.source \notin PathsOf(snap.pending)
  BY DEF SnapOpen
<1>11. ASSUME NEW d \in PathsOf(snap.pending) PROVE SnapOpens(d)' /\ SnapUnlisted(d)' /\ d # p
  <2>1. SnapOpens(d) /\ SnapUnlisted(d)
    BY DEF SnapToOpen, PathsOf
  <2>2. d # snap.source /\ p \notin Children(d)
    BY <1>7, <1>10 DEF Children
  <2> QED BY <1>2, <1>5, <1>7, <2>1, <2>2 DEF SnapOpens, SnapUnlisted
<1>12. snap.source \in SnapMade' \cup {Top} /\ Kind(snap.source) \in {"dir", "locked"}
  BY <1>2, <1>10 DEF SnapOpens
<1>13. SnapUnlisted(p)'
  <2>1. ASSUME NEW c \in SnapMade \cup {p}, c \in Children(p) PROVE FALSE
    <3>1. Front(c) = p
      BY <2>1 DEF Children
    <3>2. CASE c = p
      BY <1>7, <1>9, <3>1, <3>2
    <3>3. CASE c \in SnapMade
      <4>1. p \in SnapMade \cup {Top}
        BY <3>1, <3>3 DEF SnapCounts
      <4> QED BY <1>7, <4>1
    <3> QED BY <2>1, <3>2, <3>3
  <2> QED BY <1>2, <2>1 DEF SnapUnlisted
<1> QED BY <1>2, <1>4, <1>5, <1>6, <1>7, <1>9, <1>10, <1>11, <1>12, <1>13 DEF SnapOpens

LEMMA SnapTellsEntry ==
  ASSUME WorldOK, SnapInv, SnapTells, NEW q \in Paths, SnapEntry(q)
  PROVE  SnapTells'
<1> SUFFICES ASSUME touched' = {}, ~snap'.late PROVE SnapTells'
  BY DEF SnapTells
<1>1. /\ snap.pc = "entries" /\ q \in snap.names /\ tree' = tree /\ touched = {}
      /\ snap \in SnapType /\ snap.names \in SUBSET Paths
  BY SnapSteps DEF SnapEntry, world, SnapType
<1> DEFINE rest == snap.names \ {q}
           n == snap.count + 1
           next == [snap EXCEPT !.names = rest, !.count = n]
           e == [kind |-> "dir", size |-> 0]
           place == [path |-> q, depth |-> snap.depth + 1]
           pending == Append(snap.pending, place)
           refuse(why) == [next EXCEPT !.pc = "over", !.outcome = why]
           copied == [next EXCEPT !.copy = Added(@, q, e), !.pending = Append(@, place)]
           opened == [next EXCEPT !.pc = "file", !.entry = q]
<1>2. snap' = IF n > MaxSnapshotEntries \/ snap.late THEN refuse("denied")
              ELSE IF q \in NestedNames THEN refuse("denied")
              ELSE IF LinkChain(q) # "ok" THEN refuse(LinkChain(q))
              ELSE CASE Kind(q) \in {"dir", "locked"} -> copied
                     [] Kind(q) \in {"file", "hard"} -> opened
                     [] OTHER -> refuse("denied")
  BY DEF SnapEntry
<1>3. \/ snap' = copied /\ Kind(q) \in {"dir", "locked"} /\ q \notin NestedNames
      \/ snap' = opened /\ Kind(q) \in {"file", "hard"} /\ q \notin NestedNames
      \/ /\ \E why \in {"denied", "notFound"} : snap' = refuse(why)
         /\ \/ n > MaxSnapshotEntries \/ snap.late \/ q \in NestedNames
            \/ LinkChain(q) # "ok" \/ Kind(q) \notin {"dir", "locked", "file", "hard"}
  <2> HIDE DEF refuse, copied, opened, next, n
  <2> QED BY <1>2, LinkChainFacts
<1>4. ~snap.late
  <2>1. snap'.late = snap.late
    BY <1>1, <1>3 DEF SnapType
  <2> QED BY <2>1
<1>5. /\ SnapCounts /\ SnapToOpen /\ SnapOpen /\ SnapMade \subseteq SnapAll
      /\ SnapAll \in SUBSET Paths /\ snap.copy \in SnapCopies /\ SnapMade \in SUBSET Paths
      /\ SnapHolds \in Nat /\ snap.remaining \in Nat /\ snap.depth \in Nat
      /\ snap.pending \in Seq(SnapPlaces) /\ snap.source \in Nodes /\ snap.count = SnapHolds
      /\ snap.outcome = "none"
  <2>1. SnapNeeds = 0
    BY <1>1 DEF SnapNeeds
  <2> QED BY <1>1, <1>4, <2>1, SnapWalks DEF SnapCounts
<1>6. SnapWaits(q) /\ q \in SnapAll /\ q \notin SnapMade
  BY <1>1, <1>5 DEF SnapOpen, SnapWaits
<1>7. CASE \E why \in {"denied", "notFound"} : snap' = refuse(why)
  <2>1. PICK why \in {"denied", "notFound"} : snap' = refuse(why)
    BY <1>7
  <2>2. snap'.pc = "over" /\ snap'.outcome = why
    BY <1>1, <2>1 DEF SnapType
  <2>3. \/ n > MaxSnapshotEntries \/ q \in NestedNames \/ Kind(q) \notin {"dir", "file"}
    <3>1. snap'.pc # copied.pc /\ snap'.pc # opened.pc
      BY <1>1, <2>2 DEF SnapType
    <3>2. Kind(q) # "link" => LinkChain(q) = "ok"
      BY <1>6, SnapWay
    <3> HIDE DEF copied, opened, refuse, n
    <3> QED BY <1>3, <1>4, <3>1, <3>2
  <2>4. ~SnapFits
    <3>1. CASE n > MaxSnapshotEntries
      <4>1. /\ IsFiniteSet(SnapMade) /\ IsFiniteSet(SnapAll)
            /\ SnapMade \cup {q} \in SUBSET SnapAll
        BY <1>5, <1>6, PathsAreFinite
      <4>2. Cardinality(SnapMade \cup {q}) = SnapHolds + 1
        BY <1>6, <4>1, FS_AddElement DEF SnapHolds, SnapMade
      <4>3. Cardinality(SnapMade \cup {q}) <= Cardinality(SnapAll) /\ Cardinality(SnapAll) \in Nat
        BY <4>1, FS_Subset, FS_CardinalityType
      <4>4. SnapHolds + 1 > MaxSnapshotEntries
        BY <1>5, <3>1
      <4>5. ~(Cardinality(SnapAll) <= MaxSnapshotEntries)
        BY <1>5, <4>2, <4>3, <4>4, SnapshotAssumption
      <4> QED BY <4>5 DEF SnapFits
    <3>2. CASE q \in NestedNames
      BY <1>6, <3>2 DEF SnapFits
    <3>3. CASE Kind(q) \notin {"dir", "file"}
      BY <1>6, <3>3, SnapOdd
    <3> QED BY <2>3, <3>1, <3>2, <3>3
  <2> QED BY <1>1, <2>2, <2>4, SnapRefused
<1>8. CASE snap' = copied /\ Kind(q) \in {"dir", "locked"} /\ q \notin NestedNames
  <2>1. /\ snap'.pc = "entries" /\ snap'.copy = Added(snap.copy, q, e) /\ snap'.pending = pending
        /\ snap'.remaining = snap.remaining /\ snap'.count = n /\ snap'.names = rest
        /\ snap'.source = snap.source /\ snap'.depth = snap.depth /\ snap'.outcome = snap.outcome
    BY <1>1, <1>8 DEF SnapType
  <2>2. e \in Entries /\ EntrySize(e) = 0
    BY DEF Entries, Kinds, EntrySize
  <2>3. place \in SnapPlaces /\ place.path = q /\ place.depth = snap.depth + 1
    BY <1>5 DEF SnapPlaces, Nodes
  <2> HIDE DEF e, place
  <2>4. /\ SnapMade' = SnapMade \cup {q} /\ SnapHolds' = SnapHolds + 1
        /\ TotalOf(snap.copy, SnapMade) \in Nat
        /\ TotalOf(snap'.copy, SnapMade') = TotalOf(snap.copy, SnapMade) + EntrySize(e)
        /\ SnapPlain' = SnapPlain /\ SnapAll' = SnapAll /\ SnapMade' \subseteq SnapPlain
        /\ \A r : Kind(r)' = Kind(r)
        /\ Front(q) = snap.source /\ snap.source # q /\ Front(q) \in SnapMade \cup {Top}
        /\ \A d \in PathsOf(snap.pending) : SnapOpens(d)' /\ SnapUnlisted(d)'
        /\ snap.source \in SnapMade' \cup {Top} /\ Kind(snap.source) \in {"dir", "locked"}
        /\ SnapUnlisted(q)'
        /\ q \notin PathsOf(snap.pending)
    BY <1>1, <1>5, <1>6, <1>8, <2>1, <2>2, SnapMadeOne
  <2>5. /\ pending \in Seq(SnapPlaces) /\ PathsOf(pending) = PathsOf(snap.pending) \cup {q}
        /\ Range(pending) = Range(snap.pending) \cup {place}
        /\ \A i, j \in DOMAIN pending : pending[i].path = pending[j].path => i = j
    <3>1. pending \in Seq(SnapPlaces) /\ PathsOf(pending) = PathsOf(snap.pending) \cup {q}
      BY <1>5, <2>3, PathsOfFacts
    <3>2. Range(pending) = Range(snap.pending) \cup {place}
      BY <1>5, <2>3, AppendRange
    <3>3. /\ \A i, j \in DOMAIN snap.pending : snap.pending[i].path = snap.pending[j].path => i = j
          /\ place.path \notin PathsOf(snap.pending)
      BY <1>5, <2>3, <2>4 DEF SnapToOpen
    <3>4. \A i, j \in DOMAIN pending : pending[i].path = pending[j].path => i = j
      BY <1>5, <2>3, <3>3, OneMorePlace
    <3> QED BY <3>1, <3>2, <3>4
  <2> HIDE DEF pending, rest, n
  <2>6. SnapNeeds' = 0 /\ n = SnapHolds + 1
    BY <1>5, <2>1 DEF SnapNeeds, n
  <2>7. SnapCounts'
    <3>1. \A p \in SnapMade' :
            /\ Front(p) \in SnapMade' \cup {Top}
            /\ Kind(p) = "dir" => p \in PathsOf(pending) \/ Len(p) <= MaxSnapshotDepth
      BY <1>5, <2>4, <2>5 DEF SnapCounts
    <3>2. TotalOf(snap'.copy, SnapMade') + snap'.remaining = MaxSnapshotBytes
      BY <1>5, <2>1, <2>2, <2>4 DEF SnapCounts
    <3>3. snap'.count = SnapHolds' + SnapNeeds' /\ snap'.outcome = "none"
      BY <1>5, <2>1, <2>4, <2>6
    <3> QED BY <2>1, <2>4, <3>1, <3>2, <3>3 DEF SnapCounts
  <2>8. SnapToOpen'
    <3>1. SnapOpens(q)' /\ place.depth = Len(q)
      <4>1. Len(q) = Len(snap.source) + 1 /\ snap.depth = Len(snap.source)
        BY <1>1, <1>5, <2>4, PathFacts DEF SnapOpen
      <4> QED BY <1>8, <2>3, <2>4, <4>1 DEF SnapOpens
    <3>2. ASSUME NEW other \in Range(pending)
          PROVE  SnapOpens(other.path)' /\ SnapUnlisted(other.path)' /\ other.depth = Len(other.path)
      <4>1. CASE other = place
        BY <2>3, <2>4, <3>1, <4>1
      <4>2. CASE other \in Range(snap.pending)
        <5>1. other.path \in PathsOf(snap.pending) /\ other.depth = Len(other.path)
          BY <1>5, <4>2 DEF PathsOf, SnapToOpen
        <5> QED BY <2>4, <5>1
      <4> QED BY <2>5, <4>1, <4>2
    <3> QED BY <2>1, <2>5, <3>2 DEF SnapToOpen
  <2>9. SnapOpen'
    <3>1. /\ snap.source \notin PathsOf(pending) /\ snap.depth = Len(snap.source)
          /\ snap.depth <= MaxSnapshotDepth /\ Kind(snap.source) = "dir"
          /\ rest \subseteq (Children(snap.source) \cap SnapAll) \ SnapMade'
      BY <1>1, <1>5, <2>4, <2>5 DEF SnapOpen, rest
    <3> QED BY <2>1, <2>4, <3>1 DEF SnapOpen, SnapOpens
  <2> QED BY <2>1, <2>7, <2>8, <2>9 DEF SnapTells
<1>9. CASE snap' = opened /\ Kind(q) \in {"file", "hard"} /\ q \notin NestedNames
  <2>1. /\ snap'.pc = "file" /\ snap'.copy = snap.copy /\ snap'.pending = snap.pending
        /\ snap'.remaining = snap.remaining /\ snap'.count = n /\ snap'.names = rest
        /\ snap'.source = snap.source /\ snap'.depth = snap.depth /\ snap'.outcome = snap.outcome
        /\ snap'.entry = q
    BY <1>1, <1>9 DEF SnapType
  <2>2. /\ SnapMade' = SnapMade /\ SnapHolds' = SnapHolds /\ SnapNeeds' = 1
        /\ SnapPlain' = SnapPlain /\ SnapAll' = SnapAll /\ \A p : Kind(p)' = Kind(p)
    BY <1>1, <2>1, SnapTreeSame DEF SnapMade, SnapHolds, SnapNeeds, Kind
  <2>3. n = SnapHolds' + SnapNeeds'
    BY <1>5, <2>2
  <2> HIDE DEF n
  <2>4. SnapCounts'
    BY <1>5, <2>1, <2>2, <2>3 DEF SnapCounts
  <2>5. SnapToOpen'
    BY <1>5, <2>1, <2>2 DEF SnapToOpen, SnapOpens, SnapUnlisted
  <2>6. SnapOpen'
    BY <1>1, <1>5, <1>6, <1>9, <2>1, <2>2 DEF SnapOpen, SnapOpens, SnapWaits
  <2> QED BY <2>1, <2>4, <2>5, <2>6 DEF SnapTells
<1> QED BY <1>3, <1>7, <1>8, <1>9

LEMMA SnapTellsFile ==
  ASSUME WorldOK, SnapInv, SnapTells, SnapFile
  PROVE  SnapTells'
<1> SUFFICES ASSUME touched' = {}, ~snap'.late PROVE SnapTells'
  BY DEF SnapTells
<1>1. /\ snap.pc = "file" /\ tree' = tree /\ touched = {} /\ snap \in SnapType
      /\ snap.entry \in Paths
  BY SnapSteps DEF SnapFile, world, SnapTrue
<1>0. PICK q \in Paths : q = snap.entry
  BY <1>1
<1> DEFINE e == [kind |-> "file", size |-> tree[q].size]
           left == snap.remaining - tree[q].size
           copied == [snap EXCEPT !.pc = "entries", !.remaining = left, !.copy = Added(@, q, e)]
<1>2. \/ ~SafeRead(q, snap.remaining).ok /\ SnapEnds("denied")
      \/ SafeRead(q, snap.remaining).ok /\ snap' = copied
  BY <1>0 DEF SnapFile
<1>3. ~snap.late
  <2>1. snap'.late = snap.late
    BY <1>1, <1>2 DEF SnapEnds, SnapType
  <2> QED BY <2>1
<1>4. /\ SnapCounts /\ SnapToOpen /\ SnapOpen /\ SnapMade \subseteq SnapAll
      /\ SnapAll \in SUBSET Paths /\ snap.copy \in SnapCopies /\ SnapMade \in SUBSET Paths
      /\ SnapHolds \in Nat /\ snap.remaining \in Nat
      /\ snap.source \in Nodes /\ snap.count = SnapHolds + 1 /\ snap.outcome = "none"
  <2>1. SnapNeeds = 1
    BY <1>1 DEF SnapNeeds
  <2> QED BY <1>1, <1>3, <2>1, SnapWalks DEF SnapCounts
<1>5. /\ SnapWaits(q) /\ q \in SnapAll /\ q \notin SnapMade /\ q \notin NestedNames
      /\ Kind(q) \in {"file", "hard"} /\ q \notin snap.names
  BY <1>0, <1>1, <1>4 DEF SnapOpen, SnapWaits
<1>6. /\ tree[q].size \in Nat /\ Kind(q) = tree[q].kind
      /\ SafeRead(q, snap.remaining).ok <=> Kind(q) = "file" /\ tree[q].size <= snap.remaining
  <2>1. Anchored(Front(q))
    BY <1>5 DEF SnapAll
  <2> QED BY <2>1, PathFacts DEF SafeRead, WorldOK, Entries, Kind
<1>7. CASE ~SafeRead(q, snap.remaining).ok /\ SnapEnds("denied")
  <2>1. snap'.pc = "over" /\ snap'.outcome = "denied"
    BY <1>1, <1>7 DEF SnapEnds, SnapType
  <2>2. ~SnapFits
    <3>1. CASE Kind(q) # "file"
      BY <1>5, <3>1, SnapOdd
    <3>2. CASE ~(tree[q].size <= snap.remaining)
      <4> DEFINE total == TotalOf(snap.copy, SnapMade)
                 all == TotalOf(tree, SnapAll)
                 more == SnapMade \cup {q}
      <4>1. SUFFICES ASSUME SnapFits PROVE FALSE
        OBVIOUS
      <4>2. SnapAll = SnapFiles \cup SnapDirs /\ TotalSize(SnapFiles) <= MaxSnapshotBytes
        BY <4>1 DEF SnapFits
      <4>3. \A p \in SnapMade : Kind(p) # "locked"
        BY <1>4, <4>2 DEF SnapFiles, SnapDirs
      <4>4. total = TotalOf(tree, SnapMade) /\ total \in Nat
        BY <1>1, <1>4, <4>3, SnapCopiedWhole
      <4>5. TotalOf(tree, more) = TotalOf(tree, SnapMade) + SizeIn(tree, q) /\ SizeIn(tree, q) = tree[q].size
        <5>1. Alike(tree, tree, SnapMade)
          BY <1>4 DEF Alike, WorldOK, Entries
        <5>2. SizeIn(tree, q) = tree[q].size
          BY DEF SizeIn
        <5> QED BY <1>5, <1>6, <5>1, <5>2, TotalMore
      <4>6. TotalOf(tree, more) <= all /\ all \in Nat
        BY <1>4, <1>5, TotalWithin
      <4>7. all <= MaxSnapshotBytes
        BY <4>2, SnapSizes
      <4>8. total + snap.remaining = MaxSnapshotBytes
        BY <1>4 DEF SnapCounts
      <4> HIDE DEF total, all, more
      <4>9. total + tree[q].size <= MaxSnapshotBytes
        BY <1>6, <4>4, <4>5, <4>6, <4>7, SnapshotAssumption
      <4> QED BY <1>4, <1>6, <3>2, <4>4, <4>8, <4>9
    <3> QED BY <1>6, <1>7, <3>1, <3>2
  <2> QED BY <1>1, <2>1, <2>2, SnapRefused
<1>8. CASE SafeRead(q, snap.remaining).ok /\ snap' = copied
  <2>0. Kind(q) = "file" /\ tree[q].size <= snap.remaining
    BY <1>6, <1>8
  <2>1. /\ snap'.pc = "entries" /\ snap'.copy = Added(snap.copy, q, e) /\ snap'.remaining = left
        /\ snap'.count = snap.count /\ snap'.names = snap.names /\ snap'.pending = snap.pending
        /\ snap'.source = snap.source /\ snap'.depth = snap.depth /\ snap'.outcome = snap.outcome
    BY <1>1, <1>8 DEF SnapType
  <2>2. e \in Entries /\ EntrySize(e) = tree[q].size
    BY <1>6 DEF Entries, Kinds, EntrySize
  <2> HIDE DEF e
  <2>3. /\ SnapMade' = SnapMade \cup {q} /\ SnapHolds' = SnapHolds + 1
        /\ TotalOf(snap.copy, SnapMade) \in Nat
        /\ TotalOf(snap'.copy, SnapMade') = TotalOf(snap.copy, SnapMade) + EntrySize(e)
        /\ SnapPlain' = SnapPlain /\ SnapAll' = SnapAll /\ SnapMade' \subseteq SnapPlain
        /\ \A r : Kind(r)' = Kind(r)
        /\ Front(q) = snap.source /\ snap.source # q /\ Front(q) \in SnapMade \cup {Top}
        /\ \A d \in PathsOf(snap.pending) : SnapOpens(d)' /\ SnapUnlisted(d)'
        /\ snap.source \in SnapMade' \cup {Top} /\ Kind(snap.source) \in {"dir", "locked"}
        /\ SnapUnlisted(q)'
        /\ q \notin PathsOf(snap.pending)
    BY <1>1, <1>4, <1>5, <2>0, <2>1, <2>2, SnapMadeOne
  <2>4. SnapNeeds' = 0
    BY <2>1 DEF SnapNeeds
  <2>5. SnapCounts'
    <3>1. \A p \in SnapMade' :
            /\ Front(p) \in SnapMade' \cup {Top}
            /\ Kind(p) = "dir" => p \in PathsOf(snap.pending) \/ Len(p) <= MaxSnapshotDepth
      BY <1>4, <2>0, <2>3 DEF SnapCounts
    <3>2. TotalOf(snap'.copy, SnapMade') + snap'.remaining = MaxSnapshotBytes
      <4> DEFINE total == TotalOf(snap.copy, SnapMade)
                 after == TotalOf(snap'.copy, SnapMade')
      <4>1. total + snap.remaining = MaxSnapshotBytes
        BY <1>4 DEF SnapCounts
      <4>2. after = total + tree[q].size /\ total \in Nat
        BY <2>2, <2>3
      <4>3. snap'.remaining = snap.remaining - tree[q].size
        BY <2>1
      <4> HIDE DEF total, after
      <4>4. after + snap'.remaining = MaxSnapshotBytes
        BY <1>4, <1>6, <2>0, <4>1, <4>2, <4>3, SnapshotAssumption
      <4> QED BY <4>4 DEF after
    <3>3. snap'.count = SnapHolds' + SnapNeeds' /\ snap'.outcome = "none"
      BY <1>4, <2>1, <2>3, <2>4
    <3> QED BY <2>1, <2>3, <3>1, <3>2, <3>3 DEF SnapCounts
  <2>6. SnapToOpen'
    BY <1>4, <2>1, <2>3 DEF SnapToOpen, PathsOf
  <2>7. SnapOpen'
    <3>1. /\ snap.source \notin PathsOf(snap.pending) /\ snap.depth = Len(snap.source)
          /\ snap.depth <= MaxSnapshotDepth /\ Kind(snap.source) = "dir"
          /\ snap.names \subseteq (Children(snap.source) \cap SnapAll) \ SnapMade'
      BY <1>1, <1>4, <1>5, <2>3 DEF SnapOpen
    <3> QED BY <2>1, <2>3, <3>1 DEF SnapOpen, SnapOpens
  <2> QED BY <2>1, <2>5, <2>6, <2>7 DEF SnapTells
<1> QED BY <1>2, <1>7, <1>8

\* When nothing is left to come by, all is copied and fits.
LEMMA SnapAllIsMade ==
  ASSUME WorldOK, SnapInv, SnapTells, touched = {}, ~snap.late, snap.pc = "entries",
         snap.names = {}, snap.pending = <<>>
  PROVE  SnapFits /\ SnapMade = SnapAll
<1>1. /\ SnapCounts /\ SnapCovers /\ SnapRoom /\ SnapMade \subseteq SnapAll /\ SnapMade \subseteq SnapPlain
      /\ SnapHolds \in Nat /\ snap.remaining \in Nat
  BY SnapWalks, SnapSteps DEF SnapCounts
<1>2. PathsOf(snap.pending) = {}
  BY PathsOfFacts
<1>3. \A p : ~SnapAhead(p)
  BY <1>2 DEF SnapAhead
<1>4. ASSUME NEW p \in SnapAll PROVE p \in SnapMade /\ Kind(p) # "locked"
  <2>1. p \in Paths /\ SnapStays(p)
    BY DEF SnapAll, SnapStays, Untouched
  <2> QED BY <1>1, <1>3, <2>1 DEF SnapCovers, SnapMade
<1>5. SnapMade = SnapAll
  BY <1>1, <1>4
<1>6. SnapAll = SnapFiles \cup SnapDirs /\ SnapAll \cap NestedNames = {}
  BY <1>1, <1>4, <1>5 DEF SnapPlain, SnapFiles, SnapDirs
<1>7. Cardinality(SnapAll) <= MaxSnapshotEntries
  <2>1. Cardinality(SnapAll) = SnapHolds /\ SnapNeeds = 0
    BY <1>5 DEF SnapHolds, SnapMade, SnapNeeds
  <2> QED BY <1>1, <2>1 DEF SnapRoom
<1>8. TotalSize(SnapFiles) <= MaxSnapshotBytes
  <2> DEFINE total == TotalOf(snap.copy, SnapMade)
  <2>1. total = TotalOf(tree, SnapAll) /\ total \in Nat
    BY <1>1, <1>4, <1>5, SnapCopiedWhole
  <2>2. total = TotalSize(SnapFiles)
    BY <1>6, <2>1, SnapSizes
  <2>3. total + snap.remaining = MaxSnapshotBytes
    BY <1>1 DEF SnapCounts
  <2> HIDE DEF total
  <2> QED BY <1>1, <2>1, <2>2, <2>3, SnapshotAssumption
<1>9. \A p \in SnapDirs : Len(p) <= MaxSnapshotDepth
  BY <1>1, <1>2, <1>5 DEF SnapDirs, SnapCounts
<1> QED BY <1>5, <1>6, <1>7, <1>8, <1>9 DEF SnapFits

LEMMA SnapTellsNext ==
  ASSUME WorldOK, SnapInv, SnapTells, SnapNext
  PROVE  SnapTells'
<1> SUFFICES ASSUME touched' = {}, ~snap'.late PROVE SnapTells'
  BY DEF SnapTells
<1>1. /\ snap.pc = "entries" /\ snap.names = {} /\ tree' = tree /\ touched = {}
      /\ snap \in SnapType
  BY SnapSteps DEF SnapNext, world
<1> DEFINE pc == IF snap.pending = <<>> THEN "config" ELSE "pop"
<1>2. snap' = [snap EXCEPT !.pc = pc]
  BY DEF SnapNext, SnapGoes
<1>3. \/ pc = "config" /\ snap.pending = <<>>
      \/ pc = "pop"
  OBVIOUS
<1> HIDE DEF pc
<1>4. /\ snap'.pc = pc /\ snap'.copy = snap.copy /\ snap'.pending = snap.pending
      /\ snap'.remaining = snap.remaining /\ snap'.count = snap.count
      /\ snap'.outcome = snap.outcome /\ snap'.late = snap.late
  BY <1>1, <1>2 DEF SnapType
<1>5. SnapCounts /\ SnapToOpen
  BY <1>1, <1>4, SnapWalks
<1>6. /\ SnapMade' = SnapMade /\ SnapHolds' = SnapHolds /\ SnapAll' = SnapAll
      /\ SnapPlain' = SnapPlain /\ \A p : Kind(p)' = Kind(p)
  BY <1>1, <1>4, SnapTreeSame DEF SnapMade, SnapHolds, Kind
<1>7. CASE pc = "config" /\ snap.pending = <<>>
  <2>1. SnapFits /\ SnapMade = SnapAll
    BY <1>1, <1>4, <1>7, SnapAllIsMade
  <2>2. SnapFits'
    BY <1>1, <2>1, SnapTreeSame
  <2>3. snap.outcome = "none"
    BY <1>5 DEF SnapCounts
  <2>4. SnapJudged'
    BY <1>4, <1>6, <1>7, <2>1, <2>2, <2>3 DEF SnapJudged
  <2> QED BY <2>4, <1>4, <1>7 DEF SnapTells
<1>8. CASE pc = "pop"
  <2>1. SnapNeeds' = SnapNeeds
    BY <1>1, <1>4, <1>8 DEF SnapNeeds
  <2>2. SnapCounts'
    BY <1>4, <1>5, <1>6, <2>1 DEF SnapCounts
  <2>3. SnapToOpen'
    BY <1>4, <1>5, <1>6 DEF SnapToOpen, SnapOpens, SnapUnlisted
  <2>4. SnapOpen'
    BY <1>4, <1>8 DEF SnapOpen
  <2> QED BY <1>4, <1>8, <2>2, <2>3, <2>4 DEF SnapTells
<1> QED BY <1>3, <1>7, <1>8

LEMMA SnapTellsConfig ==
  ASSUME WorldOK, SnapInv, SnapTells, SnapConfig
  PROVE  SnapTells'
<1> SUFFICES ASSUME touched' = {}, ~snap'.late PROVE SnapTells'
  BY DEF SnapTells
<1>1. snap.pc = "config" /\ tree' = tree /\ touched = {} /\ snap \in SnapType
  BY SnapSteps DEF SnapConfig, world
<1> DEFINE odd == \/ ConfigPath \notin DOMAIN snap.copy \/ AlternatesPath \in DOMAIN snap.copy
                  \/ snap.copy[ConfigPath].kind = "dir" \/ snap.copy[ConfigPath].size > MaxConfigBytes
<1>2. \E why \in {"denied", "noGit", "timeout", "unsupported", "copy"} :
        SnapEnds(why) /\ (why = "denied" <=> odd)
  BY DEF SnapConfig
<1>0. PICK why \in {"denied", "noGit", "timeout", "unsupported", "copy"} :
        SnapEnds(why) /\ (why = "denied" <=> odd)
  BY <1>2
<1>3. /\ snap'.pc = "over" /\ snap'.outcome = why /\ snap'.copy = snap.copy
      /\ snap'.late = snap.late
  BY <1>0, <1>1 DEF SnapEnds, SnapType
<1>4. SnapFits /\ SnapMade = SnapAll /\ SnapAll = SnapFiles \cup SnapDirs
  BY <1>1, <1>3 DEF SnapTells, SnapJudged, SnapFits
<1>5. \A p \in SnapAll : snap.copy[p] = tree[p]
  <2>1. \A p \in SnapMade : Kind(p) # "locked"
    BY <1>4 DEF SnapFiles, SnapDirs
  <2> QED BY <1>1, <1>4, <2>1, SnapCopiedWhole
<1>6. odd <=> ~SnapUsable
  <2>1. CASE ConfigPath \in SnapAll
    <3>1. snap.copy[ConfigPath] = tree[ConfigPath] /\ ConfigPath \in Paths
      BY <1>5, <2>1, SnapshotAssumption
    <3>2. Kind(ConfigPath) = tree[ConfigPath].kind /\ tree[ConfigPath].size \in Nat
      BY <3>1, PathFacts DEF Kind, WorldOK, Entries
    <3>3. ConfigPath \in SnapFiles <=> tree[ConfigPath].kind # "dir"
      BY <1>4, <2>1, <3>2 DEF SnapFiles, SnapDirs
    <3>4. tree[ConfigPath].size > MaxConfigBytes <=> ~(tree[ConfigPath].size <= MaxConfigBytes)
      BY <3>2, SnapshotAssumption
    <3> QED BY <1>4, <2>1, <3>1, <3>3, <3>4 DEF SnapUsable, SnapMade
  <2>2. CASE ConfigPath \notin SnapAll
    BY <1>4, <2>2 DEF SnapUsable, SnapMade, SnapFiles
  <2> QED BY <2>1, <2>2
<1>7. /\ SnapMade' = SnapMade /\ SnapAll' = SnapAll
      /\ (SnapFits' <=> SnapFits) /\ (SnapUsable' <=> SnapUsable)
  BY <1>1, <1>3, SnapTreeSame DEF SnapMade
<1> HIDE DEF odd
<1>8. SnapJudged'
  BY <1>0, <1>3, <1>4, <1>6, <1>7 DEF SnapJudged
<1> QED BY <1>3, <1>8 DEF SnapTells

LEMMA SnapTellsStep ==
  ASSUME WorldOK, SnapInv, SnapTells, SnapshotNext
  PROVE  SnapTells'
<1>1. CASE SnapLate
  <2>1. snap \in SnapType /\ snap' = [snap EXCEPT !.late = TRUE]
    BY <1>1, SnapSteps DEF SnapLate
  <2>2. snap'.late
    BY <2>1 DEF SnapType
  <2> QED BY <2>2 DEF SnapTells
<1>2. CASE SnapFails
  <2>1. touched' # {}
    BY <1>2 DEF SnapFails, Fault, Disturb
  <2> QED BY <2>1 DEF SnapTells
<1>3. CASE \E p \in Paths : SnapEntry(p)
  BY <1>3, SnapTellsEntry
<1>4. CASE SnapPop \/ SnapScan \/ SnapFile \/ SnapNext \/ SnapConfig
  BY <1>4, SnapTellsPop, SnapTellsScan, SnapTellsFile, SnapTellsNext, SnapTellsConfig
<1> QED BY <1>1, <1>2, <1>3, <1>4 DEF SnapshotNext

LEMMA SnapQuiet ==
  ASSUME SnapTells
  PROVE  SnapQuietExact
<1> SUFFICES ASSUME snap.pc \in {"config", "over"}, touched = {}, ~snap.late
             PROVE  /\ SnapFits => SnapMade = SnapAll
                    /\ snap.outcome \in {"copy", "noGit", "timeout", "unsupported"} =>
                         SnapFits /\ SnapUsable
                    /\ snap.outcome = "denied" => ~(SnapFits /\ SnapUsable)
  BY DEF SnapQuietExact, SnapFits, SnapUsable, SnapMade, SnapAll, SnapFiles, SnapDirs
<1>1. SnapJudged
  BY DEF SnapTells
<1> QED BY <1>1 DEF SnapJudged

-----------------------------------------------------------------------------
(* Reports on a tree that nobody touches *)

\* What the tools that walk know of the tree as long as nobody touches it.
TreesTell == BanditTells /\ AgentJudged /\ AgentTells /\ AgentReads /\ SnapTells

LEMMA TreesTellInit == Init => TreesTell
<1> SUFFICES ASSUME Init PROVE TreesTell
  OBVIOUS
<1>1. CASE ATreeTool
  <2>1. PICK start \in Starts :
          scan = start[1] /\ bandit = start[2] /\ snap = start[3] /\ pages = start[4]
    BY <1>1, Zenon DEF ATreeTool
  <2>2. /\ scan = AgentOff \/ \E request \in AgentRequests : scan = AgentBegin(request)
        /\ bandit = BanditBegin \/ bandit = BanditOff
        /\ snap = SnapOff \/ snap = SnapBegin
    BY <2>1 DEF Starts
  <2> QED BY <2>2, BanditTellsFirst, AgentJudgedFirst, AgentTellsFirst, AgentReadsFirst,
             SnapTellsFirst DEF TreesTell
<1>2. CASE TheAuditor
  <2>1. scan = AgentOff /\ bandit = BanditOff /\ snap = SnapOff
    BY <1>2, Zenon DEF TheAuditor
  <2> QED BY <2>1, BanditTellsFirst, AgentJudgedFirst, AgentTellsFirst, AgentReadsFirst,
             SnapTellsFirst DEF TreesTell
<1> QED BY <1>1, <1>2 DEF Init

\* A step of the agent auditor: what it judged is of no concern once touched.
LEMMA AgentTreesTell ==
  ASSUME WorldOK, WorldOK', AgentInv, AgentJudged, AgentTells, AgentReads, AgentNext
  PROVE  AgentJudged' /\ AgentTells' /\ AgentReads'
<1>1. CASE touched' = {}
  BY <1>1, AgentJudgedStep, AgentTellsStep, AgentReadsStep
<1>2. CASE touched' # {}
  <2>1. AgentJudged'
    BY <1>2 DEF AgentJudged
  <2> QED BY <2>1, AgentTellsStep, AgentReadsStep
<1> QED BY <1>1, <1>2

LEMMA TreesTellStep == TreeInvariant /\ TreesTell /\ [Next]_vars => TreesTell'
<1> SUFFICES ASSUME TreeInvariant, TreesTell, [Next]_vars PROVE TreesTell'
  OBVIOUS
<1>0. WorldOK /\ AgentInv /\ BanditInv /\ SnapInv
      /\ BanditTells /\ AgentJudged /\ AgentTells /\ AgentReads /\ SnapTells
  BY DEF TreeInvariant, TreesTell
<1>9. ASSUME WorldOK', Moves, UNCHANGED <<scan, bandit, snap>>
      PROVE  TreesTell'
  BY <1>0, <1>9, BanditTellsStands, AgentJudgedStands, AgentTellsStands, AgentReadsStands,
     SnapTellsStands DEF TreesTell
<1>1. CASE AgentNext /\ UNCHANGED <<bandit, snap, pages, envWorld, audit>>
  <2>1. WorldOK' /\ Moves
    BY <1>0, <1>1, AgentStep
  <2>2. AgentJudged' /\ AgentTells' /\ AgentReads'
    BY <1>0, <1>1, <2>1, AgentTreesTell
  <2> QED BY <1>0, <1>1, <2>1, <2>2, BanditTellsStands, SnapTellsStands DEF TreesTell
<1>2. CASE BanditNext /\ UNCHANGED <<scan, snap, pages, envWorld, audit>>
  <2>1. BanditTells' /\ WorldOK' /\ Moves
    BY <1>0, <1>2, BanditStep, BanditTellsStep
  <2> QED BY <1>0, <1>2, <2>1, AgentJudgedStands, AgentTellsStands, AgentReadsStands,
             SnapTellsStands DEF TreesTell
<1>3. CASE SnapshotNext /\ UNCHANGED <<scan, bandit, pages, envWorld, audit>>
  <2>1. SnapTells' /\ WorldOK' /\ Moves
    BY <1>0, <1>3, SnapStep, SnapTellsStep
  <2> QED BY <1>0, <1>3, <2>1, AgentJudgedStands, AgentTellsStands, AgentReadsStands,
             BanditTellsStands DEF TreesTell
<1>4. CASE PagesNext /\ UNCHANGED <<scan, bandit, snap, envWorld, audit>>
  <2>1. WorldOK' /\ Moves
    BY <1>4, PagesStep DEF TreeInvariant
  <2> QED BY <1>4, <1>9, <2>1
<1>5. CASE UNCHANGED <<world, tools>>
  <2>1. WorldOK' /\ Moves /\ UNCHANGED <<scan, bandit, snap>>
    BY <1>0, <1>5, StandingMoves DEF tools
  <2> QED BY <1>9, <2>1
<1>6. CASE Others /\ UNCHANGED <<tools, envWorld, audit>>
  <2>1. WorldOK' /\ Moves /\ UNCHANGED <<scan, bandit, snap>>
    BY <1>0, <1>6, OthersMove DEF tools
  <2> QED BY <1>9, <2>1
<1>7. CASE UNCHANGED vars
  BY <1>5, <1>7 DEF vars, tools
<1> QED BY <1>1, <1>2, <1>3, <1>4, <1>5, <1>6, <1>7 DEF Next, Rest

\* What the reports on a tree say, of QuietExact.
TreesAreTold ==
  AgentQuietExact /\ AgentRefusesForCause /\ BanditQuietExact /\ SnapQuietExact

LEMMA TreesAreToldExactly == TreeInvariant /\ TreesTell => TreesAreTold
BY AgentQuiet, AgentRefuses, BanditQuiet, SnapQuiet
   DEF TreeInvariant, TreesTell, TreesAreTold

\* Of a tree that nobody touches, each tool that walks it says exactly what is in
\* it: what limits let through, refusals with their reasons, reserves with their
\* causes (audit_agent_configs, _snapshot_authorized_sources,
\* private_repository_snapshot).
THEOREM ReportsOnTreesAreExact == Spec => []TreesAreTold
BY TreesTellInit, TreesTellStep, TreesAreToldExactly, TreesAreCovered, PTL DEF Spec

-----------------------------------------------------------------------------
(* What the audit says of an environment that nobody changes *)

\* If one site is found, its entries in order, and the distribution of each.
EnvSite == CHOOSE s \in EnvSites : TRUE
EnvEntries == EntriesOf(EnvSite)
EnvDist(i) == <<EnvSite, EnvEntries[i]>>
EnvDeclared == [x \in EnvDists |-> EnvParsed(x).declared]
EnvUpTo(k) == {EnvDist(i) : i \in 1..k}

\* The configuration and the number of sites, as they have to be.
EnvPlain ==
  /\ env.config.kind = "file" /\ EnvConfig # NoConfig /\ EnvConfig.system = "false"
  /\ Cardinality(EnvSites) = 1

\* A distribution was parsed as what it is, with all its requirements.
RightlyParsed(i) ==
  /\ audit.parsed[i] = EnvParsed(EnvDist(i)) /\ audit.parsed[i] # NoPackage
  /\ env.entry[EnvDist(i)].kind = "file" /\ audit.parsed[i].declared <= MaxPerDistribution

\* The first entries were kept, and the first of these are parsed.
AuditFar == Len(audit.parsed) + Len(audit.todo)
AuditParses ==
  /\ \A i \in 1..AuditFar : EnvEntries[i] \notin Eggs
  /\ \A i \in 1..Len(audit.todo) : audit.todo[i] = EnvDist(Len(audit.parsed) + i)
  /\ \A i \in 1..Len(audit.parsed) : RightlyParsed(i)
  /\ SumOver(EnvDeclared, EnvUpTo(Len(audit.parsed))) + audit.left = MaxDependencies

\* The site is listed, and entry by entry looked at.
AuditListed == audit.sites = <<>> /\ Len(EnvEntries) <= MaxEntries
AuditLists ==
  /\ audit.pc = "list" => audit.sites \in {<<>>, <<EnvSite>>}
  /\ audit.pc = "list" /\ audit.sites # <<>> => AuditFar = 0
  /\ audit.pc = "verify" =>
       /\ audit.sites = <<>> /\ audit.site = EnvSite /\ audit.names = EnvEntries /\ AuditFar = 0
  /\ audit.pc = "entries" =>
       /\ AuditListed /\ audit.site = EnvSite /\ AuditFar + Len(audit.names) = Len(EnvEntries)
       /\ \A i \in 1..Len(audit.names) : audit.names[i] = EnvEntries[AuditFar + i]
  /\ (audit.pc = "list" /\ audit.sites = <<>>) \/ audit.pc = "read" =>
       AuditListed /\ AuditFar = Len(EnvEntries)
  /\ audit.pc = "read" => Len(EnvEntries) <= MaxMetadata
  /\ audit.pc # "read" => Len(audit.parsed) = 0

\* The findings tell what is not there.
AuditFinds ==
  EnvClear /\ (Found("missing") \cup Found("incompatible") # {} <=> EnvUnmet # {})

\* The audit begins with nothing, and looks for the configuration and the sites.
AuditBegins ==
  /\ audit.complete = NoWarnings /\ ~audit.over /\ audit.todo = <<>> /\ audit.parsed = <<>>
  /\ audit.left = MaxDependencies
  /\ audit.pc \in {"same", "lib", "posix", "layout"} =>
       env.config.kind = "file" /\ audit.config = EnvConfig /\ EnvConfig # NoConfig
  /\ audit.pc = "invalid" => ~EnvClear
  /\ Len(audit.sites) = Cardinality(Range(audit.sites))
  /\ audit.pc = "layout" => Range(audit.sites) = EnvSites
  /\ audit.pc = "posix" => Range(audit.sites) = EnvSites \cap {Lib}
  /\ audit.pc \notin {"layout", "posix"} => audit.sites = <<>>

\* Nothing was withdrawn, nor is about to be.
Certain == audit.complete = NoWarnings /\ ~audit.over

\* As long as nothing is withdrawn it is as told, and what was has a reason.
AuditInspects ==
  /\ audit.complete = NoWarnings \/ audit.complete.analysis = FALSE
  /\ audit.pc = "read" /\ audit.over => audit.complete.analysis = FALSE
  /\ Certain => EnvPlain /\ AuditParses /\ AuditLists
  /\ ~Certain => ~EnvClear

\* What it said without reserve is so; what it said with reserve has a reason.
AuditSays ==
  calm =>
    /\ audit.pc \in Early => AuditBegins
    /\ audit.pc \in Inspecting => AuditInspects
    /\ audit.pc = "report" =>
         \/ audit.complete.analysis = TRUE /\ AuditFinds
         \/ audit.complete.analysis = FALSE /\ ~EnvClear
    /\ audit.pc = "over" =>
         /\ audit.outcome \in {"partial", "invalid"} => ~EnvClear
         /\ audit.outcome \in {"issues", "noIssues"} =>
              EnvClear /\ (audit.outcome = "issues" <=> EnvUnmet # {})

\* EnvClear with the sum as the lemmas about sums have it.
EnvWithin ==
  /\ EnvPlain
  /\ \A s \in EnvSites : /\ env.site[s].names \cap Eggs = {}
                         /\ Cardinality(env.site[s].names) <= MaxEntries
  /\ Cardinality(EnvDists) <= MaxMetadata
  /\ \A x \in EnvDists : env.entry[x].kind = "file" /\ EnvParsed(x) # NoPackage
  /\ \A x, y \in EnvDists : x # y => EnvParsed(x).name # EnvParsed(y).name
  /\ \A x \in EnvDists : EnvParsed(x).declared <= MaxPerDistribution
  /\ SumOver(EnvDeclared, EnvDists) <= MaxDependencies
  /\ \A r \in EnvWanted : ~Unverifiable(r)

LEMMA ClearIs == (EnvClear <=> EnvWithin) /\ (EnvClear' <=> EnvWithin')
BY DEF EnvClear, EnvWithin, EnvPlain, SumOver, EnvDeclared

\* The environment stays what it is.
LEMMA EnvSame ==
  ASSUME UNCHANGED env
  PROVE  /\ EnvSites' = EnvSites /\ EnvSite' = EnvSite /\ EnvEntries' = EnvEntries
         /\ EnvDists' = EnvDists /\ EnvDeclared' = EnvDeclared
         /\ \A i : EnvDist(i)' = EnvDist(i)
         /\ \A k : EnvUpTo(k)' = EnvUpTo(k)
         /\ \A x : EnvParsed(x)' = EnvParsed(x)
         /\ EnvWanted' = EnvWanted /\ EnvUnmet' = EnvUnmet
         /\ (EnvPlain' <=> EnvPlain) /\ (EnvClear' <=> EnvClear) /\ EnvConfig' = EnvConfig
<1>1. EnvConfig' = EnvConfig /\ \A x : EnvParsed(x)' = EnvParsed(x)
  BY Zenon DEF EnvConfig, EnvParsed
<1>2. EnvSites' = EnvSites /\ EnvDists' = EnvDists
  <2>1. EnvSites' = EnvSites
    BY <1>1 DEF EnvSites
  <2> QED BY <2>1 DEF EnvDists
<1>3. EnvSite' = EnvSite
  BY <1>2, Zenon DEF EnvSite
<1>4. EnvEntries' = EnvEntries
  BY <1>3, Zenon DEF EnvEntries, EntriesOf
<1>5. /\ \A i : EnvDist(i)' = EnvDist(i)
      /\ \A k : EnvUpTo(k)' = EnvUpTo(k)
  BY <1>3, <1>4 DEF EnvDist, EnvUpTo
<1>6. EnvDeclared' = EnvDeclared
  BY <1>1, <1>2 DEF EnvDeclared
<1>7. EnvWanted' = EnvWanted
  BY <1>1, <1>2 DEF EnvWanted
<1>8. EnvUnmet' = EnvUnmet
  BY <1>1, <1>2, <1>7 DEF EnvUnmet
<1>9. EnvPlain' <=> EnvPlain
  BY <1>1, <1>2 DEF EnvPlain
<1>10. EnvClear' <=> EnvClear
  BY <1>1, <1>2, <1>6, <1>7, <1>9, ClearIs DEF EnvWithin
<1> QED BY <1>1, <1>2, <1>3, <1>4, <1>5, <1>6, <1>7, <1>8, <1>9, <1>10

-----------------------------------------------------------------------------
(* What an environment with one site has *)

LEMMA EnvSitesFinite == IsFiniteSet(EnvSites) /\ Cardinality(EnvSites) \in Nat
<1>1. IsFiniteSet({Lib, PythonDirectory(EnvConfig)})
  <2>1. IsFiniteSet({Lib} \cup {PythonDirectory(EnvConfig)})
    BY FS_Singleton, FS_AddElement
  <2>2. {Lib} \cup {PythonDirectory(EnvConfig)} = {Lib, PythonDirectory(EnvConfig)}
    OBVIOUS
  <2> QED BY <2>1, <2>2
<1>2. EnvSites \subseteq {Lib, PythonDirectory(EnvConfig)}
  BY DEF EnvSites
<1> QED BY <1>1, <1>2, FS_Subset, FS_CardinalityType

LEMMA EnvOneSite ==
  ASSUME EnvOK, EnvPlain
  PROVE  /\ EnvSites = {EnvSite} /\ EnvSite \in Sites
         /\ env.site[EnvSite] \in SiteStates /\ env.site[EnvSite].kind = "dir"
         /\ env.site[EnvSite].names \subseteq EntryNames
<1>1. PICK s : EnvSites = {s}
  BY EnvSitesFinite, FS_Singleton DEF EnvPlain
<1>2. EnvSite = s
  BY <1>1 DEF EnvSite
<1>3. s \in Sites /\ env.site[s].kind = "dir"
  BY <1>1 DEF EnvSites
<1>4. env.site[s] \in SiteStates
  BY <1>3 DEF EnvOK
<1>5. env.site[s].names \subseteq EntryNames
  BY <1>4 DEF SiteStates
<1> QED BY <1>1, <1>2, <1>3, <1>4, <1>5

LEMMA NamesFacts ==
  /\ Names \in Seq(EntryNames) /\ DOMAIN Names = 1..Len(Names) /\ Len(Names) \in Nat
  /\ \A i, j \in DOMAIN Names : Names[i] = Names[j] => i = j
  /\ IsFiniteSet(EntryNames)
<1>1. Names \in Seq(STRING)
  BY EnvAssumption
<1>2. Len(Names) \in Nat /\ DOMAIN Names = 1..Len(Names) /\ Names = [i \in 1..Len(Names) |-> Names[i]]
  BY <1>1, LenProperties
<1>3. \A i \in 1..Len(Names) : Names[i] \in EntryNames
  BY <1>2 DEF EntryNames, Range
<1>4. [i \in 1..Len(Names) |-> Names[i]] \in Seq(EntryNames)
  BY <1>2, <1>3, IsASeq
<1>5. Names \in Seq(EntryNames)
  BY <1>2, <1>4
<1>6. \A i, j \in DOMAIN Names : Names[i] = Names[j] => i = j
  BY EnvAssumption DEF IsInjective
<1>7. IsFiniteSet(EntryNames)
  <2>1. IsFiniteSet(DOMAIN Names)
    BY <1>2, FS_Interval, 1 \in Int, Len(Names) \in Int
  <2>2. Names \in Surjection(DOMAIN Names, EntryNames)
    <3>1. Names \in [DOMAIN Names -> EntryNames] /\ \A n \in EntryNames : \E i \in DOMAIN Names : Names[i] = n
      BY <1>2, <1>3 DEF EntryNames, Range
    <3> QED BY <3>1 DEF Surjection
  <2> QED BY <2>1, <2>2, FS_Surjection
<1> QED BY <1>2, <1>5, <1>6, <1>7

\* A sequence as long as its range is large has each element once.
LEMMA AsLongAsLarge ==
  ASSUME NEW S, NEW s \in Seq(S), Len(s) = Cardinality(Range(s))
  PROVE  \A i, j \in 1..Len(s) : s[i] = s[j] => i = j
<1> DEFINE n == Len(s)
           R == Range(s)
<1>1. n \in Nat /\ DOMAIN s = 1..n /\ s = [i \in 1..n |-> s[i]]
  BY LenProperties
<1>2. IsFiniteSet(1..n) /\ Cardinality(1..n) = n
  <2> HIDE DEF n
  <2>1. 1 \in Int /\ n \in Int
    BY <1>1
  <2>2. IsFiniteSet(1..n) /\ Cardinality(1..n) = IF 1 > n THEN 0 ELSE n - 1 + 1
    BY <2>1, FS_Interval
  <2> QED BY <1>1, <2>2
<1>3. s \in Surjection(1..n, R)
  <2>1. s \in [1..n -> R] /\ \A x \in R : \E i \in 1..n : s[i] = x
    BY <1>1 DEF Range
  <2> QED BY <2>1 DEF Surjection
<1>4. s \in Injection(1..n, R)
  <2>1. Cardinality(R) = Cardinality(1..n)
    BY <1>2
  <2> HIDE DEF n, R
  <2> QED BY <1>2, <1>3, <2>1, FS_Surjection
<1> QED BY <1>4 DEF Injection, IsInjective

\* Its entries are its names, each once.
LEMMA EnvEntriesAre ==
  ASSUME EnvOK, EnvPlain
  PROVE  /\ EnvEntries \in Seq(EntryNames) /\ Len(EnvEntries) \in Nat
         /\ Range(EnvEntries) = env.site[EnvSite].names
         /\ Len(EnvEntries) = Cardinality(env.site[EnvSite].names)
         /\ \A i \in 1..Len(EnvEntries) : EnvEntries[i] \in env.site[EnvSite].names
         /\ \A i, j \in 1..Len(EnvEntries) : EnvEntries[i] = EnvEntries[j] => i = j
<1> DEFINE held == env.site[EnvSite].names
           places == {i \in DOMAIN Names : Names[i] \in held}
           entries == EnvEntries
<1>1. held \subseteq EntryNames
  BY EnvOneSite
<1>2. entries \in Seq(EntryNames) /\ Range(entries) = held
  BY <1>1, EntriesFacts DEF EnvEntries
<1>3. entries = At(Names, places) /\ places \in SUBSET DOMAIN Names
  BY DEF EnvEntries, EntriesOf
<1>4. Len(entries) = Cardinality(places)
  <2> HIDE DEF places, entries
  <2> QED BY <1>3, NamesFacts, AtFacts
<1>5. Cardinality(held) = Cardinality(places)
  <2> DEFINE f == [i \in places |-> Names[i]]
  <2>1. f \in Injection(places, held)
    <3>1. f \in [places -> held] /\ \A i, j \in places : f[i] = f[j] => i = j
      BY NamesFacts
    <3> HIDE DEF f, places
    <3> QED BY <3>1 DEF Injection, IsInjective
  <2>2. f \in Surjection(places, held)
    <3>1. \A n \in held : \E i \in places : f[i] = n
      BY <1>1 DEF EntryNames, Range
    <3>2. f \in [places -> held]
      OBVIOUS
    <3> HIDE DEF f, places
    <3> QED BY <3>1, <3>2 DEF Surjection
  <2>3. IsFiniteSet(held)
    BY <1>1, NamesFacts, FS_Subset
  <2> HIDE DEF f, places, held
  <2> QED BY <2>1, <2>2, <2>3, FS_Injection
<1>6. Len(entries) \in Nat /\ DOMAIN entries = 1..Len(entries)
  BY <1>2, LenProperties
<1>7. \A i \in 1..Len(entries) : entries[i] \in held
  <2> HIDE DEF entries, held
  <2> QED BY <1>2, <1>6 DEF Range
<1>8. \A i, j \in 1..Len(entries) : entries[i] = entries[j] => i = j
  <2> HIDE DEF entries, held, places
  <2>1. Len(entries) = Cardinality(Range(entries))
    BY <1>2, <1>4, <1>5
  <2> QED BY <1>2, <2>1, AsLongAsLarge
<1> HIDE DEF places
<1> QED BY <1>2, <1>4, <1>5, <1>6, <1>7, <1>8

\* Those that are not legacy are distributions, each once.
LEMMA EnvDistsHas ==
  ASSUME EnvOK, EnvPlain
  PROVE  /\ \A i \in 1..Len(EnvEntries) : EnvEntries[i] \notin Eggs => EnvDist(i) \in EnvDists
         /\ \A i, j \in 1..Len(EnvEntries) : EnvDist(i) = EnvDist(j) => i = j
         /\ \A x \in EnvDists : \E i \in 1..Len(EnvEntries) : x = EnvDist(i)
<1>1. ASSUME NEW i \in 1..Len(EnvEntries), EnvEntries[i] \notin Eggs PROVE EnvDist(i) \in EnvDists
  <2>1. EnvEntries[i] \in env.site[EnvSite].names /\ EnvEntries[i] \in EntryNames
    BY EnvEntriesAre, EnvOneSite
  <2> QED BY <1>1, <2>1, EnvOneSite DEF EnvDist, EnvDists
<1>2. \A i, j \in 1..Len(EnvEntries) : EnvDist(i) = EnvDist(j) => i = j
  BY EnvEntriesAre DEF EnvDist
<1>3. ASSUME NEW x \in EnvDists PROVE \E i \in 1..Len(EnvEntries) : x = EnvDist(i)
  <2>1. x[1] = EnvSite /\ x[2] \in env.site[EnvSite].names /\ x = <<x[1], x[2]>>
    BY EnvOneSite DEF EnvDists
  <2>2. x[2] \in Range(EnvEntries) /\ DOMAIN EnvEntries = 1..Len(EnvEntries)
    BY <2>1, EnvEntriesAre, LenProperties
  <2>3. PICK i \in 1..Len(EnvEntries) : EnvEntries[i] = x[2]
    BY <2>2 DEF Range
  <2> QED BY <2>1, <2>3 DEF EnvDist
<1> QED BY <1>1, <1>2, <1>3

LEMMA EnvDistsFinite ==
  ASSUME EnvOK
  PROVE  IsFiniteSet(EnvDists) /\ EnvDists \subseteq Sites \X EntryNames
<1>1. EnvDists \subseteq EnvSites \X EntryNames /\ EnvSites \subseteq Sites
  BY DEF EnvDists, EnvSites
<1>2. IsFiniteSet(EnvSites \X EntryNames)
  BY EnvSitesFinite, NamesFacts, FS_Product
<1> QED BY <1>1, <1>2, FS_Subset

\* Where none is legacy, they are all of them.
LEMMA EnvDistsAre ==
  ASSUME EnvOK, EnvPlain, \A i \in 1..Len(EnvEntries) : EnvEntries[i] \notin Eggs
  PROVE  EnvDists = EnvUpTo(Len(EnvEntries)) /\ Cardinality(EnvDists) = Len(EnvEntries)
<1> DEFINE n == Len(EnvEntries)
           f == [i \in 1..n |-> EnvDist(i)]
<1>1. EnvDists = EnvUpTo(n)
  BY EnvDistsHas DEF EnvUpTo
<1>2. n \in Nat
  BY EnvEntriesAre
<1>3. f \in Injection(1..n, EnvDists) /\ f \in Surjection(1..n, EnvDists)
  <2>1. f \in [1..n -> EnvDists] /\ \A i, j \in 1..n : f[i] = f[j] => i = j
    BY EnvDistsHas
  <2>2. \A x \in EnvDists : \E i \in 1..n : f[i] = x
    BY EnvDistsHas
  <2> HIDE DEF f, n
  <2> QED BY <2>1, <2>2 DEF Injection, Surjection, IsInjective
<1>4. IsFiniteSet(1..n) /\ Cardinality(1..n) = n
  <2> HIDE DEF n
  <2>1. 1 \in Int /\ n \in Int
    BY <1>2
  <2>2. IsFiniteSet(1..n) /\ Cardinality(1..n) = IF 1 > n THEN 0 ELSE n - 1 + 1
    BY <2>1, FS_Interval
  <2> QED BY <1>2, <2>2
<1>5. Cardinality(EnvDists) = n
  <2> HIDE DEF f, n
  <2> QED BY <1>3, <1>4, FS_Surjection
<1> QED BY <1>1, <1>5

-----------------------------------------------------------------------------
(* What is parsed, within one limit or another *)

\* Headers that make no distribution, and what the others make.
Useless(headers) ==
  \/ Len(Of("name", headers)) # 1 \/ Len(Of("version", headers)) # 1
  \/ Of("name", headers)[1].value = "" \/ Of("version", headers)[1].value = 0
Needed(headers, cap) ==
  SubSeq(Of("requires-dist", headers), 1, Min({Len(Of("requires-dist", headers)), cap}))
Package(headers, cap) ==
  [name |-> Of("name", headers)[1].value, version |-> Of("version", headers)[1].value,
   requirements |-> [i \in DOMAIN Needed(headers, cap) |-> Needed(headers, cap)[i].value],
   declared |-> Len(Of("requires-dist", headers)),
   truncated |-> Len(Of("requires-dist", headers)) > cap]

LEMMA ParsesAs ==
  \A headers, cap :
    ParseDistribution(headers, cap) = IF Useless(headers) THEN NoPackage ELSE Package(headers, cap)
BY Zenon DEF ParseDistribution, Useless, Needed, Package

LEMMA PackageIsNamed ==
  ASSUME NEW headers, NEW cap, ~Useless(headers)
  PROVE  HasName(Package(headers, cap)) /\ Package(headers, cap) # NoPackage
<1>1. HasName(Package(headers, cap))
  BY Zenon DEF HasName, Package, Useless
<1>2. ~HasName(NoPackage)
  BY Zenon DEF HasName, NoPackage
<1> QED BY <1>1, <1>2, Zenon

\* The limit decides what is kept of the requirements, and nothing else.
OfOne(p, q, cap, wide) ==
  /\ p = NoPackage <=> q = NoPackage
  /\ q.declared \in Nat
  /\ p # NoPackage =>
       /\ p.declared = q.declared
       /\ q.declared > cap => p.truncated = TRUE
       /\ q.declared <= cap => p.truncated = FALSE
       /\ q.declared <= cap /\ q.declared <= wide => p = q /\ Len(p.requirements) = q.declared
       /\ IsSequence(p.requirements)

LEMMA ParsedAlike ==
  ASSUME NEW headers, IsList(headers), NEW cap \in Nat, NEW wide \in Nat
  PROVE  OfOne(ParseDistribution(headers, cap), ParseDistribution(headers, wide), cap, wide)
<1> DEFINE p == ParseDistribution(headers, cap)
           q == ParseDistribution(headers, wide)
           requires == Of("requires-dist", headers)
           n == Len(requires)
<1>1. requires \in Seq(Range(headers)) /\ n \in Nat
  BY OfFacts
<1>2. CASE Useless(headers)
  <2>1. p = NoPackage /\ q = NoPackage
    BY <1>2, ParsesAs, Zenon
  <2>2. NoPackage.declared = 0
    BY Zenon DEF NoPackage
  <2> HIDE DEF p, q
  <2>3. OfOne(p, q, cap, wide)
    BY <2>1, <2>2 DEF OfOne
  <2> QED BY <2>3 DEF p, q
<1>3. CASE ~Useless(headers)
  <2>1. p = Package(headers, cap) /\ q = Package(headers, wide) /\ p # NoPackage /\ q # NoPackage
    BY <1>3, ParsesAs, PackageIsNamed, Zenon
  <2>2. \A c : Package(headers, c).declared = n /\ Package(headers, c).truncated = (n > c)
               /\ Package(headers, c).requirements = [i \in DOMAIN Needed(headers, c) |-> Needed(headers, c)[i].value]
    BY DEF Package
  <2>3. \A c \in Nat : /\ Needed(headers, c) \in Seq(Range(headers)) /\ Len(Needed(headers, c)) \in Nat
                       /\ n <= c => Needed(headers, c) = SubSeq(requires, 1, n) /\ Len(Needed(headers, c)) = n
    <3> TAKE c \in Nat
    <3> DEFINE m == Min({n, c})
    <3>1. m \in 0..n /\ (n <= c => m = n)
      BY <1>1, Smaller
    <3>2. Needed(headers, c) = SubSeq(requires, 1, m)
      BY DEF Needed
    <3> HIDE DEF requires, m
    <3>3. SubSeq(requires, 1, m) \in Seq(Range(headers)) /\ Len(SubSeq(requires, 1, m)) = m
      BY <1>1, <3>1, BeginningRange
    <3> QED BY <1>1, <3>1, <3>2, <3>3
  <2>4. \A c \in Nat : /\ IsSequence(Package(headers, c).requirements)
                       /\ Len(Package(headers, c).requirements) = Len(Needed(headers, c))
    <3> TAKE c \in Nat
    <3> DEFINE kept == Needed(headers, c)
               listed == [i \in DOMAIN kept |-> kept[i].value]
    <3>1. PICK m \in Nat : m = Len(kept) /\ DOMAIN kept = 1..m
      BY <2>3, LenProperties
    <3>2. listed = [i \in 1..m |-> listed[i]] /\ \A i \in 1..m : listed[i] \in Range(listed)
      BY <3>1 DEF Range
    <3> HIDE DEF listed, kept
    <3>3. listed \in Seq(Range(listed)) /\ Len(listed) = m
      BY <3>1, <3>2, IsASeq, LenProperties
    <3>4. Package(headers, c).requirements = listed
      BY <2>2 DEF listed, kept
    <3> QED BY <3>1, <3>3, <3>4 DEF IsSequence, kept
  <2>5. ASSUME n <= cap, n <= wide PROVE p = q
    <3>1. Needed(headers, cap) = Needed(headers, wide)
      BY <2>3, <2>5
    <3>2. (n > cap) = FALSE /\ (n > wide) = FALSE
      BY <1>1, <2>5
    <3> QED BY <2>1, <3>1, <3>2 DEF Package
  <2>6. p.declared = n /\ q.declared = n /\ p.truncated = (n > cap)
    BY <2>1, <2>2
  <2> HIDE DEF n
  <2>7. n <= cap => p.truncated = FALSE /\ Len(p.requirements) = n
    <3>1. n <= cap => Len(p.requirements) = n
      BY <2>1, <2>3, <2>4 DEF n
    <3>2. n <= cap => (n > cap) = FALSE
      BY <1>1
    <3> QED BY <2>6, <3>1, <3>2
  <2>8. IsSequence(p.requirements)
    BY <2>1, <2>4
  <2> HIDE DEF p, q
  <2>9. n > cap => p.truncated = TRUE
    BY <2>6
  <2>10. OfOne(p, q, cap, wide)
    BY <1>1, <2>1, <2>5, <2>6, <2>7, <2>8, <2>9 DEF OfOne
  <2> QED BY <2>10 DEF p, q
<1> QED BY <1>2, <1>3

\* What the sequences one after the other hold is what one of them holds.
RangesTo(s, n) == UNION {Range(s[i]) : i \in 1..n}

LEMMA FlatHolds ==
  ASSUME NEW s, NEW n \in Nat, NEW it, Flat(s, n, it), \A i \in 1..n : IsSequence(s[i])
  PROVE  \A k \in 1..n : IsSequence(it[k]) /\ Range(it[k]) = RangesTo(s, k)
<1> DEFINE Holds(k) == IsSequence(it[k]) /\ Range(it[k]) = RangesTo(s, k)
           bad == {k \in 0..n : k # 0 /\ ~Holds(k)}
<1>1. \A i \in 1..n : it[i] = IF i = 1 THEN s[i] ELSE it[i - 1] \o s[i]
  BY DEF Flat
<1>2. CASE bad = {}
  BY <1>2
<1>3. CASE bad # {}
  <2>1. PICK k \in bad : k = 0 \/ (k - 1 \in 0..n /\ k - 1 \notin bad)
    <3>1. bad \in SUBSET (0..n)
      OBVIOUS
    <3> HIDE DEF bad
    <3> QED BY <1>3, <3>1, SmallestInterval
  <2>2. k \in 1..n /\ ~Holds(k) /\ (k - 1 = 0 \/ Holds(k - 1))
    BY <2>1
  <2>3. IsSequence(s[k])
    BY <2>2
  <2>4. CASE k = 1
    <3>1. it[k] = s[k] /\ 1..k = {k}
      BY <1>1, <2>2, <2>4
    <3>2. RangesTo(s, k) = Range(s[k])
      BY <3>1 DEF RangesTo
    <3> QED BY <2>2, <2>3, <3>1, <3>2
  <2>5. CASE k # 1
    <3> DEFINE m == k - 1
    <3>1. it[k] = it[m] \o s[k] /\ Holds(m)
      <4>1. k - 1 # 0
        BY <2>2, <2>5
      <4>2. Holds(m)
        BY <2>2, <4>1
      <4>3. it[k] = it[m] \o s[k]
        <5> HIDE DEF Holds
        <5> QED BY <1>1, <2>2, <2>5
      <4> QED BY <4>2, <4>3
    <3>6. 1..k = (1..m) \cup {k}
      BY <2>2
    <3>2. PICK S, T : it[m] \in Seq(S) /\ s[k] \in Seq(T)
      BY <2>3, <3>1 DEF IsSequence
    <3>3. it[m] \in Seq(S \cup T) /\ s[k] \in Seq(S \cup T)
      <4> HIDE DEF m
      <4> QED BY <3>2, SeqOfSubset
    <3>4. it[k] \in Seq(S \cup T) /\ Range(it[k]) = Range(it[m]) \cup Range(s[k])
      <4> HIDE DEF m
      <4> QED BY <3>1, <3>3, ConcatRange
    <3>5. RangesTo(s, k) = RangesTo(s, m) \cup Range(s[k])
      <4> HIDE DEF m
      <4> QED BY <3>6 DEF RangesTo
    <3> QED BY <2>2, <3>1, <3>4, <3>5 DEF IsSequence
  <2> QED BY <2>4, <2>5
<1> QED BY <1>2, <1>3

LEMMA FlattenHolds ==
  ASSUME NEW s, NEW n \in Nat, Len(s) = n, \A i \in 1..n : IsSequence(s[i])
  PROVE  Range(FlattenSeq(s)) = RangesTo(s, n)
<1>1. CASE n = 0
  <2>1. Range(FlattenSeq(s)) = {}
    BY <1>1, EmptyRange DEF FlattenSeq
  <2> QED BY <1>1, <2>1 DEF RangesTo
<1>2. CASE n # 0
  <2>1. PICK it : Flat(s, n, it)
    BY FlatExists
  <2>2. n \in Nat \ {0} /\ n \in 1..n
    BY <1>2
  <2>3. FlattenSeq(s) = it[n]
    BY <2>1, <2>2, FlattenIsFlat
  <2> QED BY <2>1, <2>2, <2>3, FlatHolds
<1> QED BY <1>1, <1>2


-----------------------------------------------------------------------------
(* The audit of such an environment *)

\* Nobody else's steps matter, unless they change the environment.
LEMMA SaysStands ==
  ASSUME AuditSays, UNCHANGED audit, (env' = env /\ calm' = calm) \/ calm' = FALSE
  PROVE  AuditSays'
<1>1. CASE calm' = FALSE
  BY <1>1 DEF AuditSays
<1>2. CASE env' = env /\ calm' = calm
  <2>0. UNCHANGED env
    BY <1>2
  <2>1. /\ EnvSites' = EnvSites /\ EnvSite' = EnvSite /\ EnvEntries' = EnvEntries
        /\ EnvDeclared' = EnvDeclared
        /\ \A i : EnvDist(i)' = EnvDist(i)
        /\ \A k : EnvUpTo(k)' = EnvUpTo(k)
        /\ \A x : EnvParsed(x)' = EnvParsed(x)
        /\ EnvUnmet' = EnvUnmet
        /\ (EnvPlain' <=> EnvPlain) /\ (EnvClear' <=> EnvClear) /\ EnvConfig' = EnvConfig
    BY <2>0, EnvSame
  <2>2. \A i : RightlyParsed(i)' <=> RightlyParsed(i)
    BY <1>2, <2>1 DEF RightlyParsed
  <2>3. /\ AuditFar' = AuditFar /\ (AuditListed' <=> AuditListed) /\ (Certain' <=> Certain)
        /\ (AuditFinds' <=> AuditFinds)
    BY <2>1 DEF AuditFar, AuditListed, Certain, AuditFinds, Found
  <2>4. AuditParses' <=> AuditParses
    BY <2>1, <2>2, <2>3 DEF AuditParses
  <2>5. AuditLists' <=> AuditLists
    BY <2>1, <2>3 DEF AuditLists
  <2>6. AuditBegins' <=> AuditBegins
    BY <1>2, <2>1 DEF AuditBegins
  <2>7. AuditInspects' <=> AuditInspects
    BY <1>2, <2>1, <2>3, <2>4, <2>5 DEF AuditInspects
  <2> QED BY <1>2, <2>1, <2>3, <2>4, <2>6, <2>7 DEF AuditSays
<1> QED BY <1>1, <1>2

LEMMA SaysFirst ==
  ASSUME AuditKnows, audit = AuditOff \/ audit = AuditBegin
  PROVE  AuditSays
<1>1. CASE audit = AuditOff
  BY <1>1 DEF AuditSays, AuditOff, Early, Inspecting
<1>2. CASE audit = AuditBegin
  <2>1. /\ audit.pc = "identify" /\ audit.complete = NoWarnings /\ ~audit.over
        /\ audit.todo = <<>> /\ audit.parsed = <<>> /\ audit.left = MaxDependencies
        /\ audit.sites = <<>>
    BY <1>2 DEF AuditBegin
  <2>2. Len(audit.sites) = Cardinality(Range(audit.sites)) /\ Range(audit.sites) = {}
    <3>1. Len(<<>>) = 0
      OBVIOUS
    <3> QED BY <2>1, <3>1, EmptyRange, FS_EmptySet
  <2> QED BY <2>1, <2>2 DEF AuditSays, AuditBegins, Early, Inspecting
<1> QED BY <1>1, <1>2

\* A refusal says nothing.
LEMMA SaysDenied ==
  ASSUME AuditKnows, audit.pc # "off", Ends("denied")
  PROVE  AuditSays'
<1>1. DOMAIN audit = AuditFields
  BY KnowsSteps
<1>2. audit'.pc = "over" /\ audit'.outcome = "denied"
  BY <1>1 DEF Ends, AuditFields
<1> QED BY <1>2 DEF AuditSays, Early, Inspecting

\* What the steps before the listing leave alone.
EarlyKeeps ==
  /\ audit'.complete = audit.complete /\ audit'.over = audit.over
  /\ audit'.todo = audit.todo /\ audit'.parsed = audit.parsed /\ audit'.left = audit.left

LEMMA SaysEarlier ==
  ASSUME AuditKnows, AuditSays, calm, UNCHANGED envWorld, audit.pc \in Early, audit'.pc \in Early,
         EarlyKeeps,
         audit'.pc \in {"same", "lib", "posix", "layout"} =>
           env.config.kind = "file" /\ audit'.config = EnvConfig /\ EnvConfig # NoConfig,
         audit'.pc = "invalid" => ~EnvClear,
         Len(audit'.sites) = Cardinality(Range(audit'.sites)),
         audit'.pc = "layout" => Range(audit'.sites) = EnvSites,
         audit'.pc = "posix" => Range(audit'.sites) = EnvSites \cap {Lib},
         audit'.pc \notin {"layout", "posix"} => audit'.sites = <<>>
  PROVE  AuditSays'
<1>1. AuditBegins
  BY DEF AuditSays, Early
<1>2. env' = env /\ UNCHANGED env /\ calm' = calm
  BY DEF envWorld
<1>3. EnvSites' = EnvSites /\ (EnvClear' <=> EnvClear) /\ EnvConfig' = EnvConfig
  BY <1>2, EnvSame
<1>4. AuditBegins'
  BY <1>1, <1>2, <1>3 DEF AuditBegins, EarlyKeeps
<1> QED BY <1>4 DEF AuditSays, Early, Inspecting

LEMMA SaysIdentify ==
  ASSUME AuditKnows, AuditSays, calm, Identify
  PROVE  AuditSays'
<1>1. audit.pc = "identify" /\ DOMAIN audit = AuditFields /\ UNCHANGED envWorld
  BY KnowsSteps DEF Identify
<1>2. audit'.pc = "config" /\ EarlyKeeps /\ audit'.sites = audit.sites
  BY <1>1 DEF Identify, EarlyKeeps, AuditFields
<1>3. AuditBegins
  BY <1>1 DEF AuditSays, Early
<1> QED BY <1>1, <1>2, <1>3, SaysEarlier DEF AuditBegins, Early

LEMMA SaysReadConfig ==
  ASSUME AuditKnows, AuditSays, calm, ReadConfig
  PROVE  AuditSays'
<1>1. audit.pc = "config" /\ DOMAIN audit = AuditFields /\ UNCHANGED envWorld /\ audit.pc # "off"
  BY KnowsSteps, Zenon DEF ReadConfig
<1>2. AuditBegins
  BY <1>1 DEF AuditSays, Early
<1>3. Len(audit.sites) = Cardinality(Range(audit.sites)) /\ audit.sites = <<>>
  BY <1>1, <1>2 DEF AuditBegins
<1>4. \/ Ends("denied")
      \/ audit' = [audit EXCEPT !.pc = "invalid"] /\ (env.config.kind # "file" \/ EnvConfig = NoConfig)
      \/ /\ audit' = [audit EXCEPT !.pc = "same", !.config = EnvConfig]
         /\ env.config.kind = "file" /\ EnvConfig # NoConfig
  BY Zenon DEF ReadConfig, Ends, EnvConfig
<1>5. CASE Ends("denied")
  BY <1>1, <1>5, SaysDenied
<1>6. CASE audit' = [audit EXCEPT !.pc = "invalid"] /\ (env.config.kind # "file" \/ EnvConfig = NoConfig)
  <2>1. audit'.pc = "invalid" /\ EarlyKeeps /\ audit'.sites = audit.sites
    BY <1>1, <1>6 DEF EarlyKeeps, AuditFields
  <2>2. ~EnvClear
    BY <1>6, Zenon DEF EnvClear
  <2> QED BY <1>1, <1>3, <2>1, <2>2, SaysEarlier DEF Early
<1>7. CASE /\ audit' = [audit EXCEPT !.pc = "same", !.config = EnvConfig]
           /\ env.config.kind = "file" /\ EnvConfig # NoConfig
  <2>1. audit'.pc = "same" /\ EarlyKeeps /\ audit'.sites = audit.sites /\ audit'.config = EnvConfig
    BY <1>1, <1>7 DEF EarlyKeeps, AuditFields
  <2> QED BY <1>1, <1>3, <1>7, <2>1, SaysEarlier DEF Early
<1> QED BY <1>4, <1>5, <1>6, <1>7

LEMMA SaysSame ==
  ASSUME AuditKnows, AuditSays, calm, Same
  PROVE  AuditSays'
<1>1. audit.pc = "same" /\ DOMAIN audit = AuditFields /\ UNCHANGED envWorld /\ audit.pc # "off"
  BY KnowsSteps, Zenon DEF Same
<1>2. AuditBegins
  BY <1>1 DEF AuditSays, Early
<1>3. CASE Ends("denied")
  BY <1>1, <1>3, SaysDenied
<1>4. CASE Goto("lib")
  <2>1. audit'.pc = "lib" /\ EarlyKeeps /\ audit'.sites = audit.sites /\ audit'.config = audit.config
    BY <1>1, <1>4 DEF Goto, EarlyKeeps, AuditFields
  <2> QED BY <1>1, <1>2, <2>1, SaysEarlier DEF AuditBegins, Early
<1> QED BY <1>3, <1>4 DEF Same

\* The report of an invalid environment.
LEMMA SaysInvalid ==
  ASSUME AuditKnows, AuditSays, calm, Invalid
  PROVE  AuditSays'
<1>1. audit.pc = "invalid" /\ DOMAIN audit = AuditFields /\ UNCHANGED envWorld /\ audit.pc # "off"
  BY KnowsSteps, Zenon DEF Invalid
<1>2. ~EnvClear
  BY <1>1 DEF AuditSays, AuditBegins, Early
<1>3. CASE Ends("denied")
  BY <1>1, <1>3, SaysDenied
<1>4. CASE Ends("invalid")
  <2>1. audit'.pc = "over" /\ audit'.outcome = "invalid"
    BY <1>1, <1>4 DEF Ends, AuditFields
  <2>2. UNCHANGED env
    BY <1>1 DEF envWorld
  <2>3. ~EnvClear'
    BY <1>2, <2>2, EnvSame
  <2> QED BY <2>1, <2>3 DEF AuditSays, Early, Inspecting
<1> QED BY <1>3, <1>4 DEF Invalid

\* The two sites are not the same one.
LEMMA PythonIsNotLib == \A config : PythonDirectory(config) # Lib
<1> TAKE config
<1>1. Len(PythonDirectory(config)) = 2 /\ Len(Lib) = 0
  BY DEF PythonDirectory, Lib
<1> QED BY <1>1

LEMMA SaysFindSite ==
  ASSUME AuditKnows, AuditSays, calm, FindSite
  PROVE  AuditSays'
<1> DEFINE place == PythonDirectory(EnvConfig)
           s == IF audit.pc = "lib" THEN Lib ELSE place
           there == s \in Sites /\ env.site[s].kind = "dir"
           next == IF audit.pc = "lib" THEN "posix" ELSE "layout"
<1>1. audit.pc \in {"lib", "posix"} /\ UNCHANGED envWorld /\ audit.pc # "off" /\ audit.pc \in Early
  BY Zenon DEF FindSite, Early
<1>2. DOMAIN audit = AuditFields /\ AuditHolds
  BY <1>1, KnowsSteps
<1>3. AuditBegins
  BY <1>1 DEF AuditSays
<1>4. /\ env.config.kind = "file" /\ audit.config = EnvConfig /\ EnvConfig # NoConfig
      /\ Len(audit.sites) = Cardinality(Range(audit.sites))
      /\ audit.pc = "posix" => Range(audit.sites) = EnvSites \cap {Lib}
      /\ audit.pc = "lib" => audit.sites = <<>>
  BY <1>1, <1>3 DEF AuditBegins
<1>5. \/ Ends("denied")
      \/ audit' = [audit EXCEPT !.pc = next, !.sites = Append(@, s)] /\ there
      \/ audit' = [audit EXCEPT !.pc = next] /\ ~there
  <2>1. /\ s = IF audit.pc = "lib" THEN Lib ELSE PythonDirectory(audit.config)
    BY <1>4
  <2> QED BY <2>1 DEF FindSite, Goto
<1>6. CASE Ends("denied")
  BY <1>1, <1>6, SaysDenied
<1>7. /\ place # Lib /\ Lib \in Sites
      /\ \A x : x \in EnvSites <=> x \in Sites /\ x \in {Lib, place} /\ env.site[x].kind = "dir"
  BY PythonIsNotLib, EnvAssumption DEF EnvSites
<1>8. audit.sites \in Seq(Sites) /\ Len(audit.sites) \in Nat
  BY <1>2, EmptyRange DEF AuditHolds
<1> HIDE DEF place
<1>9. CASE audit' = [audit EXCEPT !.pc = next, !.sites = Append(@, s)] /\ there
  <2>1. audit'.pc = next /\ EarlyKeeps /\ audit'.sites = Append(audit.sites, s)
        /\ audit'.config = audit.config
    BY <1>2, <1>9 DEF EarlyKeeps, AuditFields
  <2>2. /\ Range(audit'.sites) = Range(audit.sites) \cup {s}
        /\ Len(audit'.sites) = Len(audit.sites) + 1
    BY <1>8, <1>9, <2>1, AppendRange
  <2>3. CASE audit.pc = "lib"
    <3>1. Range(audit.sites) = {} /\ s = Lib /\ next = "posix"
      BY <1>4, <2>3, EmptyRange
    <3>2. Cardinality({}) = 0 /\ Cardinality({Lib}) = 1
      BY FS_EmptySet, FS_Singleton
    <3>3. Range(audit'.sites) = {Lib} /\ EnvSites \cap {Lib} = {Lib}
      BY <1>7, <1>9, <2>2, <3>1
    <3>4. Len(audit'.sites) = Cardinality(Range(audit'.sites))
      <4>1. Len(audit.sites) = 0
        BY <1>4, <3>1, <3>2
      <4>2. Cardinality(Range(audit'.sites)) = 1 /\ Len(audit'.sites) = Len(audit.sites) + 1
        BY <2>2, <3>2, <3>3
      <4> QED BY <4>1, <4>2
    <3> QED BY <1>1, <1>4, <2>1, <3>1, <3>3, <3>4, SaysEarlier DEF Early
  <2>4. CASE audit.pc = "posix"
    <3>1. Range(audit.sites) = EnvSites \cap {Lib} /\ s = place /\ next = "layout"
      BY <1>4, <2>4
    <3>2. IsFiniteSet(EnvSites \cap {Lib}) /\ s \notin EnvSites \cap {Lib}
      BY <1>7, <3>1, EnvSitesFinite, FS_Subset
    <3>3. Range(audit'.sites) = EnvSites /\ EnvSites = (EnvSites \cap {Lib}) \cup {s}
      BY <1>7, <1>9, <2>2, <3>1
    <3>4. Cardinality((EnvSites \cap {Lib}) \cup {s}) = Cardinality(EnvSites \cap {Lib}) + 1
      BY <3>2, FS_AddElement
    <3>5. Len(audit'.sites) = Cardinality(Range(audit'.sites))
      BY <1>4, <2>2, <3>1, <3>3, <3>4
    <3> QED BY <1>1, <1>4, <2>1, <3>1, <3>3, <3>5, SaysEarlier DEF Early
  <2> QED BY <1>1, <2>3, <2>4
<1>10. CASE audit' = [audit EXCEPT !.pc = next] /\ ~there
  <2>1. audit'.pc = next /\ EarlyKeeps /\ audit'.sites = audit.sites
        /\ audit'.config = audit.config
    BY <1>2, <1>10 DEF EarlyKeeps, AuditFields
  <2>2. CASE audit.pc = "lib"
    <3>1. Range(audit.sites) = {} /\ s = Lib /\ next = "posix"
      BY <1>4, <2>2, EmptyRange
    <3>2. EnvSites \cap {Lib} = {}
      BY <1>7, <1>10, <3>1
    <3> QED BY <1>1, <1>4, <2>1, <3>1, <3>2, SaysEarlier DEF Early
  <2>3. CASE audit.pc = "posix"
    <3>1. Range(audit.sites) = EnvSites \cap {Lib} /\ s = place /\ next = "layout"
      BY <1>4, <2>3
    <3>2. EnvSites \cap {Lib} = EnvSites
      BY <1>7, <1>10, <3>1
    <3> QED BY <1>1, <1>4, <2>1, <3>1, <3>2, SaysEarlier DEF Early
  <2> QED BY <1>1, <2>2, <2>3
<1> QED BY <1>5, <1>6, <1>9, <1>10

-----------------------------------------------------------------------------
\* What is told of the distributions does not change with the environment the same.
LEMMA SaysInspected ==
  ASSUME UNCHANGED envWorld, audit'.pc \in Inspecting,
         audit'.complete = NoWarnings \/ audit'.complete.analysis = FALSE,
         audit'.pc = "read" /\ audit'.over => audit'.complete.analysis = FALSE,
         Certain' => EnvPlain /\ AuditParses' /\ AuditLists',
         ~Certain' => ~EnvClear
  PROVE  AuditSays'
<1>1. UNCHANGED env
  BY DEF envWorld
<1>2. (EnvPlain' <=> EnvPlain) /\ (EnvClear' <=> EnvClear)
  BY <1>1, EnvSame
<1>3. AuditInspects'
  BY <1>2 DEF AuditInspects
<1> QED BY <1>3 DEF AuditSays, Early, Inspecting

\* Nothing to be told is told later.
LEMMA SaysNoMore ==
  ASSUME AuditSays, calm, UNCHANGED envWorld, audit.pc \in Inspecting, audit'.pc \in Inspecting,
         ~Certain,
         audit'.complete = audit.complete \/ audit'.complete.analysis = FALSE,
         audit'.over = audit.over \/ audit'.over = TRUE,
         audit'.pc = "read" /\ audit'.over => audit'.complete.analysis = FALSE
  PROVE  AuditSays'
<1>1. AuditInspects /\ ~EnvClear
  BY DEF AuditSays, AuditInspects
<1>2. NoWarnings.analysis = TRUE
  BY DEF NoWarnings
<1>3. ~Certain'
  BY <1>2 DEF Certain
<1> QED BY <1>1, <1>3, SaysInspected DEF AuditInspects

\* A reserve is one, and stays one.
LEMMA WarnReserves ==
  /\ \A state, i, t : Warn(state, i, t).analysis = FALSE
  /\ \A state : Warned(state).analysis = FALSE
  /\ NoWarnings.analysis = TRUE /\ NoWarnings.inventory = TRUE
BY DEF Warn, Warned, NoWarnings

\* A first reserve has its reason.
LEMMA SaysReserved ==
  ASSUME UNCHANGED envWorld, audit'.pc \in Inspecting, audit'.complete.analysis = FALSE, ~EnvClear
  PROVE  AuditSays'
<1>1. ~Certain'
  BY WarnReserves DEF Certain
<1> QED BY <1>1, SaysInspected

LEMMA SaysLayout ==
  ASSUME AuditKnows, AuditSays, calm, Layout
  PROVE  AuditSays'
<1>1. audit.pc = "layout" /\ UNCHANGED envWorld /\ audit.pc # "off" /\ audit.pc \in Early
  BY DEF Layout, Early
<1>2. DOMAIN audit = AuditFields /\ EnvOK /\ AuditHolds
  BY <1>1, KnowsSteps
<1>3. AuditBegins
  BY <1>1 DEF AuditSays
<1>4. /\ env.config.kind = "file" /\ audit.config = EnvConfig /\ EnvConfig # NoConfig
      /\ Len(audit.sites) = Cardinality(EnvSites) /\ Range(audit.sites) = EnvSites
      /\ audit.complete = NoWarnings /\ ~audit.over /\ audit.todo = <<>> /\ audit.parsed = <<>>
      /\ audit.left = MaxDependencies
  BY <1>1, <1>3 DEF AuditBegins
<1> DEFINE clear == Len(audit.sites) = 1 /\ audit.config.system = "false"
           told == IF clear THEN audit.complete ELSE Warned(audit.complete)
<1>5. audit' = [audit EXCEPT !.pc = "list", !.complete = told]
  BY <1>2 DEF Layout, AuditFields
<1>6. (clear /\ told = NoWarnings) \/ (~clear /\ told.analysis = FALSE)
  BY <1>4, WarnReserves
<1>7. clear <=> EnvPlain
  BY <1>4 DEF EnvPlain
<1> HIDE DEF told
<1>8. /\ audit'.pc = "list" /\ audit'.complete = told /\ audit'.over = audit.over
      /\ audit'.sites = audit.sites /\ audit'.todo = audit.todo /\ audit'.parsed = audit.parsed
      /\ audit'.left = audit.left
  BY <1>2, <1>5 DEF AuditFields
<1>9. CASE ~clear
  <2>1. ~EnvClear
    BY <1>7, <1>9, ClearIs DEF EnvWithin
  <2> QED BY <1>1, <1>6, <1>8, <1>9, <2>1, SaysReserved DEF Inspecting
<1>10. CASE clear
  <2>1. UNCHANGED env
    BY <1>1 DEF envWorld
  <2>2. EnvSite' = EnvSite /\ EnvDeclared' = EnvDeclared /\ \A k : EnvUpTo(k)' = EnvUpTo(k)
    BY <2>1, EnvSame
  <2>3. audit.sites = <<EnvSite>>
    <3>1. EnvSites = {EnvSite}
      BY <1>2, <1>7, <1>10, EnvOneSite
    <3>2. audit.sites \in Seq(Sites) /\ Len(audit.sites) = 1 /\ DOMAIN audit.sites = 1..1
      BY <1>2, <1>10, LenProperties DEF AuditHolds
    <3>3. audit.sites[1] \in Range(audit.sites)
      BY <3>2 DEF Range
    <3>4. audit.sites[1] = EnvSite
      BY <1>4, <3>1, <3>3
    <3>5. audit.sites = [i \in 1..1 |-> audit.sites[i]]
      BY <3>2, LenProperties
    <3> QED BY <3>4, <3>5
  <2>4. /\ Len(audit'.parsed) = 0 /\ Len(audit'.todo) = 0 /\ AuditFar' = 0
        /\ audit'.left = MaxDependencies
    BY <1>4, <1>8, EmptyRange DEF AuditFar
  <2>5. EnvUpTo(0) = {}
    BY DEF EnvUpTo
  <2>6. SumOver(EnvDeclared, EnvUpTo(0)) = 0 /\ MaxDependencies \in Nat
    BY <2>5, SumOfNone, EnvAssumption
  <2>7. AuditParses'
    BY <2>2, <2>4, <2>6 DEF AuditParses
  <2>8. AuditLists'
    BY <1>8, <2>2, <2>3, <2>4 DEF AuditLists
  <2>9. ~audit'.over
    BY <1>4, <1>8
  <2>10. Certain'
    BY <1>4, <1>6, <1>8, <1>10, <2>9 DEF Certain
  <2> QED BY <1>1, <1>7, <1>8, <1>10, <2>7, <2>8, <2>9, <2>10, SaysInspected DEF Inspecting, Certain
<1> QED BY <1>9, <1>10

\* Where nothing is kept or parsed, what was is as it was.
LEMMA ParsesStill ==
  ASSUME UNCHANGED envWorld, AuditParses,
         audit'.todo = audit.todo, audit'.parsed = audit.parsed, audit'.left = audit.left
  PROVE  AuditParses' /\ AuditFar' = AuditFar
<1>0. UNCHANGED env
  BY DEF envWorld
<1>1. /\ EnvEntries' = EnvEntries /\ EnvDeclared' = EnvDeclared
      /\ \A i : EnvDist(i)' = EnvDist(i)
      /\ \A k : EnvUpTo(k)' = EnvUpTo(k)
      /\ \A x : EnvParsed(x)' = EnvParsed(x)
  BY <1>0, EnvSame
<1>2. \A i : RightlyParsed(i)' <=> RightlyParsed(i)
  BY <1>0, <1>1 DEF RightlyParsed
<1>3. AuditFar' = AuditFar
  BY DEF AuditFar
<1> QED BY <1>1, <1>2, <1>3 DEF AuditParses

LEMMA SaysList ==
  ASSUME AuditKnows, AuditSays, calm, List
  PROVE  AuditSays'
<1>1. /\ audit.pc = "list" /\ audit.sites # <<>> /\ UNCHANGED envWorld /\ audit.pc # "off"
      /\ audit.pc \in Inspecting
  BY Zenon DEF List, Inspecting
<1>2. DOMAIN audit = AuditFields /\ EnvOK /\ AuditInspects
  BY <1>1, KnowsSteps DEF AuditSays
<1> DEFINE s == Head(audit.sites)
           rest == Tail(audit.sites)
           told == Warned(audit.complete)
           entries == EntriesOf(s)
           stamp == env.site[s].stamp
           next == [audit EXCEPT !.sites = rest]
           shut == [next EXCEPT !.complete = Warned(@)]
           open == [next EXCEPT !.pc = "verify", !.site = s, !.stamp = stamp, !.names = entries]
<1>3. \/ Ends("denied") \/ (audit' = shut /\ env.site[s].kind = "none") \/ audit' = open
  BY Zenon DEF List
<1>4. CASE Ends("denied")
  BY <1>1, <1>4, SaysDenied
<1>5. told.analysis = FALSE
  BY WarnReserves
<1> HIDE DEF s, rest
<1>6. shut = [audit EXCEPT !.sites = rest, !.complete = told]
  BY <1>2 DEF AuditFields
<1>7. open = [audit EXCEPT !.sites = rest, !.pc = "verify", !.site = s, !.stamp = stamp, !.names = entries]
  BY <1>2 DEF AuditFields
<1> HIDE DEF shut, open, next, told, entries, stamp
<1>8. audit' = shut => audit'.pc = "list" /\ audit'.complete = told /\ audit'.over = audit.over
  BY <1>1, <1>2, <1>6 DEF AuditFields
<1>9. audit' = open =>
        /\ audit'.pc = "verify" /\ audit'.complete = audit.complete /\ audit'.over = audit.over
        /\ audit'.sites = rest /\ audit'.site = s /\ audit'.names = entries
        /\ audit'.todo = audit.todo /\ audit'.parsed = audit.parsed /\ audit'.left = audit.left
  BY <1>2, <1>7 DEF AuditFields
<1>10. CASE Certain
  <2>1. EnvPlain /\ AuditParses /\ AuditLists
    BY <1>2, <1>10 DEF AuditInspects
  <2>2. audit.sites = <<EnvSite>> /\ AuditFar = 0 /\ Len(audit.parsed) = 0
    BY <1>1, <2>1 DEF AuditLists
  <2>3. s = EnvSite /\ rest = <<>>
    BY <2>2 DEF s, rest
  <2>4. env.site[s].kind = "dir"
    BY <1>2, <2>1, <2>3, EnvOneSite
  <2>5. CASE audit' = open
    <3>1. UNCHANGED env
      BY <1>1 DEF envWorld
    <3>2. EnvSite' = EnvSite /\ EnvEntries' = EnvEntries /\ EnvEntries = entries
      BY <2>3, <3>1, EnvSame DEF EnvEntries, entries
    <3>3. AuditParses' /\ AuditFar' = 0
      BY <1>1, <1>9, <2>1, <2>2, <2>5, ParsesStill
    <3>4. AuditLists'
      BY <1>9, <2>2, <2>3, <2>5, <3>2, <3>3 DEF AuditLists
    <3>5. Certain'
      BY <1>9, <1>10, <2>5 DEF Certain
    <3> QED BY <1>1, <1>9, <1>10, <2>1, <2>5, <3>3, <3>4, <3>5, SaysInspected DEF Inspecting, Certain
  <2> QED BY <1>3, <1>4, <2>4, <2>5
<1>11. CASE ~Certain
  <2>1. CASE audit' = shut
    BY <1>1, <1>5, <1>8, <1>11, <2>1, SaysNoMore DEF Inspecting
  <2>2. CASE audit' = open
    BY <1>1, <1>9, <1>11, <2>2, SaysNoMore DEF Inspecting
  <2> QED BY <1>3, <1>4, <2>1, <2>2
<1> QED BY <1>10, <1>11

LEMMA SaysVerify ==
  ASSUME AuditKnows, AuditSays, calm, Verify
  PROVE  AuditSays'
<1>1. /\ audit.pc = "verify" /\ UNCHANGED envWorld /\ audit.pc # "off" /\ audit.pc \in Inspecting
  BY Zenon DEF Verify, Inspecting
<1>2. DOMAIN audit = AuditFields /\ EnvOK /\ AuditHolds /\ AuditInspects
  BY <1>1, KnowsSteps DEF AuditSays
<1> DEFINE now == env.site[audit.site]
           long == Len(audit.names) > MaxEntries
           shut == [audit EXCEPT !.pc = "list", !.complete = Warned(@)]
           full == [audit EXCEPT !.pc = "list", !.names = <<>>, !.complete = Warn(@, TRUE, TRUE)]
           open == [audit EXCEPT !.pc = "entries", !.listed = @ \cup now.names]
<1>3. now.kind \in {"dir", "odd", "none"}
  <2>1. now \in SiteStates
    BY <1>2 DEF EnvOK, AuditHolds
  <2> QED BY <2>1 DEF SiteStates
<1>4. \/ Ends("denied") \/ (audit' = shut /\ now.kind = "none") \/ (audit' = full /\ long)
      \/ audit' = open /\ ~long
  BY <1>3 DEF Verify, Ends
<1>5. CASE Ends("denied")
  BY <1>1, <1>5, SaysDenied
<1> HIDE DEF long, now
<1>6. audit' = shut \/ audit' = full =>
        audit'.pc = "list" /\ audit'.complete.analysis = FALSE /\ audit'.over = audit.over
  <2>1. audit' = shut => audit'.pc = "list" /\ audit'.complete = Warned(audit.complete) /\ audit'.over = audit.over
    BY <1>2 DEF AuditFields
  <2>2. audit' = full => audit'.pc = "list" /\ audit'.complete = Warn(audit.complete, TRUE, TRUE)
                         /\ audit'.over = audit.over
    BY <1>2 DEF AuditFields
  <2>3. Warned(audit.complete).analysis = FALSE /\ Warn(audit.complete, TRUE, TRUE).analysis = FALSE
    BY WarnReserves, Zenon
  <2> HIDE DEF shut, full
  <2> QED BY <2>1, <2>2, <2>3
<1>7. audit' = open =>
        /\ audit'.pc = "entries" /\ audit'.complete = audit.complete /\ audit'.over = audit.over
        /\ audit'.sites = audit.sites /\ audit'.site = audit.site /\ audit'.names = audit.names
        /\ audit'.todo = audit.todo /\ audit'.parsed = audit.parsed /\ audit'.left = audit.left
  BY <1>2 DEF AuditFields
<1> HIDE DEF shut, full, open
<1>8. CASE ~Certain
  <2>1. CASE audit' = shut \/ audit' = full
    BY <1>1, <1>6, <1>8, <2>1, SaysNoMore DEF Inspecting
  <2>2. CASE audit' = open
    BY <1>1, <1>7, <1>8, <2>2, SaysNoMore DEF Inspecting
  <2> QED BY <1>4, <1>5, <2>1, <2>2
<1>9. CASE Certain
  <2>1. EnvPlain /\ AuditParses /\ AuditLists
    BY <1>2, <1>9 DEF AuditInspects
  <2>2. /\ audit.sites = <<>> /\ audit.site = EnvSite /\ audit.names = EnvEntries /\ AuditFar = 0
        /\ Len(audit.parsed) = 0
    BY <1>1, <2>1 DEF AuditLists
  <2>3. now.kind = "dir"
    BY <1>2, <2>1, <2>2, EnvOneSite DEF now
  <2>4. /\ Len(EnvEntries) \in Nat /\ EnvSite \in EnvSites
        /\ Len(EnvEntries) = Cardinality(env.site[EnvSite].names)
    BY <1>2, <2>1, EnvOneSite, EnvEntriesAre
  <2>5. MaxEntries \in Nat
    BY EnvAssumption
  <2>6. CASE audit' = full /\ long
    <3>1. ~(Cardinality(env.site[EnvSite].names) <= MaxEntries)
      BY <2>2, <2>4, <2>5, <2>6 DEF long
    <3>2. ~EnvClear
      BY <2>4, <3>1, ClearIs DEF EnvWithin
    <3> QED BY <1>1, <1>6, <2>6, <3>2, SaysReserved DEF Inspecting
  <2>7. CASE audit' = open /\ ~long
    <3>1. UNCHANGED env
      BY <1>1 DEF envWorld
    <3>2. EnvSite' = EnvSite /\ EnvEntries' = EnvEntries
      BY <3>1, EnvSame
    <3>3. AuditParses' /\ AuditFar' = 0
      BY <1>1, <1>7, <2>1, <2>2, <2>7, ParsesStill
    <3>4. Len(EnvEntries) <= MaxEntries
      BY <2>2, <2>4, <2>5, <2>7 DEF long
    <3>5. AuditListed'
      BY <1>7, <2>2, <2>7, <3>2, <3>4 DEF AuditListed
    <3>6. /\ AuditFar' + Len(audit'.names) = Len(EnvEntries')
          /\ \A i \in 1..Len(audit'.names) : audit'.names[i] = EnvEntries'[AuditFar' + i]
      BY <1>7, <2>2, <2>4, <2>7, <3>2, <3>3
    <3>7. AuditLists'
      BY <1>7, <2>2, <2>7, <3>2, <3>5, <3>6 DEF AuditLists
    <3>8. Certain'
      BY <1>7, <1>9, <2>7 DEF Certain
    <3> QED BY <1>1, <1>7, <1>9, <2>1, <2>7, <3>3, <3>7, <3>8, SaysInspected DEF Inspecting, Certain
  <2> QED BY <1>4, <1>5, <2>3, <2>6, <2>7
<1> QED BY <1>8, <1>9

LEMMA SaysNextSite ==
  ASSUME AuditKnows, AuditSays, calm, NextSite
  PROVE  AuditSays'
<1>1. /\ audit.pc = "entries" /\ audit.names = <<>> /\ UNCHANGED envWorld /\ audit.pc # "off"
      /\ audit.pc \in Inspecting
  BY DEF NextSite, Inspecting
<1>2. DOMAIN audit = AuditFields /\ EnvOK /\ AuditInspects
  BY <1>1, KnowsSteps DEF AuditSays
<1>3. /\ audit'.pc = "list" /\ audit'.complete = audit.complete /\ audit'.over = audit.over
      /\ audit'.sites = audit.sites
      /\ audit'.todo = audit.todo /\ audit'.parsed = audit.parsed /\ audit'.left = audit.left
  BY <1>2 DEF NextSite, Goto, AuditFields
<1>4. CASE ~Certain
  BY <1>1, <1>3, <1>4, SaysNoMore DEF Inspecting
<1>5. CASE Certain
  <2>1. EnvPlain /\ AuditParses /\ AuditLists
    BY <1>2, <1>5 DEF AuditInspects
  <2>2. UNCHANGED env
    BY <1>1 DEF envWorld
  <2>3. EnvSite' = EnvSite /\ EnvEntries' = EnvEntries
    BY <2>2, EnvSame
  <2>4. AuditParses' /\ AuditFar' = AuditFar
    BY <1>1, <1>3, <2>1, ParsesStill
  <2>5. AuditListed /\ AuditFar + Len(audit.names) = Len(EnvEntries) /\ Len(audit.parsed) = 0
    BY <1>1, <2>1 DEF AuditLists
  <2>6. AuditFar = Len(EnvEntries)
    <3>1. Len(audit.names) = 0 /\ Len(EnvEntries) \in Nat
      BY <1>1, <1>2, <2>1, EmptyRange, EnvEntriesAre
    <3>2. Len(audit.todo) \in Nat
      <4>1. AuditHolds
        BY <1>1, KnowsSteps
      <4> QED BY <4>1, EmptyRange DEF AuditHolds
    <3> QED BY <2>5, <3>1, <3>2 DEF AuditFar
  <2>7. AuditListed'
    BY <1>3, <2>3, <2>5 DEF AuditListed
  <2>8. AuditLists'
    BY <1>3, <2>3, <2>4, <2>5, <2>6, <2>7 DEF AuditLists, AuditListed
  <2>9. Certain'
    BY <1>3, <1>5 DEF Certain
  <2> QED BY <1>1, <1>3, <1>5, <2>1, <2>4, <2>8, <2>9, SaysInspected DEF Inspecting, Certain
<1> QED BY <1>4, <1>5

LEMMA SaysDiscovered ==
  ASSUME AuditKnows, AuditSays, calm, Discovered
  PROVE  AuditSays'
<1>1. /\ audit.pc = "list" /\ audit.sites = <<>> /\ UNCHANGED envWorld /\ audit.pc # "off"
      /\ audit.pc \in Inspecting
  BY DEF Discovered, Inspecting
<1>2. DOMAIN audit = AuditFields /\ EnvOK /\ AuditHolds /\ AuditInspects
  BY <1>1, KnowsSteps DEF AuditSays
<1>3. CASE Ends("denied")
  BY <1>1, <1>3, SaysDenied
<1>4. CASE ~Ends("denied")
  <2> DEFINE told == IF audit.over THEN Warn(audit.complete, TRUE, TRUE) ELSE audit.complete
  <2>1. audit' = [audit EXCEPT !.pc = "read", !.complete = told]
    BY <1>2, <1>4 DEF Discovered, AuditFields
  <2>2. (told = audit.complete /\ ~audit.over) \/ (told.analysis = FALSE /\ audit.over)
    BY WarnReserves
  <2> HIDE DEF told
  <2>3. /\ audit'.pc = "read" /\ audit'.complete = told /\ audit'.over = audit.over
        /\ audit'.sites = audit.sites
        /\ audit'.todo = audit.todo /\ audit'.parsed = audit.parsed /\ audit'.left = audit.left
    BY <1>2, <2>1 DEF AuditFields
  <2>4. CASE ~Certain
    BY <1>1, <2>2, <2>3, <2>4, SaysNoMore DEF Inspecting
  <2>5. CASE Certain
    <3>1. EnvPlain /\ AuditParses /\ AuditLists /\ ~audit.over
      BY <1>2, <2>5 DEF AuditInspects, Certain
    <3>2. UNCHANGED env
      BY <1>1 DEF envWorld
    <3>3. EnvSite' = EnvSite /\ EnvEntries' = EnvEntries
      BY <3>2, EnvSame
    <3>4. AuditParses' /\ AuditFar' = AuditFar
      BY <1>1, <2>3, <3>1, ParsesStill
    <3>5. AuditListed /\ AuditFar = Len(EnvEntries) /\ Len(audit.parsed) = 0
      BY <1>1, <3>1 DEF AuditLists
    <3>6. Len(EnvEntries) <= MaxMetadata
      <4>1. Len(audit.todo) \in Nat /\ Len(audit.todo) <= MaxMetadata
        BY <1>2, EmptyRange DEF AuditHolds
      <4>2. AuditFar = Len(audit.todo)
        BY <3>5, <4>1 DEF AuditFar
      <4> QED BY <3>5, <4>1, <4>2
    <3>7. AuditListed'
      BY <2>3, <3>3, <3>5 DEF AuditListed
    <3>8. AuditLists'
      BY <2>3, <3>3, <3>4, <3>5, <3>6, <3>7 DEF AuditLists
    <3>9. Certain'
      BY <2>2, <2>3, <2>5 DEF Certain
    <3> QED BY <1>1, <2>3, <2>5, <3>1, <3>4, <3>8, <3>9, SaysInspected DEF Inspecting, Certain
  <2> QED BY <2>4, <2>5
<1> QED BY <1>3, <1>4

LEMMA SaysEntry ==
  ASSUME AuditKnows, AuditSays, calm, Entry
  PROVE  AuditSays'
<1>1. /\ audit.pc = "entries" /\ audit.names # <<>> /\ UNCHANGED envWorld /\ audit.pc # "off"
      /\ audit.pc \in Inspecting
  BY Zenon DEF Entry, Inspecting
<1>2. DOMAIN audit = AuditFields /\ EnvOK /\ AuditHolds /\ AuditInspects
  BY <1>1, KnowsSteps DEF AuditSays
<1> DEFINE n == Head(audit.names)
           s == audit.site
           rest == Tail(audit.names)
           full == Len(audit.todo) >= MaxMetadata
           there == env.site[s].kind = "dir" /\ n \in env.site[s].names
           next == [audit EXCEPT !.names = Tail(@)]
           seen == [next EXCEPT !.observed = @ + 1]
           egg == [next EXCEPT !.complete = Warned(@)]
           over == [seen EXCEPT !.over = TRUE, !.skipped = @ + 1]
           gone == [seen EXCEPT !.skipped = @ + 1, !.complete = Warned(@)]
           kept == [seen EXCEPT !.todo = Append(@, <<s, n>>)]
<1>3. \/ Ends("denied") \/ (audit' = egg /\ n \in Eggs)
      \/ n \notin Eggs /\ full /\ audit' = over
      \/ n \notin Eggs /\ ~there /\ audit' = gone
      \/ n \notin Eggs /\ audit' = kept
  <2>1. CASE n \in Eggs
    BY <2>1, Zenon DEF Entry
  <2>2. CASE n \notin Eggs
    <3>1. full \/ Len(audit.todo) < MaxMetadata
      <4>1. Len(audit.todo) \in Nat /\ MaxMetadata \in Nat
        BY <1>2, EmptyRange, EnvAssumption DEF AuditHolds
      <4> QED BY <4>1
    <3> QED BY <2>2, <3>1 DEF Entry
  <2> QED BY <2>1, <2>2
<1>4. CASE Ends("denied")
  BY <1>1, <1>4, SaysDenied
<1>5. /\ DOMAIN next = AuditFields /\ next.pc = "entries" /\ next.sites = audit.sites
      /\ next.site = audit.site /\ next.names = rest /\ next.todo = audit.todo
      /\ next.parsed = audit.parsed /\ next.left = audit.left
      /\ next.complete = audit.complete /\ next.over = audit.over
  BY <1>1, <1>2 DEF AuditFields
<1> HIDE DEF next, n, s, rest, full
<1>6. /\ DOMAIN seen = AuditFields /\ seen.pc = "entries" /\ seen.sites = audit.sites
      /\ seen.site = audit.site /\ seen.names = rest /\ seen.todo = audit.todo
      /\ seen.parsed = audit.parsed /\ seen.left = audit.left
      /\ seen.complete = audit.complete /\ seen.over = audit.over
  BY <1>5 DEF AuditFields
<1> HIDE DEF seen
<1>7. audit' = egg \/ audit' = gone =>
        audit'.pc = "entries" /\ audit'.complete.analysis = FALSE /\ audit'.over = audit.over
  <2>1. audit' = egg => audit'.pc = "entries" /\ audit'.complete = Warned(audit.complete) /\ audit'.over = audit.over
    BY <1>5 DEF AuditFields
  <2>2. audit' = gone => audit'.pc = "entries" /\ audit'.complete = Warned(audit.complete) /\ audit'.over = audit.over
    BY <1>6 DEF AuditFields
  <2>3. Warned(audit.complete).analysis = FALSE
    BY WarnReserves, Zenon
  <2> HIDE DEF egg, gone
  <2> QED BY <2>1, <2>2, <2>3
<1>8. audit' = over => audit'.pc = "entries" /\ audit'.complete = audit.complete /\ audit'.over = TRUE
  BY <1>6 DEF AuditFields
<1>9. audit' = kept =>
        /\ audit'.pc = "entries" /\ audit'.complete = audit.complete /\ audit'.over = audit.over
        /\ audit'.sites = audit.sites /\ audit'.site = audit.site /\ audit'.names = rest
        /\ audit'.todo = Append(audit.todo, <<s, n>>) /\ audit'.parsed = audit.parsed
        /\ audit'.left = audit.left
  BY <1>6 DEF AuditFields
<1> HIDE DEF egg, gone, over, kept
<1>10. CASE ~Certain
  <2>1. CASE audit' = egg \/ audit' = gone
    BY <1>1, <1>7, <1>10, <2>1, SaysNoMore DEF Inspecting
  <2>2. CASE audit' = over
    BY <1>1, <1>8, <1>10, <2>2, SaysNoMore DEF Inspecting
  <2>3. CASE audit' = kept
    BY <1>1, <1>9, <1>10, <2>3, SaysNoMore DEF Inspecting
  <2> QED BY <1>3, <1>4, <2>1, <2>2, <2>3
<1>11. CASE Certain
  <2>1. EnvPlain /\ AuditParses /\ AuditLists
    BY <1>2, <1>11 DEF AuditInspects
  <2>2. /\ AuditListed /\ audit.site = EnvSite /\ AuditFar + Len(audit.names) = Len(EnvEntries)
        /\ \A i \in 1..Len(audit.names) : audit.names[i] = EnvEntries[AuditFar + i]
        /\ Len(audit.parsed) = 0
    BY <1>1, <2>1 DEF AuditLists
  <2>3. PICK k \in Nat : k = Len(audit.todo)
    BY <1>2, EmptyRange DEF AuditHolds
  <2>4. AuditFar = k
    BY <2>2, <2>3 DEF AuditFar
  <2>5. /\ Len(EnvEntries) \in Nat /\ EnvSite \in EnvSites /\ env.site[EnvSite].kind = "dir"
        /\ \A i \in 1..Len(EnvEntries) : EnvEntries[i] \in env.site[EnvSite].names
    BY <1>2, <2>1, EnvOneSite, EnvEntriesAre
  <2>6. PICK m \in Nat : Len(audit.names) = m + 1 /\ Len(rest) = m /\ rest \in Seq(EntryNames)
                         /\ n = audit.names[1] /\ \A i \in 1..m : rest[i] = audit.names[i + 1]
    <3>1. audit.names \in Seq(EntryNames)
      BY <1>2 DEF AuditHolds
    <3>2. rest \in Seq(EntryNames) /\ Len(audit.names) = Len(rest) + 1
      BY <1>1, <3>1, HeadRange DEF rest
    <3>3. Len(rest) \in Nat
      BY <3>2, EmptyRange
    <3>4. n = audit.names[1]
      BY <1>1, <3>1 DEF n
    <3>5. \A i \in 1..Len(rest) : rest[i] = audit.names[i + 1]
      <4>1. rest = [i \in 1..(Len(audit.names) - 1) |-> audit.names[i + 1]]
        BY <3>1 DEF rest
      <4>2. Len(audit.names) - 1 = Len(rest)
        BY <3>2, <3>3
      <4> QED BY <4>1, <4>2
    <3> QED BY <3>2, <3>3, <3>4, <3>5
  <2>7. k + 1 \in 1..Len(EnvEntries) /\ k + (m + 1) = Len(EnvEntries) /\ n = EnvEntries[k + 1]
    <3>1. k + (m + 1) = Len(EnvEntries)
      BY <2>2, <2>4, <2>6
    <3>2. 1 \in 1..Len(audit.names)
      BY <2>6
    <3>3. audit.names[1] = EnvEntries[k + 1]
      BY <2>2, <2>4, <3>2
    <3> QED BY <2>5, <2>6, <3>1, <3>3
  <2>8. n \in env.site[EnvSite].names
    BY <2>5, <2>7
  <2>9. CASE audit' = egg /\ n \in Eggs
    <3>1. ~EnvClear
      BY <2>5, <2>8, <2>9, ClearIs DEF EnvWithin
    <3> QED BY <1>1, <1>7, <2>9, <3>1, SaysReserved DEF Inspecting
  <2>10. CASE n \notin Eggs /\ full /\ audit' = over
    <3>1. ASSUME EnvClear PROVE FALSE
      <4>1. \A i \in 1..Len(EnvEntries) : EnvEntries[i] \notin Eggs
        BY <2>5, <3>1, ClearIs DEF EnvWithin
      <4>2. Cardinality(EnvDists) = Len(EnvEntries)
        BY <1>2, <2>1, <4>1, EnvDistsAre
      <4>3. Cardinality(EnvDists) <= MaxMetadata
        BY <3>1, ClearIs DEF EnvWithin
      <4>4. k >= MaxMetadata /\ MaxMetadata \in Nat
        BY <2>3, <2>10, EnvAssumption DEF full
      <4> QED BY <2>5, <2>7, <4>2, <4>3, <4>4
    <3>2. ~Certain'
      BY <1>8, <2>10 DEF Certain
    <3>3. audit'.complete = NoWarnings /\ audit'.pc = "entries"
      BY <1>8, <1>11, <2>10 DEF Certain
    <3> QED BY <1>1, <3>1, <3>2, <3>3, SaysInspected DEF Inspecting
  <2>11. there
    BY <2>2, <2>5, <2>8 DEF s
  <2>12. CASE n \notin Eggs /\ audit' = kept
    <3>1. UNCHANGED env
      BY <1>1 DEF envWorld
    <3>2. /\ EnvSite' = EnvSite /\ EnvEntries' = EnvEntries /\ EnvDeclared' = EnvDeclared
          /\ \A i : EnvDist(i)' = EnvDist(i)
          /\ \A j : EnvUpTo(j)' = EnvUpTo(j)
      BY <3>1, EnvSame
    <3>3. <<s, n>> = EnvDist(k + 1)
      BY <2>2, <2>7 DEF s, EnvDist
    <3>4. /\ Len(audit'.todo) = k + 1 /\ audit'.todo[k + 1] = EnvDist(k + 1)
          /\ \A i \in 1..k : audit'.todo[i] = audit.todo[i]
      <4>1. audit.todo \in Seq(Sites \X EntryNames) /\ <<s, n>> \in Sites \X EntryNames
        <5>1. n \in EntryNames /\ s \in Sites
          BY <1>2, <2>1, <2>2, <2>8, EnvOneSite DEF s
        <5> QED BY <1>2, <5>1 DEF AuditHolds
      <4>2. audit'.todo = Append(audit.todo, <<s, n>>)
        BY <1>9, <2>12
      <4> QED BY <2>3, <3>3, <4>1, <4>2, AppendProperties
    <3>5. AuditFar' = k + 1 /\ Len(audit'.parsed) = 0
      <4>1. Len(audit'.parsed) = 0 /\ Len(audit'.todo) = k + 1
        BY <1>9, <2>2, <2>12, <3>4
      <4>2. AuditFar' = Len(audit'.parsed) + Len(audit'.todo)
        BY DEF AuditFar
      <4> QED BY <4>1, <4>2
    <3>6. /\ \A i \in 1..k : EnvEntries[i] \notin Eggs
          /\ \A i \in 1..k : audit.todo[i] = EnvDist(i)
          /\ SumOver(EnvDeclared, EnvUpTo(0)) + audit.left = MaxDependencies
      <4>1. /\ \A i \in 1..AuditFar : EnvEntries[i] \notin Eggs
            /\ \A i \in 1..Len(audit.todo) : audit.todo[i] = EnvDist(Len(audit.parsed) + i)
            /\ SumOver(EnvDeclared, EnvUpTo(Len(audit.parsed))) + audit.left = MaxDependencies
        BY <2>1, Zenon DEF AuditParses
      <4>2. Len(audit.parsed) = 0 /\ Len(audit.todo) = k /\ AuditFar = k
        BY <2>2, <2>3, <2>4
      <4>3. SumOver(EnvDeclared, EnvUpTo(0)) + audit.left = MaxDependencies
        BY <4>1, <4>2, Zenon
      <4>4. \A i \in 1..k : audit.todo[i] = EnvDist(i)
        <5> TAKE i \in 1..k
        <5>1. audit.todo[i] = EnvDist(0 + i)
          BY <4>1, <4>2
        <5>2. 0 + i = i
          OBVIOUS
        <5> QED BY <5>1, <5>2, Zenon
      <4> QED BY <4>1, <4>2, <4>3, <4>4
    <3>7. AuditParses'
      <4>1. \A i \in 1..(k + 1) : EnvEntries[i] \notin Eggs
        BY <2>7, <2>12, <3>6
      <4>2. \A i \in 1..(k + 1) : audit'.todo[i] = EnvDist(0 + i)
        BY <3>4, <3>6
      <4>3. SumOver(EnvDeclared', EnvUpTo(0)') + audit'.left = MaxDependencies
        BY <1>9, <2>12, <3>2, <3>6
      <4> QED BY <3>2, <3>4, <3>5, <4>1, <4>2, <4>3 DEF AuditParses
    <3>8. AuditListed'
      BY <1>9, <2>2, <2>12, <3>2 DEF AuditListed
    <3>9. /\ AuditFar' + Len(audit'.names) = Len(EnvEntries')
          /\ \A i \in 1..Len(audit'.names) : audit'.names[i] = EnvEntries'[AuditFar' + i]
      <4>1. audit'.names = rest
        BY <1>9, <2>12
      <4>2. ASSUME NEW i \in 1..m PROVE rest[i] = EnvEntries[(k + 1) + i]
        <5>1. i + 1 \in 1..Len(audit.names) /\ k + (i + 1) = (k + 1) + i
          BY <2>6
        <5>2. audit.names[i + 1] = EnvEntries[k + (i + 1)]
          BY <2>2, <2>4, <5>1
        <5> QED BY <2>6, <5>1, <5>2
      <4>3. (k + 1) + m = Len(EnvEntries)
        BY <2>7
      <4> QED BY <2>6, <3>2, <3>5, <4>1, <4>2, <4>3
    <3>10. AuditLists'
      BY <1>9, <2>2, <2>12, <3>2, <3>5, <3>8, <3>9 DEF AuditLists
    <3>11. Certain'
      BY <1>9, <1>11, <2>12 DEF Certain
    <3> QED BY <1>1, <1>9, <1>11, <2>1, <2>12, <3>7, <3>10, <3>11, SaysInspected DEF Inspecting, Certain
  <2> QED BY <1>3, <1>4, <2>9, <2>10, <2>11, <2>12
<1> QED BY <1>10, <1>11

\* A distribution of the environment, however it is parsed.
ReadAs(p, q, cap) ==
  /\ p = NoPackage <=> q = NoPackage
  /\ p # NoPackage =>
       /\ q.declared > cap => p.truncated = TRUE
       /\ q.declared <= cap => p.truncated = FALSE
       /\ q.declared <= cap /\ q.declared <= MaxDependencies =>
            p = q /\ Len(p.requirements) = q.declared

LEMMA DistParsed ==
  ASSUME EnvOK, NEW x \in EnvDists, NEW cap \in Nat
  PROVE  /\ ReadAs(ParseDistribution(env.entry[x].headers, cap), EnvParsed(x), cap)
         /\ EnvParsed(x).declared \in Nat /\ EnvDeclared[x] = EnvParsed(x).declared
<1> DEFINE wide == MaxDependencies + 1
           headers == env.entry[x].headers
           p == ParseDistribution(headers, cap)
           q == EnvParsed(x)
<1>1. IsList(headers)
  <2>1. x \in Sites \X EntryNames
    BY EnvDistsFinite
  <2>2. EntryOK(x[2], env.entry[x])
    BY <2>1 DEF EnvOK
  <2> QED BY <2>2 DEF EntryOK
<1>2. wide \in Nat /\ MaxDependencies \in Nat /\ cap \in Nat
  BY EnvAssumption
<1>3. q = ParseDistribution(headers, wide)
  BY DEF EnvParsed
<1>4. EnvDeclared[x] = q.declared
  BY DEF EnvDeclared
<1> HIDE DEF wide, headers, q
<1>5. OfOne(p, q, cap, wide)
  BY <1>1, <1>2, <1>3, ParsedAlike
<1> HIDE DEF p
<1>6. q.declared \in Nat
  BY <1>5 DEF OfOne
<1>7. q.declared <= MaxDependencies => q.declared <= wide
  BY <1>2, <1>6 DEF wide
<1>8. ReadAs(p, q, cap)
  BY <1>5, <1>7 DEF OfOne, ReadAs
<1> QED BY <1>4, <1>6, <1>8 DEF p, q, headers

\* One distribution more declares so many requirements more.
LEMMA SumUpTo ==
  ASSUME EnvOK, EnvPlain, NEW k \in Nat, k + 1 \in 1..Len(EnvEntries),
         \A i \in 1..(k + 1) : EnvEntries[i] \notin Eggs
  PROVE  /\ SumOver(EnvDeclared, EnvUpTo(k + 1)) =
              SumOver(EnvDeclared, EnvUpTo(k)) + EnvParsed(EnvDist(k + 1)).declared
         /\ SumOver(EnvDeclared, EnvUpTo(k)) \in Nat
         /\ SumOver(EnvDeclared, EnvUpTo(k + 1)) \in Nat
         /\ SumOver(EnvDeclared, EnvUpTo(k + 1)) <= SumOver(EnvDeclared, EnvDists)
         /\ SumOver(EnvDeclared, EnvDists) \in Nat
<1> DEFINE f == EnvDeclared
           x == EnvDist(k + 1)
<1>1. Len(EnvEntries) \in Nat
  BY EnvEntriesAre
<1>2. \A i \in 1..(k + 1) : i \in 1..Len(EnvEntries)
  BY <1>1
<1>3. \A i \in 1..(k + 1) : EnvDist(i) \in EnvDists
  BY <1>2, EnvDistsHas
<1>4. EnvUpTo(k) \subseteq EnvDists /\ EnvUpTo(k + 1) \subseteq EnvDists
  BY <1>3 DEF EnvUpTo
<1>5. x \in EnvDists /\ x \notin EnvUpTo(k)
  <2>1. ASSUME x \in EnvUpTo(k) PROVE FALSE
    <3>1. PICK i \in 1..k : x = EnvDist(i)
      BY <2>1 DEF EnvUpTo
    <3>2. i \in 1..Len(EnvEntries)
      BY <1>2
    <3>3. i = k + 1
      BY <3>1, <3>2, EnvDistsHas
    <3> QED BY <3>3
  <2> QED BY <1>3, <2>1
<1>6. EnvUpTo(k + 1) = EnvUpTo(k) \cup {x}
  <2>1. 1..(k + 1) = (1..k) \cup {k + 1}
    OBVIOUS
  <2> QED BY <2>1 DEF EnvUpTo
<1>7. IsFiniteSet(EnvDists) /\ IsFiniteSet(EnvUpTo(k)) /\ IsFiniteSet(EnvUpTo(k + 1))
  BY <1>4, EnvDistsFinite, FS_Subset
<1>8. \A y \in EnvDists : f[y] \in Nat /\ f[y] = EnvParsed(y).declared
  <2> TAKE y \in EnvDists
  <2>1. 0 \in Nat
    OBVIOUS
  <2> QED BY <2>1, DistParsed
<1> HIDE DEF f, x
<1>9. /\ SumOver(f, EnvUpTo(k) \cup {x}) = SumOver(f, EnvUpTo(k)) + f[x]
      /\ SumOver(f, EnvUpTo(k)) \in Nat
  BY <1>4, <1>5, <1>7, <1>8, SumAdd
<1>10. /\ SumOver(f, EnvUpTo(k + 1)) \in Nat /\ SumOver(f, EnvDists) \in Nat
       /\ SumOver(f, EnvUpTo(k + 1)) <= SumOver(f, EnvDists)
  BY <1>4, <1>7, <1>8, SumWithin
<1>11. f[x] = EnvParsed(x).declared
  BY <1>5, <1>8
<1> QED BY <1>6, <1>9, <1>10, <1>11 DEF f, x

LEMMA SaysRead ==
  ASSUME AuditKnows, AuditSays, calm, ReadMetadata
  PROVE  AuditSays'
<1>1. /\ audit.pc = "read" /\ audit.todo # <<>> /\ UNCHANGED envWorld /\ audit.pc # "off"
      /\ audit.pc \in Inspecting
  BY Zenon DEF ReadMetadata, Inspecting
<1>2. DOMAIN audit = AuditFields /\ EnvOK /\ AuditHolds /\ AuditInspects
  BY <1>1, KnowsSteps DEF AuditSays
<1> DEFINE x == Head(audit.todo)
           rest == Tail(audit.todo)
           cap == Min({MaxPerDistribution, audit.left})
           there == env.site[x[1]].kind = "dir" /\ x[2] \in env.site[x[1]].names
           file == env.entry[x[1], x[2]]
           package == ParseDistribution(file.headers, cap)
           next == [audit EXCEPT !.todo = Tail(@)]
           skip == [next EXCEPT !.skipped = @ + 1, !.complete = Warned(@)]
           parse == [next EXCEPT !.parsed = Append(@, package), !.left = @ - Len(package.requirements),
                                 !.complete = IF package.truncated THEN Warn(@, TRUE, TRUE) ELSE @]
<1>3. \/ Ends("denied")
      \/ audit' = skip /\ (~there \/ file.kind # "file" \/ package = NoPackage)
      \/ audit' = parse /\ there /\ file.kind = "file" /\ package # NoPackage
  BY Zenon DEF ReadMetadata
<1>4. CASE Ends("denied")
  BY <1>1, <1>4, SaysDenied
<1>5. /\ DOMAIN next = AuditFields /\ next.pc = "read" /\ next.sites = audit.sites
      /\ next.site = audit.site /\ next.names = audit.names /\ next.todo = rest
      /\ next.parsed = audit.parsed /\ next.left = audit.left
      /\ next.complete = audit.complete /\ next.over = audit.over
  BY <1>1, <1>2 DEF AuditFields
<1> DEFINE told == IF package.truncated THEN Warn(next.complete, TRUE, TRUE) ELSE next.complete
           parsed == Append(audit.parsed, package)
           left == audit.left - Len(package.requirements)
<1>6. parse = [next EXCEPT !.parsed = Append(@, package), !.left = @ - Len(package.requirements),
                           !.complete = told]
  BY Zenon
<1>7. /\ package.truncated = TRUE => told.analysis = FALSE
      /\ package.truncated = FALSE => told = audit.complete
  <2> HIDE DEF next, package
  <2>1. Warn(next.complete, TRUE, TRUE).analysis = FALSE
    BY WarnReserves, Zenon
  <2> QED BY <1>5, <2>1
<1>12. told = audit.complete \/ told.analysis = FALSE
  <2> HIDE DEF next, package
  <2>1. Warn(next.complete, TRUE, TRUE).analysis = FALSE
    BY WarnReserves, Zenon
  <2> QED BY <1>5, <2>1
<1> HIDE DEF next, x, rest, cap, package, file, there, told
<1>8. audit' = skip => audit'.pc = "read" /\ audit'.complete.analysis = FALSE /\ audit'.over = audit.over
  <2>1. audit' = skip => audit'.pc = "read" /\ audit'.complete = Warned(audit.complete) /\ audit'.over = audit.over
    BY <1>5 DEF AuditFields
  <2>2. Warned(audit.complete).analysis = FALSE
    BY WarnReserves, Zenon
  <2> HIDE DEF skip
  <2> QED BY <2>1, <2>2
<1>9. audit' = parse =>
        /\ audit'.pc = "read" /\ audit'.complete = told /\ audit'.over = audit.over
        /\ audit'.sites = audit.sites /\ audit'.todo = rest
        /\ audit'.parsed = parsed /\ audit'.left = left
  <2> HIDE DEF parse
  <2> QED BY <1>5, <1>6 DEF AuditFields
<1> HIDE DEF skip, parse, parsed, left
<1>10. CASE ~Certain
  <2>1. CASE audit' = skip
    <3>1. audit'.over = audit.over /\ audit'.complete.analysis = FALSE /\ audit'.pc \in Inspecting
      BY <1>8, <2>1 DEF Inspecting
    <3> QED BY <1>1, <1>10, <3>1, SaysNoMore
  <2>2. CASE audit' = parse
    <3>1. audit'.over = audit.over /\ audit'.pc \in Inspecting /\ audit'.complete = told
      BY <1>9, <2>2 DEF Inspecting
    <3>2. audit.over => audit.complete.analysis = FALSE
      BY <1>1, <1>2 DEF AuditInspects
    <3>3. audit'.over => audit'.complete.analysis = FALSE
      BY <1>12, <3>1, <3>2
    <3> QED BY <1>1, <1>10, <1>12, <3>1, <3>3, SaysNoMore
  <2> QED BY <1>3, <1>4, <2>1, <2>2
<1>11. CASE Certain
  <2>1. EnvPlain /\ AuditParses /\ AuditLists
    BY <1>2, <1>11 DEF AuditInspects
  <2>2. AuditListed /\ AuditFar = Len(EnvEntries) /\ Len(EnvEntries) <= MaxMetadata
    BY <1>1, <2>1 DEF AuditLists
  <2>3. PICK k \in Nat : k = Len(audit.parsed) /\ audit.parsed \in Seq(Range(audit.parsed))
    BY <1>2, EmptyRange DEF AuditHolds, IsList
  <2>4. PICK t \in Nat : /\ Len(audit.todo) = t + 1 /\ Len(rest) = t /\ x = audit.todo[1]
                         /\ \A i \in 1..t : rest[i] = audit.todo[i + 1]
    <3>1. audit.todo \in Seq(Sites \X EntryNames)
      BY <1>2 DEF AuditHolds
    <3>2. rest \in Seq(Sites \X EntryNames) /\ Len(audit.todo) = Len(rest) + 1
      BY <1>1, <3>1, HeadRange DEF rest
    <3>3. Len(rest) \in Nat
      BY <3>2, EmptyRange
    <3>4. x = audit.todo[1]
      BY <1>1, <3>1 DEF x
    <3>5. \A i \in 1..Len(rest) : rest[i] = audit.todo[i + 1]
      <4>1. rest = [i \in 1..(Len(audit.todo) - 1) |-> audit.todo[i + 1]]
        BY <3>1 DEF rest
      <4>2. Len(audit.todo) - 1 = Len(rest)
        BY <3>2, <3>3
      <4> QED BY <4>1, <4>2
    <3> QED BY <3>2, <3>3, <3>4, <3>5
  <2>5. /\ \A i \in 1..(k + (t + 1)) : EnvEntries[i] \notin Eggs
        /\ \A i \in 1..(t + 1) : audit.todo[i] = EnvDist(k + i)
        /\ \A i \in 1..k : RightlyParsed(i)
        /\ SumOver(EnvDeclared, EnvUpTo(k)) + audit.left = MaxDependencies
        /\ Len(EnvEntries) = k + (t + 1)
    <3>1. AuditFar = k + (t + 1)
      BY <2>3, <2>4 DEF AuditFar
    <3> QED BY <2>1, <2>2, <2>3, <2>4, <3>1, Zenon DEF AuditParses
  <2>6. /\ x = EnvDist(k + 1) /\ k + 1 \in 1..Len(EnvEntries)
        /\ \A i \in 1..(k + 1) : EnvEntries[i] \notin Eggs
    <3>1. 1 \in 1..(t + 1) /\ k + 1 \in 1..(k + (t + 1))
      OBVIOUS
    <3>2. \A i \in 1..(k + 1) : i \in 1..(k + (t + 1))
      OBVIOUS
    <3> QED BY <2>4, <2>5, <3>1, <3>2
  <2>7. x \in EnvDists
    BY <1>2, <2>1, <2>6, EnvDistsHas
  <2>8. x = <<x[1], x[2]>> /\ x[1] = EnvSite /\ x[2] \in env.site[EnvSite].names
        /\ env.site[EnvSite].kind = "dir"
    BY <1>2, <2>1, <2>7, EnvOneSite DEF EnvDists
  <2>9. there /\ file = env.entry[x]
    BY <2>8 DEF there, file
  <2>10. cap \in Nat /\ audit.left \in Nat /\ MaxPerDistribution \in Nat /\ MaxDependencies \in Nat
         /\ cap = IF MaxPerDistribution <= audit.left THEN MaxPerDistribution ELSE audit.left
    <3>1. audit.left \in Nat /\ MaxPerDistribution \in Nat /\ MaxDependencies \in Nat
      BY <1>2, EnvAssumption DEF AuditHolds
    <3> QED BY <3>1, Smaller DEF cap
  <2>11. package = ParseDistribution(env.entry[x].headers, cap)
    BY <2>9 DEF package
  <2> DEFINE d == EnvParsed(x).declared
             before == SumOver(EnvDeclared, EnvUpTo(k))
             after == SumOver(EnvDeclared, EnvUpTo(k + 1))
             total == SumOver(EnvDeclared, EnvDists)
  <2>12. /\ package = NoPackage <=> EnvParsed(x) = NoPackage
         /\ d \in Nat
         /\ package # NoPackage =>
              /\ d > cap => package.truncated = TRUE
              /\ d <= cap => package.truncated = FALSE
              /\ d <= cap /\ d <= MaxDependencies =>
                   package = EnvParsed(x) /\ Len(package.requirements) = d
    <3>1. ReadAs(package, EnvParsed(x), cap) /\ d \in Nat
      BY <1>2, <2>7, <2>10, <2>11, DistParsed
    <3> QED BY <3>1 DEF ReadAs
  <2>13. after = before + d /\ before \in Nat /\ after \in Nat /\ after <= total /\ total \in Nat
         /\ before + audit.left = MaxDependencies
    BY <1>2, <2>1, <2>5, <2>6, SumUpTo
  <2>14. CASE audit' = skip /\ (~there \/ file.kind # "file" \/ package = NoPackage)
    <3>1. ~EnvClear
      BY <2>7, <2>9, <2>12, <2>14, ClearIs DEF EnvWithin
    <3> QED BY <1>1, <1>8, <2>14, <3>1, SaysReserved DEF Inspecting
  <2>15. CASE audit' = parse /\ file.kind = "file" /\ package # NoPackage /\ d > cap
    <3>1. package.truncated = TRUE
      BY <2>12, <2>15
    <3>2. d > MaxPerDistribution \/ total > MaxDependencies
      <4> HIDE DEF d, before, after, total
      <4> QED BY <2>10, <2>12, <2>13, <2>15
    <3>3. ~(d <= MaxPerDistribution) \/ ~(total <= MaxDependencies)
      <4> HIDE DEF d, before, after, total
      <4> QED BY <2>10, <2>12, <2>13, <3>2
    <3>4. ~EnvClear
      BY <2>7, <3>3, ClearIs DEF EnvWithin
    <3>5. audit'.complete.analysis = FALSE /\ audit'.pc \in Inspecting
      BY <1>7, <1>9, <2>15, <3>1 DEF Inspecting
    <3> QED BY <1>1, <3>4, <3>5, SaysReserved
  <2>16. CASE audit' = parse /\ file.kind = "file" /\ package # NoPackage /\ d <= cap
    <3>1. d <= MaxDependencies /\ d <= MaxPerDistribution /\ d <= audit.left
      <4> HIDE DEF d, before, after, total
      <4> QED BY <2>10, <2>12, <2>13, <2>16
    <3>2. package = EnvParsed(x) /\ package.truncated = FALSE /\ Len(package.requirements) = d
      BY <2>12, <2>16, <3>1
    <3>3. audit'.complete = audit.complete /\ audit'.over = audit.over /\ audit'.pc = "read"
      BY <1>7, <1>9, <2>16, <3>2
    <3>4. Certain'
      BY <1>11, <3>3 DEF Certain
    <3>5. UNCHANGED env
      BY <1>1 DEF envWorld
    <3>6. /\ EnvSite' = EnvSite /\ EnvEntries' = EnvEntries /\ EnvDeclared' = EnvDeclared
          /\ \A i : EnvDist(i)' = EnvDist(i)
          /\ \A j : EnvUpTo(j)' = EnvUpTo(j)
          /\ \A y : EnvParsed(y)' = EnvParsed(y)
      BY <3>5, EnvSame
    <3>7. /\ audit'.todo = rest /\ audit'.parsed = Append(audit.parsed, package)
          /\ audit'.left = audit.left - d /\ audit'.sites = audit.sites
      BY <1>9, <2>16, <3>2 DEF parsed, left
    <3>8. /\ Len(audit'.parsed) = k + 1 /\ audit'.parsed[k + 1] = package
          /\ \A i \in 1..k : audit'.parsed[i] = audit.parsed[i]
      <4>1. audit.parsed \in Seq(Range(audit.parsed) \cup {package})
        BY <2>3, SeqOfSubset
      <4> QED BY <2>3, <3>7, <4>1, AppendProperties
    <3>9. AuditFar' = k + (t + 1)
      <4>1. AuditFar' = Len(audit'.parsed) + Len(audit'.todo)
        BY DEF AuditFar
      <4> QED BY <2>4, <3>7, <3>8, <4>1
    <3>10. \A i \in 1..(k + 1) : RightlyParsed(i)'
      <4>1. ASSUME NEW i \in 1..k PROVE RightlyParsed(i)'
        <5>1. RightlyParsed(i)
          BY <2>5
        <5> QED BY <3>5, <3>6, <3>8, <5>1 DEF RightlyParsed
      <4>2. RightlyParsed(k + 1)'
        <5>1. /\ package = EnvParsed(x) /\ package # NoPackage /\ env.entry[x].kind = "file"
              /\ package.declared <= MaxPerDistribution
          <6>1. package = EnvParsed(x) /\ package # NoPackage /\ file.kind = "file"
            BY <2>16, <3>2
          <6>2. package.declared <= MaxPerDistribution
            BY <3>1, <3>2
          <6> QED BY <2>9, <6>1, <6>2
        <5>2. /\ audit'.parsed[k + 1] = EnvParsed(EnvDist(k + 1)) /\ audit'.parsed[k + 1] # NoPackage
              /\ env.entry[EnvDist(k + 1)].kind = "file"
              /\ audit'.parsed[k + 1].declared <= MaxPerDistribution
          BY <2>6, <3>8, <5>1
        <5> QED BY <3>5, <3>6, <5>2 DEF RightlyParsed
      <4>3. \A i \in 1..(k + 1) : i \in 1..k \/ i = k + 1
        OBVIOUS
      <4> QED BY <4>1, <4>2, <4>3
    <3>11. \A i \in 1..t : audit'.todo[i] = EnvDist((k + 1) + i)
      <4> TAKE i \in 1..t
      <4>1. i + 1 \in 1..(t + 1) /\ k + (i + 1) = (k + 1) + i
        OBVIOUS
      <4>2. audit'.todo[i] = audit.todo[i + 1]
        BY <2>4, <3>7
      <4>3. audit.todo[i + 1] = EnvDist(k + (i + 1))
        BY <2>5, <4>1
      <4> QED BY <4>1, <4>2, <4>3
    <3>12. after + audit'.left = MaxDependencies
      <4> HIDE DEF d, before, after, total
      <4> QED BY <2>10, <2>12, <2>13, <3>7
    <3>13. AuditParses'
      <4>1. \A i \in 1..(k + (t + 1)) : EnvEntries'[i] \notin Eggs
        BY <2>5, <3>6
      <4>2. \A i \in 1..t : audit'.todo[i] = EnvDist((k + 1) + i)'
        BY <3>6, <3>11
      <4>3. SumOver(EnvDeclared', EnvUpTo(k + 1)') + audit'.left = MaxDependencies
        BY <3>6, <3>12
      <4>4. Len(audit'.todo) = t /\ Len(audit'.parsed) = k + 1
        BY <2>4, <3>7, <3>8
      <4> QED BY <3>9, <3>10, <4>1, <4>2, <4>3, <4>4 DEF AuditParses
    <3>14. AuditLists'
      <4>1. AuditListed'
        BY <2>2, <3>6, <3>7 DEF AuditListed
      <4>2. AuditFar' = Len(EnvEntries')
        BY <2>5, <3>6, <3>9
      <4> QED BY <2>2, <3>3, <3>6, <4>1, <4>2 DEF AuditLists
    <3> QED BY <1>1, <1>11, <2>1, <3>3, <3>4, <3>13, <3>14, SaysInspected DEF Inspecting, Certain
  <2>17. d <= cap \/ d > cap
    BY <2>10, <2>12
  <2> QED BY <1>3, <1>4, <2>14, <2>15, <2>16, <2>17
<1> QED BY <1>10, <1>11

-----------------------------------------------------------------------------
(* What is found, once all of it is parsed *)

\* The distributions are all parsed, as what they are.
AllParsed(n) ==
  /\ n \in Nat /\ DOMAIN audit.parsed = 1..n /\ Len(audit.parsed) = n
  /\ audit.parsed \in Seq(Range(audit.parsed))
  /\ \A i \in 1..n : EnvDist(i) \in EnvDists /\ audit.parsed[i] = EnvParsed(EnvDist(i))
  /\ \A x \in EnvDists : \E i \in 1..n : x = EnvDist(i)
  /\ \A i, j \in 1..n : EnvDist(i) = EnvDist(j) => i = j

LEMMA AllIsParsed ==
  ASSUME AuditKnows, AuditSays, calm, audit.pc = "read", audit.todo = <<>>, Certain,
         NEW n, n = Len(audit.parsed)
  PROVE  /\ AllParsed(n) /\ EnvPlain
         /\ n = Cardinality(EnvDists) /\ n = Len(EnvEntries) /\ n <= MaxEntries /\ n <= MaxMetadata
         /\ \A i \in 1..n : EnvEntries[i] \notin Eggs /\ RightlyParsed(i)
         /\ SumOver(EnvDeclared, EnvDists) <= MaxDependencies
<1>1. DOMAIN audit = AuditFields /\ EnvOK /\ AuditHolds /\ AuditInspects
  BY KnowsSteps DEF AuditSays, Inspecting
<1>2. EnvPlain /\ AuditParses /\ AuditLists
  BY <1>1 DEF AuditInspects
<1>3. AuditListed /\ AuditFar = Len(EnvEntries) /\ Len(EnvEntries) <= MaxMetadata
  BY <1>2 DEF AuditLists
<1>4. audit.parsed \in Seq(Range(audit.parsed)) /\ n \in Nat /\ DOMAIN audit.parsed = 1..n
  BY <1>1, EmptyRange, LenProperties DEF AuditHolds, IsList
<1>5. Len(audit.todo) = 0
  BY EmptyRange
<1>6. AuditFar = n
  BY <1>4, <1>5 DEF AuditFar
<1>7. n = Len(EnvEntries) /\ n <= MaxMetadata /\ n <= MaxEntries
  BY <1>3, <1>6 DEF AuditListed
<1>8. /\ \A i \in 1..n : EnvEntries[i] \notin Eggs
      /\ \A i \in 1..n : RightlyParsed(i)
      /\ SumOver(EnvDeclared, EnvUpTo(n)) + audit.left = MaxDependencies
  BY <1>2, <1>6, Zenon DEF AuditParses
<1>9. EnvDists = EnvUpTo(n) /\ Cardinality(EnvDists) = n
  BY <1>1, <1>2, <1>7, <1>8, EnvDistsAre
<1>10. /\ \A i \in 1..n : EnvDist(i) \in EnvDists
       /\ \A x \in EnvDists : \E i \in 1..n : x = EnvDist(i)
       /\ \A i, j \in 1..n : EnvDist(i) = EnvDist(j) => i = j
  BY <1>1, <1>2, <1>7, <1>8, EnvDistsHas
<1>11. \A i \in 1..n : audit.parsed[i] = EnvParsed(EnvDist(i))
  BY <1>8 DEF RightlyParsed
<1>12. AllParsed(n)
  BY <1>4, <1>10, <1>11 DEF AllParsed
<1>13. SumOver(EnvDeclared, EnvDists) \in Nat
  <2>1. \A x \in EnvDists : EnvDeclared[x] \in Nat
    <3> TAKE x \in EnvDists
    <3>1. 0 \in Nat
      OBVIOUS
    <3> QED BY <1>1, <3>1, DistParsed
  <2> QED BY <1>1, <2>1, EnvDistsFinite, SumWithin
<1>14. SumOver(EnvDeclared, EnvDists) <= MaxDependencies
  <2> DEFINE total == SumOver(EnvDeclared, EnvDists)
  <2>1. total + audit.left = MaxDependencies
    BY <1>8, <1>9
  <2>2. audit.left \in Nat /\ total \in Nat
    BY <1>1, <1>13 DEF AuditHolds
  <2> HIDE DEF total
  <2>3. total <= MaxDependencies
    BY <2>1, <2>2
  <2> QED BY <2>3 DEF total
<1> QED BY <1>2, <1>7, <1>8, <1>9, <1>12, <1>14

\* A finite set has more than one element if it has two.
LEMMA MoreThanOne ==
  ASSUME NEW P, IsFiniteSet(P)
  PROVE  Cardinality(P) > 1 <=> \E i, j \in P : i # j
<1>1. Cardinality(P) \in Nat
  BY FS_CardinalityType
<1>2. ASSUME NEW i \in P, NEW j \in P, i # j PROVE Cardinality(P) > 1
  <2>1. IsFiniteSet({i}) /\ Cardinality({i}) = 1
    BY FS_Singleton
  <2>2. Cardinality({i} \cup {j}) = 2
    BY <1>2, <2>1, FS_AddElement
  <2>3. {i} \cup {j} \subseteq P
    OBVIOUS
  <2>4. Cardinality({i} \cup {j}) <= Cardinality(P)
    BY <2>3, FS_Subset
  <2> QED BY <1>1, <2>2, <2>4
<1>3. ASSUME \A i, j \in P : i = j PROVE ~(Cardinality(P) > 1)
  <2>1. CASE P = {}
    BY <2>1, FS_EmptySet
  <2>2. CASE P # {}
    <3>1. PICK i : i \in P
      BY <2>2
    <3>2. P = {i}
      BY <1>3, <3>1
    <3>3. Cardinality(P) = 1
      BY <3>2, FS_Singleton
    <3> QED BY <3>3
  <2> QED BY <2>1, <2>2
<1> QED BY <1>2, <1>3

\* A name is ambiguous if two distributions have it; otherwise there is one with it.
LEMMA AmbiguousIs ==
  ASSUME NEW n, AllParsed(n)
  PROVE  /\ Ambiguous # {} => \E i, j \in 1..n : i # j /\ audit.parsed[i].name = audit.parsed[j].name
         /\ Ambiguous = {} =>
              /\ \A i, j \in 1..n : audit.parsed[i].name = audit.parsed[j].name => i = j
              /\ DOMAIN Installed = {audit.parsed[i].name : i \in 1..n}
              /\ \A i \in 1..n : Installed[audit.parsed[i].name] = audit.parsed[i].version
<1> DEFINE P(name) == {i \in DOMAIN audit.parsed : audit.parsed[i].name = name}
<1>1. n \in Nat /\ DOMAIN audit.parsed = 1..n /\ audit.parsed \in Seq(Range(audit.parsed))
  BY DEF AllParsed
<1>2. ParsedNames = {audit.parsed[i].name : i \in 1..n}
  BY <1>1 DEF ParsedNames
<1>3. \A name : /\ Len(With(name)) > 1 <=> \E i, j \in P(name) : i # j
                /\ Len(With(name)) = Cardinality(P(name)) /\ With(name) \in Seq(Range(audit.parsed))
                /\ Range(With(name)) = {audit.parsed[i] : i \in P(name)}
  <2> TAKE name
  <2>1. P(name) \in SUBSET DOMAIN audit.parsed
    OBVIOUS
  <2>2. IsFiniteSet(P(name))
    BY <1>1, <2>1, FS_Interval, FS_Subset
  <2>3. With(name) = At(audit.parsed, P(name))
    BY DEF With
  <2> HIDE DEF P
  <2>4. /\ Len(At(audit.parsed, P(name))) = Cardinality(P(name))
        /\ At(audit.parsed, P(name)) \in Seq(Range(audit.parsed))
        /\ Range(At(audit.parsed, P(name))) = {audit.parsed[i] : i \in P(name)}
    BY <1>1, <2>1, AtFacts
  <2>5. Cardinality(P(name)) > 1 <=> \E i, j \in P(name) : i # j
    BY <2>2, MoreThanOne
  <2> QED BY <2>3, <2>4, <2>5
<1>4. ASSUME NEW name \in Ambiguous
      PROVE  \E i, j \in 1..n : i # j /\ audit.parsed[i].name = audit.parsed[j].name
  <2>1. Len(With(name)) > 1
    BY <1>4 DEF Ambiguous
  <2>2. PICK i, j \in P(name) : i # j
    BY <1>3, <2>1
  <2> QED BY <1>1, <2>2
<1>5. ASSUME Ambiguous = {}
      PROVE  /\ \A i, j \in 1..n : audit.parsed[i].name = audit.parsed[j].name => i = j
             /\ DOMAIN Installed = {audit.parsed[i].name : i \in 1..n}
             /\ \A i \in 1..n : Installed[audit.parsed[i].name] = audit.parsed[i].version
  <2>1. \A name \in ParsedNames : ~(Len(With(name)) > 1)
    BY <1>5 DEF Ambiguous
  <2>2. ASSUME NEW i \in 1..n, NEW j \in 1..n, audit.parsed[i].name = audit.parsed[j].name
        PROVE  i = j
    <3>1. i \in P(audit.parsed[i].name) /\ j \in P(audit.parsed[i].name)
      BY <1>1, <2>2
    <3>2. audit.parsed[i].name \in ParsedNames
      BY <1>2
    <3> HIDE DEF P
    <3> QED BY <1>3, <2>1, <3>1, <3>2
  <2>3. ParsedNames \ Ambiguous = ParsedNames
    BY <1>5
  <2>4. Installed = [name \in ParsedNames |-> With(name)[1].version]
    BY <2>3 DEF Installed
  <2>5. ASSUME NEW i \in 1..n PROVE Installed[audit.parsed[i].name] = audit.parsed[i].version
    <3> DEFINE name == audit.parsed[i].name
               found == With(name)
    <3>1. P(name) = {i}
      BY <1>1, <2>2
    <3>2. Cardinality({i}) = 1
      BY FS_Singleton
    <3>3. name \in ParsedNames
      BY <1>2
    <3>4. /\ Len(found) = 1 /\ found \in Seq(Range(audit.parsed))
          /\ Range(found) = {audit.parsed[j] : j \in P(name)}
      <4> HIDE DEF P, name
      <4> QED BY <1>3, <3>1, <3>2
    <3>5. Range(found) = {audit.parsed[i]}
      BY <3>1, <3>4
    <3>6. Installed[name] = found[1].version
      BY <2>4, <3>3
    <3> HIDE DEF found, P, name
    <3>7. found[1] \in Range(found)
      BY <3>4, LenProperties DEF Range
    <3>8. found[1] = audit.parsed[i]
      BY <3>5, <3>7
    <3> QED BY <3>6, <3>8 DEF name
  <2>6. DOMAIN Installed = {audit.parsed[i].name : i \in 1..n}
    BY <1>2, <2>4
  <2> QED BY <2>2, <2>5, <2>6
<1> QED BY <1>4, <1>5

\* What is required is what the distributions want.
LEMMA RequiredIsWanted ==
  ASSUME AuditKnows, Recorded, audit.pc # "off", NEW n, AllParsed(n)
  PROVE  Range(Requirements) = EnvWanted
<1>1. n \in Nat /\ DOMAIN audit.parsed = 1..n
  BY DEF AllParsed
<1>2. /\ DOMAIN Needs = 1..n /\ \A i \in 1..n : Needs[i] = audit.parsed[i].requirements
      /\ Needs \in Seq(Range(Needs)) /\ \A i \in 1..n : IsSequence(Needs[i])
  BY <1>1 DEF Needs, Recorded
<1>3. Len(Needs) = n
  <2>1. 1..Len(Needs) = 1..n /\ Len(Needs) \in Nat
    BY <1>2, LenProperties
  <2> QED BY <1>1, <2>1
<1>4. Requirements = FlattenSeq(Needs)
  BY DEF Requirements, Needs
<1>5. Range(Requirements) = RangesTo(Needs, n)
  BY <1>1, <1>2, <1>3, <1>4, FlattenHolds
<1>6. \A i \in 1..n : Needs[i] = EnvParsed(EnvDist(i)).requirements
  BY <1>2 DEF AllParsed
<1>7. EnvDists = {EnvDist(i) : i \in 1..n}
  BY DEF AllParsed
<1>8. EnvWanted = UNION {Range(EnvParsed(EnvDist(i)).requirements) : i \in 1..n}
  BY <1>7 DEF EnvWanted
<1>9. RangesTo(Needs, n) = UNION {Range(EnvParsed(EnvDist(i)).requirements) : i \in 1..n}
  BY <1>6 DEF RangesTo
<1> QED BY <1>5, <1>8, <1>9

\* What is required and not met is found to be missing or incompatible.
LEMMA UnmetIsFound ==
  ASSUME NEW n, AllParsed(n), Ambiguous = {}, Range(Requirements) = EnvWanted,
         \A r \in EnvWanted : ~Unverifiable(r), Completeness.inventory = TRUE
  PROVE  \A i \in DOMAIN Requirements :
           Statuses[i] \in {"missing", "incompatible"} <=> Requirements[i] \in EnvUnmet
<1>1. /\ DOMAIN Installed = {audit.parsed[i].name : i \in 1..n}
      /\ \A i \in 1..n : Installed[audit.parsed[i].name] = audit.parsed[i].version
  BY AmbiguousIs
<1>2. /\ \A i \in 1..n : EnvDist(i) \in EnvDists /\ audit.parsed[i] = EnvParsed(EnvDist(i))
      /\ \A x \in EnvDists : \E i \in 1..n : x = EnvDist(i)
  BY DEF AllParsed
<1>3. ASSUME NEW k \in DOMAIN Requirements
      PROVE  Statuses[k] \in {"missing", "incompatible"} <=> Requirements[k] \in EnvUnmet
  <2> DEFINE r == Requirements[k]
             there == r.on \in DOMAIN Installed
             fits == Installed[r.on] \in r.versions
  <2>1. r \in EnvWanted
    BY <1>3 DEF Range
  <2>2. Statuses[k] = IF ~there THEN "missing" ELSE IF ~fits THEN "incompatible" ELSE "satisfied"
    <3>1. ~Unverifiable(r)
      BY <2>1
    <3>2. Statuses[k] = EvaluateRequirement(r, Installed, {}, Completeness.inventory)
      BY DEF Statuses
    <3> HIDE DEF r
    <3> QED BY <3>1, <3>2 DEF EvaluateRequirement
  <2>3. ASSUME there, fits PROVE r \notin EnvUnmet
    <3>1. PICK i \in 1..n : r.on = audit.parsed[i].name
      BY <1>1, <2>3
    <3>2. audit.parsed[i].version \in r.versions
      BY <1>1, <2>3, <3>1
    <3>3. EnvParsed(EnvDist(i)).name = r.on /\ EnvParsed(EnvDist(i)).version \in r.versions
      BY <1>2, <3>1, <3>2
    <3> HIDE DEF r
    <3> QED BY <1>2, <3>3 DEF EnvUnmet
  <2>4. ASSUME NEW x \in EnvDists, EnvParsed(x).name = r.on, EnvParsed(x).version \in r.versions
        PROVE  there /\ fits
    <3>1. PICK i \in 1..n : x = EnvDist(i)
      BY <1>2
    <3>2. audit.parsed[i].name = r.on /\ audit.parsed[i].version \in r.versions
      BY <1>2, <2>4, <3>1
    <3> QED BY <1>1, <3>2
  <2>5. ~(there /\ fits) => r \in EnvUnmet
    <3> HIDE DEF r, there, fits
    <3> QED BY <2>1, <2>4 DEF EnvUnmet
  <2>6. Statuses[k] \in {"missing", "incompatible"} <=> ~(there /\ fits)
    <3> HIDE DEF r, there, fits
    <3> QED BY <2>2
  <2> HIDE DEF there, fits
  <2> QED BY <2>3, <2>5, <2>6
<1> QED BY <1>3

\* A reserve made in reading stays one, and so does one made now.
LEMMA CompletenessIs ==
  /\ audit.complete.analysis = FALSE => Completeness.analysis = FALSE
  /\ Ambiguous # {} => Completeness.analysis = FALSE
  /\ (\E r \in Range(Requirements) : Unverifiable(r)) => Completeness.analysis = FALSE
  /\ Ambiguous = {} /\ ~(\E r \in Range(Requirements) : Unverifiable(r)) =>
       Completeness = audit.complete
<1> DEFINE named == IF Ambiguous = {} THEN audit.complete ELSE Warned(audit.complete)
           doubted == \E r \in Range(Requirements) : Unverifiable(r)
<1>1. Completeness = IF doubted THEN Warn(named, FALSE, FALSE) ELSE named
  BY DEF Completeness
<1>2. Warn(named, FALSE, FALSE).analysis = FALSE /\ Warned(audit.complete).analysis = FALSE
  BY WarnReserves, Zenon
<1>3. /\ Ambiguous = {} => named = audit.complete
      /\ Ambiguous # {} => named = Warned(audit.complete)
  OBVIOUS
<1> HIDE DEF named, doubted
<1>4. /\ audit.complete.analysis = FALSE => Completeness.analysis = FALSE
      /\ Ambiguous # {} => Completeness.analysis = FALSE
      /\ doubted => Completeness.analysis = FALSE
      /\ Ambiguous = {} /\ ~doubted => Completeness = audit.complete
  BY <1>1, <1>2, <1>3
<1> QED BY <1>4 DEF doubted

\* All of it parsed, each by its own name and wanting nothing doubtful, it is clear.
LEMMA ItIsClear ==
  ASSUME AuditKnows, AuditSays, calm, audit.pc = "read", audit.todo = <<>>, Certain,
         Ambiguous = {}, \A r \in EnvWanted : ~Unverifiable(r)
  PROVE  EnvClear
<1> DEFINE n == Len(audit.parsed)
<1>1. /\ AllParsed(n) /\ EnvPlain
      /\ n = Cardinality(EnvDists) /\ n = Len(EnvEntries) /\ n <= MaxEntries /\ n <= MaxMetadata
      /\ \A i \in 1..n : EnvEntries[i] \notin Eggs /\ RightlyParsed(i)
      /\ SumOver(EnvDeclared, EnvDists) <= MaxDependencies
  BY AllIsParsed
<1> HIDE DEF n
<1>2. \A i, j \in 1..n : audit.parsed[i].name = audit.parsed[j].name => i = j
  BY <1>1, AmbiguousIs
<1>3. EnvOK
  BY KnowsSteps
<1>4. /\ EnvSites = {EnvSite} /\ Range(EnvEntries) = env.site[EnvSite].names
      /\ n = Cardinality(env.site[EnvSite].names) /\ DOMAIN EnvEntries = 1..n
  <2>1. EnvEntries \in Seq(EntryNames)
    BY <1>1, <1>3, EnvEntriesAre
  <2> QED BY <1>1, <1>3, <2>1, EnvOneSite, EnvEntriesAre, LenProperties
<1>5. env.site[EnvSite].names \cap Eggs = {}
  BY <1>1, <1>4 DEF Range
<1>6. \A x \in EnvDists : \E i \in 1..n : x = EnvDist(i) /\ audit.parsed[i] = EnvParsed(x)
  BY <1>1 DEF AllParsed
<1>7. ASSUME NEW x \in EnvDists
      PROVE  /\ env.entry[x].kind = "file" /\ EnvParsed(x) # NoPackage
             /\ EnvParsed(x).declared <= MaxPerDistribution
  <2>1. PICK i \in 1..n : x = EnvDist(i) /\ audit.parsed[i] = EnvParsed(x)
    BY <1>6
  <2>2. RightlyParsed(i)
    BY <1>1
  <2> QED BY <2>1, <2>2 DEF RightlyParsed
<1>8. ASSUME NEW x \in EnvDists, NEW y \in EnvDists, x # y PROVE EnvParsed(x).name # EnvParsed(y).name
  <2>1. PICK i \in 1..n : x = EnvDist(i) /\ audit.parsed[i] = EnvParsed(x)
    BY <1>6
  <2>2. PICK j \in 1..n : y = EnvDist(j) /\ audit.parsed[j] = EnvParsed(y)
    BY <1>6
  <2> QED BY <1>2, <1>8, <2>1, <2>2
<1>9. EnvWithin
  BY <1>1, <1>4, <1>5, <1>7, <1>8 DEF EnvWithin
<1> QED BY <1>9, ClearIs

LEMMA SaysAssess ==
  ASSUME AuditKnows, Recorded, AuditSays, calm, Assess
  PROVE  AuditSays'
<1>1. /\ audit.pc = "read" /\ audit.todo = <<>> /\ UNCHANGED envWorld /\ audit.pc # "off"
      /\ audit.pc \in Inspecting
  BY Zenon DEF Assess, Inspecting
<1>2. DOMAIN audit = AuditFields /\ AuditHolds /\ AuditInspects
  BY <1>1, KnowsSteps DEF AuditSays
<1> DEFINE findings == [i \in DOMAIN Requirements |-> [on |-> Requirements[i], status |-> Statuses[i]]]
           complete == Completeness
<1>3. audit' = [audit EXCEPT !.pc = "report", !.complete = complete, !.findings = findings]
  BY <1>1 DEF Assess
<1>4. UNCHANGED env /\ (EnvClear' <=> EnvClear) /\ EnvUnmet' = EnvUnmet
  BY <1>1, EnvSame DEF envWorld
<1> HIDE DEF findings, complete
<1>5. audit'.pc = "report" /\ audit'.complete = complete /\ audit'.findings = findings
  BY <1>2, <1>3 DEF AuditFields
<1>6. complete.analysis = FALSE /\ ~EnvClear => AuditSays'
  <2>1. FALSE # TRUE
    OBVIOUS
  <2> QED BY <1>4, <1>5, <2>1 DEF AuditSays, Early, Inspecting
<1>7. complete.analysis = TRUE /\ AuditFinds' => AuditSays'
  BY <1>5 DEF AuditSays, Early, Inspecting
<1>8. CASE ~Certain
  <2>1. audit.complete.analysis = FALSE /\ ~EnvClear
    BY <1>1, <1>2, <1>8 DEF AuditInspects, Certain
  <2> QED BY <1>6, <2>1, CompletenessIs DEF complete
<1>9. CASE Certain
  <2>1. PICK n : AllParsed(n) /\ EnvPlain
    BY <1>1, <1>9, AllIsParsed
  <2>2. Range(Requirements) = EnvWanted
    BY <1>1, <2>1, RequiredIsWanted
  <2>3. CASE Ambiguous # {}
    <3>1. PICK i, j \in 1..n : i # j /\ audit.parsed[i].name = audit.parsed[j].name
      BY <2>1, <2>3, AmbiguousIs
    <3>2. /\ EnvDist(i) \in EnvDists /\ EnvDist(j) \in EnvDists /\ EnvDist(i) # EnvDist(j)
          /\ EnvParsed(EnvDist(i)).name = EnvParsed(EnvDist(j)).name
      BY <2>1, <3>1 DEF AllParsed
    <3>3. ~EnvClear
      BY <3>2, ClearIs DEF EnvWithin
    <3> QED BY <1>6, <2>3, <3>3, CompletenessIs DEF complete
  <2>4. CASE \E r \in EnvWanted : Unverifiable(r)
    <3>1. ~EnvClear
      BY <2>4, ClearIs DEF EnvWithin
    <3> QED BY <1>6, <2>2, <2>4, <3>1, CompletenessIs DEF complete
  <2>5. CASE Ambiguous = {} /\ \A r \in EnvWanted : ~Unverifiable(r)
    <3>1. EnvClear
      BY <1>1, <1>9, <2>5, ItIsClear
    <3>2. complete = NoWarnings
      BY <1>9, <2>2, <2>5, CompletenessIs DEF complete, Certain
    <3>3. complete.analysis = TRUE /\ complete.inventory = TRUE
      BY <3>2, WarnReserves
    <3>4. \A i \in DOMAIN Requirements :
            Statuses[i] \in {"missing", "incompatible"} <=> Requirements[i] \in EnvUnmet
      BY <2>1, <2>2, <2>5, <3>3, UnmetIsFound DEF complete
    <3>5. /\ Found("missing")' = {i \in DOMAIN findings : findings[i].status = "missing"}
          /\ Found("incompatible")' = {i \in DOMAIN findings : findings[i].status = "incompatible"}
      BY <1>5 DEF Found
    <3>6. DOMAIN findings = DOMAIN Requirements
          /\ \A i \in DOMAIN Requirements : findings[i].status = Statuses[i]
      BY DEF findings
    <3>7. Found("missing")' \cup Found("incompatible")' =
            {i \in DOMAIN Requirements : Requirements[i] \in EnvUnmet}
      BY <3>4, <3>5, <3>6
    <3>8. EnvUnmet # {} <=> \E i \in DOMAIN Requirements : Requirements[i] \in EnvUnmet
      <4>1. EnvUnmet \subseteq EnvWanted
        BY DEF EnvUnmet
      <4> QED BY <2>2, <4>1 DEF Range
    <3>9. AuditFinds'
      BY <1>4, <3>1, <3>7, <3>8 DEF AuditFinds
    <3> QED BY <1>7, <3>3, <3>9
  <2> QED BY <2>3, <2>4, <2>5
<1> QED BY <1>8, <1>9

LEMMA SaysReport ==
  ASSUME AuditKnows, AuditSays, calm, Report
  PROVE  AuditSays'
<1>1. audit.pc = "report" /\ UNCHANGED envWorld /\ audit.pc # "off"
  BY Zenon DEF Report
<1>2. DOMAIN audit = AuditFields
  BY <1>1, KnowsSteps
<1>3. (EnvClear' <=> EnvClear) /\ EnvUnmet' = EnvUnmet
  BY <1>1, EnvSame DEF envWorld
<1> DEFINE found == Found("missing") \cup Found("incompatible")
<1>4. \/ audit.complete.analysis = TRUE /\ EnvClear /\ (found # {} <=> EnvUnmet # {})
      \/ audit.complete.analysis = FALSE /\ ~EnvClear
  BY <1>1 DEF AuditSays, AuditFinds
<1>5. CASE env.root # audit.root
  <2>1. Ends("denied")
    BY <1>5, Zenon DEF Report
  <2> QED BY <1>1, <2>1, SaysDenied
<1>6. CASE env.root = audit.root
  <2>1. Ends(IF ~audit.complete.analysis THEN "partial" ELSE IF found # {} THEN "issues" ELSE "noIssues")
    BY <1>6, Zenon DEF Report
  <2> HIDE DEF found
  <2>2. CASE audit.complete.analysis = FALSE
    <3>1. audit'.pc = "over" /\ audit'.outcome = "partial"
      BY <1>2, <2>1, <2>2 DEF Ends, AuditFields
    <3> QED BY <1>3, <1>4, <2>2, <3>1 DEF AuditSays, Early, Inspecting
  <2>3. CASE audit.complete.analysis = TRUE
    <3>1. audit'.pc = "over" /\ audit'.outcome = IF found # {} THEN "issues" ELSE "noIssues"
      BY <1>2, <2>1, <2>3 DEF Ends, AuditFields
    <3>2. EnvClear /\ (found # {} <=> EnvUnmet # {})
      BY <1>4, <2>3
    <3>3. /\ audit'.outcome \in {"issues", "noIssues"} /\ (audit'.outcome = "issues" <=> EnvUnmet # {})
      BY <3>1, <3>2
    <3> QED BY <1>3, <3>1, <3>2, <3>3 DEF AuditSays, Early, Inspecting
  <2> QED BY <1>4, <2>2, <2>3
<1> QED BY <1>5, <1>6

LEMMA SaysStep ==
  ASSUME AuditKnows, Recorded, AuditSays, EnvNext
  PROVE  AuditSays'
<1>1. UNCHANGED envWorld
  BY Zenon DEF EnvNext, Identify, ReadConfig, Invalid, Same, FindSite, Layout, List, Verify, Entry,
               NextSite, Discovered, ReadMetadata, Assess, Report, Torn
<1>2. CASE ~calm
  BY <1>1, <1>2 DEF AuditSays, envWorld
<1>3. CASE calm
  <2>1. CASE Torn
    <3>1. audit.pc # "off" /\ Ends("denied")
      BY <2>1 DEF Torn
    <3> QED BY <3>1, SaysDenied
  <2> QED BY <1>3, <2>1, SaysIdentify, SaysReadConfig, SaysInvalid, SaysSame, SaysFindSite,
             SaysLayout, SaysList, SaysVerify, SaysEntry, SaysNextSite, SaysDiscovered, SaysRead,
             SaysAssess, SaysReport DEF EnvNext
<1> QED BY <1>2, <1>3

LEMMA SaysNext == AuditKnows /\ Recorded /\ AuditSays /\ [Next]_vars => AuditSays'
<1> SUFFICES ASSUME AuditKnows, Recorded, AuditSays, [Next]_vars PROVE AuditSays'
  OBVIOUS
<1>1. CASE EnvNext
  BY <1>1, SaysStep
<1>2. CASE Installer
  <2>1. UNCHANGED audit /\ calm' = FALSE
    BY <1>2 DEF Installer
  <2> QED BY <2>1, SaysStands
<1>3. CASE UNCHANGED <<envWorld, audit>>
  <2>1. UNCHANGED audit /\ env' = env /\ calm' = calm
    BY <1>3 DEF envWorld
  <2> QED BY <2>1, SaysStands
<1> QED BY <1>1, <1>2, <1>3, Zenon DEF Next, Rest, vars

LEMMA SaysInit == Init => AuditSays
<1> SUFFICES ASSUME Init PROVE AuditSays
  OBVIOUS
<1>1. AuditKnows
  BY KnowsInit
<1>2. audit = AuditOff \/ audit = AuditBegin
  BY Zenon DEF Init, ATreeTool, TheAuditor
<1> QED BY <1>1, <1>2, SaysFirst

LEMMA AuditQuiet == AuditSays => AuditQuietExact
<1> SUFFICES ASSUME AuditSays, audit.pc = "over", calm
             PROVE  /\ EnvClear => audit.outcome \notin {"partial", "invalid"}
                    /\ audit.outcome \in {"issues", "noIssues"} =>
                         EnvClear /\ (audit.outcome = "issues") = (EnvUnmet # {})
  BY DEF AuditQuietExact
<1>1. /\ audit.outcome \in {"partial", "invalid"} => ~EnvClear
      /\ audit.outcome \in {"issues", "noIssues"} =>
           EnvClear /\ (audit.outcome = "issues" <=> EnvUnmet # {})
  BY DEF AuditSays
<1>2. ASSUME audit.outcome = "issues" <=> EnvUnmet # {}
      PROVE  (audit.outcome = "issues") = (EnvUnmet # {})
  BY <1>2
<1> QED BY <1>1, <1>2

\* What a tool says of a tree, or of an environment, that nobody touches is exactly
\* what is there: what limits let through, refusals with their reasons, reserves
\* with their causes, and without a reserve issues exactly if a dependency is not
\* met (audit_agent_configs, _snapshot_authorized_sources,
\* private_repository_snapshot, PythonEnvironmentInspector.inspect).
THEOREM QuietReportsAreExact == Spec => []QuietExact
<1>1. TreesAreTold /\ AuditSays => QuietExact
  BY AuditQuiet DEF TreesAreTold, QuietExact
<1> QED BY <1>1, ReportsOnTreesAreExact, KnowsInit, KnowsNext, RecordsInit, RecordsNext,
           SaysInit, SaysNext, PTL DEF Spec
=============================================================================
