-------------------------- MODULE TreeToolsProofs ---------------------------
(***************************************************************************)
(* Theorems about the tools that walk directories, for every tree, limits  *)
(* and numbers of changes.                                                 *)
(***************************************************************************)
EXTENDS TreeTools, SumTheorems, SequenceTheorems

-----------------------------------------------------------------------------
(* Sequences *)

LEMMA EmptyRange ==
  /\ Range(<<>>) = {} /\ \A S : <<>> \in Seq(S)
  /\ \A S : \A s \in Seq(S) : (s = <<>> <=> Len(s) = 0) /\ Len(s) \in Nat /\ Range(s) \in SUBSET S
<1>1. Range(<<>>) = {} /\ \A S : <<>> \in Seq(S)
  BY DEF Range
<1>2. ASSUME NEW S, NEW s \in Seq(S)
      PROVE  (s = <<>> <=> Len(s) = 0) /\ Len(s) \in Nat /\ Range(s) \in SUBSET S
  BY EmptySeq, LenProperties, ElementOfSeq DEF Range
<1> QED BY <1>1, <1>2

LEMMA SeqOfSubset ==
  ASSUME NEW S, NEW T \in SUBSET S, NEW s \in Seq(T)
  PROVE  s \in Seq(S)
<1>1. Len(s) \in Nat /\ s \in [1..Len(s) -> S]
  BY LenProperties, ElementOfSeq
<1> QED BY <1>1

LEMMA HeadRange ==
  ASSUME NEW S, NEW s \in Seq(S), s # <<>>
  PROVE  /\ Head(s) \in S /\ Tail(s) \in Seq(S) /\ Len(s) = Len(Tail(s)) + 1
         /\ Range(s) = {Head(s)} \cup Range(Tail(s))
         /\ IsInjective(s) => IsInjective(Tail(s)) /\ Head(s) \notin Range(Tail(s))
<1>1. /\ Head(s) \in S /\ Tail(s) \in Seq(S) /\ Len(s) \in Nat \ {0}
      /\ Len(Tail(s)) = Len(s) - 1 /\ Head(s) = s[1]
      /\ \A i \in 1..Len(Tail(s)) : Tail(s)[i] = s[i + 1]
  BY HeadTailProperties, EmptySeq, LenProperties
<1>2. DOMAIN s = 1..Len(s) /\ DOMAIN Tail(s) = 1..(Len(s) - 1)
  BY <1>1, LenProperties
<1>3. Range(s) \subseteq {Head(s)} \cup Range(Tail(s))
  <2>1. ASSUME NEW i \in 1..Len(s) PROVE s[i] \in {Head(s)} \cup Range(Tail(s))
    <3>1. CASE i = 1
      BY <1>1, <3>1
    <3>2. CASE i # 1
      <4>1. i - 1 \in 1..(Len(s) - 1) /\ (i - 1) + 1 = i
        BY <1>1, <3>2
      <4>2. Tail(s)[i - 1] = s[i]
        BY <1>1, <4>1
      <4> QED BY <1>2, <4>1, <4>2 DEF Range
    <3> QED BY <3>1, <3>2
  <2> QED BY <1>2, <2>1 DEF Range
<1>4. {Head(s)} \cup Range(Tail(s)) \subseteq Range(s)
  <2>1. 1 \in DOMAIN s /\ \A i \in DOMAIN Tail(s) : i + 1 \in DOMAIN s /\ Tail(s)[i] = s[i + 1]
    BY <1>1, <1>2
  <2> QED BY <1>1, <2>1 DEF Range
<1>5. ASSUME IsInjective(s) PROVE IsInjective(Tail(s)) /\ Head(s) \notin Range(Tail(s))
  <2>1. \A i, j \in 1..Len(s) : s[i] = s[j] => i = j
    BY <1>2, <1>5 DEF IsInjective
  <2>2. \A i \in DOMAIN Tail(s) : /\ i + 1 \in 1..Len(s) /\ i \in Nat \ {0} /\ Tail(s)[i] = s[i + 1]
    BY <1>1, <1>2
  <2>3. IsInjective(Tail(s))
    <3>1. ASSUME NEW i \in DOMAIN Tail(s), NEW j \in DOMAIN Tail(s), Tail(s)[i] = Tail(s)[j]
          PROVE  i = j
      <4>1. i + 1 = j + 1
        BY <2>1, <2>2, <3>1
      <4> QED BY <2>2, <4>1
    <3> QED BY <3>1 DEF IsInjective
  <2>4. ASSUME NEW i \in DOMAIN Tail(s), Tail(s)[i] = Head(s) PROVE FALSE
    <3>1. 1 \in 1..Len(s) /\ i + 1 = 1
      BY <1>1, <2>1, <2>2, <2>4
    <3> QED BY <2>2, <3>1
  <2> QED BY <2>3, <2>4 DEF Range
<1>6. Len(s) = Len(Tail(s)) + 1
  BY <1>1
<1> QED BY <1>1, <1>3, <1>4, <1>5, <1>6

LEMMA SingletonRange ==
  ASSUME NEW S, NEW x \in S
  PROVE  <<x>> \in Seq(S) /\ Range(<<x>>) = {x} /\ <<x>> # <<>> /\ Len(<<x>>) = 1
<1>1. <<x>> \in Seq(S) /\ Len(<<x>>) = 1 /\ DOMAIN <<x>> = 1..1 /\ <<x>>[1] = x /\ 1..1 = {1}
  OBVIOUS
<1> HIDE DEF Range
<1>2. Range(<<x>>) = {x}
  BY <1>1 DEF Range
<1> QED BY <1>1, <1>2, EmptyRange

LEMMA ConcatRange ==
  ASSUME NEW S, NEW s \in Seq(S), NEW t \in Seq(S)
  PROVE  /\ s \o t \in Seq(S) /\ Range(s \o t) = Range(s) \cup Range(t)
         /\ Len(s \o t) = Len(s) + Len(t)
<1>1. Len(s) \in Nat /\ Len(t) \in Nat /\ DOMAIN s = 1..Len(s) /\ DOMAIN t = 1..Len(t)
  BY LenProperties
<1>2. /\ s \o t \in Seq(S) /\ DOMAIN (s \o t) = 1..(Len(s) + Len(t))
      /\ Len(s \o t) = Len(s) + Len(t)
      /\ \A i \in 1..(Len(s) + Len(t)) : (s \o t)[i] = IF i <= Len(s) THEN s[i] ELSE t[i - Len(s)]
  BY ConcatProperties, LenProperties
<1>3. ASSUME NEW i \in DOMAIN (s \o t) PROVE (s \o t)[i] \in Range(s) \cup Range(t)
  <2>1. CASE i <= Len(s)
    BY <1>1, <1>2, <2>1 DEF Range
  <2>2. CASE ~(i <= Len(s))
    <3>1. i - Len(s) \in DOMAIN t
      BY <1>1, <1>2, <2>2
    <3> QED BY <1>2, <2>2, <3>1 DEF Range
  <2> QED BY <2>1, <2>2
<1>4. ASSUME NEW i \in DOMAIN s PROVE s[i] \in Range(s \o t)
  <2>1. i \in 1..(Len(s) + Len(t)) /\ i <= Len(s)
    BY <1>1
  <2> QED BY <1>2, <2>1 DEF Range
<1>5. ASSUME NEW i \in DOMAIN t PROVE t[i] \in Range(s \o t)
  <2>1. i + Len(s) \in 1..(Len(s) + Len(t)) /\ ~(i + Len(s) <= Len(s)) /\ (i + Len(s)) - Len(s) = i
    BY <1>1
  <2> QED BY <1>2, <2>1 DEF Range
<1> QED BY <1>2, <1>3, <1>4, <1>5 DEF Range

LEMMA ConcatInjective ==
  ASSUME NEW S, NEW s \in Seq(S), NEW t \in Seq(S),
         IsInjective(s), IsInjective(t), Range(s) \cap Range(t) = {}
  PROVE  IsInjective(s \o t)
<1>1. Len(s) \in Nat /\ Len(t) \in Nat /\ DOMAIN s = 1..Len(s) /\ DOMAIN t = 1..Len(t)
  BY LenProperties
<1>2. /\ DOMAIN (s \o t) = 1..(Len(s) + Len(t))
      /\ \A i \in 1..(Len(s) + Len(t)) : (s \o t)[i] = IF i <= Len(s) THEN s[i] ELSE t[i - Len(s)]
  BY ConcatProperties, LenProperties
<1>3. \A i \in DOMAIN s : \A j \in DOMAIN t : s[i] # t[j]
  BY DEF Range
<1>4. ASSUME NEW i \in 1..(Len(s) + Len(t)), NEW j \in 1..(Len(s) + Len(t)),
             (s \o t)[i] = (s \o t)[j]
      PROVE  i = j
  <2>1. CASE i <= Len(s) /\ j <= Len(s)
    BY <1>1, <1>2, <1>4, <2>1 DEF IsInjective
  <2>2. CASE ~(i <= Len(s)) /\ ~(j <= Len(s))
    <3>1. i - Len(s) \in DOMAIN t /\ j - Len(s) \in DOMAIN t
      BY <1>1, <2>2
    <3>2. i - Len(s) = j - Len(s)
      BY <1>2, <1>4, <2>2, <3>1 DEF IsInjective
    <3> QED BY <1>1, <3>2
  <2>3. CASE i <= Len(s) /\ ~(j <= Len(s))
    <3>1. i \in DOMAIN s /\ j - Len(s) \in DOMAIN t
      BY <1>1, <2>3
    <3> QED BY <1>2, <1>3, <1>4, <2>3, <3>1
  <2>4. CASE ~(i <= Len(s)) /\ j <= Len(s)
    <3>1. j \in DOMAIN s /\ i - Len(s) \in DOMAIN t
      BY <1>1, <2>4
    <3> QED BY <1>2, <1>3, <1>4, <2>4, <3>1
  <2> QED BY <2>1, <2>2, <2>3, <2>4
<1> QED BY <1>2, <1>4 DEF IsInjective

LEMMA AppendRange ==
  ASSUME NEW S, NEW s \in Seq(S), NEW x \in S
  PROVE  /\ Append(s, x) \in Seq(S) /\ Range(Append(s, x)) = Range(s) \cup {x}
         /\ Len(Append(s, x)) = Len(s) + 1
<1>1. Len(s) \in Nat /\ DOMAIN s = 1..Len(s)
  BY LenProperties
<1>2. /\ Append(s, x) \in Seq(S) /\ Len(Append(s, x)) = Len(s) + 1
      /\ DOMAIN Append(s, x) = 1..(Len(s) + 1)
      /\ \A i \in 1..Len(s) : Append(s, x)[i] = s[i]
      /\ Append(s, x)[Len(s) + 1] = x
  BY AppendProperties, LenProperties
<1>3. 1..(Len(s) + 1) = (1..Len(s)) \cup {Len(s) + 1}
  BY <1>1
<1> QED BY <1>1, <1>2, <1>3 DEF Range

LEMMA BeginningRange ==
  ASSUME NEW S, NEW s \in Seq(S), NEW n \in 0..Len(s)
  PROVE  /\ SubSeq(s, 1, n) \in Seq(S) /\ Len(SubSeq(s, 1, n)) = n
         /\ Range(SubSeq(s, 1, n)) \subseteq Range(s)
         /\ IsInjective(s) => IsInjective(SubSeq(s, 1, n))
         /\ n = Len(s) => SubSeq(s, 1, n) = s
<1>1. Len(s) \in Nat /\ DOMAIN s = 1..Len(s) /\ \A i \in 1..n : s[i] \in S
  BY ElementOfSeq, LenProperties
<1>2. /\ SubSeq(s, 1, n) \in Seq(S)
      /\ Len(SubSeq(s, 1, n)) = IF 1 <= n THEN n - 1 + 1 ELSE 0
      /\ \A j \in 1..(n - 1 + 1) : SubSeq(s, 1, n)[j] = s[1 + j - 1]
  BY <1>1, SubSeqProperties, 1 \in Int, n \in Int
<1> DEFINE b == SubSeq(s, 1, n)
<1>3. b \in Seq(S) /\ Len(b) = n /\ \A j \in 1..n : b[j] = s[j]
  BY <1>1, <1>2
<1>4. n = Len(s) => b = s
  BY SubSeqFull
<1> HIDE DEF b
<1>5. DOMAIN b = 1..n /\ 1..n \subseteq DOMAIN s
  BY <1>1, <1>3, LenProperties
<1>6. Range(b) \subseteq Range(s) /\ (IsInjective(s) => IsInjective(b))
  BY <1>3, <1>5 DEF Range, IsInjective
<1> QED BY <1>3, <1>4, <1>6 DEF b

\* The smaller of two numbers.
LEMMA Smaller ==
  ASSUME NEW a \in Int, NEW b \in Int
  PROVE  /\ Min({a, b}) \in Int /\ Min({a, b}) = IF a <= b THEN a ELSE b
<1>1. Min({a, b}) = CHOOSE x \in {a, b} : \A y \in {a, b} : x <= y
  BY DEF Min
<1>2. LET m == IF a <= b THEN a ELSE b IN
      /\ m \in {a, b} /\ \A y \in {a, b} : m <= y
      /\ \A x \in {a, b} : (\A y \in {a, b} : x <= y) => x = m
  OBVIOUS
<1> QED BY <1>1, <1>2

-----------------------------------------------------------------------------
(* Paths *)

Nodes == Paths \cup {Top}

\* The directories above a path, the approved one included.
Over(p) == Above(p) \cup {Top}

LEMMA PathsAreNames == Paths \subseteq Seq(STRING)
BY OrderAssumption DEF Paths, Range

\* The first names of a path, as many as i.
Part(p, i) == SubSeq(p, 1, i)

LEMMA Parts ==
  ASSUME NEW p \in Seq(STRING)
  PROVE  /\ Len(p) \in Nat /\ (p # Top => Len(p) > 0)
         /\ Upto(p) = {Part(p, i) : i \in 1..Len(p)}
         /\ \A i \in 0..Len(p) : Part(p, i) \in Seq(STRING) /\ Len(Part(p, i)) = i
         /\ Part(p, 0) = Top /\ Part(p, Len(p)) = p
         /\ \A i \in 0..Len(p) : \A j \in 0..i : Part(Part(p, i), j) = Part(p, j)
         /\ p # Top => Front(p) = Part(p, Len(p) - 1)
<1>1. Len(p) \in Nat /\ (p # Top => Len(p) > 0)
  BY EmptySeq, LenProperties DEF Top
<1>2. Upto(p) = {Part(p, i) : i \in 1..Len(p)}
  BY DEF Upto, Part
<1>3. ASSUME NEW i \in 0..Len(p)
      PROVE  Part(p, i) \in Seq(STRING) /\ Len(Part(p, i)) = i
  <2>1. \A j \in 1..i : p[j] \in STRING
    BY <1>1, ElementOfSeq, LenProperties
  <2>2. /\ SubSeq(p, 1, i) \in Seq(STRING)
        /\ Len(SubSeq(p, 1, i)) = IF 1 <= i THEN i - 1 + 1 ELSE 0
    BY <2>1, SubSeqProperties, 1 \in Int, i \in Int
  <2> QED BY <1>1, <2>2 DEF Part
<1>4. Part(p, 0) = Top
  BY SubSeqEmpty DEF Part, Top
<1>5. Part(p, Len(p)) = p
  BY SubSeqFull DEF Part
<1>6. ASSUME NEW i \in 0..Len(p), NEW j \in 0..i
      PROVE  Part(Part(p, i), j) = Part(p, j)
  <2>1. CASE j = 0
    BY <2>1, SubSeqEmpty DEF Part
  <2>2. CASE j > 0
    <3>1. SubSeq(SubSeq(p, 1, i), 1, j) = SubSeq(p, 1 + 1 - 1, 1 + j - 1)
      <4>1. /\ 1 \in 1..Len(p) /\ i \in 1..Len(p)
            /\ 1 \in 1..(i - 1 + 1) /\ j \in 1..(i - 1 + 1)
        BY <1>1, <2>2
      <4> QED BY <4>1, SubSeqOfSubSeq
    <3>2. 1 + 1 - 1 = 1 /\ 1 + j - 1 = j
      OBVIOUS
    <3> QED BY <3>1, <3>2 DEF Part
  <2> QED BY <2>1, <2>2
<1>7. p # Top => Front(p) = Part(p, Len(p) - 1)
  BY DEF Front, Part
<1> QED BY <1>1, <1>2, <1>3, <1>4, <1>5, <1>6, <1>7

\* A path begins with what is above it, and Front is the directory it is in.
LEMMA PathFacts ==
  ASSUME NEW p \in Paths
  PROVE  /\ p \in Seq(STRING) /\ p # Top /\ Len(p) \in Nat \ {0}
         /\ p \in Upto(p) /\ Upto(p) \subseteq Paths
         /\ Front(p) \in Nodes /\ Len(p) = Len(Front(p)) + 1
         /\ Upto(Front(p)) = Above(p) /\ p \in Children(Front(p))
<1>1. p \in Seq(STRING) /\ p # Top /\ Upto(p) \subseteq Paths
  BY PathsAreNames, OrderAssumption
<1>2. Len(p) \in Nat \ {0}
  BY <1>1, Parts
<1>3. p \in Upto(p)
  <2>1. Len(p) \in 1..Len(p)
    BY <1>2
  <2> QED BY <1>1, <2>1, Parts
<1>4. Front(p) = Part(p, Len(p) - 1) /\ Len(Front(p)) = Len(p) - 1 /\ Front(p) \in Seq(STRING)
  BY <1>1, <1>2, Parts
<1>5. Front(p) \in Nodes
  <2>1. CASE Len(p) = 1
    BY <1>1, <1>4, <2>1, Parts DEF Nodes
  <2>2. CASE Len(p) # 1
    <3>1. Len(p) - 1 \in 1..Len(p)
      BY <1>2, <2>2
    <3> QED BY <1>1, <1>4, <3>1, Parts DEF Nodes
  <2> QED BY <2>1, <2>2
<1>6. Upto(Front(p)) = {Part(p, i) : i \in 1..(Len(p) - 1)}
  <2>1. Upto(Front(p)) = {Part(Part(p, Len(p) - 1), i) : i \in 1..(Len(p) - 1)}
    BY <1>4, Parts
  <2>2. \A i \in 1..(Len(p) - 1) : Part(Part(p, Len(p) - 1), i) = Part(p, i)
    BY <1>1, <1>2, Parts
  <2> QED BY <2>1, <2>2
<1>7. Upto(p) = {Part(p, i) : i \in 1..(Len(p) - 1)} \cup {p}
  <2>1. Part(p, Len(p)) = p /\ Upto(p) = {Part(p, i) : i \in 1..Len(p)}
    BY <1>1, Parts
  <2>2. 1..Len(p) = (1..(Len(p) - 1)) \cup {Len(p)}
    BY <1>2
  <2> QED BY <2>1, <2>2
<1>8. p \notin {Part(p, i) : i \in 1..(Len(p) - 1)}
  <2>1. \A i \in 1..(Len(p) - 1) : Len(Part(p, i)) = i
    BY <1>1, <1>2, Parts
  <2> QED BY <1>2, <2>1
<1>9. Upto(Front(p)) = Above(p)
  BY <1>6, <1>7, <1>8 DEF Above
<1>10. Len(p) = Len(Front(p)) + 1
  BY <1>2, <1>4
<1>11. p \in Children(Front(p))
  BY DEF Children
<1> QED BY <1>1, <1>2, <1>3, <1>5, <1>9, <1>10, <1>11

LEMMA TopFacts == Top \notin Paths /\ Upto(Top) = {} /\ Above(Top) = {} /\ Len(Top) = 0 /\ Over(Top) = {Top}
BY OrderAssumption DEF Upto, Above, Top, Over

\* What is above something above a path is above it; and between a path and
\* something above it there is the next one on the way down.
LEMMA UptoFacts ==
  ASSUME NEW p \in Paths, NEW q \in Upto(p)
  PROVE  /\ q \in Paths /\ Upto(q) \subseteq Upto(p) /\ Over(q) \subseteq Over(p)
         /\ Len(q) <= Len(p) /\ (Len(q) = Len(p) => q = p)
         /\ q # p => q \in Upto(Front(p)) /\ q \in Above(p)
         /\ \A r \in Upto(p) : Len(q) <= Len(r) => q \in Upto(r)
<1>1. p \in Seq(STRING) /\ Len(p) \in Nat \ {0} /\ Upto(p) \subseteq Paths
  BY PathFacts
<1>2. PICK i \in 1..Len(p) : q = Part(p, i)
  BY <1>1, Parts
<1>3. q \in Seq(STRING) /\ Len(q) = i /\ i \in 0..Len(p)
  BY <1>1, <1>2, Parts
<1>4. Upto(q) = {Part(p, j) : j \in 1..i}
  <2>1. Upto(q) = {Part(Part(p, i), j) : j \in 1..i}
    BY <1>2, <1>3, Parts
  <2>2. \A j \in 1..i : Part(Part(p, i), j) = Part(p, j)
    BY <1>1, <1>3, Parts
  <2> QED BY <2>1, <2>2
<1>5. Upto(p) = {Part(p, j) : j \in 1..Len(p)} /\ Part(p, Len(p)) = p
  BY <1>1, Parts
<1>6. Upto(q) \subseteq Upto(p)
  BY <1>1, <1>4, <1>5
<1>7. Len(q) <= Len(p) /\ (Len(q) = Len(p) => q = p)
  BY <1>1, <1>2, <1>3, <1>5
<1>8. q # p => q \in Upto(Front(p)) /\ q \in Above(p)
  BY PathFacts DEF Above
<1>9. ASSUME NEW r \in Upto(p), Len(q) <= Len(r) PROVE q \in Upto(r)
  <2>1. PICK j \in 1..Len(p) : r = Part(p, j)
    BY <1>5
  <2>2. r \in Seq(STRING) /\ Len(r) = j /\ i \in 1..j /\ i \in 0..j /\ j \in 0..Len(p)
    BY <1>1, <1>3, <1>9, <2>1, Parts
  <2>3. Part(r, i) = q
    BY <1>1, <1>2, <2>1, <2>2, Parts
  <2>4. Upto(r) = {Part(r, k) : k \in 1..j}
    BY <2>2, Parts
  <2> QED BY <2>2, <2>3, <2>4
<1>10. Over(q) \subseteq Over(p)
  <2>1. ASSUME NEW r \in Above(q), r = p PROVE FALSE
    <3>1. PICK j \in 1..i : r = Part(p, j)
      BY <1>4, <2>1 DEF Above
    <3>2. j \in Nat /\ j <= i /\ j \in 0..Len(p)
      BY <1>1, <1>2, <3>1
    <3>3. Len(r) = j
      BY <1>1, <3>1, <3>2, Parts
    <3>4. i = j
      BY <1>1, <1>2, <2>1, <3>2, <3>3
    <3> QED BY <1>2, <2>1, <3>1, <3>4 DEF Above
  <2> QED BY <1>6, <2>1 DEF Above, Over
<1> QED BY <1>1, <1>6, <1>7, <1>8, <1>9, <1>10

LEMMA NextDown ==
  ASSUME NEW p \in Paths, NEW e \in Over(p)
  PROVE  \E q \in Upto(p) : q \in Children(e)
<1>1. p \in Seq(STRING) /\ Len(p) \in Nat \ {0} /\ Upto(p) \subseteq Paths
  BY PathFacts
<1>2. PICK i \in 0..(Len(p) - 1) : e = Part(p, i)
  <2>1. CASE e = Top
    BY <1>1, <2>1, Parts
  <2>2. CASE e \in Above(p)
    <3>1. PICK i \in 1..Len(p) : e = Part(p, i)
      BY <1>1, <2>2, Parts DEF Above
    <3>2. i # Len(p)
      BY <1>1, <2>2, <3>1, Parts DEF Above
    <3> QED BY <1>1, <3>1, <3>2
  <2> QED BY <2>1, <2>2 DEF Over
<1> DEFINE q == Part(p, i + 1)
<1>3. i + 1 \in 1..Len(p) /\ i + 1 \in 0..Len(p) /\ i \in 0..(i + 1)
  BY <1>1
<1>4. q \in Upto(p) /\ q \in Seq(STRING) /\ Len(q) = i + 1
  BY <1>1, <1>3, Parts
<1>5. q \in Paths /\ q # Top
  BY <1>1, <1>4, OrderAssumption
<1>6. Front(q) = Part(q, i)
  BY <1>3, <1>4, <1>5, Parts
<1>7. Part(q, i) = e
  BY <1>1, <1>2, <1>3, Parts
<1> QED BY <1>4, <1>5, <1>6, <1>7 DEF Children

LEMMA PrefixIsAbove ==
  ASSUME NEW p \in Paths, NEW d \in Nodes, IsPrefix(d, p), d # p
  PROVE  d \in Over(p) /\ (d \in Paths => d \in Above(p))
<1>1. p \in Seq(STRING) /\ Len(p) \in Nat \ {0}
  BY PathFacts
<1>2. d \in Seq(STRING) /\ Len(d) \in Nat /\ (d # Top => Len(d) > 0)
  BY PathFacts, Parts, EmptyRange DEF Nodes, Top
<1>3. Len(d) <= Len(p) /\ Part(d, Len(d)) = Part(p, Len(d))
  BY DEF IsPrefix, Part
<1>4. d = Part(p, Len(d))
  BY <1>2, <1>3, Parts
<1>5. CASE d = Top
  BY <1>5, TopFacts DEF Over
<1>6. CASE d # Top
  <2>1. Len(d) \in 1..Len(p)
    BY <1>1, <1>2, <1>3, <1>6
  <2>2. d \in Upto(p)
    BY <1>1, <1>4, <2>1, Parts
  <2> QED BY <2>2 DEF Above, Over
<1> QED BY <1>5, <1>6

LEMMA LenOfNode ==
  ASSUME NEW d \in Nodes
  PROVE  Len(d) \in Nat /\ d \in Seq(STRING)
<1>1. CASE d \in Paths
  BY <1>1, PathFacts
<1>2. CASE d = <<>>
  BY <1>2, EmptyRange
<1> QED BY <1>1, <1>2 DEF Nodes, Top

LEMMA OverFacts ==
  ASSUME NEW p \in Paths, NEW d \in Over(p)
  PROVE  d \in Nodes /\ Over(d) \subseteq Over(p) /\ Len(d) < Len(p) /\ d # p
<1>1. CASE d = Top
  BY <1>1, TopFacts, PathFacts DEF Nodes, Over
<1>2. CASE d # Top
  <2>1. d \in Upto(p) /\ d # p
    BY <1>2 DEF Over, Above
  <2>2. Len(d) # Len(p) /\ Len(d) <= Len(p) /\ Over(d) \subseteq Over(p) /\ d \in Paths
    BY <2>1, UptoFacts
  <2>3. Len(d) \in Nat /\ Len(p) \in Nat
    BY <2>2, PathFacts
  <2> QED BY <2>1, <2>2, <2>3 DEF Nodes
<1> QED BY <1>1, <1>2

LEMMA ChildFacts ==
  ASSUME NEW d \in Nodes, NEW q \in Children(d)
  PROVE  q \in Paths /\ Over(q) = Over(d) \cup {d} /\ d \in Over(q) /\ Front(q) = d
<1>1. q \in Paths /\ Front(q) = d
  BY DEF Children
<1>2. Upto(d) = Above(q)
  BY <1>1, PathFacts
<1>3. CASE d = Top
  BY <1>1, <1>2, <1>3, TopFacts DEF Over
<1>4. CASE d \in Paths
  BY <1>1, <1>2, <1>4, PathFacts DEF Over, Above
<1> QED BY <1>1, <1>3, <1>4 DEF Nodes

\* Where no directory to be walked is below another one, those of one of them are
\* not below another one either, and not above what none of them is above.
LEMMA GoingDown ==
  ASSUME NEW A \in SUBSET Nodes, \A d, e \in A : d # e => d \notin Over(e),
         NEW d \in A, NEW N \in SUBSET Children(d)
  PROVE  /\ N \subseteq Paths
         /\ \A q \in N : \A e \in A \ {d} : e \notin Over(q) /\ q \notin Over(e) /\ q # e
         /\ \A q, r \in N : q \notin Over(r)
         /\ \A q \in N : \A p \in Paths : d \notin Over(p) => q \notin Over(p) /\ q # p
<1>1. ASSUME NEW q \in N PROVE q \in Paths /\ Over(q) = Over(d) \cup {d} /\ d \in Over(q)
  BY ChildFacts
<1>2. ASSUME NEW q \in N, NEW e \in A \ {d} PROVE e \notin Over(q) /\ q \notin Over(e) /\ q # e
  <2>1. e \notin Over(q)
    BY <1>1
  <2>2. ASSUME q \in Over(e) \/ q = e PROVE FALSE
    <3>1. d \notin Over(e)
      OBVIOUS
    <3>2. CASE e = Top
      BY <1>1, <2>2, <3>2, TopFacts
    <3>3. CASE e \in Paths
      <4>1. Over(q) \subseteq Over(e)
        BY <2>2, <3>3, OverFacts
      <4> QED BY <1>1, <3>1, <4>1
    <3> QED BY <3>2, <3>3 DEF Nodes
  <2> QED BY <2>1, <2>2
<1>3. ASSUME NEW q \in N, NEW r \in N, q \in Over(r) PROVE FALSE
  <2>1. q \in Over(d) \cup {d} /\ q \in Paths /\ d \in Over(q)
    BY <1>1, <1>3
  <2>2. Len(d) < Len(q) /\ Len(d) \in Nat /\ Len(q) \in Nat
    BY <2>1, OverFacts, LenOfNode, PathFacts
  <2>3. CASE d = Top
    BY <2>1, <2>3, TopFacts
  <2>4. CASE d \in Paths
    <3>1. q = d \/ Len(q) < Len(d)
      BY <2>1, <2>4, OverFacts
    <3> QED BY <2>2, <3>1
  <2> QED BY <2>3, <2>4 DEF Nodes
<1>4. ASSUME NEW q \in N, NEW p \in Paths, d \notin Over(p) PROVE q \notin Over(p) /\ q # p
  <2>1. q \in Over(p) => Over(q) \subseteq Over(p)
    BY OverFacts
  <2> QED BY <1>1, <1>4, <2>1
<1> QED BY <1>1, <1>2, <1>3, <1>4

-----------------------------------------------------------------------------
(* Sorted *)

LEMMA PathsAreFinite == IsFiniteSet(Paths) /\ \A ps \in SUBSET Paths : IsFiniteSet(ps)
<1>1. Order \in Seq(Seq(STRING)) /\ DOMAIN Order = 1..Len(Order) /\ Len(Order) \in Nat
  BY OrderAssumption, LenProperties
<1>2. Order \in Surjection(1..Len(Order), Paths)
  BY <1>1, LenProperties DEF Surjection, Paths, Range
<1>3. IsFiniteSet(1..Len(Order))
  BY <1>1, FS_Interval, 1 \in Int, Len(Order) \in Int
<1>4. IsFiniteSet(Paths)
  BY <1>2, <1>3, FS_Surjection
<1> QED BY <1>4, FS_Subset

\* Each path has a place of its own.
LEMMA Places ==
  /\ \A p \in Paths : Place(p) \in Nat
  /\ \A p, q \in Paths : Place(p) = Place(q) => p = q
<1>1. DOMAIN Order = 1..Len(Order) /\ Len(Order) \in Nat
  BY OrderAssumption, LenProperties
<1>2. ASSUME NEW p \in Paths PROVE Place(p) \in DOMAIN Order /\ Order[Place(p)] = p
  <2>1. \E i \in DOMAIN Order : Order[i] = p
    BY DEF Paths, Range
  <2> QED BY <2>1 DEF Place
<1> QED BY <1>1, <1>2

\* Some paths, sorted, are these paths, each of them once.
LEMMA SortedFacts ==
  ASSUME NEW ps \in SUBSET Paths
  PROVE  /\ Sorted(ps) \in Seq(ps) /\ Len(Sorted(ps)) = Cardinality(ps)
         /\ Range(Sorted(ps)) = ps /\ IsInjective(Sorted(ps))
         /\ Cardinality(ps) \in Nat
<1> DEFINE n == Cardinality(ps)
           before(p) == {q \in ps : Place(q) < Place(p)}
           rank == [p \in ps |-> Rank(p, ps)]
<1>1. IsFiniteSet(ps) /\ n \in Nat
  BY PathsAreFinite, FS_CardinalityType
<1>2. ASSUME NEW p \in ps PROVE rank[p] = Cardinality(before(p)) /\ rank[p] \in 0..(n - 1)
  <2>1. rank[p] = Cardinality(before(p))
    BY DEF Rank
  <2>2. before(p) \in SUBSET (ps \ {p})
    BY Places
  <2>3. IsFiniteSet(ps \ {p}) /\ Cardinality(ps \ {p}) = n - 1
    BY <1>1, FS_RemoveElement
  <2>4. IsFiniteSet(before(p)) /\ Cardinality(before(p)) <= n - 1
    BY <2>2, <2>3, FS_Subset
  <2>5. Cardinality(before(p)) \in Nat
    BY <2>4, FS_CardinalityType
  <2> QED BY <1>1, <2>1, <2>4, <2>5
<1>3. ASSUME NEW p \in ps, NEW q \in ps, Place(p) < Place(q) PROVE rank[p] < rank[q]
  <2>1. Place(p) \in Nat /\ Place(q) \in Nat /\ \A r \in ps : Place(r) \in Nat
    BY Places
  <2>2. before(p) \in SUBSET (before(q) \ {p}) /\ p \in before(q)
    BY <1>3, <2>1
  <2>3. before(q) \in SUBSET ps
    OBVIOUS
  <2>4. IsFiniteSet(before(q))
    BY <1>1, <2>3, FS_Subset
  <2>5. /\ IsFiniteSet(before(q) \ {p})
        /\ Cardinality(before(q) \ {p}) = Cardinality(before(q)) - 1
    BY <2>2, <2>4, FS_RemoveElement
  <2>6. Cardinality(before(p)) <= Cardinality(before(q)) - 1
    BY <2>2, <2>5, FS_Subset
  <2> HIDE DEF before, rank
  <2> QED BY <1>1, <1>2, <2>6
<1>4. ASSUME NEW p \in ps, NEW q \in ps, rank[p] = rank[q] PROVE p = q
  <2>1. Place(p) \in Nat /\ Place(q) \in Nat
    BY Places
  <2>2. rank[p] \in Int /\ rank[q] \in Int
    <3>1. rank[p] \in 0..(n - 1) /\ rank[q] \in 0..(n - 1)
      BY <1>2
    <3> HIDE DEF rank, n
    <3> QED BY <1>1, <3>1
  <2>3. ~(Place(p) < Place(q)) /\ ~(Place(q) < Place(p))
    <3> HIDE DEF rank
    <3> QED BY <1>3, <1>4, <2>2
  <2> QED BY <2>1, <2>3, Places
<1>5. rank \in Injection(ps, 0..(n - 1))
  <2>1. rank \in [ps -> 0..(n - 1)]
    BY <1>2
  <2> HIDE DEF rank
  <2> QED BY <1>4, <2>1 DEF Injection, IsInjective
<1>6. IsFiniteSet(0..(n - 1)) /\ Cardinality(0..(n - 1)) = n
  <2>1. 0 \in Int /\ n - 1 \in Int
    BY <1>1
  <2>2. /\ IsFiniteSet(0..(n - 1))
        /\ Cardinality(0..(n - 1)) = IF 0 > n - 1 THEN 0 ELSE (n - 1) - 0 + 1
    BY <2>1, FS_Interval
  <2> QED BY <1>1, <2>2
<1>7. rank \in Surjection(ps, 0..(n - 1))
  <2> HIDE DEF rank
  <2> QED BY <1>5, <1>6, FS_Injection
<1>8. \A i \in 1..n : \E p \in ps : Rank(p, ps) = i - 1
  <2>1. \A i \in 1..n : i - 1 \in 0..(n - 1)
    BY <1>1
  <2>2. \A k \in 0..(n - 1) : \E p \in ps : rank[p] = k
    <3> HIDE DEF rank
    <3> QED BY <1>7 DEF Surjection, Range
  <2> QED BY <2>1, <2>2
<1> DEFINE s == Sorted(ps)
<1>9. s = [i \in 1..n |-> s[i]] /\ \A i \in 1..n : s[i] \in ps /\ rank[s[i]] = i - 1
  <2>1. s = [i \in 1..n |-> CHOOSE p \in ps : Rank(p, ps) = i - 1]
    BY DEF Sorted
  <2>2. \A i \in 1..n : s[i] = CHOOSE p \in ps : Rank(p, ps) = i - 1
    BY <2>1
  <2>3. \A i \in 1..n : s[i] \in ps /\ Rank(s[i], ps) = i - 1
    BY <1>8, <2>2
  <2> HIDE DEF s
  <2> QED BY <2>1, <2>2, <2>3
<1> HIDE DEF s, rank, n
<1>10. s \in [1..n -> ps]
  BY <1>9
<1>11. s \in Seq(ps) /\ Len(s) = n
  BY <1>1, <1>10, IsASeq, LenProperties
<1>12. DOMAIN s = 1..n
  BY <1>10
<1>13. ASSUME NEW p \in ps PROVE p \in Range(s)
  <2>1. rank[p] + 1 \in 1..n /\ rank[p] \in Int
    <3>1. rank[p] \in 0..(n - 1)
      BY <1>2
    <3> QED BY <1>1, <3>1
  <2>2. rank[s[rank[p] + 1]] = rank[p]
    BY <1>9, <2>1
  <2>3. s[rank[p] + 1] = p
    BY <1>4, <1>9, <2>1, <2>2
  <2> QED BY <1>12, <2>1, <2>3 DEF Range
<1>14. IsInjective(s)
  BY <1>9, <1>12 DEF IsInjective
<1>15. Range(s) = ps
  BY <1>9, <1>12, <1>13 DEF Range
<1> QED BY <1>1, <1>11, <1>14, <1>15 DEF s, n

-----------------------------------------------------------------------------
(* The tree, and those who change it *)

WorldOK ==
  /\ tree \in [Paths -> Entries] /\ plan \in Plans
  /\ changes \in 0..plan.changes /\ touched \subseteq Nodes

\* All that a step can do to the tree, and what it leaves behind.
Moves ==
  /\ \A p \in Paths : tree'[p] # tree[p] => p \in touched'
  /\ touched \subseteq touched' /\ plan' = plan

LEMMA WorldInitOK == WorldInit => WorldOK
BY PlansAssumption DEF WorldInit, WorldOK

LEMMA FaultMoves ==
  ASSUME WorldOK, NEW p \in Nodes, Fault(p)
  PROVE  WorldOK' /\ Moves
BY PlansAssumption DEF WorldOK, Fault, Disturb, Moves

LEMMA OthersMove ==
  ASSUME WorldOK, Others
  PROVE  WorldOK' /\ Moves
<1>1. PICK p \in Paths : \E e \in plan.to[p] : Disturb(p) /\ tree' = [tree EXCEPT ![p] = e]
  BY DEF Others
<1>3. PICK e \in plan.to[p] : Disturb(p) /\ tree' = [tree EXCEPT ![p] = e]
  BY <1>1
<1>2. e \in Entries
  BY PlansAssumption DEF WorldOK
<1> QED BY <1>2, <1>3, PlansAssumption DEF WorldOK, Disturb, Moves, Nodes

LEMMA StandingMoves ==
  ASSUME WorldOK, UNCHANGED world
  PROVE  WorldOK' /\ Moves
BY DEF WorldOK, world, Moves

\* What is untouched after a step was so before, and is as it was.
LEMMA Still ==
  ASSUME Moves, NEW p \in Nodes, Untouched(p)'
  PROVE  /\ Untouched(p) /\ Anchored(p) = Anchored(p)'
         /\ \A q \in Upto(p) \cup {p} : Kind(q)' = Kind(q) /\ Untouched(q) /\ Untouched(q)'
         /\ p \in Paths => tree'[p] = tree[p] /\ Anchored(Front(p)) = Anchored(Front(p))'
<1>1. Upto(p) \subseteq Paths /\ (p \in Paths => p \in Upto(p))
  BY PathFacts, TopFacts DEF Nodes
<1>2. touched' \cap (Upto(p) \cup {Top}) = {} /\ touched \cap (Upto(p) \cup {Top}) = {}
  BY DEF Untouched, Moves
<1>3. \A q \in Upto(p) : tree'[q] = tree[q]
  BY <1>1, <1>2 DEF Moves
<1>4. \A q \in Upto(p) \cup {p} : Kind(q)' = Kind(q)
  BY <1>1, <1>3, TopFacts DEF Kind, Nodes
<1>5. \A q \in Upto(p) \cup {p} : Upto(q) \subseteq Upto(p)
  <2>1. CASE p \in Paths
    BY <2>1, UptoFacts
  <2>2. CASE p = Top
    BY <2>2, TopFacts
  <2> QED BY <2>1, <2>2 DEF Nodes
<1>6. \A q \in Upto(p) \cup {p} : Untouched(q) /\ Untouched(q)'
  BY <1>2, <1>5 DEF Untouched
<1>7. Anchored(p) = Anchored(p)'
  BY <1>4 DEF Anchored
<1>8. ASSUME p \in Paths PROVE Anchored(Front(p)) = Anchored(Front(p))'
  <2>1. Upto(Front(p)) \subseteq Upto(p)
    BY <1>8, PathFacts DEF Above
  <2> QED BY <1>4, <2>1 DEF Anchored
<1> QED BY <1>1, <1>2, <1>3, <1>4, <1>6, <1>7, <1>8 DEF Untouched

\* In a directory that can be reached, all that is above is a directory.
LEMMA AnchoredAbove ==
  ASSUME NEW p \in Paths, Anchored(Front(p))
  PROVE  /\ \A q \in Above(p) : Kind(q) = "dir"
         /\ \A e \in Over(p) : Kind(e) = "dir" /\ Look(e) = "dir" /\ Anchored(e)
         /\ Look(p) = Kind(p)
         /\ \A q \in Upto(p) : Anchored(Front(q))
<1>1. \A q \in Above(p) : Kind(q) = "dir"
  BY PathFacts DEF Anchored
<1>2. Look(p) = Kind(p)
  BY <1>1 DEF Look
<1>3. ASSUME NEW e \in Over(p)
      PROVE  Kind(e) = "dir" /\ Look(e) = "dir" /\ Anchored(e)
  <2>1. CASE e = Top
    BY <2>1, TopFacts DEF Kind, Look, Anchored
  <2>2. CASE e \in Above(p)
    <3>1. e \in Upto(p) /\ Over(e) \subseteq Over(p)
      BY <2>2, UptoFacts DEF Above
    <3>2. Above(e) \subseteq Above(p)
      <4>1. \A q \in Above(e) : q \in Paths
        BY <3>1, UptoFacts, PathFacts DEF Above
      <4> QED BY <3>1, <4>1, TopFacts DEF Over
    <3>3. Kind(e) = "dir" /\ \A q \in Above(e) : Kind(q) = "dir"
      BY <1>1, <2>2, <3>2
    <3> QED BY <3>3 DEF Look, Anchored, Above
  <2> QED BY <1>3, <2>1, <2>2 DEF Over
<1>4. ASSUME NEW q \in Upto(p) PROVE Anchored(Front(q))
  <2>1. q \in Paths /\ Over(q) \subseteq Over(p) /\ Upto(Front(q)) = Above(q)
    BY UptoFacts, PathFacts
  <2>2. Front(q) \in Over(q)
    BY <2>1, PathFacts DEF Nodes, Over
  <2> QED BY <1>3, <2>1, <2>2
<1> QED BY <1>1, <1>2, <1>3, <1>4

-----------------------------------------------------------------------------
(* The agent auditor *)

AgentWalk == {"list", "names", "enter"}

AgentType ==
  [pc: AgentPCs \ {"off"}, request: AgentRequests,
   outcome: {"none", "report", "denied", "notFound", "outputLimit"},
   size: Nat, directories: Seq(Nodes), names: Seq(Paths), opened: Seq(Nodes),
   regular: SUBSET Paths, links: SUBSET Paths, candidates: Seq(Paths),
   discovered: Nat, withheld: Nat, truncated: BOOLEAN, total: Nat, scanned: SUBSET Paths,
   findings: Nat, more: BOOLEAN]

\* Where the audit is: what it asks for is in the tree once the policy has let
\* it pass, a file is read only if one was asked for, the walk goes no higher
\* than the target, and a directory to be entered was one when it was looked at.
AgentPlace ==
  /\ scan.pc \notin {"policy", "over"} => scan.request.target \in Nodes
  /\ scan.pc = "readTarget" => scan.request.target \in Paths
  /\ scan.pc = "list" => scan.directories # <<>>
  /\ scan.pc \in {"list", "names", "enter"} =>
       \A e \in Range(scan.directories) : Len(scan.request.target) <= Len(e)
  /\ scan.pc \in {"names", "enter"} =>
       /\ \A e \in Range(scan.opened) : Len(scan.request.target) <= Len(e)
       /\ \A q \in Range(scan.names) : Len(scan.request.target) < Len(q)
  /\ scan.pc = "enter" =>
       /\ scan.names # <<>>
       /\ Untouched(Head(scan.names)) => Kind(Head(scan.names)) \in {"dir", "locked"}

\* Nothing is counted before the files are chosen; then they are tried one by
\* one, each of them once.
AgentCounts ==
  /\ scan.pc \notin {"read", "over"} =>
       scan.discovered = 0 /\ scan.total = 0 /\ scan.scanned = {} /\ scan.candidates = <<>>
  /\ scan.discovered <= Cardinality(scan.scanned) + scan.withheld + Len(scan.candidates)
  /\ scan.total <= MaxTotalBytes
  /\ Cardinality(scan.scanned) + Len(scan.candidates) <= scan.request.maxFiles
  /\ IsInjective(scan.candidates) /\ Range(scan.candidates) \cap scan.scanned = {}

\* A file that should be scanned is still on the way of the walk, or was found.
AgentAhead(p) ==
  \/ p \in scan.regular
  \/ \E e \in Range(scan.directories) : e \in Over(p)
  \/ scan.pc # "list" /\ \E e \in Range(scan.opened) : e \in Over(p)
  \/ scan.pc # "list" /\ \E q \in Range(scan.names) : q \in Upto(p)

AgentCovers ==
  \A p \in AgentTargets \ {scan.request.target} :
    /\ scan.pc \in AgentWalk => AgentAhead(p)
    /\ scan.pc = "choose" => p \in scan.regular
    /\ scan.pc = "read" => p \in scan.scanned \cup Range(scan.candidates) \/ scan.truncated
    /\ AgentReported => p \in scan.scanned \/ scan.truncated

AgentInv ==
  scan = AgentOff \/ (scan \in AgentType /\ AgentPlace /\ AgentCounts /\ AgentCovers)

\* A file that should be scanned after a step should have been so before, and
\* what is above it has not changed.
LEMMA AgentTargetStill ==
  ASSUME Moves, scan \in AgentType, scan' \in AgentType, scan'.request = scan.request,
         NEW p \in AgentTargets'
  PROVE  /\ p \in AgentTargets
         /\ p \in Paths /\ Untouched(p) /\ Untouched(p)'
         /\ \A q \in Upto(p) : Kind(q)' = Kind(q)
<1>1. p \in Wanted /\ p \in Paths /\ Untouched(p)'
  BY AgentAssumption DEF AgentTargets
<1>2. /\ Untouched(p) /\ \A q \in Upto(p) : Kind(q)' = Kind(q)
      /\ Anchored(Front(p)) = Anchored(Front(p))' /\ p \in Upto(p)
  BY <1>1, Still, PathFacts DEF Nodes
<1>3. p \in AgentTargets
  BY <1>1, <1>2 DEF AgentTargets
<1> QED BY <1>1, <1>2, <1>3

\* The others do not disturb what the audit relies on.
LEMMA AgentStands ==
  ASSUME WorldOK, Moves, AgentInv, UNCHANGED scan
  PROVE  AgentInv'
<1>1. CASE scan = AgentOff
  BY <1>1 DEF AgentInv, AgentOff
<1>2. CASE scan \in AgentType /\ AgentPlace /\ AgentCounts /\ AgentCovers
  <2>1. AgentPlace'
    <3>1. ASSUME scan.pc = "enter", Untouched(Head(scan.names))'
          PROVE  Kind(Head(scan.names))' \in {"dir", "locked"}
      <4>1. Head(scan.names) \in Nodes
        BY <1>2, <3>1, HeadRange DEF AgentPlace, AgentType, Nodes
      <4>2. Untouched(Head(scan.names)) /\ Kind(Head(scan.names))' = Kind(Head(scan.names))
        BY <3>1, <4>1, Still
      <4> QED BY <1>2, <3>1, <4>2 DEF AgentPlace
    <3> QED BY <1>2, <3>1 DEF AgentPlace
  <2>2. AgentCounts'
    BY <1>2 DEF AgentCounts
  <2>3. AgentCovers'
    <3>1. \A p \in AgentTargets' : p \in AgentTargets
      BY <1>2, AgentTargetStill
    <3>2. \A p : AgentAhead(p)' = AgentAhead(p)
      BY DEF AgentAhead
    <3>3. AgentReported' = AgentReported
      BY DEF AgentReported
    <3> QED BY <1>2, <3>1, <3>2, <3>3 DEF AgentCovers
  <2> QED BY <1>2, <2>1, <2>2, <2>3 DEF AgentInv
<1> QED BY <1>1, <1>2 DEF AgentInv

LEMMA AgentSteps ==
  ASSUME AgentInv, scan.pc # "off"
  PROVE  scan \in AgentType /\ AgentPlace /\ AgentCounts /\ AgentCovers
BY DEF AgentInv, AgentOff

\* A call that ends without a report has nothing left to account for.
LEMMA AgentEndsWell ==
  ASSUME AgentInv, scan.pc # "off",
         NEW outcome \in {"denied", "notFound", "outputLimit"}, AgentEnds(outcome)
  PROVE  AgentInv'
<1>1. scan \in AgentType /\ AgentCounts
  BY AgentSteps
<1>2. scan' = [scan EXCEPT !.pc = "over", !.outcome = outcome]
  BY DEF AgentEnds
<1>3. scan' \in AgentType
  BY <1>1, <1>2 DEF AgentType, AgentPCs
<1>4. /\ scan'.pc = "over" /\ scan'.outcome # "report"
      /\ scan'.discovered = scan.discovered /\ scan'.total = scan.total
      /\ scan'.scanned = scan.scanned /\ scan'.candidates = scan.candidates
      /\ scan'.withheld = scan.withheld /\ scan'.request = scan.request
  BY <1>1, <1>2 DEF AgentType
<1>5. AgentPlace' /\ AgentCovers'
  BY <1>4 DEF AgentPlace, AgentCovers, AgentReported, AgentWalk
<1>6. AgentCounts'
  BY <1>1, <1>4 DEF AgentCounts
<1> QED BY <1>3, <1>5, <1>6 DEF AgentInv

\* Before the walk the step to the next question changes nothing else.
LEMMA AgentGoesWell ==
  ASSUME AgentInv, scan.pc \in {"policy", "chain", "lstat"}, scan.request.target \in Nodes,
         NEW pc \in {"chain", "lstat", "open"}, AgentGoes(pc)
  PROVE  AgentInv'
<1>1. scan \in AgentType /\ AgentCounts
  BY AgentSteps
<1>2. scan' = [scan EXCEPT !.pc = pc]
  BY DEF AgentGoes
<1>3. scan' \in AgentType
  BY <1>1, <1>2 DEF AgentType, AgentPCs
<1>4. /\ scan'.pc = pc
      /\ scan'.discovered = scan.discovered /\ scan'.total = scan.total
      /\ scan'.scanned = scan.scanned /\ scan'.candidates = scan.candidates
      /\ scan'.withheld = scan.withheld /\ scan'.request = scan.request
  BY <1>1, <1>2 DEF AgentType
<1>5. AgentPlace' /\ AgentCovers'
  BY <1>4 DEF AgentPlace, AgentCovers, AgentReported, AgentWalk
<1>6. AgentCounts'
  BY <1>1, <1>4 DEF AgentCounts
<1> QED BY <1>3, <1>5, <1>6 DEF AgentInv

LEMMA LinkChainAnswers == \A p : LinkChain(p) \in {"ok", "notFound", "denied"}
BY DEF LinkChain

LEMMA AgentPolicyStep ==
  ASSUME AgentInv, AgentPolicy
  PROVE  AgentInv'
<1>1. scan.pc = "policy" /\ scan \in AgentType
  BY AgentSteps DEF AgentPolicy
<1>2. scan.request.target \in Nodes \cup {Outside}
  BY <1>1, AgentAssumption DEF AgentType, Nodes
<1>3. CASE AgentEnds("denied")
  BY <1>1, <1>3, AgentEndsWell
<1>4. CASE scan.request.target # Outside /\ AgentGoes("chain")
  BY <1>1, <1>2, <1>4, AgentGoesWell
<1> QED BY <1>3, <1>4 DEF AgentPolicy

LEMMA AgentChainStep ==
  ASSUME AgentInv, AgentChain
  PROVE  AgentInv'
<1>1. scan.pc = "chain" /\ scan.request.target \in Nodes
  BY AgentSteps DEF AgentChain, AgentPlace
<1>2. CASE AgentGoes("lstat")
  BY <1>1, <1>2, AgentGoesWell
<1>3. CASE AgentEnds(LinkChain(scan.request.target)) /\ LinkChain(scan.request.target) # "ok"
  BY <1>1, <1>3, LinkChainAnswers, AgentEndsWell
<1> QED BY <1>2, <1>3 DEF AgentChain

LEMMA AgentLstatStep ==
  ASSUME WorldOK, AgentInv, AgentLstat
  PROVE  AgentInv'
<1> DEFINE t == scan.request.target
           kind == Look(t)
<1>1. scan.pc = "lstat" /\ t \in Nodes /\ scan \in AgentType /\ AgentCounts
  BY AgentSteps DEF AgentLstat, AgentPlace
<1>2. CASE kind = "none" /\ AgentEnds("notFound")
  BY <1>1, <1>2, AgentEndsWell
<1>3. CASE AgentEnds("denied")
  BY <1>1, <1>3, AgentEndsWell
<1>4. CASE AgentGoes("open")
  BY <1>1, <1>4, AgentGoesWell
<1>5. CASE /\ kind \in {"file", "hard"}
           /\ scan' = [scan EXCEPT !.pc = "readTarget", !.size = tree[t].size]
  <2>1. t \in Paths
    <3>1. Look(Top) = "dir"
      BY TopFacts DEF Look, Kind
    <3> QED BY <1>1, <1>5, <3>1 DEF Nodes
  <2>2. tree[t].size \in Nat
    BY <2>1 DEF WorldOK, Entries
  <2> HIDE DEF t, kind
  <2>3. scan' \in AgentType
    BY <1>1, <1>5, <2>2 DEF AgentType, AgentPCs
  <2>4. /\ scan'.pc = "readTarget"
        /\ scan'.discovered = scan.discovered /\ scan'.total = scan.total
        /\ scan'.scanned = scan.scanned /\ scan'.candidates = scan.candidates
        /\ scan'.withheld = scan.withheld /\ scan'.request = scan.request
    BY <1>1, <1>5 DEF AgentType
  <2>5. AgentPlace' /\ AgentCovers'
    BY <2>1, <2>4 DEF AgentPlace, AgentCovers, AgentReported, AgentWalk, t, Nodes
  <2>6. AgentCounts'
    BY <1>1, <2>4 DEF AgentCounts
  <2> QED BY <2>3, <2>5, <2>6 DEF AgentInv
<1>6. CASE kind = "none"
  BY <1>2, <1>6 DEF AgentLstat
<1>7. CASE kind \in {"file", "hard"}
  BY <1>5, <1>7 DEF AgentLstat
<1>8. CASE kind \in {"dir", "locked"}
  BY <1>4, <1>8 DEF AgentLstat
<1>9. CASE kind \notin {"none", "file", "hard", "dir", "locked"}
  BY <1>3, <1>9 DEF AgentLstat
<1> QED BY <1>6, <1>7, <1>8, <1>9

LEMMA AgentReadTargetStep ==
  ASSUME WorldOK, AgentInv, AgentReadTarget
  PROVE  AgentInv'
<1>0. PICK t \in Paths : t = scan.request.target
  BY AgentSteps DEF AgentReadTarget, AgentPlace
<1> DEFINE read == SafeRead(t, Min({MaxFileBytes, MaxTotalBytes}))
<1>1. /\ scan.pc = "readTarget" /\ scan \in AgentType /\ AgentCounts
      /\ UNCHANGED world
  BY AgentSteps DEF AgentReadTarget
<1>2. CASE \E outcome \in {"outputLimit", "denied"} : AgentEnds(outcome)
  BY <1>1, <1>2, AgentEndsWell
<1>3. CASE /\ read.ok
           /\ scan' = [scan EXCEPT !.pc = "read", !.discovered = 1, !.scanned = {t},
                                   !.total = tree[t].size]
  <2>1. tree[t].size \in Nat /\ tree[t].size <= MaxTotalBytes
    <3>1. tree[t].size \in Nat
      BY <1>1 DEF WorldOK, Entries
    <3>2. Min({MaxFileBytes, MaxTotalBytes}) <= MaxTotalBytes
          /\ Min({MaxFileBytes, MaxTotalBytes}) \in Int
      BY Smaller, AgentAssumption
    <3>3. tree[t].size <= Min({MaxFileBytes, MaxTotalBytes})
      BY <1>3 DEF SafeRead
    <3> QED BY <3>1, <3>2, <3>3, AgentAssumption
  <2>2. Kind(t) = "file" /\ Kind(t)' = "file"
    BY <1>1, <1>3 DEF SafeRead, world, Kind
  <2> HIDE DEF read
  <2>3. scan' \in AgentType
    BY <1>1, <1>3, <2>1 DEF AgentType, AgentPCs
  <2>4. /\ scan'.pc = "read" /\ scan'.scanned = {t} /\ scan'.discovered = 1
        /\ scan'.total = tree[t].size /\ scan'.candidates = scan.candidates
        /\ scan'.withheld = scan.withheld /\ scan'.request = scan.request
    BY <1>1, <1>3 DEF AgentType
  <2>5. AgentPlace'
    BY <1>0, <1>1, <2>4 DEF AgentPlace, AgentWalk, Nodes
  <2>6. AgentCounts'
    <3>1. scan.candidates = <<>> /\ Len(scan.candidates) = 0 /\ Range(scan.candidates) = {}
      BY <1>1, EmptyRange DEF AgentCounts
    <3>2. Cardinality({t}) = 1 /\ scan.request.maxFiles \in Nat \ {0} /\ scan.withheld \in Nat
      BY <1>1, FS_Singleton, AgentAssumption DEF AgentType
    <3> QED BY <1>1, <2>1, <2>4, <3>1, <3>2 DEF AgentCounts
  <2>7. AgentCovers'
    <3>1. ASSUME NEW p \in AgentTargets' \ {t} PROVE FALSE
      <4>1. p \in Paths /\ IsPrefix(t, p) /\ Anchored(Front(p))'
        BY <1>0, <2>4, <3>1, AgentAssumption DEF AgentTargets
      <4>2. t \in Above(p)
        BY <3>1, <4>1, PrefixIsAbove DEF Nodes
      <4>3. Kind(t)' = "dir"
        BY <4>1, <4>2, PathFacts DEF Anchored
      <4> QED BY <2>2, <4>3
    <3> QED BY <1>0, <2>4, <3>1 DEF AgentCovers
  <2> QED BY <2>3, <2>5, <2>6, <2>7 DEF AgentInv
<1> QED BY <1>0, <1>2, <1>3 DEF AgentReadTarget

LEMMA AgentTargetsStay ==
  ASSUME UNCHANGED world, scan'.request = scan.request
  PROVE  AgentTargets' = AgentTargets
BY DEF AgentTargets, Untouched, Anchored, Kind, world

\* What is above a file that should be scanned is a directory one may enter.
LEMMA AgentTargetFacts ==
  ASSUME scan.request.target \in Nodes, NEW p \in AgentTargets
  PROVE  /\ p \in Paths /\ p \in Upto(p) /\ Upto(p) \subseteq Paths /\ Kind(p) = "file"
         /\ p \in Wanted /\ ~Blocked(p) /\ Anchored(Front(p))
         /\ \A q \in Upto(p) : Untouched(q) /\ (q # p => Kind(q) = "dir")
         /\ \A q \in Upto(p) :
              Len(scan.request.target) < Len(q) => q = p \/ q \notin SkippedNames
<1>1. /\ p \in Wanted /\ p \in Paths /\ Untouched(p) /\ Anchored(Front(p)) /\ Kind(p) = "file"
      /\ ~Blocked(p) /\ (Above(p) \ Upto(scan.request.target)) \cap SkippedNames = {}
  BY AgentAssumption DEF AgentTargets
<1>2. p \in Upto(p) /\ Upto(p) \subseteq Paths
  BY <1>1, PathFacts
<1>3. ASSUME NEW q \in Upto(p) PROVE Untouched(q) /\ (q # p => Kind(q) = "dir")
  BY <1>1, UptoFacts, AnchoredAbove DEF Untouched
<1>4. ASSUME NEW q \in Upto(p), Len(scan.request.target) < Len(q), q # p
      PROVE  q \notin SkippedNames
  <2>1. q \in Above(p) /\ q \in Paths /\ Len(q) \in Nat
    BY <1>1, <1>4, UptoFacts, PathFacts
  <2>2. q \notin Upto(scan.request.target)
    <3>1. CASE scan.request.target \in Paths
      <4>1. Len(scan.request.target) \in Nat
        BY <3>1, PathFacts
      <4> QED BY <1>4, <2>1, <3>1, <4>1, UptoFacts
    <3>2. CASE scan.request.target = Top
      BY <3>2, TopFacts
    <3> QED BY <3>1, <3>2 DEF Nodes
  <2> QED BY <1>1, <2>1, <2>2
<1> QED BY <1>1, <1>2, <1>3, <1>4

\* As long as the walk goes on, nothing is counted.
LEMMA AgentUncounted ==
  ASSUME scan \in AgentType, AgentCounts, scan.pc \notin {"read", "over"},
         scan' \in AgentType, scan'.pc \notin {"read", "over"}, scan'.request = scan.request,
         scan'.discovered = scan.discovered, scan'.total = scan.total,
         scan'.scanned = scan.scanned, scan'.candidates = scan.candidates
  PROVE  AgentCounts'
<1>1. scan'.withheld \in Nat /\ scan.request.maxFiles \in Nat \ {0}
  BY AgentAssumption DEF AgentType
<1>2. Cardinality({}) = 0 /\ Len(<<>>) = 0
  BY FS_EmptySet, EmptyRange
<1>3. /\ scan'.discovered = 0 /\ scan'.total = 0 /\ scan'.scanned = {} /\ scan'.candidates = <<>>
      /\ Range(<<>>) = {} /\ IsInjective(<<>>)
  BY EmptyRange DEF AgentCounts, IsInjective
<1>4. scan'.discovered <= Cardinality(scan'.scanned) + scan'.withheld + Len(scan'.candidates)
  BY <1>1, <1>2, <1>3
<1>5. Cardinality(scan'.scanned) + Len(scan'.candidates) <= scan'.request.maxFiles
  BY <1>1, <1>2, <1>3
<1> QED BY <1>3, <1>4, <1>5, AgentAssumption DEF AgentCounts

LEMMA AgentOpenStep ==
  ASSUME WorldOK, AgentInv, AgentOpen
  PROVE  AgentInv'
<1>0. PICK d \in Nodes : d = scan.request.target
  BY AgentSteps DEF AgentOpen, AgentPlace
<1>1. scan.pc = "open" /\ scan \in AgentType /\ AgentPlace /\ AgentCounts /\ UNCHANGED world
  BY AgentSteps DEF AgentOpen
<1>2. CASE \E outcome \in {"notFound", "denied"} : AgentEnds(outcome)
  BY <1>1, <1>2, AgentEndsWell
<1>3. CASE scan' = [scan EXCEPT !.pc = "list", !.directories = <<d>>]
  <2>1. <<d>> \in Seq(Nodes) /\ Range(<<d>>) = {d} /\ <<d>> # <<>>
    BY SingletonRange
  <2>2. scan' \in AgentType
    BY <1>1, <1>3, <2>1 DEF AgentType, AgentPCs
  <2>3. /\ scan'.pc = "list" /\ scan'.directories = <<d>> /\ scan'.request = scan.request
        /\ scan'.discovered = scan.discovered /\ scan'.total = scan.total
        /\ scan'.scanned = scan.scanned /\ scan'.candidates = scan.candidates
        /\ scan'.opened = scan.opened /\ scan'.names = scan.names
    BY <1>1, <1>3 DEF AgentType
  <2>4. AgentCounts'
    BY <1>1, <2>2, <2>3, AgentUncounted
  <2>5. AgentPlace'
    BY <1>0, <2>1, <2>3, LenOfNode DEF AgentPlace, AgentWalk
  <2>6. AgentCovers'
    <3>1. ASSUME NEW p \in AgentTargets' \ {d} PROVE d \in Over(p)
      <4>1. IsPrefix(d, p) /\ p \in Paths
        BY <1>0, <2>3, <3>1, AgentAssumption DEF AgentTargets
      <4> QED BY <3>1, <4>1, PrefixIsAbove
    <3>2. \A p \in AgentTargets' \ {d} : AgentAhead(p)'
      BY <2>1, <2>3, <3>1 DEF AgentAhead
    <3> QED BY <1>0, <2>3, <3>2 DEF AgentCovers, AgentReported
  <2> QED BY <2>2, <2>4, <2>5, <2>6 DEF AgentInv
<1> QED BY <1>0, <1>2, <1>3 DEF AgentOpen

LEMMA AgentListStep ==
  ASSUME WorldOK, AgentInv, AgentList
  PROVE  AgentInv'
<1>1. /\ scan.pc = "list" /\ scan \in AgentType /\ AgentPlace /\ AgentCounts /\ AgentCovers
      /\ UNCHANGED world /\ scan.directories # <<>> /\ scan.directories \in Seq(Nodes)
      /\ scan.request.target \in Nodes
  BY AgentSteps DEF AgentList, AgentPlace, AgentType
<1>0. PICK d \in Nodes : d = Head(scan.directories)
  BY <1>1, HeadRange
<1> DEFINE met == {p \in Children(d) : Kind(p) # "none"}
<1>2. /\ Sorted(met) \in Seq(Paths) /\ Range(Sorted(met)) = met /\ met \subseteq Paths
  <2>1. met \in SUBSET Paths
    BY DEF Children
  <2>2. Sorted(met) \in Seq(met) /\ Range(Sorted(met)) = met
    BY <2>1, SortedFacts
  <2>3. Sorted(met) \in Seq(Paths)
    BY <2>1, <2>2, SeqOfSubset
  <2> QED BY <2>1, <2>2, <2>3
<1>3. /\ Tail(scan.directories) \in Seq(Nodes)
      /\ Range(scan.directories) = {d} \cup Range(Tail(scan.directories))
  BY <1>0, <1>1, HeadRange
<1>4. scan' = [scan EXCEPT !.pc = "names", !.directories = Tail(scan.directories),
                           !.names = Sorted(met), !.opened = <<>>]
  BY <1>0 DEF AgentList
<1> HIDE DEF met
<1>5. scan' \in AgentType
  BY <1>1, <1>2, <1>3, <1>4, EmptyRange DEF AgentType, AgentPCs
<1>6. /\ scan'.pc = "names" /\ scan'.directories = Tail(scan.directories)
      /\ scan'.names = Sorted(met) /\ scan'.opened = <<>> /\ scan'.request = scan.request
      /\ scan'.discovered = scan.discovered /\ scan'.total = scan.total
      /\ scan'.scanned = scan.scanned /\ scan'.candidates = scan.candidates
      /\ scan'.regular = scan.regular
  BY <1>1, <1>4 DEF AgentType
<1>7. AgentCounts'
  BY <1>1, <1>5, <1>6, AgentUncounted
<1>8. AgentPlace'
  <2>1. Len(scan.request.target) <= Len(d)
    BY <1>1, <1>3 DEF AgentPlace, AgentWalk
  <2>2. scan.request.target \in Nodes
    BY <1>1 DEF AgentPlace
  <2>3. \A q \in met : Len(scan.request.target) < Len(q)
    <3>1. ASSUME NEW q \in met PROVE Len(q) = Len(d) + 1
      BY <1>2, <3>1, PathFacts DEF met, Children
    <3> QED BY <2>1, <2>2, <3>1, LenOfNode
  <2> QED BY <1>1, <1>2, <1>3, <1>6, <2>2, <2>3, EmptyRange DEF AgentPlace, AgentWalk
<1>9. AgentCovers'
  <2>1. ASSUME NEW p \in AgentTargets' \ {scan'.request.target} PROVE AgentAhead(p)'
    <3>1. p \in AgentTargets \ {scan.request.target} /\ AgentAhead(p)
      BY <1>1, <1>6, <2>1, AgentTargetsStay DEF AgentCovers, AgentWalk
    <3>2. CASE d \in Over(p)
      <4>1. PICK q \in Upto(p) : q \in Children(d)
        BY <1>1, <3>1, <3>2, AgentTargetFacts, NextDown
      <4>2. Kind(q) \in {"file", "dir"}
        BY <1>1, <3>1, <4>1, AgentTargetFacts
      <4>3. q \in Range(scan'.names)
        BY <1>2, <1>6, <4>1, <4>2 DEF met
      <4> QED BY <1>6, <4>1, <4>3 DEF AgentAhead
    <3>3. CASE d \notin Over(p)
      BY <1>1, <1>3, <1>6, <3>1, <3>3 DEF AgentAhead
    <3> QED BY <3>2, <3>3
  <2> QED BY <1>6, <2>1 DEF AgentCovers, AgentReported
<1> QED BY <1>5, <1>7, <1>8, <1>9 DEF AgentInv

LEMMA AgentListFailsStep ==
  ASSUME WorldOK, AgentInv, AgentListFails
  PROVE  AgentInv' /\ WorldOK' /\ Moves
<1>1. /\ scan.pc = "list" /\ scan \in AgentType /\ AgentPlace /\ AgentCounts /\ AgentCovers
      /\ scan.directories # <<>> /\ scan.directories \in Seq(Nodes)
  BY AgentSteps DEF AgentListFails, AgentPlace, AgentType
<1>0. PICK d \in Nodes : d = Head(scan.directories)
  BY <1>1, HeadRange
<1>2. Fault(d) /\ WorldOK' /\ Moves
  BY <1>0, FaultMoves DEF AgentListFails
<1>3. /\ Tail(scan.directories) \in Seq(Nodes)
      /\ Range(scan.directories) = {d} \cup Range(Tail(scan.directories))
      /\ Len(scan.directories) = Len(Tail(scan.directories)) + 1
  BY <1>0, <1>1, HeadRange
<1>4. PICK pc \in {"choose", "list"} :
        /\ pc = IF Len(scan.directories) = 1 THEN "choose" ELSE "list"
        /\ scan' = [scan EXCEPT !.pc = pc, !.directories = Tail(scan.directories),
                                !.withheld = scan.withheld + 1]
  BY DEF AgentListFails
<1>5. Tail(scan.directories) = <<>> <=> pc = "choose"
  <2>1. /\ Tail(scan.directories) = <<>> <=> Len(Tail(scan.directories)) = 0
        /\ Len(Tail(scan.directories)) \in Nat
    BY <1>3, EmptyRange
  <2> QED BY <1>3, <1>4, <2>1
<1>6. scan' \in AgentType
  <2>1. scan.withheld + 1 \in Nat /\ pc \in AgentPCs \ {"off"}
    BY <1>1, <1>4 DEF AgentType, AgentPCs
  <2> QED BY <1>1, <1>3, <1>4, <2>1 DEF AgentType
<1>7. /\ scan'.pc = pc /\ scan'.directories = Tail(scan.directories)
      /\ scan'.request = scan.request /\ scan'.names = scan.names /\ scan'.opened = scan.opened
      /\ scan'.discovered = scan.discovered /\ scan'.total = scan.total
      /\ scan'.scanned = scan.scanned /\ scan'.candidates = scan.candidates
      /\ scan'.regular = scan.regular
  BY <1>1, <1>4 DEF AgentType
<1>8. AgentCounts'
  BY <1>1, <1>4, <1>6, <1>7, AgentUncounted
<1>9. AgentPlace'
  BY <1>1, <1>3, <1>4, <1>5, <1>7 DEF AgentPlace, AgentWalk
<1>10. AgentCovers'
  <2>1. ASSUME NEW p \in AgentTargets' \ {scan'.request.target}
        PROVE  AgentAhead(p)' /\ (pc = "choose" => p \in scan'.regular)
    <3>1. p \in AgentTargets \ {scan.request.target} /\ AgentAhead(p) /\ p \in Paths /\ Untouched(p)'
      BY <1>1, <1>2, <1>6, <1>7, <2>1, AgentTargetStill DEF AgentCovers, AgentWalk
    <3>2. d \notin Over(p)
      <4>1. d \in touched'
        BY <1>2 DEF Fault, Disturb
      <4> QED BY <3>1, <4>1 DEF Untouched, Over, Above
    <3>3. p \in scan.regular \/ \E e \in Range(Tail(scan.directories)) : e \in Over(p)
      BY <1>1, <1>3, <3>1, <3>2 DEF AgentAhead
    <3> QED BY <1>5, <1>7, <3>3, EmptyRange DEF AgentAhead
  <2> QED BY <1>4, <1>7, <2>1 DEF AgentCovers, AgentReported
<1> QED BY <1>2, <1>6, <1>8, <1>9, <1>10 DEF AgentInv

\* The walk goes past a name: it is on no way to a file that should be scanned,
\* is such a file, or was opened as a directory.
LEMMA AgentPasses ==
  ASSUME AgentInv, scan.pc \in {"names", "enter"}, UNCHANGED world,
         NEW q, q = Head(scan.names), scan.names # <<>>,
         scan' \in AgentType, scan'.pc = "names", scan'.names = Tail(scan.names),
         scan'.directories = scan.directories, scan'.request = scan.request,
         scan'.discovered = scan.discovered, scan'.total = scan.total,
         scan'.scanned = scan.scanned, scan'.candidates = scan.candidates,
         scan.regular \subseteq scan'.regular,
         scan'.opened = scan.opened \/ scan'.opened = Append(scan.opened, q),
         \A p \in AgentTargets \ {scan.request.target} :
           q \in Upto(p) => \/ p \in scan'.regular
                            \/ q \in Over(p) /\ scan'.opened = Append(scan.opened, q)
  PROVE  AgentInv'
<1>1. /\ scan \in AgentType /\ AgentPlace /\ AgentCounts /\ AgentCovers
      /\ scan.names \in Seq(Paths) /\ scan.opened \in Seq(Nodes) /\ scan.request.target \in Nodes
  BY AgentSteps DEF AgentPlace, AgentType
<1>2. q \in Paths /\ Range(scan.names) = {q} \cup Range(Tail(scan.names))
  BY <1>1, HeadRange
<1>3. /\ Range(scan.opened) \subseteq Range(scan'.opened)
      /\ Range(scan'.opened) \subseteq Range(scan.opened) \cup {q}
      /\ scan'.opened = Append(scan.opened, q) => q \in Range(scan'.opened)
  <2>1. Range(Append(scan.opened, q)) = Range(scan.opened) \cup {q}
    BY <1>1, <1>2, AppendRange DEF Nodes
  <2> QED BY <2>1
<1>4. AgentCounts'
  BY <1>1, AgentUncounted
<1>5. AgentPlace'
  <2>1. Len(scan.request.target) <= Len(q)
    <3>1. Len(scan.request.target) < Len(q)
      BY <1>1, <1>2 DEF AgentPlace
    <3> QED BY <1>1, <1>2, <3>1, LenOfNode DEF Nodes
  <2> QED BY <1>1, <1>2, <1>3, <2>1 DEF AgentPlace, AgentWalk
<1>6. AgentCovers'
  <2>1. ASSUME NEW p \in AgentTargets' \ {scan'.request.target} PROVE AgentAhead(p)'
    <3>1. p \in AgentTargets \ {scan.request.target} /\ AgentAhead(p)
      BY <1>1, <2>1, AgentTargetsStay DEF AgentCovers, AgentWalk
    <3>2. CASE q \in Upto(p)
      BY <1>3, <3>1, <3>2 DEF AgentAhead
    <3>3. CASE q \notin Upto(p)
      BY <1>2, <1>3, <3>1, <3>3 DEF AgentAhead
    <3> QED BY <3>2, <3>3
  <2> QED BY <2>1 DEF AgentCovers, AgentReported
<1> QED BY <1>4, <1>5, <1>6 DEF AgentInv

LEMMA AgentStatStep ==
  ASSUME WorldOK, AgentInv, AgentStat
  PROVE  AgentInv'
<1>1. /\ scan.pc = "names" /\ scan \in AgentType /\ AgentPlace /\ AgentCounts /\ AgentCovers
      /\ UNCHANGED world /\ scan.names # <<>> /\ scan.names \in Seq(Paths)
      /\ scan.request.target \in Nodes
  BY AgentSteps DEF AgentStat, AgentPlace, AgentType
<1>0. PICK q \in Paths : q = Head(scan.names)
  BY <1>1, HeadRange
<1>2. Tail(scan.names) \in Seq(Paths) /\ q \in Range(scan.names)
  BY <1>0, <1>1, HeadRange
<1> DEFINE Passed(withheld, links, regular) ==
             [scan EXCEPT !.names = Tail(scan.names), !.withheld = withheld,
                          !.links = links, !.regular = regular]
<1>3. CASE Kind(q) \in {"dir", "locked"} /\ q \notin SkippedNames
  <2>1. scan' = [scan EXCEPT !.pc = "enter"]
    BY <1>0, <1>3 DEF AgentStat
  <2>2. scan' \in AgentType
    BY <1>1, <2>1 DEF AgentType, AgentPCs
  <2>3. /\ scan'.pc = "enter" /\ scan'.directories = scan.directories
        /\ scan'.request = scan.request /\ scan'.names = scan.names /\ scan'.opened = scan.opened
        /\ scan'.discovered = scan.discovered /\ scan'.total = scan.total
        /\ scan'.scanned = scan.scanned /\ scan'.candidates = scan.candidates
        /\ scan'.regular = scan.regular
    BY <1>1, <2>1 DEF AgentType
  <2>4. AgentCounts'
    BY <1>1, <2>2, <2>3, AgentUncounted
  <2>5. AgentPlace'
    <3>1. Kind(q)' \in {"dir", "locked"}
      BY <1>1, <1>3 DEF Kind, world
    <3> QED BY <1>0, <1>1, <2>3, <3>1 DEF AgentPlace
  <2>6. AgentCovers'
    <3>1. AgentTargets' = AgentTargets /\ \A p : AgentAhead(p) => AgentAhead(p)'
      BY <1>1, <2>3, AgentTargetsStay DEF AgentAhead
    <3> QED BY <1>1, <2>3, <3>1 DEF AgentCovers, AgentReported, AgentWalk
  <2> QED BY <2>2, <2>4, <2>5, <2>6 DEF AgentInv
<1>4. ASSUME NEW withheld \in Nat, NEW links \in SUBSET Paths, NEW regular \in SUBSET Paths,
             scan.regular \subseteq regular,
             scan' = Passed(withheld, links, regular),
             \A p \in AgentTargets \ {scan.request.target} : q \in Upto(p) => p \in regular
      PROVE  AgentInv'
  <2>1. scan' \in AgentType
    BY <1>1, <1>2, <1>4 DEF AgentType
  <2>2. /\ scan'.pc = "names" /\ scan'.directories = scan.directories
        /\ scan'.request = scan.request /\ scan'.names = Tail(scan.names)
        /\ scan'.opened = scan.opened
        /\ scan'.discovered = scan.discovered /\ scan'.total = scan.total
        /\ scan'.scanned = scan.scanned /\ scan'.candidates = scan.candidates
        /\ scan'.regular = regular
    BY <1>1, <1>4 DEF AgentType
  <2> QED BY <1>0, <1>1, <1>4, <2>1, <2>2, AgentPasses
<1>5. scan.links \in SUBSET Paths /\ scan.regular \in SUBSET Paths /\ scan.withheld \in Nat
  BY <1>1 DEF AgentType
<1>6. ASSUME Kind(q) \notin {"dir", "file"} \/ (q \in SkippedNames /\ Kind(q) = "dir"),
             NEW p \in AgentTargets \ {scan.request.target}, q \in Upto(p)
      PROVE  FALSE
  <2>1. Len(scan.request.target) < Len(q)
    BY <1>1, <1>2 DEF AgentPlace
  <2> QED BY <1>1, <1>6, <2>1, AgentTargetFacts
<1>7. CASE Kind(q) = "none"
  <2>1. scan' = Passed(scan.withheld + 1, scan.links, scan.regular)
    BY <1>0, <1>1, <1>7 DEF AgentStat, AgentType
  <2>2. \A p \in AgentTargets \ {scan.request.target} : q \in Upto(p) => p \in scan.regular
    BY <1>6, <1>7
  <2>3. scan.withheld + 1 \in Nat
    BY <1>0, <1>5
  <2> HIDE DEF Passed
  <2> QED BY <1>4, <1>5, <2>1, <2>2, <2>3
<1>8. CASE Kind(q) = "link"
  <2>1. scan' = Passed(scan.withheld, scan.links \cup {q}, scan.regular)
    BY <1>0, <1>1, <1>8 DEF AgentStat, AgentType
  <2>2. \A p \in AgentTargets \ {scan.request.target} : q \in Upto(p) => p \in scan.regular
    BY <1>6, <1>8
  <2>3. scan.links \cup {q} \in SUBSET Paths
    BY <1>0, <1>5
  <2> HIDE DEF Passed
  <2> QED BY <1>4, <1>5, <2>1, <2>2, <2>3
<1>9. CASE Kind(q) \in {"dir", "locked"} /\ q \in SkippedNames
  <2>1. scan' = Passed(scan.withheld, scan.links, scan.regular)
    BY <1>0, <1>1, <1>9 DEF AgentStat, AgentType
  <2>2. \A p \in AgentTargets \ {scan.request.target} : q \in Upto(p) => p \in scan.regular
    BY <1>6, <1>9
  <2>3. scan.withheld \in Nat
    BY <1>0, <1>5
  <2> HIDE DEF Passed
  <2> QED BY <1>4, <1>5, <2>1, <2>2, <2>3
<1>10. CASE Kind(q) \notin {"none", "link", "dir", "locked"}
  <2>1. scan' = Passed(scan.withheld, scan.links, scan.regular \cup {q})
    BY <1>0, <1>1, <1>10 DEF AgentStat, AgentType
  <2>2. ASSUME NEW p \in AgentTargets \ {scan.request.target}, q \in Upto(p) PROVE p = q
    BY <1>1, <1>10, <2>2, AgentTargetFacts
  <2>3. \A p \in AgentTargets \ {scan.request.target} :
          q \in Upto(p) => p \in scan.regular \cup {q}
    BY <2>2
  <2>4. scan.regular \cup {q} \in SUBSET Paths /\ scan.regular \subseteq scan.regular \cup {q}
    BY <1>0, <1>5
  <2> HIDE DEF Passed
  <2> QED BY <1>4, <1>5, <2>1, <2>3, <2>4
<1> QED BY <1>3, <1>7, <1>8, <1>9, <1>10

LEMMA AgentEnterStep ==
  ASSUME WorldOK, AgentInv, AgentEnter
  PROVE  AgentInv'
<1>1. /\ scan.pc = "enter" /\ scan \in AgentType /\ AgentPlace /\ AgentCounts /\ AgentCovers
      /\ UNCHANGED world /\ scan.names # <<>> /\ scan.names \in Seq(Paths)
      /\ scan.opened \in Seq(Nodes) /\ scan.withheld \in Nat /\ scan.request.target \in Nodes
  BY AgentSteps DEF AgentEnter, AgentPlace, AgentType
<1>0. PICK q \in Paths : q = Head(scan.names)
  BY <1>1, HeadRange
<1>2. Tail(scan.names) \in Seq(Paths) /\ q \in Range(scan.names)
  BY <1>0, <1>1, HeadRange
<1>3. Append(scan.opened, q) \in Seq(Nodes)
  BY <1>0, <1>1, AppendRange DEF Nodes
<1>4. CASE Kind(q) = "dir"
  <2>1. scan' = [scan EXCEPT !.names = Tail(scan.names), !.pc = "names",
                             !.opened = Append(scan.opened, q)]
    BY <1>0, <1>1, <1>4 DEF AgentEnter, AgentType
  <2>2. scan' \in AgentType
    BY <1>1, <1>2, <1>3, <2>1 DEF AgentType, AgentPCs
  <2>3. /\ scan'.pc = "names" /\ scan'.directories = scan.directories
        /\ scan'.request = scan.request /\ scan'.names = Tail(scan.names)
        /\ scan'.opened = Append(scan.opened, q)
        /\ scan'.discovered = scan.discovered /\ scan'.total = scan.total
        /\ scan'.scanned = scan.scanned /\ scan'.candidates = scan.candidates
        /\ scan'.regular = scan.regular
    BY <1>1, <2>1 DEF AgentType
  <2>4. ASSUME NEW p \in AgentTargets, q \in Upto(p) PROVE q \in Over(p)
    BY <1>1, <1>4, <2>4, AgentTargetFacts DEF Over, Above
  <2> QED BY <1>0, <1>1, <2>2, <2>3, <2>4, AgentPasses
<1>5. CASE Kind(q) # "dir"
  <2>1. scan' = [scan EXCEPT !.names = Tail(scan.names), !.pc = "names",
                             !.withheld = scan.withheld + 1]
    BY <1>0, <1>1, <1>5 DEF AgentEnter, AgentType
  <2>2. scan' \in AgentType
    <3>1. scan.withheld + 1 \in Nat
      BY <1>1
    <3> QED BY <1>1, <1>2, <2>1, <3>1 DEF AgentType, AgentPCs
  <2>3. /\ scan'.pc = "names" /\ scan'.directories = scan.directories
        /\ scan'.request = scan.request /\ scan'.names = Tail(scan.names)
        /\ scan'.opened = scan.opened
        /\ scan'.discovered = scan.discovered /\ scan'.total = scan.total
        /\ scan'.scanned = scan.scanned /\ scan'.candidates = scan.candidates
        /\ scan'.regular = scan.regular
    BY <1>1, <2>1 DEF AgentType
  <2>4. ASSUME NEW p \in AgentTargets, q \in Upto(p) PROVE FALSE
    <3>1. Untouched(q) /\ (q # p => Kind(q) = "dir") /\ Kind(p) = "file"
      BY <1>1, <2>4, AgentTargetFacts
    <3>2. Kind(q) \in {"dir", "locked"}
      BY <1>0, <1>1, <3>1 DEF AgentPlace
    <3> QED BY <1>5, <3>1, <3>2
  <2> QED BY <1>0, <1>1, <2>2, <2>3, <2>4, AgentPasses
<1> QED BY <1>4, <1>5

LEMMA AgentDescendStep ==
  ASSUME WorldOK, AgentInv, AgentDescend
  PROVE  AgentInv'
<1>1. /\ scan.pc = "names" /\ scan \in AgentType /\ AgentPlace /\ AgentCounts /\ AgentCovers
      /\ UNCHANGED world /\ scan.names = <<>> /\ scan.opened \in Seq(Nodes)
      /\ scan.directories \in Seq(Nodes)
  BY AgentSteps DEF AgentDescend, AgentPlace, AgentType
<1> DEFINE left == scan.opened \o scan.directories
<1>2. left \in Seq(Nodes) /\ Range(left) = Range(scan.opened) \cup Range(scan.directories)
  BY <1>1, ConcatRange
<1>3. PICK pc \in {"choose", "list"} :
        /\ pc = IF left = <<>> THEN "choose" ELSE "list"
        /\ scan' = [scan EXCEPT !.pc = pc, !.directories = left]
  BY DEF AgentDescend
<1> HIDE DEF left
<1>4. scan' \in AgentType
  <2>1. pc \in AgentPCs \ {"off"}
    BY DEF AgentPCs
  <2> QED BY <1>1, <1>2, <1>3, <2>1 DEF AgentType
<1>5. /\ scan'.pc = pc /\ scan'.directories = left
      /\ scan'.request = scan.request /\ scan'.names = scan.names
      /\ scan'.discovered = scan.discovered /\ scan'.total = scan.total
      /\ scan'.scanned = scan.scanned /\ scan'.candidates = scan.candidates
      /\ scan'.regular = scan.regular
  BY <1>1, <1>3 DEF AgentType
<1>6. AgentCounts'
  BY <1>1, <1>3, <1>4, <1>5, AgentUncounted
<1>7. AgentPlace'
  BY <1>1, <1>2, <1>3, <1>5 DEF AgentPlace, AgentWalk
<1>8. AgentCovers'
  <2>1. ASSUME NEW p \in AgentTargets' \ {scan'.request.target}
        PROVE  AgentAhead(p)' /\ (pc = "choose" => p \in scan'.regular)
    <3>1. p \in AgentTargets \ {scan.request.target} /\ AgentAhead(p)
      BY <1>1, <1>5, <2>1, AgentTargetsStay DEF AgentCovers, AgentWalk
    <3>2. p \in scan.regular \/ \E e \in Range(left) : e \in Over(p)
      BY <1>1, <1>2, <3>1, EmptyRange DEF AgentAhead
    <3> QED BY <1>3, <1>5, <3>2, EmptyRange DEF AgentAhead
  <2> QED BY <1>3, <1>5, <2>1 DEF AgentCovers, AgentReported
<1> QED BY <1>4, <1>6, <1>7, <1>8 DEF AgentInv

LEMMA AgentChooseStep ==
  ASSUME WorldOK, AgentInv, AgentChoose
  PROVE  AgentInv'
<1>1. /\ scan.pc = "choose" /\ scan \in AgentType /\ AgentPlace /\ AgentCounts /\ AgentCovers
      /\ UNCHANGED world /\ scan.regular \in SUBSET Paths /\ scan.links \in SUBSET Paths
      /\ scan.withheld \in Nat /\ scan.request.maxFiles \in Nat \ {0}
      /\ scan.request.target \in Nodes
  BY AgentSteps, AgentAssumption DEF AgentChoose, AgentPlace, AgentType
<1> DEFINE chosen == (scan.regular \cup scan.links) \cap Wanted
           found == Sorted(chosen)
           most == Min({Len(found), scan.request.maxFiles})
           some == SubSeq(found, 1, most)
           aside == Cardinality(scan.links \ (Wanted \cup SkippedNames))
           withheld == scan.withheld + Len(found) - Len(some) + aside
           cut == Len(found) > Len(some)
<1>2. found \in Seq(Paths) /\ Len(found) \in Nat /\ Range(found) = chosen /\ IsInjective(found)
  <2>1. chosen \in SUBSET Paths
    BY <1>1
  <2>2. /\ found \in Seq(chosen) /\ Len(found) = Cardinality(chosen) /\ Range(found) = chosen
        /\ IsInjective(found) /\ Cardinality(chosen) \in Nat
    <3> HIDE DEF chosen
    <3> QED BY <2>1, SortedFacts
  <2> HIDE DEF chosen, found
  <2> QED BY <2>1, <2>2, SeqOfSubset
<1>3. most \in 0..Len(found) /\ most <= scan.request.maxFiles
  <2> HIDE DEF found
  <2> QED BY <1>1, <1>2, Smaller
<1>4. /\ some \in Seq(Paths) /\ Len(some) = most /\ IsInjective(some)
      /\ Len(some) = Len(found) => some = found
  <2> HIDE DEF found, most
  <2> QED BY <1>2, <1>3, BeginningRange
<1>5. aside \in Nat
  BY <1>1, PathsAreFinite, FS_CardinalityType
<1>6. scan' = [scan EXCEPT !.pc = "read", !.candidates = some, !.discovered = Len(found),
                           !.truncated = cut, !.withheld = withheld]
  BY DEF AgentChoose
<1> HIDE DEF chosen, found, most, some, aside
<1>7. withheld \in Nat /\ Len(found) <= withheld + Len(some)
  <2>1. Len(some) \in Nat /\ Len(some) <= Len(found)
    BY <1>2, <1>3, <1>4
  <2> QED BY <1>1, <1>2, <1>5, <2>1
<1>8. cut \in BOOLEAN /\ (~cut => some = found)
  BY <1>2, <1>3, <1>4
<1> HIDE DEF withheld, cut
<1>9. scan' \in AgentType
  BY <1>1, <1>2, <1>4, <1>6, <1>7, <1>8 DEF AgentType, AgentPCs
<1>10. /\ scan'.pc = "read" /\ scan'.candidates = some /\ scan'.discovered = Len(found)
       /\ scan'.truncated = cut /\ scan'.withheld = withheld /\ scan'.request = scan.request
       /\ scan'.scanned = scan.scanned /\ scan'.total = scan.total
  BY <1>1, <1>6 DEF AgentType
<1>11. AgentPlace'
  <2>1. scan.request.target \in Nodes
    BY <1>1
  <2> QED BY <1>10, <2>1 DEF AgentPlace, AgentWalk
<1>12. AgentCounts'
  <2>1. scan.scanned = {} /\ scan.total = 0 /\ Cardinality({}) = 0
    BY <1>1, FS_EmptySet DEF AgentCounts
  <2>2. Cardinality(scan'.scanned) + Len(some) <= scan.request.maxFiles
    BY <1>1, <1>2, <1>3, <1>4, <1>10, <2>1
  <2>3. Len(found) <= Cardinality(scan'.scanned) + withheld + Len(some)
    BY <1>2, <1>3, <1>4, <1>7, <1>10, <2>1
  <2>4. Range(scan'.candidates) \cap scan'.scanned = {}
    BY <1>10, <2>1
  <2> QED BY <1>4, <1>10, <2>1, <2>2, <2>3, <2>4, AgentAssumption DEF AgentCounts
<1>13. AgentCovers'
  <2>1. ASSUME NEW p \in AgentTargets' \ {scan'.request.target}
        PROVE  p \in Range(some) \/ cut
    <3>1. p \in AgentTargets \ {scan.request.target} /\ p \in Wanted
      BY <1>1, <1>10, <2>1, AgentTargetsStay, AgentTargetFacts
    <3>2. p \in scan.regular
      BY <1>1, <3>1 DEF AgentCovers
    <3> QED BY <1>2, <1>8, <3>1, <3>2 DEF chosen
  <2> QED BY <1>10, <2>1 DEF AgentCovers, AgentReported, AgentWalk
<1> QED BY <1>9, <1>11, <1>12, <1>13 DEF AgentInv

\* One file less is to be tried when it is scanned, or withheld.
LEMMA AgentTally ==
  \A d, c, w, l, m \in Nat :
    d <= c + w + (l + 1) /\ c + (l + 1) <= m =>
      /\ d <= c + 1 + w + l /\ c + 1 + l <= m
      /\ d <= c + (w + 1) + l /\ c + l <= m
OBVIOUS

LEMMA AgentReadStep ==
  ASSUME WorldOK, AgentInv, AgentRead
  PROVE  AgentInv'
<1>1. /\ scan.pc = "read" /\ scan \in AgentType /\ AgentPlace /\ AgentCounts /\ AgentCovers
      /\ UNCHANGED world /\ scan.candidates # <<>> /\ scan.candidates \in Seq(Paths)
      /\ scan.scanned \in SUBSET Paths /\ scan.withheld \in Nat /\ scan.total \in Nat
      /\ scan.discovered \in Nat /\ scan.truncated \in BOOLEAN
      /\ scan.request.target \in Nodes /\ scan.request.maxFiles \in Nat \ {0}
  BY AgentSteps, AgentAssumption DEF AgentRead, AgentPlace, AgentType
<1>0. PICK q \in Paths : q = Head(scan.candidates)
  BY <1>1, HeadRange
<1> DEFINE left == MaxTotalBytes - scan.total
           budget == Min({MaxFileBytes, left})
           read == IF Blocked(q) THEN [ok |-> FALSE, over |-> FALSE] ELSE SafeRead(q, budget)
           rest == Tail(scan.candidates)
           size == tree[q].size
           cut == scan.truncated \/ left <= 0 \/ read.over
           tried == left > 0 /\ read.ok
<1>2. /\ rest \in Seq(Paths) /\ IsInjective(rest) /\ q \notin Range(rest)
      /\ Range(scan.candidates) = {q} \cup Range(rest)
      /\ Len(scan.candidates) = Len(rest) + 1 /\ Len(rest) \in Nat
  BY <1>0, <1>1, HeadRange, EmptyRange DEF AgentCounts
<1>3. /\ q \notin scan.scanned /\ Range(rest) \cap scan.scanned = {}
      /\ IsFiniteSet(scan.scanned) /\ Cardinality(scan.scanned) \in Nat
      /\ Cardinality(scan.scanned \cup {q}) = Cardinality(scan.scanned) + 1
  <2>1. q \notin scan.scanned /\ Range(rest) \cap scan.scanned = {}
    BY <1>1, <1>2 DEF AgentCounts
  <2>2. IsFiniteSet(scan.scanned)
    BY <1>1, PathsAreFinite
  <2> QED BY <2>1, <2>2, FS_AddElement, FS_CardinalityType
<1>4. size \in Nat /\ left \in Int /\ budget \in Int /\ budget <= left
  <2>1. size \in Nat
    BY <1>0 DEF WorldOK, Entries
  <2>2. left \in Int
    BY <1>1, AgentAssumption
  <2> HIDE DEF left
  <2> QED BY <2>1, <2>2, AgentAssumption, Smaller
<1>5. tried => size <= left
  <2>1. tried => size <= budget
    BY DEF SafeRead
  <2> HIDE DEF budget
  <2> QED BY <1>4, <2>1
<1>6. cut \in BOOLEAN
  BY <1>1
<1>7. scan' = IF tried
              THEN [scan EXCEPT !.candidates = rest, !.scanned = scan.scanned \cup {q},
                                !.total = scan.total + size]
              ELSE [scan EXCEPT !.candidates = rest, !.withheld = scan.withheld + 1,
                                !.truncated = cut]
  BY <1>0, <1>1 DEF AgentRead, AgentType
<1>8. ASSUME NEW p \in AgentTargets, p = q PROVE tried \/ cut
  <2>1. ~Blocked(q) /\ Kind(q) = "file" /\ Anchored(Front(q))
    BY <1>1, <1>8, AgentTargetFacts
  <2>2. read.ok \/ read.over
    <3>1. size <= budget \/ size > budget
      BY <1>4
    <3> HIDE DEF budget
    <3> QED BY <2>1, <3>1 DEF SafeRead
  <2> HIDE DEF read
  <2> QED BY <1>4, <2>2
<1> HIDE DEF left, budget, read, rest, size, cut, tried
<1>9. CASE tried
  <2>1. scan.total + size \in Nat /\ scan.total + size <= MaxTotalBytes
    BY <1>1, <1>4, <1>5, <1>9, AgentAssumption DEF left
  <2>2. scan' \in AgentType
    <3>1. scan.scanned \cup {q} \in SUBSET Paths
      BY <1>0, <1>1
    <3> QED BY <1>1, <1>2, <1>7, <1>9, <2>1, <3>1 DEF AgentType
  <2>3. /\ scan'.pc = "read" /\ scan'.candidates = rest /\ scan'.discovered = scan.discovered
        /\ scan'.truncated = scan.truncated /\ scan'.withheld = scan.withheld
        /\ scan'.request = scan.request
        /\ scan'.scanned = scan.scanned \cup {q} /\ scan'.total = scan.total + size
    BY <1>1, <1>7, <1>9 DEF AgentType
  <2>4. AgentPlace'
    BY <1>1, <2>3 DEF AgentPlace, AgentWalk
  <2>5. AgentCounts'
    <3>1. /\ scan.discovered <= Cardinality(scan.scanned) + scan.withheld + Len(scan.candidates)
          /\ Cardinality(scan.scanned) + Len(scan.candidates) <= scan.request.maxFiles
      BY <1>1 DEF AgentCounts
    <3>2. /\ scan'.discovered <= Cardinality(scan'.scanned) + scan'.withheld + Len(scan'.candidates)
          /\ Cardinality(scan'.scanned) + Len(scan'.candidates) <= scan'.request.maxFiles
      <4>1. /\ Cardinality(scan'.scanned) = Cardinality(scan.scanned) + 1
            /\ Len(scan'.candidates) = Len(rest) /\ scan'.withheld = scan.withheld
            /\ scan'.discovered = scan.discovered /\ scan'.request = scan.request
        BY <1>3, <2>3
      <4>2. /\ scan.discovered <= Cardinality(scan.scanned) + scan.withheld + (Len(rest) + 1)
            /\ Cardinality(scan.scanned) + (Len(rest) + 1) <= scan.request.maxFiles
        BY <1>2, <3>1
      <4>3. /\ Cardinality(scan.scanned) \in Nat /\ scan.withheld \in Nat /\ Len(rest) \in Nat
            /\ scan.discovered \in Nat /\ scan.request.maxFiles \in Nat
        BY <1>1, <1>2, <1>3
      <4>4. /\ scan.discovered <= Cardinality(scan.scanned) + 1 + scan.withheld + Len(rest)
            /\ Cardinality(scan.scanned) + 1 + Len(rest) <= scan.request.maxFiles
        BY <4>2, <4>3, AgentTally
      <4> QED BY <4>1, <4>4
    <3>3. scan'.total <= MaxTotalBytes /\ IsInjective(scan'.candidates)
          /\ Range(scan'.candidates) \cap scan'.scanned = {}
      BY <1>2, <1>3, <2>1, <2>3
    <3> QED BY <2>3, <3>2, <3>3 DEF AgentCounts
  <2>6. AgentCovers'
    <3>1. ASSUME NEW p \in AgentTargets' \ {scan'.request.target}
          PROVE  p \in scan'.scanned \cup Range(rest) \/ scan'.truncated
      <4>1. p \in AgentTargets \ {scan.request.target}
        BY <1>1, <2>3, <3>1, AgentTargetsStay
      <4> QED BY <1>1, <1>2, <2>3, <4>1 DEF AgentCovers
    <3> QED BY <2>3, <3>1 DEF AgentCovers, AgentReported, AgentWalk
  <2> QED BY <2>2, <2>4, <2>5, <2>6 DEF AgentInv
<1>10. CASE ~tried
  <2>1. scan.withheld + 1 \in Nat
    BY <1>1
  <2>2. scan' \in AgentType
    BY <1>1, <1>2, <1>6, <1>7, <1>10, <2>1 DEF AgentType
  <2>3. /\ scan'.pc = "read" /\ scan'.candidates = rest /\ scan'.discovered = scan.discovered
        /\ scan'.truncated = cut /\ scan'.withheld = scan.withheld + 1
        /\ scan'.request = scan.request
        /\ scan'.scanned = scan.scanned /\ scan'.total = scan.total
    BY <1>1, <1>7, <1>10 DEF AgentType
  <2>4. AgentPlace'
    BY <1>1, <2>3 DEF AgentPlace, AgentWalk
  <2>5. AgentCounts'
    <3>1. /\ scan.discovered <= Cardinality(scan.scanned) + scan.withheld + Len(scan.candidates)
          /\ Cardinality(scan.scanned) + Len(scan.candidates) <= scan.request.maxFiles
      BY <1>1 DEF AgentCounts
    <3>2. /\ scan'.discovered <= Cardinality(scan'.scanned) + scan'.withheld + Len(scan'.candidates)
          /\ Cardinality(scan'.scanned) + Len(scan'.candidates) <= scan'.request.maxFiles
      <4>1. /\ Cardinality(scan'.scanned) = Cardinality(scan.scanned)
            /\ Len(scan'.candidates) = Len(rest) /\ scan'.withheld = scan.withheld + 1
            /\ scan'.discovered = scan.discovered /\ scan'.request = scan.request
        BY <1>3, <2>3
      <4>2. /\ scan.discovered <= Cardinality(scan.scanned) + scan.withheld + (Len(rest) + 1)
            /\ Cardinality(scan.scanned) + (Len(rest) + 1) <= scan.request.maxFiles
        BY <1>2, <3>1
      <4>3. /\ Cardinality(scan.scanned) \in Nat /\ scan.withheld \in Nat /\ Len(rest) \in Nat
            /\ scan.discovered \in Nat /\ scan.request.maxFiles \in Nat
        BY <1>1, <1>2, <1>3
      <4>4. /\ scan.discovered <= Cardinality(scan.scanned) + (scan.withheld + 1) + Len(rest)
            /\ Cardinality(scan.scanned) + Len(rest) <= scan.request.maxFiles
        BY <4>2, <4>3, AgentTally
      <4> QED BY <4>1, <4>4
    <3>3. scan'.total <= MaxTotalBytes /\ IsInjective(scan'.candidates)
          /\ Range(scan'.candidates) \cap scan'.scanned = {}
      BY <1>1, <1>2, <1>3, <2>3 DEF AgentCounts
    <3> QED BY <2>3, <3>2, <3>3 DEF AgentCounts
  <2>6. AgentCovers'
    <3>1. ASSUME NEW p \in AgentTargets' \ {scan'.request.target}
          PROVE  p \in scan.scanned \cup Range(rest) \/ cut
      <4>1. p \in AgentTargets \ {scan.request.target}
        BY <1>1, <2>3, <3>1, AgentTargetsStay
      <4>2. p \in scan.scanned \cup {q} \cup Range(rest) \/ scan.truncated
        BY <1>1, <1>2, <4>1 DEF AgentCovers
      <4> QED BY <1>8, <1>10, <4>1, <4>2 DEF cut
    <3> QED BY <2>3, <3>1 DEF AgentCovers, AgentReported, AgentWalk
  <2> QED BY <2>2, <2>4, <2>5, <2>6 DEF AgentInv
<1> QED BY <1>9, <1>10

LEMMA AgentReportStep ==
  ASSUME WorldOK, AgentInv, AgentReport
  PROVE  AgentInv'
<1>1. /\ scan.pc = "read" /\ scan \in AgentType /\ AgentPlace /\ AgentCounts /\ AgentCovers
      /\ UNCHANGED world /\ scan.candidates = <<>>
      /\ scan.total \in Nat /\ scan.request.limit \in Nat
  BY AgentSteps, AgentAssumption DEF AgentReport, AgentType
<1>2. Min({scan.total, scan.request.limit}) \in Nat
  BY <1>1, Smaller
<1> DEFINE findings == Min({scan.total, scan.request.limit})
           more == scan.total > scan.request.limit
<1>3. /\ findings \in Nat /\ more \in BOOLEAN
      /\ scan' = [scan EXCEPT !.pc = "over", !.outcome = "report",
                              !.findings = findings, !.more = more]
  BY <1>2 DEF AgentReport
<1> HIDE DEF findings, more
<1>4. scan' \in AgentType
  BY <1>1, <1>3 DEF AgentType, AgentPCs
<1>5. /\ scan'.pc = "over" /\ scan'.candidates = scan.candidates
      /\ scan'.discovered = scan.discovered
      /\ scan'.truncated = scan.truncated /\ scan'.withheld = scan.withheld
      /\ scan'.request = scan.request
      /\ scan'.scanned = scan.scanned /\ scan'.total = scan.total
  BY <1>1, <1>3 DEF AgentType
<1>6. AgentPlace' /\ AgentCounts'
  BY <1>1, <1>5 DEF AgentPlace, AgentCounts, AgentWalk
<1>7. AgentCovers'
  <2>1. ASSUME NEW p \in AgentTargets' \ {scan'.request.target}
        PROVE  p \in scan'.scanned \/ scan'.truncated
    <3>1. p \in AgentTargets \ {scan.request.target}
      BY <1>1, <1>5, <2>1, AgentTargetsStay
    <3> QED BY <1>1, <1>5, <3>1, EmptyRange DEF AgentCovers
  <2> QED BY <1>5, <2>1 DEF AgentCovers, AgentWalk
<1> QED BY <1>4, <1>6, <1>7 DEF AgentInv

LEMMA AgentStep ==
  ASSUME WorldOK, AgentInv, AgentNext
  PROVE  AgentInv' /\ WorldOK' /\ Moves
<1>1. CASE AgentListFails
  BY <1>1, AgentListFailsStep
<1>2. CASE \/ AgentPolicy \/ AgentChain \/ AgentLstat \/ AgentReadTarget
           \/ AgentOpen \/ AgentList \/ AgentStat \/ AgentEnter \/ AgentDescend
           \/ AgentChoose \/ AgentRead \/ AgentReport
  <2>1. UNCHANGED world
    BY <1>2 DEF AgentPolicy, AgentChain, AgentLstat, AgentReadTarget, AgentOpen, AgentList,
                AgentStat, AgentEnter, AgentDescend, AgentChoose, AgentRead, AgentReport
  <2>2. AgentInv'
    BY <1>2, AgentPolicyStep, AgentChainStep, AgentLstatStep, AgentReadTargetStep, AgentOpenStep,
       AgentListStep, AgentStatStep, AgentEnterStep, AgentDescendStep, AgentChooseStep,
       AgentReadStep, AgentReportStep
  <2> QED BY <2>1, <2>2, StandingMoves
<1> QED BY <1>1, <1>2 DEF AgentNext

\* What the audit's invariant says of its report.
LEMMA AgentAnswers ==
  ASSUME AgentInv
  PROVE  AgentAccounts /\ AgentMissesNothing
<1>1. CASE scan = AgentOff
  BY <1>1 DEF AgentOff, AgentAccounts, AgentMissesNothing, AgentReported
<1>2. CASE scan \in AgentType /\ AgentPlace /\ AgentCounts /\ AgentCovers
  <2>1. AgentAccounts
    <3>1. /\ Cardinality(scan.scanned) \in Nat /\ Len(scan.candidates) \in Nat
          /\ scan.request.maxFiles \in Nat
      <4>1. scan.scanned \in SUBSET Paths /\ scan.candidates \in Seq(Paths)
        BY <1>2 DEF AgentType
      <4> QED BY <1>2, <4>1, PathsAreFinite, FS_CardinalityType, EmptyRange, AgentAssumption
            DEF AgentType
    <3>2. Cardinality(scan.scanned) + Len(scan.candidates) <= scan.request.maxFiles
      BY <1>2 DEF AgentCounts
    <3>3. Cardinality(scan.scanned) <= scan.request.maxFiles
      BY <3>1, <3>2
    <3> QED BY <1>2, <3>3 DEF AgentAccounts, AgentCounts
  <2>2. AgentMissesNothing
    <3>1. ASSUME Kind(scan.request.target) # "file" PROVE scan.request.target \notin AgentTargets
      BY <3>1 DEF AgentTargets
    <3> QED BY <1>2, <3>1 DEF AgentMissesNothing, AgentCovers
  <2> QED BY <2>1, <2>2
<1> QED BY <1>1, <1>2 DEF AgentInv

LEMMA SafeReadFacts ==
  \A p, budget :
    /\ SafeRead(p, budget).ok <=> Anchored(Front(p)) /\ Kind(p) = "file" /\ tree[p].size <= budget
    /\ SafeRead(p, budget).over <=> Anchored(Front(p)) /\ Kind(p) = "file" /\ tree[p].size > budget
BY DEF SafeRead

\* What does not fit is larger, and what fits leaves a total within the limit.
LEMMA Budget ==
  \A size, total \in Nat : \A budget \in Int : \A limit \in Nat :
    /\ ~(size <= budget) => size > budget
    /\ size <= budget /\ budget <= limit - total => total + size \in Nat /\ total + size <= limit
OBVIOUS

-----------------------------------------------------------------------------
(* What is copied *)

CopiesOf(V) == UNION {[ps -> V] : ps \in SUBSET Paths}

\* One copy has what another has, and this one more.
Grows(V, copy, q, v, more) ==
  /\ DOMAIN more = DOMAIN copy \cup {q} /\ DOMAIN copy \in SUBSET Paths
  /\ \A p \in DOMAIN copy : more[p] = copy[p] /\ copy[p] \in V
  /\ q \notin DOMAIN copy => more[q] = v
  /\ more \in CopiesOf(V)

LEMMA AddedFacts ==
  \A V, copy, q, v, more :
    copy \in CopiesOf(V) /\ q \in Paths /\ v \in V /\ more = Added(copy, q, v)
      => Grows(V, copy, q, v, more)
<1> SUFFICES ASSUME NEW V, NEW copy \in CopiesOf(V), NEW q \in Paths, NEW v \in V,
                    NEW more, more = Added(copy, q, v)
             PROVE  Grows(V, copy, q, v, more)
  OBVIOUS
<1>1. PICK ps \in SUBSET Paths : copy \in [ps -> V]
  BY DEF CopiesOf
<1>2. more = [p \in ps \cup {q} |-> IF p \in ps THEN copy[p] ELSE v]
  BY <1>1 DEF Added
<1>3. more \in [ps \cup {q} -> V] /\ (ps \cup {q}) \in SUBSET Paths
  BY <1>1, <1>2
<1> QED BY <1>1, <1>2, <1>3 DEF CopiesOf, Grows

\* One copy has at these paths what the other has, of the same sizes.
Alike(copy, more, ps) ==
  ps \in SUBSET Paths /\ \A p \in ps : more[p].size = copy[p].size /\ copy[p].size \in Nat

LEMMA TotalSame ==
  \A copy, more, ps : Alike(copy, more, ps) =>
    TotalOf(more, ps) = TotalOf(copy, ps) /\ TotalOf(copy, ps) \in Nat
<1> SUFFICES ASSUME NEW copy, NEW more, NEW ps, Alike(copy, more, ps)
             PROVE  TotalOf(more, ps) = TotalOf(copy, ps) /\ TotalOf(copy, ps) \in Nat
  OBVIOUS
<1> DEFINE f == [p \in ps |-> more[p].size]
           g == [p \in ps |-> copy[p].size]
<1>1. TotalOf(more, ps) = SumOver(f, ps) /\ TotalOf(copy, ps) = SumOver(g, ps)
  BY DEF TotalOf, SumOver, FoldFunctionOnSet, MapThenFoldSet
<1>2. \A p \in ps : f[p] = g[p] /\ g[p] \in Nat
  BY DEF Alike
<1> HIDE DEF f, g
<1>3. IsFiniteSet(ps)
  BY PathsAreFinite DEF Alike
<1> QED BY <1>1, <1>2, <1>3, SumAgrees, SumType

SizeIn(copy, p) == copy[p].size

LEMMA TotalMore ==
  \A copy, more, ps, q :
    Alike(copy, more, ps) /\ q \in Paths /\ ~(q \in ps) /\ SizeIn(more, q) \in Nat =>
      TotalOf(more, ps \cup {q}) = TotalOf(copy, ps) + SizeIn(more, q)
<1> SUFFICES ASSUME NEW copy, NEW more, NEW ps, NEW q \in Paths \ ps,
                    Alike(copy, more, ps), SizeIn(more, q) \in Nat
             PROVE  TotalOf(more, ps \cup {q}) = TotalOf(copy, ps) + SizeIn(more, q)
  OBVIOUS
<1> DEFINE f == [p \in ps \cup {q} |-> more[p].size]
           g == [p \in ps |-> copy[p].size]
<1>1. TotalOf(more, ps \cup {q}) = SumOver(f, ps \cup {q}) /\ TotalOf(copy, ps) = SumOver(g, ps)
  BY DEF TotalOf, SumOver, FoldFunctionOnSet, MapThenFoldSet
<1>2. /\ \A p \in ps : f[p] = g[p] /\ f[p] \in Nat /\ g[p] \in Nat
      /\ f[q] = SizeIn(more, q) /\ f[q] \in Nat
  BY DEF Alike, SizeIn
<1> HIDE DEF f, g
<1>3. IsFiniteSet(ps)
  BY PathsAreFinite DEF Alike
<1>4. SumOver(f, ps \cup {q}) = SumOver(f, ps) + f[q]
  BY <1>2, <1>3, SumAdd
<1>5. SumOver(f, ps) = SumOver(g, ps)
  BY <1>2, <1>3, SumAgrees
<1> QED BY <1>1, <1>2, <1>4, <1>5

LEMMA TotalOfNone == \A copy : TotalOf(copy, {}) = 0
<1>1. ASSUME NEW copy PROVE TotalOf(copy, {}) = 0
  <2> DEFINE f == [p \in {} |-> copy[p].size]
  <2>1. TotalOf(copy, {}) = SumOver(f, {})
    BY DEF TotalOf, SumOver, FoldFunctionOnSet, MapThenFoldSet
  <2> HIDE DEF f
  <2> QED BY <2>1, SumStep, FS_EmptySet
<1> QED BY <1>1

-----------------------------------------------------------------------------
(* The copy for Bandit *)

BanditFiles == [size: Nat, whole: BOOLEAN]
Copies == CopiesOf(BanditFiles)

BanditType ==
  [pc: {"list", "files", "run", "over"}, directories: Seq(Nodes), directory: Nodes,
   names: Seq(Paths), sub: Seq(Paths), copy: Copies, authorized: SUBSET Paths,
   copied: Nat, withheld: Nat, truncated: BOOLEAN,
   outcome: {"none", "unavailable", "timeout", "outputLimit", "report"},
   findings: SUBSET Paths, unreported: Nat, more: BOOLEAN]

\* The directories still to be listed, and the files of this one still to be read.
BanditAhead == Range(bandit.directories) \cup IF bandit.pc = "files" THEN Range(bandit.sub) ELSE {}
BanditWaiting == IF bandit.pc = "files" THEN Range(bandit.names) ELSE {}

\* Nothing is met twice: no directory to be listed is below another one, and no
\* file that was copied, or is about to be, is below one.
BanditApart ==
  bandit.pc \in {"list", "files"} =>
    /\ IsInjective(bandit.directories)
    /\ \A d, e \in BanditAhead : d # e => d \notin Over(e)
    /\ \A d \in BanditAhead : \A p \in DOMAIN bandit.copy \cup BanditWaiting : d \notin Over(p)
    /\ bandit.pc = "list" => bandit.directories # <<>>
    /\ bandit.pc = "files" =>
         /\ IsInjective(bandit.names) /\ BanditWaiting \cap DOMAIN bandit.copy = {}
         /\ Range(bandit.sub) \cap Range(bandit.directories) = {}

\* What is authorized was copied whole, and counted.
BanditWhole ==
  /\ \A p \in bandit.authorized : p \in DOMAIN bandit.copy /\ bandit.copy[p].whole
  /\ TotalOf(bandit.copy, {p \in DOMAIN bandit.copy : bandit.copy[p].whole}) = bandit.copied
  /\ bandit.copied <= MaxCopiedBytes
  /\ bandit.findings \subseteq bandit.authorized

\* A source that should be scanned is in the copy, or still on the way of the walk.
BanditDone(p) == p \in bandit.authorized \/ bandit.truncated
BanditCovers ==
  \A p \in BanditEligible :
    /\ bandit.pc \in {"list", "files"} =>
         \/ BanditDone(p)
         \/ \E e \in Range(bandit.directories) : e \in Over(p)
         \/ bandit.pc = "files" /\ p \in Range(bandit.names)
         \/ bandit.pc = "files" /\ \E q \in Range(bandit.sub) : q \in Above(p)
    /\ bandit.pc = "run" => BanditDone(p)
    /\ BanditReported => p \in bandit.findings \/ bandit.truncated

BanditInv ==
  bandit = BanditOff \/ (bandit \in BanditType /\ BanditApart /\ BanditWhole /\ BanditCovers)

LEMMA BanditSteps ==
  ASSUME BanditInv, bandit.pc # "off"
  PROVE  bandit \in BanditType /\ BanditApart /\ BanditWhole /\ BanditCovers
BY DEF BanditInv, BanditOff

\* A source that should be scanned is a file one may read, below directories one
\* may list; after a step it was so before.
LEMMA BanditEligibleFacts ==
  ASSUME NEW p \in BanditEligible
  PROVE  /\ p \in Paths /\ p \in Sources /\ p \notin BanditBlocked
         /\ Kind(p) = "file" /\ tree[p].size <= MaxSourceBytes
         /\ Anchored(Front(p)) /\ Untouched(p)
         /\ \A q \in Above(p) : Kind(q) = "dir" /\ Look(q) = "dir" /\ q \notin BanditSkipped
         /\ \A e \in Over(p) : Look(e) = "dir"
<1>1. p \in Paths /\ Anchored(Front(p))
  BY BanditAssumption DEF BanditEligible
<1>2. /\ \A q \in Above(p) : Kind(q) = "dir"
      /\ \A e \in Over(p) : Look(e) = "dir"
  BY <1>1, AnchoredAbove
<1>3. \A q \in Above(p) : q \in Over(p)
  BY DEF Over
<1> QED BY <1>1, <1>2, <1>3 DEF BanditEligible

LEMMA BanditEligibleStill ==
  ASSUME Moves, NEW p \in BanditEligible'
  PROVE  p \in BanditEligible /\ p \in Paths
<1>1. p \in Sources /\ p \in Paths /\ Untouched(p)'
  BY BanditAssumption DEF BanditEligible
<1>2. /\ Untouched(p) /\ Kind(p)' = Kind(p) /\ tree'[p] = tree[p]
      /\ Anchored(Front(p)) = Anchored(Front(p))'
  BY <1>1, Still DEF Nodes
<1> QED BY <1>1, <1>2 DEF BanditEligible

\* The others do not disturb the copy.
LEMMA BanditStands ==
  ASSUME Moves, BanditInv, UNCHANGED bandit
  PROVE  BanditInv'
<1>1. CASE bandit = BanditOff
  BY <1>1 DEF BanditInv, BanditOff
<1>2. CASE bandit \in BanditType /\ BanditApart /\ BanditWhole /\ BanditCovers
  <2>1. BanditApart' /\ BanditWhole'
    BY <1>2 DEF BanditApart, BanditWhole, BanditAhead, BanditWaiting
  <2>2. BanditCovers'
    BY <1>2, BanditEligibleStill DEF BanditCovers, BanditDone, BanditReported
  <2> QED BY <1>2, <2>1, <2>2 DEF BanditInv
<1> QED BY <1>1, <1>2 DEF BanditInv

LEMMA BanditBeginOK ==
  ASSUME WorldOK, bandit = BanditBegin
  PROVE  BanditInv
<1>1. /\ <<Top>> \in Seq(Nodes) /\ Range(<<Top>>) = {Top} /\ <<Top>> # <<>>
      /\ \A S : <<>> \in Seq(S)
  BY SingletonRange, EmptyRange DEF Nodes
<1>2. <<>> \in Copies /\ DOMAIN <<>> = {}
  <2>1. <<>> = [p \in {} |-> [size |-> 0, whole |-> TRUE]]
    OBVIOUS
  <2>2. <<>> \in [{} -> [size: Nat, whole: BOOLEAN]]
    BY <2>1
  <2> QED BY <2>2 DEF Copies, CopiesOf, BanditFiles
<1>3. /\ bandit.pc = "list" /\ bandit.directories = <<Top>> /\ bandit.copy = <<>>
      /\ bandit.authorized = {} /\ bandit.copied = 0 /\ bandit.findings = {}
  BY DEF BanditBegin
<1>4. bandit \in BanditType
  BY <1>1, <1>2 DEF BanditBegin, BanditType, Nodes
<1>5. BanditApart
  <2>1. IsInjective(<<Top>>)
    BY SingletonRange DEF IsInjective
  <2> QED BY <1>1, <1>2, <1>3, <2>1 DEF BanditApart, BanditAhead, BanditWaiting
<1>6. BanditWhole
  <2>1. {p \in DOMAIN bandit.copy : bandit.copy[p].whole} = {}
    BY <1>2, <1>3
  <2> QED BY <1>3, <2>1, TotalOfNone, BanditAssumption DEF BanditWhole
<1>7. BanditCovers
  BY <1>1, <1>3 DEF BanditCovers, BanditReported, Over
<1> QED BY <1>4, <1>5, <1>6, <1>7 DEF BanditInv

LEMMA BanditListStep ==
  ASSUME WorldOK, BanditInv, BanditList
  PROVE  BanditInv'
<1>1. /\ bandit.pc = "list" /\ bandit \in BanditType /\ BanditApart /\ BanditWhole /\ BanditCovers
      /\ UNCHANGED world /\ bandit.directories # <<>> /\ bandit.directories \in Seq(Nodes)
      /\ DOMAIN bandit.copy \in SUBSET Paths
  BY BanditSteps DEF BanditList, BanditApart, BanditType, Copies, CopiesOf
<1>0. PICK d \in Nodes : d = Head(bandit.directories)
  BY <1>1, HeadRange
<1> DEFINE met == IF Look(d) \in {"dir", "link"} THEN {p \in Children(d) : Kind(p) # "none"} ELSE {}
           files == {p \in met \cap Sources : ~IsDirectory(p)}
           dirs == {p \in met \ BanditSkipped : IsDirectory(p)}
           names == Sorted(files)
           sub == Sorted(dirs)
           rest == Tail(bandit.directories)
<1>2. files \in SUBSET Children(d) /\ dirs \in SUBSET Children(d) /\ Children(d) \in SUBSET Paths
  BY DEF Children
<1>3. /\ names \in Seq(Paths) /\ Range(names) = files /\ IsInjective(names)
      /\ sub \in Seq(Paths) /\ Range(sub) = dirs
  <2>1. files \in SUBSET Paths /\ dirs \in SUBSET Paths
    BY <1>2
  <2> HIDE DEF files, dirs
  <2> QED BY <2>1, SortedFacts, SeqOfSubset
<1>4. /\ rest \in Seq(Nodes) /\ Range(bandit.directories) = {d} \cup Range(rest)
      /\ IsInjective(rest) /\ d \notin Range(rest)
  BY <1>0, <1>1, HeadRange DEF BanditApart
<1>5. bandit' = [bandit EXCEPT !.pc = "files", !.directories = rest, !.directory = d,
                               !.names = names, !.sub = sub]
  BY <1>0 DEF BanditList
<1>6. ASSUME NEW p \in BanditEligible, d \in Over(p)
      PROVE  p \in files \/ \E q \in dirs : q \in Above(p)
  <2>1. PICK q \in Upto(p) : q \in Children(d)
    BY <1>6, BanditEligibleFacts, NextDown
  <2>2. Look(d) = "dir"
    BY <1>6, BanditEligibleFacts
  <2>3. CASE q = p
    BY <2>1, <2>2, <2>3, BanditEligibleFacts DEF IsDirectory
  <2>4. CASE q # p
    <3>1. q \in Above(p)
      BY <2>1, <2>4 DEF Above
    <3>2. Kind(q) = "dir" /\ q \notin BanditSkipped
      BY <3>1, BanditEligibleFacts
    <3> QED BY <2>1, <2>2, <3>1, <3>2 DEF IsDirectory
  <2> QED BY <2>3, <2>4
<1> HIDE DEF met, files, dirs, names, sub, rest
<1>7. bandit' \in BanditType
  BY <1>0, <1>1, <1>3, <1>4, <1>5 DEF BanditType
<1>8. /\ bandit'.pc = "files" /\ bandit'.directories = rest
      /\ bandit'.names = names /\ bandit'.sub = sub /\ bandit'.copy = bandit.copy
      /\ bandit'.authorized = bandit.authorized /\ bandit'.copied = bandit.copied
      /\ bandit'.findings = bandit.findings /\ bandit'.truncated = bandit.truncated
  BY <1>1, <1>5 DEF BanditType
<1>9. BanditWhole'
  BY <1>1, <1>8 DEF BanditWhole
<1>10. BanditApart'
  <2> DEFINE A == Range(bandit.directories)
             N == files \cup dirs
  <2>1. /\ A \in SUBSET Nodes /\ d \in A /\ \A e, f \in A : e # f => e \notin Over(f)
        /\ N \in SUBSET Children(d)
        /\ \A e \in A : \A p \in DOMAIN bandit.copy : e \notin Over(p)
    BY <1>1, <1>2, <1>4, EmptyRange DEF BanditApart, BanditAhead
  <2> HIDE DEF A, N
  <2>2. /\ N \subseteq Paths
        /\ \A q \in N : \A e \in A \ {d} : e \notin Over(q) /\ q \notin Over(e) /\ q # e
        /\ \A q, r \in N : q \notin Over(r)
        /\ \A q \in N : \A p \in Paths : d \notin Over(p) => q \notin Over(p) /\ q # p
    BY <2>1, GoingDown
  <2>3. \A q \in N : \A p \in DOMAIN bandit.copy : q \notin Over(p) /\ q # p
    BY <1>1, <2>1, <2>2
  <2>4. Range(rest) = A \ {d}
    BY <1>4 DEF A
  <2>5. BanditAhead' = Range(rest) \cup dirs /\ BanditWaiting' = files
    BY <1>3, <1>8 DEF BanditAhead, BanditWaiting
  <2>6. ASSUME NEW e \in BanditAhead', NEW f \in BanditAhead', e # f PROVE e \notin Over(f)
    BY <2>1, <2>2, <2>4, <2>5, <2>6 DEF N
  <2>7. ASSUME NEW e \in BanditAhead', NEW p \in DOMAIN bandit.copy \cup files
        PROVE  e \notin Over(p)
    BY <2>1, <2>2, <2>3, <2>4, <2>5, <2>7 DEF N
  <2>8. files \cap DOMAIN bandit.copy = {} /\ dirs \cap Range(rest) = {}
    BY <2>2, <2>3, <2>4 DEF N
  <2> QED BY <1>3, <1>4, <1>8, <2>5, <2>6, <2>7, <2>8 DEF BanditApart
<1>11. BanditCovers'
  <2>1. ASSUME NEW p \in BanditEligible'
        PROVE  \/ BanditDone(p)' \/ \E e \in Range(rest) : e \in Over(p)
               \/ p \in Range(names) \/ \E q \in Range(sub) : q \in Above(p)
    <3>1. p \in BanditEligible
      BY <1>1, <2>1, StandingMoves, BanditEligibleStill
    <3> QED BY <1>1, <1>3, <1>4, <1>6, <1>8, <3>1 DEF BanditCovers, BanditDone
  <2> QED BY <1>8, <2>1 DEF BanditCovers, BanditReported
<1> QED BY <1>7, <1>9, <1>10, <1>11 DEF BanditInv

\* The walk goes past a file: it is no source to be scanned, was copied, or the
\* copy is said to be truncated.
LEMMA BanditPasses ==
  ASSUME BanditInv, bandit.pc = "files", bandit.names # <<>>, Moves,
         NEW q, q = Head(bandit.names), bandit' \in BanditType, bandit'.pc = "files",
         bandit'.names = Tail(bandit.names), bandit'.directories = bandit.directories,
         bandit'.sub = bandit.sub,
         DOMAIN bandit'.copy \subseteq DOMAIN bandit.copy \cup {q},
         bandit.authorized \subseteq bandit'.authorized,
         bandit.truncated => bandit'.truncated,
         q \in BanditEligible' => q \in bandit'.authorized \/ bandit'.truncated,
         BanditWhole'
  PROVE  BanditInv'
<1>1. /\ bandit \in BanditType /\ BanditApart /\ BanditCovers /\ bandit.names \in Seq(Paths)
  BY BanditSteps DEF BanditType
<1>2. /\ Range(bandit.names) = {q} \cup Range(Tail(bandit.names))
      /\ IsInjective(Tail(bandit.names)) /\ q \notin Range(Tail(bandit.names))
  BY <1>1, HeadRange DEF BanditApart
<1>3. BanditApart'
  <2>1. /\ BanditAhead = Range(bandit.directories) \cup Range(bandit.sub)
        /\ BanditAhead' = Range(bandit.directories) \cup Range(bandit.sub)
        /\ BanditWaiting = Range(bandit.names)
        /\ BanditWaiting' = Range(Tail(bandit.names))
    BY DEF BanditAhead, BanditWaiting
  <2>2. DOMAIN bandit'.copy \cup BanditWaiting' \subseteq DOMAIN bandit.copy \cup BanditWaiting
    BY <1>2, <2>1
  <2>3. BanditWaiting' \cap DOMAIN bandit'.copy = {}
    BY <1>1, <1>2, <2>1 DEF BanditApart
  <2> QED BY <1>1, <1>2, <2>1, <2>2, <2>3 DEF BanditApart
<1>4. BanditCovers'
  <2>1. ASSUME NEW p \in BanditEligible'
        PROVE  \/ BanditDone(p)' \/ \E e \in Range(bandit.directories) : e \in Over(p)
               \/ p \in Range(Tail(bandit.names)) \/ \E r \in Range(bandit.sub) : r \in Above(p)
    <3>1. p \in BanditEligible
      BY <2>1, BanditEligibleStill
    <3>2. \/ BanditDone(p) \/ \E e \in Range(bandit.directories) : e \in Over(p)
          \/ p \in Range(bandit.names) \/ \E r \in Range(bandit.sub) : r \in Above(p)
      BY <1>1, <3>1 DEF BanditCovers
    <3> QED BY <1>2, <2>1, <3>2 DEF BanditDone
  <2> QED BY <2>1 DEF BanditCovers, BanditReported
<1> QED BY <1>3, <1>4 DEF BanditInv

\* What a step on the next file finds.
LEMMA BanditFileFacts ==
  ASSUME WorldOK, BanditInv, bandit.pc = "files", bandit.names # <<>>,
         NEW q, q = Head(bandit.names)
  PROVE  /\ bandit \in BanditType /\ BanditApart /\ BanditWhole /\ q \in Paths
         /\ Tail(bandit.names) \in Seq(Paths) /\ q \notin DOMAIN bandit.copy
         /\ bandit.copy \in Copies /\ bandit.authorized \in SUBSET Paths /\ bandit.copied \in Nat
         /\ bandit.withheld \in Nat /\ bandit.truncated \in BOOLEAN
         /\ tree[q].size \in Nat /\ BanditBudget \in Int
         /\ BanditBudget <= MaxCopiedBytes - bandit.copied /\ BanditBudget <= MaxSourceBytes
<1>1. bandit \in BanditType /\ BanditApart /\ BanditWhole /\ bandit.names \in Seq(Paths)
  BY BanditSteps DEF BanditType
<1>2. /\ q \in Paths /\ Tail(bandit.names) \in Seq(Paths)
      /\ Range(bandit.names) = {q} \cup Range(Tail(bandit.names))
  BY <1>1, HeadRange
<1>3. q \notin DOMAIN bandit.copy
  BY <1>1, <1>2 DEF BanditApart, BanditWaiting
<1>4. /\ bandit.copy \in Copies /\ bandit.authorized \in SUBSET Paths /\ bandit.copied \in Nat
      /\ bandit.withheld \in Nat /\ bandit.truncated \in BOOLEAN
  BY <1>1 DEF BanditType
<1>5. tree[q].size \in Nat
  BY <1>2 DEF WorldOK, Entries
<1>6. /\ BanditBudget \in Int /\ BanditBudget <= MaxCopiedBytes - bandit.copied
      /\ BanditBudget <= MaxSourceBytes
  <2>1. MaxSourceBytes \in Int /\ MaxCopiedBytes - bandit.copied \in Int
    BY <1>4, BanditAssumption
  <2>2. /\ BanditBudget = IF MaxSourceBytes <= MaxCopiedBytes - bandit.copied
                          THEN MaxSourceBytes ELSE MaxCopiedBytes - bandit.copied
    BY <2>1, Smaller DEF BanditBudget
  <2> QED BY <2>1, <2>2
<1> QED BY <1>1, <1>2, <1>3, <1>4, <1>5, <1>6

LEMMA BanditSkipStep ==
  ASSUME WorldOK, BanditInv, BanditSkip
  PROVE  BanditInv'
<1>1. /\ bandit.pc = "files" /\ bandit.names # <<>> /\ UNCHANGED world /\ Moves
  BY StandingMoves DEF BanditSkip
<1>0. PICK q : q = Head(bandit.names)
  OBVIOUS
<1> DEFINE cut == \/ bandit.truncated
                  \/ /\ q \notin BanditBlocked /\ SafeRead(q, BanditBudget).over
                     /\ tree[q].size <= MaxSourceBytes
<1>2. /\ bandit \in BanditType /\ BanditWhole /\ q \in Paths /\ Tail(bandit.names) \in Seq(Paths)
      /\ bandit.withheld \in Nat /\ bandit.truncated \in BOOLEAN
      /\ tree[q].size \in Nat /\ BanditBudget \in Int
  BY <1>0, <1>1, BanditFileFacts
<1>3. bandit' = [bandit EXCEPT !.names = Tail(bandit.names), !.withheld = bandit.withheld + 1,
                               !.truncated = cut]
  BY <1>0 DEF BanditSkip
<1>4. q \in BanditEligible' => cut
  <2>1. ASSUME q \in BanditEligible PROVE cut
    <3>1. /\ q \notin BanditBlocked /\ Kind(q) = "file" /\ Anchored(Front(q))
          /\ tree[q].size <= MaxSourceBytes
      BY <2>1, BanditEligibleFacts
    <3>2. ~SafeRead(q, BanditBudget).ok
      BY <1>0, <3>1 DEF BanditSkip
    <3>3. ~(tree[q].size <= BanditBudget)
      BY <3>1, <3>2, SafeReadFacts
    <3>4. tree[q].size > BanditBudget
      BY <1>2, <3>3, Budget
    <3> QED BY <3>1, <3>4, SafeReadFacts
  <2> QED BY <1>1, <2>1, BanditEligibleStill
<1>5. cut \in BOOLEAN /\ (bandit.truncated => cut)
  BY <1>2
<1> HIDE DEF cut
<1>6. bandit' \in BanditType
  <2>1. bandit.withheld + 1 \in Nat
    BY <1>2
  <2> QED BY <1>1, <1>2, <1>3, <1>5, <2>1 DEF BanditType
<1>7. /\ bandit'.pc = "files" /\ bandit'.directories = bandit.directories
      /\ bandit'.names = Tail(bandit.names) /\ bandit'.sub = bandit.sub
      /\ bandit'.copy = bandit.copy /\ bandit'.authorized = bandit.authorized
      /\ bandit'.copied = bandit.copied /\ bandit'.findings = bandit.findings
      /\ bandit'.truncated = cut
  BY <1>1, <1>2, <1>3 DEF BanditType
<1>8. BanditWhole'
  BY <1>2, <1>7 DEF BanditWhole
<1> QED BY <1>0, <1>1, <1>4, <1>5, <1>6, <1>7, <1>8, BanditPasses

LEMMA BanditCopyStep ==
  ASSUME WorldOK, BanditInv, BanditCopy
  PROVE  BanditInv'
<1>1. /\ bandit.pc = "files" /\ bandit.names # <<>> /\ UNCHANGED world /\ Moves
  BY StandingMoves DEF BanditCopy
<1>0. PICK q : q = Head(bandit.names)
  OBVIOUS
<1> DEFINE v == [size |-> tree[q].size, whole |-> TRUE]
           more == Added(bandit.copy, q, v)
           total == bandit.copied + tree[q].size
<1>2. /\ bandit \in BanditType /\ BanditWhole /\ q \in Paths /\ Tail(bandit.names) \in Seq(Paths)
      /\ q \notin DOMAIN bandit.copy /\ bandit.copy \in Copies
      /\ bandit.authorized \in SUBSET Paths /\ bandit.copied \in Nat
      /\ tree[q].size \in Nat /\ BanditBudget \in Int
      /\ BanditBudget <= MaxCopiedBytes - bandit.copied
  BY <1>0, <1>1, BanditFileFacts
<1>3. bandit' = [bandit EXCEPT !.names = Tail(bandit.names), !.copy = more,
                               !.authorized = bandit.authorized \cup {q}, !.copied = total]
  BY <1>0 DEF BanditCopy, Copied
<1>4. total \in Nat /\ total <= MaxCopiedBytes
  <2>1. tree[q].size <= BanditBudget
    BY <1>0 DEF BanditCopy, SafeRead
  <2> QED BY <1>2, <2>1, Budget, BanditAssumption
<1>5. /\ DOMAIN more = DOMAIN bandit.copy \cup {q} /\ DOMAIN bandit.copy \in SUBSET Paths
      /\ \A p \in DOMAIN bandit.copy :
           more[p] = bandit.copy[p] /\ bandit.copy[p] \in BanditFiles
      /\ more[q] = v /\ more \in Copies
  <2>1. v \in BanditFiles /\ bandit.copy \in CopiesOf(BanditFiles) /\ q \in Paths
    BY <1>2 DEF BanditFiles, Copies
  <2>2. more = Added(bandit.copy, q, v)
    OBVIOUS
  <2> HIDE DEF v, more
  <2>3. Grows(BanditFiles, bandit.copy, q, v, more)
    BY <2>1, <2>2, AddedFacts
  <2> QED BY <1>2, <2>3 DEF Copies, Grows
<1>6. v.whole = TRUE /\ v.size = tree[q].size
  OBVIOUS
<1> HIDE DEF v, more, total
<1>7. bandit' \in BanditType
  <2>1. bandit.authorized \cup {q} \in SUBSET Paths
    BY <1>2
  <2> QED BY <1>1, <1>2, <1>3, <1>4, <1>5, <2>1 DEF BanditType
<1>8. /\ bandit'.pc = "files" /\ bandit'.directories = bandit.directories
      /\ bandit'.names = Tail(bandit.names) /\ bandit'.sub = bandit.sub
      /\ bandit'.copy = more /\ bandit'.authorized = bandit.authorized \cup {q}
      /\ bandit'.copied = total /\ bandit'.findings = bandit.findings
      /\ bandit'.truncated = bandit.truncated
  BY <1>1, <1>2, <1>3 DEF BanditType
<1>9. BanditWhole'
  <2> DEFINE W == {p \in DOMAIN bandit.copy : bandit.copy[p].whole}
             V == {p \in DOMAIN more : more[p].whole}
  <2>1. V = W \cup {q}
    BY <1>5, <1>6
  <2>2. /\ W \in SUBSET Paths /\ q \in Paths \ W /\ more[q].size = tree[q].size
        /\ \A p \in W : more[p].size = bandit.copy[p].size /\ bandit.copy[p].size \in Nat
    BY <1>2, <1>5, <1>6 DEF BanditFiles
  <2>3. TotalOf(bandit.copy, W) = bandit.copied
    BY <1>2 DEF BanditWhole
  <2> HIDE DEF W
  <2>4. TotalOf(more, W \cup {q}) = total
    <3>1. /\ SizeIn(more, q) \in Nat /\ SizeIn(more, q) = tree[q].size
          /\ Alike(bandit.copy, more, W) /\ q \in Paths /\ ~(q \in W)
      BY <1>2, <2>2 DEF Alike, SizeIn
    <3>2. TotalOf(more, W \cup {q}) = TotalOf(bandit.copy, W) + SizeIn(more, q)
      BY <3>1, TotalMore
    <3> QED BY <2>3, <3>1, <3>2 DEF total
  <2>5. TotalOf(more, V) = total
    BY <2>1, <2>4
  <2>6. \A p \in bandit.authorized \cup {q} : p \in DOMAIN more /\ more[p].whole
    BY <1>2, <1>5, <1>6 DEF BanditWhole
  <2> QED BY <1>2, <1>4, <1>8, <2>5, <2>6 DEF BanditWhole
<1> QED BY <1>0, <1>1, <1>5, <1>7, <1>8, <1>9, BanditPasses

LEMMA BanditWriteFailsStep ==
  ASSUME WorldOK, BanditInv, BanditWriteFails
  PROVE  BanditInv' /\ WorldOK' /\ Moves
<1>1. bandit.pc = "files" /\ bandit.names # <<>>
  BY DEF BanditWriteFails
<1>0. PICK q : q = Head(bandit.names)
  OBVIOUS
<1> DEFINE v == [size |-> tree[q].size, whole |-> FALSE]
           left == Added(bandit.copy, q, v)
<1>2. /\ bandit \in BanditType /\ BanditWhole /\ q \in Paths /\ Tail(bandit.names) \in Seq(Paths)
      /\ q \notin DOMAIN bandit.copy /\ bandit.copy \in Copies
      /\ bandit.authorized \in SUBSET Paths /\ bandit.withheld \in Nat
      /\ tree[q].size \in Nat
  BY <1>0, <1>1, BanditFileFacts
<1>3. WorldOK' /\ Moves /\ q \in touched'
  <2>1. Fault(q) /\ q \in Nodes
    BY <1>0, <1>2 DEF BanditWriteFails, Nodes
  <2>2. q \in touched'
    BY <2>1 DEF Fault, Disturb
  <2> QED BY <2>1, <2>2, FaultMoves
<1>4. PICK copy \in {bandit.copy, left} :
        bandit' = [bandit EXCEPT !.names = Tail(bandit.names), !.copy = copy,
                                 !.withheld = bandit.withheld + 1]
  BY <1>0 DEF BanditWriteFails, Copied
<1>5. /\ DOMAIN left = DOMAIN bandit.copy \cup {q} /\ DOMAIN bandit.copy \in SUBSET Paths
      /\ \A p \in DOMAIN bandit.copy :
           left[p] = bandit.copy[p] /\ bandit.copy[p] \in BanditFiles
      /\ left[q] = v /\ left \in Copies
  <2>1. v \in BanditFiles /\ bandit.copy \in CopiesOf(BanditFiles) /\ q \in Paths
    BY <1>2 DEF BanditFiles, Copies
  <2>2. left = Added(bandit.copy, q, v)
    OBVIOUS
  <2> HIDE DEF v, left
  <2>3. Grows(BanditFiles, bandit.copy, q, v, left)
    BY <2>1, <2>2, AddedFacts
  <2> QED BY <1>2, <2>3 DEF Copies, Grows
<1>6. v.whole = FALSE
  OBVIOUS
<1> HIDE DEF v, left
<1>7. bandit' \in BanditType
  <2>1. bandit.withheld + 1 \in Nat /\ copy \in Copies
    BY <1>2, <1>4, <1>5
  <2> QED BY <1>1, <1>2, <1>4, <2>1 DEF BanditType
<1>8. /\ bandit'.pc = "files" /\ bandit'.directories = bandit.directories
      /\ bandit'.names = Tail(bandit.names) /\ bandit'.sub = bandit.sub
      /\ bandit'.copy = copy /\ bandit'.authorized = bandit.authorized
      /\ bandit'.copied = bandit.copied /\ bandit'.findings = bandit.findings
      /\ bandit'.truncated = bandit.truncated
  BY <1>1, <1>2, <1>4 DEF BanditType
<1>9. BanditWhole'
  <2> DEFINE W == {p \in DOMAIN bandit.copy : bandit.copy[p].whole}
             V == {p \in DOMAIN copy : copy[p].whole}
  <2>1. V = W /\ Alike(bandit.copy, copy, W)
    BY <1>4, <1>5, <1>6 DEF Alike, BanditFiles
  <2>2. TotalOf(bandit.copy, W) = bandit.copied
    BY <1>2 DEF BanditWhole
  <2> HIDE DEF W
  <2>3. TotalOf(copy, W) = bandit.copied
    BY <2>1, <2>2, TotalSame
  <2>4. TotalOf(copy, V) = bandit.copied
    BY <2>1, <2>3
  <2>5. \A p \in bandit.authorized : p \in DOMAIN copy /\ copy[p].whole
    BY <1>2, <1>4, <1>5 DEF BanditWhole
  <2> QED BY <1>2, <1>8, <2>4, <2>5 DEF BanditWhole
<1>10. q \notin BanditEligible'
  <2>1. q \in Upto(q)
    BY <1>2, PathFacts
  <2> QED BY <1>3, <2>1 DEF BanditEligible, Untouched
<1>11. DOMAIN copy \subseteq DOMAIN bandit.copy \cup {q}
  BY <1>4, <1>5
<1>12. BanditInv'
  BY <1>0, <1>1, <1>3, <1>7, <1>8, <1>9, <1>10, <1>11, BanditPasses
<1> QED BY <1>3, <1>12

LEMMA BanditDescendStep ==
  ASSUME WorldOK, BanditInv, BanditDescend
  PROVE  BanditInv'
<1>1. /\ bandit.pc = "files" /\ bandit.names = <<>> /\ UNCHANGED world /\ Moves
      /\ bandit \in BanditType /\ BanditApart /\ BanditWhole /\ BanditCovers
      /\ bandit.directories \in Seq(Nodes) /\ bandit.sub \in Seq(Paths)
      /\ Range(bandit.names) = {}
  BY BanditSteps, StandingMoves, EmptyRange DEF BanditDescend, BanditType
<1> DEFINE stay == {p \in Range(bandit.sub) : Look(p) # "link"}
           found == Sorted(stay)
           next == found \o bandit.directories
           pc == IF next = <<>> THEN "run" ELSE "list"
<1>2. stay \in SUBSET Paths /\ stay \subseteq Range(bandit.sub)
  BY <1>1, EmptyRange
<1>3. bandit' = [bandit EXCEPT !.pc = pc, !.directories = next]
  BY DEF BanditDescend
<1>4. ASSUME NEW p \in BanditEligible, NEW q \in Range(bandit.sub), q \in Above(p)
      PROVE  q \in stay /\ q \in Over(p)
  BY <1>4, BanditEligibleFacts DEF Over
<1>5. Range(bandit.sub) \cap Range(bandit.directories) = {} /\ IsInjective(bandit.directories)
  BY <1>1 DEF BanditApart
<1> HIDE DEF stay
<1>6. found \in Seq(Nodes) /\ Range(found) = stay /\ IsInjective(found)
  <2>1. found \in Seq(stay) /\ Range(found) = stay /\ IsInjective(found)
    BY <1>2, SortedFacts
  <2>2. stay \in SUBSET Nodes
    BY <1>2 DEF Nodes
  <2> QED BY <2>1, <2>2, SeqOfSubset
<1> HIDE DEF found
<1>7. /\ next \in Seq(Nodes) /\ Range(next) = stay \cup Range(bandit.directories)
      /\ IsInjective(next)
  BY <1>1, <1>2, <1>5, <1>6, ConcatRange, ConcatInjective
<1> HIDE DEF next
<1>8. pc \in {"run", "list"} /\ (pc = "run" <=> next = <<>>)
  OBVIOUS
<1> HIDE DEF pc
<1>9. bandit' \in BanditType
  BY <1>1, <1>3, <1>7, <1>8 DEF BanditType
<1>10. /\ bandit'.pc = pc /\ bandit'.directories = next
       /\ bandit'.names = bandit.names /\ bandit'.copy = bandit.copy
       /\ bandit'.authorized = bandit.authorized /\ bandit'.copied = bandit.copied
       /\ bandit'.findings = bandit.findings /\ bandit'.truncated = bandit.truncated
  BY <1>1, <1>3 DEF BanditType
<1>11. BanditWhole'
  BY <1>1, <1>10 DEF BanditWhole
<1>12. BanditApart'
  <2>1. BanditAhead' = stay \cup Range(bandit.directories) /\ BanditWaiting' = {}
    BY <1>7, <1>8, <1>10 DEF BanditAhead, BanditWaiting
  <2>2. BanditAhead = Range(bandit.directories) \cup Range(bandit.sub)
    BY <1>1 DEF BanditAhead
  <2>3. BanditAhead' \subseteq BanditAhead
    BY <1>2, <2>1, <2>2
  <2> QED BY <1>1, <1>7, <1>8, <1>10, <2>1, <2>3 DEF BanditApart
<1>13. BanditCovers'
  <2>1. ASSUME NEW p \in BanditEligible'
        PROVE  BanditDone(p)' \/ \E e \in Range(next) : e \in Over(p)
    <3>1. p \in BanditEligible
      BY <1>1, <2>1, BanditEligibleStill
    <3>2. \/ BanditDone(p)
          \/ \E e \in Range(bandit.directories) : e \in Over(p)
          \/ \E q \in Range(bandit.sub) : q \in Above(p)
      BY <1>1, <3>1 DEF BanditCovers
    <3> QED BY <1>4, <1>7, <1>10, <3>1, <3>2 DEF BanditDone
  <2>2. pc = "run" => Range(next) = {}
    BY <1>8, EmptyRange
  <2> QED BY <1>8, <1>10, <2>1, <2>2 DEF BanditCovers, BanditReported
<1> QED BY <1>9, <1>11, <1>12, <1>13 DEF BanditInv

LEMMA BanditFailsStep ==
  ASSUME WorldOK, BanditInv, BanditFails
  PROVE  BanditInv'
<1>1. /\ bandit.pc = "run" /\ UNCHANGED world
      /\ bandit \in BanditType /\ BanditWhole
  BY BanditSteps DEF BanditFails
<1>2. PICK why \in {"unavailable", "timeout", "outputLimit"} :
        bandit' = [bandit EXCEPT !.pc = "over", !.outcome = why]
  BY DEF BanditFails, BanditEnds
<1>3. bandit' \in BanditType
  BY <1>1, <1>2 DEF BanditType
<1>4. /\ bandit'.pc = "over" /\ bandit'.outcome = why /\ bandit'.copy = bandit.copy
      /\ bandit'.authorized = bandit.authorized /\ bandit'.copied = bandit.copied
      /\ bandit'.findings = bandit.findings
  BY <1>1, <1>2 DEF BanditType
<1>5. BanditWhole'
  BY <1>1, <1>4 DEF BanditWhole
<1>6. BanditApart' /\ BanditCovers'
  BY <1>2, <1>4 DEF BanditApart, BanditCovers, BanditReported
<1> QED BY <1>3, <1>5, <1>6 DEF BanditInv

LEMMA BanditReportsStep ==
  ASSUME WorldOK, BanditInv, BanditReports
  PROVE  BanditInv'
<1>1. /\ bandit.pc = "run" /\ UNCHANGED world /\ Moves
      /\ bandit \in BanditType /\ BanditWhole /\ BanditCovers
      /\ bandit.authorized \in SUBSET Paths /\ DOMAIN bandit.copy \in SUBSET Paths
  BY BanditSteps, StandingMoves DEF BanditReports, BanditType, Copies, CopiesOf
<1> DEFINE mapped == DOMAIN bandit.copy \cap bandit.authorized
           more == Cardinality(mapped) > BanditLimit
<1>2. PICK foreign \in Foreign :
        bandit' = [bandit EXCEPT !.pc = "over", !.outcome = "report", !.findings = mapped,
                                 !.unreported = foreign + Cardinality(DOMAIN bandit.copy \ mapped),
                                 !.more = more]
  BY Zenon DEF BanditReports
<1>3. mapped \in SUBSET Paths /\ mapped = bandit.authorized /\ more \in BOOLEAN
  BY <1>1 DEF BanditWhole
<1> DEFINE unreported == foreign + Cardinality(DOMAIN bandit.copy \ mapped)
<1>4. unreported \in Nat
  <2>1. IsFiniteSet(DOMAIN bandit.copy \ mapped)
    BY <1>1, PathsAreFinite
  <2> QED BY <2>1, FS_CardinalityType, BanditAssumption
<1> HIDE DEF mapped, more, unreported
<1>5. bandit' = [bandit EXCEPT !.pc = "over", !.outcome = "report", !.findings = mapped,
                               !.unreported = unreported, !.more = more]
  BY <1>2 DEF unreported
<1>6. bandit' \in BanditType
  BY <1>1, <1>3, <1>4, <1>5 DEF BanditType
<1>7. /\ bandit'.pc = "over" /\ bandit'.copy = bandit.copy
      /\ bandit'.authorized = bandit.authorized /\ bandit'.copied = bandit.copied
      /\ bandit'.findings = mapped /\ bandit'.truncated = bandit.truncated
  BY <1>1, <1>5 DEF BanditType
<1>8. BanditWhole'
  BY <1>1, <1>3, <1>7 DEF BanditWhole
<1>9. BanditApart'
  BY <1>7 DEF BanditApart
<1>10. BanditCovers'
  <2>1. ASSUME NEW p \in BanditEligible'
        PROVE  p \in mapped \/ bandit.truncated
    BY <1>1, <1>3, <2>1, BanditEligibleStill DEF BanditCovers, BanditDone
  <2> QED BY <1>7, <2>1 DEF BanditCovers
<1> QED BY <1>6, <1>8, <1>9, <1>10 DEF BanditInv

LEMMA BanditStep ==
  ASSUME WorldOK, BanditInv, BanditNext
  PROVE  BanditInv' /\ WorldOK' /\ Moves
<1>1. CASE BanditWriteFails
  BY <1>1, BanditWriteFailsStep
<1>2. CASE BanditList \/ BanditSkip \/ BanditCopy \/ BanditDescend \/ BanditFails \/ BanditReports
  <2>1. UNCHANGED world
    BY <1>2, Zenon DEF BanditList, BanditSkip, BanditCopy, BanditDescend, BanditFails, BanditReports
  <2>2. BanditInv'
    BY <1>2, BanditListStep, BanditSkipStep, BanditCopyStep, BanditDescendStep, BanditFailsStep,
       BanditReportsStep
  <2> QED BY <2>1, <2>2, StandingMoves
<1> QED BY <1>1, <1>2 DEF BanditNext

\* What the invariant of the scan says of its report.
LEMMA BanditAnswers ==
  ASSUME BanditInv
  PROVE  BanditMissesNothing /\ BanditReportsWholeFiles
<1>1. CASE bandit = BanditOff
  BY <1>1 DEF BanditOff, BanditMissesNothing, BanditReportsWholeFiles, BanditReported
<1>2. CASE bandit \in BanditType /\ BanditApart /\ BanditWhole /\ BanditCovers
  <2>1. BanditMissesNothing
    BY <1>2 DEF BanditMissesNothing, BanditCovers, BanditReported
  <2>2. BanditReportsWholeFiles
    BY <1>2 DEF BanditReportsWholeFiles, BanditWhole
  <2> QED BY <2>1, <2>2
<1> QED BY <1>1, <1>2 DEF BanditInv

-----------------------------------------------------------------------------
(* The snapshot for Git *)

SnapPlaces == [path: Nodes, depth: Nat]
SnapCopies == CopiesOf(Entries)

SnapType ==
  [pc: {"pop", "scan", "entries", "file", "config", "over"}, pending: Seq(SnapPlaces),
   source: Nodes, depth: Nat, names: SUBSET Paths, entry: Nodes, count: Nat,
   remaining: 0..MaxSnapshotBytes, copy: SnapCopies, late: BOOLEAN,
   outcome: {"none", "timeout", "denied", "notFound", "noGit", "unsupported", "copy"}]

\* What stays where it is during the call.
SnapStays(p) == Untouched(p) /\ Anchored(Front(p)) /\ Kind(p) # "none"

\* Listing a directory comes by what is below it, or fails for what is locked.
Leads(d, p) == d \in Over(p) \/ (d = p /\ Kind(p) = "locked")
PathsOf(pending) == {place.path : place \in Range(pending)}

\* The walk still comes by a path.
SnapAhead(p) ==
  \/ snap.pc \notin {"config", "over"} /\ \E d \in PathsOf(snap.pending) : Leads(d, p)
  \/ snap.pc = "scan" /\ Leads(snap.source, p)
  \/ snap.pc \in {"entries", "file"} /\ \E q \in snap.names : q \in Upto(p)
  \/ snap.pc = "file" /\ snap.entry = p

\* What stays is copied as it is, and is in the copy already or still ahead.
SnapTrue ==
  /\ snap.pc = "file" => snap.entry \in Paths
  /\ \A p \in DOMAIN snap.copy : SnapStays(p) => snap.copy[p] = tree[p] \/ Kind(p) = "locked"
SnapCovers ==
  ~(snap.pc = "over" /\ snap.outcome # "copy") =>
    \A p \in Paths : SnapStays(p) =>
      (p \in DOMAIN snap.copy /\ Kind(p) # "locked") \/ SnapAhead(p)

\* The copy has room for what it holds and for the file that is being copied.
SnapHolds == Cardinality(DOMAIN snap.copy)
SnapNeeds == IF snap.pc = "file" THEN 1 ELSE 0
SnapRoom == SnapHolds + SnapNeeds <= snap.count /\ SnapHolds + SnapNeeds <= MaxSnapshotEntries
SnapBytes == TotalOf(snap.copy, DOMAIN snap.copy) + snap.remaining <= MaxSnapshotBytes

SnapInv ==
  snap = SnapOff \/ (snap \in SnapType /\ SnapTrue /\ SnapCovers /\ SnapRoom /\ SnapBytes)

LEMMA SnapSteps ==
  ASSUME SnapInv, snap.pc # "off"
  PROVE  /\ snap \in SnapType /\ SnapTrue /\ SnapCovers /\ SnapRoom /\ SnapBytes
         /\ snap.copy \in SnapCopies /\ DOMAIN snap.copy \in SUBSET Paths
         /\ SnapHolds \in Nat /\ snap.count \in Nat /\ snap.remaining \in Nat
<1>1. snap \in SnapType /\ SnapTrue /\ SnapCovers /\ SnapRoom /\ SnapBytes
  BY DEF SnapInv, SnapOff
<1>2. snap.copy \in SnapCopies /\ snap.count \in Nat /\ snap.remaining \in 0..MaxSnapshotBytes
  BY <1>1 DEF SnapType
<1>3. DOMAIN snap.copy \in SUBSET Paths
  BY <1>2 DEF SnapCopies, CopiesOf
<1>4. SnapHolds \in Nat
  BY <1>3, PathsAreFinite, FS_CardinalityType DEF SnapHolds
<1>5. snap.remaining \in Nat
  BY <1>2, SnapshotAssumption
<1> QED BY <1>1, <1>2, <1>3, <1>4, <1>5

LEMMA SnapStaysStill ==
  ASSUME Moves, NEW p \in Paths, SnapStays(p)'
  PROVE  /\ SnapStays(p) /\ tree'[p] = tree[p] /\ Kind(p)' = Kind(p)
         /\ \A d : Leads(d, p) => Leads(d, p)'
<1>1. /\ Untouched(p) /\ Kind(p)' = Kind(p) /\ tree'[p] = tree[p]
      /\ Anchored(Front(p)) = Anchored(Front(p))'
  BY Still DEF Nodes, SnapStays
<1> QED BY <1>1 DEF SnapStays, Leads

LEMMA SnapStaysFacts ==
  ASSUME NEW p \in Paths, SnapStays(p)
  PROVE  /\ Kind(p) = tree[p].kind /\ Look(p) = Kind(p) /\ Kind(p) # "none"
         /\ \A q \in Upto(p) : q \in Paths /\ (q = p \/ (q \in Over(p) /\ Kind(q) = "dir"))
         /\ \A d \in Over(p) : Look(d) = "dir"
<1>1. /\ Anchored(Front(p)) /\ p # Top
  BY PathFacts DEF SnapStays
<1>2. /\ \A q \in Above(p) : Kind(q) = "dir"
      /\ \A e \in Over(p) : Kind(e) = "dir" /\ Look(e) = "dir"
      /\ Look(p) = Kind(p)
  BY <1>1, AnchoredAbove
<1> QED BY <1>1, <1>2, PathFacts DEF Above, Over, Kind, SnapStays

\* What is in the copy and stays goes on being what is in the tree.
LEMMA SnapTrueStill ==
  ASSUME Moves, SnapInv, snap.pc # "off", snap'.copy = snap.copy
  PROVE  \A p \in DOMAIN snap'.copy :
           SnapStays(p)' => snap'.copy[p] = tree'[p] \/ Kind(p)' = "locked"
BY SnapSteps, SnapStaysStill DEF SnapTrue

\* The others do not disturb the copy.
LEMMA SnapStands ==
  ASSUME Moves, SnapInv, UNCHANGED snap
  PROVE  SnapInv'
<1>1. CASE snap = SnapOff
  BY <1>1 DEF SnapInv, SnapOff
<1>2. CASE snap.pc # "off"
  <2>1. snap \in SnapType /\ SnapTrue /\ SnapCovers /\ SnapRoom /\ SnapBytes
    BY <1>2, SnapSteps
  <2>2. SnapRoom' /\ SnapBytes'
    BY <2>1 DEF SnapRoom, SnapBytes, SnapHolds, SnapNeeds
  <2>3. SnapTrue'
    BY <1>2, <2>1, SnapTrueStill DEF SnapTrue
  <2>4. SnapCovers'
    <3>1. ASSUME NEW p \in Paths, SnapStays(p)',
                 (p \in DOMAIN snap.copy /\ Kind(p) # "locked") \/ SnapAhead(p)
          PROVE  (p \in DOMAIN snap'.copy /\ Kind(p)' # "locked") \/ SnapAhead(p)'
      BY <3>1, SnapStaysStill DEF SnapAhead
    <3> QED BY <2>1, <3>1, SnapStaysStill DEF SnapCovers
  <2> QED BY <2>1, <2>2, <2>3, <2>4 DEF SnapInv
<1> QED BY <1>1, <1>2 DEF SnapInv, SnapOff, SnapType

LEMMA PathsOfFacts ==
  /\ PathsOf(<<>>) = {}
  /\ \A place \in SnapPlaces : PathsOf(<<place>>) = {place.path}
  /\ \A s \in Seq(SnapPlaces) : \A place \in SnapPlaces :
       /\ Append(s, place) \in Seq(SnapPlaces)
       /\ PathsOf(Append(s, place)) = PathsOf(s) \cup {place.path}
<1>1. PathsOf(<<>>) = {}
  BY EmptyRange DEF PathsOf
<1>2. ASSUME NEW place \in SnapPlaces PROVE PathsOf(<<place>>) = {place.path}
  <2>1. Range(<<place>>) = {place}
    BY SingletonRange
  <2> QED BY <2>1 DEF PathsOf
<1>3. ASSUME NEW s \in Seq(SnapPlaces), NEW place \in SnapPlaces
      PROVE  /\ Append(s, place) \in Seq(SnapPlaces)
             /\ PathsOf(Append(s, place)) = PathsOf(s) \cup {place.path}
  <2>1. Append(s, place) \in Seq(SnapPlaces) /\ Range(Append(s, place)) = Range(s) \cup {place}
    BY AppendRange
  <2> QED BY <2>1 DEF PathsOf
<1> QED BY <1>1, <1>2, <1>3

LEMMA LastFacts ==
  ASSUME NEW s \in Seq(SnapPlaces), s # <<>>
  PROVE  /\ Last(s) \in SnapPlaces /\ Front(s) \in Seq(SnapPlaces)
         /\ PathsOf(s) \subseteq PathsOf(Front(s)) \cup {Last(s).path}
<1>1. Len(s) \in Nat /\ Len(s) > 0 /\ DOMAIN s = 1..Len(s)
  BY EmptyRange, LenProperties
<1>2. Last(s) \in SnapPlaces
  <2>1. Len(s) \in 1..Len(s)
    BY <1>1
  <2> QED BY <2>1, ElementOfSeq DEF Last
<1>3. PICK n \in 0..Len(s) : n = Len(s) - 1
  <2>1. Len(s) - 1 \in 0..Len(s)
    BY <1>1
  <2> QED BY <2>1
<1>4. Front(s) = SubSeq(s, 1, n)
  BY <1>3 DEF Front
<1>5. Front(s) \in Seq(SnapPlaces) /\ Len(Front(s)) = n
  <2>1. SubSeq(s, 1, n) \in Seq(SnapPlaces) /\ Len(SubSeq(s, 1, n)) = n
    BY BeginningRange
  <2> QED BY <1>4, <2>1
<1>6. \A i \in 1..n : Front(s)[i] = s[i]
  <2>1. \A i \in 1..n : s[i] \in SnapPlaces
    BY <1>1, ElementOfSeq
  <2>2. \A j \in 1..(n - 1 + 1) : SubSeq(s, 1, n)[j] = s[1 + j - 1]
    BY <2>1, SubSeqProperties, 1 \in Int, n \in Int
  <2> QED BY <1>4, <2>2
<1>7. ASSUME NEW i \in DOMAIN s PROVE s[i] \in Range(Front(s)) \cup {Last(s)}
  <2>1. CASE i = Len(s)
    BY <2>1 DEF Last
  <2>2. CASE i # Len(s)
    <3>1. i \in 1..n
      BY <1>1, <1>3, <2>2
    <3>2. i \in DOMAIN Front(s)
      BY <1>5, <3>1, LenProperties
    <3> QED BY <1>6, <3>1, <3>2 DEF Range
  <2> QED BY <2>1, <2>2
<1>8. Range(s) \subseteq Range(Front(s)) \cup {Last(s)}
  BY <1>7 DEF Range
<1> QED BY <1>2, <1>5, <1>8 DEF PathsOf

LEMMA SnapBeginOK ==
  ASSUME WorldOK, snap = SnapBegin
  PROVE  SnapInv
<1> DEFINE start == [path |-> Top, depth |-> 0]
<1>1. start \in SnapPlaces /\ start.path = Top
  BY DEF SnapPlaces, Nodes
<1> HIDE DEF start
<1>2. <<start>> \in Seq(SnapPlaces) /\ PathsOf(<<start>>) = {Top}
  BY <1>1, SingletonRange, PathsOfFacts
<1>3. <<>> \in SnapCopies /\ DOMAIN <<>> = {}
  <2>1. <<>> = [p \in {} |-> [kind |-> "none", size |-> 0]]
    OBVIOUS
  <2>2. <<>> \in [{} -> Entries]
    BY <2>1
  <2> QED BY <2>2 DEF SnapCopies, CopiesOf
<1>4. /\ snap.pc = "pop" /\ snap.pending = <<start>> /\ snap.copy = <<>> /\ snap.count = 0
      /\ snap.remaining = MaxSnapshotBytes
  BY DEF SnapBegin, start
<1>5. snap \in SnapType
  <2>1. Top \in Nodes /\ 0 \in Nat /\ {} \in SUBSET Paths /\ MaxSnapshotBytes \in 0..MaxSnapshotBytes
    BY SnapshotAssumption DEF Nodes
  <2>2. snap = [pc |-> "pop", pending |-> <<start>>, source |-> Top, depth |-> 0,
                names |-> {}, entry |-> Top, count |-> 0, remaining |-> MaxSnapshotBytes,
                copy |-> <<>>, late |-> FALSE, outcome |-> "none"]
    BY DEF SnapBegin, start
  <2> QED BY <1>2, <1>3, <2>1, <2>2 DEF SnapType
<1>6. SnapTrue
  BY <1>3, <1>4 DEF SnapTrue
<1>7. SnapCovers
  BY <1>2, <1>4 DEF SnapCovers, SnapAhead, Leads, Over
<1>8. SnapRoom
  BY <1>3, <1>4, FS_EmptySet, SnapshotAssumption DEF SnapRoom, SnapHolds, SnapNeeds
<1>9. SnapBytes
  <2>1. TotalOf(snap.copy, DOMAIN snap.copy) = 0
    BY <1>3, <1>4, TotalOfNone
  <2> QED BY <1>4, <2>1, SnapshotAssumption DEF SnapBytes
<1> QED BY <1>5, <1>6, <1>7, <1>8, <1>9 DEF SnapInv

\* A step that copies nothing, and either ends without a copy or leaves ahead
\* what was ahead.
LEMMA SnapKeeps ==
  ASSUME Moves, SnapInv, snap.pc \notin {"off", "over"}, snap' \in SnapType,
         snap'.copy = snap.copy, snap'.remaining = snap.remaining, snap'.count >= snap.count,
         snap'.pc = "file" => snap.pc = "file" /\ snap'.entry = snap.entry,
         \/ snap'.pc = "over" /\ snap'.outcome # "copy"
         \/ \A p \in Paths : SnapStays(p) /\ SnapStays(p)' /\ SnapAhead(p) =>
             (p \in DOMAIN snap.copy /\ Kind(p) # "locked") \/ SnapAhead(p)'
  PROVE  SnapInv'
<1>1. /\ SnapTrue /\ SnapCovers /\ SnapRoom /\ SnapBytes /\ SnapHolds \in Nat
      /\ snap.count \in Nat /\ snap'.count \in Nat
  BY SnapSteps DEF SnapType
<1>2. SnapTrue'
  BY <1>1, SnapTrueStill DEF SnapTrue
<1>3. SnapBytes'
  BY <1>1 DEF SnapBytes
<1>4. SnapRoom'
  <2>1. SnapHolds' = SnapHolds /\ SnapNeeds' <= SnapNeeds /\ SnapNeeds \in Nat /\ SnapNeeds' \in Nat
    BY DEF SnapHolds, SnapNeeds
  <2> QED BY <1>1, <2>1, SnapshotAssumption DEF SnapRoom
<1>5. SnapCovers'
  <2>1. ASSUME NEW p \in Paths, SnapStays(p)', ~(snap'.pc = "over" /\ snap'.outcome # "copy")
        PROVE  (p \in DOMAIN snap'.copy /\ Kind(p)' # "locked") \/ SnapAhead(p)'
    <3>1. SnapStays(p) /\ Kind(p)' = Kind(p)
      BY <2>1, SnapStaysStill
    <3>2. (p \in DOMAIN snap.copy /\ Kind(p) # "locked") \/ SnapAhead(p)
      BY <1>1, <3>1 DEF SnapCovers
    <3> QED BY <2>1, <3>1, <3>2
  <2> QED BY <2>1 DEF SnapCovers
<1> QED BY <1>2, <1>3, <1>4, <1>5 DEF SnapInv

\* The snapshot is given up.
LEMMA SnapGivesUp ==
  ASSUME Moves, SnapInv, snap.pc \notin {"off", "over"},
         NEW why \in {"timeout", "denied", "notFound", "noGit", "unsupported"}, SnapEnds(why)
  PROVE  SnapInv'
<1>1. snap \in SnapType /\ snap.count \in Nat
  BY SnapSteps
<1>2. snap' = [snap EXCEPT !.pc = "over", !.outcome = why]
  BY DEF SnapEnds
<1>3. snap' \in SnapType
  BY <1>1, <1>2 DEF SnapType
<1>4. /\ snap'.pc = "over" /\ snap'.outcome = why /\ snap'.copy = snap.copy
      /\ snap'.remaining = snap.remaining /\ snap'.count = snap.count
  BY <1>1, <1>2 DEF SnapType
<1>5. snap'.count >= snap.count
  BY <1>1, <1>4
<1> QED BY <1>3, <1>4, <1>5, SnapKeeps

LEMMA LinkChainFacts == \A p : LinkChain(p) \in {"ok", "notFound", "denied"}
BY DEF LinkChain

LEMMA SnapLateStep ==
  ASSUME WorldOK, SnapInv, SnapLate
  PROVE  SnapInv'
<1>1. /\ snap.pc \notin {"off", "over"} /\ UNCHANGED world /\ Moves
      /\ snap \in SnapType /\ snap.count \in Nat
      /\ snap' = [snap EXCEPT !.late = TRUE]
  BY SnapSteps, StandingMoves DEF SnapLate
<1>2. snap' \in SnapType
  BY <1>1 DEF SnapType
<1>3. /\ snap'.pc = snap.pc /\ snap'.outcome = snap.outcome /\ snap'.copy = snap.copy
      /\ snap'.remaining = snap.remaining /\ snap'.count = snap.count
      /\ snap'.pending = snap.pending /\ snap'.source = snap.source
      /\ snap'.names = snap.names /\ snap'.entry = snap.entry
  BY <1>1 DEF SnapType
<1>4. snap'.count >= snap.count
  BY <1>1, <1>3
<1>5. \A p \in Paths : SnapStays(p) /\ SnapStays(p)' /\ SnapAhead(p) => SnapAhead(p)'
  BY <1>1, <1>3, SnapStaysStill DEF SnapAhead
<1> QED BY <1>1, <1>2, <1>3, <1>4, <1>5, SnapKeeps

LEMMA SnapPopStep ==
  ASSUME WorldOK, SnapInv, SnapPop
  PROVE  SnapInv'
<1>1. /\ snap.pc = "pop" /\ snap.pending # <<>> /\ UNCHANGED world /\ Moves
      /\ snap \in SnapType /\ snap.count \in Nat /\ snap.pending \in Seq(SnapPlaces)
  BY SnapSteps, StandingMoves DEF SnapPop, SnapType
<1>0. PICK next : next = Last(snap.pending)
  OBVIOUS
<1> DEFINE rest == Front(snap.pending)
<1>2. /\ next \in SnapPlaces /\ rest \in Seq(SnapPlaces)
      /\ PathsOf(snap.pending) \subseteq PathsOf(rest) \cup {next.path}
  BY <1>0, <1>1, LastFacts
<1> HIDE DEF rest
<1>3. \/ SnapEnds("timeout") \/ SnapEnds("denied") \/ SnapEnds("notFound")
      \/ snap' = [snap EXCEPT !.pc = "scan", !.pending = rest,
                              !.source = next.path, !.depth = next.depth]
  BY <1>0, LinkChainFacts DEF SnapPop, rest
<1>4. CASE SnapEnds("timeout") \/ SnapEnds("denied") \/ SnapEnds("notFound")
  BY <1>1, <1>4, SnapGivesUp
<1>5. CASE snap' = [snap EXCEPT !.pc = "scan", !.pending = rest,
                                !.source = next.path, !.depth = next.depth]
  <2>1. next.path \in Nodes /\ next.depth \in Nat
    BY <1>2 DEF SnapPlaces
  <2>2. snap' \in SnapType
    BY <1>1, <1>2, <1>5, <2>1 DEF SnapType
  <2>3. /\ snap'.pc = "scan" /\ snap'.copy = snap.copy /\ snap'.pending = rest
        /\ snap'.remaining = snap.remaining /\ snap'.count = snap.count
        /\ snap'.source = next.path
    BY <1>1, <1>5 DEF SnapType
  <2>4. snap'.count >= snap.count
    BY <1>1, <2>3
  <2>5. ASSUME NEW p \in Paths, SnapStays(p)', SnapAhead(p) PROVE SnapAhead(p)'
    <3>1. \E d \in PathsOf(snap.pending) : Leads(d, p)
      BY <1>1, <2>5 DEF SnapAhead
    <3>2. \E d \in PathsOf(rest) \cup {next.path} : Leads(d, p)'
      BY <1>1, <1>2, <2>5, <3>1, SnapStaysStill
    <3> QED BY <2>3, <3>2 DEF SnapAhead
  <2> QED BY <1>1, <2>2, <2>3, <2>4, <2>5, SnapKeeps
<1> QED BY <1>3, <1>4, <1>5

LEMMA SnapScanStep ==
  ASSUME WorldOK, SnapInv, SnapScan
  PROVE  SnapInv'
<1>1. /\ snap.pc = "scan" /\ UNCHANGED world /\ Moves
      /\ snap \in SnapType /\ snap.count \in Nat /\ snap.source \in Nodes
  BY SnapSteps, StandingMoves DEF SnapScan, SnapType
<1>0. PICK d \in Nodes : d = snap.source
  BY <1>1
<1> DEFINE names == {p \in Children(d) : Kind(p) # "none"}
<1>2. CASE SnapEnds("denied")
  BY <1>1, <1>2, SnapGivesUp
<1>3. CASE Look(d) \in {"dir", "link"} /\ snap' = [snap EXCEPT !.pc = "entries", !.names = names]
  <2>1. names \in SUBSET Paths
    BY DEF Children
  <2>2. ASSUME NEW p \in Paths, SnapStays(p), Leads(d, p) PROVE \E q \in names : q \in Upto(p)
    <3>1. d # p \/ Kind(p) # "locked"
      BY <1>3, <2>2, SnapStaysFacts
    <3>2. d \in Over(p)
      BY <2>2, <3>1 DEF Leads
    <3>3. PICK q \in Upto(p) : q \in Children(d)
      BY <3>2, NextDown
    <3>4. Kind(q) # "none"
      BY <2>2, <3>3, SnapStaysFacts
    <3> QED BY <3>3, <3>4
  <2> HIDE DEF names
  <2>3. snap' \in SnapType
    BY <1>1, <1>3, <2>1 DEF SnapType
  <2>4. /\ snap'.pc = "entries" /\ snap'.copy = snap.copy /\ snap'.pending = snap.pending
        /\ snap'.remaining = snap.remaining /\ snap'.count = snap.count
        /\ snap'.names = names
    BY <1>1, <1>3 DEF SnapType
  <2>5. snap'.count >= snap.count
    BY <1>1, <2>4
  <2>6. ASSUME NEW p \in Paths, SnapStays(p), SnapStays(p)', SnapAhead(p) PROVE SnapAhead(p)'
    <3>1. (\E e \in PathsOf(snap.pending) : Leads(e, p)) \/ Leads(d, p)
      BY <1>0, <1>1, <2>6 DEF SnapAhead
    <3>2. (\E e \in PathsOf(snap.pending) : Leads(e, p)') \/ \E q \in names : q \in Upto(p)
      BY <1>1, <2>2, <2>6, <3>1, SnapStaysStill
    <3> QED BY <2>4, <3>2 DEF SnapAhead
  <2> QED BY <1>1, <2>3, <2>4, <2>5, <2>6, SnapKeeps
<1> QED BY <1>0, <1>2, <1>3 DEF SnapScan

LEMMA SnapFailsStep ==
  ASSUME WorldOK, SnapInv, SnapFails
  PROVE  SnapInv' /\ WorldOK' /\ Moves
<1>1. /\ snap.pc \in {"scan", "file"} /\ SnapEnds("denied")
      /\ snap \in SnapType /\ snap.source \in Nodes /\ snap.entry \in Nodes
  BY SnapSteps DEF SnapFails, SnapType
<1>2. PICK p \in Nodes : Fault(p)
  BY <1>1 DEF SnapFails
<1>3. WorldOK' /\ Moves
  BY <1>2, FaultMoves
<1> QED BY <1>1, <1>3, SnapGivesUp

LEMMA SnapNextStep ==
  ASSUME WorldOK, SnapInv, SnapNext
  PROVE  SnapInv'
<1>1. /\ snap.pc = "entries" /\ snap.names = {} /\ UNCHANGED world /\ Moves
      /\ snap \in SnapType /\ snap.count \in Nat
  BY SnapSteps, StandingMoves DEF SnapNext
<1> DEFINE pc == IF snap.pending = <<>> THEN "config" ELSE "pop"
<1>2. snap' = [snap EXCEPT !.pc = pc]
  BY DEF SnapNext, SnapGoes
<1>3. pc \in {"config", "pop"} /\ (pc = "config" => PathsOf(snap.pending) = {})
  BY PathsOfFacts
<1> HIDE DEF pc
<1>4. snap' \in SnapType
  BY <1>1, <1>2, <1>3 DEF SnapType
<1>5. /\ snap'.pc = pc /\ snap'.copy = snap.copy /\ snap'.pending = snap.pending
      /\ snap'.remaining = snap.remaining /\ snap'.count = snap.count
  BY <1>1, <1>2 DEF SnapType
<1>6. snap'.count >= snap.count
  BY <1>1, <1>5
<1>7. ASSUME NEW p \in Paths, SnapStays(p)', SnapAhead(p) PROVE SnapAhead(p)'
  BY <1>1, <1>3, <1>5, <1>7, SnapStaysStill DEF SnapAhead
<1> QED BY <1>1, <1>3, <1>4, <1>5, <1>6, <1>7, SnapKeeps

LEMMA SnapConfigStep ==
  ASSUME WorldOK, SnapInv, SnapConfig
  PROVE  SnapInv'
<1>1. /\ snap.pc = "config" /\ UNCHANGED world /\ Moves
      /\ snap \in SnapType /\ snap.count \in Nat
  BY SnapSteps, StandingMoves DEF SnapConfig
<1>2. \/ SnapEnds("denied") \/ SnapEnds("noGit") \/ SnapEnds("timeout") \/ SnapEnds("unsupported")
      \/ SnapEnds("copy")
  BY DEF SnapConfig
<1>3. CASE SnapEnds("denied") \/ SnapEnds("noGit") \/ SnapEnds("timeout") \/ SnapEnds("unsupported")
  BY <1>1, <1>3, SnapGivesUp
<1>4. CASE SnapEnds("copy")
  <2>1. snap' = [snap EXCEPT !.pc = "over", !.outcome = "copy"]
    BY <1>4 DEF SnapEnds
  <2>2. snap' \in SnapType
    BY <1>1, <2>1 DEF SnapType
  <2>3. /\ snap'.pc = "over" /\ snap'.copy = snap.copy
        /\ snap'.remaining = snap.remaining /\ snap'.count = snap.count
    BY <1>1, <2>1 DEF SnapType
  <2>4. snap'.count >= snap.count
    BY <1>1, <2>3
  <2>5. \A p : ~SnapAhead(p)
    BY <1>1 DEF SnapAhead
  <2> QED BY <1>1, <2>2, <2>3, <2>4, <2>5, SnapKeeps
<1> QED BY <1>2, <1>3, <1>4

EntrySize(e) == e.size

\* What one thing more costs.
Costs(copy, q, e, more) ==
  /\ Cardinality(DOMAIN more) \in Nat /\ Cardinality(DOMAIN more) <= Cardinality(DOMAIN copy) + 1
  /\ TotalOf(copy, DOMAIN copy) \in Nat /\ TotalOf(more, DOMAIN more) \in Nat
  /\ TotalOf(more, DOMAIN more) <= TotalOf(copy, DOMAIN copy) + EntrySize(e)

LEMMA AddedCosts ==
  \A copy, q, e, more :
    copy \in SnapCopies /\ q \in Paths /\ e \in Entries /\ more = Added(copy, q, e)
      => Costs(copy, q, e, more)
<1> SUFFICES ASSUME NEW copy \in SnapCopies, NEW q \in Paths, NEW e \in Entries,
                    NEW more, more = Added(copy, q, e)
             PROVE  Costs(copy, q, e, more)
  OBVIOUS
<1> DEFINE ps == DOMAIN copy
           n == Cardinality(ps)
<1>1. Grows(Entries, copy, q, e, more)
  BY AddedFacts DEF SnapCopies
<1>2. /\ ps \in SUBSET Paths /\ DOMAIN more = ps \cup {q}
      /\ \A p \in ps : more[p] = copy[p] /\ copy[p].size \in Nat
      /\ q \notin ps => more[q] = e
      /\ e.size \in Nat
  BY <1>1 DEF Grows, Entries
<1>3. IsFiniteSet(ps) /\ n \in Nat
  BY <1>2, PathsAreFinite, FS_CardinalityType
<1>4. Alike(copy, more, ps)
  BY <1>2 DEF Alike
<1>5. TotalOf(more, ps) = TotalOf(copy, ps) /\ TotalOf(copy, ps) \in Nat
  BY <1>4, TotalSame
<1>6. EntrySize(e) \in Nat
  BY <1>2 DEF EntrySize
<1>7. CASE q \in ps
  <2>1. DOMAIN more = ps
    BY <1>2, <1>7
  <2> QED BY <1>3, <1>5, <1>6, <2>1 DEF Costs
<1>8. CASE q \notin ps
  <2>1. Cardinality(ps \cup {q}) = n + 1
    BY <1>3, <1>8, FS_AddElement
  <2>2. SizeIn(more, q) = EntrySize(e)
    BY <1>2, <1>8 DEF SizeIn, EntrySize
  <2>3. TotalOf(more, ps \cup {q}) = TotalOf(copy, ps) + SizeIn(more, q)
    BY <1>4, <1>6, <1>8, <2>2, TotalMore
  <2>4. DOMAIN more = ps \cup {q}
    BY <1>2
  <2> HIDE DEF ps, n
  <2>5. /\ Cardinality(DOMAIN more) = n + 1
        /\ TotalOf(more, DOMAIN more) = TotalOf(copy, ps) + EntrySize(e)
    BY <2>1, <2>2, <2>3, <2>4
  <2> QED BY <1>3, <1>5, <1>6, <2>5 DEF Costs, ps, n
<1> QED BY <1>7, <1>8

\* A step that copies one thing more.
LEMMA SnapAdds ==
  ASSUME Moves, UNCHANGED world, SnapInv, snap.pc \notin {"off", "over"},
         NEW q \in Paths, NEW e \in Entries, snap' \in SnapType,
         snap'.copy = Added(snap.copy, q, e), snap'.pc = "entries",
         snap'.remaining = snap.remaining - EntrySize(e),
         SnapHolds + 1 <= snap'.count, SnapHolds + 1 <= MaxSnapshotEntries,
         SnapStays(q) => e = tree[q] \/ Kind(q) = "locked",
         \A p \in Paths : SnapStays(p) /\ SnapAhead(p) =>
           (p = q /\ Kind(p) # "locked") \/ SnapAhead(p)'
  PROVE  SnapInv'
<1>1. /\ SnapTrue /\ SnapCovers /\ SnapRoom /\ SnapBytes /\ SnapHolds \in Nat
      /\ snap.count \in Nat /\ snap'.count \in Nat /\ snap.copy \in SnapCopies
      /\ snap.remaining \in Nat /\ snap'.remaining \in 0..MaxSnapshotBytes
  BY SnapSteps DEF SnapType
<1>2. /\ Grows(Entries, snap.copy, q, e, snap'.copy) /\ Costs(snap.copy, q, e, snap'.copy)
  BY <1>1, AddedFacts, AddedCosts DEF SnapCopies
<1>3. \A p \in Paths : (SnapStays(p)' <=> SnapStays(p)) /\ Kind(p)' = Kind(p)
  BY DEF SnapStays, Untouched, Anchored, Kind, world
<1>4. tree' = tree
  BY DEF world
<1>5. SnapTrue'
  <2>1. ASSUME NEW p \in DOMAIN snap'.copy, SnapStays(p)
        PROVE  snap'.copy[p] = tree[p] \/ Kind(p) = "locked"
    <3>1. CASE p \in DOMAIN snap.copy
      BY <1>1, <1>2, <2>1, <3>1 DEF SnapTrue, Grows
    <3>2. CASE p \notin DOMAIN snap.copy
      <4>1. p = q /\ snap'.copy[p] = e
        BY <1>2, <2>1, <3>2 DEF Grows
      <4> QED BY <2>1, <4>1
    <3> QED BY <3>1, <3>2
  <2>2. DOMAIN snap'.copy \subseteq Paths
    BY <1>2 DEF Grows
  <2> QED BY <1>3, <1>4, <2>1, <2>2 DEF SnapTrue
<1>6. SnapCovers'
  <2>1. ASSUME NEW p \in Paths, SnapStays(p)
        PROVE  (p \in DOMAIN snap'.copy /\ Kind(p) # "locked") \/ SnapAhead(p)'
    <3>1. (p \in DOMAIN snap.copy /\ Kind(p) # "locked") \/ SnapAhead(p)
      BY <1>1, <2>1 DEF SnapCovers
    <3> QED BY <1>2, <2>1, <3>1 DEF Grows
  <2> QED BY <1>3, <2>1 DEF SnapCovers
<1>7. SnapRoom'
  <2>1. SnapHolds' <= SnapHolds + 1 /\ SnapHolds' \in Nat /\ SnapNeeds' = 0
    BY <1>2 DEF Costs, SnapHolds, SnapNeeds
  <2> QED BY <1>1, <2>1, SnapshotAssumption DEF SnapRoom
<1>8. SnapBytes'
  <2> DEFINE old == TotalOf(snap.copy, DOMAIN snap.copy)
             new == TotalOf(snap'.copy, DOMAIN snap'.copy)
  <2>1. old \in Nat /\ new \in Nat /\ new <= old + EntrySize(e)
    BY <1>2 DEF Costs
  <2>2. EntrySize(e) \in Nat
    BY DEF EntrySize, Entries
  <2>3. old + snap.remaining <= MaxSnapshotBytes
    BY <1>1 DEF SnapBytes
  <2> HIDE DEF old, new
  <2>4. new + (snap.remaining - EntrySize(e)) <= MaxSnapshotBytes
    BY <1>1, <2>1, <2>2, <2>3, SnapshotAssumption
  <2>5. new + snap'.remaining <= MaxSnapshotBytes
    BY <2>4
  <2> QED BY <2>5 DEF SnapBytes, new
<1> QED BY <1>5, <1>6, <1>7, <1>8 DEF SnapInv

LEMMA SnapEntryStep ==
  ASSUME WorldOK, SnapInv, NEW q \in Paths, SnapEntry(q)
  PROVE  SnapInv'
<1>1. /\ snap.pc = "entries" /\ q \in snap.names /\ UNCHANGED world /\ Moves
      /\ snap \in SnapType /\ SnapTrue /\ SnapCovers /\ SnapRoom
      /\ snap.count \in Nat /\ SnapHolds \in Nat /\ snap.names \in SUBSET Paths
      /\ snap.pending \in Seq(SnapPlaces) /\ snap.depth \in Nat /\ snap.remaining \in Nat
  BY SnapSteps, StandingMoves DEF SnapEntry, SnapType
<1> DEFINE rest == snap.names \ {q}
           n == snap.count + 1
           next == [snap EXCEPT !.names = rest, !.count = n]
           e == [kind |-> "dir", size |-> 0]
           place == [path |-> q, depth |-> snap.depth + 1]
<1>2. /\ rest \in SUBSET Paths /\ n \in Nat /\ n >= snap.count /\ e \in Entries
      /\ EntrySize(e) = 0 /\ place \in SnapPlaces /\ place.path = q
  <2>1. n \in Nat /\ n >= snap.count /\ snap.depth + 1 \in Nat
    BY <1>1
  <2>2. e \in Entries /\ EntrySize(e) = 0
    BY DEF Entries, Kinds, EntrySize
  <2>3. place \in SnapPlaces /\ place.path = q
    BY <2>1 DEF SnapPlaces, Nodes
  <2> QED BY <1>1, <2>1, <2>2, <2>3
<1>3. /\ next \in SnapType /\ next.pc = "entries" /\ next.names = rest /\ next.count = n
      /\ next.copy = snap.copy /\ next.pending = snap.pending /\ next.remaining = snap.remaining
      /\ next.entry = snap.entry /\ next.source = snap.source
  BY <1>1, <1>2 DEF SnapType
<1>4. \/ \E why \in {"denied", "notFound"} : snap' = [next EXCEPT !.pc = "over", !.outcome = why]
      \/ /\ n <= MaxSnapshotEntries /\ Kind(q) \in {"dir", "locked"}
         /\ snap' = [next EXCEPT !.copy = Added(@, q, e), !.pending = Append(@, place)]
      \/ /\ n <= MaxSnapshotEntries /\ Kind(q) \in {"file", "hard"}
         /\ snap' = [next EXCEPT !.pc = "file", !.entry = q]
  <2>1. n > MaxSnapshotEntries \/ n <= MaxSnapshotEntries
    BY <1>2, SnapshotAssumption
  <2> QED BY <2>1, LinkChainFacts DEF SnapEntry
<1>5. ASSUME NEW p \in Paths, SnapStays(p), SnapAhead(p)
      PROVE  \/ \E d \in PathsOf(snap.pending) : Leads(d, p)
             \/ \E r \in rest : r \in Upto(p)
             \/ q \in Upto(p) /\ (p = q \/ (q \in Over(p) /\ Kind(q) = "dir"))
  BY <1>1, <1>5, SnapStaysFacts DEF SnapAhead
<1> HIDE DEF rest, n, next, e, place
<1>6. CASE \E why \in {"denied", "notFound"} : snap' = [next EXCEPT !.pc = "over", !.outcome = why]
  <2>1. PICK why \in {"denied", "notFound"} : snap' = [next EXCEPT !.pc = "over", !.outcome = why]
    BY <1>6
  <2>2. snap' \in SnapType
    BY <1>3, <2>1 DEF SnapType
  <2>3. /\ snap'.pc = "over" /\ snap'.outcome = why /\ snap'.copy = snap.copy
        /\ snap'.remaining = snap.remaining /\ snap'.count = n
    BY <1>3, <2>1 DEF SnapType
  <2> QED BY <1>1, <1>2, <2>2, <2>3, SnapKeeps
<1>7. CASE /\ n <= MaxSnapshotEntries /\ Kind(q) \in {"dir", "locked"}
           /\ snap' = [next EXCEPT !.copy = Added(@, q, e), !.pending = Append(@, place)]
  <2> DEFINE copy == Added(next.copy, q, e)
             pending == Append(next.pending, place)
  <2>1. copy \in SnapCopies
    <3>1. snap.copy \in CopiesOf(Entries) /\ copy = Added(snap.copy, q, e)
      BY <1>1, <1>3, SnapSteps DEF SnapCopies
    <3> HIDE DEF copy
    <3>2. Grows(Entries, snap.copy, q, e, copy)
      BY <1>2, <3>1, AddedFacts
    <3> QED BY <3>2 DEF Grows, SnapCopies
  <2>2. pending \in Seq(SnapPlaces) /\ PathsOf(pending) = PathsOf(snap.pending) \cup {q}
    BY <1>1, <1>2, <1>3, PathsOfFacts
  <2>3. snap' = [next EXCEPT !.copy = copy, !.pending = pending]
    BY <1>3, <1>7 DEF SnapType
  <2>4. copy = Added(snap.copy, q, e)
    BY <1>3
  <2> HIDE DEF copy, pending
  <2>5. snap' \in SnapType
    BY <1>3, <2>1, <2>2, <2>3 DEF SnapType
  <2>6. /\ snap'.pc = "entries" /\ snap'.copy = copy /\ snap'.pending = pending
        /\ snap'.remaining = snap.remaining /\ snap'.count = n /\ snap'.names = rest
    BY <1>3, <2>3 DEF SnapType
  <2>7. SnapHolds + 1 <= n
    BY <1>1 DEF SnapRoom, SnapNeeds, n
  <2>8. SnapHolds + 1 <= MaxSnapshotEntries
    BY <1>1, <1>2, <1>7, <2>7, SnapshotAssumption
  <2>9. snap.remaining = snap.remaining - EntrySize(e)
    BY <1>1, <1>2
  <2>10. ASSUME SnapStays(q) PROVE e = tree[q] \/ Kind(q) = "locked"
    <3>1. Kind(q) = tree[q].kind
      BY <2>10, SnapStaysFacts
    <3> QED BY <1>7, <3>1 DEF WorldOK, Entries, e
  <2>11. ASSUME NEW p \in Paths, SnapStays(p), SnapAhead(p)
         PROVE  (p = q /\ Kind(p) # "locked") \/ SnapAhead(p)'
    <3>1. \/ \E d \in PathsOf(pending) : Leads(d, p)
          \/ \E r \in rest : r \in Upto(p)
          \/ p = q /\ Kind(p) # "locked"
      BY <1>5, <2>2, <2>11 DEF Leads
    <3>2. \A d : Leads(d, p) => Leads(d, p)'
      BY <1>1 DEF Leads, Kind, world
    <3> QED BY <2>6, <3>1, <3>2 DEF SnapAhead
  <2> QED BY <1>1, <1>2, <2>4, <2>5, <2>6, <2>7, <2>8, <2>9, <2>10, <2>11, SnapAdds
<1>8. CASE /\ n <= MaxSnapshotEntries /\ Kind(q) \in {"file", "hard"}
           /\ snap' = [next EXCEPT !.pc = "file", !.entry = q]
  <2>1. snap' \in SnapType
    BY <1>3, <1>8 DEF SnapType, Nodes
  <2>2. /\ snap'.pc = "file" /\ snap'.copy = snap.copy /\ snap'.pending = snap.pending
        /\ snap'.remaining = snap.remaining /\ snap'.count = n /\ snap'.names = rest
        /\ snap'.entry = q
    BY <1>3, <1>8 DEF SnapType
  <2>3. SnapTrue'
    BY <1>1, <2>2, SnapTrueStill DEF SnapTrue
  <2>4. SnapRoom'
    <3>1. SnapHolds' = SnapHolds /\ SnapNeeds' = 1
      BY <2>2 DEF SnapHolds, SnapNeeds
    <3>2. SnapHolds + 1 <= n
      BY <1>1 DEF SnapRoom, SnapNeeds, n
    <3>3. SnapHolds + 1 <= MaxSnapshotEntries
      BY <1>1, <1>2, <1>8, <3>2, SnapshotAssumption
    <3> QED BY <2>2, <3>1, <3>2, <3>3 DEF SnapRoom
  <2>5. SnapBytes'
    BY <1>1, <2>2, SnapSteps DEF SnapBytes
  <2>6. ASSUME NEW p \in Paths, SnapStays(p)'
        PROVE  (p \in DOMAIN snap'.copy /\ Kind(p)' # "locked") \/ SnapAhead(p)'
    <3>1. SnapStays(p) /\ Kind(p)' = Kind(p) /\ \A d : Leads(d, p) => Leads(d, p)'
      BY <1>1, <2>6, SnapStaysStill
    <3>2. (p \in DOMAIN snap.copy /\ Kind(p) # "locked") \/ SnapAhead(p)
      BY <1>1, <3>1 DEF SnapCovers
    <3>3. CASE SnapAhead(p)
      <4>1. \/ \E d \in PathsOf(snap.pending) : Leads(d, p)
            \/ \E r \in rest : r \in Upto(p)
            \/ p = q
        BY <1>5, <1>8, <3>1, <3>3
      <4> QED BY <2>2, <3>1, <4>1 DEF SnapAhead
    <3> QED BY <2>2, <3>1, <3>2, <3>3
  <2> QED BY <2>1, <2>3, <2>4, <2>5, <2>6 DEF SnapInv, SnapCovers
<1> QED BY <1>4, <1>6, <1>7, <1>8

LEMMA SnapFileStep ==
  ASSUME WorldOK, SnapInv, SnapFile
  PROVE  SnapInv'
<1>1. /\ snap.pc = "file" /\ UNCHANGED world /\ Moves
      /\ snap \in SnapType /\ SnapTrue /\ SnapRoom /\ snap.entry \in Paths
      /\ snap.count \in Nat /\ SnapHolds \in Nat /\ snap.remaining \in 0..MaxSnapshotBytes
      /\ snap.remaining \in Nat
  BY SnapSteps, StandingMoves DEF SnapFile, SnapType, SnapTrue
<1>0. PICK q \in Paths : q = snap.entry
  BY <1>1
<1> DEFINE e == [kind |-> "file", size |-> tree[q].size]
           left == snap.remaining - tree[q].size
           copy == Added(snap.copy, q, e)
<1>2. \/ SnapEnds("denied")
      \/ /\ SafeRead(q, snap.remaining).ok
         /\ snap' = [snap EXCEPT !.pc = "entries", !.remaining = left, !.copy = copy]
  BY <1>0 DEF SnapFile
<1>3. CASE SnapEnds("denied")
  BY <1>1, <1>3, SnapGivesUp
<1>4. CASE /\ SafeRead(q, snap.remaining).ok
           /\ snap' = [snap EXCEPT !.pc = "entries", !.remaining = left, !.copy = copy]
  <2>1. Kind(q) = "file" /\ tree[q].size <= snap.remaining
    BY <1>4 DEF SafeRead
  <2>2. q # Top
    BY PathFacts
  <2>3. tree[q].kind = "file" /\ tree[q].size \in Nat /\ tree[q] \in Entries
    BY <2>1, <2>2 DEF Kind, WorldOK, Entries
  <2>4. e = tree[q] /\ e \in Entries /\ EntrySize(e) = tree[q].size
    BY <2>3 DEF Entries, EntrySize
  <2>5. left \in 0..MaxSnapshotBytes /\ left = snap.remaining - EntrySize(e)
    BY <1>1, <2>1, <2>3, <2>4, SnapshotAssumption
  <2>6. copy \in SnapCopies
    <3>1. snap.copy \in CopiesOf(Entries) /\ copy = Added(snap.copy, q, e)
      BY <1>1, SnapSteps DEF SnapCopies
    <3> HIDE DEF copy, e
    <3>2. Grows(Entries, snap.copy, q, e, copy)
      BY <2>4, <3>1, AddedFacts
    <3> QED BY <3>2 DEF Grows, SnapCopies
  <2>7. copy = Added(snap.copy, q, e)
    OBVIOUS
  <2> HIDE DEF e, left, copy
  <2>8. snap' \in SnapType
    BY <1>1, <1>4, <2>5, <2>6 DEF SnapType
  <2>9. /\ snap'.pc = "entries" /\ snap'.copy = copy /\ snap'.pending = snap.pending
        /\ snap'.remaining = left /\ snap'.count = snap.count /\ snap'.names = snap.names
    BY <1>1, <1>4 DEF SnapType
  <2>10. SnapHolds + 1 <= snap.count /\ SnapHolds + 1 <= MaxSnapshotEntries
    BY <1>1 DEF SnapRoom, SnapNeeds
  <2>11. ASSUME NEW p \in Paths, SnapStays(p), SnapAhead(p)
         PROVE  (p = q /\ Kind(p) # "locked") \/ SnapAhead(p)'
    <3>1. \/ \E d \in PathsOf(snap.pending) : Leads(d, p)
          \/ \E r \in snap.names : r \in Upto(p)
          \/ p = q /\ Kind(p) # "locked"
      BY <1>0, <1>1, <2>1, <2>11 DEF SnapAhead
    <3>2. \A d : Leads(d, p) => Leads(d, p)'
      BY <1>1 DEF Leads, Kind, world
    <3> QED BY <2>9, <3>1, <3>2 DEF SnapAhead
  <2> QED BY <1>1, <2>4, <2>5, <2>7, <2>8, <2>9, <2>10, <2>11, SnapAdds
<1> QED BY <1>2, <1>3, <1>4

LEMMA SnapStep ==
  ASSUME WorldOK, SnapInv, SnapshotNext
  PROVE  SnapInv' /\ WorldOK' /\ Moves
<1>1. CASE SnapFails
  BY <1>1, SnapFailsStep
<1>2. CASE SnapLate \/ SnapPop \/ SnapScan \/ SnapFile \/ SnapNext \/ SnapConfig
  <2>1. UNCHANGED world
    BY <1>2 DEF SnapLate, SnapPop, SnapScan, SnapFile, SnapNext, SnapConfig
  <2>2. SnapInv'
    BY <1>2, SnapLateStep, SnapPopStep, SnapScanStep, SnapFileStep, SnapNextStep, SnapConfigStep
  <2> QED BY <2>1, <2>2, StandingMoves
<1>3. CASE \E p \in Paths : SnapEntry(p)
  <2>1. PICK p \in Paths : SnapEntry(p)
    BY <1>3
  <2>2. SnapInv'
    BY <2>1, SnapEntryStep
  <2>3. UNCHANGED world
    BY <2>1 DEF SnapEntry
  <2> QED BY <2>2, <2>3, StandingMoves
<1> QED BY <1>1, <1>2, <1>3 DEF SnapshotNext

\* What the snapshot's invariant says of the copy.
LEMMA SnapAnswers ==
  ASSUME SnapInv
  PROVE  SnapMissesNothing /\ SnapKeepsLimits
<1>1. CASE snap = SnapOff
  BY <1>1 DEF SnapOff, SnapMissesNothing, SnapKeepsLimits, SnapCopied
<1>2. CASE snap.pc # "off"
  <2>1. /\ snap \in SnapType /\ SnapTrue /\ SnapCovers /\ SnapRoom /\ SnapBytes
        /\ SnapHolds \in Nat /\ snap.remaining \in Nat /\ snap.copy \in SnapCopies
    BY <1>2, SnapSteps
  <2>2. SnapMissesNothing
    <3>1. ASSUME SnapCopied, NEW p \in Paths, SnapStays(p)
          PROVE  p \in DOMAIN snap.copy /\ snap.copy[p] = tree[p]
      <4>1. ~SnapAhead(p)
        BY <3>1 DEF SnapCopied, SnapAhead
      <4>2. p \in DOMAIN snap.copy /\ Kind(p) # "locked"
        BY <2>1, <3>1, <4>1 DEF SnapCovers, SnapCopied
      <4> QED BY <2>1, <3>1, <4>2 DEF SnapTrue
    <3> QED BY <3>1 DEF SnapMissesNothing, SnapStays
  <2>3. SnapKeepsLimits
    <3>1. Cardinality(DOMAIN snap.copy) <= MaxSnapshotEntries
      BY <2>1, SnapshotAssumption DEF SnapRoom, SnapNeeds, SnapHolds
    <3>2. TotalOf(snap.copy, DOMAIN snap.copy) \in Nat
      <4>1. snap.copy \in CopiesOf(Entries) /\ DOMAIN snap.copy \in SUBSET Paths
        BY <2>1 DEF SnapCopies, CopiesOf
      <4>2. \A p \in DOMAIN snap.copy : snap.copy[p] \in Entries
        BY <4>1 DEF CopiesOf
      <4>3. Alike(snap.copy, snap.copy, DOMAIN snap.copy)
        BY <4>1, <4>2 DEF Alike, Entries
      <4> QED BY <4>3, TotalSame
    <3> QED BY <2>1, <3>1, <3>2, SnapshotAssumption DEF SnapKeepsLimits, SnapBytes
  <2> QED BY <2>2, <2>3
<1> QED BY <1>1, <1>2 DEF SnapInv, SnapOff, SnapType

-----------------------------------------------------------------------------
(* The pages of a directory *)

PagesType ==
  [pc: {"call", "next", "stat", "answer", "over"}, limit: PageLimits, offset: Nat, calls: Nat,
   names: SUBSET Paths, scanned: Nat, truncated: BOOLEAN, candidate: Nodes, directory: BOOLEAN,
   entries: SUBSET Listed, shown: Seq(Paths), cut: BOOLEAN]

\* What is listed first, and what after it.
Leading == {p \in Paths : \E e \in pages.entries : e.path = p /\ e.first = TRUE}
Trailing == {p \in Paths : \E e \in pages.entries : e.path = p /\ e.first = FALSE}
Sorts == Cardinality(Leading) + Cardinality(Trailing)

\* Each entry that is listed, or about to be, was counted.
PagesRoom ==
  /\ pages.pc \in {"next", "stat", "answer"} => pages.scanned <= MaxDirectoryEntries
  /\ pages.pc \in {"next", "answer"} => Sorts <= pages.scanned
  /\ pages.pc = "stat" => Sorts + 1 <= pages.scanned /\ pages.candidate \in Paths

\* What the client was shown, and how often it asked for it.
PagesSoFar ==
  /\ pages.offset = Len(pages.shown) /\ pages.offset <= MaxDirectoryEntries
  /\ pages.calls <= pages.offset + 1
  /\ pages.pc # "over" => pages.calls <= pages.offset

PagesInv == pages = PagesOff \/ (pages \in PagesType /\ PagesRoom /\ PagesSoFar)

LEMMA PagesSteps ==
  ASSUME PagesInv, pages.pc # "off"
  PROVE  /\ pages \in PagesType /\ PagesRoom /\ PagesSoFar
         /\ Leading \in SUBSET Paths /\ Trailing \in SUBSET Paths
         /\ Sorts \in Nat /\ pages.scanned \in Nat
<1>1. pages \in PagesType /\ PagesRoom /\ PagesSoFar
  BY DEF PagesInv, PagesOff
<1>2. Leading \in SUBSET Paths /\ Trailing \in SUBSET Paths
  BY DEF Leading, Trailing
<1>3. Cardinality(Leading) \in Nat /\ Cardinality(Trailing) \in Nat
  BY <1>2, PathsAreFinite, FS_CardinalityType
<1>4. pages.scanned \in Nat
  BY <1>1 DEF PagesType
<1>5. Sorts \in Nat
  <2>1. Sorts = Cardinality(Leading) + Cardinality(Trailing)
    BY DEF Sorts
  <2> QED BY <1>3, <2>1
<1> QED BY <1>1, <1>2, <1>4, <1>5

LEMMA PagesStands ==
  ASSUME PagesInv, UNCHANGED pages
  PROVE  PagesInv'
BY DEF PagesInv, PagesRoom, PagesSoFar, Sorts, Leading, Trailing

LEMMA PagesBeginOK ==
  ASSUME NEW limit \in PageLimits, pages = PagesBegin(limit)
  PROVE  PagesInv
<1>1. Top \in Nodes /\ <<>> \in Seq(Paths) /\ Len(<<>>) = 0
  BY EmptyRange DEF Nodes
<1>2. pages \in PagesType
  BY <1>1 DEF PagesBegin, PagesType
<1>3. PagesRoom /\ PagesSoFar
  BY <1>1, PagesAssumption DEF PagesBegin, PagesRoom, PagesSoFar
<1> QED BY <1>2, <1>3 DEF PagesInv

LEMMA PagesCallStep ==
  ASSUME PagesInv, PagesCall
  PROVE  PagesInv'
<1>1. /\ pages.pc = "call" /\ pages \in PagesType /\ PagesSoFar
  BY PagesSteps DEF PagesCall
<1> DEFINE names == {p \in Children(Top) : Kind(p) # "none"}
<1>2. names \in SUBSET Paths
  BY DEF Children
<1>3. pages' = [pages EXCEPT !.pc = "next", !.scanned = 0, !.truncated = FALSE, !.entries = {},
                             !.names = names]
  BY DEF PagesCall
<1> HIDE DEF names
<1>4. pages' \in PagesType
  BY <1>1, <1>2, <1>3 DEF PagesType
<1>5. /\ pages'.pc = "next" /\ pages'.scanned = 0 /\ pages'.entries = {}
      /\ pages'.offset = pages.offset /\ pages'.calls = pages.calls /\ pages'.shown = pages.shown
  BY <1>1, <1>3 DEF PagesType
<1>6. PagesRoom'
  <2>1. Leading' = {} /\ Trailing' = {}
    BY <1>5 DEF Leading, Trailing
  <2>3. Sorts' = Cardinality(Leading') + Cardinality(Trailing')
    BY DEF Sorts
  <2>2. Sorts' = 0
    BY <2>1, <2>3, FS_EmptySet
  <2> QED BY <1>5, <2>2, PagesAssumption DEF PagesRoom
<1>7. PagesSoFar'
  BY <1>1, <1>5 DEF PagesSoFar
<1> QED BY <1>4, <1>6, <1>7 DEF PagesInv

LEMMA PagesJudgeStep ==
  ASSUME PagesInv, NEW q \in Paths, PagesJudge(q)
  PROVE  PagesInv'
<1>1. /\ pages.pc = "next" /\ pages \in PagesType /\ PagesRoom /\ PagesSoFar
      /\ Sorts \in Nat /\ pages.scanned \in Nat /\ pages.scanned < MaxDirectoryEntries
      /\ pages.names \in SUBSET Paths
  BY PagesSteps DEF PagesJudge, PagesType
<1> DEFINE names == pages.names \ {q}
           scanned == pages.scanned + 1
           directory == Kind(q) \in {"dir", "locked"}
           next == [pages EXCEPT !.names = names, !.scanned = scanned]
<1>2. /\ names \in SUBSET Paths /\ scanned \in Nat /\ scanned <= MaxDirectoryEntries
      /\ Sorts + 1 <= scanned /\ Sorts <= scanned /\ directory \in BOOLEAN
  BY <1>1, PagesAssumption DEF PagesRoom
<1>3. \/ pages' = next
      \/ pages' = [next EXCEPT !.pc = "stat", !.candidate = q, !.directory = directory]
  BY DEF PagesJudge
<1> HIDE DEF names, scanned, directory
<1>4. /\ next \in PagesType /\ next.pc = "next" /\ next.scanned = scanned
      /\ next.entries = pages.entries /\ next.offset = pages.offset
      /\ next.calls = pages.calls /\ next.shown = pages.shown
  BY <1>1, <1>2 DEF PagesType
<1> HIDE DEF next
<1>5. pages' \in PagesType
  BY <1>2, <1>3, <1>4 DEF PagesType, Nodes
<1>6. /\ pages'.pc \in {"next", "stat"} /\ (pages'.pc = "stat" => pages'.candidate = q)
      /\ pages'.scanned = scanned /\ pages'.entries = pages.entries
      /\ pages'.offset = pages.offset /\ pages'.calls = pages.calls /\ pages'.shown = pages.shown
  BY <1>3, <1>4 DEF PagesType
<1>7. Sorts' = Sorts
  BY <1>6 DEF Sorts, Leading, Trailing
<1>8. PagesRoom' /\ PagesSoFar'
  BY <1>1, <1>2, <1>6, <1>7 DEF PagesRoom, PagesSoFar
<1> QED BY <1>5, <1>8 DEF PagesInv

\* The listing is over, or full.
PagesListedAs(truncated) == pages' = [pages EXCEPT !.pc = "answer", !.truncated = truncated]
LEMMA PagesListed ==
  ASSUME PagesInv, pages.pc = "next", NEW truncated \in BOOLEAN,
         PagesListedAs(truncated)
  PROVE  PagesInv'
<1>1. pages \in PagesType /\ PagesRoom /\ PagesSoFar
  BY PagesSteps
<1>2. pages' = [pages EXCEPT !.pc = "answer", !.truncated = truncated]
  BY DEF PagesListedAs
<1>3. pages' \in PagesType
  BY <1>1, <1>2 DEF PagesType
<1>4. /\ pages'.pc = "answer" /\ pages'.scanned = pages.scanned /\ pages'.entries = pages.entries
      /\ pages'.offset = pages.offset /\ pages'.calls = pages.calls /\ pages'.shown = pages.shown
  BY <1>1, <1>2 DEF PagesType
<1>5. Sorts' = Sorts
  BY <1>4 DEF Sorts, Leading, Trailing
<1>6. PagesRoom' /\ PagesSoFar'
  BY <1>1, <1>4, <1>5 DEF PagesRoom, PagesSoFar
<1> QED BY <1>3, <1>6 DEF PagesInv

LEMMA PagesFullStep ==
  ASSUME PagesInv, PagesFull
  PROVE  PagesInv'
<1>1. pages.pc = "next" /\ PagesListedAs(TRUE)
  BY DEF PagesFull, PagesListedAs
<1> QED BY <1>1, PagesListed

LEMMA PagesScannedStep ==
  ASSUME PagesInv, PagesScanned
  PROVE  PagesInv'
<1>1. pages.pc = "next" /\ pages \in PagesType
  BY PagesSteps DEF PagesScanned
<1>2. PagesListedAs(pages.truncated)
  BY <1>1 DEF PagesScanned, PagesType, PagesListedAs
<1>3. pages.truncated \in BOOLEAN
  BY <1>1 DEF PagesType
<1> QED BY <1>1, <1>2, <1>3, PagesListed

LEMMA PagesStatStep ==
  ASSUME PagesInv, PagesStat
  PROVE  PagesInv'
<1>1. /\ pages.pc = "stat" /\ pages \in PagesType /\ PagesRoom /\ PagesSoFar
      /\ Sorts \in Nat /\ pages.scanned \in Nat /\ pages.candidate \in Paths
      /\ pages.directory \in BOOLEAN /\ pages.entries \in SUBSET Listed
      /\ Leading \in SUBSET Paths /\ Trailing \in SUBSET Paths
  BY PagesSteps DEF PagesStat, PagesRoom, PagesType
<1> DEFINE e == [path |-> pages.candidate, first |-> pages.directory,
                 kind |-> IF IsDirectory(pages.candidate) THEN "directory" ELSE "file"]
<1>2. e \in Listed /\ e.path = pages.candidate /\ e.first = pages.directory
  BY <1>1 DEF Listed
<1>3. PICK entries \in {pages.entries, pages.entries \cup {e}} :
        pages' = [pages EXCEPT !.pc = "next", !.entries = entries]
  <2>1. \/ pages' = [pages EXCEPT !.pc = "next", !.entries = pages.entries]
        \/ pages' = [pages EXCEPT !.pc = "next", !.entries = pages.entries \cup {e}]
    BY DEF PagesStat
  <2> QED BY <2>1
<1> HIDE DEF e
<1>4. pages' \in PagesType
  BY <1>1, <1>2, <1>3 DEF PagesType
<1>5. /\ pages'.pc = "next" /\ pages'.scanned = pages.scanned /\ pages'.entries = entries
      /\ pages'.offset = pages.offset /\ pages'.calls = pages.calls /\ pages'.shown = pages.shown
  BY <1>1, <1>3 DEF PagesType
<1>6. Sorts' <= Sorts + 1 /\ Sorts' \in Nat
  <2>1. /\ Leading' \in {Leading, Leading \cup {pages.candidate}}
        /\ Trailing' \in {Trailing, Trailing \cup {pages.candidate}}
        /\ Leading' = Leading \/ Trailing' = Trailing
    <3>1. CASE entries = pages.entries
      BY <1>5, <3>1 DEF Leading, Trailing
    <3>2. CASE entries = pages.entries \cup {e} /\ pages.directory = TRUE
      <4>1. Leading' = Leading \cup {pages.candidate} /\ Trailing' = Trailing
        BY <1>1, <1>2, <1>5, <3>2 DEF Leading, Trailing
      <4> QED BY <4>1
    <3>3. CASE entries = pages.entries \cup {e} /\ pages.directory = FALSE
      <4>1. Leading' = Leading /\ Trailing' = Trailing \cup {pages.candidate}
        BY <1>1, <1>2, <1>5, <3>3 DEF Leading, Trailing
      <4> QED BY <4>1
    <3> QED BY <1>1, <1>3, <3>1, <3>2, <3>3
  <2>2. IsFiniteSet(Leading) /\ IsFiniteSet(Trailing)
    BY <1>1, PathsAreFinite
  <2>3. /\ Cardinality(Leading) \in Nat /\ Cardinality(Trailing) \in Nat
        /\ Cardinality(Leading') \in {Cardinality(Leading), Cardinality(Leading) + 1}
        /\ Cardinality(Trailing') \in {Cardinality(Trailing), Cardinality(Trailing) + 1}
    BY <2>1, <2>2, FS_CardinalityType, FS_AddElement
  <2>4. Cardinality(Leading') = Cardinality(Leading)
        \/ Cardinality(Trailing') = Cardinality(Trailing)
    BY <2>1
  <2>5. Sorts' = Cardinality(Leading') + Cardinality(Trailing')
    BY DEF Sorts
  <2>6. Sorts = Cardinality(Leading) + Cardinality(Trailing)
    BY DEF Sorts
  <2> QED BY <2>3, <2>4, <2>5, <2>6
<1>7. PagesRoom' /\ PagesSoFar'
  BY <1>1, <1>5, <1>6, PagesAssumption DEF PagesRoom, PagesSoFar
<1> QED BY <1>4, <1>7 DEF PagesInv

LEMMA ListingFacts ==
  ASSUME PagesInv, pages.pc # "off"
  PROVE  Listing \in Seq(Paths) /\ Len(Listing) = Sorts
<1>1. Leading \in SUBSET Paths /\ Trailing \in SUBSET Paths
  BY PagesSteps
<1> DEFINE s == Sorted(Leading)
           t == Sorted(Trailing)
<1>2. Listing = s \o t
  BY DEF Listing, Leading, Trailing
<1>3. s \in Seq(Paths) /\ Len(s) = Cardinality(Leading)
  BY <1>1, SortedFacts, SeqOfSubset
<1>4. t \in Seq(Paths) /\ Len(t) = Cardinality(Trailing)
  BY <1>1, SortedFacts, SeqOfSubset
<1> HIDE DEF s, t
<1> QED BY <1>2, <1>3, <1>4, ConcatRange DEF Sorts

LEMMA PageFacts ==
  ASSUME NEW s \in Seq(Paths), NEW offset \in Nat, NEW limit \in Nat \ {0}
  PROVE  LET page == SubSeq(s, offset + 1, Min({offset + limit, Len(s)})) IN
         /\ page \in Seq(Paths) /\ Len(page) \in Nat
         /\ offset + Len(page) <= Len(s) \/ Len(page) = 0
         /\ offset + Len(page) < Len(s) => Len(page) >= 1
<1>1. Len(s) \in Nat /\ offset + limit \in Int /\ offset + 1 \in Int
  BY EmptyRange
<1>0. PICK last : last = Min({offset + limit, Len(s)})
  OBVIOUS
<1>2. last \in Int /\ last = IF offset + limit <= Len(s) THEN offset + limit ELSE Len(s)
  <2>1. Len(s) \in Int
    BY <1>1
  <2> QED BY <1>0, <1>1, <2>1, Smaller
<1>3. PICK from \in Nat : from = offset + 1
  OBVIOUS
<1>4. \A i \in from..last : s[i] \in Paths
  <2>1. \A i \in from..last : i \in 1..Len(s)
    BY <1>1, <1>2, <1>3
  <2> QED BY <2>1, ElementOfSeq
<1>5. /\ SubSeq(s, from, last) \in Seq(Paths)
      /\ Len(SubSeq(s, from, last)) = IF from <= last THEN last - from + 1 ELSE 0
  <2>1. from \in Int
    BY <1>3
  <2> QED BY <1>2, <1>4, <2>1, SubSeqProperties
<1>6. PICK page : page = SubSeq(s, from, last)
  OBVIOUS
<1>7. page \in Seq(Paths) /\ Len(page) = IF from <= last THEN last - from + 1 ELSE 0
  BY <1>5, <1>6
<1>8. /\ Len(page) \in Nat
      /\ offset + Len(page) <= Len(s) \/ Len(page) = 0
      /\ offset + Len(page) < Len(s) => Len(page) >= 1
  BY <1>1, <1>2, <1>3, <1>7
<1>9. page = SubSeq(s, offset + 1, Min({offset + limit, Len(s)}))
  BY <1>0, <1>3, <1>6
<1> QED BY <1>7, <1>8, <1>9

\* A page that is followed by another one shows an entry.
LEMMA PageTally ==
  \A offset, calls, page, all, limit \in Nat :
    /\ offset <= limit /\ calls <= offset /\ all <= limit
    /\ offset + page <= all \/ page = 0
    /\ offset + page < all => page >= 1
    => /\ offset + page \in Nat /\ calls + 1 \in Nat
       /\ offset + page <= limit /\ calls + 1 <= (offset + page) + 1
       /\ offset + page < all => calls + 1 <= offset + page
OBVIOUS

LEMMA PagesAnswerStep ==
  ASSUME PagesInv, PagesAnswer
  PROVE  PagesInv'
<1>1. /\ pages.pc = "answer" /\ pages \in PagesType /\ PagesRoom /\ PagesSoFar
      /\ pages.limit \in Nat \ {0} /\ pages.offset \in Nat /\ pages.shown \in Seq(Paths)
      /\ pages.calls \in Nat /\ pages.scanned \in Nat /\ Sorts \in Nat
      /\ pages.cut \in BOOLEAN /\ pages.truncated \in BOOLEAN
  BY PagesSteps, PagesAssumption DEF PagesAnswer, PagesType
<1>2. Listing \in Seq(Paths) /\ Len(Listing) = Sorts
  BY <1>1, ListingFacts
<1>0. PICK all \in Seq(Paths) : all = Listing
  BY <1>2
<1> DEFINE page == SubSeq(all, pages.offset + 1, Min({pages.offset + pages.limit, Len(all)}))
           shown == pages.shown \o page
           offset == pages.offset + Len(page)
           pc == IF offset < Len(all) THEN "call" ELSE "over"
           cut == pages.cut \/ pages.truncated
           calls == pages.calls + 1
<1>3. pages' = [pages EXCEPT !.shown = shown, !.calls = calls, !.cut = cut, !.pc = pc,
                             !.offset = offset]
  BY <1>0 DEF PagesAnswer
<1>4. /\ page \in Seq(Paths) /\ Len(page) \in Nat
      /\ offset <= Len(all) \/ Len(page) = 0
      /\ offset < Len(all) => Len(page) >= 1
  BY <1>1, PageFacts
<1>5. cut \in BOOLEAN
  BY <1>1
<1> HIDE DEF page, cut
<1>6. shown \in Seq(Paths) /\ Len(shown) = Len(pages.shown) + Len(page)
  BY <1>1, <1>4, ConcatRange
<1>7. Len(all) \in Nat /\ Len(all) <= MaxDirectoryEntries
  BY <1>0, <1>1, <1>2, PagesAssumption DEF PagesRoom
<1>8. /\ offset \in Nat /\ calls \in Nat /\ offset <= MaxDirectoryEntries
      /\ calls <= offset + 1 /\ (offset < Len(all) => calls <= offset)
  <2>1. pages.offset <= MaxDirectoryEntries /\ pages.calls <= pages.offset
    BY <1>1 DEF PagesSoFar
  <2>2. MaxDirectoryEntries \in Nat
    BY PagesAssumption
  <2> QED BY <1>1, <1>4, <1>7, <2>1, <2>2, PageTally
<1> HIDE DEF calls
<1>9. pc \in {"call", "over"} /\ (pc # "over" => calls <= offset)
  BY <1>8
<1>10. offset = Len(shown)
  BY <1>1, <1>6 DEF PagesSoFar
<1> HIDE DEF shown, offset, pc
<1>11. pages' \in PagesType
  BY <1>1, <1>3, <1>5, <1>6, <1>8, <1>9 DEF PagesType
<1>12. /\ pages'.pc = pc /\ pages'.offset = offset /\ pages'.calls = calls /\ pages'.shown = shown
  BY <1>1, <1>3 DEF PagesType
<1>13. PagesRoom' /\ PagesSoFar'
  BY <1>8, <1>9, <1>10, <1>12 DEF PagesRoom, PagesSoFar
<1> QED BY <1>11, <1>13 DEF PagesInv

LEMMA PagesStep ==
  ASSUME WorldOK, PagesInv, PagesNext
  PROVE  PagesInv' /\ WorldOK' /\ Moves
<1>1. UNCHANGED world
  BY Zenon DEF PagesNext, PagesCall, PagesJudge, PagesFull, PagesStat, PagesScanned, PagesAnswer
<1>2. PagesInv'
  BY PagesCallStep, PagesJudgeStep, PagesFullStep, PagesScannedStep, PagesStatStep,
     PagesAnswerStep DEF PagesNext
<1> QED BY <1>1, <1>2, StandingMoves

LEMMA PagesAnswers ==
  ASSUME PagesInv
  PROVE  PagesEnd
BY DEF PagesInv, PagesSoFar, PagesEnd, PagesOff

-----------------------------------------------------------------------------
(* The audit of an environment *)

AuditFields ==
  {"pc", "root", "config", "sites", "stamp", "names", "site", "listed", "todo", "over", "parsed",
   "left", "observed", "skipped", "complete", "outcome", "findings"}

IsSequence(s) == \E S : s \in Seq(S)

LEMMA SequenceFacts ==
  /\ IsSequence(<<>>) /\ Len(<<>>) = 0
  /\ \A s : IsSequence(s) => Len(s) \in Nat
  /\ \A s, x : IsSequence(s) => IsSequence(Append(s, x)) /\ Len(Append(s, x)) = Len(s) + 1
  /\ \A s : IsSequence(s) /\ s # <<>> => IsSequence(Tail(s)) /\ Len(s) = Len(Tail(s)) + 1
<1>1. IsSequence(<<>>) /\ Len(<<>>) = 0
  BY EmptyRange DEF IsSequence
<1>2. ASSUME NEW s, IsSequence(s) PROVE Len(s) \in Nat
  <2>1. PICK S : s \in Seq(S)
    BY <1>2 DEF IsSequence
  <2> QED BY <2>1, EmptyRange
<1>3. ASSUME NEW s, NEW x, IsSequence(s)
      PROVE  IsSequence(Append(s, x)) /\ Len(Append(s, x)) = Len(s) + 1
  <2>1. PICK S : s \in Seq(S)
    BY <1>3 DEF IsSequence
  <2>2. s \in Seq(S \cup {x})
    BY <2>1, SeqOfSubset
  <2>3. Append(s, x) \in Seq(S \cup {x}) /\ Len(Append(s, x)) = Len(s) + 1
    BY <2>2, AppendRange
  <2> QED BY <2>3 DEF IsSequence
<1>4. ASSUME NEW s, IsSequence(s), s # <<>>
      PROVE  IsSequence(Tail(s)) /\ Len(s) = Len(Tail(s)) + 1
  <2>1. PICK S : s \in Seq(S)
    BY <1>4 DEF IsSequence
  <2>2. Tail(s) \in Seq(S) /\ Len(s) = Len(Tail(s)) + 1
    BY <1>4, <2>1, HeadRange
  <2> QED BY <2>2 DEF IsSequence
<1> QED BY <1>1, <1>2, <1>3, <1>4

\* Each distribution that was observed is still to be read, was parsed or skipped.
AuditCounts ==
  /\ IsSequence(audit.parsed) /\ IsSequence(audit.todo)
  /\ audit.observed \in Nat /\ audit.skipped \in Nat
  /\ audit.observed = Len(audit.parsed) + audit.skipped + Len(audit.todo)

\* What was skipped is told, before the first METADATA is read.
AuditTells ==
  /\ audit.skipped > 0 => ~audit.complete.analysis \/ audit.over
  /\ audit.pc \in {"read", "report"} /\ audit.skipped > 0 => ~audit.complete.analysis
  /\ audit.pc = "report" => audit.todo = <<>>
  /\ AuditReported =>
       /\ audit.todo = <<>> /\ (audit.skipped > 0 => audit.outcome = "partial")
       /\ env.root = audit.root

AuditInv == audit = AuditOff \/ (DOMAIN audit = AuditFields /\ AuditCounts /\ AuditTells)

LEMMA AuditSteps ==
  ASSUME AuditInv, audit.pc # "off"
  PROVE  DOMAIN audit = AuditFields /\ AuditCounts /\ AuditTells
BY DEF AuditInv, AuditOff

LEMMA AuditBeginOK ==
  ASSUME audit = AuditBegin
  PROVE  AuditInv
<1>1. DOMAIN audit = AuditFields
  BY DEF AuditBegin, AuditFields
<1>2. /\ audit.parsed = <<>> /\ audit.todo = <<>> /\ audit.observed = 0 /\ audit.skipped = 0
      /\ audit.pc = "identify"
  BY DEF AuditBegin
<1>3. AuditCounts
  BY <1>2, SequenceFacts DEF AuditCounts
<1>4. AuditTells
  BY <1>2 DEF AuditTells, AuditReported
<1> QED BY <1>1, <1>3, <1>4 DEF AuditInv

LEMMA AuditAnswers ==
  ASSUME AuditInv
  PROVE  ReportAddsUp
<1>1. CASE audit = AuditOff
  BY <1>1 DEF AuditOff, ReportAddsUp, AuditReported
<1>2. CASE AuditCounts /\ AuditTells
  <2>1. ASSUME AuditReported
        PROVE  /\ audit.todo = <<>> /\ (audit.skipped > 0 => audit.outcome = "partial")
               /\ env.root = audit.root
    BY <1>2, <2>1 DEF AuditTells
  <2>2. ASSUME audit.todo = <<>> PROVE audit.observed = Len(audit.parsed) + audit.skipped
    <3>1. /\ Len(audit.todo) = 0 /\ Len(audit.parsed) \in Nat /\ audit.skipped \in Nat
      BY <1>2, <2>2, SequenceFacts DEF AuditCounts
    <3>2. audit.observed = Len(audit.parsed) + audit.skipped + Len(audit.todo)
      BY <1>2 DEF AuditCounts
    <3> QED BY <3>1, <3>2
  <2> QED BY <2>1, <2>2 DEF ReportAddsUp
<1> QED BY <1>1, <1>2 DEF AuditInv

\* The rest of the report, as long as it is none.
Kept ==
  /\ DOMAIN audit' = DOMAIN audit
  /\ audit'.parsed = audit.parsed /\ audit'.todo = audit.todo
  /\ audit'.observed = audit.observed /\ audit'.skipped = audit.skipped
  /\ audit'.over = audit.over
  /\ audit'.complete = audit.complete \/ audit'.complete.analysis = FALSE

LEMMA AuditKeeps ==
  ASSUME AuditInv, audit.pc # "off", Kept, audit'.pc \notin {"read", "report"}, ~AuditReported'
  PROVE  AuditInv'
<1>1. DOMAIN audit = AuditFields /\ AuditCounts /\ AuditTells
  BY AuditSteps
<1>2. AuditCounts'
  BY <1>1 DEF AuditCounts, Kept
<1>3. AuditTells'
  BY <1>1 DEF AuditTells, Kept
<1> QED BY <1>1, <1>2, <1>3 DEF AuditInv, Kept

LEMMA AuditGivesUp ==
  ASSUME AuditInv, audit.pc # "off", Ends("denied") \/ Ends("invalid")
  PROVE  AuditInv'
<1>1. DOMAIN audit = AuditFields
  BY AuditSteps
<1>2. Kept /\ audit'.pc = "over" /\ audit'.outcome \in {"denied", "invalid"}
  BY <1>1 DEF Ends, Kept, AuditFields
<1> QED BY <1>2, AuditKeeps DEF AuditReported

LEMMA WarnTells ==
  /\ \A state, i, t : Warn(state, i, t).analysis = FALSE
  /\ \A state : Warned(state).analysis = FALSE
BY DEF Warn, Warned

LEMMA AuditQuietStep ==
  ASSUME AuditInv,
         Identify \/ ReadConfig \/ Invalid \/ Same \/ FindSite \/ Layout \/ List \/ Verify
         \/ NextSite \/ Torn
  PROVE  AuditInv'
<1>1. CASE Ends("denied") \/ Ends("invalid")
  <2>1. audit.pc # "off"
    BY DEF Identify, ReadConfig, Invalid, Same, FindSite, Layout, List, Verify, NextSite, Torn
  <2> QED BY <1>1, <2>1, AuditGivesUp
<1>2. CASE ~(Ends("denied") \/ Ends("invalid"))
  <2>1. audit.pc # "off"
    BY DEF Identify, ReadConfig, Invalid, Same, FindSite, Layout, List, Verify, NextSite, Torn
  <2>2. DOMAIN audit = AuditFields
    BY <2>1, AuditSteps
  <2>3. CASE Identify \/ Invalid \/ Same \/ FindSite \/ Layout \/ NextSite \/ Torn
    <3>1. Kept /\ audit'.pc \in {"config", "lib", "posix", "layout", "list"}
      <4>1. CASE Identify
        BY <2>2, <4>1 DEF Identify, Kept, AuditFields
      <4>2. CASE Invalid \/ Torn
        BY <1>2, <4>2 DEF Invalid, Torn
      <4>3. CASE Same \/ NextSite
        BY <1>2, <2>2, <4>3 DEF Same, NextSite, Goto, Kept, AuditFields
      <4>4. CASE FindSite
        BY <1>2, <2>2, <4>4 DEF FindSite, Goto, Kept, AuditFields
      <4>5. CASE Layout
        BY <2>2, <4>5 DEF Layout, Kept, AuditFields, Warned, Warn
      <4> QED BY <2>3, <4>1, <4>2, <4>3, <4>4, <4>5
    <3> QED BY <2>1, <3>1, AuditKeeps DEF AuditReported
  <2>4. CASE ReadConfig
    <3>1. Kept /\ audit'.pc \in {"invalid", "same", "over"} /\ (audit'.pc = "over" => audit'.outcome = "denied")
      BY <2>2, <2>4 DEF ReadConfig, Kept, AuditFields
    <3> QED BY <2>1, <3>1, AuditKeeps DEF AuditReported
  <2>5. CASE List
    <3> DEFINE s == Head(audit.sites)
               next == [audit EXCEPT !.sites = Tail(@)]
               shut == [next EXCEPT !.complete = Warned(@)]
               open == [next EXCEPT !.pc = "verify", !.site = s, !.stamp = env.site[s].stamp,
                                    !.names = EntriesOf(s)]
    <3>1. audit' = shut \/ audit' = open
      BY <1>2, <2>5, Zenon DEF List
    <3>2. audit.pc = "list"
      BY <2>5 DEF List
    <3>3. /\ DOMAIN next = DOMAIN audit
          /\ next.parsed = audit.parsed /\ next.todo = audit.todo
          /\ next.observed = audit.observed /\ next.skipped = audit.skipped
          /\ next.over = audit.over /\ next.complete = audit.complete /\ next.pc = audit.pc
      BY <2>2 DEF AuditFields
    <3> HIDE DEF next
    <3>4. CASE audit' = shut
      <4>1. Kept /\ audit'.pc = "list"
        BY <2>2, <3>2, <3>3, <3>4, WarnTells DEF Kept, AuditFields
      <4> QED BY <2>1, <4>1, AuditKeeps DEF AuditReported
    <3>5. CASE audit' = open
      <4>1. Kept /\ audit'.pc = "verify"
        BY <2>2, <3>2, <3>3, <3>5 DEF Kept, AuditFields
      <4> QED BY <2>1, <4>1, AuditKeeps DEF AuditReported
    <3> QED BY <3>1, <3>4, <3>5
  <2>6. CASE Verify
    <3>1. /\ Kept /\ audit'.pc \in {"list", "entries", "over"}
          /\ audit'.pc = "over" => audit'.outcome = "denied"
      BY <2>2, <2>6 DEF Verify, Kept, AuditFields, Warned, Warn
    <3> QED BY <2>1, <3>1, AuditKeeps DEF AuditReported
  <2> QED BY <2>3, <2>4, <2>5, <2>6
<1> QED BY <1>1, <1>2

\* A step that skips one more, and one that keeps or parses one.
LEMMA AuditSkipsOne ==
  ASSUME AuditInv, audit.pc # "off", DOMAIN audit' = DOMAIN audit, audit'.pc \notin {"report", "over"},
         audit'.parsed = audit.parsed, audit'.skipped = audit.skipped + 1,
         \/ audit'.todo = audit.todo /\ audit'.observed = audit.observed + 1
         \/ /\ audit.todo # <<>> /\ audit'.todo = Tail(audit.todo)
            /\ audit'.observed = audit.observed,
         audit'.complete.analysis = FALSE \/ (audit'.pc # "read" /\ audit'.over)
  PROVE  AuditInv'
<1>1. DOMAIN audit = AuditFields /\ AuditCounts /\ AuditTells
  BY AuditSteps
<1>2. Len(audit.parsed) \in Nat /\ Len(audit.todo) \in Nat
  BY <1>1, SequenceFacts DEF AuditCounts
<1>3. /\ IsSequence(audit'.todo) /\ Len(audit'.todo) \in Nat
      /\ audit'.observed = Len(audit.parsed) + (audit.skipped + 1) + Len(audit'.todo)
      /\ audit'.observed \in Nat
  <2>1. CASE audit'.todo = audit.todo /\ audit'.observed = audit.observed + 1
    <3>1. /\ IsSequence(audit'.todo) /\ audit.observed \in Nat /\ audit.skipped \in Nat
          /\ audit.observed = Len(audit.parsed) + audit.skipped + Len(audit.todo)
      BY <1>1, <2>1 DEF AuditCounts
    <3>2. /\ audit.observed + 1 = Len(audit.parsed) + (audit.skipped + 1) + Len(audit.todo)
          /\ audit.observed + 1 \in Nat
      <4>1. PICK o \in Nat, p \in Nat, s \in Nat, t \in Nat :
              o = audit.observed /\ p = Len(audit.parsed) /\ s = audit.skipped /\ t = Len(audit.todo)
        BY <1>2, <3>1, Zenon
      <4>2. o = p + s + t
        BY <3>1, <4>1, Zenon
      <4>3. o + 1 = p + (s + 1) + t /\ o + 1 \in Nat
        BY <4>2
      <4> QED BY <4>1, <4>3, Zenon
    <3> QED BY <1>2, <2>1, <3>1, <3>2
  <2>2. CASE audit.todo # <<>> /\ audit'.todo = Tail(audit.todo) /\ audit'.observed = audit.observed
    <3>1. IsSequence(Tail(audit.todo)) /\ Len(audit.todo) = Len(Tail(audit.todo)) + 1
      BY <1>1, <2>2, SequenceFacts DEF AuditCounts
    <3>2. Len(Tail(audit.todo)) \in Nat
      BY <3>1, SequenceFacts
    <3>3. /\ audit.observed \in Nat /\ audit.skipped \in Nat
          /\ audit.observed = Len(audit.parsed) + audit.skipped + Len(audit.todo)
      BY <1>1 DEF AuditCounts
    <3>4. audit.observed = Len(audit.parsed) + (audit.skipped + 1) + Len(Tail(audit.todo))
      <4>1. PICK o \in Nat, p \in Nat, s \in Nat, t \in Nat, r \in Nat :
              /\ o = audit.observed /\ p = Len(audit.parsed) /\ s = audit.skipped
              /\ t = Len(audit.todo) /\ r = Len(Tail(audit.todo))
        BY <1>2, <3>2, <3>3, Zenon
      <4>2. o = p + s + t /\ t = r + 1
        BY <3>1, <3>3, <4>1, Zenon
      <4>3. o = p + (s + 1) + r
        BY <4>2
      <4> QED BY <4>1, <4>3, Zenon
    <3> QED BY <2>2, <3>1, <3>2, <3>3, <3>4
  <2> QED BY <2>1, <2>2
<1>4. AuditCounts'
  <2>1. IsSequence(audit.parsed) /\ audit.skipped \in Nat
    BY <1>1 DEF AuditCounts
  <2>2. audit.skipped + 1 \in Nat
    BY <2>1
  <2> QED BY <1>3, <2>1, <2>2, Zenon DEF AuditCounts
<1>5. AuditTells'
  BY DEF AuditTells, AuditReported
<1> QED BY <1>1, <1>4, <1>5 DEF AuditInv

LEMMA AuditMovesOne ==
  ASSUME AuditInv, audit.pc # "off", DOMAIN audit' = DOMAIN audit, audit'.pc \notin {"report", "over"},
         audit'.pc = audit.pc, audit'.skipped = audit.skipped, audit'.over = audit.over,
         \/ \E x : /\ audit'.todo = Append(audit.todo, x) /\ audit'.observed = audit.observed + 1
                   /\ audit'.parsed = audit.parsed
         \/ \E x : /\ audit.todo # <<>> /\ audit'.todo = Tail(audit.todo)
                   /\ audit'.observed = audit.observed /\ audit'.parsed = Append(audit.parsed, x),
         audit'.complete = audit.complete \/ audit'.complete.analysis = FALSE
  PROVE  AuditInv'
<1>1. DOMAIN audit = AuditFields /\ AuditCounts /\ AuditTells
  BY AuditSteps
<1>2. Len(audit.parsed) \in Nat /\ Len(audit.todo) \in Nat
  BY <1>1, SequenceFacts DEF AuditCounts
<1>3. AuditCounts'
  <2>1. CASE \E x : /\ audit'.todo = Append(audit.todo, x) /\ audit'.observed = audit.observed + 1
                    /\ audit'.parsed = audit.parsed
    <3>1. PICK x : /\ audit'.todo = Append(audit.todo, x) /\ audit'.observed = audit.observed + 1
                   /\ audit'.parsed = audit.parsed
      BY <2>1
    <3>2. IsSequence(audit'.todo) /\ Len(audit'.todo) = Len(audit.todo) + 1
      BY <1>1, <3>1, SequenceFacts DEF AuditCounts
    <3>3. /\ audit.observed \in Nat /\ audit.skipped \in Nat /\ IsSequence(audit.parsed)
          /\ audit.observed = Len(audit.parsed) + audit.skipped + Len(audit.todo)
      BY <1>1 DEF AuditCounts
    <3>4. audit.observed + 1 = Len(audit.parsed) + audit.skipped + (Len(audit.todo) + 1)
      <4>1. PICK o \in Nat, p \in Nat, s \in Nat, t \in Nat :
              o = audit.observed /\ p = Len(audit.parsed) /\ s = audit.skipped /\ t = Len(audit.todo)
        BY <1>2, <3>3, Zenon
      <4>2. o = p + s + t
        BY <3>3, <4>1, Zenon
      <4>3. o + 1 = p + s + (t + 1)
        BY <4>2
      <4> QED BY <4>1, <4>3, Zenon
    <3>5. audit'.observed = Len(audit'.parsed) + audit'.skipped + Len(audit'.todo)
      BY <3>1, <3>2, <3>4
    <3>6. audit'.observed \in Nat /\ audit'.skipped \in Nat /\ IsSequence(audit'.parsed)
      BY <3>1, <3>3
    <3> QED BY <3>2, <3>5, <3>6 DEF AuditCounts
  <2>2. CASE \E x : /\ audit.todo # <<>> /\ audit'.todo = Tail(audit.todo)
                    /\ audit'.observed = audit.observed /\ audit'.parsed = Append(audit.parsed, x)
    <3>1. PICK x : /\ audit.todo # <<>> /\ audit'.todo = Tail(audit.todo)
                   /\ audit'.observed = audit.observed /\ audit'.parsed = Append(audit.parsed, x)
      BY <2>2
    <3>2. /\ IsSequence(audit'.todo) /\ Len(audit.todo) = Len(audit'.todo) + 1
          /\ IsSequence(audit'.parsed) /\ Len(audit'.parsed) = Len(audit.parsed) + 1
      BY <1>1, <3>1, SequenceFacts DEF AuditCounts
    <3>3. Len(audit'.todo) \in Nat
      BY <3>2, SequenceFacts
    <3>4. /\ audit.observed \in Nat /\ audit.skipped \in Nat
          /\ audit.observed = Len(audit.parsed) + audit.skipped + Len(audit.todo)
      BY <1>1 DEF AuditCounts
    <3>5. audit.observed = (Len(audit.parsed) + 1) + audit.skipped + Len(audit'.todo)
      <4>1. PICK o \in Nat, p \in Nat, s \in Nat, t \in Nat, r \in Nat :
              /\ o = audit.observed /\ p = Len(audit.parsed) /\ s = audit.skipped
              /\ t = Len(audit.todo) /\ r = Len(audit'.todo)
        BY <1>2, <3>3, <3>4, Zenon
      <4>2. o = p + s + t /\ t = r + 1
        BY <3>2, <3>4, <4>1, Zenon
      <4>3. o = (p + 1) + s + r
        BY <4>2
      <4> QED BY <4>1, <4>3, Zenon
    <3>6. audit'.observed = Len(audit'.parsed) + audit'.skipped + Len(audit'.todo)
      BY <3>1, <3>2, <3>5
    <3>7. audit'.observed \in Nat /\ audit'.skipped \in Nat
      BY <3>1, <3>4
    <3> QED BY <3>2, <3>6, <3>7 DEF AuditCounts
  <2> QED BY <2>1, <2>2
<1>4. AuditTells'
  BY <1>1 DEF AuditTells, AuditReported
<1> QED BY <1>1, <1>3, <1>4 DEF AuditInv

LEMMA AuditEntryStep ==
  ASSUME AuditInv, Entry
  PROVE  AuditInv'
<1>0. audit.pc = "entries"
  BY Zenon DEF Entry
<1>1. audit.pc = "entries" /\ DOMAIN audit = AuditFields /\ Len(audit.todo) \in Nat
  BY <1>0, AuditSteps, SequenceFacts DEF AuditCounts
<1> DEFINE n == Head(audit.names)
           s == audit.site
           next == [audit EXCEPT !.names = Tail(@)]
           seen == [next EXCEPT !.observed = @ + 1]
           egg == [next EXCEPT !.complete = Warned(@)]
           full == [seen EXCEPT !.over = TRUE, !.skipped = @ + 1]
           gone == [seen EXCEPT !.skipped = @ + 1, !.complete = Warned(@)]
           kept == [seen EXCEPT !.todo = Append(@, <<s, n>>)]
<1>2. Len(audit.todo) >= MaxMetadata \/ Len(audit.todo) < MaxMetadata
  BY <1>1, EnvAssumption
<1>9. audit' = egg \/ audit' = full \/ audit' = gone \/ audit' = kept \/ Ends("denied")
  <2>1. CASE n \in Eggs
    BY <2>1, Zenon DEF Entry
  <2>2. CASE n \notin Eggs /\ Len(audit.todo) >= MaxMetadata
    BY <2>2, Zenon DEF Entry
  <2>3. CASE n \notin Eggs /\ Len(audit.todo) < MaxMetadata
    BY <2>3, Zenon DEF Entry
  <2> QED BY <1>2, <2>1, <2>2, <2>3
<1>3. /\ DOMAIN next = DOMAIN audit
      /\ next.parsed = audit.parsed /\ next.todo = audit.todo
      /\ next.observed = audit.observed /\ next.skipped = audit.skipped
      /\ next.over = audit.over /\ next.complete = audit.complete /\ next.pc = audit.pc
  BY <1>1 DEF AuditFields
<1> HIDE DEF next
<1>4. /\ DOMAIN seen = DOMAIN audit
      /\ seen.parsed = audit.parsed /\ seen.todo = audit.todo
      /\ seen.observed = audit.observed + 1 /\ seen.skipped = audit.skipped
      /\ seen.over = audit.over /\ seen.complete = audit.complete /\ seen.pc = audit.pc
  BY <1>1, <1>3 DEF AuditFields
<1> HIDE DEF seen
<1>5. CASE audit' = egg
  <2>1. Kept /\ audit'.pc = "entries"
    BY <1>1, <1>3, <1>5, WarnTells DEF Kept, AuditFields
  <2> QED BY <1>1, <2>1, AuditKeeps DEF AuditReported
<1>6. CASE audit' = full
  <2>1. /\ DOMAIN audit' = DOMAIN audit /\ audit'.pc = "entries" /\ audit'.parsed = audit.parsed
        /\ audit'.skipped = audit.skipped + 1 /\ audit'.todo = audit.todo
        /\ audit'.observed = audit.observed + 1 /\ audit'.over
    BY <1>1, <1>4, <1>6 DEF AuditFields
  <2> QED BY <1>1, <2>1, AuditSkipsOne
<1>7. CASE audit' = gone
  <2>1. /\ DOMAIN audit' = DOMAIN audit /\ audit'.pc = "entries" /\ audit'.parsed = audit.parsed
        /\ audit'.skipped = audit.skipped + 1 /\ audit'.todo = audit.todo
        /\ audit'.observed = audit.observed + 1 /\ audit'.complete.analysis = FALSE
    BY <1>1, <1>4, <1>7, WarnTells DEF AuditFields
  <2> QED BY <1>1, <2>1, AuditSkipsOne
<1>8. CASE audit' = kept
  <2>1. /\ DOMAIN audit' = DOMAIN audit /\ audit'.pc = "entries" /\ audit'.parsed = audit.parsed
        /\ audit'.skipped = audit.skipped /\ audit'.todo = Append(audit.todo, <<s, n>>)
        /\ audit'.observed = audit.observed + 1 /\ audit'.over = audit.over
        /\ audit'.complete = audit.complete
    BY <1>1, <1>4, <1>8 DEF AuditFields
  <2>2. \E x : /\ audit'.todo = Append(audit.todo, x) /\ audit'.observed = audit.observed + 1
               /\ audit'.parsed = audit.parsed
    BY <2>1
  <2> QED BY <1>1, <2>1, <2>2, AuditMovesOne
<1> QED BY <1>1, <1>5, <1>6, <1>7, <1>8, <1>9, AuditGivesUp

LEMMA AuditDiscoveredStep ==
  ASSUME AuditInv, Discovered
  PROVE  AuditInv'
<1>1. audit.pc = "list" /\ DOMAIN audit = AuditFields /\ AuditCounts /\ AuditTells
  BY AuditSteps DEF Discovered
<1>2. CASE Ends("denied")
  BY <1>1, <1>2, AuditGivesUp
<1>3. CASE ~Ends("denied")
  <2>1. /\ Kept /\ audit'.pc = "read"
        /\ audit'.complete = IF audit.over THEN Warn(audit.complete, TRUE, TRUE) ELSE audit.complete
    <3> DEFINE told == IF audit.over THEN Warn(audit.complete, TRUE, TRUE) ELSE audit.complete
    <3>1. audit' = [audit EXCEPT !.pc = "read", !.complete = told]
      BY <1>3, Zenon DEF Discovered
    <3>2. told = audit.complete \/ told.analysis = FALSE
      BY WarnTells, Zenon
    <3>3. audit'.complete = told
      BY <1>1, <3>1, Zenon DEF AuditFields
    <3> HIDE DEF told
    <3>4. Kept /\ audit'.pc = "read"
      BY <1>1, <3>1, <3>2, <3>3 DEF Kept, AuditFields
    <3> QED BY <3>3, <3>4, Zenon DEF told
  <2>2. AuditCounts'
    BY <1>1, <2>1 DEF AuditCounts, Kept
  <2>3. AuditTells'
    BY <1>1, <2>1, WarnTells DEF AuditTells, AuditReported, Kept
  <2> QED BY <1>1, <2>1, <2>2, <2>3 DEF AuditInv, Kept
<1> QED BY <1>2, <1>3

LEMMA AuditReadStep ==
  ASSUME AuditInv, ReadMetadata
  PROVE  AuditInv'
<1>0. audit.pc = "read" /\ audit.todo # <<>>
  BY Zenon DEF ReadMetadata
<1>1. DOMAIN audit = AuditFields /\ AuditCounts /\ AuditTells
  BY <1>0, AuditSteps
<1> DEFINE next == [audit EXCEPT !.todo = Tail(@)]
           skip == [next EXCEPT !.skipped = @ + 1, !.complete = Warned(@)]
           parse(x) == [next EXCEPT !.parsed = Append(@, x), !.left = @ - Len(x.requirements),
                          !.complete = IF x.truncated THEN Warn(@, TRUE, TRUE) ELSE @]
<1>2. Ends("denied") \/ audit' = skip \/ \E x : audit' = parse(x)
  BY Zenon DEF ReadMetadata
<1>3. /\ DOMAIN next = DOMAIN audit
      /\ next.parsed = audit.parsed /\ next.todo = Tail(audit.todo)
      /\ next.observed = audit.observed /\ next.skipped = audit.skipped
      /\ next.over = audit.over /\ next.complete = audit.complete /\ next.pc = audit.pc
  BY <1>1 DEF AuditFields
<1> HIDE DEF next
<1>4. CASE audit' = skip
  <2>1. /\ DOMAIN audit' = DOMAIN audit /\ audit'.pc = "read" /\ audit'.parsed = audit.parsed
        /\ audit'.skipped = audit.skipped + 1 /\ audit'.todo = Tail(audit.todo)
        /\ audit'.observed = audit.observed /\ audit'.complete.analysis = FALSE
    BY <1>0, <1>1, <1>3, <1>4, WarnTells DEF AuditFields
  <2> QED BY <1>0, <1>1, <2>1, AuditSkipsOne
<1>5. ASSUME NEW x, audit' = parse(x) PROVE AuditInv'
  <2> DEFINE told == IF x.truncated THEN Warn(next.complete, TRUE, TRUE) ELSE next.complete
  <2>1. told = audit.complete \/ told.analysis = FALSE
    BY <1>3, WarnTells
  <2> HIDE DEF told
  <2>2. audit' = [next EXCEPT !.parsed = Append(@, x), !.left = @ - Len(x.requirements),
                              !.complete = told]
    BY <1>5, Zenon DEF told
  <2>3. /\ DOMAIN audit' = DOMAIN audit /\ audit'.pc = "read"
        /\ audit'.parsed = Append(audit.parsed, x)
        /\ audit'.skipped = audit.skipped /\ audit'.todo = Tail(audit.todo)
        /\ audit'.observed = audit.observed /\ audit'.over = audit.over /\ audit'.complete = told
    BY <1>0, <1>1, <1>3, <2>2 DEF AuditFields
  <2>4. \E y : /\ audit.todo # <<>> /\ audit'.todo = Tail(audit.todo)
               /\ audit'.observed = audit.observed /\ audit'.parsed = Append(audit.parsed, y)
    BY <1>0, <2>3
  <2> QED BY <1>0, <1>1, <2>1, <2>3, <2>4, AuditMovesOne
<1>6. CASE \E x : audit' = parse(x)
  <2>1. PICK x : audit' = parse(x)
    BY <1>6, Zenon
  <2> QED BY <1>5, <2>1, Zenon
<1>7. CASE Ends("denied")
  BY <1>0, <1>7, AuditGivesUp
<1> QED BY <1>2, <1>4, <1>6, <1>7, Zenon

LEMMA CompletenessTells == Completeness = audit.complete \/ Completeness.analysis = FALSE
<1> DEFINE named == IF Ambiguous = {} THEN audit.complete ELSE Warned(audit.complete)
           doubtful == \E r \in Range(Requirements) : Unverifiable(r)
<1>1. named = audit.complete \/ named.analysis = FALSE
  BY WarnTells, Zenon
<1>2. CASE doubtful
  <2>1. Completeness = Warn(named, FALSE, FALSE)
    BY <1>2, Zenon DEF Completeness
  <2> QED BY <2>1, WarnTells
<1>3. CASE ~doubtful
  <2>1. Completeness = named
    BY <1>3, Zenon DEF Completeness
  <2> QED BY <1>1, <2>1, Zenon
<1> QED BY <1>2, <1>3

LEMMA AuditAssessStep ==
  ASSUME AuditInv, Assess
  PROVE  AuditInv'
<1>0. audit.pc = "read" /\ audit.todo = <<>>
  BY Zenon DEF Assess
<1>1. DOMAIN audit = AuditFields /\ AuditCounts /\ AuditTells
  BY <1>0, AuditSteps
<1>2. PICK f : audit' = [audit EXCEPT !.pc = "report", !.complete = Completeness, !.findings = f]
  BY Zenon DEF Assess
<1>3. Kept /\ audit'.pc = "report"
  BY <1>1, <1>2, CompletenessTells DEF Kept, AuditFields
<1>4. AuditCounts'
  BY <1>1, <1>3 DEF AuditCounts, Kept
<1>5. AuditTells'
  BY <1>0, <1>1, <1>3 DEF AuditTells, AuditReported, Kept
<1> QED BY <1>1, <1>3, <1>4, <1>5 DEF AuditInv, Kept

LEMMA AuditReportStep ==
  ASSUME AuditInv, Report
  PROVE  AuditInv'
<1>0. audit.pc = "report" /\ UNCHANGED env
  BY DEF Report, envWorld
<1>1. DOMAIN audit = AuditFields /\ AuditCounts /\ AuditTells
  BY <1>0, AuditSteps
<1>2. CASE env.root # audit.root
  BY <1>0, <1>2, AuditGivesUp DEF Report
<1>3. CASE env.root = audit.root
  <2>1. PICK o : Ends(o) /\ (~audit.complete.analysis => o = "partial")
    BY <1>3, Zenon DEF Report
  <2>2. /\ Kept /\ audit'.pc = "over" /\ audit'.outcome = o
        /\ audit'.root = audit.root /\ audit'.complete = audit.complete
    BY <1>1, <2>1 DEF Ends, Kept, AuditFields
  <2>3. AuditCounts'
    BY <1>1, <2>2 DEF AuditCounts, Kept
  <2>4. AuditTells'
    <3>1. audit'.todo = <<>> /\ (audit'.skipped > 0 => ~audit'.complete.analysis)
      BY <1>0, <1>1, <2>2 DEF AuditTells, Kept
    <3>2. audit'.skipped > 0 => audit'.outcome = "partial"
      BY <2>1, <2>2, <3>1
    <3>3. env'.root = audit'.root
      BY <1>0, <1>3, <2>2
    <3> QED BY <2>2, <3>1, <3>2, <3>3 DEF AuditTells, AuditReported
  <2> QED BY <1>1, <2>2, <2>3, <2>4 DEF AuditInv, Kept
<1> QED BY <1>2, <1>3

\* Whatever a step of the audit leaves of the tree.
LEMMA AuditStep ==
  ASSUME AuditInv, EnvNext
  PROVE  AuditInv'
BY AuditQuietStep, AuditEntryStep, AuditDiscoveredStep, AuditReadStep, AuditAssessStep,
   AuditReportStep DEF EnvNext

\* An installer comes only while the audit is under way.
LEMMA AuditStands ==
  ASSUME AuditInv, UNCHANGED audit, UNCHANGED env \/ audit.pc # "over"
  PROVE  AuditInv'
<1>1. CASE audit = AuditOff
  BY <1>1 DEF AuditInv, AuditOff
<1>2. CASE DOMAIN audit = AuditFields /\ AuditCounts /\ AuditTells
  <2>1. AuditCounts'
    BY <1>2 DEF AuditCounts
  <2>2. AuditTells'
    BY <1>2 DEF AuditTells, AuditReported
  <2> QED BY <1>2, <2>1, <2>2 DEF AuditInv
<1> QED BY <1>1, <1>2 DEF AuditInv

-----------------------------------------------------------------------------
(* The tools together *)

LEMMA AgentBeginOK ==
  ASSUME NEW request \in AgentRequests, scan = AgentBegin(request)
  PROVE  AgentInv
<1>1. \A S : <<>> \in Seq(S) /\ Range(<<>>) = {} /\ Len(<<>>) = 0
  BY EmptyRange
<1>2. /\ scan.pc = "policy" /\ scan.discovered = 0 /\ scan.total = 0 /\ scan.scanned = {}
      /\ scan.candidates = <<>> /\ scan.withheld = 0 /\ scan.request = request
      /\ scan.outcome = "none"
  BY DEF AgentBegin
<1>3. scan \in AgentType
  BY <1>1 DEF AgentBegin, AgentType, AgentPCs
<1>4. AgentPlace
  BY <1>2 DEF AgentPlace
<1>5. AgentCounts
  <2>1. Cardinality({}) = 0 /\ Len(<<>>) = 0 /\ Range(<<>>) = {} /\ IsInjective(<<>>)
    BY <1>1, FS_EmptySet DEF IsInjective
  <2>2. request.maxFiles \in Nat /\ MaxTotalBytes \in Nat
    BY AgentAssumption
  <2> QED BY <1>2, <2>1, <2>2 DEF AgentCounts
<1>6. AgentCovers
  BY <1>2 DEF AgentCovers, AgentReported, AgentWalk
<1> QED BY <1>3, <1>4, <1>5, <1>6 DEF AgentInv

\* What every step of every tool keeps.
TreeInvariant == WorldOK /\ AgentInv /\ BanditInv /\ SnapInv /\ PagesInv /\ AuditInv

LEMMA TreeInvariantInit == Init => TreeInvariant
<1> SUFFICES ASSUME Init PROVE TreeInvariant
  OBVIOUS
<1>1. WorldOK
  BY WorldInitOK DEF Init, ATreeTool, TheAuditor
<1>2. CASE ATreeTool
  <2>1. PICK start \in Starts :
          scan = start[1] /\ bandit = start[2] /\ snap = start[3] /\ pages = start[4]
    BY <1>2, Zenon DEF ATreeTool
  <2>2. \/ \E request \in AgentRequests :
             scan = AgentBegin(request) /\ bandit = BanditOff /\ snap = SnapOff /\ pages = PagesOff
        \/ scan = AgentOff /\ bandit = BanditBegin /\ snap = SnapOff /\ pages = PagesOff
        \/ scan = AgentOff /\ bandit = BanditOff /\ snap = SnapBegin /\ pages = PagesOff
        \/ \E limit \in PageLimits :
             scan = AgentOff /\ bandit = BanditOff /\ snap = SnapOff /\ pages = PagesBegin(limit)
    BY <2>1 DEF Starts
  <2>3. AgentInv
    BY <2>2, AgentBeginOK DEF AgentInv
  <2>4. BanditInv
    BY <1>1, <2>2, BanditBeginOK DEF BanditInv
  <2>5. SnapInv
    BY <1>1, <2>2, SnapBeginOK DEF SnapInv
  <2>6. PagesInv
    BY <2>2, PagesBeginOK DEF PagesInv
  <2>7. AuditInv
    BY <1>2 DEF ATreeTool, AuditInv
  <2> QED BY <1>1, <2>3, <2>4, <2>5, <2>6, <2>7 DEF TreeInvariant
<1>3. CASE TheAuditor
  <2>1. scan = AgentOff /\ bandit = BanditOff /\ snap = SnapOff /\ pages = PagesOff
        /\ audit = AuditBegin
    BY <1>3, Zenon DEF TheAuditor
  <2> QED BY <1>1, <2>1, AuditBeginOK DEF TreeInvariant, AgentInv, BanditInv, SnapInv, PagesInv
<1> QED BY <1>2, <1>3 DEF Init

LEMMA TreeInvariantStep == TreeInvariant /\ [Next]_vars => TreeInvariant'
<1> SUFFICES ASSUME TreeInvariant, [Next]_vars PROVE TreeInvariant'
  OBVIOUS
<1>0. WorldOK /\ AgentInv /\ BanditInv /\ SnapInv /\ PagesInv /\ AuditInv
  BY DEF TreeInvariant
<1>1. CASE AgentNext /\ UNCHANGED <<bandit, snap, pages, envWorld, audit>>
  <2>1. AgentInv' /\ WorldOK' /\ Moves
    BY <1>0, <1>1, AgentStep
  <2> QED BY <1>0, <1>1, <2>1, BanditStands, SnapStands, PagesStands, AuditStands
          DEF TreeInvariant, envWorld
<1>2. CASE BanditNext /\ UNCHANGED <<scan, snap, pages, envWorld, audit>>
  <2>1. BanditInv' /\ WorldOK' /\ Moves
    BY <1>0, <1>2, BanditStep
  <2> QED BY <1>0, <1>2, <2>1, AgentStands, SnapStands, PagesStands, AuditStands
          DEF TreeInvariant, envWorld
<1>3. CASE SnapshotNext /\ UNCHANGED <<scan, bandit, pages, envWorld, audit>>
  <2>1. SnapInv' /\ WorldOK' /\ Moves
    BY <1>0, <1>3, SnapStep
  <2> QED BY <1>0, <1>3, <2>1, AgentStands, BanditStands, PagesStands, AuditStands
          DEF TreeInvariant, envWorld
<1>4. CASE PagesNext /\ UNCHANGED <<scan, bandit, snap, envWorld, audit>>
  <2>1. PagesInv' /\ WorldOK' /\ Moves
    BY <1>0, <1>4, PagesStep
  <2> QED BY <1>0, <1>4, <2>1, AgentStands, BanditStands, SnapStands, AuditStands
          DEF TreeInvariant, envWorld
<1>5. CASE EnvNext /\ UNCHANGED <<world, tools>>
  <2>1. AuditInv' /\ WorldOK' /\ Moves /\ UNCHANGED <<scan, bandit, snap, pages>>
    BY <1>0, <1>5, AuditStep, StandingMoves DEF tools
  <2> QED BY <1>0, <2>1, AgentStands, BanditStands, SnapStands, PagesStands DEF TreeInvariant
<1>6. CASE Others /\ UNCHANGED <<tools, envWorld, audit>>
  <2>1. WorldOK' /\ Moves /\ UNCHANGED <<scan, bandit, snap, pages, env, audit>>
    BY <1>0, <1>6, OthersMove DEF tools, envWorld
  <2> QED BY <1>0, <2>1, AgentStands, BanditStands, SnapStands, PagesStands, AuditStands
          DEF TreeInvariant
<1>7. CASE ~Ended /\ Installer /\ UNCHANGED <<world, tools>>
  <2>1. audit.pc # "over"
    BY <1>7 DEF Ended
  <2>2. UNCHANGED audit
    BY <1>7, Zenon DEF Installer
  <2>3. WorldOK' /\ Moves /\ UNCHANGED <<scan, bandit, snap, pages>>
    BY <1>0, <1>7, StandingMoves DEF tools
  <2> QED BY <1>0, <2>1, <2>2, <2>3, AgentStands, BanditStands, SnapStands, PagesStands,
             AuditStands DEF TreeInvariant
<1>8. CASE UNCHANGED vars
  <2>1. WorldOK' /\ Moves /\ UNCHANGED <<scan, bandit, snap, pages, env, audit>>
    BY <1>0, <1>8, StandingMoves DEF vars, tools, envWorld
  <2> QED BY <1>0, <2>1, AgentStands, BanditStands, SnapStands, PagesStands, AuditStands
          DEF TreeInvariant
<1> QED BY <1>1, <1>2, <1>3, <1>4, <1>5, <1>6, <1>7, <1>8 DEF Next, Rest

\* The invariant the theorems below follow from: of each tool, where its call is
\* and what it has counted, and that what it has not come to yet is still on
\* its way (walk_safe_directory, _snapshot_authorized_sources,
\* private_repository_snapshot, _safe_directory_entries,
\* PythonEnvironmentInspector.inspect).
THEOREM TreesAreCovered == Spec => []TreeInvariant
BY TreeInvariantInit, TreeInvariantStep, PTL DEF Spec

\* A file that stays in its place, in directories that do, is in the report or the
\* copy of each tool that walks, whatever others do elsewhere and however large
\* the tree, unless the report says that it is truncated (audit_agent_configs,
\* _snapshot_authorized_sources, private_repository_snapshot).
THEOREM NothingIsMissed == Spec => []MissesNothing
<1>1. TreeInvariant => MissesNothing
  BY AgentAnswers, BanditAnswers, SnapAnswers DEF TreeInvariant, MissesNothing
<1> QED BY <1>1, TreesAreCovered, PTL

\* The counts of each report add up with one another and with the limits, however
\* the tree or the environment changes under the call and whatever fails: each
\* budget is spent once for each file, each distribution parsed or skipped
\* (_copy_if_authorized, read_safe_candidate, _ScanState).
THEOREM ReportsAddUp == Spec => []AddsUp
<1>1. TreeInvariant => AddsUp
  BY AgentAnswers, BanditAnswers, SnapAnswers, PagesAnswers, AuditAnswers
  DEF TreeInvariant, AddsUp
<1> QED BY <1>1, TreesAreCovered, PTL

-----------------------------------------------------------------------------
(* What the pages show *)

\* The entries that the policy allows, of those that are listed first and of those
\* that are listed last.
LeadingAll == {p \in Listable \cap Children(Top) : Kind(p) \in {"dir", "locked"}}
TrailingAll == {p \in Listable \cap Children(Top) : Kind(p) \in {"file", "hard", "other"}}
All == Sorted(LeadingAll) \o Sorted(TrailingAll)

\* The names are allowed ones, and those that are missing are still to come.
ListedButFor(ps) ==
  /\ Leading \subseteq LeadingAll /\ LeadingAll \subseteq Leading \cup ps
  /\ Trailing \subseteq TrailingAll /\ TrailingAll \subseteq Trailing \cup ps

PagesLeadTo ==
  CASE pages.pc = "call" -> TRUE
    [] pages.pc = "next" -> /\ ~pages.truncated /\ pages.names \subseteq Children(Top)
                            /\ ListedButFor(pages.names)
    [] pages.pc = "stat" -> /\ ~pages.truncated /\ pages.names \subseteq Children(Top)
                            /\ pages.candidate \in Listable \cap Children(Top)
                            /\ Kind(pages.candidate) # "link"
                            /\ pages.directory = (Kind(pages.candidate) \in {"dir", "locked"})
                            /\ ListedButFor(pages.names \cup {pages.candidate})
    [] pages.pc = "answer" -> pages.truncated \/ ListedButFor({})
    [] OTHER -> TRUE

\* What was shown is the beginning of what is to be shown.
PagesHold ==
  /\ IF pages.pc = "over" THEN pages.shown = All
     ELSE pages.offset <= Len(All) /\ pages.shown = SubSeq(All, 1, pages.offset)
  /\ PagesLeadTo

\* It is, as long as the names stay and no page was truncated; and nobody but the
\* client and the others makes a step.
PagesTrue ==
  pages.pc # "off" =>
    /\ scan.pc = "off" /\ bandit.pc = "off" /\ snap.pc = "off"
    /\ changes = 0 => tree = plan.tree
    /\ SameNames /\ ~pages.cut => PagesHold

LEMMA AllFacts == All \in Seq(Paths) /\ Len(All) \in Nat
<1>1. LeadingAll \in SUBSET Paths /\ TrailingAll \in SUBSET Paths
  BY DEF LeadingAll, TrailingAll, Children
<1>2. Sorted(LeadingAll) \in Seq(Paths)
  BY <1>1, SortedFacts, SeqOfSubset
<1>3. Sorted(TrailingAll) \in Seq(Paths)
  BY <1>1, SortedFacts, SeqOfSubset
<1>4. All \in Seq(Paths)
  BY <1>2, <1>3, ConcatRange DEF All
<1> QED BY <1>4, EmptyRange

\* While the client pages, the tree changes only by others, one change at a time.
SameOrNext ==
  /\ plan' = plan
  /\ UNCHANGED <<tree, changes>> \/ (changes' = changes + 1 /\ tree' \in [Paths -> Entries])

LEMMA WorldStep ==
  ASSUME WorldOK, [Next]_vars, scan.pc = "off", bandit.pc = "off", snap.pc = "off"
  PROVE  /\ SameOrNext /\ scan' = scan /\ bandit' = bandit /\ snap' = snap
         /\ UNCHANGED pages \/ (PagesNext /\ UNCHANGED world)
<1>1. ~AgentNext
  BY Zenon DEF AgentNext, AgentPolicy, AgentChain, AgentLstat, AgentReadTarget, AgentOpen,
     AgentList, AgentListFails, AgentStat, AgentEnter, AgentDescend, AgentChoose, AgentRead,
     AgentReport
<1>2. ~BanditNext
  BY DEF BanditNext, BanditList, BanditSkip, BanditCopy, BanditWriteFails, BanditDescend,
     BanditFails, BanditReports
<1>3. ~SnapshotNext
  BY DEF SnapshotNext, SnapLate, SnapPop, SnapScan, SnapEntry, SnapFile, SnapFails, SnapNext,
     SnapConfig
<1>4. CASE PagesNext /\ UNCHANGED <<scan, bandit, snap, envWorld, audit>>
  <2>1. UNCHANGED world
    BY <1>4, Zenon DEF PagesNext, PagesCall, PagesJudge, PagesFull, PagesStat, PagesScanned,
       PagesAnswer
  <2> QED BY <1>4, <2>1 DEF SameOrNext, world
<1>5. CASE UNCHANGED <<world, tools>>
  BY <1>5 DEF SameOrNext, world, tools
<1>6. CASE Others /\ UNCHANGED <<tools, envWorld, audit>>
  <2>1. PICK p \in Paths : \E e \in plan.to[p] : Disturb(p) /\ tree' = [tree EXCEPT ![p] = e]
    BY <1>6 DEF Others
  <2>2. tree' \in [Paths -> Entries]
    BY <1>6, OthersMove DEF WorldOK
  <2> QED BY <1>6, <2>1, <2>2 DEF SameOrNext, Disturb, tools
<1>7. CASE UNCHANGED vars
  BY <1>7 DEF SameOrNext, vars, world, tools
<1> QED BY <1>1, <1>2, <1>3, <1>4, <1>5, <1>6, <1>7 DEF Next, Rest

\* Names that are the same after a step were so before, and of the same kinds.
LEMMA NamesStay ==
  ASSUME WorldOK, SameOrNext, changes = 0 => tree = plan.tree, SameNames'
  PROVE  /\ SameNames /\ \A p \in Paths \cup {Top} : Kind(p)' = Kind(p)
         /\ LeadingAll' = LeadingAll /\ TrailingAll' = TrailingAll
         /\ All' = All
<1>0. changes \in Nat /\ changes' <= 1
  BY PlansAssumption DEF WorldOK, SameNames
<1>1. Top \notin Paths
  BY TopFacts
<1>2. ASSUME UNCHANGED <<tree, changes>>
      PROVE  SameNames /\ \A p \in Paths : Kind(p)' = Kind(p)
  BY <1>2 DEF SameOrNext, SameNames, Kind
<1>3. ASSUME changes' = changes + 1
      PROVE  SameNames /\ \A p \in Paths : Kind(p)' = Kind(p)
  <2>1. changes = 0 /\ tree = plan.tree
    BY <1>0, <1>3
  <2>2. \A p \in Paths : Kind(p)' = plan.tree[p].kind /\ Kind(p) = plan.tree[p].kind
    BY <1>1, <2>1 DEF SameNames, SameOrNext, Kind
  <2>3. SameNames
    BY <2>1, <2>2 DEF SameNames
  <2> QED BY <2>2, <2>3
<1>4. SameNames /\ \A p \in Paths \cup {Top} : Kind(p)' = Kind(p)
  <2>1. SameNames /\ \A p \in Paths : Kind(p)' = Kind(p)
    BY <1>2, <1>3 DEF SameOrNext
  <2>2. Kind(Top)' = Kind(Top)
    BY DEF Kind
  <2> QED BY <2>1, <2>2
<1>5. LeadingAll' = LeadingAll /\ TrailingAll' = TrailingAll
  BY <1>4 DEF LeadingAll, TrailingAll, Children
<1>6. All' = All
  BY <1>5 DEF All
<1> QED BY <1>4, <1>5, <1>6

LEMMA HoldStands ==
  ASSUME PagesHold, UNCHANGED pages, All' = All,
         LeadingAll' = LeadingAll, TrailingAll' = TrailingAll,
         pages.pc = "stat" => Kind(pages.candidate)' = Kind(pages.candidate)
  PROVE  PagesHold'
<1>1. ListedButFor(pages.names)' = ListedButFor(pages.names) /\ ListedButFor({})' = ListedButFor({})
      /\ ListedButFor(pages.names \cup {pages.candidate})' = ListedButFor(pages.names \cup {pages.candidate})
  BY DEF ListedButFor, Leading, Trailing
<1> QED BY <1>1 DEF PagesHold, PagesLeadTo

LEMMA HoldCall ==
  ASSUME PagesHold, pages \in PagesType, PagesCall, All' = All,
         LeadingAll' = LeadingAll, TrailingAll' = TrailingAll
  PROVE  PagesHold'
<1> DEFINE names == {p \in Children(Top) : Kind(p) # "none"}
<1>1. /\ pages.pc = "call" /\ pages.offset <= Len(All) /\ pages.shown = SubSeq(All, 1, pages.offset)
      /\ pages' = [pages EXCEPT !.pc = "next", !.scanned = 0, !.truncated = FALSE, !.entries = {},
                                !.names = names]
  BY DEF PagesHold, PagesCall
<1>2. names \subseteq Children(Top) /\ LeadingAll \cup TrailingAll \subseteq names
  BY DEF LeadingAll, TrailingAll
<1> HIDE DEF names
<1>3. /\ pages'.pc = "next" /\ pages'.truncated = FALSE /\ pages'.entries = {}
      /\ pages'.names = names /\ pages'.offset = pages.offset /\ pages'.shown = pages.shown
  BY <1>1 DEF PagesType
<1>4. Leading' = {} /\ Trailing' = {}
  BY <1>3 DEF Leading, Trailing
<1>5. ListedButFor(pages.names)'
  BY <1>2, <1>3, <1>4 DEF ListedButFor
<1>6. PagesLeadTo'
  BY <1>2, <1>3, <1>5 DEF PagesLeadTo, ListedButFor
<1> QED BY <1>1, <1>3, <1>6 DEF PagesHold

LEMMA HoldJudge ==
  ASSUME PagesHold, pages \in PagesType, NEW q \in Paths, PagesJudge(q), All' = All,
         LeadingAll' = LeadingAll, TrailingAll' = TrailingAll, Kind(q)' = Kind(q)
  PROVE  PagesHold'
<1> DEFINE names == pages.names \ {q}
           next == [pages EXCEPT !.names = names, !.scanned = @ + 1]
           directory == Kind(q) \in {"dir", "locked"}
<1>1. /\ pages.pc = "next" /\ pages.offset <= Len(All) /\ pages.shown = SubSeq(All, 1, pages.offset)
      /\ ~pages.truncated /\ pages.names \subseteq Children(Top) /\ q \in pages.names
      /\ ListedButFor(pages.names)
  BY DEF PagesHold, PagesLeadTo, PagesJudge
<1>2. names \subseteq Children(Top) /\ names \cup {q} = pages.names
  BY <1>1
<1>3. IF q \in Listable /\ Kind(q) # "link"
      THEN pages' = [next EXCEPT !.pc = "stat", !.candidate = q, !.directory = directory]
      ELSE pages' = next
  BY DEF PagesJudge
<1> HIDE DEF names, directory
<1>4. /\ pages'.truncated = pages.truncated /\ pages'.entries = pages.entries
      /\ pages'.names = names /\ pages'.offset = pages.offset /\ pages'.shown = pages.shown
      /\ IF q \in Listable /\ Kind(q) # "link"
         THEN pages'.pc = "stat" /\ pages'.candidate = q /\ pages'.directory = directory
         ELSE pages'.pc = "next"
  BY <1>1, <1>3 DEF PagesType
<1>5. Leading' = Leading /\ Trailing' = Trailing
  BY <1>4 DEF Leading, Trailing
<1>6. CASE q \in Listable /\ Kind(q) # "link"
  <2>1. ListedButFor(pages.names \cup {pages.candidate})'
    BY <1>1, <1>2, <1>4, <1>5, <1>6 DEF ListedButFor
  <2>2. pages'.directory = (Kind(q)' \in {"dir", "locked"}) /\ q \in Children(Top)
    BY <1>1, <1>4, <1>6 DEF directory
  <2>3. PagesLeadTo'
    BY <1>1, <1>2, <1>4, <1>6, <2>1, <2>2 DEF PagesLeadTo, ListedButFor
  <2> QED BY <1>1, <1>4, <1>6, <2>3 DEF PagesHold
<1>7. CASE ~(q \in Listable /\ Kind(q) # "link")
  <2>1. q \notin LeadingAll \cup TrailingAll
    BY <1>7 DEF LeadingAll, TrailingAll
  <2>2. ListedButFor(pages.names)'
    BY <1>1, <1>2, <1>4, <1>5, <2>1 DEF ListedButFor
  <2>3. PagesLeadTo'
    BY <1>1, <1>2, <1>4, <1>7, <2>2 DEF PagesLeadTo, ListedButFor
  <2> QED BY <1>1, <1>4, <1>7, <2>3 DEF PagesHold
<1> QED BY <1>6, <1>7

LEMMA HoldListed ==
  ASSUME PagesHold, pages \in PagesType, PagesFull \/ PagesScanned, All' = All,
         LeadingAll' = LeadingAll, TrailingAll' = TrailingAll
  PROVE  PagesHold'
<1>1. /\ pages.pc = "next" /\ pages.offset <= Len(All) /\ pages.shown = SubSeq(All, 1, pages.offset)
      /\ ListedButFor(pages.names)
  BY DEF PagesHold, PagesLeadTo, PagesFull, PagesScanned
<1>2. /\ pages'.pc = "answer" /\ pages'.entries = pages.entries
      /\ pages'.offset = pages.offset /\ pages'.shown = pages.shown
      /\ pages'.truncated = TRUE \/ pages.names = {}
  BY <1>1 DEF PagesType, PagesFull, PagesScanned
<1>3. Leading' = Leading /\ Trailing' = Trailing
  BY <1>2 DEF Leading, Trailing
<1>4. pages.names = {} => ListedButFor({})'
  BY <1>1, <1>3 DEF ListedButFor
<1>5. PagesLeadTo'
  BY <1>2, <1>4 DEF PagesLeadTo
<1> QED BY <1>1, <1>2, <1>5 DEF PagesHold

LEMMA HoldStat ==
  ASSUME WorldOK, PagesHold, pages \in PagesType, PagesStat, All' = All,
         LeadingAll' = LeadingAll, TrailingAll' = TrailingAll
  PROVE  PagesHold'
<1> DEFINE p == pages.candidate
           kind == IF IsDirectory(p) THEN "directory" ELSE "file"
           e == [path |-> p, first |-> pages.directory, kind |-> kind]
           entries == IF Kind(p) = "none" THEN pages.entries ELSE pages.entries \cup {e}
<1>1. /\ pages.pc = "stat" /\ pages.offset <= Len(All) /\ pages.shown = SubSeq(All, 1, pages.offset)
      /\ ~pages.truncated /\ pages.names \subseteq Children(Top)
      /\ p \in Listable \cap Children(Top) /\ Kind(p) # "link"
      /\ pages.directory = (Kind(p) \in {"dir", "locked"})
      /\ ListedButFor(pages.names \cup {p})
  BY DEF PagesHold, PagesLeadTo, PagesStat
<1>2. pages' = [pages EXCEPT !.pc = "next", !.entries = entries]
  BY DEF PagesStat
<1>3. p \in Paths /\ Kind(p) \in Kinds
  BY <1>1, TopFacts DEF Children, WorldOK, Kind, Entries
<1>4. /\ Leading' = Leading \cup (IF Kind(p) # "none" /\ pages.directory THEN {p} ELSE {})
      /\ Trailing' = Trailing \cup (IF Kind(p) # "none" /\ ~pages.directory THEN {p} ELSE {})
  <2>1. pages'.entries = entries
    BY <1>2 DEF PagesType
  <2>2. e.path = p /\ e.first = pages.directory
    OBVIOUS
  <2> HIDE DEF e
  <2> QED BY <1>3, <2>1, <2>2 DEF Leading, Trailing
<1>5. /\ p \in LeadingAll <=> Kind(p) # "none" /\ pages.directory
      /\ p \in TrailingAll <=> Kind(p) # "none" /\ ~pages.directory
  BY <1>1, <1>3 DEF LeadingAll, TrailingAll, Kinds
<1> HIDE DEF entries
<1>6. /\ pages'.pc = "next" /\ pages'.truncated = pages.truncated /\ pages'.names = pages.names
      /\ pages'.offset = pages.offset /\ pages'.shown = pages.shown
  BY <1>1, <1>2 DEF PagesType
<1>7. ListedButFor(pages.names)'
  BY <1>1, <1>4, <1>5, <1>6 DEF ListedButFor
<1>8. PagesLeadTo'
  BY <1>1, <1>6, <1>7 DEF PagesLeadTo, ListedButFor
<1> QED BY <1>1, <1>6, <1>8 DEF PagesHold

\* The page that is answered goes on where the one before it ended.
LEMMA PageGoesOn ==
  ASSUME NEW s \in Seq(Paths), NEW offset \in Nat, NEW limit \in Nat \ {0}, offset <= Len(s)
  PROVE  LET page == SubSeq(s, offset + 1, Min({offset + limit, Len(s)})) IN
         /\ SubSeq(s, 1, offset) \o page = SubSeq(s, 1, offset + Len(page))
         /\ offset + Len(page) <= Len(s)
<1>1. Len(s) \in Nat /\ offset + limit \in Int /\ Len(s) \in Int
  BY EmptyRange
<1>2. PICK last \in Int : /\ last = Min({offset + limit, Len(s)})
                          /\ last = IF offset + limit <= Len(s) THEN offset + limit ELSE Len(s)
  BY <1>1, Smaller
<1>3. offset <= last /\ last <= Len(s)
  BY <1>1, <1>2
<1>4. \A i \in (offset + 1)..last : s[i] \in Paths
  <2>1. \A i \in (offset + 1)..last : i \in 1..Len(s)
    BY <1>1, <1>3
  <2> QED BY <2>1, ElementOfSeq
<1>5. Len(SubSeq(s, offset + 1, last)) = last - offset
  <2>1. offset + 1 \in Int
    OBVIOUS
  <2>2. Len(SubSeq(s, offset + 1, last)) = IF offset + 1 <= last THEN last - (offset + 1) + 1 ELSE 0
    BY <1>2, <1>4, <2>1, SubSeqProperties
  <2> QED BY <1>2, <1>3, <2>2
<1>6. SubSeq(s, 1, offset) \o SubSeq(s, offset + 1, last) = SubSeq(s, 1, last)
  <2>1. 1 \in 1..Len(s) + 1 /\ offset \in 1 - 1..Len(s) /\ last \in offset..Len(s)
    BY <1>1, <1>2, <1>3
  <2> QED BY <2>1, ConcatAdjacentSubSeq
<1>7. offset + Len(SubSeq(s, offset + 1, last)) = last
  BY <1>2, <1>5
<1> QED BY <1>2, <1>3, <1>6, <1>7

LEMMA HoldAnswer ==
  ASSUME PagesHold, PagesInv, PagesAnswer, ~pages.truncated, All' = All
  PROVE  PagesHold'
<1>1. /\ pages.pc = "answer" /\ pages \in PagesType
      /\ pages.limit \in Nat \ {0} /\ pages.offset \in Nat
  BY PagesSteps, PagesAssumption DEF PagesAnswer, PagesType
<1>2. /\ pages.offset <= Len(All) /\ pages.shown = SubSeq(All, 1, pages.offset)
      /\ ListedButFor({})
  BY <1>1 DEF PagesHold, PagesLeadTo
<1>3. Listing = All
  <2>1. Leading = LeadingAll /\ Trailing = TrailingAll
    BY <1>2 DEF ListedButFor
  <2>2. Listing = Sorted(Leading) \o Sorted(Trailing)
    BY DEF Listing, Leading, Trailing
  <2> QED BY <2>1, <2>2 DEF All
<1>4. PICK all \in Seq(Paths) : all = All /\ Len(all) \in Nat
  BY AllFacts
<1> DEFINE page == SubSeq(all, pages.offset + 1, Min({pages.offset + pages.limit, Len(all)}))
           shown == pages.shown \o page
           offset == pages.offset + Len(page)
           pc == IF offset < Len(all) THEN "call" ELSE "over"
<1>5. pages' = [pages EXCEPT !.shown = shown, !.calls = @ + 1, !.cut = @ \/ pages.truncated,
                             !.pc = pc, !.offset = offset]
  BY <1>3, <1>4 DEF PagesAnswer
<1>6. SubSeq(all, 1, pages.offset) \o page = SubSeq(all, 1, offset) /\ offset <= Len(all)
  BY <1>1, <1>2, <1>4, PageGoesOn
<1>7. Len(page) \in Nat /\ offset \in Nat
  <2>1. Len(page) \in Nat
    BY <1>1, <1>4, PageFacts
  <2> HIDE DEF page
  <2> QED BY <1>1, <2>1
<1> HIDE DEF page
<1>8. shown = SubSeq(all, 1, offset) /\ (pc = "over" => offset = Len(all)) /\ pc \in {"call", "over"}
  <2>1. shown = SubSeq(all, 1, offset)
    BY <1>2, <1>4, <1>6
  <2> HIDE DEF shown, offset
  <2> QED BY <1>4, <1>6, <1>7, <2>1
<1> HIDE DEF shown, offset, pc
<1>9. pages'.shown = shown /\ pages'.offset = offset /\ pages'.pc = pc
  BY <1>1, <1>5 DEF PagesType
<1>10. pc = "over" => shown = all
  BY <1>4, <1>8, SubSeqFull
<1>11. PagesLeadTo'
  BY <1>8, <1>9 DEF PagesLeadTo
<1> QED BY <1>4, <1>6, <1>8, <1>9, <1>10, <1>11 DEF PagesHold, offset

\* A page that says that it was truncated is remembered.
LEMMA CutStays ==
  ASSUME pages \in PagesType, PagesNext
  PROVE  /\ pages.cut => pages'.cut
         /\ PagesAnswer /\ pages.truncated => pages'.cut
BY DEF PagesNext, PagesType, PagesCall, PagesJudge, PagesFull, PagesStat, PagesScanned, PagesAnswer

LEMMA PagesTrueStep ==
  ASSUME TreeInvariant, PagesTrue, [Next]_vars
  PROVE  PagesTrue'
<1>1. WorldOK /\ PagesInv
  BY DEF TreeInvariant
<1>2. CASE pages.pc = "off"
  <2>1. pages' = pages
    BY <1>2 DEF Next, Rest, vars, tools, PagesNext, PagesCall, PagesJudge, PagesFull, PagesStat,
       PagesScanned, PagesAnswer
  <2> QED BY <1>2, <2>1 DEF PagesTrue
<1>3. CASE pages.pc # "off"
  <2>1. /\ scan.pc = "off" /\ bandit.pc = "off" /\ snap.pc = "off"
        /\ changes = 0 => tree = plan.tree
        /\ SameNames /\ ~pages.cut => PagesHold
    BY <1>3 DEF PagesTrue
  <2>2. /\ SameOrNext /\ scan' = scan /\ bandit' = bandit /\ snap' = snap
        /\ UNCHANGED pages \/ (PagesNext /\ UNCHANGED world)
    BY <1>1, <2>1, WorldStep
  <2>3. changes' = 0 => tree' = plan'.tree
    BY <1>1, <2>1, <2>2, PlansAssumption DEF SameOrNext, WorldOK
  <2>4. pages \in PagesType
    BY <1>1, <1>3, PagesSteps
  <2>5. ASSUME SameNames', ~pages'.cut PROVE PagesHold'
    <3>1. /\ SameNames /\ \A p \in Paths \cup {Top} : Kind(p)' = Kind(p)
          /\ LeadingAll' = LeadingAll /\ TrailingAll' = TrailingAll /\ All' = All
      BY <1>1, <2>1, <2>2, <2>5, NamesStay
    <3>2. CASE UNCHANGED pages
      <4>1. PagesHold
        BY <2>1, <2>5, <3>1, <3>2
      <4>2. pages.candidate \in Paths \cup {Top}
        BY <2>4 DEF PagesType, Nodes
      <4> QED BY <3>1, <3>2, <4>1, <4>2, HoldStands
    <3>3. CASE PagesNext
      <4>1. PagesHold /\ (PagesAnswer => ~pages.truncated)
        BY <2>1, <2>4, <2>5, <3>1, <3>3, CutStays
      <4> QED BY <1>1, <2>4, <3>1, <3>3, <4>1, HoldCall, HoldJudge, HoldListed, HoldStat, HoldAnswer
              DEF PagesNext
    <3> QED BY <2>2, <3>2, <3>3
  <2> QED BY <2>1, <2>2, <2>3, <2>5 DEF PagesTrue
<1> QED BY <1>2, <1>3

LEMMA PagesTrueInit == Init => PagesTrue
<1> SUFFICES ASSUME Init, pages.pc # "off"
             PROVE  /\ scan.pc = "off" /\ bandit.pc = "off" /\ snap.pc = "off"
                    /\ tree = plan.tree
                    /\ PagesHold
  BY DEF PagesTrue
<1>1. ATreeTool
  BY DEF Init, TheAuditor, PagesOff
<1>2. PICK start \in Starts :
        scan = start[1] /\ bandit = start[2] /\ snap = start[3] /\ pages = start[4]
  BY <1>1, Zenon DEF ATreeTool
<1>3. PICK limit \in PageLimits :
        scan = AgentOff /\ bandit = BanditOff /\ snap = SnapOff /\ pages = PagesBegin(limit)
  BY <1>2 DEF Starts, PagesOff
<1>4. /\ scan.pc = "off" /\ bandit.pc = "off" /\ snap.pc = "off"
      /\ pages.pc = "call" /\ pages.offset = 0 /\ pages.shown = <<>>
  BY <1>3 DEF AgentOff, BanditOff, SnapOff, PagesBegin
<1>5. SubSeq(All, 1, 0) = <<>>
  BY AllFacts, BeginningRange, EmptyRange
<1>6. PagesHold
  BY <1>4, <1>5, AllFacts DEF PagesHold, PagesLeadTo
<1> QED BY <1>1, <1>4, <1>6 DEF ATreeTool, WorldInit

\* A client that follows next_offset through a directory whose names stay is
\* shown every entry the policy allows once, in one order, if no page says that it
\* was truncated, whatever the sizes of the pages and however the files change
\* (_list_directory).
THEOREM PagesAreTheListing == Spec => []PagesExact
<1>1. PagesTrue => PagesExact
  BY DEF PagesTrue, PagesHold, PagesExact, All, LeadingAll, TrailingAll
<1>2. TreeInvariant /\ PagesTrue /\ [Next]_vars => PagesTrue'
  BY PagesTrueStep
<1> QED BY <1>1, <1>2, PagesTrueInit, TreesAreCovered, PTL DEF Spec

-----------------------------------------------------------------------------
(* What is missing *)

\* What an environment holds, and what becomes of it.
EnvOK ==
  /\ {"config", "site", "entry"} \subseteq DOMAIN env
  /\ ConfigOK(env.config.lines)
  /\ env.site \in [Sites -> SiteStates]
  /\ Sites \X EntryNames \subseteq DOMAIN env.entry
  /\ \A x \in Sites \X EntryNames : EntryOK(x[2], env.entry[x])
  /\ \A change \in coming :
       /\ \A s \in Sites \cap DOMAIN change.site : change.site[s] \in SiteStates
       /\ \A x \in (Sites \X EntryNames) \cap DOMAIN change.entry : EntryOK(x[2], change.entry[x])

HasName(package) == package.name # ""
AllNamed(packages) == \A p \in Range(packages) : HasName(p)

\* What the call has at hand is of its kind.
AuditHolds ==
  /\ audit.config = NoConfig \/ Len(audit.config.version) >= 2
  /\ audit.sites \in Seq(Sites) /\ audit.site \in Sites /\ audit.stamp \in Nat
  /\ audit.names \in Seq(EntryNames) /\ audit.listed \subseteq EntryNames
  /\ audit.todo \in Seq(Sites \X EntryNames) /\ Len(audit.todo) <= MaxMetadata
  /\ IsList(audit.parsed) /\ AllNamed(audit.parsed) /\ audit.left \in Nat

\* A directory with the stamp it had when it was listed holds what it held.
ListingTrue ==
  audit.pc = "verify" =>
    /\ audit.stamp <= env.site[audit.site].stamp
    /\ audit.stamp = env.site[audit.site].stamp => Range(audit.names) = env.site[audit.site].names

\* A name that was listed is still to be looked at, its METADATA still to be
\* read, or the package is known.
OnItsWay(n) ==
  \/ audit.pc = "entries" /\ n \in Range(audit.names)
  \/ \E x \in Range(audit.todo) : x[2] = n
  \/ NameOf[n] \in ParsedNames

\* An inventory that is said to be whole is that of one site, and it is.
Early == {"identify", "config", "invalid", "same", "lib", "posix", "layout"}
Inspecting == {"list", "verify", "entries", "read"}
InventoryWhole ==
  /\ audit.pc \in Early \cup Inspecting \cup {"report", "over"}
  /\ audit.pc \in Early => audit.listed = {}
  /\ audit.pc \in Inspecting /\ audit.complete.inventory => audit.config.system = "false"
  /\ audit.pc \in Inspecting /\ audit.complete.inventory /\ ~audit.over =>
       \A n \in audit.listed : OnItsWay(n)
  /\ audit.pc = "read" /\ audit.complete.inventory => ~audit.over

\* What is called missing is in no place.
MissingTold ==
  /\ audit.pc \notin {"report", "over"} => audit.findings = <<>>
  /\ Found("missing") # {} =>
       /\ audit.config.system = "false"
       /\ \A i \in Found("missing") : \A n \in audit.listed : NameOf[n] # audit.findings[i].on.on

AuditKnows ==
  audit = AuditOff
    \/ (DOMAIN audit = AuditFields /\ EnvOK /\ AuditHolds /\ ListingTrue /\ InventoryWhole /\ MissingTold)

-----------------------------------------------------------------------------
(* The elements at some places of a sequence *)

\* They are the elements at these places, one of each.
LEMMA AtFacts ==
  ASSUME NEW S, NEW s \in Seq(S), NEW places \in SUBSET DOMAIN s
  PROVE  /\ At(s, places) \in Seq(S) /\ Len(At(s, places)) = Cardinality(places)
         /\ Cardinality(places) \in Nat
         /\ Range(At(s, places)) = {s[i] : i \in places}
<1> DEFINE n == Cardinality(places)
           rank == [i \in places |-> Cardinality(Before(i, places))]
           found == At(s, places)
<1>1. /\ DOMAIN s = 1..Len(s) /\ Len(s) \in Nat /\ \A i \in places : i \in Nat /\ s[i] \in S
  BY LenProperties, ElementOfSeq
<1>2. IsFiniteSet(places) /\ n \in Nat
  <2>1. IsFiniteSet(1..Len(s))
    BY <1>1, FS_Interval, 1 \in Int, Len(s) \in Int
  <2> QED BY <1>1, <2>1, FS_Subset, FS_CardinalityType
<1>3. ASSUME NEW i \in places PROVE rank[i] = Cardinality(Before(i, places)) /\ rank[i] \in 0..(n - 1)
  <2>1. rank[i] = Cardinality(Before(i, places))
    OBVIOUS
  <2>2. Before(i, places) \in SUBSET (places \ {i})
    BY <1>1 DEF Before
  <2>3. IsFiniteSet(places \ {i}) /\ Cardinality(places \ {i}) = n - 1
    BY <1>2, FS_RemoveElement
  <2>4. IsFiniteSet(Before(i, places)) /\ Cardinality(Before(i, places)) <= n - 1
    BY <2>2, <2>3, FS_Subset
  <2>5. Cardinality(Before(i, places)) \in Nat
    BY <2>4, FS_CardinalityType
  <2> QED BY <1>2, <2>1, <2>4, <2>5
<1>4. ASSUME NEW i \in places, NEW j \in places, i < j PROVE rank[i] < rank[j]
  <2>1. Before(i, places) \in SUBSET (Before(j, places) \ {i}) /\ i \in Before(j, places)
    BY <1>1, <1>4 DEF Before
  <2>2. IsFiniteSet(Before(j, places))
    BY <1>2, FS_Subset DEF Before
  <2>3. /\ IsFiniteSet(Before(j, places) \ {i})
        /\ Cardinality(Before(j, places) \ {i}) = Cardinality(Before(j, places)) - 1
    BY <2>1, <2>2, FS_RemoveElement
  <2>4. Cardinality(Before(i, places)) <= Cardinality(Before(j, places)) - 1
    BY <2>1, <2>3, FS_Subset
  <2> HIDE DEF rank
  <2> QED BY <1>2, <1>3, <2>4
<1>5. ASSUME NEW i \in places, NEW j \in places, rank[i] = rank[j] PROVE i = j
  <2>1. rank[i] \in Int /\ rank[j] \in Int
    <3>1. rank[i] \in 0..(n - 1) /\ rank[j] \in 0..(n - 1)
      BY <1>3
    <3> HIDE DEF rank, n
    <3> QED BY <1>2, <3>1
  <2>2. ~(i < j) /\ ~(j < i)
    <3> HIDE DEF rank
    <3> QED BY <1>4, <1>5, <2>1
  <2> QED BY <1>1, <2>2
<1>6. rank \in Surjection(places, 0..(n - 1))
  <2>1. rank \in [places -> 0..(n - 1)]
    BY <1>3
  <2>2. IsFiniteSet(0..(n - 1)) /\ Cardinality(0..(n - 1)) = n
    <3>1. 0 \in Int /\ n - 1 \in Int
      BY <1>2
    <3>2. /\ IsFiniteSet(0..(n - 1))
          /\ Cardinality(0..(n - 1)) = IF 0 > n - 1 THEN 0 ELSE (n - 1) - 0 + 1
      BY <3>1, FS_Interval
    <3> QED BY <1>2, <3>2
  <2> HIDE DEF rank
  <2>3. rank \in Injection(places, 0..(n - 1))
    BY <1>5, <2>1 DEF Injection, IsInjective
  <2> QED BY <1>2, <2>2, <2>3, FS_Injection
<1>7. \A k \in 1..n : \E i \in places : Cardinality(Before(i, places)) = k - 1
  <2>1. \A k \in 1..n : k - 1 \in 0..(n - 1)
    BY <1>2
  <2>2. \A m \in 0..(n - 1) : \E i \in places : rank[i] = m
    <3> HIDE DEF rank
    <3> QED BY <1>6 DEF Surjection, Range
  <2> QED BY <2>1, <2>2
<1> DEFINE place(k) == CHOOSE i \in places : Cardinality(Before(i, places)) = k - 1
<1>8. \A k \in 1..n : place(k) \in places /\ rank[place(k)] = k - 1
  BY <1>7
<1>9. found = [k \in 1..n |-> s[place(k)]]
  BY DEF At
<1> HIDE DEF place, rank, found, n
<1>10. found \in [1..n -> S] /\ \A k \in 1..n : found[k] = s[place(k)]
  BY <1>1, <1>8, <1>9
<1>11. found \in Seq(S) /\ Len(found) = n /\ DOMAIN found = 1..n
  BY <1>2, <1>10, IsASeq, LenProperties
<1>12. \A i \in places : \E k \in 1..n : place(k) = i
  <2> TAKE i \in places
  <2>1. rank[i] \in 0..(n - 1)
    BY <1>3
  <2>2. rank[i] + 1 \in 1..n /\ (rank[i] + 1) - 1 = rank[i]
    BY <1>2, <2>1
  <2>3. rank[place(rank[i] + 1)] = rank[i] /\ place(rank[i] + 1) \in places
    BY <1>8, <2>2
  <2> QED BY <1>5, <2>2, <2>3
<1>13. Range(found) = {s[i] : i \in places}
  <2>1. \A k \in 1..n : found[k] \in {s[i] : i \in places}
    BY <1>8, <1>10
  <2>2. \A i \in places : \E k \in 1..n : found[k] = s[i]
    BY <1>10, <1>12, Zenon
  <2> QED BY <1>11, <2>1, <2>2 DEF Range
<1> QED BY <1>2, <1>11, <1>13 DEF found, n

\* Of some lines, those with a key.
LEMMA OfFacts ==
  ASSUME NEW lines, IsList(lines), NEW key
  PROVE  /\ Of(key, lines) \in Seq(Range(lines)) /\ Len(Of(key, lines)) \in Nat
         /\ \A i \in 1..Len(Of(key, lines)) :
              Of(key, lines)[i] \in Range(lines) /\ Of(key, lines)[i].key = key
<1> DEFINE places == {i \in DOMAIN lines : lines[i].key = key}
           of == Of(key, lines)
<1>1. lines \in Seq(Range(lines)) /\ places \in SUBSET DOMAIN lines
  BY DEF IsList
<1>2. of = At(lines, places)
  BY DEF Of
<1>3. of \in Seq(Range(lines)) /\ Range(of) = {lines[i] : i \in places}
  <2> HIDE DEF places, of
  <2> QED BY <1>1, <1>2, AtFacts
<1> HIDE DEF of
<1>4. Len(of) \in Nat /\ DOMAIN of = 1..Len(of)
  BY <1>3, LenProperties
<1>5. \A i \in 1..Len(of) : of[i] \in Range(of)
  BY <1>4 DEF Range
<1>6. \A x \in Range(of) : x \in Range(lines) /\ x.key = key
  BY <1>3 DEF Range
<1> QED BY <1>3, <1>4, <1>5, <1>6 DEF of

\* The entries of a directory are those of its names that can be.
LEMMA EntriesFacts ==
  ASSUME NEW s, env.site[s].names \subseteq EntryNames
  PROVE  EntriesOf(s) \in Seq(EntryNames) /\ Range(EntriesOf(s)) = env.site[s].names
<1> DEFINE places == {i \in DOMAIN Names : Names[i] \in env.site[s].names}
<1>1. Names \in Seq(EntryNames)
  <2>1. Names \in Seq(STRING)
    BY EnvAssumption
  <2>2. Len(Names) \in Nat /\ DOMAIN Names = 1..Len(Names) /\ Names = [i \in 1..Len(Names) |-> Names[i]]
    BY <2>1, LenProperties
  <2>3. \A i \in 1..Len(Names) : Names[i] \in EntryNames
    BY <2>2 DEF EntryNames, Range
  <2>4. [i \in 1..Len(Names) |-> Names[i]] \in Seq(EntryNames)
    BY <2>2, <2>3, IsASeq
  <2> QED BY <2>2, <2>4
<1>2. places \in SUBSET DOMAIN Names /\ EntriesOf(s) = At(Names, places)
  BY DEF EntriesOf
<1>3. {Names[i] : i \in places} = env.site[s].names
  BY DEF EntryNames, Range
<1> HIDE DEF places
<1> QED BY <1>1, <1>2, <1>3, AtFacts

\* _parse_config: of a usable configuration, the version has two numbers.
LEMMA ConfigFacts ==
  ASSUME NEW lines, ConfigOK(lines)
  PROVE  ParseConfig(lines) = NoConfig \/ Len(ParseConfig(lines).version) >= 2
<1> DEFINE versions == Of("version", lines)
           infos == Of("version_info", lines)
           version == ConfigVersion(versions, infos)
<1>1. IsList(lines)
  BY DEF ConfigOK
<1>2. /\ versions \in Seq(Range(lines)) /\ infos \in Seq(Range(lines))
      /\ versions # <<>> => versions[1] \in Range(lines) /\ versions[1].key = "version"
      /\ infos # <<>> => infos[1] \in Range(lines) /\ infos[1].key = "version_info"
  <2>1. /\ versions \in Seq(Range(lines)) /\ infos \in Seq(Range(lines))
        /\ \A i \in 1..Len(versions) : versions[i] \in Range(lines) /\ versions[i].key = "version"
        /\ \A i \in 1..Len(infos) : infos[i] \in Range(lines) /\ infos[i].key = "version_info"
    BY <1>1, OfFacts
  <2> HIDE DEF versions, infos
  <2>2. /\ versions # <<>> => 1 \in 1..Len(versions)
        /\ infos # <<>> => 1 \in 1..Len(infos)
    BY <2>1, EmptySeq, LenProperties
  <2> QED BY <2>1, <2>2
<1>3. /\ versions # <<>> => versions[1].value \in Seq(Nat)
      /\ infos # <<>> => infos[1].value \in Seq(Nat)
  <2> HIDE DEF versions, infos
  <2> QED BY <1>2 DEF ConfigOK
<1>4. /\ versions # <<>> => Len(versions[1].value) \in Nat
      /\ infos # <<>> => Len(infos[1].value) \in Nat
  <2> HIDE DEF versions, infos
  <2> QED BY <1>3, LenProperties
<1>5. SUFFICES ASSUME ParseConfig(lines) # NoConfig
               PROVE  Len(ParseConfig(lines).version) >= 2
  OBVIOUS
<1>6. ParseConfig(lines).version = version /\ version # <<>> /\ versions \o infos # <<>>
  <2> HIDE DEF versions, infos
  <2>1. /\ versions \o infos # <<>> /\ version # <<>>
        /\ \E system : ParseConfig(lines) = [version |-> version, system |-> system]
    BY <1>5, Zenon DEF ParseConfig, versions, infos
  <2> HIDE DEF version
  <2> QED BY <2>1
<1>7. CASE versions # <<>>
  <2> HIDE DEF versions, infos
  <2> DEFINE short == Len(versions[1].value) < 2
  <2>1. short => version = <<>>
    BY <1>7, Zenon DEF ConfigVersion
  <2>2. version = <<>> \/ version = versions[1].value
    BY <1>7, Zenon DEF ConfigVersion
  <2> HIDE DEF version
  <2>3. Len(versions[1].value) >= 2 /\ version = versions[1].value
    BY <1>4, <1>6, <1>7, <2>1, <2>2
  <2> QED BY <1>6, <2>3
<1>8. CASE versions = <<>>
  <2>1. infos # <<>>
    BY <1>6, <1>8, EmptySeq, ConcatRange, EmptyRange
  <2> HIDE DEF versions, infos
  <2> DEFINE short == Len(infos[1].value) < 3
  <2>4. short => version = <<>>
    BY <1>8, <2>1, Zenon DEF ConfigVersion
  <2>5. version = <<>> \/ version = SubSeq(infos[1].value, 1, 3)
    BY <1>8, Zenon DEF ConfigVersion
  <2> HIDE DEF version
  <2>2. Len(infos[1].value) >= 3 /\ version = SubSeq(infos[1].value, 1, 3)
    BY <1>4, <1>6, <2>1, <2>4, <2>5
  <2>3. Len(version) = 3
    <3>1. 3 \in 0..Len(infos[1].value)
      BY <1>4, <2>1, <2>2
    <3> QED BY <1>3, <2>1, <2>2, <3>1, BeginningRange
  <2> QED BY <1>6, <2>3
<1> QED BY <1>7, <1>8

\* parse_distribution_metadata: what is parsed has the name it was given, and no
\* more requirements than asked for.
LEMMA PackageFacts ==
  ASSUME NEW n, NEW entry, EntryOK(n, entry), NEW cap \in Nat,
         NEW package, package = ParseDistribution(entry.headers, cap), package # NoPackage
  PROVE  /\ package.name = NameOf[n] /\ HasName(package)
         /\ IsSequence(package.requirements) /\ Len(package.requirements) <= cap
<1> DEFINE names == Of("name", entry.headers)
           versions == Of("version", entry.headers)
           requires == Of("requires-dist", entry.headers)
           least == Min({Len(requires), cap})
           kept == SubSeq(requires, 1, least)
           listed == [i \in DOMAIN kept |-> kept[i].value]
<1>1. IsList(entry.headers)
  BY DEF EntryOK
<1>2. \A i \in 1..Len(names) : names[i] \in Range(entry.headers) /\ names[i].key = "name"
  BY <1>1, OfFacts
<1>3. requires \in Seq(Range(entry.headers)) /\ Len(requires) \in Nat
  BY <1>1, OfFacts
<1> HIDE DEF names, versions, requires, least
<1>4. /\ Len(names) = 1 /\ names[1].value # ""
      /\ \E v, d, t : package = [name |-> names[1].value, version |-> v, requirements |-> listed,
                                 declared |-> d, truncated |-> t]
  BY Zenon DEF ParseDistribution, names, versions, requires, least
<1>5. package.name = names[1].value /\ package.requirements = listed
  <2> HIDE DEF listed
  <2>1. \E v, d, t : package = [name |-> names[1].value, version |-> v, requirements |-> listed,
                                 declared |-> d, truncated |-> t]
    BY <1>4
  <2> QED BY <2>1
<1>6. names[1].value = NameOf[n]
  <2>1. Len(names) = 1
    BY <1>4
  <2>2. names[1] \in Range(entry.headers) /\ names[1].key = "name"
    BY <1>2, <2>1
  <2>3. names[1].value \in {"", NameOf[n]}
    BY <2>2, Zenon DEF EntryOK
  <2> QED BY <1>4, <2>3, Zenon
<1>7. least \in 0..Len(requires) /\ least <= cap
  BY <1>3, Smaller DEF least
<1>8. kept \in Seq(Range(entry.headers)) /\ Len(kept) = least
  BY <1>3, <1>7, BeginningRange
<1> HIDE DEF kept
<1>9. DOMAIN kept = 1..least /\ least \in Nat
  BY <1>7, <1>8, LenProperties
<1>10. listed \in Seq(Range(listed)) /\ Len(listed) = least
  <2>1. listed = [i \in 1..least |-> listed[i]] /\ \A i \in 1..least : listed[i] \in Range(listed)
    BY <1>9 DEF Range
  <2> HIDE DEF listed
  <2> QED BY <1>9, <2>1, IsASeq, LenProperties
<1> HIDE DEF listed
<1>11. package.name = NameOf[n] /\ HasName(package)
  BY <1>4, <1>5, <1>6, Zenon DEF HasName
<1>12. IsSequence(package.requirements) /\ Len(package.requirements) <= cap
  BY <1>5, <1>7, <1>10 DEF IsSequence
<1> QED BY <1>11, <1>12, Zenon

-----------------------------------------------------------------------------
(* The steps of the audit *)

LEMMA KnowsSteps ==
  ASSUME AuditKnows, audit.pc # "off"
  PROVE  DOMAIN audit = AuditFields /\ EnvOK /\ AuditHolds /\ ListingTrue /\ InventoryWhole /\ MissingTold
BY DEF AuditKnows, AuditOff

LEMMA KnowsNothing ==
  ASSUME UNCHANGED env, UNCHANGED coming, EnvOK
  PROVE  EnvOK'
BY DEF EnvOK

\* An audit that ends keeps what it found.
LEMMA KnowsTheEnd ==
  ASSUME AuditKnows, audit.pc # "off", NEW outcome, Ends(outcome), UNCHANGED envWorld
  PROVE  AuditKnows'
<1>1. DOMAIN audit = AuditFields /\ EnvOK /\ AuditHolds /\ MissingTold
  BY KnowsSteps
<1>2. EnvOK'
  BY <1>1, KnowsNothing DEF envWorld
<1>3. /\ audit'.pc = "over" /\ DOMAIN audit' = AuditFields /\ audit'.config = audit.config
      /\ audit'.sites = audit.sites /\ audit'.site = audit.site /\ audit'.stamp = audit.stamp
      /\ audit'.names = audit.names /\ audit'.listed = audit.listed /\ audit'.todo = audit.todo
      /\ audit'.parsed = audit.parsed /\ audit'.left = audit.left /\ audit'.findings = audit.findings
  BY <1>1 DEF Ends, AuditFields
<1>4. AuditHolds'
  BY <1>1, <1>3 DEF AuditHolds
<1>5. ListingTrue' /\ InventoryWhole'
  BY <1>3 DEF ListingTrue, InventoryWhole, Early, Inspecting
<1>6. MissingTold'
  BY <1>1, <1>3 DEF MissingTold, Found
<1> QED BY <1>2, <1>3, <1>4, <1>5, <1>6 DEF AuditKnows

\* Until the sites are listed nothing is known of them.
LEMMA KnowsEarly ==
  ASSUME AuditKnows, Identify \/ ReadConfig \/ Invalid \/ Same \/ FindSite
  PROVE  AuditKnows'
<1>0. audit.pc \in Early /\ UNCHANGED envWorld /\ audit.pc # "off"
  BY DEF Identify, ReadConfig, Invalid, Same, FindSite, Early
<1>1. DOMAIN audit = AuditFields /\ EnvOK /\ AuditHolds /\ InventoryWhole /\ MissingTold
  BY <1>0, KnowsSteps
<1>2. EnvOK'
  BY <1>0, <1>1, KnowsNothing DEF envWorld
<1>3. CASE Ends("denied") \/ Ends("invalid")
  BY <1>0, <1>3, KnowsTheEnd
<1>4. ASSUME ~(Ends("denied") \/ Ends("invalid"))
      PROVE  /\ audit'.pc \in Early \cup {"over"} /\ DOMAIN audit' = AuditFields
             /\ audit'.listed = audit.listed /\ audit'.findings = audit.findings
             /\ audit'.site = audit.site /\ audit'.stamp = audit.stamp
             /\ audit'.names = audit.names /\ audit'.todo = audit.todo /\ audit'.parsed = audit.parsed /\ audit'.left = audit.left
             /\ audit'.config = NoConfig \/ Len(audit'.config.version) >= 2
             /\ audit'.sites \in Seq(Sites)
  <2>1. CASE Identify
    BY <1>1, <2>1 DEF Identify, AuditFields, AuditHolds, Early
  <2>2. CASE ReadConfig
    <3> DEFINE config == ParseConfig(env.config.lines)
    <3>1. config = NoConfig \/ Len(config.version) >= 2
      BY <1>1, ConfigFacts DEF EnvOK
    <3>2. \/ audit' = [audit EXCEPT !.pc = "over", !.outcome = "denied"]
          \/ audit' = [audit EXCEPT !.pc = "invalid"]
          \/ audit' = [audit EXCEPT !.pc = "same", !.config = config]
      BY <2>2, Zenon DEF ReadConfig
    <3> HIDE DEF config
    <3> QED BY <1>1, <3>1, <3>2 DEF AuditFields, AuditHolds, Early
  <2>3. CASE Invalid
    BY <1>4, <2>3 DEF Invalid
  <2>4. CASE Same
    BY <1>1, <1>4, <2>4 DEF Same, Goto, AuditFields, AuditHolds, Early
  <2>5. CASE FindSite
    <3> DEFINE next == IF audit.pc = "lib" THEN "posix" ELSE "layout"
    <3>1. \/ \E s \in Sites : audit' = [audit EXCEPT !.pc = next, !.sites = Append(@, s)]
          \/ audit' = [audit EXCEPT !.pc = next]
      BY <1>4, <2>5 DEF FindSite, Goto
    <3>2. next \in Early
      BY DEF Early
    <3> HIDE DEF next
    <3>3. CASE audit' = [audit EXCEPT !.pc = next]
      BY <1>1, <3>2, <3>3 DEF AuditFields, AuditHolds
    <3>4. CASE \E s \in Sites : audit' = [audit EXCEPT !.pc = next, !.sites = Append(@, s)]
      <4>1. PICK s \in Sites : audit' = [audit EXCEPT !.pc = next, !.sites = Append(@, s)]
        BY <3>4
      <4>2. audit.sites \in Seq(Sites)
        BY <1>1 DEF AuditHolds
      <4>3. Append(audit.sites, s) \in Seq(Sites)
        BY <4>2, AppendRange
      <4> QED BY <1>1, <3>2, <4>1, <4>3 DEF AuditFields, AuditHolds
    <3> QED BY <3>1, <3>3, <3>4
  <2> QED BY <2>1, <2>2, <2>3, <2>4, <2>5
<1>5. CASE ~(Ends("denied") \/ Ends("invalid"))
  <2>1. AuditHolds'
    BY <1>1, <1>4, <1>5 DEF AuditHolds
  <2>2. ListingTrue'
    BY <1>4, <1>5 DEF ListingTrue, Early
  <2>3. InventoryWhole'
    BY <1>0, <1>1, <1>4, <1>5 DEF InventoryWhole, Early, Inspecting
  <2>4. audit.findings = <<>>
    BY <1>0, <1>1 DEF MissingTold, Early
  <2>5. MissingTold'
    BY <1>4, <1>5, <2>4 DEF MissingTold, Found
  <2> QED BY <1>2, <1>4, <1>5, <2>1, <2>2, <2>3, <2>5 DEF AuditKnows
<1> QED BY <1>3, <1>5

\* While the sites are inspected, there are no findings.
LEMMA KnowsMore ==
  ASSUME AuditKnows, audit.pc \in Early \cup Inspecting, UNCHANGED envWorld,
         DOMAIN audit' = AuditFields, audit'.findings = audit.findings, AuditHolds', ListingTrue',
         audit'.pc \in Inspecting,
         audit'.complete.inventory => audit'.config.system = "false",
         audit'.complete.inventory /\ ~audit'.over => \A n \in audit'.listed : OnItsWay(n)',
         audit'.pc = "read" /\ audit'.complete.inventory => ~audit'.over
  PROVE  AuditKnows'
<1>1. audit.pc # "off" /\ EnvOK /\ MissingTold
  BY KnowsSteps DEF Early, Inspecting
<1>2. EnvOK'
  BY <1>1, KnowsNothing DEF envWorld
<1>3. audit'.findings = <<>>
  BY <1>1 DEF MissingTold, Early, Inspecting
<1>4. MissingTold'
  BY <1>3 DEF MissingTold, Found
<1>5. InventoryWhole'
  BY DEF InventoryWhole, Early, Inspecting
<1> QED BY <1>2, <1>4, <1>5 DEF AuditKnows

LEMMA KnowsLayout ==
  ASSUME AuditKnows, Layout
  PROVE  AuditKnows'
<1>0. audit.pc = "layout" /\ UNCHANGED envWorld
  BY DEF Layout
<1>1. DOMAIN audit = AuditFields /\ AuditHolds /\ InventoryWhole
  BY <1>0, KnowsSteps
<1> DEFINE clear == Len(audit.sites) = 1 /\ audit.config.system = "false"
           told == IF clear THEN audit.complete ELSE Warned(audit.complete)
<1>2. told.inventory => audit.config.system = "false"
  BY DEF Warned, Warn
<1>3. audit' = [audit EXCEPT !.pc = "list", !.complete = told]
  BY <1>1 DEF Layout, AuditFields
<1> HIDE DEF told
<1>4. /\ audit'.pc = "list" /\ DOMAIN audit' = AuditFields /\ audit'.config = audit.config
      /\ audit'.sites = audit.sites /\ audit'.site = audit.site /\ audit'.stamp = audit.stamp
      /\ audit'.names = audit.names /\ audit'.listed = audit.listed /\ audit'.todo = audit.todo
      /\ audit'.parsed = audit.parsed /\ audit'.left = audit.left /\ audit'.findings = audit.findings
      /\ audit'.complete = told
  BY <1>1, <1>3 DEF AuditFields
<1>5. AuditHolds'
  BY <1>1, <1>4 DEF AuditHolds
<1>6. ListingTrue' /\ audit'.listed = {}
  BY <1>0, <1>1, <1>4 DEF ListingTrue, InventoryWhole, Early
<1> QED BY <1>0, <1>2, <1>4, <1>5, <1>6, KnowsMore DEF Early, Inspecting

\* Of what was inspected before, a step that withdraws no claim keeps what it knew.
LEMMA KnowsAsBefore ==
  ASSUME AuditKnows, audit.pc \in Inspecting, audit'.config = audit.config,
         audit'.complete = audit.complete \/ audit'.complete.inventory = FALSE
  PROVE  audit'.complete.inventory =>
           /\ audit.complete.inventory /\ audit'.config.system = "false"
           /\ ~audit.over => \A n \in audit.listed : OnItsWay(n)
<1>1. InventoryWhole
  BY KnowsSteps DEF Inspecting
<1> QED BY <1>1 DEF InventoryWhole

LEMMA WarnWithdraws ==
  /\ \A state, t : Warn(state, TRUE, t).inventory = FALSE
  /\ \A state : Warned(state).inventory = FALSE
BY DEF Warn, Warned

LEMMA KnowsList ==
  ASSUME AuditKnows, List
  PROVE  AuditKnows'
<1>0. audit.pc = "list" /\ audit.sites # <<>> /\ UNCHANGED envWorld
  BY Zenon DEF List
<1>1. DOMAIN audit = AuditFields /\ EnvOK /\ AuditHolds
  BY <1>0, KnowsSteps
<1> DEFINE s == Head(audit.sites)
           rest == Tail(audit.sites)
           told == Warned(audit.complete)
           entries == EntriesOf(s)
           stamp == env.site[s].stamp
           next == [audit EXCEPT !.sites = rest]
           shut == [next EXCEPT !.complete = Warned(@)]
           open == [next EXCEPT !.pc = "verify", !.site = s, !.stamp = stamp, !.names = entries]
<1>2. s \in Sites /\ rest \in Seq(Sites)
  <2>1. audit.sites \in Seq(Sites)
    BY <1>1 DEF AuditHolds
  <2> QED BY <1>0, <2>1, HeadRange
<1>3. env.site[s] \in SiteStates
  BY <1>1, <1>2 DEF EnvOK
<1>4. stamp \in Nat /\ entries \in Seq(EntryNames) /\ Range(entries) = env.site[s].names
  <2>1. stamp \in Nat /\ env.site[s].names \subseteq EntryNames
    BY <1>3 DEF SiteStates
  <2> QED BY <2>1, EntriesFacts
<1>5. Ends("denied") \/ audit' = shut \/ audit' = open
  BY Zenon DEF List
<1>6. CASE Ends("denied")
  BY <1>0, <1>6, KnowsTheEnd
<1> HIDE DEF s, rest
<1>7. shut = [audit EXCEPT !.sites = rest, !.complete = told]
  BY <1>1 DEF AuditFields
<1>8. open = [audit EXCEPT !.sites = rest, !.pc = "verify", !.site = s, !.stamp = stamp, !.names = entries]
  BY <1>1 DEF AuditFields
<1> HIDE DEF shut, open, next, told, entries, stamp
<1>9. CASE audit' = shut
  <2>1. /\ audit'.pc = "list" /\ DOMAIN audit' = AuditFields /\ audit'.config = audit.config
        /\ audit'.sites = rest /\ audit'.site = audit.site /\ audit'.stamp = audit.stamp
        /\ audit'.names = audit.names /\ audit'.listed = audit.listed /\ audit'.todo = audit.todo
        /\ audit'.parsed = audit.parsed /\ audit'.left = audit.left /\ audit'.findings = audit.findings
        /\ audit'.complete = told
    BY <1>0, <1>1, <1>7, <1>9 DEF AuditFields
  <2>2. AuditHolds' /\ ListingTrue'
    BY <1>1, <1>2, <2>1 DEF AuditHolds, ListingTrue
  <2>3. audit'.complete.inventory = FALSE
    BY <2>1, WarnWithdraws DEF told
  <2> QED BY <1>0, <2>1, <2>2, <2>3, KnowsMore DEF Inspecting
<1>10. CASE audit' = open
  <2>1. /\ audit'.pc = "verify" /\ DOMAIN audit' = AuditFields /\ audit'.config = audit.config
        /\ audit'.sites = rest /\ audit'.site = s /\ audit'.stamp = stamp
        /\ audit'.names = entries /\ audit'.listed = audit.listed /\ audit'.todo = audit.todo
        /\ audit'.parsed = audit.parsed /\ audit'.left = audit.left /\ audit'.findings = audit.findings
        /\ audit'.complete = audit.complete /\ audit'.over = audit.over
    BY <1>1, <1>8, <1>10 DEF AuditFields
  <2>2. AuditHolds'
    BY <1>1, <1>2, <1>4, <2>1 DEF AuditHolds
  <2>3. stamp = env.site[s].stamp /\ env' = env
    BY <1>0 DEF stamp, envWorld
  <2>4. ListingTrue'
    BY <1>4, <2>1, <2>3 DEF ListingTrue
  <2>5. \A n : OnItsWay(n) => OnItsWay(n)'
    BY <1>0, <2>1 DEF OnItsWay, ParsedNames
  <2> QED BY <1>0, <2>1, <2>2, <2>4, <2>5, KnowsAsBefore, KnowsMore DEF Inspecting
<1> QED BY <1>5, <1>6, <1>9, <1>10

LEMMA KnowsVerify ==
  ASSUME AuditKnows, Verify
  PROVE  AuditKnows'
<1>0. audit.pc = "verify" /\ UNCHANGED envWorld /\ audit.pc # "off"
  BY Zenon DEF Verify
<1>1. DOMAIN audit = AuditFields /\ EnvOK /\ AuditHolds /\ ListingTrue
  BY <1>0, KnowsSteps
<1> DEFINE now == env.site[audit.site]
           shut == [audit EXCEPT !.pc = "list", !.complete = Warned(@)]
           full == [audit EXCEPT !.pc = "list", !.names = <<>>, !.complete = Warn(@, TRUE, TRUE)]
           open == [audit EXCEPT !.pc = "entries", !.listed = @ \cup now.names]
<1>2. now \in SiteStates
  BY <1>1 DEF EnvOK, AuditHolds
<1>3. now.kind \in {"dir", "odd", "none"} /\ now.names \subseteq EntryNames
  BY <1>2 DEF SiteStates
<1>4. \/ Ends("denied") \/ audit' = shut \/ audit' = full
      \/ audit' = open /\ now.stamp = audit.stamp
  BY <1>3 DEF Verify, Ends
<1>5. CASE Ends("denied")
  BY <1>0, <1>5, KnowsTheEnd
<1>6. ASSUME audit' = shut \/ audit' = full PROVE AuditKnows'
  <2>1. \E told, names : /\ told.inventory = FALSE /\ names \in {audit.names, <<>>}
                         /\ audit' = [audit EXCEPT !.pc = "list", !.names = names, !.complete = told]
    <3>1. CASE audit' = full
      BY <3>1, WarnWithdraws, Zenon
    <3>2. CASE audit' = shut
      <4> DEFINE told == Warned(audit.complete)
      <4>1. told.inventory = FALSE
        BY WarnWithdraws
      <4> HIDE DEF told
      <4>2. shut = [audit EXCEPT !.pc = "list", !.complete = told]
        BY DEF told
      <4>3. shut = [audit EXCEPT !.pc = "list", !.names = audit.names, !.complete = told]
        BY <1>1, <4>2 DEF AuditFields
      <4> QED BY <3>2, <4>1, <4>3
    <3> QED BY <1>6, <3>1, <3>2
  <2>2. PICK told, names : /\ told.inventory = FALSE /\ names \in {audit.names, <<>>}
                           /\ audit' = [audit EXCEPT !.pc = "list", !.names = names, !.complete = told]
    BY <2>1
  <2>3. /\ audit'.pc = "list" /\ DOMAIN audit' = AuditFields /\ audit'.config = audit.config
        /\ audit'.sites = audit.sites /\ audit'.site = audit.site /\ audit'.stamp = audit.stamp
        /\ audit'.names = names
        /\ audit'.listed = audit.listed /\ audit'.todo = audit.todo
        /\ audit'.parsed = audit.parsed /\ audit'.left = audit.left /\ audit'.findings = audit.findings
        /\ audit'.complete = told
    BY <1>1, <2>2 DEF AuditFields
  <2>4. names \in Seq(EntryNames)
    <3>1. audit.names \in Seq(EntryNames)
      BY <1>1 DEF AuditHolds
    <3>2. <<>> \in Seq(EntryNames)
      BY EmptyRange
    <3>3. names = audit.names \/ names = <<>>
      BY <2>2
    <3> QED BY <3>1, <3>2, <3>3, Zenon
  <2>5. AuditHolds' /\ ListingTrue'
    BY <1>1, <2>3, <2>4 DEF AuditHolds, ListingTrue
  <2> QED BY <1>0, <2>2, <2>3, <2>5, KnowsMore DEF Inspecting
<1>7. ASSUME audit' = open, now.stamp = audit.stamp PROVE AuditKnows'
  <2>1. Range(audit.names) = now.names
    BY <1>0, <1>1, <1>7 DEF ListingTrue
  <2>2. /\ audit'.pc = "entries" /\ DOMAIN audit' = AuditFields /\ audit'.config = audit.config
        /\ audit'.sites = audit.sites /\ audit'.site = audit.site /\ audit'.stamp = audit.stamp
        /\ audit'.names = audit.names
        /\ audit'.listed = audit.listed \cup now.names /\ audit'.todo = audit.todo
        /\ audit'.parsed = audit.parsed /\ audit'.left = audit.left /\ audit'.findings = audit.findings
        /\ audit'.complete = audit.complete /\ audit'.over = audit.over
    BY <1>1, <1>7 DEF AuditFields
  <2> HIDE DEF now
  <2>3. AuditHolds' /\ ListingTrue'
    BY <1>1, <1>3, <2>2 DEF AuditHolds, ListingTrue
  <2>4. \A n \in audit.listed : OnItsWay(n) => OnItsWay(n)'
    BY <1>0, <2>2 DEF OnItsWay, ParsedNames
  <2>5. \A n \in now.names : OnItsWay(n)'
    BY <2>1, <2>2 DEF OnItsWay
  <2> QED BY <1>0, <2>2, <2>3, <2>4, <2>5, KnowsAsBefore, KnowsMore DEF Inspecting
<1> QED BY <1>4, <1>5, <1>6, <1>7

LEMMA KnowsNextSite ==
  ASSUME AuditKnows, NextSite
  PROVE  AuditKnows'
<1>0. audit.pc = "entries" /\ UNCHANGED envWorld /\ audit.names = <<>>
  BY DEF NextSite
<1>1. DOMAIN audit = AuditFields /\ AuditHolds
  BY <1>0, KnowsSteps
<1>2. /\ audit'.pc = "list" /\ DOMAIN audit' = AuditFields /\ audit'.config = audit.config
      /\ audit'.sites = audit.sites /\ audit'.site = audit.site /\ audit'.stamp = audit.stamp
      /\ audit'.names = audit.names /\ audit'.listed = audit.listed /\ audit'.todo = audit.todo
      /\ audit'.parsed = audit.parsed /\ audit'.left = audit.left /\ audit'.findings = audit.findings
      /\ audit'.complete = audit.complete /\ audit'.over = audit.over
  BY <1>1 DEF NextSite, Goto, AuditFields
<1>3. AuditHolds' /\ ListingTrue'
  BY <1>1, <1>2 DEF AuditHolds, ListingTrue
<1>4. Range(audit.names) = {}
  BY <1>0, EmptyRange
<1>5. \A n \in audit.listed : OnItsWay(n) => OnItsWay(n)'
  BY <1>2, <1>4 DEF OnItsWay, ParsedNames
<1> QED BY <1>0, <1>2, <1>3, <1>5, KnowsAsBefore, KnowsMore DEF Inspecting

LEMMA KnowsDiscovered ==
  ASSUME AuditKnows, Discovered
  PROVE  AuditKnows'
<1>0. audit.pc = "list" /\ UNCHANGED envWorld
  BY DEF Discovered
<1>1. DOMAIN audit = AuditFields /\ AuditHolds
  BY <1>0, KnowsSteps
<1>2. CASE Ends("denied")
  BY <1>0, <1>2, KnowsTheEnd
<1>3. CASE ~Ends("denied")
  <2> DEFINE told == IF audit.over THEN Warn(audit.complete, TRUE, TRUE) ELSE audit.complete
  <2>1. audit' = [audit EXCEPT !.pc = "read", !.complete = told]
    BY <1>1, <1>3 DEF Discovered, AuditFields
  <2>2. (told = audit.complete /\ ~audit.over) \/ told.inventory = FALSE
    BY WarnWithdraws
  <2> HIDE DEF told
  <2>3. /\ audit'.pc = "read" /\ DOMAIN audit' = AuditFields /\ audit'.config = audit.config
        /\ audit'.sites = audit.sites /\ audit'.site = audit.site /\ audit'.stamp = audit.stamp
        /\ audit'.names = audit.names /\ audit'.listed = audit.listed /\ audit'.todo = audit.todo
        /\ audit'.parsed = audit.parsed /\ audit'.left = audit.left /\ audit'.findings = audit.findings
        /\ audit'.complete = told /\ audit'.over = audit.over
    BY <1>1, <2>1 DEF AuditFields
  <2>4. AuditHolds' /\ ListingTrue'
    BY <1>1, <2>3 DEF AuditHolds, ListingTrue
  <2>5. \A n \in audit.listed : OnItsWay(n) => OnItsWay(n)'
    BY <1>0, <2>3 DEF OnItsWay, ParsedNames
  <2> QED BY <1>0, <2>2, <2>3, <2>4, <2>5, KnowsAsBefore, KnowsMore DEF Inspecting
<1> QED BY <1>2, <1>3

LEMMA KnowsEntry ==
  ASSUME AuditKnows, Entry
  PROVE  AuditKnows'
<1>0. audit.pc = "entries" /\ audit.names # <<>> /\ UNCHANGED envWorld /\ audit.pc # "off"
  BY Zenon DEF Entry
<1>1. DOMAIN audit = AuditFields /\ EnvOK /\ AuditHolds
  BY <1>0, KnowsSteps
<1> DEFINE n == Head(audit.names)
           s == audit.site
           rest == Tail(audit.names)
           next == [audit EXCEPT !.names = Tail(@)]
           seen == [next EXCEPT !.observed = @ + 1]
           egg == [next EXCEPT !.complete = Warned(@)]
           over == [seen EXCEPT !.over = TRUE, !.skipped = @ + 1]
           gone == [seen EXCEPT !.skipped = @ + 1, !.complete = Warned(@)]
           kept == [seen EXCEPT !.todo = Append(@, <<s, n>>)]
<1>2. /\ n \in EntryNames /\ rest \in Seq(EntryNames)
      /\ Range(audit.names) = {n} \cup Range(rest)
  <2>1. audit.names \in Seq(EntryNames)
    BY <1>1 DEF AuditHolds
  <2> QED BY <1>0, <2>1, HeadRange
<1>3. \/ Ends("denied") \/ audit' = egg \/ audit' = over \/ audit' = gone
      \/ audit' = kept /\ Len(audit.todo) < MaxMetadata
  <2>1. CASE n \in Eggs
    BY <2>1, Zenon DEF Entry
  <2>2. CASE n \notin Eggs
    <3>1. Len(audit.todo) >= MaxMetadata \/ Len(audit.todo) < MaxMetadata
      <4>1. Len(audit.todo) \in Nat /\ MaxMetadata \in Nat
        BY <1>1, EmptyRange, EnvAssumption DEF AuditHolds
      <4> QED BY <4>1
    <3> QED BY <2>2, <3>1 DEF Entry
  <2> QED BY <2>1, <2>2
<1>4. CASE Ends("denied")
  BY <1>0, <1>4, KnowsTheEnd
<1>5. /\ DOMAIN next = AuditFields /\ next.pc = "entries" /\ next.config = audit.config
      /\ next.sites = audit.sites /\ next.site = audit.site /\ next.stamp = audit.stamp
      /\ next.names = rest /\ next.listed = audit.listed /\ next.todo = audit.todo
      /\ next.parsed = audit.parsed /\ next.left = audit.left /\ next.findings = audit.findings
      /\ next.complete = audit.complete /\ next.over = audit.over
  BY <1>0, <1>1 DEF AuditFields
<1> HIDE DEF next, n, s, rest
<1>6. ASSUME NEW more, NEW told,
             /\ audit'.pc = "entries" /\ DOMAIN audit' = AuditFields /\ audit'.config = audit.config
             /\ audit'.sites = audit.sites /\ audit'.site = audit.site /\ audit'.stamp = audit.stamp
             /\ audit'.names = rest /\ audit'.listed = audit.listed
             /\ audit'.parsed = audit.parsed /\ audit'.left = audit.left /\ audit'.findings = audit.findings,
             audit'.complete = audit.complete \/ audit'.complete.inventory = FALSE,
             \/ audit'.todo = audit.todo /\ (audit'.complete.inventory = FALSE \/ audit'.over)
             \/ (/\ audit'.todo = Append(audit.todo, <<s, n>>) /\ Len(audit.todo) < MaxMetadata
                   /\ audit'.complete = audit.complete /\ audit'.over = audit.over)
      PROVE  AuditKnows'
  <2>1. audit.todo \in Seq(Sites \X EntryNames) /\ Len(audit.todo) \in Nat /\ <<s, n>> \in Sites \X EntryNames
    BY <1>1, <1>2, EmptyRange DEF AuditHolds, s
  <2>2. /\ Append(audit.todo, <<s, n>>) \in Seq(Sites \X EntryNames)
        /\ Len(Append(audit.todo, <<s, n>>)) = Len(audit.todo) + 1
        /\ Range(Append(audit.todo, <<s, n>>)) = Range(audit.todo) \cup {<<s, n>>}
    BY <2>1, AppendRange
  <2>3. AuditHolds'
    <3>1. audit'.todo \in Seq(Sites \X EntryNames) /\ Len(audit'.todo) <= MaxMetadata
      <4>1. Len(audit.todo) <= MaxMetadata /\ MaxMetadata \in Nat
        BY <1>1, EnvAssumption DEF AuditHolds
      <4>2. CASE audit'.todo = audit.todo
        BY <2>1, <4>1, <4>2
      <4>3. CASE audit'.todo = Append(audit.todo, <<s, n>>) /\ Len(audit.todo) < MaxMetadata
        BY <2>1, <2>2, <4>1, <4>3
      <4> QED BY <1>6, <4>2, <4>3
    <3> QED BY <1>1, <1>2, <1>6, <3>1 DEF AuditHolds
  <2>4. ListingTrue'
    BY <1>6 DEF ListingTrue
  <2>5. ASSUME audit'.complete.inventory, ~audit'.over
        PROVE  audit'.config.system = "false" /\ \A m \in audit'.listed : OnItsWay(m)'
    <3>1. /\ audit'.todo = Append(audit.todo, <<s, n>>)
          /\ audit'.complete = audit.complete /\ audit'.over = audit.over
      BY <1>6, <2>5
    <3>2. audit'.config.system = "false" /\ \A m \in audit.listed : OnItsWay(m)
      BY <1>0, <1>6, <2>5, <3>1, KnowsAsBefore DEF Inspecting
    <3>3. \A m : OnItsWay(m) => OnItsWay(m)'
      <4> TAKE m
      <4>1. CASE m \in Range(rest)
        BY <1>6, <4>1 DEF OnItsWay
      <4>2. CASE m = n
        <5>1. <<s, n>> \in Range(audit'.todo) /\ <<s, n>>[2] = m
          BY <2>2, <3>1, <4>2
        <5> QED BY <5>1 DEF OnItsWay
      <4>3. CASE \E x \in Range(audit.todo) : x[2] = m
        BY <2>2, <3>1, <4>3 DEF OnItsWay
      <4>4. CASE NameOf[m] \in ParsedNames
        BY <1>6, <4>4 DEF OnItsWay, ParsedNames
      <4> QED BY <1>2, <4>1, <4>2, <4>3, <4>4 DEF OnItsWay
    <3> QED BY <1>6, <3>2, <3>3
  <2>6. audit'.complete.inventory => audit'.config.system = "false"
    BY <1>0, <1>6, KnowsAsBefore DEF Inspecting
  <2> QED BY <1>0, <1>6, <2>3, <2>4, <2>5, <2>6, KnowsMore DEF Inspecting
<1>7. CASE audit' = egg
  <2> DEFINE told == Warned(next.complete)
  <2>1. told.inventory = FALSE
    BY WarnWithdraws
  <2> HIDE DEF told
  <2>2. audit' = [next EXCEPT !.complete = told]
    BY <1>7, Zenon DEF told
  <2>3. /\ audit'.pc = "entries" /\ DOMAIN audit' = AuditFields /\ audit'.config = audit.config
        /\ audit'.sites = audit.sites /\ audit'.site = audit.site /\ audit'.stamp = audit.stamp
        /\ audit'.names = rest /\ audit'.listed = audit.listed
        /\ audit'.parsed = audit.parsed /\ audit'.left = audit.left /\ audit'.findings = audit.findings
        /\ audit'.todo = audit.todo /\ audit'.complete = told
    BY <1>5, <2>2 DEF AuditFields
  <2> QED BY <1>6, <2>1, <2>3
<1>8. /\ DOMAIN seen = AuditFields /\ seen.pc = "entries" /\ seen.config = audit.config
      /\ seen.sites = audit.sites /\ seen.site = audit.site /\ seen.stamp = audit.stamp
      /\ seen.names = rest /\ seen.listed = audit.listed /\ seen.todo = audit.todo
      /\ seen.parsed = audit.parsed /\ seen.left = audit.left /\ seen.findings = audit.findings
      /\ seen.complete = audit.complete /\ seen.over = audit.over
  BY <1>5 DEF AuditFields
<1> HIDE DEF seen
<1>9. CASE audit' = over
  <2>1. /\ audit'.pc = "entries" /\ DOMAIN audit' = AuditFields /\ audit'.config = audit.config
        /\ audit'.sites = audit.sites /\ audit'.site = audit.site /\ audit'.stamp = audit.stamp
        /\ audit'.names = rest /\ audit'.listed = audit.listed
        /\ audit'.parsed = audit.parsed /\ audit'.left = audit.left /\ audit'.findings = audit.findings
        /\ audit'.todo = audit.todo /\ audit'.complete = audit.complete /\ audit'.over
    BY <1>8, <1>9 DEF AuditFields
  <2> QED BY <1>6, <2>1
<1>10. CASE audit' = gone
  <2> DEFINE told == Warned(seen.complete)
  <2>1. told.inventory = FALSE
    BY WarnWithdraws
  <2> HIDE DEF told
  <2>2. audit' = [seen EXCEPT !.skipped = @ + 1, !.complete = told]
    BY <1>8, <1>10 DEF told, AuditFields
  <2>3. /\ audit'.pc = "entries" /\ DOMAIN audit' = AuditFields /\ audit'.config = audit.config
        /\ audit'.sites = audit.sites /\ audit'.site = audit.site /\ audit'.stamp = audit.stamp
        /\ audit'.names = rest /\ audit'.listed = audit.listed
        /\ audit'.parsed = audit.parsed /\ audit'.left = audit.left /\ audit'.findings = audit.findings
        /\ audit'.todo = audit.todo /\ audit'.complete = told
    BY <1>8, <2>2 DEF AuditFields
  <2> QED BY <1>6, <2>1, <2>3
<1>11. CASE audit' = kept /\ Len(audit.todo) < MaxMetadata
  <2>1. /\ audit'.pc = "entries" /\ DOMAIN audit' = AuditFields /\ audit'.config = audit.config
        /\ audit'.sites = audit.sites /\ audit'.site = audit.site /\ audit'.stamp = audit.stamp
        /\ audit'.names = rest /\ audit'.listed = audit.listed
        /\ audit'.parsed = audit.parsed /\ audit'.left = audit.left /\ audit'.findings = audit.findings
        /\ audit'.todo = Append(audit.todo, <<s, n>>)
        /\ audit'.complete = audit.complete /\ audit'.over = audit.over
    BY <1>8, <1>11 DEF AuditFields
  <2> QED BY <1>6, <1>11, <2>1
<1> QED BY <1>3, <1>4, <1>7, <1>9, <1>10, <1>11

LEMMA NamesAsRange == ParsedNames = {p.name : p \in Range(audit.parsed)}
BY DEF ParsedNames, Range

LEMMA ListAppend ==
  ASSUME NEW s, IsList(s), NEW x
  PROVE  IsList(Append(s, x)) /\ Range(Append(s, x)) = Range(s) \cup {x}
<1>1. s \in Seq(Range(s) \cup {x})
  <2>1. s \in Seq(Range(s))
    BY DEF IsList
  <2> QED BY <2>1, SeqOfSubset
<1>2. /\ Append(s, x) \in Seq(Range(s) \cup {x})
      /\ Range(Append(s, x)) = Range(s) \cup {x}
  BY <1>1, AppendRange
<1> QED BY <1>2 DEF IsList

LEMMA KnowsRead ==
  ASSUME AuditKnows, ReadMetadata
  PROVE  AuditKnows'
<1>0. audit.pc = "read" /\ audit.todo # <<>> /\ UNCHANGED envWorld /\ audit.pc # "off"
  BY Zenon DEF ReadMetadata
<1>1. DOMAIN audit = AuditFields /\ EnvOK /\ AuditHolds /\ InventoryWhole
  BY <1>0, KnowsSteps
<1> DEFINE x == Head(audit.todo)
           rest == Tail(audit.todo)
           cap == Min({MaxPerDistribution, audit.left})
           package == ParseDistribution(env.entry[Head(audit.todo)[1], Head(audit.todo)[2]].headers, cap)
           next == [audit EXCEPT !.todo = Tail(@)]
           skip == [next EXCEPT !.skipped = @ + 1, !.complete = Warned(@)]
           parse == [next EXCEPT !.parsed = Append(@, package), !.left = @ - Len(package.requirements),
                                 !.complete = IF package.truncated THEN Warn(@, TRUE, TRUE) ELSE @]
<1>2. /\ x \in Sites \X EntryNames /\ rest \in Seq(Sites \X EntryNames)
      /\ Range(audit.todo) = {x} \cup Range(rest)
      /\ Len(rest) <= MaxMetadata
  <2>1. audit.todo \in Seq(Sites \X EntryNames) /\ Len(audit.todo) <= MaxMetadata /\ MaxMetadata \in Nat
    BY <1>1, EnvAssumption DEF AuditHolds
  <2>2. /\ x \in Sites \X EntryNames /\ rest \in Seq(Sites \X EntryNames)
        /\ Range(audit.todo) = {x} \cup Range(rest) /\ Len(audit.todo) = Len(rest) + 1
    BY <1>0, <2>1, HeadRange
  <2>3. Len(rest) \in Nat
    BY <2>2, EmptyRange
  <2> HIDE DEF rest, x
  <2> QED BY <2>1, <2>2, <2>3
<1>3. cap \in Nat /\ cap <= audit.left
  <2>1. audit.left \in Nat /\ MaxPerDistribution \in Nat
    BY <1>1, EnvAssumption DEF AuditHolds
  <2> QED BY <2>1, Smaller
<1>4. ASSUME package # NoPackage
      PROVE  /\ package.name = NameOf[x[2]] /\ HasName(package)
             /\ Len(package.requirements) \in Nat /\ Len(package.requirements) <= audit.left
  <2>1. EntryOK(x[2], env.entry[x])
    BY <1>1, <1>2 DEF EnvOK
  <2>2. x = <<x[1], x[2]>>
    BY <1>2
  <2>3. package = ParseDistribution(env.entry[x].headers, cap)
    BY <2>2
  <2> HIDE DEF cap, package, x
  <2>4. /\ package.name = NameOf[x[2]] /\ HasName(package)
        /\ IsSequence(package.requirements) /\ Len(package.requirements) <= cap
    BY <1>3, <1>4, <2>1, <2>3, PackageFacts
  <2>5. Len(package.requirements) \in Nat
    BY <2>4, SequenceFacts
  <2>6. Len(package.requirements) <= audit.left
    <3>1. audit.left \in Nat /\ Len(package.requirements) <= cap
      BY <1>1, <2>4 DEF AuditHolds
    <3> QED BY <1>3, <2>5, <3>1
  <2> QED BY <2>4, <2>5, <2>6, Zenon
<1>5. Ends("denied") \/ audit' = skip \/ (audit' = parse /\ package # NoPackage)
  BY Zenon DEF ReadMetadata
<1>6. CASE Ends("denied")
  BY <1>0, <1>6, KnowsTheEnd
<1>7. /\ DOMAIN next = AuditFields /\ next.pc = "read" /\ next.config = audit.config
      /\ next.sites = audit.sites /\ next.site = audit.site /\ next.stamp = audit.stamp
      /\ next.names = audit.names /\ next.listed = audit.listed /\ next.todo = rest
      /\ next.parsed = audit.parsed /\ next.left = audit.left /\ next.findings = audit.findings
      /\ next.complete = audit.complete /\ next.over = audit.over
  BY <1>0, <1>1 DEF AuditFields
<1> HIDE DEF next, x, rest, cap, package
<1>8. CASE audit' = skip
  <2> DEFINE told == Warned(next.complete)
  <2>1. told.inventory = FALSE
    BY WarnWithdraws
  <2> HIDE DEF told
  <2>2. audit' = [next EXCEPT !.skipped = @ + 1, !.complete = told]
    BY <1>7, <1>8 DEF told, AuditFields
  <2>3. /\ audit'.pc = "read" /\ DOMAIN audit' = AuditFields /\ audit'.config = audit.config
        /\ audit'.sites = audit.sites /\ audit'.site = audit.site /\ audit'.stamp = audit.stamp
        /\ audit'.names = audit.names /\ audit'.listed = audit.listed /\ audit'.todo = rest
        /\ audit'.parsed = audit.parsed /\ audit'.left = audit.left /\ audit'.findings = audit.findings
        /\ audit'.complete = told
    BY <1>7, <2>2 DEF AuditFields
  <2>4. AuditHolds' /\ ListingTrue'
    BY <1>1, <1>2, <2>3 DEF AuditHolds, ListingTrue
  <2> QED BY <1>0, <2>1, <2>3, <2>4, KnowsMore DEF Inspecting
<1>9. CASE audit' = parse /\ package # NoPackage
  <2> DEFINE told == IF package.truncated THEN Warn(next.complete, TRUE, TRUE) ELSE next.complete
             left == audit.left - Len(package.requirements)
             parsed == Append(audit.parsed, package)
  <2>1. told = audit.complete \/ told.inventory = FALSE
    BY <1>7, WarnWithdraws
  <2>2. left \in Nat
    <3>1. /\ audit.left \in Nat /\ Len(package.requirements) \in Nat
          /\ Len(package.requirements) <= audit.left
      BY <1>1, <1>4, <1>9 DEF AuditHolds
    <3> QED BY <3>1
  <2>3. IsList(parsed) /\ Range(parsed) = Range(audit.parsed) \cup {package}
    <3>1. IsList(audit.parsed)
      BY <1>1 DEF AuditHolds
    <3> QED BY <3>1, ListAppend
  <2>4. AllNamed(parsed)
    <3>1. AllNamed(audit.parsed) /\ HasName(package)
      BY <1>1, <1>4, <1>9, Zenon DEF AuditHolds
    <3> HIDE DEF parsed
    <3> QED BY <2>3, <3>1, Zenon DEF AllNamed
  <2> HIDE DEF told
  <2>5. audit' = [next EXCEPT !.parsed = Append(@, package), !.left = @ - Len(package.requirements),
                              !.complete = told]
    BY <1>9, Zenon DEF told
  <2>6. /\ audit'.pc = "read" /\ DOMAIN audit' = AuditFields /\ audit'.config = audit.config
        /\ audit'.sites = audit.sites /\ audit'.site = audit.site /\ audit'.stamp = audit.stamp
        /\ audit'.names = audit.names /\ audit'.listed = audit.listed /\ audit'.todo = rest
        /\ audit'.parsed = parsed /\ audit'.left = left /\ audit'.findings = audit.findings
        /\ audit'.complete = told /\ audit'.over = audit.over
    BY <1>7, <2>5 DEF AuditFields
  <2>7. AuditHolds' /\ ListingTrue'
    <3> HIDE DEF parsed, left
    <3> QED BY <1>1, <1>2, <2>2, <2>3, <2>4, <2>6 DEF AuditHolds, ListingTrue
  <2>8. \A n \in audit.listed : OnItsWay(n) => OnItsWay(n)'
    <3> TAKE n \in audit.listed
    <3>1. ParsedNames' = ParsedNames \cup {package.name}
      <4>1. ParsedNames' = {p.name : p \in Range(audit'.parsed)}
        BY DEF ParsedNames, Range
      <4> HIDE DEF parsed
      <4> QED BY <2>3, <2>6, <4>1, NamesAsRange
    <3>2. CASE \E y \in Range(audit.todo) : y[2] = n
      <4>1. PICK y \in Range(audit.todo) : y[2] = n
        BY <3>2
      <4>2. CASE y = x
        BY <1>4, <1>9, <3>1, <4>1, <4>2 DEF OnItsWay
      <4>3. CASE y \in Range(rest)
        BY <2>6, <4>1, <4>3 DEF OnItsWay
      <4> QED BY <1>2, <4>1, <4>2, <4>3
    <3>3. CASE NameOf[n] \in ParsedNames
      BY <3>1, <3>3 DEF OnItsWay
    <3> QED BY <1>0, <3>2, <3>3 DEF OnItsWay
  <2>9. /\ audit'.complete.inventory => audit'.config.system = "false"
        /\ audit'.complete.inventory /\ ~audit'.over => \A n \in audit'.listed : OnItsWay(n)'
        /\ audit'.complete.inventory => ~audit'.over
    <3>1. audit'.complete = audit.complete \/ audit'.complete.inventory = FALSE
      BY <2>1, <2>6
    <3>2. audit.complete.inventory => ~audit.over
      BY <1>0, <1>1 DEF InventoryWhole
    <3> QED BY <1>0, <2>6, <2>8, <3>1, <3>2, KnowsAsBefore DEF Inspecting
  <2> QED BY <1>0, <2>6, <2>7, <2>9, KnowsMore DEF Inspecting
<1> QED BY <1>5, <1>6, <1>8, <1>9

\* A dependency is missing from an inventory that is whole, and not in it.
LEMMA MissingMeans ==
  ASSUME NEW requirement, NEW installed, NEW ambiguous, NEW complete,
         EvaluateRequirement(requirement, installed, ambiguous, complete) = "missing"
  PROVE  complete /\ requirement.on \notin DOMAIN installed /\ requirement.on \notin ambiguous
BY DEF EvaluateRequirement

LEMMA CompletenessWithdraws == Completeness.inventory => audit.complete.inventory
<1> DEFINE named == IF Ambiguous = {} THEN audit.complete ELSE Warned(audit.complete)
           doubtful == \E r \in Range(Requirements) : Unverifiable(r)
<1>1. named.inventory => audit.complete.inventory
  BY WarnWithdraws
<1>2. Completeness = IF doubtful THEN Warn(named, FALSE, FALSE) ELSE named
  BY Zenon DEF Completeness
<1> HIDE DEF named, doubtful
<1>3. Warn(named, FALSE, FALSE).inventory => named.inventory
  BY DEF Warn
<1> QED BY <1>1, <1>2, <1>3

LEMMA KnowsAssess ==
  ASSUME AuditKnows, Assess
  PROVE  AuditKnows'
<1>0. audit.pc = "read" /\ audit.todo = <<>> /\ UNCHANGED envWorld /\ audit.pc # "off"
  BY Zenon DEF Assess
<1>1. DOMAIN audit = AuditFields /\ EnvOK /\ AuditHolds /\ InventoryWhole
  BY <1>0, KnowsSteps
<1>2. EnvOK'
  BY <1>0, <1>1, KnowsNothing DEF envWorld
<1> DEFINE requirements == Requirements
           statuses == Statuses
           told == Completeness
           found == [i \in DOMAIN requirements |-> [on |-> requirements[i], status |-> statuses[i]]]
<1>3. audit' = [audit EXCEPT !.pc = "report", !.complete = told, !.findings = found]
  BY Zenon DEF Assess
<1>4. ASSUME NEW i \in DOMAIN requirements, statuses[i] = "missing"
      PROVE  /\ audit.config.system = "false"
             /\ \A n \in audit.listed : NameOf[n] # requirements[i].on
  <2>1. EvaluateRequirement(requirements[i], Installed, Ambiguous, told.inventory) = "missing"
    BY <1>4 DEF Statuses
  <2>2. /\ told.inventory
        /\ requirements[i].on \notin DOMAIN Installed /\ requirements[i].on \notin Ambiguous
    <3> HIDE DEF requirements, told
    <3> QED BY <2>1, MissingMeans
  <2>3. DOMAIN Installed = ParsedNames \ Ambiguous
    BY DEF Installed
  <2>4. requirements[i].on \notin ParsedNames
    <3> HIDE DEF requirements
    <3> QED BY <2>2, <2>3
  <2>5. audit.complete.inventory
    BY <2>2, CompletenessWithdraws
  <2>6. /\ audit.config.system = "false"
        /\ \A n \in audit.listed : OnItsWay(n)
    BY <1>0, <1>1, <2>5 DEF InventoryWhole, Inspecting
  <2>7. Range(audit.todo) = {}
    BY <1>0, EmptyRange
  <2>8. \A n \in audit.listed : NameOf[n] \in ParsedNames
    BY <1>0, <2>6, <2>7 DEF OnItsWay
  <2> HIDE DEF requirements
  <2> QED BY <2>4, <2>6, <2>8
<1> HIDE DEF told, requirements, statuses
<1>5. /\ DOMAIN found = DOMAIN requirements
      /\ \A i \in DOMAIN requirements : found[i].on = requirements[i] /\ found[i].status = statuses[i]
  OBVIOUS
<1> HIDE DEF found
<1>6. /\ audit'.pc = "report" /\ DOMAIN audit' = AuditFields /\ audit'.config = audit.config
      /\ audit'.sites = audit.sites /\ audit'.site = audit.site /\ audit'.stamp = audit.stamp
      /\ audit'.names = audit.names /\ audit'.listed = audit.listed /\ audit'.todo = audit.todo
      /\ audit'.parsed = audit.parsed /\ audit'.left = audit.left /\ audit'.findings = found
  BY <1>1, <1>3 DEF AuditFields
<1>7. AuditHolds' /\ ListingTrue' /\ InventoryWhole'
  BY <1>1, <1>6 DEF AuditHolds, ListingTrue, InventoryWhole, Early, Inspecting
<1>8. \A i \in Found("missing")' : i \in DOMAIN requirements /\ statuses[i] = "missing"
  BY <1>5, <1>6 DEF Found
<1>9. MissingTold'
  <2>1. audit'.pc = "report"
    BY <1>6
  <2>2. Found("missing")' # {} => audit'.config.system = "false"
    BY <1>4, <1>6, <1>8
  <2>3. \A i \in Found("missing")' : \A n \in audit'.listed : NameOf[n] # audit'.findings[i].on.on
    BY <1>4, <1>5, <1>6, <1>8
  <2> QED BY <2>1, <2>2, <2>3 DEF MissingTold
<1> QED BY <1>2, <1>6, <1>7, <1>9 DEF AuditKnows

LEMMA KnowsStep ==
  ASSUME AuditKnows, EnvNext
  PROVE  AuditKnows'
<1>1. ASSUME Report \/ Torn PROVE AuditKnows'
  <2>1. (\E outcome : Ends(outcome)) /\ UNCHANGED envWorld /\ audit.pc # "off"
    BY <1>1 DEF Report, Torn
  <2> QED BY <2>1, KnowsTheEnd
<1> QED BY <1>1, KnowsEarly, KnowsLayout, KnowsList, KnowsVerify, KnowsEntry, KnowsNextSite,
           KnowsDiscovered, KnowsRead, KnowsAssess DEF EnvNext

\* Whatever an installer does, the stamp of a directory tells.
LEMMA KnowsInstaller ==
  ASSUME AuditKnows, Installer
  PROVE  AuditKnows'
<1>1. CASE audit = AuditOff
  BY <1>1 DEF Installer, AuditKnows
<1>2. CASE audit # AuditOff
  <2>1. DOMAIN audit = AuditFields /\ EnvOK /\ AuditHolds /\ ListingTrue /\ InventoryWhole /\ MissingTold
    BY <1>2 DEF AuditKnows
  <2>2. PICK change \in coming :
          /\ env' = [env EXCEPT
               !.root = @ + change.root,
               !.site = [s \in Sites |-> IF s \notin DOMAIN change.site THEN @[s]
                                         ELSE [change.site[s] EXCEPT !.stamp = env.site[s].stamp + 1]],
               !.entry = [x \in DOMAIN @ |-> IF x \in DOMAIN change.entry THEN change.entry[x] ELSE @[x]]]
          /\ coming' = coming \ {change} /\ UNCHANGED audit
    BY Zenon DEF Installer
  <2> DEFINE Given(s) == s \in DOMAIN change.site
  <2>3. /\ env'.site = [s \in Sites |->
             IF Given(s) THEN [change.site[s] EXCEPT !.stamp = env.site[s].stamp + 1] ELSE env.site[s]]
        /\ env'.entry = [x \in DOMAIN env.entry |->
             IF x \in DOMAIN change.entry THEN change.entry[x] ELSE env.entry[x]]
        /\ env'.config = env.config /\ DOMAIN env' = DOMAIN env
    BY <2>1, <2>2 DEF EnvOK
  <2>4. ASSUME NEW s \in Sites
        PROVE  /\ env'.site[s] \in SiteStates
               /\ env'.site[s].stamp >= env.site[s].stamp
               /\ env'.site[s].stamp = env.site[s].stamp => env'.site[s] = env.site[s]
    <3>1. env.site[s] \in SiteStates
      BY <2>1 DEF EnvOK
    <3>2. CASE Given(s)
      <4>1. change.site[s] \in SiteStates
        BY <2>1, <3>2 DEF EnvOK
      <4>2. env'.site[s] = [change.site[s] EXCEPT !.stamp = env.site[s].stamp + 1]
        BY <2>3, <3>2
      <4> QED BY <3>1, <4>1, <4>2 DEF SiteStates
    <3>3. CASE ~Given(s)
      <4>1. env'.site[s] = env.site[s]
        BY <2>3, <3>3
      <4> QED BY <3>1, <4>1 DEF SiteStates
    <3> QED BY <3>2, <3>3
  <2>5. /\ DOMAIN env'.entry = DOMAIN env.entry
        /\ \A x \in DOMAIN env'.entry :
             env'.entry[x] = IF x \in DOMAIN change.entry THEN change.entry[x] ELSE env.entry[x]
    BY <2>3
  <2>6. \A x \in Sites \X EntryNames : x \in DOMAIN env'.entry /\ EntryOK(x[2], env'.entry[x])
    <3> TAKE x \in Sites \X EntryNames
    <3>1. x \in DOMAIN env.entry /\ EntryOK(x[2], env.entry[x])
      BY <2>1 DEF EnvOK
    <3>2. x \in DOMAIN change.entry => EntryOK(x[2], change.entry[x])
      BY <2>1 DEF EnvOK
    <3> QED BY <2>5, <3>1, <3>2
  <2>7. EnvOK'
    <3>1. env'.site \in [Sites -> SiteStates]
      BY <2>3, <2>4
    <3>2. ConfigOK(env'.config.lines) /\ {"config", "site", "entry"} \subseteq DOMAIN env'
      BY <2>1, <2>3 DEF EnvOK
    <3>3. \A other \in coming' :
            /\ \A s \in Sites \cap DOMAIN other.site : other.site[s] \in SiteStates
            /\ \A x \in (Sites \X EntryNames) \cap DOMAIN other.entry : EntryOK(x[2], other.entry[x])
      BY <2>1, <2>2 DEF EnvOK
    <3> QED BY <2>6, <3>1, <3>2, <3>3 DEF EnvOK
  <2>8. ListingTrue'
    <3>1. audit.site \in Sites /\ audit.stamp \in Nat /\ audit' = audit
      BY <2>1, <2>2 DEF AuditHolds
    <3>2. env.site[audit.site].stamp \in Nat /\ env'.site[audit.site].stamp \in Nat
      BY <2>1, <2>4, <3>1 DEF EnvOK, SiteStates
    <3> QED BY <2>1, <2>4, <3>1, <3>2 DEF ListingTrue
  <2>9. AuditHolds' /\ InventoryWhole' /\ MissingTold'
    BY <2>1, <2>2 DEF AuditHolds, InventoryWhole, OnItsWay, ParsedNames, MissingTold, Found
  <2> QED BY <2>1, <2>2, <2>7, <2>8, <2>9 DEF AuditKnows
<1> QED BY <1>1, <1>2

LEMMA KnowsNext == AuditKnows /\ [Next]_vars => AuditKnows'
<1> SUFFICES ASSUME AuditKnows, [Next]_vars PROVE AuditKnows'
  OBVIOUS
<1>1. CASE EnvNext
  BY <1>1, KnowsStep
<1>2. CASE Installer
  BY <1>2, KnowsInstaller
<1>3. CASE UNCHANGED <<envWorld, audit>>
  <2>1. audit' = audit /\ env' = env /\ coming' = coming
    BY <1>3 DEF envWorld
  <2> QED BY <2>1 DEF AuditKnows, EnvOK, AuditHolds, ListingTrue, InventoryWhole, OnItsWay,
             ParsedNames, MissingTold, Found
<1> QED BY <1>1, <1>2, <1>3, Zenon DEF Next, Rest, vars

LEMMA KnowsInit == Init => AuditKnows
<1> SUFFICES ASSUME TheAuditor PROVE AuditKnows
  BY DEF Init, ATreeTool, AuditKnows
<1>1. EnvOK
  BY EnvPlansAssumption DEF TheAuditor, EnvInit, EnvOK
<1>2. /\ audit.pc = "identify" /\ DOMAIN audit = AuditFields
      /\ audit.config = NoConfig /\ audit.sites = <<>> /\ audit.site = Lib /\ audit.stamp = 0
      /\ audit.names = <<>> /\ audit.listed = {} /\ audit.todo = <<>>
      /\ audit.parsed = <<>> /\ audit.left = MaxDependencies /\ audit.findings = <<>>
  BY DEF TheAuditor, AuditBegin, AuditFields
<1>3. (\A S : <<>> \in Seq(S)) /\ Range(<<>>) = {} /\ Len(<<>>) = 0
  BY EmptyRange
<1>4. AuditHolds
  BY <1>2, <1>3, EnvAssumption DEF AuditHolds, IsList, AllNamed
<1>5. ListingTrue /\ InventoryWhole
  BY <1>2 DEF ListingTrue, InventoryWhole, Early, Inspecting
<1>6. MissingTold
  BY <1>2 DEF MissingTold, Found
<1> QED BY <1>1, <1>2, <1>4, <1>5, <1>6 DEF AuditKnows

\* A dependency that the report calls missing was in no site under any name an
\* entry can have, and packages of the system could not stand in for it, even
\* while an installer changes the environment (evaluate_requirement, and the
\* warnings of _inspect_layout, _discover_distributions and _parse_distributions).
THEOREM MissingIsMissing == Spec => []MissingWasAbsent
<1>1. AuditKnows => MissingWasAbsent
  BY DEF AuditKnows, AuditOff, MissingTold, MissingWasAbsent, AuditReported
<1> QED BY <1>1, KnowsInit, KnowsNext, PTL DEF Spec

-----------------------------------------------------------------------------
(* What is kept of the requirements *)

\* FlattenSeq puts one sequence after the other.
Flat(s, n, it) == it = [i \in 1..n |-> IF i = 1 THEN s[i] ELSE it[i - 1] \o s[i]]

\* The intervals from 1, the smallest of some of which there is.
LEMMA SmallestInterval ==
  ASSUME NEW n \in Nat, NEW bad \in SUBSET (0..n), bad # {}
  PROVE  \E k \in bad : k = 0 \/ (k - 1 \in 0..n /\ k - 1 \notin bad)
<1> DEFINE Bad == {1..k : k \in bad}
<1>1. IsFiniteSet(1..n)
  BY FS_Interval, 1 \in Int, n \in Int
<1>2. Bad \in SUBSET SUBSET (1..n) /\ Bad # {}
  <2>1. \A k \in bad : 1..k \in SUBSET (1..n)
    OBVIOUS
  <2> QED BY <2>1
<1>3. PICK T \in Bad : \A U \in SUBSET T : U # T => U \notin Bad
  <2> DEFINE all == 1..n
  <2>1. IsFiniteSet(all) /\ Bad \in SUBSET SUBSET all /\ Bad # {}
    BY <1>1, <1>2
  <2> HIDE DEF Bad, all
  <2> QED BY <2>1, SmallestSubset
<1>4. PICK k \in bad : T = 1..k
  BY <1>3
<1>5. CASE k = 0
  BY <1>5
<1>6. CASE k # 0
  <2>1. k \in Nat /\ k \in 1..k /\ k \notin 1..(k - 1) /\ 1..(k - 1) \in SUBSET (1..k)
    BY <1>6
  <2>2. 1..(k - 1) \notin Bad
    BY <1>3, <1>4, <2>1
  <2>3. k - 1 \notin bad
    BY <2>2
  <2> QED BY <1>6, <2>1, <2>3
<1> QED BY <1>5, <1>6

LEMMA FlatUnique ==
  ASSUME NEW s, NEW n \in Nat, NEW it, NEW jt, Flat(s, n, it), Flat(s, n, jt)
  PROVE  it = jt
<1>1. /\ \A i \in 1..n : it[i] = IF i = 1 THEN s[i] ELSE it[i - 1] \o s[i]
      /\ \A i \in 1..n : jt[i] = IF i = 1 THEN s[i] ELSE jt[i - 1] \o s[i]
  BY DEF Flat
<1> DEFINE bad == {i \in 0..n : i # 0 /\ it[i] # jt[i]}
<1>2. CASE bad = {}
  <2>1. \A i \in 1..n : it[i] = jt[i]
    BY <1>2
  <2>2. it = [i \in 1..n |-> it[i]] /\ jt = [i \in 1..n |-> jt[i]]
    BY DEF Flat
  <2> QED BY <2>1, <2>2
<1>3. CASE bad # {}
  <2>1. PICK k \in bad : k = 0 \/ (k - 1 \in 0..n /\ k - 1 \notin bad)
    <3>1. bad \in SUBSET (0..n)
      OBVIOUS
    <3> HIDE DEF bad
    <3> QED BY <1>3, <3>1, SmallestInterval
  <2>2. k \in 1..n /\ it[k] # jt[k] /\ (k - 1 = 0 \/ it[k - 1] = jt[k - 1])
    BY <2>1
  <2> QED BY <1>1, <2>2
<1> QED BY <1>2, <1>3

LEMMA FlatGrows ==
  ASSUME NEW s, NEW t, NEW n \in Nat, NEW it, Flat(s, n, it), \A i \in 1..n : t[i] = s[i]
  PROVE  Flat(t, n + 1, [i \in 1..(n + 1) |-> IF i <= n THEN it[i]
                                              ELSE IF n = 0 THEN t[i] ELSE it[n] \o t[i]])
<1> DEFINE more == [i \in 1..(n + 1) |-> IF i <= n THEN it[i] ELSE IF n = 0 THEN t[i] ELSE it[n] \o t[i]]
<1>1. \A i \in 1..n : it[i] = IF i = 1 THEN s[i] ELSE it[i - 1] \o s[i]
  BY DEF Flat
<1>2. ASSUME NEW i \in 1..(n + 1)
      PROVE  more[i] = IF i = 1 THEN t[i] ELSE more[i - 1] \o t[i]
  <2>1. CASE i = n + 1
    <3>1. more[i] = IF n = 0 THEN t[i] ELSE it[n] \o t[i]
      BY <2>1
    <3>2. n # 0 => more[i - 1] = it[n]
      BY <2>1
    <3> HIDE DEF more
    <3> QED BY <2>1, <3>1, <3>2
  <2>2. CASE i # n + 1
    <3>1. i \in 1..n /\ more[i] = it[i] /\ (i # 1 => more[i - 1] = it[i - 1] /\ i - 1 \in 1..n)
      BY <2>2
    <3> HIDE DEF more
    <3> QED BY <1>1, <3>1
  <2> QED BY <2>1, <2>2
<1>3. more = [i \in 1..(n + 1) |-> IF i = 1 THEN t[i] ELSE more[i - 1] \o t[i]]
  BY <1>2
<1> QED BY <1>3 DEF Flat

LEMMA FlatExists ==
  ASSUME NEW s, NEW n \in Nat
  PROVE  \E it : Flat(s, n, it)
<1> DEFINE bad == {i \in 0..n : ~\E it : Flat(s, i, it)}
<1>1. CASE bad = {}
  BY <1>1
<1>2. CASE bad # {}
  <2>1. PICK k \in bad : k = 0 \/ (k - 1 \in 0..n /\ k - 1 \notin bad)
    <3>1. bad \in SUBSET (0..n)
      OBVIOUS
    <3> HIDE DEF bad
    <3> QED BY <1>2, <3>1, SmallestInterval
  <2>2. CASE k = 0
    <3>1. Flat(s, 0, [i \in 1..0 |-> s[i]])
      BY DEF Flat
    <3> QED BY <2>1, <2>2, <3>1
  <2>3. CASE k # 0
    <3>1. k - 1 \in Nat /\ (k - 1) + 1 = k
      BY <2>1, <2>3
    <3>2. PICK it : Flat(s, k - 1, it)
      BY <2>1, <2>3
    <3>3. \E jt : Flat(s, (k - 1) + 1, jt)
      <4> DEFINE m == k - 1
      <4>1. m \in Nat /\ Flat(s, m, it)
        BY <3>1, <3>2
      <4> HIDE DEF m
      <4>2. \E jt : Flat(s, m + 1, jt)
        BY <4>1, FlatGrows
      <4> QED BY <4>2 DEF m
    <3> QED BY <2>1, <3>1, <3>3
  <2> QED BY <2>2, <2>3
<1> QED BY <1>1, <1>2

LEMMA FlattenIsFlat ==
  ASSUME NEW s, NEW n \in Nat \ {0}, Len(s) = n, NEW it, Flat(s, n, it)
  PROVE  FlattenSeq(s) = it[n]
<1> DEFINE the == CHOOSE jt : Flat(s, n, jt)
<1>1. FlattenSeq(s) = the[n]
  BY DEF FlattenSeq, Flat
<1>2. Flat(s, n, the)
  BY DEF Flat
<1> HIDE DEF the
<1> QED BY <1>1, <1>2, FlatUnique

\* One sequence more is put at the end.
LEMMA FlattenAppend ==
  ASSUME NEW S, NEW s \in Seq(S), NEW t \in S
  PROVE  FlattenSeq(Append(s, t)) = IF s = <<>> THEN t ELSE FlattenSeq(s) \o t
<1>1. PICK n \in Nat : n = Len(s)
  BY EmptyRange
<1>2. /\ Len(Append(s, t)) = n + 1 /\ Append(s, t)[n + 1] = t
      /\ \A i \in 1..n : Append(s, t)[i] = s[i]
  BY <1>1, AppendProperties
<1>3. PICK it : Flat(s, n, it)
  BY FlatExists
<1> DEFINE more == [i \in 1..(n + 1) |-> IF i <= n THEN it[i]
                      ELSE IF n = 0 THEN Append(s, t)[i] ELSE it[n] \o Append(s, t)[i]]
<1>4. Flat(Append(s, t), n + 1, more)
  BY <1>2, <1>3, FlatGrows
<1>5. more[n + 1] = IF n = 0 THEN t ELSE it[n] \o t
  BY <1>2
<1> HIDE DEF more
<1>6. FlattenSeq(Append(s, t)) = more[n + 1]
  <2>1. n + 1 \in Nat \ {0}
    OBVIOUS
  <2> QED BY <1>2, <1>4, <2>1, FlattenIsFlat
<1>7. n # 0 => FlattenSeq(s) = it[n]
  BY <1>1, <1>3, FlattenIsFlat
<1>8. s = <<>> <=> n = 0
  BY <1>1, EmptyRange
<1> QED BY <1>5, <1>6, <1>7, <1>8

\* What is left of the records, and those that were kept, are all there were.
Needs == [i \in DOMAIN audit.parsed |-> audit.parsed[i].requirements]
Recorded ==
  audit.pc # "off" =>
    /\ Needs \in Seq(Range(Needs)) /\ \A i \in DOMAIN Needs : IsSequence(Needs[i])
    /\ IsSequence(Requirements) /\ Len(Requirements) + audit.left = MaxDependencies

LEMMA JoinedSequences ==
  ASSUME NEW s, NEW t, IsSequence(s), IsSequence(t)
  PROVE  IsSequence(s \o t) /\ Len(s \o t) = Len(s) + Len(t)
<1>1. PICK S, T : s \in Seq(S) /\ t \in Seq(T)
  BY DEF IsSequence
<1>2. s \in Seq(S \cup T) /\ t \in Seq(S \cup T)
  BY <1>1, SeqOfSubset
<1>3. s \o t \in Seq(S \cup T) /\ Len(s \o t) = Len(s) + Len(t)
  BY <1>2, ConcatProperties
<1> QED BY <1>3 DEF IsSequence

LEMMA AppendedAt ==
  ASSUME NEW s, IsList(s), NEW x, NEW n \in Nat, DOMAIN s = 1..n
  PROVE  Append(s, x) = [i \in 1..(n + 1) |-> IF i = n + 1 THEN x ELSE s[i]]
<1>1. s \in Seq(Range(s) \cup {x}) /\ Len(s) = n
  BY SeqOfSubset, LenProperties DEF IsList
<1>2. /\ Append(s, x) \in Seq(Range(s) \cup {x}) /\ Len(Append(s, x)) = n + 1
      /\ Append(s, x)[n + 1] = x /\ \A i \in 1..n : Append(s, x)[i] = s[i]
  BY <1>1, AppendProperties
<1>3. Append(s, x) = [i \in 1..(n + 1) |-> Append(s, x)[i]]
  BY <1>2, LenProperties
<1>4. \A i \in 1..(n + 1) : Append(s, x)[i] = IF i = n + 1 THEN x ELSE s[i]
  BY <1>2
<1> QED BY <1>3, <1>4

\* A distribution that is parsed takes its requirements from what is left.
LEMMA RecordsRead ==
  ASSUME AuditKnows, Recorded, ReadMetadata
  PROVE  Recorded'
<1>0. audit.pc = "read" /\ audit.todo # <<>> /\ audit.pc # "off"
  BY Zenon DEF ReadMetadata
<1>1. DOMAIN audit = AuditFields /\ EnvOK /\ AuditHolds
  BY <1>0, KnowsSteps
<1>2. /\ Needs \in Seq(Range(Needs)) /\ \A i \in DOMAIN Needs : IsSequence(Needs[i])
      /\ IsSequence(Requirements) /\ Len(Requirements) + audit.left = MaxDependencies
  BY <1>0 DEF Recorded
<1> DEFINE x == Head(audit.todo)
           cap == Min({MaxPerDistribution, audit.left})
           package == ParseDistribution(env.entry[Head(audit.todo)[1], Head(audit.todo)[2]].headers, cap)
           next == [audit EXCEPT !.todo = Tail(@)]
           parse == [next EXCEPT !.parsed = Append(@, package), !.left = @ - Len(package.requirements),
                                 !.complete = IF package.truncated THEN Warn(@, TRUE, TRUE) ELSE @]
<1>3. \/ audit'.parsed = audit.parsed /\ audit'.left = audit.left
      \/ audit' = parse /\ package # NoPackage
  <2> DEFINE skip == [next EXCEPT !.skipped = @ + 1, !.complete = Warned(@)]
  <2>1. Ends("denied") \/ audit' = skip \/ (audit' = parse /\ package # NoPackage)
    BY Zenon DEF ReadMetadata
  <2>2. CASE Ends("denied")
    BY <1>1, <2>2 DEF Ends, AuditFields
  <2>3. CASE audit' = skip
    <3>1. DOMAIN next = AuditFields /\ next.parsed = audit.parsed /\ next.left = audit.left
      BY <1>1 DEF AuditFields
    <3> HIDE DEF next
    <3> QED BY <2>3, <3>1 DEF AuditFields
  <2> HIDE DEF parse, skip, next, package
  <2> QED BY <2>1, <2>2, <2>3
<1>4. CASE audit'.parsed = audit.parsed /\ audit'.left = audit.left
  BY <1>2, <1>4 DEF Recorded, Needs, Requirements
<1>5. CASE audit' = parse /\ package # NoPackage
  <2> DEFINE needs == Needs
             requirements == package.requirements
  <2>1. IsSequence(requirements)
    <3>1. audit.left \in Nat /\ MaxPerDistribution \in Nat /\ audit.todo \in Seq(Sites \X EntryNames)
      BY <1>1, EnvAssumption DEF AuditHolds
    <3>2. cap \in Nat
      BY <3>1, Smaller
    <3>3. x \in Sites \X EntryNames
      BY <1>0, <3>1, HeadRange
    <3>4. EntryOK(x[2], env.entry[x]) /\ x = <<x[1], x[2]>>
      BY <1>1, <3>3 DEF EnvOK
    <3>5. package = ParseDistribution(env.entry[x].headers, cap)
      BY <3>4
    <3> HIDE DEF cap, package, x
    <3> QED BY <1>5, <3>2, <3>4, <3>5, PackageFacts
  <2>2. /\ audit'.parsed = Append(audit.parsed, package) /\ audit'.left = audit.left - Len(requirements)
    <3>1. DOMAIN next = AuditFields /\ next.parsed = audit.parsed /\ next.left = audit.left
      BY <1>1 DEF AuditFields
    <3> HIDE DEF next, package
    <3> QED BY <1>5, <3>1 DEF AuditFields
  <2> HIDE DEF package
  <2>3. audit.parsed \in Seq(Range(audit.parsed)) /\ Len(audit.parsed) \in Nat
    BY <1>1, EmptyRange DEF AuditHolds, IsList
  <2>4. Needs' = Append(needs, requirements)
    <3>1. PICK n \in Nat : n = Len(audit.parsed)
      BY <2>3
    <3>2. DOMAIN audit.parsed = 1..n /\ IsList(audit.parsed) /\ IsList(needs)
      BY <1>2, <2>3, <3>1, LenProperties DEF IsList
    <3>3. DOMAIN needs = 1..n /\ \A i \in 1..n : needs[i] = audit.parsed[i].requirements
      BY <3>2 DEF Needs
    <3>4. Append(audit.parsed, package) = [i \in 1..(n + 1) |-> IF i = n + 1 THEN package ELSE audit.parsed[i]]
      BY <3>2, AppendedAt
    <3>5. Append(needs, requirements) = [i \in 1..(n + 1) |-> IF i = n + 1 THEN requirements ELSE needs[i]]
      <4> HIDE DEF needs, requirements
      <4> QED BY <3>2, <3>3, AppendedAt
    <3>6. Needs' = [i \in 1..(n + 1) |-> IF i = n + 1 THEN requirements ELSE audit.parsed[i].requirements]
      <4>1. Needs' = [i \in 1..(n + 1) |-> Append(audit.parsed, package)[i].requirements]
        BY <2>2, <3>4 DEF Needs
      <4>2. \A i \in 1..(n + 1) :
              Append(audit.parsed, package)[i].requirements =
                IF i = n + 1 THEN requirements ELSE audit.parsed[i].requirements
        BY <3>4
      <4> QED BY <4>1, <4>2
    <3>7. \A i \in 1..(n + 1) : i # n + 1 => i \in 1..n
      OBVIOUS
    <3> HIDE DEF needs, requirements
    <3> QED BY <3>3, <3>5, <3>6, <3>7
  <2>5. Requirements = FlattenSeq(needs) /\ Requirements' = FlattenSeq(Needs')
    BY DEF Requirements, Needs
  <2>6. Requirements' = IF needs = <<>> THEN requirements ELSE Requirements \o requirements
    <3> DEFINE all == Range(needs) \cup {requirements}
    <3>1. needs \in Seq(all) /\ requirements \in all
      BY <1>2, SeqOfSubset
    <3> HIDE DEF needs, requirements, all
    <3>2. FlattenSeq(Append(needs, requirements)) =
            IF needs = <<>> THEN requirements ELSE FlattenSeq(needs) \o requirements
      BY <3>1, FlattenAppend
    <3>3. Requirements' = FlattenSeq(Append(needs, requirements))
      BY <2>4, <2>5
    <3>4. Requirements = FlattenSeq(needs)
      BY <2>5
    <3> QED BY <3>2, <3>3, <3>4
  <2>7. needs = <<>> => Len(Requirements) = 0
    BY <2>5 DEF FlattenSeq
  <2>8. IsSequence(Requirements') /\ Len(Requirements') = Len(Requirements) + Len(requirements)
    <3>1. Len(requirements) \in Nat /\ Len(Requirements) \in Nat
      BY <1>2, <2>1, SequenceFacts
    <3> HIDE DEF needs, requirements
    <3>2. CASE needs = <<>>
      BY <2>1, <2>6, <2>7, <3>1, <3>2
    <3>3. CASE needs # <<>>
      BY <1>2, <2>1, <2>6, <3>3, JoinedSequences
    <3> QED BY <3>2, <3>3
  <2>9. /\ Needs' \in Seq(Range(Needs')) /\ \A i \in DOMAIN Needs' : IsSequence(Needs'[i])
    <3>1. IsList(needs)
      BY <1>2 DEF IsList
    <3>2. IsList(Append(needs, requirements))
          /\ Range(Append(needs, requirements)) = Range(needs) \cup {requirements}
      <4> HIDE DEF needs, requirements
      <4> QED BY <3>1, ListAppend
    <3>3. \A r \in Range(needs) \cup {requirements} : IsSequence(r)
      BY <1>2, <2>1 DEF Range
    <3>4. Needs' \in Seq(Range(Needs')) /\ Range(Needs') = Range(needs) \cup {requirements}
      BY <2>4, <3>2 DEF IsList
    <3> HIDE DEF needs, requirements
    <3> QED BY <3>3, <3>4 DEF Range
  <2>10. Len(Requirements') + audit'.left = MaxDependencies
    <3>1. /\ Len(requirements) \in Nat /\ Len(Requirements) \in Nat /\ audit.left \in Nat
          /\ MaxDependencies \in Nat
      BY <1>1, <1>2, <2>1, SequenceFacts, EnvAssumption DEF AuditHolds
    <3> HIDE DEF requirements
    <3> QED BY <1>2, <2>2, <2>8, <3>1
  <2> QED BY <2>8, <2>9, <2>10 DEF Recorded
<1> QED BY <1>3, <1>4, <1>5

\* The other steps parse nothing.
LEMMA RecordsStand ==
  ASSUME AuditKnows, Recorded, EnvNext, ~ReadMetadata
  PROVE  Recorded'
<1>1. audit.pc # "off"
  BY DEF EnvNext, Identify, ReadConfig, Invalid, Same, FindSite, Layout, List, Verify,
     Entry, NextSite, Discovered, Assess, Report, Torn
<1>2. DOMAIN audit = AuditFields
  BY <1>1, KnowsSteps
<1>3. audit'.parsed = audit.parsed /\ audit'.left = audit.left
  <2>1. ASSUME NEW outcome, Ends(outcome) PROVE audit'.parsed = audit.parsed /\ audit'.left = audit.left
    BY <1>2, <2>1 DEF Ends, AuditFields
  <2>2. ASSUME NEW pc, Goto(pc) PROVE audit'.parsed = audit.parsed /\ audit'.left = audit.left
    BY <1>2, <2>2 DEF Goto, AuditFields
  <2>3. CASE Identify \/ ReadConfig
    BY <1>2, <2>3 DEF Identify, ReadConfig, AuditFields
  <2>4. CASE Invalid \/ Same \/ NextSite \/ Report \/ Torn
    BY <2>1, <2>2, <2>4 DEF Invalid, Same, NextSite, Report, Torn
  <2>5. CASE FindSite
    BY <1>2, <2>1, <2>2, <2>5 DEF FindSite, AuditFields
  <2>6. CASE Layout
    BY <1>2, <2>6 DEF Layout, AuditFields
  <2>7. CASE List
    BY <1>2, <2>1, <2>7 DEF List, AuditFields
  <2>8. CASE Verify
    BY <1>2, <2>8 DEF Verify, AuditFields
  <2>9. CASE Entry
    <3> DEFINE next == [audit EXCEPT !.names = Tail(@)]
    <3> DEFINE seen == [next EXCEPT !.observed = @ + 1]
    <3>1. \/ Ends("denied") \/ audit' = [next EXCEPT !.complete = Warned(@)]
          \/ audit' = [seen EXCEPT !.over = TRUE, !.skipped = @ + 1]
          \/ audit' = [seen EXCEPT !.skipped = @ + 1, !.complete = Warned(@)]
          \/ audit' = [seen EXCEPT !.todo = Append(@, <<audit.site, Head(audit.names)>>)]
          \/ ~(Len(audit.todo) < MaxMetadata \/ Len(audit.todo) >= MaxMetadata)
      BY <2>9 DEF Entry
    <3>2. Len(audit.todo) < MaxMetadata \/ Len(audit.todo) >= MaxMetadata
      <4>1. AuditHolds
        BY <1>1, KnowsSteps
      <4>2. Len(audit.todo) \in Nat /\ MaxMetadata \in Nat
        BY <4>1, EmptyRange, EnvAssumption DEF AuditHolds
      <4> QED BY <4>2
    <3>3. DOMAIN next = AuditFields /\ next.parsed = audit.parsed /\ next.left = audit.left
      BY <1>2 DEF AuditFields
    <3> HIDE DEF next
    <3>4. DOMAIN seen = AuditFields /\ seen.parsed = audit.parsed /\ seen.left = audit.left
      BY <3>3 DEF AuditFields
    <3> HIDE DEF seen
    <3> QED BY <2>1, <3>1, <3>2, <3>3, <3>4 DEF AuditFields
  <2>10. CASE Discovered
    BY <1>2, <2>1, <2>10 DEF Discovered, AuditFields
  <2>11. CASE Assess
    BY <1>2, <2>11 DEF Assess, AuditFields
  <2> QED BY <2>3, <2>4, <2>5, <2>6, <2>7, <2>8, <2>9, <2>10, <2>11 DEF EnvNext
<1> QED BY <1>1, <1>3 DEF Recorded, Needs, Requirements

LEMMA RecordsNext == AuditKnows /\ Recorded /\ [Next]_vars => Recorded'
<1> SUFFICES ASSUME AuditKnows, Recorded, [Next]_vars PROVE Recorded'
  OBVIOUS
<1>1. CASE EnvNext
  BY <1>1, RecordsRead, RecordsStand
<1>2. CASE UNCHANGED audit
  BY <1>2 DEF Recorded, Needs, Requirements
<1> QED BY <1>1, <1>2, Zenon DEF Next, Rest, vars, Installer

LEMMA RecordsInit == Init => Recorded
<1> SUFFICES ASSUME TheAuditor PROVE Recorded
  BY DEF Init, ATreeTool, AuditOff, Recorded
<1>1. audit.parsed = <<>> /\ audit.left = MaxDependencies
  BY DEF TheAuditor, AuditBegin
<1>2. Needs = <<>>
  BY <1>1 DEF Needs
<1>3. Requirements = <<>>
  <2>1. Requirements = FlattenSeq(Needs)
    BY DEF Requirements, Needs
  <2> QED BY <1>2, <2>1, EmptyRange DEF FlattenSeq
<1>4. Len(<<>>) = 0 /\ IsSequence(<<>>) /\ <<>> \in Seq(Range(<<>>))
  BY SequenceFacts, EmptyRange
<1>5. MaxDependencies \in Nat
  BY EnvAssumption
<1> QED BY <1>1, <1>2, <1>3, <1>4, <1>5 DEF Recorded

-----------------------------------------------------------------------------
(* Types *)

\* What is copied for Bandit, or about to be, is Python.
OnlySources ==
  bandit.pc # "off" =>
    /\ DOMAIN bandit.copy \subseteq Sources
    /\ bandit.pc = "files" => Range(bandit.names) \subseteq Sources

LEMMA OnlySourcesStep ==
  ASSUME BanditInv, OnlySources, BanditNext
  PROVE  OnlySources'
<1>1. bandit.pc # "off"
  BY Zenon DEF BanditNext, BanditList, BanditSkip, BanditCopy, BanditWriteFails, BanditDescend,
     BanditFails, BanditReports
<1>2. bandit \in BanditType /\ DOMAIN bandit.copy \subseteq Sources
  BY <1>1, BanditSteps DEF OnlySources
<1>3. CASE BanditList
  <2> DEFINE d == Head(bandit.directories)
             met == IF Look(d) \in {"dir", "link"} THEN {p \in Children(d) : Kind(p) # "none"} ELSE {}
             files == {p \in met \cap Sources : ~IsDirectory(p)}
             names == Sorted(files)
             sub == Sorted({p \in met \ BanditSkipped : IsDirectory(p)})
             rest == Tail(bandit.directories)
  <2>1. files \in SUBSET Paths /\ files \subseteq Sources
    BY DEF Children
  <2> HIDE DEF files
  <2>2. Range(names) \subseteq Sources
    BY <2>1, SortedFacts
  <2>3. bandit' = [bandit EXCEPT !.pc = "files", !.directories = rest, !.directory = d,
                                 !.names = names, !.sub = sub]
    BY <1>3, Zenon DEF BanditList, files
  <2> HIDE DEF names, sub, rest, d
  <2>4. bandit'.names = names /\ bandit'.copy = bandit.copy
    BY <1>2, <2>3 DEF BanditType
  <2> QED BY <1>2, <2>2, <2>4 DEF OnlySources
<1>4. ASSUME NEW p, p = Head(bandit.names), bandit.pc = "files" /\ bandit.names # <<>>,
             NEW copy \in {bandit.copy, Added(bandit.copy, p, Copied(p, TRUE)),
                           Added(bandit.copy, p, Copied(p, FALSE))},
             bandit'.names = Tail(bandit.names), bandit'.copy = copy
      PROVE  OnlySources'
  <2>1. bandit.names \in Seq(Paths) /\ Range(bandit.names) \subseteq Sources
    BY <1>2, <1>1, <1>4 DEF BanditType, OnlySources
  <2>2. p \in Sources /\ Range(Tail(bandit.names)) \subseteq Sources
    BY <1>4, <2>1, HeadRange
  <2>3. DOMAIN copy \subseteq DOMAIN bandit.copy \cup {p}
    BY DEF Added
  <2> QED BY <1>2, <1>4, <2>2, <2>3 DEF OnlySources
<1>5. CASE BanditSkip \/ BanditCopy \/ BanditWriteFails
  <2>1. bandit.pc = "files" /\ bandit.names # <<>>
    BY <1>5, Zenon DEF BanditSkip, BanditCopy, BanditWriteFails
  <2> DEFINE p == Head(bandit.names)
             whole == Added(bandit.copy, p, Copied(p, TRUE))
             half == Added(bandit.copy, p, Copied(p, FALSE))
  <2>2. \E copy \in {bandit.copy, whole, half} :
          bandit'.names = Tail(bandit.names) /\ bandit'.copy = copy
    <3>1. CASE BanditSkip
      BY <1>2, <3>1 DEF BanditSkip, BanditType
    <3>2. CASE BanditCopy
      <4>1. bandit' = [bandit EXCEPT !.names = Tail(@), !.copy = whole,
                                     !.authorized = @ \cup {p}, !.copied = @ + tree[p].size]
        BY <3>2, Zenon DEF BanditCopy
      <4> HIDE DEF whole, half, p
      <4> QED BY <1>2, <4>1 DEF BanditType
    <3>3. CASE BanditWriteFails
      <4>1. PICK copy \in {bandit.copy, half} :
              bandit' = [bandit EXCEPT !.names = Tail(@), !.copy = copy, !.withheld = @ + 1]
        BY <3>3, Zenon DEF BanditWriteFails
      <4> HIDE DEF whole, half, p
      <4> QED BY <1>2, <4>1 DEF BanditType
    <3> QED BY <1>5, <3>1, <3>2, <3>3
  <2> QED BY <1>4, <2>1, <2>2
<1>6. CASE BanditDescend \/ BanditFails \/ BanditReports
  <2>1. bandit'.copy = bandit.copy /\ bandit'.pc # "files"
    <3>1. CASE BanditDescend
      <4> DEFINE next == Sorted({p \in Range(bandit.sub) : Look(p) # "link"}) \o bandit.directories
      <4>1. bandit' = [bandit EXCEPT !.pc = IF next = <<>> THEN "run" ELSE "list", !.directories = next]
        BY <3>1, Zenon DEF BanditDescend
      <4> HIDE DEF next
      <4> QED BY <1>2, <4>1 DEF BanditType
    <3>2. CASE BanditFails
      BY <1>2, <3>2 DEF BanditFails, BanditEnds, BanditType
    <3>3. CASE BanditReports
      BY <1>2, <3>3 DEF BanditReports, BanditType
    <3> QED BY <1>6, <3>1, <3>2, <3>3
  <2> QED BY <1>2, <2>1 DEF OnlySources
<1> QED BY <1>3, <1>5, <1>6 DEF BanditNext

LEMMA OnlySourcesNext == TreeInvariant /\ OnlySources /\ [Next]_vars => OnlySources'
<1> SUFFICES ASSUME TreeInvariant, OnlySources, [Next]_vars PROVE OnlySources'
  OBVIOUS
<1>1. CASE BanditNext
  BY <1>1, OnlySourcesStep DEF TreeInvariant
<1>2. CASE UNCHANGED bandit
  BY <1>2 DEF OnlySources
<1> QED BY <1>1, <1>2, Zenon DEF Next, Rest, vars, tools

LEMMA OnlySourcesInit == Init => OnlySources
<1> SUFFICES ASSUME Init PROVE OnlySources
  OBVIOUS
<1>1. bandit = BanditOff \/ bandit = BanditBegin
  <2>1. CASE ATreeTool
    BY <2>1 DEF ATreeTool, Starts
  <2>2. CASE TheAuditor
    BY <2>2 DEF TheAuditor
  <2> QED BY <2>1, <2>2 DEF Init
<1>2. CASE bandit = BanditOff
  BY <1>2 DEF BanditOff, OnlySources
<1>3. CASE bandit = BanditBegin
  BY <1>3, EmptyRange DEF BanditBegin, OnlySources
<1> QED BY <1>1, <1>2, <1>3

\* Of the audit of an environment.
LEMMA AuditTypes ==
  ASSUME AuditKnows, Recorded
  PROVE  AuditTypeOK
<1>1. CASE audit.pc = "off"
  BY <1>1 DEF AuditTypeOK
<1>2. CASE audit.pc # "off"
  <2>1. AuditHolds /\ InventoryWhole
    BY <1>2, KnowsSteps
  <2>2. /\ audit.config = NoConfig \/ Len(audit.config.version) >= 2
        /\ Range(audit.names) \cup audit.listed \subseteq EntryNames /\ Len(audit.todo) <= MaxMetadata
        /\ AllNamed(audit.parsed) /\ audit.left \in Nat
    BY <2>1, EmptyRange DEF AuditHolds
  <2>3. audit.pc \in {"off", "identify", "config", "invalid", "same", "lib", "posix", "layout",
                      "list", "verify", "entries", "read", "report", "over"}
    BY <2>1 DEF InventoryWhole, Early, Inspecting
  <2>4. Len(Requirements) <= MaxDependencies
    <3>1. Len(Requirements) + audit.left = MaxDependencies /\ Len(Requirements) \in Nat
      BY <1>2, SequenceFacts DEF Recorded
    <3> QED BY <2>2, <3>1
  <2>5. \A i \in DOMAIN audit.parsed : audit.parsed[i].name # ""
    BY <2>2, Zenon DEF AllNamed, HasName, Range
  <2> QED BY <2>2, <2>3, <2>4, <2>5, Zenon DEF AuditTypeOK
<1> QED BY <1>1, <1>2

LEMMA TreeTypes ==
  ASSUME TreeInvariant, OnlySources, AuditTypeOK
  PROVE  TypeOK
<1>1. WorldOK /\ AgentInv /\ BanditInv /\ SnapInv /\ PagesInv
  BY DEF TreeInvariant
<1>2. /\ tree \in [Paths -> Entries] /\ plan \in Plans
      /\ changes \in 0..plan.changes /\ touched \subseteq Paths \cup {Top}
  BY <1>1 DEF WorldOK, Nodes
<1>3. /\ scan.pc \in AgentPCs
      /\ scan.pc # "off" =>
           /\ scan.request \in AgentRequests
           /\ {scan.regular, scan.links, scan.scanned} \subseteq SUBSET Paths
           /\ Range(scan.directories) \cup Range(scan.opened) \subseteq Paths \cup {Top}
           /\ Range(scan.names) \cup Range(scan.candidates) \subseteq Paths
           /\ {scan.discovered, scan.withheld, scan.total} \subseteq Nat
           /\ scan.outcome \in {"none", "report", "denied", "notFound", "outputLimit"}
  <2>1. CASE scan = AgentOff
    BY <2>1 DEF AgentOff, AgentPCs
  <2>2. CASE scan \in AgentType
    BY <2>2, EmptyRange DEF AgentType, AgentPCs, Nodes
  <2> QED BY <1>1, <2>1, <2>2 DEF AgentInv
<1>4. /\ bandit.pc \in {"off", "list", "files", "run", "over"}
      /\ bandit.pc # "off" =>
           /\ bandit.authorized \subseteq Sources /\ DOMAIN bandit.copy \subseteq Sources
           /\ {bandit.copied, bandit.withheld, bandit.unreported} \subseteq Nat
  <2>1. CASE bandit = BanditOff
    BY <2>1 DEF BanditOff
  <2>2. CASE bandit \in BanditType /\ BanditWhole
    BY <2>2 DEF BanditType, BanditWhole, OnlySources
  <2> QED BY <1>1, <2>1, <2>2 DEF BanditInv
<1>5. /\ snap.pc \in {"off", "pop", "scan", "entries", "file", "config", "over"}
      /\ snap.pc # "off" =>
           /\ DOMAIN snap.copy \subseteq Paths
           /\ snap.remaining \in 0..MaxSnapshotBytes /\ snap.count \in Nat
  <2>1. CASE snap = SnapOff
    BY <2>1 DEF SnapOff
  <2>2. CASE snap \in SnapType
    BY <2>2 DEF SnapType, SnapCopies, CopiesOf
  <2> QED BY <1>1, <2>1, <2>2 DEF SnapInv
<1>6. /\ pages.pc \in {"off", "call", "next", "stat", "answer", "over"}
      /\ pages.pc # "off" => pages.entries \subseteq Listed /\ pages.offset \in Nat
  <2>1. CASE pages = PagesOff
    BY <2>1 DEF PagesOff
  <2>2. CASE pages \in PagesType
    BY <2>2 DEF PagesType
  <2> QED BY <1>1, <2>1, <2>2 DEF PagesInv
<1> QED BY <1>2, <1>3, <1>4, <1>5, <1>6, Zenon DEF TypeOK

\* The locals of each tool are of their kinds, and within the limits that bound
\* them: no more METADATA is kept and no more requirements than the auditor allows,
\* no budget is overdrawn, and no index is out of a version (inspection.py and the
\* walks of the other tools).
THEOREM ToolsAreTyped == Spec => []TypeOK
<1>1. TreeInvariant /\ OnlySources /\ AuditKnows /\ Recorded => TypeOK
  BY AuditTypes, TreeTypes
<1>2. Init => OnlySources /\ AuditKnows /\ Recorded
  BY OnlySourcesInit, KnowsInit, RecordsInit
<1>3. TreeInvariant /\ OnlySources /\ AuditKnows /\ Recorded /\ [Next]_vars
        => OnlySources' /\ AuditKnows' /\ Recorded'
  BY OnlySourcesNext, KnowsNext, RecordsNext
<1> QED BY <1>1, <1>2, <1>3, TreesAreCovered, PTL DEF Spec
=============================================================================
