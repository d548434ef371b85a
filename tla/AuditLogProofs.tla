--------------------------- MODULE AuditLogProofs ---------------------------
(***************************************************************************)
(* Proofs about AuditLog, for every value of its constants.                *)
(***************************************************************************)
EXTENDS AuditLog, TLAPS, SequenceTheorems, NaturalsInduction, WellFoundedInduction

(* A nonempty set of natural numbers that has an upper bound has a largest  *)
(* element: why NewestTimestamp, the CHOOSE of one, is defined.             *)
LEMMA LargestExists ==
  ASSUME NEW S \in SUBSET Nat, S # {}, NEW b \in Nat, \A s \in S : s <= b
  PROVE  \E m \in S : \A s \in S : s <= m
<1> DEFINE Bounds == {u \in Nat : \A s \in S : s <= u}
           Less == {ss \in Nat \X Nat : ss[1] < ss[2]}
<1>1. IsWellFoundedOn(Less, Nat)
  BY NatLessThanWellFounded DEF OpToRel
<1>2. b \in Bounds /\ Bounds \subseteq Nat
  OBVIOUS
<1>3. PICK m \in Bounds : \A u \in Bounds : ~(<<u, m>> \in Less)
  <2> HIDE DEF Bounds, Less
  <2> QED BY <1>1, <1>2, WFMin
<1>4. \A u \in Bounds : ~(u < m)
  BY <1>3
<1>5. CASE m \in S
  BY <1>5
<1>6. CASE m \notin S
  <2>1. \A s \in S : s < m
    <3>1. m \in Nat /\ \A s \in S : s \in Nat /\ s <= m /\ s # m
      BY <1>6
    <3> QED BY <3>1
  <2>2. m \in Nat /\ m # 0 /\ m - 1 \in Nat
    <3>1. PICK s \in S : s < m
      BY <2>1
    <3>2. s \in Nat /\ m \in Nat
      OBVIOUS
    <3> QED BY <3>1, <3>2
  <2>3. \A s \in S : s <= m - 1
    BY <2>1, <2>2
  <2>4. m - 1 \in Bounds
    BY <2>2, <2>3
  <2> QED BY <2>2, <2>4, <1>4
<1> QED BY <1>5, <1>6

\* A prefix of a sequence: its elements and its length.
LEMMA PrefixFacts ==
  ASSUME NEW S, NEW s \in Seq(S), NEW m \in 0..Len(s)
  PROVE  /\ SubSeq(s, 1, m) \in Seq(S)
         /\ Len(SubSeq(s, 1, m)) = m
         /\ \A i \in 1..m : SubSeq(s, 1, m)[i] = s[i]
<1>1. m \in Nat /\ \A i \in 1..m : s[i] \in S
  BY LenProperties, ElementOfSeq
<1>2. /\ SubSeq(s, 1, m) \in Seq(S)
      /\ Len(SubSeq(s, 1, m)) = IF 1 <= m THEN m - 1 + 1 ELSE 0
      /\ \A i \in 1..(m - 1 + 1) : SubSeq(s, 1, m)[i] = s[1 + i - 1]
  BY <1>1, SubSeqProperties
<1> QED BY <1>1, <1>2

-----------------------------------------------------------------------------
(* The file system: what its operators return. *)

FileType == [lines: Seq(Line), safe: Nat]

\* The current view of the directory names existing files only.
LEMMA ViewFacts ==
  ASSUME TypeOK
  PROVE  /\ View \in DirView
         /\ Linked(View) \subseteq FileIds
         /\ Active \in Nat /\ Segments \subseteq [file: Nat, stamp: Nat]
         /\ Active # NoFile => Active \in FileIds
<1>1. Len(dirs) \in 1..Len(dirs)
  BY EmptySeq DEF TypeOK
<1>2. View \in DirView
  BY <1>1, ElementOfSeq DEF TypeOK, View
<1>3. Linked(View) \subseteq FileIds
  BY <1>1 DEF TypeOK, View
<1>4. Active # NoFile => Active \in Linked(View)
  BY DEF Active, Linked
<1> QED BY <1>2, <1>3, <1>4 DEF DirView, Active, Segments

\* A new view of existing files becomes the current one.
LEMMA ChangeDirFacts ==
  ASSUME TypeOK, Len(files') \in Nat, Len(files) <= Len(files'),
         NEW v \in DirView, Linked(v) \subseteq FileIds', ChangeDir(v)
  PROVE  /\ dirs' \in Seq(DirView) /\ dirs' # <<>>
         /\ \A i \in 1..Len(dirs') : Linked(dirs'[i]) \subseteq FileIds'
         /\ View' = v
<1>1. dirs \in Seq(DirView) /\ dirs' = Append(dirs, v)
  BY DEF TypeOK, ChangeDir
<1>2. /\ dirs' \in Seq(DirView) /\ dirs' # <<>>
      /\ Len(dirs') = Len(dirs) + 1 /\ Len(dirs) \in Nat
      /\ \A i \in 1..Len(dirs) : dirs'[i] = dirs[i]
      /\ dirs'[Len(dirs) + 1] = v
  BY <1>1, AppendProperties, LenProperties
<1>3. FileIds \subseteq FileIds'
  BY LenProperties DEF FileIds, TypeOK
<1>4. ASSUME NEW i \in 1..Len(dirs') PROVE Linked(dirs'[i]) \subseteq FileIds'
  <2>1. CASE i = Len(dirs) + 1
    BY <2>1, <1>2
  <2>2. CASE i \in 1..Len(dirs)
    BY <2>2, <1>2, <1>3 DEF TypeOK
  <2> QED BY <2>1, <2>2, <1>2
<1> QED BY <1>2, <1>4 DEF View

\* _fsync_parent makes the current view the durable one and changes nothing seen.
LEMMA FsyncParentFacts ==
  ASSUME TypeOK, Len(files') = Len(files), FsyncParent
  PROVE  /\ dirs' \in Seq(DirView) /\ dirs' # <<>>
         /\ \A i \in 1..Len(dirs') : Linked(dirs'[i]) \subseteq FileIds'
         /\ View' = View
<1>1. View \in DirView /\ Linked(View) \subseteq FileIds'
  BY ViewFacts DEF FileIds
<1>2. dirs' = <<View>>
  BY DEF FsyncParent
<1>3. dirs' \in Seq(DirView) /\ Len(dirs') = 1 /\ dirs'[1] = View
  BY <1>1, <1>2
<1> QED BY SMTT(30), <1>1, <1>3 DEF View

\* The kinds of a file's lines, length and size.
LEMMA FileFacts ==
  ASSUME TypeOK, NEW f \in FileIds
  PROVE  /\ files[f] \in FileType
         /\ Lines(f) \in Seq(Line) /\ Len(Lines(f)) \in Nat
         /\ SizeOf(f) \in Nat
         /\ \A i \in 1..Len(Lines(f)) : Lines(f)[i] \in Line
         /\ Lines(f) # <<>> => Len(Lines(f)) \in 1..Len(Lines(f))
<1>1. files[f] \in FileType
  BY ElementOfSeq DEF TypeOK, FileIds, FileType
<1>2. Lines(f) \in Seq(Line)
  BY <1>1 DEF FileType, Lines
<1>3. Len(Lines(f)) \in Nat /\ \A i \in 1..Len(Lines(f)) : Lines(f)[i] \in Line
  BY <1>2, LenProperties, ElementOfSeq
<1>4. Lines(f) # <<>> => Len(Lines(f)) \in 1..Len(Lines(f))
  BY <1>2, EmptySeq
<1>5. SizeOf(f) \in Nat
  BY <1>3, <1>4 DEF SizeOf, LastLine, Line
<1> QED BY <1>1, <1>2, <1>3, <1>4, <1>5

\* A write changes one file; of its lines it keeps all, or all but an
\* unterminated last one, and adds one of the writer.
LEMMA WithBytesFacts ==
  ASSUME TypeOK, NEW f \in FileIds, NEW e \in Events, NEW n \in Nat \ {0},
         NEW last \in BOOLEAN
  PROVE  LET new  == WithBytes(f, e, n, last)
             kept == Len(new[f].lines) - 1
         IN  /\ new \in Seq(FileType) /\ Len(new) = Len(files)
             /\ \A g \in FileIds \ {f} : new[g] = files[g]
             /\ new[f].lines \in Seq(Line) /\ new[f].safe = files[f].safe
             /\ kept = IF Unterminated(f) THEN Len(Lines(f)) - 1 ELSE Len(Lines(f))
             /\ kept \in Nat
             /\ \A i \in 1..kept : new[f].lines[i] = Lines(f)[i]
             /\ new[f].lines[kept + 1].ev = e
             /\ new[f].lines[kept + 1].kind =
                  LET own == ~Unterminated(f) \/ (op.sent > 0 /\ LastLine(f).kind = "partial")
                  IN  IF last THEN (IF own THEN "event" ELSE "bad")
                      ELSE (IF own THEN "partial" ELSE "torn")
             /\ new[f].lines[kept + 1].end = SizeOf(f) + n
             /\ new[f].lines[kept + 1].at = op.now
<1> DEFINE own  == ~Unterminated(f) \/ (op.sent > 0 /\ LastLine(f).kind = "partial")
           kind == IF last THEN (IF own THEN "event" ELSE "bad")
                   ELSE (IF own THEN "partial" ELSE "torn")
           kept == IF Unterminated(f) THEN SubSeq(Lines(f), 1, Len(Lines(f)) - 1)
                   ELSE Lines(f)
           line == [ev |-> e, end |-> SizeOf(f) + n, kind |-> kind, at |-> op.now]
           new  == WithBytes(f, e, n, last)
<1>1. line \in Line
  <2>1. kind \in {"event", "partial", "torn", "bad"}
    OBVIOUS
  <2>2. SizeOf(f) + n \in Nat \ {0}
    BY FileFacts
  <2>3. op.now \in Nat
    BY DEF TypeOK
  <2> HIDE DEF kind
  <2> QED BY <2>1, <2>2, <2>3 DEF Line
<1>2. /\ kept \in Seq(Line)
      /\ Len(kept) = IF Unterminated(f) THEN Len(Lines(f)) - 1 ELSE Len(Lines(f))
      /\ Len(kept) \in Nat
      /\ \A i \in 1..Len(kept) : kept[i] = Lines(f)[i]
  <2>1. CASE Unterminated(f)
    <3>1. Len(Lines(f)) \in Nat \ {0}
      BY <2>1, FileFacts DEF Unterminated
    <3>2. Len(Lines(f)) - 1 \in 0..Len(Lines(f)) /\ Lines(f) \in Seq(Line)
      BY <3>1, FileFacts
    <3>3. kept = SubSeq(Lines(f), 1, Len(Lines(f)) - 1)
      BY <2>1
    <3>4. /\ kept \in Seq(Line) /\ Len(kept) = Len(Lines(f)) - 1
          /\ \A i \in 1..Len(kept) : kept[i] = Lines(f)[i]
      <4> HIDE DEF kept
      <4> QED BY <3>2, <3>3, PrefixFacts
    <3> HIDE DEF kept
    <3> QED BY <2>1, <3>1, <3>4
  <2>2. CASE ~Unterminated(f)
    BY <2>2, FileFacts
  <2> QED BY <2>1, <2>2
<1>3. /\ Append(kept, line) \in Seq(Line)
      /\ Len(Append(kept, line)) = Len(kept) + 1
      /\ \A i \in 1..Len(kept) : Append(kept, line)[i] = kept[i]
      /\ Append(kept, line)[Len(kept) + 1] = line
  <2> HIDE DEF kept, line
  <2> QED BY <1>1, <1>2, AppendProperties
<1>4. new = [files EXCEPT ![f] = [files[f] EXCEPT !.lines = Append(kept, line)]]
  BY DEF WithBytes
<1>5. /\ [files[f] EXCEPT !.lines = Append(kept, line)] \in FileType
      /\ [files[f] EXCEPT !.lines = Append(kept, line)].lines = Append(kept, line)
      /\ [files[f] EXCEPT !.lines = Append(kept, line)].safe = files[f].safe
  <2> HIDE DEF kept, line
  <2> QED BY <1>3, FileFacts DEF FileType
<1>6. files \in Seq(FileType) /\ f \in 1..Len(files)
  BY DEF TypeOK, FileIds, FileType
<1>7. /\ new \in Seq(FileType) /\ Len(new) = Len(files)
      /\ \A g \in FileIds \ {f} : new[g] = files[g]
      /\ new[f].lines = Append(kept, line) /\ new[f].safe = files[f].safe
  <2> HIDE DEF kept, line, new
  <2> QED BY <1>4, <1>5, <1>6, ExceptSeq DEF FileIds
<1>8. line.ev = e /\ line.kind = kind /\ line.end = SizeOf(f) + n /\ line.at = op.now
  OBVIOUS
<1>9. Len(new[f].lines) - 1 = Len(kept)
  <2> HIDE DEF kept, line, new
  <2> QED BY <1>2, <1>3, <1>7
<1> HIDE DEF kept, line, new, kind
<1>10. /\ new[f].lines \in Seq(Line)
       /\ \A i \in 1..Len(kept) : new[f].lines[i] = Lines(f)[i]
       /\ new[f].lines[Len(kept) + 1] = line
  BY <1>2, <1>3, <1>7
<1> QED BY <1>2, <1>7, <1>8, <1>9, <1>10 DEF new, kind

-----------------------------------------------------------------------------
(* The type invariant.  It is not inductive by itself: a write has a byte   *)
(* to write because the lock's holder keeps sent < len, a sync has a file   *)
(* because the holder created or found one, and a loaded file has a newest  *)
(* timestamp because the clock bounds them all.                             *)

DiskType ==
  /\ files \in Seq(FileType)
  /\ dirs \in Seq(DirView) /\ dirs # <<>>
  /\ \A i \in 1..Len(dirs) : Linked(dirs[i]) \subseteq FileIds

HolderInv ==
  /\ op.pc # "idle" => op.ev \in Events /\ call[op.ev].st = "holding"
  /\ op.pc = "append" => op.sent < call[op.ev].len
  /\ op.pc \notin {"append", "appendSync", "prune"} => op.sent = 0
  /\ op.pc \in {"createSync", "appendSync"} => Active # NoFile
  /\ op.now <= clock
  /\ \A e \in Events : call[e].ts <= clock

TypeInv == TypeOK /\ HolderInv

CallType == [st: {"new", "waiting", "holding", "acked", "failed", "lost"},
             ts: Nat, len: 1..MaxLine]
OpType == [pc: PCs, ev: Events \cup {NoEvent}, now: Nat, sent: Nat, deleted: BOOLEAN]
MemType == [loaded: BOOLEAN, started: Nat, newest: Nat, size: Nat]

\* TypeOK, one conjunct per variable and the disk as one.
LEMMA TypeParts ==
  TypeOK <=> /\ clock \in Nat /\ faults \in Nat
             /\ call \in [Events -> CallType]
             /\ op \in OpType
             /\ mem \in MemType
             /\ DiskType
BY DEF TypeOK, DiskType, FileType, CallType, OpType, MemType

\* TypeOK after a step, from its parts.
LEMMA TypePartsNext ==
  ASSUME clock' \in Nat, faults' \in Nat, call' \in [Events -> CallType],
         op' \in OpType, mem' \in MemType, DiskType'
  PROVE  TypeOK'
BY DEF TypeOK, DiskType, FileType, CallType, OpType, MemType

\* A step that leaves files and directory alone leaves what is seen of them.
LEMMA DiskUnchanged ==
  ASSUME TypeOK, UNCHANGED <<files, dirs>>
  PROVE  DiskType' /\ View' = View /\ Active' = Active /\ Segments' = Segments
BY DEF TypeOK, DiskType, FileType, Linked, FileIds, View, Active, Segments

\* The end of a record() call frees the lock and changes that call's state only.
LEMMA ReleaseFacts ==
  ASSUME TypeInv, op.pc # "idle", NEW st \in {"acked", "failed"}, Release(st)
  PROVE  /\ op' = Idle /\ op' \in OpType
         /\ call' \in [Events -> CallType]
         /\ \A e \in Events : /\ call'[e].ts = call[e].ts
                              /\ call'[e].len = call[e].len
                              /\ call'[e].st = IF e = op.ev THEN st ELSE call[e].st
<1>1. op' = Idle /\ op' \in OpType
  BY DEF Release, Idle, OpType, PCs
<1>2. call \in [Events -> CallType] /\ op.ev \in Events
  BY TypeParts DEF TypeInv, HolderInv
<1>3. call' = [call EXCEPT ![op.ev].st = st]
  BY DEF Release
<1> QED BY <1>1, <1>2, <1>3 DEF CallType

\* A record() call that raises keeps the type invariant.
LEMMA RaiseTypes ==
  ASSUME TypeInv, op.pc # "idle", Raise, faults' \in Nat
  PROVE  TypeInv'
<1>1. /\ op' = Idle /\ op' \in OpType /\ call' \in [Events -> CallType]
      /\ \A e \in Events : call'[e].ts = call[e].ts
  BY ReleaseFacts DEF Raise
<1>2. UNCHANGED <<clock, mem, files, dirs>>
  BY DEF Raise
<1>3. DiskType'
  BY <1>2, DiskUnchanged DEF TypeInv
<1>4. TypeOK'
  BY <1>1, <1>2, <1>3, TypeParts, TypePartsNext DEF TypeInv
<1>5. HolderInv'
  BY <1>1, <1>2, TypeParts DEF HolderInv, Idle, TypeInv
<1> QED BY <1>4, <1>5 DEF TypeInv

\* A dying process takes its callers and its memory, and nothing else.
LEMMA LoseProcessFacts ==
  ASSUME TypeInv, LoseProcess
  PROVE  /\ op' = Idle /\ op' \in OpType
         /\ mem' = Unloaded /\ mem' \in MemType
         /\ clock' = clock
         /\ call' \in [Events -> CallType]
         /\ \A e \in Events : /\ call'[e].ts = call[e].ts
                              /\ call'[e].st \notin {"waiting", "holding"}
                              /\ call'[e].st = "acked" <=> call[e].st = "acked"
                              /\ call[e].st # "new" => call'[e].st # "new"
<1>1. op' = Idle /\ op' \in OpType /\ mem' = Unloaded /\ mem' \in MemType /\ clock' = clock
  BY DEF LoseProcess, Idle, Unloaded, OpType, MemType, PCs
<1>2. call \in [Events -> CallType]
  BY TypeParts DEF TypeInv
<1>3. call' = [e \in Events |-> IF call[e].st \in {"waiting", "holding"}
                               THEN [call[e] EXCEPT !.st = "lost"] ELSE call[e]]
  BY DEF LoseProcess
<1> QED BY <1>1, <1>2, <1>3 DEF CallType

\* A crash keeps the type invariant if the disk it leaves is well typed.
LEMMA LoseProcessTypes ==
  ASSUME TypeInv, LoseProcess, DiskType', faults' \in Nat
  PROVE  TypeInv'
<1>1. /\ op' = Idle /\ op' \in OpType /\ mem' \in MemType
      /\ call' \in [Events -> CallType] /\ clock' = clock
      /\ \A e \in Events : call'[e].ts = call[e].ts
  BY LoseProcessFacts
<1>2. clock \in Nat
  BY TypeParts DEF TypeInv
<1>3. TypeOK'
  BY <1>1, <1>2, TypePartsNext
<1> QED BY <1>1, <1>2, <1>3 DEF TypeInv, HolderInv, Idle

\* NewestTimestamp is one of a file's timestamps, the largest (_validate_jsonl's newest).
LEMMA NewestTimestampFacts ==
  ASSUME TypeInv, NEW f \in FileIds, Lines(f) # <<>>
  PROVE  /\ NewestTimestamp(f) \in Nat
         /\ \A i \in 1..Len(Lines(f)) : call[Lines(f)[i].ev].ts <= NewestTimestamp(f)
         /\ \E i \in 1..Len(Lines(f)) : NewestTimestamp(f) = call[Lines(f)[i].ev].ts
<1> DEFINE S == {call[Lines(f)[i].ev].ts : i \in 1..Len(Lines(f))}
<1>1. /\ Len(Lines(f)) \in 1..Len(Lines(f))
      /\ \A i \in 1..Len(Lines(f)) : Lines(f)[i].ev \in Events
  BY FileFacts DEF Line, TypeInv
<1>2. \A e \in Events : call[e].ts \in Nat /\ call[e].ts <= clock
  BY TypeParts DEF TypeInv, HolderInv, CallType
<1>3. S \in SUBSET Nat /\ S # {} /\ \A t \in S : t <= clock
  BY <1>1, <1>2
<1>4. clock \in Nat
  BY DEF TypeInv, TypeOK
<1>5. \E t \in S : \A u \in S : u <= t
  <2> HIDE DEF S
  <2> QED BY <1>3, <1>4, LargestExists
<1>6. \E t \in S : \A i \in 1..Len(Lines(f)) : call[Lines(f)[i].ev].ts <= t
  BY <1>5
<1>7. /\ NewestTimestamp(f) \in S
      /\ \A i \in 1..Len(Lines(f)) : call[Lines(f)[i].ev].ts <= NewestTimestamp(f)
  BY <1>6 DEF NewestTimestamp
<1> QED BY <1>3, <1>7

\* What a power loss may make of a file's lines: the synced ones are as they
\* were, so are all but the last, and the last is at most cut short.
Remains(file, l) ==
  /\ l \in Seq(Line) /\ file.safe <= Len(l) /\ Len(l) <= Len(file.lines)
  /\ \A i \in 1..Len(l) : /\ l[i].ev = file.lines[i].ev /\ l[i].at = file.lines[i].at
                          /\ l[i].end <= file.lines[i].end
                          /\ i < Len(l) \/ i <= file.safe => l[i] = file.lines[i]
  /\ file.safe = Len(file.lines) => l = file.lines

LEMMA SurvivalsRemain ==
  ASSUME NEW file \in FileType, NEW l \in Survivals(file)
  PROVE  Remains(file, l)
<1> DEFINE whole(k) == SubSeq(file.lines, 1, k)
           begin(k) == IF k = 0 THEN 0 ELSE file.lines[k].end
           rest(k, n) == [file.lines[k + 1] EXCEPT !.end = n, !.kind = "partial"]
           size == Len(file.lines)
<1>1. file.lines \in Seq(Line) /\ file.safe \in Nat /\ size \in Nat
  BY LenProperties DEF FileType
<1>2. \A k \in file.safe..size : k \in Nat /\ k \in 0..size /\ file.safe <= k /\ k <= size
  BY <1>1
<1>3. ASSUME NEW k \in 0..size
      PROVE  /\ whole(k) \in Seq(Line) /\ Len(whole(k)) = k
             /\ \A i \in 1..k : whole(k)[i] = file.lines[i]
  BY <1>1, PrefixFacts
<1>4. \A i \in 1..size : file.lines[i] \in Line
  BY <1>1, ElementOfSeq
<1>5. ASSUME NEW k \in file.safe..size, l = whole(k) PROVE Remains(file, l)
  <2>1. l \in Seq(Line) /\ Len(l) = k /\ \A i \in 1..k : l[i] = file.lines[i]
    <3> HIDE DEF whole
    <3> QED BY <1>2, <1>3, <1>5
  <2>2. \A i \in 1..k : i \in 1..size
    BY <1>1, <1>2
  <2>3. \A i \in 1..k : l[i].end <= file.lines[i].end
    BY <1>4, <2>1, <2>2 DEF Line
  <2>4. file.safe = size => l = file.lines
    <3> SUFFICES ASSUME file.safe = size PROVE l = file.lines
      OBVIOUS
    <3>1. k = size
      BY <1>1, <1>2
    <3> QED BY <1>1, <2>1, <3>1, SeqEqual
  <2> HIDE DEF whole
  <2> QED BY <1>2, <2>1, <2>3, <2>4 DEF Remains
<1>6. ASSUME NEW k \in file.safe..size, k # size,
             NEW n \in (begin(k) + 1)..file.lines[k + 1].end,
             l = Append(whole(k), rest(k, n))
      PROVE  Remains(file, l)
  <2>1. k \in Nat /\ k + 1 \in 1..size /\ (k # 0 => k \in 1..size) /\ k \in 0..size
    BY <1>1, <1>2, <1>6
  <2>2. file.lines[k + 1] \in Line /\ begin(k) \in Nat
    <3>1. k # 0 => file.lines[k].end \in Nat
      BY <1>4, <2>1 DEF Line
    <3> QED BY <1>4, <2>1, <3>1
  <2>3. n \in Nat \ {0} /\ n <= file.lines[k + 1].end
    BY SMTT(30), <2>2 DEF Line
  <2>4. /\ rest(k, n) \in Line
        /\ rest(k, n).ev = file.lines[k + 1].ev /\ rest(k, n).at = file.lines[k + 1].at
        /\ rest(k, n).end = n
    BY <2>2, <2>3 DEF Line
  <2>5. /\ l \in Seq(Line) /\ Len(l) = k + 1 /\ l[k + 1] = rest(k, n)
        /\ \A i \in 1..k : l[i] = file.lines[i]
    <3> HIDE DEF whole, rest
    <3>1. whole(k) \in Seq(Line) /\ Len(whole(k)) = k
      BY <1>3, <2>1
    <3>2. /\ l \in Seq(Line)
          /\ Len(l) = Len(whole(k)) + 1 /\ l[Len(whole(k)) + 1] = rest(k, n)
          /\ \A i \in 1..Len(whole(k)) : l[i] = whole(k)[i]
      BY <1>6, <2>4, <3>1, AppendProperties
    <3> QED BY <1>3, <2>1, <3>1, <3>2
  <2> HIDE DEF whole, rest, begin
  <2>6. ASSUME NEW i \in 1..(k + 1)
        PROVE  /\ l[i].ev = file.lines[i].ev /\ l[i].at = file.lines[i].at
               /\ l[i].end <= file.lines[i].end
               /\ i < k + 1 \/ i <= file.safe => l[i] = file.lines[i]
    <3>1. CASE i = k + 1
      BY <1>1, <1>2, <2>1, <2>3, <2>4, <2>5, <3>1
    <3>2. CASE i # k + 1
      <4>1. i \in 1..k /\ i \in 1..size
        BY <1>1, <2>1, <3>2
      <4>2. file.lines[i].end \in Nat
        BY <1>4, <4>1 DEF Line
      <4>3. l[i] = file.lines[i]
        BY <2>5, <4>1
      <4>4. l[i].end <= file.lines[i].end
        BY <4>2, <4>3
      <4> QED BY <4>3, <4>4
    <3> QED BY <3>1, <3>2
  <2>7. file.safe # size /\ file.safe <= k + 1 /\ k + 1 <= size
    BY <1>1, <1>2, <1>6, <2>1
  <2> QED BY <2>5, <2>6, <2>7 DEF Remains
<1>7. \/ \E k \in file.safe..size : l = whole(k)
      \/ \E k \in file.safe..size : /\ k # size
           /\ \E n \in (begin(k) + 1)..file.lines[k + 1].end :
                l = Append(whole(k), rest(k, n))
  BY DEF Survivals
<1> QED
  <2> HIDE DEF whole, begin, rest
  <2> QED BY <1>5, <1>6, <1>7

\* What Remains says of the lines of a file, one by one.
LEMMA RemainsFacts ==
  ASSUME TypeInv, NEW f \in FileIds, Remains(files[f], Lines(f)')
  PROVE  /\ Lines(f)' \in Seq(Line) /\ Len(Lines(f)') \in Nat
         /\ files[f].safe \in Nat /\ files[f].safe <= Len(Lines(f)')
         /\ Len(Lines(f)') <= Len(Lines(f)) /\ Len(Lines(f)) \in Nat
         /\ \A i \in 1..Len(Lines(f)') :
              /\ i \in 1..Len(Lines(f))
              /\ Lines(f)'[i].ev = Lines(f)[i].ev /\ Lines(f)'[i].at = Lines(f)[i].at
              /\ Lines(f)'[i].end <= Lines(f)[i].end
              /\ i < Len(Lines(f)') \/ i <= files[f].safe => Lines(f)'[i] = Lines(f)[i]
         /\ files[f].safe = Len(Lines(f)) => Lines(f)' = Lines(f)
<1>1. files[f].lines = Lines(f) /\ files[f].safe \in Nat /\ Len(Lines(f)) \in Nat
  BY FileFacts DEF TypeInv, FileType, Lines
<1>2. Lines(f)' \in Seq(Line) /\ Len(Lines(f)') \in Nat
  BY LenProperties DEF Remains
<1> QED BY <1>1, <1>2 DEF Remains

(* What the actions that touch the disk do to it. *)

\* The rename of a rotation: the active file becomes a segment.
LEMMA RenameDisk ==
  ASSUME TypeInv, Rename
  PROVE  /\ DiskType'
         /\ View' = [active |-> NoFile,
                     segs |-> Segments \cup {[file |-> Active, stamp |-> SegmentStamp]}]
<1> DEFINE v == [active |-> NoFile,
                 segs |-> Segments \cup {[file |-> Active, stamp |-> SegmentStamp]}]
<1>1. files' = files /\ Active # NoFile /\ ChangeDir(v)
  BY DEF Rename
<1>2. Active \in FileIds /\ Active \in Nat /\ Segments \subseteq [file: Nat, stamp: Nat]
  BY <1>1, ViewFacts DEF TypeInv
<1>3. SegmentStamp \in Nat
  BY DEF TypeInv, TypeOK, SegmentStamp
<1>4. v \in DirView
  BY <1>2, <1>3 DEF DirView, NoFile
<1>5. Linked(View) \subseteq FileIds
  BY ViewFacts DEF TypeInv
<1>6. Linked(v) \subseteq FileIds'
  BY <1>1, <1>2, <1>5 DEF Linked, Segments, FileIds
<1>7. Len(files') \in Nat /\ Len(files) <= Len(files')
  BY <1>1, LenProperties DEF TypeInv, TypeOK
<1> HIDE DEF v
<1>8. /\ dirs' \in Seq(DirView) /\ dirs' # <<>> /\ View' = v
      /\ \A i \in 1..Len(dirs') : Linked(dirs'[i]) \subseteq FileIds'
  BY <1>1, <1>4, <1>6, <1>7, ChangeDirFacts DEF TypeInv
<1> QED BY <1>1, <1>8, TypeParts DEF TypeInv, DiskType, v

\* _create_active: a new, empty, active file.
LEMMA CreateFileDisk ==
  ASSUME TypeInv, CreateFile
  PROVE  /\ DiskType'
         /\ View' = [View EXCEPT !.active = Len(files) + 1]
         /\ Len(files') = Len(files) + 1 /\ Len(files) \in Nat
         /\ \A f \in FileIds : files'[f] = files[f]
         /\ files'[Len(files) + 1] = [lines |-> <<>>, safe |-> 0]
<1> DEFINE v == [View EXCEPT !.active = Len(files) + 1]
           new == [lines |-> <<>>, safe |-> 0]
<1>1. files' = Append(files, new) /\ ChangeDir(v)
  BY DEF CreateFile
<1>2. files \in Seq(FileType) /\ new \in FileType
  BY TypeParts, EmptySeq DEF TypeInv, DiskType, FileType
<1>3. /\ files' \in Seq(FileType) /\ Len(files') = Len(files) + 1
      /\ \A i \in 1..Len(files) : files'[i] = files[i]
      /\ files'[Len(files) + 1] = new /\ Len(files) \in Nat
  <2> HIDE DEF new
  <2> QED BY <1>1, <1>2, AppendProperties, LenProperties
<1>4. View \in DirView /\ Linked(View) \subseteq FileIds
  BY ViewFacts DEF TypeInv
<1>5. v \in DirView
  BY <1>3, <1>4 DEF DirView
<1>6. Linked(v) \subseteq FileIds'
  <2>1. v.segs = View.segs /\ v.active = Len(files) + 1
    BY <1>4 DEF DirView
  <2> QED BY <1>3, <1>4, <2>1 DEF Linked, FileIds
<1> HIDE DEF v, new
<1>7. /\ dirs' \in Seq(DirView) /\ dirs' # <<>> /\ View' = v
      /\ \A i \in 1..Len(dirs') : Linked(dirs'[i]) \subseteq FileIds'
  BY <1>1, <1>3, <1>5, <1>6, ChangeDirFacts DEF TypeInv
<1> QED BY <1>3, <1>7 DEF DiskType, FileIds, v, new

\* A parent sync leaves the view and the files alone.
LEMMA FsyncParentDisk ==
  ASSUME TypeInv, files' = files, FsyncParent
  PROVE  DiskType' /\ View' = View /\ Active' = Active /\ Segments' = Segments
<1>1. Len(files') = Len(files)
  OBVIOUS
<1>2. /\ dirs' \in Seq(DirView) /\ dirs' # <<>> /\ View' = View
      /\ \A i \in 1..Len(dirs') : Linked(dirs'[i]) \subseteq FileIds'
  BY <1>1, FsyncParentFacts DEF TypeInv
<1> QED BY <1>2, TypeParts DEF TypeInv, DiskType, Active, Segments

\* The files change, their number and the directory do not.
LEMMA FilesChange ==
  ASSUME TypeInv, files' \in Seq(FileType), Len(files') = Len(files), dirs' = dirs
  PROVE  DiskType' /\ View' = View /\ Active' = Active /\ Segments' = Segments
<1>1. FileIds' = FileIds
  BY DEF FileIds
<1>2. View' = View
  BY DEF View
<1>3. \A i \in 1..Len(dirs) : Linked(dirs'[i]) = Linked(dirs[i])
  BY DEF Linked
<1> QED BY <1>1, <1>2, <1>3, TypeParts DEF TypeInv, DiskType, Active, Segments, Linked

\* os.fsync of the active file changes nothing that can be read.
LEMMA AppendSyncDisk ==
  ASSUME TypeInv, AppendSync
  PROVE  /\ DiskType' /\ View' = View /\ Active' = Active /\ Segments' = Segments
         /\ Len(files') = Len(files)
         /\ \A f \in FileIds :
              /\ files'[f].lines = files[f].lines
              /\ files'[f].safe = IF f = Active THEN Len(Lines(f)) ELSE files[f].safe
<1> DEFINE new == [files[Active] EXCEPT !.safe = Len(Lines(Active))]
<1>1. Active # NoFile
  BY DEF AppendSync, TypeInv, HolderInv
<1>2. Active \in FileIds
  BY <1>1, ViewFacts DEF TypeInv
<1>3. files[Active] \in FileType /\ Len(Lines(Active)) \in Nat
  BY <1>2, FileFacts DEF TypeInv
<1>4. /\ new \in FileType /\ new.lines = files[Active].lines
      /\ new.safe = Len(Lines(Active))
  BY <1>3 DEF FileType
<1>5. files' = [files EXCEPT ![Active] = new] /\ dirs' = dirs
  BY DEF AppendSync
<1>6. files \in Seq(FileType) /\ Active \in 1..Len(files)
  BY <1>2, TypeParts DEF TypeInv, DiskType, FileIds
<1>7. /\ files' \in Seq(FileType) /\ Len(files') = Len(files)
      /\ \A j \in 1..Len(files) : files'[j] = IF j = Active THEN new ELSE files[j]
  <2> HIDE DEF new
  <2> QED BY <1>4, <1>5, <1>6, ExceptSeq
<1>8. \A f \in FileIds :
        /\ files'[f].lines = files[f].lines
        /\ files'[f].safe = IF f = Active THEN Len(Lines(f)) ELSE files[f].safe
  <2> HIDE DEF new
  <2> QED BY <1>4, <1>7 DEF FileIds
<1> QED BY <1>5, <1>7, <1>8, FilesChange

\* Retention unlinks one expired segment.
LEMMA PruneDisk ==
  ASSUME TypeInv, PruneOne
  PROVE  /\ DiskType'
         /\ \E s \in Expired : View' = [View EXCEPT !.segs = @ \ {s}]
<1>1. PICK s \in Expired : ChangeDir([View EXCEPT !.segs = @ \ {s}])
  BY DEF PruneOne
<1> DEFINE v == [View EXCEPT !.segs = @ \ {s}]
<1>2. files' = files /\ Len(files') \in Nat /\ Len(files) <= Len(files')
  BY LenProperties DEF PruneOne, TypeInv, TypeOK
<1>3. View \in DirView /\ Linked(View) \subseteq FileIds
  BY ViewFacts DEF TypeInv
<1>4. v \in DirView /\ v.active = View.active /\ v.segs = View.segs \ {s}
  BY <1>3 DEF DirView
<1>5. Linked(v) \subseteq FileIds'
  BY <1>2, <1>3, <1>4 DEF Linked, FileIds
<1> HIDE DEF v
<1>6. /\ dirs' \in Seq(DirView) /\ dirs' # <<>> /\ View' = v
      /\ \A i \in 1..Len(dirs') : Linked(dirs'[i]) \subseteq FileIds'
  BY <1>1, <1>2, <1>4, <1>5, ChangeDirFacts DEF TypeInv, v
<1> QED BY <1>2, <1>6, TypeParts DEF TypeInv, DiskType, v

\* A power loss leaves one of the views of the directory and of each file what
\* Remains says, which is then all durable.
LEMMA PowerLossDisk ==
  ASSUME TypeInv, PowerLoss
  PROVE  /\ DiskType' /\ FileIds' = FileIds
         /\ \A f \in FileIds : /\ Remains(files[f], Lines(f)')
                               /\ files'[f].safe = Len(Lines(f)')
         /\ \E v \in 1..Len(dirs) : View' = dirs[v] /\ dirs' = <<View>>'
<1>1. PICK v \in 1..Len(dirs) : dirs' = <<dirs[v]>>
  BY DEF PowerLoss
<1>2. PICK left \in [FileIds -> UNION {Survivals(files[f]) : f \in FileIds}] :
        /\ \A f \in FileIds : left[f] \in Survivals(files[f])
        /\ files' = [f \in FileIds |-> [lines |-> left[f], safe |-> Len(left[f])]]
  BY DEF PowerLoss
<1>3. \A f \in FileIds : files[f] \in FileType
  BY FileFacts DEF TypeInv
<1>4. \A f \in FileIds : Remains(files[f], left[f]) /\ left[f] \in Seq(Line)
  BY <1>2, <1>3, SurvivalsRemain DEF Remains
<1>5. \A f \in FileIds : [lines |-> left[f], safe |-> Len(left[f])] \in FileType
  BY <1>4, LenProperties DEF FileType
<1>6. Len(files) \in Nat
  BY LenProperties DEF TypeInv, TypeOK
<1>7. files' \in Seq(FileType) /\ Len(files') = Len(files)
  BY <1>2, <1>5, <1>6, IsASeq DEF FileIds
<1>8. FileIds' = FileIds
  BY <1>7 DEF FileIds
<1>9. dirs[v] \in DirView /\ Linked(dirs[v]) \subseteq FileIds
  BY ElementOfSeq DEF TypeInv, TypeOK
<1>10. /\ dirs' \in Seq(DirView) /\ dirs' # <<>> /\ Len(dirs') = 1 /\ dirs'[1] = dirs[v]
       /\ View' = dirs[v]
  BY <1>1, <1>9 DEF View
<1>11. DiskType'
  BY <1>7, <1>8, <1>9, <1>10 DEF DiskType
<1>12. \A f \in FileIds : Lines(f)' = left[f] /\ files'[f].safe = Len(left[f])
  BY <1>2 DEF Lines
<1> QED BY <1>1, <1>4, <1>8, <1>10, <1>11, <1>12

\* os.write changes the content of the active file only.
LEMMA WriteFacts ==
  ASSUME TypeInv, op.pc = "append", Active # NoFile, NEW n \in Nat \ {0},
         NEW last \in BOOLEAN, files' = WithBytes(Active, op.ev, n, last), dirs' = dirs
  PROVE  /\ DiskType' /\ View' = View /\ Active' = Active /\ Segments' = Segments
         /\ Active \in FileIds /\ op.ev \in Events
<1>1. Active \in FileIds /\ op.ev \in Events
  BY ViewFacts DEF TypeInv, HolderInv
<1>2. files' \in Seq(FileType) /\ Len(files') = Len(files)
  BY <1>1, WithBytesFacts DEF TypeInv
<1> QED BY <1>1, <1>2, FilesChange

\* After an append of n bytes to file a: its lines but an unterminated last one stay,
\* and one of the event being recorded follows them.
Wrote(a, lines, kept, n, last) ==
  /\ files'[a].lines = lines /\ Len(lines) = kept + 1
  /\ kept = IF Unterminated(a) THEN Len(Lines(a)) - 1 ELSE Len(Lines(a))
  /\ \A i \in 1..kept : i \in 1..Len(Lines(a)) /\ lines[i] = Lines(a)[i]
  /\ lines[kept + 1].ev = op.ev /\ lines[kept + 1].at = op.now
  /\ lines[kept + 1].end = SizeOf(a) + n
  /\ lines[kept + 1].kind \in IF last THEN {"event", "bad"} ELSE {"partial", "torn"}

\* An append changes the lines of the active file only, and syncs nothing.
LEMMA WriteLines ==
  ASSUME TypeInv, op.pc = "append", Active # NoFile, NEW n \in Nat \ {0},
         NEW last \in BOOLEAN, files' = WithBytes(Active, op.ev, n, last), dirs' = dirs
  PROVE  /\ View' = View /\ Active' = Active /\ Segments' = Segments
         /\ Linked(View)' = Linked(View) /\ FileIds' = FileIds
         /\ Active \in FileIds /\ op.ev \in Events
         /\ \A f \in FileIds \ {Active} : Lines(f)' = Lines(f)
         /\ \A f \in FileIds : files'[f].safe = files[f].safe
         /\ \E lines \in Seq(Line), kept \in Nat : Wrote(Active, lines, kept, n, last)
<1>1. /\ View' = View /\ Active' = Active /\ Segments' = Segments
      /\ Linked(View)' = Linked(View)
      /\ Active \in FileIds /\ op.ev \in Events
  BY WriteFacts DEF Linked
<1>2. PICK a : a = Active
  OBVIOUS
<1>3. PICK kept : kept = Len(files'[a].lines) - 1
  OBVIOUS
<1>4. PICK lines : lines = files'[a].lines
  OBVIOUS
<1>5. /\ Len(files') = Len(files) /\ (\A g \in FileIds \ {a} : files'[g] = files[g])
      /\ files'[a].safe = files[a].safe
  BY <1>1, <1>2, WithBytesFacts DEF TypeInv
<1>6. lines \in Seq(Line) /\ kept \in Nat
  BY <1>1, <1>2, <1>3, <1>4, WithBytesFacts DEF TypeInv
<1>7. /\ kept = IF Unterminated(a) THEN Len(Lines(a)) - 1 ELSE Len(Lines(a))
      /\ \A i \in 1..kept : lines[i] = Lines(a)[i]
  BY SMTT(30), <1>1, <1>2, <1>3, <1>4, WithBytesFacts DEF TypeInv
<1>8. /\ lines[kept + 1].ev = op.ev /\ lines[kept + 1].at = op.now
      /\ lines[kept + 1].end = SizeOf(a) + n
      /\ lines[kept + 1].kind \in IF last THEN {"event", "bad"} ELSE {"partial", "torn"}
  BY SMTT(30), <1>1, <1>2, <1>3, <1>4, WithBytesFacts DEF TypeInv
<1>9. Len(lines) = kept + 1 /\ Len(Lines(a)) \in Nat
  BY <1>1, <1>2, <1>3, <1>4, <1>6, LenProperties, FileFacts DEF TypeInv
<1>10. \A i \in 1..kept : i \in 1..Len(Lines(a))
  BY <1>6, <1>7, <1>9
<1>11. FileIds' = FileIds /\ \A f \in FileIds \ {a} : Lines(f)' = Lines(f)
  BY <1>5 DEF FileIds, Lines
<1>12. \A f \in FileIds : files'[f].safe = files[f].safe
  BY <1>1, <1>5
<1>13. Wrote(a, lines, kept, n, last)
  BY <1>4, <1>7, <1>8, <1>9, <1>10 DEF Wrote
<1> QED BY <1>1, <1>2, <1>6, <1>11, <1>12, <1>13

\* Each of the two writes has a byte to write.
LEMMA AppendsBytes ==
  ASSUME TypeInv, WriteSome \/ WriteRest
  PROVE  \E n \in Nat \ {0}, last \in BOOLEAN : files' = WithBytes(Active, op.ev, n, last)
<1>1. op.ev \in Events /\ op.sent < call[op.ev].len /\ op.sent \in Nat
  BY TypeParts DEF TypeInv, HolderInv, OpType, WriteSome, WriteRest
<1>2. call[op.ev].len \in Nat
  BY <1>1, TypeParts, SizeAssumption DEF TypeInv, CallType
<1>3. CASE WriteSome
  <2>1. PICK n \in 1..(call[op.ev].len - op.sent) : files' = WithBytes(Active, op.ev, n, FALSE)
    BY <1>3 DEF WriteSome
  <2>2. n \in Nat \ {0}
    BY <1>1, <1>2
  <2> QED BY <2>1, <2>2
<1>4. CASE WriteRest
  <2>1. PICK n : n = call[op.ev].len - op.sent
    OBVIOUS
  <2>2. n \in Nat \ {0} /\ files' = WithBytes(Active, op.ev, n, TRUE)
    BY <1>1, <1>2, <1>4, <2>1 DEF WriteRest
  <2> QED BY <2>2
<1> QED BY <1>3, <1>4

\* Every action keeps the type invariant.
LEMMA TypeInvStep ==
  ASSUME TypeInv, Next
  PROVE  TypeInv'
<1> USE DEF TypeInv
<1>0. /\ clock \in Nat /\ faults \in Nat /\ call \in [Events -> CallType]
      /\ op \in OpType /\ mem \in MemType /\ DiskType
  BY TypeParts
<1>d. UNCHANGED <<files, dirs>> => DiskType' /\ View' = View /\ Active' = Active
  BY DiskUnchanged
<1>1. ASSUME NEW e \in Events, Submit(e) PROVE TypeInv'
  <2>1. PICK n \in 1..MaxLine :
          call' = [call EXCEPT ![e] = [st |-> "waiting", ts |-> clock, len |-> n]]
    BY <1>1 DEF Submit
  <2>2. UNCHANGED <<clock, op, mem, files, dirs, faults>> /\ call[e].st = "new"
    BY <1>1 DEF Submit
  <2>3. /\ call' \in [Events -> CallType]
        /\ \A d \in Events \ {e} : call'[d] = call[d]
        /\ call'[e].ts = clock
    BY <1>0, <2>1 DEF CallType
  <2>4. TypeOK'
    BY <1>0, <1>d, <2>2, <2>3, TypePartsNext
  <2>5. op.pc # "idle" => op.ev # e
    BY <2>2 DEF HolderInv
  <2>6. HolderInv'
    BY <1>0, <1>d, <2>2, <2>3, <2>5 DEF HolderInv
  <2> QED BY <2>4, <2>6
<1>2. ASSUME NEW e \in Events, Acquire(e) PROVE TypeInv'
  <2>1. /\ call' = [call EXCEPT ![e].st = "holding"]
        /\ op' = [Idle EXCEPT !.pc = "prepare", !.ev = e, !.now = clock]
        /\ UNCHANGED <<clock, mem, files, dirs, faults>>
    BY <1>2 DEF Acquire
  <2>2. /\ call' \in [Events -> CallType] /\ call'[e].st = "holding"
        /\ \A d \in Events : call'[d].ts = call[d].ts
    BY <1>0, <2>1 DEF CallType
  <2>3. /\ op' \in OpType /\ op'.pc = "prepare" /\ op'.ev = e
        /\ op'.now = clock /\ op'.sent = 0
    BY <1>0, <2>1 DEF OpType, Idle, PCs
  <2>4. TypeOK'
    BY <1>0, <1>d, <2>1, <2>2, <2>3, TypePartsNext
  <2>5. HolderInv'
    BY <1>0, <2>1, <2>2, <2>3 DEF HolderInv
  <2> QED BY <2>4, <2>5
<1>3. ASSUME LoadAbsent PROVE TypeInv'
  <2>1. TypeOK'
    BY <1>0, <1>d, <1>3, TypePartsNext DEF LoadAbsent, Goto, OpType, PCs
  <2> QED BY <1>0, <1>3, <2>1 DEF LoadAbsent, Goto, OpType, HolderInv
<1>4. ASSUME LoadRejected PROVE TypeInv'
  BY <1>0, <1>4, RaiseTypes DEF LoadRejected
<1>5. ASSUME LoadExisting PROVE TypeInv'
  <2>1. Active \in FileIds /\ UNCHANGED <<clock, call, op, files, dirs, faults>>
    BY <1>5, ViewFacts DEF LoadExisting
  <2>2. LoadedActive(Active, op.now) \in MemType
    <3>1. CASE Lines(Active) = <<>>
      BY <1>0, <3>1 DEF LoadedActive, FreshActive, MemType, OpType
    <3>2. CASE Lines(Active) # <<>>
      <4>1. NewestTimestamp(Active) \in Nat /\ SizeOf(Active) \in Nat
        BY <2>1, <3>2, NewestTimestampFacts, FileFacts
      <4>2. 1 \in 1..Len(Lines(Active))
        BY <2>1, <3>2, FileFacts
      <4>3. Lines(Active)[1].ev \in Events
        BY <2>1, <4>2, FileFacts DEF Line
      <4>4. call[Lines(Active)[1].ev].ts \in Nat
        BY <1>0, <4>3 DEF CallType
      <4> QED BY <3>2, <4>1, <4>4 DEF LoadedActive, MemType
    <3> QED BY <3>1, <3>2
  <2>3. mem' \in MemType
    BY <1>5, <2>2 DEF LoadExisting
  <2>4. TypeOK'
    BY <1>0, <1>d, <2>1, <2>3, TypePartsNext
  <2> QED BY <1>d, <2>1, <2>4 DEF HolderInv
<1>6. ASSUME DecideRotation PROVE TypeInv'
  <2>1. /\ op' = [op EXCEPT !.pc = IF ShouldRotate THEN "rotate" ELSE "append"]
        /\ UNCHANGED <<clock, call, mem, files, dirs, faults>> /\ op.pc = "prepare"
    BY <1>6 DEF DecideRotation, Goto
  <2>2. TypeOK'
    BY <1>0, <1>d, <2>1, TypePartsNext DEF OpType, PCs
  <2>3. call[op.ev].len \in 1..MaxLine
    BY <1>0, <2>1 DEF HolderInv, CallType
  <2>4. HolderInv'
    BY <1>0, <2>1, <2>3, SizeAssumption DEF HolderInv, OpType
  <2> QED BY <2>2, <2>4
<1>7. ASSUME Rename PROVE TypeInv'
  <2>1. DiskType' /\ op' = [op EXCEPT !.pc = "renamed"] /\ op.pc = "rotate"
    BY <1>7, RenameDisk DEF Rename, Goto
  <2>2. UNCHANGED <<clock, call, mem, faults>>
    BY <1>7 DEF Rename
  <2>3. TypeOK'
    BY <1>0, <2>1, <2>2, TypePartsNext DEF OpType, PCs
  <2> QED BY <1>0, <2>1, <2>2, <2>3 DEF OpType, HolderInv
<1>8. ASSUME RenameMissing PROVE TypeInv'
  BY <1>0, <1>8, RaiseTypes DEF RenameMissing
<1>9. ASSUME RenameSync PROVE TypeInv'
  <2>1. DiskType' /\ op' = [op EXCEPT !.pc = "create"] /\ op.pc = "renamed"
    BY <1>9, FsyncParentDisk DEF RenameSync, Goto
  <2>2. UNCHANGED <<clock, call, mem, faults>>
    BY <1>9 DEF RenameSync
  <2>3. TypeOK'
    BY <1>0, <2>1, <2>2, TypePartsNext DEF OpType, PCs
  <2> QED BY <1>0, <2>1, <2>2, <2>3 DEF OpType, HolderInv
<1>10. ASSUME CreateFile PROVE TypeInv'
  <2>1. /\ DiskType' /\ View' = [View EXCEPT !.active = Len(files) + 1]
        /\ Len(files) \in Nat
    BY <1>10, CreateFileDisk
  <2>2. /\ op' = [op EXCEPT !.pc = "createSync"] /\ op.pc = "create"
        /\ UNCHANGED <<clock, call, mem, faults>>
    BY <1>10 DEF CreateFile, Goto
  <2>3. Active' # NoFile
    BY <2>1, ViewFacts DEF Active, NoFile, DirView
  <2>4. TypeOK'
    BY <1>0, <2>1, <2>2, TypePartsNext DEF OpType, PCs
  <2> QED BY <1>0, <2>2, <2>3, <2>4 DEF OpType, HolderInv
<1>11. ASSUME CreateSync PROVE TypeInv'
  <2>1. /\ DiskType' /\ op' = [op EXCEPT !.pc = "append"] /\ op.pc = "createSync"
        /\ UNCHANGED <<clock, call, faults>> /\ mem' = FreshActive(op.now)
    BY <1>11, FsyncParentDisk DEF CreateSync, Goto
  <2>2. TypeOK'
    BY <1>0, <2>1, TypePartsNext DEF OpType, PCs, MemType, FreshActive
  <2>3. call[op.ev].len \in 1..MaxLine
    BY <1>0, <2>1 DEF HolderInv, CallType
  <2> QED BY <1>0, <2>1, <2>2, <2>3, SizeAssumption DEF HolderInv, OpType
<1>12. ASSUME AppendMissing PROVE TypeInv'
  BY <1>0, <1>12, RaiseTypes DEF AppendMissing
<1>13. ASSUME WriteSome PROVE TypeInv'
  <2>1. PICK n \in 1..(call[op.ev].len - op.sent) :
          /\ op.sent + n < call[op.ev].len
          /\ files' = WithBytes(Active, op.ev, n, FALSE)
          /\ op' = [op EXCEPT !.sent = op.sent + n]
    BY <1>13 DEF WriteSome
  <2>2. /\ UNCHANGED <<clock, call, mem, dirs, faults>>
        /\ op.pc = "append" /\ Active # NoFile
    BY <1>13 DEF WriteSome
  <2>3. n \in Nat \ {0} /\ op.sent + n \in Nat
    BY <1>0 DEF OpType
  <2>4. DiskType'
    BY <2>1, <2>2, <2>3, WriteFacts
  <2>5. TypeOK'
    BY <1>0, <2>1, <2>2, <2>3, <2>4, TypePartsNext DEF OpType
  <2> QED BY <1>0, <2>1, <2>2, <2>5 DEF OpType, HolderInv
<1>14. ASSUME WriteRest PROVE TypeInv'
  <2> DEFINE n == call[op.ev].len - op.sent
  <2>1. /\ files' = WithBytes(Active, op.ev, n, TRUE)
        /\ op' = [op EXCEPT !.sent = call[op.ev].len, !.pc = "appendSync"]
        /\ UNCHANGED <<clock, call, mem, dirs, faults>>
        /\ op.pc = "append" /\ Active # NoFile
    BY <1>14 DEF WriteRest
  <2>2. op.ev \in Events /\ op.sent \in Nat /\ op.sent < call[op.ev].len
    BY <1>0, <2>1 DEF HolderInv, OpType
  <2>3. call[op.ev].len \in Nat
    BY <1>0, <2>2, SizeAssumption DEF CallType
  <2>4. n \in Nat \ {0}
    BY <2>2, <2>3
  <2>5. DiskType' /\ Active' = Active
    <3> HIDE DEF n
    <3> QED BY <2>1, <2>4, WriteFacts
  <2>6. TypeOK'
    BY <1>0, <2>1, <2>3, <2>5, TypePartsNext DEF OpType, PCs
  <2> QED BY <1>0, <2>1, <2>2, <2>5, <2>6 DEF OpType, HolderInv
<1>15. ASSUME AppendSync PROVE TypeInv'
  <2>1. /\ DiskType' /\ op' = [op EXCEPT !.pc = "prune"] /\ op.pc = "appendSync"
        /\ UNCHANGED <<clock, call, faults>>
        /\ mem' = [mem EXCEPT !.size = mem.size + call[op.ev].len,
                              !.newest = Larger(mem.newest, op.now)]
    BY <1>15, AppendSyncDisk DEF AppendSync, Goto
  <2>2. call[op.ev].len \in Nat
    BY <1>0, <2>1, SizeAssumption DEF HolderInv, CallType
  <2>3. Larger(mem.newest, op.now) \in Nat
    BY <1>0 DEF Larger, MemType, OpType
  <2>4. mem' \in MemType
    <3> DEFINE size == mem.size + call[op.ev].len
               newest == Larger(mem.newest, op.now)
    <3>1. mem' = [mem EXCEPT !.size = size, !.newest = newest]
      BY <2>1
    <3>2. size \in Nat /\ newest \in Nat
      BY <1>0, <2>2, <2>3 DEF MemType
    <3> HIDE DEF size, newest
    <3> QED BY <1>0, <3>1, <3>2 DEF MemType
  <2>5. TypeOK'
    BY <1>0, <2>1, <2>4, TypePartsNext DEF OpType, PCs
  <2> QED BY <1>0, <2>1, <2>5 DEF OpType, HolderInv
<1>16. ASSUME PruneOne PROVE TypeInv'
  <2>1. /\ DiskType' /\ op' = [op EXCEPT !.deleted = TRUE] /\ op.pc = "prune"
        /\ UNCHANGED <<clock, call, mem, faults>>
    BY <1>16, PruneDisk DEF PruneOne
  <2>2. TypeOK'
    BY <1>0, <2>1, TypePartsNext DEF OpType
  <2> QED BY <1>0, <2>1, <2>2 DEF OpType, HolderInv
<1>17. ASSUME Finish PROVE TypeInv'
  <2>1. /\ op' = Idle /\ op' \in OpType /\ call' \in [Events -> CallType]
        /\ \A e \in Events : call'[e].ts = call[e].ts
    BY <1>17, ReleaseFacts DEF Finish
  <2>2. UNCHANGED <<clock, mem, files, faults>>
    BY <1>17 DEF Finish
  <2>3. DiskType'
    BY <1>d, <1>17, FsyncParentDisk DEF Finish
  <2>4. TypeOK'
    BY <1>0, <2>1, <2>2, <2>3, TypePartsNext
  <2> QED BY <1>0, <2>1, <2>2, <2>4 DEF HolderInv, Idle
<1>18. ASSUME SystemCallFails PROVE TypeInv'
  BY <1>0, <1>18, RaiseTypes DEF SystemCallFails, GoesWrong
<1>19. ASSUME LoseProcess, DiskType', faults' \in Nat PROVE TypeInv'
  BY <1>19, LoseProcessTypes
<1>20. ASSUME Crash PROVE TypeInv'
  BY <1>0, <1>d, <1>19, <1>20 DEF Crash, GoesWrong
<1>21. ASSUME PowerLoss PROVE TypeInv'
  <2>1. LoseProcess /\ faults' \in Nat
    BY <1>0, <1>21 DEF PowerLoss, GoesWrong
  <2>2. DiskType'
    BY <1>21, PowerLossDisk
  <2> QED BY <1>19, <2>1, <2>2
<1>22. ASSUME Tick PROVE TypeInv'
  <2>1. TypeOK'
    BY <1>0, <1>d, <1>22, TypePartsNext DEF Tick
  <2> QED BY <1>0, <1>d, <1>22, <2>1 DEF Tick, HolderInv, OpType, CallType
<1>23. ASSUME Rest PROVE TypeInv'
  <2>1. TypeOK'
    BY <1>0, <1>d, <1>23, TypePartsNext DEF Rest, vars
  <2> QED BY <1>d, <1>23, <2>1 DEF Rest, vars, HolderInv
<1> QED
  BY <1>1, <1>2, <1>3, <1>4, <1>5, <1>6, <1>7, <1>8, <1>9, <1>10, <1>11, <1>12,
     <1>13, <1>14, <1>15, <1>16, <1>17, <1>18, <1>20, <1>21, <1>22, <1>23
  DEF Next, HolderStep

\* So does a step in which nothing changes.
LEMMA TypeInvStutter ==
  ASSUME TypeInv, UNCHANGED vars
  PROVE  TypeInv'
<1>1. DiskType' /\ Active' = Active
  BY DiskUnchanged DEF vars, TypeInv
<1>2. TypeOK'
  BY <1>1, TypeParts, TypePartsNext DEF vars, TypeInv
<1> QED BY <1>1, <1>2 DEF vars, TypeInv, HolderInv

\* A new logger and an empty directory are well typed.
LEMMA TypeInvInit ==
  ASSUME Init
  PROVE  TypeInv
<1>1. /\ clock \in Nat /\ faults \in Nat /\ op \in OpType /\ mem \in MemType
  BY DEF Init, Idle, Unloaded, OpType, MemType, PCs
<1>2. call \in [Events -> CallType]
  BY SizeAssumption DEF Init, CallType
<1>3. DiskType
  <2> DEFINE v == [active |-> NoFile, segs |-> {}]
  <2>1. v \in DirView /\ Linked(v) = {}
    BY DEF DirView, NoFile, Linked
  <2>2. dirs = <<v>> /\ files = <<>>
    BY DEF Init
  <2>3. dirs \in Seq(DirView) /\ Len(dirs) = 1 /\ dirs[1] = v
    <3> HIDE DEF v
    <3> QED BY <2>1, <2>2
  <2>4. files \in Seq(FileType)
    BY <2>2, EmptySeq
  <2> HIDE DEF v
  <2> QED BY <2>1, <2>3, <2>4 DEF DiskType
<1>4. HolderInv
  BY DEF Init, Idle, HolderInv
<1> QED BY <1>1, <1>2, <1>3, <1>4, TypeParts DEF TypeInv

\* Every reachable state of the logger is well typed.
THEOREM TypeCorrect == Spec => []TypeOK
<1>1. Init => TypeInv
  BY TypeInvInit
<1>2. TypeInv /\ [Next]_vars => TypeInv'
  BY TypeInvStep, TypeInvStutter
<1>3. TypeInv => TypeOK
  BY DEF TypeInv
<1> QED BY <1>1, <1>2, <1>3, PTL DEF Spec

-----------------------------------------------------------------------------
(* The log keeps what it acknowledged, as long as no append fails halfway   *)
(* (what a loss of power adds is DurInv's).  None of AckedKept,             *)
(* OnlyTailMalformed and BoundedSegments is inductive.  An acknowledged     *)
(* event stays readable because the name of a closed segment is not older   *)
(* than any event in it (StampsCover), which is so because the remembered   *)
(* newest time covers the active file (NewestCovers); a line is whole       *)
(* because a loaded file is strict JSONL between two calls (Strict) and a   *)
(* write in progress follows whole lines (Writing); and segments stay       *)
(* bounded because the remembered size is never less than the real one      *)
(* (SizeCovers).                                                            *)

Tolerated ==
  /\ Faults \cap {"write", "appendSync"} = {}
  /\ "power" \in Faults => Faults \cap {"crash", "createSync"} = {}

InAppend == op.pc \in {"append", "appendSync"}

WholeLine(f, i) == Lines(f)[i].kind = "event"

WholeIn(f, e) ==
  \E i \in 1..Len(Lines(f)) : Lines(f)[i].ev = e /\ WholeLine(f, i)

Stored == op.pc \in {"appendSync", "prune"} =>
            Active # NoFile /\ WholeIn(Active, op.ev)

SegmentsClosed == \A s \in Segments : s.file # Active /\ StrictJsonl(s.file)

StampsCover ==
  \A s \in Segments : \A i \in 1..Len(Lines(s.file)) :
    call[Lines(s.file)[i].ev].ts <= s.stamp

NewestCovers ==
  mem.loaded /\ Active # NoFile =>
    \A i \in 1..Len(Lines(Active)) :
      \/ call[Lines(Active)[i].ev].ts <= mem.newest
      \/ op.pc \in {"append", "appendSync"} /\ Lines(Active)[i].ev = op.ev

Strict ==
  mem.loaded /\ Active # NoFile /\ (op.sent = 0 \/ op.pc # "append") =>
    StrictJsonl(Active)

Writing ==
  Active # NoFile =>
    /\ \A i \in 1..(Len(Lines(Active)) - 1) : WholeLine(Active, i)
    /\ op.pc = "append" /\ op.sent > 0 =>
         Unterminated(Active) /\ LastLine(Active).kind = "partial"

SizeCovers ==
  /\ op.pc = "append" => mem.size + call[op.ev].len <= SegmentMax
  /\ op.pc = "appendSync" => op.sent = call[op.ev].len
  /\ mem.loaded /\ Active # NoFile =>
       SizeOf(Active) <= mem.size + (IF op.pc \in {"append", "appendSync"} THEN op.sent ELSE 0)

HolderKnows ==
  /\ op.pc # "idle" => call[op.ev].ts <= op.now
  /\ op.pc \in {"rotate", "renamed", "append", "appendSync", "prune"} => mem.loaded
  /\ op.pc = "renamed" => Active = NoFile
  /\ op.pc = "createSync" => Lines(Active) = <<>>

Submitted ==
  \A f \in FileIds : \A i \in 1..Len(Lines(f)) : call[Lines(f)[i].ev].st # "new"

\* About what is stored, whoever holds the lock; and about the lock's holder.
DiskInv == AckedKept /\ SegmentsClosed /\ StampsCover /\ Submitted /\ BoundedSegments
HolderLog == Stored /\ NewestCovers /\ Strict /\ Writing /\ SizeCovers /\ HolderKnows

LogInv == DiskInv /\ HolderLog

\* AckedKept in terms of the files that hold an event whole.
LEMMA AckedKeptIs ==
  AckedKept <=> \A e \in Events :
                  call[e].st = "acked" /\ call[e].ts + Retention >= clock =>
                    \E f \in Linked(View) : WholeIn(f, e)
BY DEF AckedKept, Readable, WholeIn, WholeLine

\* The same of the next state.
LEMMA AckedKeptIsNext ==
  ASSUME \A e \in Events :
           call'[e].st = "acked" /\ call'[e].ts + Retention >= clock' =>
             \E f \in Linked(View)' : WholeIn(f, e)'
  PROVE  AckedKept'
BY DEF AckedKept, Readable, WholeIn, WholeLine

\* The linked files are the active one and the segments'.
LEMMA LinkedFacts ==
  ASSUME TypeInv
  PROVE  /\ \A s \in Segments : s.file \in Linked(View) /\ s.file \in FileIds
         /\ Active # NoFile => Active \in Linked(View)
         /\ \A f \in Linked(View) : f = Active \/ \E s \in Segments : f = s.file
         /\ \A f \in Linked(View) : f \in FileIds
BY ViewFacts DEF TypeInv, Linked, Segments, Active

\* A step that leaves files and directory alone, or only syncs them.
LEMMA QuietDisk ==
  ASSUME TypeInv, LogInv, files' = files, View' = View,
         clock \in Nat, clock' \in Nat, clock <= clock', 
         \A e \in Events : call[e].st # "new" =>
                             call'[e].st # "new" /\ call'[e].ts = call[e].ts,
         \A e \in Events : call'[e].st = "acked" =>
                             call[e].st = "acked" \/ (op.pc = "prune" /\ e = op.ev)
  PROVE  DiskInv'
<1>1. /\ Active' = Active /\ Segments' = Segments /\ Linked(View)' = Linked(View)
      /\ FileIds' = FileIds
  BY DEF Active, Segments, Linked, FileIds
<1>2. \A f : Lines(f)' = Lines(f)
  BY DEF Lines
<1>3. \A f \in FileIds : \A i \in 1..Len(Lines(f)) : Lines(f)[i].ev \in Events
  BY FileFacts DEF TypeInv, Line
<1>4. \A e \in Events : call[e].ts \in Nat
  BY TypeParts DEF TypeInv, CallType
<1>5. AckedKept'
  <2> SUFFICES ASSUME NEW e \in Events, call'[e].st = "acked",
                      call'[e].ts + Retention >= clock'
               PROVE  \E f \in Linked(View)' : WholeIn(f, e)'
    BY AckedKeptIsNext
  <2>1. \A f : WholeIn(f, e)' <=> WholeIn(f, e)
    BY <1>2 DEF WholeIn, WholeLine
  <2>2. CASE call[e].st = "acked"
    <3>1. call[e].ts + Retention >= clock
      BY <1>4, <2>2, TimeAssumption
    <3> QED BY <1>1, <2>1, <2>2, <3>1, AckedKeptIs DEF LogInv, DiskInv
  <2>3. CASE op.pc = "prune" /\ e = op.ev
    <3>1. Active # NoFile /\ WholeIn(Active, e)
      BY <2>3 DEF LogInv, HolderLog, Stored
    <3> QED BY <1>1, <2>1, <3>1, LinkedFacts
  <2> QED BY <2>2, <2>3
<1>6. SegmentsClosed'
  BY <1>1, <1>2 DEF LogInv, DiskInv, SegmentsClosed, StrictJsonl
<1>7. Submitted'
  BY <1>1, <1>2, <1>3 DEF LogInv, DiskInv, Submitted
<1>8. StampsCover'
  <2> SUFFICES ASSUME NEW s \in Segments, NEW i \in 1..Len(Lines(s.file))
               PROVE  call'[Lines(s.file)[i].ev].ts <= s.stamp
    BY <1>1, <1>2 DEF StampsCover
  <2>1. s.file \in FileIds
    BY LinkedFacts
  <2>2. Lines(s.file)[i].ev \in Events /\ call[Lines(s.file)[i].ev].st # "new"
    BY <1>3, <2>1 DEF LogInv, DiskInv, Submitted
  <2>3. call[Lines(s.file)[i].ev].ts <= s.stamp
    BY DEF LogInv, DiskInv, StampsCover
  <2> QED BY <2>2, <2>3
<1>9. BoundedSegments'
  BY <1>1, <1>2 DEF LogInv, DiskInv, BoundedSegments, SizeOf, LastLine
<1> QED BY <1>5, <1>6, <1>7, <1>8, <1>9 DEF DiskInv

\* A step after which nobody holds the lock, from one at which no append is
\* under way.
LEMMA IdleHolder ==
  ASSUME TypeInv, LogInv, files' = files, View' = View,
         mem' = mem \/ mem' = Unloaded,
         op' = Idle,
         mem'.loaded /\ Active # NoFile => op.pc \notin {"append", "appendSync"},
         \A e \in Events : call[e].st # "new" => call'[e].ts = call[e].ts
  PROVE  HolderLog'
<1> USE DEF LogInv, HolderLog
<1>1. Active' = Active /\ op'.pc = "idle" /\ op'.sent = 0
  BY DEF Active, Idle
<1>2. \A f : Lines(f)' = Lines(f)
  BY DEF Lines
<1>3. Stored' /\ HolderKnows'
  BY <1>1 DEF Stored, HolderKnows
<1>4. mem'.loaded => mem' = mem
  BY DEF Unloaded
<1>5. NewestCovers'
  <2> SUFFICES ASSUME mem'.loaded, Active # NoFile, NEW i \in 1..Len(Lines(Active))
               PROVE  call'[Lines(Active)[i].ev].ts <= mem.newest
    BY <1>1, <1>2, <1>4 DEF NewestCovers
  <2>1. call[Lines(Active)[i].ev].ts <= mem.newest
    BY <1>4 DEF NewestCovers
  <2>2. Active \in FileIds
    BY ViewFacts DEF TypeInv
  <2>3. Lines(Active)[i].ev \in Events /\ call[Lines(Active)[i].ev].st # "new"
    BY <2>2, FileFacts DEF TypeInv, Line, DiskInv, Submitted
  <2> QED BY <2>1, <2>3
<1>6. Strict'
  BY <1>1, <1>2, <1>4 DEF Strict, StrictJsonl
<1>7. Writing'
  BY <1>1, <1>2 DEF Writing, WholeLine
<1>8. SizeCovers'
  BY <1>1, <1>2, <1>4 DEF SizeCovers, SizeOf, LastLine
<1> QED BY <1>3, <1>5, <1>6, <1>7, <1>8

\* A step of the holder that only moves on, before it appends.
LEMMA GotoHolder ==
  ASSUME TypeInv, LogInv, UNCHANGED <<files, mem, call>>, View' = View,
         NEW pc, op' = [op EXCEPT !.pc = pc],
         op.pc \notin {"idle", "append", "appendSync", "prune"},
         pc \in {"create", "rotate", "append"},
         pc # "create" => mem.loaded,
         pc = "append" => mem.size + call[op.ev].len <= SegmentMax
  PROVE  HolderLog'
<1> USE DEF LogInv, HolderLog
<1>1. Active' = Active /\ op \in OpType
  BY TypeParts DEF Active, TypeInv
<1>2. op'.pc = pc /\ op'.ev = op.ev /\ op'.now = op.now /\ op'.sent = 0 /\ op.sent = 0
  BY <1>1 DEF OpType, TypeInv, HolderInv
<1>3. \A f : Lines(f)' = Lines(f)
  BY DEF Lines
<1>4. Stored' /\ HolderKnows'
  BY <1>1, <1>2 DEF Stored, HolderKnows
<1>5. NewestCovers'
  BY <1>1, <1>2, <1>3 DEF NewestCovers
<1>6. Strict'
  BY <1>1, <1>2, <1>3 DEF Strict, StrictJsonl
<1>7. Writing'
  BY <1>1, <1>2, <1>3 DEF Writing, WholeLine
<1>8. SizeCovers'
  BY <1>1, <1>2, <1>3 DEF SizeCovers, SizeOf, LastLine
<1> QED BY <1>4, <1>5, <1>6, <1>7, <1>8

\* What record() leaves when it raises, anywhere but in the middle of an append.
LEMMA RaiseKeeps ==
  ASSUME TypeInv, LogInv, op.pc # "idle", Raise,
         Active # NoFile => op.pc \notin {"append", "appendSync"}
  PROVE  LogInv'
<1>1. /\ op' = Idle
      /\ \A e \in Events : /\ call'[e].ts = call[e].ts
                           /\ call'[e].st = IF e = op.ev THEN "failed" ELSE call[e].st
  BY ReleaseFacts DEF Raise
<1>2. UNCHANGED <<clock, mem, files, dirs>> /\ View' = View /\ clock \in Nat
  BY DEF Raise, View, TypeInv, TypeOK
<1>3. DiskInv'
  BY <1>1, <1>2, QuietDisk
<1>4. HolderLog'
  BY <1>1, <1>2, IdleHolder
<1> QED BY <1>3, <1>4 DEF LogInv

\* Time passes, events are submitted, the lock is taken: the log is as it was.
LEMMA OutsideKeeps ==
  ASSUME TypeInv, LogInv, UNCHANGED <<files, dirs, mem>>,
         clock' \in Nat, clock <= clock',
         \A e \in Events : call[e].st # "new" =>
                            /\ call'[e].st # "new" /\ call'[e].ts = call[e].ts
                            /\ call'[e].len = call[e].len,
         \A e \in Events : call'[e].st = "acked" => call[e].st = "acked",
         \/ op' = op
         \/ /\ op.pc = "idle" /\ op'.pc = "prepare" /\ op'.sent = 0
            /\ call'[op'.ev].ts <= op'.now
  PROVE  LogInv'
<1> USE DEF LogInv, HolderLog
<1>1. View' = View /\ Active' = Active
  BY DEF View, Active
<1>2. DiskInv'
  BY <1>1, QuietDisk DEF TypeInv, TypeOK
<1>3. \A f : Lines(f)' = Lines(f)
  BY DEF Lines
<1>4. op.pc # "idle" => /\ op.ev \in Events /\ op' = op /\ call[op.ev].st # "new"
                        /\ call'[op.ev].ts = call[op.ev].ts
                        /\ call'[op.ev].len = call[op.ev].len
  BY DEF TypeInv, HolderInv
<1>5. op.pc = "idle" => op.sent = 0 /\ op'.sent = 0 /\ op'.pc \in {"idle", "prepare"}
  BY DEF TypeInv, HolderInv
<1>6. Stored'
  BY <1>1, <1>3, <1>4, <1>5 DEF Stored, WholeIn, WholeLine
<1>7. HolderKnows'
  BY <1>1, <1>3, <1>4, <1>5 DEF HolderKnows
<1>8. NewestCovers'
  <2> SUFFICES ASSUME mem.loaded, Active # NoFile, NEW i \in 1..Len(Lines(Active))
               PROVE  \/ call'[Lines(Active)[i].ev].ts <= mem.newest
                      \/ op'.pc \in {"append", "appendSync"} /\ Lines(Active)[i].ev = op'.ev
    BY <1>1, <1>3 DEF NewestCovers
  <2>1. Active \in FileIds
    BY ViewFacts DEF TypeInv
  <2>2. Lines(Active)[i].ev \in Events /\ call[Lines(Active)[i].ev].st # "new"
    BY <2>1, FileFacts DEF TypeInv, Line, DiskInv, Submitted
  <2>3. \/ call[Lines(Active)[i].ev].ts <= mem.newest
        \/ op.pc \in {"append", "appendSync"} /\ Lines(Active)[i].ev = op.ev
    BY DEF NewestCovers
  <2> QED BY <1>4, <2>2, <2>3
<1>9. Strict'
  BY <1>1, <1>3, <1>4, <1>5 DEF Strict, StrictJsonl
<1>10. Writing'
  BY <1>1, <1>3, <1>4, <1>5 DEF Writing, WholeLine, Unterminated, LastLine
<1>11. SizeCovers'
  BY <1>1, <1>3, <1>4, <1>5 DEF SizeCovers, SizeOf, LastLine
<1> QED BY <1>2, <1>6, <1>7, <1>8, <1>9, <1>10, <1>11

\* _load_or_create_active of an existing file keeps the log's invariant: what is
\* remembered is what the file holds.
LEMMA LoadKeeps ==
  ASSUME TypeInv, LogInv, LoadExisting
  PROVE  LogInv'
<1> USE DEF LogInv, HolderLog
<1>1. /\ UNCHANGED <<clock, call, op, files, dirs>> /\ op.pc = "prepare" /\ op.sent = 0
      /\ Active # NoFile /\ StrictJsonl(Active) /\ mem' = LoadedActive(Active, op.now)
  BY DEF LoadExisting, TypeInv, HolderInv
<1>2. View' = View /\ Active' = Active /\ clock \in Nat
  BY <1>1 DEF View, Active, TypeInv, TypeOK
<1>3. \A f : Lines(f)' = Lines(f)
  BY <1>1 DEF Lines
<1>4. DiskInv'
  BY <1>1, <1>2, QuietDisk
<1>5. Active \in FileIds
  BY <1>1, ViewFacts DEF TypeInv
<1>6. Stored' /\ HolderKnows' /\ Strict' /\ Writing'
  BY <1>1, <1>2, <1>3 DEF Stored, HolderKnows, Strict, StrictJsonl, Writing, WholeLine
<1>7. NewestCovers'
  <2>1. CASE Lines(Active) = <<>>
    BY <1>2, <1>3, <2>1 DEF NewestCovers
  <2>2. CASE Lines(Active) # <<>>
    <3>1. mem'.newest = NewestTimestamp(Active)
      BY <1>1, <2>2 DEF LoadedActive
    <3>2. \A i \in 1..Len(Lines(Active)) : call[Lines(Active)[i].ev].ts <= mem'.newest
      BY <1>5, <2>2, <3>1, NewestTimestampFacts
    <3> QED BY <1>1, <1>2, <1>3, <3>2 DEF NewestCovers
  <2> QED BY <2>1, <2>2
<1>8. SizeCovers'
  <2>1. mem'.size = SizeOf(Active)
    BY <1>1 DEF LoadedActive, FreshActive, SizeOf
  <2>2. SizeOf(Active)' = SizeOf(Active) /\ SizeOf(Active) \in Nat
    BY <1>2, <1>3, <1>5, FileFacts DEF SizeOf, LastLine, TypeInv
  <2> QED BY <1>1, <1>2, <2>1, <2>2 DEF SizeCovers
<1> QED BY <1>4, <1>6, <1>7, <1>8

\* A rename keeps it: the segment's stamp covers every time in the file.
LEMMA RenameKeeps ==
  ASSUME TypeInv, LogInv, Rename
  PROVE  LogInv'
<1> USE DEF LogInv, HolderLog
<1> DEFINE seg == [file |-> Active, stamp |-> mem.newest]
<1>1. /\ UNCHANGED <<clock, call, mem, files>> /\ op.pc = "rotate" /\ Active # NoFile
      /\ op' = [op EXCEPT !.pc = "renamed"] /\ op \in OpType
  BY TypeParts DEF Rename, Goto, TypeInv
<1>2. View' = [active |-> NoFile, segs |-> Segments \cup {seg}]
  BY RenameDisk DEF SegmentStamp
<1>3. Active' = NoFile /\ Segments' = Segments \cup {seg}
  BY <1>2 DEF Active, Segments
<1>4. Linked(View)' = Linked(View)
  <2>1. /\ View'.active = NoFile /\ View'.segs = Segments \cup {seg}
        /\ seg.file = Active
    BY <1>2
  <2>2. Linked(View) = {Active} \cup {s.file : s \in Segments}
    BY <1>1 DEF Linked, Active, Segments
  <2>3. Linked(View)' = {s.file : s \in Segments \cup {seg}}
    BY <2>1 DEF Linked
  <2> HIDE DEF seg
  <2> QED BY <2>1, <2>2, <2>3
<1>5. /\ op'.pc = "renamed" /\ op'.ev = op.ev /\ op'.now = op.now /\ op'.sent = 0
      /\ op.sent = 0 /\ mem.loaded
  BY <1>1 DEF OpType, TypeInv, HolderInv, HolderKnows
<1>6. \A f : Lines(f)' = Lines(f)
  BY <1>1 DEF Lines
<1>7. AckedKept'
  BY <1>1, <1>4, <1>6 DEF DiskInv, AckedKept, Readable
<1>8. SegmentsClosed'
  <2>1. StrictJsonl(Active)
    BY <1>1, <1>5 DEF Strict
  <2>2. \A s \in Segments : s.file # NoFile /\ StrictJsonl(s.file)
    BY LinkedFacts DEF DiskInv, SegmentsClosed, FileIds, NoFile
  <2> QED BY <1>1, <1>3, <1>6, <2>1, <2>2 DEF SegmentsClosed, StrictJsonl
<1>9. StampsCover'
  <2>1. \A i \in 1..Len(Lines(Active)) : call[Lines(Active)[i].ev].ts <= mem.newest
    BY <1>1, <1>5 DEF NewestCovers
  <2> QED BY <1>1, <1>3, <1>6, <2>1 DEF DiskInv, StampsCover
<1>10. Submitted' /\ BoundedSegments'
  BY <1>1, <1>4, <1>6 DEF DiskInv, Submitted, BoundedSegments, SizeOf, LastLine, FileIds
<1>11. HolderLog'
  BY <1>1, <1>3, <1>5 DEF Stored, NewestCovers, Strict, Writing, SizeCovers, HolderKnows
<1> QED BY <1>7, <1>8, <1>9, <1>10, <1>11 DEF DiskInv

\* The creation of an active file keeps it: the file is empty and new.
LEMMA CreateFileKeeps ==
  ASSUME TypeInv, LogInv, CreateFile
  PROVE  LogInv'
<1> USE DEF LogInv, HolderLog
<1>0. PICK new : new = Len(files) + 1
  OBVIOUS
<1>1. /\ UNCHANGED <<clock, call, mem>> /\ op.pc = "create" /\ Active = NoFile
      /\ op' = [op EXCEPT !.pc = "createSync"] /\ op \in OpType
  BY TypeParts DEF CreateFile, Goto, TypeInv
<1>2. /\ View' = [View EXCEPT !.active = new] /\ Len(files) \in Nat
      /\ Len(files') = Len(files) + 1
      /\ \A f \in FileIds : files'[f] = files[f]
      /\ files'[new] = [lines |-> <<>>, safe |-> 0]
  BY <1>0, CreateFileDisk
<1>3. View \in DirView /\ Linked(View) \subseteq FileIds
  BY ViewFacts DEF TypeInv
<1>4. Active' = new /\ Segments' = Segments
  BY <1>2, <1>3 DEF Active, Segments, DirView
<1>5. Linked(View)' = Linked(View) \cup {new}
  <2>1. View'.active = new /\ View'.segs = Segments /\ new # NoFile
    BY <1>0, <1>2, <1>3 DEF Segments, DirView, NoFile
  <2>2. Linked(View) = {s.file : s \in Segments}
    BY <1>1 DEF Linked, Active, Segments
  <2>3. Linked(View)' = {new} \cup {s.file : s \in Segments}
    BY <2>1 DEF Linked
  <2> QED BY <2>2, <2>3
<1>6. /\ op'.pc = "createSync" /\ op'.ev = op.ev /\ op'.now = op.now /\ op'.sent = 0
  BY <1>1 DEF OpType, TypeInv, HolderInv
<1>7. /\ \A f \in FileIds : Lines(f)' = Lines(f)
      /\ Lines(new)' = <<>>
      /\ FileIds' = FileIds \cup {new} /\ new \notin FileIds /\ new # NoFile
  BY <1>0, <1>2 DEF Lines, FileIds, NoFile
<1>8. AckedKept'
  <2> SUFFICES ASSUME NEW e \in Events, call[e].st = "acked",
                      call[e].ts + Retention >= clock
               PROVE  \E f \in Linked(View)' : WholeIn(f, e)'
    BY <1>1, AckedKeptIsNext
  <2>1. PICK f \in Linked(View) : WholeIn(f, e)
    BY AckedKeptIs DEF DiskInv
  <2>2. Lines(f)' = Lines(f)
    BY <1>3, <1>7
  <2> QED BY <1>5, <2>1, <2>2 DEF WholeIn, WholeLine
<1>9. SegmentsClosed'
  BY <1>4, <1>7, LinkedFacts DEF DiskInv, SegmentsClosed, StrictJsonl
<1>10. StampsCover'
  BY <1>1, <1>4, <1>7, LinkedFacts DEF DiskInv, StampsCover
<1>11. Submitted'
  BY <1>1, <1>7 DEF DiskInv, Submitted
<1>12. BoundedSegments'
  <2>1. SizeOf(new)' = 0
    BY <1>7 DEF SizeOf
  <2>2. \A f \in Linked(View) : SizeOf(f)' = SizeOf(f)
    BY <1>3, <1>7 DEF SizeOf, LastLine
  <2> QED BY <1>5, <2>1, <2>2, SizeAssumption DEF DiskInv, BoundedSegments
<1>13. HolderLog'
  <2>1. Stored' /\ HolderKnows' /\ NewestCovers' /\ Strict' /\ Writing'
    BY <1>1, <1>4, <1>6, <1>7
    DEF Stored, HolderKnows, NewestCovers, Strict, StrictJsonl, Writing
  <2>2. SizeCovers'
    BY <1>1, <1>4, <1>6, <1>7 DEF SizeCovers, SizeOf, TypeInv, TypeOK
  <2> QED BY <2>1, <2>2
<1> QED BY <1>8, <1>9, <1>10, <1>11, <1>12, <1>13 DEF DiskInv

\* The fresh memory of a fresh file keeps it.
LEMMA CreateSyncKeeps ==
  ASSUME TypeInv, LogInv, CreateSync
  PROVE  LogInv'
<1> USE DEF LogInv, HolderLog
<1>1. /\ UNCHANGED <<clock, call, files>> /\ op.pc = "createSync" /\ FsyncParent
      /\ op' = [op EXCEPT !.pc = "append"] /\ op \in OpType
      /\ mem' = FreshActive(op.now) /\ clock \in Nat
  BY TypeParts DEF CreateSync, Goto, TypeInv
<1>2. View' = View /\ Active' = Active
  BY <1>1, FsyncParentDisk
<1>3. /\ op'.pc = "append" /\ op'.ev = op.ev /\ op'.now = op.now /\ op'.sent = 0
      /\ Lines(Active) = <<>> /\ op.ev \in Events
  BY <1>1 DEF OpType, TypeInv, HolderInv, HolderKnows
<1>4. \A f : Lines(f)' = Lines(f)
  BY <1>1 DEF Lines
<1>5. DiskInv'
  BY <1>1, <1>2, QuietDisk
<1>6. mem'.loaded /\ mem'.size = 0
  BY <1>1 DEF FreshActive
<1>7. Stored' /\ HolderKnows' /\ NewestCovers' /\ Strict' /\ Writing'
  BY <1>1, <1>2, <1>3, <1>4, <1>6
  DEF Stored, HolderKnows, NewestCovers, Strict, StrictJsonl, Writing
<1>8. call[op.ev].len \in 1..MaxLine
  BY <1>3, TypeParts DEF TypeInv, CallType
<1>9. SizeCovers'
  <2>1. SizeOf(Active)' = 0
    BY <1>2, <1>3, <1>4 DEF SizeOf
  <2> QED BY <1>1, <1>2, <1>3, <1>6, <1>8, <2>1, SizeAssumption DEF SizeCovers
<1> QED BY <1>5, <1>7, <1>9

\* What a write finds in the active file and what it makes of it.
LEMMA WriteKeeps ==
  ASSUME TypeInv, LogInv, op.pc = "append", Active # NoFile,
         NEW n \in Nat \ {0}, NEW last \in BOOLEAN,
         op.sent + n <= call[op.ev].len,
         files' = WithBytes(Active, op.ev, n, last),
         UNCHANGED <<clock, call, mem, dirs>>
  PROVE  /\ DiskInv'
         /\ Active' = Active
         /\ SizeOf(Active)' <= mem.size + op.sent + n
         /\ Len(Lines(Active)') \in Nat \ {0}
         /\ \A i \in 1..(Len(Lines(Active)') - 1) : WholeLine(Active, i)'
         /\ LastLine(Active)'.ev = op.ev
         /\ LastLine(Active)'.kind = IF last THEN "event" ELSE "partial"
         /\ \A i \in 1..(Len(Lines(Active)') - 1) : Lines(Active)'[i] = Lines(Active)[i]
         /\ Len(Lines(Active)') - 1 <= Len(Lines(Active))
<1> USE DEF LogInv, HolderLog
<1>0. PICK a : a = Active
  OBVIOUS
<1>1. /\ View' = View /\ Active' = a /\ Segments' = Segments /\ Linked(View)' = Linked(View)
      /\ a \in FileIds /\ op.ev \in Events /\ clock \in Nat
  BY <1>0, WriteFacts DEF View, Linked, TypeInv, TypeOK
<1>2. PICK kept : kept = Len(files'[a].lines) - 1
  OBVIOUS
<1>3. /\ Len(files') = Len(files)
      /\ \A g \in FileIds \ {a} : files'[g] = files[g]
      /\ files'[a].lines \in Seq(Line)
      /\ kept = IF Unterminated(a) THEN Len(Lines(a)) - 1 ELSE Len(Lines(a))
      /\ kept \in Nat
      /\ \A i \in 1..kept : files'[a].lines[i] = Lines(a)[i]
      /\ files'[a].lines[kept + 1].ev = op.ev
      /\ files'[a].lines[kept + 1].kind =
           LET own == ~Unterminated(a) \/ (op.sent > 0 /\ LastLine(a).kind = "partial")
           IN  IF last THEN (IF own THEN "event" ELSE "bad")
               ELSE (IF own THEN "partial" ELSE "torn")
      /\ files'[a].lines[kept + 1].end = SizeOf(a) + n
  BY SMTT(60), <1>0, <1>1, <1>2, WithBytesFacts DEF TypeInv
<1>4. /\ mem.loaded /\ Len(Lines(a)) \in Nat /\ op.sent \in Nat /\ SizeOf(a) \in Nat
      /\ Lines(a) # <<>> => Len(Lines(a)) \in 1..Len(Lines(a))
  BY <1>1, FileFacts, TypeParts DEF HolderKnows, TypeInv, OpType
<1>5. /\ \A i \in 1..kept : WholeLine(a, i)
      /\ ~Unterminated(a) \/ (op.sent > 0 /\ LastLine(a).kind = "partial")
  <2>1. CASE op.sent = 0
    <3>1. \A i \in 1..Len(Lines(a)) : WholeLine(a, i)
      BY <1>0, <1>4, <2>1 DEF Strict, StrictJsonl, WholeLine
    <3>2. ~Unterminated(a)
      BY <1>4, <3>1 DEF Unterminated, LastLine, WholeLine
    <3> QED BY <1>3, <3>1, <3>2
  <2>2. CASE op.sent > 0
    <3>1. /\ \A i \in 1..(Len(Lines(a)) - 1) : WholeLine(a, i)
          /\ Unterminated(a) /\ LastLine(a).kind = "partial"
      BY <1>0, <2>2 DEF Writing
    <3> QED BY <1>3, <2>2, <3>1
  <2> QED BY <1>4, <2>1, <2>2
<1>6. /\ Len(Lines(a)') = kept + 1
      /\ \A i \in 1..kept : Lines(a)'[i] = Lines(a)[i]
      /\ LastLine(a)' = files'[a].lines[kept + 1]
      /\ LastLine(a)'.ev = op.ev
      /\ LastLine(a)'.kind = IF last THEN "event" ELSE "partial"
      /\ SizeOf(a)' = SizeOf(a) + n
      /\ kept <= Len(Lines(a))
  <2>1. Lines(a)' = files'[a].lines
    BY DEF Lines
  <2>2. Len(Lines(a)') = kept + 1
    BY <1>2, <1>3, <2>1, LenProperties
  <2>3. LastLine(a)' = files'[a].lines[kept + 1]
    BY <2>1, <2>2 DEF LastLine
  <2>4. Lines(a)' # <<>>
    BY <1>3, <2>2
  <2> QED BY <1>3, <1>4, <1>5, <2>1, <2>2, <2>3, <2>4 DEF SizeOf
<1>7. /\ \A g \in FileIds \ {a} : Lines(g)' = Lines(g)
      /\ FileIds' = FileIds
  BY <1>3 DEF Lines, FileIds
<1>8. \A g \in Linked(View) : g \in FileIds
  BY LinkedFacts
<1>9. \A i \in 1..kept : WholeLine(a, i)'
  BY <1>5, <1>6 DEF WholeLine
<1>10. AckedKept'
  <2> SUFFICES ASSUME NEW e \in Events, call[e].st = "acked",
                      call[e].ts + Retention >= clock
               PROVE  \E f \in Linked(View)' : WholeIn(f, e)'
    BY AckedKeptIsNext
  <2>1. PICK f \in Linked(View) : WholeIn(f, e)
    BY AckedKeptIs DEF DiskInv
  <2>2. PICK i \in 1..Len(Lines(f)) : Lines(f)[i].ev = e /\ WholeLine(f, i)
    BY <2>1 DEF WholeIn
  <2>3. CASE f # a
    BY <1>1, <1>7, <1>8, <2>1, <2>3 DEF WholeIn, WholeLine
  <2>4. CASE f = a
    <3>1. i \in 1..kept
      <4>1. CASE Unterminated(a)
        <5>1. i # Len(Lines(a))
          BY <2>2, <2>4, <4>1 DEF Unterminated, LastLine, WholeLine
        <5> QED BY <1>3, <1>4, <2>4, <4>1, <5>1
      <4>2. CASE ~Unterminated(a)
        BY <1>3, <2>4, <4>2
      <4> QED BY <4>1, <4>2
    <3>2. i \in 1..Len(Lines(a)') /\ Lines(a)'[i] = Lines(a)[i]
      BY <1>3, <1>6, <3>1
    <3>3. WholeIn(a, e)'
      BY <2>2, <2>4, <3>2 DEF WholeIn, WholeLine
    <3> QED BY <1>1, <2>1, <2>4, <3>3
  <2> QED BY <2>3, <2>4
<1>11. \A s \in Segments : s.file \in FileIds \ {a}
  BY <1>0, LinkedFacts DEF DiskInv, SegmentsClosed
<1>12. SegmentsClosed'
  BY <1>0, <1>1, <1>7, <1>11 DEF DiskInv, SegmentsClosed, StrictJsonl
<1>13. StampsCover'
  BY <1>1, <1>7, <1>11 DEF DiskInv, StampsCover
<1>14. Submitted'
  <2>1. call[op.ev].st # "new"
    BY DEF TypeInv, HolderInv
  <2>2. ASSUME NEW i \in 1..Len(Lines(a)') PROVE call[Lines(a)'[i].ev].st # "new"
    <3>1. CASE i \in 1..kept
      <4>1. i \in 1..Len(Lines(a)) /\ Lines(a)'[i] = Lines(a)[i]
        BY <1>3, <1>4, <1>6, <3>1
      <4> QED BY <1>1, <4>1 DEF DiskInv, Submitted
    <3>2. CASE i = kept + 1
      BY <1>3, <1>6, <2>1, <3>2 DEF LastLine
    <3> QED BY <1>3, <1>6, <3>1, <3>2
  <2>3. ASSUME NEW g \in FileIds \ {a}, NEW i \in 1..Len(Lines(g)')
        PROVE  call[Lines(g)'[i].ev].st # "new"
    BY <1>7 DEF DiskInv, Submitted
  <2> QED BY <1>1, <1>7, <2>2, <2>3 DEF Submitted
<1>15. SizeOf(a)' <= mem.size + op.sent + n /\ SizeOf(a)' <= SegmentMax
  <2>1. SizeOf(a) <= mem.size + op.sent
    BY <1>0, <1>4 DEF SizeCovers
  <2>2. mem.size + call[op.ev].len <= SegmentMax
    BY DEF SizeCovers
  <2>3. mem.size \in Nat /\ call[op.ev].len \in Nat
    BY <1>1, TypeParts, SizeAssumption DEF TypeInv, MemType, CallType
  <2> QED BY SMTT(30), <1>4, <1>6, <2>1, <2>2, <2>3, SizeAssumption
<1>16. BoundedSegments'
  <2>1. \A g \in Linked(View) \ {a} : SizeOf(g)' = SizeOf(g)
    BY <1>7, <1>8 DEF SizeOf, LastLine
  <2> QED BY <1>1, <1>15, <2>1 DEF DiskInv, BoundedSegments
<1>17. DiskInv'
  BY <1>10, <1>12, <1>13, <1>14, <1>16 DEF DiskInv
<1>18. \A x : (x = a) => /\ Lines(Active)' = Lines(a)' /\ SizeOf(Active)' = SizeOf(a)'
                         /\ LastLine(Active)' = LastLine(a)'
  BY <1>1 DEF Lines, SizeOf, LastLine
<1> QED
  BY <1>0, <1>1, <1>3, <1>6, <1>9, <1>15, <1>17, <1>18 DEF WholeLine

\* After a write, only the event being written may be newer than the remembered
\* newest time.
LEMMA WriteNewest ==
  ASSUME TypeInv, LogInv, op.pc = "append", Active # NoFile, UNCHANGED <<call, mem>>,
         op'.pc \in {"append", "appendSync"}, op'.ev = op.ev,
         Active' = Active,
         Len(Lines(Active)') \in Nat \ {0},
         LastLine(Active)'.ev = op.ev,
         \A i \in 1..(Len(Lines(Active)') - 1) : Lines(Active)'[i] = Lines(Active)[i],
         Len(Lines(Active)') - 1 <= Len(Lines(Active))
  PROVE  NewestCovers'
<1> SUFFICES ASSUME mem.loaded, NEW i \in 1..Len(Lines(Active)')
             PROVE  \/ call[Lines(Active)'[i].ev].ts <= mem.newest
                    \/ Lines(Active)'[i].ev = op.ev
  BY DEF NewestCovers
<1>1. CASE i = Len(Lines(Active)')
  BY <1>1 DEF LastLine
<1>2. CASE i # Len(Lines(Active)')
  <2>1. Active \in FileIds
    BY ViewFacts DEF TypeInv
  <2>2. Len(Lines(Active)) \in Nat
    BY <2>1, FileFacts DEF TypeInv
  <2>3. i \in 1..Len(Lines(Active)) /\ Lines(Active)'[i] = Lines(Active)[i]
    BY <1>2, <2>2
  <2> QED BY <2>3 DEF LogInv, HolderLog, NewestCovers
<1> QED BY <1>1, <1>2

\* A partial write keeps the invariant: its fragment is the active file's last line.
LEMMA WriteSomeKeeps ==
  ASSUME TypeInv, LogInv, WriteSome
  PROVE  LogInv'
<1> USE DEF LogInv, HolderLog
<1>1. PICK n \in 1..(call[op.ev].len - op.sent) :
        /\ op.sent + n < call[op.ev].len
        /\ files' = WithBytes(Active, op.ev, n, FALSE)
        /\ op' = [op EXCEPT !.sent = op.sent + n]
  BY DEF WriteSome
<1>2. /\ UNCHANGED <<clock, call, mem, dirs>> /\ op.pc = "append" /\ Active # NoFile
      /\ op \in OpType
  BY TypeParts DEF WriteSome, TypeInv
<1>3. n \in Nat \ {0} /\ op.sent \in Nat /\ op.sent + n <= call[op.ev].len
  BY <1>1, <1>2, TypeParts, SizeAssumption DEF OpType, CallType, TypeInv, HolderInv
<1>4. /\ op'.pc = "append" /\ op'.ev = op.ev /\ op'.now = op.now
      /\ op'.sent = op.sent + n /\ op'.sent > 0
  BY <1>1, <1>2, <1>3 DEF OpType
<1>5. /\ DiskInv'
      /\ Active' = Active
      /\ SizeOf(Active)' <= mem.size + op.sent + n
      /\ Len(Lines(Active)') \in Nat \ {0}
      /\ \A i \in 1..(Len(Lines(Active)') - 1) : WholeLine(Active, i)'
      /\ LastLine(Active)'.ev = op.ev
      /\ LastLine(Active)'.kind = "partial"
      /\ \A i \in 1..(Len(Lines(Active)') - 1) : Lines(Active)'[i] = Lines(Active)[i]
      /\ Len(Lines(Active)') - 1 <= Len(Lines(Active))
  BY <1>1, <1>2, <1>3, WriteKeeps
<1>6. Stored' /\ HolderKnows'
  BY <1>2, <1>4, <1>5 DEF Stored, HolderKnows
<1>7. NewestCovers'
  BY <1>2, <1>4, <1>5, WriteNewest
<1>8. Strict'
  BY <1>4 DEF Strict
<1>9. Writing'
  <2>1. Lines(Active)' # <<>>
    BY <1>5
  <2> QED BY <1>5, <2>1 DEF Writing, Unterminated
<1>10. SizeCovers'
  <2>1. mem.size \in Nat
    BY TypeParts DEF TypeInv, MemType
  <2>2. mem.size + (op.sent + n) = mem.size + op.sent + n
    BY <1>3, <2>1
  <2> QED BY <1>2, <1>4, <1>5, <2>2 DEF SizeCovers
<1> QED BY <1>5, <1>6, <1>7, <1>8, <1>9, <1>10

\* A completed write keeps it: the event is whole, and the file within its bound.
LEMMA WriteRestKeeps ==
  ASSUME TypeInv, LogInv, WriteRest
  PROVE  LogInv'
<1> USE DEF LogInv, HolderLog
<1>0. PICK n : n = call[op.ev].len - op.sent
  OBVIOUS
<1>1. /\ files' = WithBytes(Active, op.ev, n, TRUE)
      /\ op' = [op EXCEPT !.sent = call[op.ev].len, !.pc = "appendSync"]
      /\ UNCHANGED <<clock, call, mem, dirs>> /\ op.pc = "append" /\ Active # NoFile
      /\ op \in OpType
  BY <1>0, TypeParts DEF WriteRest, TypeInv
<1>2. /\ op.ev \in Events /\ op.sent \in Nat /\ op.sent < call[op.ev].len
      /\ call[op.ev].len \in Nat
  BY <1>1, TypeParts, SizeAssumption DEF OpType, CallType, TypeInv, HolderInv
<1>3. /\ n \in Nat \ {0} /\ op.sent + n = call[op.ev].len
      /\ op.sent + n <= call[op.ev].len
  BY <1>0, <1>2
<1>4. /\ op'.pc = "appendSync" /\ op'.ev = op.ev /\ op'.now = op.now
      /\ op'.sent = call[op.ev].len
  BY <1>1 DEF OpType
<1>5. /\ DiskInv'
      /\ Active' = Active
      /\ SizeOf(Active)' <= mem.size + op.sent + n
      /\ Len(Lines(Active)') \in Nat \ {0}
      /\ \A i \in 1..(Len(Lines(Active)') - 1) : WholeLine(Active, i)'
      /\ LastLine(Active)'.ev = op.ev
      /\ LastLine(Active)'.kind = "event"
      /\ \A i \in 1..(Len(Lines(Active)') - 1) : Lines(Active)'[i] = Lines(Active)[i]
      /\ Len(Lines(Active)') - 1 <= Len(Lines(Active))
  BY <1>1, <1>2, <1>3, WriteKeeps
<1>6. \A i \in 1..Len(Lines(Active)') : WholeLine(Active, i)'
  <2>1. WholeLine(Active, Len(Lines(Active)))'
    BY <1>5 DEF WholeLine, LastLine
  <2> QED BY <1>5, <2>1 DEF WholeLine
<1>7. Stored'
  <2>1. Len(Lines(Active)') \in 1..Len(Lines(Active)')
    BY <1>5
  <2>2. Lines(Active)'[Len(Lines(Active)')].ev = op.ev
    BY <1>5 DEF LastLine
  <2> QED BY <1>1, <1>4, <1>5, <1>6, <2>1, <2>2 DEF Stored, WholeIn, WholeLine
<1>8. HolderKnows'
  BY <1>1, <1>4 DEF HolderKnows
<1>9. NewestCovers'
  BY <1>1, <1>4, <1>5, WriteNewest
<1>10. Strict' /\ Writing'
  BY <1>4, <1>5, <1>6 DEF Strict, StrictJsonl, WholeLine, Writing
<1>11. SizeCovers'
  <2>1. mem.size \in Nat
    BY TypeParts DEF TypeInv, MemType
  <2>2. mem.size + call[op.ev].len = mem.size + op.sent + n
    BY <1>2, <1>3, <2>1
  <2> QED BY <1>1, <1>4, <1>5, <2>2 DEF SizeCovers
<1> QED BY <1>5, <1>7, <1>8, <1>9, <1>10, <1>11

\* The end of an append keeps it: size and newest time are brought up to date.
LEMMA AppendSyncKeeps ==
  ASSUME TypeInv, LogInv, AppendSync
  PROVE  LogInv'
<1> USE DEF LogInv, HolderLog
<1>1. /\ UNCHANGED <<clock, call>> /\ op.pc = "appendSync"
      /\ op' = [op EXCEPT !.pc = "prune"] /\ op \in OpType /\ mem \in MemType
      /\ mem' = [mem EXCEPT !.size = mem.size + call[op.ev].len,
                            !.newest = Larger(mem.newest, op.now)]
  BY TypeParts DEF AppendSync, Goto, TypeInv
<1>2. /\ View' = View /\ Active' = Active /\ Segments' = Segments
      /\ Len(files') = Len(files)
      /\ \A f \in FileIds : files'[f].lines = files[f].lines
  BY AppendSyncDisk
<1>3. /\ op'.pc = "prune" /\ op'.ev = op.ev /\ op'.now = op.now /\ op'.sent = op.sent
      /\ op.ev \in Events /\ Active # NoFile
  BY <1>1 DEF OpType, TypeInv, HolderInv
<1>4. /\ mem.loaded /\ mem'.loaded /\ mem'.size = mem.size + call[op.ev].len
      /\ mem'.newest = Larger(mem.newest, op.now)
  BY <1>1 DEF MemType, HolderKnows
<1>5. /\ \A f \in FileIds : Lines(f)' = Lines(f)
      /\ FileIds' = FileIds /\ Linked(View)' = Linked(View)
      /\ Active \in FileIds
  BY <1>2, <1>3, ViewFacts DEF Lines, FileIds, Linked, TypeInv
<1>6. \A f \in Linked(View) : f \in FileIds
  BY LinkedFacts
<1>7. AckedKept'
  <2>1. \A f \in Linked(View) : Lines(f)' = Lines(f)
    BY <1>5, <1>6
  <2> QED BY <1>1, <1>5, <2>1 DEF DiskInv, AckedKept, Readable
<1>8. SegmentsClosed' /\ StampsCover' /\ Submitted'
  <2>1. \A s \in Segments : Lines(s.file)' = Lines(s.file)
    BY <1>5, LinkedFacts
  <2> QED BY <1>1, <1>2, <1>5, <2>1
      DEF DiskInv, SegmentsClosed, StrictJsonl, StampsCover, Submitted
<1>9. BoundedSegments'
  <2>1. \A f \in Linked(View) : SizeOf(f)' = SizeOf(f)
    BY <1>5, <1>6 DEF SizeOf, LastLine
  <2> QED BY <1>5, <2>1 DEF DiskInv, BoundedSegments
<1>10. Lines(Active)' = Lines(Active)
  <2>1. PICK a : a = Active
    OBVIOUS
  <2>2. Lines(a)' = Lines(a)
    BY <1>5, <2>1
  <2> QED BY <1>2, <2>1, <2>2 DEF Lines
<1>11. Stored' /\ HolderKnows'
  BY <1>1, <1>2, <1>3, <1>4, <1>10 DEF Stored, WholeIn, WholeLine, HolderKnows
<1>12. NewestCovers'
  <2> SUFFICES ASSUME NEW i \in 1..Len(Lines(Active))
               PROVE  call[Lines(Active)[i].ev].ts <= mem'.newest
    BY <1>1, <1>2, <1>10 DEF NewestCovers
  <2>1. /\ mem.newest \in Nat /\ op.now \in Nat
        /\ mem.newest <= mem'.newest /\ op.now <= mem'.newest
        /\ mem'.newest \in Nat
    BY <1>1, <1>4 DEF Larger, MemType, OpType
  <2>2. Lines(Active)[i].ev \in Events
    BY <1>5, FileFacts DEF TypeInv, Line
  <2>3. call[Lines(Active)[i].ev].ts \in Nat /\ call[op.ev].ts \in Nat
    BY <1>3, <2>2, TypeParts DEF TypeInv, CallType
  <2>4. call[Lines(Active)[i].ev].ts <= mem.newest \/ Lines(Active)[i].ev = op.ev
    BY <1>3, <1>4 DEF NewestCovers
  <2>5. call[op.ev].ts <= op.now
    BY <1>1 DEF HolderKnows
  <2> QED BY <2>1, <2>3, <2>4, <2>5
<1>13. Strict' /\ Writing'
  BY <1>1, <1>2, <1>3, <1>4, <1>10 DEF Strict, StrictJsonl, Writing, WholeLine
<1>14. SizeCovers'
  <2>1. SizeOf(Active)' = SizeOf(Active)
    BY <1>10 DEF SizeOf, LastLine
  <2>2. SizeOf(Active) <= mem.size + call[op.ev].len
    BY <1>1, <1>3, <1>4 DEF SizeCovers
  <2>3. SizeOf(Active) \in Nat /\ mem'.size \in Nat
    <3>1. call[op.ev].len \in Nat /\ mem.size \in Nat
      BY <1>1, <1>3, TypeParts, SizeAssumption DEF TypeInv, CallType, MemType
    <3> QED BY <1>4, <1>5, <3>1, FileFacts DEF TypeInv
  <2> QED BY <1>2, <1>3, <1>4, <2>1, <2>2, <2>3 DEF SizeCovers
<1> QED BY <1>7, <1>8, <1>9, <1>11, <1>12, <1>13, <1>14 DEF DiskInv

\* Retention keeps it: an expired segment holds only events out of retention.
LEMMA PruneKeeps ==
  ASSUME TypeInv, LogInv, PruneOne
  PROVE  LogInv'
<1> USE DEF LogInv, HolderLog
<1>1. /\ UNCHANGED <<clock, call, mem, files>> /\ op.pc = "prune"
      /\ op' = [op EXCEPT !.deleted = TRUE] /\ op \in OpType
  BY TypeParts DEF PruneOne, TypeInv
<1>2. PICK s \in Expired : View' = [View EXCEPT !.segs = @ \ {s}]
  BY PruneDisk
<1>3. View \in DirView
  BY ViewFacts DEF TypeInv
<1>4. /\ Active' = Active /\ Segments' = Segments \ {s} /\ s \in Segments
      /\ s.stamp + Retention < op.now
  BY <1>2, <1>3 DEF Active, Segments, DirView, Expired
<1>5. \A f \in Linked(View) : f \in Linked(View)' \/ f = s.file
  BY <1>2, <1>3 DEF Linked, DirView
<1>6. \A f \in Linked(View)' : f \in Linked(View)
  BY <1>2, <1>3 DEF Linked, DirView
<1>7. \A f : Lines(f)' = Lines(f)
  BY <1>1 DEF Lines
<1>8. AckedKept'
  <2> SUFFICES ASSUME NEW e \in Events, call[e].st = "acked",
                      call[e].ts + Retention >= clock
               PROVE  \E f \in Linked(View)' : WholeIn(f, e)'
    BY <1>1, AckedKeptIsNext
  <2>1. PICK f \in Linked(View) : WholeIn(f, e)
    BY AckedKeptIs DEF DiskInv
  <2>2. f # s.file
    <3> SUFFICES ASSUME f = s.file PROVE FALSE
      OBVIOUS
    <3>1. call[e].ts <= s.stamp
      BY <1>4, <2>1 DEF DiskInv, StampsCover, WholeIn
    <3>2. s.stamp \in Nat /\ op.now \in Nat /\ op.now <= clock /\ clock \in Nat
      BY <1>1, <1>4, ViewFacts DEF TypeInv, TypeOK, HolderInv
    <3>3. call[e].ts \in Nat
      BY TypeParts DEF TypeInv, CallType
    <3> QED BY <1>4, <3>1, <3>2, <3>3, TimeAssumption
  <2> QED BY <1>5, <1>7, <2>1, <2>2 DEF WholeIn, WholeLine
<1>9. SegmentsClosed' /\ StampsCover' /\ Submitted' /\ BoundedSegments'
  BY <1>1, <1>4, <1>6, <1>7
  DEF DiskInv, SegmentsClosed, StrictJsonl, StampsCover, Submitted, BoundedSegments,
      SizeOf, LastLine, FileIds
<1>10. op'.pc = op.pc /\ op'.ev = op.ev /\ op'.now = op.now /\ op'.sent = op.sent
  BY <1>1 DEF OpType
<1>11. Stored' /\ HolderKnows' /\ NewestCovers'
  BY <1>1, <1>4, <1>7, <1>10 DEF Stored, WholeIn, WholeLine, HolderKnows, NewestCovers
<1>12. Strict' /\ Writing' /\ SizeCovers'
  BY <1>1, <1>4, <1>7, <1>10
  DEF Strict, StrictJsonl, Writing, WholeLine, SizeCovers, SizeOf, LastLine
<1> QED BY <1>8, <1>9, <1>11, <1>12 DEF DiskInv

\* A call that returns keeps it: its event is in the active file.
LEMMA FinishKeeps ==
  ASSUME TypeInv, LogInv, Finish
  PROVE  LogInv'
<1>1. /\ op' = Idle
      /\ \A e \in Events : /\ call'[e].ts = call[e].ts
                           /\ call'[e].st = IF e = op.ev THEN "acked" ELSE call[e].st
  BY ReleaseFacts DEF Finish
<1>2. UNCHANGED <<clock, mem, files>> /\ op.pc = "prune" /\ clock \in Nat
  BY DEF Finish, TypeInv, TypeOK
<1>3. View' = View
  BY FsyncParentDisk DEF Finish, View
<1>4. DiskInv'
  BY <1>1, <1>2, <1>3, QuietDisk
<1>5. HolderLog'
  BY <1>1, <1>2, <1>3, IdleHolder
<1> QED BY <1>4, <1>5 DEF LogInv

\* A crash of the process keeps it: files and directory stay as they are.
LEMMA CrashKeeps ==
  ASSUME TypeInv, LogInv, Crash
  PROVE  LogInv'
<1>1. /\ op' = Idle /\ mem' = Unloaded /\ clock' = clock
      /\ \A e \in Events : /\ call'[e].ts = call[e].ts
                           /\ call'[e].st = "acked" <=> call[e].st = "acked"
                           /\ call[e].st # "new" => call'[e].st # "new"
  BY LoseProcessFacts DEF Crash
<1>2. files' = files /\ View' = View /\ clock \in Nat
  BY DEF Crash, View, TypeInv, TypeOK
<1>3. DiskInv'
  BY <1>1, <1>2, QuietDisk
<1>4. HolderLog'
  BY <1>1, <1>2, IdleHolder DEF Unloaded
<1> QED BY <1>3, <1>4 DEF LogInv

-----------------------------------------------------------------------------
(* Loss of power.  What is lost with it is what was not synced, so what was *)
(* acknowledged must be durable: in every view the directory may revert to, *)
(* an acknowledged event that is within retention is a synced line of a     *)
(* linked file (AckedDurable).  That is so because a file but for the one   *)
(* an append is under way to is synced whole (AllSynced), because every     *)
(* view knows the active file once its creation is synced (ActiveDurable),  *)
(* and because what the invariant of the log says of the current view holds *)
(* of every view (ViewsSound).  A crash of the process alone, or a failed   *)
(* sync of a creation, leaves an active file that the directory may forget: *)
(* with a later loss of power either loses acknowledged events.             *)

Synced(f) == files[f].safe = Len(Lines(f))

AllSynced ==
  \A f \in FileIds : /\ files[f].safe <= Len(Lines(f))
                     /\ Synced(f) \/ (f = Active /\ InAppend)

SafeWhole ==
  op.pc = "append" /\ Active # NoFile => \A i \in 1..files[Active].safe : WholeLine(Active, i)

LinesSound ==
  \A f \in FileIds : /\ \A i \in 1..Len(Lines(f)) : Lines(f)[i].end <= SegmentMax
                     /\ \A i \in 1..(Len(Lines(f)) - 1) : WholeLine(f, i)

ActiveDurable ==
  Active # NoFile /\ op.pc # "createSync" => \A v \in 1..Len(dirs) : dirs[v].active = Active

ViewsSound ==
  \A v \in 1..Len(dirs) : \A s \in dirs[v].segs :
    /\ s.file # Active /\ s.file # dirs[v].active
    /\ StrictJsonl(s.file)
    /\ \A i \in 1..Len(Lines(s.file)) : call[Lines(s.file)[i].ev].ts <= s.stamp

KeptIn(view, e) ==
  \E f \in Linked(view) : \E i \in 1..files[f].safe : Lines(f)[i].ev = e /\ WholeLine(f, i)

AckedDurable ==
  \A e \in Events :
    call[e].st = "acked" /\ call[e].ts + Retention >= clock =>
      \A v \in 1..Len(dirs) : KeptIn(dirs[v], e)

DurInv == AllSynced /\ SafeWhole /\ LinesSound /\ ActiveDurable /\ ViewsSound /\ AckedDurable

\* What every view of the directory names.
LEMMA ViewsFacts ==
  ASSUME TypeInv, NEW v \in 1..Len(dirs)
  PROVE  /\ dirs[v] \in DirView /\ Linked(dirs[v]) \subseteq FileIds
         /\ \A s \in dirs[v].segs : s.file \in Linked(dirs[v]) /\ s.file \in FileIds
                                    /\ s.stamp \in Nat
         /\ dirs[v].active # NoFile => dirs[v].active \in Linked(dirs[v])
         /\ Len(dirs) \in 1..Len(dirs) /\ View = dirs[Len(dirs)]
<1>1. dirs[v] \in DirView /\ Linked(dirs[v]) \subseteq FileIds
  BY ElementOfSeq DEF TypeInv, TypeOK
<1>2. Len(dirs) \in 1..Len(dirs) /\ View = dirs[Len(dirs)]
  BY EmptySeq DEF TypeInv, TypeOK, View
<1> QED BY <1>1, <1>2 DEF Linked, DirView

\* The lines and how many of them are synced, in types.
LEMMA SafeFacts ==
  ASSUME TypeInv, NEW f \in FileIds
  PROVE  /\ files[f].safe \in Nat /\ Len(Lines(f)) \in Nat
         /\ \A i \in 1..Len(Lines(f)) :
              Lines(f)[i].end \in Nat /\ Lines(f)[i].ev \in Events
BY FileFacts DEF TypeInv, FileType, Line

\* Steps that change no file: the directory is as it was, or synced, or shows
\* one more view, and a call may return.
LEMMA DurDirs ==
  ASSUME TypeInv, LogInv, DurInv, TypeInv', LogInv', files' = files,
         \A w \in 1..Len(dirs') : \/ \E v \in 1..Len(dirs) : dirs'[w] = dirs[v]
                                  \/ dirs'[w] = View' /\ ~InAppend',
         Active' \in {Active, NoFile},
         InAppend /\ Active # NoFile => Active' = Active /\ InAppend',
         clock \in Nat, clock' \in Nat, clock <= clock',
         \A e \in Events : call[e].st # "new" => call'[e].ts = call[e].ts,
         \A e \in Events : call'[e].st = "acked" =>
                             call[e].st = "acked" \/ (op.pc = "prune" /\ e = op.ev),
         SafeWhole', ActiveDurable'
  PROVE  DurInv'
<1> USE DEF DurInv
<1>1. FileIds' = FileIds /\ \A f : Lines(f)' = Lines(f)
  BY DEF FileIds, Lines
<1>2. AllSynced'
  BY <1>1, ViewFacts DEF AllSynced, Synced, TypeInv, FileIds, NoFile
<1>3. LinesSound'
  BY <1>1 DEF LinesSound, WholeLine
<1>4. ViewsSound'
  <2> SUFFICES ASSUME NEW w \in 1..Len(dirs'), NEW s \in dirs'[w].segs
               PROVE  /\ s.file # Active' /\ s.file # dirs'[w].active
                      /\ StrictJsonl(s.file)'
                      /\ \A i \in 1..Len(Lines(s.file)') : call'[Lines(s.file)'[i].ev].ts <= s.stamp
    BY DEF ViewsSound
  <2>1. CASE \E v \in 1..Len(dirs) : dirs'[w] = dirs[v]
    <3>1. PICK v \in 1..Len(dirs) : dirs'[w] = dirs[v]
      BY <2>1
    <3>2. s.file \in FileIds /\ s.file # NoFile
      BY <3>1, ViewsFacts DEF FileIds, NoFile
    <3>3. /\ s.file # Active /\ s.file # dirs[v].active /\ StrictJsonl(s.file)
          /\ \A i \in 1..Len(Lines(s.file)) : call[Lines(s.file)[i].ev].ts <= s.stamp
      BY <3>1 DEF ViewsSound
    <3>4. \A i \in 1..Len(Lines(s.file)) :
            Lines(s.file)[i].ev \in Events /\ call[Lines(s.file)[i].ev].st # "new"
      BY <3>2, SafeFacts DEF LogInv, DiskInv, Submitted
    <3> QED BY <1>1, <3>1, <3>2, <3>3, <3>4 DEF StrictJsonl
  <2>2. CASE dirs'[w] = View'
    <3>1. s \in Segments' /\ dirs'[w].active = Active'
      BY <2>2 DEF Segments, Active
    <3> QED BY <3>1 DEF LogInv, DiskInv, SegmentsClosed, StampsCover, StrictJsonl, Lines
  <2> QED BY <2>1, <2>2
<1>5. AckedDurable'
  <2> SUFFICES ASSUME NEW e \in Events, call'[e].st = "acked",
                      call'[e].ts + Retention >= clock', NEW w \in 1..Len(dirs')
               PROVE  KeptIn(dirs[w], e)'
    BY DEF AckedDurable
  <2>1. CASE \E v \in 1..Len(dirs) : dirs'[w] = dirs[v]
    <3>1. PICK v \in 1..Len(dirs) : dirs'[w] = dirs[v]
      BY <2>1
    <3>2. KeptIn(dirs[v], e) => KeptIn(dirs[w], e)'
      BY <1>1, <3>1 DEF KeptIn, Linked, WholeLine
    <3>3. CASE call[e].st = "acked"
      <4>1. call[e].ts \in Nat /\ call'[e].ts = call[e].ts
        BY <3>3, TypeParts DEF TypeInv, CallType
      <4>2. call[e].ts + Retention >= clock
        BY <4>1, TimeAssumption
      <4> QED BY <3>2, <3>3, <4>2 DEF AckedDurable
    <3>4. CASE op.pc = "prune" /\ e = op.ev
      <4>1. Active # NoFile /\ WholeIn(Active, e)
        BY <3>4 DEF LogInv, HolderLog, Stored
      <4>2. dirs[v].active = Active /\ Active \in FileIds /\ Active \in Linked(dirs[v])
        BY <3>4, <4>1, ViewsFacts, ViewFacts DEF ActiveDurable, TypeInv
      <4>3. Synced(Active)
        BY <3>4, <4>2 DEF AllSynced, InAppend
      <4>4. KeptIn(dirs[v], e)
        BY <4>1, <4>2, <4>3 DEF KeptIn, WholeIn, Synced
      <4> QED BY <3>2, <4>4
    <3> QED BY <3>3, <3>4
  <2>2. CASE dirs'[w] = View' /\ ~InAppend'
    <3>1. PICK f \in Linked(View)' : WholeIn(f, e)'
      BY DEF LogInv, DiskInv, AckedKept, Readable, WholeIn, WholeLine
    <3>2. f \in FileIds'
      BY <2>2, <3>1 DEF TypeInv, TypeOK, Linked
    <3>3. files'[f].safe = Len(Lines(f)')
      BY <1>2, <2>2, <3>2 DEF AllSynced, Synced
    <3> QED BY <2>2, <3>1, <3>3 DEF KeptIn, WholeIn, WholeLine, Linked
  <2> QED BY <2>1, <2>2
<1> QED BY <1>2, <1>3, <1>4, <1>5

\* The file that is created is empty and its directory entry is not durable; every
\* other view is as it was.
LEMMA DurCreates ==
  ASSUME TypeInv, LogInv, DurInv, CreateFile
  PROVE  DurInv'
<1> USE DEF DurInv
<1>1. PICK new : new = Len(files) + 1
  OBVIOUS
<1>2. /\ UNCHANGED <<clock, call>> /\ op'.pc = "createSync" /\ Active = NoFile
      /\ dirs' = Append(dirs, [View EXCEPT !.active = new])
  BY <1>1, TypeParts DEF CreateFile, ChangeDir, Goto, TypeInv, OpType
<1>3. /\ View' = [View EXCEPT !.active = new]
      /\ \A f \in FileIds : files'[f] = files[f]
      /\ files'[new] = [lines |-> <<>>, safe |-> 0]
      /\ Len(files') = Len(files) + 1 /\ Len(files) \in Nat
  BY <1>1, CreateFileDisk DEF CreateFile
<1>4. /\ \A f \in FileIds : Lines(f)' = Lines(f) /\ files'[f].safe = files[f].safe
      /\ Lines(new)' = <<>> /\ files'[new].safe = 0 /\ Len(Lines(new)') = 0
      /\ FileIds' = FileIds \cup {new} /\ new \notin FileIds /\ new # NoFile
  BY <1>1, <1>3 DEF Lines, FileIds, NoFile
<1>5. View \in DirView /\ dirs \in Seq(DirView) /\ Len(dirs) \in Nat
  BY ViewFacts, LenProperties DEF TypeInv, TypeOK
<1>6. /\ Active' = new
      /\ [View EXCEPT !.active = new].active = new
      /\ [View EXCEPT !.active = new].segs = View.segs
  BY <1>3, <1>5 DEF Active, DirView
<1>7. /\ Len(dirs') = Len(dirs) + 1
      /\ \A v \in 1..Len(dirs) : dirs'[v] = dirs[v]
      /\ dirs'[Len(dirs) + 1] = [View EXCEPT !.active = new]
  BY <1>2, <1>5, AppendProperties
<1>8. AllSynced'
  BY <1>2, <1>4 DEF AllSynced, Synced, FileIds, NoFile
<1>9. LinesSound'
  <2>1. \A f \in FileIds : \A i \in 1..(Len(Lines(f)) - 1) : WholeLine(f, i)' <=> WholeLine(f, i)
    BY <1>4 DEF WholeLine
  <2> QED BY <1>4, <2>1 DEF LinesSound
<1>10. SafeWhole' /\ ActiveDurable'
  BY <1>2 DEF SafeWhole, ActiveDurable
<1>11. ASSUME NEW w \in 1..Len(dirs')
       PROVE  \E v \in 1..Len(dirs) :
                /\ dirs'[w].segs = dirs[v].segs
                /\ dirs'[w].active = dirs[v].active \/ dirs'[w].active = new
                /\ Linked(dirs[v]) \subseteq Linked(dirs'[w])
  <2>1. CASE w \in 1..Len(dirs)
    BY <1>7, <2>1
  <2>2. CASE w = Len(dirs) + 1
    <3>1. Len(dirs) \in 1..Len(dirs) /\ View = dirs[Len(dirs)]
      <4>1. dirs # <<>>
        BY DEF TypeInv, TypeOK
      <4> QED BY <1>5, <4>1, EmptySeq DEF View
    <3>2. Linked(View) \subseteq Linked([View EXCEPT !.active = new])
      BY <1>2, <1>6 DEF Linked, Active
    <3> QED BY <1>6, <1>7, <2>2, <3>1, <3>2
  <2> QED BY <1>5, <1>7, <2>1, <2>2
<1>12. ViewsSound'
  <2> SUFFICES ASSUME NEW w \in 1..Len(dirs'), NEW s \in dirs'[w].segs
               PROVE  /\ s.file # Active' /\ s.file # dirs'[w].active
                      /\ StrictJsonl(s.file)'
                      /\ \A i \in 1..Len(Lines(s.file)') : call'[Lines(s.file)'[i].ev].ts <= s.stamp
    BY DEF ViewsSound
  <2>1. PICK v \in 1..Len(dirs) :
          /\ dirs'[w].segs = dirs[v].segs
          /\ dirs'[w].active = dirs[v].active \/ dirs'[w].active = new
    BY <1>11
  <2>2. s \in dirs[v].segs /\ s.file \in FileIds
    BY <2>1, ViewsFacts
  <2>3. /\ s.file # dirs[v].active /\ StrictJsonl(s.file)
        /\ \A i \in 1..Len(Lines(s.file)) : call[Lines(s.file)[i].ev].ts <= s.stamp
    BY <2>2 DEF ViewsSound
  <2>4. StrictJsonl(s.file)'
    BY <1>4, <2>2, <2>3 DEF StrictJsonl
  <2> QED BY <1>2, <1>4, <1>6, <2>1, <2>2, <2>3, <2>4
<1>13. AckedDurable'
  <2> SUFFICES ASSUME NEW e \in Events, call[e].st = "acked",
                      call[e].ts + Retention >= clock, NEW w \in 1..Len(dirs')
               PROVE  KeptIn(dirs[w], e)'
    BY <1>2 DEF AckedDurable
  <2>1. PICK v \in 1..Len(dirs) : Linked(dirs[v]) \subseteq Linked(dirs'[w])
    BY <1>11
  <2>2. PICK f \in Linked(dirs[v]) :
          \E i \in 1..files[f].safe : Lines(f)[i].ev = e /\ WholeLine(f, i)
    BY DEF AckedDurable, KeptIn
  <2>3. f \in FileIds /\ f \in Linked(dirs'[w])
    BY <2>1, <2>2, ViewsFacts
  <2>4. \A i : WholeLine(f, i)' <=> WholeLine(f, i)
    BY <1>4, <2>3 DEF WholeLine
  <2>5. Linked(dirs[w])' = Linked(dirs'[w])
    BY DEF Linked
  <2> QED BY <1>4, <2>2, <2>3, <2>4, <2>5 DEF KeptIn
<1> QED BY <1>8, <1>9, <1>10, <1>12, <1>13

\* A write changes nothing that is synced.
LEMMA DurWrites ==
  ASSUME TypeInv, LogInv, DurInv, LogInv', WriteSome \/ WriteRest
  PROVE  DurInv'
<1> USE DEF DurInv
<1>1. /\ op.pc = "append" /\ Active # NoFile /\ UNCHANGED <<clock, call, mem, dirs>>
      /\ op'.pc \in {"append", "appendSync"}
  BY TypeParts DEF WriteSome, WriteRest, TypeInv, OpType
<1>2. PICK n \in Nat \ {0}, last \in BOOLEAN : files' = WithBytes(Active, op.ev, n, last)
  BY AppendsBytes
<1>3. PICK a : a = Active
  OBVIOUS
<1>4. /\ Active' = a /\ View' = View /\ FileIds' = FileIds /\ a \in FileIds
      /\ \A f \in FileIds \ {a} : Lines(f)' = Lines(f)
      /\ \A f \in FileIds : files'[f].safe = files[f].safe
  BY <1>1, <1>2, <1>3, WriteLines
<1>5. PICK lines \in Seq(Line), kept \in Nat :
        /\ files'[a].lines = lines /\ Len(lines) = kept + 1
        /\ kept = IF Unterminated(a) THEN Len(Lines(a)) - 1 ELSE Len(Lines(a))
        /\ \A i \in 1..kept : i \in 1..Len(Lines(a)) /\ lines[i] = Lines(a)[i]
  <2>1. PICK lines \in Seq(Line), kept \in Nat : Wrote(a, lines, kept, n, last)
    BY <1>1, <1>2, <1>3, WriteLines
  <2> QED BY <2>1 DEF Wrote
<1>6. Lines(a)' = lines
  BY <1>5 DEF Lines
<1>7. files[a].safe \in Nat /\ Len(Lines(a)) \in Nat /\ files[a].safe <= Len(Lines(a))
  BY <1>4, SafeFacts DEF AllSynced
<1>8. files[a].safe <= kept
  <2>1. CASE Unterminated(a)
    <3>1. ~WholeLine(a, Len(Lines(a))) /\ Lines(a) # <<>>
      BY <2>1 DEF Unterminated, LastLine, WholeLine
    <3>2. Len(Lines(a)) # 0
      BY <1>4, <3>1, FileFacts DEF TypeInv
    <3>3. ~(Len(Lines(a)) \in 1..files[a].safe)
      BY <1>1, <1>3, <3>1 DEF SafeWhole
    <3> QED BY <1>5, <1>7, <2>1, <3>2, <3>3
  <2>2. CASE ~Unterminated(a)
    BY <1>5, <1>7, <2>2
  <2> QED BY <2>1, <2>2
<1>9. \A i \in 1..files[a].safe : i \in 1..kept /\ i \in 1..Len(Lines(a)) /\ lines[i] = Lines(a)[i]
  BY <1>5, <1>7, <1>8
<1>10. AllSynced'
  <2>1. \A f \in FileIds \ {a} : Synced(f)
    BY <1>3 DEF AllSynced
  <2>2. \A f \in FileIds \ {a} : Synced(f)' /\ files'[f].safe <= Len(Lines(f)')
    BY <1>4, <2>1 DEF AllSynced, Synced
  <2>3. files'[a].safe <= Len(Lines(a)')
    BY <1>4, <1>5, <1>6, <1>7, <1>8
  <2> QED BY <1>1, <1>4, <2>2, <2>3 DEF AllSynced, InAppend
<1>11. SafeWhole'
  <2> SUFFICES ASSUME NEW i \in 1..files[a].safe PROVE lines[i].kind = "event"
    BY <1>4, <1>6 DEF SafeWhole, WholeLine, Lines
  <2>1. WholeLine(a, i)
    BY <1>1, <1>3 DEF SafeWhole
  <2> QED BY <1>9, <2>1 DEF WholeLine
<1>12. LinesSound'
  <2>1. ASSUME NEW f \in FileIds \ {a}
        PROVE  /\ \A i \in 1..Len(Lines(f)') : Lines(f)'[i].end <= SegmentMax
               /\ \A i \in 1..(Len(Lines(f)') - 1) : WholeLine(f, i)'
    BY <1>4 DEF LinesSound, WholeLine
  <2>2. \A i \in 1..(Len(lines) - 1) : WholeLine(a, i)'
    <3>1. \A i \in 1..(Len(Lines(Active)') - 1) : WholeLine(Active, i)'
      BY <1>1, <1>3, <1>4 DEF LogInv, HolderLog, Writing
    <3> QED BY <1>4, <1>6, <3>1 DEF WholeLine, Lines
  <2>3. lines[kept + 1].end <= SegmentMax
    <3>1. SizeOf(a)' = lines[kept + 1].end
      <4>1. lines # <<>>
        BY <1>5
      <4> QED BY <1>5, <1>6, <4>1 DEF SizeOf, LastLine
    <3>2. a \in Linked(View)'
      BY <1>1, <1>3, <1>4 DEF Linked, Active
    <3> QED BY <3>1, <3>2 DEF LogInv, DiskInv, BoundedSegments
  <2>4. ASSUME NEW i \in 1..Len(lines) PROVE lines[i].end <= SegmentMax
    <3>1. CASE i = kept + 1
      BY <2>3, <3>1
    <3>2. CASE i # kept + 1
      <4>1. i \in 1..kept
        BY <1>5, <3>2
      <4> QED BY <1>4, <1>5, <4>1 DEF LinesSound
    <3> QED BY <3>1, <3>2
  <2> QED BY <1>4, <1>6, <2>1, <2>2, <2>4 DEF LinesSound
<1>13. ActiveDurable'
  BY <1>1, <1>3, <1>4 DEF ActiveDurable
<1>14. ViewsSound'
  <2> SUFFICES ASSUME NEW v \in 1..Len(dirs), NEW s \in dirs[v].segs
               PROVE  /\ s.file # a /\ s.file # dirs[v].active
                      /\ StrictJsonl(s.file)'
                      /\ \A i \in 1..Len(Lines(s.file)') : call[Lines(s.file)'[i].ev].ts <= s.stamp
    BY <1>1, <1>4 DEF ViewsSound
  <2>1. s.file \in FileIds \ {a} /\ s.file # dirs[v].active
    BY <1>3, ViewsFacts DEF ViewsSound
  <2>2. Lines(s.file)' = Lines(s.file)
    BY <1>4, <2>1
  <2> QED BY <2>1, <2>2 DEF ViewsSound, StrictJsonl
<1>15. AckedDurable'
  <2> SUFFICES ASSUME NEW e \in Events, call[e].st = "acked",
                      call[e].ts + Retention >= clock, NEW v \in 1..Len(dirs)
               PROVE  KeptIn(dirs[v], e)'
    BY <1>1 DEF AckedDurable
  <2>1. PICK f \in Linked(dirs[v]) :
          \E i \in 1..files[f].safe : Lines(f)[i].ev = e /\ WholeLine(f, i)
    BY DEF AckedDurable, KeptIn
  <2>2. f \in FileIds
    BY ViewsFacts
  <2>3. \A i \in 1..files[f].safe : Lines(f)'[i] = Lines(f)[i]
    BY <1>4, <1>6, <1>9, <2>2
  <2>4. Linked(dirs[v])' = Linked(dirs[v])
    BY <1>1 DEF Linked
  <2> QED BY <1>4, <2>1, <2>2, <2>3, <2>4 DEF KeptIn, WholeLine
<1> QED BY <1>10, <1>11, <1>12, <1>13, <1>14, <1>15

\* The sync of an append makes the whole file durable.
LEMMA DurSyncs ==
  ASSUME TypeInv, LogInv, DurInv, AppendSync
  PROVE  DurInv'
<1> USE DEF DurInv
<1>1. /\ UNCHANGED <<clock, call, dirs>> /\ op'.pc = "prune" /\ op.pc = "appendSync"
  BY TypeParts DEF AppendSync, Goto, TypeInv, OpType
<1>2. /\ Active' = Active /\ FileIds' = FileIds
      /\ \A f \in FileIds :
           /\ Lines(f)' = Lines(f)
           /\ files'[f].safe = IF f = Active THEN Len(Lines(f)) ELSE files[f].safe
  BY AppendSyncDisk DEF Lines, FileIds
<1>3. \A f \in FileIds : files[f].safe \in Nat /\ Len(Lines(f)) \in Nat
                         /\ files[f].safe <= files'[f].safe
  BY <1>2, SafeFacts DEF AllSynced
<1>4. AllSynced'
  BY <1>2, <1>3 DEF AllSynced, Synced
<1>5. LinesSound'
  BY <1>2 DEF LinesSound, WholeLine
<1>6. SafeWhole' /\ ActiveDurable'
  BY <1>1, <1>2 DEF SafeWhole, ActiveDurable
<1>7. ViewsSound'
  <2> SUFFICES ASSUME NEW v \in 1..Len(dirs), NEW s \in dirs[v].segs
               PROVE  /\ s.file # Active /\ s.file # dirs[v].active
                      /\ StrictJsonl(s.file)'
                      /\ \A i \in 1..Len(Lines(s.file)') : call[Lines(s.file)'[i].ev].ts <= s.stamp
    BY <1>1, <1>2 DEF ViewsSound
  <2>1. Lines(s.file)' = Lines(s.file)
    BY <1>2, ViewsFacts
  <2> QED BY <2>1 DEF ViewsSound, StrictJsonl
<1>8. AckedDurable'
  <2> SUFFICES ASSUME NEW e \in Events, call[e].st = "acked",
                      call[e].ts + Retention >= clock, NEW v \in 1..Len(dirs)
               PROVE  KeptIn(dirs[v], e)'
    BY <1>1 DEF AckedDurable
  <2>1. PICK f \in Linked(dirs[v]) :
          \E i \in 1..files[f].safe : Lines(f)[i].ev = e /\ WholeLine(f, i)
    BY DEF AckedDurable, KeptIn
  <2>2. f \in FileIds
    BY ViewsFacts
  <2>3. Lines(f)' = Lines(f) /\ files'[f].safe \in Nat /\ files[f].safe <= files'[f].safe
        /\ files[f].safe \in Nat
    BY <1>2, <1>3, <2>2
  <2>4. Linked(dirs[v])' = Linked(dirs[v])
    BY <1>1 DEF Linked
  <2> QED BY <2>1, <2>3, <2>4 DEF KeptIn, WholeLine
<1> QED BY <1>4, <1>5, <1>6, <1>7, <1>8

\* A loss of power leaves a log that satisfies the invariant: whatever view the
\* directory reverts to was sound, and its segments were synced whole.
LEMMA PowerLossKeeps ==
  ASSUME TypeInv, LogInv, DurInv, PowerLoss
  PROVE  LogInv' /\ DurInv'
<1> USE DEF DurInv
<1>1. /\ op' = Idle /\ mem' = Unloaded /\ clock' = clock
      /\ \A e \in Events : /\ call'[e].ts = call[e].ts
                           /\ call'[e].st = "acked" <=> call[e].st = "acked"
                           /\ call[e].st # "new" => call'[e].st # "new"
  BY LoseProcessFacts DEF PowerLoss
<1>2. /\ FileIds' = FileIds
      /\ \A f \in FileIds : /\ Remains(files[f], Lines(f)')
                            /\ files'[f].safe = Len(Lines(f)')
  BY PowerLossDisk
<1>3. PICK v \in 1..Len(dirs) : View' = dirs[v] /\ dirs' = <<View>>'
  BY PowerLossDisk
<1>4. /\ Active' = dirs[v].active /\ Segments' = dirs[v].segs /\ Linked(View)' = Linked(dirs[v])
      /\ Linked(dirs[v]) \subseteq FileIds
      /\ Len(dirs') = 1 /\ dirs'[1] = View'
  BY <1>3, ViewsFacts DEF Active, Segments, Linked
<1>5. ASSUME NEW f \in FileIds
      PROVE  /\ Lines(f)' \in Seq(Line) /\ Len(Lines(f)') \in Nat
             /\ files[f].safe \in Nat /\ files[f].safe <= Len(Lines(f)')
             /\ Len(Lines(f)') <= Len(Lines(f)) /\ Len(Lines(f)) \in Nat
             /\ \A i \in 1..Len(Lines(f)') :
                  /\ i \in 1..Len(Lines(f))
                  /\ Lines(f)'[i].ev = Lines(f)[i].ev
                  /\ Lines(f)'[i].end <= Lines(f)[i].end
                  /\ i < Len(Lines(f)') \/ i <= files[f].safe => Lines(f)'[i] = Lines(f)[i]
             /\ Synced(f) => Lines(f)' = Lines(f)
  BY <1>2, RemainsFacts DEF Synced
<1>6. \A s \in dirs[v].segs : s.file \in FileIds /\ Lines(s.file)' = Lines(s.file)
  <2> SUFFICES ASSUME NEW s \in dirs[v].segs
               PROVE  s.file \in FileIds /\ Lines(s.file)' = Lines(s.file)
    OBVIOUS
  <2>1. s.file \in FileIds /\ s.file # Active
    BY ViewsFacts DEF ViewsSound
  <2>2. Synced(s.file)
    BY <2>1 DEF AllSynced
  <2> QED BY <1>5, <2>1, <2>2
\* What was acknowledged is in the view that is left.
<1>7. ASSUME NEW e \in Events, call'[e].st = "acked", call'[e].ts + Retention >= clock'
      PROVE  \E f \in Linked(dirs[v]) : WholeIn(f, e)'
  <2>1. PICK f \in Linked(dirs[v]) :
          \E i \in 1..files[f].safe : Lines(f)[i].ev = e /\ WholeLine(f, i)
    BY <1>1, <1>7 DEF AckedDurable, KeptIn
  <2>2. PICK i \in 1..files[f].safe : Lines(f)[i].ev = e /\ WholeLine(f, i)
    BY <2>1
  <2>3. f \in FileIds
    BY <1>4
  <2>4. i \in 1..Len(Lines(f)') /\ i <= files[f].safe
    BY <1>5, <2>3
  <2>5. Lines(f)'[i] = Lines(f)[i]
    BY <1>5, <2>3, <2>4
  <2> QED BY <2>2, <2>4, <2>5 DEF WholeIn, WholeLine
<1>8. AckedKept'
  BY <1>4, <1>7, AckedKeptIsNext
<1>9. SegmentsClosed'
  BY <1>4, <1>6 DEF ViewsSound, SegmentsClosed, StrictJsonl
<1>10. \A f \in FileIds : \A i \in 1..Len(Lines(f)) :
         Lines(f)[i].ev \in Events /\ call[Lines(f)[i].ev].st # "new"
  BY SafeFacts DEF LogInv, DiskInv, Submitted
<1>11. StampsCover'
  <2> SUFFICES ASSUME NEW s \in dirs[v].segs, NEW i \in 1..Len(Lines(s.file))
               PROVE  call'[Lines(s.file)[i].ev].ts <= s.stamp
    BY <1>4, <1>6 DEF StampsCover
  <2>1. call[Lines(s.file)[i].ev].ts <= s.stamp
    BY DEF ViewsSound
  <2> QED BY <1>1, <1>6, <1>10, <2>1
<1>12. Submitted'
  <2> SUFFICES ASSUME NEW f \in FileIds, NEW i \in 1..Len(Lines(f)')
               PROVE  call'[Lines(f)'[i].ev].st # "new"
    BY <1>2 DEF Submitted
  <2>1. i \in 1..Len(Lines(f)) /\ Lines(f)'[i].ev = Lines(f)[i].ev
    BY <1>5
  <2> QED BY <1>1, <1>10, <2>1
<1>13. LinesSound'
  <2> SUFFICES ASSUME NEW f \in FileIds
               PROVE  /\ \A i \in 1..Len(Lines(f)') : Lines(f)'[i].end <= SegmentMax
                      /\ \A i \in 1..(Len(Lines(f)') - 1) : WholeLine(f, i)'
    BY <1>2 DEF LinesSound
  <2>1. ASSUME NEW i \in 1..Len(Lines(f)') PROVE Lines(f)'[i].end <= SegmentMax
    <3>1. i \in 1..Len(Lines(f)) /\ Lines(f)'[i].end <= Lines(f)[i].end
      BY <1>5
    <3>2. PICK l \in Seq(Line) : l = Lines(f)'
      BY <1>5
    <3>3. l[i] \in Line
      BY <3>2, ElementOfSeq
    <3>4. PICK m \in Nat, n \in Nat : m = Lines(f)'[i].end /\ n = Lines(f)[i].end
      BY <3>1, <3>2, <3>3, SafeFacts DEF Line
    <3>5. m <= n /\ n <= SegmentMax
      BY <3>1, <3>4 DEF LinesSound
    <3>6. m <= SegmentMax
      BY <3>5, SizeAssumption
    <3> QED BY <3>4, <3>6
  <2>2. ASSUME NEW i \in 1..(Len(Lines(f)') - 1) PROVE WholeLine(f, i)'
    <3>1. i \in 1..Len(Lines(f)') /\ i < Len(Lines(f)') /\ i \in 1..(Len(Lines(f)) - 1)
      BY <1>5
    <3>2. Lines(f)'[i] = Lines(f)[i]
      BY <1>5, <3>1
    <3> QED BY <3>1, <3>2 DEF LinesSound, WholeLine
  <2> QED BY <2>1, <2>2
<1>14. BoundedSegments'
  <2> SUFFICES ASSUME NEW f \in FileIds PROVE SizeOf(f)' <= SegmentMax
    BY <1>4 DEF BoundedSegments
  <2>1. CASE Lines(f)' = <<>>
    BY <2>1, SizeAssumption DEF SizeOf
  <2>2. CASE Lines(f)' # <<>>
    <3>1. Len(Lines(f)') \in 1..Len(Lines(f)')
      BY <1>5, <2>2, EmptySeq
    <3> QED BY <1>2, <1>13, <2>2, <3>1 DEF LinesSound, SizeOf, LastLine
  <2> QED BY <2>1, <2>2
<1>15. DiskInv'
  BY <1>8, <1>9, <1>11, <1>12, <1>14 DEF DiskInv
<1>16. Writing'
  <2> SUFFICES ASSUME Active' # NoFile
               PROVE  \A i \in 1..(Len(Lines(Active)') - 1) : WholeLine(Active, i)'
    BY <1>1 DEF Writing, Idle
  <2>1. PICK a : a = Active'
    OBVIOUS
  <2>2. a \in FileIds'
    BY <1>2, <1>4, <2>1, ViewsFacts
  <2>3. \A i \in 1..(Len(Lines(a)') - 1) : WholeLine(a, i)'
    BY <1>13, <2>2 DEF LinesSound
  <2>4. Lines(Active)' = Lines(a)'
    BY <2>1 DEF Lines
  <2> QED BY <2>1, <2>3, <2>4 DEF WholeLine
<1>17. HolderLog'
  BY <1>1, <1>16
  DEF HolderLog, Stored, NewestCovers, Strict, SizeCovers, HolderKnows, Idle, Unloaded
<1>18. AllSynced'
  BY <1>2, <1>5 DEF AllSynced, Synced
<1>19. SafeWhole' /\ ActiveDurable'
  BY <1>1, <1>3, <1>4 DEF SafeWhole, ActiveDurable, Idle, Active
<1>20. ViewsSound'
  <2> SUFFICES ASSUME NEW s \in dirs[v].segs
               PROVE  /\ s.file # Active'
                      /\ StrictJsonl(s.file)'
                      /\ \A i \in 1..Len(Lines(s.file)') : call'[Lines(s.file)'[i].ev].ts <= s.stamp
    BY <1>3, <1>4 DEF ViewsSound
  <2> QED BY <1>4, <1>9, <1>11 DEF SegmentsClosed, StampsCover
<1>21. AckedDurable'
  <2> SUFFICES ASSUME NEW e \in Events, call'[e].st = "acked",
                      call'[e].ts + Retention >= clock'
               PROVE  KeptIn(dirs[1], e)'
    BY <1>4 DEF AckedDurable
  <2>1. PICK f \in Linked(dirs[v]) : WholeIn(f, e)'
    BY <1>7
  <2>2. f \in FileIds /\ files'[f].safe = Len(Lines(f)')
    BY <1>2, <1>4
  <2>3. Linked(dirs[1])' = Linked(dirs[v])
    BY <1>3, <1>4 DEF Linked
  <2> QED BY <2>1, <2>2, <2>3 DEF KeptIn, WholeIn, WholeLine
<1> QED BY <1>13, <1>15, <1>17, <1>18, <1>19, <1>20, <1>21 DEF LogInv

\* Every action keeps the log's invariant, whatever goes wrong that is tolerated.
LEMMA LogInvStep ==
  ASSUME Tolerated, TypeInv, LogInv, "power" \in Faults => DurInv, Next
  PROVE  LogInv'
<1> USE DEF LogInv
<1>0. /\ clock \in Nat /\ call \in [Events -> CallType] /\ op \in OpType
      /\ mem \in MemType
  BY TypeParts DEF TypeInv
<1>1. ASSUME NEW e \in Events, Submit(e) PROVE LogInv'
  <2>1. PICK n \in 1..MaxLine :
          call' = [call EXCEPT ![e] = [st |-> "waiting", ts |-> clock, len |-> n]]
    BY <1>1 DEF Submit
  <2>2. UNCHANGED <<clock, op, mem, files, dirs>> /\ call[e].st = "new"
    BY <1>1 DEF Submit
  <2>3. \A d \in Events : call[d].st # "new" => call'[d] = call[d]
    BY <1>0, <2>1, <2>2
  <2>4. \A d \in Events : call'[d].st = "acked" => call[d].st = "acked"
    BY <1>0, <2>1
  <2> QED BY <1>0, <2>2, <2>3, <2>4, OutsideKeeps
<1>2. ASSUME NEW e \in Events, Acquire(e) PROVE LogInv'
  <2>1. /\ call' = [call EXCEPT ![e].st = "holding"] /\ op.pc = "idle"
        /\ op' = [Idle EXCEPT !.pc = "prepare", !.ev = e, !.now = clock]
        /\ UNCHANGED <<clock, mem, files, dirs>>
    BY <1>2 DEF Acquire
  <2>2. \A d \in Events :
          /\ call'[d].ts = call[d].ts /\ call'[d].len = call[d].len
          /\ call'[d].st = IF d = e THEN "holding" ELSE call[d].st
    BY <1>0, <2>1 DEF CallType
  <2>3. op'.pc = "prepare" /\ op'.sent = 0 /\ op'.ev = e /\ op'.now = clock
    BY <2>1 DEF Idle
  <2>4. call'[op'.ev].ts <= op'.now
    BY <2>2, <2>3 DEF TypeInv, HolderInv
  <2> QED BY <1>0, <2>1, <2>2, <2>3, <2>4, OutsideKeeps
<1>3. ASSUME op.pc \notin {"idle", "append", "appendSync", "prune"},
             UNCHANGED <<clock, call, mem, files>>, View' = View,
             NEW pc \in {"create", "rotate", "append"}, Goto(pc),
             pc # "create" => mem.loaded,
             pc = "append" => mem.size + call[op.ev].len <= SegmentMax
      PROVE  LogInv'
  <2>1. DiskInv'
    BY <1>0, <1>3, QuietDisk
  <2>2. HolderLog'
    BY <1>3, GotoHolder DEF Goto
  <2> QED BY <2>1, <2>2
<1>4. ASSUME LoadAbsent PROVE LogInv'
  <2>1. View' = View
    BY <1>4 DEF LoadAbsent, View
  <2> QED BY <1>3, <1>4, <2>1 DEF LoadAbsent
<1>5. ASSUME LoadRejected PROVE LogInv'
  BY <1>5, RaiseKeeps DEF LoadRejected
<1>6. ASSUME DecideRotation PROVE LogInv'
  <2>1. /\ op.pc = "prepare" /\ mem.loaded /\ UNCHANGED <<clock, call, mem, files>>
        /\ Goto(IF ShouldRotate THEN "rotate" ELSE "append") /\ View' = View
    BY <1>6 DEF DecideRotation, View
  <2>2. CASE ShouldRotate
    BY <1>3, <2>1, <2>2
  <2>3. CASE ~ShouldRotate
    <3>1. call[op.ev].len \in 1..MaxLine /\ mem.size \in Nat
      BY <1>0, <2>1 DEF TypeInv, HolderInv, CallType, MemType
    <3>2. mem.size + call[op.ev].len <= SegmentMax
      BY <2>3, <3>1, SizeAssumption DEF ShouldRotate
    <3> QED BY <1>3, <2>1, <2>3, <3>2
  <2> QED BY <2>2, <2>3
<1>7. ASSUME RenameMissing PROVE LogInv'
  BY <1>7, RaiseKeeps DEF RenameMissing
<1>8. ASSUME RenameSync PROVE LogInv'
  <2>1. View' = View
    BY <1>8, FsyncParentDisk DEF RenameSync
  <2> QED BY <1>3, <1>8, <2>1 DEF RenameSync
<1>9. ASSUME AppendMissing PROVE LogInv'
  BY <1>9, RaiseKeeps DEF AppendMissing
<1>10. ASSUME SystemCallFails PROVE LogInv'
  <2>1. op.pc # "idle" /\ Raise /\ NextSystemCall \cap Faults # {}
    BY <1>10 DEF SystemCallFails, GoesWrong
  <2>2. op.pc \notin {"append", "appendSync"}
    BY <2>1 DEF NextSystemCall, Tolerated
  <2> QED BY <2>1, <2>2, RaiseKeeps
<1>11. ASSUME PowerLoss PROVE LogInv'
  <2>1. DurInv
    BY <1>11 DEF PowerLoss, GoesWrong
  <2> QED BY <1>11, <2>1, PowerLossKeeps
<1>12. ASSUME Tick PROVE LogInv'
  BY <1>0, <1>12, OutsideKeeps DEF Tick
<1>13. ASSUME Rest PROVE LogInv'
  BY <1>0, <1>13, OutsideKeeps DEF Rest, vars
<1> QED
  BY <1>1, <1>2, <1>4, <1>5, <1>6, <1>7, <1>8, <1>9, <1>10, <1>11, <1>12, <1>13,
     LoadKeeps, RenameKeeps, CreateFileKeeps, CreateSyncKeeps, WriteSomeKeeps,
     WriteRestKeeps, AppendSyncKeeps, PruneKeeps, FinishKeeps, CrashKeeps
  DEF Next, HolderStep

\* Steps that leave the disk alone and end no sync of a creation.
LEMMA DurQuiet ==
  ASSUME TypeInv, LogInv, DurInv, TypeInv', LogInv', UNCHANGED <<files, dirs>>,
         clock' \in Nat, clock <= clock',
         \A e \in Events : call[e].st # "new" => call'[e].ts = call[e].ts,
         \A e \in Events : call'[e].st = "acked" => call[e].st = "acked",
         \/ op' = op
         \/ /\ InAppend => Active = NoFile
            /\ op.pc # "createSync"
            /\ op'.pc = "append" /\ Active # NoFile => StrictJsonl(Active)
  PROVE  DurInv'
<1>1. /\ Active' = Active /\ clock \in Nat
      /\ \A w \in 1..Len(dirs') : \E v \in 1..Len(dirs) : dirs'[w] = dirs[v]
  BY DEF Active, View, TypeInv, TypeOK
<1>2. SafeWhole'
  <2>1. CASE op' = op
    BY <1>1, <2>1 DEF DurInv, SafeWhole, WholeLine, Lines
  <2>2. CASE op'.pc = "append" /\ Active # NoFile /\ StrictJsonl(Active)
    <3>1. Active \in FileIds
      BY <2>2, ViewFacts DEF TypeInv
    <3>2. files[Active].safe \in Nat /\ Len(Lines(Active)) \in Nat
          /\ files[Active].safe <= Len(Lines(Active))
      BY <3>1, SafeFacts DEF DurInv, AllSynced
    <3>3. \A i \in 1..files[Active].safe : Lines(Active)[i].kind = "event"
      BY <2>2, <3>2 DEF StrictJsonl
    <3> QED BY <1>1, <3>3 DEF SafeWhole, WholeLine, Lines
  <2> QED BY <1>1, <2>1, <2>2 DEF SafeWhole
<1>3. ActiveDurable'
  BY <1>1 DEF DurInv, ActiveDurable
<1>4. InAppend /\ Active # NoFile => Active' = Active /\ InAppend'
  BY <1>1 DEF InAppend
<1> QED BY <1>1, <1>2, <1>3, <1>4, DurDirs

\* A call that raises outside an append.
LEMMA DurRaise ==
  ASSUME TypeInv, LogInv, DurInv, TypeInv', LogInv', op.pc # "idle", Raise,
         op.pc # "createSync", InAppend => Active = NoFile
  PROVE  DurInv'
<1>1. /\ op' = Idle
      /\ \A e \in Events : /\ call'[e].ts = call[e].ts
                           /\ call'[e].st = IF e = op.ev THEN "failed" ELSE call[e].st
  BY ReleaseFacts DEF Raise
<1>2. UNCHANGED <<clock, files, dirs>> /\ clock \in Nat /\ clock <= clock
  BY DEF Raise, TypeInv, TypeOK
<1>3. op'.pc # "append" /\ \A e \in Events : call'[e].st = "acked" => call[e].st = "acked"
  BY <1>1 DEF Idle
<1> QED BY <1>1, <1>2, <1>3, DurQuiet

\* Every action keeps what is acknowledged durable.
LEMMA DurInvStep ==
  ASSUME Tolerated, "power" \in Faults, TypeInv, LogInv, DurInv, TypeInv', LogInv', Next
  PROVE  DurInv'
<1>0. /\ clock \in Nat /\ clock <= clock /\ call \in [Events -> CallType]
      /\ op \in OpType /\ dirs # <<>> /\ dirs \in Seq(DirView) /\ Len(dirs) \in Nat
  <2>1. call \in [Events -> CallType] /\ op \in OpType
    BY TypeParts DEF TypeInv
  <2>2. clock \in Nat /\ dirs # <<>> /\ dirs \in Seq(DirView)
    BY DEF TypeInv, TypeOK
  <2>3. clock <= clock /\ Len(dirs) \in Nat
    BY <2>2, LenProperties
  <2> QED BY <2>1, <2>2, <2>3
<1>1. ASSUME NEW e \in Events, Submit(e) PROVE DurInv'
  <2>1. PICK n \in 1..MaxLine :
          call' = [call EXCEPT ![e] = [st |-> "waiting", ts |-> clock, len |-> n]]
    BY <1>1 DEF Submit
  <2>2. UNCHANGED <<clock, op, mem, files, dirs>> /\ call[e].st = "new"
    BY <1>1 DEF Submit
  <2>3. \A d \in Events : /\ call[d].st # "new" => call'[d] = call[d]
                          /\ call'[d].st = "acked" => call[d].st = "acked"
    BY <1>0, <2>1, <2>2
  <2> QED BY <1>0, <2>2, <2>3, DurQuiet
<1>2. ASSUME NEW e \in Events, Acquire(e) PROVE DurInv'
  <2>1. /\ call' = [call EXCEPT ![e].st = "holding"] /\ op.pc = "idle"
        /\ op' = [Idle EXCEPT !.pc = "prepare", !.ev = e, !.now = clock]
        /\ UNCHANGED <<clock, files, dirs>>
    BY <1>2 DEF Acquire
  <2>2. \A d \in Events : /\ call'[d].ts = call[d].ts
                          /\ call'[d].st = "acked" => call[d].st = "acked"
    BY <1>0, <2>1 DEF CallType
  <2>3. op'.pc = "prepare" /\ ~InAppend
    BY <2>1 DEF Idle, InAppend
  <2> QED BY <1>0, <2>1, <2>2, <2>3, DurQuiet
<1>3. ASSUME op.pc = "prepare", UNCHANGED <<clock, call, files, dirs>>,
             op'.pc = "append" => mem.loaded
      PROVE  DurInv'
  <2>1. op'.pc = "append" /\ Active # NoFile => StrictJsonl(Active)
    BY <1>3 DEF LogInv, HolderLog, Strict
  <2>2. ~InAppend
    BY <1>3 DEF InAppend
  <2> QED BY <1>0, <1>3, <2>1, <2>2, DurQuiet
<1>4. ASSUME LoadAbsent \/ LoadExisting \/ DecideRotation PROVE DurInv'
  BY <1>0, <1>3, <1>4 DEF LoadAbsent, LoadExisting, DecideRotation, Goto, OpType
<1>5. ASSUME LoadRejected \/ RenameMissing \/ AppendMissing PROVE DurInv'
  BY <1>5, DurRaise DEF LoadRejected, RenameMissing, AppendMissing, InAppend
<1>6. ASSUME SystemCallFails PROVE DurInv'
  <2>1. op.pc # "idle" /\ Raise /\ NextSystemCall \cap Faults # {}
    BY <1>6 DEF SystemCallFails, GoesWrong
  <2>2. ~InAppend /\ op.pc # "createSync"
    BY <2>1 DEF NextSystemCall, Tolerated, InAppend
  <2> QED BY <2>1, <2>2, DurRaise
\* The steps that sync the directory, or show one more view of it.
<1>7. ASSUME dirs' = <<View>> \/ dirs' = Append(dirs, View')
      PROVE  \A w \in 1..Len(dirs') : \/ \E v \in 1..Len(dirs) : dirs'[w] = dirs[v]
                                      \/ dirs'[w] = View'
  <2>1. CASE dirs' = <<View>>
    BY <1>0, <2>1, EmptySeq DEF View
  <2>2. CASE dirs' = Append(dirs, View')
    <3>1. View' \in DirView
      <4>1. dirs' \in Seq(DirView) /\ dirs' # <<>>
        BY DEF TypeInv, TypeOK
      <4>2. Len(dirs') \in 1..Len(dirs')
        BY <4>1, EmptySeq
      <4> QED BY <4>1, <4>2, ElementOfSeq DEF View
    <3>2. /\ Len(dirs') = Len(dirs) + 1 /\ dirs'[Len(dirs) + 1] = View'
          /\ \A v \in 1..Len(dirs) : dirs'[v] = dirs[v]
      BY <1>0, <2>2, <3>1, AppendProperties
    <3> QED BY <1>0, <3>2
  <2> QED BY <1>7, <2>1, <2>2
<1>8. ASSUME RenameSync PROVE DurInv'
  <2>1. /\ op.pc = "renamed" /\ op'.pc = "create" /\ UNCHANGED <<clock, call, files>>
        /\ dirs' = <<View>> /\ View' = View /\ Active' = Active /\ Active = NoFile
    BY <1>0, <1>8, FsyncParentDisk DEF RenameSync, Goto, FsyncParent, OpType, LogInv,
       HolderLog, HolderKnows
  <2>2. SafeWhole' /\ ActiveDurable'
    BY <2>1 DEF SafeWhole, ActiveDurable
  <2>3. ~InAppend /\ ~InAppend'
    BY <2>1 DEF InAppend
  <2> QED BY <1>0, <1>7, <2>1, <2>2, <2>3, DurDirs
<1>9. ASSUME CreateSync PROVE DurInv'
  <2>1. /\ op.pc = "createSync" /\ op'.pc = "append" /\ UNCHANGED <<clock, call, files>>
        /\ dirs' = <<View>> /\ View' = View /\ Active' = Active
    BY <1>0, <1>9, FsyncParentDisk DEF CreateSync, Goto, FsyncParent, OpType
  <2>2. Len(dirs') = 1 /\ dirs'[1] = View
    BY <2>1
  <2>3. ActiveDurable'
    BY <2>1, <2>2 DEF ActiveDurable, Active
  <2>4. SafeWhole'
    <3> SUFFICES ASSUME Active # NoFile PROVE ~ \E i : i \in 1..files[Active].safe
      BY <2>1 DEF SafeWhole
    <3>1. Lines(Active) = <<>> /\ Active \in FileIds
      BY <2>1, ViewFacts DEF LogInv, HolderLog, HolderKnows, TypeInv
    <3>2. Len(Lines(Active)) = 0 /\ files[Active].safe \in Nat
          /\ files[Active].safe <= Len(Lines(Active))
      BY <3>1, SafeFacts DEF DurInv, AllSynced
    <3> QED BY <3>2
  <2>5. \A w \in 1..Len(dirs') : \E v \in 1..Len(dirs) : dirs'[w] = dirs[v]
    BY <1>0, <2>2, EmptySeq DEF View
  <2>6. ~InAppend
    BY <2>1 DEF InAppend
  <2> QED BY <1>0, <2>1, <2>3, <2>4, <2>5, <2>6, DurDirs
<1>10. ASSUME Rename PROVE DurInv'
  <2>1. /\ op.pc = "rotate" /\ op'.pc = "renamed" /\ UNCHANGED <<clock, call, files>>
        /\ dirs' = Append(dirs, View') /\ Active' = NoFile
    BY <1>0, <1>10, RenameDisk DEF Rename, Goto, ChangeDir, OpType, Active
  <2>2. SafeWhole' /\ ActiveDurable'
    BY <2>1 DEF SafeWhole, ActiveDurable
  <2>3. ~InAppend /\ ~InAppend'
    BY <2>1 DEF InAppend
  <2> QED BY <1>0, <1>7, <2>1, <2>2, <2>3, DurDirs
\* While expired segments are unlinked the active file keeps its name.
<1>11. ASSUME op.pc = "prune", op'.pc # "append", UNCHANGED <<clock, files>>,
              dirs' = <<View>> \/ dirs' = Append(dirs, View') \/ dirs' = dirs,
              Active' = Active, ~InAppend',
              \A e \in Events : /\ call'[e].ts = call[e].ts
                                /\ call'[e].st = "acked" => call[e].st = "acked" \/ e = op.ev
       PROVE  DurInv'
  <2>1. \A w \in 1..Len(dirs') : \/ \E v \in 1..Len(dirs) : dirs'[w] = dirs[v]
                                 \/ dirs'[w] = View'
    BY <1>7, <1>11
  <2>2. ActiveDurable'
    <3> SUFFICES ASSUME Active # NoFile, NEW w \in 1..Len(dirs') PROVE dirs'[w].active = Active
      BY <1>11 DEF ActiveDurable
    <3>1. \A v \in 1..Len(dirs) : dirs[v].active = Active
      BY <1>11 DEF DurInv, ActiveDurable
    <3> QED BY <1>11, <2>1, <3>1 DEF Active
  <2>3. SafeWhole'
    BY <1>11 DEF SafeWhole
  <2>4. ~InAppend
    BY <1>11 DEF InAppend
  <2> QED BY <1>0, <1>11, <2>1, <2>2, <2>3, <2>4, DurDirs
<1>12. ASSUME PruneOne PROVE DurInv'
  <2>1. op.pc = "prune" /\ op'.pc = "prune" /\ UNCHANGED <<clock, call, files>>
    BY <1>0, <1>12 DEF PruneOne, OpType
  <2>2. dirs' = Append(dirs, View') /\ Active' = Active
    <3>1. PICK s \in Expired : View' = [View EXCEPT !.segs = @ \ {s}]
                               /\ ChangeDir([View EXCEPT !.segs = @ \ {s}])
      <4>1. PICK s \in Expired : ChangeDir([View EXCEPT !.segs = @ \ {s}])
        BY <1>12 DEF PruneOne
      <4>2. View' = [View EXCEPT !.segs = @ \ {s}]
        BY <1>0, <4>1 DEF View, ChangeDir
      <4> QED BY <4>1, <4>2
    <3>2. View \in DirView
      BY ViewFacts DEF TypeInv
    <3> QED BY <3>1, <3>2 DEF ChangeDir, Active, DirView
  <2>3. ~InAppend'
    BY <2>1 DEF InAppend
  <2> QED BY <1>11, <2>1, <2>2, <2>3
<1>13. ASSUME Finish PROVE DurInv'
  <2>1. /\ op' = Idle
        /\ \A e \in Events : /\ call'[e].ts = call[e].ts
                             /\ call'[e].st = IF e = op.ev THEN "acked" ELSE call[e].st
    BY <1>13, ReleaseFacts DEF Finish
  <2>2. op.pc = "prune" /\ op'.pc = "idle" /\ ~InAppend' /\ UNCHANGED <<clock, files>>
    BY <1>13, <2>1 DEF Finish, Idle, InAppend
  <2>3. (dirs' = <<View>> \/ dirs' = dirs) /\ Active' = Active
    <3>1. CASE FsyncParent
      BY <2>2, <3>1, FsyncParentDisk DEF FsyncParent
    <3>2. CASE UNCHANGED dirs
      BY <3>2 DEF Active, View
    <3> QED BY <1>13, <3>1, <3>2 DEF Finish
  <2> QED BY <1>11, <2>1, <2>2, <2>3
<1>14. ASSUME Crash PROVE DurInv'
  BY <1>14 DEF Crash, GoesWrong, Tolerated
<1>15. ASSUME Tick \/ Rest PROVE DurInv'
  <2>1. UNCHANGED <<call, op, files, dirs>> /\ clock' \in Nat /\ clock <= clock'
    BY <1>0, <1>15 DEF Tick, Rest, vars
  <2> QED BY <2>1, DurQuiet
<1> QED
  BY <1>1, <1>2, <1>4, <1>5, <1>6, <1>8, <1>9, <1>10, <1>12, <1>13, <1>14, <1>15,
     DurCreates, DurWrites, DurSyncs, PowerLossKeeps
  DEF Next, HolderStep

\* An empty log is durable.
LEMMA DurInvInit ==
  ASSUME Init
  PROVE  DurInv
<1>1. FileIds = {} /\ Active = NoFile /\ Len(dirs) = 1 /\ dirs[1].segs = {}
  BY DEF Init, View, Active, FileIds
<1> QED BY <1>1 DEF Init, DurInv, AllSynced, SafeWhole, LinesSound, ActiveDurable,
        ViewsSound, AckedDurable

\* An empty log satisfies it.
LEMMA LogInvInit ==
  ASSUME Init
  PROVE  LogInv
<1>1. View = [active |-> NoFile, segs |-> {}] /\ files = <<>> /\ FileIds = {}
  BY DEF Init, View, FileIds
<1>2. Linked(View) = {} /\ Segments = {} /\ Active = NoFile
  BY <1>1 DEF Linked, Segments, Active
<1>3. DiskInv
  BY <1>1, <1>2 DEF Init, DiskInv, AckedKept, SegmentsClosed, StampsCover, Submitted,
     BoundedSegments
<1>4. HolderLog
  BY <1>2 DEF Init, Idle, HolderLog, Stored, NewestCovers, Strict, Writing, SizeCovers,
     HolderKnows
<1> QED BY <1>3, <1>4 DEF LogInv

\* The inductive invariant of the log holds in every reachable state, whatever goes
\* wrong that is tolerated; where the power may be lost, so does that of the durable
\* log.
THEOREM LogInvariant ==
  ASSUME Tolerated
  PROVE  Spec => [](TypeInv /\ LogInv /\ ("power" \in Faults => DurInv))
<1> DEFINE Durable == "power" \in Faults => DurInv
<1>1. Init => TypeInv /\ LogInv /\ Durable
  BY TypeInvInit, LogInvInit, DurInvInit
<1>2. TypeInv /\ LogInv /\ Durable /\ [Next]_vars => (TypeInv /\ LogInv /\ Durable)'
  <2> SUFFICES ASSUME TypeInv, LogInv, Durable, [Next]_vars
               PROVE  (TypeInv /\ LogInv /\ Durable)'
    OBVIOUS
  <2>1. TypeInv'
    BY TypeInvStep, TypeInvStutter
  <2>2. clock \in Nat /\ clock <= clock
    BY DEF TypeInv, TypeOK
  <2>3. CASE Next
    <3>1. LogInv'
      BY <2>3, LogInvStep
    <3> QED BY <2>1, <2>3, <3>1, DurInvStep
  <2>4. CASE UNCHANGED vars
    <3>1. UNCHANGED <<clock, call, op, mem, files, dirs>>
      BY <2>4 DEF vars
    <3>2. LogInv'
      BY <2>2, <3>1, OutsideKeeps
    <3> QED BY <2>1, <2>2, <3>1, <3>2, DurQuiet
  <2> QED BY <2>3, <2>4
<1> QED BY <1>1, <1>2, PTL DEF Spec

\* What record() acknowledged can be read back until its retention is over, for
\* any number of events and any failures of the rotation's and the retention's system
\* calls, and for any number of crashes of the process or of losses of power.
THEOREM AckedEventsKept ==
  ASSUME Tolerated
  PROVE  Spec => []AckedKept
<1>1. TypeInv /\ LogInv => AckedKept
  BY DEF LogInv, DiskInv
<1> QED BY <1>1, LogInvariant, PTL

\* No file of the log outgrows segment_max_bytes.
THEOREM SegmentsBounded ==
  ASSUME Tolerated
  PROVE  Spec => []BoundedSegments
<1>1. TypeInv /\ LogInv => BoundedSegments
  BY DEF LogInv, DiskInv
<1> QED BY <1>1, LogInvariant, PTL

\* A malformed line is the last one of the active file, if there is one.
THEOREM LogStrict ==
  ASSUME Tolerated
  PROVE  Spec => []OnlyTailMalformed
<1>1. TypeInv /\ LogInv => OnlyTailMalformed
  <2> SUFFICES ASSUME TypeInv, LogInv, NEW f \in Linked(View),
                      NEW i \in 1..Len(Lines(f)), Lines(f)[i].kind # "event"
               PROVE  f = Active /\ i = Len(Lines(f))
    BY DEF OnlyTailMalformed
  <2>1. f = Active
    BY LinkedFacts DEF LogInv, DiskInv, SegmentsClosed, StrictJsonl
  <2>2. Active # NoFile
    BY <2>1, LinkedFacts DEF FileIds, NoFile
  <2>3. Len(Lines(f)) \in Nat
    BY LinkedFacts, FileFacts DEF TypeInv
  <2> QED BY <2>1, <2>2, <2>3 DEF LogInv, HolderLog, Writing, WholeLine
<1> QED BY <1>1, LogInvariant, PTL
=============================================================================
