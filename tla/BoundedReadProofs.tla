------------------------- MODULE BoundedReadProofs -------------------------
(***************************************************************************)
(* Proofs about BoundedRead: what a bounded read of a changing file        *)
(* returns, for every limit, every length and any number of changes.       *)
(***************************************************************************)
EXTENDS BoundedRead, TLAPS, SequenceTheorems

-----------------------------------------------------------------------------
(* Sequences of bytes *)

\* Bytes written by one change.
LEMMA SameBytes ==
  ASSUME NEW n \in Nat, NEW v \in Nat
  PROVE  [i \in 1..n |-> v] \in Seq(Nat) /\ Len([i \in 1..n |-> v]) = n
OBVIOUS

\* A prefix that is as long as the whole is the whole.
LEMMA WholePrefix ==
  ASSUME NEW p \in Seq(Nat), NEW d \in Seq(Nat), Prefix(p, d), Len(p) >= Len(d)
  PROVE  p = d
<1>1. Len(p) = Len(d)
  BY LenProperties DEF Prefix
<1> QED BY <1>1, SeqEqual DEF Prefix

\* Reading on at the place where the payload ends: it grows by what was read,
\* and it stays a prefix of the file if it was one.
LEMMA ReadOn ==
  ASSUME NEW p \in Seq(Nat), NEW d \in Seq(Nat), NEW n \in Nat \ {0},
         Len(p) + n <= Len(d),
         NEW q, q = p \o SubSeq(d, Len(p) + 1, Len(p) + n)
  PROVE  /\ q \in Seq(Nat) /\ Len(q) = Len(p) + n
         /\ Prefix(p, d) => Prefix(q, d)
<1> DEFINE s == SubSeq(d, Len(p) + 1, Len(p) + n)
<1>1. Len(p) \in Nat /\ Len(d) \in Nat
  BY LenProperties
<1>2. \A i \in (Len(p) + 1)..(Len(p) + n) : d[i] \in Nat
  BY <1>1, ElementOfSeq
<1>3. /\ s \in Seq(Nat) /\ Len(s) = n
      /\ \A i \in 1..n : s[i] = d[Len(p) + i]
  <2>1. Len(p) + 1 \in Int /\ Len(p) + n \in Int /\ Len(p) + 1 <= Len(p) + n
        /\ Len(p) + n - (Len(p) + 1) + 1 = n
        /\ \A i \in 1..n : Len(p) + 1 + i - 1 = Len(p) + i
    BY <1>1
  <2>2. /\ s \in Seq(Nat)
        /\ Len(s) = IF Len(p) + 1 <= Len(p) + n THEN Len(p) + n - (Len(p) + 1) + 1 ELSE 0
        /\ \A i \in 1..(Len(p) + n - (Len(p) + 1) + 1) : s[i] = d[Len(p) + 1 + i - 1]
    BY <1>2, <2>1, SubSeqProperties
  <2> QED BY <2>1, <2>2
<1>4. /\ q \in Seq(Nat) /\ Len(q) = Len(p) + n
      /\ \A i \in 1..(Len(p) + n) : q[i] = IF i <= Len(p) THEN p[i] ELSE s[i - Len(p)]
  <2>1. q = p \o s
    OBVIOUS
  <2> HIDE DEF s
  <2>2. /\ p \o s \in Seq(Nat) /\ Len(p \o s) = Len(p) + n
        /\ \A i \in 1..(Len(p) + n) :
             (p \o s)[i] = IF i <= Len(p) THEN p[i] ELSE s[i - Len(p)]
    <3>1. /\ p \o s \in Seq(Nat) /\ Len(p \o s) = Len(p) + Len(s)
          /\ \A i \in 1..(Len(p) + Len(s)) :
               (p \o s)[i] = IF i <= Len(p) THEN p[i] ELSE s[i - Len(p)]
      BY <1>3, ConcatProperties
    <3> QED BY <1>3, <3>1
  <2> QED BY <2>1, <2>2
<1> HIDE DEF s
<1>5. ASSUME Prefix(p, d), NEW i \in 1..Len(q)
      PROVE  q[i] = d[i]
  <2>1. CASE i <= Len(p)
    <3>1. i \in 1..Len(p) /\ i \in 1..(Len(p) + n)
      BY <1>1, <1>4, <2>1
    <3>2. q[i] = p[i]
      BY <1>4, <2>1, <3>1
    <3> QED BY <1>5, <3>1, <3>2 DEF Prefix
  <2>2. CASE ~(i <= Len(p))
    <3>1. i - Len(p) \in 1..n /\ Len(p) + (i - Len(p)) = i /\ i \in 1..(Len(p) + n)
      BY SMTT(30), <1>1, <1>4, <2>2
    <3> QED BY <1>3, <1>4, <2>2, <3>1
  <2> QED BY <2>1, <2>2
<1>6. Prefix(p, d) => Prefix(q, d)
  BY <1>4, <1>5 DEF Prefix
<1> QED BY <1>4, <1>6

-----------------------------------------------------------------------------
(* The world *)

\* What any change does to the files: they stay the files they were, and one
\* whose bytes change gets a time of its own.
FilesChange ==
  /\ files' \in Seq(File) /\ Len(files) <= Len(files')
  /\ \A f \in FileIds :
       /\ files'[f].regular = files[f].regular
       /\ \/ files'[f].mtime = now + 1
          \/ files'[f].mtime = files[f].mtime /\ files'[f].data = files[f].data
  /\ \A f \in FileIds' : files'[f].mtime <= now + 1

Times == \A f \in FileIds : files[f].mtime <= now

\* What TypeOK says of one file and of the clock.
LEMMA FileFacts ==
  ASSUME TypeOK
  PROVE  /\ Len(files) \in Nat /\ now \in Nat
         /\ \A f \in FileIds :
              /\ files[f] \in File
              /\ files[f].data \in Seq(Nat) /\ Len(files[f].data) \in Nat
              /\ files[f].mtime \in Nat /\ files[f].regular \in BOOLEAN
<1>1. \A f \in FileIds : files[f] \in File
  BY ElementOfSeq DEF TypeOK, FileIds
<1>2. Len(files) \in Nat /\ now \in Nat
  BY LenProperties DEF TypeOK
<1> QED BY <1>1, <1>2, LenProperties DEF File

\* Files that keep their bytes and their times.
LEMMA SameFilesChange ==
  ASSUME TypeOK, Times, files' \in Seq(File), Len(files') = Len(files),
         \A f \in FileIds : /\ files'[f].regular = files[f].regular
                            /\ files'[f].mtime = files[f].mtime
                            /\ files'[f].data = files[f].data
  PROVE  FilesChange
<1>1. FileIds' = FileIds
  BY DEF FileIds
<1>2. \A f \in FileIds : files'[f].mtime <= now + 1
  BY FileFacts DEF Times
<1> QED BY <1>1, <1>2, FileFacts DEF FilesChange

\* A write in place is such a change, whatever bytes it leaves.
LEMMA WriteFacts ==
  ASSUME TypeOK, Times, NEW f \in FileIds, NEW d \in Seq(Nat), Write(f, d)
  PROVE  FilesChange /\ path' = path /\ Change
<1> DEFINE new == [files[f] EXCEPT !.data = d, !.mtime = now + 1]
<1>1. new \in File /\ new.mtime = now + 1 /\ new.regular = files[f].regular
  <2>1. files[f] \in File /\ now + 1 \in Nat
    BY FileFacts
  <2> QED BY <2>1 DEF File
<1>2. files' = [files EXCEPT ![f] = new]
  BY DEF Write
<1> HIDE DEF new
<1>3. /\ files' \in Seq(File) /\ Len(files') = Len(files)
      /\ \A g \in FileIds : files'[g] = IF g = f THEN new ELSE files[g]
  BY <1>1, <1>2, ExceptSeq DEF TypeOK, FileIds
<1>4. FileIds' = FileIds
  BY <1>3 DEF FileIds
<1>5. \A g \in FileIds : files'[g].mtime <= now + 1
  BY SMTT(30), <1>1, <1>3, FileFacts DEF Times
<1>6. \A g \in FileIds :
        /\ files'[g].regular = files[g].regular
        /\ \/ files'[g].mtime = now + 1
           \/ files'[g].mtime = files[g].mtime /\ files'[g].data = files[g].data
  BY <1>1, <1>3
<1>7. Len(files) <= Len(files')
  BY <1>3, FileFacts
<1> QED BY <1>3, <1>4, <1>5, <1>6, <1>7 DEF FilesChange, Write

\* Every step of the world is a change of the files, moves the clock and leaves
\* the call alone but for its calm.
LEMMA WorldFacts ==
  ASSUME TypeOK, Times, World
  PROVE  /\ FilesChange
         /\ path' \in FileIds' \cup {NoFile}
         /\ Change
<1>1. ASSUME NEW f \in FileIds, AppendTo(f) \/ Overwrite(f) \/ Truncate(f)
      PROVE  \E d \in Seq(Nat) : Write(f, d)
  <2>1. files[f].data \in Seq(Nat) /\ now + 1 \in Nat /\ Len(files[f].data) \in Nat
    BY FileFacts
  <2>2. CASE AppendTo(f)
    <3>1. PICK n \in 1..(MaxLength - Len(files[f].data)) :
            Write(f, files[f].data \o [i \in 1..n |-> now + 1])
      BY <2>2 DEF AppendTo
    <3>2. n \in Nat
      BY <2>1, LimitAssumption
    <3>3. files[f].data \o [i \in 1..n |-> now + 1] \in Seq(Nat)
      BY <2>1, <3>2, SameBytes, ConcatProperties
    <3> QED BY <3>1, <3>3
  <2>3. CASE Overwrite(f)
    <3>1. PICK i \in 1..Len(files[f].data) : Write(f, [files[f].data EXCEPT ![i] = now + 1])
      BY <2>3 DEF Overwrite
    <3>2. [files[f].data EXCEPT ![i] = now + 1] \in Seq(Nat)
      BY <2>1, ExceptSeq
    <3> QED BY <3>1, <3>2
  <2>4. CASE Truncate(f)
    <3>1. PICK n \in 0..(Len(files[f].data) - 1) : Write(f, SubSeq(files[f].data, 1, n))
      BY <2>4 DEF Truncate
    <3>2. n \in Int /\ \A i \in 1..n : i \in 1..Len(files[f].data)
      BY <2>1
    <3>4. \A i \in 1..n : files[f].data[i] \in Nat
      BY <2>1, <3>2, ElementOfSeq
    <3>3. SubSeq(files[f].data, 1, n) \in Seq(Nat)
      BY <3>2, <3>4, SubSeqProperties
    <3> QED BY <3>1, <3>3
  <2> QED BY <1>1, <2>2, <2>3, <2>4
<1>2. ASSUME NEW f \in FileIds, NEW d \in Seq(Nat), Write(f, d)
      PROVE  FilesChange /\ path' \in FileIds' \cup {NoFile} /\ Change
  <2>1. FilesChange /\ path' = path /\ Change
    BY <1>2, WriteFacts
  <2>2. FileIds \subseteq FileIds'
    BY <2>1, LenProperties DEF FilesChange, FileIds, TypeOK
  <2> QED BY <2>1, <2>2 DEF TypeOK
<1>3. ASSUME NEW f \in FileIds, PutBack(f)
      PROVE  FilesChange /\ path' \in FileIds' \cup {NoFile} /\ Change
  <2>1. files' = files /\ path' = f /\ Change
    BY <1>3 DEF PutBack
  <2>2. FilesChange
    BY <2>1, SameFilesChange DEF TypeOK
  <2> QED BY <2>1, <2>2 DEF FileIds
<1>4. ASSUME NEW f \in FileIds, Relink(f)
      PROVE  FilesChange /\ path' \in FileIds' \cup {NoFile} /\ Change
  <2> DEFINE new == [files[f] EXCEPT !.links = 3 - files[f].links]
  <2>1. /\ new \in File /\ new.data = files[f].data
        /\ new.mtime = files[f].mtime /\ new.regular = files[f].regular
    <3>1. files[f] \in File
      BY FileFacts
    <3> QED BY <3>1 DEF File
  <2>2. files' = [files EXCEPT ![f] = new] /\ path' = path /\ Change
    BY <1>4 DEF Relink
  <2> HIDE DEF new
  <2>3. /\ files' \in Seq(File) /\ Len(files') = Len(files)
        /\ \A g \in FileIds : files'[g] = IF g = f THEN new ELSE files[g]
    BY <2>1, <2>2, ExceptSeq DEF TypeOK, FileIds
  <2>4. FilesChange
    BY <2>1, <2>3, SameFilesChange
  <2> QED BY <2>2, <2>3, <2>4 DEF TypeOK, FileIds
<1>5. ASSUME Replace
      PROVE  FilesChange /\ path' \in FileIds' \cup {NoFile} /\ Change
  <2>1. PICK n \in 0..MaxLength, time \in 0..(now + 1), regular \in BOOLEAN :
          files' = Append(files, [data |-> [i \in 1..n |-> now + 1], mtime |-> time,
                                  regular |-> regular, links |-> 1])
    BY <1>5 DEF Replace
  <2> DEFINE new == [data |-> [i \in 1..n |-> now + 1], mtime |-> time,
                     regular |-> regular, links |-> 1]
  <2>2. new \in File /\ new.mtime <= now + 1
    <3>1. n \in Nat /\ now + 1 \in Nat /\ time \in Nat /\ time <= now + 1
      BY LimitAssumption DEF TypeOK
    <3>2. [i \in 1..n |-> now + 1] \in Seq(Nat)
      BY <3>1, SameBytes
    <3> QED BY <3>1, <3>2 DEF File
  <2> HIDE DEF new
  <2>3. files' = Append(files, new)
    BY <2>1 DEF new
  <2>4. /\ files' \in Seq(File) /\ Len(files') = Len(files) + 1 /\ Len(files) \in Nat
        /\ \A f \in FileIds : files'[f] = files[f] /\ files[f] \in File
        /\ files'[Len(files) + 1] = new
    BY <2>2, <2>3, AppendProperties, LenProperties, ElementOfSeq DEF TypeOK, FileIds
  <2> QED BY SMTT(30), <1>5, <2>2, <2>4 DEF Replace, FilesChange, TypeOK, FileIds, Times, File
<1>6. ASSUME Remove
      PROVE  FilesChange /\ path' \in FileIds' \cup {NoFile} /\ Change
  <2>1. files' = files /\ path' = NoFile /\ Change
    BY <1>6 DEF Remove
  <2>2. FilesChange
    BY <2>1, SameFilesChange DEF TypeOK
  <2> QED BY <2>1, <2>2
<1> QED BY <1>1, <1>2, <1>3, <1>4, <1>5, <1>6 DEF World
-----------------------------------------------------------------------------
(* The invariant *)

\* Which protocol is where, and when nothing has been read yet.
Phases ==
  /\ call.pc = "size" => call.how = "text"
  /\ call.pc = "verify" => call.how = "metadata"
  /\ call.pc = "descriptor" => call.how = "resolved"
  /\ call.how = "descriptor" => call.pc # "stat"
  /\ call.pc \in {"stat", "size", "open", "fstat", "descriptor"} => call.payload = <<>>

\* The file the metadata reader or the fallback examined has not been written since.
Unwritten == files[call.before.id].mtime = call.before.mtime

\* As long as it is not, it is the size it was, and what was read of it is how
\* it begins; when the read has ended, it is all of it.
Examined ==
  call.how = "metadata" /\ call.pc \in {"open", "fstat", "read", "verify"} =>
    /\ call.before.id \in FileIds /\ call.before.mtime <= now
    /\ files[call.before.id].regular
    /\ call.pc \in {"read", "verify"} =>
         /\ call.fd = call.before.id
         /\ Unwritten => Prefix(call.payload, Opened.data)
    /\ call.pc = "verify" => (Unwritten => Length >= Len(Opened.data))

\* The resolved reader's descriptor is that of the file it examined.
SameFile ==
  call.how = "resolved" /\ call.pc \in {"descriptor", "read", "done", "over"} =>
    call.fd = call.before.id

\* While nobody touches anything, the reader knows what it looks at.
Calm ==
  call.calm =>
    /\ call.pc \in {"size", "open"} /\ call.how # "descriptor" =>
         path # NoFile /\ Named.regular
    /\ call.pc = "open" /\ call.how \in {"text", "metadata"} => Len(Named.data) <= Limit
    /\ call.pc \in {"open", "fstat", "read", "verify"} /\ call.how = "metadata" =>
         call.before = Stat(path)
    /\ call.pc \in {"open", "fstat", "descriptor"} /\ call.how = "resolved" =>
         path # NoFile /\ call.before = Stat(path) /\ Named.links = 1
    /\ call.pc \in {"fstat", "descriptor", "read", "verify"} => call.fd = path
    /\ call.pc \in {"fstat", "read", "verify"} /\ call.how = "metadata" => Named.regular
    /\ call.pc = "read" => Prefix(call.payload, Named.data) /\ Len(Named.data) <= Limit
    /\ call.pc = "verify" => call.payload = Named.data /\ Len(Named.data) <= Limit

IInv ==
  /\ TypeOK /\ Times /\ Phases /\ Examined /\ SameFile /\ Calm
  /\ ReadsBounded /\ QuietReadExact

\* Every call starts in the invariant.
LEMMA InitInvariant == Init => IInv
<1> SUFFICES ASSUME Init PROVE IInv
  OBVIOUS
<1>1. PICK n \in 0..MaxLength, regular \in BOOLEAN, links \in {1, 2} :
        files = <<[data |-> [i \in 1..n |-> 0], mtime |-> 0,
                   regular |-> regular, links |-> links]>>
  BY DEF Init
<1>2. PICK how \in Protocols :
        call = [how |-> how, pc |-> IF how = "descriptor" THEN "open" ELSE "stat",
                before |-> NoStat, fd |-> NoFile, payload |-> <<>>, calm |-> TRUE]
  BY DEF Init
<1>3. n \in Nat /\ [i \in 1..n |-> 0] \in Seq(Nat)
  BY LimitAssumption, SameBytes
<1>4. files \in Seq(File) /\ Len(files) = 1 /\ files[1].mtime = 0
  BY <1>1, <1>3 DEF File
<1>5. FileIds = {1}
  BY <1>4 DEF FileIds
<1>6. call.payload = <<>> /\ Len(<<>>) = 0 /\ <<>> \in Seq(Nat)
  BY <1>2
<1>7. TypeOK
  BY <1>2, <1>4, <1>5, <1>6 DEF Init, TypeOK, PCs, Over, NoStat, StatResult, NoFile
<1>8. Times
  BY <1>4, <1>5 DEF Init, Times
<1>9. call.pc \in {"stat", "open"} /\ (call.pc = "open" <=> call.how = "descriptor")
  BY <1>2
<1>10. Phases /\ Examined /\ SameFile
  BY <1>6, <1>9 DEF Phases, Examined, SameFile
<1>11. Calm /\ ReadsBounded /\ QuietReadExact
  BY <1>6, <1>9, LimitAssumption DEF Calm, ReadsBounded, QuietReadExact, Length
<1> QED BY <1>7, <1>8, <1>10, <1>11 DEF IInv

\* A change of the world keeps it: a byte written is a time changed.
LEMMA WorldInvariant ==
  ASSUME IInv, World
  PROVE  IInv'
<1>1. /\ FilesChange /\ path' \in FileIds' \cup {NoFile}
      /\ now' = now + 1 /\ call' = [call EXCEPT !.calm = FALSE]
  BY WorldFacts DEF IInv, Change
<1>2. FileIds \subseteq FileIds' /\ now \in Nat
  BY <1>1, FileFacts, LenProperties DEF FilesChange, FileIds, IInv
<1>3. /\ call'.how = call.how /\ call'.pc = call.pc /\ call'.before = call.before
      /\ call'.fd = call.fd /\ call'.payload = call.payload /\ call'.calm = FALSE
      /\ call.before \in StatResult
  BY <1>1 DEF IInv, TypeOK
<1>4. TypeOK'
  <2>1. call' \in [how: Protocols, pc: PCs, before: StatResult,
                  fd: FileIds' \cup {NoFile}, payload: Seq(Nat), calm: BOOLEAN]
    BY <1>1, <1>2 DEF IInv, TypeOK
  <2> QED BY <1>1, <1>2, <1>3, <2>1 DEF IInv, TypeOK, FilesChange
<1>5. Times'
  BY <1>1 DEF FilesChange, Times
<1>6. Phases' /\ SameFile' /\ ReadsBounded'
  BY <1>3 DEF IInv, Phases, SameFile, ReadsBounded, Length
<1>7. Calm' /\ QuietReadExact'
  BY <1>3 DEF Calm, QuietReadExact
<1>8. Examined'
  <2> SUFFICES ASSUME call.how = "metadata", call.pc \in {"open", "fstat", "read", "verify"}
               PROVE  Examined'
    BY <1>3 DEF Examined
  <2> DEFINE f == call.before.id
  <2>1. f \in FileIds /\ call.before.mtime <= now /\ files[f].regular
    BY DEF IInv, Examined
  <2>2. call.before.mtime <= now + 1 /\ call.before.mtime # now + 1
    BY <1>2, <1>3, <2>1 DEF StatResult
  <2>3. /\ files'[f].regular
        /\ Unwritten' => Unwritten /\ files'[f].data = files[f].data
    BY <1>1, <1>3, <2>1, <2>2 DEF FilesChange, Unwritten
  <2>4. call.pc \in {"read", "verify"} =>
          /\ call.fd = f
          /\ Unwritten' => Prefix(call.payload, files'[call.fd].data)
    BY <2>3 DEF IInv, Examined, Opened
  <2>5. call.pc = "verify" => (Unwritten' => Length >= Len(files'[call.fd].data))
    BY <2>3 DEF IInv, Examined, Opened
  <2> QED BY <1>1, <1>2, <1>3, <2>1, <2>2, <2>3, <2>4, <2>5 DEF Examined, Opened, Length
<1> QED BY <1>4, <1>5, <1>6, <1>7, <1>8 DEF IInv
\* The world stands still while the reader takes a step, and only what the call
\* changed remains to be looked at.
LEMMA QuietFacts ==
  ASSUME IInv, Quiet
  PROVE  /\ files' = files /\ path' = path /\ now' = now /\ Times'
         /\ FileIds' = FileIds /\ Named' = Named
         /\ \A f : (Stat(f))' = Stat(f)
         /\ path # NoFile => path \in FileIds
BY DEF Quiet, IInv, Times, FileIds, Named, TypeOK, Stat

\* What IInv says of the parts of the call and of the file the path names.
LEMMA CallFacts ==
  ASSUME IInv
  PROVE  /\ call \in [how: Protocols, pc: PCs, before: StatResult,
                      fd: FileIds \cup {NoFile}, payload: Seq(Nat), calm: BOOLEAN]
         /\ Length \in Nat /\ Limit \in Nat
         /\ path # NoFile => path \in FileIds /\ Named \in File
         /\ \A f \in FileIds : Stat(f) \in StatResult /\ Stat(f).id = f
                              /\ Stat(f).mtime = files[f].mtime
                              /\ Stat(f).mtime <= now
<1>1. TypeOK /\ Times
  BY DEF IInv
<1>2. call \in [how: Protocols, pc: PCs, before: StatResult,
               fd: FileIds \cup {NoFile}, payload: Seq(Nat), calm: BOOLEAN]
      /\ (path # NoFile => path \in FileIds)
  BY <1>1 DEF TypeOK
<1>3. Length \in Nat
  BY <1>2, LenProperties DEF Length
<1>4. path # NoFile => Named \in File
  BY <1>1, <1>2, FileFacts DEF Named
<1>5. \A f \in FileIds : f \in Nat
  BY DEF FileIds
<1> QED BY <1>1, <1>2, <1>3, <1>4, <1>5, FileFacts, LimitAssumption DEF Stat, StatResult, Times

\* The end of a call that gives up leaves nothing to promise but its quiet case.
LEMMA RefusedInvariant ==
  ASSUME IInv, Quiet, call' = [call EXCEPT !.pc = "refused"],
         call.calm => \/ path = NoFile \/ ~Named.regular
                      \/ call.how \in {"descriptor", "resolved"} /\ Named.links # 1
  PROVE  IInv'
<1>1. /\ call'.how = call.how /\ call'.before = call.before /\ call'.fd = call.fd
      /\ call'.payload = call.payload /\ call'.calm = call.calm /\ call'.pc = "refused"
      /\ call' \in [how: Protocols, pc: PCs, before: StatResult,
                    fd: FileIds \cup {NoFile}, payload: Seq(Nat), calm: BOOLEAN]
  BY CallFacts DEF PCs, Over
<1>2. TypeOK' /\ Times'
  BY <1>1, QuietFacts DEF IInv, TypeOK
<1>3. Phases' /\ Examined' /\ Calm'
  BY <1>1 DEF IInv, Phases, Examined, Calm
<1>4. SameFile' /\ ReadsBounded'
  BY <1>1 DEF IInv, SameFile, ReadsBounded, Length
<1>5. QuietReadExact'
  BY <1>1, QuietFacts DEF QuietReadExact
<1> QED BY <1>2, <1>3, <1>4, <1>5 DEF IInv

\* So does the end of one that found the file too long.
LEMMA OverInvariant ==
  ASSUME IInv, Quiet, call' = [call EXCEPT !.pc = "over"],
         call.calm => path # NoFile /\ Len(Named.data) > Limit,
         call.how = "resolved" => call.fd = call.before.id
  PROVE  IInv'
<1>1. /\ call'.how = call.how /\ call'.before = call.before /\ call'.fd = call.fd
      /\ call'.payload = call.payload /\ call'.calm = call.calm /\ call'.pc = "over"
      /\ call' \in [how: Protocols, pc: PCs, before: StatResult,
                    fd: FileIds \cup {NoFile}, payload: Seq(Nat), calm: BOOLEAN]
  BY CallFacts DEF PCs, Over
<1>2. TypeOK' /\ Times'
  BY <1>1, QuietFacts DEF IInv, TypeOK
<1>3. Phases' /\ Examined' /\ Calm'
  BY <1>1 DEF IInv, Phases, Examined, Calm
<1>4. SameFile' /\ ReadsBounded'
  BY <1>1 DEF IInv, SameFile, ReadsBounded, Length
<1>5. QuietReadExact'
  BY <1>1, QuietFacts DEF QuietReadExact
<1> QED BY <1>2, <1>3, <1>4, <1>5 DEF IInv

\* A name that is gone.
LEMMA MissingInvariant ==
  ASSUME IInv, Missing
  PROVE  IInv'
<1>1. Quiet /\ call' = [call EXCEPT !.pc = "refused"] /\ path = NoFile
  BY DEF Missing, Goto
<1> QED BY <1>1, RefusedInvariant

\* The two looks of the text tools.
LEMMA TextInvariant ==
  ASSUME IInv, IsFileText \/ SizeText
  PROVE  IInv'
<1>1. CASE IsFileText
  <2>1. Quiet /\ call.how = "text" /\ call.pc = "stat" /\ path # NoFile
    BY <1>1 DEF IsFileText
  <2>2. CASE ~Named.regular
    <3>1. call' = [call EXCEPT !.pc = "refused"]
      BY <1>1, <2>2 DEF IsFileText, Goto
    <3> QED BY <2>1, <2>2, <3>1, RefusedInvariant
  <2>3. CASE Named.regular
    <3>1. call' = [call EXCEPT !.pc = "size"]
      BY <1>1, <2>3 DEF IsFileText, Goto
    <3> QED BY <2>1, <2>3, <3>1, QuietFacts, CallFacts
            DEF IInv, TypeOK, PCs, Over, Phases, Examined, SameFile, Calm, ReadsBounded,
                QuietReadExact, Length
  <2> QED BY <2>2, <2>3
<1>2. CASE SizeText
  <2>1. Quiet /\ call.how = "text" /\ call.pc = "size" /\ path # NoFile
    BY <1>2 DEF SizeText, IInv, Phases
  <2>2. CASE Len(Named.data) > Limit
    <3>1. call' = [call EXCEPT !.pc = "over"]
      BY <1>2, <2>2 DEF SizeText, Goto
    <3> QED BY <2>1, <2>2, <3>1, OverInvariant
  <2>3. CASE ~(Len(Named.data) > Limit)
    <3>1. call' = [call EXCEPT !.pc = "open"]
      BY <1>2, <2>3 DEF SizeText, Goto
    <3>2. Len(Named.data) <= Limit
      BY <2>1, <2>3, CallFacts, LenProperties DEF File
    <3> QED BY SMTT(30), <2>1, <3>1, <3>2, QuietFacts, CallFacts
            DEF IInv, TypeOK, PCs, Over, Phases, Examined, SameFile, Calm, ReadsBounded,
                QuietReadExact, Length
  <2> QED BY <2>2, <2>3
<1> QED BY <1>1, <1>2

\* The first look of the metadata reader fixes the version it will accept.
LEMMA StatMetadataInvariant ==
  ASSUME IInv, StatMetadata
  PROVE  IInv'
<1>1. /\ Quiet /\ call.how = "metadata" /\ call.pc = "stat" /\ path \in FileIds
      /\ path # NoFile /\ Named \in File
  BY CallFacts DEF StatMetadata
<1>2. call' = [call EXCEPT !.before = Stat(path),
                           !.pc = IF ~Named.regular THEN "refused"
                                  ELSE IF Len(Named.data) > Limit THEN "over" ELSE "open"]
  BY DEF StatMetadata
<1>3. /\ call'.how = call.how /\ call'.before = Stat(path) /\ call'.fd = call.fd
      /\ call'.payload = <<>> /\ call'.calm = call.calm
      /\ call'.pc = IF ~Named.regular THEN "refused"
                    ELSE IF Len(Named.data) > Limit THEN "over" ELSE "open"
  BY <1>1, <1>2, CallFacts DEF IInv, Phases
<1>4. Stat(path) \in StatResult /\ (Stat(path))' = Stat(path) /\ Len(Named.data) \in Nat
  BY <1>1, CallFacts, QuietFacts, LenProperties DEF File, Stat
<1>5. TypeOK' /\ Times'
  BY <1>1, <1>2, <1>4, QuietFacts, CallFacts DEF IInv, TypeOK, PCs, Over
<1>6. Phases' /\ SameFile' /\ ReadsBounded'
  BY <1>1, <1>3, CallFacts, LenProperties, EmptySeq DEF Phases, SameFile, ReadsBounded, Length
<1>7. Examined'
  <2>1. files[path].regular = Named.regular /\ Stat(path).id = path /\ Stat(path).mtime <= now
    BY <1>1, CallFacts DEF Named
  <2> QED BY <1>1, <1>3, <2>1, QuietFacts DEF Examined
<1>8. Calm'
  BY <1>1, <1>3, <1>4, QuietFacts, CallFacts DEF Calm
<1>9. QuietReadExact'
  BY <1>1, <1>3, <1>4, QuietFacts, CallFacts DEF QuietReadExact, Length
<1> QED BY <1>5, <1>6, <1>7, <1>8, <1>9 DEF IInv

\* That of the resolved reader remembers which file it was.
LEMMA StatResolvedInvariant ==
  ASSUME IInv, StatResolved
  PROVE  IInv'
<1>1. /\ Quiet /\ call.how = "resolved" /\ call.pc = "stat" /\ path \in FileIds
      /\ path # NoFile /\ Named \in File
  BY CallFacts DEF StatResolved
<1>2. call' = [call EXCEPT !.before = Stat(path),
                           !.pc = IF Named.regular /\ Named.links = 1 THEN "open" ELSE "refused"]
  BY DEF StatResolved
<1>3. /\ call'.how = call.how /\ call'.before = Stat(path) /\ call'.fd = call.fd
      /\ call'.payload = <<>> /\ call'.calm = call.calm
      /\ call'.pc = IF Named.regular /\ Named.links = 1 THEN "open" ELSE "refused"
  BY <1>1, <1>2, CallFacts DEF IInv, Phases
<1>4. Stat(path) \in StatResult /\ (Stat(path))' = Stat(path)
  BY <1>1, CallFacts, QuietFacts DEF Stat
<1>5. TypeOK' /\ Times'
  BY <1>1, <1>2, <1>4, QuietFacts, CallFacts DEF IInv, TypeOK, PCs, Over
<1>6. Phases' /\ SameFile' /\ ReadsBounded' /\ Examined'
  BY <1>1, <1>3, CallFacts, LenProperties, EmptySeq
     DEF Phases, SameFile, ReadsBounded, Length, Examined
<1>7. Calm'
  BY <1>1, <1>3, <1>4, QuietFacts, CallFacts DEF Calm
<1>8. QuietReadExact'
  BY <1>1, <1>3, QuietFacts, CallFacts DEF QuietReadExact, Length
<1> QED BY <1>5, <1>6, <1>7, <1>8 DEF IInv

\* What was opened is remembered; while it is calm it is what the path names.
LEMMA OpenInvariant ==
  ASSUME IInv, OpenFile
  PROVE  IInv'
<1>1. /\ Quiet /\ call.pc = "open" /\ path \in FileIds /\ path # NoFile /\ Named \in File
      /\ call' = [call EXCEPT !.fd = path, !.pc = IF call.how = "text" THEN "read" ELSE "fstat"]
  BY CallFacts DEF OpenFile
<1>2. /\ call'.how = call.how /\ call'.before = call.before /\ call'.fd = path
      /\ call'.payload = <<>> /\ call'.calm = call.calm
      /\ call'.pc = IF call.how = "text" THEN "read" ELSE "fstat"
  BY <1>1, CallFacts DEF IInv, Phases
<1>3. /\ (Stat(path))' = Stat(path) /\ Prefix(<<>>, Named.data) /\ Len(<<>>) = 0
      /\ Named' = Named
  BY <1>1, QuietFacts, LenProperties, EmptySeq DEF File, Stat, Prefix
<1>4. TypeOK' /\ Times'
  BY <1>1, QuietFacts, CallFacts DEF IInv, TypeOK, PCs, Over
<1>5. Phases' /\ SameFile' /\ ReadsBounded'
  BY <1>1, <1>2, <1>3, CallFacts DEF IInv, Phases, SameFile, ReadsBounded, Length
<1>6. Examined'
  BY <1>1, <1>2, QuietFacts DEF IInv, Examined
<1>7. Calm'
  BY <1>1, <1>2, <1>3, QuietFacts DEF IInv, Calm
<1>8. QuietReadExact'
  BY <1>2 DEF QuietReadExact
<1> QED BY <1>4, <1>5, <1>6, <1>7, <1>8 DEF IInv

\* The comparison of the two looks: only the version examined is read.
LEMMA FstatMetadataInvariant ==
  ASSUME IInv, FstatMetadata
  PROVE  IInv'
<1>1. /\ Quiet /\ call.how = "metadata" /\ call.pc = "fstat" /\ call.fd \in FileIds
      /\ call.payload = <<>> /\ call.before.id \in FileIds
  BY DEF FstatMetadata, IInv, TypeOK, Phases, Examined
<1>2. /\ Opened \in File /\ Len(Opened.data) \in Nat
      /\ Stat(call.fd).id = call.fd
  BY <1>1, CallFacts, FileFacts DEF IInv, Opened
<1>3. call.calm => call.fd = path /\ Opened = Named /\ call.before = Stat(path) /\ Named.regular
                   /\ path # NoFile
  BY <1>1 DEF IInv, Calm, Opened, Named, FileIds, NoFile
<1>4. CASE ~Opened.regular \/ Stat(call.fd) # call.before
  <2>1. call' = [call EXCEPT !.pc = "refused"]
    BY <1>4 DEF FstatMetadata, Goto
  <2> QED BY <1>1, <1>3, <1>4, <2>1, RefusedInvariant
<1>5. CASE Opened.regular /\ Stat(call.fd) = call.before /\ Len(Opened.data) > Limit
  <2>1. call' = [call EXCEPT !.pc = "over"]
    BY <1>5 DEF FstatMetadata, Goto
  <2> QED BY <1>1, <1>3, <1>5, <2>1, OverInvariant
<1>6. CASE Opened.regular /\ Stat(call.fd) = call.before /\ ~(Len(Opened.data) > Limit)
  <2>1. call' = [call EXCEPT !.pc = "read"]
    BY <1>6 DEF FstatMetadata, Goto
  <2>2. /\ call'.how = call.how /\ call'.before = call.before /\ call'.fd = call.fd
        /\ call'.payload = <<>> /\ call'.calm = call.calm /\ call'.pc = "read"
    BY <1>1, <2>1, CallFacts
  <2>3. /\ call.fd = call.before.id /\ Prefix(<<>>, Opened.data) /\ Opened' = Opened
        /\ Len(<<>>) = 0 /\ Len(Opened.data) <= Limit
    BY <1>1, <1>2, <1>6, <2>2, QuietFacts, CallFacts, EmptySeq DEF Prefix, Opened
  <2>4. TypeOK' /\ Times'
    BY <1>1, <2>1, QuietFacts, CallFacts DEF IInv, TypeOK, PCs, Over
  <2>5. Phases' /\ SameFile' /\ ReadsBounded'
    BY <1>1, <2>2, <2>3, CallFacts DEF IInv, Phases, SameFile, ReadsBounded, Length
  <2>6. Examined'
    BY <1>1, <2>2, <2>3, QuietFacts DEF IInv, Examined
  <2>7. Calm'
    BY <1>1, <1>3, <2>2, <2>3, QuietFacts DEF Calm
  <2>8. QuietReadExact'
    BY <2>2 DEF QuietReadExact
  <2> QED BY <2>4, <2>5, <2>6, <2>7, <2>8 DEF IInv
<1> QED BY <1>4, <1>5, <1>6

\* The same comparison, of the file only.
LEMMA FstatResolvedInvariant ==
  ASSUME IInv, FstatResolved
  PROVE  IInv'
<1>1. /\ Quiet /\ call.how = "resolved" /\ call.pc = "fstat" /\ call.fd \in FileIds
      /\ call.payload = <<>>
  BY DEF FstatResolved, IInv, TypeOK, Phases
<1>2. call.calm => call.fd = path /\ call.before = Stat(path) /\ path # NoFile /\ Named.links = 1
  BY <1>1 DEF IInv, Calm
<1>3. CASE ~(call.fd = call.before.id /\ path = call.fd)
  <2>1. call' = [call EXCEPT !.pc = "refused"]
    BY <1>3 DEF FstatResolved, Goto
  <2>2. ~call.calm
    BY <1>1, <1>2, <1>3, CallFacts
  <2> QED BY <1>1, <2>1, <2>2, RefusedInvariant
<1>4. CASE call.fd = call.before.id /\ path = call.fd
  <2>1. call' = [call EXCEPT !.pc = "descriptor"]
    BY <1>4 DEF FstatResolved, Goto
  <2>2. /\ call'.how = call.how /\ call'.before = call.before /\ call'.fd = call.fd
        /\ call'.payload = <<>> /\ call'.calm = call.calm /\ call'.pc = "descriptor"
    BY <1>1, <2>1, CallFacts
  <2>3. TypeOK' /\ Times'
    BY <1>1, <2>1, QuietFacts, CallFacts DEF IInv, TypeOK, PCs, Over
  <2>4. Phases' /\ SameFile' /\ ReadsBounded' /\ Examined' /\ QuietReadExact'
    BY <1>1, <1>4, <2>2, CallFacts, EmptySeq
       DEF IInv, Phases, SameFile, ReadsBounded, Length, Examined, QuietReadExact
  <2>5. Calm'
    <3>1. call.calm => (Stat(path))' = Stat(path)
      BY <1>1, QuietFacts DEF Stat
    <3> QED BY <1>1, <1>2, <2>2, <3>1, QuietFacts DEF Calm
  <2> QED BY <2>3, <2>4, <2>5 DEF IInv
<1> QED BY <1>3, <1>4

\* read_checked_fd looks at what it holds before it reads.
LEMMA FstatDescriptorInvariant ==
  ASSUME IInv, FstatDescriptor
  PROVE  IInv'
<1>1. /\ Quiet /\ call.fd \in FileIds /\ call.payload = <<>>
      /\ \/ call.how = "descriptor" /\ call.pc = "fstat"
         \/ call.how = "resolved" /\ call.pc = "descriptor" /\ call.fd = call.before.id
  BY DEF FstatDescriptor, IInv, TypeOK, Phases, SameFile
<1>2. Opened \in File /\ Len(Opened.data) \in Nat
  BY <1>1, FileFacts DEF IInv, Opened
<1>3. call.calm => call.fd = path /\ Opened = Named /\ path # NoFile
  BY <1>1 DEF IInv, Calm, Opened, Named, FileIds, NoFile
<1>4. CASE ~Opened.regular \/ Opened.links # 1
  <2>1. call' = [call EXCEPT !.pc = "refused"]
    BY <1>4 DEF FstatDescriptor, Goto
  <2> QED BY <1>1, <1>3, <1>4, <2>1, RefusedInvariant
<1>5. CASE Opened.regular /\ Opened.links = 1 /\ Len(Opened.data) > Limit
  <2>1. call' = [call EXCEPT !.pc = "over"]
    BY <1>5 DEF FstatDescriptor, Goto
  <2> QED BY <1>1, <1>3, <1>5, <2>1, OverInvariant
<1>6. CASE Opened.regular /\ Opened.links = 1 /\ ~(Len(Opened.data) > Limit)
  <2>1. call' = [call EXCEPT !.pc = "read"]
    BY <1>6 DEF FstatDescriptor, Goto
  <2>2. /\ call'.how = call.how /\ call'.before = call.before /\ call'.fd = call.fd
        /\ call'.payload = <<>> /\ call'.calm = call.calm /\ call'.pc = "read"
    BY <1>1, <2>1, CallFacts
  <2>3. Prefix(<<>>, Opened.data) /\ Len(<<>>) = 0 /\ Len(Opened.data) <= Limit
    BY <1>2, <1>6, CallFacts, EmptySeq DEF Prefix
  <2>4. TypeOK' /\ Times'
    BY <1>1, <2>1, QuietFacts, CallFacts DEF IInv, TypeOK, PCs, Over
  <2>5. Phases' /\ SameFile' /\ ReadsBounded' /\ Examined' /\ QuietReadExact'
    BY <1>1, <2>2, <2>3, CallFacts
       DEF IInv, Phases, SameFile, ReadsBounded, Length, Examined, QuietReadExact
  <2>6. Calm'
    BY <1>1, <1>3, <2>2, <2>3, QuietFacts DEF Calm
  <2> QED BY <2>4, <2>5, <2>6 DEF IInv
<1> QED BY <1>4, <1>5, <1>6

\* A block more: still a prefix of the version examined, if it was one.
LEMMA ReadSomeInvariant ==
  ASSUME IInv, ReadSome
  PROVE  IInv'
<1>1. Quiet /\ call.pc = "read" /\ call.fd \in FileIds
  BY DEF ReadSome, IInv, TypeOK
<1>2. PICK n \in 1..Remaining :
        /\ Length + n <= Len(Opened.data)
        /\ call' = [call EXCEPT !.payload =
                       call.payload \o SubSeq(Opened.data, Length + 1, Length + n)]
  BY DEF ReadSome
<1>3. /\ Opened.data \in Seq(Nat) /\ Len(Opened.data) \in Nat
      /\ call.payload \in Seq(Nat) /\ Length \in Nat /\ Limit \in Nat
  BY <1>1, FileFacts, CallFacts DEF IInv, Opened
<1>4. /\ n \in Nat \ {0}
      /\ call.how # "text" => Length + n <= Limit + 1
  <2>1. Remaining \in Int /\ (call.how # "text" => Remaining = Limit + 1 - Length)
    BY <1>3 DEF Remaining
  <2>2. n \in 1..Remaining
    OBVIOUS
  <2>3. n \in Nat \ {0} /\ n <= Remaining
    BY <2>1, <2>2
  <2> QED BY <1>3, <2>1, <2>3
<1>5. /\ call'.how = call.how /\ call'.before = call.before /\ call'.fd = call.fd
      /\ call'.calm = call.calm /\ call'.pc = "read"
      /\ call'.payload = call.payload \o SubSeq(Opened.data, Length + 1, Length + n)
  BY <1>1, <1>2, CallFacts
<1>6. /\ call'.payload \in Seq(Nat) /\ Len(call'.payload) = Length + n
      /\ Prefix(call.payload, Opened.data) => Prefix(call'.payload, Opened.data)
  <2> DEFINE p == call.payload
             d == Opened.data
  <2>1. /\ p \in Seq(Nat) /\ d \in Seq(Nat) /\ n \in Nat \ {0} /\ Len(p) + n <= Len(d)
        /\ call'.payload = p \o SubSeq(d, Len(p) + 1, Len(p) + n) /\ Length = Len(p)
    BY <1>2, <1>3, <1>4, <1>5 DEF Length
  <2> HIDE DEF p, d
  <2>2. /\ call'.payload \in Seq(Nat) /\ Len(call'.payload) = Len(p) + n
        /\ Prefix(p, d) => Prefix(call'.payload, d)
    BY <2>1, ReadOn
  <2> QED BY <2>1, <2>2 DEF p, d
<1>7. Opened' = Opened /\ (call.calm => call.fd = path /\ Opened = Named)
  BY <1>1, <1>5, QuietFacts DEF IInv, Calm, Opened, Named
<1>8. TypeOK' /\ Times'
  <2>1. call' \in [how: Protocols, pc: PCs, before: StatResult,
                  fd: FileIds \cup {NoFile}, payload: Seq(Nat), calm: BOOLEAN]
    BY <1>2, <1>5, <1>6, CallFacts
  <2> QED BY <1>1, <1>5, <2>1, QuietFacts DEF IInv, TypeOK
<1>9. Phases' /\ SameFile' /\ ReadsBounded' /\ QuietReadExact'
  BY <1>1, <1>4, <1>5, <1>6
     DEF IInv, Phases, SameFile, ReadsBounded, Length, QuietReadExact
<1>10. Examined'
  <2>1. Unwritten' = Unwritten
    BY <1>1, <1>5, QuietFacts DEF Unwritten
  <2> QED BY <1>1, <1>5, <1>6, <1>7, <2>1, QuietFacts DEF IInv, Examined
<1>11. Calm'
  BY <1>1, <1>5, <1>6, <1>7, QuietFacts DEF IInv, Calm
<1> QED BY <1>8, <1>9, <1>10, <1>11 DEF IInv

\* No more bytes, or one too many.
LEMMA ReadEndInvariant ==
  ASSUME IInv, ReadEnd
  PROVE  IInv'
<1>1. Quiet /\ call.pc = "read" /\ call.fd \in FileIds /\ (AtEnd \/ Remaining = 0)
  BY DEF ReadEnd, IInv, TypeOK
<1>2. /\ Opened.data \in Seq(Nat) /\ Len(Opened.data) \in Nat
      /\ call.payload \in Seq(Nat) /\ Length \in Nat /\ Limit \in Nat
  BY <1>1, FileFacts, CallFacts DEF IInv, Opened
<1>3. call.calm =>
        /\ call.fd = path /\ Opened = Named /\ path # NoFile
        /\ Prefix(call.payload, Opened.data) /\ Len(Opened.data) <= Limit
  BY <1>1 DEF IInv, Calm, Opened, Named, FileIds, NoFile
<1>4. call.calm => Length <= Len(Opened.data) /\ Length <= Limit
  BY <1>2, <1>3 DEF Prefix, Length
<1>5. AtEnd \/ (call.how # "text" /\ Length > Limit)
  BY <1>1, <1>2 DEF Remaining, AtEnd
<1>6. CASE call.how # "text" /\ Length > Limit
  <2>1. call' = [call EXCEPT !.pc = "over"]
    BY <1>6 DEF ReadEnd, Goto
  <2>2. ~call.calm
    BY <1>2, <1>4, <1>6
  <2> QED BY <1>1, <1>6, <2>1, <2>2, OverInvariant DEF IInv, SameFile
<1>7. CASE ~(call.how # "text" /\ Length > Limit)
  <2>1. AtEnd /\ (call.how # "text" => Length <= Limit)
    BY <1>2, <1>5, <1>7
  <2>2. call' = [call EXCEPT !.pc = IF call.how = "metadata" THEN "verify" ELSE "done"]
    BY <1>7 DEF ReadEnd, Goto
  <2>3. /\ call'.how = call.how /\ call'.before = call.before /\ call'.fd = call.fd
        /\ call'.payload = call.payload /\ call'.calm = call.calm
        /\ call'.pc = IF call.how = "metadata" THEN "verify" ELSE "done"
    BY <2>2, CallFacts
  <2>4. call.calm => call.payload = Named.data
    BY <1>2, <1>3, <2>1, WholePrefix DEF AtEnd, Length
  <2>5. Opened' = Opened /\ Length' = Length /\ Unwritten' = Unwritten
    BY <1>1, <2>3, QuietFacts DEF Opened, Length, Unwritten
  <2>6. TypeOK' /\ Times'
    BY <1>1, <2>2, QuietFacts, CallFacts DEF IInv, TypeOK, PCs, Over
  <2>7. Phases' /\ SameFile' /\ ReadsBounded'
    BY <1>1, <2>1, <2>3, <2>5, CallFacts DEF IInv, Phases, SameFile, ReadsBounded
  <2>8. Examined'
    BY <1>1, <2>1, <2>3, <2>5, QuietFacts DEF IInv, Examined, AtEnd
  <2>9. Calm'
    <3>1. call.calm /\ call.how = "metadata" => call.before = Stat(path) /\ Named.regular
      BY <1>1 DEF IInv, Calm
    <3>2. Named' = Named /\ path' = path /\ (Stat(path))' = Stat(path)
      BY <1>1, QuietFacts DEF Stat
    <3> QED BY <1>3, <2>3, <2>4, <3>1, <3>2 DEF Calm
  <2>10. QuietReadExact'
    BY <1>1, <1>3, <1>4, <2>3, <2>4, <2>5, QuietFacts DEF QuietReadExact
  <2> QED BY <2>6, <2>7, <2>8, <2>9, <2>10 DEF IInv
<1> QED BY <1>6, <1>7

\* The second look.
LEMMA VerifyInvariant ==
  ASSUME IInv, Verify
  PROVE  IInv'
<1>1. Quiet /\ call.pc = "verify" /\ call.how = "metadata" /\ path # NoFile
  BY DEF Verify, IInv, Phases
<1>2. call.calm => /\ call.before = Stat(path)
                   /\ call.payload = Named.data /\ Len(Named.data) <= Limit
  BY <1>1 DEF IInv, Calm
<1>3. CASE Stat(path) # call.before
  <2>1. call' = [call EXCEPT !.pc = "refused"]
    BY <1>3 DEF Verify, Goto
  <2> QED BY <1>1, <1>2, <1>3, <2>1, RefusedInvariant
<1>4. CASE Stat(path) = call.before
  <2>1. call' = [call EXCEPT !.pc = "done"]
    BY <1>4 DEF Verify, Goto
  <2>2. /\ call'.how = call.how /\ call'.payload = call.payload /\ call'.fd = call.fd
        /\ call'.calm = call.calm /\ call'.pc = "done"
    BY <2>1, CallFacts
  <2>3. TypeOK' /\ Times'
    BY <1>1, <2>1, QuietFacts, CallFacts DEF IInv, TypeOK, PCs, Over
  <2>4. Phases' /\ SameFile' /\ ReadsBounded' /\ Examined' /\ Calm'
    BY <1>1, <2>2 DEF IInv, Phases, SameFile, ReadsBounded, Length, Examined, Calm
  <2>5. QuietReadExact'
    BY <1>1, <1>2, <2>2, QuietFacts DEF QuietReadExact, Length
  <2> QED BY <2>3, <2>4, <2>5 DEF IInv
<1> QED BY <1>3, <1>4

\* Every step keeps the invariant.
LEMMA NextInvariant == IInv /\ [Next]_vars => IInv'
<1> SUFFICES ASSUME IInv, [Next]_vars PROVE IInv'
  OBVIOUS
<1>1. CASE Read
  BY <1>1, MissingInvariant, TextInvariant, StatMetadataInvariant, StatResolvedInvariant,
     OpenInvariant, FstatMetadataInvariant, FstatResolvedInvariant, FstatDescriptorInvariant,
     ReadSomeInvariant, ReadEndInvariant, VerifyInvariant DEF Read
<1>2. CASE World
  BY <1>2, WorldInvariant
<1>3. CASE UNCHANGED vars
  BY <1>3
     DEF vars, IInv, TypeOK, FileIds, Times, Phases, Examined, Unwritten, Opened, SameFile,
         Calm, Named, Stat, ReadsBounded, Length, QuietReadExact
<1> QED BY <1>1, <1>2, <1>3 DEF Next, Rest

-----------------------------------------------------------------------------
(* The fallback *)

\* What the fallback knows of the file it examined: as long as nobody wrote it,
\* the payload is how it begins, and at the end all of it.
FallbackExamined ==
  call.how = "resolved" /\ call.pc \in {"open", "fstat", "descriptor", "read", "done"} =>
    /\ call.before.id \in FileIds /\ call.before.mtime <= now
    /\ call.pc \in {"read", "done"} /\ Unwritten =>
         /\ Prefix(call.payload, files[call.before.id].data)
         /\ call.pc = "done" => call.payload = files[call.before.id].data

\* A change of the world keeps it: who writes the file that was examined gives it
\* another time.
LEMMA FallbackWorld ==
  ASSUME IInv, FallbackExamined, World
  PROVE  FallbackExamined'
<1>1. /\ FilesChange /\ now' = now + 1 /\ call' = [call EXCEPT !.calm = FALSE]
  BY WorldFacts DEF IInv, Change
<1>2. FileIds \subseteq FileIds' /\ now \in Nat
  BY <1>1, FileFacts, LenProperties DEF FilesChange, FileIds, IInv
<1>3. /\ call'.how = call.how /\ call'.pc = call.pc /\ call'.before = call.before
      /\ call'.payload = call.payload /\ call.before \in StatResult
  BY <1>1 DEF IInv, TypeOK
<1> SUFFICES ASSUME call.how = "resolved",
                    call.pc \in {"open", "fstat", "descriptor", "read", "done"}
             PROVE  FallbackExamined'
  BY <1>3 DEF FallbackExamined
<1> DEFINE f == call.before.id
<1>4. f \in FileIds /\ call.before.mtime <= now
  BY DEF FallbackExamined
<1>5. call.before.mtime <= now + 1 /\ call.before.mtime # now + 1
  BY <1>2, <1>3, <1>4 DEF StatResult
<1>6. Unwritten' => Unwritten /\ files'[f].data = files[f].data
  BY <1>1, <1>3, <1>4, <1>5 DEF FilesChange, Unwritten
<1> QED BY <1>1, <1>2, <1>3, <1>4, <1>5, <1>6 DEF FallbackExamined

\* Every step keeps it.
LEMMA FallbackInvariant ==
  ASSUME IInv, FallbackExamined, [Next]_vars
  PROVE  FallbackExamined'
<1>1. CASE World
  BY <1>1, FallbackWorld
<1>2. CASE UNCHANGED vars
  BY <1>2 DEF vars, FallbackExamined, FileIds, Unwritten
<1>3. ASSUME Read, call.how # "resolved" PROVE FallbackExamined'
  <2>1. call'.how = call.how
    BY <1>3, CallFacts
       DEF Read, Missing, IsFileText, SizeText, StatMetadata, StatResolved, OpenFile,
           FstatMetadata, FstatResolved, FstatDescriptor, ReadSome, ReadEnd, Verify, Goto
  <2> QED BY <1>3, <2>1 DEF FallbackExamined
<1>4. ASSUME Read, call.how = "resolved" PROVE FallbackExamined'
  <2>1. /\ Quiet
        /\ \/ Missing \/ StatResolved \/ OpenFile \/ FstatResolved
           \/ FstatDescriptor \/ ReadSome \/ ReadEnd
    <3>1. ~IsFileText /\ ~StatMetadata /\ ~FstatMetadata
      BY <1>4 DEF IsFileText, StatMetadata, FstatMetadata
    <3>2. ~SizeText /\ ~Verify
      BY <1>4 DEF SizeText, Verify, IInv, Phases
    <3>3. /\ (Missing \/ StatResolved \/ OpenFile) => Quiet
          /\ (FstatResolved \/ FstatDescriptor \/ ReadSome \/ ReadEnd) => Quiet
      BY DEF Missing, StatResolved, OpenFile, FstatResolved, FstatDescriptor, ReadSome, ReadEnd
    <3> QED BY <1>4, <3>1, <3>2, <3>3 DEF Read
  <2>2. CASE Missing
    <3>1. call'.pc = "refused"
      BY <2>2, CallFacts DEF Missing, Goto
    <3> QED BY <3>1 DEF FallbackExamined
  <2>3. CASE StatResolved
    <3>1. /\ call'.before = Stat(path) /\ call'.pc \in {"open", "refused"} /\ path \in FileIds
      BY <2>1, <2>3, CallFacts, QuietFacts DEF StatResolved
    <3>2. Stat(path).id = path /\ Stat(path).mtime <= now
      BY <3>1, CallFacts
    <3> QED BY <2>1, <2>3, <3>1, <3>2, QuietFacts DEF FallbackExamined
  <2>4. CASE OpenFile \/ FstatResolved
    <3>1. /\ call.pc \in {"open", "fstat"} /\ call'.before = call.before
          /\ call'.pc \in {"fstat", "descriptor", "refused"}
      BY <1>4, <2>4, CallFacts DEF OpenFile, FstatResolved, Goto
    <3> QED BY <2>1, <1>4, <2>4, <3>1, QuietFacts DEF FallbackExamined
  <2>5. CASE FstatDescriptor
    <3>1. /\ call.pc = "descriptor" /\ call'.before = call.before /\ call'.payload = <<>>
          /\ call'.pc \in {"refused", "over", "read"}
      BY <1>4, <2>5, CallFacts DEF FstatDescriptor, Goto, IInv, Phases
    <3>2. call.before.id \in FileIds /\ call.before.mtime <= now
      BY <1>4, <3>1 DEF FallbackExamined
    <3>3. Prefix(<<>>, files[call.before.id].data)
      BY <3>2, FileFacts, LenProperties, EmptySeq DEF Prefix, IInv
    <3> QED BY <2>1, <2>5, <3>1, <3>2, <3>3, QuietFacts DEF FallbackExamined
  <2>6. ASSUME Quiet, call.pc = "read"
        PROVE  /\ call.before.id \in FileIds /\ call.before.mtime <= now
               /\ Opened = files[call.before.id] /\ call.fd \in FileIds
               /\ Opened.data \in Seq(Nat) /\ Len(Opened.data) \in Nat
               /\ call.payload \in Seq(Nat) /\ Length \in Nat
               /\ Unwritten => Prefix(call.payload, Opened.data)
    BY <1>4, <2>6, FileFacts, CallFacts
       DEF FallbackExamined, IInv, SameFile, Opened, TypeOK
  <2>7. CASE ReadSome
    <3>1. PICK n \in 1..Remaining :
            /\ Length + n <= Len(Opened.data)
            /\ call' = [call EXCEPT !.payload =
                           call.payload \o SubSeq(Opened.data, Length + 1, Length + n)]
      BY <2>7 DEF ReadSome
    <3>2. call.pc = "read"
      BY <2>7 DEF ReadSome
    <3>3. /\ call'.before = call.before /\ call'.pc = "read"
          /\ call'.payload = call.payload \o SubSeq(Opened.data, Length + 1, Length + n)
      BY <3>1, <3>2, CallFacts
    <3>4. n \in Nat \ {0}
      <4>1. Remaining \in Int
        BY <1>4, <2>1, <2>6, <2>7, <3>2, CallFacts DEF Remaining
      <4>2. n \in 1..Remaining
        OBVIOUS
      <4> QED BY <4>1, <4>2
    <3>5. Prefix(call.payload, Opened.data) => Prefix(call'.payload, Opened.data)
      <4> DEFINE p == call.payload
                 d == Opened.data
      <4>1. /\ p \in Seq(Nat) /\ d \in Seq(Nat) /\ Len(p) + n <= Len(d)
            /\ call'.payload = p \o SubSeq(d, Len(p) + 1, Len(p) + n)
        BY <2>1, <2>6, <2>7, <3>1, <3>2, <3>3 DEF Length
      <4> HIDE DEF p, d
      <4>2. Prefix(p, d) => Prefix(call'.payload, d)
        BY <3>4, <4>1, ReadOn
      <4> QED BY <4>2 DEF p, d
    <3> QED BY <2>1, <2>6, <2>7, <3>2, <3>3, <3>5, QuietFacts DEF FallbackExamined, Unwritten
  <2>8. CASE ReadEnd
    <3>1. /\ call.pc = "read" /\ call'.before = call.before /\ call'.payload = call.payload
          /\ \/ call'.pc = "over"
             \/ call'.pc = "done" /\ ~(Length > Limit) /\ (AtEnd \/ Remaining = 0)
      BY <1>4, <2>8, CallFacts DEF ReadEnd, Goto
    <3>2. call'.pc = "done" => Length >= Len(Opened.data)
      BY <1>4, <2>1, <2>6, <2>8, <3>1, CallFacts DEF Remaining, AtEnd
    <3>3. call'.pc = "done" /\ Unwritten => call.payload = Opened.data
      BY <2>1, <2>6, <2>8, <3>1, <3>2, WholePrefix DEF Length
    <3> QED BY <2>1, <2>6, <2>8, <3>1, <3>3, QuietFacts DEF FallbackExamined, Unwritten
  <2> QED BY <2>1, <2>2, <2>3, <2>4, <2>5, <2>7, <2>8
<1> QED BY <1>1, <1>2, <1>3, <1>4 DEF Next, Rest

-----------------------------------------------------------------------------
(* The theorems *)

\* What the four readers and their files are at any moment: the inductive
\* invariant behind the theorems below.
THEOREM ReadInvariant == Spec => []IInv
BY InitInvariant, NextInvariant, PTL DEF Spec

\* The variables of a read hold values of their kind, and a read that is past
\* its open has a file.
THEOREM ReadTypes == Spec => []TypeOK
<1>1. IInv => TypeOK
  BY DEF IInv
<1> QED BY <1>1, ReadInvariant, PTL

\* However the file grows, the readers that count hold at most one byte over
\* their limit and return no more than it.
THEOREM LimitsHold == Spec => []ReadsBounded
<1>1. IInv => ReadsBounded
  BY DEF IInv
<1> QED BY <1>1, ReadInvariant, PTL

\* The fallback returns the bytes of the file it examined: while nobody writes
\* that file, what it reads is how the file begins and what it returns is all of
\* it, whatever happens to the name meanwhile.
THEOREM FallbackReadsExamined == Spec => []ResolvedReadsExamined
<1>1. Init => FallbackExamined
  BY DEF Init, FallbackExamined
<1>2. IInv /\ FallbackExamined /\ [Next]_vars => FallbackExamined'
  BY FallbackInvariant
<1>3. IInv /\ FallbackExamined => ResolvedReadsExamined
  BY DEF FallbackExamined, Unwritten, ResolvedReadsExamined
<1> QED BY <1>1, <1>2, <1>3, ReadInvariant, PTL DEF Spec

\* All four protocols are exact on a file nobody touches.
THEOREM QuietReadsExact == Spec => []QuietReadExact
<1>1. IInv => QuietReadExact
  BY DEF IInv
<1> QED BY <1>1, ReadInvariant, PTL

\* read_bounded_regular_file returns one version of the file, whole, and it is
\* the one the path holds when it returns.
THEOREM MetadataReadsWhole == Spec => ReturnsWholeFile
<1> DEFINE Returns == call.how = "metadata" /\ call.pc = "verify" /\ call'.pc = "done"
           Whole == path # NoFile /\ Named.regular /\ call.payload = Named.data
<1>1. ASSUME IInv, Next, Returns PROVE Whole
  <2>1. Verify
    <3>1. call'.pc # call.pc
      BY <1>1
    <3>2. ~World /\ ~Rest
      <4>1. Change => call'.pc = call.pc
        BY CallFacts, <1>1 DEF Change
      <4>2. World => Change
        BY <1>1, WorldFacts DEF IInv
      <4> QED BY <3>1, <4>1, <4>2 DEF Rest, vars
    <3>3. Missing => call'.pc = "refused"
      BY CallFacts, <1>1 DEF Missing, Goto
    <3> QED BY <1>1, <3>2, <3>3
            DEF Next, Read, IsFileText, SizeText, StatMetadata, StatResolved, OpenFile,
                FstatMetadata, FstatResolved, FstatDescriptor, ReadSome, ReadEnd
  <2>2. path # NoFile /\ Stat(path) = call.before
    <3>1. Stat(path) # call.before => call'.pc = "refused"
      BY <1>1, <2>1, CallFacts DEF Verify, Goto
    <3> QED BY <1>1, <2>1, <3>1 DEF Verify
  <2>3. /\ call.before.id = path /\ path \in FileIds
        /\ call.fd = path /\ Opened = Named /\ Unwritten
    <3>1. path \in FileIds /\ Stat(path).id = path /\ Stat(path).mtime = files[path].mtime
      BY <1>1, <2>2, CallFacts
    <3>2. call.fd = call.before.id
      BY <1>1 DEF IInv, Examined
    <3> QED BY <2>2, <3>1, <3>2 DEF Opened, Named, Unwritten
  <2>4. /\ Named.regular /\ Prefix(call.payload, Named.data)
        /\ Length >= Len(Named.data)
    BY <1>1, <2>3 DEF IInv, Examined, Named, Opened
  <2>5. call.payload \in Seq(Nat) /\ Named.data \in Seq(Nat)
    BY <1>1, <2>2, CallFacts DEF File
  <2> QED BY <2>2, <2>4, <2>5, WholePrefix DEF Length
<1>2. IInv /\ [Next]_vars => [Returns => Whole]_vars
  BY <1>1
<1>3. Spec => [][Returns => Whole]_vars
  <2> HIDE DEF Returns, Whole
  <2> QED BY <1>2, ReadInvariant, PTL DEF Spec
<1> QED BY <1>3 DEF ReturnsWholeFile
=============================================================================
