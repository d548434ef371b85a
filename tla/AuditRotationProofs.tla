------------------------- MODULE AuditRotationProofs -------------------------
(***************************************************************************)
(* Proofs about what the audit log remembers, rotates and deletes: the     *)
(* memory of the process agrees with the disk, no file mixes two days, and *)
(* retention is enforced; and that it implements the ledger.               *)
(* AuditLogProofs proves that the log keeps what it acknowledged; its      *)
(* lemmas about the disk are used here.                                    *)
(***************************************************************************)
EXTENDS AuditLogProofs

-----------------------------------------------------------------------------
(* The memory of the process.  MemoryAgrees speaks of a free lock; what     *)
(* makes it so is what holds between the steps of a call: the remembered    *)
(* size is behind the file by what the append has written (SizeExact), and  *)
(* only the event of the append may be newer than the remembered newest     *)
(* (NewestCovers).  A failure after a rename or within an append breaks it; *)
(* a crash or a loss of power does not, since it takes the memory.          *)

MemorySafe == Faults \cap {"create", "createSync", "renameSync", "write", "appendSync"} = {}

Rotating == op.pc \in {"renamed", "create", "createSync"}

SizeExact ==
  mem.loaded /\ ~Rotating =>
    Active # NoFile /\ SizeOf(Active) = mem.size + (IF InAppend THEN op.sent ELSE 0)

HolderStage ==
  /\ op.pc # "idle" => call[op.ev].ts <= op.now
  /\ op.pc = "appendSync" => op.sent = call[op.ev].len
  /\ op.pc \in {"rotate", "renamed", "append", "appendSync", "prune"} => mem.loaded
  /\ op.pc = "rotate" => mem.size > 0
  /\ op.pc = "renamed" => Active = NoFile
  /\ op.pc = "createSync" => Lines(Active) = <<>>

MemInv == Submitted /\ SizeExact /\ NewestCovers /\ HolderStage

\* Which events are known and when they were stamped, a step never changes;
\* the holder of the lock has its event and its time from the acquisition on.
Onward ==
  /\ clock \in Nat /\ clock' \in Nat /\ clock <= clock'
  /\ \A e \in Events : call[e].st # "new" =>
       call'[e].st # "new" /\ call'[e].ts = call[e].ts /\ call'[e].len = call[e].len
  /\ op'.pc # "idle" =>
       \/ op.pc # "idle" /\ op'.ev = op.ev /\ op'.now = op.now
       \/ op.pc = "idle" /\ op'.pc = "prepare" /\ op'.now = clock

LEMMA OnwardStep ==
  ASSUME TypeInv, [Next]_vars
  PROVE  Onward
<1>0. clock \in Nat /\ call \in [Events -> CallType] /\ op \in OpType
  BY TypeParts DEF TypeInv
<1>1. ASSUME NEW e \in Events, Submit(e) PROVE Onward
  <2>1. PICK n \in 1..MaxLine :
          call' = [call EXCEPT ![e] = [st |-> "waiting", ts |-> clock, len |-> n]]
    BY <1>1 DEF Submit
  <2>2. UNCHANGED <<clock, op>> /\ call[e].st = "new"
    BY <1>1 DEF Submit
  <2> QED BY <1>0, <2>1, <2>2 DEF Onward
<1>2. ASSUME NEW e \in Events, Acquire(e) PROVE Onward
  <2>1. /\ call' = [call EXCEPT ![e].st = "holding"] /\ op.pc = "idle"
        /\ op' = [Idle EXCEPT !.pc = "prepare", !.ev = e, !.now = clock] /\ clock' = clock
    BY <1>2 DEF Acquire
  <2>2. op'.pc = "prepare" /\ op'.now = clock
    BY <2>1 DEF Idle
  <2> QED BY <1>0, <2>1, <2>2 DEF Onward, CallType
<1>3. ASSUME op.pc # "idle", Raise PROVE Onward
  <2>1. /\ op' = Idle /\ clock' = clock
        /\ \A e \in Events : /\ call'[e].ts = call[e].ts /\ call'[e].len = call[e].len
                             /\ call'[e].st = IF e = op.ev THEN "failed" ELSE call[e].st
    BY <1>3, ReleaseFacts DEF Raise
  <2> QED BY <1>0, <2>1 DEF Onward, Idle
<1>4. ASSUME Finish PROVE Onward
  <2>1. /\ op' = Idle /\ clock' = clock
        /\ \A e \in Events : /\ call'[e].ts = call[e].ts /\ call'[e].len = call[e].len
                             /\ call'[e].st = IF e = op.ev THEN "acked" ELSE call[e].st
    BY <1>4, ReleaseFacts DEF Finish
  <2> QED BY <1>0, <2>1 DEF Onward, Idle
<1>5. ASSUME LoseProcess PROVE Onward
  <2>1. \A e \in Events : call'[e].len = call[e].len
    BY <1>0, <1>5 DEF LoseProcess, CallType
  <2> QED BY <1>0, <1>5, <2>1, LoseProcessFacts DEF Onward, Idle
<1>6. ASSUME op.pc # "idle", clock' = clock, call' = call,
             op'.ev = op.ev, op'.now = op.now
      PROVE  Onward
  BY <1>0, <1>6 DEF Onward
<1>7. ASSUME clock' \in Nat, clock <= clock', UNCHANGED <<call, op>> PROVE Onward
  BY <1>0, <1>7 DEF Onward
<1>8. ASSUME LoadAbsent \/ DecideRotation \/ Rename \/ RenameSync \/ CreateFile \/ CreateSync
                \/ AppendSync
      PROVE  Onward
  <2>1. PICK pc : op' = [op EXCEPT !.pc = pc]
    BY <1>8 DEF LoadAbsent, DecideRotation, Rename, RenameSync, CreateFile, CreateSync,
                AppendSync, Goto
  <2>2. op'.ev = op.ev /\ op'.now = op.now
    BY <1>0, <2>1 DEF OpType
  <2> QED BY <1>6, <1>8, <2>2
          DEF LoadAbsent, DecideRotation, Rename, RenameSync, CreateFile, CreateSync, AppendSync
<1>9. ASSUME WriteSome \/ WriteRest \/ PruneOne PROVE Onward
  <2>1. op'.ev = op.ev /\ op'.now = op.now
    BY <1>0, <1>9 DEF WriteSome, WriteRest, PruneOne, OpType
  <2> QED BY <1>6, <1>9, <2>1 DEF WriteSome, WriteRest, PruneOne
<1>10. ASSUME LoadExisting \/ Tick \/ Rest \/ UNCHANGED vars PROVE Onward
  BY <1>0, <1>7, <1>10 DEF LoadExisting, Tick, Rest, vars
<1> QED
  BY <1>1, <1>2, <1>3, <1>4, <1>5, <1>8, <1>9, <1>10
  DEF Next, HolderStep, LoadRejected, RenameMissing, AppendMissing, SystemCallFails, Crash,
      PowerLoss

\* A step that leaves the lines and the active file alone, and the memory, or
\* takes the memory away.
LEMMA QuietMemory ==
  ASSUME TypeInv, MemInv, Onward, Active' = Active, FileIds' = FileIds,
         \A f \in FileIds : Lines(f)' = Lines(f),
         \/ ~mem'.loaded
         \/ mem' = mem /\ op' = op
         \/ /\ mem' = mem /\ ~InAppend /\ op'.pc # "appendSync"
            /\ op'.pc = "append" => op'.sent = 0
            /\ mem.loaded /\ Rotating => op'.pc \in {"renamed", "create", "createSync"},
         HolderStage'
  PROVE  MemInv'
<1> USE DEF MemInv
<1>1. \A f \in FileIds : \A i \in 1..Len(Lines(f)) : Lines(f)[i].ev \in Events
  BY FileFacts DEF TypeInv, Line
<1>2. Active # NoFile => Active \in FileIds
  BY ViewFacts DEF TypeInv
<1>3. Submitted'
  BY <1>1 DEF Submitted, Onward
<1>4. /\ Active # NoFile => Lines(Active)' = Lines(Active)
      /\ Active # NoFile => SizeOf(Active)' = SizeOf(Active)
  <2>1. PICK a : a = Active
    OBVIOUS
  <2>2. Active # NoFile => Lines(a)' = Lines(a)
    BY <1>2, <2>1
  <2> QED BY <2>1, <2>2 DEF Lines, SizeOf, LastLine
<1>5. SizeExact'
  <2> SUFFICES ASSUME mem'.loaded, ~Rotating'
               PROVE  /\ Active # NoFile
                      /\ SizeOf(Active) = mem'.size + (IF InAppend' THEN op'.sent ELSE 0)
    BY <1>4 DEF SizeExact
  <2>1. mem.size \in Nat /\ op.sent \in Nat
    BY TypeParts DEF TypeInv, MemType, OpType
  <2>2. CASE op' = op
    BY <2>2 DEF SizeExact, Rotating, InAppend
  <2>3. CASE op' # op
    BY <2>1, <2>3 DEF SizeExact, Rotating, InAppend
  <2> QED BY <2>2, <2>3
<1>6. NewestCovers'
  <2> SUFFICES ASSUME mem'.loaded, Active # NoFile, NEW i \in 1..Len(Lines(Active))
               PROVE  \/ call'[Lines(Active)[i].ev].ts <= mem'.newest
                      \/ InAppend' /\ Lines(Active)[i].ev = op'.ev
    BY <1>4 DEF NewestCovers, InAppend
  <2>1. Lines(Active)[i].ev \in Events /\ call[Lines(Active)[i].ev].st # "new"
    BY <1>1, <1>2 DEF Submitted
  <2>2. \/ call[Lines(Active)[i].ev].ts <= mem.newest
        \/ InAppend /\ Lines(Active)[i].ev = op.ev
    BY DEF NewestCovers, InAppend
  <2> QED BY <2>1, <2>2 DEF Onward, InAppend
<1> QED BY <1>3, <1>5, <1>6

\* Outside of the calls, and where a call ends.
LEMMA QuietStage ==
  ASSUME TypeInv, MemInv, Onward, Active' = Active, FileIds' = FileIds,
         \A f \in FileIds : Lines(f)' = Lines(f), UNCHANGED mem,
         \/ op' = op
         \/ op'.pc = "idle"
         \/ op.pc = "idle" /\ op'.pc = "prepare" /\ call'[op'.ev].ts <= op'.now
  PROVE  HolderStage'
<1>1. op.pc # "idle" => op.ev \in Events /\ call[op.ev].st # "new"
  BY DEF TypeInv, HolderInv
<1>2. op.pc = "createSync" => Active \in FileIds
  BY ViewFacts DEF TypeInv, HolderInv
<1>3. op.pc = "createSync" => Lines(Active)' = Lines(Active)
  <2>1. PICK a : a = Active
    OBVIOUS
  <2>2. op.pc = "createSync" => Lines(a)' = Lines(a)
    BY <1>2, <2>1
  <2> QED BY <2>1, <2>2 DEF Lines
<1>4. CASE op' = op
  BY <1>1, <1>3, <1>4 DEF MemInv, HolderStage, Onward
<1>5. CASE op'.pc = "idle"
  BY <1>5 DEF HolderStage
<1>6. CASE op.pc = "idle" /\ op'.pc = "prepare" /\ call'[op'.ev].ts <= op'.now
  BY <1>6 DEF HolderStage
<1> QED BY <1>4, <1>5, <1>6

\* The steps of the environment: a call is made, the lock is taken, time passes.
LEMMA MemOutside ==
  ASSUME TypeInv, MemInv, Onward, UNCHANGED <<files, dirs, mem>>,
         \/ op' = op
         \/ op.pc = "idle" /\ op'.pc = "prepare" /\ call'[op'.ev].ts <= op'.now
  PROVE  MemInv'
<1>1. Active' = Active /\ FileIds' = FileIds /\ \A f : Lines(f)' = Lines(f)
  BY DEF Active, View, FileIds, Lines
<1>2. HolderStage'
  BY <1>1, QuietStage
<1> QED BY <1>1, <1>2, QuietMemory DEF InAppend, Rotating

\* A call ends: the memory stands, and no append was under way.
LEMMA MemEnds ==
  ASSUME TypeInv, MemInv, Onward, files' = files, View' = View, UNCHANGED mem,
         op' = Idle, mem.loaded => ~InAppend /\ ~Rotating
  PROVE  MemInv'
<1>1. Active' = Active /\ FileIds' = FileIds /\ \A f : Lines(f)' = Lines(f)
  BY DEF Active, FileIds, Lines
<1>2. HolderStage'
  BY <1>1, QuietStage DEF Idle
<1> QED BY <1>1, <1>2, QuietMemory DEF Idle

\* A call moves on to its next decision or system call.
LEMMA MemGoto ==
  ASSUME TypeInv, MemInv, Onward, UNCHANGED <<call, mem, files>>, View' = View,
         NEW pc, Goto(pc), op.pc \in {"prepare", "renamed"},
         \/ pc = "create"
         \/ pc \in {"rotate", "append"} /\ op.pc = "prepare" /\ mem.loaded
              /\ (pc = "rotate" => mem.size > 0)
  PROVE  MemInv'
<1>1. Active' = Active /\ FileIds' = FileIds /\ \A f : Lines(f)' = Lines(f)
  BY DEF Active, FileIds, Lines
<1>2. op'.pc = pc /\ op'.ev = op.ev /\ op'.now = op.now /\ op'.sent = 0
  <2>1. op \in OpType /\ op.sent = 0
    BY TypeParts DEF TypeInv, HolderInv
  <2> QED BY <2>1 DEF Goto, OpType
<1>3. HolderStage'
  BY <1>2 DEF MemInv, HolderStage
<1> QED BY <1>1, <1>2, <1>3, QuietMemory DEF InAppend, Rotating

\* What is remembered of an active file that was found is what it holds.
LEMMA MemLoads ==
  ASSUME TypeInv, MemInv, Onward, LoadExisting
  PROVE  MemInv'
<1>1. /\ UNCHANGED <<call, op, files, dirs>> /\ op.pc = "prepare"
      /\ Active # NoFile /\ mem' = LoadedActive(Active, op.now)
  BY DEF LoadExisting
<1>2. Active' = Active /\ FileIds' = FileIds /\ \A f : Lines(f)' = Lines(f)
  BY <1>1 DEF Active, View, FileIds, Lines
<1>3. Active \in FileIds /\ SizeOf(Active) \in Nat
  BY <1>1, ViewFacts, FileFacts DEF TypeInv
<1>4. Submitted' /\ HolderStage'
  BY <1>1, <1>2 DEF MemInv, Submitted, HolderStage
<1>5. mem'.size = SizeOf(Active)
  BY <1>1 DEF LoadedActive, FreshActive, SizeOf
<1>6. SizeExact'
  <2>1. SizeOf(Active)' = SizeOf(Active)
    BY <1>2 DEF SizeOf, LastLine
  <2> QED BY <1>1, <1>2, <1>3, <1>5, <2>1 DEF SizeExact, InAppend
<1>7. NewestCovers'
  <2>1. CASE Lines(Active) = <<>>
    BY <1>2, <2>1 DEF NewestCovers
  <2>2. CASE Lines(Active) # <<>>
    <3>1. mem'.newest = NewestTimestamp(Active)
      BY <1>1, <2>2 DEF LoadedActive
    <3>2. \A i \in 1..Len(Lines(Active)) : call[Lines(Active)[i].ev].ts <= mem'.newest
      BY <1>3, <2>2, <3>1, NewestTimestampFacts
    <3> QED BY <1>1, <1>2, <3>2 DEF NewestCovers
  <2> QED BY <2>1, <2>2
<1> QED BY <1>4, <1>6, <1>7 DEF MemInv

\* The rotation: the file is renamed, a new one is made and then remembered.
LEMMA MemRotates ==
  ASSUME TypeInv, MemInv, Onward, Rename \/ CreateFile \/ CreateSync
  PROVE  MemInv'
<1>0. op \in OpType /\ op.sent \in Nat
  BY TypeParts DEF TypeInv, OpType
<1>1. CASE Rename
  <2>1. /\ UNCHANGED <<call, mem, files>> /\ op.pc = "rotate"
        /\ op' = [op EXCEPT !.pc = "renamed"]
    BY <1>1 DEF Rename, Goto
  <2>2. op'.pc = "renamed" /\ op'.ev = op.ev /\ op'.now = op.now
    BY <1>0, <2>1 DEF OpType
  <2>3. Active' = NoFile
    BY <1>1, RenameDisk DEF Active
  <2>4. FileIds' = FileIds /\ \A f : Lines(f)' = Lines(f)
    BY <2>1 DEF FileIds, Lines
  <2> QED BY <2>1, <2>2, <2>3, <2>4
          DEF MemInv, Submitted, SizeExact, Rotating, NewestCovers, HolderStage
<1>2. CASE CreateFile
  <2>1. /\ UNCHANGED <<call, mem>> /\ op.pc = "create"
        /\ op' = [op EXCEPT !.pc = "createSync"]
    BY <1>2 DEF CreateFile, Goto
  <2>2. op'.pc = "createSync" /\ op'.ev = op.ev /\ op'.now = op.now
    BY <1>0, <2>1 DEF OpType
  <2>3. PICK new : new = Len(files) + 1
    OBVIOUS
  <2>4. /\ View' = [View EXCEPT !.active = new] /\ Len(files') = new /\ Len(files) \in Nat
        /\ \A f \in FileIds : files'[f] = files[f]
        /\ files'[new] = [lines |-> <<>>, safe |-> 0]
    BY <1>2, <2>3, CreateFileDisk
  <2>5. Active' = new /\ FileIds' = FileIds \cup {new}
    <3>1. View \in DirView
      BY ViewFacts DEF TypeInv
    <3> QED BY <2>3, <2>4, <3>1 DEF Active, DirView, FileIds
  <2>6. Lines(new)' = <<>> /\ Lines(Active)' = <<>> /\ \A f \in FileIds : Lines(f)' = Lines(f)
    BY <2>4, <2>5 DEF Lines
  <2>7. Submitted'
    BY <2>1, <2>5, <2>6 DEF MemInv, Submitted
  <2> QED BY <2>1, <2>2, <2>6, <2>7
          DEF MemInv, SizeExact, Rotating, NewestCovers, HolderStage
<1>3. CASE CreateSync
  <2>1. /\ UNCHANGED <<call, files>> /\ op.pc = "createSync" /\ mem' = FreshActive(op.now)
        /\ op' = [op EXCEPT !.pc = "append"] /\ op.sent = 0 /\ Active # NoFile
        /\ Lines(Active) = <<>>
    BY <1>3 DEF CreateSync, Goto, TypeInv, HolderInv, MemInv, HolderStage
  <2>2. /\ op'.pc = "append" /\ op'.ev = op.ev /\ op'.now = op.now /\ op'.sent = 0
        /\ mem'.loaded /\ mem'.size = 0
    BY <1>0, <2>1 DEF OpType, FreshActive
  <2>3. Active' = Active
    BY <1>3, FsyncParentDisk DEF CreateSync
  <2>4. FileIds' = FileIds /\ \A f : Lines(f)' = Lines(f)
    BY <2>1 DEF FileIds, Lines
  <2>5. Lines(Active)' = <<>>
    BY <2>1, <2>3, <2>4
  <2>6. SizeOf(Active)' = 0
    BY <2>5 DEF SizeOf
  <2> QED BY <2>1, <2>2, <2>3, <2>4, <2>5, <2>6
          DEF MemInv, Submitted, SizeExact, InAppend, NewestCovers, HolderStage
<1> QED BY <1>1, <1>2, <1>3

\* A write adds its bytes to the file and to what was sent of the event.
LEMMA MemWrites ==
  ASSUME TypeInv, MemInv, Onward, op.pc = "append", Active # NoFile,
         UNCHANGED <<call, mem, dirs>>, NEW n \in Nat \ {0}, NEW last \in BOOLEAN,
         files' = WithBytes(Active, op.ev, n, last),
         op'.ev = op.ev, op'.sent = op.sent + n,
         \/ op'.pc = "append"
         \/ op'.pc = "appendSync" /\ op'.sent = call[op.ev].len
  PROVE  MemInv'
<1>1. PICK a : a = Active
  OBVIOUS
<1>2. /\ Active' = a /\ FileIds' = FileIds /\ a \in FileIds /\ op.ev \in Events
      /\ \A f \in FileIds \ {a} : Lines(f)' = Lines(f)
  BY <1>1, WriteLines
<1>3. PICK lines \in Seq(Line), kept \in Nat :
        /\ files'[a].lines = lines /\ Len(lines) = kept + 1
        /\ \A i \in 1..kept : i \in 1..Len(Lines(a)) /\ lines[i] = Lines(a)[i]
        /\ lines[kept + 1].ev = op.ev
        /\ lines[kept + 1].end = SizeOf(a) + n
  <2>1. PICK lines \in Seq(Line), kept \in Nat : Wrote(a, lines, kept, n, last)
    BY <1>1, WriteLines
  <2> QED BY <2>1 DEF Wrote
<1>4. Lines(a)' = lines /\ Lines(Active)' = lines
  BY <1>2, <1>3 DEF Lines
<1>5. SizeOf(Active)' = SizeOf(a) + n
  <2>1. LastLine(Active)' = lines[kept + 1] /\ lines # <<>>
    BY <1>3, <1>4 DEF LastLine
  <2> QED BY <1>3, <1>4, <2>1 DEF SizeOf
<1>6. mem.loaded /\ SizeOf(a) = mem.size + op.sent
  BY <1>1 DEF MemInv, HolderStage, SizeExact, Rotating, InAppend
<1>7. mem.size \in Nat /\ op.sent \in Nat
  BY TypeParts DEF TypeInv, MemType, OpType
<1>8. SizeExact'
  BY <1>1, <1>2, <1>5, <1>6, <1>7 DEF SizeExact, InAppend
<1>9. Submitted'
  <2>1. call[op.ev].st # "new"
    BY DEF TypeInv, HolderInv
  <2>2. ASSUME NEW i \in 1..Len(lines) PROVE call[lines[i].ev].st # "new"
    <3>1. CASE i = kept + 1
      BY <1>3, <2>1, <3>1
    <3>2. CASE i # kept + 1
      <4>1. i \in 1..kept
        BY <1>3, <3>2
      <4> QED BY <1>2, <1>3, <4>1 DEF MemInv, Submitted
    <3> QED BY <3>1, <3>2
  <2> QED BY <1>2, <1>4, <2>2 DEF MemInv, Submitted
<1>10. NewestCovers'
  <2> SUFFICES ASSUME NEW i \in 1..Len(lines)
               PROVE  call[lines[i].ev].ts <= mem.newest \/ lines[i].ev = op.ev
    BY <1>4 DEF NewestCovers
  <2>1. CASE i = kept + 1
    BY <1>3, <2>1
  <2>2. CASE i # kept + 1
    <3>1. i \in 1..kept
      BY <1>3, <2>2
    <3> QED BY <1>1, <1>3, <1>6, <3>1 DEF MemInv, NewestCovers
  <2> QED BY <2>1, <2>2
<1>11. HolderStage'
  BY <1>6 DEF MemInv, HolderStage, Onward
<1> QED BY <1>8, <1>9, <1>10, <1>11 DEF MemInv

LEMMA MemAppends ==
  ASSUME TypeInv, MemInv, Onward, WriteSome \/ WriteRest
  PROVE  MemInv'
<1>0. /\ op.pc = "append" /\ Active # NoFile /\ UNCHANGED <<call, mem, dirs>>
      /\ op \in OpType /\ op.sent \in Nat /\ call[op.ev].len \in Nat
      /\ op.sent < call[op.ev].len
  <2>1. op.pc = "append" /\ Active # NoFile /\ UNCHANGED <<call, mem, dirs>>
    BY DEF WriteSome, WriteRest
  <2>2. op.ev \in Events /\ op.sent < call[op.ev].len
    BY <2>1 DEF TypeInv, HolderInv
  <2>3. op \in OpType /\ op.sent \in Nat
    BY TypeParts DEF TypeInv, OpType
  <2>4. call[op.ev].len \in Nat
    BY <2>2, TypeParts, SizeAssumption DEF TypeInv, CallType
  <2> QED BY <2>1, <2>2, <2>3, <2>4
<1>1. CASE WriteSome
  <2>1. PICK n \in 1..(call[op.ev].len - op.sent) :
          /\ files' = WithBytes(Active, op.ev, n, FALSE)
          /\ op' = [op EXCEPT !.sent = op.sent + n]
    BY <1>1 DEF WriteSome
  <2>2. n \in Nat \ {0}
    BY <1>0
  <2>3. op'.pc = "append" /\ op'.ev = op.ev /\ op'.sent = op.sent + n
    BY <1>0, <2>1 DEF OpType
  <2> QED BY <1>0, <2>1, <2>2, <2>3, MemWrites
<1>2. CASE WriteRest
  <2>1. PICK n : n = call[op.ev].len - op.sent
    OBVIOUS
  <2>2. /\ files' = WithBytes(Active, op.ev, n, TRUE)
        /\ op' = [op EXCEPT !.sent = call[op.ev].len, !.pc = "appendSync"]
    BY <1>2, <2>1 DEF WriteRest
  <2>3. n \in Nat \ {0} /\ call[op.ev].len = op.sent + n
    BY <1>0, <2>1
  <2>4. op'.pc = "appendSync" /\ op'.ev = op.ev /\ op'.sent = call[op.ev].len
    BY <1>0, <2>2 DEF OpType
  <2> QED BY <1>0, <2>2, <2>3, <2>4, MemWrites
<1> QED BY <1>1, <1>2

\* The append is over: the memory takes in what was written.
LEMMA MemSyncs ==
  ASSUME TypeInv, MemInv, Onward, AppendSync
  PROVE  MemInv'
<1>1. /\ UNCHANGED <<clock, call>> /\ op.pc = "appendSync"
      /\ op' = [op EXCEPT !.pc = "prune"] /\ op \in OpType /\ mem \in MemType
      /\ mem' = [mem EXCEPT !.size = mem.size + call[op.ev].len,
                            !.newest = Larger(mem.newest, op.now)]
  BY TypeParts DEF AppendSync, Goto, TypeInv
<1>2. /\ Active' = Active /\ Len(files') = Len(files)
      /\ \A f \in FileIds : files'[f].lines = files[f].lines
  BY AppendSyncDisk
<1>3. /\ op'.pc = "prune" /\ op'.ev = op.ev /\ op'.now = op.now /\ op.ev \in Events
      /\ mem.loaded /\ mem'.loaded /\ mem'.size = mem.size + call[op.ev].len
      /\ mem'.newest = Larger(mem.newest, op.now) /\ op.sent = call[op.ev].len
      /\ call[op.ev].ts <= op.now
  BY <1>1 DEF OpType, MemType, TypeInv, HolderInv, MemInv, HolderStage
<1>4. /\ Active # NoFile /\ SizeOf(Active) = mem.size + op.sent
  BY <1>1, <1>3 DEF MemInv, SizeExact, Rotating, InAppend
<1>5. Active \in FileIds /\ FileIds' = FileIds /\ \A f \in FileIds : Lines(f)' = Lines(f)
  BY <1>2, <1>4, ViewFacts DEF TypeInv, FileIds, Lines
<1>6. Lines(Active)' = Lines(Active)
  <2>1. PICK a : a = Active
    OBVIOUS
  <2>2. Lines(a)' = Lines(a)
    BY <1>5, <2>1
  <2> QED BY <1>2, <2>1, <2>2 DEF Lines
<1>7. SizeExact'
  <2>1. SizeOf(Active)' = SizeOf(Active)
    BY <1>6 DEF SizeOf, LastLine
  <2>2. SizeOf(Active) \in Nat /\ mem'.size = SizeOf(Active) + 0
    BY <1>3, <1>4, <1>5, FileFacts DEF TypeInv
  <2> QED BY <1>2, <1>3, <1>4, <2>1, <2>2 DEF SizeExact, InAppend
<1>8. NewestCovers'
  <2> SUFFICES ASSUME NEW i \in 1..Len(Lines(Active))
               PROVE  call[Lines(Active)[i].ev].ts <= mem'.newest
    BY <1>1, <1>2, <1>6 DEF NewestCovers
  <2>1. /\ mem.newest \in Nat /\ op.now \in Nat
        /\ mem.newest <= mem'.newest /\ op.now <= mem'.newest /\ mem'.newest \in Nat
    BY <1>1, <1>3 DEF Larger, MemType, OpType
  <2>2. Lines(Active)[i].ev \in Events
    BY <1>5, FileFacts DEF TypeInv, Line
  <2>3. call[Lines(Active)[i].ev].ts \in Nat
    BY <2>2, TypeParts DEF TypeInv, CallType
  <2>4. call[Lines(Active)[i].ev].ts <= mem.newest \/ Lines(Active)[i].ev = op.ev
    BY <1>3, <1>4 DEF MemInv, NewestCovers
  <2> QED BY <1>3, <2>1, <2>3, <2>4
<1>9. Submitted' /\ HolderStage'
  BY <1>1, <1>3, <1>5 DEF MemInv, Submitted, HolderStage
<1> QED BY <1>7, <1>8, <1>9 DEF MemInv

\* Retention leaves the active file alone.
LEMMA MemPrunes ==
  ASSUME TypeInv, MemInv, Onward, PruneOne
  PROVE  MemInv'
<1>1. /\ UNCHANGED <<call, mem, files>> /\ op.pc = "prune"
      /\ op' = [op EXCEPT !.deleted = TRUE] /\ op \in OpType
  BY TypeParts DEF PruneOne, TypeInv
<1>2. Active' = Active
  <2>1. PICK s \in Expired : View' = [View EXCEPT !.segs = @ \ {s}]
    BY PruneDisk
  <2>2. View \in DirView
    BY ViewFacts DEF TypeInv
  <2> QED BY <2>1, <2>2 DEF Active, DirView
<1>3. FileIds' = FileIds /\ \A f : Lines(f)' = Lines(f)
  BY <1>1 DEF FileIds, Lines
<1>4. op'.pc = "prune" /\ op'.ev = op.ev /\ op'.now = op.now
  BY <1>1 DEF OpType
<1>5. HolderStage'
  BY <1>1, <1>4 DEF MemInv, HolderStage
<1> QED BY <1>1, <1>2, <1>3, <1>4, <1>5, QuietMemory DEF InAppend, Rotating

\* A loss of power takes the memory; the lines it leaves are of known events.
LEMMA MemPowerLoss ==
  ASSUME TypeInv, MemInv, Onward, PowerLoss
  PROVE  MemInv'
<1>1. op' = Idle /\ mem' = Unloaded
  BY DEF PowerLoss, LoseProcess
<1>2. SizeExact' /\ NewestCovers' /\ HolderStage'
  BY <1>1 DEF Idle, Unloaded, SizeExact, NewestCovers, HolderStage
<1>3. FileIds' = FileIds /\ \A f \in FileIds : Remains(files[f], Lines(f)')
  BY PowerLossDisk
<1>4. Submitted'
  <2> SUFFICES ASSUME NEW f \in FileIds, NEW i \in 1..Len(Lines(f)')
               PROVE  call'[Lines(f)'[i].ev].st # "new"
    BY <1>3 DEF Submitted
  <2>1. i \in 1..Len(Lines(f)) /\ Lines(f)'[i].ev = Lines(f)[i].ev
    BY <1>3, RemainsFacts
  <2>2. Lines(f)[i].ev \in Events /\ call[Lines(f)[i].ev].st # "new"
    BY <2>1, FileFacts DEF TypeInv, Line, MemInv, Submitted
  <2> QED BY <2>1, <2>2 DEF Onward
<1> QED BY <1>2, <1>4 DEF MemInv

LEMMA MemInvStep ==
  ASSUME MemorySafe, TypeInv, MemInv, [Next]_vars
  PROVE  MemInv'
<1>0. Onward
  BY OnwardStep
<1>1. ASSUME NEW e \in Events, Submit(e) PROVE MemInv'
  BY <1>0, <1>1, MemOutside DEF Submit
<1>2. ASSUME NEW e \in Events, Acquire(e) PROVE MemInv'
  <2>1. op'.pc = "prepare" /\ op'.ev = e /\ op'.now = clock
    BY <1>2 DEF Acquire, Idle
  <2>2. call[e].ts <= clock /\ call[e].st # "new"
    BY <1>2 DEF Acquire, TypeInv, HolderInv
  <2>3. call'[op'.ev].ts <= op'.now
    BY <1>0, <2>1, <2>2 DEF Onward
  <2> QED BY <1>0, <1>2, <2>1, <2>3, MemOutside DEF Acquire
<1>3. ASSUME Tick \/ Rest \/ UNCHANGED vars PROVE MemInv'
  BY <1>0, <1>3, MemOutside DEF Tick, Rest, vars
<1>4. ASSUME LoadAbsent PROVE MemInv'
  BY <1>0, <1>4, MemGoto DEF LoadAbsent, View
<1>5. ASSUME RenameSync PROVE MemInv'
  BY <1>0, <1>5, MemGoto, FsyncParentDisk DEF RenameSync
<1>6. ASSUME DecideRotation PROVE MemInv'
  BY <1>0, <1>6, MemGoto DEF DecideRotation, ShouldRotate, View
<1>7. ASSUME op.pc # "idle", Raise, mem.loaded => ~InAppend /\ ~Rotating PROVE MemInv'
  BY <1>0, <1>7, MemEnds DEF Raise, Release, View
<1>8. ASSUME LoadRejected \/ RenameMissing \/ AppendMissing PROVE MemInv'
  <2>1. CASE LoadRejected
    BY <1>7, <2>1 DEF LoadRejected
  <2>2. ~RenameMissing /\ ~AppendMissing
    BY DEF RenameMissing, AppendMissing, MemInv, HolderStage, SizeExact, Rotating
  <2> QED BY <1>8, <2>1, <2>2
<1>9. ASSUME SystemCallFails PROVE MemInv'
  <2>1. op.pc # "idle" /\ Raise /\ NextSystemCall \cap Faults # {}
    BY <1>9 DEF SystemCallFails, GoesWrong
  <2>2. ~InAppend /\ ~Rotating
    BY <2>1 DEF NextSystemCall, MemorySafe, InAppend, Rotating
  <2> QED BY <1>7, <2>1, <2>2
<1>10. ASSUME Finish PROVE MemInv'
  <2>1. View' = View /\ op' = Idle /\ UNCHANGED <<mem, files>> /\ op.pc = "prune"
    BY <1>10, FsyncParentDisk DEF Finish, Release, View
  <2> QED BY <1>0, <2>1, MemEnds DEF InAppend, Rotating
<1>11. ASSUME Crash PROVE MemInv'
  <2>1. op' = Idle /\ mem' = Unloaded /\ UNCHANGED <<files, dirs>>
    BY <1>11 DEF Crash, LoseProcess
  <2>2. HolderStage'
    BY <2>1 DEF Idle, HolderStage
  <2> QED BY <1>0, <2>1, <2>2, QuietMemory DEF Unloaded, Active, View, FileIds, Lines
<1> QED
  BY <1>0, <1>1, <1>2, <1>3, <1>4, <1>5, <1>6, <1>8, <1>9, <1>10, <1>11,
     MemLoads, MemRotates, MemAppends, MemSyncs, MemPrunes, MemPowerLoss
  DEF Next, HolderStep

\* While the lock is free what the process remembers of the active file is what
\* the file holds: its size to the byte, and a newest time no event in it is
\* later than.  A failed rename or unlink, crashes and losses of power included
\* (JsonlAuditLogger._active_size, _active_newest_at).
THEOREM MemoryIsExact ==
  ASSUME MemorySafe
  PROVE  Spec => []MemoryAgrees
<1>1. Init => TypeInv /\ MemInv
  <2>1. Init => MemInv
    BY DEF Init, Idle, Unloaded, FileIds, MemInv, Submitted, SizeExact, NewestCovers, HolderStage
  <2> QED BY <2>1, TypeInvInit
<1>2. TypeInv /\ MemInv /\ [Next]_vars => (TypeInv /\ MemInv)'
  BY MemInvStep, TypeInvStep, TypeInvStutter
<1>3. TypeInv /\ MemInv => MemoryAgrees
  <2> SUFFICES ASSUME TypeInv, MemInv, mem.loaded, op.pc = "idle"
               PROVE  /\ Active # NoFile /\ mem.size = SizeOf(Active)
                      /\ \A i \in 1..Len(Lines(Active)) : call[Lines(Active)[i].ev].ts <= mem.newest
    BY DEF MemoryAgrees
  <2>1. mem.size \in Nat
    BY TypeParts DEF TypeInv, MemType
  <2> QED BY <2>1 DEF MemInv, SizeExact, Rotating, InAppend, NewestCovers
<1> QED BY <1>1, <1>2, <1>3, PTL DEF Spec

-----------------------------------------------------------------------------
(* One day per file.  The rotation looks at the date of the file's first    *)
(* event and at the time of the new record; that no file mixes two days     *)
(* follows because times only grow: an event was stamped before it was      *)
(* appended, nothing was appended later than the record under way           *)
(* (LineTimes), and the date remembered of a file is not after the day its  *)
(* lines were appended on (StartedBefore).                                  *)

LineTimes ==
  \A f \in FileIds : \A i \in 1..Len(Lines(f)) :
    /\ Lines(f)[i].at <= clock
    /\ op.pc # "idle" => Lines(f)[i].at <= op.now
    /\ call[Lines(f)[i].ev].ts <= Lines(f)[i].at

StartedBefore ==
  mem.loaded =>
    /\ mem.started <= clock
    /\ op.pc # "idle" => mem.started <= op.now
    /\ Active # NoFile =>
         \A i \in 1..Len(Lines(Active)) : Day(mem.started) <= Day(Lines(Active)[i].at)

AppendsToday ==
  op.pc = "append" /\ Active # NoFile =>
    \A i \in 1..Len(Lines(Active)) : Day(Lines(Active)[i].at) = Day(op.now)

EachDaily ==
  \A f \in FileIds : \A i, j \in 1..Len(Lines(f)) :
    Day(Lines(f)[i].at) = Day(Lines(f)[j].at)

DayInv == LineTimes /\ StartedBefore /\ AppendsToday /\ EachDaily

\* Later times are not on earlier days.
LEMMA DayMonotone ==
  ASSUME NEW a \in Nat, NEW b \in Nat, a <= b
  PROVE  Day(a) \in Nat /\ Day(b) \in Nat /\ Day(a) <= Day(b)
BY TimeAssumption DEF Day

\* Every file has the lines it had, a new one has none, and no other file becomes the
\* active one unless it is empty.
Kept ==
  /\ FileIds \subseteq FileIds'
  /\ \A f \in FileIds' : Lines(f)' = IF f \in FileIds THEN Lines(f) ELSE <<>>
  /\ Active' \in {Active, NoFile} \/ Lines(Active)' = <<>>

\* Every step but a write and a loss of power is such.
LEMMA KeptStep ==
  ASSUME TypeInv, [Next]_vars, ~WriteSome, ~WriteRest, ~PowerLoss
  PROVE  Kept
<1>1. ASSUME files' = files, Active' \in {Active, NoFile} PROVE Kept
  BY <1>1 DEF Kept, FileIds, Lines
<1>2. ASSUME files' = files, dirs' = dirs PROVE Kept
  BY <1>1, <1>2 DEF View, Active
<1>3. ASSUME Rename PROVE Kept
  <2>1. files' = files /\ Active' = NoFile
    BY <1>3, RenameDisk DEF Rename, Active
  <2> QED BY <1>1, <2>1
<1>4. ASSUME CreateFile PROVE Kept
  <2>1. PICK new : new = Len(files) + 1
    OBVIOUS
  <2>2. /\ View' = [View EXCEPT !.active = new]
        /\ \A f \in FileIds : files'[f] = files[f]
        /\ files'[new] = [lines |-> <<>>, safe |-> 0]
        /\ Len(files') = Len(files) + 1 /\ Len(files) \in Nat
    BY <1>4, <2>1, CreateFileDisk
  <2>3. View \in DirView
    BY ViewFacts DEF TypeInv
  <2>4. Active' = new
    BY <2>2, <2>3 DEF DirView, Active
  <2>5. Lines(new)' = <<>> /\ \A f \in FileIds : Lines(f)' = Lines(f)
    BY <2>2 DEF Lines
  <2>6. Lines(Active)' = <<>>
    BY <2>4, <2>5 DEF Lines
  <2>7. FileIds \subseteq FileIds' /\ new \notin FileIds
        /\ \A f \in FileIds' : f = new \/ f \in FileIds
    BY <2>1, <2>2 DEF FileIds
  <2> QED BY <2>5, <2>6, <2>7 DEF Kept
<1>5. ASSUME RenameSync \/ CreateSync \/ Finish PROVE Kept
  <2>1. files' = files /\ Active' = Active
    BY <1>5, FsyncParentDisk DEF RenameSync, CreateSync, Finish, View, Active
  <2> QED BY <1>1, <2>1
<1>6. ASSUME AppendSync PROVE Kept
  <2>1. /\ Active' = Active /\ FileIds' = FileIds
        /\ \A f \in FileIds : Lines(f)' = Lines(f)
    BY <1>6, AppendSyncDisk DEF Lines, FileIds
  <2> QED BY <2>1 DEF Kept
<1>7. ASSUME PruneOne PROVE Kept
  <2>1. PICK s \in Expired : View' = [View EXCEPT !.segs = @ \ {s}]
    BY <1>7, PruneDisk
  <2>2. View \in DirView /\ files' = files
    BY <1>7, ViewFacts DEF PruneOne, TypeInv
  <2>3. Active' = Active
    BY <2>1, <2>2 DEF Active, DirView
  <2> QED BY <1>1, <2>2, <2>3
<1>8. ASSUME NEW e \in Events, Submit(e) \/ Acquire(e) PROVE Kept
  BY <1>2, <1>8 DEF Submit, Acquire
<1>9. ASSUME \/ LoadAbsent \/ LoadRejected \/ LoadExisting \/ DecideRotation
             \/ RenameMissing \/ AppendMissing
      PROVE  Kept
  BY <1>2, <1>9
  DEF LoadAbsent, LoadRejected, LoadExisting, DecideRotation, RenameMissing, AppendMissing, Raise
<1>10. ASSUME SystemCallFails \/ Crash \/ Tick \/ Rest \/ UNCHANGED vars PROVE Kept
  BY <1>2, <1>10 DEF SystemCallFails, Crash, Tick, Rest, Raise, vars
<1> QED
  BY <1>3, <1>4, <1>5, <1>6, <1>7, <1>8, <1>9, <1>10 DEF Next, HolderStep

\* Such a step keeps the times of the lines in order and the files of one day.
LEMMA DayKept ==
  ASSUME TypeInv, Submitted, DayInv, Onward, Kept
  PROVE  LineTimes' /\ EachDaily'
<1>1. ASSUME NEW f \in FileIds', Lines(f)' # <<>>
      PROVE  f \in FileIds /\ Lines(f)' = Lines(f)
  BY <1>1 DEF Kept
<1>2. ASSUME NEW f \in FileIds', NEW i \in 1..Len(Lines(f)')
      PROVE  /\ Lines(f)'[i].at <= clock'
             /\ op'.pc # "idle" => Lines(f)'[i].at <= op'.now
             /\ call'[Lines(f)'[i].ev].ts <= Lines(f)'[i].at
  <2>1. Lines(f)' # <<>>
    BY <1>2
  <2>2. f \in FileIds /\ Lines(f)' = Lines(f)
    BY <1>1, <2>1
  <2>3. PICK line : line = Lines(f)[i]
    OBVIOUS
  <2>4. /\ line.at <= clock /\ (op.pc # "idle" => line.at <= op.now)
        /\ call[line.ev].ts <= line.at /\ call[line.ev].st # "new"
    BY <2>2, <2>3 DEF DayInv, LineTimes, Submitted
  <2>5. line.at \in Nat /\ line.ev \in Events
    BY <2>2, <2>3, FileFacts DEF TypeInv, Line
  <2>6. line.at <= clock' /\ call'[line.ev].ts = call[line.ev].ts
    BY <2>4, <2>5 DEF Onward
  <2>7. op'.pc # "idle" => line.at <= op'.now
    BY <2>4 DEF Onward
  <2> QED BY <2>2, <2>3, <2>4, <2>6, <2>7
<1>3. LineTimes'
  BY <1>2 DEF LineTimes
<1>4. ASSUME NEW f \in FileIds', NEW i \in 1..Len(Lines(f)'), NEW j \in 1..Len(Lines(f)')
      PROVE  Day(Lines(f)'[i].at) = Day(Lines(f)'[j].at)
  <2>1. Lines(f)' # <<>>
    BY <1>4
  <2>2. f \in FileIds /\ Lines(f)' = Lines(f)
    BY <1>1, <2>1
  <2> QED BY <2>2 DEF DayInv, EachDaily
<1>5. EachDaily'
  BY <1>4 DEF EachDaily
<1> QED BY <1>3, <1>5

\* The lines of the active file after it are those it had before it.
LEMMA ActiveKept ==
  ASSUME TypeInv, Kept, Active' # NoFile, NEW i \in 1..Len(Lines(Active)')
  PROVE  /\ Active' = Active /\ Active # NoFile /\ Active \in Linked(View) /\ Active \in FileIds
         /\ Lines(Active)' = Lines(Active)
<1>1. Lines(Active)' # <<>>
  OBVIOUS
<1>2. Active' = Active /\ Active # NoFile
  BY <1>1 DEF Kept
<1>3. Active \in Linked(View) /\ Active \in FileIds
  BY <1>2, ViewFacts DEF TypeInv, Linked, Active
<1>4. PICK a : a = Active
  OBVIOUS
<1>5. Lines(Active)' = Lines(a)'
  BY <1>2, <1>4 DEF Lines
<1>6. Lines(a)' = Lines(a)
  BY <1>1, <1>2, <1>3, <1>4, <1>5 DEF Kept
<1> QED BY <1>2, <1>3, <1>4, <1>5, <1>6

\* A step that also leaves the remembered date alone or takes the memory, and
\* starts no append.
LEMMA DayQuiet ==
  ASSUME TypeInv, Submitted, DayInv, Onward, Kept,
         mem'.loaded => mem.loaded /\ mem'.started = mem.started,
         op'.pc = "append" => op' = op
  PROVE  DayInv'
<1>1. LineTimes' /\ EachDaily'
  BY DayKept
<1>2. mem.started \in Nat
  BY TypeParts DEF TypeInv, MemType
<1>3. StartedBefore'
  <2> SUFFICES ASSUME mem'.loaded
               PROVE  /\ mem.started <= clock' /\ (op'.pc # "idle" => mem.started <= op'.now)
                      /\ Active' # NoFile =>
                           \A i \in 1..Len(Lines(Active)') :
                             Day(mem.started) <= Day(Lines(Active)'[i].at)
    BY DEF StartedBefore
  <2>1. mem.loaded /\ mem.started <= clock /\ (op.pc # "idle" => mem.started <= op.now)
    BY DEF DayInv, StartedBefore
  <2>2. mem.started <= clock' /\ (op'.pc # "idle" => mem.started <= op'.now)
    BY <1>2, <2>1 DEF Onward
  <2>3. ASSUME Active' # NoFile, NEW i \in 1..Len(Lines(Active)')
        PROVE  Day(mem.started) <= Day(Lines(Active)'[i].at)
    BY <2>1, <2>3, ActiveKept DEF DayInv, StartedBefore
  <2> QED BY <2>2, <2>3
<1>4. AppendsToday'
  <2> SUFFICES ASSUME op'.pc = "append", Active' # NoFile, NEW i \in 1..Len(Lines(Active)')
               PROVE  Day(Lines(Active)'[i].at) = Day(op'.now)
    BY DEF AppendsToday
  <2> QED BY ActiveKept DEF DayInv, AppendsToday
<1> QED BY <1>1, <1>3, <1>4 DEF DayInv

\* The decision: an append goes into an empty file, or into one whose first
\* event and whose append are of the same day, and with them all between.
LEMMA DayDecides ==
  ASSUME TypeInv, LogInv, DayInv, Onward, Kept, DecideRotation
  PROVE  DayInv'
<1>1. /\ op.pc = "prepare" /\ mem.loaded /\ UNCHANGED <<call, mem, files, dirs>>
      /\ op' = [op EXCEPT !.pc = IF ShouldRotate THEN "rotate" ELSE "append"]
      /\ op \in OpType /\ mem \in MemType
  BY TypeParts DEF DecideRotation, Goto, TypeInv
<1>2. CASE ShouldRotate
  BY <1>1, <1>2, DayQuiet DEF OpType, LogInv, DiskInv
<1>3. CASE ~ShouldRotate
  <2>1. op'.pc = "append" /\ op'.now = op.now /\ op'.ev = op.ev
    BY <1>1, <1>3 DEF OpType
  <2>2. LineTimes' /\ EachDaily'
    BY DayKept DEF LogInv, DiskInv
  <2>3. Active' = Active /\ \A f : Lines(f)' = Lines(f)
    BY <1>1 DEF Active, View, Lines
  <2>4. StartedBefore'
    <3>1. mem.started <= clock'
      BY <1>1 DEF DayInv, StartedBefore, Onward, MemType
    <3> QED BY <1>1, <2>1, <2>3, <3>1 DEF DayInv, StartedBefore
  <2>5. AppendsToday'
    <3> SUFFICES ASSUME Active # NoFile, NEW i \in 1..Len(Lines(Active))
                 PROVE  Day(Lines(Active)[i].at) = Day(op.now)
      BY <2>1, <2>3 DEF AppendsToday
    <3>1. Active \in FileIds /\ Active \in Linked(View)
      BY ViewFacts DEF TypeInv, Linked, Active
    <3>2. mem.size > 0
      <4> SUFFICES ASSUME mem.size = 0 PROVE FALSE
        BY <1>1 DEF MemType
      <4>1. SizeOf(Active) <= 0
        BY <1>1 DEF LogInv, HolderLog, SizeCovers
      <4>2. Lines(Active) # <<>> /\ LastLine(Active) \in Line
        BY <3>1, FileFacts DEF TypeInv, LastLine
      <4> QED BY <4>1, <4>2 DEF SizeOf, Line
    <3>3. Day(mem.started) = Day(op.now)
      BY <1>3, <3>2 DEF ShouldRotate
    <3>4. Lines(Active)[i].at \in Nat /\ op.now \in Nat
      BY <1>1, <3>1, FileFacts DEF TypeInv, Line, OpType
    <3>5. Lines(Active)[i].at <= op.now /\ Day(mem.started) <= Day(Lines(Active)[i].at)
      BY <1>1, <3>1 DEF DayInv, LineTimes, StartedBefore
    <3>6. /\ Day(Lines(Active)[i].at) \in Nat /\ Day(op.now) \in Nat
          /\ Day(Lines(Active)[i].at) <= Day(op.now)
      BY <3>4, <3>5, DayMonotone
    <3> HIDE DEF Day
    <3> QED BY <3>3, <3>5, <3>6
  <2> QED BY <2>2, <2>4, <2>5 DEF DayInv
<1> QED BY <1>2, <1>3

\* The date remembered of a file is that of its first event, or of its creation.
LEMMA DayRemembers ==
  ASSUME TypeInv, LogInv, DayInv, Onward, Kept, LoadExisting \/ CreateSync
  PROVE  DayInv'
<1>1. LineTimes' /\ EachDaily'
  BY DayKept DEF LogInv, DiskInv
<1>2. /\ op \in OpType /\ op.now \in Nat /\ op.now <= clock /\ clock' = clock /\ clock \in Nat
      /\ UNCHANGED <<call, files>> /\ Active' = Active
      /\ \A f : Lines(f)' = Lines(f)
  <2>1. UNCHANGED <<clock, call, files>> /\ Active' = Active
    BY FsyncParentDisk DEF LoadExisting, CreateSync, Active, View
  <2> QED BY <2>1, TypeParts DEF TypeInv, HolderInv, OpType, Lines
<1>3. op'.now = op.now /\ op'.ev = op.ev
  BY <1>2 DEF LoadExisting, CreateSync, Goto, OpType
<1>4. CASE mem' = FreshActive(op.now) /\ Lines(Active) = <<>>
  <2>1. mem'.loaded /\ mem'.started = op.now
    BY <1>4 DEF FreshActive
  <2> QED BY <1>1, <1>2, <1>3, <1>4, <2>1 DEF DayInv, StartedBefore, AppendsToday
<1>5. CASE LoadExisting /\ Lines(Active) # <<>>
  <2>1. /\ op' = op /\ op.pc = "prepare" /\ Active # NoFile
        /\ mem'.loaded /\ mem'.started = call[Lines(Active)[1].ev].ts
    BY <1>5 DEF LoadExisting, LoadedActive
  <2>2. Active \in FileIds /\ Active \in Linked(View)
    BY <2>1, ViewFacts DEF TypeInv, Linked, Active
  <2>3. 1 \in 1..Len(Lines(Active)) /\ Lines(Active)[1] \in Line
    BY <1>5, <2>2, FileFacts DEF TypeInv
  <2>4. PICK first : first = Lines(Active)[1]
    OBVIOUS
  <2>5. call[first.ev].ts \in Nat /\ first.at \in Nat
    BY <2>3, <2>4, TypeParts DEF TypeInv, CallType, Line
  <2>6. call[first.ev].ts <= first.at /\ first.at <= op.now
    BY <2>1, <2>2, <2>3, <2>4 DEF DayInv, LineTimes
  <2>7. mem'.started = call[first.ev].ts /\ mem'.started <= op.now /\ mem'.started <= clock
    BY <1>2, <2>1, <2>4, <2>5, <2>6
  <2>8. \A i \in 1..Len(Lines(Active)) : Day(mem'.started) <= Day(Lines(Active)[i].at)
    <3>1. Day(mem'.started) <= Day(first.at)
      BY <2>5, <2>6, <2>7, DayMonotone
    <3>2. \A i \in 1..Len(Lines(Active)) : Day(first.at) = Day(Lines(Active)[i].at)
      BY <2>2, <2>3, <2>4 DEF DayInv, EachDaily
    <3> QED BY <3>1, <3>2
  <2>9. StartedBefore'
    BY <1>2, <1>3, <2>7, <2>8 DEF StartedBefore
  <2> QED BY <1>1, <2>1, <2>9 DEF DayInv, AppendsToday
<1> QED
  BY <1>4, <1>5
  DEF LoadExisting, CreateSync, LoadedActive, LogInv, HolderLog, HolderKnows

\* A write adds a line of its own day to a file of that day.
LEMMA DayWrites ==
  ASSUME TypeInv, LogInv, DayInv, op.pc = "append", Active # NoFile,
         UNCHANGED <<clock, call, mem, dirs>>, NEW n \in Nat \ {0}, NEW last \in BOOLEAN,
         files' = WithBytes(Active, op.ev, n, last),
         op'.now = op.now, op'.pc # "idle"
  PROVE  DayInv'
<1>1. PICK a : a = Active
  OBVIOUS
<1>2. /\ Active' = a /\ FileIds' = FileIds /\ a \in FileIds /\ op.ev \in Events
      /\ \A f \in FileIds \ {a} : Lines(f)' = Lines(f)
  BY <1>1, WriteLines
<1>3. PICK lines \in Seq(Line), kept \in Nat :
        /\ files'[a].lines = lines /\ Len(lines) = kept + 1
        /\ \A i \in 1..kept : i \in 1..Len(Lines(a)) /\ lines[i] = Lines(a)[i]
        /\ lines[kept + 1].ev = op.ev /\ lines[kept + 1].at = op.now
  <2>1. PICK lines \in Seq(Line), kept \in Nat : Wrote(a, lines, kept, n, last)
    BY <1>1, WriteLines
  <2> QED BY <2>1 DEF Wrote
<1>4. Lines(a)' = lines /\ Lines(Active)' = lines
  BY <1>2, <1>3 DEF Lines
<1>5. /\ op.now \in Nat /\ op.now <= clock /\ call[op.ev].ts <= op.now
      /\ mem.started \in Nat /\ mem.started <= op.now
  <2>1. op.now \in Nat /\ op.now <= clock /\ mem.started \in Nat
    BY TypeParts DEF TypeInv, HolderInv, OpType, MemType
  <2> QED BY <2>1 DEF LogInv, HolderLog, HolderKnows, DayInv, StartedBefore
<1>6. a \in FileIds
  BY <1>2
<1>7. ASSUME NEW i \in 1..Len(lines)
      PROVE  /\ lines[i].at <= clock /\ lines[i].at <= op.now
             /\ call[lines[i].ev].ts <= lines[i].at
             /\ Day(lines[i].at) = Day(op.now)
  <2>1. CASE i = kept + 1
    BY <1>3, <1>5, <2>1
  <2>2. CASE i # kept + 1
    <3>1. i \in 1..kept
      BY <1>3, <2>2
    <3> QED BY <1>1, <1>3, <1>6, <3>1 DEF DayInv, LineTimes, AppendsToday
  <2> QED BY <2>1, <2>2
<1>8. LineTimes'
  <2> SUFFICES ASSUME NEW f \in FileIds, NEW i \in 1..Len(Lines(f)')
               PROVE  /\ Lines(f)'[i].at <= clock /\ Lines(f)'[i].at <= op.now
                      /\ call[Lines(f)'[i].ev].ts <= Lines(f)'[i].at
    BY <1>2 DEF LineTimes
  <2>1. CASE f = a
    BY <1>4, <1>7, <2>1
  <2>2. CASE f # a
    <3>1. Lines(f)' = Lines(f)
      BY <1>2, <1>6, <2>2
    <3> QED BY <3>1 DEF DayInv, LineTimes
  <2> QED BY <2>1, <2>2
<1>9. EachDaily'
  <2> SUFFICES ASSUME NEW f \in FileIds, NEW i \in 1..Len(Lines(f)'),
                      NEW j \in 1..Len(Lines(f)')
               PROVE  Day(Lines(f)'[i].at) = Day(Lines(f)'[j].at)
    BY <1>2 DEF EachDaily
  <2>1. CASE f = a
    BY <1>4, <1>7, <2>1
  <2>2. CASE f # a
    <3>1. Lines(f)' = Lines(f)
      BY <1>2, <1>6, <2>2
    <3> QED BY <3>1 DEF DayInv, EachDaily
  <2> QED BY <2>1, <2>2
<1>10. StartedBefore'
  <2>1. Day(mem.started) <= Day(op.now)
    BY <1>5, DayMonotone
  <2> QED BY <1>2, <1>4, <1>7, <2>1 DEF DayInv, StartedBefore
<1>11. AppendsToday'
  BY <1>4, <1>7 DEF AppendsToday
<1> QED BY <1>8, <1>9, <1>10, <1>11 DEF DayInv

\* A loss of power takes the memory, and of the files some last lines.
LEMMA DayPowerLoss ==
  ASSUME TypeInv, Submitted, DayInv, Onward, PowerLoss
  PROVE  DayInv'
<1>1. op' = Idle /\ mem' = Unloaded
  BY DEF PowerLoss, LoseProcess
<1>2. FileIds' = FileIds /\ \A f \in FileIds : Remains(files[f], Lines(f)')
  BY PowerLossDisk
<1>3. ASSUME NEW f \in FileIds, NEW i \in 1..Len(Lines(f)')
      PROVE  /\ i \in 1..Len(Lines(f)) /\ Lines(f)'[i].at = Lines(f)[i].at
             /\ Lines(f)'[i].ev = Lines(f)[i].ev
  BY <1>2, RemainsFacts
<1>4. LineTimes'
  <2> SUFFICES ASSUME NEW f \in FileIds, NEW i \in 1..Len(Lines(f)')
               PROVE  /\ Lines(f)'[i].at <= clock'
                      /\ call'[Lines(f)'[i].ev].ts <= Lines(f)'[i].at
    BY <1>1, <1>2 DEF LineTimes, Idle
  <2>1. i \in 1..Len(Lines(f)) /\ Lines(f)'[i].at = Lines(f)[i].at
        /\ Lines(f)'[i].ev = Lines(f)[i].ev
    BY <1>3
  <2>2. Lines(f)[i].at \in Nat /\ Lines(f)[i].ev \in Events
    BY <2>1, FileFacts DEF TypeInv, Line
  <2>3. Lines(f)[i].at <= clock /\ call[Lines(f)[i].ev].ts <= Lines(f)[i].at
        /\ call[Lines(f)[i].ev].st # "new"
    BY <2>1 DEF DayInv, LineTimes, Submitted
  <2>4. Lines(f)[i].at <= clock' /\ call'[Lines(f)[i].ev].ts = call[Lines(f)[i].ev].ts
    BY <2>2, <2>3 DEF Onward
  <2> QED BY <2>1, <2>3, <2>4
<1>5. EachDaily'
  <2> SUFFICES ASSUME NEW f \in FileIds, NEW i \in 1..Len(Lines(f)'), NEW j \in 1..Len(Lines(f)')
               PROVE  Day(Lines(f)'[i].at) = Day(Lines(f)'[j].at)
    BY <1>2 DEF EachDaily
  <2> QED BY <1>3 DEF DayInv, EachDaily
<1>6. StartedBefore' /\ AppendsToday'
  BY <1>1 DEF StartedBefore, AppendsToday, Idle, Unloaded
<1> QED BY <1>4, <1>5, <1>6 DEF DayInv

LEMMA DayInvStep ==
  ASSUME TypeInv, LogInv, DayInv, [Next]_vars
  PROVE  DayInv'
<1>0. Onward /\ Submitted /\ op \in OpType
  BY OnwardStep, TypeParts DEF LogInv, DiskInv, TypeInv
<1>1. ASSUME WriteSome \/ WriteRest PROVE DayInv'
  <2>1. /\ op.pc = "append" /\ Active # NoFile /\ UNCHANGED <<clock, call, mem, dirs>>
        /\ op'.now = op.now /\ op'.pc # "idle"
    BY <1>0, <1>1 DEF WriteSome, WriteRest, OpType
  <2>2. PICK n \in Nat \ {0}, last \in BOOLEAN : files' = WithBytes(Active, op.ev, n, last)
    BY <1>1, AppendsBytes
  <2> QED BY <2>1, <2>2, DayWrites
<1>2. ASSUME ~WriteSome, ~WriteRest, ~PowerLoss PROVE DayInv'
  <2>1. Kept
    BY <1>2, KeptStep
  <2>2. ASSUME mem'.loaded => mem.loaded /\ mem'.started = mem.started,
               op'.pc = "append" => op' = op
        PROVE  DayInv'
    BY <1>0, <2>1, <2>2, DayQuiet
  <2>3. ASSUME mem' = mem, NEW pc, pc # "append", op' = [op EXCEPT !.pc = pc] PROVE DayInv'
    BY <1>0, <2>2, <2>3 DEF OpType
  <2>4. ASSUME LoadAbsent \/ Rename \/ RenameSync \/ CreateFile PROVE DayInv'
    BY <2>3, <2>4 DEF LoadAbsent, Rename, RenameSync, CreateFile, Goto
  <2>5. ASSUME AppendSync PROVE DayInv'
    <3>1. mem \in MemType
      BY TypeParts DEF TypeInv
    <3>2. mem'.loaded = mem.loaded /\ mem'.started = mem.started /\ op'.pc = "prune"
      BY <1>0, <2>5, <3>1 DEF AppendSync, Goto, OpType, MemType
    <3> QED BY <2>2, <3>2
  <2>6. ASSUME PruneOne PROVE DayInv'
    <3>1. mem' = mem /\ op'.pc # "append"
      BY <1>0, <2>6 DEF PruneOne, OpType
    <3> QED BY <2>2, <3>1
  <2>7. ASSUME Raise PROVE DayInv'
    BY <2>2, <2>7 DEF Raise, Release, Idle
  <2>8. ASSUME LoadRejected \/ RenameMissing \/ AppendMissing \/ SystemCallFails PROVE DayInv'
    BY <2>7, <2>8 DEF LoadRejected, RenameMissing, AppendMissing, SystemCallFails
  <2>9. ASSUME Finish PROVE DayInv'
    BY <2>2, <2>9 DEF Finish, Release, Idle
  <2>10. ASSUME Crash PROVE DayInv'
    BY <2>2, <2>10 DEF Crash, LoseProcess, Idle, Unloaded
  <2>11. ASSUME NEW e \in Events, Submit(e) PROVE DayInv'
    BY <2>2, <2>11 DEF Submit
  <2>12. ASSUME NEW e \in Events, Acquire(e) PROVE DayInv'
    BY <2>2, <2>12 DEF Acquire, Idle
  <2>13. ASSUME Tick \/ Rest \/ UNCHANGED vars PROVE DayInv'
    BY <2>2, <2>13 DEF Tick, Rest, vars
  <2> QED
    BY <1>0, <1>2, <2>1, <2>4, <2>5, <2>6, <2>8, <2>9, <2>10, <2>11, <2>12, <2>13,
       DayDecides, DayRemembers
    DEF Next, HolderStep
<1>3. ASSUME PowerLoss PROVE DayInv'
  BY <1>0, <1>3, DayPowerLoss
<1> QED BY <1>1, <1>2, <1>3

LEMMA DayInvInit ==
  ASSUME Init
  PROVE  DayInv
<1>1. FileIds = {} /\ op.pc = "idle" /\ ~mem.loaded
  BY DEF Init, FileIds, Idle, Unloaded
<1> QED BY <1>1 DEF DayInv, LineTimes, StartedBefore, AppendsToday, EachDaily

\* No file of the log mixes events appended on two days, whatever crashes, losses of
\* power and failures of the rotation's and the retention's system calls come between
\* them: a process that finds yesterday's file rotates it before it appends
\* (JsonlAuditLogger._prepare_active).
THEOREM FilesAreDaily ==
  ASSUME Tolerated
  PROVE  Spec => []OneDayPerFile
<1>1. Init => DayInv
  BY DayInvInit
<1>2. TypeInv /\ LogInv /\ (TypeInv /\ LogInv)' /\ DayInv /\ [Next]_vars => DayInv'
  BY DayInvStep
<1>3. TypeInv /\ DayInv => OneDayPerFile
  BY ViewFacts DEF TypeInv, DayInv, EachDaily, OneDayPerFile
<1> QED BY <1>1, <1>2, <1>3, LogInvariant, PTL DEF Spec

-----------------------------------------------------------------------------
(* Retention.  A file goes when its stamp is out of retention, so a file    *)
(* that stays was appended to within retention if its stamp is not beyond   *)
(* its last append: the newest time remembered of the active file is that   *)
(* of an append to it (NewestReached), and so is the stamp it gets when it  *)
(* is renamed (StampsReached).  A renamed file has a line because a file of *)
(* a remembered size has one (SizeMeansLines); a new file whose sync failed *)
(* is not remembered, and the next call renames it empty.                   *)

RetentionSafe == Tolerated /\ "createSync" \notin Faults

\* Something was appended to the active file at time t or later.
Reached(t) == \E i \in 1..Len(Lines(Active)) : t <= Lines(Active)[i].at

NewestPast ==
  mem.loaded => mem.newest <= clock /\ (op.pc # "idle" => mem.newest <= op.now)

NewestReached ==
  mem.loaded /\ Active # NoFile /\ Lines(Active) # <<>> /\ ~InAppend => Reached(mem.newest)

AppendReached == op.pc \in {"appendSync", "prune"} => Reached(op.now)

SizeMeansLines ==
  /\ mem.loaded /\ mem.size > 0 /\ Active # NoFile /\ op.pc # "createSync" =>
       Lines(Active) # <<>>
  /\ op.pc = "rotate" => mem.size > 0

StampsReached ==
  \A s \in Segments : \E i \in 1..Len(Lines(s.file)) : s.stamp <= Lines(s.file)[i].at

RetainInv == NewestPast /\ NewestReached /\ AppendReached /\ SizeMeansLines /\ StampsReached

\* Whatever view of the directory a loss of power leaves.
ViewsReached ==
  \A v \in 1..Len(dirs) : \A s \in dirs[v].segs :
    \E i \in 1..Len(Lines(s.file)) : s.stamp <= Lines(s.file)[i].at

\* A step that leaves the lines and the active file alone, and the memory, or
\* takes the memory away.
LEMMA RetainQuiet ==
  ASSUME TypeInv, LogInv, RetainInv, Onward, Active' = Active, Segments' \subseteq Segments,
         \A f \in FileIds : Lines(f)' = Lines(f), mem' = mem \/ ~mem'.loaded,
         mem'.loaded /\ Active # NoFile /\ InAppend => op'.pc \in {"append", "appendSync"},
         op'.pc \in {"appendSync", "prune"} => op'.pc = op.pc /\ op'.now = op.now,
         op'.pc = "rotate" => mem'.size > 0,
         mem'.loaded /\ op.pc = "createSync" => op'.pc = "createSync"
  PROVE  RetainInv'
<1> USE DEF RetainInv
<1>1. mem.newest \in Nat
  BY TypeParts DEF TypeInv, MemType
<1>2. NewestPast'
  BY <1>1 DEF NewestPast, Onward
<1>3. Active # NoFile => Lines(Active)' = Lines(Active)
  <2>1. PICK a : a = Active
    OBVIOUS
  <2>2. Active # NoFile => Lines(a)' = Lines(a)
    BY <2>1, ViewFacts DEF TypeInv
  <2> QED BY <2>1, <2>2 DEF Lines
<1>4. op.pc \in {"appendSync", "prune"} => Active # NoFile
  BY DEF LogInv, HolderLog, Stored
<1>5. NewestReached'
  BY <1>3 DEF NewestReached, Reached, InAppend
<1>6. AppendReached'
  BY <1>3, <1>4 DEF AppendReached, Reached
<1>7. SizeMeansLines'
  BY <1>3 DEF SizeMeansLines
<1>8. StampsReached'
  BY LinkedFacts DEF StampsReached
<1> QED BY <1>2, <1>5, <1>6, <1>7, <1>8

\* A file that was found has the newest time of one of its events, which was
\* stamped before it was appended; a new one has no lines.
LEMMA RetainLoads ==
  ASSUME TypeInv, DayInv, RetainInv, LoadExisting
  PROVE  RetainInv'
<1> USE DEF RetainInv
<1>1. /\ UNCHANGED <<clock, call, op, files, dirs>> /\ op.pc = "prepare" /\ Active # NoFile
      /\ mem' = LoadedActive(Active, op.now)
  BY DEF LoadExisting
<1>2. Active' = Active /\ Segments' = Segments /\ \A f : Lines(f)' = Lines(f)
  BY <1>1 DEF Active, Segments, View, Lines
<1>3. Active \in FileIds /\ Active \in Linked(View) /\ op.now \in Nat /\ op.now <= clock
      /\ clock \in Nat
  BY <1>1, ViewFacts, TypeParts DEF TypeInv, HolderInv, OpType, Linked, Active
<1>4. mem'.newest <= op.now /\ mem'.newest \in Nat
      /\ (Lines(Active) # <<>> => Reached(mem'.newest))
      /\ (mem'.size > 0 => Lines(Active) # <<>>)
  <2>1. CASE Lines(Active) = <<>>
    BY <1>1, <1>3, <2>1 DEF LoadedActive, FreshActive
  <2>2. CASE Lines(Active) # <<>>
    <3>1. mem'.newest = NewestTimestamp(Active)
      BY <1>1, <2>2 DEF LoadedActive
    <3>2. PICK i \in 1..Len(Lines(Active)) : mem'.newest = call[Lines(Active)[i].ev].ts
      BY <1>3, <2>2, <3>1, NewestTimestampFacts
    <3>3. Lines(Active)[i].at <= op.now /\ call[Lines(Active)[i].ev].ts <= Lines(Active)[i].at
      BY <1>1, <1>3 DEF DayInv, LineTimes
    <3>4. Lines(Active)[i].at \in Nat /\ Lines(Active)[i].ev \in Events
      BY <1>3, FileFacts DEF TypeInv, Line
    <3>5. call[Lines(Active)[i].ev].ts \in Nat
      BY <3>4, TypeParts DEF TypeInv, CallType
    <3> QED BY <1>3, <2>2, <3>2, <3>3, <3>4, <3>5 DEF Reached
  <2> QED BY <2>1, <2>2
<1>5. NewestPast'
  BY <1>1, <1>3, <1>4 DEF NewestPast
<1>6. NewestReached' /\ AppendReached' /\ SizeMeansLines' /\ StampsReached'
  BY <1>1, <1>2, <1>4
  DEF NewestReached, Reached, AppendReached, SizeMeansLines, StampsReached
<1> QED BY <1>5, <1>6

\* The rotation: the stamp of the file renamed is the newest time remembered of
\* it; the file made in its place is empty until something is appended.
LEMMA RetainRotates ==
  ASSUME TypeInv, LogInv, RetainInv, Onward, Rename \/ CreateFile \/ CreateSync
  PROVE  RetainInv'
<1> USE DEF RetainInv
<1>0. op \in OpType /\ mem \in MemType /\ op.now \in Nat /\ op.now <= clock /\ clock \in Nat
  BY TypeParts DEF TypeInv, HolderInv, OpType
<1>1. CASE Rename
  <2>1. /\ UNCHANGED <<clock, call, mem, files>> /\ op.pc = "rotate" /\ Active # NoFile
        /\ op' = [op EXCEPT !.pc = "renamed"]
    BY <1>1 DEF Rename, Goto
  <2>2. op'.pc = "renamed" /\ op'.now = op.now
    BY <1>0, <2>1 DEF OpType
  <2>3. PICK seg : seg = [file |-> Active, stamp |-> SegmentStamp]
    OBVIOUS
  <2>4. View' = [active |-> NoFile, segs |-> Segments \cup {seg}]
    BY <1>1, <2>3, RenameDisk
  <2>5. Active' = NoFile /\ Segments' = Segments \cup {seg}
    BY <2>4 DEF Active, Segments
  <2>6. \A f : Lines(f)' = Lines(f)
    BY <2>1 DEF Lines
  <2>7. Reached(mem.newest)
    <3>1. mem.loaded
      BY <2>1 DEF LogInv, HolderLog, HolderKnows
    <3> QED BY <2>1, <3>1 DEF SizeMeansLines, NewestReached, InAppend
  <2>8. \E i \in 1..Len(Lines(seg.file)) : seg.stamp <= Lines(seg.file)[i].at
    BY <2>3, <2>7 DEF Reached, SegmentStamp
  <2>9. StampsReached'
    BY <2>5, <2>6, <2>8 DEF StampsReached
  <2>10. NewestPast'
    BY <2>1, <2>2 DEF NewestPast
  <2> QED BY <2>2, <2>5, <2>9, <2>10 DEF NewestReached, AppendReached, SizeMeansLines
<1>2. CASE CreateFile
  <2>1. /\ UNCHANGED <<clock, call, mem>> /\ op' = [op EXCEPT !.pc = "createSync"]
    BY <1>2 DEF CreateFile, Goto
  <2>2. op'.pc = "createSync" /\ op'.now = op.now
    BY <1>0, <2>1 DEF OpType
  <2>3. PICK new : new = Len(files) + 1
    OBVIOUS
  <2>4. /\ View' = [View EXCEPT !.active = new]
        /\ \A f \in FileIds : files'[f] = files[f]
        /\ files'[new] = [lines |-> <<>>, safe |-> 0]
    BY <1>2, <2>3, CreateFileDisk
  <2>5. Active' = new /\ Segments' = Segments
    <3>1. View \in DirView
      BY ViewFacts DEF TypeInv
    <3> QED BY <2>4, <3>1 DEF Active, Segments, DirView
  <2>6. Lines(Active)' = <<>> /\ \A f \in FileIds : Lines(f)' = Lines(f)
    BY <2>4, <2>5 DEF Lines
  <2>7. NewestPast'
    BY <2>1, <2>2, <1>2 DEF NewestPast, CreateFile
  <2>8. StampsReached'
    BY <2>5, <2>6, LinkedFacts DEF StampsReached
  <2> QED BY <2>2, <2>6, <2>7, <2>8 DEF NewestReached, AppendReached, SizeMeansLines
<1>3. CASE CreateSync
  <2>1. /\ UNCHANGED <<clock, call, files>> /\ mem' = FreshActive(op.now)
        /\ op' = [op EXCEPT !.pc = "append"] /\ op.pc = "createSync"
    BY <1>3 DEF CreateSync, Goto
  <2>2. op'.pc = "append" /\ op'.now = op.now
    BY <1>0, <2>1 DEF OpType
  <2>3. mem'.newest = op.now /\ mem'.size = 0
    BY <2>1 DEF FreshActive
  <2>4. Segments' = Segments /\ \A f : Lines(f)' = Lines(f)
    BY <1>3, <2>1, FsyncParentDisk DEF CreateSync, Lines
  <2>5. NewestPast' /\ StampsReached'
    BY <1>0, <2>1, <2>2, <2>3, <2>4 DEF NewestPast, StampsReached
  <2> QED BY <2>2, <2>3, <2>5 DEF NewestReached, InAppend, AppendReached, SizeMeansLines
<1> QED BY <1>1, <1>2, <1>3

\* A write reaches the time of the record under way.
LEMMA RetainWrites ==
  ASSUME TypeInv, LogInv, RetainInv, op.pc = "append", Active # NoFile,
         UNCHANGED <<clock, mem, dirs>>, NEW n \in Nat \ {0}, NEW last \in BOOLEAN,
         files' = WithBytes(Active, op.ev, n, last),
         op'.now = op.now, op'.pc \in {"append", "appendSync"}
  PROVE  RetainInv'
<1> USE DEF RetainInv
<1>1. PICK a : a = Active
  OBVIOUS
<1>2. /\ Active' = a /\ Segments' = Segments /\ a \in FileIds
      /\ \A f \in FileIds \ {a} : Lines(f)' = Lines(f)
  BY <1>1, WriteLines
<1>3. PICK lines \in Seq(Line), kept \in Nat :
        /\ files'[a].lines = lines /\ Len(lines) = kept + 1
        /\ lines[kept + 1].at = op.now
  <2>1. PICK lines \in Seq(Line), kept \in Nat : Wrote(a, lines, kept, n, last)
    BY <1>1, WriteLines
  <2> QED BY <2>1 DEF Wrote
<1>4. Lines(Active)' = lines
  BY <1>2, <1>3 DEF Lines
<1>5. kept + 1 \in 1..Len(lines) /\ lines # <<>>
  BY <1>3
<1>6. op.now \in Nat
  BY TypeParts DEF TypeInv, OpType
<1>7. Reached(op.now)'
  <2>1. op.now <= lines[kept + 1].at
    BY <1>3, <1>6
  <2> QED BY <1>4, <1>5, <2>1 DEF Reached
<1>8. NewestPast' /\ NewestReached' /\ SizeMeansLines'
  BY <1>4, <1>5 DEF NewestPast, NewestReached, InAppend, SizeMeansLines
<1>9. AppendReached'
  BY <1>7 DEF AppendReached, Reached
<1>10. StampsReached'
  <2>1. \A s \in Segments : s.file \in FileIds \ {a}
    BY <1>1, LinkedFacts DEF LogInv, DiskInv, SegmentsClosed
  <2> QED BY <1>2, <2>1 DEF StampsReached
<1> QED BY <1>8, <1>9, <1>10

\* The end of an append: the newest time is that of the record.
LEMMA RetainSyncs ==
  ASSUME TypeInv, LogInv, RetainInv, AppendSync
  PROVE  RetainInv'
<1> USE DEF RetainInv
<1>1. /\ UNCHANGED <<clock, call>> /\ op.pc = "appendSync" /\ op \in OpType
      /\ op' = [op EXCEPT !.pc = "prune"] /\ mem \in MemType
      /\ mem' = [mem EXCEPT !.size = mem.size + call[op.ev].len,
                            !.newest = Larger(mem.newest, op.now)]
  BY TypeParts DEF AppendSync, Goto, TypeInv
<1>2. /\ Active' = Active /\ Segments' = Segments /\ Active # NoFile
      /\ \A f \in FileIds : Lines(f)' = Lines(f)
  BY <1>1, AppendSyncDisk DEF Lines, TypeInv, HolderInv
<1>3. op'.pc = "prune" /\ op'.now = op.now /\ op.now \in Nat /\ op.now <= clock
  BY <1>1 DEF OpType, TypeInv, HolderInv
<1>4. mem'.newest = op.now
  <2>1. mem.loaded /\ mem.newest <= op.now /\ mem.newest \in Nat
    BY <1>1 DEF LogInv, HolderLog, HolderKnows, NewestPast, MemType
  <2>2. mem'.newest = Larger(mem.newest, op.now)
    BY <1>1 DEF MemType
  <2> QED BY <1>3, <2>1, <2>2 DEF Larger
<1>5. Lines(Active)' = Lines(Active)
  <2>1. PICK a : a = Active
    OBVIOUS
  <2>2. Lines(a)' = Lines(a)
    BY <1>2, <2>1, ViewFacts DEF TypeInv
  <2> QED BY <1>2, <2>1, <2>2 DEF Lines
<1>6. Reached(op.now) /\ Lines(Active) # <<>>
  BY <1>1 DEF AppendReached, Reached
<1>7. NewestPast' /\ NewestReached' /\ AppendReached' /\ SizeMeansLines'
  BY <1>1, <1>3, <1>4, <1>5, <1>6
  DEF NewestPast, NewestReached, Reached, AppendReached, SizeMeansLines
<1>8. StampsReached'
  BY <1>2, LinkedFacts DEF StampsReached
<1> QED BY <1>7, <1>8

\* A loss of power leaves a view whose segments were reached by their stamps, and
\* what the process remembered is gone.
LEMMA RetainPowerLoss ==
  ASSUME TypeInv, DurInv, ViewsReached, PowerLoss
  PROVE  RetainInv' /\ ViewsReached'
<1>1. op' = Idle /\ mem' = Unloaded
  BY DEF PowerLoss, LoseProcess
<1>2. PICK v \in 1..Len(dirs) : View' = dirs[v] /\ dirs' = <<View>>'
  BY PowerLossDisk
<1>3. \A f \in FileIds : Remains(files[f], Lines(f)')
  BY PowerLossDisk
<1>4. ASSUME NEW s \in dirs[v].segs
      PROVE  \E i \in 1..Len(Lines(s.file)') : s.stamp <= Lines(s.file)'[i].at
  <2>1. s.file \in FileIds /\ s.file # Active
    BY ViewsFacts DEF DurInv, ViewsSound
  <2>2. files[s.file].safe = Len(Lines(s.file))
    BY <2>1 DEF DurInv, AllSynced, Synced
  <2>3. Lines(s.file)' = Lines(s.file)
    BY <1>3, <2>1, <2>2, RemainsFacts
  <2> QED BY <2>3 DEF ViewsReached
<1>5. StampsReached' /\ ViewsReached'
  BY <1>2, <1>4 DEF StampsReached, ViewsReached, Segments
<1>6. NewestPast' /\ NewestReached' /\ AppendReached' /\ SizeMeansLines'
  BY <1>1 DEF NewestPast, NewestReached, AppendReached, SizeMeansLines, Idle, Unloaded
<1> QED BY <1>5, <1>6 DEF RetainInv

\* A view of the directory after a step was one before it, or is the current one.
LEMMA ViewsComeFrom ==
  ASSUME TypeInv, TypeInv', [Next]_vars, NEW w \in 1..Len(dirs')
  PROVE  (\E v \in 1..Len(dirs) : dirs'[w] = dirs[v]) \/ dirs'[w] = View'
<1>1. /\ dirs \in Seq(DirView) /\ dirs # <<>> /\ Len(dirs) \in 1..Len(dirs)
      /\ View = dirs[Len(dirs)] /\ Len(dirs) \in Nat
  BY EmptySeq, LenProperties DEF TypeInv, TypeOK, View
<1>2. CASE dirs' = dirs
  BY <1>2
<1>3. CASE dirs' = <<View>>
  BY <1>1, <1>3
<1>4. ASSUME NEW view, ChangeDir(view)
      PROVE  (\E v \in 1..Len(dirs) : dirs'[w] = dirs[v]) \/ dirs'[w] = View'
  BY <1>1, <1>4 DEF ChangeDir, View
<1>5. CASE Rename \/ CreateFile \/ PruneOne
  BY <1>4, <1>5 DEF Rename, CreateFile, PruneOne
<1>6. CASE RenameSync \/ CreateSync \/ Finish
  BY <1>2, <1>3, <1>6 DEF RenameSync, CreateSync, Finish, FsyncParent
<1>7. CASE PowerLoss
  BY <1>7 DEF PowerLoss
<1>8. CASE \E e \in Events : Submit(e) \/ Acquire(e)
  BY <1>2, <1>8 DEF Submit, Acquire
<1>9. CASE \/ LoadAbsent \/ LoadRejected \/ LoadExisting \/ DecideRotation \/ RenameMissing
           \/ AppendMissing \/ WriteSome \/ WriteRest \/ AppendSync
  BY <1>2, <1>9
  DEF LoadAbsent, LoadRejected, LoadExisting, DecideRotation, RenameMissing, AppendMissing,
      WriteSome, WriteRest, AppendSync, Raise
<1>10. CASE SystemCallFails \/ Crash \/ Tick \/ Rest \/ UNCHANGED vars
  BY <1>2, <1>10 DEF SystemCallFails, Crash, Tick, Rest, Raise, vars
<1> QED
  BY <1>5, <1>6, <1>7, <1>8, <1>9, <1>10 DEF Next, HolderStep

\* The segments of every view stay reached by their stamps.
LEMMA ViewsReachedStep ==
  ASSUME TypeInv, TypeInv', DurInv, ViewsReached, StampsReached', [Next]_vars
  PROVE  ViewsReached'
<1>1. CASE PowerLoss
  BY <1>1, RetainPowerLoss
<1>2. CASE ~PowerLoss
  <2>1. ASSUME NEW f \in FileIds \ {Active} PROVE Lines(f)' = Lines(f)
    <3>1. CASE WriteSome \/ WriteRest
      <4>1. op.pc = "append" /\ Active # NoFile /\ dirs' = dirs
        BY <3>1 DEF WriteSome, WriteRest
      <4>2. PICK n \in Nat \ {0}, last \in BOOLEAN : files' = WithBytes(Active, op.ev, n, last)
        BY <3>1, AppendsBytes
      <4> QED BY <4>1, <4>2, WriteLines
    <3>2. CASE ~WriteSome /\ ~WriteRest
      BY <1>2, <3>2, KeptStep DEF Kept
    <3> QED BY <3>1, <3>2
  <2> SUFFICES ASSUME NEW w \in 1..Len(dirs'), NEW s \in dirs'[w].segs
               PROVE  \E i \in 1..Len(Lines(s.file)') : s.stamp <= Lines(s.file)'[i].at
    BY DEF ViewsReached
  <2>2. CASE \E v \in 1..Len(dirs) : dirs'[w] = dirs[v]
    <3>1. PICK v \in 1..Len(dirs) : dirs'[w] = dirs[v]
      BY <2>2
    <3>2. s.file \in FileIds \ {Active}
      BY <3>1, ViewsFacts DEF DurInv, ViewsSound
    <3> QED BY <2>1, <3>1, <3>2 DEF ViewsReached
  <2>3. CASE dirs'[w] = View'
    BY <2>3 DEF StampsReached, Segments
  <2> QED BY <2>2, <2>3, ViewsComeFrom
<1> QED BY <1>1, <1>2

\* Every action keeps what the retention rests on.
LEMMA RetainInvStep ==
  ASSUME RetentionSafe, TypeInv, LogInv, DayInv, RetainInv,
         "power" \in Faults => DurInv /\ ViewsReached, [Next]_vars
  PROVE  RetainInv'
<1>0. Onward /\ op \in OpType /\ mem \in MemType
  BY OnwardStep, TypeParts DEF TypeInv
<1>1. ASSUME UNCHANGED <<mem, files, dirs>>, NEW pc, pc \in {"create", "rotate", "append"},
             op' = [op EXCEPT !.pc = pc], op.pc \notin {"createSync", "append", "appendSync"},
             pc = "rotate" => mem.size > 0
      PROVE  RetainInv'
  <2>1. op'.pc = pc
    BY <1>0, <1>1 DEF OpType
  <2> QED BY <1>0, <1>1, <2>1, RetainQuiet DEF Active, Segments, View, Lines, InAppend
<1>2. ASSUME LoadAbsent \/ DecideRotation PROVE RetainInv'
  BY <1>1, <1>2 DEF LoadAbsent, DecideRotation, Goto, ShouldRotate
<1>3. ASSUME UNCHANGED <<mem, files, dirs>>, op'.pc = "idle",
             InAppend => Active = NoFile, op.pc # "createSync"
      PROVE  RetainInv'
  BY <1>0, <1>3, RetainQuiet DEF Active, Segments, View, Lines
<1>4. ASSUME LoadRejected \/ RenameMissing \/ AppendMissing \/ SystemCallFails
      PROVE  RetainInv'
  <2>1. UNCHANGED <<mem, files, dirs>> /\ op'.pc = "idle"
    BY <1>4 DEF LoadRejected, RenameMissing, AppendMissing, SystemCallFails, Raise, Release, Idle
  <2>2. SystemCallFails => NextSystemCall \cap Faults # {}
    BY DEF SystemCallFails, GoesWrong
  <2>3. SystemCallFails => op.pc \notin {"createSync", "append", "appendSync"}
    BY <2>2 DEF NextSystemCall, RetentionSafe, Tolerated
  <2> QED
    BY <1>3, <1>4, <2>1, <2>3 DEF LoadRejected, RenameMissing, AppendMissing, InAppend
<1>5. ASSUME RenameSync PROVE RetainInv'
  <2>1. /\ mem' = mem /\ files' = files /\ op'.pc = "create" /\ op.pc = "renamed"
        /\ Active' = Active /\ Segments' = Segments
    BY <1>0, <1>5, FsyncParentDisk DEF RenameSync, Goto, OpType
  <2> QED BY <1>0, <2>1, RetainQuiet DEF Lines, InAppend
<1>6. ASSUME WriteSome \/ WriteRest PROVE RetainInv'
  <2>1. /\ op.pc = "append" /\ Active # NoFile /\ UNCHANGED <<clock, mem, dirs>>
        /\ op'.now = op.now /\ op'.pc \in {"append", "appendSync"}
    BY <1>0, <1>6 DEF WriteSome, WriteRest, OpType
  <2>2. PICK n \in Nat \ {0}, last \in BOOLEAN : files' = WithBytes(Active, op.ev, n, last)
    BY <1>6, AppendsBytes
  <2> QED BY <2>1, <2>2, RetainWrites
<1>7. ASSUME PruneOne PROVE RetainInv'
  <2>1. PICK s \in Expired : View' = [View EXCEPT !.segs = @ \ {s}]
    BY <1>7, PruneDisk
  <2>2. View \in DirView /\ files' = files /\ mem' = mem /\ op.pc = "prune"
    BY <1>7, ViewFacts DEF PruneOne, TypeInv
  <2>3. Active' = Active /\ Segments' \subseteq Segments
    BY <2>1, <2>2 DEF Active, Segments, DirView
  <2>4. op'.pc = op.pc /\ op'.now = op.now
    BY <1>0, <1>7 DEF PruneOne, OpType
  <2> QED BY <1>0, <2>2, <2>3, <2>4, RetainQuiet DEF Lines, InAppend
<1>8. ASSUME Finish PROVE RetainInv'
  <2>1. /\ mem' = mem /\ files' = files /\ op'.pc = "idle" /\ op.pc = "prune" /\ View' = View
    BY <1>8, FsyncParentDisk DEF Finish, Release, Idle, View
  <2> QED BY <1>0, <2>1, RetainQuiet DEF Lines, InAppend, Active, Segments
<1>9. ASSUME Crash PROVE RetainInv'
  <2>1. ~mem'.loaded /\ op'.pc = "idle" /\ UNCHANGED <<files, dirs>>
    BY <1>9 DEF Crash, LoseProcess, Idle, Unloaded
  <2> QED BY <1>0, <2>1, RetainQuiet DEF Lines, Active, Segments, View
<1>10. ASSUME PowerLoss PROVE RetainInv'
  BY <1>10, RetainPowerLoss DEF PowerLoss, GoesWrong
<1>11. ASSUME NEW e \in Events, Acquire(e) PROVE RetainInv'
  <2>1. UNCHANGED <<mem, files, dirs>> /\ op.pc = "idle" /\ op'.pc = "prepare"
    BY <1>11 DEF Acquire, Idle
  <2> QED BY <1>0, <2>1, RetainQuiet DEF Lines, Active, Segments, View, InAppend
<1>12. ASSUME UNCHANGED <<mem, files, dirs, op>> PROVE RetainInv'
  <2>1. op'.pc = "rotate" => mem'.size > 0
    BY <1>12 DEF RetainInv, SizeMeansLines
  <2> QED BY <1>0, <1>12, <2>1, RetainQuiet DEF Lines, Active, Segments, View, InAppend
<1>13. ASSUME (\E e \in Events : Submit(e)) \/ Tick \/ Rest \/ UNCHANGED vars PROVE RetainInv'
  BY <1>12, <1>13 DEF Submit, Tick, Rest, vars
<1> QED
  BY <1>0, <1>2, <1>4, <1>5, <1>6, <1>7, <1>8, <1>9, <1>10, <1>11, <1>13,
     RetainLoads, RetainRotates, RetainSyncs
  DEF Next, HolderStep

LEMMA RetainInvInit ==
  ASSUME Init
  PROVE  RetainInv
<1>1. Segments = {} /\ op.pc = "idle" /\ ~mem.loaded
  BY DEF Init, View, Segments, Idle, Unloaded
<1> QED
  BY <1>1
  DEF RetainInv, NewestPast, NewestReached, AppendReached, SizeMeansLines, StampsReached

\* Only the end of a record() call acknowledges its event.
LEMMA AcksFinish ==
  ASSUME TypeInv, [Next]_vars, NEW e \in Events, call[e].st # "acked", call'[e].st = "acked"
  PROVE  Finish
<1>1. call \in [Events -> CallType]
  BY TypeParts DEF TypeInv
<1>2. ASSUME NEW d \in Events, Submit(d) PROVE FALSE
  BY <1>1, <1>2 DEF Submit
<1>3. ASSUME NEW d \in Events, Acquire(d) PROVE FALSE
  BY <1>1, <1>3 DEF Acquire, CallType
<1>4. ASSUME op.pc # "idle", Raise PROVE FALSE
  BY <1>4, ReleaseFacts DEF Raise
<1>5. ASSUME LoseProcess PROVE FALSE
  BY <1>5, LoseProcessFacts
<1> QED
  BY <1>2, <1>3, <1>4, <1>5
  DEF Next, HolderStep, vars, LoadAbsent, LoadRejected, LoadExisting, DecideRotation, Rename,
      RenameMissing, RenameSync, CreateFile, CreateSync, AppendMissing, WriteSome, WriteRest,
      AppendSync, PruneOne, SystemCallFails, Crash, PowerLoss, Tick, Rest

\* What is left when a call returns is the active file, which has its event,
\* and segments whose stamps are within retention.
LEMMA FinishRetains ==
  ASSUME TypeInv, LogInv, RetainInv, Finish, NEW f \in Linked(View)'
  PROVE  \E i \in 1..Len(Lines(f)) : Lines(f)[i].at + Retention >= op.now
<1>1. Linked(View)' = Linked(View) /\ op.pc = "prune" /\ Expired = {} /\ op.now \in Nat
  BY FsyncParentDisk, TypeParts DEF Finish, View, TypeInv, OpType
<1>2. CASE f = Active
  <2>1. Active \in FileIds
    BY <1>1, ViewFacts DEF TypeInv, LogInv, HolderLog, Stored
  <2>2. PICK i \in 1..Len(Lines(Active)) : op.now <= Lines(Active)[i].at
    BY <1>1 DEF RetainInv, AppendReached, Reached
  <2>3. Lines(Active)[i].at \in Nat
    BY <2>1, FileFacts DEF TypeInv, Line
  <2> QED BY <1>1, <1>2, <2>2, <2>3, TimeAssumption
<1>3. CASE f # Active
  <2>1. PICK s \in Segments : f = s.file
    BY <1>1, <1>3, LinkedFacts
  <2>2. s.stamp \in Nat /\ s.stamp + Retention >= op.now
    BY <1>1, ViewFacts, TimeAssumption DEF Expired, TypeInv
  <2>3. PICK i \in 1..Len(Lines(f)) : s.stamp <= Lines(f)[i].at
    BY <2>1 DEF RetainInv, StampsReached
  <2>4. Lines(f)[i].at \in Nat
    BY <2>1, LinkedFacts, FileFacts DEF TypeInv, Line
  <2> QED BY <1>1, <2>2, <2>3, <2>4, TimeAssumption
<1> QED BY <1>2, <1>3

\* A record() call that returns leaves only files something was appended to
\* within the retention period, whatever crashes, and whatever failures of the
\* rotation and of the retention but that of a new file's sync, came before it
\* (JsonlAuditLogger._prune_expired_segments).
THEOREM RetentionHolds ==
  ASSUME RetentionSafe
  PROVE  Spec => RetentionEnforced
<1> DEFINE Durable == "power" \in Faults => DurInv
           Reaching == "power" \in Faults => ViewsReached
<1>1. Init => DayInv /\ RetainInv /\ Reaching
  <2>1. Init => ViewsReached
    BY DEF Init, ViewsReached
  <2> QED BY <2>1, DayInvInit, RetainInvInit
<1>2. TypeInv /\ LogInv /\ Durable /\ (TypeInv /\ LogInv /\ Durable)' /\ [Next]_vars
        /\ DayInv /\ RetainInv /\ Reaching
      => DayInv' /\ RetainInv' /\ Reaching'
  <2> SUFFICES ASSUME TypeInv, LogInv, Durable, TypeInv', DayInv, RetainInv, Reaching, [Next]_vars
               PROVE  DayInv' /\ RetainInv' /\ Reaching'
    OBVIOUS
  <2>1. DayInv'
    BY DayInvStep
  <2>2. RetainInv'
    BY RetainInvStep
  <2>3. Reaching'
    BY <2>2, ViewsReachedStep DEF RetainInv
  <2> QED BY <2>1, <2>2, <2>3
<1>3. Tolerated
  BY DEF RetentionSafe
<1>4. TypeInv /\ LogInv /\ RetainInv /\ [Next]_vars =>
        [\A e \in Events :
           call[e].st = "holding" /\ call'[e].st = "acked" =>
             \A f \in Linked(View)' :
               \E i \in 1..Len(Lines(f)) : Lines(f)[i].at + Retention >= op.now]_vars
  BY AcksFinish, FinishRetains
<1>5. Spec => [](TypeInv /\ LogInv /\ Durable)
  BY <1>3, LogInvariant
<1> QED BY <1>1, <1>2, <1>4, <1>5, PTL DEF Spec, RetentionEnforced

-----------------------------------------------------------------------------
(* The log implements the ledger: with the abstraction AuditLog!Ledger,     *)
(* every step of a record() call, system call by system call, of the        *)
(* rotation, of the retention, of a crash and of a loss of power is a step  *)
(* of AuditLedger or leaves its variables alone.                            *)


-----------------------------------------------------------------------------
(* What the mapping needs besides the log's invariant: the lock has one     *)
(* holder, and an event is in a file only once its call got the lock.       *)

OneHolder == \A e \in Events : call[e].st = "holding" => op.pc # "idle" /\ op.ev = e

WrittenByHolders ==
  \A f \in FileIds : \A i \in 1..Len(Lines(f)) :
    call[Lines(f)[i].ev].st \notin {"new", "waiting"}

HolderOnly == OneHolder /\ WrittenByHolders

\* A step that changes no line and gives no event back to its caller.
LEMMA HolderOnlyQuiet ==
  ASSUME TypeInv, HolderOnly, FileIds' = FileIds, \A f \in FileIds : Lines(f)' = Lines(f),
         OneHolder',
         \A e \in Events : call[e].st \notin {"new", "waiting"} =>
           call'[e].st \notin {"new", "waiting"}
  PROVE  HolderOnly'
<1>1. \A f \in FileIds : \A i \in 1..Len(Lines(f)) : Lines(f)[i].ev \in Events
  BY FileFacts DEF TypeInv, Line
<1> QED BY <1>1 DEF HolderOnly, WrittenByHolders

LEMMA HolderOnlyStep ==
  ASSUME TypeInv, HolderOnly, [Next]_vars
  PROVE  HolderOnly'
<1> USE DEF HolderOnly
<1>0. call \in [Events -> CallType] /\ op \in OpType
  BY TypeParts DEF TypeInv
<1>1. ASSUME files' = files, OneHolder',
             \A e \in Events : call[e].st \notin {"new", "waiting"} =>
               call'[e].st \notin {"new", "waiting"}
      PROVE  HolderOnly'
  BY <1>1, HolderOnlyQuiet DEF FileIds, Lines
<1>2. ASSUME NEW e \in Events, Submit(e) PROVE HolderOnly'
  <2>1. /\ UNCHANGED <<op, files>> /\ call[e].st = "new"
        /\ \A d \in Events : d # e => call'[d] = call[d]
        /\ call'[e].st = "waiting"
    BY <1>0, <1>2 DEF Submit
  <2>2. OneHolder'
    BY <2>1 DEF OneHolder
  <2> QED BY <1>1, <2>1, <2>2
<1>3. ASSUME NEW e \in Events, Acquire(e) PROVE HolderOnly'
  <2>1. /\ op.pc = "idle" /\ files' = files /\ op'.pc # "idle" /\ op'.ev = e
        /\ \A d \in Events : call'[d].st = IF d = e THEN "holding" ELSE call[d].st
    BY <1>0, <1>3 DEF Acquire, Idle, CallType
  <2>2. OneHolder'
    BY <2>1 DEF OneHolder
  <2> QED BY <1>1, <2>1, <2>2
<1>4. ASSUME op.pc # "idle", NEW st \in {"acked", "failed"}, Release(st), files' = files
      PROVE  HolderOnly'
  <2>1. \A e \in Events : call'[e].st = IF e = op.ev THEN st ELSE call[e].st
    BY <1>4, ReleaseFacts
  <2>2. OneHolder'
    BY <1>4, <2>1 DEF OneHolder
  <2> QED BY <1>1, <1>4, <2>1, <2>2
<1>5. ASSUME LoadRejected \/ RenameMissing \/ AppendMissing \/ SystemCallFails \/ Finish
      PROVE  HolderOnly'
  BY <1>4, <1>5 DEF LoadRejected, RenameMissing, AppendMissing, SystemCallFails, Finish, Raise
<1>6. ASSUME Crash PROVE HolderOnly'
  <2>1. files' = files /\ LoseProcess
    BY <1>6 DEF Crash
  <2>2. \A e \in Events : /\ call'[e].st \notin {"waiting", "holding"}
                          /\ call[e].st # "new" => call'[e].st # "new"
    BY <2>1, LoseProcessFacts
  <2> QED BY <1>1, <2>1, <2>2 DEF OneHolder
<1>7. ASSUME PowerLoss PROVE HolderOnly'
  <2>1. \A e \in Events : /\ call'[e].st \notin {"waiting", "holding"}
                          /\ call[e].st # "new" => call'[e].st # "new"
    BY <1>7, LoseProcessFacts DEF PowerLoss
  <2>2. FileIds' = FileIds /\ \A f \in FileIds : Remains(files[f], Lines(f)')
    BY <1>7, PowerLossDisk
  <2>3. WrittenByHolders'
    <3> SUFFICES ASSUME NEW f \in FileIds, NEW i \in 1..Len(Lines(f)')
                 PROVE  call'[Lines(f)'[i].ev].st \notin {"new", "waiting"}
      BY <2>2 DEF WrittenByHolders
    <3>1. i \in 1..Len(Lines(f)) /\ Lines(f)'[i].ev = Lines(f)[i].ev
      BY <2>2, RemainsFacts
    <3>2. Lines(f)[i].ev \in Events /\ call[Lines(f)[i].ev].st # "new"
      BY <3>1, FileFacts DEF TypeInv, Line, WrittenByHolders
    <3> QED BY <2>1, <3>1, <3>2
  <2> QED BY <2>1, <2>3 DEF OneHolder
<1>8. ASSUME call' = call, op'.ev = op.ev, op.pc # "idle" => op'.pc # "idle" PROVE OneHolder'
  BY <1>8 DEF OneHolder
<1>9. ASSUME LoadAbsent \/ DecideRotation \/ Rename \/ RenameSync \/ CreateSync \/ PruneOne
      PROVE  HolderOnly'
  <2>1. call' = call /\ files' = files /\ op'.ev = op.ev /\ op'.pc # "idle"
    BY <1>0, <1>9
    DEF LoadAbsent, DecideRotation, Rename, RenameSync, CreateSync, PruneOne, Goto, OpType
  <2> QED BY <1>1, <1>8, <2>1
<1>10. ASSUME CreateFile \/ AppendSync PROVE HolderOnly'
  <2>1. call' = call /\ op'.ev = op.ev /\ op'.pc # "idle"
    BY <1>0, <1>10 DEF CreateFile, AppendSync, Goto, OpType
  <2>2. CASE AppendSync
    <3>1. FileIds' = FileIds /\ \A f \in FileIds : Lines(f)' = Lines(f)
      BY <2>2, AppendSyncDisk DEF FileIds, Lines
    <3> QED BY <1>8, <2>1, <3>1, HolderOnlyQuiet
  <2>3. CASE CreateFile
    <3>1. PICK new : new = Len(files) + 1
      OBVIOUS
    <3>2. /\ Len(files') = new /\ Len(files) \in Nat
          /\ \A f \in FileIds : files'[f] = files[f]
          /\ files'[new] = [lines |-> <<>>, safe |-> 0]
      BY <2>3, <3>1, CreateFileDisk
    <3>3. FileIds' = FileIds \cup {new}
      BY <3>1, <3>2 DEF FileIds
    <3>4. Lines(new)' = <<>> /\ \A f \in FileIds : Lines(f)' = Lines(f)
      BY <3>2 DEF Lines
    <3> QED BY <1>8, <2>1, <3>3, <3>4 DEF WrittenByHolders
  <2> QED BY <1>10, <2>2, <2>3
<1>11. ASSUME WriteSome \/ WriteRest PROVE HolderOnly'
  <2>1. /\ op.pc = "append" /\ Active # NoFile /\ UNCHANGED <<call, dirs>>
        /\ op'.ev = op.ev /\ op'.pc # "idle"
    BY <1>0, <1>11 DEF WriteSome, WriteRest, OpType
  <2>2. PICK n \in Nat \ {0}, last \in BOOLEAN : files' = WithBytes(Active, op.ev, n, last)
    BY <1>11, AppendsBytes
  <2>3. PICK a : a = Active
    OBVIOUS
  <2>4. FileIds' = FileIds /\ a \in FileIds /\ \A f \in FileIds \ {a} : Lines(f)' = Lines(f)
    BY <2>1, <2>2, <2>3, WriteLines
  <2>5. PICK lines \in Seq(Line), kept \in Nat :
          /\ files'[a].lines = lines /\ Len(lines) = kept + 1
          /\ \A i \in 1..kept : i \in 1..Len(Lines(a)) /\ lines[i] = Lines(a)[i]
          /\ lines[kept + 1].ev = op.ev
    <3>1. PICK lines \in Seq(Line), kept \in Nat : Wrote(a, lines, kept, n, last)
      BY <2>1, <2>2, <2>3, WriteLines
    <3> QED BY <3>1 DEF Wrote
  <2>6. call[op.ev].st = "holding"
    BY <2>1 DEF TypeInv, HolderInv
  <2>7. ASSUME NEW i \in 1..Len(lines) PROVE call[lines[i].ev].st \notin {"new", "waiting"}
    <3>1. CASE i = kept + 1
      BY <2>5, <2>6, <3>1
    <3>2. CASE i # kept + 1
      <4>1. i \in 1..kept
        BY <2>5, <3>2
      <4> QED BY <2>4, <2>5, <4>1 DEF WrittenByHolders
    <3> QED BY <3>1, <3>2
  <2>8. WrittenByHolders'
    BY <2>1, <2>4, <2>5, <2>7 DEF WrittenByHolders, Lines
  <2> QED BY <1>8, <2>1, <2>8
<1>12. ASSUME LoadExisting \/ Tick \/ Rest \/ UNCHANGED vars PROVE HolderOnly'
  <2>1. UNCHANGED <<call, op, files>>
    BY <1>12 DEF LoadExisting, Tick, Rest, vars
  <2> QED BY <1>1, <1>8, <2>1
<1> QED
  BY <1>2, <1>3, <1>5, <1>6, <1>7, <1>9, <1>10, <1>11, <1>12 DEF Next, HolderStep

-----------------------------------------------------------------------------
(* What a step does to the events that can be read.                         *)

LEMMA ReadableIs ==
  /\ \A e : e \in Readable <=> e \in Events /\ \E f \in Linked(View) : WholeIn(f, e)
  /\ \A e : e \in Readable' <=> e \in Events /\ \E f \in Linked(View)' : WholeIn(f, e)'
BY DEF Readable, WholeIn, WholeLine

\* Neither a rename, nor a new file, nor a sync changes what can be read.
LEMMA ReadableKept ==
  ASSUME \A f \in Linked(View)' : Lines(f)' = <<>> \/ (f \in Linked(View) /\ Lines(f)' = Lines(f)),
         \A f \in Linked(View) : f \in Linked(View)' /\ Lines(f)' = Lines(f)
  PROVE  Readable' = Readable
<1>1. ASSUME NEW f \in Linked(View)', NEW e, WholeIn(f, e)'
      PROVE  f \in Linked(View) /\ WholeIn(f, e)
  <2>1. Lines(f)' # <<>>
    BY <1>1 DEF WholeIn
  <2> QED BY <1>1, <2>1 DEF WholeIn, WholeLine
<1>2. ASSUME NEW f \in Linked(View), NEW e, WholeIn(f, e)
      PROVE  f \in Linked(View)' /\ WholeIn(f, e)'
  BY <1>2 DEF WholeIn, WholeLine
<1>3. \A e : e \in Readable' <=> e \in Readable
  BY <1>1, <1>2, ReadableIs
<1> QED BY <1>3

\* A write adds the event it ends, or nothing.
LEMMA ReadableWrites ==
  ASSUME TypeInv, LogInv, op.pc = "append", Active # NoFile, NEW n \in Nat \ {0},
         NEW last \in BOOLEAN, files' = WithBytes(Active, op.ev, n, last), dirs' = dirs
  PROVE  Readable' = Readable \/ (last /\ Readable' = Readable \cup {op.ev})
<1>1. PICK a : a = Active
  OBVIOUS
<1>2. /\ Linked(View)' = Linked(View) /\ a \in FileIds /\ op.ev \in Events
      /\ \A f \in FileIds \ {a} : Lines(f)' = Lines(f)
  BY <1>1, WriteLines
<1>3. PICK lines \in Seq(Line), kept \in Nat :
        /\ files'[a].lines = lines /\ Len(lines) = kept + 1
        /\ kept = IF Unterminated(a) THEN Len(Lines(a)) - 1 ELSE Len(Lines(a))
        /\ \A i \in 1..kept : i \in 1..Len(Lines(a)) /\ lines[i] = Lines(a)[i]
        /\ lines[kept + 1].ev = op.ev
        /\ lines[kept + 1].kind \in IF last THEN {"event", "bad"} ELSE {"partial", "torn"}
  <2>1. PICK lines \in Seq(Line), kept \in Nat : Wrote(a, lines, kept, n, last)
    BY <1>1, WriteLines
  <2> QED BY <2>1 DEF Wrote
<1>4. a \in Linked(View) /\ Linked(View) \subseteq FileIds
  BY <1>1, ViewFacts DEF TypeInv, Linked, Active
<1>5. Lines(a)' = lines /\ Len(Lines(a)) \in Nat
  BY <1>2, <1>3, FileFacts DEF Lines, TypeInv
\* A line the write replaces was no event.
<1>6. ASSUME NEW e, WholeIn(a, e) PROVE WholeIn(a, e)'
  <2>1. PICK i \in 1..Len(Lines(a)) : Lines(a)[i].ev = e /\ Lines(a)[i].kind = "event"
    BY <1>6 DEF WholeIn, WholeLine
  <2>2. i \in 1..kept
    BY <1>3, <1>5, <2>1 DEF Unterminated, LastLine
  <2>3. lines[i] = Lines(a)[i] /\ i \in 1..Len(lines)
    BY <1>3, <2>2
  <2> QED BY <1>5, <2>1, <2>3 DEF WholeIn, WholeLine
<1>7. ASSUME NEW e, WholeIn(a, e)'
      PROVE  WholeIn(a, e) \/ (last /\ e = op.ev /\ lines[kept + 1].kind = "event")
  <2>1. PICK i \in 1..Len(lines) : lines[i].ev = e /\ lines[i].kind = "event"
    BY <1>5, <1>7 DEF WholeIn, WholeLine
  <2>2. CASE i = kept + 1
    BY <1>3, <2>1, <2>2
  <2>3. CASE i # kept + 1
    <3>1. i \in 1..kept
      BY <1>3, <2>3
    <3> QED BY <1>3, <2>1, <3>1 DEF WholeIn, WholeLine
  <2> QED BY <2>2, <2>3
<1>8. ASSUME NEW e, e = op.ev, lines[kept + 1].kind = "event" PROVE WholeIn(a, e)'
  <2>1. kept + 1 \in 1..Len(lines) /\ lines[kept + 1].ev = e
    BY <1>3, <1>8
  <2> QED BY <1>5, <1>8, <2>1 DEF WholeIn, WholeLine
<1>9. \A f \in Linked(View) : f # a => \A e : WholeIn(f, e)' <=> WholeIn(f, e)
  BY <1>2, <1>4 DEF WholeIn, WholeLine
<1>10. \A e : e \in Readable => e \in Readable'
  BY <1>2, <1>6, <1>9, ReadableIs
<1>11. \A e : e \in Readable' =>
         e \in Readable \/ (last /\ e = op.ev /\ lines[kept + 1].kind = "event")
  BY <1>2, <1>7, <1>9, ReadableIs
<1>12. last /\ lines[kept + 1].kind = "event" => op.ev \in Readable'
  BY <1>2, <1>4, <1>8, ReadableIs
<1> QED
  <2>1. CASE last /\ lines[kept + 1].kind = "event"
    <3>1. \A e : e \in Readable' <=> e \in Readable \cup {op.ev}
      BY <1>10, <1>11, <1>12, <2>1
    <3> QED BY <2>1, <3>1
  <2>2. CASE ~(last /\ lines[kept + 1].kind = "event")
    <3>1. \A e : e \in Readable' <=> e \in Readable
      BY <1>10, <1>11, <2>2
    <3> QED BY <3>1
  <2> QED BY <2>1, <2>2

\* The retention takes events that are out of it, and none that is being recorded.
LEMMA ReadablePruned ==
  ASSUME TypeInv, LogInv, HolderOnly, PruneOne
  PROVE  /\ Readable' \subseteq Readable
         /\ \A e \in Readable \ Readable' :
              call[e].ts + Retention < clock /\ call[e].st \notin {"waiting", "holding"}
<1>1. PICK s \in Expired : View' = [View EXCEPT !.segs = @ \ {s}]
  BY PruneDisk
<1>2. View \in DirView /\ files' = files /\ op.pc = "prune"
  BY ViewFacts DEF PruneOne, TypeInv
<1>3. Active' = Active /\ Segments' = Segments \ {s} /\ s \in Segments
      /\ s.stamp + Retention < op.now
  BY <1>1, <1>2 DEF Active, Segments, DirView, Expired
<1>4. /\ \A f \in Linked(View)' : f \in Linked(View)
      /\ \A f \in Linked(View) : f \in Linked(View)' \/ f = s.file
  BY <1>1, <1>2 DEF Linked, DirView
<1>5. \A f, e : WholeIn(f, e)' <=> WholeIn(f, e)
  BY <1>2 DEF WholeIn, WholeLine, Lines
<1>6. Readable' \subseteq Readable
  BY <1>4, <1>5, ReadableIs
<1>7. ASSUME NEW e \in Readable, e \notin Readable'
      PROVE  call[e].ts + Retention < clock /\ call[e].st \notin {"waiting", "holding"}
  <2>1. e \in Events /\ WholeIn(s.file, e)
    BY <1>4, <1>5, <1>7, ReadableIs
  <2>2. PICK i \in 1..Len(Lines(s.file)) : Lines(s.file)[i].ev = e
    BY <2>1 DEF WholeIn
  <2>3. call[e].ts <= s.stamp
    BY <1>3, <2>2 DEF LogInv, DiskInv, StampsCover
  <2>4. s.stamp \in Nat /\ op.now \in Nat /\ op.now <= clock /\ clock \in Nat
        /\ call[e].ts \in Nat
    BY <1>3, <2>1, ViewFacts, TypeParts DEF TypeInv, HolderInv, OpType, CallType
  <2>5. call[e].ts + Retention < clock
    BY <1>3, <2>3, <2>4, TimeAssumption
  <2>6. call[e].st # "waiting"
    BY <1>3, <2>2, LinkedFacts DEF HolderOnly, WrittenByHolders
  <2>7. call[e].st # "holding"
    <3> SUFFICES ASSUME call[e].st = "holding" PROVE FALSE
      OBVIOUS
    <3>1. e = op.ev
      BY <2>1 DEF HolderOnly, OneHolder
    <3>2. Active # NoFile /\ WholeIn(Active, e)
      BY <1>2, <3>1 DEF LogInv, HolderLog, Stored
    <3>3. Active \in Linked(View)'
      BY <1>3, <3>2 DEF Linked, Active
    <3> QED BY <1>5, <1>7, <2>1, <3>2, <3>3, ReadableIs
  <2> QED BY <2>5, <2>6, <2>7
<1> QED BY <1>6, <1>7

-----------------------------------------------------------------------------
(* The mapping, step by step.                                               *)

Status == [e \in Events |-> IF call[e].st = "holding" THEN "waiting" ELSE call[e].st]
Stamps == [e \in Events |-> call[e].ts]

\* Calls that move on as the ledger sees it: nothing changes.
LEMMA MapsToNothing ==
  ASSUME clock' = clock, Readable' = Readable,
         \A e \in Events : /\ call'[e].ts = call[e].ts
                           /\ \/ call'[e].st = call[e].st
                              \/ {call'[e].st, call[e].st} \subseteq {"waiting", "holding"}
  PROVE  UNCHANGED Ledger!ledgerVars
<1>1. Status' = Status
  BY DEF Status
<1>2. Stamps' = Stamps
  BY DEF Stamps
<1> QED BY <1>1, <1>2 DEF Status, Stamps, Ledger!ledgerVars

\* What the calls' end is to the ledger.
LEMMA StatusReleased ==
  ASSUME TypeInv, HolderOnly, op.pc # "idle", NEW st \in {"acked", "failed"}, Release(st)
  PROVE  /\ op.ev \in Events /\ Status[op.ev] = "waiting"
         /\ Status' = [Status EXCEPT ![op.ev] = st] /\ Stamps' = Stamps
<1>1. op.ev \in Events /\ call[op.ev].st = "holding"
  BY DEF TypeInv, HolderInv
<1>2. \A e \in Events : /\ call'[e].ts = call[e].ts
                        /\ call'[e].st = IF e = op.ev THEN st ELSE call[e].st
  BY ReleaseFacts
<1>3. Stamps' = Stamps
  BY <1>2 DEF Stamps
<1>4. Status' = [Status EXCEPT ![op.ev] = st]
  BY <1>1, <1>2 DEF Status
<1> QED BY <1>1, <1>3, <1>4 DEF Status

LEMMA SubmitMaps ==
  ASSUME TypeInv, NEW e \in Events, Submit(e)
  PROVE  Ledger!Submit(e)
<1>1. PICK n : call' = [call EXCEPT ![e] = [st |-> "waiting", ts |-> clock, len |-> n]]
  BY DEF Submit
<1>2. /\ call[e].st = "new" /\ UNCHANGED <<clock, files, dirs>>
      /\ call \in [Events -> CallType]
  BY TypeParts DEF Submit, TypeInv
<1>3. Readable' = Readable
  BY <1>2 DEF Readable, Linked, View, Lines
<1>4. /\ Status[e] = "new" /\ Status' = [Status EXCEPT ![e] = "waiting"]
      /\ Stamps' = [Stamps EXCEPT ![e] = clock]
  BY <1>1, <1>2 DEF Status, Stamps
<1> QED BY <1>2, <1>3, <1>4 DEF Ledger!Submit, Status, Stamps

\* An exception, whether the event was stored or not.
LEMMA RaiseMaps ==
  ASSUME TypeInv, HolderOnly, op.pc # "idle", Raise
  PROVE  \E e \in Events : Ledger!Fail(e)
<1>1. Readable' = Readable /\ clock' = clock /\ Release("failed")
  BY DEF Raise, Readable, Linked, View, Lines
<1>2. /\ op.ev \in Events /\ Status[op.ev] = "waiting"
      /\ Status' = [Status EXCEPT ![op.ev] = "failed"] /\ Stamps' = Stamps
  BY <1>1, StatusReleased
<1>3. PICK e : e = op.ev
  OBVIOUS
<1>4. Ledger!Fail(e)
  BY <1>1, <1>2, <1>3 DEF Ledger!Fail, Status, Stamps
<1> QED BY <1>2, <1>3, <1>4

\* A call that returns: its event is stored.
LEMMA FinishMaps ==
  ASSUME TypeInv, LogInv, HolderOnly, Finish
  PROVE  \E e \in Events : Ledger!Ack(e)
<1>1. files' = files /\ View' = View /\ clock' = clock /\ Release("acked") /\ op.pc = "prune"
  BY FsyncParentDisk DEF Finish, View
<1>2. Readable' = Readable
  BY <1>1 DEF Readable, Linked, Lines
<1>3. /\ op.ev \in Events /\ Status[op.ev] = "waiting"
      /\ Status' = [Status EXCEPT ![op.ev] = "acked"] /\ Stamps' = Stamps
  BY <1>1, StatusReleased
<1>4. op.ev \in Readable
  BY <1>1, <1>3, LinkedFacts, ReadableIs DEF LogInv, HolderLog, Stored
<1>5. PICK e : e = op.ev
  OBVIOUS
<1>6. Ledger!Ack(e)
  BY <1>1, <1>2, <1>3, <1>4, <1>5 DEF Ledger!Ack, Status, Stamps
<1> QED BY <1>3, <1>5, <1>6

\* A write that ends a line stores its event; the others are not seen.
LEMMA WriteMaps ==
  ASSUME TypeInv, LogInv, WriteSome \/ WriteRest
  PROVE  (\E e \in Events : Ledger!Store(e)) \/ UNCHANGED Ledger!ledgerVars
<1>1. op.pc = "append" /\ Active # NoFile /\ UNCHANGED <<clock, call, dirs>>
  BY DEF WriteSome, WriteRest
<1>2. PICK n \in Nat \ {0}, last \in BOOLEAN : files' = WithBytes(Active, op.ev, n, last)
  BY AppendsBytes
<1>3. Readable' = Readable \/ Readable' = Readable \cup {op.ev}
  BY <1>1, <1>2, ReadableWrites
<1>4. op.ev \in Events /\ call[op.ev].st = "holding"
  BY <1>1 DEF TypeInv, HolderInv
<1>5. Status[op.ev] = "waiting" /\ Status' = Status /\ Stamps' = Stamps
  BY <1>1, <1>4 DEF Status, Stamps
<1>6. CASE Readable' = Readable \cup {op.ev} /\ op.ev \notin Readable
  <2>1. PICK e : e = op.ev
    OBVIOUS
  <2>2. Ledger!Store(e)
    BY <1>1, <1>4, <1>5, <1>6, <2>1 DEF Ledger!Store, Status, Stamps
  <2> QED BY <1>4, <2>1, <2>2
<1>7. CASE Readable' = Readable
  BY <1>1, <1>7, MapsToNothing
<1> QED BY <1>3, <1>6, <1>7

\* An unlinked segment takes events out of retention, if any.
LEMMA PruneMaps ==
  ASSUME TypeInv, LogInv, HolderOnly, PruneOne
  PROVE  Ledger!Expire \/ UNCHANGED Ledger!ledgerVars
<1>1. UNCHANGED <<clock, call>> /\ Readable \subseteq Events
  BY DEF PruneOne, Readable
<1>2. PICK old : old = Readable \ Readable'
  OBVIOUS
<1>3. /\ Readable' = Readable \ old /\ old \subseteq Readable
      /\ \A e \in old : call[e].ts + Retention < clock /\ call[e].st \notin {"waiting", "holding"}
  BY <1>2, ReadablePruned
<1>4. Status' = Status /\ Stamps' = Stamps
  BY <1>1 DEF Status, Stamps
<1>5. \A e \in old : Stamps[e] + Retention < clock /\ Status[e] # "waiting"
  BY <1>1, <1>3 DEF Status, Stamps
<1>6. CASE old # {}
  <2>1. old \in (SUBSET Readable) \ {{}}
    BY <1>3, <1>6
  <2>2. \A e \in old : Ledger!OutOfRetention(e)
    BY <1>5 DEF Ledger!OutOfRetention, Stamps
  <2> QED BY <1>1, <1>3, <1>4, <1>5, <2>1, <2>2 DEF Ledger!Expire, Status, Stamps
<1>7. CASE old = {}
  BY <1>1, <1>3, <1>7, MapsToNothing
<1> QED BY <1>6, <1>7

\* A crash leaves what was stored: events of calls that had begun.
LEMMA CrashMaps ==
  ASSUME TypeInv, HolderOnly, Crash
  PROVE  Ledger!Restart
<1>1. /\ UNCHANGED <<clock, files, dirs>> /\ call \in [Events -> CallType]
      /\ call' = [e \in Events |-> IF call[e].st \in {"waiting", "holding"}
                                   THEN [call[e] EXCEPT !.st = "lost"] ELSE call[e]]
  BY TypeParts DEF Crash, LoseProcess, TypeInv
<1>2. Readable' = Readable
  BY <1>1 DEF Readable, Linked, View, Lines
<1>3. Stamps' = Stamps
  BY <1>1 DEF Stamps, CallType
<1>4. Status' = [e \in Events |-> IF Status[e] = "waiting" THEN "lost" ELSE Status[e]]
  BY <1>1 DEF Status, CallType
<1>5. Readable \subseteq {e \in Events : Status[e] # "new"}
  <2> SUFFICES ASSUME NEW e \in Readable PROVE e \in Events /\ call[e].st # "new"
    BY DEF Status
  <2>1. PICK f \in Linked(View) : e \in Events /\ WholeIn(f, e)
    BY ReadableIs
  <2>2. f \in FileIds
    BY ViewFacts DEF TypeInv
  <2> QED BY <2>1, <2>2 DEF WholeIn, HolderOnly, WrittenByHolders
<1> QED BY <1>1, <1>2, <1>3, <1>4, <1>5 DEF Ledger!Restart, Status, Stamps

\* So does a loss of power, and what it takes of that was not acknowledged or is out
\* of retention.
LEMMA PowerLossMaps ==
  ASSUME TypeInv, LogInv', HolderOnly, PowerLoss
  PROVE  Ledger!Restart
<1>1. /\ clock' = clock /\ clock \in Nat /\ call \in [Events -> CallType]
      /\ call' = [e \in Events |-> IF call[e].st \in {"waiting", "holding"}
                                   THEN [call[e] EXCEPT !.st = "lost"] ELSE call[e]]
  BY TypeParts DEF PowerLoss, LoseProcess, TypeInv
<1>2. Stamps' = Stamps
  BY <1>1 DEF Stamps, CallType
<1>3. Status' = [e \in Events |-> IF Status[e] = "waiting" THEN "lost" ELSE Status[e]]
  BY <1>1 DEF Status, CallType
<1>4. Readable' \in SUBSET {e \in Events : Status[e] # "new"}
  <2> SUFFICES ASSUME NEW e \in Readable' PROVE e \in Events /\ call[e].st # "new"
    BY DEF Status
  <2>1. PICK f \in Linked(View)' : e \in Events /\ \E i \in 1..Len(Lines(f)') : Lines(f)'[i].ev = e
    BY DEF Readable
  <2>2. PICK i \in 1..Len(Lines(f)') : Lines(f)'[i].ev = e
    BY <2>1
  <2>3. f \in FileIds
    <3>1. PICK v \in 1..Len(dirs) : View' = dirs[v]
      BY PowerLossDisk
    <3> QED BY <2>1, <3>1, ViewsFacts DEF Linked
  <2>4. i \in 1..Len(Lines(f)) /\ Lines(f)[i].ev = e
    BY <2>2, <2>3, PowerLossDisk, RemainsFacts
  <2> QED BY <2>1, <2>3, <2>4 DEF HolderOnly, WrittenByHolders
<1>5. ASSUME NEW e \in Readable \ Readable'
      PROVE  Status[e] # "acked" \/ Stamps[e] + Retention < clock
  <2>1. e \in Events /\ call[e].ts \in Nat
    BY <1>1, ReadableIs DEF CallType
  <2>2. call[e].st = "acked" => call'[e].st = "acked" /\ call'[e].ts = call[e].ts
    BY <1>1, <2>1
  <2>3. ~(call[e].st = "acked" /\ call[e].ts + Retention >= clock)
    BY <1>1, <1>5, <2>1, <2>2 DEF LogInv, DiskInv, AckedKept
  <2>4. call[e].st # "acked" \/ call[e].ts + Retention < clock
    BY <1>1, <2>1, <2>3, TimeAssumption
  <2> QED BY <2>1, <2>4 DEF Status, Stamps
<1> QED
  BY <1>1, <1>2, <1>3, <1>4, <1>5 DEF Ledger!Restart, Ledger!OutOfRetention, Status, Stamps

\* The rotation and the syncs move and make files: what can be read stays.
LEMMA RotationMaps ==
  ASSUME TypeInv,
         LoadAbsent \/ LoadExisting \/ DecideRotation \/ Rename \/ RenameSync \/ CreateFile
           \/ CreateSync \/ AppendSync
  PROVE  UNCHANGED Ledger!ledgerVars
<1>1. UNCHANGED <<clock, call>>
  BY DEF LoadAbsent, LoadExisting, DecideRotation, Rename, RenameSync, CreateFile, CreateSync,
         AppendSync
<1>2. ASSUME files' = files, View' = View PROVE Readable' = Readable
  BY <1>2 DEF Readable, Linked, Lines
<1>3. CASE LoadAbsent \/ LoadExisting \/ DecideRotation \/ RenameSync \/ CreateSync
  <2>1. files' = files /\ View' = View
    BY <1>3, FsyncParentDisk
    DEF LoadAbsent, LoadExisting, DecideRotation, RenameSync, CreateSync, View
  <2> QED BY <1>1, <1>2, <2>1, MapsToNothing
<1>4. CASE Rename
  <2>1. PICK seg : seg = [file |-> Active, stamp |-> SegmentStamp]
    OBVIOUS
  <2>2. /\ View' = [active |-> NoFile, segs |-> Segments \cup {seg}]
        /\ files' = files /\ Active # NoFile
    BY <1>4, <2>1, RenameDisk DEF Rename
  <2>3. Linked(View)' = Linked(View)
    <3>1. seg.file = Active /\ View'.active = NoFile /\ View'.segs = Segments \cup {seg}
      BY <2>1, <2>2
    <3> QED BY <2>2, <3>1 DEF Linked, Segments, Active
  <2>4. Readable' = Readable
    BY <2>2, <2>3 DEF Readable, Lines
  <2> QED BY <1>1, <2>4, MapsToNothing
<1>5. CASE CreateFile
  <2>1. PICK new : new = Len(files) + 1
    OBVIOUS
  <2>2. /\ View' = [View EXCEPT !.active = new]
        /\ \A f \in FileIds : files'[f] = files[f]
        /\ files'[new] = [lines |-> <<>>, safe |-> 0]
    BY <1>5, <2>1, CreateFileDisk
  <2>3. View \in DirView /\ Linked(View) \subseteq FileIds /\ Active = NoFile
    BY <1>5, ViewFacts DEF TypeInv, CreateFile
  <2>4. View'.active = new /\ View'.segs = View.segs
    BY <2>2, <2>3 DEF DirView
  <2>5. /\ \A f \in Linked(View)' : f = new \/ f \in Linked(View)
        /\ \A f \in Linked(View) : f \in Linked(View)'
    BY <2>3, <2>4 DEF Linked, Active
  <2>6. Lines(new)' = <<>> /\ \A f \in FileIds : Lines(f)' = Lines(f)
    BY <2>2 DEF Lines
  <2>7. Readable' = Readable
    BY <2>3, <2>5, <2>6, ReadableKept
  <2> QED BY <1>1, <2>7, MapsToNothing
<1>6. CASE AppendSync
  <2>1. View' = View /\ \A f \in FileIds : Lines(f)' = Lines(f)
    BY <1>6, AppendSyncDisk DEF Lines
  <2>2. Linked(View)' = Linked(View) /\ Linked(View) \subseteq FileIds
    BY <2>1, ViewFacts DEF Linked, TypeInv
  <2>3. Readable' = Readable
    BY <2>1, <2>2, ReadableKept
  <2> QED BY <1>1, <2>3, MapsToNothing
<1> QED BY <1>3, <1>4, <1>5, <1>6

LEMMA LedgerStep ==
  ASSUME TypeInv, LogInv, LogInv', HolderOnly, [Next]_vars
  PROVE  [Ledger!Next]_(Ledger!ledgerVars)
<1>1. ASSUME NEW e \in Events, Submit(e) PROVE Ledger!Next
  BY <1>1, SubmitMaps DEF Ledger!Next
<1>2. ASSUME NEW e \in Events, Acquire(e) PROVE UNCHANGED Ledger!ledgerVars
  <2>1. /\ call' = [call EXCEPT ![e].st = "holding"] /\ call[e].st = "waiting"
        /\ UNCHANGED <<clock, files, dirs>> /\ call \in [Events -> CallType]
    BY <1>2, TypeParts DEF Acquire, TypeInv
  <2>2. Readable' = Readable
    BY <2>1 DEF Readable, Linked, View, Lines
  <2>3. \A d \in Events :
          /\ call'[d].ts = call[d].ts
          /\ call'[d].st = IF d = e THEN "holding" ELSE call[d].st
    BY <2>1 DEF CallType
  <2> QED BY <2>1, <2>2, <2>3, MapsToNothing
<1>3. ASSUME LoadRejected \/ RenameMissing \/ AppendMissing \/ SystemCallFails PROVE Ledger!Next
  <2>1. op.pc # "idle" /\ Raise
    BY <1>3 DEF LoadRejected, RenameMissing, AppendMissing, SystemCallFails
  <2> QED BY <2>1, RaiseMaps DEF Ledger!Next
<1>4. ASSUME Finish PROVE Ledger!Next
  BY <1>4, FinishMaps DEF Ledger!Next
<1>5. ASSUME Crash PROVE Ledger!Next
  BY <1>5, CrashMaps DEF Ledger!Next
<1>6. ASSUME PowerLoss PROVE Ledger!Next
  BY <1>6, PowerLossMaps DEF Ledger!Next
<1>7. ASSUME Tick PROVE Ledger!Next
  <2>1. Readable' = Readable /\ Status' = Status /\ Stamps' = Stamps
    BY <1>7 DEF Tick, Readable, Linked, View, Lines, Status, Stamps
  <2> QED BY <1>7, <2>1 DEF Tick, Ledger!Next, Ledger!Tick, Status, Stamps
<1>8. ASSUME Rest \/ UNCHANGED vars PROVE UNCHANGED Ledger!ledgerVars
  <2>1. Readable' = Readable /\ UNCHANGED <<clock, call>>
    BY <1>8 DEF Rest, vars, Readable, Linked, View, Lines
  <2> QED BY <2>1, MapsToNothing
<1>9. ASSUME WriteSome \/ WriteRest PROVE Ledger!Next \/ UNCHANGED Ledger!ledgerVars
  BY <1>9, WriteMaps DEF Ledger!Next
<1>10. ASSUME PruneOne PROVE Ledger!Next \/ UNCHANGED Ledger!ledgerVars
  BY <1>10, PruneMaps DEF Ledger!Next
<1> QED
  BY <1>1, <1>2, <1>3, <1>4, <1>5, <1>6, <1>7, <1>8, <1>9, <1>10, RotationMaps
  DEF Next, HolderStep

\* The audit log implements the ledger: whatever the interleaving of calls,
\* crashes of the process or losses of power, rotations, and failures of the rotation's
\* and the retention's system calls, its callers see an atomic store of events that
\* keeps each from the moment it is written until its retention is over
\* (JsonlAuditLogger.record).
THEOREM LogImplementsLedger ==
  ASSUME Tolerated
  PROVE  Spec => LedgerSpec
<1>1. Init => HolderOnly /\ Ledger!Init
  <2> SUFFICES ASSUME Init PROVE HolderOnly /\ Ledger!Init
    OBVIOUS
  <2>1. View = [active |-> NoFile, segs |-> {}] /\ FileIds = {}
    BY DEF Init, View, FileIds
  <2>2. Readable = {}
    BY <2>1 DEF Readable, Linked
  <2>3. HolderOnly
    BY <2>1 DEF Init, HolderOnly, OneHolder, WrittenByHolders
  <2>4. Status = [e \in Events |-> "new"] /\ Stamps = [e \in Events |-> 0] /\ clock = 0
    BY DEF Init, Status, Stamps
  <2> QED BY <2>2, <2>3, <2>4 DEF Ledger!Init, Status, Stamps
<1>2. TypeInv /\ LogInv /\ LogInv' /\ HolderOnly /\ [Next]_vars
      => HolderOnly' /\ [Ledger!Next]_(Ledger!ledgerVars)
  BY HolderOnlyStep, LedgerStep
<1> QED BY <1>1, <1>2, LogInvariant, PTL DEF Spec, LedgerSpec, Ledger!Spec
=============================================================================
