------------------------------ MODULE AuditLog ------------------------------
(***************************************************************************)
(* JsonlAuditLogger (audit/logger.py): the append-only audit log.          *)
(*                                                                         *)
(* A call record(event) takes the logger's lock and then, one system call  *)
(* at a time, loads or creates the active file, rotates it when the day    *)
(* or the size bound says so, appends the event, fsyncs it, and unlinks    *)
(* the segments whose retention is over.  The module keeps apart what the  *)
(* process remembers (mem), what the file system shows (files, View) and   *)
(* what a power loss leaves of it (the earlier elements of dirs and the    *)
(* lines of a file beyond its "safe" prefix).                              *)
(*                                                                         *)
(* Data is abstracted to what the properties tell apart: an event is a     *)
(* member of Events, its line has a length and ends somewhere in its file, *)
(* a date is a tick divided by TicksPerDay.                                *)
(***************************************************************************)
EXTENDS Naturals, Sequences, FiniteSets

CONSTANTS
  Events,        \* the audit events this history may submit, each once
  NoEvent,       \* nobody holds the lock
  MaxLine,       \* the longest line: _MAX_EVENT_BYTES and its newline
  SegmentMax,    \* segment_max_bytes
  Retention,     \* retention_days, in ticks
  TicksPerDay,   \* ticks between two midnights (UTC)
  MaxClock,      \* bound: the clock stops here
  Faults,        \* what may go wrong in this run, see FaultPoints
  MaxFaults      \* bound: how many times something goes wrong

\* The system calls that may fail, a crash of the process ("crash") and a
\* loss of power, which also takes what was not synced ("power").
FaultPoints == {"create", "createSync", "rename", "renameSync", "write",
                "appendSync", "unlink", "pruneSync", "crash", "power"}

ASSUME NoEventAssumption == NoEvent \notin Events
ASSUME EventsAssumption == IsFiniteSet(Events)
ASSUME SizeAssumption ==
  /\ MaxLine \in Nat \ {0}
  /\ SegmentMax \in Nat
  /\ MaxLine <= SegmentMax             \* __init__ refuses anything else
ASSUME TimeAssumption ==
  /\ TicksPerDay \in Nat \ {0}
  /\ Retention \in Nat \ {0}           \* retention_days >= 1
  /\ MaxClock \in Nat
ASSUME FaultAssumption == Faults \subseteq FaultPoints /\ MaxFaults \in Nat

VARIABLES
  clock,    \* wall-clock time
  call,     \* for each event: the state of its record() call
  op,       \* the call that holds the lock and how far it is
  mem,      \* _active_started_at, _active_newest_at, _active_size
  files,    \* every file ever created: its lines, and how many are synced
  dirs,     \* views of the directory: the first is durable, the last current
  faults    \* how many things went wrong

vars == <<clock, call, op, mem, files, dirs, faults>>

-----------------------------------------------------------------------------
(* The file system *)

NoFile == 0
FileIds == 1..Len(files)

View == dirs[Len(dirs)]
Active == View.active
Segments == View.segs

Lines(f) == files[f].lines
LastLine(f) == Lines(f)[Len(Lines(f))]
SizeOf(f) == IF Lines(f) = <<>> THEN 0 ELSE LastLine(f).end

\* The bytes at the end of f carry no newline: the next write continues them.
Unterminated(f) == Lines(f) # <<>> /\ LastLine(f).kind \in {"partial", "torn"}

\* Mutant: nothing is validated.
StrictJsonl_Skipped(f) == TRUE

\* What _validate_jsonl accepts.
StrictJsonl(f) == \A i \in 1..Len(Lines(f)) : Lines(f)[i].kind = "event"

Linked(view) == ({view.active} \ {NoFile}) \cup {s.file : s \in view.segs}

\* A change of the directory is visible at once and durable when it is synced.
ChangeDir(view) == dirs' = Append(dirs, view)
FsyncParent == dirs' = <<View>>

\* _append_durable's write of n bytes of event e: they continue an unterminated
\* line or start one; last says that they end with e's newline.
WithBytes(f, e, n, last) ==
  LET own   == ~Unterminated(f) \/ (op.sent > 0 /\ LastLine(f).kind = "partial")
      kept  == IF Unterminated(f) THEN SubSeq(Lines(f), 1, Len(Lines(f)) - 1)
                                  ELSE Lines(f)
      kind  == IF last THEN (IF own THEN "event" ELSE "bad")
                       ELSE (IF own THEN "partial" ELSE "torn")
  IN  [files EXCEPT ![f].lines =
         Append(kept, [ev |-> e, end |-> SizeOf(f) + n, kind |-> kind,
                       at |-> op.now])]

-----------------------------------------------------------------------------
(* The logger's decisions *)

Day(t) == t \div TicksPerDay

NewestTimestamp(f) ==
  CHOOSE t \in {call[Lines(f)[i].ev].ts : i \in 1..Len(Lines(f))} :
    \A i \in 1..Len(Lines(f)) : call[Lines(f)[i].ev].ts <= t

Larger(a, b) == IF a >= b THEN a ELSE b

\* What the process remembers at first, of an active file it created, and of
\* one it found.
Unloaded == [loaded |-> FALSE, started |-> 0, newest |-> 0, size |-> 0]
FreshActive(now) == [loaded |-> TRUE, started |-> now, newest |-> now, size |-> 0]
\* Mutant: the size is left at zero.
LoadedActive_NoSize(f, now) ==
  IF Lines(f) = <<>> THEN FreshActive(now)
  ELSE [loaded |-> TRUE, started |-> call[Lines(f)[1].ev].ts,
        newest |-> NewestTimestamp(f), size |-> 0]

LoadedActive(f, now) ==
  IF Lines(f) = <<>> THEN FreshActive(now)
  ELSE [loaded |-> TRUE, started |-> call[Lines(f)[1].ev].ts,
        newest |-> NewestTimestamp(f), size |-> SizeOf(f)]

\* Mutants: without additional_bytes; without the change of day.
ShouldRotate_WithoutAdditional ==
  /\ mem.size > 0
  /\ Day(mem.started) # Day(op.now) \/ mem.size > SegmentMax

ShouldRotate_BySize == mem.size > 0 /\ mem.size + call[op.ev].len > SegmentMax

ShouldRotate ==
  /\ mem.size > 0
  /\ \/ Day(mem.started) # Day(op.now)
     \/ mem.size + call[op.ev].len > SegmentMax

\* Mutants: stamped with its first event, or with the time of the rotation.
SegmentStamp_Started == mem.started
SegmentStamp_Now == op.now

\* The name of a closed segment carries the newest time it covers.
SegmentStamp == mem.newest

Expired == {s \in Segments : s.stamp + Retention < op.now}

-----------------------------------------------------------------------------
(* record(event) *)

PCs == {"idle", "prepare", "create", "createSync", "rotate", "renamed",
        "append", "appendSync", "prune"}

Idle == [pc |-> "idle", ev |-> NoEvent, now |-> 0, sent |-> 0, deleted |-> FALSE]

Goto(pc) == op' = [op EXCEPT !.pc = pc]

\* The call returns, or its exception leaves the "with self._lock" block.
Release(st) ==
  /\ call' = [call EXCEPT ![op.ev].st = st]
  /\ op' = Idle

Raise == Release("failed") /\ UNCHANGED <<clock, mem, files, dirs>>

Init ==
  /\ clock = 0
  /\ call = [e \in Events |-> [st |-> "new", ts |-> 0, len |-> 1]]
  /\ op = Idle
  /\ mem = Unloaded
  /\ files = <<>>
  /\ dirs = <<[active |-> NoFile, segs |-> {}]>>
  /\ faults = 0

\* The event is stamped, redacted and serialized before the lock is taken.
Submit(e) ==
  /\ call[e].st = "new"
  /\ \E n \in 1..MaxLine :
       call' = [call EXCEPT ![e] = [st |-> "waiting", ts |-> clock, len |-> n]]
  /\ UNCHANGED <<clock, op, mem, files, dirs, faults>>

Acquire(e) ==
  /\ call[e].st = "waiting"
  /\ op.pc = "idle"
  /\ call' = [call EXCEPT ![e].st = "holding"]
  /\ op' = [Idle EXCEPT !.pc = "prepare", !.ev = e, !.now = clock]
  /\ UNCHANGED <<clock, mem, files, dirs, faults>>

\* The first record of this process finds no active file.
LoadAbsent ==
  /\ op.pc = "prepare" /\ ~mem.loaded
  /\ Active = NoFile
  /\ Goto("create")
  /\ UNCHANGED <<clock, call, mem, files, dirs, faults>>

\* It finds one that is too large or not strict JSONL, and fails closed.
LoadRejected ==
  /\ op.pc = "prepare" /\ ~mem.loaded
  /\ Active # NoFile
  /\ SizeOf(Active) > SegmentMax \/ ~StrictJsonl(Active)
  /\ Raise
  /\ UNCHANGED faults

LoadExisting ==
  /\ op.pc = "prepare" /\ ~mem.loaded
  /\ Active # NoFile
  /\ SizeOf(Active) <= SegmentMax /\ StrictJsonl(Active)
  /\ mem' = LoadedActive(Active, op.now)
  /\ UNCHANGED <<clock, call, op, files, dirs, faults>>

DecideRotation ==
  /\ op.pc = "prepare" /\ mem.loaded
  /\ Goto(IF ShouldRotate THEN "rotate" ELSE "append")
  /\ UNCHANGED <<clock, call, mem, files, dirs, faults>>

\* os.rename of the active file to its segment name.
Rename ==
  /\ op.pc = "rotate"
  /\ Active # NoFile
  /\ ChangeDir([active |-> NoFile,
                segs |-> Segments \cup {[file |-> Active, stamp |-> SegmentStamp]}])
  /\ Goto("renamed")
  /\ UNCHANGED <<clock, call, mem, files, faults>>

\* The active file an earlier, failed rotation renamed away is not there.
RenameMissing ==
  /\ op.pc = "rotate"
  /\ Active = NoFile
  /\ Raise
  /\ UNCHANGED faults

RenameSync ==
  /\ op.pc = "renamed"
  /\ FsyncParent
  /\ Goto("create")
  /\ UNCHANGED <<clock, call, mem, files, faults>>

\* O_CREAT | O_EXCL: the one writer of the path finds it free here.
CreateFile ==
  /\ op.pc = "create"
  /\ Active = NoFile
  /\ files' = Append(files, [lines |-> <<>>, safe |-> 0])
  /\ ChangeDir([View EXCEPT !.active = Len(files) + 1])
  /\ Goto("createSync")
  /\ UNCHANGED <<clock, call, mem, faults>>

\* Mutant: without _fsync_parent.
CreateSync_WithoutParent ==
  /\ op.pc = "createSync"
  /\ mem' = FreshActive(op.now)
  /\ Goto("append")
  /\ UNCHANGED <<clock, call, files, dirs, faults>>

\* The new file and its directory are synced; only now is it remembered.
CreateSync ==
  /\ op.pc = "createSync"
  /\ FsyncParent
  /\ mem' = FreshActive(op.now)
  /\ Goto("append")
  /\ UNCHANGED <<clock, call, files, faults>>

\* O_APPEND without O_CREAT: nothing to append to.
AppendMissing ==
  /\ op.pc = "append"
  /\ Active = NoFile
  /\ Raise
  /\ UNCHANGED faults

\* os.write takes a part of the payload.
WriteSome ==
  /\ op.pc = "append"
  /\ Active # NoFile
  /\ \E n \in 1..(call[op.ev].len - op.sent) :
       /\ op.sent + n < call[op.ev].len
       /\ files' = WithBytes(Active, op.ev, n, FALSE)
       /\ op' = [op EXCEPT !.sent = @ + n]
  /\ UNCHANGED <<clock, call, mem, dirs, faults>>

\* os.write takes the rest of it.
WriteRest ==
  /\ op.pc = "append"
  /\ Active # NoFile
  /\ files' = WithBytes(Active, op.ev, call[op.ev].len - op.sent, TRUE)
  /\ op' = [op EXCEPT !.sent = call[op.ev].len, !.pc = "appendSync"]
  /\ UNCHANGED <<clock, call, mem, dirs, faults>>

\* Mutant: without os.fsync.
AppendSync_Skipped ==
  /\ op.pc = "appendSync"
  /\ mem' = [mem EXCEPT !.size = @ + call[op.ev].len,
                        !.newest = Larger(@, op.now)]
  /\ Goto("prune")
  /\ UNCHANGED <<clock, call, files, dirs, faults>>

AppendSync ==
  /\ op.pc = "appendSync"
  /\ files' = [files EXCEPT ![Active].safe = Len(Lines(Active))]
  /\ mem' = [mem EXCEPT !.size = @ + call[op.ev].len,
                        !.newest = Larger(@, op.now)]
  /\ Goto("prune")
  /\ UNCHANGED <<clock, call, dirs, faults>>

\* Mutant: an unlink that does nothing is tried again.
PruneOne_Retried ==
  /\ op.pc = "prune"
  /\ Expired # {}
  /\ op' = [op EXCEPT !.deleted = TRUE]
  /\ UNCHANGED <<clock, call, mem, files, dirs, faults>>

\* Expired segments are unlinked in the order of their names.
PruneOne ==
  /\ op.pc = "prune"
  /\ \E s \in Expired :
       /\ \A t \in Expired : s.stamp <= t.stamp
       /\ ChangeDir([View EXCEPT !.segs = @ \ {s}])
  /\ op' = [op EXCEPT !.deleted = TRUE]
  /\ UNCHANGED <<clock, call, mem, files, faults>>

Finish ==
  /\ op.pc = "prune"
  /\ Expired = {}
  /\ IF op.deleted THEN FsyncParent ELSE UNCHANGED dirs
  /\ Release("acked")
  /\ UNCHANGED <<clock, mem, files, faults>>

-----------------------------------------------------------------------------
(* What goes wrong *)

GoesWrong(points) ==
  /\ points \cap Faults # {}
  /\ faults < MaxFaults
  /\ faults' = faults + 1

\* The system call the holder is about to make.
NextSystemCall ==
  CASE op.pc = "create"     -> {"create"}
    [] op.pc = "createSync" -> {"createSync"}
    [] op.pc = "rotate"     -> {"rename"}
    [] op.pc = "renamed"    -> {"renameSync"}
    [] op.pc = "append"     -> {"write"}
    [] op.pc = "appendSync" -> {"appendSync"}
    [] op.pc = "prune"      -> IF Expired # {} THEN {"unlink"}
                               ELSE IF op.deleted THEN {"pruneSync"} ELSE {}
    [] OTHER                -> {}

\* It raises OSError; nothing in record() undoes what was done before.
SystemCallFails ==
  /\ op.pc # "idle"
  /\ GoesWrong(NextSystemCall)
  /\ Raise

\* The callers and the process's memory are gone; a new process starts empty.
LoseProcess ==
  /\ call' = [e \in Events |-> IF call[e].st \in {"waiting", "holding"}
                               THEN [call[e] EXCEPT !.st = "lost"] ELSE call[e]]
  /\ op' = Idle
  /\ mem' = Unloaded
  /\ UNCHANGED clock

Crash ==
  /\ GoesWrong({"crash"})
  /\ LoseProcess
  /\ UNCHANGED <<files, dirs>>

\* What a power loss may leave of a file's lines: the synced ones, any further
\* ones, and possibly a fragment of the next.
Survivals(file) ==
  LET whole(k) == SubSeq(file.lines, 1, k)
      begin(k) == IF k = 0 THEN 0 ELSE file.lines[k].end
      torn(k)  == {Append(whole(k), [file.lines[k + 1] EXCEPT !.end = n, !.kind = "partial"]) :
                     n \in {m \in (begin(k) + 1)..file.lines[k + 1].end :
                              m < file.lines[k + 1].end}}
      cuts     == file.safe..Len(file.lines)
  IN  {whole(k) : k \in cuts} \cup UNION {torn(k) : k \in cuts \ {Len(file.lines)}}

\* The directory reverts to its durable view or to one of the later ones: the
\* file system journals directory changes in order.
PowerLoss ==
  /\ GoesWrong({"power"})
  /\ LoseProcess
  /\ \E i \in 1..Len(dirs) : dirs' = <<dirs[i]>>
  /\ \E left \in {l \in [FileIds -> UNION {Survivals(files[f]) : f \in FileIds}] :
                    \A f \in FileIds : l[f] \in Survivals(files[f])} :
       files' = [f \in FileIds |-> [lines |-> left[f], safe |-> Len(left[f])]]

-----------------------------------------------------------------------------
Tick ==
  /\ clock < MaxClock
  /\ clock' = clock + 1
  /\ UNCHANGED <<call, op, mem, files, dirs, faults>>

\* Every event was submitted and every call is over: there is nothing to do.
Rest ==
  /\ clock = MaxClock
  /\ \A e \in Events : call[e].st \in {"acked", "failed", "lost"}
  /\ UNCHANGED vars

HolderStep ==
  \/ LoadAbsent \/ LoadRejected \/ LoadExisting \/ DecideRotation
  \/ Rename \/ RenameMissing \/ RenameSync \/ CreateFile \/ CreateSync
  \/ AppendMissing \/ WriteSome \/ WriteRest \/ AppendSync
  \/ PruneOne \/ Finish

Next ==
  \/ \E e \in Events : Submit(e) \/ Acquire(e)
  \/ HolderStep
  \/ SystemCallFails \/ Crash \/ PowerLoss
  \/ Tick
  \/ Rest

Spec == Init /\ [][Next]_vars

\* A thread that holds the lock keeps running, and a released lock is taken by
\* one of the threads that wait for it.
FairSpec == Spec /\ WF_vars(HolderStep) /\ WF_vars(\E e \in Events : Acquire(e))

-----------------------------------------------------------------------------
(* Properties *)

Line == [ev: Events, end: Nat \ {0}, at: Nat,
         kind: {"event", "partial", "torn", "bad"}]
DirView == [active: Nat, segs: SUBSET [file: Nat, stamp: Nat]]

\* Every variable holds values of its kind, and every name in the directory
\* is that of a file (JsonlAuditLogger's fields and the files it keeps).
TypeOK ==
  /\ clock \in Nat
  /\ call \in [Events -> [st: {"new", "waiting", "holding", "acked", "failed", "lost"},
                          ts: Nat, len: 1..MaxLine]]
  /\ op \in [pc: PCs, ev: Events \cup {NoEvent}, now: Nat, sent: Nat, deleted: BOOLEAN]
  /\ mem \in [loaded: BOOLEAN, started: Nat, newest: Nat, size: Nat]
  /\ files \in Seq([lines: Seq(Line), safe: Nat])
  /\ dirs \in Seq(DirView) /\ dirs # <<>>
  /\ \A i \in 1..Len(dirs) : Linked(dirs[i]) \subseteq FileIds
  /\ faults \in Nat

\* The events a reader of the log finds.
Readable == {e \in Events :
               \E f \in Linked(View) : \E i \in 1..Len(Lines(f)) :
                 Lines(f)[i].ev = e /\ Lines(f)[i].kind = "event"}

\* "Redact and durably append one event": once record() returned, the event can
\* be read back until its retention is over, whatever crashed since.
AckedKept ==
  \A e \in Events :
    call[e].st = "acked" /\ call[e].ts + Retention >= clock => e \in Readable

\* The log is strict JSONL but for the tail a crash leaves in the last file
\* written: closed segments hold whole events only, and nothing follows a
\* malformed line, since a logger that finds one appends nothing.
OnlyTailMalformed ==
  \A f \in Linked(View) : \A i \in 1..Len(Lines(f)) :
    Lines(f)[i].kind # "event" => f = Active /\ i = Len(Lines(f))

\* The active file and every segment stay within segment_max_bytes.
BoundedSegments == \A f \in Linked(View) : SizeOf(f) <= SegmentMax

\* Rotation is daily: no file mixes events appended on two days, whatever
\* day the process that loads the file finds in it.
OneDayPerFile ==
  \A f \in Linked(View) : \A i, j \in 1..Len(Lines(f)) :
    Day(Lines(f)[i].at) = Day(Lines(f)[j].at)

\* What the logger remembers is what the disk holds: a mistaken size would break
\* the bound, a mistaken newest time the retention.
MemoryAgrees ==
  mem.loaded /\ op.pc = "idle" =>
    /\ Active # NoFile
    /\ mem.size = SizeOf(Active)
    /\ \A i \in 1..Len(Lines(Active)) : call[Lines(Active)[i].ev].ts <= mem.newest

\* Retention is enforced by every record() that returns: a file is left only if
\* something was appended to it within the retention period.
RetentionEnforced ==
  [][\A e \in Events :
       call[e].st = "holding" /\ call'[e].st = "acked" =>
         \A f \in Linked(View)' :
           \E i \in 1..Len(Lines(f)) : Lines(f)[i].at + Retention >= op.now]_vars

\* Every record() call that waits for the lock returns or raises, unless its
\* process dies: no failure on the way leaves the lock taken.
EveryCallReturns ==
  \A e \in Events :
    call[e].st = "waiting" ~> call[e].st \in {"acked", "failed", "lost"}

\* The promise of record(), as AuditLedger states it.
Ledger == INSTANCE AuditLedger WITH
  status <- [e \in Events |-> IF call[e].st = "holding" THEN "waiting" ELSE call[e].st],
  ts     <- [e \in Events |-> call[e].ts],
  stored <- Readable

LedgerSpec == Ledger!Spec
=============================================================================
