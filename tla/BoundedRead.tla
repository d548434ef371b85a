---------------------------- MODULE BoundedRead ----------------------------
(***************************************************************************)
(* How the tools read one file that others may write, replace or remove    *)
(* meanwhile.  Four protocols, one system call at a time:                  *)
(*                                                                         *)
(*   "text"        stat, then read all of it (the filesystem and log tools)*)
(*   "metadata"    stat, open, fstat, read, stat again                     *)
(*                 (read_bounded_regular_file of the environment auditor)  *)
(*   "descriptor"  open, fstat, read (read_without_following)              *)
(*   "resolved"    stat, open, fstat, read (read_resolved_fallback)        *)
(*                                                                         *)
(* A byte is the number of the change that wrote it, so that contents are  *)
(* equal only when they are the same.  Who may read which path is not this *)
(* module's business: path is a name the policy allows.                    *)
(***************************************************************************)
EXTENDS Naturals, Sequences

CONSTANTS
  Protocols,    \* those of this run
  Limit,        \* max_file_bytes, or what is left of a budget
  MaxLength,    \* bound: no file grows beyond it
  MaxChanges    \* bound: how often the world changes

ASSUME ProtocolAssumption ==
  Protocols \subseteq {"text", "metadata", "descriptor", "resolved"}
ASSUME LimitAssumption == Limit \in Nat /\ MaxLength \in Nat /\ MaxChanges \in Nat

VARIABLES
  files,   \* every file ever created; its number stands for device and inode
  path,    \* the file the path names
  now,     \* how often the world changed, which is also the time
  call     \* the read

vars == <<files, path, now, call>>

NoFile == 0
FileIds == 1..Len(files)

Stat(f) == [id |-> f, size |-> Len(files[f].data), mtime |-> files[f].mtime]
NoStat == [id |-> NoFile, size |-> 0, mtime |-> 0]

Named == files[path]
Opened == files[call.fd]

Init ==
  /\ \E n \in 0..MaxLength, regular \in BOOLEAN, links \in {1, 2} :
       files = <<[data |-> [i \in 1..n |-> 0], mtime |-> 0,
                  regular |-> regular, links |-> links]>>
  /\ path \in {NoFile, 1}
  /\ now = 0
  /\ \E how \in Protocols :
       call = [how |-> how, pc |-> IF how = "descriptor" THEN "open" ELSE "stat",
               before |-> NoStat, fd |-> NoFile, payload |-> <<>>, calm |-> TRUE]

-----------------------------------------------------------------------------
(* The read *)

Goto(pc) == call' = [call EXCEPT !.pc = pc]
Quiet == UNCHANGED <<files, path, now>>

\* The name is gone when a system call needs it.
Missing ==
  /\ call.pc \in {"stat", "size", "open", "verify"}
  /\ path = NoFile
  /\ Goto("refused")
  /\ Quiet

\* file_path.is_file(), and then file_path.stat().st_size.
IsFileText ==
  /\ call.how = "text" /\ call.pc = "stat"
  /\ path # NoFile
  /\ Goto(IF Named.regular THEN "size" ELSE "refused")
  /\ Quiet

SizeText ==
  /\ call.pc = "size"
  /\ path # NoFile
  /\ Goto(IF Len(Named.data) > Limit THEN "over" ELSE "open")
  /\ Quiet

StatMetadata ==
  /\ call.how = "metadata" /\ call.pc = "stat"
  /\ path # NoFile
  /\ call' = [call EXCEPT !.before = Stat(path),
                          !.pc = IF ~Named.regular THEN "refused"
                                 ELSE IF Len(Named.data) > Limit THEN "over" ELSE "open"]
  /\ Quiet

StatResolved ==
  /\ call.how = "resolved" /\ call.pc = "stat"
  /\ path # NoFile
  /\ call' = [call EXCEPT !.before = Stat(path),
                          !.pc = IF Named.regular /\ Named.links = 1 THEN "open" ELSE "refused"]
  /\ Quiet

\* read_text opens and reads; every other protocol looks at what it opened.
OpenFile ==
  /\ call.pc = "open"
  /\ path # NoFile
  /\ call' = [call EXCEPT !.fd = path,
                          !.pc = IF call.how = "text" THEN "read" ELSE "fstat"]
  /\ Quiet

FstatMetadata ==
  /\ call.how = "metadata" /\ call.pc = "fstat"
  /\ Goto(IF ~Opened.regular \/ Stat(call.fd) # call.before THEN "refused"
          ELSE IF Len(Opened.data) > Limit THEN "over" ELSE "read")
  /\ Quiet

\* Mutant: a name that moved to another file is read all the same.
FstatResolved_Unchecked ==
  /\ call.how = "resolved" /\ call.pc = "fstat"
  /\ Goto("descriptor")
  /\ Quiet

\* The same file as before, the name still resolves, and the system says that
\* this is the name of what is open.
FstatResolved ==
  /\ call.how = "resolved" /\ call.pc = "fstat"
  /\ Goto(IF call.fd = call.before.id /\ path = call.fd THEN "descriptor" ELSE "refused")
  /\ Quiet

\* read_checked_fd.
FstatDescriptor ==
  /\ call.pc = IF call.how = "descriptor" THEN "fstat" ELSE "descriptor"
  /\ Goto(IF ~Opened.regular \/ Opened.links # 1 THEN "refused"
          ELSE IF Len(Opened.data) > Limit THEN "over" ELSE "read")
  /\ Quiet

Length == Len(call.payload)
AtEnd == Length >= Len(Opened.data)

\* A loop asks for one byte more than it takes; read_text for everything.
Remaining ==
  IF call.how = "text" THEN Len(Opened.data) - Length ELSE Limit + 1 - Length

\* One os.read: some of the next bytes, at most what is asked for.
ReadSome ==
  /\ call.pc = "read"
  /\ \E n \in 1..Remaining :
       /\ Length + n <= Len(Opened.data)
       /\ call' = [call EXCEPT !.payload =
                     @ \o SubSeq(Opened.data, Length + 1, Length + n)]
  /\ Quiet

\* Mutants: a file of exactly the limit is too long; nobody counts what came.
ReadEnd_LimitIsOver ==
  /\ call.pc = "read"
  /\ AtEnd \/ Remaining = 0
  /\ Goto(IF call.how # "text" /\ Length >= Limit THEN "over"
          ELSE IF call.how = "metadata" THEN "verify" ELSE "done")
  /\ Quiet

ReadEnd_Uncounted ==
  /\ call.pc = "read"
  /\ AtEnd \/ Remaining = 0
  /\ Goto(IF call.how = "metadata" THEN "verify" ELSE "done")
  /\ Quiet

\* The end of the file, or of what was asked for.
ReadEnd ==
  /\ call.pc = "read"
  /\ AtEnd \/ Remaining = 0
  /\ Goto(IF call.how # "text" /\ Length > Limit THEN "over"
          ELSE IF call.how = "metadata" THEN "verify" ELSE "done")
  /\ Quiet

\* Mutant: the second stat looks at the size only.
Verify_SizeOnly ==
  /\ call.pc = "verify"
  /\ path # NoFile
  /\ Goto(IF Stat(path).size = call.before.size THEN "done" ELSE "refused")
  /\ Quiet

Verify ==
  /\ call.pc = "verify"
  /\ path # NoFile
  /\ Goto(IF Stat(path) = call.before THEN "done" ELSE "refused")
  /\ Quiet

Over == {"done", "over", "refused"}

Rest == call.pc \in Over /\ UNCHANGED vars

-----------------------------------------------------------------------------
(* The others *)

Change ==
  /\ now < MaxChanges
  /\ now' = now + 1
  /\ call' = [call EXCEPT !.calm = FALSE]

\* Writing in place sets the time of the file: no two changes share one.
Write(f, data) ==
  /\ Change
  /\ files' = [files EXCEPT ![f].data = data, ![f].mtime = now + 1]
  /\ UNCHANGED path

AppendTo(f) ==
  \E n \in 1..(MaxLength - Len(files[f].data)) :
    Write(f, files[f].data \o [i \in 1..n |-> now + 1])

Overwrite(f) ==
  \E i \in 1..Len(files[f].data) : Write(f, [files[f].data EXCEPT ![i] = now + 1])

Truncate(f) ==
  \E n \in 0..(Len(files[f].data) - 1) : Write(f, SubSeq(files[f].data, 1, n))

\* Another file is renamed over the path; it may carry any earlier time.
Replace ==
  /\ Change
  /\ \E n \in 0..MaxLength, time \in 0..(now + 1), regular \in BOOLEAN :
       files' = Append(files, [data |-> [i \in 1..n |-> now + 1], mtime |-> time,
                               regular |-> regular, links |-> 1])
  /\ path' = Len(files) + 1

Remove ==
  /\ Change
  /\ path # NoFile
  /\ path' = NoFile
  /\ UNCHANGED files

\* A file renamed away, or kept by another name, comes back.
PutBack(f) ==
  /\ Change
  /\ path # f
  /\ path' = f
  /\ UNCHANGED files

\* A second name is made or removed; this leaves the time of the content.
Relink(f) ==
  /\ Change
  /\ files' = [files EXCEPT ![f].links = 3 - @]
  /\ UNCHANGED path

World ==
  \/ \E f \in FileIds :
       AppendTo(f) \/ Overwrite(f) \/ Truncate(f) \/ PutBack(f) \/ Relink(f)
  \/ Replace \/ Remove

Read ==
  \/ Missing \/ IsFileText \/ SizeText \/ StatMetadata \/ StatResolved \/ OpenFile
  \/ FstatMetadata \/ FstatResolved \/ FstatDescriptor
  \/ ReadSome \/ ReadEnd \/ Verify

Next == Read \/ World \/ Rest

Spec == Init /\ [][Next]_vars

-----------------------------------------------------------------------------
(* Properties *)

PCs == {"stat", "size", "open", "fstat", "descriptor", "read", "verify"} \cup Over

File == [data: Seq(Nat), mtime: Nat, regular: BOOLEAN, links: {1, 2}]
StatResult == [id: Nat, size: Nat, mtime: Nat]

\* Every variable holds values of its kind, and a call past its open has opened
\* a file (the locals of the four read functions).
TypeOK ==
  /\ files \in Seq(File)
  /\ path \in FileIds \cup {NoFile}
  /\ now \in Nat
  /\ call \in [how: Protocols, pc: PCs, before: StatResult, fd: FileIds \cup {NoFile},
               payload: Seq(Nat), calm: BOOLEAN]
  /\ call.pc \in {"fstat", "descriptor", "read", "verify"} => call.fd \in FileIds

\* The readers that count never hold more than one byte over the limit and
\* never return more than the limit, however the file grows while it is read.
ReadsBounded ==
  call.how # "text" =>
    /\ Length <= Limit + 1
    /\ call.pc \in {"verify", "done"} => Length <= Limit

\* What read_bounded_regular_file returns is what the path holds, whole, at the
\* moment it returns: never a mixture of two versions, nor another file's bytes.
ReturnsWholeFile ==
  [][(call.how = "metadata" /\ call.pc = "verify" /\ call'.pc = "done") =>
       path # NoFile /\ Named.regular /\ call.payload = Named.data]_vars

Prefix(p, d) == Len(p) <= Len(d) /\ \A i \in 1..Len(p) : p[i] = d[i]

\* The fallback (read_resolved_fallback) returns the bytes of the file it examined
\* before the open: as long as nobody wrote that file, what is read is how it
\* begins, and what is returned is all of it, whatever was renamed over the name,
\* removed from it or put back under it between its system calls.
ResolvedReadsExamined ==
  call.how = "resolved" /\ call.pc \in {"read", "done"} =>
    /\ call.before.id \in FileIds
    /\ files[call.before.id].mtime = call.before.mtime =>
         /\ Prefix(call.payload, files[call.before.id].data)
         /\ call.pc = "done" => call.payload = files[call.before.id].data

\* A file nobody touches is read exactly: whole if it is within the limit,
\* reported over it if not, and refused only for what it is.
QuietReadExact ==
  call.calm =>
    /\ call.pc = "done" => path # NoFile /\ call.payload = Named.data /\ Length <= Limit
    /\ call.pc = "over" => path # NoFile /\ Len(Named.data) > Limit
    /\ call.pc = "refused" =>
         \/ path = NoFile \/ ~Named.regular
         \/ call.how \in {"descriptor", "resolved"} /\ Named.links # 1

\* "File reads stop at 240,000 bytes" (README.md), for the tools that stat a
\* file and then read all of it.
TextBounded == call.how = "text" => Length <= Limit
=============================================================================
