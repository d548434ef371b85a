# TLA+ verification of Local MCP Toolbox

Local MCP Toolbox is a local, read-only MCP server. Clients ask it to inspect files, logs, Git
repositories, Python environments, containers and agent configurations; it answers through a
pipeline of policy, redaction, limits, audit and metrics. This directory holds TLA+ models of the
program under `src/mcp_toolbox`, the TLC configurations that check them on small instances, and
proofs checked by TLAPS. `PROJECT.json` maps every definition to the lines it models.

All source paths below are relative to `src/src/mcp_toolbox`.

## 1. The system

### Components, their state and operations

| Component | State | Operations | What makes it correct |
| --- | --- | --- | --- |
| Audit log (`audit/logger.py`) | active file, closed segments, `_active_started_at`, `_active_newest_at`, `_active_size`, a lock | `record`, and inside it load, create, rotate, append, prune | What `record` acknowledged stays readable until its retention is over; files are strict JSONL, bounded, one day each; a failure leaves the logger usable |
| Audit middleware (`server/audit_middleware.py`) | locals of one request | `__call__` around the SDK's handler | Nothing is answered that is not audited; the event tells what the client was told |
| Call dispatch (`server/app.py`) | registration only | `_handle_call_tool` | An expected failure keeps its category, however the SDK chains exceptions |
| Metrics (`metrics/registry.py`) | counters under a lock | `record`, `snapshot` | Counters agree with each other and with the audited requests |
| Response limits (`tools/common.py`) | none | `bounded_response`, `require_bounded_limit` | Redact, escape, then measure what is sent |
| HTTP guard (`server/http_auth.py`) | a digest | header check, token check | One well-formed header or 401, before the SDK sees the request |
| Permissions (`permissions/service.py`) | resolved roots, patterns | `check_*`, `require_*` | What is allowed lies under a root and matches no blocked name |
| Filesystem and log tools | none | list a page, metadata, read text, tail, search, summarise | Pages cover a listing once; limits hold for files that change |
| Safe reader, agent-configuration auditor, Bandit scanning (`tools/security`) | budgets and counters of one call; a private copy | walk, read within a budget, account for every file | Every discovered file is scanned or counted as withheld; budgets hold |
| Python environment auditor (`tools/environment`) | `_ScanState` of one call | bounded reads with identity checks, inventory, requirement evaluation | No false claim of a missing dependency from incomplete evidence |
| Git runner and snapshot (`tools/git`) | fingerprints, descriptors, a private copy, a deadline | check, pin, run, check again; copy | Output comes from the repository that was checked, or is discarded |
| Docker, GitHub, incident, infrastructure, system tools | none | one bounded query each | Redact before cutting; bounded responses |
| Redaction, detectors | compiled rules | rewrite texts and data; match rules, also across continued lines | Nothing secret is left and lines keep their numbers; each finding is where the text is, once |
| Settings, command line | none | validate configuration; dispatch | Declarative; see "Not modelled" |

### How they interact

A request enters the SDK's event loop and passes `AuditMiddleware`, which awaits the handler. A
tool call goes through `_handle_call_tool` to a tool function, which asks the permission service,
reads the outside world within limits, and returns through `bounded_response`, where the
redactor runs. Back in the middleware the `finally` block calls `JsonlAuditLogger.record` and then
`MetricsRegistry.record`; only then does the reply (or the exception) reach the client. The audit
log, the metrics and the redactor are shared by all requests; everything else is per call.

### Hard behaviours

* Durability: each `record` is a dozen system calls, any of which may fail, and the process or the
  machine may stop between any two of them.
* Order: events are stamped before the lock and appended after it; results, exceptions and
  cancellation reach the `finally` block on different paths.
* A world that changes: files, directories, repositories and environments are read in several
  steps while others write them.
* Budgets: bytes, entries, depth and time are counted across loops and nested calls.

The full list, with lines, is `hazards` in `PROJECT.json`.

## 2. The modules

| Module | What it is |
| --- | --- |
| `AuditLedger` | Abstract: what `record` promises, without files |
| `AuditLog` | The logger, one action per system call or decision |
| `AuditLogProofs` | Theorems about `AuditLog`: types, what was acknowledged, the form of the files |
| `AuditRotationProofs` | Theorems about what it remembers, rotates and deletes, and that it implements `AuditLedger` |
| `MCAuditLog` | Values for TLC |
| `RequestPipeline` | Middleware, dispatch and metrics over `AuditLedger` |
| `RequestPipelineProofs` | Theorems about `RequestPipeline` |
| `MCRequestPipeline` | Values for TLC |
| `BoundedRead` | Reads of one file that others change, in the four ways the tools do it |
| `BoundedReadProofs` | Theorems about `BoundedRead` |
| `MCBoundedRead` | Values for TLC |
| `GitRunner` | One Git command over a repository that others change |
| `GitRunnerProofs` | Theorems about `GitRunner` |
| `MCGitRunner` | Values for TLC |
| `ScanTree` | A directory tree that others change, and the helpers of `safe_reader.py` that look at it |
| `AgentScan` | The agent-configuration auditor: target, walk, budgets, counters |
| `BanditScan` | The private copy that Bandit scans, and its findings mapped back |
| `GitSnapshot` | The private copy of a repository that Git is given where descriptors have no paths |
| `DirectoryPages` | A client that pages through a directory |
| `EnvMetadata` | What `pyvenv.cfg`, METADATA and requirements say: pure operators |
| `EnvInspection` | The Python environment auditor, while an installer changes the environment |
| `TreeTools`, `MCTreeTools` | The five tools above over one world each; values for TLC |
| `SumTheorems` | Lemmas about sums over finite sets, for the budgets |
| `TreeToolsProofs` | Theorems about the five tools |
| `TreeReportsProofs` | That their reports on what nobody touches are exact |
| `ToolCall` | A question, and the answer computed from it |
| `GitOutput` | What Git prints, and the parsers of it |
| `LogEvidence` | Redaction of text, and the log, incident and container-log tools |
| `Responses` | Redaction, escaping and limits of structured data; Docker and GitHub lists |
| `AgentText` | The findings in the text of one agent file |
| `McpConfig` | The findings in one MCP configuration |
| `ToolAnswers`, `MCToolAnswers` | The five modules above together; values for TLC |

### AuditLog

`call[e]` is the state of the `record(event)` call of event `e` (`new`, `waiting` for the lock,
`holding` it, and then `acked`, `failed` or `lost` with its process); `op` is the call inside
`with self._lock`, with the place it has reached; `mem` is what the process remembers. The disk
is `files` (every file ever created: its lines and how many of them are synced) and `dirs`, the
history of directory contents since the last directory sync: the first is durable, the last is
what the process sees. A line records its event, where it ends, and whether it is an `event`, a
`partial` line, a `torn` one (a fragment behind another's fragment) or a `bad` one (a whole line
that does not parse).

| Action | Code |
| --- | --- |
| `Submit` | stamping, redaction, serialisation before the lock (76-95) |
| `Acquire`, `Release` | the `with` block (96-104) |
| `LoadAbsent`, `LoadRejected`, `LoadExisting` | `_load_or_create_active` (133-147) |
| `DecideRotation` | `_prepare_active` (121-131) |
| `Rename`, `RenameMissing`, `RenameSync` | `_rotate_active` (174-182) |
| `CreateFile`, `CreateSync` | `_create_active` and the state set after it (149-157, 136-138, 183-185) |
| `WriteSome`, `WriteRest`, `AppendMissing` | the write loop (159-169) |
| `AppendSync` | `os.fsync` and the bookkeeping (170, 101-102) |
| `PruneOne`, `Finish` | `_prune_expired_segments` (187-196) |
| `SystemCallFails`, `Crash`, `PowerLoss` | an `OSError` at the next system call; the process ends; so does the machine |

Abstractions: time is a tick, a day `TicksPerDay` of them; a line's length is between 1 and
`MaxLine`; `os.write` takes any positive part. Assumptions about what is not in the repository:
one writer per audit path (`docs/release-1.5.md`), a clock that does not go back, a file system
that journals directory changes in order and loses any unsynced suffix of a file, and a parent
directory that is there and durable. The uuid in a segment's name is modelled by the file's identity.

### AuditLedger

Five actions say all that a caller may rely on: a submitted event is stored at some moment and
then acknowledged; a failed call may or may not have stored it; only what is out of retention is
removed; a restart loses nothing acknowledged. `AuditLog!LedgerSpec` is the refinement: a waiting
or holding call maps to a waiting one and the stored events are those a reader of the directory
can parse.

### RequestPipeline

`req[r]` follows a request from arrival to reply; `loop` is the request whose `finally` block has
the event loop, since middleware code between two awaits is not interrupted; `lock` is the lock of
`MetricsRegistry`; the audit log is an instance of `AuditLedger` with requests as events, so the
promise checked for `AuditLog` is what the pipeline relies on. `HandleCallTool` maps a chain of
exceptions to an error result; `EventOf` is the middleware's choice of status, category and
decision. Tools run beside the loop (`HandlerReturns`, `HandlerRaises`, and `SnapshotCount`/`SnapshotLabels` for
`toolbox_metrics_snapshot`), requests may be cancelled, the audit may raise before or after it
stored, and the process may be restarted, which resets the metrics.

Left out: durations, the content of the input summary, the client identifier.

### BoundedRead

`call` is one read: its protocol (`how`), the place it has reached, what the first `stat` said
(`before`), what it opened (`fd`), what it has read, and whether the world stood still since it
began (`calm`, which the code does not have). `path` is the file the authorized path names and
`files` are all files there ever were; a byte is the number of the change that wrote it, so two
contents are equal only when they are the same. The actions are the system calls of the four
protocols; each `os.read` returns any non-empty part of what was asked for.

| Protocol | Code |
| --- | --- |
| `text` | `filesystem_read_text_file`, `_read_log_file`: `is_file`, `stat`, read to the end |
| `metadata` | `read_bounded_regular_file`: `stat`, `open`, `fstat`, read, `stat` |
| `descriptor` | `read_without_following`: `open`, `fstat`, read |
| `resolved` | `read_resolved_fallback`: `stat`, `open`, `fstat` and real name, then as `descriptor` |

The world may at any step append to, overwrite or truncate any file, replace the path by a new
file (with any earlier modification time, as a copy may have), remove it, put an earlier file
back, or add and remove a second link. Assumed of it: writing in place gives a file a
modification time it never had (two writes within the clock's granularity would not), and an
inode number is not reused during a call. `ResolvedReadsExamined` is about the bytes: while nobody
writes the file that was stat'ed first, what `read_resolved_fallback` returns is that file, whatever
was put in its place between the stat and the open. `docs/environment-auditor.md` says itself that the
checks "reduce but cannot eliminate every kernel-level race". Left out: which paths the policy
allows, links in the path, and opens that block.

### GitRunner

`repo` is what there is on disk: for each object store the stores its alternates file lists and
the number of its loose objects, which parts are links, hold one or are missing, and the stamp of
each part. A part is an object store or the refs; a change by someone else gives it a stamp it
never had, as it gives directories and files a new ctime. `call` is `_run_checked` with the place
it has reached; `read` is what Git read, and `begun` the repository when Git was started (the code
has neither).

| Action | Code (`tools/git/handlers.py`) |
| --- | --- |
| `Examine`, `ExamineRefused`, `InitialStoreRefused`, `ExaminedEntries`, `ExaminedStores` | `_require_self_contained_git_dir`, `_refuse_nested_symlinks` (308-366, 476-556) |
| `Visit`, `VisitSeen`, `VisitTooMany`, `VisitStrayed`, `VisitRefused`, `Walked` | `_walk_alternate_stores`, `_read_alternates_targets` (396-473) |
| `Stamp`, `StampLinked` | `_git_dir_fingerprint` (732-790) |
| `FirstFingerprint`, `SecondFingerprint`, `LastFingerprint`, `FingerprintDiffers` | the three fingerprints (109, 114, 164) |
| `OpenStore`, `OpenFails`, `OpenTooMany`, `ViewBuilt` | `_pinned_object_view` and what it calls (613-722) |
| `NoGit`, `FiltersRefused`, `NotStarted`, `StartGit`, `GitExits`, `GitTimesOut`, `Judge` | the rest of `_run_checked` (96-178) |
| `GitReads` | the Git program: of a store that was replaced it sees what the descriptor holds, of anything else what is there |
| `Others` | programs that rewrite a part, add a loose object, change an alternates file, plant or remove a link, remove or create a store |

An alternates file may list a name that is a link. `_read_alternates_targets` resolves it before it
looks for links (461-471), so that a name that leads to another store of the repository is followed
under its real path, and only one that leads out is refused; `Resolved` is that, `Leads` says where
each name leads when it is one. A link found elsewhere (`.git/objects` and `.git/refs` themselves, or
an entry of a store) is refused. A name that becomes a link out only while it waits to be visited is
not looked at by the walk (`VisitStrayed`, "strayed"): the model says only that such a call is not answered.

Abstractions: each part is examined, visited, stamped and opened in one step, where the code takes one
system call per entry; a link does not lead to another one, and `.git/objects` only out; the many refusals of the check are one outcome for links and special files
and one for alternates. Left out: HEAD, packed-refs, `commondir` and the alternates files as the
fingerprint compares them (by content), configuration and index (which it does not look at), the
environment given to Git, failures of the toolbox's own storage while the view is built (reported
as a change). The private snapshot of macOS and Windows is `GitSnapshot`.

### ScanTree and the tools that walk trees

`tree` says what is at each of a few paths: nothing, a file and its size, a file with two names, a
directory, a directory that may not be entered, a link, or something else. `Others` puts something
else at a path between any two steps of a tool, `Fault` makes one of its system calls fail;
`touched` (which the code does not have) remembers where. A file that grows while it is read is
the subject of `BoundedRead`; here a read is one step, with its budget. The properties are of two
kinds. Whatever changes, what was left in its place must be in the report, unless the report says
that it is truncated (`MissesNothing`), and what is counted must add up (`AddsUp`). If nothing changes, the
report is exactly what is in the tree (`QuietExact`), which also tells the limits from what is one
beyond them. Each is the conjunction of one property per tool, stated in the tool's module;
`PagesExact` and `MissingWasAbsent` are about one tool each. `PagesExact` takes names that differ by
more than case: the code sorts by `name.lower()` and leaves others in the order of the listing, which
two calls need not share. Of a directory that changes between pages it says nothing (an entry may be
skipped or shown twice); that the pages come to an end even then is part of `AddsUp`.

| Module | State | Steps and their code |
| --- | --- | --- |
| `AgentScan` | `scan`: the locals of `audit_agent_configs` and of the walk | `AgentPolicy` to `AgentReadTarget`: the target (129-245); `AgentOpen` to `AgentDescend`: `walk_safe_directory`, by descriptors; `AgentChoose`, `AgentRead`, `AgentReport` (247-350) |
| `BanditScan` | `bandit`: the walk of `_snapshot_authorized_sources`, its copy and its counts | `BanditList`, `BanditDescend`: `os.walk`; `BanditSkip`, `BanditCopy`, `BanditWriteFails`: `_copy_if_authorized`; `BanditFails`, `BanditReports`: Bandit and the mapping of its findings |
| `GitSnapshot` | `snap`: the copy loop of `private_repository_snapshot` | `SnapPop`, `SnapScan`, `SnapEntry`, `SnapFile`, `SnapNext`: the loop (64-108); `SnapLate`: the deadline passes; `SnapFails`: a failing call; `SnapConfig`: `_validate_snapshot_config` |
| `DirectoryPages` | `pages`: a client's walk, and the call under way | `PagesCall` to `PagesScanned`: `_safe_directory_entries`; `PagesAnswer`: the page and `next_offset` |
| `EnvInspection` | `env`, the environment; `audit`, the locals of `inspect` | one step for each time the code looks at the environment: identity, configuration, sites, listing and its check, entries, METADATA, identity again; `Assess`, `Report` |

`TreeTools` starts one call of one tool. They share no state that one of them writes, so that two
at once are no more than one tool and more changes.

Abstractions: names and bytes are not kept, only paths and sizes; a blocked pattern is a set of
paths; a file's findings in `AgentScan` are as many as its bytes, those of Bandit one for each
file copied and some for files that were not. In `EnvMetadata` a requirement names a package, the
versions it allows and what stands in the way of evaluating it; `packaging` does the rest.
An `Installer` changes sites, entries and the environment's identity in one step per change and,
as file systems do, gives a changed site a stamp it never had. Left out: the walk by paths that
stands in for descriptors on Windows.

### ToolCall and the tools that answer from one reading

A tool that reads what it needs in one piece is a function of it. `question` is a tool and all it
reads, `answer` what the code makes of it; the initial states are all small questions, so that TLC
checks the function over all of them. Each property says the same in another way, mostly
position by position in the input, where the code goes through it with a state.

* `GitOutput` writes what Git prints for a described branch, working tree, history or index, and
  parses it as the code does; `GitAnswersExact` (`StatusExact`, `CommitsInOrder`, `DiffExact`) compares
  the answer with the description. A message may hold the separators; a path may look like a status.
* `LogEvidence` redacts a text of symbols, and cuts, numbers and groups its lines. A line ends at a
  newline or at another separator that `str.splitlines` knows (`Separator`: 0x0b, 0x0c, 0x1c to 0x1e,
  0x85, U+2028, U+2029; a carriage return in a file is a newline once it was read as text). The three kinds
  of secret differ in what they do to lines. A private key becomes a marker and its newlines, without its
  other separators (`RedactKeys`). A value of one line (`S` followed by `T`, which neither is alone)
  may hold separators, which are lost, but no newline (`RedactValues`). An element whose tag says that it
  holds a secret is replaced with all the line ends in it (`RedactElements`). The properties say for each
  symbol of the file what may be shown of it (`Shown`), number the lines of that, and find each
  reported line among them. Times are of three kinds: `_TIMESTAMP_PATTERN` recognizes all,
  `_TIMESTAMP_REPLACEMENT` takes out the first, leaves the offset of the second and does not know the
  third (syslog); `SameEvidence` follows it. The log of a container may begin inside a key.
* `Responses` does the same for trees of data: `ResponseIsTheData` reads the response back, unescaped,
  place by place; `ResponsesFit` measures what is sent. `ServiceListsHonest` covers the lists of
  containers, issues and pull requests: no failure is an empty list.
* `AgentText` joins continued lines in the code's three ways and looks for a phrase of two words, a
  single word, comments and invisible characters; `AgentFindingsExact` describes where they are in
  the text by positions only.
* `McpConfig` takes the arguments of package runners apart and gives findings their lines by looking
  for quoted names. Of `McpFindingsExact`, `PackagesArePinned` reads the options as they are meant, and
  `FindingsAtTheirLines` knows where each setting was written.

A regular expression is what it tells apart, not its text: severities, stamps, secrets and pins are
given. The infrastructure tools and the fields selected from Docker's and GitHub's replies are left
out.

## 3. The runs

| Run | Question | Bounds |
| --- | --- | --- |
| `audit_stops` | Does a crash or a power loss at any step cost an acknowledged event, a rule of the files or the promise of `AuditLedger`; are the syncs of `record` enough? | 3 events, 2 ticks a day over 5 ticks, 1 stop |
| `audit_rotation_faults` | What does a rotation or a retention that fails half way leave? | 3 events, 5 ticks, 2 faults |
| `audit_returns` | Does every call return? | 2 events, 4 ticks, 2 faults of any kind but power |
| `pipeline_requests` | Is everything answered audited, truthfully; do the counters agree with the log and with each other; is every request answered? | 2 requests, 8 exception chains, 2 ticks, 1 restart |
| `read_changing` | What does a read of a changing file return? | limit 2, files up to 4 bytes, 2 changes at any step |
| `git_calls` | Is Git's output that of one version of the repository; does the walk of the alternates find all stores and end; does each refusal have its reason? | 3 stores, 2 of which may be used, 4 visits, 1 loose object, 2 reads; 3,456 repositories left alone, 2 that are changed once or twice |
| `tree_tools` | What do the five tools that walk directories report of a tree that changes, and of one that does not? | 6 paths, 2,400 trees left alone and one changed twice; 11 calls of the tools; 3,024 environments left alone and one under 6 changes in any order |
| `tool_answers` | Is each answer of the tools that read in one piece what its input says? | some 104,000 questions: logs of up to 4 lines, texts of up to 7 symbols, up to 3 commits, changes, containers and options, 2 keys, 2 servers |

The type invariants of `AuditLog`, `BoundedRead` and `GitRunner` are proved for every instance and not
checked again; that of `RequestPipeline` is proved and checked, that of `TreeTools` checked. What else
both a run checks and a theorem states is checked as well, since the run is what tells that the
hypotheses of the theorem are met by steps that matter.

Why the bounds are enough: lines of one or two bytes in segments of three put a rotation by size
before every second or third event and one event short of it before others; two ticks a day over
five ticks give events of the same day, of the next, and, with a retention of two ticks, segments
that expire while others are kept; three events give a segment that is closed, one that is
expired and an active file at once. Two requests suffice for every pair of outcomes and for a
snapshot while the other request counts. A limit of two bytes has files below
it, at it, one over and more; two changes make a file leave and come back, or be written once
before and once after any step; the theorems cover the rest. Three stores, each listing nothing,
one store, or two, give chains, cycles of one, two and three stores and repetitions, within the
limit of stores and beyond it, and a walk that is stopped by the number of visits; of their names one
may be a link to another store and one a link out, and the link may lead to a store that holds a link; two changes
make a link or a store come and go between any two steps. Two reads bound what Git reads:
`OneVersion` judges each read by itself. Six paths on two levels give each tool a directory to
enter, one to skip, and a blocked name; with limits of two or three bytes and entries, files and
directories fall below each limit, on it and over it, and two changes take a file or a directory
away and bring it back, or change the entry looked at and another one. Three names and four
entries of a site give a package twice, one that is legacy and one too many. The questions are
small enough to be all there are of their length, and long enough for each case of a parser to
follow each other: a rename after a rename, a key that begins on the first line and ends on
the third, two continued lines and an indented one, an option's value that is an option.

### Disagreements between code and documents

| Run | What it shows |
| --- | --- |
| `audit_short_write` | After a write that fails half way the process appends the next event to the fragment: an acknowledged event cannot be parsed |
| `pipeline_cancelled` | A cancelled request is audited as a success |
| `read_text` | A file that grows between the stat and the read is read beyond `max_file_bytes` |
| `git_commit_hashes` | Git ends each record of its log with a newline, which stays in front of the hash of every commit but the first |

Other values of `Faults` show what else a failing disk does to the audit log, which `Tolerated`
(section 4) therefore excludes. After a failed fsync (`{"appendSync"}`) `_active_size` is short of what
the file holds, and the segment outgrows its bound (`BoundedSegments`). A process that finds an active
file does not sync its directory: with `{"crash", "power"}` and two faults, a file created just before
a crash is lost with the events that the next process acknowledged in it (`AckedKept`), and so is the
unsynced tail of a file that the next process rotated (`OnlyTailMalformed`, `RetentionEnforced`). A
failed sync of a creation (`"createSync"`) before a loss of power does the same. `audit_stops` therefore
has one fault, a crash or a power loss. And a new file whose directory could not be synced
(`{"createSync"}`) stays behind empty; the next call, which has forgotten it, may rename it into a
segment that holds nothing (`RetentionEnforced`).

What the models make visible without contradicting a document:

* A binary file that was only touched is listed by `git_diff_summary` as changed, since Git prints
  `-` for its numbers (`DiffExact` says so).
* A commit whose subject or author holds the field separator 0x1f is left out without a word
  (`CommitsInOrder` speaks of the others).
* `logs_error_summary` counts line numbers from the beginning of its window, the incident tools from
  the beginning of the file (`EvidenceAddsUp`).
* Line numbers are those of the file unless a secret took line ends with it: after an element that holds
  a secret over several lines (`XML_SECRET`), or after a separator other than a newline inside a key or
  a value, all later numbers are too small (`NumbersAreOfTheFile` and `EvidenceAddsUp` number what is left).
* The incident tools group lines that differ in an ISO time as one, and lines that differ in a syslog
  time, or in the offset of an ISO time, apart, though both are recognized as times (`EvidenceAddsUp`).
* `docs/tools.md` says that container logs are "bounded before decoding"; the code redacts first and
  bounds what is left, as it must (`ContainerLogsWhole`). Of a key that began before the tail Docker
  returned, nothing is recognized.
* A name in an alternates file that is a link to another place inside the repository is followed, not
  refused (`QuietCallExact`).
* Two keys of a mapping that are redacted to the same marker leave one entry (`ResponseIsTheData`).
* A page of GitHub's issues is filtered after `per_page` was applied, so that it may be shorter than
  the limit although there are more issues (`ServiceListsHonest`).

### Fairness

`AuditLog!FairSpec` has weak fairness of the thread that holds the lock (it is never blocked by
another) and of taking a free lock by some waiting thread; with finitely many events that is what
`threading.Lock` gives. `RequestPipeline!FairSpec` has weak fairness of each request's own steps:
tools are bounded by `limits.timeout_seconds` or by the size limits, and the loop runs what is
ready. `GitRunner!FairSpec` has weak fairness of the call's own steps: both runs of Git have a
timeout, and every other step is a system call on local files. `TreeTools` and `ToolAnswers` state
safety only. Cancellation, crashes, restarts, the clock and the arrival of requests are not fair.

## 4. The proofs

Every theorem is for all values of the constants; the assumptions are the `ASSUME`s of the modules
and what a theorem names itself.

### The audit log

`AuditLogProofs`:

* `TypeCorrect`: `Spec => []TypeOK`, with no assumption on faults. `TypeOK` is not inductive: that
  the holder's place and the files it refers to exist is the added `HolderInv`; together `TypeInv`.
* `AckedEventsKept`, `SegmentsBounded`, `LogStrict`: `AckedKept`, `BoundedSegments` and
  `OnlyTailMalformed` under `Tolerated`: any number of crashes and of failed creations, renames,
  removals and directory syncs, or else any number of power losses with failed creations, renames,
  removals and syncs after either. Failed appends are excluded, and a power loss that may follow a
  crash or a failed sync of a creation: there TLC shows the code to fail (section 3).

The argument for the last three is `LogInv`, in two parts. `DiskInv` is about the disk alone: every
acknowledged event in retention is whole in a linked file, lines are whole but for the active
file's last one, ends increase to at most `SegmentMax`, and a segment's stamp is no older than any
event in it. `HolderLog` ties the disk to the call under way: what `mem` says of the active file
is what the file holds, but for the bytes the holder has already sent; the rotation has been
decided for this line, so it fits. Neither part is inductive without the other: retention deletes
by stamps, stamps come from `mem.newest`, and `mem.newest` covers the file only if every append
that completed updated it.

With power loss all this has to hold of what a loss leaves. A power loss puts one of the views of the
directory since its last sync in place of the current one, and cuts each file to a length between
what was synced and what was written. `DurInv` speaks of every such view: all but the file being
appended to is synced (`AllSynced`), and what is synced of that one are whole lines (`SafeWhole`); each
file is bounded and each line but its last one whole, whether or not a view names it (`LinesSound`);
every view has the active file once its creation was synced (`ActiveDurable`); what `LogInv` says of the
segments is so in every view (`ViewsSound`); and an acknowledged event is a synced whole line of a file
of every view (`AckedDurable`). `LogInvariant` proves
`TypeInv /\ LogInv /\ ("power" \in Faults => DurInv)`. `ActiveDurable` is where a crash would break it: the
process that starts anew takes the file it finds for a durable one.

`AuditRotationProofs`:

* `MemoryIsExact`: `MemoryAgrees` under `MemorySafe`. Crashes, power loss and failures of renames
  and removals are included, since a process that starts anew reads the file; excluded are failures
  within an append and after a rename, which leave the same process with a file it knows too little
  of. The invariant `MemInv` adds what is true while the lock is held: the remembered size is behind the
  file by what was sent of the line, and says nothing between a rename and the new file.
* `FilesAreDaily`: `OneDayPerFile` under `Tolerated`. `DayInv` adds that no line is later than the record
  under way, that the day remembered of the active file is not after that of its lines, and that a
  record about to be appended is of the day of the lines that are there. It speaks of every file,
  linked or not, since a power loss may bring a name back.
* `RetentionHolds`: `RetentionEnforced` under `RetentionSafe`, that is `Tolerated` without
  `"createSync"`; the exception is the empty segment of section 3, so that nothing weaker would do.
  `RetainInv` adds that something was appended to each segment at the time of its stamp or later, which
  holds only because a file without lines is never renamed; `ViewsReached` says it of every view.

`AuditRotationProofs` also proves `LogImplementsLedger`: under `Tolerated`, `Spec` implies
`LedgerSpec`, the specification of `AuditLedger` under the refinement mapping of `AuditLog`. Every
system call maps to a step of the ledger or to none, a crash to the ledger's `Restart`, and so does a
power loss, which takes only what was not acknowledged or is out of retention. The mapping needs more than `LogInv`: a call
holds the lock alone, and an event is in a file only if its call got the lock (`HolderOnly`), since
the ledger stores only what was submitted and is not yet answered. With a failed write it is false: the
fragment swallows the next event, and its acknowledgement with it.

### The request pipeline

`RequestPipelineProofs` proves all that `pipeline_requests` checks but liveness: `PipelineTypeOK`,
`AnsweredRequestsAreAudited`, `AuditTellsTheReply`, `RefusalsReachClients`, `MetricsMatchTheAudit` and
`SnapshotsAreConsistent`, for any requests, exception chains and restarts, whether or not the audit
may fail. All rest on `PipelineInv`. Its `Stages` says for each place of the middleware what has been
recorded, by whom and with which event; `Owners` that only one request is between two awaits of the
loop and only one between the two updates of the registry; `LedgerKeeps` what the ledger promises of
its own; `StatusesExact` and `Counting` that a counter is the number of the requests that have passed
its update in this process, the total ahead of the labels by the one that holds the lock; `Seeing` the
same of a snapshot half taken. The properties speak of the moments when nobody is in between, and
are not inductive.

### Reads

`BoundedReadProofs` proves, for every limit, length and number of changes, all that
`read_changing` checks: `ReadTypes`, `LimitsHold`, `FallbackReadsExamined`, `QuietReadsExact` and
`MetadataReadsWhole`. The inductive invariant `IInv` says what the reader knows at each step: as
long as the examined file still has the time it had (`Unwritten`), what was read is a prefix of
it, and all of it once the read has ended (`Examined`), which is what `FallbackReadsExamined` says of the
fallback, where the file may no longer have the name it was examined by; while nobody touches anything, the same
of the file the path names (`Calm`). That a change of bytes is a change of time is one lemma
about the world (`WorldFacts`), so that the steps of the reader need not know how it changes.

### Git

`GitRunnerProofs` proves `TypeCorrect`, `OutputOfOneVersion`, `WalkIsExact` and `VerdictsHaveReasons`,
for any stores, limits and number of changes. The first two rest on `IInv`: stamps only grow and none is newer
than the last change (`Stamps`); a first stamp is no newer than what was opened (`Pins`) or read
later, and a third stamp no older than what was read before (`Prints`); so if the two are equal,
what was read between them is squeezed in between. It is the order of fingerprint, open, read and
fingerprint that `IInv` records, which `OneVersion` alone does not. `WalkIsExact` adds
`Underway`: what was seen and what is still to visit together lead to every reachable store and
to nothing else, where the reachable stores are defined as the least closed set, without
recursion. `VerdictsHaveReasons` (`QuietCallExact`) needs all of these and `QuietInv`: at each step, what the call
has found so far while nobody touched the repository: which parts were examined and are no links,
which stores were opened and are there, that the fingerprints are equal, how many visits and loose
objects are counted. That a store reached through a link is entered under its real name only, so that no
reachable store is a link itself, is `Direct`, part of the invariant of the walk. The loose objects are sums over the stores visited, by `SumTheorems`, so that the limit of
`_MAX_LOOSE_OBJECTS` is one of all stores together however the walk came to them.

### The tools that walk directories

`TreeToolsProofs` proves `NothingIsMissed`, `ReportsAddUp`, `PagesAreTheListing`, `MissingIsMissing` and
`ToolsAreTyped`, that is `MissesNothing`, `AddsUp`, `PagesExact`, `MissingWasAbsent` and `TypeOK` for every
tree, environment, limit, number of changes and fault. The first two follow from `TreeInvariant`, a conjunction of
one invariant for each tool and of `WorldOK`. Others act on the tree between any two steps; what
the tools' invariants need of that is in two facts, `Moves` (what changes is touched) and `Still` (what
is untouched after a step was so before, and is as it was), so that each tool's steps and everybody
else's are proved apart.

* `AgentInv`: each file that should be scanned is found already or still ahead of the walk
  (`AgentAhead`: below a directory to be listed, opened or entered, or among the names to be looked
  at), and once the files are chosen, among those still to be read; the counters are what has
  become of those (`AgentCounts`).
* `BanditInv`: the same for the walk of `os.walk`; that the walk meets nothing twice (`BanditApart`:
  of the directories ahead none is below another one, and no file that was copied or waits is below
  one), so that the bytes copied whole are those counted against the budget (`BanditWhole`).
* `SnapInv`: the same for a walk that copies as it goes, that what is copied and stays is as it is in
  the tree, that bytes copied and bytes remaining are within the limit, and that an entry was counted
  for each thing copied and for the file being copied.
* `PagesInv`: each entry listed was counted against the limit of a listing; the offset is what the client
  was shown, and grows with each call but the last.
* `AuditInv`: distributions observed are those to be read, parsed or skipped, and what was skipped has
  been told before the first METADATA is read.

The other three add what these invariants leave open.

* `PagesAreTheListing`: while the names stay, each call sorts the same entries, and what was shown is
  their first part, as long as the offset; the pages are that sequence, cut up, whatever their size.
* `MissingIsMissing` rests on `AuditKnows`: the listing is of the site as it was when its stamp was taken
  (`ListingTrue`); an inventory that is called complete has each of its entries, read without a warning
  (`InventoryWhole`); and each requirement is judged by it (`MissingTold`). A requirement is called missing
  only where no such warning stands in the way. It needs that environments are what they can be: kinds
  are known ones and lists are lists (`EnvPlansAssumption`, which TLC evaluates on the run's plans).
* `ToolsAreTyped`: the findings and requirements of the auditor are flattened from one sequence per
  distribution. That a flattened sequence has only elements of its parts, and how long it is, is an
  induction over the number of parts, again by a smallest counterexample.

`TreeReportsProofs` proves `QuietReportsAreExact`, which is `QuietExact`, in two parts that meet only in
the last step. The invariants above tell what is still ahead of a walk and bound what was counted; here
they have to tell, as long as nobody touched anything, what exactly was met.

* `ReportsOnTreesAreExact`, for the tools that walk a tree, by `TreesTell`. `BanditTells`: of the files that
  can be met (`BanditMet`), those no longer ahead are authorized or withheld, each once, and whoever says
  that the copy is truncated has left out an eligible one. `AgentJudged`: what became of the target is
  what its kind and the way to it ask for. `AgentTells`: the entries and directories counted are those met
  so far, each once, because what is ahead and what is behind are disjoint. `AgentReads`: the files read
  add up with those set aside, within a budget that depends on their order. `SnapTells`: an entry is
  counted when it is listed and a byte when it is copied, so that a limit is exceeded only by a tree that
  exceeds it.
* `AuditSays`, for the environment auditor. Before the listing, the configuration and the sites found are
  the environment's (`AuditBegins`). As long as no reserve was made (`Certain`), the entries of the one site
  were kept in their order and the first of them parsed as they are, and what is left of the budget of
  requirements is the limit without the sum of what these declare (`AuditParses`); once one was
  made, the environment gives a reason for it (`AuditInspects`): `~EnvClear`. So a limit that is hit is told
  apart from one that is just met. When all is parsed, distributions with one name are exactly the
  ambiguous ones, and the requirements, flattened, are what the distributions want, so that what is found
  missing or incompatible is `EnvUnmet`. It needs `AuditKnows` and `Recorded` of `TreeToolsProofs`.

The budgets are sums of sizes over sets of files, which the library has no theorems about.
`SumTheorems` proves that the fold of the community modules is such a sum, in whatever order it takes
the elements. Its induction runs over the strict subsets of a finite set, as the existence of a
smallest counterexample: the library's induction theorems, which take an operator as a parameter,
cannot be instantiated by the provers, but its theorem that a well-founded relation has minimal
elements takes a set. Some definitions were put in a form that the provers can reason about,
without a change of what they mean: `Sorted` as positions by rank, not as a recursive fold, and a copy
as a function, not with `@@`.

### Only model-checked

* Liveness (`EveryCallReturns`, that each request is answered and each Git call ends), which is out of the
  prover's reach.
* The audit log beyond `Tolerated`, but for its types and its memory: a single crash or power loss in any
  combination with the calls is `audit_stops`; two faults of the excluded kinds break it (section 3).
* The tools of `ToolAnswers`. `Responses` walks trees of data with recursive operators, which the
  prover cannot use in any module, and the other answers are folds over sequences with a state, which
  would each need an induction of their own like that of `SumTheorems`.

## 5. Not modelled, and the plan

Not modelled, because they keep no state and a model would restate them: the HTTP guard (one
comparison of digests), settings (declarative validation), the system tools, the command line and
the patterns of the permission service, whose decisions are guards of the tools. Of the components
that are modelled in part, `components` in `PROJECT.json` says what is left out.

Next:

1. In `GitRunner`, the files that the fingerprint compares by content.
2. The walk of directories by paths that stands in for descriptors on Windows.
