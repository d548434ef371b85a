----------------------------- MODULE GitOutput ------------------------------
(***************************************************************************)
(* What the Git tools make of what Git prints (tools/git/handlers.py):     *)
(* git_repository_status, git_recent_commits and git_diff_summary.         *)
(*                                                                         *)
(* Text is a sequence of symbols: a character that the code looks at, or a *)
(* word that it takes whole.  What Git prints is written next to the code  *)
(* that parses it, from a description of the repository.                   *)
(***************************************************************************)
EXTENDS ToolCall

CONSTANTS
  MaxRecords,       \* limits.max_records
  Branches, Worktrees, Histories, Changes   \* bound: the repositories asked about

NUL == "NUL"
FS == "FS"          \* _FIELD_SEPARATOR, 0x1f
RS == "RS"          \* _RECORD_SEPARATOR, 0x1e
NL == "NL"

\* str.split, str.partition and str.rstrip of one symbol.
Split(text, symbol) ==
  FoldLeft(LAMBDA parts, x : IF x = symbol THEN Append(parts, <<>>)
                             ELSE Append(Front(parts), Append(Last(parts), x)),
           << <<>> >>, text)
Place(text, symbol) == SelectInSeq(text, LAMBDA x : x = symbol)
Before(text, symbol) == IF Place(text, symbol) = 0 THEN text ELSE SubSeq(text, 1, Place(text, symbol) - 1)
After(text, symbol) ==
  IF Place(text, symbol) = 0 THEN <<>> ELSE SubSeq(text, Place(text, symbol) + 1, Len(text))
TrimRight(text, symbol) ==
  LET kept == {i \in DOMAIN text : text[i] # symbol} IN SubSeq(text, 1, IF kept = {} THEN 0 ELSE Max(kept))

Count == "0" :> 0 @@ "1" :> 1 @@ "2" :> 2 @@ "4" :> 4   \* what isdecimal() accepts here
Printed(n) == CHOOSE s \in DOMAIN Count : Count[s] = n

-----------------------------------------------------------------------------
(* git status --porcelain=v1 -z --branch *)

\* A branch: where it is, and how far from its upstream, if it has one.
Header(b) ==
  <<"## ">>
    \o (CASE b.at = "unborn" -> <<"No commits yet on ", b.head>>
          [] b.at = "detached" -> <<"HEAD (no branch)">>
          [] OTHER -> <<b.head>>)
    \o (IF b.upstream = "none" THEN <<>> ELSE <<"...", b.upstream>>)
    \o (IF b.gone THEN <<" ", "[", "gone", "]">>
        ELSE CASE b.ahead = 0 /\ b.behind = 0 -> <<>>
          [] b.ahead = 0 /\ b.behind # 0 -> <<" ", "[", "behind ", Printed(b.behind), "]">>
          [] b.ahead # 0 /\ b.behind = 0 -> <<" ", "[", "ahead ", Printed(b.ahead), "]">>
          [] OTHER -> <<" ", "[", "ahead ", Printed(b.ahead), ",", " ", "behind ", Printed(b.behind), "]">>)

\* A change; after a rename or a copy comes the old path, in a record of its own.
StatusLines(changed) ==
  FlattenSeq([i \in DOMAIN changed |->
    LET c == changed[i] IN
    <<c.index, c.worktree, " ">> \o c.path \o <<NUL>> \o (IF c.old = <<>> THEN <<>> ELSE c.old \o <<NUL>>)])

\* _tracking_count.
TrackingCount(tracking, label) ==
  LET candidate == Before(Before(After(tracking, label), "]"), ",") IN
  IF Len(candidate) = 1 /\ candidate[1] \in DOMAIN Count THEN Count[candidate[1]] ELSE 0

\* _parse_branch.
ParseBranch(line) ==
  LET reference == IF line[2] = "No commits yet on " THEN SubSeq(line, 3, Len(line)) ELSE Tail(line)
      head == Before(reference, "...")
      tracked == After(reference, "...")
      tracking == After(tracked, " ")
  IN [head |-> IF head = <<"HEAD (no branch)">> THEN <<>> ELSE head,
      upstream |-> Before(tracked, " "),
      ahead |-> TrackingCount(tracking, "ahead "), behind |-> TrackingCount(tracking, "behind ")]

\* Mutant: the old path of a copy is taken for a change.
ParseStatusRecords_RenamesOnly(records) ==
  FoldLeft(LAMBDA s, r :
    IF s.skip THEN [s EXCEPT !.skip = FALSE]
    ELSE IF Len(r) < 4 THEN s
    ELSE [skip |-> "R" \in {r[1], r[2]},
          changes |-> Append(s.changes, [index |-> r[1], worktree |-> r[2], path |-> SubSeq(r, 4, Len(r))])],
    [skip |-> FALSE, changes |-> <<>>], records).changes

\* _parse_status_records, with _parse_status_line.
ParseStatusRecords(records) ==
  FoldLeft(LAMBDA s, r :
    IF s.skip THEN [s EXCEPT !.skip = FALSE]
    ELSE IF Len(r) < 4 THEN s
    ELSE [skip |-> {"R", "C"} \cap {r[1], r[2]} # {},
          changes |-> Append(s.changes, [index |-> r[1], worktree |-> r[2], path |-> SubSeq(r, 4, Len(r))])],
    [skip |-> FALSE, changes |-> <<>>], records).changes

\* git_repository_status.
RepositoryStatus(output) ==
  LET records == Split(output, NUL) IN
  [branch |-> ParseBranch(records[1]), changes |-> Bounded(ParseStatusRecords(Tail(records)), MaxRecords)]

-----------------------------------------------------------------------------
(* git log --format=..., which ends every record with a newline of its own *)

LogOutput(commits) ==
  FlattenSeq([i \in DOMAIN commits |->
    LET c == commits[i] IN
    <<c.hash, FS, c.short, FS>> \o c.author \o <<FS, c.date, FS>> \o c.subject \o <<RS, NL>>])

\* _parse_commits.
ParseCommits(output) ==
  LET records == SelectSeq(Split(output, RS), LAMBDA r : r # <<>> /\ Len(Split(r, FS)) = 5) IN
  [i \in DOMAIN records |->
     LET f == Split(records[i], FS) IN
     [commit |-> f[1], short |-> f[2], author |-> f[3], date |-> f[4], subject |-> TrimRight(f[5], NL)]]

\* git_recent_commits: Git itself stops at the limit.
RecentCommits(commits, limit) ==
  ParseCommits(LogOutput(SubSeq(commits, 1, Min({Len(commits), limit}))))

-----------------------------------------------------------------------------
(* git diff-files -z --raw --numstat *)

\* The records of one path: Git compares times, so that a file that was only
\* touched has one too, and a row of numbers if it is binary.
Raw(path, old, new, status) == <<[is |-> "raw", old |-> old, new |-> new, status |-> status],
                                 [is |-> "path", path |-> path]>>
Rows(change) ==
  LET p == change.path IN
  CASE change.what = "touched" -> [raw |-> Raw(p, "644", "644", "M"), rows |-> <<>>]
    [] change.what = "touchedStat" -> [raw |-> Raw(p, "644", "644", "M"), rows |-> <<<<"0", "0", p>>>>]
    [] change.what = "touchedBinary" -> [raw |-> Raw(p, "644", "644", "M"), rows |-> <<<<"-", "-", p>>>>]
    [] change.what = "edited" -> [raw |-> Raw(p, "644", "644", "M"), rows |-> <<<<"2", "1", p>>>>]
    [] change.what = "mode" -> [raw |-> Raw(p, "644", "755", "M"), rows |-> <<<<"0", "0", p>>>>]
    [] change.what = "deletedEmpty" -> [raw |-> Raw(p, "644", "000", "D"), rows |-> <<<<"0", "0", p>>>>]
    [] change.what = "conflict" -> [raw |-> Raw(p, "000", "644", "U") \o Raw(p, "644", "644", "M"),
                                    rows |-> <<<<"0", "0", p>>, <<"4", "0", p>>>>]
Whats == {"touched", "touchedStat", "touchedBinary", "edited", "mode", "deletedEmpty", "conflict"}

DiffOutput(changed) ==
  FlattenSeq([i \in DOMAIN changed |-> Rows(changed[i]).raw])
    \o FlattenSeq([i \in DOMAIN changed |->
         LET rows == Rows(changed[i]).rows IN [j \in DOMAIN rows |-> [is |-> "row", row |-> rows[j]]]])

\* _parse_numstat_line; the number of a binary file is "-".
ParseNumstat(row) == [path |-> row[3], added |-> row[1], deleted |-> row[2]]
IsZeroRow(parsed) == parsed.added = "0" /\ parsed.deleted = "0"

\* _is_stat_only_row.
IsStatOnlyRow(raws, parsed) ==
  Len(raws) = 1 /\ raws[1].status = "M" /\ raws[1].old = raws[1].new /\ IsZeroRow(parsed)

\* _diff_files_summary: raw records by path, then the rows; of several rows of a
\* path the first that is not 0/0 stays, in the place of the first.
DiffFilesSummary(tokens) ==
  LET rawOf(path) ==
        LET at == SelectSeq([i \in DOMAIN tokens |-> i],
                            LAMBDA i : tokens[i].is = "raw" /\ tokens[i + 1].path = path)
        IN [i \in DOMAIN at |-> tokens[at[i]]]
      numbers == SelectSeq(tokens, LAMBDA t : t.is = "row")
      place(files, path) == SelectInSeq(files, LAMBDA f : f.path = path)
  IN FoldLeft(LAMBDA files, t :
       LET parsed == ParseNumstat(t.row)
           i == place(files, parsed.path) IN
       IF IsStatOnlyRow(rawOf(parsed.path), parsed) THEN files
       ELSE IF i = 0 THEN Append(files, parsed)
       ELSE IF IsZeroRow(files[i]) THEN [files EXCEPT ![i] = parsed] ELSE files,
     <<>>, numbers)

-----------------------------------------------------------------------------
(* Questions and answers *)

AskGit ==
  \/ \E b \in Branches, changed \in Worktrees : question = [tool |-> "status", branch |-> b, changed |-> changed]
  \/ \E commits \in Histories, n \in 1..MaxRecords : question = [tool |-> "commits", commits |-> commits, limit |-> n]
  \/ \E changed \in Changes : question = [tool |-> "diff", changed |-> changed]

GitAnswer(q) ==
  CASE q.tool = "status" -> RepositoryStatus(Header(q.branch) \o <<NUL>> \o StatusLines(q.changed))
    [] q.tool = "commits" -> RecentCommits(q.commits, q.limit)
    [] q.tool = "diff" -> Bounded(DiffFilesSummary(DiffOutput(q.changed)), MaxRecords)

\* The status is that of the working tree: every change once, under its new path,
\* whatever the old one looks like, and the branch with what separates it from
\* its upstream.
StatusExact ==
  Answered("status") =>
    LET b == question.branch
        known == b.at # "unborn" /\ b.upstream # "none" /\ ~b.gone IN
    /\ Shows(Reply.changes,
             [i \in DOMAIN question.changed |->
                [index |-> question.changed[i].index, worktree |-> question.changed[i].worktree,
                 path |-> question.changed[i].path]], MaxRecords)
    /\ Reply.branch = [head |-> IF b.at = "detached" THEN <<>> ELSE <<b.head>>,
                       upstream |-> IF b.upstream = "none" THEN <<>> ELSE <<b.upstream>>,
                       ahead |-> IF known THEN b.ahead ELSE 0,
                       behind |-> IF known THEN b.behind ELSE 0]

Plain(text) == Range(text) \cap {FS, RS} = {}

\* The newest commits whose texts hold no separator are returned, each once and
\* in order, with their own author, date and subject; and every commit returned
\* has five fields of the text Git printed, whatever its messages hold.
CommitsInOrder ==
  Answered("commits") =>
    LET asked == SubSeq(question.commits, 1, Min({Len(question.commits), question.limit}))
        plain == SelectSeq(asked, LAMBDA c : Plain(c.author \o c.subject))
        own == SelectSeq(Reply, LAMBDA r : \E i \in DOMAIN plain : r.short = <<plain[i].short>>)
    IN /\ Len(own) = Len(plain)
       /\ \A i \in DOMAIN plain :
            /\ own[i].author = plain[i].author /\ own[i].date = <<plain[i].date>>
            /\ own[i].subject = plain[i].subject /\ plain[i].hash \in Range(own[i].commit)
       /\ \A i \in DOMAIN Reply : Len(Reply[i].commit) \in {1, 2} /\ Len(Reply[i].date) = 1

\* docs/tools.md: the tool returns commit hashes.
HashesAreHashes ==
  Answered("commits") =>
    \A i \in DOMAIN Reply : \E j \in DOMAIN question.commits : Reply[i].commit = <<question.commits[j].hash>>

\* The summary lists every path that differs from the index once, with the
\* numbers of the row that counts its lines; a file that was only touched is
\* left out, except a binary one, of which Git gives no numbers.
DiffExact ==
  Answered("diff") =>
    LET real == SelectSeq(question.changed, LAMBDA c : c.what \notin {"touched", "touchedStat"})
        numbers(what) == CASE what = "edited" -> <<"2", "1">>
                           [] what = "conflict" -> <<"4", "0">>
                           [] what = "touchedBinary" -> <<"-", "-">>
                           [] OTHER -> <<"0", "0">>
    IN Shows(Reply, [i \in DOMAIN real |-> [path |-> real[i].path, added |-> numbers(real[i].what)[1],
                                            deleted |-> numbers(real[i].what)[2]]], MaxRecords)

\* Whatever names and messages look like: status, commits and differences are those
\* of the repository that Git described.
GitAnswersExact == StatusExact /\ CommitsInOrder /\ DiffExact
=============================================================================
