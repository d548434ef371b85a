---------------------------- MODULE LogEvidence -----------------------------
(***************************************************************************)
(* The tools that read logs: logs_tail_file, logs_search and               *)
(* logs_error_summary (tools/logs/handlers.py), incident_extract_timeline  *)
(* and incident_summarize_evidence (tools/incident/handlers.py), and       *)
(* docker_container_logs (tools/docker/handlers.py).                       *)
(*                                                                         *)
(* A log is a sequence of symbols: words, blanks, the ends of lines, the   *)
(* marks of a private key, the tags of an element whose name says that it  *)
(* holds a secret, and a secret of two parts that are only known together. *)
(* Whatever is reported must be found again in the file.                   *)
(***************************************************************************)
EXTENDS ToolCall

CONSTANTS
  Logs,           \* bound: the logs asked about
  ContainerLogs,  \* bound: what Docker returns; "e1" and "e2" are one character
  MaxLogSize,     \* max_file_bytes
  MaxLines,       \* limits.max_records
  CutLimits       \* half of max_output_bytes, or 1,024 bytes

Newline == "NL"
\* What else str.splitlines ends a line at: \x0b, \x0c, \x1c to \x1e, \x85, U+2028, U+2029.
Separator == "LS"
LineEnds == {Newline, Separator}
Markers == {"[KEY]", "[R]", "[X]"}
Severities == {"FATAL", "CRITICAL", "ERROR", "WARN", "INFO"}
High == {"CRITICAL", "ERROR", "FATAL"}
\* Times: as in ISO 8601, the same with one and the same offset, and those of syslog.
IsoStamps == {"t1", "t2"}
OffsetStamps == {"o1", "o2"}
SyslogStamps == {"y1", "y2"}

\* str.splitlines.
LinesOf(text) ==
  LET parts == FoldLeft(LAMBDA ps, x : IF x \in LineEnds THEN Append(ps, <<>>)
                                       ELSE Append(Front(ps), Append(Last(ps), x)), << <<>> >>, text)
  IN IF Last(parts) = <<>> THEN Front(parts) ELSE parts

\* Mutant: the marker stands for the whole key, its lines included.
RedactKeys_OneLine(text) ==
  FoldLeft(LAMBDA s, x :
    IF s.inside THEN [s EXCEPT !.inside = x # "END"]
    ELSE IF x = "BEGIN" THEN [text |-> Append(s.text, "[KEY]"), inside |-> TRUE, count |-> s.count + 1]
    ELSE [s EXCEPT !.text = Append(@, x)],
    [text |-> <<>>, inside |-> FALSE, count |-> 0], text)

\* _redact_private_keys: a key, or what follows an unfinished one, becomes a
\* marker and as many newlines as it had; its other separators are lost.
RedactKeys(text) ==
  FoldLeft(LAMBDA s, x :
    IF s.inside THEN [s EXCEPT !.text = IF x = Newline THEN Append(@, x) ELSE @, !.inside = x # "END"]
    ELSE IF x = "BEGIN" THEN [text |-> Append(s.text, "[KEY]"), inside |-> TRUE, count |-> s.count + 1]
    ELSE [s EXCEPT !.text = Append(@, x)],
    [text |-> <<>>, inside |-> FALSE, count |-> 0], text)

\* The rules for values of one line: CONNECTION_PASSWORD, and all that take what
\* is left of it, end at a newline and at no other separator.
RedactValues(text) ==
  FoldLeft(LAMBDA s, x :
    LET i == SelectLastInSeq(s, LAMBDA y : y # Separator) IN
    IF x = "T" /\ i > 0 /\ s[i] = "S" THEN Append(SubSeq(s, 1, i - 1), "[R]") ELSE Append(s, x),
    <<>>, text)

\* XML_SECRET and _trim_trailing_markers: what an element holds becomes a marker,
\* its newlines with it, up to the blanks and markers it ends in.
RedactElements(text) ==
  FoldLeft(LAMBDA s, x :
    LET held == SubSeq(s.text, s.at + 1, Len(s.text))
        n == SelectLastInSeq(held, LAMBDA y : y \notin Markers \cup {" "}) IN
    IF x = "</s>" /\ s.at > 0 /\ n > 0
    THEN [text |-> SubSeq(s.text, 1, s.at) \o <<"[X]">> \o SubSeq(held, n + 1, Len(held)) \o <<x>>,
          at |-> 0, count |-> s.count + 1]
    ELSE [s EXCEPT !.text = Append(@, x),
                   !.at = IF x = "<s>" THEN Len(s.text) + 1 ELSE IF x = "</s>" THEN 0 ELSE @],
    [text |-> <<>>, at |-> 0, count |-> 0], text)

\* Redactor.redact: keys first, then each secret its rule recognizes.
Redact(text) ==
  LET keys == RedactKeys(text)
      values == RedactValues(keys.text)
      elements == RedactElements(values) IN
  [text |-> elements.text,
   count |-> keys.count + Len(SelectSeq(values, LAMBDA x : x = "[R]")) + elements.count]

TooLarge == [outcome |-> "outputLimit"]

-----------------------------------------------------------------------------
(* Evidence *)

\* _severity: the first word that is one.
Severity(line) ==
  LET i == SelectInSeq(line, LAMBDA x : x \in Severities) IN IF i = 0 THEN "none" ELSE line[i]

\* _timestamp: the line begins with one.
Timestamp(line) ==
  IF line # <<>> /\ line[1] \in IsoStamps \cup OffsetStamps \cup SyslogStamps THEN line[1] ELSE "none"

\* _TIMESTAMP_REPLACEMENT knows fewer times than _TIMESTAMP_PATTERN: an offset stays
\* where it is, and a syslog time as it is.
Timeless(x) ==
  CASE x \in IsoStamps -> "<timestamp>" [] x \in OffsetStamps -> "<timestamp>+offset" [] OTHER -> x

\* _fingerprint: words are one blank apart, so that further blanks do not count.
Fingerprint(line, incident) ==
  SelectSeq([i \in DOMAIN line |-> IF incident THEN Timeless(line[i]) ELSE line[i]],
            LAMBDA x : x # " ")

\* Mutant: the last line of a group is not kept up to date.
EvidenceGroups_LastOfFirst(lines, start, incident) ==
  FoldLeft(LAMBDA groups, n :
    LET line == lines[n]
        safe == Redact(line).text
        mark == Fingerprint(safe, incident)
        i == SelectInSeq(groups, LAMBDA g : g.fingerprint = mark) IN
    IF Severity(line) \notin High THEN groups
    ELSE IF i = 0 THEN Append(groups, [fingerprint |-> mark, severity |-> Severity(line), occurrences |-> 1,
                                       first |-> start + n - 1, last |-> start + n - 1, sample |-> safe])
    ELSE [groups EXCEPT ![i].occurrences = @ + 1],
    <<>>, [n \in DOMAIN lines |-> n])

\* _group_severity_lines and _evidence_groups; only the latter has a last line.
EvidenceGroups(lines, start, incident) ==
  FoldLeft(LAMBDA groups, n :
    LET line == lines[n]
        safe == Redact(line).text
        mark == Fingerprint(safe, incident)
        i == SelectInSeq(groups, LAMBDA g : g.fingerprint = mark) IN
    IF Severity(line) \notin High THEN groups
    ELSE IF i = 0 THEN Append(groups, [fingerprint |-> mark, severity |-> Severity(line), occurrences |-> 1,
                                       first |-> start + n - 1, last |-> start + n - 1, sample |-> safe])
    ELSE [groups EXCEPT ![i].occurrences = @ + 1, ![i].last = start + n - 1],
    <<>>, [n \in DOMAIN lines |-> n])

SeverityCounts(lines) ==
  [s \in Severities |-> Len(SelectSeq(lines, LAMBDA l : Severity(l) = s))]

\* The most frequent groups first; among equals, those of an incident by their
\* first line, and the others by a digest, for which the first line stands here.
Ordered(groups) ==
  SortSeq(groups, LAMBDA g, h : \/ g.occurrences > h.occurrences
                                \/ g.occurrences = h.occurrences /\ g.first < h.first)

Trailing(lines, n) == SubSeq(lines, Max({0, Len(lines) - n}) + 1, Len(lines))

-----------------------------------------------------------------------------
(* The tools; "seen" is the size the file had before it was read *)

TailFile(q) ==
  LET all == LinesOf(Redact(q.text).text) IN
  [lines |-> Trailing(all, q.lines), total |-> Len(all), redactions |-> Redact(q.text).count]

\* logs_search: the query is one word.
Search(q) ==
  LET all == LinesOf(Redact(q.text).text)
      at == SelectSeq([i \in DOMAIN all |-> i], LAMBDA i : q.query \in Range(all[i]))
  IN Bounded([i \in DOMAIN at |-> [number |-> at[i], text |-> all[at[i]]]], q.limit)

\* logs_error_summary: its line numbers begin with the window.
ErrorSummary(q) ==
  LET window == Trailing(LinesOf(Redact(q.text).text), q.lines) IN
  [analyzed |-> Len(window), counts |-> SeverityCounts(window),
   groups |-> Bounded(Ordered(EvidenceGroups(window, 1, FALSE)), q.limit)]

\* _trailing_lines, of an incident.
TrailingLines(text, n) ==
  LET all == LinesOf(Redact(text).text)
      window == Trailing(all, n) IN
  [lines |-> window, start |-> Len(all) - Len(window) + 1]

Timeline(q) ==
  LET window == TrailingLines(q.text, q.lines) IN
  [i \in DOMAIN window.lines |->
     [number |-> window.start + i - 1, timestamp |-> Timestamp(window.lines[i]),
      severity |-> Severity(window.lines[i]), text |-> window.lines[i]]]

Evidence(q) ==
  LET window == TrailingLines(q.text, q.lines) IN
  [analyzed |-> Len(window.lines), counts |-> SeverityCounts(window.lines),
   groups |-> Bounded(Ordered(EvidenceGroups(window.lines, window.start, TRUE)), q.limit)]

\* Cutting bytes may cut a character in two; half of one is dropped.
Cut(text, limit) ==
  LET kept == SubSeq(text, 1, Min({Len(text), limit})) IN
  IF kept # <<>> /\ Last(kept) = "e1" THEN Front(kept) ELSE kept

\* Mutant: the bytes are cut before they are redacted.
ContainerLog_CutFirst(text, limit) ==
  [logs |-> Redact(Cut(text, limit)).text, truncated |-> Len(text) > limit]

\* docker_container_logs.
ContainerLog(text, limit) ==
  [logs |-> Cut(Redact(text).text, limit), truncated |-> Len(Redact(text).text) > limit]

LogTools == {"tail", "search", "summary", "timeline", "evidence"}

AskLogs ==
  \/ \E tool \in LogTools, log \in Logs, n \in 1..MaxLines, limit \in 1..MaxLines, query \in {"ERROR", "a"} :
       /\ (tool \notin {"search"} => query = "ERROR") /\ (tool \in {"tail", "timeline"} => limit = 1)
       /\ (tool = "search" => n = 1)
       /\ question = [tool |-> tool, text |-> log, seen |-> Len(log), lines |-> n, limit |-> limit, query |-> query]
  \/ \E log \in ContainerLogs, limit \in CutLimits : question = [tool |-> "container", text |-> log, limit |-> limit]

LogAnswer(q) ==
  CASE q.tool = "container" -> ContainerLog(q.text, q.limit)
    [] q.tool # "container" /\ q.seen > MaxLogSize -> TooLarge
    [] OTHER -> CASE q.tool = "tail" -> TailFile(q)
                  [] q.tool = "search" -> Search(q)
                  [] q.tool = "summary" -> ErrorSummary(q)
                  [] q.tool = "timeline" -> Timeline(q)
                  [] q.tool = "evidence" -> Evidence(q)

-----------------------------------------------------------------------------
(* Properties, about the file as it is, symbol by symbol *)

\* A symbol is inside a key if one begins at or before it and does not end before it.
Inside(text, p) == \E b \in 1..p - 1 : text[b] = "BEGIN" /\ \A e \in b + 1..p - 1 : text[e] # "END"

\* A value is what stands from "S" to "T", if nothing does between them but separators.
InValue(text, p) ==
  \E b \in 1..p, e \in p..Len(text) :
    text[b] = "S" /\ text[e] = "T" /\ \A k \in b + 1..e - 1 : text[k] = Separator

\* What may be shown of each symbol, were there no elements.
BeforeElements(text) ==
  [p \in DOMAIN text |->
     CASE text[p] = Newline -> <<Newline>>
       [] text[p] # Newline /\ Inside(text, p) -> <<>>
       [] text[p] = "BEGIN" /\ ~Inside(text, p) -> <<"[KEY]">>
       [] OTHER -> IF ~InValue(text, p) THEN <<text[p]>> ELSE IF text[p] = "T" THEN <<"[R]">> ELSE <<>>]

\* An element is hidden from its tag to the last of it that is no blank and no
\* marker, its newlines with it; the marker stands right after the tag.
Shown(text) ==
  LET plain == BeforeElements(text)
      tags == {p \in DOMAIN text : plain[p] \in {<<"<s>">>, <<"</s>">>}}
      elements == {e \in tags \X tags :
                     /\ e[1] < e[2] /\ \A t \in tags : ~(e[1] < t /\ t < e[2])
                     /\ plain[e[1]] = <<"<s>">> /\ plain[e[2]] = <<"</s>">>}
      hidden == {p \in DOMAIN text : \E e \in elements : \E k \in p..e[2] - 1 :
                   e[1] < p /\ plain[k] \notin {<<>>, <<" ">>} \cup {<<m>> : m \in Markers}}
  IN [p \in DOMAIN text |-> IF p \notin hidden THEN plain[p]
                            ELSE IF plain[p - 1] = <<"<s>">> THEN <<"[X]">> ELSE <<>>]

\* The lines of what may be shown.
Ends(shown) == {p \in DOMAIN shown : shown[p] \in {<<x>> : x \in LineEnds}}
LineOf(shown, n) ==
  LET of == {p \in DOMAIN shown \ Ends(shown) : Cardinality({q \in Ends(shown) : q < p}) = n - 1} IN
  IF of = {} THEN <<>> ELSE FlattenSeq([i \in 1..Max(of) - Min(of) + 1 |-> shown[Min(of) + i - 1]])

\* A last line that has no end counts only if something of it may be shown.
LineCount(shown) ==
  LET ends == Cardinality(Ends(shown)) IN ends + IF LineOf(shown, ends + 1) = <<>> THEN 0 ELSE 1

AnsweredLogs(tools) == \E t \in tools : Answered(t) /\ question.seen <= MaxLogSize
WindowStart(total) == Max({0, total - question.lines}) + 1

\* Whatever a secret was replaced by, and wherever the window begins: a line that is
\* reported with a number is that line of what the file shows without its secrets,
\* and no line of the window, or that the query finds, is left out.  These are the
\* lines of the file itself, whatever keys it holds, unless an element with a newline,
\* or a key or a value with another separator, is among them: what such a secret
\* takes away is not counted, and the lines after it have smaller numbers.
NumbersAreOfTheFile ==
  LET shown == Shown(question.text)
      total == LineCount(shown)
      lines == [n \in 1..total |-> LineOf(shown, n)]
      start == WindowStart(total) IN
  /\ AnsweredLogs({"tail"}) =>
       Reply.total = total /\ Reply.lines = [i \in 1..total - start + 1 |-> lines[start + i - 1]]
  /\ AnsweredLogs({"search"}) =>
       LET found == {n \in 1..total : question.query \in Range(lines[n])} IN
       /\ Reply.count = Cardinality(found)
       /\ \A i \in DOMAIN Reply.shown :
            LET m == Reply.shown[i] IN
            m.number \in found /\ m.text = lines[m.number]
              /\ Cardinality({n \in found : n < m.number}) = i - 1
  /\ AnsweredLogs({"timeline"}) =>
       /\ Len(Reply) = total - start + 1
       /\ \A i \in DOMAIN Reply : Reply[i].number = start + i - 1 /\ Reply[i].text = lines[Reply[i].number]

\* Two lines say the same: word for word, but for times an incident does not
\* tell apart; those of syslog it does.
SameEvidence(one, two, incident) ==
  LET words(line) == SelectSeq(line, LAMBDA x : x # " ")
      a == words(one)
      b == words(two) IN
  /\ Len(a) = Len(b)
  /\ \A i \in DOMAIN a : \/ a[i] = b[i]
                         \/ incident /\ \E times \in {IsoStamps, OffsetStamps} : {a[i], b[i]} \subseteq times

\* Evidence is not lost and not counted twice: the occurrences of all groups are
\* the severe lines of the window, each group is named by its first (and last)
\* line and by a sample of it, two lines are of one group just if they say the
\* same, and no group that is left out has more lines than one that is shown.
\* Lines and numbers are those of NumbersAreOfTheFile.
EvidenceAddsUp ==
  AnsweredLogs({"summary", "evidence"}) =>
    LET incident == question.tool = "evidence"
        text == Shown(question.text)
        total == LineCount(text)
        base == IF incident THEN 0 ELSE WindowStart(total) - 1
        window == WindowStart(total)..total
        lines == [n \in window |-> LineOf(text, n)]
        severe == {n \in window : Severity(lines[n]) \in High}
        alike == [n \in severe |-> {m \in severe : SameEvidence(lines[m], lines[n], incident)}]
        heads == {n \in severe : n = Min(alike[n])}
        shown == Reply.groups.shown
    IN /\ Reply.groups.count = Cardinality(heads)
       /\ Reply.groups.truncated = (Cardinality(heads) > question.limit)
       /\ Len(shown) = Min({question.limit, Cardinality(heads)})
       /\ \A s \in Severities : Reply.counts[s] = Cardinality({n \in window : Severity(lines[n]) = s})
       /\ \A i \in DOMAIN shown :
            LET n == base + shown[i].first IN
            /\ n \in heads /\ shown[i].sample = lines[n]
            /\ shown[i].occurrences = Cardinality(alike[n]) /\ base + shown[i].last = Max(alike[n])
            /\ \A h \in heads : Cardinality(alike[h]) > shown[i].occurrences =>
                                  \E j \in 1..i - 1 : base + shown[j].first = h

\* What is shown of a container's log holds no part of a secret, wherever it is
\* cut, is the beginning of what may be shown, in whole characters, and all but
\* a character of what fits the limit.  Of a key that began before what Docker
\* returned, nothing tells what is left: it is no secret here.
ContainerLogsWhole ==
  Answered("container") =>
    LET clean == FlattenSeq(Shown(question.text))
    IN /\ IsPrefix(Reply.logs, clean)
       /\ Len(Reply.logs) <= question.limit
       /\ Reply.truncated = (Len(clean) > question.limit)
       /\ Len(Reply.logs) >= Min({Len(clean), question.limit - 1})
       /\ Reply.logs # <<>> => Last(Reply.logs) # "e1"
=============================================================================
