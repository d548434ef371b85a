----------------------------- MODULE AgentText ------------------------------
(***************************************************************************)
(* What an audit of agent files says of the text of one file: the Unicode  *)
(* rules, the text rules and the rule about comments                       *)
(* (tools/security/text_detectors.py).                                     *)
(*                                                                         *)
(* A text is a sequence of symbols.  "a" and "b" are the two parts of what *)
(* a text rule looks for, either as a phrase of two words or as one word,  *)
(* and "a" is also a word no comment should hold; "z" is an invisible      *)
(* character, "bom" the byte order mark, and "bs" a backslash, which       *)
(* continues its line.                                                     *)
(***************************************************************************)
EXTENDS ToolCall

CONSTANT AgentTexts   \* bound: the texts asked about

Invisible == {"z", "bom"}
TextRules == {"phrase", "word"}

\* str.split("\n"), without the empty last line.
AgentLines(text) ==
  LET parts == FoldLeft(LAMBDA ps, x : IF x = "NL" THEN Append(ps, <<>>)
                                       ELSE Append(Front(ps), Append(Last(ps), x)), << <<>> >>, text)
  IN IF Last(parts) = <<>> THEN Front(parts) ELSE parts

\* Mutant: the blanks a continued line begins with stay.
LStrip_None(line) == line

\* str.rstrip and str.lstrip.
RStrip(line) == SubSeq(line, 1, Max({0} \cup {i \in DOMAIN line : line[i] # " "}))
LStrip(line) == SubSeq(line, Min({Len(line) + 1} \cup {i \in DOMAIN line : line[i] # " "}), Len(line))

Visible(text) == SelectSeq(text, LAMBDA x : x \notin Invisible)

\* A backslash is the last of a line that another one follows.
Goes(lines, i) == LET shown == RStrip(Visible(lines[i])) IN
                  i < Len(lines) /\ shown # <<>> /\ Last(shown) = "bs"

\* The parts of a continued line, without their backslashes.
Parts(lines, i, j) ==
  [n \in 1..j - i + 1 |-> IF i + n - 1 < j THEN Front(RStrip(Visible(lines[i + n - 1]))) ELSE Visible(lines[j])]

\* _logical_lines_with_numbers: every line as it is, and a continued one joined by
\* a blank, by nothing, and without the blanks its parts begin with.  The order in
\* which they are found does not show: the report is sorted.
LogicalLines(lines) ==
  LET last == [i \in 1..Len(lines) |-> Min({j \in i..Len(lines) : ~Goes(lines, j)})]
      heads == SelectSeq([i \in 1..Len(lines) |-> i], LAMBDA i : Goes(lines, i) /\ (i = 1 \/ ~Goes(lines, i - 1)))
      joined(i) == LET parts == Parts(lines, i, last[i]) IN
        <<[line |-> i, text |-> FoldLeft(LAMBDA s, p : s \o <<" ">> \o p, Head(parts), Tail(parts))],
          [line |-> i, text |-> FlattenSeq(parts)],
          [line |-> i, text |-> Head(parts) \o FlattenSeq([n \in 1..Len(parts) - 1 |-> LStrip(parts[n + 1])])]>>
  IN [i \in 1..Len(lines) |-> [line |-> i, text |-> Visible(lines[i])]]
       \o FlattenSeq([k \in DOMAIN heads |-> joined(heads[k])])

\* The regular expression of a rule.
Matches(rule, line) ==
  \E p \in DOMAIN line : \E q \in p + 1..Len(line) :
    /\ line[p] = "a" /\ line[q] = "b" /\ \A i \in p + 1..q - 1 : line[i] = " "
    /\ (rule = "word") = (q = p + 1)

\* scan_text_rules: a rule is reported once for a line.
Emit(found, rule, line) ==
  LET f == [line |-> line, rule |-> rule] IN IF f \in Range(found) THEN found ELSE Append(found, f)

TextFindings(lines) ==
  FoldLeft(LAMBDA found, entry :
    LET phrase == IF Matches("phrase", entry.text) THEN Emit(found, "phrase", entry.line) ELSE found IN
    IF Matches("word", entry.text) THEN Emit(phrase, "word", entry.line) ELSE phrase,
    <<>>, LogicalLines(lines))

\* A comment ends with its mark or with the text; what opens inside one is part of it.
Comments(text) ==
  FoldLeft(LAMBDA s, x :
    CASE s.open /\ x = "-->" -> [s EXCEPT !.open = FALSE]
      [] s.open /\ x # "-->" -> [s EXCEPT !.line = IF x = "NL" THEN @ + 1 ELSE @,
                             !.all[Len(s.all)].body = Append(@, x)]
      [] ~s.open /\ x = "<!--" -> [s EXCEPT !.open = TRUE, !.all = Append(@, [line |-> s.line, body |-> <<>>])]
      [] OTHER -> [s EXCEPT !.line = IF x = "NL" THEN @ + 1 ELSE @],
    [open |-> FALSE, line |-> 1, all |-> <<>>], text).all

CommentFindings(found, text) ==
  FoldLeft(LAMBDA fs, c : IF "a" \in Range(c.body) THEN Emit(fs, "comment", c.line) ELSE fs,
           found, Comments(Visible(text)))

\* scan_unicode_smuggling: the mark a file begins with is none of its text.
UnicodeFindings(lines) ==
  LET bad == SelectSeq([i \in 1..Len(lines) |-> i], LAMBDA i :
               \E k \in DOMAIN lines[i] :
                 lines[i][k] \in Invisible /\ ~(lines[i][k] = "bom" /\ i = 1 /\ k = 1))
  IN [k \in DOMAIN bad |-> [line |-> bad[k], rule |-> "unicode"]]

\* _audit_single_file_content, and the order of the report; the Unicode rule
\* stands for a medium severity, the others for a high one.
Rank == [comment |-> 1, phrase |-> 2, word |-> 3, unicode |-> 4]
AgentFindings(text) ==
  SortSeq(UnicodeFindings(AgentLines(text)) \o CommentFindings(TextFindings(AgentLines(text)), text),
          LAMBDA f, g : f.line < g.line \/ (f.line = g.line /\ Rank[f.rule] < Rank[g.rule]))

AskAgent == \E text \in AgentTexts : question = [tool |-> "agentText", text |-> text]

-----------------------------------------------------------------------------
(* Properties, about the symbols of the file *)

LineAt(text, p) == 1 + Cardinality({i \in 1..p - 1 : text[i] = "NL"})

\* The end of a line is continued over when only blanks and invisible characters
\* are between it and a backslash.
Over(text, p) == /\ text[p] = "NL"
                 /\ \E i \in 1..p - 1 : text[i] = "bs" /\ \A k \in i + 1..p - 1 : text[k] \in Invisible \cup {" "}
                 /\ p < Len(text)

\* The lines one continued line is written on begin with this one.
HeadOf(text, n) ==
  Min({m \in 1..n : \A p \in DOMAIN text : text[p] = "NL" /\ LineAt(text, p) \in m..n - 1 => Over(text, p)})
Continued(text, n) == \E p \in DOMAIN text : Over(text, p) /\ HeadOf(text, LineAt(text, p)) = n

\* Nothing but blanks, invisible characters and continuations is between two
\* symbols; blanks between the parts of one word belong to a continuation.
Apart(text, p, q) ==
  \A i \in p + 1..q - 1 :
    \/ text[i] \in Invisible \cup {" "} \/ (text[i] = "NL" /\ Over(text, i))
    \/ text[i] = "bs" /\ \E n \in i + 1..q - 1 :
         text[n] = "NL" /\ \A k \in i + 1..n - 1 : text[k] \in Invisible \cup {" "}
Spaced(text, p, q) == \E i \in p + 1..q - 1 : text[i] \in {" ", "NL"}
Broken(text, p, q) ==
  \A i \in p + 1..q - 1 : text[i] = " " =>
    \E n \in p + 1..i : text[n] = "bs"

Phrases(rule, text) ==
  {<<p, q>> \in (DOMAIN text) \X (DOMAIN text) :
     /\ p < q /\ text[p] = "a" /\ text[q] = "b" /\ Apart(text, p, q)
     /\ IF rule = "phrase" THEN Spaced(text, p, q) ELSE Broken(text, p, q)}

\* However a phrase or a word is broken, by invisible characters or by continued
\* lines, it is reported, once for its line and once for the continued line it is
\* part of, and nothing is reported that is not there; a comment is reported where
\* it opens, in the numbers of the same lines.
AgentFindingsExact ==
  Answered("agentText") =>
    LET text == question.text
        whole(rule) == {LineAt(text, o[1]) : o \in {o \in Phrases(rule, text) :
                          LineAt(text, o[1]) = LineAt(text, o[2]) }}
        joined(rule) == {n \in {HeadOf(text, LineAt(text, o[1])) : o \in Phrases(rule, text)} : Continued(text, n)}
        opens(p) == /\ text[p] = "<!--"
                    /\ \A o \in 1..p - 1 : text[o] = "<!--" => \E e \in o + 1..p - 1 : text[e] = "-->"
        alert(p) == \E i \in p + 1..Len(text) : text[i] = "a" /\ \A e \in p + 1..i - 1 : text[e] # "-->"
        marked == {p \in DOMAIN text : text[p] \in Invisible /\ (text[p] = "bom" => p > 1)}
        lines(rule) == {f.line : f \in {f \in Range(Reply) : f.rule = rule}}
    IN /\ \A rule \in TextRules : lines(rule) = whole(rule) \cup joined(rule)
       /\ lines("comment") = {LineAt(text, p) : p \in {p \in DOMAIN text : opens(p) /\ alert(p)}}
       /\ lines("unicode") = {LineAt(text, p) : p \in marked}
       /\ \A i, j \in DOMAIN Reply : i < j => Reply[i] # Reply[j] /\ Reply[i].line <= Reply[j].line
=============================================================================
