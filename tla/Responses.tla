----------------------------- MODULE Responses ------------------------------
(***************************************************************************)
(* How structured data becomes a response (bounded_response,               *)
(* tools/common.py, and redact_value, redaction/service.py), and the tools *)
(* that list what a service returned (tools/docker/handlers.py,            *)
(* tools/github/handlers.py).                                              *)
(*                                                                         *)
(* Data is a tree: a text of the symbols of LogEvidence, a list, or a      *)
(* mapping, as the sequence of its entries.  "KEY" is a word that makes a  *)
(* key's value a secret; "ctrl" is a control character and "bs" a          *)
(* backslash.                                                              *)
(***************************************************************************)
EXTENDS LogEvidence

CONSTANTS
  Data,          \* bound: data of a response
  OutputLimit,   \* limits.max_output_bytes
  HostContainers, \* bound: what Docker lists
  HubReplies     \* bound: what GitHub answers

IsText(v) == v.kind = "text"
Text(t) == [kind |-> "text", text |-> t]

\* _is_sensitive_string; only a marker by itself counts as redacted.
Sensitive(key, value) ==
  /\ "KEY" \in Range(key)
  /\ IF IsText(value) THEN value.text \notin {<<>>} \cup {<<m>> : m \in Markers} ELSE value.items # <<>>

\* A dict: a second value of a key takes the place of the first.
Put(entries, key, value) ==
  LET i == SelectInSeq(entries, LAMBDA e : e.key = key) IN
  IF i = 0 THEN Append(entries, [key |-> key, value |-> value]) ELSE [entries EXCEPT ![i].value = value]

\* A value whose key says that it is a secret is hidden as a whole.
HideValue(key, value, safe) ==
  IF Sensitive(key, value)
  THEN [value |-> Text(<<"[FIELD]">>), count |-> Max({safe.count, 1})] ELSE safe

\* redact_value.
RECURSIVE RedactValue(_)
RedactValue(v) ==
  CASE v.kind = "text" -> [value |-> Text(Redact(v.text).text), count |-> Redact(v.text).count]
    [] v.kind = "list" ->
         LET all == [i \in DOMAIN v.items |-> RedactValue(v.items[i])] IN
         [value |-> [v EXCEPT !.items = [i \in DOMAIN all |-> all[i].value]],
          count |-> FoldLeft(LAMBDA n, a : n + a.count, 0, all)]
    [] v.kind = "map" ->
         FoldLeft(LAMBDA s, e :
           LET key == Redact(e.key)
               safe == HideValue(e.key, e.value, RedactValue(e.value)) IN
           [value |-> [s.value EXCEPT !.items = Put(@, key.text, safe.value)],
            count |-> s.count + key.count + safe.count],
           [value |-> [v EXCEPT !.items = <<>>], count |-> 0], v.items)

\* Mutant: a backslash is no control character.
EscapeText_Plain(text) ==
  FlattenSeq([i \in DOMAIN text |-> IF text[i] = "ctrl" THEN <<"bs", "hex">> ELSE <<text[i]>>])

\* _escape_one.
EscapeText(text) ==
  FlattenSeq([i \in DOMAIN text |-> CASE text[i] = "ctrl" -> <<"bs", "hex">>
                                      [] text[i] = "bs" -> <<"bs", "bs">>
                                      [] OTHER -> <<text[i]>>])

\* escape_control_characters: the keys stay as they are.
RECURSIVE Escape(_)
Escape(v) ==
  CASE v.kind = "text" -> Text(EscapeText(v.text))
    [] v.kind = "list" -> [v EXCEPT !.items = [i \in DOMAIN @ |-> Escape(@[i])]]
    [] v.kind = "map" -> [v EXCEPT !.items = [i \in DOMAIN @ |-> [@[i] EXCEPT !.value = Escape(@)]]]

\* The length in JSON, where a marker has more letters than the secret.
TextSize(text) ==
  2 + FoldLeft(LAMBDA n, x : n + CASE x \in Markers \cup {"[FIELD]", "ctrl"} -> 3 [] x = "bs" -> 2 [] OTHER -> 1, 0, text)
RECURSIVE Size(_)
Size(v) ==
  IF IsText(v) THEN TextSize(v.text)
  ELSE 2 + FoldLeft(LAMBDA n, e : n + IF v.kind = "map" THEN TextSize(e.key) + Size(e.value) ELSE Size(e), 0, v.items)

\* Mutant: the limit is tested on the data as it came.
BoundedResponse_Before(data, prior, escape) ==
  LET safe == RedactValue(data) IN
  IF Size(data) > OutputLimit THEN TooLarge
  ELSE [outcome |-> "ok", data |-> IF escape THEN Escape(safe.value) ELSE safe.value, redactions |-> prior + safe.count]

\* bounded_response: redact, escape, and measure what is sent.
BoundedResponse(data, prior, escape) ==
  LET safe == RedactValue(data)
      sent == IF escape THEN Escape(safe.value) ELSE safe.value IN
  IF Size(sent) > OutputLimit THEN TooLarge
  ELSE [outcome |-> "ok", data |-> sent, redactions |-> prior + safe.count]

-----------------------------------------------------------------------------
(* The tools *)

\* docker_list_containers and docker_unhealthy_containers: a container without a
\* health check has no health.
Unhealthy(list) == SelectSeq(list, LAMBDA c : c.health = "unhealthy")
DockerAnswer(q) == Bounded(IF q.tool = "unhealthy" THEN Unhealthy(q.list) ELSE q.list, q.limit)

\* _github_http_error.
HttpError(status) ==
  CASE status = 401 -> "authentication" [] status \in {403, 429} -> "rateLimited"
    [] status = 404 -> "notFound" [] OTHER -> "unavailable"

\* Mutant: of an answer that is too long, the part that was read is taken.
RequestJson_Part(reply) ==
  IF reply.status # 200 THEN HttpError(reply.status)
  ELSE IF reply.body = "unreadable" THEN "unavailable" ELSE "ok"

\* request_json: a status of 0 is GitHub out of reach; one byte more than the
\* limit is read, so that an answer of exactly the limit is whole.
RequestJson(reply) ==
  CASE reply.status = 0 -> "unavailable"
    [] reply.status \notin {0, 200} -> HttpError(reply.status)
    [] OTHER -> IF reply.size > OutputLimit THEN "outputLimit"
                ELSE IF reply.body = "unreadable" THEN "unavailable" ELSE "ok"

\* The list tools: GitHub counts pull requests as issues, and a page holds the
\* first of both.
HubAnswer(q) ==
  LET page == SubSeq(q.reply.items, 1, Min({q.limit, Len(q.reply.items)}))
      outcome == RequestJson(q.reply) IN
  IF outcome # "ok" THEN [outcome |-> outcome]
  ELSE IF q.reply.body # "list" THEN [outcome |-> "unavailable"]
  ELSE [outcome |-> "ok",
        items |-> SelectSeq(page, LAMBDA x : x.kind # "other" /\ (q.tool = "issues" => x.kind = "issue"))]

AskService ==
  \/ \E data \in Data, prior \in 0..1, escape \in BOOLEAN :
       question = [tool |-> "response", data |-> data, prior |-> prior, escape |-> escape]
  \/ \E tool \in {"containers", "unhealthy"}, list \in HostContainers, limit \in 1..MaxLines :
       question = [tool |-> tool, list |-> list, limit |-> limit]
  \/ \E tool \in {"issues", "pulls"}, reply \in HubReplies, limit \in 1..MaxLines :
       question = [tool |-> tool, reply |-> reply, limit |-> limit]

ServiceAnswer(q) ==
  CASE q.tool = "response" -> BoundedResponse(q.data, q.prior, q.escape)
    [] q.tool \in {"containers", "unhealthy"} -> DockerAnswer(q)
    [] q.tool \in {"issues", "pulls"} -> HubAnswer(q)

-----------------------------------------------------------------------------
(* Properties *)

CleanText(text) == FlattenSeq(Shown(text))

\* What an escaped text stands for.
Unescaped(text) ==
  FoldLeft(LAMBDA s, x : IF s.open THEN [open |-> FALSE, text |-> Append(s.text, IF x = "hex" THEN "ctrl" ELSE x)]
                         ELSE IF x = "bs" THEN [s EXCEPT !.open = TRUE]
                         ELSE [s EXCEPT !.text = Append(@, x)],
           [open |-> FALSE, text |-> <<>>], text).text

\* The texts of a tree, each with the keys and places that lead to it: as they are
\* read in a response, and as they may be told to a client.
RECURSIVE Said(_, _, _)
Said(v, path, escaped) ==
  IF IsText(v) THEN {[path |-> path, text |-> IF escaped THEN Unescaped(v.text) ELSE v.text]}
  ELSE IF v.items = <<>> THEN {[path |-> path, text |-> <<v.kind>>]}
  ELSE UNION {LET e == v.items[i] IN
              IF v.kind = "list" THEN Said(e, Append(path, [key |-> <<>>, at |-> i]), escaped)
              ELSE Said(e.value, Append(path, [key |-> e.key, at |-> 0]), escaped) : i \in DOMAIN v.items}

RECURSIVE Meant(_, _)
Meant(v, path) ==
  IF IsText(v) THEN {[path |-> path, text |-> CleanText(v.text)]}
  ELSE IF v.items = <<>> THEN {[path |-> path, text |-> <<v.kind>>]}
  ELSE UNION {LET e == v.items[i] IN
              IF v.kind = "list" THEN Meant(e, Append(path, [key |-> <<>>, at |-> i]))
              ELSE LET next == Append(path, [key |-> CleanText(e.key), at |-> 0]) IN
                   IF Sensitive(e.key, e.value) THEN {[path |-> next, text |-> <<"[FIELD]">>]}
                   ELSE Meant(e.value, next) : i \in DOMAIN v.items}

RECURSIVE KeysStayApart(_)
KeysStayApart(v) ==
  IsText(v) \/ /\ \A i \in DOMAIN v.items : KeysStayApart(IF v.kind = "map" THEN v.items[i].value ELSE v.items[i])
               /\ v.kind = "map" => Cardinality({CleanText(e.key) : e \in Range(v.items)}) = Len(v.items)

Accepted == Answered("response") /\ Reply.outcome = "ok"

\* Whatever is redacted and escaped, and in whichever part of the data: each text of
\* a response, unescaped, is the text at that place without its secrets, or hidden
\* because of a key; unless two keys become one, none is missing.
ResponseIsTheData ==
  Accepted =>
    LET said == Said(Reply.data, <<>>, question.escape)
        meant == Meant(question.data, <<>>)
    IN said \subseteq meant /\ (KeysStayApart(question.data) => said = meant)

\* What is sent fits the limit even where the markers and escapes are longer than
\* what they stand for, every marker in it is counted, and data that needs neither
\* is refused only if it does not fit.
ResponsesFit ==
  /\ Accepted =>
       LET marks(text) == Len(SelectSeq(text, LAMBDA x : x \in Markers \cup {"[FIELD]"})) IN
       /\ Size(Reply.data) <= OutputLimit
       /\ FoldSet(LAMBDA said, n : n + marks(said.text), 0, Said(Reply.data, <<>>, FALSE)) + question.prior
            <= Reply.redactions
  /\ Answered("response") /\ Meant(question.data, <<>>) = Said(question.data, <<>>, FALSE)
       /\ ~question.escape =>
       (Reply.outcome = "ok") = (Size(question.data) <= OutputLimit)

\* An empty list is never a failure in disguise: items are reported only from an
\* answer GitHub gave in full, and then they are, in its order, the issues (or the
\* pull requests) of the page that was asked for.  Of containers all are counted,
\* in Docker's order.
ServiceListsHonest ==
  /\ Answered("containers") => Shows(Reply, question.list, question.limit)
  /\ Answered("unhealthy") =>
       LET ill == {i \in DOMAIN question.list : question.list[i].health = "unhealthy"} IN
       /\ Reply.count = Cardinality(ill) /\ Len(Reply.shown) = Min({question.limit, Cardinality(ill)})
       /\ \A k \in DOMAIN Reply.shown : \E i \in ill :
            Reply.shown[k] = question.list[i] /\ Cardinality({j \in ill : j < i}) = k - 1
  /\ Answered("issues") \/ Answered("pulls") =>
       LET of == question.reply
           some == {i \in DOMAIN of.items : i <= question.limit /\ of.items[i].kind \in {"issue", "pull"}}
           kept == IF question.tool = "issues" THEN {i \in some : of.items[i].kind = "issue"} ELSE some
       IN /\ (Reply.outcome = "ok") = (of.status = 200 /\ of.size <= OutputLimit /\ of.body = "list")
          /\ Reply.outcome = "ok" =>
               /\ Len(Reply.items) = Cardinality(kept)
               /\ \A k \in DOMAIN Reply.items : \E i \in kept :
                    Reply.items[k] = of.items[i] /\ Cardinality({j \in kept : j < i}) = k - 1
=============================================================================
