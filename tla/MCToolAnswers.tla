---------------------------- MODULE MCToolAnswers ---------------------------
EXTENDS ToolAnswers

MCBranches ==
  LET of(at, upstream, gone, ahead, behind) ==
        [at |-> at, head |-> "main", upstream |-> upstream, gone |-> gone, ahead |-> ahead, behind |-> behind]
  IN {of("branch", "none", FALSE, 0, 0), of("branch", "origin/main", FALSE, 1, 2), of("branch", "origin/main", FALSE, 0, 1),
      of("branch", "origin/main", FALSE, 2, 0), of("branch", "origin/main", TRUE, 0, 0),
      of("unborn", "none", FALSE, 0, 0), of("detached", "none", FALSE, 0, 0)}

\* Old paths that look like a change, one of them like another rename.
MCWorktrees ==
  LET changes == {[index |-> "M", worktree |-> " ", path |-> <<"a">>, old |-> <<>>],
                  [index |-> "?", worktree |-> "?", path |-> <<"c", " ", "d">>, old |-> <<>>],
                  [index |-> "R", worktree |-> " ", path |-> <<"n", "e">>, old |-> <<"R", "C", "x", "y">>],
                  [index |-> " ", worktree |-> "C", path |-> <<"k", "o">>, old |-> <<"M", "C", "x", "y">>]}
  IN UNION {[1..n -> changes] : n \in 0..3}

MCHistories ==
  LET texts == {<<"fix">>, <<"a", FS, "b">>, <<"c", RS, "d">>, <<>>}
      of(i, text) == [hash |-> <<"h1", "h2", "h3">>[i], short |-> <<"s1", "s2", "s3">>[i],
                      author |-> <<IF i = 2 THEN "B" ELSE "A">>, date |-> <<"d1", "d2", "d3">>[i], subject |-> text]
  IN {[i \in 1..n |-> of(i, t[i])] :
        n \in 0..3, t \in [1..3 -> texts]}

MCChanges == {[i \in 1..n |-> [path |-> <<"p1", "p2", "p3">>[i], what |-> w[i]]] : n \in 0..3, w \in [1..3 -> Whats]}

\* Lines of which some are alike but for blanks, times or a secret, and the marks
\* of a key that begins and ends in the middle of them.
MCLines ==
  {<<"ERROR", " ", "a">>, <<"t1", "ERROR", "a">>, <<"t2", " ", "ERROR", "a">>, <<"INFO", "S", "T">>,
   <<"ERROR", "BEGIN">>, <<"END", "S", "T", "FATAL">>}

\* The tags of a secret element, a key and a value over lines of both kinds.
MCElementLines ==
  {<<"ERROR", "<s>">>, <<"a", " ", "</s>", "FATAL">>, <<"S", "T", "</s>", "ERROR">>, <<"<s>", "a", "</s>">>,
   <<"BEGIN", "LS", "END">>, <<"ERROR", "S", "LS", "T">>, <<"ERROR", "LS", "a">>}

\* The same word at times of each kind.
MCTimedLines == {<<t, "ERROR", "a">> : t \in IsoStamps \cup OffsetStamps \cup SyslogStamps}

MCLogs ==
  LET text(lines) == FlattenSeq([i \in DOMAIN lines |-> Append(lines[i], Newline)])
      some == MCLines \ {<<"t2", " ", "ERROR", "a">>, <<"INFO", "S", "T">>}
      logs == {text(lines) : lines \in UNION {[1..n -> MCLines \cup MCElementLines] : n \in 0..2}
                                         \cup UNION {[1..3 -> lines] : lines \in {MCLines, MCElementLines}}
                                         \cup [1..2 -> MCTimedLines] \cup [1..4 -> some]}
  IN logs \cup {Front(log) : log \in logs \ {<<>>}}

MCContainerLogs ==
  UNION {[1..n -> symbols] : n \in 0..4,
         symbols \in {{"a", "S", "T", "e", Newline}, {"a", "BEGIN", "END", "<s>", "</s>", Newline}}}
MCWhole == {FlattenSeq([i \in DOMAIN log |-> IF log[i] = "e" THEN <<"e1", "e2">> ELSE <<log[i]>>]) : log \in MCContainerLogs}

MCAgentTexts ==
  LET texts(symbols, n) == UNION {[1..k -> symbols] : k \in 0..n}
      symbols == {"a", "b", " ", "bs", "z", "NL"}
  IN texts(symbols, 4) \cup {<<"a">> \o t \o <<"b">> : t \in texts(symbols, 5)}
       \cup texts({"a", "NL", "<!--", "-->", "bom"}, 5)

\* Two keys that redaction makes one, and two that it leaves apart.
MCData ==
  LET texts == {<<>>, <<"a">>, <<"S", "T">>, <<"ctrl", "bs">>, <<"bs", "hex">>, <<"BEGIN", "a">>,
                <<"<s>", "ctrl", "NL", "</s>">>}
      lists == {<<>>} \cup {<<Text(t)>> : t \in texts} \cup {<<Text(<<"a">>), Text(t)>> : t \in texts}
      values == {Text(t) : t \in texts} \cup {[kind |-> "list", items |-> l] : l \in lists}
      keys == {<<"k">>, <<"KEY">>, <<"BEGIN">>, <<"BEGIN", "a">>}
      entry(k, v) == [key |-> k, value |-> v]
      map(items) == [kind |-> "map", items |-> items]
      one == {map(<<entry(k, v)>>) : k \in keys, v \in values}
      two == {map(<<entry(p[1], v), entry(p[2], w)>>) : p \in {p \in keys \X keys : p[1] # p[2]}, v \in values, w \in values}
  IN {map(<<>>)} \cup one \cup two \cup {map(<<entry(k, m)>>) : k \in keys, m \in one}

MCHostContainers == UNION {[1..n -> [name: {"c1", "c2"}, health: {"unhealthy", "healthy", "none"}]] : n \in 0..3}
MCHubReplies ==
  LET items == UNION {[1..n -> [kind: {"issue", "pull", "other"}]] : n \in 0..3}
      named(list) == [i \in DOMAIN list |-> [kind |-> list[i].kind, number |-> i]]
  IN [status: {200}, size: {OutputLimit - 1, OutputLimit, OutputLimit + 1}, body: {"list"}, items: {named(l) : l \in items}]
       \cup [status: {0, 200, 302, 401, 403, 404, 429, 500}, size: {OutputLimit, OutputLimit + 1},
             body: {"list", "mapping", "unreadable"}, items: {<<>>}]

MCCommands ==
  LET spec(by, scoped, version) == [by |-> by, scoped |-> scoped, version |-> version]
      specs == {<<spec("@", FALSE, "exact")>>, <<spec("==", FALSE, "exact")>>, <<spec("@", TRUE, "exact")>>,
                <<spec("@", FALSE, "latest")>>, <<spec("@", FALSE, "exact"), spec("@", FALSE, "range")>>}
      options == [kind: {"-y", "-q", "--"}, specs: {<<>>}]
                   \cup [kind: {"-p", "--with", "--with=", "--python", "--with-editable", "plain"}, specs: specs]
                   \cup [kind: {"--package="}, specs: {s \in specs : Len(s) = 1}]
      good == {o \in options : Len(o.specs) > 1 => o.kind \in {"--with", "--with="}}
      few == {o \in good : /\ o.kind \notin {"-y", "--package=", "--with=", "--with-editable"}
                           /\ \A s \in Range(o.specs) : s.by = "@" /\ ~s.scoped}
      lists == UNION {[1..n -> good] : n \in 0..2} \cup [1..3 -> few]
      last == [kind: {"-p", "--with"}, specs: {<<>>}]
  IN [base: {"npx", "uvx"}, word: {""}, options: lists]
       \cup [base: {"npm"}, word: {"exec"}, options: {l \in lists : Len(l) <= 2}]
       \cup [base: {"pipx", "npm", "sh"}, word: {"run"}, options: {l \in lists : Len(l) <= 1}]
       \cup [base: {"npx"}, word: {""}, options: {Append(l, o) : l \in {l \in lists : Len(l) <= 1}, o \in last}]

MCFiles ==
  LET set(key, kind, more) == [key |-> key, kind |-> kind] @@ more
      url(key, form, clear, loopback, user, back) == set(key, "url",
        [url |-> [form |-> form, clear |-> clear, loopback |-> loopback, user |-> user, backslash |-> back]])
      value(key, kind, form, dangerous, sensitive) == set(key, kind,
        [value |-> [null |-> FALSE, form |-> form, dangerous |-> dangerous, sensitive |-> sensitive]])
      loose == [flag |-> "", specs |-> <<Odd>>]
      bodies == {<<url("url", "url", TRUE, FALSE, "pair", FALSE)>>, <<url("url", "url", FALSE, TRUE, "none", FALSE),
                   url("uri", "other", FALSE, FALSE, "none", TRUE)>>,
                 <<set("command", "command", [base |-> "npx", args |-> <<loose>>]),
                   value("P", "env", "placeholder", TRUE, FALSE)>>,
                 <<value("T", "env", "plain", FALSE, TRUE), value("T", "header", "secret", FALSE, TRUE)>>,
                 <<value("url", "env", "secret", FALSE, FALSE)>>, <<>>}
      servers == {[name |-> n, mapping |-> b # <<>>, body |-> b] : n \in {"n1", "n2", "url"}, b \in bodies}
      pairs == {<<>>} \cup {<<s>> : s \in servers} \cup {p \in servers \X servers : p[1].name # p[2].name}
      \* The lines of a file: one for each name, for each server, or for all.
      place(style, at, server) ==
        LET n(k) == IF style = "open" THEN at + k ELSE at IN
        [name |-> server.name, mapping |-> server.mapping, line |-> at,
         settings |-> [k \in DOMAIN server.body |-> server.body[k] @@ [line |-> n(k)]]]
      keys(style, server) ==
        IF style = "open" THEN <<{server.name}>> \o [k \in DOMAIN server.body |-> {server.body[k].key}]
        ELSE <<{server.name} \cup {server.body[k].key : k \in DOMAIN server.body}>>
      write(style, f, list) ==
        FoldLeft(LAMBDA s, server : [lines |-> s.lines \o keys(style, server),
                                     servers |-> Append(s.servers, place(style, Len(s.lines) + 1, server))], f, list)
      flat(f) == [lines |-> <<UNION Range(f.lines)>>,
                  servers |-> [i \in DOMAIN f.servers |-> [f.servers[i] EXCEPT !.line = 1,
                    !.settings = [j \in DOMAIN @ |-> [@[j] EXCEPT !.line = 1]]]]]
      file(style, one, two) ==
        LET first == write(style, [lines |-> <<{Containers[1]}>>, servers |-> <<>>], one)
            both == IF two = <<>> THEN first
                    ELSE write(style, [first EXCEPT !.lines = Append(@, {Containers[2]})], two)
            all == IF style = "mini" THEN flat(both) ELSE both
            n == Len(one)
        IN [dedicated |-> TRUE, parsed |-> "mapping", error |-> 0, lines |-> all.lines,
            blocks |-> Containers[1] :> [kind |-> "mapping", servers |-> SubSeq(all.servers, 1, n)]
                    @@ Containers[2] :> [kind |-> IF two = <<>> THEN "none" ELSE "mapping",
                                         servers |-> SubSeq(all.servers, n + 1, Len(all.servers))]]
      good == {file(style, one, two) : style \in {"open", "server", "mini"}, one \in pairs,
                                     two \in {<<>>} \cup {<<s>> : s \in servers}}
      odd == {file("open", <<>>, <<>>)}
  IN good
       \cup {[f EXCEPT !.dedicated = d, !.parsed = p, !.error = e, !.lines = SubSeq(@, 1, n)] :
               f \in odd, d \in BOOLEAN, p \in {"error", "other"}, e \in 1..2, n \in 0..1}
       \cup {[f EXCEPT !.blocks[Containers[i]] = [kind |-> "other", servers |-> <<>>]] :
               f \in {file("open", <<s>>, <<s>>) : s \in servers}, i \in 1..2}
=============================================================================
