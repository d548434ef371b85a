----------------------------- MODULE McpConfig ------------------------------
(***************************************************************************)
(* What an audit of agent files says of one MCP configuration              *)
(* (tools/security/mcp_config_detector.py): the package a server's command *)
(* runs, and the findings about each server, with the line each is at.     *)
(*                                                                         *)
(* A package specification says whether it is scoped, what its version     *)
(* follows, and which versions it allows; an argument is a flag, the       *)
(* values written behind its "=", or a value of its own.                   *)
(***************************************************************************)
EXTENDS ToolCall

CONSTANTS
  Commands,   \* bound: commands and the options and packages written after them
  Files       \* bound: configurations

PythonRunners == {"uvx", "pipx"}
Runners == {"npx", "uvx", "pipx", "bunx", "pnpx"}
Shells == {"sh", "cmd"}
YesFlags == {"-y", "--yes", "--yes="}

\* Mutant: a flag that takes a value is not known to.
ValueFlags_Short == {"-c"}

\* Of the flags that say nothing about a package, these take a value.
ValueFlags == {"--python", "-c"}
PackageFlags == {"-p", "--package", "--from"}
WithFlags == {"--with", "-w"}
Words == {"", "run", "exec", "dlx"}   \* no flags: a specification, or one of these words

Nothing == [by |-> "nothing", scoped |-> FALSE, version |-> "none"]
Odd == [by |-> "nothing", scoped |-> FALSE, version |-> "odd"]

\* is_pinned_package_spec: nothing, a path or a URL is not.
IsPinned(runner, spec) ==
  /\ spec.version = "exact"
  /\ IF runner \in PythonRunners THEN ~spec.scoped /\ spec.by \in {"==", "@"} ELSE spec.by = "@"

\* An argument taken as one specification, and as a list of some.
AsSpec(arg) == IF arg.flag = "" /\ Len(arg.specs) = 1 THEN arg.specs[1] ELSE Odd
AsSpecs(arg) == IF arg.flag = "" THEN arg.specs ELSE <<Odd>>

\* The loop of extract_runner_and_package: a flag may take the next argument; of
\* what follows "--" only the first counts.
ScanFlag(s, arg) ==
  CASE arg.flag = "--" -> [s EXCEPT !.next = "last"]
    [] arg.flag \in PackageFlags -> [s EXCEPT !.next = "package"]
    [] arg.flag = "--package=" -> [s EXCEPT !.named = Append(@, arg.specs[1])]
    [] arg.flag \in WithFlags -> [s EXCEPT !.next = "with"]
    [] arg.flag = "--with=" -> [s EXCEPT !.with = @ \o arg.specs]
    [] arg.flag = "--with-editable" -> [s EXCEPT !.with = Append(@, Odd), !.next = "value"]
    [] arg.flag = "--with-editable=" -> [s EXCEPT !.with = Append(@, Odd)]
    [] arg.flag \in ValueFlags -> [s EXCEPT !.next = "value"]
    [] arg.flag \in Words -> [s EXCEPT !.plain = Append(@, AsSpec(arg))]
    [] OTHER -> s
ScanArgument(s, arg) ==
  CASE s.next = "end" -> s
    [] s.next = "package" -> [s EXCEPT !.named = Append(@, AsSpec(arg)), !.next = "any"]
    [] s.next = "with" -> [s EXCEPT !.with = @ \o AsSpecs(arg), !.next = "any"]
    [] s.next = "value" -> [s EXCEPT !.next = "any"]
    [] s.next = "last" -> [s EXCEPT !.plain = Append(@, AsSpec(arg)), !.next = "end"]
    [] OTHER -> ScanFlag(s, arg)

\* A flag that misses its package names one that is empty.
Scan(args) ==
  LET start == [next |-> "any", named |-> <<>>, with |-> <<>>, plain |-> <<>>]
      missed(s) == CASE s.next = "package" -> [s EXCEPT !.named = Append(@, Nothing)]
                     [] s.next = "with" -> [s EXCEPT !.with = Append(@, Nothing)]
                     [] OTHER -> s
  IN missed(FoldLeft(ScanArgument, start, args))

NoPackage == [runner |-> "none", spec |-> Nothing, yes |-> FALSE]

\* The runner a command is, and what is left of its arguments.
RunnerOf(base, args) ==
  LET is(word) == args # <<>> /\ Head(args).flag = word IN
  CASE base = "pipx" /\ is("run") -> [runner |-> base, args |-> Tail(args)]
    [] base \in Runners /\ ~(base = "pipx" /\ is("run")) -> [runner |-> base, args |-> args]
    [] base = "npm" /\ is("exec") -> [runner |-> "npx", args |-> Tail(args)]
    [] base \in {"pnpm", "yarn"} /\ is("dlx") -> [runner |-> base, args |-> Tail(args)]
    [] OTHER -> [runner |-> "none", args |-> args]

\* Of the packages to run and those to run with, the first that is not pinned; the
\* first one if all are.
Chosen(runner, found) ==
  LET primary == IF found.named # <<>> THEN found.named ELSE SubSeq(found.plain, 1, Min({1, Len(found.plain)}))
      loose == SelectSeq(primary \o found.with, LAMBDA s : ~IsPinned(runner, s))
  IN IF primary = <<>> THEN Nothing ELSE IF loose # <<>> THEN loose[1] ELSE primary[1]

ExtractRunner(base, args) ==
  LET run == RunnerOf(base, args) IN
  IF run.runner = "none" THEN NoPackage
  ELSE [runner |-> run.runner, spec |-> Chosen(run.runner, Scan(run.args)),
        yes |-> \E i \in DOMAIN run.args : run.args[i].flag \in YesFlags]

\* The findings about a command: [rule, high].
CommandFindings(base, args) ==
  LET it == ExtractRunner(base, args)
      shell == base \in Shells \/ \E i \in DOMAIN args : args[i].flag = "-c"
      loose == it.runner # "none" /\ ~IsPinned(it.runner, it.spec)
  IN (IF shell THEN <<[rule |-> "004", high |-> TRUE]>> ELSE <<>>)
       \o (IF loose THEN <<[rule |-> "003", high |-> it.yes \/ it.spec.version = "latest"]>> ELSE <<>>)

-----------------------------------------------------------------------------
(* A configuration: for each of the two keys a mapping of servers may be    *)
(* under, what is there; and the lines it is written on, each the set of    *)
(* the names quoted on it                                                   *)

Containers == <<"mcpServers", "servers">>

\* _find_line_number_for_token: the first line from the start on, else the first
\* of all, else the start.
FindLine(lines, key, start) ==
  LET on == {n \in DOMAIN lines : key \in lines[n]}
      after == {n \in on : n >= start}
  IN IF after # {} THEN Min(after) ELSE IF on # {} THEN Min(on) ELSE start

\* A URL: a placeholder, or one with a scheme and an authority, or other words.
UrlFindings(url) ==
  LET remote == ~(url.loopback /\ url.user = "none" /\ ~url.backslash) IN
  CASE url.form = "placeholder" -> <<>>
    [] url.form = "other" -> IF url.backslash THEN <<[rule |-> "002", high |-> TRUE]>> ELSE <<>>
    [] url.form = "url" ->
         (IF remote THEN <<[rule |-> "002", high |-> url.clear \/ url.backslash]>> ELSE <<>>)
           \o (IF url.user \in {"pair", "token"} THEN <<[rule |-> "005", high |-> TRUE]>> ELSE <<>>)

\* An environment variable, or a header, which cannot be dangerous.
ValueFindings(v) ==
  IF v.null THEN <<>>
  ELSE (IF v.dangerous /\ v.form # "blank" THEN <<[rule |-> "004", high |-> TRUE]>> ELSE <<>>)
         \o (IF v.form \in {"plain", "secret"} /\ (v.sensitive \/ v.form = "secret")
             THEN <<[rule |-> "005", high |-> TRUE]>> ELSE <<>>)

SettingFindings(s) ==
  CASE s.kind = "url" -> UrlFindings(s.url)
    [] s.kind = "command" -> CommandFindings(s.base, s.args)
    [] s.kind \in {"env", "header"} -> ValueFindings(s.value)

At(found, line) == [i \in DOMAIN found |-> [line |-> line, rule |-> found[i].rule, high |-> found[i].high]]
Invalid(line) == <<[line |-> line, rule |-> "001", high |-> FALSE]>>

ServerFindings(lines, server) ==
  LET at == FindLine(lines, server.name, 1) IN
  IF ~server.mapping THEN Invalid(at)
  ELSE FlattenSeq([i \in DOMAIN server.settings |->
         LET s == server.settings[i] IN At(SettingFindings(s), FindLine(lines, s.key, at))])

\* scan_mcp_config_json: a file that is no configuration is only reported when
\* it ought to be one; an error of the parser may be behind the last line.
ConfigFindings(file) ==
  CASE file.parsed = "error" ->
         IF file.dedicated THEN Invalid(Max({1, Min({file.error, Max({1, Len(file.lines)})})})) ELSE <<>>
    [] file.parsed = "other" -> IF file.dedicated THEN Invalid(1) ELSE <<>>
    [] file.parsed = "mapping" ->
         FlattenSeq([i \in 1..2 |->
           LET block == file.blocks[Containers[i]] IN
           CASE block.kind = "none" -> <<>>
             [] block.kind = "other" -> Invalid(FindLine(file.lines, Containers[i], 1))
             [] block.kind = "mapping" ->
                  FlattenSeq([n \in DOMAIN block.servers |-> ServerFindings(file.lines, block.servers[n])])])

\* What is asked about: options as they are meant, and how they are written.
Written(option) ==
  LET flag(f) == [flag |-> f, specs |-> <<>>]
      value == [flag |-> "", specs |-> option.specs] IN
  CASE option.kind \in {"-y", "-q", "--"} -> <<flag(option.kind)>>
    [] option.kind \in {"--package=", "--with="} -> <<[flag |-> option.kind, specs |-> option.specs]>>
    [] option.kind = "plain" -> <<value>>
    [] OTHER -> <<flag(option.kind)>> \o IF option.specs = <<>> THEN <<>> ELSE <<value>>

Arguments(command) ==
  (IF command.word = "" THEN <<>> ELSE <<[flag |-> command.word, specs |-> <<>>]>>)
    \o FlattenSeq([i \in DOMAIN command.options |-> Written(command.options[i])])

AskConfig ==
  \/ \E c \in Commands : question = [tool |-> "mcpCommand", command |-> c]
  \/ \E f \in Files : question = [tool |-> "mcpConfig", file |-> f]

ConfigAnswer(q) ==
  IF q.tool = "mcpConfig" THEN ConfigFindings(q.file)
  ELSE CommandFindings(q.command.base, Arguments(q.command))

-----------------------------------------------------------------------------
(* Properties *)

\* A package runner is quiet about nothing it may install: the packages named for
\* it, or else the first argument that is no option's, and all it is to run with.
\* It is reported if one of them is not pinned, or there is none, and only then.
PackagesArePinned ==
  Answered("mcpCommand") =>
    LET c == question.command
        all == c.options
        stop == Min({Len(all) + 1} \cup {i \in DOMAIN all : all[i].kind = "--"})
        of(kinds) == FlattenSeq([i \in 1..stop - 1 |->
          IF all[i].kind \notin kinds THEN <<>>
          ELSE IF all[i].specs = <<>> THEN <<Nothing>> ELSE all[i].specs])
        editable == \E i \in 1..stop - 1 : all[i].kind = "--with-editable"
        named == of({"-p", "--package=", "--from"})
        plain == of({"plain"}) \o (IF stop < Len(all) THEN <<AsSpec(Written(all[stop + 1])[1])>> ELSE <<>>)
        primary == IF named # <<>> THEN named ELSE SubSeq(plain, 1, Min({1, Len(plain)}))
        runner == CASE <<c.base, c.word>> \in {<<"npm", "exec">>} -> "npx"
                    [] <<c.base, c.word>> \in {<<"pnpm", "dlx">>, <<"yarn", "dlx">>} -> c.base
                    [] c.base \in Runners -> c.base
                    [] OTHER -> "none"
        specs == primary \o of({"--with", "--with="})
        reported == \E i \in DOMAIN Reply : Reply[i].rule = "003"
    IN reported = (/\ runner # "none"
                   /\ \/ primary = <<>> \/ editable
                      \/ \E i \in DOMAIN specs : ~IsPinned(runner, specs[i]))

\* The names of a configuration are quoted at their own entry before they are
\* anywhere else: those of servers in the file, those of settings in their server.
WellNamed(file) ==
  \A b \in {file.blocks[k] : k \in Range(Containers)} : \A i \in DOMAIN b.servers :
    LET server == b.servers[i] IN
    /\ \A n \in DOMAIN file.lines : server.name \in file.lines[n] => n >= server.line
    /\ \A j \in DOMAIN server.settings : \A n \in server.line..server.settings[j].line - 1 :
         server.settings[j].key \notin file.lines[n]

\* Every finding is at a line of the file; where the names allow it, at the very
\* line its setting is on, so that two servers with the same settings are told
\* apart, each setting has its findings, and nothing else has any.
FindingsAtTheirLines ==
  Answered("mcpConfig") =>
    LET file == question.file IN
    /\ \A i \in DOMAIN Reply : Reply[i].line \in 1..Max({1, Len(file.lines)})
    /\ file.parsed = "mapping" /\ WellNamed(file) /\ (\A k \in Range(Containers) : file.blocks[k].kind # "other") =>
         LET of(server) == IF ~server.mapping THEN Invalid(server.line)
                           ELSE FlattenSeq([j \in DOMAIN server.settings |->
                                  At(SettingFindings(server.settings[j]), server.settings[j].line)])
             servers == file.blocks[Containers[1]].servers \o file.blocks[Containers[2]].servers
         IN Reply = FlattenSeq([i \in DOMAIN servers |-> of(servers[i])])

\* What is said of a configuration is of the packages it would run and of the
\* lines its settings are on.
McpFindingsExact == PackagesArePinned /\ FindingsAtTheirLines
=============================================================================
