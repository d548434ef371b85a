---------------------------- MODULE EnvInspection ---------------------------
(***************************************************************************)
(* PythonEnvironmentInspector.inspect (tools/environment/inspection.py):   *)
(* the audit of a virtual environment that an installer may be changing.   *)
(*                                                                         *)
(* Directories are known by their stamps, which change with their entries. *)
(* A file is read as BoundedRead reads with "metadata": whole, or refused. *)
(* What could not be inspected must withdraw the claims that rest on it.   *)
(***************************************************************************)
EXTENDS EnvMetadata

CONSTANTS
  Sites,       \* the site-packages directories: <<>> is Lib, others lib/pythonX.Y
  Names,       \* the names of their entries, in order
  Eggs,        \* those that end in .egg-info; the others end in .dist-info
  NameOf,      \* the package an entry is of
  MaxEntries, MaxMetadata, MaxDependencies, MaxPerDistribution,
  EnvPlans     \* bound: environments, and what becomes of them

Lib == <<>>
EntryNames == Range(Names)

\* A site is a directory, "odd" (a link, or no directory) or "none".  An entry is
\* a directory or odd, and its METADATA is a file, "large", "odd" or "none"; so is
\* the configuration.
ASSUME EnvAssumption ==
  /\ Names \in Seq(STRING) /\ IsInjective(Names) /\ Eggs \subseteq EntryNames
  /\ Lib \in Sites /\ NameOf \in [EntryNames -> STRING]
  /\ {MaxEntries, MaxMetadata, MaxDependencies, MaxPerDistribution} \subseteq Nat

IsList(s) == s \in Seq(Range(s))
SiteStates == [kind: {"dir", "odd", "none"}, names: SUBSET EntryNames, stamp: Nat]
ConfigOK(lines) ==
  IsList(lines) /\ \A l \in Range(lines) :
    l.key \in {"version", "version_info"} => l.value \in Seq(Nat)

\* METADATA tells the name that the directory it is in was given, if it tells one.
EntryOK(n, entry) ==
  IsList(entry.headers) /\ \A h \in Range(entry.headers) :
    h.key = "name" => h.value \in {"", NameOf[n]}

ASSUME EnvPlansAssumption ==
  \A envPlan \in EnvPlans :
    /\ {"config", "site", "entry"} \subseteq DOMAIN envPlan.env
    /\ ConfigOK(envPlan.env.config.lines)
    /\ envPlan.env.site \in [Sites -> SiteStates]
    /\ Sites \X EntryNames \subseteq DOMAIN envPlan.env.entry
    /\ \A x \in Sites \X EntryNames : EntryOK(x[2], envPlan.env.entry[x])
    /\ \A change \in envPlan.changes :
         /\ \A s \in Sites \cap DOMAIN change.site : change.site[s] \in SiteStates
         /\ \A x \in (Sites \X EntryNames) \cap DOMAIN change.entry : EntryOK(x[2], change.entry[x])

VARIABLES
  env,      \* the environment: root stamp, config, sites, entries and their METADATA
  coming,   \* bound: the changes still to come, in any order
  calm,     \* nothing changed since the call began (history)
  audit     \* the call: its locals

envWorld == <<env, coming, calm>>

NoWarnings == [analysis |-> TRUE, inventory |-> TRUE, truncated |-> FALSE]

AuditOff == [pc |-> "off"]

AuditBegin ==
  [pc |-> "identify", root |-> 0, config |-> NoConfig, sites |-> <<>>,
   stamp |-> 0, names |-> <<>>, site |-> Lib, listed |-> {},
   todo |-> <<>>, over |-> FALSE, parsed |-> <<>>, left |-> MaxDependencies,
   observed |-> 0, skipped |-> 0, complete |-> NoWarnings,
   outcome |-> "none", findings |-> <<>>]

EnvInit ==
  /\ \E envPlan \in EnvPlans : env = envPlan.env /\ coming = envPlan.changes
  /\ calm = TRUE

-----------------------------------------------------------------------------
(* The call *)

Goto(pc) == audit' = [audit EXCEPT !.pc = pc]
Ends(outcome) == audit' = [audit EXCEPT !.pc = "over", !.outcome = outcome]

\* _ScanState.warn; only unverifiable requirements leave the inventory complete.
Warn(state, inventory, truncated) ==
  [analysis |-> FALSE, inventory |-> state.inventory /\ ~inventory,
   truncated |-> state.truncated \/ truncated]
Warned(state) == Warn(state, TRUE, FALSE)

Identify ==
  /\ audit.pc = "identify"
  /\ audit' = [audit EXCEPT !.pc = "config", !.root = env.root]
  /\ UNCHANGED envWorld

\* A link or no regular file is denied, as is one that changes meanwhile; whatever
\* else is wrong with the configuration makes the environment invalid.
ReadConfig ==
  /\ audit.pc = "config"
  /\ audit' =
       IF env.config.kind = "odd" THEN [audit EXCEPT !.pc = "over", !.outcome = "denied"]
       ELSE IF env.config.kind # "file" \/ ParseConfig(env.config.lines) = NoConfig
       THEN [audit EXCEPT !.pc = "invalid"]
       ELSE [audit EXCEPT !.pc = "same", !.config = ParseConfig(env.config.lines)]
  /\ UNCHANGED envWorld

\* _invalid_report, after _require_environment_identity.
Invalid ==
  /\ audit.pc = "invalid"
  /\ IF env.root = audit.root THEN Ends("invalid") ELSE Ends("denied")
  /\ UNCHANGED envWorld

Same ==
  /\ audit.pc = "same"
  /\ IF env.root = audit.root THEN Goto("lib") ELSE Ends("denied")
  /\ UNCHANGED envWorld

\* _optional_directory, for Lib and then for lib/pythonX.Y.
FindSite ==
  /\ audit.pc \in {"lib", "posix"}
  /\ LET s == IF audit.pc = "lib" THEN Lib ELSE PythonDirectory(audit.config)
         kind == IF s \in Sites THEN env.site[s].kind ELSE "none"
         next == IF audit.pc = "lib" THEN "posix" ELSE "layout" IN
     CASE kind = "odd" -> Ends("denied")
       [] kind = "dir" -> audit' = [audit EXCEPT !.pc = next, !.sites = Append(@, s)]
       [] OTHER -> Goto(next)
  /\ UNCHANGED envWorld

\* Two layouts, none, or packages of the system: the inventory is not whole.
Layout ==
  /\ audit.pc = "layout"
  /\ audit' = [audit EXCEPT !.pc = "list",
                 !.complete = IF Len(audit.sites) = 1 /\ audit.config.system = "false"
                              THEN @ ELSE Warned(@)]
  /\ UNCHANGED envWorld

\* The names in a directory, sorted.
EntriesOf(s) == At(Names, {i \in DOMAIN Names : Names[i] \in env.site[s].names})

\* bounded_sorted_entries: authorized, stamped and listed.
List ==
  /\ audit.pc = "list" /\ audit.sites # <<>>
  /\ LET s == Head(audit.sites)
         next == [audit EXCEPT !.sites = Tail(@)] IN
     CASE env.site[s].kind = "odd" -> Ends("denied")
       [] env.site[s].kind = "none" -> audit' = [next EXCEPT !.complete = Warned(@)]
       [] OTHER -> audit' = [next EXCEPT !.pc = "verify", !.site = s, !.stamp = env.site[s].stamp,
                               !.names = EntriesOf(s)]
  /\ UNCHANGED envWorld

\* Mutant: the listing is used as it came.
Verify_Unchecked ==
  /\ audit.pc = "verify"
  /\ audit' = IF Len(audit.names) > MaxEntries
              THEN [audit EXCEPT !.pc = "list", !.names = <<>>, !.complete = Warn(@, TRUE, TRUE)]
              ELSE [audit EXCEPT !.pc = "entries", !.listed = @ \cup env.site[audit.site].names]
  /\ UNCHANGED envWorld

\* Authorized and stamped again: another stamp denies; more than MaxEntries are
\* not looked at.
Verify ==
  /\ audit.pc = "verify"
  /\ LET now == env.site[audit.site] IN
     audit' =
       CASE now.kind = "odd" -> [audit EXCEPT !.pc = "over", !.outcome = "denied"]
         [] now.kind = "none" -> [audit EXCEPT !.pc = "list", !.complete = Warned(@)]
         [] now.kind = "dir" /\ now.stamp # audit.stamp -> [audit EXCEPT !.pc = "over", !.outcome = "denied"]
         [] OTHER ->
              IF Len(audit.names) > MaxEntries
              THEN [audit EXCEPT !.pc = "list", !.names = <<>>, !.complete = Warn(@, TRUE, TRUE)]
              ELSE [audit EXCEPT !.pc = "entries", !.listed = @ \cup now.names]
  /\ UNCHANGED envWorld

\* The next entry: legacy metadata only warns; a .dist-info directory is kept,
\* unless MaxMetadata are, if it is one.
Entry ==
  /\ audit.pc = "entries" /\ audit.names # <<>>
  /\ LET n == Head(audit.names)
         s == audit.site
         there == env.site[s].kind = "dir" /\ n \in env.site[s].names
         next == [audit EXCEPT !.names = Tail(@)]
         seen == [next EXCEPT !.observed = @ + 1] IN
     CASE n \in Eggs -> audit' = [next EXCEPT !.complete = Warned(@)]
       [] n \notin Eggs /\ Len(audit.todo) >= MaxMetadata ->
            audit' = [seen EXCEPT !.over = TRUE, !.skipped = @ + 1]
       [] n \notin Eggs /\ Len(audit.todo) < MaxMetadata ->
            IF env.site[s].kind = "odd" \/ (there /\ ~env.entry[s, n].directory) THEN Ends("denied")
            ELSE IF ~there THEN audit' = [seen EXCEPT !.skipped = @ + 1, !.complete = Warned(@)]
            ELSE audit' = [seen EXCEPT !.todo = Append(@, <<s, n>>)]
  /\ UNCHANGED envWorld

NextSite ==
  /\ audit.pc = "entries" /\ audit.names = <<>>
  /\ Goto("list")
  /\ UNCHANGED envWorld

\* All sites are listed; the environment must still be the same.
Discovered ==
  /\ audit.pc = "list" /\ audit.sites = <<>>
  /\ IF env.root # audit.root THEN Ends("denied")
     ELSE audit' = [audit EXCEPT !.pc = "read",
                      !.complete = IF audit.over THEN Warn(@, TRUE, TRUE) ELSE @]
  /\ UNCHANGED envWorld

\* One METADATA, with what is left of the dependency records.
ReadMetadata ==
  /\ audit.pc = "read" /\ audit.todo # <<>>
  /\ LET s == Head(audit.todo)[1]
         n == Head(audit.todo)[2]
         there == env.site[s].kind = "dir" /\ n \in env.site[s].names
         file == env.entry[s, n]
         package == ParseDistribution(file.headers, Min({MaxPerDistribution, audit.left}))
         next == [audit EXCEPT !.todo = Tail(@)] IN
     IF env.site[s].kind = "odd" \/ (there /\ (~file.directory \/ file.kind = "odd")) THEN Ends("denied")
     ELSE IF ~there \/ file.kind # "file" \/ package = NoPackage
     THEN audit' = [next EXCEPT !.skipped = @ + 1, !.complete = Warned(@)]
     ELSE audit' = [next EXCEPT !.parsed = Append(@, package), !.left = @ - Len(package.requirements),
                      !.complete = IF package.truncated THEN Warn(@, TRUE, TRUE) ELSE @]
  /\ UNCHANGED envWorld

-----------------------------------------------------------------------------
(* The report *)

ParsedNames == {audit.parsed[i].name : i \in DOMAIN audit.parsed}
With(name) == At(audit.parsed, {i \in DOMAIN audit.parsed : audit.parsed[i].name = name})
Ambiguous == {name \in ParsedNames : Len(With(name)) > 1}
Installed == [name \in ParsedNames \ Ambiguous |-> With(name)[1].version]
Requirements == FlattenSeq([i \in DOMAIN audit.parsed |-> audit.parsed[i].requirements])

\* Several distributions of one name make the inventory incomplete, a
\* requirement that cannot be evaluated only the analysis.
Completeness ==
  LET named == IF Ambiguous = {} THEN audit.complete ELSE Warned(audit.complete) IN
  IF \E r \in Range(Requirements) : Unverifiable(r) THEN Warn(named, FALSE, FALSE) ELSE named

Statuses ==
  [i \in DOMAIN Requirements |->
     EvaluateRequirement(Requirements[i], Installed, Ambiguous, Completeness.inventory)]

Assess ==
  /\ audit.pc = "read" /\ audit.todo = <<>>
  /\ audit' = [audit EXCEPT !.pc = "report", !.complete = Completeness,
                 !.findings = [i \in DOMAIN Requirements |-> [on |-> Requirements[i], status |-> Statuses[i]]]]
  /\ UNCHANGED envWorld

Found(status) == {i \in DOMAIN audit.findings : audit.findings[i].status = status}

\* The environment is identified a last time before the report is returned.
Report ==
  /\ audit.pc = "report"
  /\ IF env.root # audit.root THEN Ends("denied")
     ELSE Ends(IF ~audit.complete.analysis THEN "partial"
               ELSE IF Found("missing") \cup Found("incompatible") # {} THEN "issues" ELSE "noIssues")
  /\ UNCHANGED envWorld

\* A file is changed while it is read: BoundedRead.
Torn ==
  /\ audit.pc = "config" \/ (audit.pc = "read" /\ audit.todo # <<>>)
  /\ coming # {}
  /\ Ends("denied")
  /\ UNCHANGED envWorld

EnvNext ==
  \/ Identify \/ ReadConfig \/ Invalid \/ Same \/ FindSite \/ Layout \/ List \/ Verify
  \/ Entry \/ NextSite \/ Discovered \/ ReadMetadata \/ Assess \/ Report \/ Torn

\* An installer, or anybody: the environment becomes another one, whose stamps
\* tell where it differs.
Installer ==
  \E change \in coming :
    /\ env' = [env EXCEPT
         !.root = @ + change.root,
         !.site = [s \in Sites |-> IF s \notin DOMAIN change.site THEN @[s]
                                   ELSE [change.site[s] EXCEPT !.stamp = env.site[s].stamp + 1]],
         !.entry = [x \in DOMAIN @ |-> IF x \in DOMAIN change.entry THEN change.entry[x] ELSE @[x]]]
    /\ coming' = coming \ {change}
    /\ calm' = FALSE
    /\ UNCHANGED audit

-----------------------------------------------------------------------------
(* Properties *)

AuditReported == audit.pc = "over" /\ audit.outcome \in {"partial", "issues", "noIssues"}

AuditTypeOK ==
  /\ audit.pc \in {"off", "identify", "config", "invalid", "same", "lib", "posix", "layout",
                   "list", "verify", "entries", "read", "report", "over"}
  /\ audit.pc # "off" =>
       /\ audit.config = NoConfig \/ Len(audit.config.version) >= 2
       /\ Range(audit.names) \cup audit.listed \subseteq EntryNames
       /\ Len(audit.todo) <= MaxMetadata
       /\ Len(Requirements) <= MaxDependencies
       /\ \A i \in DOMAIN audit.parsed : audit.parsed[i].name # ""

\* A dependency is called missing only if the package was not in the site when
\* that was listed, under any name an entry can have, and if there is no other
\* place of the environment it could be in: not even while an installer runs.
MissingWasAbsent ==
  AuditReported /\ Found("missing") # {} =>
    /\ audit.config.system = "false"
    /\ \A i \in Found("missing") : \A n \in audit.listed :
         NameOf[n] # audit.findings[i].on.on

\* What the report says of itself adds up, and it is of the environment that was
\* asked for: each distribution observed was parsed or skipped, one skipped
\* makes the report partial, and the directory is the one of the first look.
ReportAddsUp ==
  AuditReported =>
    /\ audit.observed = Len(audit.parsed) + audit.skipped
    /\ audit.skipped > 0 => audit.outcome = "partial"
    /\ env.root = audit.root

\* What an environment that nobody changes has: its configuration, the sites found
\* by it, their distributions as they are parsed within no limit, what these want,
\* and what of it is not there in a version allowed.
EnvConfig == ParseConfig(env.config.lines)
EnvSites == {s \in Sites \cap {Lib, PythonDirectory(EnvConfig)} : env.site[s].kind = "dir"}
EnvDists == {x \in EnvSites \X (EntryNames \ Eggs) : x[2] \in env.site[x[1]].names}
EnvParsed(x) == ParseDistribution(env.entry[x].headers, MaxDependencies + 1)
EnvWanted == UNION {Range(EnvParsed(x).requirements) : x \in EnvDists}
EnvUnmet ==
  {r \in EnvWanted :
     ~\E x \in EnvDists : EnvParsed(x).name = r.on /\ EnvParsed(x).version \in r.versions}

\* It can be told without reserve: one site is found, all of it is parsed within the
\* limits, and no requirement needs evaluating.
EnvClear ==
  /\ env.config.kind = "file" /\ EnvConfig # NoConfig /\ EnvConfig.system = "false"
  /\ Cardinality(EnvSites) = 1
  /\ \A s \in EnvSites : /\ env.site[s].names \cap Eggs = {}
                         /\ Cardinality(env.site[s].names) <= MaxEntries
  /\ Cardinality(EnvDists) <= MaxMetadata
  /\ \A x \in EnvDists : env.entry[x].kind = "file" /\ EnvParsed(x) # NoPackage
  /\ \A x, y \in EnvDists : x # y => EnvParsed(x).name # EnvParsed(y).name
  /\ \A x \in EnvDists : EnvParsed(x).declared <= MaxPerDistribution
  /\ FoldFunctionOnSet(+, 0, [x \in EnvDists |-> EnvParsed(x).declared], EnvDists) <= MaxDependencies
  /\ \A r \in EnvWanted : ~Unverifiable(r)

\* The report on an environment nobody changes is what its files say: it speaks
\* without reserve exactly if the environment is clear, and then it finds issues
\* exactly if a dependency is not there or not in a version allowed.
AuditQuietExact ==
  audit.pc = "over" /\ calm =>
    /\ EnvClear => audit.outcome \notin {"partial", "invalid"}
    /\ audit.outcome \in {"issues", "noIssues"} =>
         EnvClear /\ (audit.outcome = "issues") = (EnvUnmet # {})
=============================================================================
