---------------------------- MODULE MCTreeTools -----------------------------
(* Small instances of TreeTools: two files and a subdirectory with two more. *)
EXTENDS TreeTools

d == <<"d">>
da == <<"d", "a">>
db == <<"d", "b">>
fa == <<"a">>
fb == <<"b">>
n == <<"n">>

TheOrder == <<fa, fb, d, n, da, db>>

No == [kind |-> "none", size |-> 0]
F(s) == [kind |-> "file", size |-> s]
Odd(k) == [kind |-> k, size |-> 0]
Dir == Odd("dir")

Trees(as, bs, ds, ns, das, dbs) ==
  {(fa :> a @@ fb :> b @@ d :> e @@ n :> m @@ da :> x @@ db :> y) :
     a \in as, b \in bs, e \in ds, m \in ns, x \in das, y \in dbs}

Nothing == [p \in Paths |-> {}]

\* Every combination, left alone.
QuietPlans ==
  {[tree |-> t, changes |-> 0, to |-> Nothing] :
     t \in Trees({No, F(0), F(1), F(2), Odd("link")}, {No, F(1), F(3), Odd("hard")},
                 {No, Dir, Odd("locked"), Odd("link")}, {No, Odd("link"), Dir},
                 {No, F(0), F(2), Odd("other"), Dir}, {No, F(1)})}

\* Some that are changed once or twice, at any step.
RestlessPlans ==
  {[tree |-> t, changes |-> 2,
    to |-> fa :> {No, F(2), Odd("link")} @@ fb :> {F(2)} @@ d :> {No, Dir, Odd("link"), Odd("locked")}
           @@ n :> {} @@ da :> {No, F(2), Odd("link")} @@ db :> {F(1)}] :
     t \in Trees({F(1)}, {F(1)}, {Dir}, {No}, {F(1)}, {No})}

AllPlans == QuietPlans \cup RestlessPlans

Requests ==
  {[target |-> t, maxFiles |-> m, limit |-> 1] : t \in {Top}, m \in {2, 4}}
  \cup {[target |-> t, maxFiles |-> 2, limit |-> 1] : t \in {d, fb, da, n, <<"out">>}}

WantedPaths == {fa, fb, da, db}
AllSources == {fa, fb, da}
TheOutside == <<"out">>
WantedOrDir == {fa, fb, d}
OnlyN == {n}
OnlyDB == {db}
-----------------------------------------------------------------------------
(* Environments *)

P312 == <<3, 12>>
TheSites == {<<>>, P312}
TheNames == <<"a", "b", "b2", "c">>
TheNameOf == "a" :> "a" @@ "b" :> "b" @@ "b2" :> "b" @@ "c" :> "c"

L(key, value) == [key |-> key, value |-> value]
Good == <<L("version_info", <<3, 12, 1>>), L("include-system-site-packages", "false")>>
Configs ==
  {[kind |-> "file", lines |-> lines] :
     lines \in {Good, <<L("version", <<3, 12>>), L("other", "x")>>,
                <<L("version", <<3, 12>>), L("version_info", <<3, 12, 1>>)>>,
                <<L("version", <<3, 12>>), L("", "")>>,
                <<L("version", <<3, 12, 1>>), L("version_info", <<3, 12, 1>>),
                  L("include-system-site-packages", "true")>>}}
  \cup {[kind |-> kind, lines |-> <<>>] : kind \in {"none", "odd"}}

Site(names) == [kind |-> "dir", names |-> names, stamp |-> 0]
NoSite == [kind |-> "none", names |-> {}, stamp |-> 0]
OddSite == [kind |-> "odd", names |-> {}, stamp |-> 0]

On(package, versions, obstacles) ==
  L("requires-dist", [on |-> package, versions |-> versions, obstacles |-> obstacles])
File(headers) == [directory |-> TRUE, kind |-> "file", headers |-> headers]
Metadata(name, version, requires) == File(<<L("name", name), L("version", version)>> \o requires)

MetadataOfA ==
  {Metadata("a", 1, requires) :
     requires \in {<<>>, <<On("b", {1}, {})>>, <<On("b", {2}, {})>>, <<On("b", {1}, {"marker"})>>,
                   <<On("b", {1}, {}), On("c", {1}, {})>>,
                   <<On("b", {1}, {}), On("c", {1}, {}), On("b", {1}, {})>>}}
  \cup {[directory |-> TRUE, kind |-> "large", headers |-> <<>>],
        [directory |-> FALSE, kind |-> "none", headers |-> <<>>]}
MetadataOfB == {Metadata("b", 1, <<>>), Metadata("b", 1, <<On("a", {1}, {})>>), Metadata("", 1, <<>>)}

Environment(config, lib, posix, a, b) ==
  [root |-> 0, config |-> config, site |-> <<>> :> lib @@ P312 :> posix,
   entry |-> [x \in TheSites \X Range(TheNames) |->
                CASE x[2] = "a" -> a [] x[2] = "b" -> b [] x[2] = "b2" -> Metadata("b", 2, <<>>)
                  [] OTHER -> Metadata("c", 1, <<>>)]]

\* Every combination, left alone.
QuietEnvironments ==
  {[env |-> Environment(config, lib, posix, a, b), changes |-> {}] :
     config \in Configs, lib \in {NoSite, Site({"a"})}, a \in MetadataOfA, b \in MetadataOfB,
     posix \in {Site(names) : names \in {{}, {"a"}, {"a", "b"}, {"a", "c"}, {"b", "b2"},
                                          {"a", "b", "b2"}, {"a", "b", "b2", "c"}}}
               \cup {NoSite, OddSite}}

\* What an installer does to some of them: it installs b, which a requires, it
\* removes a, it changes what a requires, and it touches the environment.
To(site, entry, root) == [site |-> site, entry |-> entry, root |-> root]
Upheavals ==
  {To(P312 :> Site({"a", "b"}), <<>>, 0), To(P312 :> Site({"b"}), <<>>, 0),
   To(<<>>, <<P312, "a">> :> Metadata("a", 1, <<On("c", {1}, {})>>), 0), To(<<>>, <<>>, 1),
   To(P312 :> OddSite, <<>>, 0), To(P312 :> NoSite, <<>>, 0)}
RestlessEnvironments ==
  {[env |-> Environment([kind |-> "file", lines |-> Good], NoSite, Site({"a"}), a,
                        Metadata("b", 1, <<>>)), changes |-> Upheavals] :
     a \in {Metadata("a", 1, <<On("b", {1}, {})>>)}}

AllEnvironments == QuietEnvironments \cup RestlessEnvironments
OnlyEgg == {"c"}
=============================================================================
