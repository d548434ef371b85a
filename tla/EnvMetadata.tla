---------------------------- MODULE EnvMetadata -----------------------------
(***************************************************************************)
(* What the environment auditor makes of the bytes it reads                *)
(* (tools/environment/inspection.py): pyvenv.cfg, the METADATA of a        *)
(* distribution, and one dependency against what is installed.             *)
(*                                                                         *)
(* A line or header is its key and its value.  A version is the sequence   *)
(* of its release numbers, <<>> if it is none; that of a package is a      *)
(* number, 0 if it is none.  "" is no name.                                *)
(***************************************************************************)
EXTENDS Naturals, Sequences, SequencesExt, FiniteSetsExt

NoConfig == [version |-> <<>>, system |-> "invalid"]

\* The elements at some places of a sequence, in its order.
Before(i, places) == {j \in places : j < i}
At(s, places) ==
  [k \in 1..Cardinality(places) |->
     s[CHOOSE i \in places : Cardinality(Before(i, places)) = k - 1]]

Of(key, lines) == At(lines, {i \in DOMAIN lines : lines[i].key = key})

\* The first three numbers of a release, the missing ones zero.
Padded(release) == [i \in 1..3 |-> IF i <= Len(release) THEN release[i] ELSE 0]

\* _parse_config_version: version needs two numbers, version_info three, and
\* they must agree where both are given.
ConfigVersion(versions, infos) ==
  IF \/ versions # <<>> /\ Len(versions[1].value) < 2
     \/ infos # <<>> /\ Len(infos[1].value) < 3
     \/ versions # <<>> /\ infos # <<>> /\ Padded(versions[1].value) # Padded(infos[1].value)
  THEN <<>>
  ELSE IF versions # <<>> THEN versions[1].value ELSE SubSeq(infos[1].value, 1, 3)

\* _parse_config.  The key "" is that of a line without "=".
ParseConfig(lines) ==
  LET versions == Of("version", lines)
      infos == Of("version_info", lines)
      includes == Of("include-system-site-packages", lines)
      usable == /\ Of("", lines) = <<>>
                /\ Len(versions) <= 1 /\ Len(infos) <= 1 /\ Len(includes) <= 1
                /\ versions \o infos # <<>>
  IN IF ~usable \/ ConfigVersion(versions, infos) = <<>> THEN NoConfig
     ELSE [version |-> ConfigVersion(versions, infos),
           system |-> IF includes = <<>> \/ includes[1].value \notin {"true", "false"}
                      THEN "unknown" ELSE includes[1].value]

\* _python_directory_name.
PythonDirectory(config) == <<config.version[1], config.version[2]>>

-----------------------------------------------------------------------------
NoPackage == [name |-> "", version |-> 0, requirements |-> <<>>, declared |-> 0, truncated |-> FALSE]

\* parse_distribution_metadata: one name, one version, and the first of the
\* dependencies declared.
ParseDistribution(headers, cap) ==
  LET names == Of("name", headers)
      versions == Of("version", headers)
      requires == Of("requires-dist", headers)
      kept == SubSeq(requires, 1, Min({Len(requires), cap}))
  IN IF \/ Len(names) # 1 \/ Len(versions) # 1
        \/ names[1].value = "" \/ versions[1].value = 0
     THEN NoPackage
     ELSE [name |-> names[1].value, version |-> versions[1].value,
           requirements |-> [i \in DOMAIN kept |-> kept[i].value],
           declared |-> Len(requires), truncated |-> Len(requires) > cap]

-----------------------------------------------------------------------------
\* A requirement: what it is on, the versions it allows, and whatever keeps it
\* from being evaluated.
Obstacles == {"invalid", "url", "marker", "extras"}

\* _intrinsically_unverifiable.
Unverifiable(requirement) == requirement.obstacles # {}

\* evaluate_requirement: the status of a finding, "satisfied" for none.
EvaluateRequirement(requirement, installed, ambiguous, complete) ==
  IF Unverifiable(requirement) \/ requirement.on \in ambiguous THEN "unverifiable"
  ELSE IF requirement.on \notin DOMAIN installed
  THEN IF complete THEN "missing" ELSE "unverifiable"
  ELSE IF installed[requirement.on] \notin requirement.versions THEN "incompatible"
  ELSE "satisfied"
=============================================================================
