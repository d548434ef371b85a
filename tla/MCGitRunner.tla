---------------------------- MODULE MCGitRunner -----------------------------
(* Small instances of GitRunner: three object stores of which two may be    *)
(* used, and repositories with at most one thing amiss, some of which       *)
(* others change during the call.                                           *)
EXTENDS GitRunner

CONSTANTS b1, b2

AFewLists == {<<>>, <<b1>>, <<b2>>, <<b2, Main>>, <<Main, b2>>, <<Outside>>}

\* One store that leads to the other, and one that leads out.
ALead == [s \in Stores |-> IF s = b1 THEN b2 ELSE Outside]

Repository(lists, loose, linked, holding, missing) ==
  [lists |-> lists, loose |-> loose, linked |-> linked, holding |-> holding,
   missing |-> missing, stamp |-> [p \in Parts |-> 1]]

\* Every combination of lists, left alone.
QuietPlans ==
  {[repo |-> Repository(lists, loose, odd[1], odd[2], odd[3]), changes |-> 0] :
     lists \in [Stores -> Lists],
     loose \in {[s \in Stores |-> CASE s = Main -> n [] s = b2 -> 1 [] OTHER -> 0] : n \in {0, 1}},
     odd \in {<<{}, {}, {}>>, <<{b1}, {}, {}>>, <<{b2}, {}, {}>>, <<{Main}, {}, {}>>,
              <<{}, {b1}, {}>>, <<{b1}, {b2}, {}>>, <<{}, {Refs}, {}>>, <<{}, {}, {b2}>>}}

\* One that borrows from a store, changed twice, and one that does not, changed
\* once.
Chain == [s \in Stores |-> IF s = Main THEN <<b1>> ELSE <<>>]
RestlessPlans ==
  {[repo |-> Repository(Chain, [s \in Stores |-> 0], {}, {}, {}), changes |-> 2],
   [repo |-> Repository([s \in Stores |-> <<>>], [s \in Stores |-> 0], {}, {}, {}), changes |-> 1]}

AllPlans == QuietPlans \cup RestlessPlans
=============================================================================
