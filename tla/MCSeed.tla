------------------------------- MODULE MCSeed -------------------------------
(***************************************************************************)
(* Instances of Seed for TLC.                                              *)
(***************************************************************************)
EXTENDS Seed, TLC

\* Three tasks: the third needs the first two, the second the first.
Chain == {1, 2, 3}
ChainDependsOn == (1 :> {}) @@ (2 :> {1}) @@ (3 :> {1, 2})

Two == {1, 2}
TwoDependsOn == (1 :> {}) @@ (2 :> {1})

\* What fails is seen to have failed.
Honest ==
  {<<"create", "lost">>, <<"edit", "lost">>, <<"edit", "late">>, <<"process", "stop">>}
Unseen == {<<"create", "late">>}
Anything == Honest \cup {<<"create", "late">>, <<"record", "stop">>}

Symmetry == Permutations(Numbers) \cup Permutations(Planners)
=============================================================================
