---------------------------- MODULE MCFipsClient ----------------------------
(* Instances of FipsClient for TLC: every subscription accepts every event. *)
EXTENDS FipsClient

MCMatches == [s \in Subs |-> Events]

Symmetry == Permutations(Events)
=============================================================================
