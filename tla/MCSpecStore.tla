----------------------------- MODULE MCSpecStore ----------------------------
(* Instances of SpecStore for TLC: entries and processes are alike.        *)
EXTENDS SpecStore, TLC
Ids == Permutations(Entry) \cup Permutations(Inside) \cup Permutations(Proc \ Inside)
=============================================================================
