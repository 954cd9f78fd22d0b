----------------------------- MODULE MCFlatAst -----------------------------
(***************************************************************************)
(* Two files and three names (one of them empty), with the limits of the   *)
(* encoding brought down to where the run passes them: two ids fit a       *)
(* payload word and a third does not, a list of CountLimit children does   *)
(* not fit a count.                                                        *)
(***************************************************************************)
EXTENDS FlatAst, TLC

CONSTANTS MaxKids

MCKids == {NullNode, 1}

MCKidLists == UNION {[1..n -> MCKids] : n \in 0..MaxKids}

Symmetry == Permutations(FileId) \cup Permutations(Str \ {EmptyStr})
=============================================================================
