------------------------------ MODULE Selection ------------------------------
(***************************************************************************)
(* Array.prototype.filter as the code uses it, for the modules whose lists *)
(* are reasoned about: tlapm knows nothing of SelectSeq, but folds.        *)
(***************************************************************************)
EXTENDS Naturals, SequencesExt

\* The members of s that are in S, in the order they stand.
Selected(s, S) ==
    FoldLeft(LAMBDA kept, x : IF x \in S THEN Append(kept, x) ELSE kept, <<>>, s)
=============================================================================
