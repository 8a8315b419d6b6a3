---------------------------- MODULE MCFixedFiles ----------------------------
(***************************************************************************)
(* TLC instance of FixedFiles: more descriptors than slots.                *)
(***************************************************************************)
EXTENDS FixedFiles, TLC

CONSTANTS f1, f2, f3, a, b

ThreeFds == {f1, f2, f3}
TwoFiles == {a, b}

\* Numbers and files are interchangeable
Symmetries == Permutations(ThreeFds) \cup Permutations(TwoFiles)
=============================================================================
