----------------------------- MODULE MCAppScreens -----------------------------
(* Files and places of text are interchangeable. *)
EXTENDS AppScreens, TLC

Symmetry == Permutations(File) \cup Permutations(Rect)
===============================================================================
