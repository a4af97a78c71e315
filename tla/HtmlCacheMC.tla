----------------------------- MODULE HtmlCacheMC ----------------------------
(* The cache for model checking: views, URLs and jobs may be exchanged.     *)
EXTENDS HtmlCache, TLC

Symmetry == Permutations(View) \cup Permutations(Url) \cup Permutations(Job)
=============================================================================
