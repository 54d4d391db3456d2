-------------------------- MODULE MCRequestServer ---------------------------
(***************************************************************************)
(* RequestServer for TLC.                                                  *)
(***************************************************************************)
EXTENDS RequestServer, TLC

\* Clients are alike, and so are detached threads.
Symmetry == Permutations(Clients) \cup Permutations(Threads)
=============================================================================
