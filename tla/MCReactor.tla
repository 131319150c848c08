----------------------------- MODULE MCReactor -----------------------------
(* Instances of Reactor for TLC: the constants are given in the cfg files. *)
EXTENDS Reactor

\* Workers are interchangeable, and so are the jobs, Wakers apart
ReactorSymmetry == Permutations(Workers) \cup Permutations(Jobs \ Wakers) \cup Permutations(Wakers)
=============================================================================
