------------------------------- MODULE MCSeed -------------------------------
(***************************************************************************)
(* Seed on a small instance: two demo apps with two reports each, of one   *)
(* trace; two processes, one crash, one report that fails, and an admin    *)
(* who may delete an app under a run and create another in its place.      *)
(***************************************************************************)
EXTENDS Seed, TLC

CONSTANTS n1, n2, n3, h1

MCDemo == <<n1, n2>>

MCRids == Rowids \X (1..PerApp)

MCSeedId == [pair \in Rowids \X (1..PerApp) |-> pair]

MCTraceOf == [i \in 1..PerApp |-> h1]

Symmetry == Permutations(Seeds) \cup Permutations(Keys)

=============================================================================
