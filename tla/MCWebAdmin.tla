----------------------------- MODULE MCWebAdmin -----------------------------
(***************************************************************************)
(* WebAdmin on a small instance: two tabs, enough requests for an app to   *)
(* be created, its key rotated from both tabs, the app deleted and another *)
(* created in its place, and for an issue or a report to be seen in one    *)
(* tab and deleted in the other; and two mishaps: statements that fail,    *)
(* answers that are lost, restarts.                                        *)
(***************************************************************************)
EXTENDS WebAdmin, TLC

Symmetry == Permutations(Tabs) \cup Permutations(Keys) \cup Permutations(Hashes)
                \cup Permutations(Names) \cup Permutations(Rids)

=============================================================================
