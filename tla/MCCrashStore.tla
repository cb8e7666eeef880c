---------------------------- MODULE MCCrashStore ----------------------------
(***************************************************************************)
(* CrashStore on a small instance: two names and rowids, so that an app or *)
(* an issue can be deleted and its rowid given out again; three reports    *)
(* over two traces, so that an issue holds several; two keys, for two apps *)
(* (one in the other's place, or beside it) or for one and a rotation; two *)
(* times, in either order.  A chart has two days, and a breakdown room for *)
(* one value less than there are.                                          *)
(***************************************************************************)
EXTENDS Dashboard, TLC

Symmetry ==
    Permutations(Names) \cup Permutations(Keys) \cup Permutations(Rids)
        \cup Permutations(Hashes)

\* Conditions without a search that leave out one report at most; and a search
\* without other conditions that finds the title of one report, and no stack trace.
MCWheres ==
    {[picks |-> ids, texts |-> Rids, titles |-> Rids] :
        ids \in {Rids} \cup {Rids \ {r} : r \in Rids}}
        \cup {[picks |-> Rids, texts |-> {}, titles |-> {r}] : r \in Rids}

=============================================================================
