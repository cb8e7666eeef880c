----------------------------- MODULE MCWalIngest -----------------------------
(***************************************************************************)
(* WalIngest on a small instance: two processes that ingest the same or    *)
(* different reports, of the same or different traces, while apps, issues  *)
(* and reports come and go.  The issue pages read what is committed; a     *)
(* page has one row, so that two issues, or two reports, take two pages.   *)
(***************************************************************************)
EXTENDS WalIngest, IssuePages

\* Any conditions without a search; and a search without other conditions that
\* finds the title of one report, and no stack trace or those of the others.
MCWheres ==
    {[picks |-> ids, texts |-> Rids, titles |-> Rids] : ids \in SUBSET Rids}
        \cup {[picks |-> Rids, texts |-> {}, titles |-> {r}] : r \in Rids}
        \cup {[picks |-> Rids, texts |-> Rids \ {r}, titles |-> {r}] : r \in Rids}

=============================================================================
