--------------------------- MODULE MCIngestServer ---------------------------
(***************************************************************************)
(* IngestServer on a small instance: two crashes with the same trace, of   *)
(* one app; the first phone retries over two connections at once, the      *)
(* second has one.  The admin has enough operations to create an app, to   *)
(* delete it and to create another in its place, or to rotate its key.     *)
(* MCFiledUnder has a second name, to tell the two apps apart.             *)
(***************************************************************************)
EXTENDS IngestServer, TLC

CONSTANTS c1, c2, c3, r1, r2, k1, h1

MCOwner == c1 :> r1 @@ c2 :> r1 @@ c3 :> r2

MCKeyOf == [rid \in Rids |-> k1]

MCHashOf == [rid \in Rids |-> h1]

=============================================================================
