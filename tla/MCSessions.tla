----------------------------- MODULE MCSessions -----------------------------
(***************************************************************************)
(* Sessions on a small instance: a second has two ticks and a session      *)
(* lives for three, so that an expiry may be truncated and a session may   *)
(* expire, be pruned and be used again, by two requests at once.  The time *)
(* is enough for a login, a renewal and the end of what was renewed.       *)
(***************************************************************************)
EXTENDS Sessions

=============================================================================
