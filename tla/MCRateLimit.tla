---------------------------- MODULE MCRateLimit ----------------------------
(***************************************************************************)
(* RateLimit on a small instance: a token is four units, a bucket gains    *)
(* one unit in each of the two ticks of a second and holds two tokens, so  *)
(* that Retry-After is truncated, and a bucket is swept after nine ticks,  *)
(* when it has had the time to fill.                                       *)
(***************************************************************************)
EXTENDS RateLimit, TLC

Symmetry == Permutations(Ips)

=============================================================================
