--------------------------- MODULE MCHttpClient ----------------------------
(***************************************************************************)
(* Two readers and a caller that mutates share one limiter.                *)
(***************************************************************************)
EXTENDS HttpClient

CONSTANTS r1, r2, m

MCCaller == {r1, r2, m}
MCMutating == {m}
=============================================================================
