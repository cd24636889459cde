--------------------------- MODULE MCRateLimiter ---------------------------
(* TransactionRateLimiter on a small clock. *)
EXTENDS RateLimiter
=============================================================================
