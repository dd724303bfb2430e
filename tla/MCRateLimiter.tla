--------------------------- MODULE MCRateLimiter ---------------------------
(* Small instances of RateLimiter that TLC explores.                        *)
EXTENDS RateLimiter
=============================================================================
