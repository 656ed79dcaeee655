--------------------------- MODULE MCRedisFlight ---------------------------
(* A small instance of RedisFlight for TLC: Redis.cfg gives the constants. *)
EXTENDS RedisFlight
=============================================================================
