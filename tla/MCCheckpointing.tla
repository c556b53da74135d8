--------------------------- MODULE MCCheckpointing ----------------------------
(* A run with an opaque id and one with a customer's id, each with or      *)
(* without a row of the stock saver, and keys that change over restarts.   *)
EXTENDS Checkpointing, TLC

CONSTANTS r1, customer, k1, k2, unset

KeySymmetry == Permutations({k1, k2})
=============================================================================
