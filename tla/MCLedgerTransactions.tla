------------------------- MODULE MCLedgerTransactions -------------------------
(* An instance of LedgerTransactions for TLC: one payment, a callback that *)
(* the provider may deliver again, another event, and a second body under  *)
(* the first event's id.                                                   *)
EXTENDS LedgerTransactions, TLC

CONSTANTS s1, s2, t1, e1, e2, d1, d2, d3, w1, w2

MCEventOf == d1 :> e1 @@ d2 :> e2 @@ d3 :> e1
MCTxnOf == [d \in Deliveries |-> t1]

SessionSymmetry == Permutations({s1, s2}) \cup Permutations({w1, w2})
=============================================================================
