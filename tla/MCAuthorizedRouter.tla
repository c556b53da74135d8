-------------------------- MODULE MCAuthorizedRouter --------------------------
(* An online run of a remote caller and a local one that is offline; two   *)
(* clients go through the authorization flow for two codes and two tokens. *)
EXTENDS AuthorizedRouter, TLC

MCTools == {"mpesa_stk_query", "mpesa_stk_push"}
Push == {"mpesa_stk_push"}
Query == {"mpesa_stk_query"}
Loopback == [scheme |-> "http", host |-> "loopback"]
Elsewhere == [scheme |-> "http", host |-> "named"]
MCRedirects == {Loopback, Elsewhere}
MCAllowed == {Loopback}
MCAsked == {{"payments:execute"}, {"admin:budget"}}
MCTokens == {Nil} \cup MCAsked
AllEscapes == {"circuit_open", "interrupted"}

FlowSymmetry ==
  UNION {Permutations(S) : S \in {Clients, Verifiers, Codes, Accesses}}
=============================================================================
