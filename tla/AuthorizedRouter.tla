--------------------------- MODULE AuthorizedRouter ---------------------------
(***************************************************************************)
(* AgentRouter behind OAuth21Provider: the callers of remote runs obtain   *)
(* tokens, have one introspected, and dispatch with its claims while codes *)
(* and tokens expire and other clients go through the same exchange.  The  *)
(* router is given claims, not a token: nothing is looked up again later.  *)
(***************************************************************************)
EXTENDS AgentRouter

CONSTANTS
  Remote,  \* runs of remote callers; the others dispatch without claims
  Clients, Verifiers, Redirects, AllowedRedirects, Asked, Codes, Accesses

VARIABLES
  code, access,
  claims   \* the token whose claims the caller of a run passes, or Nil

Auth == INSTANCE OAuth

ASSUME AuthAssumption ==
  /\ Remote \subseteq Runs
  /\ Auth!OAuthAssumption
  /\ \A scopes \in SUBSET Auth!ALL_SCOPES : scopes # Nil

authVars == <<code, access, claims>>
allVars == <<vars, authVars>>

AuthTypeOK ==
  /\ TypeOK
  /\ Auth!TypeOK
  /\ claims \in [Runs -> Accesses \cup {Nil}]

AuthInit ==
  /\ Init
  /\ Auth!Init
  /\ claims = [r \in Runs |-> Nil]

ClaimedScopes(r) == IF claims[r] = Nil THEN Nil ELSE access[claims[r]].scopes

(* introspect, before a dispatch. *)
Introspect(r, a) ==
  /\ r \in Remote /\ ~Busy(r)
  /\ Auth!Introspects(a)
  /\ claims' = [claims EXCEPT ![r] = a]
  /\ UNCHANGED <<vars, code, access>>

DispatchWithClaims(r) ==
  /\ DispatchAmong(r, {q \in Request : q.scopes = ClaimedScopes(r)})
  /\ UNCHANGED authVars

AuthNext ==
  \/ \E r \in Runs : DispatchWithClaims(r) \/ \E a \in Accesses : Introspect(r, a)
  \/ Auth!Next /\ UNCHANGED <<vars, claims>>
  \/ Meanwhile /\ UNCHANGED authVars

AuthSpec == AuthInit /\ [][AuthNext]_allVars

-----------------------------------------------------------------------------
(* "access token bound to least-privilege scopes" (oauth.py:7): what runs  *)
(* for a caller with claims was granted to its client, reading alone also  *)
(* to one that manages budgets; a destructive tool only to a client that   *)
(* was granted payments:execute, however long ago it was introspected.     *)
LeastPrivilege ==
  \A r \in Runs : Busy(r) /\ claims[r] # Nil =>
    LET g == code[access[claims[r]].grant]
    IN  IF call[r].tool \in Destructive
        THEN "payments:execute" \in g.scopes
        ELSE {Needed(call[r].tool), "admin:budget"} \cap g.scopes # {}

OneTokenPerGrant == Auth!OneTokenPerGrant

=============================================================================
