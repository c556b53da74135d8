------------------------ MODULE AuthorizedRouterProofs -------------------------
(***************************************************************************)
(* The OAuth provider and the router behind it, for any clients, codes,    *)
(* tokens, redirect URIs and runs.  Every step of the composition is a     *)
(* step of AgentRouter or leaves its variables alone, so what              *)
(* AgentRouterProofs shows holds here too; the invariants below add the    *)
(* tokens.                                                                 *)
(***************************************************************************)
EXTENDS AuthorizedRouter, AgentRouterProofs

(* A used token names the code it came from; that code is used up, so no   *)
(* second exchange of it can succeed.                                      *)
GrantsSpent ==
  \A a \in Accesses :
    /\ access[a].time # "none" => access[a].grant \in Codes
    /\ access[a].grant # Nil =>
         /\ access[a].time # "none"
         /\ code[access[a].grant].time = "gone"

(* The claims a caller holds are those of a token that was issued. *)
ClaimsIssued ==
  \A r \in Runs : claims[r] # Nil => access[claims[r]].time # "none"

Permits(scopes, tool) ==
  IF tool \in Destructive THEN "payments:execute" \in scopes
  ELSE {Needed(tool), "admin:budget"} \cap scopes # {}

CallsPermitted ==
  \A r \in Runs :
    Busy(r) /\ claims[r] # Nil => Permits(access[claims[r]].scopes, call[r].tool)

TokensTyped ==
  /\ Auth!TypeOK
  /\ claims \in [Runs -> Accesses \cup {Nil}]

AuthInv ==
  /\ TokensTyped
  /\ Auth!OneTokenPerGrant
  /\ GrantsSpent
  /\ ClaimsIssued
  /\ CallsPermitted

-----------------------------------------------------------------------------
(* AuthorizedRouter implements AgentRouter: the requests a caller's claims *)
(* leave it are requests of the router, and the OAuth provider touches     *)
(* nothing the router keeps.                                               *)
LEMMA AuthStepIsRouterStep == [AuthNext]_allVars => [Next]_vars
<1> SUFFICES ASSUME [AuthNext]_allVars
             PROVE  [Next]_vars
  OBVIOUS
<1>1. CASE \E r \in Runs : DispatchWithClaims(r)
  <2>1. PICK r \in Runs : DispatchWithClaims(r)
    BY <1>1
  <2>2. DispatchAmong(r, {q \in Request : q.scopes = ClaimedScopes(r)})
    BY <2>1 DEF DispatchWithClaims
  <2>3. Dispatch(r)
    BY <2>2 DEF Dispatch, DispatchAmong
  <2>4. QED
    BY <2>3 DEF Next
<1>2. CASE \E r \in Runs, a \in Accesses : Introspect(r, a)
  BY <1>2 DEF Introspect
<1>3. CASE UNCHANGED vars
  BY <1>3
<1>4. CASE Meanwhile
  BY <1>4 DEF Next
<1>5. QED
  BY <1>1, <1>2, <1>3, <1>4 DEF AuthNext, allVars

THEOREM AuthImplementsRouter == AuthSpec => Spec
<1>1. AuthInit => Init
  BY DEF AuthInit
<1>2. QED
  BY <1>1, AuthStepIsRouterStep, PTL DEF AuthSpec, Spec

-----------------------------------------------------------------------------
LEMMA AuthInitInv == AuthInit => AuthInv
<1> SUFFICES ASSUME AuthInit
             PROVE  AuthInv
  OBVIOUS
<1>1. /\ code = [c \in Codes |-> [time |-> "none", client |-> Nil,
                                  redirect |-> Nil, challenge |-> Nil,
                                  scopes |-> {}]]
      /\ access = [a \in Accesses |-> [time |-> "none", client |-> Nil,
                                       scopes |-> {}, grant |-> Nil]]
      /\ claims = [r \in Runs |-> Nil]
  BY DEF AuthInit, Auth!Init
<1>2. TokensTyped
  BY <1>1 DEF TokensTyped, Auth!TypeOK, Auth!Code, Auth!Access, Auth!Times
<1>3. Auth!OneTokenPerGrant /\ GrantsSpent /\ ClaimsIssued /\ CallsPermitted
  BY <1>1 DEF Auth!OneTokenPerGrant, GrantsSpent, ClaimsIssued, CallsPermitted
<1>4. QED
  BY <1>2, <1>3 DEF AuthInv

-----------------------------------------------------------------------------
(* Each call on the provider, with the token invariants alone. *)
Granted ==
  /\ Auth!TypeOK
  /\ Auth!OneTokenPerGrant
  /\ GrantsSpent

(* Tokens issued before stay issued, with the same client, scopes and      *)
(* grant.                                                                  *)
TokensKept ==
  \A a \in Accesses : access[a].time # "none" =>
    /\ access'[a].time # "none"
    /\ access'[a].client = access[a].client
    /\ access'[a].scopes = access[a].scopes
    /\ access'[a].grant = access[a].grant

LEMMA AuthorizeGranted ==
  ASSUME Granted, NEW c \in Codes, NEW client \in Clients, NEW u \in Redirects,
         NEW v \in Verifiers, NEW scopes,
         Auth!Authorize(c, client, u, v, scopes)
  PROVE  Granted' /\ TokensKept
<1> DEFINE new == [time |-> "live", client |-> client, redirect |-> u,
                   challenge |-> v, scopes |-> scopes]
<1>1. /\ code[c].time = "none" /\ scopes \in SUBSET Auth!ALL_SCOPES
      /\ code' = [code EXCEPT ![c] = new] /\ access' = access
  BY DEF Auth!Authorize
<1>2. code \in [Codes -> Auth!Code] /\ access \in [Accesses -> Auth!Access]
  BY DEF Granted, Auth!TypeOK
<1>3. new \in Auth!Code
  BY <1>1 DEF Auth!Code, Auth!Times
<1> HIDE DEF new
<1>4. Auth!TypeOK'
  BY <1>1, <1>2, <1>3 DEF Auth!TypeOK
<1>5. \A d \in Codes : code[d].time = "gone" => code'[d] = code[d]
  BY <1>1, <1>2
<1>6. ASSUME NEW a \in Accesses, access[a].grant # Nil
      PROVE  code'[access[a].grant] = code[access[a].grant]
  <2>1. access[a].grant \in Codes /\ code[access[a].grant].time = "gone"
    BY <1>6 DEF Granted, GrantsSpent
  <2>2. QED
    BY <1>5, <2>1
<1>7. GrantsSpent' /\ Auth!OneTokenPerGrant'
  BY <1>1, <1>6 DEF Granted, GrantsSpent, Auth!OneTokenPerGrant, Auth!RedirectAllowed
<1>8. QED
  BY <1>1, <1>4, <1>7 DEF Granted, TokensKept

(* The clocks, and introspection of an expired token, change times alone.  *)
LEMMA TimesGranted ==
  ASSUME Granted,
         \/ \E c \in Codes : Auth!CodeExpires(c)
         \/ \E a \in Accesses : Auth!AccessExpires(a) \/ Auth!IntrospectExpired(a)
  PROVE  Granted' /\ TokensKept
<1>1. code \in [Codes -> Auth!Code] /\ access \in [Accesses -> Auth!Access]
  BY DEF Granted, Auth!TypeOK
<1>2. CASE \E c \in Codes : Auth!CodeExpires(c)
  <2>1. PICK c \in Codes :
          /\ code[c].time = "live" /\ access' = access
          /\ code' = [code EXCEPT ![c].time = "expired"]
    BY <1>2 DEF Auth!CodeExpires
  <2>2. /\ Auth!TypeOK'
        /\ \A d \in Codes : code[d].time = "gone" => code'[d] = code[d]
    BY <1>1, <2>1 DEF Auth!TypeOK, Auth!Code, Auth!Times
  <2>3. ASSUME NEW a \in Accesses, access[a].grant # Nil
        PROVE  code'[access[a].grant] = code[access[a].grant]
    <3>1. access[a].grant \in Codes /\ code[access[a].grant].time = "gone"
      BY <2>3 DEF Granted, GrantsSpent
    <3>2. QED
      BY <2>2, <3>1
  <2>4. GrantsSpent' /\ Auth!OneTokenPerGrant'
    BY <2>1, <2>3 DEF Granted, GrantsSpent, Auth!OneTokenPerGrant,
                      Auth!RedirectAllowed
  <2>5. QED
    BY <2>1, <2>2, <2>4 DEF Granted, TokensKept
<1>3. CASE \E a \in Accesses : Auth!AccessExpires(a) \/ Auth!IntrospectExpired(a)
  <2>1. PICK a \in Accesses, time \in {"expired", "gone"} :
          /\ access[a].time # "none" /\ code' = code
          /\ access' = [access EXCEPT ![a].time = time]
    BY <1>3 DEF Auth!AccessExpires, Auth!IntrospectExpired
  <2>2. access' \in [Accesses -> Auth!Access]
    BY <1>1, <2>1 DEF Auth!Access, Auth!Times
  <2>3. ASSUME NEW b \in Accesses
        PROVE  /\ access'[b].time = "none" <=> access[b].time = "none"
               /\ access'[b].client = access[b].client
               /\ access'[b].scopes = access[b].scopes
               /\ access'[b].grant = access[b].grant
    BY <1>1, <2>1 DEF Auth!Access
  <2>4. GrantsSpent' /\ Auth!OneTokenPerGrant'
    BY <2>1, <2>3 DEF Granted, GrantsSpent, Auth!OneTokenPerGrant,
                      Auth!RedirectAllowed
  <2>5. QED
    BY <1>1, <2>1, <2>2, <2>3, <2>4 DEF Granted, TokensKept, Auth!TypeOK
<1>4. QED
  BY <1>2, <1>3

(* An exchange uses its code up before it checks anything; if the checks   *)
(* pass, the new token is the only one with that code.                     *)
LEMMA ExchangeGranted ==
  ASSUME Granted, NEW c \in Codes, NEW a \in Accesses, NEW client \in Clients,
         NEW u \in Redirects, NEW v \in Verifiers,
         Auth!Exchange(c, a, client, u, v)
  PROVE  Granted' /\ TokensKept
<1> DEFINE token == [time |-> "live", client |-> client,
                     scopes |-> code[c].scopes, grant |-> c]
<1>1. /\ code[c].time \in {"live", "expired"} /\ access[a].time = "none"
      /\ code' = [code EXCEPT ![c].time = "gone", ![c].challenge = Nil]
      /\ \/ access' = access
         \/ /\ Auth!Redeems(c, client, u, v)
            /\ access' = [access EXCEPT ![a] = token]
  BY DEF Auth!Exchange, Auth!Spent
<1>2. /\ code \in [Codes -> Auth!Code] /\ access \in [Accesses -> Auth!Access]
      /\ code[c] \in Auth!Code
  BY DEF Granted, Auth!TypeOK
<1>3. /\ code'[c].time = "gone" /\ code'[c].client = code[c].client
      /\ code'[c].redirect = code[c].redirect
      /\ code'[c].scopes = code[c].scopes
      /\ \A d \in Codes \ {c} : code'[d] = code[d]
      /\ code' \in [Codes -> Auth!Code]
  BY <1>1, <1>2 DEF Auth!Code, Auth!Times
<1>4. token \in Auth!Access
  BY <1>2 DEF Auth!Access, Auth!Code, Auth!Times
<1>5. Auth!TypeOK'
  <2> HIDE DEF token
  <2>1. QED
    BY <1>1, <1>2, <1>3, <1>4 DEF Auth!TypeOK
<1>6. c # Nil /\ \A b \in Accesses : access[b].grant # c
  <2>1. c # Nil
    BY AuthAssumption DEF Auth!OAuthAssumption
  <2>2. QED
    BY <1>1, <2>1 DEF Granted, GrantsSpent
<1>7. ASSUME NEW b \in Accesses, access[b].grant # Nil
      PROVE  /\ code'[access[b].grant] = code[access[b].grant]
             /\ code[access[b].grant].time = "gone"
             /\ access[b].grant \in Codes
             /\ b # a
  <2>1. access[b].grant \in Codes /\ code[access[b].grant].time = "gone"
        /\ access[b].time # "none"
    BY <1>7 DEF Granted, GrantsSpent
  <2>2. QED
    BY <1>1, <1>3, <1>6, <2>1
<1>8. CASE access' = access
  <2>1. GrantsSpent' /\ Auth!OneTokenPerGrant'
    BY <1>7, <1>8 DEF Granted, GrantsSpent, Auth!OneTokenPerGrant,
                      Auth!RedirectAllowed
  <2>2. QED
    BY <1>5, <1>8, <2>1 DEF Granted, TokensKept
<1>9. CASE /\ Auth!Redeems(c, client, u, v)
           /\ access' = [access EXCEPT ![a] = token]
  <2>1. /\ code[c].client = client
        /\ code[c].redirect = u /\ Auth!RedirectAllowed(u)
    BY <1>9 DEF Auth!Redeems
  <2>2. /\ access'[a].time = "live" /\ access'[a].client = client
        /\ access'[a].scopes = code[c].scopes /\ access'[a].grant = c
        /\ \A b \in Accesses \ {a} : access'[b] = access[b]
    BY <1>2, <1>9
  <2>3. GrantsSpent'
    <3>1. ASSUME NEW b \in Accesses, b # a
          PROVE  /\ access'[b].time # "none" => access'[b].grant \in Codes
                 /\ access'[b].grant # Nil =>
                      /\ access'[b].time # "none"
                      /\ code'[access'[b].grant].time = "gone"
      BY <1>7, <2>2, <3>1 DEF Granted, GrantsSpent
    <3>2. QED
      BY <1>3, <2>2, <3>1 DEF GrantsSpent
  <2>4. ASSUME NEW b \in Accesses, access'[b].grant # Nil
        PROVE  /\ access'[b].client = code'[access'[b].grant].client
               /\ access'[b].scopes = code'[access'[b].grant].scopes
               /\ Auth!RedirectAllowed(code'[access'[b].grant].redirect)
               /\ \A d \in Accesses : access'[d].grant = access'[b].grant => b = d
    <3>1. CASE b = a
      <4>1. \A d \in Accesses : access'[d].grant = c => a = d
        BY <1>6, <2>2
      <4>2. QED
        BY <1>3, <2>1, <2>2, <3>1, <4>1
    <3>2. CASE b # a
      <4>1. access'[b] = access[b] /\ access[b].grant # Nil
        BY <2>2, <2>4, <3>2
      <4>2. /\ access[b].client = code[access[b].grant].client
            /\ access[b].scopes = code[access[b].grant].scopes
            /\ Auth!RedirectAllowed(code[access[b].grant].redirect)
            /\ \A d \in Accesses : access[d].grant = access[b].grant => b = d
        BY <4>1 DEF Granted, Auth!OneTokenPerGrant
      <4>3. access[b].grant # c
        BY <1>6
      <4>4. \A d \in Accesses : access'[d].grant = access[b].grant => b = d
        BY <2>2, <4>2, <4>3
      <4>5. QED
        BY <1>7, <4>1, <4>2, <4>4
    <3>3. QED
      BY <3>1, <3>2
  <2>5. Auth!OneTokenPerGrant'
    BY <2>4 DEF Auth!OneTokenPerGrant, Auth!RedirectAllowed
  <2>6. TokensKept
    BY <1>1, <2>2 DEF TokensKept
  <2>7. QED
    BY <1>5, <2>3, <2>5, <2>6 DEF Granted
<1>10. QED
  BY <1>1, <1>8, <1>9

LEMMA ProviderGranted ==
  ASSUME Granted, Auth!Next
  PROVE  Granted' /\ TokensKept
<1>1. CASE \E c \in Codes, client \in Clients, u \in Redirects, v \in Verifiers,
              scopes \in Asked : Auth!Authorize(c, client, u, v, scopes)
  BY <1>1, AuthorizeGranted
<1>2. CASE \E c \in Codes, client \in Clients, u \in Redirects, v \in Verifiers,
              a \in Accesses : Auth!Exchange(c, a, client, u, v)
  BY <1>2, ExchangeGranted
<1>3. CASE \/ \E c \in Codes : Auth!CodeExpires(c)
           \/ \E a \in Accesses : Auth!AccessExpires(a) \/ Auth!IntrospectExpired(a)
  BY <1>3, TimesGranted
<1>4. QED
  BY <1>1, <1>2, <1>3 DEF Auth!Next

-----------------------------------------------------------------------------
(* The claims a call was dispatched with permit its tool, because the gate *)
(* looked at them.                                                         *)
LEMMA InvokePermitted ==
  ASSUME NEW r \in Runs, NEW q \in Request, Gate(r, q) = "dispatch",
         q.scopes \in SUBSET Auth!ALL_SCOPES
  PROVE  Permits(q.scopes, q.tool)
<1>1. q.scopes # Nil
  BY AuthAssumption
<1>2. ~OutOfScope(q)
  BY DEF Gate
<1>3. CASE q.tool \in Destructive
  BY <1>1, <1>2, <1>3 DEF OutOfScope, Permits, Needed
<1>4. CASE q.tool \notin Destructive
  BY <1>1, <1>2, <1>4 DEF OutOfScope, Permits
<1>5. QED
  BY <1>3, <1>4

(* Claims that are set are scopes of the provider. *)
LEMMA ClaimedTyped ==
  ASSUME AuthInv, NEW r \in Runs, claims[r] # Nil
  PROVE  /\ claims[r] \in Accesses
         /\ ClaimedScopes(r) = access[claims[r]].scopes
         /\ access[claims[r]].scopes \in SUBSET Auth!ALL_SCOPES
<1>1. claims[r] \in Accesses
  BY DEF AuthInv, TokensTyped
<1>2. access[claims[r]] \in Auth!Access
  BY <1>1 DEF AuthInv, TokensTyped, Auth!TypeOK
<1>3. QED
  BY <1>1, <1>2 DEF ClaimedScopes, Auth!Access

(* A dispatch starts at most the call of its own run, and only a tool the  *)
(* run's claims permit.                                                    *)
LEMMA DispatchPermitted ==
  ASSUME TypeOK, AuthInv, NEW r \in Runs, DispatchWithClaims(r)
  PROVE  AuthInv'
<1>1. UNCHANGED <<code, access, claims>>
  BY DEF DispatchWithClaims, authVars
<1>2. \/ UNCHANGED call
      \/ \E q \in Request :
           /\ q.scopes = ClaimedScopes(r)
           /\ Gate(r, q) = "dispatch"
           /\ \E end \in {"running", "waking"} :
                call' = [call EXCEPT ![r] = Started(q, end)]
  BY DEF DispatchWithClaims, DispatchAmong, Stopped, Blocked, Paused, Degraded,
         CircuitRejects, Invoke, FindsOpen
<1>3. CallsPermitted'
  <2>1. SUFFICES ASSUME NEW s \in Runs, Busy(s)', claims[s] # Nil
                 PROVE  Permits(access[claims[s]].scopes, call'[s].tool)
    BY <1>1 DEF CallsPermitted
  <2>2. CASE UNCHANGED call
    BY <1>1, <2>1, <2>2 DEF AuthInv, CallsPermitted, Busy
  <2>3. ASSUME NEW q \in Request, q.scopes = ClaimedScopes(r),
               Gate(r, q) = "dispatch", NEW end,
               call' = [call EXCEPT ![r] = Started(q, end)]
        PROVE  Permits(access[claims[s]].scopes, call'[s].tool)
    <3>1. CASE s = r
      <4>1. /\ q.scopes = access[claims[s]].scopes
            /\ q.scopes \in SUBSET Auth!ALL_SCOPES
        BY <2>1, <2>3, <3>1, ClaimedTyped
      <4>2. call'[s].tool = q.tool
        BY <2>3, <3>1 DEF TypeOK, Started
      <4>3. QED
        BY <2>3, <4>1, <4>2, InvokePermitted
    <3>2. CASE s # r
      <4>1. call'[s] = call[s]
        BY <2>3, <3>2
      <4>2. QED
        BY <2>1, <4>1 DEF AuthInv, CallsPermitted, Busy
    <3>3. QED
      BY <3>1, <3>2
  <2>4. QED
    BY <1>2, <2>2, <2>3
<1>4. TokensTyped' /\ Auth!OneTokenPerGrant' /\ GrantsSpent' /\ ClaimsIssued'
  BY <1>1 DEF AuthInv, TokensTyped, Auth!TypeOK, Auth!OneTokenPerGrant,
              Auth!RedirectAllowed, GrantsSpent, ClaimsIssued
<1>5. QED
  BY <1>3, <1>4 DEF AuthInv

(* The claims of a run change only between its calls. *)
LEMMA IntrospectPermitted ==
  ASSUME AuthInv, NEW r \in Runs, NEW a \in Accesses, Introspect(r, a)
  PROVE  AuthInv'
<1>1. /\ ~Busy(r) /\ access[a].time = "live"
      /\ claims' = [claims EXCEPT ![r] = a]
      /\ UNCHANGED <<run, call, ticket, breaker, code, access>>
  BY DEF Introspect, Auth!Introspects, vars
<1>2. claims \in [Runs -> Accesses \cup {Nil}]
  BY DEF AuthInv, TokensTyped
<1>3. /\ claims'[r] = a /\ claims' \in [Runs -> Accesses \cup {Nil}]
      /\ \A s \in Runs \ {r} : claims'[s] = claims[s]
  BY <1>1, <1>2
<1>4. ClaimsIssued'
  BY <1>1, <1>3 DEF AuthInv, ClaimsIssued
<1>5. CallsPermitted'
  BY <1>1, <1>3 DEF AuthInv, CallsPermitted, Busy
<1>6. TokensTyped' /\ Auth!OneTokenPerGrant' /\ GrantsSpent'
  BY <1>1, <1>3 DEF AuthInv, TokensTyped, Auth!TypeOK, Auth!OneTokenPerGrant,
                    Auth!RedirectAllowed, GrantsSpent
<1>7. QED
  BY <1>4, <1>5, <1>6 DEF AuthInv

(* Whatever the provider does to its tokens, those in use keep their       *)
(* scopes.                                                                 *)
LEMMA ProviderPermitted ==
  ASSUME AuthInv, Auth!Next, UNCHANGED <<vars, claims>>
  PROVE  AuthInv'
<1>1. Granted' /\ TokensKept
  BY ProviderGranted DEF AuthInv, TokensTyped, Granted
<1>2. UNCHANGED <<call, claims>>
  BY DEF vars
<1>3. ASSUME NEW r \in Runs, claims[r] # Nil
      PROVE  /\ access'[claims[r]].time # "none"
             /\ access'[claims[r]].scopes = access[claims[r]].scopes
  <2>1. claims[r] \in Accesses /\ access[claims[r]].time # "none"
    BY <1>3, ClaimedTyped DEF AuthInv, ClaimsIssued
  <2>2. QED
    BY <1>1, <2>1 DEF TokensKept
<1>4. ClaimsIssued' /\ CallsPermitted'
  BY <1>2, <1>3 DEF AuthInv, ClaimsIssued, CallsPermitted, Busy
<1>5. TokensTyped'
  BY <1>1, <1>2 DEF AuthInv, TokensTyped, Granted
<1>6. QED
  BY <1>1, <1>4, <1>5 DEF AuthInv, Granted

(* The router's other steps start no call. *)
LEMMA RouterPermitted ==
  ASSUME TypeOK, AuthInv, UNCHANGED authVars, Meanwhile \/ UNCHANGED vars
  PROVE  AuthInv'
<1>1. UNCHANGED <<code, access, claims>>
  BY DEF authVars
<1>2. ASSUME NEW s \in Runs, Busy(s)'
      PROVE  Busy(s) /\ call'[s].tool = call[s].tool
  <2>1. call \in [Runs -> Call]
    BY DEF TypeOK
  <2>2. CASE UNCHANGED call
    BY <1>2, <2>2 DEF Busy
  <2>3. CASE \E r \in Runs : TimerFires(r)
    <3>1. PICK r \in Runs : call' = [call EXCEPT ![r].late = TRUE]
      BY <2>3 DEF TimerFires
    <3>2. call'[s].tool = call[s].tool
      BY <2>1, <3>1 DEF Call
    <3>3. QED
      BY <1>2, <3>2 DEF Busy
  <2>4. CASE \E r \in Runs, how \in {"ok", "error", "timeout"} \cup Escapes :
               FnEnds(r, how)
    <3>1. PICK r \in Runs, how \in {"ok", "error", "timeout"} \cup Escapes :
            call' = [call EXCEPT ![r].end = how]
      BY <2>4 DEF FnEnds
    <3>2. call'[s].tool = call[s].tool
      BY <2>1, <3>1 DEF Call
    <3>3. QED
      BY <1>2, <3>2 DEF Busy
  <2>5. CASE \E r \in Runs : Wake(r) /\ NowInvoked(r)
    <3>1. PICK r \in Runs : call' = [call EXCEPT ![r].end = "running"]
      BY <2>5 DEF NowInvoked
    <3>2. call'[s].tool = call[s].tool
      BY <2>1, <3>1 DEF Call
    <3>3. QED
      BY <1>2, <3>2 DEF Busy
  <2>6. CASE \E r \in Runs : OpenBreaker(r)
    <3>1. PICK r \in Runs :
            call' = [call EXCEPT ![r].end = "opened", ![r].late = TimedOut(r)]
      BY <2>6 DEF OpenBreaker
    <3>2. call'[s].tool = call[s].tool
      BY <2>1, <3>1 DEF Call
    <3>3. QED
      BY <1>2, <3>2 DEF Busy
  <2>7. CASE \E r \in Runs : Finish(r) \/ (Wake(r) /\ StillRejected(r))
    <3>1. PICK r \in Runs : call' = [call EXCEPT ![r] = NoCall]
      BY <2>7 DEF Finish, StillRejected
    <3>2. call'[s] = NoCall \/ call'[s] = call[s]
      BY <2>1, <3>1
    <3>3. call'[s] # NoCall
      BY <1>2 DEF Busy, NoCall
    <3>4. QED
      BY <1>2, <3>2, <3>3 DEF Busy
  <2>8. \A r \in Runs : Wake(r) => NowInvoked(r) \/ StillRejected(r)
    BY DEF Wake
  <2>9. CASE UNCHANGED vars
    BY <2>2, <2>9 DEF vars
  <2>10. CASE \/ \E r \in Runs, c \in Costs : Charge(r, c)
              \/ \E t \in Tickets, d \in {"approved", "denied"} : Decide(t, d)
              \/ \E p \in Providers : Cool(p)
    BY <2>2, <2>10 DEF Charge, Decide, Cool
  <2>11. QED
    BY <2>3, <2>4, <2>5, <2>6, <2>7, <2>8, <2>9, <2>10 DEF Meanwhile
<1>3. CallsPermitted'
  BY <1>1, <1>2 DEF AuthInv, CallsPermitted
<1>4. TokensTyped' /\ Auth!OneTokenPerGrant' /\ GrantsSpent' /\ ClaimsIssued'
  BY <1>1 DEF AuthInv, TokensTyped, Auth!TypeOK, Auth!OneTokenPerGrant,
              Auth!RedirectAllowed, GrantsSpent, ClaimsIssued
<1>5. QED
  BY <1>3, <1>4 DEF AuthInv

LEMMA AuthNextInv == TypeOK /\ AuthInv /\ [AuthNext]_allVars => AuthInv'
<1> SUFFICES ASSUME TypeOK, AuthInv, [AuthNext]_allVars
             PROVE  AuthInv'
  OBVIOUS
<1>1. CASE \E r \in Runs : DispatchWithClaims(r)
  BY <1>1, DispatchPermitted
<1>2. CASE \E r \in Runs, a \in Accesses : Introspect(r, a)
  BY <1>2, IntrospectPermitted
<1>3. CASE Auth!Next /\ UNCHANGED <<vars, claims>>
  BY <1>3, ProviderPermitted
<1>4. CASE UNCHANGED authVars /\ (Meanwhile \/ UNCHANGED vars)
  BY <1>4, RouterPermitted
<1>5. QED
  BY <1>1, <1>2, <1>3, <1>4 DEF AuthNext, allVars

-----------------------------------------------------------------------------
THEOREM AuthInvariant == AuthSpec => [](TypeOK /\ AuthInv)
  BY AuthInitInv, AuthNextInv, AuthImplementsRouter, TypeCorrect, PTL DEF AuthSpec

(* Codes, tokens, claims and everything of the router keep their types. *)
THEOREM AuthTypeCorrect == AuthSpec => []AuthTypeOK
<1>1. TypeOK /\ AuthInv => AuthTypeOK
  BY DEF AuthInv, TokensTyped, AuthTypeOK
<1>2. QED
  BY <1>1, AuthInvariant, PTL

(* No exchange, failed, late or repeated, makes a second token of a code,  *)
(* or one for another client, scope or redirect URI (oauth.py:7).          *)
THEOREM GrantsAreSingleUse == AuthSpec => []OneTokenPerGrant
<1>1. AuthInv => OneTokenPerGrant
  BY DEF AuthInv, OneTokenPerGrant
<1>2. QED
  BY <1>1, AuthInvariant, PTL

(* What runs for a caller with claims was granted to its client. *)
THEOREM LeastPrivilegeHolds == AuthSpec => []LeastPrivilege
<1>1. AuthInv => LeastPrivilege
  <2> SUFFICES ASSUME AuthInv, NEW r \in Runs, Busy(r), claims[r] # Nil
               PROVE  LET g == code[access[claims[r]].grant]
                      IN  IF call[r].tool \in Destructive
                          THEN "payments:execute" \in g.scopes
                          ELSE {Needed(call[r].tool), "admin:budget"}
                                 \cap g.scopes # {}
    BY DEF LeastPrivilege
  <2>1. claims[r] \in Accesses /\ access[claims[r]].time # "none"
    BY ClaimedTyped DEF AuthInv, ClaimsIssued
  <2>2. access[claims[r]].grant \in Codes /\ access[claims[r]].grant # Nil
    BY <2>1, AuthAssumption DEF AuthInv, GrantsSpent, Auth!OAuthAssumption
  <2>3. access[claims[r]].scopes = code[access[claims[r]].grant].scopes
    BY <2>1, <2>2 DEF AuthInv, Auth!OneTokenPerGrant
  <2>4. Permits(access[claims[r]].scopes, call[r].tool)
    BY DEF AuthInv, CallsPermitted
  <2>5. QED
    BY <2>3, <2>4 DEF Permits
<1>2. QED
  BY <1>1, AuthInvariant, PTL
=============================================================================
