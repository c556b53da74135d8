-------------------------------- MODULE OAuth ---------------------------------
(***************************************************************************)
(* OAuth21Provider: authorization codes bound to a client, a redirect URI  *)
(* and a PKCE challenge, exchanged once for an access token with the       *)
(* scopes of the code, and both only for a time.                           *)
(*                                                                         *)
(* Only S256 challenges are accepted, so a challenge is the verifier it    *)
(* was made from.  Records of used codes and of tokens stay in the model   *)
(* when the program drops them, so that a token can be traced to its grant.*)
(***************************************************************************)
EXTENDS FiniteSets

CONSTANTS
  Clients, Verifiers,
  Redirects,         \* redirect URIs: [scheme, host]
  AllowedRedirects,  \* those registered; {} allows every acceptable one
  Asked,             \* scope sets clients ask for
  Codes, Accesses,   \* codes and access tokens (bounds)
  Nil

(* Assumed of the constants by the modules that instantiate this one.     *)
OAuthAssumption ==
  /\ Redirects \subseteq [scheme : {"https", "http", "other"},
                          host : {"named", "loopback", "none"}]
  /\ AllowedRedirects \subseteq Redirects
  /\ Nil \notin Clients \cup Verifiers \cup Redirects \cup Codes \cup Accesses

VARIABLES code, access

READ_SCOPES == {"payments:quote", "payments:status", "compliance:read"}
WRITE_SCOPES == {"payments:execute", "compliance:write", "admin:budget"}
ALL_SCOPES == READ_SCOPES \cup WRITE_SCOPES

Times == {"none", "live", "expired", "gone"}

Code == [time      : Times,
         client    : Clients \cup {Nil},
         redirect  : Redirects \cup {Nil},
         challenge : Verifiers \cup {Nil},
         scopes    : SUBSET ALL_SCOPES]

(* grant: the code it was exchanged for *)
Access == [time   : Times,
           client : Clients \cup {Nil},
           scopes : SUBSET ALL_SCOPES,
           grant  : Codes \cup {Nil}]

TypeOK ==
  /\ code \in [Codes -> Code]
  /\ access \in [Accesses -> Access]

Init ==
  /\ code = [c \in Codes |-> [time |-> "none", client |-> Nil, redirect |-> Nil,
                              challenge |-> Nil, scopes |-> {}]]
  /\ access = [a \in Accesses |-> [time |-> "none", client |-> Nil,
                                   scopes |-> {}, grant |-> Nil]]

(* _assert_redirect *)
RedirectAllowed(u) ==
  /\ u.scheme \in {"https", "http"} /\ u.host # "none"
  /\ u.scheme = "http" => u.host = "loopback"
  /\ AllowedRedirects # {} => u \in AllowedRedirects

Authorize(c, client, redirect, verifier, scopes) ==
  /\ RedirectAllowed(redirect)
  /\ scopes \subseteq ALL_SCOPES
  /\ code[c].time = "none"
  /\ code' = [code EXCEPT ![c] =
                [time |-> "live", client |-> client, redirect |-> redirect,
                 challenge |-> verifier, scopes |-> scopes]]
  /\ UNCHANGED access

Redeems_AnyClient(c, client, redirect, verifier) ==
  /\ code[c].time = "live"
  /\ code[c].redirect = redirect
  /\ code[c].challenge = verifier

Redeems(c, client, redirect, verifier) ==
  /\ code[c].time = "live"
  /\ code[c].client = client
  /\ code[c].redirect = redirect /\ RedirectAllowed(redirect)
  /\ code[c].challenge = verifier

Spent_Kept(c) == code

Spent(c) == [code EXCEPT ![c].time = "gone", ![c].challenge = Nil]

(* The code is popped before anything is checked: an exchange that fails   *)
(* uses it up all the same.                                                *)
Exchange(c, a, client, redirect, verifier) ==
  LET redeemed == Redeems(c, client, redirect, verifier)
  IN  /\ code[c].time \in {"live", "expired"}
      /\ access[a].time = "none"
      /\ code' = Spent(c)
      /\ access' = IF redeemed
                   THEN [access EXCEPT ![a] =
                           [time |-> "live", client |-> client,
                            scopes |-> code[c].scopes, grant |-> c]]
                   ELSE access

(* code_ttl_s and token_ttl_s run out. *)
CodeExpires(c) ==
  /\ code[c].time = "live"
  /\ code' = [code EXCEPT ![c].time = "expired"]
  /\ UNCHANGED access

AccessExpires(a) ==
  /\ access[a].time = "live"
  /\ access' = [access EXCEPT ![a].time = "expired"]
  /\ UNCHANGED code

(* introspect drops an expired token and raises; a live one is left alone. *)
Introspects(a) == access[a].time = "live"

IntrospectExpired(a) ==
  /\ access[a].time = "expired"
  /\ access' = [access EXCEPT ![a].time = "gone"]
  /\ UNCHANGED code

Next ==
  \/ \E c \in Codes, client \in Clients, u \in Redirects, v \in Verifiers :
       \/ \E scopes \in Asked : Authorize(c, client, u, v, scopes)
       \/ \E a \in Accesses : Exchange(c, a, client, u, v)
  \/ \E c \in Codes : CodeExpires(c)
  \/ \E a \in Accesses : AccessExpires(a) \/ IntrospectExpired(a)

Spec == Init /\ [][Next]_<<code, access>>

-----------------------------------------------------------------------------
(* Every token was obtained by the client it names, for the scopes that    *)
(* one authorize call granted to that client; no call, whatever failed,    *)
(* expired or was repeated in between, is worth more than one token.       *)
OneTokenPerGrant ==
  \A a \in Accesses : access[a].grant # Nil =>
    LET g == code[access[a].grant]
    IN  /\ access[a].client = g.client
        /\ access[a].scopes = g.scopes
        /\ RedirectAllowed(g.redirect)
        /\ \A b \in Accesses : access[b].grant = access[a].grant => a = b

=============================================================================
