----------------------------- MODULE MCRequests -----------------------------
(* Small instances of Requests for TLC: the endpoints and roles of the code. *)
EXTENDS Requests, Endpoints

CONSTANTS r1, r2, u1, u2

TwoRequests == {r1, r2}
(* A caseworker, a provider, and somebody without a role and an address. *)
MCTokens ==
  {[user |-> u1, named |-> TRUE, roles |-> {"ASSURANCE"}, scopes |-> {"User.Caseworker"}],
   [user |-> u1, named |-> TRUE, roles |-> {"PROVIDER_CLAIMS_USER", "PROVIDER_APPLICATION_USER"},
    scopes |-> {"User.Provider"}],
   [user |-> u2, named |-> FALSE, roles |-> {}, scopes |-> {"User.Caseworker"}]}
MCAllowedScopes == {"User.Provider", "User.Caseworker"}
(* One request may be for any endpoint, the other for an audited read on the *)
(* loop or for a write on a thread that reads again what it committed.       *)
MCOperationsOf ==
  r1 :> DOMAIN EndpointTable
    @@ r2 :> {"read_application", "create_note"}
=============================================================================
