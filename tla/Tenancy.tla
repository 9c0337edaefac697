------------------------------ MODULE Tenancy ------------------------------
(***************************************************************************)
(* For which tenant a request is handled, and whether it may be.  The      *)
(* middleware reads the credential and the X-Tenant-Id header and leaves   *)
(* the tenant and an API key's scopes on the request                       *)
(* (src/backend/app/middleware/tenant.py); the endpoint's dependencies     *)
(* read the credential once more (src/backend/app/api/deps.py).  Neither   *)
(* sees what the other decided.                                            *)
(***************************************************************************)
EXTENDS FiniteSets

CONSTANTS
  Tenants,
  Scopes     \* the scopes of the endpoints; "admin:*" is beside them

None == "none"
Admin == "admin:*"
Granted == SUBSET (Scopes \cup {Admin})

(* What the Authorization header holds: nothing that can be used, a token  *)
(* that decodes, or a key, found or not, that the client's address may use.*)
NoCredential == [kind |-> "none", type |-> None, tenant |-> None, scopes |-> {}, usable |-> FALSE]
Tokens == [kind : {"jwt"}, type : {"access", "refresh"}, tenant : Tenants \cup {None},
           scopes : Granted, usable : {TRUE}]
Keys == [kind : {"key"}, type : {None}, tenant : Tenants, scopes : Granted, usable : BOOLEAN]
Calls == [credential : Tokens \cup Keys \cup {NoCredential},
          header : Tenants \cup {None}, scope : Scopes, auth : BOOLEAN]

VARIABLES
  call,    \* the request: credential, X-Tenant-Id, scope its endpoint requires,
           \* and whether its path is one of /api/v1/auth
  stage,   \* where it is
  tenant,  \* request.state.tenant_id
  scopes   \* request.state.api_key_scopes, where it was set

tenancyVars == <<call, stage, tenant, scopes>>

Init ==
  /\ call \in Calls
  /\ stage = "arrived" /\ tenant = None
  /\ scopes = [set |-> FALSE, value |-> {}]

credential == call.credential

(* -------------------------------------------- TenantMiddleware.dispatch *)

IsAdmin == credential.kind = "jwt" /\ Admin \in credential.scopes

(* Another tenant's X-Tenant-Id, or one without a tenant to compare, is    *)
(* for tokens with admin:*.                                                *)
MayOverride == call.header \in {None, credential.tenant} \/ IsAdmin

Resolved == IF call.header = None THEN credential.tenant ELSE call.header

Refused ==
  \/ credential.kind = "key" /\ ~credential.usable
  \/ ~MayOverride
  \/ Resolved = None /\ ~call.auth

Dispatch ==
  /\ stage = "arrived"
  /\ IF Refused THEN stage' = "refused" /\ UNCHANGED <<tenant, scopes>>
     ELSE /\ stage' = "dispatched"
          /\ tenant' = Resolved
          /\ scopes' = IF credential.kind = "key" /\ credential.scopes # {}
                       THEN [set |-> TRUE, value |-> credential.scopes] ELSE scopes
  /\ UNCHANGED call

(* --------------------------------------- get_tenant_id, require_scope *)

CurrentUserAny == credential.kind = "jwt"

(* get_current_user accepts access tokens only.                            *)
CurrentUser == credential.kind = "jwt" /\ credential.type = "access"

Holds(held) == held \cap {call.scope, Admin} # {}

Allowed == IF scopes.set THEN Holds(scopes.value)
           ELSE CurrentUser /\ Holds(credential.scopes)

Handle ==
  /\ stage = "dispatched"
  /\ stage' = IF tenant # None /\ Allowed THEN "handled" ELSE "refused"
  /\ UNCHANGED <<call, tenant, scopes>>

Next == Dispatch \/ Handle
Spec == Init /\ [][Next]_tenancyVars

(* ------------------------------------------------------------- properties *)

TypeOK ==
  /\ call \in Calls /\ stage \in {"arrived", "dispatched", "handled", "refused"}
  /\ tenant \in Tenants \cup {None} /\ scopes \in [set : BOOLEAN, value : Granted]

(* What a credential entitles to: an access token or a usable key, holding *)
(* the endpoint's scope or admin:*, for its own tenant; for another only a *)
(* token with admin:*.                                                     *)
Entitled(t) ==
  /\ credential.usable /\ credential.type # "refresh"
  /\ credential.scopes \cap {call.scope, Admin} # {}
  /\ \/ t = credential.tenant /\ call.header \in {None, t}
     \/ IsAdmin /\ t = call.header

(* The two readings of a request together let it through exactly when its  *)
(* credential entitles it to the tenant it is handled for (TenantMiddleware*)
(* .dispatch, require_scope).                                              *)
HandledIffEntitled ==
  /\ stage = "handled" => tenant # None /\ Entitled(tenant)
  /\ stage = "refused" => \A t \in Tenants : ~Entitled(t)
=============================================================================
