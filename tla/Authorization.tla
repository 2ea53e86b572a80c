---------------------------- MODULE Authorization ----------------------------
(****************************************************************************)
(* Who may call what: the Keycloak authenticator and the RBAC authorizer of *)
(* the backend, and how api/agent/config.go turns the `role` and `API`      *)
(* blocks of an Authorizer "RBAC" block into the policy it enforces.        *)
(*                                                                          *)
(* An API is a path and a method. The signature and the lifetime of a token *)
(* are one bit: jwt.ParseWithClaims accepts it or not under the keys the    *)
(* JWKS cache holds.                                                        *)
(****************************************************************************)
EXTENDS Naturals, Sequences

CONSTANTS
    AnyRole,        \* the role named "", which every authenticated user has
    NoMethod,       \* in an API block's name that is a path and nothing else
    NoUser          \* the nil *UserInfo of the null authenticator

\* staticAPIV1List: the APIs a policy may name. Paths are named by their tails.
StaticAPIV1List ==
    LET Of(path, methods) == {path} \X methods
    IN  UNION {Of("spire/serverinfo", {"GET"}),
               Of("spire/healthcheck", {"GET"}),
               Of("spire/entries", {"GET", "POST", "DELETE"}),
               Of("spire/agents", {"GET", "POST", "DELETE"}),
               Of("spire/agents/ban", {"POST"}),
               Of("spire/agents/jointoken", {"POST"}),
               Of("tornjak/clusters", {"GET", "POST", "PATCH", "DELETE"}),
               Of("tornjak/selectors", {"GET", "POST"}),
               Of("tornjak/agents", {"GET"}),
               Of("tornjak/serverinfo", {"GET"}),
               Of("spire/bundle", {"GET"}),
               Of("spire/federations/bundles", {"GET", "POST", "DELETE", "PATCH"})}

----------------------------------------------------------------------------
(* The policy. A file is [roles |-> set, blocks |-> sequence], a block is   *)
(* [path, method, allowed]; the policy maps a path to its methods and these *)
(* to the roles allowed. NewAuthorizer adds one block after another.        *)

EmptyMap == [key \in {} |-> {}]

\* m[key] = value
Put(map, key, value) ==
    [k \in DOMAIN map \cup {key} |-> IF k = key THEN value ELSE map[k]]

\* Mutant: a later block of a path drops the methods of the earlier ones.
AddBlockReplacing(mapping, block) ==
    Put(mapping, block.path, Put(EmptyMap, block.method, block.allowed))

AddBlock(mapping, block) ==
    LET methods == IF block.path \in DOMAIN mapping THEN mapping[block.path] ELSE EmptyMap
    IN  Put(mapping, block.path, Put(methods, block.method, block.allowed))

\* A policy names APIs of the list and roles the file defines.
ValidateInitParameters(roles, mapping) ==
    \A path \in DOMAIN mapping : \A method \in DOMAIN mapping[path] :
        /\ <<path, method>> \in StaticAPIV1List
        /\ mapping[path][method] \subseteq roles

----------------------------------------------------------------------------
(* One request                                                              *)

AuthenticationError == [failed |-> TRUE, roles |-> {}]

\* Mutant: a token for another audience passes.
KeycloakAnyAudience(audience, cred) ==
    IF cred.header = "bearer" /\ cred.sound
    THEN [failed |-> FALSE, roles |-> cred.roles]
    ELSE AuthenticationError

\* A bearer token that parses, and was issued for the audience if one is
\* configured, gives the user the realm roles it carries.
KeycloakAuthenticateRequest(audience, cred) ==
    IF /\ cred.header = "bearer"
       /\ cred.sound
       /\ audience = "" \/ audience \in cred.audience
    THEN [failed |-> FALSE, roles |-> cred.roles]
    ELSE AuthenticationError

\* The roles listed for an API, none when the policy does not name it.
AllowedRoles(mapping, path, method) ==
    IF path \in DOMAIN mapping /\ method \in DOMAIN mapping[path]
    THEN mapping[path][method] ELSE {}

AuthorizeAPIV1Request(mapping, path, method, user) ==
    \E role \in AllowedRoles(mapping, path, method) :
        role = AnyRole \/ role \in user.roles

RBACAuthorizeRequest(mapping, path, method, user) ==
    /\ ~user.failed
    /\ AuthorizeAPIV1Request(mapping, path, method, user)

----------------------------------------------------------------------------
(* What the plugins' documentation promises, of the file and the token:     *)
(* docs/plugins/plugin_server_authorization_rbac.md and                     *)
(* docs/plugins/plugin_server_authentication_keycloak.md.                   *)

Names(block, path, method) == block.path = path /\ block.method = method

\* Of the first n blocks, the one that speaks for an API: the last one naming it.
Speaks(blocks, n, i, path, method) ==
    /\ Names(blocks[i], path, method)
    /\ \A j \in i + 1 .. n : ~Names(blocks[j], path, method)

\* A caller is entitled to an API when a block names it and lists one of the
\* caller's roles, or the empty role, and the caller's token is good.
Entitled(file, audience, path, method, cred) ==
    /\ cred.header = "bearer"
    /\ cred.sound
    /\ audience /= "" => audience \in cred.audience
    /\ \E i \in 1 .. Len(file.blocks) :
        /\ Speaks(file.blocks, Len(file.blocks), i, path, method)
        /\ file.blocks[i].allowed \cap (cred.roles \cup {AnyRole}) /= {}
=============================================================================
