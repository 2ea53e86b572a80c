----------------------------- MODULE AgentServer -----------------------------
(****************************************************************************)
(* The HTTP side of the Tornjak backend (api/agent): a request is routed by *)
(* GetRouter, passes verificationMiddleware, is decoded by its handler, and *)
(* turns into one call on the SPIRE server, the Tornjak database or the     *)
(* Kubernetes API. Requests run in goroutines of their own and share only   *)
(* what Configure left in the Server.                                       *)
(*                                                                          *)
(* The handlers differ in the table below (what they call, whether an empty *)
(* body will do) and share their control, which the actions model. Outside  *)
(* src/ and modelled from their use: SPIRE and Kubernetes carry out a call  *)
(* or not, and the answer to a call carried out can be lost; net/http keeps *)
(* the first status written and, when a handler panics, drops the           *)
(* connection and goes on.                                                  *)
(****************************************************************************)
EXTENDS Authorization, AgentRoutes, FiniteSets

CONSTANTS
    Requests,       \* HTTP requests
    Sent,           \* the <<path, method>> pairs clients send
    Credentials,    \* the Authorization headers clients send
    Bodies,         \* the request bodies clients send
    Servers         \* the configurations the backend may be started with

BodyKinds == {"empty", "good", "incomplete", "malformed", "cut"}

ASSUME AgentServerAssumption ==
    /\ Bodies \subseteq BodyKinds
    /\ \A s \in Servers : /\ s.authn \in {"null", "keycloak"}
                          /\ s.authz \in {"null", "rbac"}
                          /\ Len(s.file.blocks) \in Nat

\* What a handler calls. The UI is what the API routers leave over; it and the
\* health check call nothing.
Backend(path) ==
    CASE path \in {"/", "healthz", "ui"} -> "none"
      [] path = "tornjak/serverinfo" -> "config"
      [] path \in {"tornjak/clusters", "tornjak/selectors", "tornjak/agents"} -> "db"
      [] path = "crd/federations" -> "crd"
      [] OTHER -> "spire"

\* agentBan and agentDelete refuse an empty body, the others take it for an
\* empty request.
BodyRequired == {<<"spire/agents/ban", "POST">>, <<"spire/agents", "DELETE">>}

\* Registrations and edits the Tornjak APIs validate before they reach the Db.
Validated == {<<"tornjak/clusters", "POST">>, <<"tornjak/clusters", "PATCH">>,
              <<"tornjak/clusters", "DELETE">>, <<"tornjak/selectors", "POST">>}

\* debugServer and home do not look at the body.
BodyIgnored == {"/", "spire/serverinfo"}

VARIABLES
    server,         \* the configured Server: plugins, policy file, SPIRE config
    boot,           \* whether Configure has gone through
    policy,         \* apiV1Mapping, and in the end what the authorizer enforces
    read,           \* how many blocks of the policy file are in it
    stage,          \* stage[r]: what request r is about to do
    call,           \* call[r]: the request itself
    user,           \* user[r]: what the authenticator returned
    carried,        \* carried[r]: how often a backend carried out r's call
    answer          \* answer[r]: the status written, or how the request ended

configured == <<server, boot, policy, read>>
vars == <<configured, stage, call, user, carried, answer>>

Stages == {"idle", "health", "ui", "verify", "authorize", "decode", "call",
           "carried", "encode", "done"}

NoCall == [path |-> "none", method |-> "none"]
Calls == [path : {a[1] : a \in Sent}, method : {a[2] : a \in Sent},
          cred : Credentials, body : Bodies]
Users == {[failed |-> FALSE, roles |-> c.roles] : c \in Credentials}
            \cup {AuthenticationError}
Answers == {"none", "200", "204", "400", "401", "500", "dropped"}

TypeOK ==
    /\ server \in Servers
    /\ boot \in {"configuring", "up", "fatal"}
    /\ read \in 0 .. Len(server.file.blocks)
    /\ stage \in [Requests -> Stages]
    /\ call \in [Requests -> Calls \cup {NoCall}]
    /\ user \in [Requests -> Users \cup {NoUser}]
    /\ carried \in [Requests -> Nat]
    /\ answer \in [Requests -> Answers]

Init ==
    /\ server \in Servers
    /\ boot = "configuring"
    /\ policy = EmptyMap
    /\ read = 0
    /\ stage = [r \in Requests |-> "idle"]
    /\ call = [r \in Requests |-> NoCall]
    /\ user = [r \in Requests |-> NoUser]
    /\ carried = [r \in Requests |-> 0]
    /\ answer = [r \in Requests |-> "none"]

----------------------------------------------------------------------------
(* Configure, as far as the policy is concerned: NewAuthorizer. What it     *)
(* refuses ends the process (ServerStartup).                                *)

BlocksLeft == server.authz = "rbac" /\ read < Len(server.file.blocks)

\* One round of the loop over the API blocks: `arr[1]` of a name that has no
\* space ends the process.
ReadBlock ==
    /\ boot = "configuring"
    /\ BlocksLeft
    /\ LET block == server.file.blocks[read + 1]
       IN  \/ /\ block.method = NoMethod
              /\ boot' = "fatal"
              /\ UNCHANGED <<policy, read>>
           \/ /\ block.method /= NoMethod
              /\ policy' = AddBlock(policy, block)
              /\ read' = read + 1
              /\ UNCHANGED boot
    /\ UNCHANGED <<server, stage, call, user, carried, answer>>

\* NewRBACAuthorizer, and the end of Configure.
Configure ==
    /\ boot = "configuring"
    /\ ~BlocksLeft
    /\ boot' = IF server.authz = "rbac" /\ ~ValidateInitParameters(server.file.roles, policy)
               THEN "fatal" ELSE "up"
    /\ UNCHANGED <<server, policy, read, stage, call, user, carried, answer>>

API(r) == <<call[r].path, call[r].method>>

\* w.WriteHeader: only the first status of a request counts.
WriteHeader(r, status) ==
    answer' = IF answer[r] = "none" THEN [answer EXCEPT ![r] = status] ELSE answer

Finish(r, status) ==
    /\ WriteHeader(r, status)
    /\ stage' = [stage EXCEPT ![r] = "done"]

Advance(r, to) == stage' = [stage EXCEPT ![r] = to]

\* A panic in a handler: net/http logs it and closes the connection.
Panic(r) == Finish(r, "dropped")

\* A request comes in and is routed: apiRtr goes first, then healthRtr, then
\* the handler of the UI, which takes what is left, wrong methods included.
Arrive(r) ==
    /\ boot = "up"
    /\ stage[r] = "idle"
    /\ \E a \in Sent, c \in Credentials, b \in Bodies :
        /\ call' = [call EXCEPT ![r] =
                        [path |-> a[1], method |-> a[2], cred |-> c, body |-> b]]
        /\ Advance(r, CASE Routed(a[1], a[2]) -> "verify"
                        [] a[1] = "healthz" -> "health"
                        [] OTHER -> "ui")
    /\ UNCHANGED <<configured, user, carried, answer>>

Health(r) ==
    /\ stage[r] = "health"
    /\ Finish(r, "200")
    /\ UNCHANGED <<configured, call, user, carried>>

\* spaHandler.ServeHTTP: filepath.Abs returns an absolute path, which never
\* begins with the relative "ui-agent", so the handler reports an error it does
\* not have: err.Error() of a nil err.
ServeUI(r) ==
    /\ stage[r] = "ui"
    /\ Panic(r)
    /\ UNCHANGED <<configured, call, user, carried>>

----------------------------------------------------------------------------
(* verificationMiddleware                                                   *)

Preflight(r) ==
    /\ stage[r] = "verify"
    /\ call[r].method = "OPTIONS"
    /\ Finish(r, "200")
    /\ UNCHANGED <<configured, call, user, carried>>

Authenticate(r) ==
    /\ stage[r] = "verify"
    /\ call[r].method /= "OPTIONS"
    /\ user' = [user EXCEPT ![r] =
                  IF server.authn = "null" THEN NoUser
                  ELSE KeycloakAuthenticateRequest(server.audience, call[r].cred)]
    /\ Advance(r, "authorize")
    /\ UNCHANGED <<configured, call, carried, answer>>

\* The RBAC authorizer reads u.AuthenticationError before anything else: under
\* the null authenticator u is nil and the request panics.
Authorize(r) ==
    /\ stage[r] = "authorize"
    /\ \/ /\ server.authz = "null"
          /\ Advance(r, "decode")
          /\ UNCHANGED answer
       \/ /\ server.authz = "rbac" /\ user[r] = NoUser
          /\ Panic(r)
       \/ /\ server.authz = "rbac" /\ user[r] /= NoUser
          /\ IF RBACAuthorizeRequest(policy, call[r].path, call[r].method, user[r])
             THEN Advance(r, "decode") /\ UNCHANGED answer
             ELSE Finish(r, "401")
    /\ UNCHANGED <<configured, call, user, carried>>

----------------------------------------------------------------------------
(* The handlers                                                             *)

\* A body that does not arrive or does not parse; an empty one where the API
\* needs input; a CRD call on a backend without a CRD manager, refused before
\* the body is read.
Refused(r) ==
    \/ Backend(call[r].path) = "crd" /\ ~server.crd
    \/ /\ call[r].path \notin BodyIgnored
       /\ \/ call[r].body \in {"malformed", "cut"}
          \/ call[r].body = "empty" /\ API(r) \in BodyRequired
          \/ call[r].body \in {"empty", "incomplete"} /\ API(r) \in Validated

\* Mutant: one lock around decoding and calling.
DecodeOneAtATime(r) ==
    /\ stage[r] = "decode"
    /\ \A q \in Requests : stage[q] \notin {"call", "carried"}
    /\ IF Refused(r) THEN Finish(r, "400")
                     ELSE Advance(r, "call") /\ UNCHANGED answer
    /\ UNCHANGED <<configured, call, user, carried>>

Decode(r) ==
    /\ stage[r] = "decode"
    /\ IF Refused(r) THEN Finish(r, "400")
                     ELSE Advance(r, "call") /\ UNCHANGED answer
    /\ UNCHANGED <<configured, call, user, carried>>

\* home, and serverinfo from the SPIRE configuration: 204 when there is none.
Compute(r) ==
    /\ stage[r] = "call"
    /\ \/ /\ Backend(call[r].path) = "none" \/ server.info
          /\ Backend(call[r].path) \in {"none", "config"}
          /\ WriteHeader(r, "200")
          /\ Advance(r, "encode")
       \/ /\ Backend(call[r].path) = "config" /\ ~server.info
          /\ Finish(r, "204")
    /\ UNCHANGED <<configured, call, user, carried>>

\* Without a DataStore block s.Db is nil and the call panics.
DatabaseMissing(r) ==
    /\ stage[r] = "call"
    /\ Backend(call[r].path) = "db"
    /\ ~server.db
    /\ Panic(r)
    /\ UNCHANGED <<configured, call, user, carried>>

Reachable(r) ==
    \/ Backend(call[r].path) = "db" /\ server.db
    \/ Backend(call[r].path) \in {"spire", "crd"}

\* The status of a failed call: 400 from the Tornjak APIs, 500 from the others.
ErrorStatus(r) == IF Backend(call[r].path) = "db" THEN "400" ELSE "500"

\* Mutant: a call that failed is logged and answered like one that did not.
CallFailsUnnoticed(r) ==
    /\ stage[r] = "call"
    /\ Reachable(r)
    /\ WriteHeader(r, "200")
    /\ Advance(r, "encode")
    /\ UNCHANGED <<configured, call, user, carried>>

\* The backend cannot be reached, or refuses the call, or rolls it back.
CallFails(r) ==
    /\ stage[r] = "call"
    /\ Reachable(r)
    /\ Finish(r, ErrorStatus(r))
    /\ UNCHANGED <<configured, call, user, carried>>

\* The backend carries out the call; of a batch, item by item, each with its
\* own result.
Carry(r) ==
    /\ stage[r] = "call"
    /\ Reachable(r)
    /\ carried' = [carried EXCEPT ![r] = @ + 1]
    /\ Advance(r, "carried")
    /\ UNCHANGED <<configured, call, user, answer>>

\* Mutant: a call whose answer was lost is made again.
AnswerLostRetries(r) ==
    /\ stage[r] = "carried"
    /\ Backend(call[r].path) \in {"spire", "crd"}
    /\ Advance(r, "call")
    /\ UNCHANGED <<configured, call, user, carried, answer>>

\* The connection to the backend breaks after the fact.
AnswerLost(r) ==
    /\ stage[r] = "carried"
    /\ Backend(call[r].path) \in {"spire", "crd"}
    /\ Finish(r, "500")
    /\ UNCHANGED <<configured, call, user, carried>>

\* The handler has the result and writes the headers, cors.
CallReturns(r) ==
    /\ stage[r] = "carried"
    /\ WriteHeader(r, "200")
    /\ Advance(r, "encode")
    /\ UNCHANGED <<configured, call, user, carried>>

\* The body is written, or writing fails and retError comes too late.
Encode(r) ==
    /\ stage[r] = "encode"
    /\ \E status \in {"200", "400"} : Finish(r, status)
    /\ UNCHANGED <<configured, call, user, carried>>

\* Every request has been dealt with, or the backend did not start.
Quiet == /\ boot = "fatal" \/ \A r \in Requests : stage[r] = "done"
         /\ UNCHANGED vars

Handle(r) ==
    \/ Health(r) \/ ServeUI(r)
    \/ Preflight(r) \/ Authenticate(r) \/ Authorize(r)
    \/ Decode(r) \/ Compute(r) \/ DatabaseMissing(r) \/ Encode(r)

BackendStep(r) == CallFails(r) \/ Carry(r) \/ AnswerLost(r) \/ CallReturns(r)

Next == ReadBlock \/ Configure \/ Quiet \/ \E r \in Requests : Arrive(r) \/ Handle(r) \/ BackendStep(r)

Spec == Init /\ [][Next]_vars

\* Goroutines run, and the database answers (AgentDB). Whether SPIRE or
\* Kubernetes ever answers is left open: the handlers call them under
\* context.Background(), without a deadline.
DatabaseStep(r) == Backend(call[r].path) = "db" /\ BackendStep(r)
Fairness == \A r \in Requests : WF_vars(Handle(r)) /\ WF_vars(DatabaseStep(r))
FairSpec == Spec /\ Fairness

----------------------------------------------------------------------------
(* Properties                                                               *)

\* The middleware let the request pass, by the policy the server enforces.
Granted(r) ==
    server.authz = "rbac" =>
        /\ server.authn = "keycloak"
        /\ RBACAuthorizeRequest(policy, call[r].path, call[r].method,
                KeycloakAuthenticateRequest(server.audience, call[r].cred))

\* The handler of an API acted or answered for request r.
Served(r) ==
    \/ carried[r] > 0
    \/ /\ answer[r] \in {"200", "204"}
       /\ call[r].method /= "OPTIONS"
       /\ call[r].path /= "healthz"

\* An authorizing server answers an API, or lets a backend act, only for a
\* request the policy grants: no route around the middleware, no effect before
\* the check (server.go:69).
ServedOnlyIfGranted == \A r \in Requests : Served(r) => Granted(r)

EntitledCall(r) == Entitled(server.file, server.audience, call[r].path,
                            call[r].method, call[r].cred)

\* From end to end, of the policy file and the token as the documentation reads
\* them: only the entitled are served. Without an authentication layer nobody
\* is ("it will render all calls uncallable").
ServedOnlyToEntitled ==
    \A r \in Requests :
        Served(r) /\ server.authz = "rbac" =>
            server.authn = "keycloak" /\ EntitledCall(r)

\* And the entitled are not turned away: a later API block does not take away
\* what an earlier one grants on the same path (config.go:182).
EntitledNotRefused ==
    \A r \in Requests :
        answer[r] = "401" => ~(server.authn = "keycloak" /\ EntitledCall(r))

\* What the status says of the backend: 200 that the call was carried out, any
\* other but 500 that it was not. Only a 500 leaves the caller in doubt
\* (handlers.go, spire_apis.go).
StatusTellsOutcome ==
    \A r \in Requests :
        /\ carried[r] > 0 => answer[r] \in {"none", "200", "500"}
        /\ answer[r] = "200" /\ call[r].method /= "OPTIONS"
              /\ Routed(call[r].path, call[r].method)
              /\ Backend(call[r].path) \in {"spire", "db", "crd"} => carried[r] > 0

\* No request is carried out twice, whatever is lost on the way back.
CarriedAtMostOnce == \A r \in Requests : carried[r] <= 1

\* The request has been let through to SPIRE or Kubernetes and has no answer yet.
WaitsForSPIRE(r) ==
    /\ stage[r] \in {"call", "carried"}
    /\ Backend(call[r].path) \in {"spire", "crd"}

\* A SPIRE server that never answers holds up only the requests that wait for
\* it: whatever comes in, the health check and the UI too, gets an answer or as
\* far as its own call on SPIRE, whoever else waits. The Tornjak APIs, the
\* preflights and the 400s and 401s of the other APIs never wait
\* (server.go:69, spire_apis.go:32).
LocalAPIsDoNotWaitForSPIRE ==
    \A r \in Requests :
        stage[r] /= "idle" ~> stage[r] = "done" \/ WaitsForSPIRE(r)

\* The comment above spaHandler.ServeHTTP (server.go:144): "If a file is found,
\* it will be served. If not, the file located at the index path on the SPA
\* handler will be served."
UIAnswered ==
    \A r \in Requests :
        stage[r] = "done" /\ call[r].path = "ui" => answer[r] /= "dropped"

----------------------------------------------------------------------------
\* What each stage knows of the request: who passed the middleware, what was
\* answered and what was carried out so far.
Flow(r) ==
    /\ stage[r] /= "idle" => call[r] \in Calls
    /\ stage[r] \in Stages \ {"carried", "encode", "done"}
          => carried[r] = 0 /\ answer[r] = "none"
    /\ stage[r] = "authorize" => user[r] =
          IF server.authn = "null" THEN NoUser
          ELSE KeycloakAuthenticateRequest(server.audience, call[r].cred)
    /\ stage[r] \in {"decode", "call", "carried", "encode"} => Granted(r)
    /\ stage[r] = "health" => call[r].path = "healthz"
    /\ stage[r] = "carried" => Reachable(r) /\ carried[r] = 1 /\ answer[r] = "none"
    /\ stage[r] = "encode" =>
          /\ answer[r] = "200"
          /\ IF Backend(call[r].path) \in {"none", "config"} THEN carried[r] = 0
                                                           ELSE carried[r] = 1

\* The policy so far: an API is given the roles of the last block read that
\* names it, and none when no block does.
PolicySays(path, method) ==
    /\ \A i \in 1 .. read : Speaks(server.file.blocks, read, i, path, method)
          => AllowedRoles(policy, path, method) = server.file.blocks[i].allowed
    /\ \/ AllowedRoles(policy, path, method) = {}
       \/ \E i \in 1 .. read : Speaks(server.file.blocks, read, i, path, method)

PolicyOK ==
    /\ \A a, b \in Sent : PolicySays(a[1], b[2])
    /\ boot = "up" => ~BlocksLeft

\* The inductive invariant.
IndInv ==
    /\ TypeOK
    /\ PolicyOK
    /\ \A r \in Requests : Flow(r)
    /\ \A r \in Requests : answer[r] = "401" => ~Granted(r)
    /\ ServedOnlyIfGranted
    /\ StatusTellsOutcome
    /\ CarriedAtMostOnce
    /\ boot /= "up" => \A r \in Requests : stage[r] = "idle"
=============================================================================
