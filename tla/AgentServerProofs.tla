-------------------------- MODULE AgentServerProofs --------------------------
(* Theorems of AgentServer, for any requests, tokens and configurations,     *)
(* policy files of any length among them.                                    *)
EXTENDS AgentServer, TLAPS

\* What the inductive invariant says of one request.
RequestOK(r) ==
    /\ Flow(r)
    /\ Served(r) => Granted(r)
    /\ answer[r] = "401" => ~Granted(r)
    /\ carried[r] > 0 => answer[r] \in {"none", "200", "500"}
    /\ answer[r] = "200" /\ call[r].method /= "OPTIONS"
         /\ Routed(call[r].path, call[r].method)
         /\ Backend(call[r].path) \in {"spire", "db", "crd"} => carried[r] > 0
    /\ carried[r] <= 1
    /\ boot /= "up" => stage[r] = "idle"

\* The inductive invariant is the types and this of every request.
LEMMA ByRequest == IndInv <=> TypeOK /\ PolicyOK /\ \A r \in Requests : RequestOK(r)
BY DEF IndInv, RequestOK, ServedOnlyIfGranted, StatusTellsOutcome, CarriedAtMostOnce

----------------------------------------------------------------------------
(* The policy                                                               *)

\* What a block adds to the policy: its roles for its API, in the place of
\* those of an earlier block, and nothing else.
LEMMA AddBlockAllows ==
    ASSUME NEW mapping, NEW block, NEW path, NEW method
    PROVE  AllowedRoles(AddBlock(mapping, block), path, method) =
              IF Names(block, path, method) THEN block.allowed
              ELSE AllowedRoles(mapping, path, method)
<1> DEFINE methods == IF block.path \in DOMAIN mapping THEN mapping[block.path]
                      ELSE EmptyMap
           one == Put(methods, block.method, block.allowed)
<1>1. /\ DOMAIN one = DOMAIN methods \cup {block.method}
      /\ \A m \in DOMAIN one :
            one[m] = IF m = block.method THEN block.allowed ELSE methods[m]
    BY DEF Put
<1>2. DOMAIN methods = IF block.path \in DOMAIN mapping THEN DOMAIN mapping[block.path] ELSE {}
    BY DEF EmptyMap
<1>3. /\ DOMAIN AddBlock(mapping, block) = DOMAIN mapping \cup {block.path}
      /\ \A p \in DOMAIN AddBlock(mapping, block) :
            AddBlock(mapping, block)[p] = IF p = block.path THEN one ELSE mapping[p]
    BY DEF AddBlock, Put
<1> HIDE DEF one
<1>4. CASE path = block.path
    BY <1>1, <1>2, <1>3, <1>4 DEF AllowedRoles, Names
<1>5. CASE path /= block.path
    BY <1>3, <1>5 DEF AllowedRoles, Names
<1> QED
    BY <1>4, <1>5

\* A policy without blocks says nothing.
LEMMA NoBlocks ==
    ASSUME read = 0, policy = EmptyMap, NEW path, NEW method
    PROVE  PolicySays(path, method)
BY DEF PolicySays, AllowedRoles, EmptyMap

\* The blocks read so far stay what the policy says when one more is read.
LEMMA OneMoreBlock ==
    ASSUME NEW path, NEW method, PolicySays(path, method), read \in Nat,
           server' = server, read' = read + 1,
           policy' = AddBlock(policy, server.file.blocks[read + 1])
    PROVE  PolicySays(path, method)'
<1> DEFINE blocks == server.file.blocks
           last == blocks[read + 1]
<1>1. AllowedRoles(policy', path, method) =
        IF Names(last, path, method) THEN last.allowed
        ELSE AllowedRoles(policy, path, method)
    BY AddBlockAllows
<1>2. CASE Names(last, path, method)
    <2>1. Speaks(blocks, read + 1, read + 1, path, method)
        BY <1>2 DEF Speaks
    <2>2. \A i \in 1 .. read + 1 :
            Speaks(blocks, read + 1, i, path, method) => i = read + 1
        BY <1>2 DEF Speaks
    <2> QED
        BY <1>1, <1>2, <2>1, <2>2 DEF PolicySays
<1>3. CASE ~Names(last, path, method)
    <2>1. \A i \in 1 .. read + 1 :
            Speaks(blocks, read + 1, i, path, method)
                <=> i \in 1 .. read /\ Speaks(blocks, read, i, path, method)
        BY <1>3 DEF Speaks
    <2> QED
        BY <1>1, <1>3, <2>1 DEF PolicySays
<1> QED
    BY <1>2, <1>3

\* Reading a block keeps the policy in order.
LEMMA ReadBlockPolicy == ASSUME IndInv, ReadBlock PROVE PolicyOK'
<1>1. TypeOK /\ PolicyOK
    BY DEF IndInv
<1>2. read \in Nat
    BY <1>1, AgentServerAssumption DEF TypeOK
<1>3. boot' /= "up"
    BY DEF ReadBlock
<1>4. ASSUME NEW a \in Sent, NEW b \in Sent PROVE PolicySays(a[1], b[2])'
    <2>1. PolicySays(a[1], b[2])
        BY <1>1 DEF PolicyOK
    <2>2. CASE UNCHANGED <<policy, read>>
        BY <2>1, <2>2 DEF ReadBlock, PolicySays
    <2>3. CASE read' = read + 1 /\ policy' = AddBlock(policy, server.file.blocks[read + 1])
        BY <1>2, <2>1, <2>3, OneMoreBlock DEF ReadBlock
    <2> QED
        BY <2>2, <2>3 DEF ReadBlock
<1> QED
    BY <1>3, <1>4 DEF PolicyOK

\* A step that leaves the policy alone, and does not finish Configure early.
LEMMA SamePolicy ==
    ASSUME PolicyOK, UNCHANGED <<server, policy, read>>, boot' = "up" => ~BlocksLeft
    PROVE  PolicyOK'
BY DEF PolicyOK, PolicySays, BlocksLeft

----------------------------------------------------------------------------
(* The requests                                                             *)

\* A backend that nobody has called yet.
LEMMA InitInv == Init => IndInv
<1> SUFFICES ASSUME Init PROVE IndInv
    OBVIOUS
<1> USE DEF Init
<1>1. TypeOK
    BY AgentServerAssumption DEF TypeOK, Stages, Answers
<1>2. ASSUME NEW r \in Requests PROVE RequestOK(r)
    BY DEF RequestOK, Flow, Served
<1>3. PolicyOK
    BY NoBlocks DEF PolicyOK
<1> QED
    BY <1>1, <1>2, <1>3, ByRequest

\* A request none of whose variables a step touches stays in order.
LEMMA Frame ==
    ASSUME NEW q, RequestOK(q), UNCHANGED <<server, policy>>, boot = "up", boot' = boot,
           stage'[q] = stage[q], call'[q] = call[q], user'[q] = user[q],
           carried'[q] = carried[q], answer'[q] = answer[q]
    PROVE  RequestOK(q)'
BY DEF RequestOK, Flow, Served, Granted, Reachable

\* A step that touches no request but r, and keeps r in order, keeps the
\* invariant.
LEMMA OneRequest ==
    ASSUME NEW r \in Requests, IndInv, boot = "up", UNCHANGED configured,
           TypeOK', RequestOK(r)',
           \A q \in Requests \ {r} :
                /\ stage'[q] = stage[q] /\ call'[q] = call[q] /\ user'[q] = user[q]
                /\ carried'[q] = carried[q] /\ answer'[q] = answer[q]
    PROVE  IndInv'
<1>1. ASSUME NEW q \in Requests, q /= r PROVE RequestOK(q)'
    BY <1>1, Frame, ByRequest DEF configured
<1>2. PolicyOK'
    BY SamePolicy, ByRequest DEF configured, PolicyOK
<1>3. (TypeOK /\ PolicyOK /\ \A q \in Requests : RequestOK(q))'
    BY <1>1, <1>2
<1> QED
    BY <1>3 DEF IndInv, RequestOK, ServedOnlyIfGranted, StatusTellsOutcome,
        CarriedAtMostOnce

\* A request comes in.
LEMMA ArriveInv == ASSUME IndInv, NEW r \in Requests, Arrive(r) PROVE IndInv'
<1> USE DEF Arrive, Advance, configured
<1>1. PICK a \in Sent, c \in Credentials, b \in Bodies :
        call' = [call EXCEPT ![r] =
                    [path |-> a[1], method |-> a[2], cred |-> c, body |-> b]]
    OBVIOUS
<1>2. call'[r] \in Calls /\ call' \in [Requests -> Calls \cup {NoCall}]
    BY <1>1, ByRequest DEF TypeOK, Calls
<1>3. stage'[r] \in {"verify", "health", "ui"} /\ stage' \in [Requests -> Stages]
    BY ByRequest DEF TypeOK, Stages
<1>4. TypeOK'
    BY <1>2, <1>3, ByRequest DEF TypeOK
<1>5. stage'[r] = "health" => call'[r].path = "healthz"
    BY ByRequest DEF TypeOK
<1>6. carried'[r] = 0 /\ answer'[r] = "none"
    BY ByRequest DEF RequestOK, Flow, Stages
<1>7. RequestOK(r)'
    BY <1>2, <1>3, <1>5, <1>6 DEF RequestOK, Flow, Served
<1> QED
    BY <1>4, <1>7, OneRequest, ByRequest DEF TypeOK

\* The steps of a handler that only end or advance a request.
LEMMA HandleInv == ASSUME IndInv, NEW r \in Requests, Handle(r) PROVE IndInv'
<1> USE DEF configured, Advance, Finish, WriteHeader, Panic
<1>0. TypeOK /\ RequestOK(r)
    BY ByRequest
<1>1. CASE Health(r)
    <2> USE <1>1, <1>0 DEF Health
    <2>1. TypeOK'
        BY DEF TypeOK, Stages, Answers
    <2>2. RequestOK(r)'
        BY DEF RequestOK, Flow, Served, TypeOK, Stages, Routed, Handlers, StaticAPIV1List
    <2> QED
        BY <2>1, <2>2, OneRequest DEF TypeOK, RequestOK
<1>2. CASE ServeUI(r)
    <2> USE <1>2, <1>0 DEF ServeUI
    <2>1. TypeOK'
        BY DEF TypeOK, Stages, Answers
    <2>2. RequestOK(r)'
        BY DEF RequestOK, Flow, Served, TypeOK, Stages
    <2> QED
        BY <2>1, <2>2, OneRequest DEF TypeOK, RequestOK
<1>3. CASE Preflight(r)
    <2> USE <1>3, <1>0 DEF Preflight
    <2>1. TypeOK'
        BY DEF TypeOK, Stages, Answers
    <2>2. RequestOK(r)'
        BY DEF RequestOK, Flow, Served, TypeOK, Stages
    <2> QED
        BY <2>1, <2>2, OneRequest DEF TypeOK, RequestOK
<1>4. CASE Authenticate(r)
    <2> USE <1>4, <1>0 DEF Authenticate
    <2>1. call[r] \in Calls
        BY DEF RequestOK, Flow
    <2>2. user'[r] \in Users \cup {NoUser}
        BY <2>1 DEF TypeOK, KeycloakAuthenticateRequest, Users, Calls
    <2>3. user' \in [Requests -> Users \cup {NoUser}]
        BY <2>2 DEF TypeOK
    <2>4. TypeOK'
        BY <2>3 DEF TypeOK, Stages
    <2>5. RequestOK(r)'
        BY DEF RequestOK, Flow, Served, TypeOK, Stages
    <2> QED
        BY <2>4, <2>5, OneRequest DEF TypeOK, RequestOK
<1>5. CASE Authorize(r)
    <2> USE <1>5, <1>0 DEF Authorize
    <2>1. TypeOK'
        BY DEF TypeOK, Stages, Answers
    <2>2. stage'[r] = "decode" => Granted(r)'
        BY AgentServerAssumption DEF TypeOK, RequestOK, Flow, Granted
    <2>3. answer'[r] = "401" => ~Granted(r)'
        BY DEF TypeOK, RequestOK, Flow, Granted, Stages
    <2>4. answer'[r] \notin {"200", "204"} /\ carried'[r] = 0
        BY DEF TypeOK, RequestOK, Flow, Stages
    <2>5. RequestOK(r)'
        BY <2>2, <2>3, <2>4 DEF RequestOK, Flow, Served, TypeOK, Stages
    <2> QED
        BY <2>1, <2>5, OneRequest DEF TypeOK, RequestOK
<1>6. CASE Decode(r)
    <2> USE <1>6, <1>0 DEF Decode
    <2>1. TypeOK'
        BY DEF TypeOK, Stages, Answers
    <2>2. RequestOK(r)'
        BY DEF RequestOK, Flow, Served, TypeOK, Stages, Granted
    <2> QED
        BY <2>1, <2>2, OneRequest DEF TypeOK, RequestOK
<1>7. CASE Compute(r)
    <2> USE <1>7, <1>0 DEF Compute
    <2>1. TypeOK'
        BY DEF TypeOK, Stages, Answers
    <2>2. RequestOK(r)'
        BY DEF RequestOK, Flow, Served, TypeOK, Stages, Granted
    <2> QED
        BY <2>1, <2>2, OneRequest DEF TypeOK, RequestOK
<1>8. CASE DatabaseMissing(r)
    <2> USE <1>8, <1>0 DEF DatabaseMissing
    <2>1. TypeOK'
        BY DEF TypeOK, Stages, Answers
    <2>2. RequestOK(r)'
        BY DEF RequestOK, Flow, Served, TypeOK, Stages
    <2> QED
        BY <2>1, <2>2, OneRequest DEF TypeOK, RequestOK
<1>9. CASE Encode(r)
    <2> USE <1>9, <1>0 DEF Encode
    <2>1. answer'[r] = "200" /\ answer' = answer
        BY DEF RequestOK, Flow, TypeOK
    <2>2. TypeOK'
        BY <2>1 DEF TypeOK, Stages, Answers
    <2>3. RequestOK(r)'
        BY <2>1 DEF RequestOK, Flow, Served, TypeOK, Stages, Granted
    <2> QED
        BY <2>2, <2>3, OneRequest DEF TypeOK, RequestOK
<1> QED
    BY <1>1, <1>2, <1>3, <1>4, <1>5, <1>6, <1>7, <1>8, <1>9 DEF Handle

\* The steps of the backends.
LEMMA BackendInv == ASSUME IndInv, NEW r \in Requests, BackendStep(r) PROVE IndInv'
<1> USE DEF configured, Advance, Finish, WriteHeader
<1>0. TypeOK /\ RequestOK(r)
    BY ByRequest
<1>1. CASE CallFails(r)
    <2> USE <1>1, <1>0 DEF CallFails, ErrorStatus
    <2>1. TypeOK'
        BY DEF TypeOK, Stages, Answers
    <2>2. RequestOK(r)'
        BY DEF RequestOK, Flow, Served, TypeOK, Stages
    <2> QED
        BY <2>1, <2>2, OneRequest DEF TypeOK, RequestOK
<1>2. CASE Carry(r)
    <2> USE <1>2, <1>0 DEF Carry
    <2>1. TypeOK'
        BY DEF TypeOK, Stages
    <2>2. carried'[r] = 1 /\ stage'[r] = "carried" /\ answer'[r] = "none"
        BY DEF RequestOK, Flow, TypeOK, Stages
    <2>3. Granted(r)' /\ Reachable(r)'
        BY DEF RequestOK, Flow, Granted, Reachable
    <2>4. RequestOK(r)'
        BY <2>2, <2>3 DEF RequestOK, Flow, Stages
    <2> QED
        BY <2>1, <2>4, OneRequest DEF TypeOK, RequestOK
<1>3. CASE AnswerLost(r)
    <2> USE <1>3, <1>0 DEF AnswerLost
    <2>1. TypeOK'
        BY DEF TypeOK, Stages, Answers
    <2>2. RequestOK(r)'
        BY DEF RequestOK, Flow, Served, TypeOK, Stages, Granted
    <2> QED
        BY <2>1, <2>2, OneRequest DEF TypeOK, RequestOK
<1>4. CASE CallReturns(r)
    <2> USE <1>4, <1>0 DEF CallReturns
    <2>1. TypeOK'
        BY DEF TypeOK, Stages, Answers
    <2>2. RequestOK(r)'
        BY DEF RequestOK, Flow, Served, TypeOK, Stages, Granted, Reachable
    <2> QED
        BY <2>1, <2>2, OneRequest DEF TypeOK, RequestOK
<1> QED
    BY <1>1, <1>2, <1>3, <1>4 DEF BackendStep

\* Every step preserves the invariant.
LEMMA StepInv == IndInv /\ [Next]_vars => IndInv'
<1> SUFFICES ASSUME IndInv, [Next]_vars PROVE IndInv'
    OBVIOUS
<1>0. CASE ReadBlock
    <2>1. TypeOK'
        BY <1>0, ByRequest, AgentServerAssumption DEF ReadBlock, BlocksLeft, TypeOK
    <2>2. ASSUME NEW r \in Requests PROVE RequestOK(r)'
        BY <1>0, ByRequest DEF ReadBlock, RequestOK, Flow, Served, Stages
    <2> QED
        BY <1>0, <2>1, <2>2, ReadBlockPolicy DEF IndInv, RequestOK, ServedOnlyIfGranted,
            StatusTellsOutcome, CarriedAtMostOnce
<1>1. CASE Configure
    <2>1. TypeOK'
        BY <1>1, ByRequest DEF Configure, TypeOK
    <2>2. ASSUME NEW r \in Requests PROVE RequestOK(r)'
        BY <1>1, ByRequest DEF Configure, RequestOK, Flow, Served, Granted,
            Reachable, Stages
    <2>3. PolicyOK'
        BY <1>1, SamePolicy, ByRequest DEF Configure
    <2> QED
        BY <2>1, <2>2, <2>3 DEF IndInv, RequestOK, ServedOnlyIfGranted,
            StatusTellsOutcome, CarriedAtMostOnce
<1>2. CASE UNCHANGED vars
    <2>1. TypeOK'
        BY <1>2, ByRequest DEF vars, configured, TypeOK
    <2>2. ASSUME NEW r \in Requests PROVE RequestOK(r)'
        BY <1>2, ByRequest DEF vars, configured, RequestOK, Flow, Served, Granted, Reachable
    <2>3. PolicyOK'
        BY <1>2, SamePolicy, ByRequest DEF vars, configured, PolicyOK
    <2> QED
        BY <2>1, <2>2, <2>3 DEF IndInv, RequestOK, ServedOnlyIfGranted,
            StatusTellsOutcome, CarriedAtMostOnce
<1>3. CASE Quiet
    BY <1>2, <1>3 DEF Quiet
<1> QED
    BY <1>0, <1>1, <1>2, <1>3, ArriveInv, HandleInv, BackendInv DEF Next

\* The inductive invariant holds of every run of the backend.
THEOREM Invariant == Spec => []IndInv
    BY InitInv, StepInv, PTL DEF Spec

\* Nothing is answered and no backend acts for a request the policy does not
\* grant.
THEOREM Guarded == Spec => []ServedOnlyIfGranted
<1>1. IndInv => ServedOnlyIfGranted
    BY DEF IndInv
<1> QED
    BY <1>1, Invariant, PTL

\* When the server is up, what the policy grants a request and what the file and
\* the token entitle it to are the same.
LEMMA GrantedIsEntitled ==
    ASSUME IndInv, boot = "up", NEW r \in Requests, call[r] \in Calls,
           server.authz = "rbac"
    PROVE  Granted(r) <=> server.authn = "keycloak" /\ EntitledCall(r)
<1> DEFINE blocks == server.file.blocks
           path == call[r].path
           method == call[r].method
           cred == call[r].cred
           user_ == KeycloakAuthenticateRequest(server.audience, cred)
           allowed == AllowedRoles(policy, path, method)
<1>1. read = Len(blocks)
    BY AgentServerAssumption DEF IndInv, PolicyOK, BlocksLeft, TypeOK
<1>2. PolicySays(path, method)
    BY DEF IndInv, PolicyOK, Calls
<1>3. /\ \A i \in 1 .. Len(blocks) :
            Speaks(blocks, Len(blocks), i, path, method) => allowed = blocks[i].allowed
      /\ allowed = {} \/ \E i \in 1 .. Len(blocks) :
                            Speaks(blocks, Len(blocks), i, path, method)
    BY <1>1, <1>2 DEF PolicySays
<1>4. (~user_.failed /\ \E role \in allowed : role = AnyRole \/ role \in user_.roles)
        <=> /\ cred.header = "bearer" /\ cred.sound
            /\ server.audience /= "" => server.audience \in cred.audience
            /\ allowed \cap (cred.roles \cup {AnyRole}) /= {}
    BY DEF KeycloakAuthenticateRequest, AuthenticationError
<1>5. allowed \cap (cred.roles \cup {AnyRole}) /= {}
        <=> \E i \in 1 .. Len(blocks) :
                /\ Speaks(blocks, Len(blocks), i, path, method)
                /\ blocks[i].allowed \cap (cred.roles \cup {AnyRole}) /= {}
    <2> HIDE DEF allowed, blocks, path, method, cred
    <2> QED
        BY <1>3
<1>6. Granted(r) <=> /\ server.authn = "keycloak"
                     /\ ~user_.failed
                     /\ \E role \in allowed : role = AnyRole \/ role \in user_.roles
    BY DEF Granted, RBACAuthorizeRequest, AuthorizeAPIV1Request
<1>7. EntitledCall(r) <=>
        /\ cred.header = "bearer" /\ cred.sound
        /\ server.audience /= "" => server.audience \in cred.audience
        /\ \E i \in 1 .. Len(blocks) :
                /\ Speaks(blocks, Len(blocks), i, path, method)
                /\ blocks[i].allowed \cap (cred.roles \cup {AnyRole}) /= {}
    BY DEF EntitledCall, Entitled
<1> HIDE DEF blocks, path, method, cred, user_, allowed
<1> QED
    BY <1>4, <1>5, <1>6, <1>7

\* A request that was answered came in while the server was up.
LEMMA AnsweredIsCall ==
    ASSUME IndInv, NEW r \in Requests, answer[r] /= "none" \/ carried[r] > 0
    PROVE  boot = "up" /\ call[r] \in Calls
BY DEF IndInv, Flow, TypeOK, Stages

\* From the policy file and the token to the answer: only the entitled are
\* served, for every policy file.
THEOREM OnlyTheEntitled == Spec => []ServedOnlyToEntitled
<1>1. IndInv => ServedOnlyToEntitled
    <2> SUFFICES ASSUME IndInv, NEW r \in Requests, Served(r), server.authz = "rbac"
                 PROVE  server.authn = "keycloak" /\ EntitledCall(r)
        BY DEF ServedOnlyToEntitled
    <2>1. Granted(r)
        BY DEF IndInv, ServedOnlyIfGranted
    <2> QED
        BY <2>1, AnsweredIsCall, GrantedIsEntitled DEF Served
<1> QED
    BY <1>1, Invariant, PTL

\* And the entitled are not refused, whatever other blocks the file holds.
THEOREM TheEntitledPass == Spec => []EntitledNotRefused
<1>1. IndInv => EntitledNotRefused
    <2> SUFFICES ASSUME IndInv, NEW r \in Requests, answer[r] = "401"
                 PROVE  ~(server.authn = "keycloak" /\ EntitledCall(r))
        BY DEF EntitledNotRefused
    <2>1. ~Granted(r) /\ server.authz = "rbac"
        BY DEF IndInv, Granted
    <2> QED
        BY <2>1, AnsweredIsCall, GrantedIsEntitled
<1> QED
    BY <1>1, Invariant, PTL

\* The status says whether the call was carried out, but for 500.
THEOREM StatusHonest == Spec => []StatusTellsOutcome
<1>1. IndInv => StatusTellsOutcome
    BY DEF IndInv
<1> QED
    BY <1>1, Invariant, PTL

\* No request reaches its backend twice.
THEOREM NeverTwice == Spec => []CarriedAtMostOnce
<1>1. IndInv => CarriedAtMostOnce
    BY DEF IndInv
<1> QED
    BY <1>1, Invariant, PTL
=============================================================================
