---------------------------- MODULE ManagerServer ----------------------------
(****************************************************************************)
(* The Tornjak manager (api/manager, pkg/manager): a registry of Tornjak    *)
(* backends in a SQLite table, and proxies that send what comes in under    *)
(* manager-api/<call>/<server> on to the backend of that name.              *)
(*                                                                          *)
(* The registry's operations are single SQL statements, each a transaction  *)
(* of its own. A proxied request is not: the backend's row is read first,   *)
(* and the table may have changed by the time the request is sent. The      *)
(* backends are external, and can be lost with their answer.                *)
(****************************************************************************)
EXTENDS AgentRoutes, Integers, FiniteSets

CONSTANTS
    Names,          \* names of backends
    Addresses,      \* base URLs of backends
    Requests,       \* HTTP requests to the manager
    NoInfo          \* no row

\* servers (servername PRIMARY KEY, address, tls, mtls, ca, cert, key): `client`
\* is whether HttpClient can make a client of a row, `secret` whether the row
\* holds a key and a certificate.
Infos == [address : Addresses, client : BOOLEAN, secret : BOOLEAN]

ASSUME NoInfoAssumption == NoInfo \notin Infos

\* Mutant: a ban is a DELETE.
ProxyRoutesBanDeletes ==
    [entry_list |-> <<"spire/entries", "GET">>,
     agent_ban  |-> <<"spire/agents/ban", "DELETE">>]

\* HandleRequests: the calls the manager proxies and what they become: the
\* path and the method sent to the backend, whatever the client's method was.
ProxyRoutes ==
    [healthcheck        |-> <<"spire/healthcheck", "GET">>,
     serverinfo         |-> <<"spire/serverinfo", "GET">>,
     entry_list         |-> <<"spire/entries", "GET">>,
     entry_delete       |-> <<"spire/entries", "DELETE">>,
     entry_create       |-> <<"spire/entries", "POST">>,
     agent_list         |-> <<"spire/agents", "GET">>,
     agent_delete       |-> <<"spire/agents", "DELETE">>,
     agent_ban          |-> <<"spire/agents/ban", "POST">>,
     agent_jointoken    |-> <<"spire/agents/jointoken", "POST">>,
     tornjak_serverinfo |-> <<"tornjak/serverinfo", "GET">>,
     selectors_register |-> <<"tornjak/selectors", "POST">>,
     selectors_list     |-> <<"tornjak/selectors", "GET">>,
     agents_list        |-> <<"tornjak/agents", "GET">>,
     clusters_create    |-> <<"tornjak/clusters", "POST">>,
     clusters_edit      |-> <<"tornjak/clusters", "PATCH">>,
     clusters_list      |-> <<"tornjak/clusters", "GET">>,
     clusters_delete    |-> <<"tornjak/clusters", "DELETE">>]

CONSTANTS Proxied      \* the proxied calls clients make
ASSUME ProxiedAssumption == Proxied \subseteq DOMAIN ProxyRoutes

VARIABLES
    servers,        \* the table: a row or NoInfo for every name
    stage,          \* stage[r]: what request r is about to do
    call,           \* call[r]: the operation, the name and the row it carries
    target,         \* target[r]: the row a proxied request has read
    acted,          \* acted[r]: the row r inserted, deleted or was carried out at
    answer,         \* answer[r]: the status of the reply
    listed          \* listed[r]: what a list shows of each row

vars == <<servers, stage, call, target, acted, answer, listed>>

Calls == [op : {"list"}]
    \cup [op : {"delete"} \cup Proxied, name : Names]
    \cup [op : {"register"}, name : Names, info : Infos]
NoCall == [op |-> "none"]

TypeOK ==
    /\ servers \in [Names -> Infos \cup {NoInfo}]
    /\ stage \in [Requests -> {"idle", "decode", "forward", "reached", "done"}]
    /\ call \in [Requests -> Calls \cup {NoCall}]
    /\ target \in [Requests -> Infos \cup {NoInfo}]
    /\ acted \in [Requests -> Infos \cup {NoInfo}]
    /\ answer \in [Requests -> {"none", "200", "400", "401", "500", "dropped"}]
    /\ listed \in [Requests -> [Names -> Infos \cup {NoInfo}]]

Init ==
    /\ servers = [n \in Names |-> NoInfo]
    /\ stage = [r \in Requests |-> "idle"]
    /\ call = [r \in Requests |-> NoCall]
    /\ target = [r \in Requests |-> NoInfo]
    /\ acted = [r \in Requests |-> NoInfo]
    /\ answer = [r \in Requests |-> "none"]
    /\ listed = [r \in Requests |-> [n \in Names |-> NoInfo]]

Finish(r, status) ==
    /\ stage' = [stage EXCEPT ![r] = "done"]
    /\ answer' = [answer EXCEPT ![r] = status]

Advance(r, to) == stage' = [stage EXCEPT ![r] = to]

Named(r) == call[r].name
Row(r) == servers[Named(r)]

Handles(r, op) == stage[r] = "decode" /\ call[r].op = op

----------------------------------------------------------------------------
\* The request is routed. An OPTIONS request and the files of the UI are
\* answered without any of what follows.
Arrive(r) ==
    /\ stage[r] = "idle"
    /\ \E c \in Calls : call' = [call EXCEPT ![r] = c]
    /\ Advance(r, "decode")
    /\ UNCHANGED <<servers, target, acted, answer, listed>>

\* A body that does not parse, a missing name or address, or a statement that
\* fails: delete answers 500 for the last, the others 400.
Refuse(r) ==
    /\ stage[r] = "decode"
    /\ \/ Finish(r, "400")
       \/ call[r].op = "delete" /\ Finish(r, "500")
    /\ UNCHANGED <<servers, call, target, acted, listed>>

\* Mutant: the keys are blanked in copies, `for _, s := range resp.Servers`.
BlankCopies(info) == info

\* ListServers empties the key and the certificate of every row it shows.
Blank(info) ==
    IF info = NoInfo THEN NoInfo
    ELSE [address |-> info.address, client |-> info.client, secret |-> FALSE]

\* GetServers: rows.Next() ends the loop at the first trouble and rows.Err() is
\* not asked, so a list may show fewer rows than there are.
List(r) ==
    /\ Handles(r, "list")
    /\ \E shown \in SUBSET Names :
        listed' = [listed EXCEPT ![r] =
            [n \in Names |-> IF n \in shown THEN Blank(servers[n]) ELSE NoInfo]]
    /\ Finish(r, "200")
    /\ UNCHANGED <<servers, call, target, acted>>

\* Mutant: INSERT OR REPLACE.
RegisterReplaces(r) ==
    /\ Handles(r, "register")
    /\ servers' = [servers EXCEPT ![Named(r)] = call[r].info]
    /\ acted' = [acted EXCEPT ![r] = call[r].info]
    /\ Finish(r, "200")
    /\ UNCHANGED <<call, target, listed>>

\* CreateServerEntry: the primary key refuses a name that is taken.
Register(r) ==
    /\ Handles(r, "register")
    /\ IF Row(r) = NoInfo
       THEN /\ servers' = [servers EXCEPT ![Named(r)] = call[r].info]
            /\ acted' = [acted EXCEPT ![r] = call[r].info]
            /\ Finish(r, "200")
       ELSE /\ Finish(r, "400")
            /\ UNCHANGED <<servers, acted>>
    /\ UNCHANGED <<call, target, listed>>

\* DeleteServer: no row affected is an error.
Delete(r) ==
    /\ Handles(r, "delete")
    /\ IF Row(r) = NoInfo
       THEN /\ Finish(r, "500")
            /\ UNCHANGED <<servers, acted>>
       ELSE /\ servers' = [servers EXCEPT ![Named(r)] = NoInfo]
            /\ acted' = [acted EXCEPT ![r] = Row(r)]
            /\ Finish(r, "200")
    /\ UNCHANGED <<call, target, listed>>

----------------------------------------------------------------------------
(* apiServerProxyFunc                                                       *)

\* Mutant: the first row of the table, whatever its name.
LookupFirst(r) ==
    /\ stage[r] = "decode"
    /\ call[r].op \in Proxied
    /\ \E n \in Names : /\ servers[n] /= NoInfo
                        /\ target' = [target EXCEPT ![r] = servers[n]]
    /\ Advance(r, "forward")
    /\ UNCHANGED <<servers, call, acted, answer, listed>>

\* GetServer and HttpClient.
Lookup(r) ==
    /\ stage[r] = "decode"
    /\ call[r].op \in Proxied
    /\ IF Row(r) = NoInfo \/ ~Row(r).client
       THEN /\ Finish(r, "400")
            /\ UNCHANGED target
       ELSE /\ target' = [target EXCEPT ![r] = Row(r)]
            /\ Advance(r, "forward")
            /\ UNCHANGED answer
    /\ UNCHANGED <<servers, call, acted, listed>>

\* client.Do fails before the backend has seen the request.
Unreachable(r) ==
    /\ stage[r] = "forward"
    /\ Finish(r, "400")
    /\ UNCHANGED <<servers, call, target, acted, listed>>

\* The backend acts on the request, or refuses it; its Authorization header was
\* not sent along, so a backend that authenticates answers 401.
Reach(r) ==
    /\ stage[r] = "forward"
    /\ \E status \in {"200", "400", "401", "500"} :
        /\ acted' = [acted EXCEPT ![r] =
                        IF status = "200" THEN target[r] ELSE NoInfo]
        /\ answer' = [answer EXCEPT ![r] = status]
    /\ Advance(r, "reached")
    /\ UNCHANGED <<servers, call, target, listed>>

\* Mutant: the proxy answers 200 once it has a response.
PassOnOK(r) ==
    /\ stage[r] = "reached"
    /\ Finish(r, "200")
    /\ UNCHANGED <<servers, call, target, acted, listed>>

\* The backend's status is passed on.
PassOn(r) ==
    /\ stage[r] = "reached"
    /\ Advance(r, "done")
    /\ UNCHANGED <<servers, call, target, acted, answer, listed>>

\* The backend's answer is lost: client.Do fails after the fact.
AnswerLost(r) ==
    /\ stage[r] = "reached"
    /\ Finish(r, "400")
    /\ UNCHANGED <<servers, call, target, acted, listed>>

\* The manager dies and is started again: the table stays, the requests do not.
Restart ==
    /\ \E r \in Requests : stage[r] \notin {"idle", "done"}
    /\ stage' = [r \in Requests |-> IF stage[r] = "idle" THEN "idle" ELSE "done"]
    /\ answer' = [r \in Requests |->
                    IF stage[r] \in {"idle", "done"} THEN answer[r] ELSE "dropped"]
    /\ UNCHANGED <<servers, call, target, acted, listed>>

Quiet == (\A r \in Requests : stage[r] = "done") /\ UNCHANGED vars

Next ==
    \/ \E r \in Requests :
        \/ Arrive(r) \/ Refuse(r)
        \/ List(r) \/ Register(r) \/ Delete(r)
        \/ Lookup(r) \/ Unreachable(r) \/ Reach(r) \/ PassOn(r) \/ AnswerLost(r)
    \/ Restart
    \/ Quiet

Spec == Init /\ [][Next]_vars

----------------------------------------------------------------------------
(* Properties                                                               *)

Did(op, n) == {r \in Requests : /\ call[r] /= NoCall
                                /\ call[r].op = op /\ call[r].name = n
                                /\ acted[r] /= NoInfo}

\* Registrations and deletions of a name balance with its row, whatever races
\* or restarts there are: no registration overwrites another, and no row is
\* deleted twice (pkg/manager/db/sqlite.go:13, 115).
RegistryBalanced ==
    \A n \in Names :
        Cardinality(Did("register", n)) - Cardinality(Did("delete", n))
            = IF servers[n] = NoInfo THEN 0 ELSE 1

\* What a list shows of a backend is a row that some request registered under
\* that name, and nothing of the key and the certificate it came with
\* (api/manager/api.go:21, pkg/manager/db/sqlite.go:66).
ListedAsRegistered ==
    \A r \in Requests, n \in Names :
        listed[r][n] /= NoInfo =>
            /\ ~listed[r][n].secret
            /\ \E q \in Did("register", n) :
                    acted[q].address = listed[r][n].address

\* What the answer says: 200 that the operation was done, here or at the
\* backend, and of the registry's own operations any other status that it was
\* not (api/manager/server.go:119, 318, 365).
AnswerTellsOutcome ==
    \A r \in Requests :
        /\ answer[r] = "200" /\ call[r].op /= "list" => acted[r] /= NoInfo
        /\ stage[r] = "done" /\ call[r].op \in {"register", "delete"}
              => (acted[r] /= NoInfo <=> answer[r] = "200")

\* A request is sent only to an address that some request registered under the
\* name asked for: never to another backend's, however names come and go.
SentWhereRegistered ==
    \A r \in Requests :
        target[r] /= NoInfo =>
            \E q \in Did("register", Named(r)) : acted[q] = target[r]

\* What is sent to a backend is what the backend has a handler for: the two
\* tables of routes are kept by hand, in two servers
\* (api/manager/server.go:191, api/agent/server.go:187).
ProxiedIsRouted ==
    \A r \in Requests :
        stage[r] = "forward" =>
            Routed(ProxyRoutes[call[r].op][1], ProxyRoutes[call[r].op][2])

----------------------------------------------------------------------------
(* The strengthening that the proofs need                                   *)

\* Each row was registered under its name by some request.
RowsRegistered ==
    \A n \in Names :
        servers[n] /= NoInfo =>
            \E q \in Requests : /\ call[q] /= NoCall
                               /\ call[q].op = "register" /\ call[q].name = n
                               /\ acted[q] = servers[n]

\* What each stage of a request implies.
StageOK(r) ==
    /\ stage[r] = "idle" => call[r] = NoCall
    /\ stage[r] /= "idle" => call[r] \in Calls
    /\ stage[r] \in {"idle", "decode"} => target[r] = NoInfo
    /\ stage[r] \in {"idle", "decode", "forward"} =>
            acted[r] = NoInfo /\ answer[r] = "none"
    /\ stage[r] \in {"forward", "reached"} =>
            call[r].op \in Proxied /\ target[r] /= NoInfo
    /\ stage[r] = "reached" /\ answer[r] = "200" => acted[r] /= NoInfo

IndInv ==
    /\ TypeOK
    /\ \A r \in Requests : StageOK(r)
    /\ RowsRegistered
    /\ ListedAsRegistered
    /\ SentWhereRegistered
    /\ AnswerTellsOutcome
=============================================================================
