---------------------------- MODULE MCAgentServer ----------------------------
(* Instances of AgentServer: one request of every kind, or two of a few,     *)
(* tokens good and bad, the combinations of plugins, and policy files that   *)
(* NewAuthorizer accepts and refuses.                                        *)
EXTENDS AgentServer, CRDFederation, TLC

Block(path, method, allowed) == [path |-> path, method |-> method, allowed |-> allowed]

\* Two blocks of one path, and one overridden by a later block of its API.
PathTwice ==
    [roles |-> {"admin", "viewer", AnyRole},
     blocks |-> <<Block("tornjak/clusters", "GET", {"viewer"}),
                  Block("tornjak/clusters", "POST", {"viewer"}),
                  Block("tornjak/clusters", "POST", {"admin"}),
                  Block("spire/agents/ban", "POST", {"admin"})>>]

\* The empty role, and an API with no role listed.
EmptyRole ==
    [roles |-> {"admin", AnyRole},
     blocks |-> <<Block("tornjak/clusters", "GET", {AnyRole}),
                  Block("tornjak/clusters", "POST", {}),
                  Block("spire/agents/ban", "POST", {"admin"})>>]

\* A role nobody defined, and a method the path has not: both refused.
BadRole == [roles |-> {"admin"},
            blocks |-> <<Block("spire/bundle", "GET", {"viewer"})>>]
BadMethod == [roles |-> {"admin"},
              blocks |-> <<Block("spire/bundle", "POST", {"admin"})>>]
NameOnly == [roles |-> {"admin"},
             blocks |-> <<Block("spire/bundle", NoMethod, {"admin"})>>]

Config(authn, authz, file, audience, all) ==
    [authn |-> authn, authz |-> authz, file |-> file, audience |-> audience,
     db |-> all, crd |-> all, info |-> all]

MCServers ==
    {Config("null", "null", EmptyRole, "", all) : all \in BOOLEAN}
      \cup {Config("null", "rbac", EmptyRole, "", TRUE)}
      \cup {Config("keycloak", "rbac", f, "tornjak", TRUE) :
                f \in {PathTwice, EmptyRole, BadRole, BadMethod, NameOnly}}
      \cup {Config("keycloak", "rbac", PathTwice, "", FALSE)}

Token(sound, audience, roles) ==
    [header |-> "bearer", sound |-> sound, audience |-> audience, roles |-> roles]

Anonymous == [header |-> "none", sound |-> FALSE, audience |-> {}, roles |-> {}]

MCCredentials ==
    {Anonymous, Token(TRUE, {"tornjak"}, {"admin"}), Token(TRUE, {"tornjak"}, {"viewer"}),
     Token(TRUE, {"other"}, {"admin"}), Token(FALSE, {"tornjak"}, {"admin"}),
     Token(TRUE, {"tornjak"}, {"viewer", "admin"})}

MCSent == {<<"tornjak/clusters", "GET">>, <<"tornjak/clusters", "POST">>,
           <<"spire/agents/ban", "POST">>, <<"crd/federations", "POST">>,
           <<"tornjak/serverinfo", "GET">>, <<"/", "GET">>,
           <<"healthz", "GET">>, <<"ui", "GET">>,
           <<"tornjak/clusters", "OPTIONS">>, <<"tornjak/agents", "POST">>}

FewSent == {<<"tornjak/clusters", "GET">>, <<"spire/agents/ban", "POST">>,
            <<"healthz", "GET">>, <<"ui", "GET">>, <<"/", "GET">>}

FewServers == {Config("keycloak", "rbac", PathTwice, "tornjak", TRUE),
               Config("null", "null", EmptyRole, "", TRUE)}

FewCredentials == {Anonymous, Token(TRUE, {"tornjak"}, {"viewer", "admin"})}

\* One request may be any; beside another, both are among the few.
Few(r) == /\ <<call[r].path, call[r].method>> \in FewSent
          /\ call[r].cred \in FewCredentials /\ call[r].body \in {"good", "cut"}
Under == {r \in Requests : stage[r] /= "idle"}
Bounded == Cardinality(Under) > 1 => server \in FewServers /\ \A r \in Under : Few(r)

----------------------------------------------------------------------------
(* The CRD manager in a scene of its own: a behaviour is either that of the *)
(* server, or that of the calls that reach the CRD manager.                 *)

VARIABLE scene

Relationship(domain, endpoint, keys) ==
    [domain |-> domain, endpoint |-> endpoint, keys |-> keys]

\* One relationship, two, and two of one trust domain in two spellings; without
\* authorities, which cannot be read back, before another; one that is refused before.
MCBatches ==
    LET a == Relationship("a", "web", "some")
        spiffea == Relationship("spiffe://a", "spiffe", "absent")
        b == Relationship("b", "spiffe", "some")
        hollow == Relationship("b", "web", "none")
        refused == {Relationship("?", "web", "absent"), Relationship("b", "refused", "some"),
                    Relationship("b", "web", "malformed")}
    IN  {<<a>>, <<a, b>>, <<a, spiffea>>, <<hollow, a>>} \cup {<<x, a>> : x \in refused}

MCTexts == {"a", "spiffe://a", "b", "?"}
MCDomainOf == [t \in MCTexts |-> IF t = "spiffe://a" THEN "a" ELSE t]
MCOtherObjects == {Relationship("b", "web", "some"), Relationship("?", "web", "some")}

\* One request creates any batch, one a relationship that others want too, one lists.
Parts == /\ fedStage["f1"] \notin {"list", "failed"}
         /\ fedStage["f2"] \notin {"list", "failed"} /\ Len(batch["f2"]) < 2
         /\ fedStage["f3"] \notin {"items", "created"}

mcVars == <<vars, scene, fedVars>>

----------------------------------------------------------------------------
\* No further request comes in.
Rest == /\ \A r \in Requests : stage[r] \in {"idle", "done"}
        /\ UNCHANGED vars

MCInit == /\ scene \in {"server", "federations"}
          /\ Init /\ FedInit
          /\ scene = "federations" => server = CHOOSE s \in FewServers : TRUE

MCNext ==
    \/ scene = "server" /\ Next /\ Bounded' /\ UNCHANGED <<scene, fedVars>>
    \/ scene = "server" /\ Rest /\ UNCHANGED <<scene, fedVars>>
    \/ scene = "federations" /\ FedNext /\ Parts' /\ UNCHANGED <<scene, vars>>

MCSpec == MCInit /\ [][MCNext]_mcVars /\ Fairness

=============================================================================
