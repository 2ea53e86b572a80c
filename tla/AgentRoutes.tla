----------------------------- MODULE AgentRoutes -----------------------------
(****************************************************************************)
(* The API of the backend: the paths and methods GetRouter (server.go)      *)
(* gives a handler. Paths are named by their tails; "crd/federations" is    *)
(* spire-controller-manager/clusterfederatedtrustdomains.                   *)
(****************************************************************************)

\* The handlers of apiRtr, but for "/".
Handlers ==
    LET Of(path, methods) == {path} \X methods
    IN  UNION {Of("spire/serverinfo", {"GET"}),
               Of("spire/healthcheck", {"GET"}),
               Of("spire/agents", {"GET", "DELETE"}),
               Of("spire/agents/ban", {"POST"}),
               Of("spire/agents/jointoken", {"POST"}),
               Of("spire/entries", {"GET", "POST", "DELETE"}),
               Of("spire/bundle", {"GET"}),
               Of("spire/federations/bundles", {"GET", "POST", "PATCH", "DELETE"}),
               Of("spire/federations", {"GET", "POST", "PATCH", "DELETE"}),
               Of("crd/federations", {"GET", "POST"}),
               Of("tornjak/serverinfo", {"GET"}),
               Of("tornjak/selectors", {"GET", "POST"}),
               Of("tornjak/agents", {"GET"}),
               Of("tornjak/clusters", {"GET", "POST", "PATCH", "DELETE"})}

\* "/" takes any method, every other path the methods of its handlers, and
\* OPTIONS.
Routed(path, method) ==
    \/ path = "/"
    \/ <<path, method>> \in Handlers
    \/ method = "OPTIONS" /\ \E h \in Handlers : h[1] = path
=============================================================================
