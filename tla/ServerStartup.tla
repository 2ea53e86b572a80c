---------------------------- MODULE ServerStartup ----------------------------
(****************************************************************************)
(* How `tornjak-backend http` comes up and goes down: Server.Configure      *)
(* (api/agent/config.go) turns the parsed configuration into plugins, and   *)
(* Server.HandleRequests (api/agent/server.go) opens the HTTP and HTTPS     *)
(* listeners, each in a goroutine of its own, and then reads one error per  *)
(* configured port from a channel of two places before it returns.          *)
(*                                                                          *)
(* The configuration is data: a plugin block is its type and whether its    *)
(* constructor (NewAgentsDB, NewCRDManager, NewAuthenticator, NewAuthorizer *)
(* or the count of its keys) accepts it; the https block is what            *)
(* HTTPSConfig.Parse makes of it.                                           *)
(****************************************************************************)
EXTENDS Integers, Sequences

CONSTANTS
    PluginLists,        \* the plugin lists a configuration file may hold
    Defaulted           \* the plugins slot no block has filled

PluginTypes == {"DataStore", "SPIRECRDManager", "Authenticator", "Authorizer"}

\* A block of another type is passed over.
Blocks == [type : PluginTypes \cup {"Other"}, accepted : BOOLEAN]

ASSUME PluginListsAssumption == /\ PluginLists \subseteq Seq(Blocks)
                                /\ Defaulted \notin Nat

Configs == [verified : BOOLEAN,                 \* VerifyConfiguration returns nil
            plugins : PluginLists,
            http : {"absent", "port"},
            https : {"absent", "no_port", "unparsable", "usable"}]

Listeners == {"http", "https"}

\* Life of a listener's goroutine; "sending" is blocked in `errChannel <- err`
\* until the channel has room.
Phases == {"off", "starting", "serving", "sending", "failed"}

\* Mutant: a channel of one place.
ChannelOfOne == 1

\* make(chan error, 2)
ChannelSize == 2

VARIABLES
    config,         \* the configuration the process was started with
    pc,             \* where the main goroutine stands
    next,           \* the plugin block Configure looks at
    plugin,         \* plugin[t]: the block that filled s.Db, s.CRDManager, ...
    listener,       \* listener[l]: phase of the goroutine that serves l
    httpHandler,    \* what the HTTP listener answers with
    errChannel,     \* who reported, oldest first
    numPorts,       \* how many errors HandleRequests reads before it returns
    received        \* how many it has read

vars == <<config, pc, next, plugin, listener, httpHandler, errChannel,
          numPorts, received>>

TypeOK ==
    /\ config \in Configs
    /\ pc \in {"verify", "plugins", "listen", "wait", "returned", "fatal"}
    /\ next \in 1 .. Len(config.plugins) + 1
    /\ plugin \in [PluginTypes -> 1 .. Len(config.plugins) \cup {Defaulted}]
    /\ listener \in [Listeners -> Phases]
    /\ httpHandler \in {"none", "api", "redirect"}
    /\ errChannel \in Seq({"http", "https", "config"})
    /\ Len(errChannel) <= ChannelSize
    /\ numPorts \in 1 .. 2
    /\ received \in 0 .. numPorts

Init ==
    /\ config \in Configs
    /\ pc = "verify"
    /\ next = 1
    /\ plugin = [t \in PluginTypes |-> Defaulted]
    /\ listener = [l \in Listeners |-> "off"]
    /\ httpHandler = "none"
    /\ errChannel = <<>>
    /\ numPorts = 1
    /\ received = 0

network == <<listener, httpHandler, errChannel, numPorts, received>>

----------------------------------------------------------------------------
(* Configure                                                                *)

\* VerifyConfiguration and ConfigureDefaults; an error ends in log.Fatal.
VerifyConfiguration ==
    /\ pc = "verify"
    /\ pc' = IF config.verified THEN "plugins" ELSE "fatal"
    /\ plugin' = [t \in PluginTypes |-> Defaulted]
    /\ UNCHANGED <<config, next, network>>

Block == config.plugins[next]

\* Mutant: the constructor's error is logged and the loop goes on.
ConfigurePluginKeepsGoing ==
    /\ pc = "plugins"
    /\ next <= Len(config.plugins)
    /\ plugin' = IF Block.accepted /\ Block.type \in PluginTypes
                 THEN [plugin EXCEPT ![Block.type] = next] ELSE plugin
    /\ next' = next + 1
    /\ UNCHANGED <<config, pc, network>>

\* One turn of the loop over the blocks: a second block of a type replaces the
\* first, one that a constructor refuses ends the process.
ConfigurePlugin ==
    /\ pc = "plugins"
    /\ next <= Len(config.plugins)
    /\ \/ /\ Block.type = "Other"
          /\ next' = next + 1
          /\ UNCHANGED <<pc, plugin>>
       \/ /\ Block.type \in PluginTypes
          /\ Block.accepted
          /\ plugin' = [plugin EXCEPT ![Block.type] = next]
          /\ next' = next + 1
          /\ UNCHANGED pc
       \/ /\ Block.type \in PluginTypes
          /\ ~Block.accepted
          /\ pc' = "fatal"
          /\ UNCHANGED <<next, plugin>>
    /\ UNCHANGED <<config, network>>

Configured ==
    /\ pc = "plugins"
    /\ next > Len(config.plugins)
    /\ pc' = "listen"
    /\ UNCHANGED <<config, next, plugin, network>>

----------------------------------------------------------------------------
(* HandleRequests                                                           *)

\* Without an http block HandleRequests queues an error nobody reads and
\* returns: the process ends without a message.
NoHTTPConfig ==
    /\ pc = "listen"
    /\ config.http = "absent"
    /\ errChannel' = Append(errChannel, "config")
    /\ pc' = "returned"
    /\ UNCHANGED <<config, next, plugin, listener, httpHandler, numPorts, received>>

ListenPlain ==
    /\ pc = "listen"
    /\ config.http = "port"
    /\ config.https = "absent"
    /\ httpHandler' = "api"
    /\ listener' = [listener EXCEPT !["http"] = "starting"]
    /\ pc' = "wait"
    /\ UNCHANGED <<config, next, plugin, errChannel, numPorts, received>>

\* Mutant: the fallback is not counted among the ports.
ListenFallbackUncounted ==
    /\ pc = "listen"
    /\ config.http = "port"
    /\ config.https \in {"no_port", "unparsable"}
    /\ errChannel' = Append(errChannel, "config")
    /\ httpHandler' = "api"
    /\ listener' = [listener EXCEPT !["http"] = "starting"]
    /\ pc' = "wait"
    /\ UNCHANGED <<config, next, plugin, numPorts, received>>

\* An https block that cannot be used queues its error, and the HTTP port
\* serves the API itself.
ListenFallback ==
    /\ pc = "listen"
    /\ config.http = "port"
    /\ config.https \in {"no_port", "unparsable"}
    /\ numPorts' = 2
    /\ errChannel' = Append(errChannel, "config")
    /\ httpHandler' = "api"
    /\ listener' = [listener EXCEPT !["http"] = "starting"]
    /\ pc' = "wait"
    /\ UNCHANGED <<config, next, plugin, received>>

\* Mutant: the default router stays on the HTTP port beside HTTPS.
ListenSecureBeside ==
    /\ pc = "listen"
    /\ config.http = "port"
    /\ config.https = "usable"
    /\ numPorts' = 2
    /\ httpHandler' = "api"
    /\ listener' = [l \in Listeners |-> "starting"]
    /\ pc' = "wait"
    /\ UNCHANGED <<config, next, plugin, errChannel, received>>

\* Mutant: HandleRequests waits for the HTTP listener alone.
ListenSecureUncounted ==
    /\ pc = "listen"
    /\ config.http = "port"
    /\ config.https = "usable"
    /\ httpHandler' = "redirect"
    /\ listener' = [l \in Listeners |-> "starting"]
    /\ pc' = "wait"
    /\ UNCHANGED <<config, next, plugin, errChannel, numPorts, received>>

ListenSecure ==
    /\ pc = "listen"
    /\ config.http = "port"
    /\ config.https = "usable"
    /\ numPorts' = 2
    /\ httpHandler' = "redirect"
    /\ listener' = [l \in Listeners |-> "starting"]
    /\ pc' = "wait"
    /\ UNCHANGED <<config, next, plugin, errChannel, received>>

\* ListenAndServe has bound its port.
Bind(l) ==
    /\ pc = "wait"
    /\ listener[l] = "starting"
    /\ listener' = [listener EXCEPT ![l] = "serving"]
    /\ UNCHANGED <<config, pc, next, plugin, httpHandler, errChannel, numPorts, received>>

\* ListenAndServe returns: the port is taken, or accepting connections fails.
ListenAndServeReturns(l) ==
    /\ pc = "wait"
    /\ listener[l] \in {"starting", "serving"}
    /\ listener' = [listener EXCEPT ![l] = "sending"]
    /\ UNCHANGED <<config, pc, next, plugin, httpHandler, errChannel, numPorts, received>>

\* Mutant: the error is logged by the goroutine and never sent.
ReportOnlyLogs(l) ==
    /\ pc = "wait"
    /\ listener[l] = "sending"
    /\ listener' = [listener EXCEPT ![l] = "failed"]
    /\ UNCHANGED <<config, pc, next, plugin, httpHandler, errChannel, numPorts, received>>

\* `errChannel <- err`: waits while the channel is full.
Report(l) ==
    /\ pc = "wait"
    /\ listener[l] = "sending"
    /\ Len(errChannel) < ChannelSize
    /\ errChannel' = Append(errChannel, l)
    /\ listener' = [listener EXCEPT ![l] = "failed"]
    /\ UNCHANGED <<config, pc, next, plugin, httpHandler, numPorts, received>>

\* One turn of `for i := 0; i < numPorts; i++ { err := <-errChannel }`; after
\* the last one HandleRequests returns and the process with it.
ReadError ==
    /\ pc = "wait"
    /\ errChannel /= <<>>
    /\ errChannel' = Tail(errChannel)
    /\ received' = received + 1
    /\ pc' = IF received + 1 = numPorts THEN "returned" ELSE "wait"
    /\ UNCHANGED <<config, next, plugin, listener, httpHandler, numPorts>>

Ended == pc \in {"returned", "fatal"}

\* A process that has ended stays so.
Done == Ended /\ UNCHANGED vars

Next ==
    \/ VerifyConfiguration
    \/ ConfigurePlugin
    \/ Configured
    \/ NoHTTPConfig
    \/ ListenPlain
    \/ ListenFallback
    \/ ListenSecure
    \/ \E l \in Listeners : Bind(l) \/ ListenAndServeReturns(l) \/ Report(l)
    \/ ReadError
    \/ Done

Spec == Init /\ [][Next]_vars

\* The main goroutine runs, and a goroutine that has an error sends it when the
\* channel has room. Nothing makes a listener fail.
Fairness == /\ WF_vars(VerifyConfiguration \/ ConfigurePlugin \/ Configured)
            /\ WF_vars(NoHTTPConfig \/ ListenPlain \/ ListenFallback \/ ListenSecure)
            /\ WF_vars(ReadError)
            /\ \A l \in Listeners : WF_vars(Report(l))

FairSpec == Spec /\ Fairness

----------------------------------------------------------------------------
(* Properties                                                               *)

Serving(l) == pc = "wait" /\ listener[l] = "serving"

\* The slot of type t holds the last block of that type among the first n - 1,
\* or its default when there is none.
Filled(t, n) ==
    \/ /\ plugin[t] = Defaulted
       /\ \A i \in 1 .. n - 1 : config.plugins[i].type /= t
    \/ /\ plugin[t] \in 1 .. n - 1
       /\ config.plugins[plugin[t]].type = t
       /\ config.plugins[plugin[t]].accepted
       /\ \A i \in plugin[t] + 1 .. n - 1 : config.plugins[i].type /= t

\* Whoever is served, is served by the plugins the file asks for: a server that
\* was told to authenticate never answers with the null authenticator because
\* a block was skipped, refused or overwritten (Configure, config.go:232).
ServesAsConfigured ==
    \A l \in Listeners : Serving(l) =>
        \A t \in PluginTypes : Filled(t, Len(config.plugins) + 1)

\* The API is in the clear only when the file has no usable https block: next
\* to a working HTTPS port the HTTP port redirects (server.go:285).
ClearOnlyWithoutHTTPS ==
    Serving("http") /\ httpHandler = "api" => config.https /= "usable"

\* The channel never makes a goroutine wait: when one has an error to report
\* there is room, whatever was queued before the listeners started (server.go:266).
ReportsNeverBlock ==
    \A l \in Listeners : listener[l] = "sending" => Len(errChannel) < ChannelSize

\* HandleRequests returns, and the process ends, only when no goroutine of its
\* own is still serving or about to (server.go:336).
ReturnsOnlyWhenDown ==
    pc = "returned" => \A l \in Listeners : listener[l] \in {"off", "failed"}

\* A process none of whose listeners lives does not linger: it returns, so that
\* a supervisor restarts it (server.go:336).
DownReturns ==
    (pc = "wait" /\ \A l \in Listeners : listener[l] \in {"off", "sending", "failed"})
        ~> (pc = "returned")

\* The errors still to come: one from each goroutine that has not reported.
Owed(l) == IF listener[l] \in {"starting", "serving", "sending"} THEN 1 ELSE 0

\* What HandleRequests waits for is exactly what has been queued, what has been
\* read and what the goroutines owe.
Counted ==
    pc = "wait" => Len(errChannel) + received + Owed("http") + Owed("https") = numPorts

\* Which listeners run and what answers on the HTTP port, by the https block.
Mode ==
    /\ pc \in {"verify", "plugins", "listen", "fatal"} =>
          /\ \A l \in Listeners : listener[l] = "off"
          /\ errChannel = <<>>
          /\ received = 0
          /\ numPorts = 1
          /\ httpHandler = "none"
    /\ pc = "wait" => received < numPorts
    /\ config.https = "usable" => httpHandler /= "api"

\* Configure stands before block `next`, and leaves the loop after the last.
Loop ==
    /\ pc = "verify" => next = 1
    /\ pc = "plugins" => \A t \in PluginTypes : Filled(t, next)
    /\ pc \in {"listen", "wait"} =>
          \A t \in PluginTypes : Filled(t, Len(config.plugins) + 1)

\* The inductive invariant: it says of every step what the invariants above say
\* of the states they speak about.
IndInv == TypeOK /\ Counted /\ Mode /\ Loop /\ ReturnsOnlyWhenDown

\* The documented reading of an https block, docs/config-tornjak-server.md:61:
\* "When HTTPS is configured, the HTTP connection will redirect to the HTTPS
\* (port and service)".
HTTPSConfiguredRedirects ==
    Serving("http") /\ config.https /= "absent" => httpHandler = "redirect"
=============================================================================
