----------------------------- MODULE WebUIProofs -----------------------------
(***************************************************************************)
(* What the pages of the web UI that show something promise, for any       *)
(* backends, options, roles, files and names: the status in the sidebar is *)
(* asked for at the rate that is set, the pages for administrators are for *)
(* them, the parents offered follow the lists, what is uploaded is what is *)
(* posted and is edited as the fields show, and the dashboard counts the   *)
(* same entries wherever it counts them.                                   *)
(***************************************************************************)
EXTENDS WebUI, FiniteSetTheorems, WellFoundedInduction, TLAPS

----------------------------------------------------------------------------
(* The store                                                                *)

\* The pages have one store, and mean the same by what is dispatched to it.
LEMMA SameDispatched ==
    ASSUME NEW actions
    PROVE  /\ Entry!Dispatched(actions) = Dispatched(actions)
           /\ Parents!Dispatched(actions) = Dispatched(actions)
           /\ Upload!Dispatched(actions) = Dispatched(actions)
           /\ Clusters!Dispatched(actions) = Dispatched(actions)
           /\ Health!Dispatched(actions) = Dispatched(actions)
           /\ Bar!Dispatched(actions) = Dispatched(actions)
           /\ Backends!Dispatched(actions) = Dispatched(actions)
           /\ Agents!Dispatched(actions) = Dispatched(actions)
BY DEF Dispatched, Entry!Dispatched, Parents!Dispatched, Upload!Dispatched, Clusters!Dispatched,
       Health!Dispatched, Bar!Dispatched, Backends!Dispatched, Agents!Dispatched

\* The last action on a slice gives it its value.
LEMMA LastDispatched ==
    ASSUME NEW actions, NEW s \in DOMAIN store, DOMAIN actions \subseteq Nat,
           NEW k \in DOMAIN actions, actions[k].slice = s,
           \A i \in DOMAIN actions : i > k => actions[i].slice /= s
    PROVE  Dispatched(actions)[s] = actions[k].payload
<1> DEFINE onIt == {i \in DOMAIN actions : actions[i].slice = s}
           last == CHOOSE i \in onIt : \A j \in onIt : j <= i
<1>1. k \in onIt /\ \A j \in onIt : j <= k
  OBVIOUS
<1>2. last \in onIt /\ \A j \in onIt : j <= last
  <2> HIDE DEF onIt
  <2> QED  BY <1>1
<1>3. last = k
  BY <1>1, <1>2
<1>4. Dispatched(actions)[s] = IF onIt = {} THEN store[s] ELSE actions[last].payload
  BY Zenon DEF Dispatched
<1>5. QED
  BY <1>1, <1>3, <1>4

\* A slice that no action is on keeps its value.
LEMMA NotDispatched ==
    ASSUME NEW actions, NEW s \in DOMAIN store, \A i \in DOMAIN actions : actions[i].slice /= s
    PROVE  Dispatched(actions)[s] = store[s]
<1>1. {i \in DOMAIN actions : actions[i].slice = s} = {}
  OBVIOUS
<1>2. QED
  BY <1>1, Zenon DEF Dispatched

LEMMA DispatchedDomain ==
    ASSUME NEW actions
    PROVE  DOMAIN Dispatched(actions) = DOMAIN store
BY Zenon DEF Dispatched

\* One action gives its slice its value, and leaves the others alone.
LEMMA OneDispatched ==
    ASSUME NEW action, action.slice \in DOMAIN store
    PROVE  LET d == Dispatched(<<action>>)
           IN  /\ d[action.slice] = action.payload
               /\ \A s \in DOMAIN store : s /= action.slice => d[s] = store[s]
<1> DEFINE acts == <<action>>
<1>1. DOMAIN acts = {1} /\ acts[1] = action
  OBVIOUS
<1> HIDE DEF acts
<1>2. Dispatched(acts)[action.slice] = action.payload
  BY <1>1, LastDispatched
<1>3. \A s \in DOMAIN store : s /= action.slice => Dispatched(acts)[s] = store[s]
  BY <1>1, NotDispatched
<1>4. QED
  BY <1>2, <1>3 DEF acts

\* Two actions on different slices.
LEMMA TwoDispatched ==
    ASSUME NEW a, NEW b, a.slice \in DOMAIN store, b.slice \in DOMAIN store, a.slice /= b.slice
    PROVE  LET d == Dispatched(<<a, b>>)
           IN  /\ d[a.slice] = a.payload /\ d[b.slice] = b.payload
               /\ \A s \in DOMAIN store : s \notin {a.slice, b.slice} => d[s] = store[s]
<1> DEFINE acts == <<a, b>>
<1>1. DOMAIN acts = {1, 2} /\ acts[1] = a /\ acts[2] = b
  OBVIOUS
<1> HIDE DEF acts
<1>2. Dispatched(acts)[a.slice] = a.payload /\ Dispatched(acts)[b.slice] = b.payload
  BY <1>1, LastDispatched
<1>3. \A s \in DOMAIN store : s \notin {a.slice, b.slice} => Dispatched(acts)[s] = store[s]
  BY <1>1, NotDispatched
<1>4. QED
  BY <1>2, <1>3 DEF acts

LEMMA NoneDispatched ==
    \A s \in DOMAIN store : Dispatched(<<>>)[s] = store[s]
BY NotDispatched

\* A slice of the store starts as its group has it: no slice is in two groups.
LEMMA InitialSlices ==
    \A group \in {serversInitial, clustersInitial, federationsInitial, agentsInitial,
                  entriesInitial, tornjakInitial, authInitial} :
        \A s \in DOMAIN group : s \in DOMAIN InitialStore /\ InitialStore[s] = group[s]
<1> DEFINE groups == {serversInitial, clustersInitial, federationsInitial, agentsInitial,
                      entriesInitial, tornjakInitial, authInitial}
<1>1. \A g, h \in groups : g = h \/ DOMAIN g \cap DOMAIN h = {}
  <2>1. /\ DOMAIN serversInitial =
              {"globalServerSelected", "globalServerInfo", "globalTornjakServerInfo",
               "globalServersList", "globalSpireHealthCheck", "globalSpireHealthChecking",
               "globalSpireHealthTime", "globalDebugServerInfo"}
        /\ DOMAIN clustersInitial = {"globalClustersList", "globalClusterTypeInfo"}
        /\ DOMAIN federationsInitial = {"globalFederationsList"}
        /\ DOMAIN agentsInitial = {"globalAgentsList", "globalAgentsWorkLoadAttestorInfo"}
        /\ DOMAIN entriesInitial =
              {"globalEntriesList", "globalNewEntries", "globalEntryExpiryTime"}
        /\ DOMAIN tornjakInitial = {"globalErrorMessage", "globalClickedDashboardTable"}
        /\ DOMAIN authInitial = {"globalIsAuthenticated", "globalAccessToken", "globalUserRoles"}
    BY DEF serversInitial, clustersInitial, federationsInitial, agentsInitial, entriesInitial,
           tornjakInitial, authInitial
  <2>2. \A h \in groups : serversInitial = h \/ DOMAIN serversInitial \cap DOMAIN h = {}
    BY <2>1
  <2>3. \A h \in groups : clustersInitial = h \/ DOMAIN clustersInitial \cap DOMAIN h = {}
    BY <2>1
  <2>4. \A h \in groups : federationsInitial = h \/ DOMAIN federationsInitial \cap DOMAIN h = {}
    BY <2>1
  <2>5. \A h \in groups : agentsInitial = h \/ DOMAIN agentsInitial \cap DOMAIN h = {}
    BY <2>1
  <2>6. \A h \in groups : entriesInitial = h \/ DOMAIN entriesInitial \cap DOMAIN h = {}
    BY <2>1
  <2>7. \A h \in groups : tornjakInitial = h \/ DOMAIN tornjakInitial \cap DOMAIN h = {}
    BY <2>1
  <2>8. \A h \in groups : authInitial = h \/ DOMAIN authInitial \cap DOMAIN h = {}
    BY <2>1
  <2>9. QED
    BY <2>2, <2>3, <2>4, <2>5, <2>6, <2>7, <2>8
<1>2. InitialStore = [slice \in UNION {DOMAIN g : g \in groups} |->
                         (CHOOSE g \in groups : slice \in DOMAIN g)[slice]]
  BY DEF InitialStore
<1> HIDE DEF groups
<1>3. ASSUME NEW g \in groups, NEW s \in DOMAIN g
      PROVE  s \in DOMAIN InitialStore /\ InitialStore[s] = g[s]
  <2>1. (CHOOSE h \in groups : s \in DOMAIN h) = g
    BY <1>1
  <2>2. s \in UNION {DOMAIN h : h \in groups}
    OBVIOUS
  <2>3. QED
    BY <1>2, <2>1, <2>2
<1>4. QED
  BY <1>3 DEF groups

\* The pages have one initial store.
LEMMA SameInitialStore ==
    /\ Backends!InitialStore = InitialStore /\ Bar!InitialStore = InitialStore
    /\ Upload!InitialStore = InitialStore /\ Entry!InitialStore = InitialStore
    /\ Parents!InitialStore = InitialStore /\ Clusters!InitialStore = InitialStore
BY DEF InitialStore, serversInitial, clustersInitial, federationsInitial, agentsInitial,
       entriesInitial, tornjakInitial, authInitial,
       Backends!InitialStore, Backends!serversInitial, Backends!clustersInitial,
       Backends!federationsInitial, Backends!agentsInitial, Backends!entriesInitial,
       Backends!tornjakInitial, Backends!authInitial,
       Bar!InitialStore, Bar!serversInitial, Bar!clustersInitial,
       Bar!federationsInitial, Bar!agentsInitial, Bar!entriesInitial,
       Bar!tornjakInitial, Bar!authInitial,
       Upload!InitialStore, Upload!serversInitial, Upload!clustersInitial,
       Upload!federationsInitial, Upload!agentsInitial, Upload!entriesInitial,
       Upload!tornjakInitial, Upload!authInitial,
       Entry!InitialStore, Entry!serversInitial, Entry!clustersInitial,
       Entry!federationsInitial, Entry!agentsInitial, Entry!entriesInitial,
       Entry!tornjakInitial, Entry!authInitial,
       Parents!InitialStore, Parents!serversInitial, Parents!clustersInitial,
       Parents!federationsInitial, Parents!agentsInitial, Parents!entriesInitial,
       Parents!tornjakInitial, Parents!authInitial,
       Clusters!InitialStore, Clusters!serversInitial, Clusters!clustersInitial,
       Clusters!federationsInitial, Clusters!agentsInitial, Clusters!entriesInitial,
       Clusters!tornjakInitial, Clusters!authInitial

----------------------------------------------------------------------------
(* The sidebar                                                              *)

HealthSlices == {"globalSpireHealthTime", "globalSpireHealthCheck", "globalSpireHealthChecking"}

HealthInv == Health!TypeOK /\ HealthSlices \subseteq DOMAIN store /\ Health!ChecksAtRate

\* A duration is a number of seconds.
LEMMA SecondsAreNat ==
    ASSUME Health!HealthAssumption, NEW o \in HealthOptions
    PROVE  Health!Seconds(o) \in Nat
BY DEF Health!HealthAssumption, Health!Seconds

\* What the three handlers dispatch: asking for the status, a new rate, an answer.
LEMMA AskingDispatched ==
    ASSUME HealthSlices \subseteq DOMAIN store
    PROVE  /\ Dispatched(Health!Asking)["globalSpireHealthChecking"] = FALSE
           /\ \A s \in HealthSlices \ {"globalSpireHealthChecking"} : Dispatched(Health!Asking)[s] = store[s]
<1>1. /\ DOMAIN Health!Asking = {1}
      /\ Health!Asking[1].slice = "globalSpireHealthChecking" /\ Health!Asking[1].payload = FALSE
  BY DEF Health!Asking, Health!spireHealthCheckingFunc, Health!Action
<1>2. Dispatched(Health!Asking)["globalSpireHealthChecking"] = Health!Asking[1].payload
  BY <1>1, LastDispatched DEF HealthSlices
<1>3. QED
  BY <1>1, <1>2, NotDispatched

LEMMA RateDispatched ==
    ASSUME HealthSlices \subseteq DOMAIN store, NEW rate
    PROVE  LET d == Dispatched(Health!RateChanged(rate))
           IN  /\ d["globalSpireHealthTime"] = rate
               /\ d["globalSpireHealthChecking"] = FALSE
               /\ d["globalSpireHealthCheck"] = store["globalSpireHealthCheck"]
<1> DEFINE acts == Health!RateChanged(rate)
<1>1. /\ DOMAIN acts = {1, 2}
      /\ acts[1].slice = "globalSpireHealthTime" /\ acts[1].payload = rate
      /\ acts[2].slice = "globalSpireHealthChecking" /\ acts[2].payload = FALSE
  BY DEF Health!RateChanged, Health!spireHealthCheckRefreshTimeFunc, Health!spireHealthCheckingFunc, Health!Action
<1> HIDE DEF acts
<1>2. Dispatched(acts)["globalSpireHealthTime"] = acts[1].payload
  BY <1>1, LastDispatched DEF HealthSlices
<1>3. Dispatched(acts)["globalSpireHealthChecking"] = acts[2].payload
  BY <1>1, LastDispatched DEF HealthSlices
<1>4. Dispatched(acts)["globalSpireHealthCheck"] = store["globalSpireHealthCheck"]
  BY <1>1, NotDispatched DEF HealthSlices
<1>5. QED
  BY <1>1, <1>2, <1>3, <1>4 DEF acts

LEMMA StatusDispatched ==
    ASSUME HealthSlices \subseteq DOMAIN store, NEW healthy \in BOOLEAN, NEW failed \in BOOLEAN
    PROVE  LET d == Dispatched(Health!Status(healthy, failed))
           IN  /\ d["globalSpireHealthTime"] = store["globalSpireHealthTime"]
               /\ d["globalSpireHealthChecking"] = TRUE
               /\ d["globalSpireHealthCheck"] \in BOOLEAN
<1> DEFINE acts == Health!Status(healthy, failed)
<1>1. /\ DOMAIN acts = {1, 2}
      /\ acts[1].slice = "globalSpireHealthCheck" /\ acts[1].payload = (healthy /\ ~failed)
      /\ acts[2].slice = "globalSpireHealthChecking" /\ acts[2].payload = TRUE
  BY DEF Health!Status, Health!spireHealthCheckFunc, Health!spireHealthCheckingFunc, Health!Action
<1> HIDE DEF acts
<1>2. Dispatched(acts)["globalSpireHealthTime"] = store["globalSpireHealthTime"]
  BY <1>1, NotDispatched DEF HealthSlices
<1>3. Dispatched(acts)["globalSpireHealthChecking"] = acts[2].payload
  BY <1>1, LastDispatched DEF HealthSlices
<1>4. Dispatched(acts)["globalSpireHealthCheck"] = acts[1].payload
  BY <1>1, LastDispatched DEF HealthSlices
<1>5. acts[1].payload \in BOOLEAN /\ acts[2].payload = TRUE
  BY <1>1
<1>6. QED
  BY <1>2, <1>3, <1>4, <1>5 DEF acts

\* The component is mounted (componentDidMount, and componentDidUpdate after it): a
\* timer at the rate in the store, and two requests more than are counted of before.
LEMMA MountKeeps ==
    ASSUME Health!HealthAssumption, HealthInv, Health!Mount, NEW n \in 0 .. checks, checks' = n + 2
    PROVE  HealthInv'
<1>1. store' = Dispatched(Health!Asking)
  BY SameDispatched DEF Health!Mount, Health!Dispatch
<1>2. /\ DOMAIN store' = DOMAIN store
      /\ store'.globalSpireHealthTime = store.globalSpireHealthTime
      /\ store'.globalSpireHealthCheck = store.globalSpireHealthCheck
      /\ store'.globalSpireHealthChecking = FALSE
  BY <1>1, AskingDispatched, DispatchedDomain DEF HealthInv, HealthSlices
<1>3. timers' = <<store.globalSpireHealthTime>> /\ mounted' = TRUE
  BY DEF Health!Mount
<1>4. timers' \in Seq(Nat) /\ Len(timers') = 1 /\ timers'[1] = store'.globalSpireHealthTime
      /\ 1 \in DOMAIN timers'
  BY <1>2, <1>3 DEF HealthInv, Health!TypeOK
<1>5. checks' \in 0 .. MaxChecks /\ checks' > 0
  BY DEF Health!HealthAssumption, Health!Mount, HealthInv, Health!TypeOK
<1>6. Health!TypeOK'
  <2>1. store'.globalSpireHealthTime \in Nat /\ store'.globalSpireHealthCheck \in BOOLEAN
    BY <1>2 DEF HealthInv, Health!TypeOK
  <2>2. Len(timers') <= MaxChains
    BY <1>4 DEF Health!HealthAssumption
  <2>3. QED
    BY <1>2, <1>3, <1>4, <1>5, <2>1, <2>2 DEF Health!TypeOK
<1>7. Health!ChecksAtRate'
  BY <1>4, <1>5 DEF Health!ChecksAtRate
<1>8. QED
  BY <1>2, <1>6, <1>7 DEF HealthInv, HealthSlices
\* The types, and ChecksAtRate, hold at every step of the sidebar: whatever is opened,
\* closed, loaded, timed, set or answered.
LEMMA HealthInductive ==
    ASSUME Health!HealthAssumption, HealthInv, Health!Next \/ UNCHANGED Health!vars
    PROVE  HealthInv'
<1> USE DEF Health!HealthAssumption
<1>1. CASE Health!Open
  <2>1. checks \in 0 .. checks
    BY <1>1 DEF HealthInv, Health!TypeOK
  <2>2. QED
    BY <1>1, <2>1, MountKeeps DEF Health!Open
<1>2. CASE Health!Close
  <2>1. timers' \in Seq(Nat) /\ Len(timers') <= MaxChains
    BY <1>2 DEF Health!Close
  <2>2. QED
    BY <1>2, <2>1 DEF Health!Close, HealthInv, Health!TypeOK, Health!ChecksAtRate
<1>3. CASE Health!Reload
  <2>1. 0 \in 0 .. checks /\ checks' = 0 + 2
    BY <1>3 DEF Health!Reload, HealthInv, Health!TypeOK
  <2>2. QED
    BY <1>3, <2>1, MountKeeps DEF Health!Reload
<1>4. CASE Health!TimerEnds
  <2>1. PICK i \in DOMAIN timers : timers' = [timers EXCEPT ![i] = store.globalSpireHealthTime]
    BY <1>4 DEF Health!TimerEnds
  <2>2. timers \in Seq(Nat) /\ store.globalSpireHealthTime \in Nat /\ Len(timers) <= MaxChains
    BY DEF HealthInv, Health!TypeOK
  <2>3. timers' \in Seq(Nat) /\ Len(timers') <= MaxChains /\ i \in DOMAIN timers'
        /\ timers'[i] = store.globalSpireHealthTime
    BY <2>1, <2>2
  <2>4. /\ DOMAIN store' = DOMAIN store
        /\ store'.globalSpireHealthTime = store.globalSpireHealthTime
        /\ store'.globalSpireHealthCheck = store.globalSpireHealthCheck
        /\ store'.globalSpireHealthChecking = FALSE
    BY SameDispatched, <1>4, AskingDispatched, DispatchedDomain DEF Health!TimerEnds, Health!Dispatch, HealthInv, HealthSlices
  <2>5. checks' \in 0 .. MaxChecks /\ checks' > 0 /\ mounted' = mounted
    BY <1>4 DEF Health!TimerEnds, HealthInv, Health!TypeOK
  <2>6. Health!TypeOK'
    BY <2>2, <2>3, <2>4, <2>5 DEF HealthInv, Health!TypeOK
  <2>7. Health!ChecksAtRate'
    BY <2>3, <2>4, <2>5 DEF Health!ChecksAtRate
  <2>8. QED
    BY <2>4, <2>6, <2>7 DEF HealthInv
<1>5. ASSUME NEW o \in HealthOptions, Health!OnChangeSpireRefreshRate(Health!Seconds(o))
      PROVE  HealthInv'
  <2> DEFINE rate == Health!Seconds(o)
  <2>1. rate \in Nat
    BY SecondsAreNat
  <2> HIDE DEF rate
  <2>2. timers \in Seq(Nat) /\ Len(timers) < MaxChains /\ timers' = Append(timers, rate)
    BY <1>5 DEF Health!OnChangeSpireRefreshRate, HealthInv, Health!TypeOK, rate
  <2>3. timers' \in Seq(Nat) /\ Len(timers') <= MaxChains
        /\ Len(timers') \in DOMAIN timers' /\ timers'[Len(timers')] = rate
    BY <2>1, <2>2
  <2>4. store' = Dispatched(Health!RateChanged(rate))
    BY SameDispatched, <1>5 DEF Health!OnChangeSpireRefreshRate, Health!Dispatch, rate
  <2>5. /\ DOMAIN store' = DOMAIN store
        /\ store'.globalSpireHealthTime = rate
        /\ store'.globalSpireHealthCheck = store.globalSpireHealthCheck
        /\ store'.globalSpireHealthChecking = FALSE
    BY <2>4, RateDispatched, DispatchedDomain DEF HealthInv
  <2>6. checks' \in 0 .. MaxChecks /\ checks' > 0 /\ mounted' = mounted
    BY <1>5 DEF Health!OnChangeSpireRefreshRate, HealthInv, Health!TypeOK
  <2>7. Health!TypeOK'
    BY <2>1, <2>3, <2>5, <2>6 DEF HealthInv, Health!TypeOK
  <2>8. Health!ChecksAtRate'
    BY <2>3, <2>5, <2>6 DEF Health!ChecksAtRate
  <2>9. QED
    BY <2>5, <2>7, <2>8 DEF HealthInv
<1>6. CASE Health!Answered
  <2>1. PICK healthy \in BOOLEAN, failed \in BOOLEAN : store' = Dispatched(Health!Status(healthy, failed))
    BY SameDispatched, <1>6 DEF Health!Answered, Health!Dispatch
  <2>2. /\ DOMAIN store' = DOMAIN store
        /\ store'.globalSpireHealthTime = store.globalSpireHealthTime
        /\ store'.globalSpireHealthCheck \in BOOLEAN
        /\ store'.globalSpireHealthChecking = TRUE
    BY <2>1, StatusDispatched, DispatchedDomain DEF HealthInv
  <2>3. checks' \in 0 .. MaxChecks /\ UNCHANGED <<mounted, timers>>
    BY <1>6 DEF Health!Answered, HealthInv, Health!TypeOK
  <2>4. QED
    BY <2>2, <2>3 DEF HealthInv, Health!TypeOK, Health!ChecksAtRate
<1>7. CASE UNCHANGED Health!vars
  BY <1>7 DEF Health!vars, HealthInv, Health!TypeOK, Health!ChecksAtRate
<1>8. QED
  BY <1>1, <1>2, <1>3, <1>4, <1>5, <1>6, <1>7 DEF Health!Next

LEMMA HealthInitial ==
    ASSUME Health!HealthAssumption, Health!Init
    PROVE  HealthInv
<1>1. PICK healthy \in BOOLEAN, checking \in BOOLEAN, o \in HealthOptions :
        store = [Health!InitialStore EXCEPT !.globalSpireHealthCheck = healthy,
                                     !.globalSpireHealthChecking = checking,
                                     !.globalSpireHealthTime = Health!Seconds(o)]
  BY DEF Health!Init
<1>2. HealthSlices \subseteq DOMAIN Health!InitialStore
  <2>1. DOMAIN Health!serversInitial \subseteq DOMAIN Health!InitialStore
    BY DEF Health!InitialStore
  <2>2. HealthSlices \subseteq DOMAIN Health!serversInitial
    BY DEF HealthSlices, Health!serversInitial
  <2>3. QED
    BY <2>1, <2>2
<1>3. HealthSlices \subseteq DOMAIN store /\ store.globalSpireHealthTime = Health!Seconds(o)
        /\ store.globalSpireHealthCheck \in BOOLEAN /\ store.globalSpireHealthChecking \in BOOLEAN
  BY <1>1, <1>2 DEF HealthSlices
<1>4. timers = <<>> /\ checks = 0 /\ mounted = FALSE
  BY DEF Health!Init
<1>5. timers \in Seq(Nat) /\ Len(timers) = 0
  BY <1>4
<1>6. store.globalSpireHealthTime \in Nat
  BY <1>3, SecondsAreNat
<1>7. Len(timers) <= MaxChains /\ checks \in 0 .. MaxChecks
  BY <1>4, <1>5 DEF Health!HealthAssumption
<1>8. Health!TypeOK
  BY <1>3, <1>4, <1>5, <1>6, <1>7 DEF Health!TypeOK
<1>9. QED
  BY <1>3, <1>4, <1>8 DEF HealthInv, Health!ChecksAtRate

----------------------------------------------------------------------------
(* The bar                                                                  *)

\* What AdminPagesGuarded rests on: the store has the roles of the token that the page
\* was loaded with, and until the bar mounts that token is the one there is.
RolesAreLoaded ==
    tab = "mounted" /\ auth /\ loaded /= Bar!NoAccess => store.globalUserRoles = loaded

\* And the refusal that is shown is of these roles: no link leads from elsewhere to a page
\* that would be refused.
RefusedByLoaded ==
    tab = "mounted" /\ auth /\ loaded /= Bar!NoAccess =>
        /\ refused => ~Bar!checkRolesAdminUser(loaded)
        /\ path \in Bar!pathsWithAdminRestr => refused \/ Bar!checkRolesAdminUser(loaded)

BarInv ==
    /\ "globalUserRoles" \in DOMAIN store
    /\ tab = "rendered" => token = loaded
    /\ RolesAreLoaded
    /\ RefusedByLoaded

\* The roles in the store are those of the token, if it names any.
LEMMA LoggedInDispatched ==
    ASSUME "globalUserRoles" \in DOMAIN store, NEW t, t /= Bar!NoAccess
    PROVE  Dispatched(Bar!LoggedIn(t)).globalUserRoles = t
<1> DEFINE acts == Bar!LoggedIn(t)
           onIt == {i \in DOMAIN acts : acts[i].slice = "globalUserRoles"}
           last == CHOOSE i \in onIt : \A j \in onIt : j <= i
<1>1. /\ DOMAIN acts = {1, 2, 3}
      /\ acts[1].slice = "globalIsAuthenticated" /\ acts[2].slice = "globalAccessToken"
      /\ acts[3].slice = "globalUserRoles" /\ acts[3].payload = t
  BY DEF Bar!LoggedIn, Bar!isAuthenticatedUpdateFunc, Bar!accessTokenUpdateFunc, Bar!UserRolesUpdateFunc, Bar!Action
<1> HIDE DEF acts
<1>2. onIt = {3}
  BY <1>1
<1>3. last = 3
  BY <1>2
<1>4. Dispatched(acts)["globalUserRoles"]
        = IF onIt = {} THEN store["globalUserRoles"] ELSE acts[last].payload
  BY Zenon DEF Dispatched
<1>5. QED
  BY <1>1, <1>2, <1>3, <1>4 DEF acts

\* The table that a link of the bar sets is no role.
LEMMA LinkDispatched ==
    ASSUME "globalUserRoles" \in DOMAIN store, NEW actions,
           actions \in {<<>>, <<Bar!clickedDashboardTableFunc("dashboard")>>}
    PROVE  Dispatched(actions).globalUserRoles = store.globalUserRoles
<1>1. {i \in DOMAIN actions : actions[i].slice = "globalUserRoles"} = {}
  BY DEF Bar!clickedDashboardTableFunc, Bar!Action
<1>2. Dispatched(actions)["globalUserRoles"] = store["globalUserRoles"]
  BY <1>1, Zenon DEF Dispatched
<1>3. QED
  BY <1>2

LEMMA BarInitial == Bar!Init => BarInv
<1>1. "globalUserRoles" \in DOMAIN Bar!authInitial
  BY DEF Bar!authInitial
<1>2. "globalUserRoles" \in DOMAIN Bar!InitialStore
  BY <1>1 DEF Bar!InitialStore
<1>3. QED
  BY <1>2 DEF Bar!Init, BarInv, RolesAreLoaded, RefusedByLoaded

\* Who is no administrator has no link to the pages for these.
LEMMA LinksGuarded == ~Bar!isAdmin /\ auth => Bar!Links \cap Bar!pathsWithAdminRestr = {}
BY DEF Bar!Links, Bar!OpenLinks, Bar!CollapsedLinks, Bar!pathsWithAdminRestr

\* The dashboard link sets at most the table.
LEMMA DashboardLink ==
    Bar!DashboardClicked \in {<<>>, <<Bar!clickedDashboardTableFunc("dashboard")>>}
BY DEF Bar!DashboardClicked

\* Page loads, logouts, logins of others, renewed tokens and links keep it.
LEMMA BarInductive ==
    ASSUME BarInv, Bar!Next \/ UNCHANGED Bar!vars
    PROVE  BarInv'
<1>1. CASE Bar!RenderApp
  BY <1>1 DEF Bar!RenderApp, BarInv, RolesAreLoaded, RefusedByLoaded
<1>2. CASE Bar!Leave
  <2>1. tab' = "away"
    BY <1>2 DEF Bar!Leave
  <2>2. DOMAIN store' = DOMAIN store
    BY <1>2, SameDispatched, DispatchedDomain DEF Bar!Leave, Bar!Dispatch
  <2>3. QED
    BY <2>1, <2>2 DEF BarInv, RolesAreLoaded, RefusedByLoaded
<1>3. CASE Bar!NavigationMounts
  <2>1. DOMAIN store' = DOMAIN store
    BY SameDispatched, <1>3, DispatchedDomain DEF Bar!NavigationMounts, Bar!Dispatch
  <2>2. auth /\ token /= Bar!NoAccess => store'.globalUserRoles = token
    BY SameDispatched, <1>3, LoggedInDispatched DEF Bar!NavigationMounts, Bar!Dispatch, BarInv
  <2>3. token = loaded /\ UNCHANGED <<auth, token, path, loaded>> /\ tab' = "mounted"
    BY <1>3 DEF Bar!NavigationMounts, BarInv
  <2>4. Bar!NoAccess' = Bar!NoAccess
    BY DEF Bar!NoAccess
  <2>5. refused' = (/\ ~Bar!checkRolesAdminUser(store'.globalUserRoles)
                    /\ path \in Bar!pathsWithAdminRestr /\ auth)
    BY <1>3 DEF Bar!NavigationMounts, Bar!AccessNotAllowed
  <2>6. RolesAreLoaded'
    BY <2>2, <2>3, <2>4 DEF RolesAreLoaded
  <2>7. RefusedByLoaded'
    <3>1. CASE auth /\ loaded /= Bar!NoAccess
      <4>1. store'.globalUserRoles = loaded
        BY <2>2, <2>3, <3>1
      <4>2. refused' <=> (~Bar!checkRolesAdminUser(loaded) /\ path \in Bar!pathsWithAdminRestr)
        BY <2>5, <3>1, <4>1
      <4>3. QED
        BY <2>3, <4>2, Zenon DEF RefusedByLoaded, Bar!checkRolesAdminUser, Bar!pathsWithAdminRestr
    <3>2. CASE ~(auth /\ loaded /= Bar!NoAccess)
      BY <2>3, <2>4, <3>2 DEF RefusedByLoaded
    <3>3. QED
      BY <3>1, <3>2
  <2>8. QED
    BY <2>1, <2>3, <2>6, <2>7 DEF BarInv
<1>4. CASE Bar!TokenRenewed
  BY <1>4 DEF Bar!TokenRenewed, BarInv, RolesAreLoaded, RefusedByLoaded
<1>5. CASE Bar!FollowLink
  <2>1. PICK actions \in {<<>>, <<Bar!clickedDashboardTableFunc("dashboard")>>} :
          store' = Dispatched(actions)
    BY SameDispatched, DashboardLink, <1>5 DEF Bar!FollowLink, Bar!Dispatch
  <2>2. DOMAIN store' = DOMAIN store /\ store'.globalUserRoles = store.globalUserRoles
    BY <2>1, DispatchedDomain, LinkDispatched DEF BarInv
  <2>3. tab = "mounted" /\ UNCHANGED <<auth, token, tab, refused, loaded>> /\ path' \in Bar!Links
    BY <1>5 DEF Bar!FollowLink
  <2>4. RefusedByLoaded'
    <3>1. CASE auth /\ loaded /= Bar!NoAccess /\ path' \in Bar!pathsWithAdminRestr
      <4>1. Bar!isAdmin
        BY <2>3, <3>1, LinksGuarded
      <4>2. Bar!checkRolesAdminUser(loaded)
        BY <2>3, <3>1, <4>1 DEF Bar!isAdmin, BarInv, RolesAreLoaded
      <4>3. ~refused
        BY <2>3, <3>1, <4>2 DEF BarInv, RefusedByLoaded
      <4>4. QED
        BY <2>3, <4>2, <4>3 DEF RefusedByLoaded, Bar!checkRolesAdminUser
    <3>2. CASE auth /\ loaded /= Bar!NoAccess /\ path' \notin Bar!pathsWithAdminRestr
      BY <2>3, <3>2 DEF BarInv, RefusedByLoaded, Bar!checkRolesAdminUser, Bar!pathsWithAdminRestr
    <3>3. CASE ~(auth /\ loaded /= Bar!NoAccess)
      BY <2>3, <3>3 DEF RefusedByLoaded, Bar!NoAccess
    <3>4. QED
      BY <3>1, <3>2, <3>3
  <2>5. QED
    BY <2>2, <2>3, <2>4 DEF BarInv, RolesAreLoaded, Bar!NoAccess
<1>6. CASE Bar!ToggleSidebar
  BY <1>6 DEF Bar!ToggleSidebar, BarInv, RolesAreLoaded, RefusedByLoaded
<1>7. CASE UNCHANGED Bar!vars
  BY <1>7 DEF Bar!vars, BarInv, RolesAreLoaded, RefusedByLoaded
<1>8. QED
  BY <1>1, <1>2, <1>3, <1>4, <1>5, <1>6, <1>7 DEF Bar!Next

\* The guard asks the roles in the store; and no link that is not for administrators
\* leads to one of its pages.
LEMMA BarGuarded == BarInv => Bar!AdminPagesGuarded
<1> SUFFICES ASSUME BarInv, tab = "mounted", auth, loaded /= Bar!NoAccess
             PROVE  /\ path \in Bar!pathsWithAdminRestr =>
                         /\ Bar!Rendered <=> Bar!checkRolesAdminUser(loaded)
                         /\ refused <=> ~Bar!checkRolesAdminUser(loaded)
                    /\ refused => ~Bar!checkRolesAdminUser(loaded)
                    /\ Bar!Links \cap Bar!pathsWithAdminRestr /= {} => Bar!checkRolesAdminUser(loaded)
  BY DEF Bar!AdminPagesGuarded
<1>1. Bar!isAdmin <=> Bar!checkRolesAdminUser(loaded)
  BY DEF BarInv, RolesAreLoaded, Bar!isAdmin
<1>2. path \in Bar!pathsWithAdminRestr => (Bar!Rendered <=> Bar!checkRolesAdminUser(loaded))
  BY <1>1, Zenon DEF Bar!Rendered
<1>3. /\ refused => ~Bar!checkRolesAdminUser(loaded)
      /\ path \in Bar!pathsWithAdminRestr => refused \/ Bar!checkRolesAdminUser(loaded)
  BY Zenon DEF BarInv, RefusedByLoaded
<1>4. Bar!Links \cap Bar!pathsWithAdminRestr /= {} => Bar!checkRolesAdminUser(loaded)
  BY <1>1, LinksGuarded
<1>5. QED
  BY <1>2, <1>3, <1>4, Zenon

----------------------------------------------------------------------------
(* The types of the bar                                                     *)

\* The tokens that let somebody in are the roles that they carry.
BarTypes ==
    /\ {"globalUserRoles", "globalIsAuthenticated"} \subseteq DOMAIN store
    /\ Bar!TypeOK
    /\ token /= Bar!NoAccess => token \subseteq Roles

\* The bar starts with nobody known.
LEMMA BarTypesInitial ==
    ASSUME Bar!NavigationAssumption, Bar!Init
    PROVE  BarTypes
<1>1. /\ {"globalUserRoles", "globalIsAuthenticated"} \subseteq DOMAIN authInitial
      /\ authInitial.globalUserRoles = {} /\ authInitial.globalIsAuthenticated = FALSE
  BY DEF authInitial
<1>2. /\ {"globalUserRoles", "globalIsAuthenticated"} \subseteq DOMAIN store
      /\ store.globalUserRoles = {} /\ store.globalIsAuthenticated = FALSE
  BY <1>1, InitialSlices, SameInitialStore DEF Bar!Init
<1>3. QED
  BY <1>2 DEF Bar!Init, BarTypes, Bar!TypeOK, Bar!Tokens, Bar!Paths

\* One case for each action.
LEMMA BarTypesInductive ==
    ASSUME BarTypes, Bar!Next \/ UNCHANGED Bar!vars
    PROVE  BarTypes'
<1> DEFINE SlicesKept == /\ DOMAIN store' = DOMAIN store
                         /\ store'.globalUserRoles \subseteq Roles
                         /\ store'.globalIsAuthenticated \in BOOLEAN
<1>1. /\ Bar!Tokens' = Bar!Tokens /\ Bar!Paths' = Bar!Paths /\ Bar!NoAccess' = Bar!NoAccess
      /\ \A t \in Bar!Tokens : t /= Bar!NoAccess => t \subseteq Roles
      /\ Bar!NoAccess \in Bar!Tokens
  BY DEF Bar!Tokens, Bar!Paths, Bar!NoAccess, Bar!pathsWithAdminRestr
<1>2. ASSUME SlicesKept, token' \in Bar!Tokens, loaded' \in Bar!Tokens, UNCHANGED auth,
             tab' \in {"away", "rendered", "mounted"}, path' \in Bar!Paths,
             sidebarOpen' \in BOOLEAN, refused' \in BOOLEAN
      PROVE  BarTypes'
  BY <1>1, <1>2 DEF BarTypes, Bar!TypeOK
<1>3. UNCHANGED store => SlicesKept
  BY DEF BarTypes, Bar!TypeOK
<1>4. CASE Bar!RenderApp
  <2>1. token' \in Bar!Tokens
    BY <1>1, <1>4 DEF Bar!RenderApp
  <2>2. refused' \in BOOLEAN
    BY <1>4 DEF Bar!RenderApp, Bar!AccessNotAllowed
  <2>3. QED
    BY <1>2, <1>3, <1>4, <2>1, <2>2 DEF Bar!RenderApp, BarTypes, Bar!TypeOK
<1> DEFINE clicked == Bar!clickedDashboardTableFunc("dashboard")
<1>12. ASSUME NEW actions \in {<<>>, <<clicked>>}, store' = Dispatched(actions) PROVE SlicesKept
  <2>1. clicked.slice = "globalClickedDashboardTable"
    BY DEF Bar!clickedDashboardTableFunc, Bar!Action
  <2> HIDE DEF clicked
  <2>2. \A s \in DOMAIN store : s /= "globalClickedDashboardTable" => Dispatched(<<clicked>>)[s] = store[s]
    <3>1. \A i \in DOMAIN <<clicked>> : <<clicked>>[i].slice = "globalClickedDashboardTable"
      BY <2>1
    <3>2. QED
      BY <3>1, NotDispatched
  <2>3. QED
    BY <1>12, <2>2, NoneDispatched, DispatchedDomain DEF BarTypes, Bar!TypeOK
<1>5. CASE Bar!Leave
  <2>1. SlicesKept
    BY <1>3, <1>5, <1>12, DashboardLink, SameDispatched DEF Bar!Leave, Bar!Dispatch
  <2>2. QED
    BY <1>1, <1>2, <1>5, <2>1 DEF Bar!Leave, BarTypes, Bar!TypeOK
<1>6. CASE Bar!NavigationMounts
  <2> DEFINE known == <<Bar!isAuthenticatedUpdateFunc(TRUE), Bar!accessTokenUpdateFunc("token")>>
             roles == <<Bar!isAuthenticatedUpdateFunc(TRUE), Bar!accessTokenUpdateFunc("token"),
                        Bar!UserRolesUpdateFunc(token)>>
  <2>1. \E actions : /\ store' = Dispatched(actions)
                     /\ \/ actions = <<>>
                        \/ actions = known
                        \/ token /= Bar!NoAccess /\ actions = roles
    BY <1>6, SameDispatched DEF Bar!NavigationMounts, Bar!Dispatch, Bar!LoggedIn
  <2>2. /\ DOMAIN known = {1, 2} /\ DOMAIN roles = {1, 2, 3}
        /\ known[1].slice = "globalIsAuthenticated" /\ known[1].payload = TRUE
        /\ known[2].slice = "globalAccessToken"
        /\ roles[1].slice = "globalIsAuthenticated" /\ roles[1].payload = TRUE
        /\ roles[2].slice = "globalAccessToken"
        /\ roles[3].slice = "globalUserRoles" /\ roles[3].payload = token
    BY DEF Bar!isAuthenticatedUpdateFunc, Bar!accessTokenUpdateFunc, Bar!UserRolesUpdateFunc, Bar!Action
  <2> HIDE DEF known, roles
  <2>3. /\ Dispatched(known)["globalUserRoles"] = store.globalUserRoles
        /\ Dispatched(known)["globalIsAuthenticated"] = TRUE
    BY <2>2, LastDispatched, NotDispatched DEF BarTypes
  <2>4. /\ Dispatched(roles)["globalUserRoles"] = token
        /\ Dispatched(roles)["globalIsAuthenticated"] = TRUE
    BY <2>2, LastDispatched DEF BarTypes
  <2>5. SlicesKept
    BY <2>1, <2>3, <2>4, NoneDispatched, DispatchedDomain DEF BarTypes, Bar!TypeOK
  <2>6. refused' \in BOOLEAN
    BY <1>6 DEF Bar!NavigationMounts, Bar!AccessNotAllowed
  <2>7. QED
    BY <1>2, <1>6, <2>5, <2>6 DEF Bar!NavigationMounts, BarTypes, Bar!TypeOK
<1>7. CASE Bar!TokenRenewed
  BY <1>1, <1>2, <1>3, <1>7 DEF Bar!TokenRenewed, BarTypes, Bar!TypeOK
<1>8. CASE Bar!FollowLink
  <2>1. SlicesKept
    BY <1>8, <1>12, DashboardLink, SameDispatched DEF Bar!FollowLink, Bar!Dispatch
  <2>2. path' \in Bar!Paths
    BY <1>8 DEF Bar!FollowLink, Bar!Links, Bar!OpenLinks, Bar!CollapsedLinks, Bar!Paths
  <2>3. QED
    BY <1>2, <1>8, <2>1, <2>2 DEF Bar!FollowLink, BarTypes, Bar!TypeOK
<1>9. CASE Bar!ToggleSidebar
  BY <1>2, <1>3, <1>9 DEF Bar!ToggleSidebar, BarTypes, Bar!TypeOK
<1>10. CASE UNCHANGED Bar!vars
  BY <1>2, <1>3, <1>10 DEF Bar!vars, BarTypes, Bar!TypeOK
<1>11. QED
  BY <1>4, <1>5, <1>6, <1>7, <1>8, <1>9, <1>10 DEF Bar!Next

----------------------------------------------------------------------------
(* The upload                                                               *)

Flags == {"entrySelected", "isEntriesLoaded", "newEntriesLoaded", "parseError"}

\* The types that the proofs need.
UploadShape ==
    /\ "globalNewEntries" \in DOMAIN store
    /\ arrays \in Seq(Seq(Upload!Entry))
    /\ DOMAIN upload = {"uploadedEntries", "selectedEntryId"} \cup Flags
    /\ upload.uploadedEntries \in 1 .. Len(arrays)
    /\ DOMAIN fields = {"spiffeId", "spiffeParts", "parentId", "parentParts", "prefix",
                        "selectors", "dnsNames"}
    /\ fields.spiffeParts \in Upload!Pairs
    /\ fields.dnsNames \in BOOLEAN
    /\ reading \subseteq EntryFiles

\* The store and the page refer to one array, not merely to equal ones.
OneArray ==
    upload.newEntriesLoaded /\ ~upload.parseError
      => store.globalNewEntries = upload.uploadedEntries

\* While an entry is selected, an id that has been parsed is that of its field. (When an
\* edit has been applied the fields are cleared and what was parsed is not, but then no
\* entry is selected.)
PartsOfTexts ==
    upload.selectedEntryId /= Upload!NoSelection =>
        /\ fields.spiffeParts \in Upload!Ids => fields.spiffeId = fields.spiffeParts
        /\ fields.parentParts \in Upload!Ids => fields.parentId = fields.parentParts

UploadInv == UploadShape /\ OneArray /\ PartsOfTexts

LEMMA UploadNoIds ==
    ASSUME Upload!UploadAssumption
    PROVE  Upload!Empty \in Upload!Pairs /\ Upload!Empty \notin Upload!Ids /\ Upload!Ids \subseteq Upload!Pairs
BY DEF Upload!UploadAssumption, Upload!Empty, Upload!Pairs, Upload!Ids

LEMMA PairMade ==
    ASSUME NEW s \in Servers, NEW p \in EntryPaths \cup {""}
    PROVE  <<s, p>> \in Upload!Pairs
BY DEF Upload!Pairs

\* New entries are in the store once it has been told of them.
LEMMA NewEntriesDispatched ==
    ASSUME "globalNewEntries" \in DOMAIN store, NEW n
    PROVE  Dispatched(<<Upload!newEntriesUpdateFunc(n)>>).globalNewEntries = n
<1> DEFINE acts == <<Upload!newEntriesUpdateFunc(n)>>
           onIt == {i \in DOMAIN acts : acts[i].slice = "globalNewEntries"}
           last == CHOOSE i \in onIt : \A j \in onIt : j <= i
<1>1. DOMAIN acts = {1} /\ acts[1].slice = "globalNewEntries" /\ acts[1].payload = n
  BY DEF Upload!newEntriesUpdateFunc, Upload!Action
<1> HIDE DEF acts
<1>2. onIt = {1}
  BY <1>1
<1>3. last = 1
  BY <1>2
<1>4. Dispatched(acts)["globalNewEntries"]
        = IF onIt = {} THEN store["globalNewEntries"] ELSE acts[last].payload
  BY Zenon DEF Dispatched
<1>5. QED
  BY <1>1, <1>2, <1>3, <1>4 DEF acts

\* What an entry brings to the fields agrees with itself.
LEMMA PopulatedAgrees ==
    ASSUME Upload!UploadAssumption, NEW e \in Upload!Entry
    PROVE  LET f == Upload!Populated(e)
           IN  /\ DOMAIN f = {"spiffeId", "spiffeParts", "parentId", "parentParts", "prefix",
                              "selectors", "dnsNames"}
               /\ f.spiffeId = f.spiffeParts /\ f.parentId = f.parentParts
               /\ f.spiffeParts \in Upload!Pairs /\ f.dnsNames \in BOOLEAN
BY UploadNoIds DEF Upload!Populated, Upload!Shown, Upload!Entry

\* An entry is selected, or the user stays with the one there is.
LEMMA SelectionKeeps ==
    ASSUME Upload!UploadAssumption, UploadInv, NEW i, NEW e \in Upload!Entry, NEW up,
           DOMAIN up = DOMAIN upload, up.selectedEntryId = upload.selectedEntryId,
           Upload!SetSelectedEntriesIds(i, e, up)
    PROVE  /\ DOMAIN upload' = DOMAIN upload
           /\ upload'.uploadedEntries = up.uploadedEntries
           /\ upload'.newEntriesLoaded = up.newEntriesLoaded
           /\ upload'.parseError = up.parseError
           /\ PartsOfTexts'
           /\ DOMAIN fields' = DOMAIN fields /\ fields'.spiffeParts \in Upload!Pairs
           /\ fields'.dnsNames \in BOOLEAN
<1>1. CASE upload.entrySelected /\ upload' = up /\ UNCHANGED fields
  BY <1>1 DEF UploadInv, UploadShape, PartsOfTexts, Upload!Ids, Upload!NoSelection
<1>2. CASE /\ upload' = [up EXCEPT !.selectedEntryId = i, !.entrySelected = TRUE]
           /\ fields' = Upload!Populated(e)
  <2>1. /\ DOMAIN upload' = DOMAIN upload
        /\ upload'.uploadedEntries = up.uploadedEntries
        /\ upload'.newEntriesLoaded = up.newEntriesLoaded
        /\ upload'.parseError = up.parseError
    BY <1>2, Zenon DEF UploadInv, UploadShape, Flags
  <2>2. /\ DOMAIN fields' = DOMAIN fields /\ fields'.spiffeParts \in Upload!Pairs
        /\ fields'.dnsNames \in BOOLEAN
        /\ fields'.spiffeId = fields'.spiffeParts /\ fields'.parentId = fields'.parentParts
    BY <1>2, PopulatedAgrees DEF UploadInv, UploadShape
  <2>3. QED
    BY <2>1, <2>2 DEF PartsOfTexts
<1>3. QED
  BY <1>1, <1>2 DEF Upload!SetSelectedEntriesIds

LEMMA BlankKeeps ==
    ASSUME Upload!UploadAssumption, UploadInv, upload' = Upload!BlankUpload, fields' \in {fields, Upload!BlankFields},
           DOMAIN store' = DOMAIN store, UNCHANGED arrays, reading' \subseteq EntryFiles
    PROVE  UploadInv'
<1>1. /\ upload'.selectedEntryId = Upload!NoSelection /\ upload'.newEntriesLoaded = FALSE
      /\ upload'.uploadedEntries = 1
      /\ DOMAIN upload' = {"uploadedEntries", "selectedEntryId"} \cup Flags
  BY DEF Upload!BlankUpload, Flags
<1>2. /\ DOMAIN fields' = DOMAIN fields /\ fields'.spiffeParts \in Upload!Pairs
      /\ fields'.dnsNames \in BOOLEAN
  <2>1. CASE fields' = fields
    BY <2>1 DEF UploadInv, UploadShape
  <2>2. CASE fields' = Upload!BlankFields
    BY <2>2, UploadNoIds DEF Upload!BlankFields, UploadInv, UploadShape
  <2>3. QED
    BY <2>1, <2>2
<1>3. 1 \in 1 .. Len(arrays')
  BY DEF UploadInv, UploadShape
<1>4. QED
  BY <1>1, <1>2, <1>3 DEF UploadInv, UploadShape, OneArray, PartsOfTexts, Upload!NoSelection

\* A file is picked, or none: nothing is loaded any more.
LEMMA HandleChangeKeeps ==
    ASSUME Upload!UploadAssumption, UploadInv, NEW one \in BOOLEAN, Upload!HandleChange(one)
    PROVE  UploadInv'
<1>1. /\ DOMAIN upload' = DOMAIN upload /\ upload'.newEntriesLoaded = FALSE
      /\ upload'.selectedEntryId = upload.selectedEntryId
      /\ upload'.uploadedEntries = upload.uploadedEntries
  BY Zenon DEF Upload!HandleChange, UploadInv, UploadShape, Flags
<1>2. reading' \subseteq EntryFiles /\ UNCHANGED <<store, arrays, fields>>
  BY DEF Upload!HandleChange, Upload!PickFile, UploadInv, UploadShape
<1>3. QED
  BY <1>1, <1>2 DEF UploadInv, UploadShape, OneArray, PartsOfTexts, Upload!Ids, Upload!NoSelection

\* A file that fails: whatever the store has taken, the page says that it failed.
LEMMA FailureKeeps ==
    ASSUME Upload!UploadAssumption, UploadInv, Upload!LoadFails, arrays' \in Seq(Seq(Upload!Entry)), Len(arrays) <= Len(arrays'),
           DOMAIN store' = DOMAIN store, reading' \subseteq EntryFiles
    PROVE  UploadInv'
<1>1. /\ DOMAIN upload' = DOMAIN upload /\ upload'.parseError = TRUE
      /\ upload'.selectedEntryId = upload.selectedEntryId /\ UNCHANGED fields
      /\ upload'.uploadedEntries = upload.uploadedEntries
  BY Zenon DEF Upload!LoadFails, UploadInv, UploadShape, Flags
<1>2. upload.uploadedEntries \in 1 .. Len(arrays')
  BY DEF UploadInv, UploadShape
<1>3. QED
  BY <1>1, <1>2 DEF UploadInv, UploadShape, OneArray, PartsOfTexts, Upload!Ids, Upload!NoSelection

\* What the store takes of a file is a new array.
LEMMA Stored ==
    ASSUME Upload!UploadAssumption, UploadInv, NEW f \in EntryFiles, Upload!StoreNew(f)
    PROVE  /\ f \in Seq(Upload!Entry) /\ arrays' \in Seq(Seq(Upload!Entry)) /\ Len(arrays') = Len(arrays) + 1
           /\ \A a \in DOMAIN arrays : arrays'[a] = arrays[a]
           /\ DOMAIN store' = DOMAIN store /\ store'.globalNewEntries = Len(arrays')
<1>1. f \in Seq(Upload!Entry) /\ arrays' = Append(arrays, f) /\ arrays \in Seq(Seq(Upload!Entry))
  BY DEF Upload!UploadAssumption, Upload!StoreNew, UploadInv, UploadShape
<1>2. /\ arrays' \in Seq(Seq(Upload!Entry)) /\ Len(arrays') = Len(arrays) + 1
      /\ \A a \in DOMAIN arrays : arrays'[a] = arrays[a]
  BY <1>1
<1>3. DOMAIN store' = DOMAIN store /\ store'.globalNewEntries = Len(arrays')
  BY SameDispatched, DispatchedDomain, NewEntriesDispatched DEF Upload!StoreNew, Upload!Dispatch, UploadInv, UploadShape
<1>4. QED
  BY <1>1, <1>2, <1>3

\* A file that is loaded: the page takes the array the store has taken.
LEMMA LoadedKeeps ==
    ASSUME Upload!UploadAssumption, UploadInv, NEW f \in EntryFiles, Upload!Loaded(f), reading' \subseteq EntryFiles
    PROVE  UploadInv'
<1> DEFINE up == [upload EXCEPT !.parseError = FALSE, !.uploadedEntries = Len(arrays'),
                                !.newEntriesLoaded = TRUE]
<1>1. /\ f \in Seq(Upload!Entry) /\ arrays' \in Seq(Seq(Upload!Entry))
      /\ DOMAIN store' = DOMAIN store /\ store'.globalNewEntries = Len(arrays')
      /\ Len(arrays') \in 1 .. Len(arrays')
  <2>1. Upload!StoreNew(f)
    BY Zenon DEF Upload!Loaded
  <2>2. QED
    BY <2>1, Stored DEF UploadInv, UploadShape
<1>2. /\ DOMAIN up = DOMAIN upload /\ up.uploadedEntries = Len(arrays')
      /\ up.newEntriesLoaded = TRUE /\ up.selectedEntryId = upload.selectedEntryId
  BY Zenon DEF UploadInv, UploadShape, Flags
<1>3. \/ \E e \in Upload!Entry : Upload!SetSelectedEntriesIds(1, e, up)
      \/ (\E failed \in BOOLEAN : upload' = [up EXCEPT !.parseError = failed]) /\ UNCHANGED fields
  <2>1. CASE f /= <<>> /\ Upload!SetSelectedEntriesIds(1, f[1], up)
    <3>1. f[1] \in Upload!Entry
      BY <1>1, <2>1
    <3>2. QED
      BY <2>1, <3>1
  <2>2. CASE Upload!Uploaded /= <<>> /\ Upload!SetSelectedEntriesIds(1, Upload!Uploaded[1], up)
    <3>1. Upload!Uploaded \in Seq(Upload!Entry)
      BY DEF Upload!Uploaded, UploadInv, UploadShape
    <3>2. Upload!Uploaded[1] \in Upload!Entry
      BY <2>2, <3>1
    <3>3. QED
      BY <2>2, <3>2
  <2>3. CASE /\ \E stays \in BOOLEAN : /\ stays => upload.entrySelected
                                       /\ upload' = [up EXCEPT !.parseError = ~stays]
             /\ UNCHANGED fields
    <3>1. PICK stays \in BOOLEAN : upload' = [up EXCEPT !.parseError = ~stays]
      BY <2>3, Zenon
    <3>2. (~stays) \in BOOLEAN
      BY Zenon
    <3>3. QED
      BY <2>3, <3>1, <3>2, Zenon
  <2>4. QED
    BY <2>1, <2>2, <2>3, Zenon DEF Upload!Loaded
<1> HIDE DEF up
<1>4. CASE \E e \in Upload!Entry : Upload!SetSelectedEntriesIds(1, e, up)
  BY <1>1, <1>2, <1>4, SelectionKeeps DEF UploadInv, UploadShape, OneArray
<1>5. CASE (\E failed \in BOOLEAN : upload' = [up EXCEPT !.parseError = failed]) /\ UNCHANGED fields
  <2>1. /\ DOMAIN upload' = DOMAIN upload /\ upload'.uploadedEntries = Len(arrays')
        /\ upload'.selectedEntryId = upload.selectedEntryId
    BY <1>2, <1>5 DEF UploadInv, UploadShape, Flags
  <2>2. QED
    BY <1>1, <1>5, <2>1 DEF UploadInv, UploadShape, OneArray, PartsOfTexts, Upload!Ids, Upload!NoSelection
<1>6. QED
  BY <1>3, <1>4, <1>5

\* One of the files being read has been.
LEMMA FileReadKeeps ==
    ASSUME Upload!UploadAssumption, UploadInv, Upload!FileRead
    PROVE  UploadInv' /\ \A a \in DOMAIN arrays : arrays'[a] = arrays[a]
<1>1. PICK f \in reading : /\ Upload!LoadNothing(f) \/ Upload!LoadRefused(f) \/ Upload!Loaded(f)
                           /\ reading' = reading \ {f}
  BY DEF Upload!FileRead
<1>2. f \in EntryFiles /\ reading' \subseteq EntryFiles
  BY <1>1 DEF UploadInv, UploadShape
<1>3. arrays \in Seq(Seq(Upload!Entry))
  BY DEF UploadInv, UploadShape
<1>4. CASE Upload!LoadNothing(f)
  BY <1>2, <1>3, <1>4, FailureKeeps DEF Upload!LoadNothing
<1>5. CASE Upload!LoadRefused(f)
  <2>1. Len(arrays) <= Len(arrays')
    BY <1>2, <1>3, <1>5, Stored DEF Upload!LoadRefused
  <2>2. QED
    BY <1>2, <1>3, <1>5, <2>1, Stored, FailureKeeps DEF Upload!LoadRefused
<1>6. CASE Upload!Loaded(f)
  BY <1>2, <1>6, Stored, LoadedKeeps DEF Upload!Loaded
<1>7. QED
  BY <1>1, <1>4, <1>5, <1>6

\* A text is typed, or a parent chosen: an id that is parsed out is put in its field.
LEMMA EditKeeps ==
    ASSUME Upload!UploadAssumption, UploadInv, Upload!EditFields
    PROVE  UploadInv'
<1> DEFINE Agree == /\ DOMAIN fields' = DOMAIN fields
                    /\ fields'.spiffeParts \in Upload!Pairs /\ fields'.dnsNames \in BOOLEAN
                    /\ PartsOfTexts'
<1>1. UNCHANGED <<store, arrays, upload, reading>>
  BY DEF Upload!EditFields
<1>2. ASSUME NEW text \in Upload!Texts, Upload!OnChangeParentIdInput(text) PROVE Agree
  <2>1. /\ DOMAIN fields' = DOMAIN fields /\ fields'.parentId = text
        /\ fields'.parentParts = Upload!Parse(text) /\ fields'.spiffeId = fields.spiffeId
        /\ fields'.spiffeParts = fields.spiffeParts /\ fields'.dnsNames = fields.dnsNames
    BY <1>2, Zenon DEF Upload!OnChangeParentIdInput, UploadInv, UploadShape
  <2>2. Upload!Parse(text) \in Upload!Ids => Upload!Parse(text) = text
    BY UploadNoIds DEF Upload!Parse
  <2>3. QED
    BY <1>1, <2>1, <2>2 DEF UploadInv, UploadShape, PartsOfTexts, Upload!Ids, Upload!NoSelection
<1>3. ASSUME NEW text \in Upload!Texts, Upload!OnChangeSpiffeId(text) PROVE Agree
  <2>1. /\ DOMAIN fields' = DOMAIN fields /\ fields'.spiffeId = text
        /\ fields'.spiffeParts = Upload!Parse(text) /\ fields'.parentId = fields.parentId
        /\ fields'.parentParts = fields.parentParts /\ fields'.dnsNames = fields.dnsNames
    BY <1>3, Zenon DEF Upload!OnChangeSpiffeId, UploadInv, UploadShape
  <2>2. (Upload!Parse(text) \in Upload!Ids => Upload!Parse(text) = text) /\ Upload!Parse(text) \in Upload!Pairs
    BY UploadNoIds DEF Upload!Parse
  <2>3. QED
    BY <1>1, <2>1, <2>2 DEF UploadInv, UploadShape, PartsOfTexts, Upload!Ids, Upload!NoSelection
<1>4. ASSUME NEW sid \in Upload!Ids \cup {Upload!Malformed}, Upload!OnChangeParentId(sid) PROVE Agree
  <2>1. CASE Upload!Parse(sid) = Upload!Empty
    <3>1. /\ DOMAIN fields' = DOMAIN fields /\ fields'.parentParts = Upload!Empty
          /\ fields'.spiffeId = fields.spiffeId /\ fields'.spiffeParts = fields.spiffeParts
          /\ fields'.dnsNames = fields.dnsNames
      BY <1>4, <2>1, Zenon DEF Upload!OnChangeParentId, UploadInv, UploadShape
    <3>2. QED
      BY <1>1, <3>1, UploadNoIds DEF UploadInv, UploadShape, PartsOfTexts, Upload!Ids, Upload!NoSelection
  <2>2. CASE Upload!Parse(sid) /= Upload!Empty
    <3>1. sid \in Upload!Ids /\ sid[1] \in Servers
      BY <2>2 DEF Upload!Parse, Upload!Ids
    <3>2. fields.spiffeParts[2] \in EntryPaths \cup {""}
      BY DEF UploadInv, UploadShape, Upload!Pairs
    <3>3. /\ DOMAIN fields' = DOMAIN fields /\ fields'.parentId = sid
          /\ fields'.parentParts = sid /\ fields'.dnsNames = fields.dnsNames
          /\ fields'.spiffeId = <<sid[1], fields.spiffeParts[2]>>
          /\ fields'.spiffeParts = <<sid[1], fields.spiffeParts[2]>>
      BY <1>4, <2>2, Zenon DEF Upload!OnChangeParentId, UploadInv, UploadShape
    <3>4. fields'.spiffeParts \in Upload!Pairs
      BY <3>1, <3>2, <3>3, PairMade
    <3>5. QED
      BY <1>1, <3>3, <3>4 DEF UploadInv, UploadShape, PartsOfTexts
  <2>3. QED
    BY <2>1, <2>2
<1>5. ASSUME NEW selectors \in BOOLEAN, NEW dnsNames \in BOOLEAN, Upload!OnChangeRest(selectors, dnsNames)
      PROVE  Agree
  <2>1. /\ DOMAIN fields' = DOMAIN fields /\ fields'.dnsNames = dnsNames
        /\ fields'.spiffeId = fields.spiffeId /\ fields'.spiffeParts = fields.spiffeParts
        /\ fields'.parentId = fields.parentId /\ fields'.parentParts = fields.parentParts
    BY <1>5, Zenon DEF Upload!OnChangeRest, UploadInv, UploadShape
  <2>2. QED
    BY <1>1, <2>1 DEF UploadInv, UploadShape, PartsOfTexts, Upload!Ids, Upload!NoSelection
<1>6. Agree
  <2> HIDE DEF Agree
  <2> QED  BY <1>2, <1>3, <1>4, <1>5 DEF Upload!EditFields
<1>7. QED
  BY <1>1, <1>6 DEF UploadInv, UploadShape, OneArray

\* An edit is applied: one entry of the page's array becomes what the fields show.
LEMMA ApplyKeeps ==
    ASSUME Upload!UploadAssumption, UploadInv, Upload!ApplyEditToEntry
    PROVE  UploadInv' /\ Upload!AppliedStep
<1> DEFINE i == upload.selectedEntryId
           a == upload.uploadedEntries
           e == Upload!EditedEntry(arrays[a][i])
<1>1. /\ arrays \in Seq(Seq(Upload!Entry)) /\ a \in 1 .. Len(arrays) /\ i \in DOMAIN arrays[a]
      /\ i /= Upload!NoSelection
  BY DEF Upload!ApplyEditToEntry, Upload!Applicable, Upload!Uploaded, UploadInv, UploadShape
<1>2. e.spiffe_id = fields.spiffeId /\ e.parent_id = fields.parentId
  BY <1>1 DEF Upload!ApplyEditToEntry, Upload!Applicable, Upload!EditedEntry, UploadInv, PartsOfTexts
<1>3. e \in Upload!Entry
  <2>1. arrays[a] \in Seq(Upload!Entry)
    BY <1>1
  <2>2. arrays[a][i] \in Upload!Entry
    BY <1>1, <2>1
  <2>3. QED
    BY <2>2 DEF Upload!EditedEntry, Upload!ApplyEditToEntry, Upload!Applicable, Upload!Entry, UploadInv, UploadShape
<1>4. arrays' = [arrays EXCEPT ![a] = [arrays[a] EXCEPT ![i] = e]]
  BY DEF Upload!ApplyEditToEntry
<1> HIDE DEF e
<1>5. [arrays[a] EXCEPT ![i] = e] \in Seq(Upload!Entry)
  BY <1>1, <1>3
<1>6. arrays' \in Seq(Seq(Upload!Entry)) /\ Len(arrays') = Len(arrays)
  BY <1>1, <1>4, <1>5
<1>7. Upload!AppliedStep
  BY <1>1, <1>2, <1>4 DEF Upload!AppliedStep
<1>8. /\ DOMAIN upload' = DOMAIN upload /\ upload'.selectedEntryId = Upload!NoSelection
      /\ upload'.uploadedEntries = a /\ upload'.newEntriesLoaded = upload.newEntriesLoaded
      /\ upload'.parseError = upload.parseError
  BY Zenon DEF Upload!ApplyEditToEntry, UploadInv, UploadShape, Flags
<1>9. /\ DOMAIN fields' = DOMAIN fields /\ fields'.spiffeParts = fields.spiffeParts
      /\ fields'.dnsNames = FALSE
  BY Zenon DEF Upload!ApplyEditToEntry, UploadInv, UploadShape
<1>10. UNCHANGED <<store, reading>>
  BY DEF Upload!ApplyEditToEntry
<1>11. QED
  BY <1>1, <1>6, <1>7, <1>8, <1>9, <1>10 DEF UploadInv, UploadShape, OneArray, PartsOfTexts

LEMMA UploadInitial ==
    ASSUME Upload!UploadAssumption, Upload!Init
    PROVE  UploadInv
<1>1. "globalNewEntries" \in DOMAIN Upload!InitialStore
  BY Zenon DEF Upload!InitialStore, Upload!entriesInitial
<1>2. DOMAIN store = DOMAIN Upload!InitialStore
  BY DEF Upload!Init
<1>3. arrays \in Seq(Seq(Upload!Entry)) /\ Len(arrays) = 1
  BY DEF Upload!Init
<1>4. /\ DOMAIN upload = {"uploadedEntries", "selectedEntryId"} \cup Flags
      /\ upload.uploadedEntries = 1 /\ upload.newEntriesLoaded = FALSE
      /\ upload.selectedEntryId = Upload!NoSelection
  BY DEF Upload!Init, Upload!BlankUpload, Flags
<1>5. /\ DOMAIN fields = {"spiffeId", "spiffeParts", "parentId", "parentParts", "prefix",
                          "selectors", "dnsNames"}
      /\ fields.spiffeParts \in Upload!Pairs /\ fields.dnsNames \in BOOLEAN
  BY UploadNoIds DEF Upload!Init, Upload!BlankFields
<1>6. reading \subseteq EntryFiles
  BY DEF Upload!Init
<1>7. QED
  BY <1>1, <1>2, <1>3, <1>4, <1>5, <1>6 DEF UploadInv, UploadShape, OneArray, PartsOfTexts

\* One case for each action; only an edit that is applied changes an array.
LEMMA UploadInductive ==
    ASSUME Upload!UploadAssumption, UploadInv, Upload!Next \/ UNCHANGED Upload!vars
    PROVE  UploadInv' /\ Upload!AppliedStep
<1> USE DEF UploadInv, UploadShape
<1> DEFINE Kept == \A a \in DOMAIN arrays : arrays'[a] = arrays[a]
<1>1. Kept => Upload!AppliedStep
  BY DEF Upload!AppliedStep
<1>2. CASE Upload!Reopen
  <2>1. DOMAIN store' = DOMAIN store
    BY SameDispatched, <1>2, DispatchedDomain DEF Upload!Reopen, Upload!Dispatch
  <2>2. QED
    BY <1>1, <1>2, <2>1, BlankKeeps DEF Upload!Reopen
<1>3. CASE Upload!AgentsArrive
  <2>1. /\ DOMAIN store' = DOMAIN store
        /\ store'.globalNewEntries = upload.uploadedEntries
    BY SameDispatched, <1>3, DispatchedDomain, NewEntriesDispatched DEF Upload!AgentsArrive, Upload!Dispatch
  <2>2. QED
    BY <1>1, <1>3, <2>1 DEF Upload!AgentsArrive, OneArray, PartsOfTexts, Upload!Ids, Upload!NoSelection
<1>4. CASE \E i \in DOMAIN Upload!Uploaded : Upload!SelectEntry(i)
  <2>1. PICK i \in DOMAIN Upload!Uploaded : Upload!SelectEntry(i)
    BY <1>4
  <2>2. Upload!Uploaded \in Seq(Upload!Entry)
    BY DEF Upload!Uploaded
  <2>3. Upload!Uploaded[i] \in Upload!Entry
    BY <2>2
  <2>4. /\ DOMAIN upload' = DOMAIN upload
        /\ upload'.uploadedEntries = upload.uploadedEntries
        /\ upload'.newEntriesLoaded = upload.newEntriesLoaded
        /\ upload'.parseError = upload.parseError /\ PartsOfTexts'
        /\ DOMAIN fields' = DOMAIN fields /\ fields'.spiffeParts \in Upload!Pairs
        /\ fields'.dnsNames \in BOOLEAN
    BY <2>1, <2>3, SelectionKeeps DEF Upload!SelectEntry
  <2>5. UNCHANGED <<store, arrays, reading>>
    BY <2>1 DEF Upload!SelectEntry
  <2>6. QED
    BY <1>1, <2>4, <2>5 DEF OneArray
<1>5. CASE \E one \in BOOLEAN : Upload!HandleChange(one)
  BY <1>1, <1>5, HandleChangeKeeps DEF Upload!HandleChange
<1>6. CASE Upload!FileRead
  BY <1>1, <1>6, FileReadKeeps
<1>7. CASE Upload!ClearFile
  BY <1>1, <1>7, BlankKeeps DEF Upload!ClearFile
<1>8. CASE Upload!EditFields
  BY <1>1, <1>8, EditKeeps DEF Upload!EditFields
<1>9. CASE Upload!ApplyEditToEntry
  BY <1>9, ApplyKeeps
<1>10. CASE UNCHANGED Upload!vars
  BY <1>1, <1>10 DEF Upload!vars, OneArray, PartsOfTexts, Upload!Ids, Upload!NoSelection
<1>11. QED
  BY <1>2, <1>3, <1>4, <1>5, <1>6, <1>7, <1>8, <1>9, <1>10 DEF Upload!Next

----------------------------------------------------------------------------
(* The types of the upload                                                  *)

\* The state of the uploader while there are n arrays, and the fields of the editor.
UploaderTypes(n) ==
    [uploadedEntries : 1 .. n, selectedEntryId : Nat, entrySelected : BOOLEAN,
     isEntriesLoaded : BOOLEAN, newEntriesLoaded : BOOLEAN, parseError : BOOLEAN]

EditorTypes ==
    [spiffeId : Upload!Texts, spiffeParts : Upload!Pairs, parentId : Upload!Texts,
     parentParts : Upload!Pairs, prefix : Upload!Blank, selectors : BOOLEAN, dnsNames : BOOLEAN]

\* A file that is being read will need an array, and there is a bound on these.
UploadTypes ==
    /\ Upload!TypeOK
    /\ IsFiniteSet(reading) /\ Len(arrays) + Cardinality(reading) <= MaxUploads + 1

\* The number of the files that are read is that of the set.
LEMMA SameUploadCardinality ==
    ASSUME NEW S
    PROVE  Upload!Cardinality(S) = Cardinality(S)
BY Zenon DEF Upload!Cardinality, Cardinality

\* More arrays allow more.
LEMMA UploaderGrows ==
    ASSUME NEW n \in Nat, NEW m \in Nat, n <= m
    PROVE  UploaderTypes(n) \subseteq UploaderTypes(m)
<1>1. 1 .. n \subseteq 1 .. m
  OBVIOUS
<1>2. QED
  BY <1>1 DEF UploaderTypes

\* The uploader when the page is opened.
LEMMA UploaderBlank ==
    ASSUME NEW n \in Nat, n >= 1
    PROVE  Upload!BlankUpload \in UploaderTypes(n)
<1>1. 1 \in 1 .. n /\ Upload!NoSelection \in Nat
  BY DEF Upload!NoSelection
<1>2. QED
  BY <1>1 DEF Upload!BlankUpload, UploaderTypes

\* Pairs, ids and texts.
LEMMA PairsMade ==
    /\ Upload!Empty \in Upload!Pairs /\ Upload!Ids \subseteq Upload!Pairs
    /\ Upload!Pairs \subseteq Upload!Texts /\ Upload!Malformed \in Upload!Texts
    /\ \A x \in Upload!Pairs : x[1] \in Upload!Blank
    /\ \A text : Upload!Parse(text) \in Upload!Pairs
<1>1. Upload!Empty \in Upload!Pairs /\ Upload!Ids \subseteq Upload!Pairs
  BY DEF Upload!Empty, Upload!Ids, Upload!Pairs
<1>2. \A x \in Upload!Pairs : x[1] \in Upload!Blank
  BY DEF Upload!Pairs, Upload!Blank
<1>3. QED
  BY <1>1, <1>2 DEF Upload!Parse, Upload!Texts

\* The editor when the page is opened.
LEMMA EditorBlank == Upload!BlankFields \in EditorTypes
<1>1. NoServer \in Upload!Blank
  BY DEF Upload!Blank
<1>2. QED
  BY <1>1, PairsMade DEF Upload!BlankFields, EditorTypes

\* What an entry brings to the fields.
LEMMA PopulatedTyped ==
    ASSUME NEW e \in Upload!Entry
    PROVE  Upload!Populated(e) \in EditorTypes
<1> DEFINE sid == Upload!Shown(e.spiffe_id)
           parentSid == Upload!Shown(e.parent_id)
<1>1. e.dns_names \in BOOLEAN
  BY Zenon DEF Upload!Entry
<1>2. sid \in Upload!Pairs /\ parentSid \in Upload!Pairs
  BY PairsMade DEF Upload!Shown, Upload!Entry
<1>3. Upload!Populated(e) =
        [spiffeId |-> sid, spiffeParts |-> sid, parentId |-> parentSid, parentParts |-> parentSid,
         prefix |-> sid[1], selectors |-> TRUE, dnsNames |-> e.dns_names]
  BY Zenon DEF Upload!Populated
<1> HIDE DEF sid, parentSid
<1>4. QED
  BY <1>1, <1>2, <1>3, PairsMade DEF EditorTypes

\* An entry is selected, or the user stays with the one there is.
LEMMA SelectionTyped ==
    ASSUME NEW n \in Nat, fields \in EditorTypes, NEW i \in Nat, NEW e \in Upload!Entry,
           NEW up \in UploaderTypes(n), Upload!SetSelectedEntriesIds(i, e, up)
    PROVE  upload' \in UploaderTypes(n) /\ fields' \in EditorTypes
<1>1. CASE upload' = up /\ UNCHANGED fields
  BY <1>1
<1>2. CASE /\ upload' = [up EXCEPT !.selectedEntryId = i, !.entrySelected = TRUE]
           /\ fields' = Upload!Populated(e)
  BY <1>2, PopulatedTyped DEF UploaderTypes
<1>3. QED
  BY <1>1, <1>2 DEF Upload!SetSelectedEntriesIds

\* What the fields become, whatever is typed or chosen.
LEMMA EditorTyped ==
    ASSUME fields \in EditorTypes, Upload!EditFields
    PROVE  fields' \in EditorTypes
<1>1. ASSUME NEW text \in Upload!Texts, Upload!OnChangeParentIdInput(text)
      PROVE  fields' \in EditorTypes
  <2>1. fields' = [fields EXCEPT !.parentId = text, !.parentParts = Upload!Parse(text)]
    BY <1>1, Zenon DEF Upload!OnChangeParentIdInput
  <2>2. QED
    BY <2>1, PairsMade DEF EditorTypes
<1>2. ASSUME NEW text \in Upload!Texts, Upload!OnChangeSpiffeId(text)
      PROVE  fields' \in EditorTypes
  <2>1. fields' = [fields EXCEPT !.spiffeId = text, !.spiffeParts = Upload!Parse(text)]
    BY <1>2, Zenon DEF Upload!OnChangeSpiffeId
  <2>2. QED
    BY <2>1, PairsMade DEF EditorTypes
<1>3. ASSUME NEW sid \in Upload!Ids \cup {Upload!Malformed}, Upload!OnChangeParentId(sid)
      PROVE  fields' \in EditorTypes
  <2>1. CASE Upload!Parse(sid) = Upload!Empty
    <3>1. fields' = [fields EXCEPT !.parentParts = Upload!Empty]
      BY <1>3, <2>1, Zenon DEF Upload!OnChangeParentId
    <3>2. QED
      BY <3>1, PairsMade DEF EditorTypes
  <2>2. CASE Upload!Parse(sid) /= Upload!Empty
    <3> DEFINE pair == <<sid[1], fields.spiffeParts[2]>>
    <3>1. fields' = [fields EXCEPT !.parentParts = sid, !.parentId = sid, !.prefix = sid[1],
                                   !.spiffeParts = pair, !.spiffeId = pair]
      BY <1>3, <2>2, Zenon DEF Upload!OnChangeParentId
    <3>2. sid \in Upload!Pairs /\ sid[1] \in Servers
      BY <2>2, PairsMade DEF Upload!Parse, Upload!Ids
    <3>3. fields.spiffeParts[2] \in EntryPaths \cup {""}
      BY DEF EditorTypes, Upload!Pairs
    <3>4. pair \in Upload!Pairs
      BY <3>2, <3>3, PairMade
    <3> HIDE DEF pair
    <3>5. QED
      BY <3>1, <3>2, <3>4, PairsMade DEF EditorTypes
  <2>3. QED
    BY <2>1, <2>2
<1>4. ASSUME NEW s \in BOOLEAN, NEW d \in BOOLEAN, Upload!OnChangeRest(s, d)
      PROVE  fields' \in EditorTypes
  BY <1>4 DEF Upload!OnChangeRest, EditorTypes
<1>5. QED
  BY <1>1, <1>2, <1>3, <1>4 DEF Upload!EditFields

\* The page starts with the one empty array.
LEMMA UploadTypesInitial ==
    ASSUME Upload!UploadAssumption, Upload!Init
    PROVE  UploadTypes
<1>1. arrays \in Seq(Seq(Upload!Entry)) /\ Len(arrays) = 1
  BY DEF Upload!Init
<1>2. store.globalNewEntries = 1
  <2>1. "globalNewEntries" \in DOMAIN entriesInitial
    BY DEF entriesInitial
  <2>2. "globalNewEntries" \in DOMAIN Upload!InitialStore
    BY <2>1, InitialSlices, SameInitialStore
  <2>3. QED
    BY <2>2 DEF Upload!Init
<1>3. upload \in UploaderTypes(1) /\ fields \in EditorTypes
  BY UploaderBlank, EditorBlank DEF Upload!Init
<1>4. reading = {} /\ manager \in Modes
  BY DEF Upload!Init
<1>5. MaxUploads \in Nat
  BY DEF Upload!UploadAssumption
<1>6. IsFiniteSet(reading) /\ Len(arrays) + Cardinality(reading) <= MaxUploads + 1
  BY <1>1, <1>4, <1>5, FS_EmptySet
<1>7. upload \in Upload!UploadTypes
  BY <1>1, <1>3 DEF Upload!UploadTypes, UploaderTypes
<1>8. Upload!TypeOK
  BY <1>1, <1>2, <1>3, <1>4, <1>5, <1>7 DEF Upload!TypeOK, EditorTypes
<1>9. QED
  BY <1>6, <1>8 DEF UploadTypes

\* One case for each action.
LEMMA UploadTypesInductive ==
    ASSUME Upload!UploadAssumption, UploadInv, UploadTypes, Upload!Next \/ UNCHANGED Upload!vars
    PROVE  UploadTypes'
<1> DEFINE n == Len(arrays)
           StoreOK == store'.globalNewEntries \in 1 .. Len(arrays')
           BoundOK == IsFiniteSet(reading') /\ Len(arrays') + Cardinality(reading') <= MaxUploads + 1
<1>1. /\ n \in Nat /\ n >= 1 /\ arrays \in Seq(Seq(Upload!Entry)) /\ MaxUploads \in Nat
      /\ upload \in UploaderTypes(n) /\ fields \in EditorTypes /\ reading \subseteq EntryFiles
      /\ IsFiniteSet(reading) /\ Cardinality(reading) \in Nat
      /\ n + Cardinality(reading) <= MaxUploads + 1
      /\ store.globalNewEntries \in 1 .. n /\ "globalNewEntries" \in DOMAIN store
  <2>1. arrays \in Seq(Seq(Upload!Entry)) /\ n \in 1 .. MaxUploads + 1 /\ MaxUploads \in Nat
        /\ store.globalNewEntries \in 1 .. n
    BY DEF UploadTypes, Upload!TypeOK, Upload!UploadAssumption
  <2>2. upload \in UploaderTypes(n) /\ fields \in EditorTypes /\ reading \subseteq EntryFiles
    BY DEF UploadTypes, Upload!TypeOK, Upload!UploadTypes, UploaderTypes, EditorTypes
  <2>3. IsFiniteSet(reading) /\ Cardinality(reading) \in Nat
        /\ n + Cardinality(reading) <= MaxUploads + 1
    BY FS_CardinalityType DEF UploadTypes
  <2>4. QED
    BY <2>1, <2>2, <2>3 DEF UploadInv, UploadShape
<1>2. /\ EditorTypes' = EditorTypes
      /\ Seq(Seq(Upload!Entry))' = Seq(Seq(Upload!Entry))
      /\ Upload!UploadTypes' = UploaderTypes(Len(arrays'))
  BY DEF EditorTypes, Upload!Texts, Upload!Pairs, Upload!Blank, Upload!Malformed, Upload!Entry,
         Upload!Ids, Upload!UploadTypes, UploaderTypes
<1>3. ASSUME StoreOK, BoundOK, arrays' \in Seq(Seq(Upload!Entry)), Len(arrays') >= 1,
             upload' \in UploaderTypes(Len(arrays')), fields' \in EditorTypes,
             reading' \subseteq EntryFiles, UNCHANGED manager
      PROVE  UploadTypes'
  <2>1. Len(arrays') \in 1 .. MaxUploads + 1
    BY <1>1, <1>3, FS_CardinalityType
  <2>2. manager' \in Modes
    BY <1>3 DEF UploadTypes, Upload!TypeOK
  <2>3. fields' \in [spiffeId : Upload!Texts, spiffeParts : Upload!Pairs, parentId : Upload!Texts,
                     parentParts : Upload!Pairs, prefix : Upload!Blank, selectors : BOOLEAN,
                     dnsNames : BOOLEAN]'
    BY <1>2, <1>3 DEF EditorTypes
  <2>4. Upload!TypeOK'
    BY <1>2, <1>3, <2>1, <2>2, <2>3 DEF Upload!TypeOK
  <2>5. QED
    BY <1>3, <2>4 DEF UploadTypes
<1>4. /\ UNCHANGED <<store, arrays>> => StoreOK
      /\ UNCHANGED <<arrays, reading>> => BoundOK
  BY <1>1
<1>5. CASE Upload!Reopen
  <2>1. store' = Dispatched(<<>>) \/ store' = Dispatched(<<Upload!newEntriesUpdateFunc(1)>>)
    BY <1>5, SameDispatched DEF Upload!Reopen, Upload!Dispatch
  <2>2. store'.globalNewEntries \in 1 .. n
    BY <1>1, <2>1, NoneDispatched, NewEntriesDispatched
  <2>3. UNCHANGED <<manager, arrays, reading>> /\ upload' = Upload!BlankUpload
        /\ fields' = Upload!BlankFields
    BY <1>5 DEF Upload!Reopen
  <2>4. QED
    BY <1>1, <1>3, <1>4, <2>2, <2>3, UploaderBlank, EditorBlank
<1>6. CASE Upload!AgentsArrive
  <2>1. store'.globalNewEntries = upload.uploadedEntries
    BY <1>1, <1>6, SameDispatched, NewEntriesDispatched DEF Upload!AgentsArrive, Upload!Dispatch
  <2>2. upload.uploadedEntries \in 1 .. n
    BY <1>1 DEF UploaderTypes
  <2>3. UNCHANGED <<manager, arrays, upload, fields, reading>>
    BY <1>6 DEF Upload!AgentsArrive
  <2>4. QED
    BY <1>1, <1>3, <1>4, <2>1, <2>2, <2>3
<1>7. ASSUME NEW i \in DOMAIN Upload!Uploaded, Upload!SelectEntry(i) PROVE UploadTypes'
  <2>1. Upload!Uploaded \in Seq(Upload!Entry)
    <3>1. upload.uploadedEntries \in 1 .. n
      BY <1>1 DEF UploaderTypes
    <3>2. QED
      BY <1>1, <3>1 DEF Upload!Uploaded
  <2>2. i \in Nat /\ Upload!Uploaded[i] \in Upload!Entry
    BY <2>1
  <2>3. UNCHANGED <<store, manager, arrays, reading>>
        /\ Upload!SetSelectedEntriesIds(i, Upload!Uploaded[i], upload)
    BY <1>7 DEF Upload!SelectEntry
  <2>4. upload' \in UploaderTypes(n) /\ fields' \in EditorTypes
    BY <1>1, <2>2, <2>3, SelectionTyped
  <2>5. QED
    BY <1>1, <1>3, <1>4, <2>3, <2>4
<1>8. ASSUME NEW one \in BOOLEAN, Upload!HandleChange(one) PROVE UploadTypes'
  <2>1. UNCHANGED <<store, manager, arrays, fields>>
        /\ upload' = [upload EXCEPT !.parseError = FALSE, !.isEntriesLoaded = TRUE,
                                    !.newEntriesLoaded = FALSE]
    BY <1>8 DEF Upload!HandleChange
  <2>2. upload' \in UploaderTypes(n)
    BY <1>1, <2>1 DEF UploaderTypes
  <2>3. reading' \subseteq EntryFiles /\ BoundOK
    <3>1. CASE UNCHANGED reading
      BY <1>1, <1>4, <2>1, <3>1
    <3>2. CASE \E f \in EntryFiles \ reading : Upload!PickFile(f)
      <4>1. PICK f \in EntryFiles \ reading : Upload!PickFile(f)
        BY <3>2
      <4>2. reading' = reading \cup {f} /\ Len(arrays) + Cardinality(reading') <= MaxUploads + 1
        <5>1. reading' = reading \cup {f}
              /\ Len(arrays) + Upload!Cardinality(reading') <= MaxUploads + 1
          BY <4>1 DEF Upload!PickFile
        <5>2. QED
          BY <5>1, SameUploadCardinality
      <4>3. IsFiniteSet(reading')
        BY <1>1, <4>2, FS_AddElement
      <4>4. QED
        BY <1>1, <2>1, <4>1, <4>2, <4>3
    <3>3. QED
      BY <1>8, <3>1, <3>2 DEF Upload!HandleChange
  <2>4. QED
    BY <1>1, <1>3, <1>4, <2>1, <2>2, <2>3
<1>9. CASE Upload!FileRead
  <2>1. PICK f \in reading : /\ Upload!LoadNothing(f) \/ Upload!LoadRefused(f) \/ Upload!Loaded(f)
                             /\ reading' = reading \ {f} /\ UNCHANGED manager
    BY <1>9 DEF Upload!FileRead
  <2>2. /\ f \in EntryFiles /\ reading' \subseteq EntryFiles /\ IsFiniteSet(reading')
        /\ Cardinality(reading') = Cardinality(reading) - 1
    BY <1>1, <2>1, FS_RemoveElement
  <2>3. Upload!LoadFails => /\ upload' \in UploaderTypes(n) /\ fields' \in EditorTypes
    BY <1>1 DEF Upload!LoadFails, UploaderTypes
  <2>4. CASE Upload!LoadNothing(f)
    <3>1. UNCHANGED <<store, arrays>> /\ Upload!LoadFails
      BY <2>4 DEF Upload!LoadNothing
    <3>2. BoundOK
      BY <1>1, <2>2, <3>1
    <3>3. QED
      BY <1>1, <1>3, <1>4, <2>1, <2>2, <2>3, <3>1, <3>2
  <2>5. ASSUME Upload!StoreNew(f)
        PROVE  /\ StoreOK /\ BoundOK /\ arrays' \in Seq(Seq(Upload!Entry))
               /\ Len(arrays') = n + 1 /\ f \in Seq(Upload!Entry)
               /\ UploaderTypes(n) \subseteq UploaderTypes(Len(arrays'))
    <3>1. /\ arrays' \in Seq(Seq(Upload!Entry)) /\ Len(arrays') = n + 1
          /\ f \in Seq(Upload!Entry) /\ store'.globalNewEntries = Len(arrays')
      BY <2>2, <2>5, Stored
    <3>2. StoreOK /\ BoundOK
      BY <1>1, <2>2, <3>1
    <3>3. QED
      BY <1>1, <3>1, <3>2, UploaderGrows
  <2>6. CASE Upload!LoadRefused(f)
    <3>1. Upload!StoreNew(f) /\ Upload!LoadFails
      BY <2>6 DEF Upload!LoadRefused
    <3>2. upload' \in UploaderTypes(Len(arrays')) /\ fields' \in EditorTypes /\ Len(arrays') >= 1
      BY <1>1, <2>3, <2>5, <3>1
    <3>3. QED
      BY <1>3, <2>1, <2>2, <2>5, <3>1, <3>2
  <2>7. CASE Upload!Loaded(f)
    <3> DEFINE m == Len(arrays')
               up == [upload EXCEPT !.parseError = FALSE, !.uploadedEntries = m,
                                    !.newEntriesLoaded = TRUE]
    <3>1. Upload!StoreNew(f)
      BY <2>7 DEF Upload!Loaded
    <3>2. m \in Nat /\ m \in 1 .. m /\ UploaderTypes(n) \subseteq UploaderTypes(m)
      BY <1>1, <2>5, <3>1
    <3>3. \/ f /= <<>> /\ Upload!SetSelectedEntriesIds(1, f[1], up)
          \/ Upload!Uploaded /= <<>> /\ Upload!SetSelectedEntriesIds(1, Upload!Uploaded[1], up)
          \/ (\E failed \in BOOLEAN : upload' = [up EXCEPT !.parseError = failed]) /\ UNCHANGED fields
      <4>1. CASE /\ \E stays \in BOOLEAN : /\ stays => upload.entrySelected
                                           /\ upload' = [up EXCEPT !.parseError = ~stays]
                 /\ UNCHANGED fields
        <5>1. PICK stays \in BOOLEAN : upload' = [up EXCEPT !.parseError = ~stays]
          BY <4>1, Zenon
        <5>2. (~stays) \in BOOLEAN
          BY Zenon
        <5>3. QED
          BY <4>1, <5>1, <5>2, Zenon
      <4>2. QED
        BY <2>7, <4>1, Zenon DEF Upload!Loaded
    <3> HIDE DEF m
    <3>4. up \in UploaderTypes(m)
      BY <1>1, <3>2 DEF UploaderTypes
    <3> HIDE DEF up
    <3>5. CASE f /= <<>> /\ Upload!SetSelectedEntriesIds(1, f[1], up)
      <4>1. f[1] \in Upload!Entry
        BY <2>5, <3>1, <3>5
      <4>2. upload' \in UploaderTypes(m) /\ fields' \in EditorTypes
        BY <1>1, <3>2, <3>4, <3>5, <4>1, SelectionTyped
      <4>3. QED
        BY <1>1, <1>3, <2>1, <2>2, <2>5, <3>1, <4>2 DEF m
    <3>6. CASE Upload!Uploaded /= <<>> /\ Upload!SetSelectedEntriesIds(1, Upload!Uploaded[1], up)
      <4>1. Upload!Uploaded \in Seq(Upload!Entry)
        <5>1. upload.uploadedEntries \in 1 .. n
          BY <1>1 DEF UploaderTypes
        <5>2. QED
          BY <1>1, <5>1 DEF Upload!Uploaded
      <4>2. Upload!Uploaded[1] \in Upload!Entry
        BY <3>6, <4>1
      <4>3. upload' \in UploaderTypes(m) /\ fields' \in EditorTypes
        BY <1>1, <3>2, <3>4, <3>6, <4>2, SelectionTyped
      <4>4. QED
        BY <1>1, <1>3, <2>1, <2>2, <2>5, <3>1, <4>3 DEF m
    <3>7. CASE (\E failed \in BOOLEAN : upload' = [up EXCEPT !.parseError = failed]) /\ UNCHANGED fields
      <4>1. PICK failed \in BOOLEAN : upload' = [up EXCEPT !.parseError = failed]
        BY <3>7
      <4>2. upload' \in UploaderTypes(m)
        BY <3>4, <4>1 DEF UploaderTypes
      <4>3. QED
        BY <1>1, <1>3, <2>1, <2>2, <2>5, <3>1, <3>7, <4>2 DEF m
    <3>8. QED
      BY <3>3, <3>5, <3>6, <3>7
  <2>8. QED
    BY <2>1, <2>4, <2>6, <2>7
<1>10. CASE Upload!ClearFile
  BY <1>1, <1>3, <1>4, <1>10, UploaderBlank DEF Upload!ClearFile
<1>11. CASE Upload!EditFields
  <2>1. fields' \in EditorTypes /\ UNCHANGED <<store, manager, arrays, upload, reading>>
    BY <1>1, <1>11, EditorTyped DEF Upload!EditFields
  <2>2. QED
    BY <1>1, <1>3, <1>4, <2>1
<1>12. CASE Upload!ApplyEditToEntry
  <2>1. UploadInv'
    BY <1>12, ApplyKeeps
  <2>2. /\ upload' = [upload EXCEPT !.selectedEntryId = Upload!NoSelection, !.entrySelected = FALSE]
        /\ fields' = [fields EXCEPT !.parentId = Upload!Empty, !.spiffeId = Upload!Empty,
                                    !.selectors = FALSE, !.dnsNames = FALSE]
        /\ UNCHANGED <<store, manager, reading>>
    BY <1>12 DEF Upload!ApplyEditToEntry
  <2>3. arrays' \in Seq(Seq(Upload!Entry)) /\ Len(arrays') = n
    <3>1. arrays' \in Seq(Seq(Upload!Entry))
      BY <1>2, <2>1 DEF UploadInv, UploadShape
    <3>2. DOMAIN arrays' = DOMAIN arrays
      BY <1>1, <1>12 DEF Upload!ApplyEditToEntry
    <3>3. QED
      BY <1>1, <3>1, <3>2
  <2>4. upload' \in UploaderTypes(n)
    BY <1>1, <2>2 DEF UploaderTypes, Upload!NoSelection
  <2>5. fields' \in EditorTypes
    BY <1>1, <2>2, PairsMade DEF EditorTypes
  <2>6. QED
    BY <1>1, <1>3, <2>2, <2>3, <2>4, <2>5
<1>13. CASE UNCHANGED Upload!vars
  BY <1>1, <1>3, <1>4, <1>13 DEF Upload!vars
<1>14. QED
  BY <1>5, <1>6, <1>7, <1>8, <1>9, <1>10, <1>11, <1>12, <1>13 DEF Upload!Next

----------------------------------------------------------------------------
(* The types of the options                                                 *)

\* The slices that hold whose a list or an info is.
OptionSlices == {"globalAgentsList", "globalEntriesList", "globalAgentsWorkLoadAttestorInfo",
                 "globalServerSelected", "globalServerInfo", "globalTornjakServerInfo",
                 "globalDebugServerInfo"}

\* The slices have their types too.
OptionTypes ==
    /\ Parents!TypeOK
    /\ OptionSlices \cup {"globalServersList"} \subseteq DOMAIN store
    /\ \A slice \in OptionSlices : store[slice] \in Parents!Blank
    /\ store.globalServersList \subseteq Servers

\* Actions, at most two, that leave in the slices what is of their types.
TypedActions(acts) ==
    /\ DOMAIN acts \subseteq {1, 2}
    /\ \A i \in DOMAIN acts :
         /\ acts[i].slice \in OptionSlices => acts[i].payload \in Parents!Blank
         /\ acts[i].slice = "globalServersList" => acts[i].payload \subseteq Servers

\* A slice has its old value after some actions, or one that they gave it.
LEMMA DispatchedAmong ==
    ASSUME NEW acts, DOMAIN acts \subseteq {1, 2}, NEW s \in DOMAIN store
    PROVE  \/ Dispatched(acts)[s] = store[s]
           \/ \E i \in DOMAIN acts : acts[i].slice = s /\ Dispatched(acts)[s] = acts[i].payload
<1>1. CASE \A i \in DOMAIN acts : acts[i].slice /= s
  BY <1>1, NotDispatched
<1>2. CASE 2 \in DOMAIN acts /\ acts[2].slice = s
  BY <1>2, LastDispatched
<1>3. CASE 1 \in DOMAIN acts /\ acts[1].slice = s /\ ~(2 \in DOMAIN acts /\ acts[2].slice = s)
  BY <1>3, LastDispatched
<1>4. QED
  BY <1>1, <1>2, <1>3

\* What such actions leave.
LEMMA TypedDispatched ==
    ASSUME OptionTypes, NEW acts, TypedActions(acts), store' = Dispatched(acts)
    PROVE  /\ OptionSlices \cup {"globalServersList"} \subseteq DOMAIN store'
           /\ \A slice \in OptionSlices : store'[slice] \in Parents!Blank
           /\ store'.globalServersList \subseteq Servers
<1>1. OptionSlices \cup {"globalServersList"} \subseteq DOMAIN store'
  BY DispatchedDomain DEF OptionTypes
<1>2. ASSUME NEW slice \in OptionSlices PROVE store'[slice] \in Parents!Blank
  BY DispatchedAmong DEF OptionTypes, TypedActions
<1>3. store'.globalServersList \subseteq Servers
  <2>1. "globalServersList" \in DOMAIN store /\ store.globalServersList \subseteq Servers
    BY DEF OptionTypes
  <2>2. QED
    BY <2>1, DispatchedAmong DEF TypedActions
<1>4. QED
  BY <1>1, <1>2, <1>3

\* The actions, each with its slice.
LEMMA ActionsMade ==
    \A x : /\ Parents!agentsListUpdateFunc(x) = [slice |-> "globalAgentsList", payload |-> x]
           /\ Parents!entriesListUpdateFunc(x) = [slice |-> "globalEntriesList", payload |-> x]
           /\ Parents!clustersListUpdateFunc(x) = [slice |-> "globalClustersList", payload |-> x]
           /\ Parents!federationsListUpdateFunc(x) =
                [slice |-> "globalFederationsList", payload |-> x]
           /\ Parents!tornjakMessageFunc(x) = [slice |-> "globalErrorMessage", payload |-> x]
           /\ Parents!tornjakServerInfoUpdateFunc(x) =
                [slice |-> "globalTornjakServerInfo", payload |-> x]
           /\ Parents!spireDebugServerInfoUpdateFunc(x) =
                [slice |-> "globalDebugServerInfo", payload |-> x]
           /\ Parents!agentworkloadSelectorInfoFunc(x) =
                [slice |-> "globalAgentsWorkLoadAttestorInfo", payload |-> x]
           /\ Parents!serverInfoUpdateFunc(x) = [slice |-> "globalServerInfo", payload |-> x]
           /\ Parents!serverSelectedFunc(x) = [slice |-> "globalServerSelected", payload |-> x]
           /\ Parents!serversListUpdateFunc(x) = [slice |-> "globalServersList", payload |-> x]
BY DEF Parents!agentsListUpdateFunc, Parents!entriesListUpdateFunc, Parents!clustersListUpdateFunc,
       Parents!federationsListUpdateFunc, Parents!tornjakMessageFunc,
       Parents!tornjakServerInfoUpdateFunc, Parents!spireDebugServerInfoUpdateFunc,
       Parents!agentworkloadSelectorInfoFunc, Parents!serverInfoUpdateFunc,
       Parents!serverSelectedFunc, Parents!serversListUpdateFunc, Parents!Action

\* One action, or one and the message.
LEMMA FewTyped ==
    ASSUME NEW slice, NEW payload, slice \in OptionSlices => payload \in Parents!Blank,
           slice /= "globalServersList"
    PROVE  /\ TypedActions(<<>>)
           /\ TypedActions(<<[slice |-> slice, payload |-> payload]>>)
           /\ \A text : TypedActions(<<[slice |-> slice, payload |-> payload],
                                       Parents!tornjakMessageFunc(text)>>)
           /\ \A text : TypedActions(<<Parents!tornjakMessageFunc(text)>>)
<1> DEFINE act == [slice |-> slice, payload |-> payload]
           told(text) == Parents!tornjakMessageFunc(text)
<1>1. act.slice = slice /\ act.payload = payload
  OBVIOUS
<1>2. \A text : told(text).slice = "globalErrorMessage"
  BY ActionsMade
<1> HIDE DEF act, told
<1>3. TypedActions(<<>>)
  BY DEF TypedActions
<1>4. TypedActions(<<act>>)
  BY <1>1 DEF TypedActions
<1>5. ASSUME NEW text PROVE TypedActions(<<act, told(text)>>) /\ TypedActions(<<told(text)>>)
  <2> DEFINE t == told(text)
  <2>1. t.slice \notin OptionSlices /\ t.slice /= "globalServersList"
    BY <1>2 DEF OptionSlices
  <2> HIDE DEF t
  <2>2. TypedActions(<<act, t>>) /\ TypedActions(<<t>>)
    BY <1>1, <2>1 DEF TypedActions
  <2>3. QED
    BY <2>2 DEF t
<1>6. QED
  BY <1>3, <1>4, <1>5 DEF act, told

\* What an answer dispatches, whichever call it is of.
LEMMA AnsweredTyped ==
    ASSUME NEW c \in Parents!Calls, NEW ok \in BOOLEAN, c.op /= "servers"
    PROVE  TypedActions(Parents!Answered(c, ok))
<1>1. c.server \in Parents!Blank /\ NoServer \in Parents!Blank
      /\ c.op \in {"agents", "entries", "clusters", "federations", "serverInfo",
                   "localServerInfo", "debugInfo", "selectors", "register"}
  BY DEF Parents!Calls, Parents!Blank
<1>2. CASE c.op = "agents"
  <2>1. Parents!Answered(c, ok) = Parents!ListAnswered(Parents!agentsListUpdateFunc(c.server),
                                          Parents!agentsListUpdateFunc(NoServer), ok)
    BY <1>2 DEF Parents!Answered
  <2>2. QED
    BY <1>1, <2>1, FewTyped, ActionsMade DEF Parents!ListAnswered
<1>3. CASE c.op = "entries"
  <2>1. Parents!Answered(c, ok) = Parents!ListAnswered(Parents!entriesListUpdateFunc(c.server),
                                          Parents!entriesListUpdateFunc(NoServer), ok)
    BY <1>3 DEF Parents!Answered
  <2>2. QED
    BY <1>1, <2>1, FewTyped, ActionsMade DEF Parents!ListAnswered
<1>4. CASE c.op = "clusters"
  <2>1. Parents!Answered(c, ok) = Parents!ListAnswered(Parents!clustersListUpdateFunc(c.server),
                                          Parents!clustersListUpdateFunc(NoServer), ok)
    BY <1>4 DEF Parents!Answered
  <2>2. QED
    BY <1>1, <2>1, FewTyped, ActionsMade DEF Parents!ListAnswered
<1>5. CASE c.op = "federations"
  <2>1. Parents!Answered(c, ok) = Parents!ListAnswered(Parents!federationsListUpdateFunc(c.server),
                                          Parents!federationsListUpdateFunc(NoServer), ok)
    BY <1>5 DEF Parents!Answered
  <2>2. QED
    BY <1>1, <2>1, FewTyped, ActionsMade DEF Parents!ListAnswered
<1>6. CASE c.op = "serverInfo"
  <2>1. Parents!Answered(c, ok) = Parents!ServerInfoAnswered(c.server, ok)
    BY <1>6 DEF Parents!Answered
  <2>2. QED
    BY <1>1, <2>1, FewTyped, ActionsMade DEF Parents!ServerInfoAnswered
<1>7. CASE c.op = "localServerInfo"
  <2>1. Parents!Answered(c, ok) = Parents!LocalServerInfoAnswered(c.server, ok)
    BY <1>7 DEF Parents!Answered
  <2>2. QED
    BY <1>1, <2>1, FewTyped, ActionsMade DEF Parents!LocalServerInfoAnswered
<1>8. CASE c.op = "debugInfo"
  <2>1. Parents!Answered(c, ok) = Parents!DebugInfoAnswered(c.server, ok)
    BY <1>8 DEF Parents!Answered
  <2>2. QED
    BY <1>1, <2>1, FewTyped, ActionsMade DEF Parents!DebugInfoAnswered
<1>9. CASE c.op = "selectors"
  <2>1. Parents!Answered(c, ok) = Parents!SelectorsAnswered(c.server, ok)
    BY <1>9 DEF Parents!Answered
  <2>2. QED
    BY <1>1, <2>1, FewTyped, ActionsMade DEF Parents!SelectorsAnswered
<1>10. CASE c.op = "register"
  <2>1. Parents!Answered(c, ok) = <<>>
    BY <1>10 DEF Parents!Answered
  <2>2. QED
    BY <2>1 DEF TypedActions
<1>11. QED
  BY <1>1, <1>2, <1>3, <1>4, <1>5, <1>6, <1>7, <1>8, <1>9, <1>10

\* What the header dispatches.
LEMMA HeaderTyped ==
    ASSUME OptionTypes
    PROVE  /\ \A ok \in BOOLEAN : TypedActions(Parents!ServersAnswered(ok))
           /\ \A s \in Servers : TypedActions(Parents!SelectDerives(s))
<1>1. ASSUME NEW ok \in BOOLEAN PROVE TypedActions(Parents!ServersAnswered(ok))
  <2> DEFINE act == Parents!serversListUpdateFunc(Servers)
  <2>1. act.slice = "globalServersList" /\ act.payload = Servers
    BY ActionsMade
  <2> HIDE DEF act
  <2>2. TypedActions(<<act>>) /\ TypedActions(<<>>)
    BY <2>1 DEF TypedActions, OptionSlices
  <2>3. QED
    BY <2>2 DEF Parents!ServersAnswered, act
<1>2. ASSUME NEW s \in Servers PROVE TypedActions(Parents!SelectDerives(s))
  <2> DEFINE first == Parents!serverSelectedFunc(s)
             second == Parents!serverInfoUpdateFunc(store.globalTornjakServerInfo)
  <2>1. /\ first.slice = "globalServerSelected" /\ first.payload = s
        /\ second.slice = "globalServerInfo" /\ second.payload = store.globalTornjakServerInfo
    BY ActionsMade
  <2>2. Parents!SelectDerives(s) \in {<<first>> \o <<>>, <<first>> \o <<second>>}
    BY DEF Parents!SelectDerives, Parents!populateServerInfo
  <2> HIDE DEF first, second
  <2> DEFINE acts == Parents!SelectDerives(s)
  <2> HIDE DEF acts
  <2>3. acts \in Seq({first, second}) /\ Len(acts) \in {1, 2}
    <3>1. /\ <<first>> \o <<>> \in Seq({first, second}) /\ Len(<<first>> \o <<>>) = 1
          /\ <<first>> \o <<second>> \in Seq({first, second}) /\ Len(<<first>> \o <<second>>) = 2
      OBVIOUS
    <3>2. QED
      BY <2>2, <3>1 DEF acts
  <2>4. DOMAIN acts \subseteq {1, 2} /\ \A i \in DOMAIN acts : acts[i] \in {first, second}
    BY <2>3
  <2>5. s \in Parents!Blank /\ store.globalTornjakServerInfo \in Parents!Blank
    BY DEF OptionTypes, OptionSlices, Parents!Blank
  <2>6. TypedActions(acts)
    BY <2>1, <2>4, <2>5 DEF TypedActions
  <2>7. QED
    BY <2>6 DEF acts
<1>3. QED
  BY <1>1, <1>2

\* The calls the page and the header make.
LEMMA OptionCalls ==
    ASSUME NEW s \in Parents!Blank
    PROVE  /\ {Parents!populateAgentsUpdate(s), Parents!populateEntriesUpdate(s),
               Parents!refreshSelectorsState(s), Parents!populateTornjakServerInfo(s)}
                 \subseteq Parents!Calls
           /\ {Parents!populateLocalAgentsUpdate, Parents!populateLocalEntriesUpdate,
               Parents!populateLocalTornjakServerInfo, Parents!populateLocalTornjakDebugServerInfo,
               Parents!populateServers} \subseteq Parents!Calls
<1>1. Own \in Parents!Blank /\ NoServer \in Parents!Blank
  BY OwnAssumption DEF Parents!Blank
<1>2. QED
  BY <1>1 DEF Parents!populateAgentsUpdate, Parents!populateEntriesUpdate,
        Parents!refreshSelectorsState, Parents!populateTornjakServerInfo,
        Parents!populateLocalAgentsUpdate, Parents!populateLocalEntriesUpdate,
        Parents!populateLocalTornjakServerInfo, Parents!populateLocalTornjakDebugServerInfo,
        Parents!populateServers, Parents!Call, Parents!Calls

\* The page starts on what others left.
LEMMA OptionTypesInitial ==
    ASSUME Parents!Init
    PROVE  OptionTypes
<1>1. OptionSlices \cup {"globalServersList"} \subseteq DOMAIN Parents!InitialStore
      /\ Parents!InitialStore.globalAgentsWorkLoadAttestorInfo = NoServer
  <2>1. /\ {"globalServerSelected", "globalServerInfo", "globalTornjakServerInfo",
            "globalServersList", "globalDebugServerInfo"} \subseteq DOMAIN serversInitial
        /\ {"globalAgentsList", "globalAgentsWorkLoadAttestorInfo"} \subseteq DOMAIN agentsInitial
        /\ agentsInitial.globalAgentsWorkLoadAttestorInfo = NoServer
        /\ "globalEntriesList" \in DOMAIN entriesInitial
    BY DEF serversInitial, agentsInitial, entriesInitial
  <2>2. QED
    BY <2>1, InitialSlices, SameInitialStore DEF OptionSlices
<1>2. PICK s \in Parents!Blank, as \in Parents!Blank, es \in Parents!Blank, i \in Parents!Blank,
           debug \in Parents!Blank, there \in BOOLEAN :
        /\ ~manager => s = NoServer /\ {as, es, i, debug} \subseteq {Own, NoServer}
        /\ manager => i = s /\ debug = NoServer
        /\ store = [Parents!InitialStore EXCEPT !.globalServerSelected = s, !.globalServerInfo = i,
                        !.globalTornjakServerInfo = i, !.globalDebugServerInfo = debug,
                        !.globalAgentsList = as, !.globalEntriesList = es,
                        !.globalServersList = IF there THEN {} ELSE Servers]
        /\ calls = Parents!MountAsks \cup IF there THEN Parents!HeaderAsks \cup Parents!BarAsks ELSE {}
        /\ there => Parents!Dispatched(Parents!HeaderDerives) = store
  BY DEF Parents!Init
<1> DEFINE known == IF there THEN {} ELSE Servers
<1>3. known \subseteq Servers
  OBVIOUS
<1>4. store = [Parents!InitialStore EXCEPT !.globalServerSelected = s, !.globalServerInfo = i,
                  !.globalTornjakServerInfo = i, !.globalDebugServerInfo = debug,
                  !.globalAgentsList = as, !.globalEntriesList = es, !.globalServersList = known]
  BY <1>2
<1> HIDE DEF known
<1>5. /\ DOMAIN store = DOMAIN Parents!InitialStore
      /\ store.globalServerSelected = s /\ store.globalServerInfo = i
      /\ store.globalTornjakServerInfo = i /\ store.globalDebugServerInfo = debug
      /\ store.globalAgentsList = as /\ store.globalEntriesList = es
      /\ store.globalServersList = known
      /\ store.globalAgentsWorkLoadAttestorInfo = NoServer
  BY <1>1, <1>4 DEF OptionSlices
<1>6. \A slice \in OptionSlices : store[slice] \in Parents!Blank
  <2>1. NoServer \in Parents!Blank
    BY DEF Parents!Blank
  <2>2. QED
    BY <1>5, <2>1 DEF OptionSlices
<1>7. calls \subseteq Parents!Calls
  <2>1. store.globalServerSelected \in Parents!Blank
    BY <1>5
  <2>2. Parents!MountAsks \subseteq Parents!Calls
    BY <2>1, OptionCalls DEF Parents!MountAsks
  <2>3. Parents!HeaderAsks \subseteq Parents!Calls
    BY <2>1, OptionCalls DEF Parents!HeaderAsks
  <2>4. Parents!BarAsks \subseteq Parents!Calls
    BY <2>1, OptionCalls DEF Parents!BarAsks
  <2>5. QED
    BY <1>2, <2>2, <2>3, <2>4
<1>8. Parents!TypeOK
  <2>1. NoServer \in Parents!Blank
    BY DEF Parents!Blank
  <2>2. QED
    BY <1>6, <1>7, <2>1 DEF Parents!Init, Parents!TypeOK, OptionSlices
<1>9. QED
  BY <1>1, <1>3, <1>5, <1>6, <1>8 DEF OptionTypes

\* One case for each action.
LEMMA OptionTypesInductive ==
    ASSUME OptionTypes, Parents!Next \/ UNCHANGED Parents!vars
    PROVE  OptionTypes'
<1> DEFINE StoreOK == /\ OptionSlices \cup {"globalServersList"} \subseteq DOMAIN store'
                      /\ \A slice \in OptionSlices : store'[slice] \in Parents!Blank
                      /\ store'.globalServersList \subseteq Servers
           OptionsOK == options' \in [agents : Parents!Blank, entries : Parents!Blank,
                                      server : Parents!Blank] \cup {Parents!NoOptions}
           SelectorsOK == selectorsList' \in Parents!Blank
           ParentOK == parent' \in Parents!Parents \cup {Parents!NoParent}
<1>1. /\ Parents!Calls' = Parents!Calls /\ Parents!Blank' = Parents!Blank
      /\ Parents!NoOptions' = Parents!NoOptions /\ Parents!NoParent' = Parents!NoParent
      /\ Parents!Parents' = Parents!Parents
  BY DEF Parents!Calls, Parents!Blank, Parents!NoOptions, Parents!NoParent, Parents!Parents
<1>2. ASSUME StoreOK, OptionsOK, SelectorsOK, ParentOK, calls' \subseteq Parents!Calls,
             UNCHANGED manager
      PROVE  OptionTypes'
  <2>1. /\ store'.globalAgentsList \in Parents!Blank /\ store'.globalEntriesList \in Parents!Blank
        /\ store'.globalAgentsWorkLoadAttestorInfo \in Parents!Blank
    BY <1>2 DEF OptionSlices
  <2>2. Parents!TypeOK'
    BY <1>1, <1>2, <2>1 DEF Parents!TypeOK, OptionTypes
  <2>3. QED
    BY <1>1, <1>2, <2>2 DEF OptionTypes, OptionSlices
<1>3. /\ UNCHANGED store => StoreOK
      /\ UNCHANGED options => OptionsOK
      /\ UNCHANGED selectorsList => SelectorsOK
      /\ UNCHANGED parent => ParentOK
      /\ UNCHANGED calls => calls' \subseteq Parents!Calls
  BY DEF OptionTypes, Parents!TypeOK
<1>4. ASSUME NEW acts, TypedActions(acts), store' = Dispatched(acts) PROVE StoreOK
  BY <1>4, TypedDispatched
<1>5. ASSUME NEW st, \A slice \in OptionSlices : st[slice] \in Parents!Blank,
             NEW p \in Parents!Parents \cup {Parents!NoParent}
      PROVE  Parents!prepareSelectorsList(st, p) \in Parents!Blank
  <2>1. selectorsList \in Parents!Blank /\ st.globalServerInfo \in Parents!Blank
        /\ NoServer \in Parents!Blank
    BY <1>5 DEF OptionTypes, Parents!TypeOK, OptionSlices, Parents!Blank
  <2>2. p /= Parents!NoParent => p[2] \in Parents!Blank
    BY DEF Parents!Parents, Parents!Blank
  <2>3. p /= Parents!NoParent => Parents!AgentOf(st, p) \in Parents!Blank
    BY <1>5, <2>1, <2>2 DEF Parents!AgentOf, OptionSlices
  <2>4. QED
    BY <2>1, <2>2, <2>3 DEF Parents!prepareSelectorsList
<1> HIDE DEF OptionsOK, SelectorsOK, ParentOK
<1>6. ASSUME NEW c \in calls, NEW ok \in BOOLEAN, Parents!Return(c, ok) PROVE OptionTypes'
  <2>1. c \in Parents!Calls /\ c.op /= "servers"
    BY <1>6 DEF Parents!Return, OptionTypes, Parents!TypeOK
  <2>2. StoreOK
    BY <1>4, <1>6, <2>1, AnsweredTyped, SameDispatched
    DEF Parents!Return, Parents!CallReturns, Parents!Dispatch
  <2>3. OptionsOK
    <3>1. CASE UNCHANGED options
      BY <1>3, <3>1
    <3>2. CASE options' = Parents!prepareParentIdAgentsList(store')
      <4>1. {store'.globalAgentsList, store'.globalEntriesList, store'.globalServerInfo}
              \subseteq Parents!Blank
        BY <2>2 DEF OptionSlices
      <4>2. QED
        BY <3>2, <4>1 DEF Parents!prepareParentIdAgentsList, OptionsOK
    <3>3. QED
      BY <1>6, <3>1, <3>2 DEF Parents!Return, Parents!Updated
  <2>4. SelectorsOK
    <3>1. parent \in Parents!Parents \cup {Parents!NoParent}
      BY DEF OptionTypes, Parents!TypeOK
    <3>2. Parents!prepareSelectorsList(store', parent) \in Parents!Blank
      BY <1>5, <2>2, <3>1
    <3>3. selectorsList \in Parents!Blank
      BY DEF OptionTypes, Parents!TypeOK
    <3>4. QED
      BY <1>6, <3>2, <3>3 DEF Parents!Return, Parents!Updated, SelectorsOK
  <2>5. calls' \subseteq Parents!Calls
    <3>1. c.server \in Parents!Blank
      BY <2>1 DEF Parents!Calls
    <3>2. Parents!Follows(c, ok) \subseteq Parents!Calls
      BY <3>1, OptionCalls DEF Parents!Follows
    <3>3. QED
      BY <1>6, <3>2 DEF Parents!Return, Parents!CallReturns, OptionTypes, Parents!TypeOK
  <2>6. QED
    BY <1>2, <1>3, <1>6, <2>2, <2>3, <2>4, <2>5 DEF Parents!Return
<1>7. CASE Parents!HeaderSteps
  <2>1. StoreOK /\ calls' \subseteq Parents!Calls
    <3>1. ASSUME NEW ok \in BOOLEAN, Parents!ServersReturn(ok)
          PROVE  StoreOK /\ calls' \subseteq Parents!Calls
      <4>1. store' = Dispatched(Parents!ServersAnswered(ok))
        BY <3>1, SameDispatched DEF Parents!ServersReturn, Parents!Dispatch
      <4>2. calls' \subseteq Parents!Calls
        BY <3>1 DEF Parents!ServersReturn, OptionTypes, Parents!TypeOK
      <4>3. QED
        BY <1>4, <4>1, <4>2, HeaderTyped
    <3>2. ASSUME NEW s \in Servers, Parents!Select(s)
          PROVE  StoreOK /\ calls' \subseteq Parents!Calls
      <4>1. store' = Dispatched(Parents!SelectDerives(s))
        BY <3>2, SameDispatched DEF Parents!Select, Parents!Dispatch
      <4>2. s \in Parents!Blank
        BY DEF Parents!Blank
      <4>3. calls' \subseteq Parents!Calls
        BY <3>2, <4>2, OptionCalls DEF Parents!Select, Parents!SelectAsks, OptionTypes, Parents!TypeOK
      <4>4. QED
        BY <1>4, <4>1, <4>3, HeaderTyped
    <3>3. QED
      BY <1>7, <3>1, <3>2 DEF Parents!HeaderSteps
  <2>2. QED
    BY <1>2, <1>3, <1>7, <2>1 DEF Parents!HeaderSteps
<1>8. ASSUME NEW p \in Parents!Parents, Parents!ParentChosen(p) PROVE OptionTypes'
  <2>1. ParentOK
    BY <1>8 DEF Parents!ParentChosen, ParentOK
  <2>2. Parents!prepareSelectorsList(store, p) \in Parents!Blank
    BY <1>5 DEF OptionTypes
  <2>3. SelectorsOK
    BY <1>8, <2>2 DEF Parents!ParentChosen, SelectorsOK
  <2>4. QED
    BY <1>2, <1>3, <1>8, <2>1, <2>3 DEF Parents!ParentChosen
<1>9. CASE UNCHANGED Parents!vars
  BY <1>2, <1>3, <1>9 DEF Parents!vars
<1>10. QED
  BY <1>6, <1>7, <1>8, <1>9 DEF Parents!Next

----------------------------------------------------------------------------
(* The options for the parent                                               *)

TheLists == {"globalAgentsList", "globalEntriesList"}

OptionsInv == OptionTypes /\ Parents!OptionsFollowLists

\* What is said of an agent's plugin holds of selectors made again, whatever is in the store.
LEMMA SelectorsMade ==
    ASSUME NEW st, NEW p \in {"agent"} \X Servers
    PROVE  Parents!prepareSelectorsList(st, p) \in {NoServer, p[2]}
<1>1. p[1] = "agent" /\ p /= <<>> /\ p /= <<"server", st.globalDebugServerInfo>>
  OBVIOUS
<1>2. Parents!AgentOf(st, p) = p[2]
  BY <1>1 DEF Parents!AgentOf
<1>3. QED
  BY <1>1, <1>2 DEF Parents!prepareSelectorsList, Parents!NoParent

\* componentDidUpdate makes the options again, of the lists that are there then.
LEMMA UpdatedFollows ==
    ASSUME NEW arrived, Parents!PreparedOn(arrived), Parents!Updated(arrived), UNCHANGED parent
    PROVE  Parents!OptionsFollowLists'
<1>1. /\ options' = Parents!prepareParentIdAgentsList(store')
      /\ selectorsList' = Parents!prepareSelectorsList(store', parent)
  BY DEF Parents!Updated
<1>2. options'.agents = store'.globalAgentsList /\ options'.entries = store'.globalEntriesList
  BY <1>1 DEF Parents!prepareParentIdAgentsList
<1>3. parent' \in {"agent"} \X Servers => selectorsList' \in {NoServer, parent'[2]}
  BY <1>1, SelectorsMade
<1>4. QED
  BY <1>2, <1>3 DEF Parents!OptionsFollowLists

\* Steps that leave the lists alone.
LEMMA ListsAlone ==
    ASSUME Parents!OptionsFollowLists, UNCHANGED <<options, parent, selectorsList>>,
           \A slice \in TheLists : store'[slice] = store[slice]
    PROVE  Parents!OptionsFollowLists'
BY DEF Parents!OptionsFollowLists, Parents!NoOptions, TheLists

OfOthers(acts) == \A i \in DOMAIN acts : acts[i].slice \notin TheLists

\* One action on another slice, or one and the message.
LEMMA FewOfOthers ==
    ASSUME NEW slice, slice \notin TheLists, NEW payload
    PROVE  /\ OfOthers(<<>>)
           /\ OfOthers(<<[slice |-> slice, payload |-> payload]>>)
           /\ \A text : OfOthers(<<[slice |-> slice, payload |-> payload],
                                   Parents!tornjakMessageFunc(text)>>)
           /\ \A text : OfOthers(<<Parents!tornjakMessageFunc(text)>>)
<1> DEFINE act == [slice |-> slice, payload |-> payload]
           told(text) == Parents!tornjakMessageFunc(text)
<1>1. act.slice \notin TheLists
  OBVIOUS
<1>2. \A text : told(text).slice \notin TheLists
  BY ActionsMade DEF TheLists
<1> HIDE DEF act, told
<1>3. OfOthers(<<>>) /\ OfOthers(<<act>>)
  BY <1>1 DEF OfOthers
<1>4. ASSUME NEW text PROVE OfOthers(<<act, told(text)>>) /\ OfOthers(<<told(text)>>)
  <2> DEFINE t == told(text)
  <2>1. t.slice \notin TheLists
    BY <1>2
  <2> HIDE DEF t
  <2>2. OfOthers(<<act, t>>) /\ OfOthers(<<t>>)
    BY <1>1, <2>1 DEF OfOthers
  <2>3. QED
    BY <2>2 DEF t
<1>5. QED
  BY <1>3, <1>4 DEF act, told

\* What the other answers dispatch is of other slices.
LEMMA OtherAnswers ==
    ASSUME NEW c \in Parents!Calls, NEW ok \in BOOLEAN, c.op \notin {"servers", "agents", "entries"}
    PROVE  OfOthers(Parents!Answered(c, ok))
<1>1. c.op \in {"clusters", "federations", "serverInfo", "localServerInfo", "debugInfo",
                "selectors", "register"}
  BY DEF Parents!Calls
<1>2. CASE c.op = "clusters"
  <2>1. Parents!Answered(c, ok) = Parents!ListAnswered(Parents!clustersListUpdateFunc(c.server),
                                          Parents!clustersListUpdateFunc(NoServer), ok)
    BY <1>2 DEF Parents!Answered
  <2>2. QED
    BY <2>1, FewOfOthers, ActionsMade DEF Parents!ListAnswered, TheLists
<1>3. CASE c.op = "federations"
  <2>1. Parents!Answered(c, ok) = Parents!ListAnswered(Parents!federationsListUpdateFunc(c.server),
                                          Parents!federationsListUpdateFunc(NoServer), ok)
    BY <1>3 DEF Parents!Answered
  <2>2. QED
    BY <2>1, FewOfOthers, ActionsMade DEF Parents!ListAnswered, TheLists
<1>4. CASE c.op = "serverInfo"
  <2>1. Parents!Answered(c, ok) = Parents!ServerInfoAnswered(c.server, ok)
    BY <1>4 DEF Parents!Answered
  <2>2. QED
    BY <2>1, FewOfOthers, ActionsMade DEF Parents!ServerInfoAnswered, TheLists
<1>5. CASE c.op = "localServerInfo"
  <2>1. Parents!Answered(c, ok) = Parents!LocalServerInfoAnswered(c.server, ok)
    BY <1>5 DEF Parents!Answered
  <2>2. "globalTornjakServerInfo" \notin TheLists
    BY DEF TheLists
  <2>3. CASE ok
    BY <2>1, <2>2, <2>3, FewOfOthers, ActionsMade DEF Parents!LocalServerInfoAnswered
  <2>4. CASE ~ok
    BY <2>1, <2>2, <2>4, FewOfOthers, ActionsMade DEF Parents!LocalServerInfoAnswered
  <2>5. QED
    BY <2>3, <2>4
<1>6. CASE c.op = "debugInfo"
  <2>1. Parents!Answered(c, ok) = Parents!DebugInfoAnswered(c.server, ok)
    BY <1>6 DEF Parents!Answered
  <2>2. "globalDebugServerInfo" \notin TheLists
    BY DEF TheLists
  <2>3. CASE ok
    BY <2>1, <2>2, <2>3, FewOfOthers, ActionsMade DEF Parents!DebugInfoAnswered
  <2>4. CASE ~ok
    BY <2>1, <2>2, <2>4, FewOfOthers, ActionsMade DEF Parents!DebugInfoAnswered
  <2>5. QED
    BY <2>3, <2>4
<1>7. CASE c.op = "selectors"
  <2>1. Parents!Answered(c, ok) = Parents!SelectorsAnswered(c.server, ok)
    BY <1>7 DEF Parents!Answered
  <2>2. QED
    BY <2>1, FewOfOthers, ActionsMade DEF Parents!SelectorsAnswered, TheLists
<1>8. CASE c.op = "register"
  BY <1>8 DEF Parents!Answered, OfOthers
<1>9. QED
  BY <1>1, <1>2, <1>3, <1>4, <1>5, <1>6, <1>7, <1>8

\* An answer makes the options again, or says nothing of the lists.
LEMMA ReturnFollows ==
    ASSUME OptionsInv, NEW c \in calls, NEW ok \in BOOLEAN, Parents!Return(c, ok)
    PROVE  Parents!OptionsFollowLists'
<1> DEFINE arrived == IF c.op = "debugInfo" /\ ~ok THEN "nothing" ELSE c.op
<1>1. Parents!Updated(arrived) /\ UNCHANGED parent
  BY DEF Parents!Return
<1>2. CASE Parents!PreparedOn(arrived)
  BY <1>1, <1>2, UpdatedFollows
<1>3. CASE ~Parents!PreparedOn(arrived)
  <2>1. c \in Parents!Calls /\ c.op \notin {"servers", "agents", "entries"}
    BY <1>3 DEF Parents!PreparedOn, OptionsInv, OptionTypes, Parents!TypeOK, Parents!Return
  <2>2. store' = Dispatched(Parents!Answered(c, ok))
    BY SameDispatched DEF Parents!Return, Parents!CallReturns, Parents!Dispatch
  <2>3. OfOthers(Parents!Answered(c, ok))
    BY <2>1, OtherAnswers
  <2>4. TheLists \subseteq DOMAIN store
    BY DEF TheLists, OptionsInv, OptionTypes, OptionSlices
  <2>5. \A slice \in TheLists : store'[slice] = store[slice]
    BY <2>2, <2>3, <2>4, NotDispatched DEF OfOthers
  <2>6. UNCHANGED <<options, selectorsList>>
    BY <1>1, <1>3 DEF Parents!Updated
  <2>7. QED
    BY <1>1, <2>5, <2>6, ListsAlone DEF OptionsInv
<1>4. QED
  BY <1>2, <1>3

\* The header dispatches nothing on the lists.
LEMMA HeaderKeepsLists ==
    ASSUME OptionsInv, Parents!HeaderSteps
    PROVE  Parents!OptionsFollowLists'
<1>1. PICK acts : /\ store' = Dispatched(acts)
                  /\ \A i \in DOMAIN acts : acts[i].slice \notin TheLists
  <2>1. ASSUME NEW ok \in BOOLEAN, Parents!ServersReturn(ok)
        PROVE  \E acts : /\ store' = Dispatched(acts)
                         /\ \A i \in DOMAIN acts : acts[i].slice \notin TheLists
    <3>1. store' = Dispatched(Parents!ServersAnswered(ok))
      BY <2>1, SameDispatched DEF Parents!ServersReturn, Parents!Dispatch
    <3>2. \A i \in DOMAIN Parents!ServersAnswered(ok) :
            Parents!ServersAnswered(ok)[i].slice \notin TheLists
      BY DEF Parents!ServersAnswered, Parents!serversListUpdateFunc, Parents!Action, TheLists
    <3>3. QED
      BY <3>1, <3>2
  <2>2. ASSUME NEW s \in Servers, Parents!Select(s)
        PROVE  \E acts : /\ store' = Dispatched(acts)
                         /\ \A i \in DOMAIN acts : acts[i].slice \notin TheLists
    <3>1. store' = Dispatched(Parents!SelectDerives(s))
      BY <2>2, SameDispatched DEF Parents!Select, Parents!Dispatch
    <3>2. \A i \in DOMAIN Parents!SelectDerives(s) :
            Parents!SelectDerives(s)[i].slice \notin TheLists
      <4> DEFINE first == Parents!serverSelectedFunc(s)
                 second == Parents!serverInfoUpdateFunc(store.globalTornjakServerInfo)
      <4>1. first.slice \notin TheLists /\ second.slice \notin TheLists
        BY DEF Parents!serverSelectedFunc, Parents!serverInfoUpdateFunc, Parents!Action, TheLists
      <4>2. Parents!SelectDerives(s) \in {<<first>> \o <<>>, <<first>> \o <<second>>}
        BY DEF Parents!SelectDerives, Parents!populateServerInfo
      <4> HIDE DEF first, second
      <4>3. <<first>> \o <<>> \in Seq({first, second})
            /\ <<first>> \o <<second>> \in Seq({first, second})
        OBVIOUS
      <4>4. Parents!SelectDerives(s) \in Seq({first, second})
        BY <4>2, <4>3
      <4>5. QED
        BY <4>1, <4>4
    <3>3. QED
      BY <3>1, <3>2
  <2>3. QED
    BY <2>1, <2>2 DEF Parents!HeaderSteps
<1>2. TheLists \subseteq DOMAIN store
  BY DEF TheLists, OptionsInv, OptionTypes, OptionSlices
<1>3. \A slice \in TheLists : store'[slice] = store[slice]
  BY <1>1, <1>2, NotDispatched
<1>4. UNCHANGED <<options, parent, selectorsList>>
  BY DEF Parents!HeaderSteps
<1>5. QED
  BY <1>3, <1>4, ListsAlone DEF OptionsInv

LEMMA OptionsInitial ==
    ASSUME Parents!Init
    PROVE  OptionsInv
<1>1. options = Parents!NoOptions /\ parent = <<>>
  BY DEF Parents!Init, Parents!NoParent
<1>2. Parents!OptionsFollowLists
  BY <1>1 DEF Parents!OptionsFollowLists
<1>3. QED
  BY <1>2, OptionTypesInitial DEF OptionsInv

\* Lists arrive, fail and are asked for again, servers and parents are chosen.
LEMMA OptionsInductive ==
    ASSUME OptionsInv, Parents!Next \/ UNCHANGED Parents!vars
    PROVE  OptionsInv'
<1>1. OptionTypes'
  BY OptionTypesInductive DEF OptionsInv
<1>2. ASSUME NEW c \in calls, NEW ok \in BOOLEAN, Parents!Return(c, ok)
      PROVE  Parents!OptionsFollowLists'
  BY <1>2, ReturnFollows
<1>3. Parents!HeaderSteps => Parents!OptionsFollowLists'
  BY HeaderKeepsLists
<1>4. ASSUME NEW p \in Parents!Parents, Parents!ParentChosen(p)
      PROVE  Parents!OptionsFollowLists'
  <2>1. parent' = p /\ selectorsList' = Parents!prepareSelectorsList(store, p)
        /\ UNCHANGED <<store, options>>
    BY <1>4 DEF Parents!ParentChosen
  <2>2. parent' \in {"agent"} \X Servers => selectorsList' \in {NoServer, parent'[2]}
    BY <2>1, SelectorsMade
  <2>3. QED
    BY <2>1, <2>2 DEF OptionsInv, Parents!OptionsFollowLists, Parents!NoOptions
<1>5. UNCHANGED Parents!vars => Parents!OptionsFollowLists'
  BY DEF Parents!vars, OptionsInv, Parents!OptionsFollowLists, Parents!NoOptions
<1>6. QED
  BY <1>1, <1>2, <1>3, <1>4, <1>5 DEF Parents!Next, OptionsInv

----------------------------------------------------------------------------
(* The details pages of the dashboard                                       *)

Entities == {"clusters", "agents", "entries"}
OfDetails == {"clustersdetails", "agentsdetails", "entriesdetails"}

\* The table clicked is one of a details page only as long as the filters are made for it.
DetailsInv ==
    /\ path /= <<>> => path[1] \in Entities
    /\ table \in OfDetails => key = Numbers!KeyOf(path, table)

LEMMA TablesOfDetails ==
    /\ DOMAIN Numbers!DetailsTables = Entities
    /\ \A entity \in Entities : Numbers!DetailsTables[entity] \in OfDetails
BY DEF Numbers!DetailsTables, Entities, OfDetails

LEMMA DetailsInitial == Numbers!Init => DetailsInv
BY DEF Numbers!Init, DetailsInv, OfDetails

\* The filters are made of the lists, and of nothing else.
LEMMA FiltersMade ==
    ASSUME UNCHANGED <<clusters, agents, entries, info>>, NEW p, NEW clicked,
           path' = p, table' = clicked, key' = Numbers!KeyOf(p, clicked)
    PROVE  key' = Numbers!KeyOf(path, table)'
BY DEF Numbers!KeyOf

LEMMA DetailsInductive ==
    ASSUME Numbers!DashboardAssumption, DetailsInv, Numbers!Next \/ UNCHANGED Numbers!vars
    PROVE  DetailsInv'
<1>1. DOMAIN Details = Entities
  BY DEF Numbers!DashboardAssumption, Entities
<1>2. ASSUME NEW p, p /= <<>> => p[1] \in Entities, NEW clicked, Numbers!Loaded(p, clicked)
      PROVE  DetailsInv'
  BY <1>2, FiltersMade DEF Numbers!Loaded, DetailsInv, Entities, OfDetails
<1>3. CASE \E p \in Numbers!Paths : Numbers!Visit(p)
  <2>1. PICK p \in Numbers!Paths : Numbers!Loaded(p, table)
    BY <1>3 DEF Numbers!Visit
  <2>2. p /= <<>> => p[1] \in Entities
    BY <1>1 DEF Numbers!Paths
  <2>3. QED
    BY <1>2, <2>1, <2>2
<1>4. CASE \E entity \in {"dashboard", "clusters", "agents", "entries"} :
            Numbers!AssignDashboardPath(entity)
  BY <1>2, <1>4 DEF Numbers!AssignDashboardPath
<1>5. CASE \E entity \in DOMAIN Details : \E id \in Details[entity] :
            Numbers!SelectedDetails(entity, id)
  BY <1>1, <1>2, <1>5 DEF Numbers!SelectedDetails
<1>6. CASE \E entity \in DOMAIN Details : Numbers!HeadingClicked(entity)
  BY <1>1, <1>6 DEF Numbers!HeadingClicked, DetailsInv, Entities, OfDetails
<1>7. CASE Numbers!ListsArrive
  BY <1>7 DEF Numbers!ListsArrive, Numbers!KeyFollows, DetailsInv, Entities, OfDetails
<1>8. CASE UNCHANGED Numbers!vars
  <2>1. UNCHANGED <<clusters, agents, entries, info, table, path, key>>
    BY <1>8 DEF Numbers!vars
  <2>2. key = Numbers!KeyOf(path, table) => key' = Numbers!KeyOf(path, table)'
    BY <2>1, FiltersMade
  <2>3. QED
    BY <2>1, <2>2 DEF DetailsInv, Entities, OfDetails
<1>9. QED
  BY <1>3, <1>4, <1>5, <1>6, <1>7, <1>8 DEF Numbers!Next

----------------------------------------------------------------------------
(* The types of the dashboard                                               *)

\* The keys that a page gives its tables are of the three lists.
LEMMA KeysMade ==
    \A p, clicked : DOMAIN Numbers!KeyOf(p, clicked) = {"agentsFilter", "clustersFilter", "entriesFilter"}
BY DEF Numbers!KeyOf, Numbers!NoKey, Numbers!Key

\* The dashboard starts anywhere in it.
LEMMA DashboardTypesInitial == Numbers!Init => Numbers!TypeOK
BY DEF Numbers!Init, Numbers!TypeOK, Numbers!Tables, Numbers!Paths, Numbers!NoKey, Numbers!Key

\* One case for each action.
LEMMA DashboardTypesInductive ==
    ASSUME Numbers!DashboardAssumption, Numbers!TypeOK, Numbers!Next \/ UNCHANGED Numbers!vars
    PROVE  Numbers!TypeOK'
<1>1. DOMAIN Details = Entities
  BY DEF Numbers!DashboardAssumption, Entities
<1>2. Numbers!Paths' = Numbers!Paths /\ Numbers!Tables' = Numbers!Tables
  BY DEF Numbers!Paths, Numbers!Tables
<1>3. ASSUME NEW p \in Numbers!Paths, NEW clicked \in Numbers!Tables, Numbers!Loaded(p, clicked)
      PROVE  Numbers!TypeOK'
  <2>1. /\ path' = p /\ table' = clicked /\ key' = Numbers!KeyOf(p, clicked)
        /\ UNCHANGED <<clusters, agents, entries, info>>
    BY <1>3 DEF Numbers!Loaded
  <2>2. QED
    BY <1>2, <2>1, KeysMade DEF Numbers!TypeOK
<1>4. CASE \E p \in Numbers!Paths : Numbers!Visit(p)
  BY <1>3, <1>4 DEF Numbers!Visit, Numbers!TypeOK
<1>5. CASE \E entity \in {"dashboard", "clusters", "agents", "entries"} :
            Numbers!AssignDashboardPath(entity)
  BY <1>3, <1>5 DEF Numbers!AssignDashboardPath, Numbers!Paths, Numbers!Tables
<1>6. CASE \E entity \in DOMAIN Details : \E id \in Details[entity] :
            Numbers!SelectedDetails(entity, id)
  <2>1. PICK entity \in DOMAIN Details : \E id \in Details[entity] : Numbers!SelectedDetails(entity, id)
    BY <1>6
  <2>2. \A id \in Details[entity] : <<entity, id>> \in Numbers!Paths
    BY DEF Numbers!Paths
  <2>3. Numbers!DetailsTables[entity] \in Numbers!Tables
    BY <1>1, TablesOfDetails DEF OfDetails, Numbers!Tables
  <2>4. QED
    BY <1>3, <2>1, <2>2, <2>3 DEF Numbers!SelectedDetails
<1>7. CASE \E entity \in DOMAIN Details : Numbers!HeadingClicked(entity)
  BY <1>1, <1>2, <1>7 DEF Numbers!HeadingClicked, Numbers!TypeOK, Entities, Numbers!Tables
<1>8. CASE Numbers!ListsArrive
  <2>1. /\ clusters' \in ListedClusters /\ agents' \in ListedAgents
        /\ entries' \in ListedEntries /\ info' \in Infos
        /\ UNCHANGED <<table, path>>
    BY <1>8 DEF Numbers!ListsArrive, Numbers!TypeOK
  <2>2. DOMAIN key' = {"agentsFilter", "clustersFilter", "entriesFilter"}
    BY <1>8 DEF Numbers!ListsArrive, Numbers!KeyFollows, Numbers!KeyOf, Numbers!NoKey, Numbers!Key
  <2>3. QED
    BY <1>2, <2>1, <2>2 DEF Numbers!TypeOK
<1>9. CASE UNCHANGED Numbers!vars
  BY <1>2, <1>9 DEF Numbers!vars, Numbers!TypeOK
<1>10. QED
  BY <1>4, <1>5, <1>6, <1>7, <1>8, <1>9 DEF Numbers!Next

----------------------------------------------------------------------------
(* Induction over data                                                      *)

\* The library states induction with an operator as a parameter. Without one: a set of
\* numbers that is not empty has a least member, for < is well-founded.
Less == OpToRel(<, Nat)

LEMMA LeastNumber ==
    ASSUME NEW T \in SUBSET Nat, T /= {}
    PROVE  \E x \in T : \A y \in T : x <= y
<1>1. Less = {ss \in Nat \X Nat : ss[1] < ss[2]}
  BY DEF Less, OpToRel
<1>2. PICK x \in T : \A y \in T : ~(<<y, x>> \in Less)
  BY NatLessThanWellFounded, WFMin, Zenon DEF Less
<1>3. ASSUME NEW y \in T PROVE x <= y
  <2>1. x \in Nat /\ y \in Nat /\ ~(<<y, x>> \in Less)
    BY <1>2
  <2>2. y < x => <<y, x>> \in Less
    BY <1>1, <2>1
  <2>3. QED
    BY <2>1, <2>2
<1>4. QED
  BY <1>3

\* The greatest of some of the first numbers, the last of them among these.
LEMMA GreatestOfPrefix ==
    ASSUME NEW n \in Nat \ {0}, NEW s \in SUBSET (1 .. n), n \in s
    PROVE  Numbers!Max(s) = n
<1>1. n \in s /\ \A y \in s : n >= y
  OBVIOUS
<1>2. \A x \in s : (\A y \in s : x >= y) => x = n
  OBVIOUS
<1>3. QED
  BY <1>1, <1>2 DEF Numbers!Max

LEMMA Prefixes ==
    ASSUME NEW N \in Nat, NEW k \in 1 .. N
    PROVE  /\ 1 .. k \in SUBSET (1 .. N) /\ 1 .. k /= {}
           /\ Numbers!Max(1 .. k) = k /\ (1 .. k) \ {k} = 1 .. (k - 1)
BY GreatestOfPrefix

\* A function of the subsets of 1 .. n that is defined by recursion as the folds are: the
\* greatest is taken last.
Iterated(n, base, step, iter) ==
    iter = [s \in SUBSET (1 .. n) |->
              IF s = {} THEN base ELSE step[Numbers!Max(s)][iter[s \ {Numbers!Max(s)}]]]

\* Induction, of the members of a set.
LEMMA SetInduction ==
    ASSUME NEW S, 0 \in S, \A n \in S : n \in Nat => n + 1 \in S
    PROVE  Nat \subseteq S
<1> SUFFICES ASSUME Nat \ S /= {} PROVE FALSE
  OBVIOUS
<1>1. PICK n \in Nat \ S : \A m \in Nat \ S : n <= m
  BY LeastNumber
<1>2. n - 1 \in Nat /\ n - 1 \in S /\ (n - 1) + 1 = n
  BY <1>1
<1>3. n \in S
  BY <1>2
<1>4. QED
  BY <1>1, <1>3

\* Induction up to N.
LEMMA RangeInduction ==
    ASSUME NEW N \in Nat, NEW S, 0 \in S, \A k \in S : k \in 0 .. (N - 1) => k + 1 \in S
    PROVE  N \in S
<1> DEFINE T == {n \in Nat : n \in 0 .. N => n \in S}
<1>1. 0 \in T /\ \A n \in T : n \in Nat => n + 1 \in T
  OBVIOUS
<1>2. N \in T
  <2> HIDE DEF T
  <2>1. QED
    BY <1>1, SetInduction
<1>3. QED
  BY <1>2

\* A set of numbers up to N that is not empty has a greatest.
LEMMA MaxOfRange ==
    ASSUME NEW N \in Nat, NEW s \in SUBSET (1 .. N), s /= {}
    PROVE  Numbers!Max(s) \in s
<1> DEFINE T == {N - x : x \in s}
<1>1. T \in SUBSET Nat /\ T /= {}
  <2>1. \A x \in s : N - x \in Nat
    OBVIOUS
  <2>2. T /= {}
    OBVIOUS
  <2>3. QED
    BY <2>1, <2>2
<1>2. PICK t \in T : \A y \in T : t <= y
  BY <1>1, LeastNumber
<1>3. PICK x \in s : t = N - x
  BY <1>2
<1>4. ASSUME NEW y \in s PROVE x >= y
  <2>1. N - y \in T
    OBVIOUS
  <2>2. N - x <= N - y
    BY <1>2, <1>3, <2>1
  <2>3. QED
    BY <2>2
<1>5. QED
  BY <1>4 DEF Numbers!Max

\* What the folds choose exists: by induction on N.
LEMMA Iterates ==
    ASSUME NEW N \in Nat, NEW D, NEW base \in D, NEW step \in [1 .. N -> [D -> D]]
    PROVE  \E iter \in [SUBSET (1 .. N) -> D] : Iterated(N, base, step, iter)
<1> DEFINE Holds(n) == \E iter \in [SUBSET (1 .. n) -> D] : Iterated(n, base, step, iter)
           S == {n \in Nat : n \in 0 .. N => Holds(n)}
<1>1. Holds(0)
  <2> DEFINE it == [s \in SUBSET (1 .. 0) |-> base]
  <2>1. \A s \in SUBSET (1 .. 0) : s = {}
    OBVIOUS
  <2>2. it \in [SUBSET (1 .. 0) -> D] /\ Iterated(0, base, step, it)
    BY <2>1 DEF Iterated
  <2>3. QED
    BY <2>2
<1>2. ASSUME NEW m \in Nat, m + 1 \in 0 .. N, Holds(m)
      PROVE  Holds(m + 1)
  <2> DEFINE n == m + 1
  <2>1. n \in 1 .. N /\ n - 1 = m
    BY <1>2
  <2>2. PICK prev \in [SUBSET (1 .. m) -> D] : Iterated(m, base, step, prev)
    BY <1>2
  <2> DEFINE it == [s \in SUBSET (1 .. n) |->
                      IF n \in s THEN step[n][prev[s \ {n}]] ELSE prev[s]]
  <2>3. \A s \in SUBSET (1 .. n) : /\ s \ {n} \in SUBSET (1 .. m)
                                   /\ n \notin s => s \in SUBSET (1 .. m)
    BY <2>1
  <2> HIDE DEF n
  <2>4. it \in [SUBSET (1 .. n) -> D]
    BY <2>1, <2>3
  <2>5. ASSUME NEW s \in SUBSET (1 .. n)
        PROVE  it[s] = IF s = {} THEN base ELSE step[Numbers!Max(s)][it[s \ {Numbers!Max(s)}]]
    <3>1. CASE n \in s
      <4>1. Numbers!Max(s) = n
        BY <3>1, <2>1, GreatestOfPrefix
      <4>2. it[s \ {n}] = prev[s \ {n}]
        BY <2>3
      <4>3. QED
        BY <3>1, <4>1, <4>2
    <3>2. CASE n \notin s
      <4>1. s \in SUBSET (1 .. m) /\ s \ {Numbers!Max(s)} \in SUBSET (1 .. m)
        BY <2>3, <3>2
      <4>2. it[s \ {Numbers!Max(s)}] = prev[s \ {Numbers!Max(s)}]
        BY <4>1, <2>1, <2>3, <3>2
      <4>3. prev[s] = IF s = {} THEN base
                      ELSE step[Numbers!Max(s)][prev[s \ {Numbers!Max(s)}]]
        BY <2>2, <4>1 DEF Iterated
      <4>4. QED
        BY <3>2, <4>2, <4>3
    <3>3. QED
      BY <3>1, <3>2
  <2>6. Iterated(n, base, step, it)
    BY <2>5, Zenon DEF Iterated
  <2>7. QED
    BY <2>4, <2>6 DEF n
<1> HIDE DEF Holds
<1>3. 0 \in S /\ \A n \in S : n \in Nat => n + 1 \in S
  BY <1>1, <1>2
<1>4. N \in S
  <2> HIDE DEF S
  <2>1. QED
    BY <1>3, SetInduction
<1>5. Holds(N)
  BY <1>4
<1>6. QED
  BY <1>5 DEF Holds

----------------------------------------------------------------------------
(* The folds of the dashboard, step by step                                 *)

\* A filter looks at one member after the other.
LEMMA KeptSteps ==
    ASSUME NEW X, NEW list \in Seq(X), NEW S
    PROVE  \E f : /\ f[0] = <<>>
                  /\ Numbers!Kept(list, S) = f[Len(list)]
                  /\ \A k \in 1 .. Len(list) :
                       f[k] = IF list[k] \in S THEN Append(f[k - 1], list[k]) ELSE f[k - 1]
<1> DEFINE N == Len(list)
           D == Seq(X)
           Step(done, k) == IF list[k] \in S THEN Append(done, list[k]) ELSE done
           step == [k \in 1 .. N |-> [done \in D |-> Step(done, k)]]
           Is(it) == it = [s \in SUBSET (DOMAIN list) |->
                             IF s = {} THEN <<>>
                             ELSE LET x == Numbers!Max(s) IN Step(it[s \ {x}], x)]
           made == CHOOSE it : Is(it)
<1>1. N \in Nat /\ DOMAIN list = 1 .. N
  OBVIOUS
<1>2. <<>> \in D /\ step \in [1 .. N -> [D -> D]]
  OBVIOUS
<1>3. \E it : Is(it)
  <2> HIDE DEF N, D, step, Step
  <2>1. PICK it \in [SUBSET (1 .. N) -> D] : Iterated(N, <<>>, step, it)
    BY <1>1, <1>2, Iterates
  <2>2. ASSUME NEW s \in SUBSET (1 .. N), s /= {}
        PROVE  step[Numbers!Max(s)][it[s \ {Numbers!Max(s)}]]
                 = Step(it[s \ {Numbers!Max(s)}], Numbers!Max(s))
    BY <1>1, <2>2, MaxOfRange DEF step
  <2>3. \A s \in SUBSET (1 .. N) :
          it[s] = IF s = {} THEN <<>> ELSE Step(it[s \ {Numbers!Max(s)}], Numbers!Max(s))
    BY <2>1, <2>2 DEF Iterated
  <2>4. DOMAIN it = SUBSET (DOMAIN list) /\ it = [s \in DOMAIN it |-> it[s]]
    BY <2>1, <1>1
  <2>5. Is(it)
    BY <2>3, <2>4, <1>1, Zenon
  <2>6. QED
    BY <2>5
<1>4. Numbers!Kept(list, S) = made[DOMAIN list]
  BY Zenon DEF Numbers!Kept, Numbers!FoldLeft, Numbers!MapThenFoldSet
<1>5. Is(made)
  BY <1>3, Zenon
<1> DEFINE f == [k \in 0 .. N |-> made[1 .. k]]
<1>6. f[0] = <<>> /\ f[N] = made[DOMAIN list]
  <2> HIDE DEF made
  <2>1. 1 .. 0 = {}
    OBVIOUS
  <2>2. QED
    BY <2>1, <1>1, <1>5
<1>7. ASSUME NEW k \in 1 .. N
      PROVE  f[k] = Step(f[k - 1], k)
  <2> HIDE DEF made
  <2>1. Numbers!Max(1 .. k) = k /\ (1 .. k) \ {k} = 1 .. (k - 1)
    BY <1>1, Prefixes, Zenon
  <2>2. 1 .. k \in SUBSET (DOMAIN list) /\ 1 .. k /= {}
    BY <1>1, Prefixes, Zenon
  <2>3. made[1 .. k] = Step(made[(1 .. k) \ {Numbers!Max(1 .. k)}], Numbers!Max(1 .. k))
    BY <2>2, <1>5, Zenon
  <2>4. k \in 0 .. N /\ k - 1 \in 0 .. N
    BY <1>1
  <2>5. QED
    BY <2>1, <2>3, <2>4
<1>8. QED
  <2> HIDE DEF f, made
  <2>1. QED
    BY <1>4, <1>6, <1>7

\* What a fold of a list makes stays in D.
Lists(list) == Len(list) \in Nat /\ DOMAIN list = 1 .. Len(list)
ShownIn(D, list, dict, e) ==
    /\ Lists(list) /\ dict \in D
    /\ \A d \in D : \A k \in DOMAIN list : Numbers!Taken(d, e, list[k]) \in D
FilledIn(D, list, nodes, dict) ==
    /\ Lists(nodes) /\ dict \in D
    /\ \A d \in D : \A k \in DOMAIN nodes : Numbers!Shown(d, nodes[k], list) \in D
Counts(list, all) ==
    Lists(list) /\ \A k \in DOMAIN list : Numbers!numberEntriesOfAgent(list[k], all) \in Nat

\* An entry is shown to one agent after the other.
LEMMA ShownSteps ==
    ASSUME NEW D, NEW list, NEW dict, NEW e, ShownIn(D, list, dict, e)
    PROVE  \E f : /\ f[0] = dict
                  /\ Numbers!Shown(dict, e, list) = f[Len(list)]
                  /\ \A k \in 1 .. Len(list) : f[k] = Numbers!Taken(f[k - 1], e, list[k])
<1> DEFINE N == Len(list)
           Step(done, k) == Numbers!Taken(done, e, list[k])
           step == [k \in 1 .. N |-> [done \in D |-> Step(done, k)]]
           Is(it) == it = [s \in SUBSET (DOMAIN list) |->
                             IF s = {} THEN dict
                             ELSE LET x == Numbers!Max(s) IN Step(it[s \ {x}], x)]
           made == CHOOSE it : Is(it)
<1>1. N \in Nat /\ DOMAIN list = 1 .. N
  BY DEF ShownIn, Lists
<1>2. dict \in D /\ step \in [1 .. N -> [D -> D]]
  BY DEF ShownIn, Lists
<1>3. \E it : Is(it)
  <2> HIDE DEF N, step, Step
  <2>1. PICK it \in [SUBSET (1 .. N) -> D] : Iterated(N, dict, step, it)
    BY <1>1, <1>2, Iterates
  <2>2. ASSUME NEW s \in SUBSET (1 .. N), s /= {}
        PROVE  step[Numbers!Max(s)][it[s \ {Numbers!Max(s)}]]
                 = Step(it[s \ {Numbers!Max(s)}], Numbers!Max(s))
    BY <1>1, <2>2, MaxOfRange DEF step
  <2>3. \A s \in SUBSET (1 .. N) :
          it[s] = IF s = {} THEN dict ELSE Step(it[s \ {Numbers!Max(s)}], Numbers!Max(s))
    BY <2>1, <2>2 DEF Iterated
  <2>4. DOMAIN it = SUBSET (DOMAIN list) /\ it = [s \in DOMAIN it |-> it[s]]
    BY <2>1, <1>1
  <2>5. Is(it)
    BY <2>3, <2>4, <1>1, Zenon
  <2>6. QED
    BY <2>5
<1>4. Numbers!Shown(dict, e, list) = made[DOMAIN list]
  BY Zenon DEF Numbers!Shown, Numbers!FoldLeft, Numbers!MapThenFoldSet
<1>5. Is(made)
  BY <1>3, Zenon
<1> DEFINE f == [k \in 0 .. N |-> made[1 .. k]]
<1>6. f[0] = dict /\ f[N] = made[DOMAIN list]
  <2> HIDE DEF made
  <2>1. 1 .. 0 = {}
    OBVIOUS
  <2>2. QED
    BY <2>1, <1>1, <1>5
<1>7. ASSUME NEW k \in 1 .. N
      PROVE  f[k] = Step(f[k - 1], k)
  <2> HIDE DEF made
  <2>1. Numbers!Max(1 .. k) = k /\ (1 .. k) \ {k} = 1 .. (k - 1)
    BY <1>1, Prefixes, Zenon
  <2>2. 1 .. k \in SUBSET (DOMAIN list) /\ 1 .. k /= {}
    BY <1>1, Prefixes, Zenon
  <2>3. made[1 .. k] = Step(made[(1 .. k) \ {Numbers!Max(1 .. k)}], Numbers!Max(1 .. k))
    BY <2>2, <1>5, Zenon
  <2>4. k \in 0 .. N /\ k - 1 \in 0 .. N
    BY <1>1
  <2>5. QED
    BY <2>1, <2>3, <2>4
<1>8. QED
  <2> HIDE DEF f, made
  <2>1. QED
    BY <1>4, <1>6, <1>7

\* The dictionary is filled with one entry of a node after the other.
LEMMA DictSteps ==
    ASSUME NEW D, NEW list, NEW all,
           FilledIn(D, list, Numbers!NodeEntries(all), Numbers!InitialDict(list))
    PROVE  \E f : /\ f[0] = Numbers!InitialDict(list)
                  /\ Numbers!getAgentsEntries(list, all) = f[Len(Numbers!NodeEntries(all))]
                  /\ \A k \in 1 .. Len(Numbers!NodeEntries(all)) :
                       f[k] = Numbers!Shown(f[k - 1], Numbers!NodeEntries(all)[k], list)
<1> DEFINE N == Len(Numbers!NodeEntries(all))
           Step(done, k) == Numbers!Shown(done, Numbers!NodeEntries(all)[k], list)
           step == [k \in 1 .. N |-> [done \in D |-> Step(done, k)]]
           Is(it) == it = [s \in SUBSET (DOMAIN Numbers!NodeEntries(all)) |->
                             IF s = {} THEN Numbers!InitialDict(list)
                             ELSE LET x == Numbers!Max(s) IN Step(it[s \ {x}], x)]
           made == CHOOSE it : Is(it)
<1>1. N \in Nat /\ DOMAIN Numbers!NodeEntries(all) = 1 .. N
  BY DEF FilledIn, Lists
<1>2. Numbers!InitialDict(list) \in D /\ step \in [1 .. N -> [D -> D]]
  BY DEF FilledIn, Lists
<1>3. \E it : Is(it)
  <2> HIDE DEF N, step, Step
  <2>1. PICK it \in [SUBSET (1 .. N) -> D] : Iterated(N, Numbers!InitialDict(list), step, it)
    BY <1>1, <1>2, Iterates
  <2>2. ASSUME NEW s \in SUBSET (1 .. N), s /= {}
        PROVE  step[Numbers!Max(s)][it[s \ {Numbers!Max(s)}]]
                 = Step(it[s \ {Numbers!Max(s)}], Numbers!Max(s))
    BY <1>1, <2>2, MaxOfRange DEF step
  <2>3. \A s \in SUBSET (1 .. N) :
          it[s] = IF s = {} THEN Numbers!InitialDict(list)
                  ELSE Step(it[s \ {Numbers!Max(s)}], Numbers!Max(s))
    BY <2>1, <2>2 DEF Iterated
  <2>4. DOMAIN it = SUBSET (DOMAIN Numbers!NodeEntries(all)) /\ it = [s \in DOMAIN it |-> it[s]]
    BY <2>1, <1>1
  <2>5. Is(it)
    BY <2>3, <2>4, <1>1, Zenon
  <2>6. QED
    BY <2>5
<1>4. Numbers!getAgentsEntries(list, all) = made[DOMAIN Numbers!NodeEntries(all)]
  BY Zenon DEF Numbers!getAgentsEntries, Numbers!FoldLeft, Numbers!MapThenFoldSet
<1>5. Is(made)
  BY <1>3, Zenon
<1> DEFINE f == [k \in 0 .. N |-> made[1 .. k]]
<1>6. f[0] = Numbers!InitialDict(list) /\ f[N] = made[DOMAIN Numbers!NodeEntries(all)]
  <2> HIDE DEF made
  <2>1. 1 .. 0 = {}
    OBVIOUS
  <2>2. QED
    BY <2>1, <1>1, <1>5
<1>7. ASSUME NEW k \in 1 .. N
      PROVE  f[k] = Step(f[k - 1], k)
  <2> HIDE DEF made
  <2>1. Numbers!Max(1 .. k) = k /\ (1 .. k) \ {k} = 1 .. (k - 1)
    BY <1>1, Prefixes, Zenon
  <2>2. 1 .. k \in SUBSET (DOMAIN Numbers!NodeEntries(all)) /\ 1 .. k /= {}
    BY <1>1, Prefixes, Zenon
  <2>3. made[1 .. k] = Step(made[(1 .. k) \ {Numbers!Max(1 .. k)}], Numbers!Max(1 .. k))
    BY <2>2, <1>5, Zenon
  <2>4. k \in 0 .. N /\ k - 1 \in 0 .. N
    BY <1>1
  <2>5. QED
    BY <2>1, <2>3, <2>4
<1>8. QED
  <2> HIDE DEF f, made
  <2>1. QED
    BY <1>4, <1>6, <1>7

\* The number of a cluster is summed over one agent after the other.
LEMMA SumSteps ==
    ASSUME NEW c, NEW list, NEW all, Counts(Numbers!AgentsOf(c, list), all)
    PROVE  \E f : /\ f[0] = 0
                  /\ Numbers!numberEntriesOfCluster(c, all, list) = f[Len(Numbers!AgentsOf(c, list))]
                  /\ \A k \in 1 .. Len(Numbers!AgentsOf(c, list)) :
                       f[k] = f[k - 1]
                                + Numbers!numberEntriesOfAgent(Numbers!AgentsOf(c, list)[k], all)
<1> DEFINE N == Len(Numbers!AgentsOf(c, list))
           D == Nat
           Step(done, k) == done + Numbers!numberEntriesOfAgent(Numbers!AgentsOf(c, list)[k], all)
           step == [k \in 1 .. N |-> [done \in D |-> Step(done, k)]]
           Is(it) == it = [s \in SUBSET (DOMAIN Numbers!AgentsOf(c, list)) |->
                             IF s = {} THEN 0
                             ELSE LET x == Numbers!Max(s) IN Step(it[s \ {x}], x)]
           made == CHOOSE it : Is(it)
<1>1. N \in Nat /\ DOMAIN Numbers!AgentsOf(c, list) = 1 .. N
  BY DEF Counts, Lists
<1>2. 0 \in D /\ step \in [1 .. N -> [D -> D]]
  BY DEF Counts, Lists
<1>3. \E it : Is(it)
  <2> HIDE DEF N, D, step, Step
  <2>1. PICK it \in [SUBSET (1 .. N) -> D] : Iterated(N, 0, step, it)
    BY <1>1, <1>2, Iterates
  <2>2. ASSUME NEW s \in SUBSET (1 .. N), s /= {}
        PROVE  step[Numbers!Max(s)][it[s \ {Numbers!Max(s)}]]
                 = Step(it[s \ {Numbers!Max(s)}], Numbers!Max(s))
    BY <1>1, <2>2, MaxOfRange DEF step
  <2>3. \A s \in SUBSET (1 .. N) :
          it[s] = IF s = {} THEN 0 ELSE Step(it[s \ {Numbers!Max(s)}], Numbers!Max(s))
    BY <2>1, <2>2 DEF Iterated
  <2>4. DOMAIN it = SUBSET (DOMAIN Numbers!AgentsOf(c, list)) /\ it = [s \in DOMAIN it |-> it[s]]
    BY <2>1, <1>1
  <2>5. Is(it)
    BY <2>3, <2>4, <1>1, Zenon
  <2>6. QED
    BY <2>5
<1>4. Numbers!numberEntriesOfCluster(c, all, list) = made[DOMAIN Numbers!AgentsOf(c, list)]
  BY Zenon DEF Numbers!numberEntriesOfCluster, Numbers!FoldLeft, Numbers!MapThenFoldSet
<1>5. Is(made)
  BY <1>3, Zenon
<1> DEFINE f == [k \in 0 .. N |-> made[1 .. k]]
<1>6. f[0] = 0 /\ f[N] = made[DOMAIN Numbers!AgentsOf(c, list)]
  <2> HIDE DEF made
  <2>1. 1 .. 0 = {}
    OBVIOUS
  <2>2. QED
    BY <2>1, <1>1, <1>5
<1>7. ASSUME NEW k \in 1 .. N
      PROVE  f[k] = Step(f[k - 1], k)
  <2> HIDE DEF made
  <2>1. Numbers!Max(1 .. k) = k /\ (1 .. k) \ {k} = 1 .. (k - 1)
    BY <1>1, Prefixes, Zenon
  <2>2. 1 .. k \in SUBSET (DOMAIN Numbers!AgentsOf(c, list)) /\ 1 .. k /= {}
    BY <1>1, Prefixes, Zenon
  <2>3. made[1 .. k] = Step(made[(1 .. k) \ {Numbers!Max(1 .. k)}], Numbers!Max(1 .. k))
    BY <2>2, <1>5, Zenon
  <2>4. k \in 0 .. N /\ k - 1 \in 0 .. N
    BY <1>1
  <2>5. QED
    BY <2>1, <2>3, <2>4
<1>8. QED
  <2> HIDE DEF f, made
  <2>1. QED
    BY <1>4, <1>6, <1>7

\* The lists that the folds make.
LEMMA MembersAppended ==
    ASSUME NEW X, NEW s \in Seq(X), NEW e \in X
    PROVE  /\ Append(s, e) \in Seq(X) /\ Len(Append(s, e)) = Len(s) + 1
           /\ Numbers!Members(Append(s, e)) = Numbers!Members(s) \cup {e}
<1>1. /\ Append(s, e) \in Seq(X) /\ Len(Append(s, e)) = Len(s) + 1
      /\ \A i \in DOMAIN s : i \in DOMAIN Append(s, e) /\ Append(s, e)[i] = s[i]
      /\ Len(s) + 1 \in DOMAIN Append(s, e) /\ Append(s, e)[Len(s) + 1] = e
      /\ \A i \in DOMAIN Append(s, e) : i \in DOMAIN s \/ i = Len(s) + 1
  OBVIOUS
<1>2. QED
  BY <1>1, Zenon DEF Numbers!Members

\* a list without repetitions
OneEach(list) == \A i, j \in DOMAIN list : list[i] = list[j] => i = j

LEMMA AppendedOnce ==
    ASSUME NEW X, NEW s \in Seq(X), NEW e \in X, OneEach(s), e \notin Numbers!Members(s)
    PROVE  OneEach(Append(s, e))
BY DEF OneEach, Numbers!Members

\* A list without repetitions is as long as it has members.
LEMMA MembersCounted ==
    ASSUME NEW X, NEW s \in Seq(X), OneEach(s)
    PROVE  IsFiniteSet(Numbers!Members(s)) /\ Cardinality(Numbers!Members(s)) = Len(s)
<1> DEFINE n == Len(s)
<1>1. n \in Nat /\ DOMAIN s = 1 .. n /\ s = [i \in 1 .. n |-> s[i]]
  OBVIOUS
<1> HIDE DEF n
<1>2. s \in Bijection(1 .. n, Numbers!Members(s))
  BY <1>1 DEF Bijection, Injection, Surjection, IsInjective, OneEach, Numbers!Members
<1>3. ExistsBijection(1 .. n, Numbers!Members(s))
  BY <1>2 DEF ExistsBijection
<1>4. QED
  BY <1>1, <1>3, FS_CountingElements, FS_NatBijection DEF n

\* What a filter keeps.
LEMMA KeptFacts ==
    ASSUME NEW X, NEW list \in Seq(X), NEW S
    PROVE  /\ Numbers!Kept(list, S) \in Seq(X)
           /\ OneEach(list) => OneEach(Numbers!Kept(list, S))
           /\ Numbers!Members(Numbers!Kept(list, S)) = Numbers!Members(list) \cap S
<1> DEFINE N == Len(list)
<1>1. PICK f : /\ f[0] = <<>>
               /\ Numbers!Kept(list, S) = f[N]
               /\ \A k \in 1 .. N :
                    f[k] = IF list[k] \in S THEN Append(f[k - 1], list[k]) ELSE f[k - 1]
  BY KeptSteps
<1> DEFINE Upto(k) == {list[i] : i \in 1 .. k}
           Good(k) == /\ f[k] \in Seq(X)
                      /\ OneEach(list) => OneEach(f[k])
                      /\ Numbers!Members(f[k]) = Upto(k) \cap S
           T == {k \in 0 .. N : Good(k)}
<1>2. N \in Nat /\ DOMAIN list = 1 .. N /\ \A i \in 1 .. N : list[i] \in X
  OBVIOUS
<1>3. 0 \in T
  <2>1. <<>> \in Seq(X) /\ Numbers!Members(<<>>) = {} /\ Upto(0) = {}
    BY DEF Numbers!Members
  <2>2. Good(0)
    BY <1>1, <2>1 DEF OneEach
  <2>3. QED
    BY <1>2, <2>2
<1>4. ASSUME NEW k \in T, k \in 0 .. (N - 1)
      PROVE  k + 1 \in T
  <2> HIDE DEF N
  <2>1. k \in Nat /\ k + 1 \in 1 .. N /\ (k + 1) - 1 = k /\ 1 .. (k + 1) = (1 .. k) \cup {k + 1}
    BY <1>2, <1>4
  <2>2. Good(k)
    BY <2>1
  <2>3. f[k + 1] = IF list[k + 1] \in S THEN Append(f[k], list[k + 1]) ELSE f[k]
    BY <1>1, <2>1
  <2>4. Upto(k + 1) = Upto(k) \cup {list[k + 1]}
    BY <2>1
  <2>5. list[k + 1] \in X /\ (OneEach(list) => list[k + 1] \notin Upto(k))
    BY <1>2, <2>1 DEF OneEach
  <2> HIDE DEF Upto
  <2>6. Good(k + 1)
    <3>1. CASE list[k + 1] \in S
      BY <3>1, <2>2, <2>3, <2>4, <2>5, MembersAppended, AppendedOnce
    <3>2. CASE list[k + 1] \notin S
      BY <3>2, <2>2, <2>3, <2>4
    <3>3. QED
      BY <3>1, <3>2
  <2>7. QED
    BY <2>1, <2>6
<1>5. N \in T
  <2> HIDE DEF T
  <2>1. QED
    BY <1>2, <1>3, <1>4, RangeInduction
<1>6. Upto(N) = Numbers!Members(list)
  BY <1>2 DEF Numbers!Members
<1>7. QED
  BY <1>1, <1>2, <1>5, <1>6

\* The ids that the dictionary has, and the entries that it has for them.
IdsOf(list) == {a.id : a \in Numbers!Members(list)}
Takes(list, id, e) ==
    \E a \in Numbers!Members(list) : a.id = id /\ Numbers!isSuperset(a.selectors, e.selectors)

\* What the dictionary has once an entry has been shown to all agents.
LEMMA ShownFacts ==
    ASSUME NEW list, list \in Seq(Numbers!Members(list)), NEW E,
           NEW dict \in [IdsOf(list) -> Seq(E)], NEW e \in E
    PROVE  /\ Numbers!Shown(dict, e, list) \in [IdsOf(list) -> Seq(E)]
           /\ \A id \in IdsOf(list) :
                Numbers!Members(Numbers!Shown(dict, e, list)[id])
                  = IF Takes(list, id, e) THEN Numbers!Members(dict[id]) \cup {e}
                    ELSE Numbers!Members(dict[id])
<1> DEFINE N == Len(list)
           A == Numbers!Members(list)
           I == IdsOf(list)
           Sup(a) == Numbers!isSuperset(a.selectors, e.selectors)
<1>0. ShownIn([I -> Seq(E)], list, dict, e)
  <2>1. list \in Seq(A) /\ \A a \in A : a.id \in I
    BY DEF IdsOf
  <2> HIDE DEF A, I
  <2>2. QED
    BY <2>1 DEF Numbers!Taken, ShownIn, Lists, I
<1>1. PICK f : /\ f[0] = dict
               /\ Numbers!Shown(dict, e, list) = f[N]
               /\ \A k \in 1 .. N : f[k] = Numbers!Taken(f[k - 1], e, list[k])
  BY <1>0, ShownSteps
<1> HIDE DEF Sup
<1> DEFINE Given(k, id) == {x \in {e} : \E i \in 1 .. k : list[i].id = id /\ Sup(list[i])}
           Good(k) == /\ f[k] \in [IdsOf(list) -> Seq(E)]
                      /\ \A id \in I : Numbers!Members(f[k][id])
                                         = Numbers!Members(dict[id]) \cup Given(k, id)
           T == {k \in 0 .. N : Good(k)}
<1>2. N \in Nat /\ DOMAIN list = 1 .. N /\ \A i \in 1 .. N : list[i] \in A /\ list[i].id \in I
  BY DEF IdsOf, Numbers!Members
<1>3. 0 \in T
  BY <1>1
<1>4. ASSUME NEW k \in T, k \in 0 .. (N - 1)
      PROVE  k + 1 \in T
  <2> HIDE DEF N
  <2>1. k \in Nat /\ k + 1 \in 1 .. N /\ (k + 1) - 1 = k /\ 1 .. (k + 1) = (1 .. k) \cup {k + 1}
    BY <1>2, <1>4
  <2>2. Good(k)
    BY <2>1
  <2> DEFINE a == list[k + 1]
  <2>3. f[k + 1] = IF Sup(a) THEN [f[k] EXCEPT ![a.id] = Append(@, e)] ELSE f[k]
    BY <1>1, <2>1 DEF Numbers!Taken, Sup
  <2>4. ASSUME NEW id \in I
        PROVE  Given(k + 1, id) = IF a.id = id /\ Sup(a) THEN {e} ELSE Given(k, id)
    BY <2>1, Zenon
  <2>5. a.id \in I
    BY <1>2, <2>1
  <2> HIDE DEF Given, a
  <2>6. Good(k + 1)
    <3>1. CASE Sup(a)
      <4>1. f[k][a.id] \in Seq(E)
        BY <2>2, <2>5
      <4>2. /\ Append(f[k][a.id], e) \in Seq(E)
            /\ Numbers!Members(Append(f[k][a.id], e)) = Numbers!Members(f[k][a.id]) \cup {e}
        BY <4>1, MembersAppended
      <4>3. f[k + 1] = [f[k] EXCEPT ![a.id] = Append(f[k][a.id], e)]
        BY <2>3, <3>1
      <4>4. Given(k, a.id) \subseteq {e}
        BY DEF Given
      <4>5. f[k + 1] \in [I -> Seq(E)]
        BY <4>2, <4>3, <2>2, <2>5
      <4>6. ASSUME NEW id \in I
            PROVE  Numbers!Members(f[k + 1][id]) = Numbers!Members(dict[id]) \cup Given(k + 1, id)
        <5>1. CASE id = a.id
          <6>1. f[k + 1][id] = Append(f[k][id], e)
            BY <4>3, <2>2, <5>1, <2>5
          <6>2. Given(k + 1, id) = {e}
            BY <2>4, <3>1, <5>1
          <6>3. QED
            BY <6>1, <6>2, <4>2, <4>4, <2>2, <5>1
        <5>2. CASE id /= a.id
          <6>1. f[k + 1][id] = f[k][id]
            BY <4>3, <2>2, <5>2
          <6>2. QED
            BY <6>1, <2>4, <2>2, <5>2
        <5>3. QED
          BY <5>1, <5>2
      <4>7. QED
        BY <4>5, <4>6
    <3>2. CASE ~Sup(a)
      BY <3>2, <2>2, <2>3, <2>4
    <3>3. QED
      BY <3>1, <3>2
  <2>7. QED
    BY <2>1, <2>6
<1>5. N \in T
  <2> HIDE DEF T
  <2>1. QED
    BY <1>2, <1>3, <1>4, RangeInduction
<1>6. Good(N)
  BY <1>5, Zenon
<1>7. ASSUME NEW id \in I
      PROVE  Given(N, id) = IF Takes(list, id, e) THEN {e} ELSE {}
  <2>1. Takes(list, id, e) <=> \E i \in 1 .. N : list[i].id = id /\ Sup(list[i])
    BY <1>2, Zenon DEF Numbers!Members, Sup, Takes
  <2>2. QED
    BY <2>1
<1> HIDE DEF Given
<1>8. QED
  BY <1>1, <1>6, <1>7

\* A sequence of its members.
LEMMA ListOfMembers ==
    ASSUME NEW list, list \in Seq(Numbers!Members(list))
    PROVE  /\ Lists(list)
           /\ \A k \in DOMAIN list : list[k] \in Numbers!Members(list)
BY DEF Lists, Numbers!Members

\* The dictionary gives every agent the nodes' entries that are associated with it.
LEMMA DictFacts ==
    ASSUME NEW list, list \in Seq(Numbers!Members(list)),
           NEW all, all \in Seq(Numbers!Members(all)), NEW id \in IdsOf(list)
    PROVE  Numbers!Members(Numbers!getAgentsEntries(list, all)[id])
             = {e \in Numbers!Members(Numbers!NodeEntries(all)) : Takes(list, id, e)}
<1> DEFINE I == IdsOf(list)
           E == Numbers!Members(all)
           nodes == Numbers!NodeEntries(all)
           D == [I -> Seq(E)]
           N == Len(nodes)
           first == Numbers!InitialDict(list)
           Has(e) == Takes(list, id, e)
<1>1. nodes \in Seq(E) /\ Lists(nodes) /\ \A k \in DOMAIN nodes : nodes[k] \in E
  <2>1. nodes \in Seq(E)
    BY KeptFacts DEF Numbers!NodeEntries
  <2> HIDE DEF nodes, E
  <2>2. QED
    BY <2>1 DEF Lists
<1> HIDE DEF nodes
<1>2. first \in D /\ first[id] = <<>>
  BY DEF Numbers!InitialDict, IdsOf
<1>3. ASSUME NEW d \in D, NEW k \in DOMAIN nodes
      PROVE  /\ Numbers!Shown(d, nodes[k], list) \in D
             /\ Numbers!Members(Numbers!Shown(d, nodes[k], list)[id])
                  = IF Has(nodes[k]) THEN Numbers!Members(d[id]) \cup {nodes[k]}
                    ELSE Numbers!Members(d[id])
  BY <1>1, ShownFacts
<1>4. FilledIn(D, list, nodes, first)
  BY <1>1, <1>2, <1>3 DEF FilledIn
<1>5. PICK f : /\ f[0] = first
               /\ Numbers!getAgentsEntries(list, all) = f[N]
               /\ \A k \in 1 .. N : f[k] = Numbers!Shown(f[k - 1], nodes[k], list)
  <2> HIDE DEF D
  <2>1. QED
    BY <1>4, DictSteps DEF nodes
<1> DEFINE Upto(k) == {nodes[i] : i \in 1 .. k}
           Good(k) == f[k] \in D /\ Numbers!Members(f[k][id]) = {e \in Upto(k) : Has(e)}
           T == {k \in 0 .. N : Good(k)}
<1>6. N \in Nat /\ DOMAIN nodes = 1 .. N
  BY <1>1 DEF Lists
<1> HIDE DEF D, Has, first, N, E, I
<1>7. 0 \in T
  <2>1. Numbers!Members(<<>>) = {} /\ Upto(0) = {}
    BY DEF Numbers!Members
  <2>2. Good(0)
    BY <1>2, <1>5, <2>1
  <2>3. QED
    BY <1>6, <2>2
<1>8. ASSUME NEW k \in T, k \in 0 .. (N - 1)
      PROVE  k + 1 \in T
  <2>1. k \in Nat /\ k + 1 \in 1 .. N /\ (k + 1) - 1 = k /\ 1 .. (k + 1) = (1 .. k) \cup {k + 1}
    BY <1>6, <1>8
  <2>2. Good(k)
    BY <2>1
  <2>3. f[k + 1] = Numbers!Shown(f[k], nodes[k + 1], list)
    BY <1>5, <2>1
  <2>4. Upto(k + 1) = Upto(k) \cup {nodes[k + 1]}
    BY <2>1
  <2> HIDE DEF Upto
  <2>5. Good(k + 1)
    <3>1. k + 1 \in DOMAIN nodes /\ f[k] \in D
      BY <2>1, <2>2, <1>6
    <3>2. /\ f[k + 1] \in D
          /\ Numbers!Members(f[k + 1][id])
               = IF Has(nodes[k + 1]) THEN Numbers!Members(f[k][id]) \cup {nodes[k + 1]}
                 ELSE Numbers!Members(f[k][id])
      BY <2>3, <3>1, <1>3
    <3>3. QED
      BY <2>2, <2>4, <3>2
  <2>6. QED
    BY <2>1, <2>5
<1>9. N \in T
  <2> HIDE DEF T
  <2>1. QED
    BY <1>6, <1>7, <1>8, RangeInduction
<1>10. Upto(N) = Numbers!Members(nodes)
  BY <1>6 DEF Numbers!Members
<1>11. Numbers!Members(f[N][id]) = {e \in Numbers!Members(nodes) : Has(e)}
  BY <1>9, <1>10
<1>12. QED
  BY <1>5, <1>11, Zenon DEF Has, nodes

----------------------------------------------------------------------------
(* The numbers of the dashboard                                             *)

\* no id is that of two
UniqueIds(list) == \A i, j \in DOMAIN list : list[i].id = list[j].id => i = j

LEMMA OneOfId ==
    ASSUME NEW list, UniqueIds(list)
    PROVE  /\ OneEach(list)
           /\ \A a, b \in Numbers!Members(list) : a.id = b.id => a = b
BY DEF UniqueIds, OneEach, Numbers!Members

\* The lists in the store, as the assumption has them.
ListsInv == agents \in ListedAgents /\ entries \in ListedEntries

LEMMA ListsOfStore ==
    ASSUME Numbers!DashboardAssumption, ListsInv
    PROVE  /\ agents \in Seq(Numbers!Members(agents)) /\ UniqueIds(agents)
           /\ entries \in Seq(Numbers!Members(entries)) /\ UniqueIds(entries)
           /\ \A a \in Numbers!Members(agents) : a.id /= ""
<1>1. agents \in ListedAgents \cup ListedEntries /\ entries \in ListedAgents \cup ListedEntries
  BY DEF ListsInv
<1>2. /\ agents \in Seq(Numbers!Members(agents)) /\ UniqueIds(agents)
      /\ entries \in Seq(Numbers!Members(entries)) /\ UniqueIds(entries)
  BY <1>1, Zenon DEF Numbers!DashboardAssumption, UniqueIds
<1>3. \A i \in DOMAIN agents : agents[i].id /= ""
  BY DEF Numbers!DashboardAssumption, ListsInv
<1>4. QED
  BY <1>2, <1>3 DEF Numbers!Members

\* The entries of nodes.
LEMMA NodesOf ==
    ASSUME NEW all, all \in Seq(Numbers!Members(all))
    PROVE  /\ Numbers!NodeEntries(all) \in Seq(Numbers!Members(all))
           /\ Numbers!Members(Numbers!NodeEntries(all))
                = {e \in Numbers!Members(all) : Numbers!IsNodeEntry(e)}
BY KeptFacts DEF Numbers!NodeEntries

\* The entries associated with an agent.
LEMMA EntriesOfNode ==
    ASSUME NEW all, all \in Seq(Numbers!Members(all)), NEW a
    PROVE  Numbers!Members(Numbers!getAgentEntries(a, all))
             = {e \in Numbers!Members(Numbers!NodeEntries(all)) :
                  Numbers!isSuperset(a.selectors, e.selectors)}
<1> DEFINE nodes == Numbers!NodeEntries(all)
           S == {e \in Numbers!Members(nodes) : Numbers!isSuperset(a.selectors, e.selectors)}
<1>1. nodes \in Seq(Numbers!Members(all))
  BY NodesOf
<1>2. Numbers!getAgentEntries(a, all) = Numbers!Kept(nodes, S)
  BY DEF Numbers!getAgentEntries
<1>3. S \subseteq Numbers!Members(nodes)
  OBVIOUS
<1> HIDE DEF S
<1>4. Numbers!Members(Numbers!Kept(nodes, S)) = Numbers!Members(nodes) \cap S
  BY <1>1, KeptFacts
<1>5. QED
  BY <1>2, <1>3, <1>4 DEF S

\* The entries that the number of an agent counts.
LEMMA CountedOf ==
    ASSUME NEW all, all \in Seq(Numbers!Members(all)), UniqueIds(all), NEW a
    PROVE  /\ Numbers!Members(Numbers!EntriesOfAgent(a, all))
                = {e \in Numbers!Members(all) :
                     e.parentId \in {a.id} \cup {n.spiffeid :
                                        n \in Numbers!Members(Numbers!getAgentEntries(a, all))}}
           /\ IsFiniteSet(Numbers!Members(Numbers!EntriesOfAgent(a, all)))
           /\ Numbers!numberEntriesOfAgent(a, all)
                = Cardinality(Numbers!Members(Numbers!EntriesOfAgent(a, all)))
           /\ Numbers!numberEntriesOfAgent(a, all) \in Nat
<1> DEFINE ids == {a.id} \cup {n.spiffeid : n \in Numbers!Members(Numbers!getAgentEntries(a, all))}
           S == {e \in Numbers!Members(all) : e.parentId \in ids}
           X == Numbers!Members(all)
<1> HIDE DEF ids
<1>1. Numbers!EntriesOfAgent(a, all) = Numbers!Kept(all, S)
  BY Zenon DEF Numbers!EntriesOfAgent, Numbers!ChildrenOf, ids
<1>2. S \subseteq X /\ OneEach(all) /\ all \in Seq(X) /\ X = Numbers!Members(all)
  BY OneOfId
<1> HIDE DEF S, X
<1>3. /\ Numbers!Kept(all, S) \in Seq(X) /\ OneEach(Numbers!Kept(all, S))
      /\ Numbers!Members(Numbers!Kept(all, S)) = Numbers!Members(all) \cap S
  BY <1>2, KeptFacts
<1>4. Numbers!Members(Numbers!Kept(all, S)) = S
  BY <1>2, <1>3
<1>5. /\ IsFiniteSet(S) /\ Cardinality(S) = Len(Numbers!Kept(all, S))
      /\ Len(Numbers!Kept(all, S)) \in Nat
  BY <1>3, <1>4, MembersCounted
<1>6. QED
  BY <1>1, <1>4, <1>5 DEF S, X, ids, Numbers!numberEntriesOfAgent

\* The lists are such lists at first, and whatever arrives.
LEMMA ListsKept ==
    /\ Numbers!Init => ListsInv
    /\ ListsInv /\ (Numbers!Next \/ UNCHANGED Numbers!vars) => ListsInv'
<1>1. Numbers!Init => ListsInv
  BY DEF Numbers!Init, ListsInv
<1>2. ASSUME ListsInv, Numbers!Next \/ UNCHANGED Numbers!vars
      PROVE  ListsInv'
  <2>1. CASE Numbers!ListsArrive
    BY <1>2, <2>1 DEF Numbers!ListsArrive, ListsInv
  <2>2. CASE UNCHANGED <<agents, entries>>
    BY <1>2, <2>2 DEF ListsInv
  <2>3. Numbers!Next \/ UNCHANGED Numbers!vars => Numbers!ListsArrive \/ UNCHANGED <<agents, entries>>
    BY DEF Numbers!Next, Numbers!vars, Numbers!Visit, Numbers!AssignDashboardPath,
           Numbers!SelectedDetails, Numbers!HeadingClicked, Numbers!Loaded
  <2>4. QED
    BY <1>2, <2>1, <2>2, <2>3
<1>3. QED
  BY <1>1, <1>2

\* The chart of the agents counts the entries that the table does.
LEMMA ChartAgrees ==
    ASSUME Numbers!DashboardAssumption, ListsInv, NEW a \in Numbers!Members(agents)
    PROVE  Numbers!PieValue(a, Numbers!getAgentsEntries(agents, entries), entries)
             = Numbers!numberEntriesOfAgent(a, entries)
<1>1. a.id \in IdsOf(agents)
  BY DEF IdsOf
<1>2. Numbers!Members(Numbers!getAgentsEntries(agents, entries)[a.id])
        = {e \in Numbers!Members(Numbers!NodeEntries(entries)) : Takes(agents, a.id, e)}
  BY <1>1, ListsOfStore, DictFacts
<1>3. \A e : Takes(agents, a.id, e) <=> Numbers!isSuperset(a.selectors, e.selectors)
  BY ListsOfStore, OneOfId DEF Takes
<1>4. Numbers!Members(Numbers!getAgentsEntries(agents, entries)[a.id])
        = Numbers!Members(Numbers!getAgentEntries(a, entries))
  BY <1>2, <1>3, ListsOfStore, EntriesOfNode
<1>5. QED
  BY <1>4, Zenon DEF Numbers!PieValue, Numbers!numberEntriesOfAgent, Numbers!EntriesOfAgent

\* The cardinality that the dashboard means.
LEMMA SameCardinality ==
    ASSUME NEW S
    PROVE  Numbers!Cardinality(S) = Cardinality(S)
BY Zenon DEF Numbers!Cardinality, Cardinality

\* The entries that are counted for the agents of one id.
Counted(id) == UNION {Numbers!Members(Numbers!EntriesOfAgent(a, entries)) :
                        a \in {a \in Numbers!Members(agents) : a.id = id}}

\* The first that a filter keeps passes it.
LEMMA FirstKept ==
    ASSUME NEW list, list \in Seq(Numbers!Members(list)), NEW S, Numbers!Kept(list, S) /= <<>>
    PROVE  Numbers!Kept(list, S)[1] \in Numbers!Members(list) \cap S
<1> DEFINE X == Numbers!Members(list)
           kept == Numbers!Kept(list, S)
<1> HIDE DEF X
<1>1. kept \in Seq(X) /\ Numbers!Members(kept) = X \cap S
  BY KeptFacts DEF X
<1> HIDE DEF kept
<1>2. 1 \in DOMAIN kept
  BY <1>1 DEF kept
<1>3. kept[1] \in Numbers!Members(kept)
  BY <1>2 DEF Numbers!Members
<1>4. QED
  BY <1>1, <1>3 DEF kept, X

\* The page of an agent lists no entry that the number of the agent leaves out, if what
\* getCanonicalAgentSpiffeid takes for an agent's are entries of nodes.
LEMMA ListedAreCounted ==
    ASSUME Numbers!DashboardAssumption, ListsInv, Numbers!ParentsAreNodes,
           NEW a \in Numbers!Members(agents)
    PROVE  Numbers!Members(Numbers!ListedOf(a.id))
             \subseteq Numbers!Members(Numbers!EntriesOfAgent(a, entries))
<1>0. /\ agents \in Seq(Numbers!Members(agents))
      /\ entries \in Seq(Numbers!Members(entries)) /\ UniqueIds(entries) /\ UniqueIds(agents)
  BY ListsOfStore
<1>1. SUFFICES ASSUME NEW e \in Numbers!Members(Numbers!ListedOf(a.id))
               PROVE  e \in Numbers!Members(Numbers!EntriesOfAgent(a, entries))
  OBVIOUS
<1>2. /\ e \in Numbers!Members(entries)
      /\ a.id \in {e.parentId, Numbers!CanonicalParentId(e, agents, entries)}
  <2> DEFINE S == {x \in Numbers!Members(entries) :
                     a.id \in {x.parentId, Numbers!CanonicalParentId(x, agents, entries)}}
             X == Numbers!Members(entries)
  <2>1. Numbers!ListedOf(a.id) = Numbers!Kept(entries, S)
    BY DEF Numbers!ListedOf
  <2> HIDE DEF S, X
  <2>2. Numbers!Members(Numbers!Kept(entries, S)) = X \cap S
    BY <1>0, KeptFacts DEF X
  <2>3. QED
    BY <1>1, <2>1, <2>2 DEF S
<1>3. SUFFICES ASSUME e.parentId /= a.id
               PROVE  \E n \in Numbers!Members(Numbers!getAgentEntries(a, entries)) :
                        e.parentId = n.spiffeid
  BY <1>0, <1>2, CountedOf
<1> DEFINE ofParent == {p \in Numbers!Members(entries) : p.spiffeid = e.parentId}
           parents == Numbers!Kept(entries, ofParent)
           n == parents[1]
           withAll == {x \in Numbers!Members(agents) :
                         Numbers!isSuperset(x.selectors, n.selectors)}
           associated == Numbers!Kept(agents, withAll)
<1>4. parents /= <<>> /\ a.id = Numbers!getCanonicalAgentSpiffeid(n, agents)
  BY <1>2, <1>3 DEF Numbers!CanonicalParentId
<1>5. n \in Numbers!Members(entries) /\ n.spiffeid = e.parentId
  <2> HIDE DEF ofParent
  <2>1. n \in Numbers!Members(entries) \cap ofParent
    BY <1>0, <1>4, FirstKept
  <2>2. QED
    BY <2>1 DEF ofParent
<1> HIDE DEF n, parents
<1>6. a.id = IF associated = <<>> THEN "" ELSE associated[1].id
  BY <1>4 DEF Numbers!getCanonicalAgentSpiffeid
<1>7. a.id /= ""
  BY ListsOfStore
<1>8. associated /= <<>> /\ a.id = associated[1].id
  BY <1>6, <1>7
<1>9. associated[1] \in Numbers!Members(agents) \cap withAll
  <2> HIDE DEF withAll
  <2>1. QED
    BY <1>0, <1>8, FirstKept
<1>10. associated[1] = a
  BY <1>0, <1>8, <1>9, OneOfId
<1>11. Numbers!isSuperset(a.selectors, n.selectors)
  BY <1>9, <1>10
<1>12. Numbers!IsNodeEntry(n)
  BY <1>2, <1>5, <1>11, Zenon DEF Numbers!ParentsAreNodes
<1>13. n \in Numbers!Members(Numbers!getAgentEntries(a, entries))
  BY <1>0, <1>5, <1>11, <1>12, NodesOf, EntriesOfNode
<1>14. QED
  BY <1>5, <1>13

\* The number of a cluster is that of the entries counted for its agents, as long as no
\* entry is counted for two of them.
LEMMA ClusterAgreesOf ==
    ASSUME Numbers!DashboardAssumption, ListsInv, NEW c,
           \A id1, id2 \in c.agentsList : id1 /= id2 => Counted(id1) \cap Counted(id2) = {}
    PROVE  Numbers!numberEntriesOfCluster(c, entries, agents)
             = Cardinality(UNION {Counted(id) : id \in c.agentsList})
<1> DEFINE X == Numbers!Members(agents)
           ofCluster == Numbers!AgentsOf(c, agents)
           N == Len(ofCluster)
           Of(a) == Numbers!Members(Numbers!EntriesOfAgent(a, entries))
           Number(a) == Numbers!numberEntriesOfAgent(a, entries)
<1>0. /\ agents \in Seq(Numbers!Members(agents))
      /\ entries \in Seq(Numbers!Members(entries)) /\ UniqueIds(entries) /\ UniqueIds(agents)
  BY ListsOfStore
<1>1. /\ ofCluster \in Seq(X) /\ OneEach(ofCluster)
      /\ Numbers!Members(ofCluster) = {a \in X : a.id \in c.agentsList}
  <2> DEFINE S == {a \in X : a.id \in c.agentsList}
  <2>1. ofCluster = Numbers!Kept(agents, S)
    BY DEF Numbers!AgentsOf
  <2>2. S \subseteq X /\ X = Numbers!Members(agents) /\ OneEach(agents)
    BY <1>0, OneOfId
  <2> HIDE DEF S, X, ofCluster
  <2>3. agents \in Seq(X)
    BY <1>0, <2>2
  <2>4. /\ Numbers!Kept(agents, S) \in Seq(X) /\ OneEach(Numbers!Kept(agents, S))
        /\ Numbers!Members(Numbers!Kept(agents, S)) = Numbers!Members(agents) \cap S
    BY <2>2, <2>3, KeptFacts
  <2>5. S = {a \in X : a.id \in c.agentsList}
    BY DEF S
  <2>6. QED
    BY <2>1, <2>2, <2>4, <2>5
<1>2. \A a : IsFiniteSet(Of(a)) /\ Number(a) = Cardinality(Of(a)) /\ Number(a) \in Nat
  BY <1>0, CountedOf
<1>3. \A a \in X : Counted(a.id) = Of(a)
  BY <1>0, OneOfId DEF Counted
<1>4. \A x, y \in X : x.id = y.id => x = y
  BY <1>0, OneOfId
<1> HIDE DEF X, ofCluster, Of, Number
<1>5. N \in Nat /\ DOMAIN ofCluster = 1 .. N
  BY <1>1
<1>6. PICK f : /\ f[0] = 0
               /\ Numbers!numberEntriesOfCluster(c, entries, agents) = f[N]
               /\ \A k \in 1 .. N : f[k] = f[k - 1] + Number(ofCluster[k])
  <2>1. Counts(ofCluster, entries)
    BY <1>2, <1>5 DEF Counts, Lists, Number
  <2>2. QED
    BY <2>1, SumSteps DEF ofCluster, Number
<1> HIDE DEF N
\* The agents of the cluster in the list are different, and so are the entries counted for them.
<1>7. \A i \in 1 .. N : /\ ofCluster[i] \in X /\ ofCluster[i].id \in c.agentsList
                        /\ Counted(ofCluster[i].id) = Of(ofCluster[i])
  BY <1>1, <1>3, <1>5 DEF Numbers!Members
<1>8. ASSUME NEW i \in 1 .. N, NEW j \in 1 .. N, i /= j
      PROVE  Of(ofCluster[i]) \cap Of(ofCluster[j]) = {}
  <2>1. ofCluster[i].id /= ofCluster[j].id
    BY <1>1, <1>4, <1>5, <1>7, <1>8 DEF OneEach
  <2>2. QED
    BY <1>7, <2>1
<1> DEFINE Upto(k) == UNION {Of(ofCluster[i]) : i \in 1 .. k}
           Good(k) == IsFiniteSet(Upto(k)) /\ f[k] = Cardinality(Upto(k))
           T == {k \in 0 .. N : Good(k)}
<1>9. 0 \in T
  <2>1. Upto(0) = {}
    OBVIOUS
  <2>2. Good(0)
    BY <1>6, <2>1, FS_EmptySet
  <2>3. QED
    BY <1>5, <2>2
<1>10. ASSUME NEW k \in T, k \in 0 .. (N - 1)
       PROVE  k + 1 \in T
  <2>1. k \in Nat /\ k + 1 \in 1 .. N /\ (k + 1) - 1 = k /\ 1 .. (k + 1) = (1 .. k) \cup {k + 1}
    BY <1>5, <1>10
  <2>2. Good(k)
    BY <2>1
  <2> DEFINE new == Of(ofCluster[k + 1])
  <2>3. Upto(k + 1) = Upto(k) \cup new
    BY <2>1
  <2>4. \A i \in 1 .. k : i \in 1 .. N /\ i /= k + 1
    BY <1>5, <2>1
  <2>5. \A i \in 1 .. k : Of(ofCluster[i]) \cap new = {}
    BY <2>1, <2>4, <1>8
  <2>6. Upto(k) \cap new = {}
    BY <2>5
  <2>7. IsFiniteSet(new) /\ Number(ofCluster[k + 1]) = Cardinality(new)
    BY <1>2
  <2>8. f[k + 1] = f[k] + Number(ofCluster[k + 1])
    BY <1>6, <2>1
  <2> HIDE DEF Upto, new
  <2>9. Cardinality(Upto(k)) \in Nat /\ Cardinality(new) \in Nat
    BY <2>2, <2>7, FS_CardinalityType
  <2>10. IsFiniteSet(Upto(k) \cup new)
         /\ Cardinality(Upto(k) \cup new)
              = Cardinality(Upto(k)) + Cardinality(new) - Cardinality({})
    BY <2>2, <2>6, <2>7, FS_Union
  <2>11. Good(k + 1)
    BY <2>2, <2>3, <2>7, <2>8, <2>9, <2>10, FS_EmptySet
  <2>12. QED
    BY <2>1, <2>11
<1>11. N \in T
  <2> HIDE DEF T
  <2>1. QED
    BY <1>5, <1>9, <1>10, RangeInduction
<1>12. f[N] = Cardinality(Upto(N))
  BY <1>11
<1>13. Upto(N) = UNION {Counted(id) : id \in c.agentsList}
  <2>1. ASSUME NEW e \in Upto(N)
        PROVE  e \in UNION {Counted(id) : id \in c.agentsList}
    BY <1>7
  <2>2. ASSUME NEW id \in c.agentsList, NEW e \in Counted(id)
        PROVE  e \in Upto(N)
    <3>1. PICK a \in X : a.id = id /\ e \in Of(a)
      BY DEF Counted, X, Of
    <3>2. PICK i \in 1 .. N : ofCluster[i] = a
      BY <1>1, <1>5, <3>1 DEF Numbers!Members
    <3>3. QED
      BY <3>1, <3>2
  <2>3. QED
    BY <2>1, <2>2
<1>14. QED
  BY <1>6, <1>12, <1>13

----------------------------------------------------------------------------
(* The pages together                                                       *)

\* A step is one of the page that is open.
LEMMA StepOfPage ==
    ASSUME [Next]_vars
    PROVE  /\ page' = page
           /\ page = "sidebar" => Health!Next \/ UNCHANGED Health!vars
           /\ page = "bar" => Bar!Next \/ UNCHANGED Bar!vars
           /\ page = "upload" => Upload!Next \/ UNCHANGED Upload!vars
           /\ page = "options" => Parents!Next \/ UNCHANGED Parents!vars
           /\ page = "entry" => Entry!Next \/ UNCHANGED Entry!vars
           /\ page = "clusters" => Clusters!Next \/ UNCHANGED Clusters!vars
           /\ page \in FederationPages => Federations!Next \/ UNCHANGED Federations!vars
           /\ page = "backends" => Backends!Next \/ UNCHANGED Backends!vars
           /\ page = "agents" => Agents!Next \/ UNCHANGED Agents!vars
           /\ page = "dashboard" => Numbers!Next \/ UNCHANGED Numbers!vars
<1>1. CASE UNCHANGED vars
  BY <1>1 DEF vars, Health!vars, Bar!vars, Upload!vars, Parents!vars, Entry!vars, Clusters!vars,
              Federations!vars, Backends!vars, Agents!vars, Numbers!vars
<1>2. CASE Next
  BY <1>2 DEF Next, UnchangedElsewhere, FederationPages, Federations!Next
<1>3. QED
  BY <1>1, <1>2

IndInv ==
    /\ page = "sidebar" => HealthInv
    /\ page = "bar" => BarInv
    /\ page = "upload" => UploadInv
    /\ page = "options" => OptionsInv
    /\ page = "dashboard" => DetailsInv /\ ListsInv

LEMMA Initial == Init => IndInv
<1> SUFFICES ASSUME Init PROVE IndInv
  OBVIOUS
<1>1. /\ page = "sidebar" => Health!Init
      /\ page = "bar" => Bar!Init
      /\ page = "upload" => Upload!Init
      /\ page = "options" => Parents!Init
      /\ page = "dashboard" => Numbers!Init
  BY DEF Init, FederationPages
<1>2. QED
  BY <1>1, WebUIAssumption, HealthInitial, BarInitial, UploadInitial, OptionsInitial,
     DetailsInitial, ListsKept DEF IndInv

LEMMA Inductive ==
    ASSUME IndInv, [Next]_vars
    PROVE  IndInv' /\ AppliedStep
<1>1. Numbers!DashboardAssumption
  BY WebUIAssumption DEF WebUIAssumption
<1>2. QED
  BY <1>1, StepOfPage, WebUIAssumption, HealthInductive, BarInductive, UploadInductive,
     OptionsInductive, DetailsInductive, ListsKept DEF IndInv, AppliedStep

\* What the inductive invariants of the pages say holds in every state of the web UI.
THEOREM Invariance == Spec => []IndInv
<1>1. IndInv /\ [Next]_vars => IndInv'
  BY Inductive
<1>2. QED
  BY Initial, <1>1, PTL DEF Spec

\* While the sidebar shows the status of SPIRE there is a timer at the rate the user set
\* last, and a status that is shown as being asked for is asked for
\* (spire-health-check.tsx onChangeSpireRefreshRate and startTimer).
THEOREM AtRate == Spec => []ChecksAtRate
<1>1. IndInv => ChecksAtRate
  BY DEF IndInv, HealthInv, ChecksAtRate
<1>2. QED
  BY <1>1, Invariance, PTL

\* Once the bar has mounted, the pages for administrators are rendered to exactly those
\* whom the token of the page makes one, and linked for nobody else (navbar.tsx
\* componentDidMount, RenderOnAdminRole.tsx).
THEOREM GuardedAlways == Spec => []AdminPagesGuarded
<1>1. IndInv => AdminPagesGuarded
  BY BarGuarded DEF IndInv, AdminPagesGuarded
<1>2. QED
  BY <1>1, Invariance, PTL

\* The parents that are offered are made of the lists that are in the store, whatever
\* arrives, fails or is asked for again (entry-create.tsx componentDidUpdate).
THEOREM OptionsOfLists == Spec => []OptionsFollowLists
<1>1. IndInv => OptionsFollowLists
  BY DEF IndInv, OptionsInv, OptionsFollowLists
<1>2. QED
  BY <1>1, Invariance, PTL

\* While the page says that entries have been loaded from a file, Create Entries posts the
\* entries that it shows (entry-create-json.tsx handleChange and applyEditToEntry, and the
\* button of entry-create.tsx).
THEOREM PostsTheLoaded == Spec => []LoadedIsPosted
<1>1. IndInv => LoadedIsPosted
  BY DEF IndInv, UploadInv, OneArray, LoadedIsPosted, Upload!LoadedIsPosted, Upload!Uploaded
<1>2. QED
  BY <1>1, Invariance, PTL

\* An edit that is applied gives one entry of the page's array the ids that the fields
\* show (entry-create-json.tsx applyEditToEntry and the handlers of the id fields).
THEOREM EditsAreShown == Spec => AppliedAsShown
<1>1. IndInv /\ [Next]_vars => AppliedStep
  BY Inductive
<1>2. QED
  BY <1>1, Invariance, PTL DEF Spec, AppliedAsShown

\* A details page that was reached for what it shows is filtered by what the lists say of
\* it now, whatever has arrived since (dashboard-details.js componentDidUpdate).
THEOREM FiltersFollowLists == Spec => [](page = "dashboard" => Numbers!FiltersFollow)
<1>1. IndInv => (page = "dashboard" => Numbers!FiltersFollow)
  BY TablesOfDetails DEF IndInv, DetailsInv, Numbers!FiltersFollow
<1>2. QED
  BY <1>1, Invariance, PTL

\* Whatever mixture of lists the store holds, the chart of the agents and the table count
\* the same entries for an agent, the number of a cluster is that of the entries of its
\* agents as long as none of them is counted for two, and the filters of a page follow the
\* lists (spiffe-helper.tsx getAgentsEntries and getChildEntries, tornjak-helper.tsx
\* numberEntriesOfCluster). The page of an agent lists none that they leave out while the
\* parents that go with an agent are entries of nodes; nothing of the kind is assumed of
\* the lists, and where it is not so the page does list more (spiffe-helper.tsx:178).
THEOREM NumbersAgreeAlways == Spec => []NumbersAgree
<1>1. ASSUME Numbers!DashboardAssumption, ListsInv
      PROVE  /\ \A a \in Numbers!Members(agents) :
                  /\ Numbers!PieValue(a, Numbers!getAgentsEntries(agents, entries), entries)
                       = Numbers!numberEntriesOfAgent(a, entries)
                  /\ Numbers!ParentsAreNodes =>
                       Numbers!Members(Numbers!ListedOf(a.id))
                         \subseteq Numbers!Members(Numbers!EntriesOfAgent(a, entries))
             /\ \A c \in clusters :
                  (\A id1, id2 \in c.agentsList : id1 /= id2 => Counted(id1) \cap Counted(id2) = {})
                  => Numbers!numberEntriesOfCluster(c, entries, agents)
                       = Cardinality(UNION {Counted(id) : id \in c.agentsList})
  <2>1. ASSUME NEW c,
               \A id1, id2 \in c.agentsList : id1 /= id2 => Counted(id1) \cap Counted(id2) = {}
        PROVE  Numbers!numberEntriesOfCluster(c, entries, agents)
                 = Cardinality(UNION {Counted(id) : id \in c.agentsList})
    BY <1>1, <2>1, ClusterAgreesOf
  <2>2. QED
    BY <1>1, <2>1, ChartAgrees, ListedAreCounted
<1>2. Numbers!DashboardAssumption /\ ListsInv /\ Numbers!FiltersFollow => Numbers!NumbersAgree
  BY <1>1, SameCardinality, Zenon DEF Numbers!NumbersAgree, Counted
<1>3. IndInv => NumbersAgree
  <2>1. Numbers!DashboardAssumption
    BY WebUIAssumption DEF WebUIAssumption
  <2>2. IndInv => (page = "dashboard" => Numbers!FiltersFollow)
    BY TablesOfDetails DEF IndInv, DetailsInv, Numbers!FiltersFollow
  <2>3. QED
    BY <1>2, <2>1, <2>2 DEF IndInv, NumbersAgree
<1>4. QED
  BY <1>3, Invariance, PTL
=============================================================================
