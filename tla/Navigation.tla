----------------------------- MODULE Navigation -----------------------------
(***************************************************************************)
(* Who is shown which page of the web UI (App.tsx, navbar.tsx,             *)
(* NavDropdown.tsx, RenderOnAdminRole.tsx, auth/KeycloakAuth.js): one tab, *)
(* through logins, page loads and renewed tokens. Keycloak and its         *)
(* sessions are external. The roles are those of the token there was when  *)
(* the page was loaded, kept in the store; the store is in sessionStorage  *)
(* and so outlives the page and the user's session in the tab.             *)
(***************************************************************************)
EXTENDS TornjakStore

CONSTANTS
    Auths,          \* TRUE: the UI has an auth server (REACT_APP_AUTH_SERVER_URI)
    Roles,          \* the names of roles
    AdminNames,     \* those that contain "admin", in whatever case
    NoRole          \* {NoRole}: a token without realm_access, or without roles in it

\* What is assumed of the constants.
NavigationAssumption ==
    Auths \subseteq BOOLEAN /\ AdminNames \subseteq Roles /\ NoRole \notin Roles

VARIABLES
    auth,           \* whether the build has an auth server
    token,          \* the roles of keycloak.token, when there is one
    tab,            \* "away": on Keycloak's pages; "rendered"; "mounted"
    path,           \* window.location.pathname
    sidebarOpen,
    refused,        \* RenderOnAdminRole shows AccessNotAllowed
    loaded          \* history: the token when the page was loaded

vars == <<store, auth, token, tab, path, sidebarOpen, refused, loaded>>

NoAccess == {NoRole}
Tokens == (SUBSET Roles) \cup {NoAccess}

pathsWithAdminRestr == {"/entry/create", "/agent/createjointoken", "/cluster/clustermanagement"}
Paths == pathsWithAdminRestr \cup
    {"/", "/clusters", "/federations", "/trustbundle", "/federation/create", "/agents", "/entries",
     "/tornjak/serverinfo", "/tornjak/dashboard", "/server/manage"}

TypeOK ==
    /\ store.globalUserRoles \subseteq Roles /\ store.globalIsAuthenticated \in BOOLEAN
    /\ auth \in Auths
    /\ token \in Tokens /\ loaded \in Tokens
    /\ tab \in {"away", "rendered", "mounted"}
    /\ path \in Paths
    /\ {sidebarOpen, refused} \subseteq BOOLEAN

Init ==
    /\ store = InitialStore
    /\ auth \in Auths
    /\ token = NoAccess /\ loaded = NoAccess
    /\ tab = "away" /\ path = "/" /\ sidebarOpen = TRUE /\ refused = FALSE

----------------------------------------------------------------------------
(* Who is an administrator                                                  *)

checkRolesAdminUser(roles) == roles \cap AdminNames /= {}

isAdmin == checkRolesAdminUser(store.globalUserRoles)

\* RenderOnAdminRole: its pages are rendered by the path there is.
Rendered == path \in pathsWithAdminRestr => (~auth \/ isAdmin)

\* AccessNotAllowed is rendered by the path there was when the component itself was
\* rendered: with the page, and on new roles, but not when a link is followed.
AccessNotAllowed(roles) ==
    ~checkRolesAdminUser(roles) /\ path \in pathsWithAdminRestr /\ auth

\* The link of the bar to the dashboard.
DashboardClicked ==
    IF store.globalClickedDashboardTable = "dashboard" THEN <<>>
    ELSE <<clickedDashboardTableFunc("dashboard")>>

----------------------------------------------------------------------------
(* The session                                                              *)

\* The page is loaded. With an auth server it is rendered only once Keycloak has the
\* user logged in, and a token for the roles the user has then.
RenderApp ==
    /\ tab = "away"
    /\ token' \in IF auth THEN Tokens ELSE {NoAccess}
    /\ loaded' = token'
    /\ tab' = "rendered" /\ sidebarOpen' = TRUE
    /\ refused' = AccessNotAllowed(store.globalUserRoles)
    /\ UNCHANGED <<store, auth, path>>

\* A link that loads the page (those of the bar that are not of the router), a reload,
\* or doLogout, after which anyone may log in.
Leave ==
    /\ tab /= "away"
    /\ tab' = "away" /\ token' = NoAccess /\ path' \in Paths
    /\ \/ UNCHANGED store
       \/ path' = "/tornjak/dashboard" /\ tab = "mounted" /\ sidebarOpen /\ Dispatch(DashboardClicked)
    /\ UNCHANGED <<auth, sidebarOpen, refused, loaded>>

\* Mutant: roles that are in the store are not replaced.
KnownRolesKept(t) ==
    IF t = NoAccess \/ store.globalUserRoles /= {}
    THEN <<isAuthenticatedUpdateFunc(TRUE), accessTokenUpdateFunc("token")>>
    ELSE <<isAuthenticatedUpdateFunc(TRUE), accessTokenUpdateFunc("token"), UserRolesUpdateFunc(t)>>

\* What is dispatched of a token: one that says nothing of roles leaves those there are.
LoggedIn(t) ==
    IF t = NoAccess
    THEN <<isAuthenticatedUpdateFunc(TRUE), accessTokenUpdateFunc("token")>>
    ELSE <<isAuthenticatedUpdateFunc(TRUE), accessTokenUpdateFunc("token"), UserRolesUpdateFunc(t)>>

\* NavigationBar.componentDidMount. With an auth server there is a token: isLoggedIn. The
\* pages are rendered with what it dispatches.
NavigationMounts ==
    /\ tab = "rendered"
    /\ tab' = "mounted"
    /\ Dispatch(IF auth THEN LoggedIn(token) ELSE <<>>)
    /\ refused' = AccessNotAllowed(store'.globalUserRoles)
    /\ UNCHANGED <<auth, token, path, sidebarOpen, loaded>>

\* A request renews the token (updateToken), with the roles the user has now; one that
\* cannot be renewed leads to Keycloak (doLogin), and back to this page.
TokenRenewed ==
    /\ auth /\ tab = "mounted"
    /\ \/ token' \in Tokens /\ UNCHANGED tab
       \/ token' = NoAccess /\ tab' = "away"
    /\ UNCHANGED <<store, auth, path, sidebarOpen, refused, loaded>>

----------------------------------------------------------------------------
(* The links                                                                *)

\* The links of the bar that the router follows: those of the open one, which keeps the
\* links that are adminOnly from others, and those of the collapsed one, which does so
\* for the three pages of RenderOnAdminRole.
OpenLinks ==
    {"/clusters", "/agents", "/entries", "/federations"}
    \cup IF isAdmin \/ ~auth
         THEN pathsWithAdminRestr \cup {"/trustbundle", "/federation/create"} ELSE {}
CollapsedLinks ==
    {"/", "/clusters", "/agents", "/entries", "/federations", "/trustbundle",
     "/federation/create", "/tornjak/serverinfo", "/tornjak/dashboard"}
    \cup IF isAdmin \/ ~auth THEN pathsWithAdminRestr ELSE {}

Links == IF sidebarOpen THEN OpenLinks ELSE CollapsedLinks

FollowLink ==
    /\ tab = "mounted"
    /\ path' \in Links
    /\ Dispatch(IF path' = "/tornjak/dashboard" THEN DashboardClicked ELSE <<>>)
    /\ UNCHANGED <<auth, token, tab, sidebarOpen, refused, loaded>>

ToggleSidebar ==
    /\ tab = "mounted"
    /\ sidebarOpen' = ~sidebarOpen
    /\ UNCHANGED <<store, auth, token, tab, path, refused, loaded>>

Next ==
    \/ RenderApp
    \/ Leave
    \/ NavigationMounts
    \/ TokenRenewed
    \/ FollowLink
    \/ ToggleSidebar

Spec == Init /\ [][Next]_vars

----------------------------------------------------------------------------
\* Once the bar has mounted, the pages for administrators are rendered to nobody whom the
\* token the page was loaded with does not make one, and to everybody whom it does,
\* whoever used the tab before; those to whom they are not rendered are told so, and nobody
\* is told so, on any page, whom it makes one; and no link of the bar leads to a refusal.
\* (A token that says nothing of roles is not one the guard can follow: the roles of the
\* user before it stay. And who has been refused a page is shown the refusal above the
\* pages that are visited from there.)
AdminPagesGuarded ==
    tab = "mounted" /\ auth /\ loaded /= NoAccess =>
        /\ path \in pathsWithAdminRestr =>
             /\ Rendered <=> checkRolesAdminUser(loaded)
             /\ refused <=> ~checkRolesAdminUser(loaded)
        /\ refused => ~checkRolesAdminUser(loaded)
        /\ Links \cap pathsWithAdminRestr /= {} => checkRolesAdminUser(loaded)
=============================================================================
