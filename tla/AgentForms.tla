----------------------------- MODULE AgentForms -----------------------------
(***************************************************************************)
(* Two forms about agents: the join token of a new one (components/agent-  *)
(* create-join-token.tsx) and the workload attestor of one in the list     *)
(* (components/work-load-attestor-modal.tsx), under the header that        *)
(* selects a server. What the backends hold is external.                   *)
(*                                                                         *)
(* Bounds: one post for a token under way; a request that is under way is  *)
(* not sent again.                                                         *)
(***************************************************************************)
EXTENDS TornjakApi

CONSTANTS
    Modes,          \* TRUE: the tab is of a manager (IsManager)
    TTLs,           \* what can be typed as time to live: "", or an integer
    Ids             \* what can be typed as SPIFFE ID: "", or <<trust domain, path>>

NotAnId == <<"not an id">>

\* What is assumed of the constants; an id that parses has a path.
AgentFormAssumption ==
    /\ Modes \subseteq BOOLEAN /\ TTLs \subseteq Int
    /\ \A id \in Ids : id[2] /= ""

VARIABLES
    manager,
    form,           \* the state of CreateJoinToken
    posts,          \* its posts under way
    plugin          \* the state of the modal: the plugin chosen, if any

vars == <<store, calls, manager, form, posts, plugin>>

NoTTL == 0 - 1      \* an empty field
Plugins == {"Docker", "Kubernetes", "Unix"}

TypeOK ==
    /\ calls \subseteq Calls
    /\ manager \in Modes
    /\ store.globalServerSelected \in Blank /\ form.selectedServer \in Blank
    /\ form.ttl \in TTLs \cup {NoTTL, 500} /\ form.spiffeId \in Ids \cup {<<>>, NotAnId}
    /\ form.message \in BOOLEAN
    /\ \A p \in posts : p.server \in Servers
    /\ plugin \in Plugins \cup {""}

\* componentDidMount of the token's form takes over the server there is, in a manager's
\* tab, error or no error; that of the modal asks for nothing.
Init ==
    /\ manager \in Modes
    /\ \E s \in Blank :
         /\ manager \/ s = NoServer
         /\ store = [InitialStore EXCEPT !.globalServerSelected = s]
         /\ form = [ttl |-> 500, spiffeId |-> <<>>, message |-> FALSE, selectedServer |-> s]
    /\ calls = {} /\ posts = {} /\ plugin = ""

\* Mutant: a server that is selected later is taken over only by a form without one.
TakenOnce(s) == IF form.selectedServer = NoServer THEN s ELSE form.selectedServer

\* componentDidUpdate
TakenOver(s) == s

ServerSelected(s) ==
    /\ manager /\ s /= store.globalServerSelected
    /\ Dispatch(<<serverSelectedFunc(s)>>)
    /\ form' = [form EXCEPT !.selectedServer = TakenOver(s)]
    /\ UNCHANGED <<calls, manager, posts, plugin>>

----------------------------------------------------------------------------
(* The join token                                                           *)

\* onChangeTtl, onChangeSpiffeId
FieldChanges ==
    /\ \/ \E t \in TTLs \cup {NoTTL} : form' = [form EXCEPT !.ttl = t]
       \/ \E id \in Ids \cup {<<>>, NotAnId} : form' = [form EXCEPT !.spiffeId = id]
    /\ UNCHANGED <<store, calls, manager, posts, plugin>>

\* parseSpiffeId
parseSpiffeId(id) == IF id \in Ids THEN <<TRUE, id[1], id[2]>> ELSE <<FALSE, "", "">>

\* getApiTokenEndpoint: the message says so when there is none.
Endpoint == IF manager THEN form.selectedServer ELSE Own

\* onSubmit: a time that is not positive is refused, and an id that is none.
Accepted == form.ttl > 0 /\ (form.spiffeId /= <<>> => parseSpiffeId(form.spiffeId)[1])

OnSubmit ==
    /\ posts = {} /\ Accepted
    /\ IF Endpoint = NoServer
       THEN form' = [form EXCEPT !.message = TRUE] /\ UNCHANGED posts
       ELSE /\ posts' = {[server |-> Endpoint, ttl |-> form.ttl,
                          path |-> IF form.spiffeId = <<>> THEN "" ELSE parseSpiffeId(form.spiffeId)[3]]}
            /\ UNCHANGED form
    /\ UNCHANGED <<store, calls, manager, plugin>>

\* The message shows the token, or stays with what it showed, under a toast.
OnSubmitReturns ==
    /\ posts /= {} /\ posts' = {}
    /\ form' \in {form, [form EXCEPT !.message = TRUE]}
    /\ UNCHANGED <<store, calls, manager, plugin>>

----------------------------------------------------------------------------
(* The workload attestor                                                    *)

OnChangeWorkloadPlugin(p) ==
    /\ plugin' = p
    /\ UNCHANGED <<store, calls, manager, form, posts>>

\* handleSubmit registers the plugin and asks for the list at once, beside the list that
\* is asked for when the registration has been answered; with or without a plugin.
HandleSubmit ==
    /\ LET s == IF manager THEN store.globalServerSelected ELSE Own
       IN  calls' = calls \cup {registerSelectors(s), refreshSelectorsState(s)}
    /\ UNCHANGED <<store, manager, form, posts, plugin>>

Answers ==
    /\ \E c \in calls, ok \in BOOLEAN : CallReturns(c, ok)
    /\ UNCHANGED <<manager, form, posts, plugin>>

Next ==
    \/ \E s \in Servers : ServerSelected(s)
    \/ FieldChanges
    \/ OnSubmit
    \/ OnSubmitReturns
    \/ \E p \in Plugins : OnChangeWorkloadPlugin(p)
    \/ HandleSubmit
    \/ Answers

Spec == Init /\ [][Next]_vars

----------------------------------------------------------------------------
\* A join token is asked of the server that the header names at that moment, however
\* often it was changed while the form was filled in, and never with a time to live, or an
\* id, that the form says it refuses.
PostedStep ==
    \A p \in posts' \ posts :
        /\ p.server = IF manager THEN store.globalServerSelected ELSE Own
        /\ p.ttl > 0
        /\ p.path /= "" <=> form.spiffeId /= <<>>

PostedToSelected == [][PostedStep]_vars
=============================================================================
