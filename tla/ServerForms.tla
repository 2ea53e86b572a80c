----------------------------- MODULE ServerForms -----------------------------
(***************************************************************************)
(* The page that registers backends with a manager (components/            *)
(* server-management.tsx), beside the registry of the manager, which is    *)
(* external here (ManagerServer has it). Three files can be picked, each   *)
(* read by a reader of its own; their contents stay in the form whatever   *)
(* becomes of the boxes they were picked under.                            *)
(*                                                                         *)
(* Bounds: MaxReading files being read, one post and two lists under way.  *)
(***************************************************************************)
EXTENDS TornjakStore, FiniteSets

CONSTANTS
    Names,          \* the names of backends
    Files,          \* the files there are to pick
    EmptyFile,      \* one without contents
    NoData,         \* null
    MaxReading

Inputs == {"ca", "cert", "key"}

\* What is assumed of the constants.
ServerFormAssumption ==
    EmptyFile \in Files /\ NoData \notin Files /\ "" \notin Names /\ MaxReading \in Nat

VARIABLES
    registry,       \* the names the manager has
    form,           \* the state of ServerManagement
    reading,        \* <<input, file>>: the files being read
    posts,          \* the registrations under way
    lists,          \* the lists under way: not read yet, or the names read
    picked          \* history: the files picked in each input since its readers last rested

vars == <<store, registry, form, reading, posts, lists, picked>>

NotRead == {""}

TypeOK ==
    /\ store.globalServersList \subseteq Names
    /\ registry \subseteq Names
    /\ form.name \in Names \cup {""}
    /\ form.data \in [Inputs -> Files \cup {NoData}] /\ form.loadSuccess \in [Inputs -> BOOLEAN]
    /\ {form.formTLS, form.formMTLS} \subseteq BOOLEAN /\ form.statusOK \in {"", "OK", "ERROR"}
    /\ \A r \in reading : r[1] \in Inputs /\ r[2] \in Files
    /\ picked \in [Inputs -> SUBSET Files]
    /\ \A i \in DOMAIN lists : lists[i] = NotRead \/ lists[i] \subseteq Names

Init ==
    /\ store = InitialStore
    /\ registry \in SUBSET Names
    /\ form = [name |-> "", formTLS |-> FALSE, formMTLS |-> FALSE, statusOK |-> "",
               data |-> [i \in Inputs |-> NoData], loadSuccess |-> [i \in Inputs |-> FALSE]]
    /\ reading = {} /\ posts = {}
    /\ lists = <<NotRead>>          \* refreshServerState, of componentDidMount
    /\ picked = [i \in Inputs |-> {}]

----------------------------------------------------------------------------
(* The form                                                                 *)

\* onChangeServerName, onChangeServerAddress; handleInputChange
FieldChanges ==
    /\ \/ \E name \in Names \cup {""} : form' = [form EXCEPT !.name = name]
       \/ form' = [form EXCEPT !.formTLS = ~@]
       \/ form' = [form EXCEPT !.formMTLS = ~@]
    /\ UNCHANGED <<store, registry, reading, posts, lists, picked>>

\* What an input is being given: the files, but for empty ones, that are being read.
Awaited(i) == {r \in reading : r[1] = i /\ r[2] /= EmptyFile}

\* The files picked while another is being read are picked side by side with it: the one
\* read last stays. An empty one leaves what there is.
Picked(i, f) ==
    IF f = EmptyFile THEN picked
    ELSE [picked EXCEPT ![i] = {f} \cup IF Awaited(i) = {} THEN {} ELSE @]

\* The input for the CA is there while TLS is ticked, the other two while mTLS is.
InputThere(i) == IF i = "ca" THEN form.formTLS ELSE form.formMTLS

PickFile(i, f) ==
    /\ InputThere(i) /\ Cardinality(reading) < MaxReading
    /\ reading' = reading \cup {<<i, f>>}
    /\ picked' = Picked(i, f)
    /\ UNCHANGED <<store, registry, form, posts, lists>>

\* Mutant: the reader of the key sets what the reader of the certificate does.
KeyLoadedAsCert(i, f) ==
    LET input == IF i = "key" THEN "cert" ELSE i
    IN  [form EXCEPT !.data[input] = f, !.loadSuccess[i] = TRUE]

Loaded(i, f) == [form EXCEPT !.data[i] = f, !.loadSuccess[i] = TRUE]

\* onCAFileChange, onCertFileChange, onKeyFileChange: the contents, unless there are
\* none, when those of the file picked before stay. The readers of one input do not wait
\* for each other, and the box may have been cleared.
FileRead ==
    /\ \E r \in reading :
        /\ form' = IF r[2] = EmptyFile THEN form ELSE Loaded(r[1], r[2])
        /\ reading' = reading \ {r}
    /\ UNCHANGED <<store, registry, posts, lists, picked>>

----------------------------------------------------------------------------
(* The requests                                                             *)

\* The contents go with the post whether or not their boxes are ticked.
OnSubmit ==
    /\ posts = {}
    /\ posts' = {[name |-> form.name, tls |-> form.formTLS, mtls |-> form.formMTLS,
                  data |-> form.data]}
    /\ UNCHANGED <<store, registry, form, reading, lists, picked>>

\* The manager refuses a name it has.
OnSubmitReturns ==
    /\ \E p \in posts :
        \/ /\ p.name \in Names \ registry
           /\ registry' = registry \cup {p.name}
           /\ form' = [form EXCEPT !.statusOK = "OK"]
           /\ Len(lists) < 2 /\ lists' = Append(lists, NotRead)
        \/ /\ registry' \in {registry, registry \cup ({p.name} \ {""})}
           /\ form' = [form EXCEPT !.statusOK = "ERROR"]
           /\ UNCHANGED lists
    /\ posts' = {}
    /\ UNCHANGED <<store, reading, picked>>

\* The manager reads its names for a list.
ListRead ==
    /\ \E i \in DOMAIN lists : lists[i] = NotRead /\ lists' = [lists EXCEPT ![i] = registry]
    /\ UNCHANGED <<store, registry, form, reading, posts, picked>>

\* A list comes in, the earlier of two perhaps last, or fails: a toast.
ListReturns ==
    /\ \E i \in DOMAIN lists :
        /\ \/ lists[i] /= NotRead /\ Dispatch(<<serversListUpdateFunc(lists[i])>>)
           \/ UNCHANGED store
        /\ lists' = SubSeq(lists, 1, i - 1) \o SubSeq(lists, i + 1, Len(lists))
    /\ UNCHANGED <<registry, form, reading, posts, picked>>

Next ==
    \/ FieldChanges
    \/ \E i \in Inputs, f \in Files : PickFile(i, f)
    \/ FileRead
    \/ OnSubmit
    \/ OnSubmitReturns
    \/ ListRead
    \/ ListReturns

Spec == Init /\ [][Next]_vars

----------------------------------------------------------------------------
\* A registration carries, as CA, certificate and key, the file that was picked last in that
\* very input, with contents, once it has been read: never that of another input, nor of an
\* earlier choice there. Of files picked side by side it is any, for their readers end in
\* any order (server-management.tsx:139). And it lacks nothing that an input says was
\* loaded, nor has it what none says was, read or not. It goes to the manager of the tab.
PostedStep ==
    \A p \in posts' \ posts : \A i \in Inputs :
        /\ Awaited(i) = {} => p.data[i] \in IF picked[i] = {} THEN {NoData} ELSE picked[i]
        /\ p.data[i] = NoData <=> ~form.loadSuccess[i]

FilesInTheirPlace == [][PostedStep]_vars
=============================================================================
