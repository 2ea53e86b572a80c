------------------------------ MODULE EntryForm ------------------------------
(****************************************************************************)
(* The page that creates entries (components/entry-create.tsx), with its    *)
(* field for the time of expiry (components/entry-expiry-features.tsx): the *)
(* custom form and what its submission sends, and the button that creates   *)
(* the entries of an uploaded file (EntryUpload has the file).              *)
(*                                                                          *)
(* The text of an id is the sequence of its parts: <<>> is the empty field, *)
(* <<domain, path>> an id that parses, any other a text that does not.      *)
(* The domains are the servers', one each. The rest of the form (TTLs, DNS  *)
(* names, federation, flags) is setters without a guard, in "advanced".     *)
(*                                                                          *)
(* Bound: one submission is under way at a time.                            *)
(****************************************************************************)
EXTENDS TornjakStore

CONSTANTS
    Modes,          \* TRUE: the tab is of a manager (IsManager)
    Paths,          \* the paths of ids
    MaxSafeTime     \* JSMaxSafeTime

\* What is assumed of the constants.
FormAssumption == Modes \subseteq BOOLEAN /\ MaxSafeTime \in Nat

VARIABLES
    manager,        \* the mode of the tab
    form,           \* what the fields hold and what has been parsed out of them
    expiry,         \* the state of EntryExpiryFeatures; history: was it ever touched?
    answer,         \* the state behind the notification; is there a message to show?
    posts,          \* the submissions under way
    created         \* history: the backends where an entry has been created

vars == <<store, manager, form, expiry, answer, posts, created>>

Manual == <<"----Select this option----">>
Malformed == <<"malformed">>
Ids == {<<domain, path>> : domain \in Servers, path \in Paths}
Texts == Ids \cup {<<>>, Malformed}
Times == 0 .. MaxSafeTime + 1

FormTypes ==
    [selectedServer : Blank, parentId : Texts \cup {Manual}, parentParts : Ids \cup {<<>>},
     parentIDManualEntry : BOOLEAN, prefix : Blank, spiffeId : Texts,
     spiffeParts : Ids \cup {<<>>}, selectors : {"", "unformatted", "formatted"},
     advanced : BOOLEAN]

Entry == [spiffe_id : Ids, parent_id : Ids, advanced : BOOLEAN, expires_at : Times]
NewEntries == {<<>>, <<"e1">>, <<"e1", "e2">>}
Posts == [server : Servers \cup {NoServer}, entries : [form : Entry] \cup [file : NewEntries]]

TypeOK ==
    /\ manager \in Modes
    /\ form \in FormTypes
    /\ expiry \in [option : {"None", "Seconds Since Epoch", "Date/Time"}, expiresAt : Times,
                   expiryUnsafe : BOOLEAN, expiryInvalid : BOOLEAN, touched : BOOLEAN]
    /\ answer \in [message : BOOLEAN, statusOK : {"", "OK", "Multiple"},
                   successJsonMessege : {"", "OK", "Failed"}, success : 0 .. 2, fail : 0 .. 2]
    /\ posts \subseteq Posts
    /\ created \subseteq Blank

----------------------------------------------------------------------------
(* Mounting                                                                 *)

NoError == store.globalErrorMessage \in {"OK", ""}

BlankForm(s) ==
    [selectedServer |-> s, parentId |-> <<>>, parentParts |-> <<>>,
     parentIDManualEntry |-> FALSE, prefix |-> NoServer, spiffeId |-> <<>>,
     spiffeParts |-> <<>>, selectors |-> "", advanced |-> FALSE]

BlankExpiry ==
    [option |-> "None", expiresAt |-> 0, expiryUnsafe |-> FALSE, expiryInvalid |-> FALSE,
     touched |-> FALSE]
BlankAnswer == [message |-> FALSE, statusOK |-> "", successJsonMessege |-> "", success |-> 0, fail |-> 0]

\* componentDidMount: the server counts as selected only if no error is showing.
ServerAtMount == IF manager /\ NoError THEN store.globalServerSelected ELSE NoServer

\* The page is opened, after other pages have left in the store what they did: a
\* server or none, an error or none, the expiry of an earlier form, and in a
\* manager's tab the entries of an earlier upload.
Init ==
    /\ manager \in Modes
    /\ \E s \in Blank, message \in Messages, time \in {0, 1}, entries \in NewEntries :
         /\ manager \/ (s = NoServer /\ entries = <<>>)
         /\ store = [InitialStore EXCEPT !.globalServerSelected = s,
                        !.globalErrorMessage = message, !.globalEntryExpiryTime = time,
                        !.globalNewEntries = entries]
    /\ form = BlankForm(ServerAtMount)
    /\ expiry = BlankExpiry
    /\ answer = BlankAnswer
    /\ posts = {} /\ created = {}

\* The header selects a server, and componentDidUpdate takes it over; an answer to
\* one of the header's calls sets the message.
ServerSelected(s) ==
    /\ manager /\ s \in Servers /\ s /= store.globalServerSelected
    /\ Dispatch(<<serverSelectedFunc(s)>>)
    /\ form' = [form EXCEPT !.selectedServer = s]
    /\ UNCHANGED <<manager, expiry, answer, posts, created>>

----------------------------------------------------------------------------
(* The fields                                                               *)

\* parseSpiffeId: the domain and the path, or nothing.
Parse(text) == IF text \in Ids THEN text ELSE <<>>

\* A text is typed, and parsed; one that does not parse is told at once, in the
\* place of the message that was there.
Told(text) == text /= <<>> /\ Parse(text) = <<>>

\* What the field makes of a text that is typed after the prefix: the characters
\* that stand in the prefix's place are replaced by it.
AfterPrefix(text) ==
    IF form.prefix = NoServer THEN {text}
    ELSE IF text \in Ids THEN {<<form.prefix, text[2]>>}
    ELSE IF text = <<>> THEN {Malformed}
    ELSE {Malformed} \cup {<<form.prefix, path>> : path \in Paths}

OnChangeSpiffeId(typed) ==
    \E text \in AfterPrefix(typed) :
        /\ form' = [form EXCEPT !.spiffeId = text, !.spiffeParts = Parse(text)]
        /\ answer' = [answer EXCEPT !.message = Told(text)]
        /\ UNCHANGED <<store, manager, expiry, posts, created>>

\* onChangeParentId, of the option that opens a field for a typed parent: what was
\* parsed out of the parent chosen before stays.
ChooseManual(sid) ==
    /\ sid = Manual
    /\ form' = [form EXCEPT !.parentIDManualEntry = TRUE, !.prefix = NoServer, !.parentId = sid]
    /\ UNCHANGED <<store, manager, expiry, answer, posts, created>>

\* The parent's parts, and with a valid parent its domain as the prefix of the id.
WithParent(text) ==
    [form EXCEPT !.parentId = text, !.parentParts = Parse(text),
                 !.prefix = IF Parse(text) = <<>> THEN @ ELSE Parse(text)[1]]

\* onChangeParentId, of a parent in the list; a server whose trust domain is not
\* known yet is in it under an id that does not parse.
OnChangeParentId(sid) ==
    /\ sid \in Ids \cup {Malformed}
    /\ form' = [WithParent(sid) EXCEPT !.parentIDManualEntry = FALSE]
    /\ answer' = [answer EXCEPT !.message = Told(sid)]
    /\ UNCHANGED <<store, manager, expiry, posts, created>>

OnChangeManualParentId(text) ==
    /\ form.parentIDManualEntry
    /\ form' = WithParent(text)
    /\ answer' = [answer EXCEPT !.message = Told(text)]
    /\ UNCHANGED <<store, manager, expiry, posts, created>>

OnChangeSelectors(text) ==
    /\ form' = [form EXCEPT !.selectors = text]
    /\ UNCHANGED <<store, manager, expiry, answer, posts, created>>

\* onChangex509Ttl, onChangeJwtTtl, onChangeDownStream, onChangeDnsNames,
\* onChangeFederatesWith, onChangeAdminFlag
OnChangeAdvanced(value) ==
    /\ form' = [form EXCEPT !.advanced = value]
    /\ UNCHANGED <<store, manager, expiry, answer, posts, created>>

----------------------------------------------------------------------------
(* The time of expiry                                                       *)

IsValidExpiryTime(t) == t > 0 /\ t <= MaxSafeTime

\* A handler of EntryExpiryFeatures sets its state, and componentDidUpdate writes
\* the time to the store: on every update, and not when the field is mounted.
ExpiryBecomes(new) ==
    /\ expiry' = [new EXCEPT !.touched = TRUE]
    /\ Dispatch(<<entryExpiryUpdateFunc(new.expiresAt)>>)
    /\ UNCHANGED <<manager, form, answer, posts, created>>

ExpiryTimeUpdate(t) ==
    [expiry EXCEPT !.expiresAt = t, !.expiryUnsafe = ~IsValidExpiryTime(t)]

OnChangeExpiryOption(option) == ExpiryBecomes([BlankExpiry EXCEPT !.option = option])

OnChangeExpiresAtSeconds(t) ==
    /\ expiry.option = "Seconds Since Epoch"
    /\ ExpiryBecomes(ExpiryTimeUpdate(t))

\* updateValidDateAndTime: a date that is none leaves the time as it was.
OnChangeExpiresAtDate(valid, t) ==
    /\ expiry.option = "Date/Time"
    /\ ExpiryBecomes(IF valid THEN [ExpiryTimeUpdate(t) EXCEPT !.expiryInvalid = FALSE]
                              ELSE [expiry EXCEPT !.expiryInvalid = TRUE])

ExpiryWarning == expiry.expiryUnsafe \/ expiry.expiryInvalid

----------------------------------------------------------------------------
(* Submissions                                                              *)

\* getApiEntryCreateEndpoint is not ""
HasEndpoint == manager => form.selectedServer /= NoServer

Endpoint == IF manager THEN form.selectedServer ELSE NoServer

\* Mutant: the id is parsed before it is sent, and the parent not again.
ParentNotParsed ==
    /\ form.parentId /= <<>> /\ form.spiffeId /= <<>>
    /\ Parse(form.spiffeId) /= <<>>
    /\ form.selectors = "formatted"

\* The checks of onSubmit, each of which ends it with a toast.
Submittable ==
    /\ form.parentId /= <<>> /\ form.spiffeId /= <<>>
    /\ Parse(form.parentId) /= <<>> /\ Parse(form.spiffeId) /= <<>>
    /\ form.selectors = "formatted"

FormEntry ==
    [spiffe_id |-> form.spiffeParts, parent_id |-> form.parentParts,
     advanced |-> form.advanced, expires_at |-> store.globalEntryExpiryTime]

Post(entries) ==
    /\ posts = {}
    /\ posts' = {[server |-> Endpoint, entries |-> entries]}
    /\ UNCHANGED <<store, manager, form, expiry, answer, created>>

OnSubmit == Submittable /\ HasEndpoint /\ Post([form |-> FormEntry])

\* The button is there while the store holds entries of an upload.
OnYAMLEntryCreate ==
    /\ store.globalNewEntries /= <<>>
    /\ HasEndpoint
    /\ Post([file |-> store.globalNewEntries])

\* Mutant: an answer is a success, whatever it says of the entry.
AnsweredIsCreated(c, result) ==
    /\ "form" \in DOMAIN c.entries
    /\ answer' = [answer EXCEPT !.message = TRUE, !.statusOK = "OK",
                                !.successJsonMessege = "OK"]
    /\ created' = IF result = "OK" THEN created \cup {c.server} ELSE created

\* The answer to the form: what the backend says of the one entry.
FormAnswered(c, result) ==
    /\ "form" \in DOMAIN c.entries
    /\ answer' = [answer EXCEPT !.message = TRUE, !.statusOK = "OK",
                                !.successJsonMessege = result]
    /\ created' = IF result = "OK" THEN created \cup {c.server} ELSE created

\* The answer to a file: how many of its entries were created.
FileAnswered(c, n) ==
    /\ "file" \in DOMAIN c.entries
    /\ n <= Len(c.entries.file)
    /\ answer' = [answer EXCEPT !.message = TRUE, !.statusOK = "Multiple",
                                !.success = n, !.fail = Len(c.entries.file) - n]
    /\ created' = IF n > 0 THEN created \cup {c.server} ELSE created

\* The call fails, or its answer is lost: a toast, and the rest stays as it was.
PostFails(c) ==
    /\ created' \in {created, created \cup {c.server}}
    /\ UNCHANGED answer

PostReturns ==
    \E c \in posts :
        /\ posts' = posts \ {c}
        /\ \/ \E result \in {"OK", "Failed"} : FormAnswered(c, result)
           \/ \E n \in 0 .. 2 : FileAnswered(c, n)
           \/ PostFails(c)
        /\ UNCHANGED <<store, manager, form, expiry>>

Fields ==
    \/ \E text \in Texts : OnChangeSpiffeId(text) \/ OnChangeManualParentId(text)
    \/ ChooseManual(Manual)
    \/ \E sid \in Ids \cup {Malformed} : OnChangeParentId(sid)
    \/ \E text \in {"", "unformatted", "formatted"} : OnChangeSelectors(text)
    \/ \E value \in BOOLEAN : OnChangeAdvanced(value)

ExpiryFields ==
    \/ \E option \in {"None", "Seconds Since Epoch", "Date/Time"} : OnChangeExpiryOption(option)
    \/ \E t \in Times : OnChangeExpiresAtSeconds(t)
    \/ \E valid \in BOOLEAN, t \in Times : OnChangeExpiresAtDate(valid, t)

Next ==
    \/ \E s \in Servers : ServerSelected(s)
    \/ Fields
    \/ ExpiryFields
    \/ OnSubmit
    \/ OnYAMLEntryCreate
    \/ PostReturns

Spec == Init /\ [][Next]_vars

----------------------------------------------------------------------------
(* Properties                                                               *)

\* What the notification says above the request and its answer.
SaysCreated == answer.message /\ answer.statusOK = "OK" /\ answer.successJsonMessege = "OK"
SaysSomeCreated == answer.message /\ answer.statusOK = "Multiple" /\ answer.success > 0

\* A submission of the form carries the parent and the id that its fields show, in
\* whatever order they were chosen, typed, made invalid and chosen again, and the rest as
\* it is set, to the server that is selected and to no other. Once the field for the
\* expiry has been touched, it carries the time there, none when "None" is chosen again.
\* Until then the field shows "None", and nothing is said of the time: it is the one that
\* an earlier form has left in the store (entry-create.tsx:650).
PostedStep ==
    \A c \in posts' \ posts :
        /\ c.server = store.globalServerSelected
        /\ "form" \in DOMAIN c.entries =>
              /\ c.entries.form.parent_id = form.parentId
              /\ c.entries.form.spiffe_id = form.spiffeId
              /\ c.entries.form.advanced = form.advanced
              /\ expiry.touched => c.entries.form.expires_at = expiry.expiresAt

PostedAsShown == [][PostedStep]_vars

\* "ENTRY SUCCESSFULLY CREATED" (entry-create.tsx:732) is shown only when some
\* backend has created an entry that this page sent: never when all were refused. (An
\* entry created earlier counts: which submission a message is about is not said here.)
CreatedIsTrue == SaysCreated \/ SaysSomeCreated => created /= {}
=============================================================================
