--------------------------- MODULE WebUIFormsProofs ---------------------------
(***************************************************************************)
(* What the forms of the web UI promise, for any backends, ids, names,     *)
(* files and clusters: what is posted is what the form shows, an edit is   *)
(* of the cluster chosen, and nothing is said to be created that is not.   *)
(***************************************************************************)
EXTENDS WebUIProofs

----------------------------------------------------------------------------
(* Sequences                                                                *)

\* One element of a sequence is taken out.
LEMMA WithoutOne ==
    ASSUME NEW T, NEW s \in Seq(T), NEW i \in DOMAIN s
    PROVE  Federations!Without(s, i) \in Seq(T) /\ Len(Federations!Without(s, i)) = Len(s) - 1
<1> DEFINE before == SubSeq(s, 1, i - 1)
           after == SubSeq(s, i + 1, Len(s))
<1>1. i \in 1 .. Len(s) /\ Len(s) \in Nat
  OBVIOUS
<1>2. before \in Seq(T) /\ Len(before) = i - 1
  BY <1>1
<1>3. after \in Seq(T) /\ Len(after) = Len(s) - i
  BY <1>1
<1>4. Federations!Without(s, i) = before \o after
  BY DEF Federations!Without
<1> HIDE DEF before, after
<1>5. before \o after \in Seq(T) /\ Len(before \o after) = Len(before) + Len(after)
  BY <1>2, <1>3
<1>6. QED
  BY <1>1, <1>2, <1>3, <1>4, <1>5

----------------------------------------------------------------------------
(* The form for an entry                                                    *)

FormFields == {"selectedServer", "parentId", "parentParts", "parentIDManualEntry", "prefix",
               "spiffeId", "spiffeParts", "selectors", "advanced"}

ExpiryFields == {"option", "expiresAt", "expiryUnsafe", "expiryInvalid", "touched"}

EntryShape ==
    /\ {"globalServerSelected", "globalEntryExpiryTime"} \subseteq DOMAIN store
    /\ DOMAIN form = FormFields
    /\ DOMAIN expiry = ExpiryFields
    /\ DOMAIN answer = {"message", "statusOK", "successJsonMessege", "success", "fail"}

\* The server that a submission goes to is the one selected, if any.
EntryServer ==
    /\ manager => form.selectedServer \in {NoServer, store.globalServerSelected}
    /\ ~manager => store.globalServerSelected = NoServer

\* What has been parsed is of the text in the field; the option to type a parent leaves
\* that of the parent chosen before, and does not parse itself.
EntryParts ==
    /\ form.parentId /= Entry!Manual => form.parentParts = Entry!Parse(form.parentId)
    /\ form.spiffeParts = Entry!Parse(form.spiffeId)

\* The store has the time that the fields show, once they have been touched.
EntryExpiry == expiry.touched => store.globalEntryExpiryTime = expiry.expiresAt

\* An answer that says so came of a creation, whether or not its message still shows: the
\* message of a malformed id takes the place of it, and stands above the same answer.
EntryAnswer ==
    \/ answer.statusOK = "OK" /\ answer.successJsonMessege = "OK"
    \/ answer.statusOK = "Multiple" /\ answer.success > 0
    => created /= {}

EntryInv == EntryShape /\ EntryServer /\ EntryParts /\ EntryExpiry /\ EntryAnswer

LEMMA EntryInitial ==
    ASSUME Entry!Init
    PROVE  EntryInv
<1>1. "globalServerSelected" \in DOMAIN Entry!serversInitial
      /\ "globalEntryExpiryTime" \in DOMAIN Entry!entriesInitial
  BY DEF Entry!serversInitial, Entry!entriesInitial
<1>2. {"globalServerSelected", "globalEntryExpiryTime"} \subseteq DOMAIN Entry!InitialStore
  BY <1>1 DEF Entry!InitialStore
<1>3. PICK s \in Entry!Blank, message \in Entry!Messages, time \in {0, 1}, es \in Entry!NewEntries :
         /\ manager \/ (s = NoServer /\ es = <<>>)
         /\ store = [Entry!InitialStore EXCEPT !.globalServerSelected = s,
                        !.globalErrorMessage = message, !.globalEntryExpiryTime = time,
                        !.globalNewEntries = es]
  BY DEF Entry!Init
<1>4. /\ DOMAIN store = DOMAIN Entry!InitialStore /\ store.globalServerSelected = s
  BY <1>2, <1>3
<1>5. EntryShape
  BY <1>2, <1>4 DEF Entry!Init, Entry!BlankForm, Entry!BlankExpiry, Entry!BlankAnswer, EntryShape,
                   FormFields, ExpiryFields
<1>6. EntryServer
  BY <1>3, <1>4 DEF Entry!Init, Entry!BlankForm, Entry!ServerAtMount, EntryServer
<1>7. <<>> \notin Entry!Ids
  BY DEF Entry!Ids
<1>8. EntryParts
  BY <1>7 DEF Entry!Init, Entry!BlankForm, Entry!Parse, EntryParts
<1>9. EntryExpiry /\ EntryAnswer
  BY DEF Entry!Init, Entry!BlankExpiry, Entry!BlankAnswer, EntryExpiry, EntryAnswer
<1>10. QED
  BY <1>5, <1>6, <1>8, <1>9 DEF EntryInv

\* A text is parsed in one way.
LEMMA ParsedThen ==
    /\ Entry!Parse(form.spiffeId)' = Entry!Parse(form'.spiffeId)
    /\ Entry!Parse(form.parentId)' = Entry!Parse(form'.parentId)
    /\ Entry!Manual' = Entry!Manual
BY DEF Entry!Parse, Entry!Ids, Entry!Manual

\* The header selects another server.
LEMMA EntryServerSelected ==
    ASSUME EntryInv, NEW s \in Servers, Entry!ServerSelected(s)
    PROVE  EntryInv'
<1> DEFINE action == Entry!serverSelectedFunc(s)
<1>1. action.slice = "globalServerSelected" /\ action.payload = s
  BY DEF Entry!serverSelectedFunc, Entry!Action
<1>2. store' = Dispatched(<<action>>)
  BY SameDispatched DEF Entry!ServerSelected, Entry!Dispatch
<1> HIDE DEF action
<1>3. /\ DOMAIN store' = DOMAIN store /\ store'.globalServerSelected = s
      /\ store'.globalEntryExpiryTime = store.globalEntryExpiryTime
  BY <1>1, <1>2, OneDispatched, DispatchedDomain DEF EntryInv, EntryShape
<1>4. /\ DOMAIN form' = DOMAIN form /\ form'.selectedServer = s
      /\ form'.parentId = form.parentId /\ form'.parentParts = form.parentParts
      /\ form'.spiffeId = form.spiffeId /\ form'.spiffeParts = form.spiffeParts
  BY Zenon DEF Entry!ServerSelected, EntryInv, EntryShape, FormFields
<1>5. manager /\ UNCHANGED <<manager, expiry, answer, created>>
  BY DEF Entry!ServerSelected
<1>6. EntryParts'
  BY <1>4, ParsedThen DEF EntryInv, EntryParts
<1>7. EntryShape' /\ EntryServer'
  BY <1>3, <1>4, <1>5 DEF EntryInv, EntryShape, EntryServer
<1>8. EntryExpiry' /\ EntryAnswer'
  BY <1>3, <1>5 DEF EntryInv, EntryExpiry, EntryAnswer
<1>9. QED
  BY <1>6, <1>7, <1>8 DEF EntryInv

\* A field is set, and what it holds is parsed.
LEMMA EntryFields ==
    ASSUME EntryInv, Entry!Fields
    PROVE  EntryInv' /\ UNCHANGED posts
<1> DEFINE AnswerKept == /\ DOMAIN answer' = DOMAIN answer /\ answer'.statusOK = answer.statusOK
                         /\ answer'.successJsonMessege = answer.successJsonMessege
                         /\ answer'.success = answer.success
           Kept == /\ DOMAIN form' = DOMAIN form /\ form'.selectedServer = form.selectedServer
                   /\ EntryParts'
                   /\ AnswerKept
                   /\ UNCHANGED <<store, manager, expiry, created, posts>>
           SpiffeKept == form'.spiffeId = form.spiffeId /\ form'.spiffeParts = form.spiffeParts
           ParentKept == form'.parentId = form.parentId /\ form'.parentParts = form.parentParts
<1> USE DEF EntryInv, EntryShape, FormFields
<1>1. /\ Entry!Parse(form.spiffeId)' = Entry!Parse(form'.spiffeId)
      /\ Entry!Parse(form.parentId)' = Entry!Parse(form'.parentId)
      /\ Entry!Manual' = Entry!Manual
  BY ParsedThen
<1>2. ASSUME NEW b, answer' = [answer EXCEPT !.message = b] PROVE AnswerKept
  BY <1>2, Zenon
<1>3. UNCHANGED answer => AnswerKept
  OBVIOUS
<1>4. ASSUME NEW typed \in Entry!Texts, Entry!OnChangeSpiffeId(typed) PROVE Kept
  <2>1. PICK text : /\ form' = [form EXCEPT !.spiffeId = text, !.spiffeParts = Entry!Parse(text)]
                    /\ answer' = [answer EXCEPT !.message = Entry!Told(text)]
    BY <1>4 DEF Entry!OnChangeSpiffeId
  <2>2. /\ DOMAIN form' = DOMAIN form /\ form'.selectedServer = form.selectedServer
        /\ form'.spiffeId = text /\ form'.spiffeParts = Entry!Parse(text) /\ ParentKept
    BY <2>1, Zenon
  <2>3. EntryParts'
    BY <1>1, <2>2 DEF EntryParts
  <2>4. QED
    BY <1>2, <1>4, <2>1, <2>2, <2>3 DEF Entry!OnChangeSpiffeId
<1>5. ASSUME NEW sid, Entry!ChooseManual(sid) PROVE Kept
  <2>1. /\ DOMAIN form' = DOMAIN form /\ form'.selectedServer = form.selectedServer
        /\ form'.parentId = Entry!Manual /\ SpiffeKept
    BY <1>5, Zenon DEF Entry!ChooseManual
  <2>2. EntryParts'
    BY <1>1, <2>1 DEF EntryParts
  <2>3. QED
    BY <1>3, <1>5, <2>1, <2>2 DEF Entry!ChooseManual
<1>6. ASSUME NEW text
      PROVE  LET f == Entry!WithParent(text)
             IN  /\ DOMAIN f = DOMAIN form /\ f.selectedServer = form.selectedServer
                 /\ f.parentId = text /\ f.parentParts = Entry!Parse(text)
                 /\ f.spiffeId = form.spiffeId /\ f.spiffeParts = form.spiffeParts
  BY Zenon DEF Entry!WithParent
<1>7. ASSUME NEW text, Entry!OnChangeParentId(text) PROVE Kept
  <2>1. /\ DOMAIN form' = DOMAIN form /\ form'.selectedServer = form.selectedServer
        /\ form'.parentId = text /\ form'.parentParts = Entry!Parse(text) /\ SpiffeKept
    BY <1>6, <1>7, Zenon DEF Entry!OnChangeParentId
  <2>2. EntryParts'
    BY <1>1, <2>1 DEF EntryParts
  <2>3. QED
    BY <1>2, <1>7, <2>1, <2>2 DEF Entry!OnChangeParentId
<1>8. ASSUME NEW text, Entry!OnChangeManualParentId(text) PROVE Kept
  <2>1. /\ DOMAIN form' = DOMAIN form /\ form'.selectedServer = form.selectedServer
        /\ form'.parentId = text /\ form'.parentParts = Entry!Parse(text) /\ SpiffeKept
    BY <1>6, <1>8 DEF Entry!OnChangeManualParentId
  <2>2. EntryParts'
    BY <1>1, <2>1 DEF EntryParts
  <2>3. QED
    BY <1>2, <1>8, <2>1, <2>2 DEF Entry!OnChangeManualParentId
<1>9. ASSUME NEW x, Entry!OnChangeSelectors(x) \/ Entry!OnChangeAdvanced(x) PROVE Kept
  <2>1. /\ DOMAIN form' = DOMAIN form /\ form'.selectedServer = form.selectedServer
        /\ SpiffeKept /\ ParentKept
    BY <1>9, Zenon DEF Entry!OnChangeSelectors, Entry!OnChangeAdvanced
  <2>2. EntryParts'
    BY <1>1, <2>1 DEF EntryParts
  <2>3. QED
    BY <1>3, <1>9, <2>1, <2>2 DEF Entry!OnChangeSelectors, Entry!OnChangeAdvanced
<1>10. Kept
  <2> HIDE DEF Kept, EntryInv
  <2> QED  BY <1>4, <1>5, <1>7, <1>8, <1>9 DEF Entry!Fields
<1>11. QED
  BY <1>10 DEF EntryServer, EntryExpiry, EntryAnswer

\* A time is set: the store takes it over.
LEMMA EntryExpiryFields ==
    ASSUME EntryInv, Entry!ExpiryFields
    PROVE  EntryInv' /\ UNCHANGED posts
<1>1. PICK new : Entry!ExpiryBecomes(new) /\ DOMAIN new = ExpiryFields
  <2>1. DOMAIN expiry = ExpiryFields /\ DOMAIN Entry!BlankExpiry = ExpiryFields
    BY DEF EntryInv, EntryShape, Entry!BlankExpiry, ExpiryFields
  <2>2. \A t : DOMAIN Entry!ExpiryTimeUpdate(t) = DOMAIN expiry
    BY Zenon DEF Entry!ExpiryTimeUpdate
  <2>3. CASE \E option \in {"None", "Seconds Since Epoch", "Date/Time"} :
                Entry!OnChangeExpiryOption(option)
    <3>1. PICK option : Entry!ExpiryBecomes([Entry!BlankExpiry EXCEPT !.option = option])
      BY <2>3 DEF Entry!OnChangeExpiryOption
    <3>2. DOMAIN [Entry!BlankExpiry EXCEPT !.option = option] = DOMAIN Entry!BlankExpiry
      BY Zenon
    <3>3. QED
      BY <2>1, <3>1, <3>2
  <2>4. CASE \E t \in Entry!Times : Entry!OnChangeExpiresAtSeconds(t)
    BY <2>1, <2>2, <2>4 DEF Entry!OnChangeExpiresAtSeconds
  <2>5. CASE \E valid \in BOOLEAN, t \in Entry!Times : Entry!OnChangeExpiresAtDate(valid, t)
    <3>1. PICK valid \in BOOLEAN, t \in Entry!Times :
            Entry!ExpiryBecomes(IF valid
                THEN [Entry!ExpiryTimeUpdate(t) EXCEPT !.expiryInvalid = FALSE]
                ELSE [expiry EXCEPT !.expiryInvalid = TRUE])
      BY <2>5 DEF Entry!OnChangeExpiresAtDate
    <3>2. /\ DOMAIN [Entry!ExpiryTimeUpdate(t) EXCEPT !.expiryInvalid = FALSE]
               = DOMAIN Entry!ExpiryTimeUpdate(t)
          /\ DOMAIN [expiry EXCEPT !.expiryInvalid = TRUE] = DOMAIN expiry
      BY Zenon
    <3>3. QED
      BY <2>1, <2>2, <3>1, <3>2
  <2>6. QED
    BY <2>3, <2>4, <2>5 DEF Entry!ExpiryFields
<1> DEFINE action == Entry!entryExpiryUpdateFunc(new.expiresAt)
<1>2. action.slice = "globalEntryExpiryTime" /\ action.payload = new.expiresAt
  BY DEF Entry!entryExpiryUpdateFunc, Entry!Action
<1>3. store' = Dispatched(<<action>>)
  BY <1>1, SameDispatched DEF Entry!ExpiryBecomes, Entry!Dispatch
<1> HIDE DEF action
<1>4. /\ DOMAIN store' = DOMAIN store /\ store'.globalEntryExpiryTime = new.expiresAt
      /\ store'.globalServerSelected = store.globalServerSelected
  BY <1>2, <1>3, OneDispatched, DispatchedDomain DEF EntryInv, EntryShape
<1>5. /\ DOMAIN expiry' = ExpiryFields /\ expiry'.expiresAt = new.expiresAt
      /\ UNCHANGED <<manager, form, answer, posts, created>>
  BY <1>1 DEF Entry!ExpiryBecomes, ExpiryFields
<1>6. EntryParts'
  BY <1>5, ParsedThen DEF EntryInv, EntryParts
<1>7. EntryShape' /\ EntryServer' /\ EntryExpiry' /\ EntryAnswer'
  BY <1>4, <1>5 DEF EntryInv, EntryShape, EntryServer, EntryExpiry, EntryAnswer
<1>8. QED
  BY <1>5, <1>6, <1>7 DEF EntryInv

\* An answer comes, of the form or of a file, or none does.
LEMMA EntryReturns ==
    ASSUME EntryInv, Entry!PostReturns
    PROVE  EntryInv' /\ posts' \subseteq posts
<1> USE DEF EntryInv, EntryShape, EntryAnswer
<1>1. PICK c \in posts :
        /\ posts' = posts \ {c}
        /\ \/ \E result \in {"OK", "Failed"} : Entry!FormAnswered(c, result)
           \/ \E n \in 0 .. 2 : Entry!FileAnswered(c, n)
           \/ Entry!PostFails(c)
        /\ UNCHANGED <<store, manager, form, expiry>>
  BY DEF Entry!PostReturns
<1>2. ASSUME NEW result, Entry!FormAnswered(c, result)
      PROVE  EntryAnswer' /\ DOMAIN answer' = DOMAIN answer
  <2>1. /\ DOMAIN answer' = DOMAIN answer
        /\ answer'.statusOK = "OK" /\ answer'.successJsonMessege = result
    BY <1>2, Zenon DEF Entry!FormAnswered
  <2>2. result = "OK" => created' = created \cup {c.server}
    BY <1>2 DEF Entry!FormAnswered
  <2>3. QED
    BY <2>1, <2>2
<1>3. ASSUME NEW n \in 0 .. 2, Entry!FileAnswered(c, n)
      PROVE  EntryAnswer' /\ DOMAIN answer' = DOMAIN answer
  <2>1. /\ DOMAIN answer' = DOMAIN answer
        /\ answer'.statusOK = "Multiple" /\ answer'.success = n
    BY <1>3, Zenon DEF Entry!FileAnswered
  <2>2. n > 0 => created' = created \cup {c.server}
    BY <1>3 DEF Entry!FileAnswered
  <2>3. QED
    BY <2>1, <2>2
<1>4. CASE Entry!PostFails(c)
  <2>1. EntryAnswer' /\ DOMAIN answer' = DOMAIN answer
    BY <1>4 DEF Entry!PostFails
  <2>2. QED
    BY <1>1, <2>1, ParsedThen DEF EntryServer, EntryParts, EntryExpiry
<1>5. EntryAnswer' /\ DOMAIN answer' = DOMAIN answer
  BY <1>1, <1>2, <1>3, <1>4 DEF Entry!PostFails
<1>6. QED
  BY <1>1, <1>5, ParsedThen DEF EntryServer, EntryParts, EntryExpiry

\* What is posted, of the form or of a file.
LEMMA EntrySubmitted ==
    ASSUME EntryInv, Entry!OnSubmit \/ Entry!OnYAMLEntryCreate
    PROVE  EntryInv' /\ Entry!PostedStep
<1>1. PICK es : /\ posts' = {[server |-> Entry!Endpoint, entries |-> es]}
                /\ \/ Entry!Submittable /\ es = [form |-> Entry!FormEntry]
                   \/ es = [file |-> store.globalNewEntries]
  BY DEF Entry!OnSubmit, Entry!OnYAMLEntryCreate, Entry!Post
<1>2. Entry!HasEndpoint /\ UNCHANGED <<store, manager, form, expiry, answer, created>>
  BY DEF Entry!OnSubmit, Entry!OnYAMLEntryCreate, Entry!Post
<1>3. Entry!Endpoint = store.globalServerSelected
  BY <1>2 DEF Entry!HasEndpoint, Entry!Endpoint, EntryInv, EntryServer
<1>4. ASSUME "form" \in DOMAIN es
      PROVE  /\ es.form.parent_id = form.parentId /\ es.form.spiffe_id = form.spiffeId
             /\ es.form.advanced = form.advanced
             /\ expiry.touched => es.form.expires_at = expiry.expiresAt
  <2>1. Entry!Submittable /\ es = [form |-> Entry!FormEntry]
    BY <1>1, <1>4
  <2>2. form.parentId \in Entry!Ids /\ form.spiffeId \in Entry!Ids
    BY <2>1 DEF Entry!Submittable, Entry!Parse
  <2>3. form.parentId /= Entry!Manual
    <3>1. DOMAIN Entry!Manual = {1}
      BY DEF Entry!Manual
    <3>2. DOMAIN form.parentId = {1, 2}
      BY <2>2 DEF Entry!Ids
    <3>3. QED
      BY <3>1, <3>2
  <2>4. form.parentParts = form.parentId /\ form.spiffeParts = form.spiffeId
    BY <2>2, <2>3 DEF EntryInv, EntryParts, Entry!Parse
  <2>5. QED
    BY <2>1, <2>4 DEF Entry!FormEntry, EntryInv, EntryExpiry
<1>5. Entry!PostedStep
  BY <1>1, <1>3, <1>4 DEF Entry!PostedStep
<1>6. EntryParts'
  BY <1>2, ParsedThen DEF EntryInv, EntryParts
<1>7. EntryShape' /\ EntryServer' /\ EntryExpiry' /\ EntryAnswer'
  BY <1>2 DEF EntryInv, EntryShape, EntryServer, EntryExpiry, EntryAnswer
<1>8. QED
  BY <1>5, <1>6, <1>7 DEF EntryInv

LEMMA EntryInductive ==
    ASSUME EntryInv, Entry!Next \/ UNCHANGED Entry!vars
    PROVE  EntryInv' /\ Entry!PostedStep
<1>1. posts' \subseteq posts => Entry!PostedStep
  BY DEF Entry!PostedStep
<1>2. CASE \E s \in Servers : Entry!ServerSelected(s)
  BY <1>1, <1>2, EntryServerSelected DEF Entry!ServerSelected
<1>3. CASE Entry!Fields
  BY <1>1, <1>3, EntryFields
<1>4. CASE Entry!ExpiryFields
  BY <1>1, <1>4, EntryExpiryFields
<1>5. CASE Entry!OnSubmit \/ Entry!OnYAMLEntryCreate
  BY <1>5, EntrySubmitted
<1>6. CASE Entry!PostReturns
  BY <1>1, <1>6, EntryReturns
<1>7. CASE UNCHANGED Entry!vars
  <2>1. UNCHANGED <<store, manager, form, expiry, answer, posts, created>>
    BY <1>7 DEF Entry!vars
  <2>2. EntryParts'
    BY <2>1, ParsedThen DEF EntryInv, EntryParts
  <2>3. EntryShape' /\ EntryServer' /\ EntryExpiry' /\ EntryAnswer'
    BY <2>1 DEF EntryInv, EntryShape, EntryServer, EntryExpiry, EntryAnswer
  <2>4. QED
    BY <1>1, <2>1, <2>2, <2>3 DEF EntryInv
<1>8. QED
  BY <1>2, <1>3, <1>4, <1>5, <1>6, <1>7 DEF Entry!Next

----------------------------------------------------------------------------
(* The types of the form for an entry                                       *)

\* The store has a time, and the entries of an upload.
EntryTypes ==
    /\ Entry!TypeOK
    /\ {"globalServerSelected", "globalEntryExpiryTime", "globalNewEntries"} \subseteq DOMAIN store
    /\ store.globalEntryExpiryTime \in Entry!Times
    /\ store.globalNewEntries \in Entry!NewEntries

\* An id is of a server there is, and what is parsed is an id.
LEMMA IdsMade ==
    /\ \A s \in Servers, way \in EntryPaths : <<s, way>> \in Entry!Ids
    /\ \A id \in Entry!Ids : id[1] \in Servers /\ id[2] \in EntryPaths
    /\ \A text : Entry!Parse(text) \in Entry!Ids \cup {<<>>}
    /\ Entry!Ids \subseteq Entry!Texts /\ <<>> \in Entry!Texts /\ Entry!Malformed \in Entry!Texts
    /\ Entry!Manual \notin Entry!Ids /\ <<>> \notin Entry!Ids
<1>1. \A s \in Servers, way \in EntryPaths : <<s, way>> \in Entry!Ids
  BY DEF Entry!Ids
<1>2. \A id \in Entry!Ids : id[1] \in Servers /\ id[2] \in EntryPaths
  BY DEF Entry!Ids
<1>3. Entry!Manual \notin Entry!Ids /\ <<>> \notin Entry!Ids
  <2>1. DOMAIN Entry!Manual = {1} /\ \A id \in Entry!Ids : DOMAIN id = {1, 2}
    BY DEF Entry!Manual, Entry!Ids
  <2>2. DOMAIN <<>> = {}
    OBVIOUS
  <2>3. QED
    BY <2>1, <2>2
<1>4. QED
  BY <1>1, <1>2, <1>3 DEF Entry!Parse, Entry!Texts

\* The times there are.
LEMMA TimesMade ==
    ASSUME Entry!FormAssumption
    PROVE  \A t \in {0, 1} : t \in Entry!Times
<1>1. MaxSafeTime \in Nat
  BY DEF Entry!FormAssumption
<1>2. QED
  BY <1>1 DEF Entry!Times

\* The types of the field for the time of expiry, and of the answers.
ExpiryTypes == [option : {"None", "Seconds Since Epoch", "Date/Time"}, expiresAt : Entry!Times,
                expiryUnsafe : BOOLEAN, expiryInvalid : BOOLEAN, touched : BOOLEAN]

AnswerTypes == [message : BOOLEAN, statusOK : {"", "OK", "Multiple"},
                successJsonMessege : {"", "OK", "Failed"}, success : 0 .. 2, fail : 0 .. 2]

\* The form starts blank.
LEMMA EntryTypesInitial ==
    ASSUME Entry!FormAssumption, Entry!Init
    PROVE  EntryTypes
<1> DEFINE slices == {"globalServerSelected", "globalErrorMessage", "globalEntryExpiryTime",
                      "globalNewEntries"}
<1>1. slices \subseteq DOMAIN Entry!InitialStore
  <2>1. /\ "globalServerSelected" \in DOMAIN serversInitial
        /\ "globalErrorMessage" \in DOMAIN tornjakInitial
        /\ {"globalEntryExpiryTime", "globalNewEntries"} \subseteq DOMAIN entriesInitial
    BY DEF serversInitial, tornjakInitial, entriesInitial
  <2>2. QED
    BY <2>1, InitialSlices, SameInitialStore
<1>2. PICK s \in Entry!Blank, message \in Entry!Messages, time \in {0, 1}, es \in Entry!NewEntries :
         /\ manager \/ (s = NoServer /\ es = <<>>)
         /\ store = [Entry!InitialStore EXCEPT !.globalServerSelected = s,
                        !.globalErrorMessage = message, !.globalEntryExpiryTime = time,
                        !.globalNewEntries = es]
  BY DEF Entry!Init
<1>3. /\ slices \subseteq DOMAIN store /\ store.globalServerSelected = s
      /\ store.globalEntryExpiryTime = time /\ store.globalNewEntries = es
  BY <1>1, <1>2
<1>4. /\ \A t \in {0, 1} : t \in Entry!Times
      /\ <<>> \in Entry!Texts
  BY TimesMade, IdsMade
<1>5. Entry!ServerAtMount \in Entry!Blank
  BY <1>3 DEF Entry!ServerAtMount, Entry!Blank
<1>6. form \in Entry!FormTypes
  <2>1. NoServer \in Entry!Blank
    BY DEF Entry!Blank
  <2>2. QED
    BY <1>4, <1>5, <2>1 DEF Entry!Init, Entry!BlankForm, Entry!FormTypes
<1>7. Entry!TypeOK
  <2>1. expiry \in ExpiryTypes
    BY <1>4 DEF Entry!Init, Entry!BlankExpiry, ExpiryTypes
  <2>2. answer \in AnswerTypes
    <3>1. 0 \in 0 .. 2
      OBVIOUS
    <3>2. QED
      BY <3>1 DEF Entry!Init, Entry!BlankAnswer, AnswerTypes
  <2>3. manager \in Modes /\ posts = {} /\ created = {}
    BY DEF Entry!Init
  <2>4. QED
    BY <1>6, <2>1, <2>2, <2>3 DEF Entry!TypeOK, ExpiryTypes, AnswerTypes
<1>8. QED
  BY <1>3, <1>4, <1>7 DEF EntryTypes

\* The fields of the form, whatever is typed or chosen.
LEMMA EntryFieldsTyped ==
    ASSUME EntryTypes, Entry!Fields
    PROVE  /\ form' \in Entry!FormTypes
           /\ UNCHANGED answer \/ \E b \in BOOLEAN : answer' = [answer EXCEPT !.message = b]
           /\ UNCHANGED <<store, manager, expiry, posts, created>>
<1>1. form \in Entry!FormTypes
  BY DEF EntryTypes, Entry!TypeOK
<1>2. \A text : Entry!Told(text) \in BOOLEAN
  BY Zenon DEF Entry!Told
<1>3. ASSUME NEW text \in Entry!Texts, Entry!OnChangeSpiffeId(text)
      PROVE  form' \in Entry!FormTypes
  <2>1. PICK t \in Entry!AfterPrefix(text) :
          form' = [form EXCEPT !.spiffeId = t, !.spiffeParts = Entry!Parse(t)]
    BY <1>3 DEF Entry!OnChangeSpiffeId
  <2>2. t \in Entry!Texts
    <3>1. form.prefix /= NoServer => form.prefix \in Servers
      BY <1>1 DEF Entry!FormTypes, Entry!Blank
    <3>2. \/ t = text \/ t = Entry!Malformed
          \/ form.prefix /= NoServer /\ \E way \in EntryPaths : t = <<form.prefix, way>>
      BY IdsMade DEF Entry!AfterPrefix
    <3>3. QED
      BY <3>1, <3>2, IdsMade
  <2>3. QED
    BY <1>1, <2>1, <2>2, IdsMade DEF Entry!FormTypes
<1>4. ASSUME NEW text \in Entry!Texts PROVE Entry!WithParent(text) \in Entry!FormTypes
  <2>1. Entry!Parse(text) = <<>> \/ Entry!Parse(text)[1] \in Entry!Blank
    BY IdsMade DEF Entry!Blank
  <2> DEFINE parts == Entry!Parse(text)
             prefix == IF parts = <<>> THEN form.prefix ELSE parts[1]
  <2>2. prefix \in Entry!Blank /\ parts \in Entry!Ids \cup {<<>>}
    BY <1>1, <2>1, IdsMade DEF Entry!FormTypes
  <2>3. \/ Entry!WithParent(text) = [form EXCEPT !.parentId = text, !.parentParts = parts]
        \/ Entry!WithParent(text) = [form EXCEPT !.parentId = text, !.parentParts = parts,
                                                 !.prefix = prefix]
    BY <1>1 DEF Entry!WithParent, Entry!FormTypes
  <2> HIDE DEF prefix, parts
  <2>4. text \in Entry!Texts
    BY <1>4
  <2>5. QED
    BY <1>1, <2>2, <2>3, <2>4 DEF Entry!FormTypes
<1>5. ASSUME Entry!ChooseManual(Entry!Manual) PROVE form' \in Entry!FormTypes
  <2>1. NoServer \in Entry!Blank
    BY DEF Entry!Blank
  <2>2. QED
    BY <1>1, <1>5, <2>1 DEF Entry!ChooseManual, Entry!FormTypes
<1>6. ASSUME NEW sid \in Entry!Ids \cup {Entry!Malformed}, Entry!OnChangeParentId(sid)
      PROVE  form' \in Entry!FormTypes
  <2>1. Entry!WithParent(sid) \in Entry!FormTypes
    BY <1>4, IdsMade
  <2>2. form' = [Entry!WithParent(sid) EXCEPT !.parentIDManualEntry = FALSE]
    BY <1>6 DEF Entry!OnChangeParentId
  <2>3. QED
    BY <2>1, <2>2 DEF Entry!FormTypes
<1>7. ASSUME NEW text \in {"", "unformatted", "formatted"}, Entry!OnChangeSelectors(text)
      PROVE  form' \in Entry!FormTypes
  BY <1>1, <1>7 DEF Entry!OnChangeSelectors, Entry!FormTypes
<1>8. ASSUME NEW value \in BOOLEAN, Entry!OnChangeAdvanced(value)
      PROVE  form' \in Entry!FormTypes
  BY <1>1, <1>8 DEF Entry!OnChangeAdvanced, Entry!FormTypes
<1>9. form' \in Entry!FormTypes
  BY <1>3, <1>4, <1>5, <1>6, <1>7, <1>8 DEF Entry!Fields, Entry!OnChangeManualParentId
<1>10. /\ UNCHANGED answer \/ \E text : answer' = [answer EXCEPT !.message = Entry!Told(text)]
       /\ UNCHANGED <<store, manager, expiry, posts, created>>
  <2>1. ASSUME NEW text, Entry!OnChangeSpiffeId(text) \/ Entry!OnChangeManualParentId(text)
                         \/ Entry!OnChangeParentId(text)
        PROVE  /\ \E t : answer' = [answer EXCEPT !.message = Entry!Told(t)]
               /\ UNCHANGED <<store, manager, expiry, posts, created>>
    BY <2>1, Zenon DEF Entry!OnChangeSpiffeId, Entry!OnChangeManualParentId, Entry!OnChangeParentId
  <2>2. ASSUME NEW x, Entry!ChooseManual(x) \/ Entry!OnChangeSelectors(x)
                      \/ Entry!OnChangeAdvanced(x)
        PROVE  UNCHANGED <<answer, store, manager, expiry, posts, created>>
    BY <2>2 DEF Entry!ChooseManual, Entry!OnChangeSelectors, Entry!OnChangeAdvanced
  <2>3. QED
    BY <2>1, <2>2 DEF Entry!Fields
<1>11. QED
  BY <1>2, <1>9, <1>10

\* The time of expiry, whatever is set.
LEMMA EntryExpiryTyped ==
    ASSUME Entry!FormAssumption, EntryTypes, Entry!ExpiryFields
    PROVE  /\ expiry' \in ExpiryTypes
           /\ store' = Dispatched(<<Entry!entryExpiryUpdateFunc(expiry'.expiresAt)>>)
           /\ UNCHANGED <<manager, form, answer, posts, created>>
<1>1. expiry \in ExpiryTypes
  BY DEF EntryTypes, Entry!TypeOK, ExpiryTypes
<1>2. ASSUME NEW t \in Entry!Times PROVE Entry!ExpiryTimeUpdate(t) \in ExpiryTypes
  <2> DEFINE unsafe == ~Entry!IsValidExpiryTime(t)
  <2>1. unsafe \in BOOLEAN
    BY Zenon
  <2>2. Entry!ExpiryTimeUpdate(t) = [expiry EXCEPT !.expiresAt = t, !.expiryUnsafe = unsafe]
    BY DEF Entry!ExpiryTimeUpdate
  <2> HIDE DEF unsafe
  <2>3. QED
    BY <1>1, <2>1, <2>2 DEF ExpiryTypes
<1>3. \E new \in ExpiryTypes : Entry!ExpiryBecomes(new)
  <2>1. CASE \E option \in {"None", "Seconds Since Epoch", "Date/Time"} :
                Entry!OnChangeExpiryOption(option)
    <3>1. PICK option \in {"None", "Seconds Since Epoch", "Date/Time"} :
            Entry!ExpiryBecomes([Entry!BlankExpiry EXCEPT !.option = option])
      BY <2>1 DEF Entry!OnChangeExpiryOption
    <3>2. 0 \in Entry!Times
      BY TimesMade
    <3>3. [Entry!BlankExpiry EXCEPT !.option = option] \in ExpiryTypes
      BY <3>2 DEF Entry!BlankExpiry, ExpiryTypes
    <3>4. QED
      BY <3>1, <3>3
  <2>2. CASE \E t \in Entry!Times : Entry!OnChangeExpiresAtSeconds(t)
    BY <1>2, <2>2 DEF Entry!OnChangeExpiresAtSeconds
  <2>3. CASE \E valid \in BOOLEAN, t \in Entry!Times : Entry!OnChangeExpiresAtDate(valid, t)
    <3>1. PICK valid \in BOOLEAN, t \in Entry!Times :
            Entry!ExpiryBecomes(IF valid
                THEN [Entry!ExpiryTimeUpdate(t) EXCEPT !.expiryInvalid = FALSE]
                ELSE [expiry EXCEPT !.expiryInvalid = TRUE])
      BY <2>3 DEF Entry!OnChangeExpiresAtDate
    <3>2. [expiry EXCEPT !.expiryInvalid = TRUE] \in ExpiryTypes
      BY <1>1 DEF ExpiryTypes
    <3>3. [Entry!ExpiryTimeUpdate(t) EXCEPT !.expiryInvalid = FALSE] \in ExpiryTypes
      <4> DEFINE updated == Entry!ExpiryTimeUpdate(t)
      <4>1. updated \in ExpiryTypes
        BY <1>2
      <4> HIDE DEF updated
      <4>2. [updated EXCEPT !.expiryInvalid = FALSE] \in ExpiryTypes
        BY <4>1 DEF ExpiryTypes
      <4>3. QED
        BY <4>2 DEF updated
    <3>4. QED
      BY <3>1, <3>2, <3>3
  <2>4. QED
    BY <2>1, <2>2, <2>3 DEF Entry!ExpiryFields
<1>4. PICK new \in ExpiryTypes : Entry!ExpiryBecomes(new)
  BY <1>3
<1>5. expiry' \in ExpiryTypes /\ expiry'.expiresAt = new.expiresAt
  BY <1>4 DEF Entry!ExpiryBecomes, ExpiryTypes
<1>6. QED
  BY <1>4, <1>5, SameDispatched DEF Entry!ExpiryBecomes, Entry!Dispatch

\* What is sent is typed: what has been parsed are ids.
LEMMA EntryPostTyped ==
    ASSUME EntryInv, EntryTypes, Entry!OnSubmit \/ Entry!OnYAMLEntryCreate
    PROVE  posts' \subseteq Entry!Posts /\ UNCHANGED <<store, manager, form, expiry, answer, created>>
<1>1. PICK es : /\ posts' = {[server |-> Entry!Endpoint, entries |-> es]}
                /\ UNCHANGED <<store, manager, form, expiry, answer, created>>
                /\ \/ Entry!Submittable /\ es = [form |-> Entry!FormEntry]
                   \/ es = [file |-> store.globalNewEntries]
  BY DEF Entry!OnSubmit, Entry!OnYAMLEntryCreate, Entry!Post
<1>2. Entry!Endpoint \in Servers \cup {NoServer}
  BY DEF Entry!Endpoint, EntryTypes, Entry!TypeOK, Entry!FormTypes, Entry!Blank
<1>3. es \in [form : Entry!Entry] \cup [file : Entry!NewEntries]
  <2>1. CASE Entry!Submittable /\ es = [form |-> Entry!FormEntry]
    <3>1. form.parentId \in Entry!Ids /\ form.spiffeId \in Entry!Ids
      BY <2>1 DEF Entry!Submittable, Entry!Parse
    <3>2. form.parentParts \in Entry!Ids /\ form.spiffeParts \in Entry!Ids
      BY <3>1, IdsMade DEF EntryInv, EntryParts, Entry!Parse
    <3>3. form.advanced \in BOOLEAN /\ store.globalEntryExpiryTime \in Entry!Times
      BY DEF EntryTypes, Entry!TypeOK, Entry!FormTypes
    <3>4. Entry!FormEntry \in Entry!Entry
      BY <3>2, <3>3 DEF Entry!FormEntry, Entry!Entry
    <3>5. QED
      BY <2>1, <3>4
  <2>2. CASE es = [file |-> store.globalNewEntries]
    BY <2>2 DEF EntryTypes
  <2>3. QED
    BY <1>1, <2>1, <2>2
<1>4. QED
  BY <1>1, <1>2, <1>3 DEF Entry!Posts

\* What an answer leaves.
LEMMA EntryReturnsTyped ==
    ASSUME EntryTypes, Entry!PostReturns
    PROVE  /\ answer' \in AnswerTypes /\ created' \subseteq Entry!Blank /\ posts' \subseteq Entry!Posts
           /\ UNCHANGED <<store, manager, form, expiry>>
<1>1. /\ answer \in AnswerTypes /\ created \subseteq Entry!Blank /\ posts \subseteq Entry!Posts
  BY DEF EntryTypes, Entry!TypeOK, AnswerTypes
<1>2. PICK c \in posts :
        /\ posts' = posts \ {c}
        /\ \/ \E result \in {"OK", "Failed"} : Entry!FormAnswered(c, result)
           \/ \E n \in 0 .. 2 : Entry!FileAnswered(c, n)
           \/ Entry!PostFails(c)
        /\ UNCHANGED <<store, manager, form, expiry>>
  BY DEF Entry!PostReturns
<1>3. c.server \in Entry!Blank
  BY <1>1 DEF Entry!Posts, Entry!Blank
<1>4. created' \in {created, created \cup {c.server}}
  BY <1>2 DEF Entry!FormAnswered, Entry!FileAnswered, Entry!PostFails
<1>5. ASSUME NEW result \in {"OK", "Failed"}, Entry!FormAnswered(c, result)
      PROVE  answer' \in AnswerTypes
  BY <1>1, <1>5 DEF Entry!FormAnswered, AnswerTypes
<1>6. ASSUME NEW n \in 0 .. 2, Entry!FileAnswered(c, n)
      PROVE  answer' \in AnswerTypes
  <2>1. c.entries.file \in Entry!NewEntries
    <3>1. c.entries \in [form : Entry!Entry] \cup [file : Entry!NewEntries]
      BY <1>1 DEF Entry!Posts
    <3>2. "file" \in DOMAIN c.entries
      BY <1>6 DEF Entry!FileAnswered
    <3>3. QED
      BY <3>1, <3>2
  <2>2. Len(c.entries.file) \in 0 .. 2
    BY <2>1 DEF Entry!NewEntries
  <2> DEFINE len == Len(c.entries.file)
             rest == len - n
  <2>3. n <= len
    BY <1>6 DEF Entry!FileAnswered
  <2>4. rest \in 0 .. 2
    <3>1. len \in 0 .. 2
      BY <2>2
    <3> HIDE DEF len
    <3>2. QED
      BY <2>3, <3>1
  <2>5. answer' = [answer EXCEPT !.message = TRUE, !.statusOK = "Multiple",
                                 !.success = n, !.fail = rest]
    BY <1>6 DEF Entry!FileAnswered
  <2> HIDE DEF rest
  <2>6. QED
    BY <1>1, <2>4, <2>5 DEF AnswerTypes
<1>7. QED
  BY <1>1, <1>2, <1>3, <1>4, <1>5, <1>6 DEF Entry!PostFails

\* One case for each action.
LEMMA EntryTypesInductive ==
    ASSUME Entry!FormAssumption, EntryInv, EntryTypes, Entry!Next \/ UNCHANGED Entry!vars
    PROVE  EntryTypes'
<1> DEFINE StoreOK ==
              /\ {"globalServerSelected", "globalEntryExpiryTime", "globalNewEntries"}
                    \subseteq DOMAIN store'
              /\ store'.globalEntryExpiryTime \in Entry!Times
              /\ store'.globalNewEntries \in Entry!NewEntries
<1>1. /\ Entry!FormTypes' = Entry!FormTypes /\ Entry!Times' = Entry!Times
      /\ Entry!Posts' = Entry!Posts /\ Entry!Blank' = Entry!Blank
      /\ Entry!NewEntries' = Entry!NewEntries
  BY DEF Entry!FormTypes, Entry!Times, Entry!Posts, Entry!Blank, Entry!NewEntries, Entry!Entry,
         Entry!Texts, Entry!Ids, Entry!Manual, Entry!Malformed
<1>2. ASSUME StoreOK, form' \in Entry!FormTypes, expiry' \in ExpiryTypes, answer' \in AnswerTypes,
             posts' \subseteq Entry!Posts, created' \subseteq Entry!Blank, UNCHANGED manager
      PROVE  EntryTypes'
  <2>1. manager' \in Modes
    BY <1>2 DEF EntryTypes, Entry!TypeOK
  <2>2. Entry!TypeOK'
    BY <1>1, <1>2, <2>1 DEF Entry!TypeOK, ExpiryTypes, AnswerTypes
  <2>3. QED
    BY <1>1, <1>2, <2>2 DEF EntryTypes
<1>3. /\ UNCHANGED store => StoreOK
      /\ form \in Entry!FormTypes /\ expiry \in ExpiryTypes /\ answer \in AnswerTypes
      /\ posts \subseteq Entry!Posts /\ created \subseteq Entry!Blank
  BY DEF EntryTypes, Entry!TypeOK, ExpiryTypes, AnswerTypes
<1> HIDE DEF StoreOK
<1>4. ASSUME NEW s \in Servers, Entry!ServerSelected(s) PROVE EntryTypes'
  <2> DEFINE action == Entry!serverSelectedFunc(s)
  <2>1. action.slice = "globalServerSelected"
    BY DEF Entry!serverSelectedFunc, Entry!Action
  <2>2. store' = Dispatched(<<action>>)
    BY <1>4, SameDispatched DEF Entry!ServerSelected, Entry!Dispatch
  <2> HIDE DEF action
  <2>3. StoreOK
    BY <2>1, <2>2, OneDispatched, DispatchedDomain DEF StoreOK, EntryTypes
  <2>4. form' = [form EXCEPT !.selectedServer = s] /\ s \in Entry!Blank
    BY <1>4 DEF Entry!ServerSelected, Entry!Blank
  <2>5. form' \in Entry!FormTypes
    BY <1>3, <2>4 DEF Entry!FormTypes
  <2>6. QED
    BY <1>2, <1>3, <1>4, <2>3, <2>5 DEF Entry!ServerSelected
<1>5. CASE Entry!Fields
  <2>1. answer' \in AnswerTypes
    BY <1>3, <1>5, EntryFieldsTyped DEF AnswerTypes
  <2>2. QED
    BY <1>2, <1>3, <1>5, <2>1, EntryFieldsTyped
<1>6. CASE Entry!ExpiryFields
  <2> DEFINE time == expiry'.expiresAt
             action == Entry!entryExpiryUpdateFunc(time)
  <2>1. expiry' \in ExpiryTypes /\ store' = Dispatched(<<action>>)
        /\ UNCHANGED <<manager, form, answer, posts, created>>
    BY <1>6, EntryExpiryTyped
  <2>2. time \in Entry!Times
    BY <2>1 DEF ExpiryTypes
  <2>3. action.slice = "globalEntryExpiryTime" /\ action.payload = time
    BY DEF Entry!entryExpiryUpdateFunc, Entry!Action
  <2> HIDE DEF action, time
  <2>4. StoreOK
    BY <2>1, <2>2, <2>3, OneDispatched, DispatchedDomain DEF StoreOK, EntryTypes
  <2>5. QED
    BY <1>2, <1>3, <2>1, <2>4
<1>7. CASE Entry!OnSubmit \/ Entry!OnYAMLEntryCreate
  BY <1>2, <1>3, <1>7, EntryPostTyped
<1>8. CASE Entry!PostReturns
  BY <1>2, <1>3, <1>8, EntryReturnsTyped
<1>9. CASE UNCHANGED Entry!vars
  BY <1>2, <1>3, <1>9 DEF Entry!vars
<1>10. QED
  BY <1>4, <1>5, <1>6, <1>7, <1>8, <1>9 DEF Entry!Next

----------------------------------------------------------------------------
(* The forms for clusters                                                   *)

ClusterFields == {"name", "platformType", "agentsList"}
AreClusters(cs) == \A c \in cs : DOMAIN c = ClusterFields
ListOfClusters(list) == list = NoServer \/ AreClusters(list)

ClusterStoreShape ==
    /\ {"globalServerSelected", "globalClustersList", "globalErrorMessage"} \subseteq DOMAIN store
    /\ store.globalServerSelected \in Clusters!Blank
    /\ ListOfClusters(store.globalClustersList)

ClusterShape ==
    /\ DOMAIN backend = Servers /\ \A s \in Servers : AreClusters(backend[s])
    /\ \A c \in posts : /\ c.op \in {"create", "edit"} => DOMAIN c.cluster = ClusterFields
                        /\ c.op = "list" => c.server \in Servers
                        /\ c.op = "delete" => ListOfClusters(c.list)
    /\ DOMAIN edit = {"fields", "selectedServer", "statusOK", "originalClusterName",
                      "clusterNameList"}
    /\ DOMAIN edit.fields = ClusterFields \cup {"manualEntry"}
    /\ DOMAIN chosen = {"cluster", "set"}

\* Under the name of a cluster, the fields are those of the cluster chosen under that name,
\* apart from what has been set since.
EditOfChosen ==
    edit.originalClusterName /= Clusters!Empty =>
        /\ edit.originalClusterName = chosen.cluster.name
        /\ DOMAIN chosen.cluster = ClusterFields
        /\ \A field \in ClusterFields \ chosen.set : edit.fields[field] = chosen.cluster[field]

ClusterInv == ClusterStoreShape /\ ClusterShape /\ EditOfChosen

\* The list is asked of a backend there is.
LEMMA ListOfServer ==
    ASSUME Clusters!ClusterAssumption, NEW st, st.globalServerSelected \in Clusters!Blank,
           NEW c \in Clusters!ListCalls(st)
    PROVE  c.op = "list" /\ c.server \in Servers
<1>1. PICK s \in {IF manager THEN Clusters!ServerAtMount(st) ELSE Own} \ {NoServer} :
        c = Clusters!Call("list", s, Clusters!Empty, <<>>)
  BY DEF Clusters!ListCalls
<1>2. s \in Servers
  <2>1. CASE manager
    BY <1>1, <2>1 DEF Clusters!ServerAtMount, Clusters!Blank
  <2>2. CASE ~manager
    BY <1>1, <2>2 DEF Clusters!ClusterAssumption
  <2>3. QED
    BY <2>1, <2>2
<1>3. QED
  BY <1>1, <1>2 DEF Clusters!Call

LEMMA MountedShape ==
    ASSUME NEW st
    PROVE  LET e == Clusters!MountedEdit(st)
           IN  /\ DOMAIN e = {"fields", "selectedServer", "statusOK", "originalClusterName",
                              "clusterNameList"}
               /\ DOMAIN e.fields = ClusterFields \cup {"manualEntry"}
               /\ e.originalClusterName = Clusters!Empty
BY DEF Clusters!MountedEdit, Clusters!BlankFields, ClusterFields

LEMMA ClusterInitial ==
    ASSUME Clusters!ClusterAssumption, Clusters!Init
    PROVE  ClusterInv
<1> DEFINE slices == {"globalServerSelected", "globalClustersList", "globalErrorMessage"}
<1>1. /\ "globalServerSelected" \in DOMAIN Clusters!serversInitial
      /\ "globalClustersList" \in DOMAIN Clusters!clustersInitial
      /\ "globalErrorMessage" \in DOMAIN Clusters!tornjakInitial
  BY DEF Clusters!serversInitial, Clusters!clustersInitial, Clusters!tornjakInitial
<1>2. slices \subseteq DOMAIN Clusters!InitialStore
  BY <1>1 DEF Clusters!InitialStore
<1>3. Clusters!InitialStore["globalClustersList"] = NoServer
  <2> DEFINE groups == {Clusters!serversInitial, Clusters!clustersInitial,
                        Clusters!federationsInitial, Clusters!agentsInitial,
                        Clusters!entriesInitial, Clusters!tornjakInitial, Clusters!authInitial}
             group == CHOOSE g \in groups : "globalClustersList" \in DOMAIN g
  <2>1. /\ "globalClustersList" \notin DOMAIN Clusters!serversInitial
        /\ "globalClustersList" \notin DOMAIN Clusters!federationsInitial
        /\ "globalClustersList" \notin DOMAIN Clusters!agentsInitial
        /\ "globalClustersList" \notin DOMAIN Clusters!entriesInitial
        /\ "globalClustersList" \notin DOMAIN Clusters!tornjakInitial
        /\ "globalClustersList" \notin DOMAIN Clusters!authInitial
    BY DEF Clusters!serversInitial, Clusters!federationsInitial, Clusters!agentsInitial,
           Clusters!entriesInitial, Clusters!tornjakInitial, Clusters!authInitial
  <2>2. \A g \in groups : "globalClustersList" \in DOMAIN g => g = Clusters!clustersInitial
    BY <2>1
  <2>3. group = Clusters!clustersInitial
    <3>1. Clusters!clustersInitial \in groups
      OBVIOUS
    <3> HIDE DEF groups
    <3> QED  BY <1>1, <2>2, <3>1
  <2>4. Clusters!InitialStore["globalClustersList"] = group["globalClustersList"]
    <3>1. "globalClustersList" \in UNION {DOMAIN g : g \in groups}
      BY <1>1
    <3>2. Clusters!InitialStore
            = [slice \in UNION {DOMAIN g : g \in groups} |->
                  (CHOOSE g \in groups : slice \in DOMAIN g)[slice]]
      BY DEF Clusters!InitialStore
    <3> HIDE DEF groups
    <3> QED  BY <3>1, <3>2
  <2>5. Clusters!clustersInitial["globalClustersList"] = NoServer
    BY DEF Clusters!clustersInitial
  <2> HIDE DEF groups, group
  <2>6. QED
    BY <2>3, <2>4, <2>5
<1>4. PICK s \in Clusters!Blank, message \in Clusters!Messages :
        store = [Clusters!InitialStore EXCEPT !.globalServerSelected = s,
                                              !.globalErrorMessage = message]
  BY DEF Clusters!Init
<1>5. /\ DOMAIN store = DOMAIN Clusters!InitialStore /\ store.globalServerSelected = s
      /\ store.globalClustersList = NoServer
  BY <1>2, <1>3, <1>4
<1>6. ClusterStoreShape
  BY <1>2, <1>5 DEF ClusterStoreShape, ListOfClusters
<1>7. DOMAIN backend = Servers /\ \A t \in Servers : AreClusters(backend[t])
  BY DEF Clusters!Init, Clusters!Cluster, AreClusters, ClusterFields
<1>8. \A c \in posts : c.op = "list" /\ c.server \in Servers
  BY <1>5, ListOfServer DEF Clusters!Init
<1>9. ClusterShape /\ EditOfChosen
  BY <1>7, <1>8, MountedShape DEF Clusters!Init, ClusterShape, EditOfChosen
<1>10. QED
  BY <1>6, <1>9 DEF ClusterInv

\* A field is set, and no other: it is of the fields set since the cluster was chosen.
LEMMA FieldChanged ==
    ASSUME NEW f, DOMAIN f = ClusterFields \cup {"manualEntry"}, NEW c \in Clusters!Changes(f)
    PROVE  /\ DOMAIN c[2] = DOMAIN f
           /\ \A field \in ClusterFields : field /= c[1] => c[2][field] = f[field]
<1> USE DEF ClusterFields
<1>1. \/ \E n : c = <<"name", [f EXCEPT !.name = n]>>
      \/ \E t : c = <<"platformType", Clusters!OnChangeClusterType(f, t)>>
      \/ \E t : c = <<"platformType", [f EXCEPT !.platformType = t]>>
      \/ \E a : c = <<"agentsList", [f EXCEPT !.agentsList = a]>>
  BY DEF Clusters!Changes
<1>2. CASE \E n : c = <<"name", [f EXCEPT !.name = n]>>
  BY <1>2
<1>3. CASE \E t : c = <<"platformType", Clusters!OnChangeClusterType(f, t)>>
  <2>1. PICK t : c = <<"platformType", Clusters!OnChangeClusterType(f, t)>>
    BY <1>3
  <2>2. c[1] = "platformType" /\ c[2] = [f EXCEPT !.platformType = t, !.manualEntry = (t = Clusters!Manual)]
    BY <2>1 DEF Clusters!OnChangeClusterType
  <2>3. QED
    BY <2>2, Zenon
<1>4. CASE \E t : c = <<"platformType", [f EXCEPT !.platformType = t]>>
  BY <1>4
<1>5. CASE \E a : c = <<"agentsList", [f EXCEPT !.agentsList = a]>>
  BY <1>5
<1>6. QED
  BY <1>1, <1>2, <1>3, <1>4, <1>5

\* What stays when neither the edit, the list nor the choice is touched.
LEMMA ClusterSent ==
    ASSUME Clusters!ClusterAssumption, ClusterInv,
           Clusters!Create \/ Clusters!Edit \/ Clusters!DeleteCluster
    PROVE  ClusterInv' /\ Clusters!EditStep
<1> USE DEF ClusterInv, ClusterShape
<1>1. UNCHANGED <<store, manager, backend, edit, chosen>>
  BY DEF Clusters!Create, Clusters!Edit, Clusters!DeleteCluster
<1>2. \A f : DOMAIN Clusters!ClusterOf(f) = ClusterFields
  BY DEF Clusters!ClusterOf, ClusterFields
<1>3. ASSUME NEW c \in posts' \ posts
      PROVE  /\ c.op \in {"create", "edit"} => DOMAIN c.cluster = ClusterFields
             /\ c.op = "list" => c.server \in Servers
             /\ c.op = "delete" => ListOfClusters(c.list)
             /\ c.op = "edit" => /\ edit.originalClusterName /= Clusters!Empty
                                 /\ c.name = edit.originalClusterName
                                 /\ c.cluster = Clusters!ClusterOf(edit.fields)
  <2>1. CASE Clusters!Create
    BY <1>2, <2>1 DEF Clusters!Create, Clusters!Call
  <2>2. CASE Clusters!Edit
    <3>1. CASE c \in Clusters!ListCalls(store)
      BY <3>1, ListOfServer DEF ClusterStoreShape
    <3>2. CASE c \notin Clusters!ListCalls(store)
      BY <1>2, <2>2, <3>2 DEF Clusters!Edit, Clusters!Call
    <3>3. QED
      BY <3>1, <3>2
  <2>3. CASE Clusters!DeleteCluster
    BY <2>3 DEF Clusters!DeleteCluster, Clusters!Deletion, ClusterStoreShape
  <2>4. QED
    BY <2>1, <2>2, <2>3
<1>4. ASSUME NEW c \in posts' \ posts, c.op = "edit"
      PROVE  /\ c.name = chosen.cluster.name
             /\ \A field \in DOMAIN chosen.cluster \ chosen.set :
                    c.cluster[field] = chosen.cluster[field]
  <2>1. /\ edit.originalClusterName /= Clusters!Empty
        /\ c.name = edit.originalClusterName /\ c.cluster = Clusters!ClusterOf(edit.fields)
    BY <1>3, <1>4
  <2>2. \A field \in ClusterFields : c.cluster[field] = edit.fields[field]
    BY <2>1 DEF Clusters!ClusterOf, ClusterFields
  <2>3. QED
    BY <2>1, <2>2 DEF EditOfChosen
<1>5. Clusters!EditStep
  BY <1>4 DEF Clusters!EditStep
<1>6. ClusterShape'
  BY <1>1, <1>3 DEF ListOfClusters, AreClusters
<1>7. ClusterStoreShape' /\ EditOfChosen'
  BY <1>1 DEF ClusterStoreShape, EditOfChosen, Clusters!Empty, Clusters!Blank, ListOfClusters,
              AreClusters
<1>8. QED
  BY <1>5, <1>6, <1>7

\* The header selects another server, which both forms take over.
LEMMA ClusterServerSelected ==
    ASSUME ClusterInv, NEW s \in Servers, Clusters!ServerSelected(s)
    PROVE  ClusterInv'
<1> USE DEF ClusterInv, ClusterShape
<1> DEFINE action == Clusters!serverSelectedFunc(s)
<1>1. action.slice = "globalServerSelected" /\ action.payload = s
  BY DEF Clusters!serverSelectedFunc, Clusters!Action
<1>2. store' = Dispatched(<<action>>)
  BY SameDispatched DEF Clusters!ServerSelected, Clusters!Dispatch
<1> HIDE DEF action
<1>3. /\ DOMAIN store' = DOMAIN store /\ store'.globalServerSelected = s
      /\ store'.globalClustersList = store.globalClustersList
  BY <1>1, <1>2, OneDispatched, DispatchedDomain DEF ClusterStoreShape
<1>4. /\ DOMAIN edit' = DOMAIN edit /\ edit'.fields = edit.fields
      /\ edit'.originalClusterName = edit.originalClusterName
  BY Zenon DEF Clusters!ServerSelected
<1>5. UNCHANGED <<manager, backend, posts, chosen>>
  BY DEF Clusters!ServerSelected
<1>6. ClusterStoreShape'
  BY <1>3 DEF ClusterStoreShape, Clusters!Blank, ListOfClusters, AreClusters
<1>7. ClusterShape' /\ EditOfChosen'
  BY <1>4, <1>5 DEF EditOfChosen, Clusters!Empty, ListOfClusters, AreClusters
<1>8. QED
  BY <1>6, <1>7

\* The fields of either form.
LEMMA ClusterFormChanges ==
    ASSUME ClusterInv, Clusters!FormChanges \/ Clusters!EditChanges
    PROVE  ClusterInv' /\ UNCHANGED posts
<1> USE DEF ClusterInv, ClusterShape
<1>1. UNCHANGED <<store, manager, backend, posts>>
  BY DEF Clusters!FormChanges, Clusters!EditChanges
<1>2. ClusterStoreShape'
  BY <1>1 DEF ClusterStoreShape, Clusters!Blank, ListOfClusters, AreClusters
<1>3. ASSUME Clusters!FormChanges PROVE ClusterShape' /\ EditOfChosen'
  <2>1. UNCHANGED <<edit, chosen>>
    BY <1>3 DEF Clusters!FormChanges
  <2>2. QED
    BY <1>1, <2>1 DEF EditOfChosen, Clusters!Empty, ListOfClusters, AreClusters
<1>4. ASSUME Clusters!EditChanges PROVE ClusterShape' /\ EditOfChosen'
  <2>1. PICK c \in Clusters!Changes(edit.fields) :
          /\ edit' = [edit EXCEPT !.fields = c[2]]
          /\ chosen' = [chosen EXCEPT !.set = chosen.set \cup {c[1]}]
    BY <1>4 DEF Clusters!EditChanges
  <2>2. /\ DOMAIN edit' = DOMAIN edit /\ edit'.fields = c[2]
        /\ edit'.originalClusterName = edit.originalClusterName
        /\ DOMAIN chosen' = DOMAIN chosen /\ chosen'.cluster = chosen.cluster
        /\ chosen'.set = chosen.set \cup {c[1]}
    BY <2>1, Zenon
  <2>3. /\ DOMAIN c[2] = DOMAIN edit.fields
        /\ \A field \in ClusterFields : field /= c[1] => c[2][field] = edit.fields[field]
    BY FieldChanged
  <2>4. ClusterShape'
    BY <1>1, <2>2, <2>3 DEF ListOfClusters, AreClusters
  <2>5. EditOfChosen'
    BY <2>2, <2>3 DEF EditOfChosen, Clusters!Empty
  <2>6. QED
    BY <2>4, <2>5
<1>5. QED
  BY <1>1, <1>2, <1>3, <1>4

\* A cluster is chosen from the list: the fields are its own, and none is set since.
LEMMA ClusterChosen ==
    ASSUME ClusterInv, NEW name, Clusters!OnChangeClusterNameList(name)
    PROVE  ClusterInv' /\ UNCHANGED posts
<1> USE DEF ClusterInv, ClusterShape
<1>1. UNCHANGED <<store, manager, backend, posts>>
  BY DEF Clusters!OnChangeClusterNameList
<1>2. PICK cluster \in store.globalClustersList :
        /\ store.globalClustersList /= NoServer
        /\ edit' = Clusters!Loaded(cluster)
        /\ chosen' = [cluster |-> cluster, set |-> {}]
  BY DEF Clusters!OnChangeClusterNameList
<1>3. DOMAIN cluster = ClusterFields
  BY <1>2 DEF ClusterStoreShape, ListOfClusters, AreClusters
<1>4. /\ DOMAIN edit' = DOMAIN edit /\ edit'.originalClusterName = cluster.name
      /\ DOMAIN edit'.fields = DOMAIN edit.fields
      /\ edit'.fields.name = cluster.name
      /\ edit'.fields.platformType = cluster.platformType
      /\ edit'.fields.agentsList = cluster.agentsList
  BY <1>2 DEF Clusters!Loaded, ClusterFields
<1>5. ClusterStoreShape'
  BY <1>1 DEF ClusterStoreShape, Clusters!Blank, ListOfClusters, AreClusters
<1>6. ClusterShape'
  BY <1>1, <1>2, <1>4 DEF ListOfClusters, AreClusters
<1>7. EditOfChosen'
  BY <1>2, <1>3, <1>4 DEF EditOfChosen, ClusterFields
<1>8. QED
  BY <1>1, <1>5, <1>6, <1>7

\* A backend holds clusters, whatever it carries out.
LEMMA ClustersHeld ==
    ASSUME ClusterInv, NEW c \in posts, c.server \in Servers,
           NEW cs \in Clusters!CarriedOut(c) \cup {backend[c.server]}
    PROVE  AreClusters(cs)
<1>1. AreClusters(backend[c.server])
  BY DEF ClusterInv, ClusterShape
<1>2. c.op \in {"create", "edit"} => DOMAIN c.cluster = ClusterFields
  BY DEF ClusterInv, ClusterShape
<1>3. CASE cs \in Clusters!CarriedOut(c)
  <2>1. CASE c.op = "create"
    BY <1>1, <1>2, <1>3, <2>1 DEF Clusters!CarriedOut, AreClusters
  <2>2. CASE c.op = "edit"
    <3>1. cs = (backend[c.server] \ Clusters!Held(c.server, c.name)) \cup {c.cluster}
      BY <1>3, <2>2 DEF Clusters!CarriedOut
    <3>2. QED
      BY <1>1, <1>2, <2>2, <3>1 DEF AreClusters
  <2>3. CASE c.op = "delete"
    BY <1>1, <1>3, <2>3 DEF Clusters!CarriedOut, AreClusters
  <2>4. CASE c.op \notin {"create", "edit", "delete"}
    BY <1>3, <2>4 DEF Clusters!CarriedOut
  <2>5. QED
    BY <2>1, <2>2, <2>3, <2>4
<1>4. QED
  BY <1>1, <1>3

\* A list comes in.
LEMMA ClusterListReturns ==
    ASSUME ClusterInv, NEW c \in posts, c.op = "list",
           NEW list \in {backend[c.server], NoServer}, Clusters!ListReturns(c, list),
           UNCHANGED manager
    PROVE  ClusterInv' /\ posts' \subseteq posts
<1> USE DEF ClusterInv, ClusterShape
<1> DEFINE a == Clusters!clustersListUpdateFunc(list)
           message == IF list = NoServer THEN "Error retrieving" ELSE "OK"
           b == Clusters!tornjakMessageFunc(message)
<1>1. /\ a.slice = "globalClustersList" /\ a.payload = list
      /\ b.slice = "globalErrorMessage"
  BY DEF Clusters!clustersListUpdateFunc, Clusters!tornjakMessageFunc, Clusters!Action
<1>2. store' = Dispatched(<<a, b>>)
  BY SameDispatched DEF Clusters!ListReturns, Clusters!Dispatch
<1>3. /\ edit' = [edit EXCEPT !.clusterNameList = Clusters!NamesOf(list)]
      /\ posts' = posts \ {c} /\ UNCHANGED <<backend, chosen>>
  BY DEF Clusters!ListReturns
<1> HIDE DEF a, b, message
<1>4. /\ DOMAIN store' = DOMAIN store
      /\ store'.globalServerSelected = store.globalServerSelected
      /\ store'.globalClustersList = list
  BY <1>1, <1>2, TwoDispatched, DispatchedDomain DEF ClusterStoreShape
<1>5. ListOfClusters(list)
  BY DEF ListOfClusters
<1>6. ClusterStoreShape'
  BY <1>4, <1>5 DEF ClusterStoreShape, Clusters!Blank, ListOfClusters, AreClusters
<1>7. /\ DOMAIN edit' = DOMAIN edit /\ edit'.fields = edit.fields
      /\ edit'.originalClusterName = edit.originalClusterName
  BY <1>3, Zenon
<1>8. ClusterShape' /\ EditOfChosen'
  BY <1>3, <1>7 DEF EditOfChosen, Clusters!Empty, ListOfClusters, AreClusters
<1>9. QED
  BY <1>3, <1>6, <1>8

\* A deletion puts a list back.
LEMMA ListPutBack ==
    ASSUME ClusterStoreShape, NEW list, ListOfClusters(list),
           Clusters!Dispatch(<<Clusters!clustersListUpdateFunc(list)>>)
    PROVE  /\ ClusterStoreShape' /\ store'.globalClustersList = list
           /\ store'.globalServerSelected \in Clusters!Blank
<1> DEFINE action == Clusters!clustersListUpdateFunc(list)
<1>1. action.slice = "globalClustersList" /\ action.payload = list
  BY DEF Clusters!clustersListUpdateFunc, Clusters!Action
<1>2. store' = Dispatched(<<action>>)
  BY SameDispatched DEF Clusters!Dispatch
<1> HIDE DEF action
<1>3. /\ DOMAIN store' = DOMAIN store
      /\ store'.globalServerSelected = store.globalServerSelected
      /\ store'.globalClustersList = list
  BY <1>1, <1>2, OneDispatched, DispatchedDomain DEF ClusterStoreShape
<1>4. QED
  BY <1>3 DEF ClusterStoreShape, Clusters!Blank, ListOfClusters, AreClusters

\* What a success leaves of the page: a backend's tab that has deleted loads it again.
LEMMA ClusterSucceeds ==
    ASSUME Clusters!ClusterAssumption, ClusterInv, NEW c \in posts, Clusters!Succeeds(c)
    PROVE  /\ ClusterStoreShape' /\ EditOfChosen'
           /\ DOMAIN edit' = DOMAIN edit /\ DOMAIN edit'.fields = DOMAIN edit.fields
           /\ DOMAIN chosen' = DOMAIN chosen
           /\ \A p \in posts' \ posts : p.op = "list" /\ p.server \in Servers
<1> USE DEF ClusterInv, ClusterShape
<1>1. CASE c.op \in {"create", "edit"}
  <2>1. UNCHANGED <<store, chosen>> /\ posts' = posts \ {c}
    BY <1>1 DEF Clusters!Succeeds
  <2>2. /\ DOMAIN edit' = DOMAIN edit /\ edit'.fields = edit.fields
        /\ edit'.originalClusterName = edit.originalClusterName
    <3>1. edit' = [edit EXCEPT !.statusOK = "OK"] \/ edit' = edit
      BY <1>1 DEF Clusters!Succeeds
    <3>2. QED
      BY <3>1, Zenon
  <2>3. QED
    BY <2>1, <2>2 DEF ClusterStoreShape, Clusters!Blank, EditOfChosen, Clusters!Empty,
                      ListOfClusters, AreClusters
<1>2. CASE c.op = "delete" /\ manager
  <2>1. /\ Clusters!Dispatch(<<Clusters!clustersListUpdateFunc(c.list)>>)
        /\ edit' = [edit EXCEPT !.clusterNameList = Clusters!NamesOf(c.list)]
        /\ posts' = posts \ {c} /\ UNCHANGED chosen
    BY <1>2 DEF Clusters!Succeeds
  <2>2. ClusterStoreShape'
    BY <1>2, <2>1, ListPutBack
  <2>3. /\ DOMAIN edit' = DOMAIN edit /\ edit'.fields = edit.fields
        /\ edit'.originalClusterName = edit.originalClusterName
    BY <2>1, Zenon
  <2>4. QED
    BY <2>1, <2>2, <2>3 DEF EditOfChosen, Clusters!Empty
<1>3. CASE c.op = "delete" /\ ~manager
  <2> DEFINE rest == Clusters!Without(c.list, c.name)
  <2>1. /\ Clusters!Dispatch(<<Clusters!clustersListUpdateFunc(rest)>>)
        /\ chosen' = [cluster |-> <<>>, set |-> {}]
        /\ edit' = Clusters!MountedEdit(store') /\ posts' = Clusters!ListCalls(store')
    BY <1>3 DEF Clusters!Succeeds
  <2>2. ListOfClusters(rest)
    BY <1>3 DEF Clusters!Without, ListOfClusters, AreClusters
  <2> HIDE DEF rest
  <2>3. ClusterStoreShape' /\ store'.globalServerSelected \in Clusters!Blank
    BY <2>1, <2>2, ListPutBack
  <2>4. \A p \in posts' : p.op = "list" /\ p.server \in Servers
    BY <2>1, <2>3, ListOfServer
  <2>5. /\ DOMAIN edit' = DOMAIN edit /\ DOMAIN edit'.fields = DOMAIN edit.fields
        /\ edit'.originalClusterName = Clusters!Empty
    BY <2>1, MountedShape
  <2>6. QED
    BY <2>1, <2>3, <2>4, <2>5 DEF EditOfChosen, Clusters!Empty
<1>4. QED
  BY <1>1, <1>2, <1>3 DEF Clusters!Succeeds

\* A call that is no list's succeeds or fails, and the backend has carried it out or not.
LEMMA ClusterAnswered ==
    ASSUME Clusters!ClusterAssumption, ClusterInv, NEW c \in posts,
           Clusters!CallSucceeds(c) \/ Clusters!CallFails(c)
    PROVE  ClusterInv' /\ \A p \in posts' \ posts : p.op = "list"
<1> USE DEF ClusterInv, ClusterShape
<1>1. PICK cs \in Clusters!CarriedOut(c) \cup {backend[c.server]} :
        backend' = [backend EXCEPT ![c.server] = cs]
  BY DEF Clusters!CallSucceeds, Clusters!CallFails
<1>2. c.server \in Servers => AreClusters(cs)
  BY ClustersHeld
<1>3. DOMAIN backend' = Servers /\ \A s \in Servers : AreClusters(backend'[s])
  BY <1>1, <1>2
<1>4. CASE Clusters!CallSucceeds(c)
  <2>1. Clusters!Succeeds(c)
    BY <1>4 DEF Clusters!CallSucceeds
  <2>2. /\ ClusterStoreShape' /\ EditOfChosen'
        /\ DOMAIN edit' = DOMAIN edit /\ DOMAIN edit'.fields = DOMAIN edit.fields
        /\ DOMAIN chosen' = DOMAIN chosen
        /\ \A p \in posts' \ posts : p.op = "list" /\ p.server \in Servers
    BY <2>1, ClusterSucceeds
  <2>3. ClusterShape'
    BY <1>3, <2>2 DEF ListOfClusters, AreClusters
  <2>4. QED
    BY <2>2, <2>3
<1>5. CASE Clusters!CallFails(c)
  <2>1. UNCHANGED <<store, edit, chosen>> /\ posts' = posts \ {c}
    BY <1>5 DEF Clusters!CallFails
  <2>2. ClusterStoreShape' /\ EditOfChosen'
    BY <2>1 DEF ClusterStoreShape, Clusters!Blank, EditOfChosen, Clusters!Empty, ListOfClusters,
                AreClusters
  <2>3. ClusterShape'
    BY <1>3, <2>1 DEF ListOfClusters, AreClusters
  <2>4. QED
    BY <2>1, <2>2, <2>3
<1>6. QED
  BY <1>4, <1>5

LEMMA ClusterInductive ==
    ASSUME Clusters!ClusterAssumption, ClusterInv, Clusters!Next \/ UNCHANGED Clusters!vars
    PROVE  ClusterInv' /\ Clusters!EditStep
<1>1. (\A c \in posts' \ posts : c.op = "list") => Clusters!EditStep
  BY DEF Clusters!EditStep
<1>2. CASE \E s \in Servers : Clusters!ServerSelected(s)
  BY <1>1, <1>2, ClusterServerSelected DEF Clusters!ServerSelected
<1>3. CASE Clusters!FormChanges \/ Clusters!EditChanges
  BY <1>1, <1>3, ClusterFormChanges
<1>4. CASE \E name \in ClusterNames : Clusters!OnChangeClusterNameList(name)
  BY <1>1, <1>4, ClusterChosen
<1>5. CASE Clusters!Create \/ Clusters!Edit \/ Clusters!DeleteCluster
  BY <1>5, ClusterSent
<1>6. CASE Clusters!Returns
  <2>1. UNCHANGED manager
    BY <1>6 DEF Clusters!Returns
  <2>2. CASE \E c \in posts : Clusters!CallSucceeds(c) \/ Clusters!CallFails(c)
    BY <1>1, <2>2, ClusterAnswered
  <2>3. CASE \E c \in posts : c.op = "list" /\ \E list \in {backend[c.server], NoServer} :
                Clusters!ListReturns(c, list)
    BY <1>1, <2>1, <2>3, ClusterListReturns
  <2>4. QED
    BY <1>6, <2>2, <2>3 DEF Clusters!Returns
<1>7. CASE UNCHANGED Clusters!vars
  <2>1. UNCHANGED <<store, manager, backend, edit, posts, chosen>>
    BY <1>7 DEF Clusters!vars
  <2>2. ClusterInv'
    BY <2>1 DEF ClusterInv, ClusterShape, ClusterStoreShape, EditOfChosen, Clusters!Blank,
                Clusters!Empty, ListOfClusters, AreClusters
  <2>3. QED
    BY <1>1, <2>1, <2>2
<1>8. QED
  BY <1>2, <1>3, <1>4, <1>5, <1>6, <1>7 DEF Clusters!Next

----------------------------------------------------------------------------
(* The types of the forms for clusters                                      *)

\* The option to type a type is chosen only with the field that it opens.
TypeTold(f) == f.platformType = Clusters!Manual => f.manualEntry

\* The clusters that are sent have the types of clusters.
ClustersTyped ==
    /\ Clusters!TypeOK
    /\ DOMAIN form = {"fields", "selectedServer", "statusOK"}
    /\ TypeTold(form.fields) /\ TypeTold(edit.fields)
    /\ \A c \in posts : c.op \in {"create", "edit"} => c.cluster \in Clusters!Cluster

\* What is set in a form.
LEMMA FieldsTyped ==
    ASSUME Clusters!ClusterAssumption, NEW f \in Clusters!FieldTypes, TypeTold(f),
           NEW c \in Clusters!Changes(f)
    PROVE  c[2] \in Clusters!FieldTypes /\ TypeTold(c[2])
<1>1. Clusters!Manual \notin ClusterTypes \cup {Clusters!Empty}
  BY DEF Clusters!ClusterAssumption, Clusters!Manual, Clusters!Empty
<1>2. \/ \E n \in ClusterNames \cup {Clusters!Empty} : c = <<"name", [f EXCEPT !.name = n]>>
      \/ \E t \in ClusterTypes \cup {Clusters!Manual} :
            c = <<"platformType", Clusters!OnChangeClusterType(f, t)>>
      \/ \E t \in ClusterTypes \cup {Clusters!Empty} :
            c = <<"platformType", [f EXCEPT !.platformType = t]>>
      \/ \E a \in ClusterAgents : c = <<"agentsList", [f EXCEPT !.agentsList = a]>>
  BY DEF Clusters!Changes
<1>3. CASE \E n \in ClusterNames \cup {Clusters!Empty} : c = <<"name", [f EXCEPT !.name = n]>>
  BY <1>3 DEF Clusters!FieldTypes, TypeTold
<1>4. CASE \E t \in ClusterTypes \cup {Clusters!Manual} :
              c = <<"platformType", Clusters!OnChangeClusterType(f, t)>>
  <2>1. PICK t \in ClusterTypes \cup {Clusters!Manual} :
          c = <<"platformType", Clusters!OnChangeClusterType(f, t)>>
    BY <1>4
  <2>2. c[2] = [f EXCEPT !.platformType = t, !.manualEntry = (t = Clusters!Manual)]
    BY <2>1 DEF Clusters!OnChangeClusterType
  <2>3. (t = Clusters!Manual) \in BOOLEAN
    BY Zenon
  <2>4. c[2] \in Clusters!FieldTypes
    BY <2>2, <2>3 DEF Clusters!FieldTypes
  <2>5. c[2].platformType = t /\ c[2].manualEntry = (t = Clusters!Manual)
    BY <2>2 DEF Clusters!FieldTypes
  <2>6. QED
    BY <2>4, <2>5, Zenon DEF TypeTold
<1>5. CASE \E t \in ClusterTypes \cup {Clusters!Empty} :
              c = <<"platformType", [f EXCEPT !.platformType = t]>>
  <2>1. PICK t \in ClusterTypes \cup {Clusters!Empty} :
          c = <<"platformType", [f EXCEPT !.platformType = t]>>
    BY <1>5
  <2>2. c[2] = [f EXCEPT !.platformType = t] /\ t /= Clusters!Manual
    BY <1>1, <2>1
  <2>3. c[2] \in Clusters!FieldTypes /\ c[2].platformType = t
    BY <2>2 DEF Clusters!FieldTypes
  <2>4. QED
    BY <2>2, <2>3 DEF TypeTold
<1>6. CASE \E a \in ClusterAgents : c = <<"agentsList", [f EXCEPT !.agentsList = a]>>
  BY <1>6 DEF Clusters!FieldTypes, TypeTold
<1>7. QED
  BY <1>2, <1>3, <1>4, <1>5, <1>6

\* The cluster that a form makes.
LEMMA ClusterOfFields ==
    ASSUME NEW f \in Clusters!FieldTypes, TypeTold(f), Clusters!TypeChosen(f),
           f.name /= Clusters!Empty
    PROVE  Clusters!ClusterOf(f) \in Clusters!Cluster
<1>1. f.platformType /= Clusters!Manual
  BY DEF TypeTold, Clusters!TypeChosen
<1>2. /\ f.name \in ClusterNames /\ f.platformType \in ClusterTypes \cup {Clusters!Empty}
      /\ f.agentsList \in ClusterAgents
  BY <1>1 DEF Clusters!FieldTypes
<1>3. QED
  BY <1>2 DEF Clusters!ClusterOf, Clusters!Cluster

\* The names beside a list.
LEMMA NamesTyped ==
    ASSUME NEW list, Clusters!IsList(list)
    PROVE  Clusters!NamesOf(list) \subseteq ClusterNames
BY DEF Clusters!NamesOf, Clusters!Cluster, Clusters!IsList

\* What a page that is mounted shows.
LEMMA MountedTyped ==
    ASSUME Clusters!ClusterAssumption, NEW st, st.globalServerSelected \in Clusters!Blank,
           Clusters!IsList(st.globalClustersList)
    PROVE  LET f == Clusters!MountedForm(st)
               e == Clusters!MountedEdit(st)
           IN  /\ DOMAIN f = {"fields", "selectedServer", "statusOK"}
               /\ f.fields \in Clusters!FieldTypes /\ TypeTold(f.fields)
               /\ e.fields \in Clusters!FieldTypes /\ TypeTold(e.fields)
               /\ {f.selectedServer, e.selectedServer} \subseteq Clusters!Blank
               /\ e.originalClusterName = Clusters!Empty
               /\ e.clusterNameList \subseteq ClusterNames
<1>1. Clusters!ServerAtMount(st) \in Clusters!Blank
  BY DEF Clusters!ServerAtMount, Clusters!Blank
<1>2. Clusters!BlankFields \in Clusters!FieldTypes
  BY DEF Clusters!BlankFields, Clusters!FieldTypes, Clusters!ClusterAssumption
<1>3. TypeTold(Clusters!BlankFields)
  BY DEF TypeTold, Clusters!BlankFields, Clusters!Empty, Clusters!Manual
<1>4. Clusters!NamesOf(st.globalClustersList) \subseteq ClusterNames
  BY NamesTyped
<1>5. QED
  BY <1>1, <1>2, <1>3, <1>4 DEF Clusters!MountedForm, Clusters!MountedEdit

\* The pages start mounted.
LEMMA ClusterTypesInitial ==
    ASSUME Clusters!ClusterAssumption, Clusters!Init
    PROVE  ClustersTyped
<1>1. ClusterInv
  BY ClusterInitial
<1>2. store.globalServerSelected \in Clusters!Blank /\ store.globalClustersList = NoServer
  <2>1. PICK s \in Clusters!Blank, message \in Clusters!Messages :
          store = [Clusters!InitialStore EXCEPT !.globalServerSelected = s,
                                                !.globalErrorMessage = message]
    BY DEF Clusters!Init
  <2>2. "globalClustersList" \in DOMAIN clustersInitial /\ clustersInitial.globalClustersList = NoServer
    BY DEF clustersInitial
  <2>3. /\ "globalClustersList" \in DOMAIN Clusters!InitialStore
        /\ Clusters!InitialStore.globalClustersList = NoServer
    BY <2>2, InitialSlices, SameInitialStore
  <2>4. QED
    BY <1>1, <2>1, <2>3 DEF ClusterInv, ClusterStoreShape
<1>3. \A c \in posts : c.op = "list" /\ c.server \in Servers
  BY <1>2, ListOfServer DEF Clusters!Init
<1>4. /\ form = Clusters!MountedForm(store) /\ edit = Clusters!MountedEdit(store)
      /\ manager \in Modes /\ chosen.cluster = <<>>
      /\ backend \in [Servers -> SUBSET Clusters!Cluster]
  BY DEF Clusters!Init
<1>5. Clusters!TypeOK
  BY <1>2, <1>3, <1>4, MountedTyped DEF Clusters!TypeOK, Clusters!IsList
<1>6. QED
  BY <1>2, <1>3, <1>4, <1>5, MountedTyped DEF ClustersTyped, Clusters!IsList

\* What a backend has once a request is carried out.
LEMMA CarriedOutTyped ==
    ASSUME ClustersTyped, NEW c \in posts,
           NEW cs \in Clusters!CarriedOut(c) \cup {backend[c.server]}
    PROVE  cs \subseteq Clusters!Cluster
<1>1. backend[c.server] \subseteq Clusters!Cluster
  <2>1. backend \in [Servers -> SUBSET Clusters!Cluster]
    BY Zenon DEF ClustersTyped, Clusters!TypeOK
  <2>2. c.server \in Servers
    BY DEF ClustersTyped, Clusters!TypeOK, Clusters!IsList
  <2>3. QED
    BY <2>1, <2>2
<1>2. c.op \in {"create", "edit"} => c.cluster \in Clusters!Cluster
  BY DEF ClustersTyped
<1>3. CASE cs \in Clusters!CarriedOut(c)
  <2>1. CASE c.op = "create"
    BY <1>1, <1>2, <1>3, <2>1 DEF Clusters!CarriedOut
  <2>2. CASE c.op = "edit"
    <3>1. cs = (backend[c.server] \ Clusters!Held(c.server, c.name)) \cup {c.cluster}
      BY <1>3, <2>2 DEF Clusters!CarriedOut
    <3>2. QED
      BY <1>1, <1>2, <2>2, <3>1
  <2>3. CASE c.op = "delete"
    BY <1>1, <1>3, <2>3 DEF Clusters!CarriedOut
  <2>4. CASE c.op \notin {"create", "edit", "delete"}
    BY <1>3, <2>4 DEF Clusters!CarriedOut
  <2>5. QED
    BY <2>1, <2>2, <2>3, <2>4
<1>4. QED
  BY <1>1, <1>3

\* One case for each action.
LEMMA ClusterTypesInductive ==
    ASSUME Clusters!ClusterAssumption, ClusterInv, ClustersTyped,
           Clusters!Next \/ UNCHANGED Clusters!vars
    PROVE  ClustersTyped'
<1> DEFINE StoreOK == Clusters!IsList(store'.globalClustersList)
           BackendOK == backend' \in [Servers -> SUBSET Clusters!Cluster]
           FormOK == /\ DOMAIN form' = {"fields", "selectedServer", "statusOK"}
                     /\ form'.fields \in Clusters!FieldTypes /\ TypeTold(form'.fields)
                     /\ form'.selectedServer \in Clusters!Blank
           EditOK == /\ edit'.fields \in Clusters!FieldTypes /\ TypeTold(edit'.fields)
                     /\ edit'.selectedServer \in Clusters!Blank
                     /\ edit'.originalClusterName \in ClusterNames \cup {Clusters!Empty}
                     /\ edit'.clusterNameList \subseteq ClusterNames
           PostOK(c) == /\ c.op \in {"create", "edit", "delete", "list"} /\ c.server \in Servers
                        /\ c.op \in {"create", "edit"} => c.cluster \in Clusters!Cluster
                        /\ c.op = "delete" => Clusters!IsList(c.list)
           PostsOK == \A c \in posts' : PostOK(c)
           ChosenOK == chosen'.cluster \in Clusters!Cluster \cup {<<>>}
<1>1. /\ Clusters!Cluster' = Clusters!Cluster /\ Clusters!FieldTypes' = Clusters!FieldTypes
      /\ Clusters!Blank' = Clusters!Blank /\ Clusters!Empty' = Clusters!Empty
      /\ Clusters!Manual' = Clusters!Manual
      /\ \A list : Clusters!IsList(list)' = Clusters!IsList(list)
  BY DEF Clusters!Cluster, Clusters!FieldTypes, Clusters!Blank, Clusters!Empty, Clusters!Manual,
         Clusters!IsList
<1>2. ASSUME StoreOK, BackendOK, FormOK, EditOK, PostsOK, ChosenOK, UNCHANGED manager
      PROVE  ClustersTyped'
  <2>1. manager' \in Modes
    BY <1>2 DEF ClustersTyped, Clusters!TypeOK
  <2>2. Clusters!TypeOK'
    BY <1>1, <1>2, <2>1 DEF Clusters!TypeOK
  <2>3. TypeTold(form.fields)' /\ TypeTold(edit.fields)'
    BY <1>1, <1>2 DEF TypeTold
  <2>4. QED
    BY <1>1, <1>2, <2>2, <2>3 DEF ClustersTyped
<1>3. /\ UNCHANGED store => StoreOK
      /\ UNCHANGED backend => BackendOK
      /\ UNCHANGED form => FormOK
      /\ UNCHANGED chosen => ChosenOK
      /\ \A c \in posts : PostOK(c)
      /\ posts' \subseteq posts => PostsOK
  <2>1. \A c \in posts : PostOK(c)
    BY DEF ClustersTyped, Clusters!TypeOK, Clusters!IsList
  <2>2. Clusters!IsList(store.globalClustersList)
    BY Zenon DEF ClustersTyped, Clusters!TypeOK
  <2>3. UNCHANGED store => StoreOK
    BY <2>2, Zenon
  <2>4. /\ UNCHANGED backend => BackendOK
        /\ UNCHANGED form => FormOK
        /\ UNCHANGED chosen => ChosenOK
    <3>1. /\ backend \in [Servers -> SUBSET Clusters!Cluster]
          /\ form.fields \in Clusters!FieldTypes
          /\ {form.selectedServer, edit.selectedServer} \subseteq Clusters!Blank
          /\ chosen.cluster \in Clusters!Cluster \cup {<<>>}
      BY Zenon DEF ClustersTyped, Clusters!TypeOK
    <3>2. QED
      BY <3>1 DEF ClustersTyped
  <2> HIDE DEF StoreOK, BackendOK, FormOK, ChosenOK, PostOK
  <2>5. QED
    BY <2>1, <2>3, <2>4
<1>4. UNCHANGED edit => EditOK
  BY DEF ClustersTyped, Clusters!TypeOK
<1>5. /\ DOMAIN form = {"fields", "selectedServer", "statusOK"}
      /\ form.fields \in Clusters!FieldTypes /\ TypeTold(form.fields)
      /\ form.selectedServer \in Clusters!Blank
  BY DEF ClustersTyped, Clusters!TypeOK
<1>6. /\ DOMAIN edit = {"fields", "selectedServer", "statusOK", "originalClusterName",
                        "clusterNameList"}
      /\ edit.fields \in Clusters!FieldTypes /\ TypeTold(edit.fields)
      /\ edit.selectedServer \in Clusters!Blank
      /\ edit.originalClusterName \in ClusterNames \cup {Clusters!Empty}
      /\ edit.clusterNameList \subseteq ClusterNames
  BY DEF ClustersTyped, Clusters!TypeOK, ClusterInv, ClusterShape
<1>7. store.globalServerSelected \in Clusters!Blank /\ store'.globalServerSelected \in Clusters!Blank
  <2>1. ClusterInv'
    BY ClusterInductive
  <2>2. QED
    BY <1>1, <2>1 DEF ClusterInv, ClusterStoreShape
<1>8. \A c \in Clusters!ListCalls(store) \cup Clusters!ListCalls(store') : PostOK(c)
  BY <1>7, ListOfServer
<1> HIDE DEF StoreOK, BackendOK, FormOK, EditOK, PostsOK, ChosenOK
<1>9. ASSUME NEW s \in Servers, Clusters!ServerSelected(s) PROVE ClustersTyped'
  <2> DEFINE action == Clusters!serverSelectedFunc(s)
  <2>1. action.slice = "globalServerSelected" /\ action.payload = s
    BY DEF Clusters!serverSelectedFunc, Clusters!Action
  <2>2. store' = Dispatched(<<action>>)
    BY <1>9, SameDispatched DEF Clusters!ServerSelected, Clusters!Dispatch
  <2> HIDE DEF action
  <2>3. store'.globalClustersList = store.globalClustersList
    BY <2>1, <2>2, OneDispatched DEF ClusterInv, ClusterStoreShape
  <2>4. StoreOK
    BY <2>3 DEF StoreOK, ClustersTyped, Clusters!TypeOK
  <2>5. form' = [form EXCEPT !.selectedServer = s] /\ edit' = [edit EXCEPT !.selectedServer = s]
    BY <1>9 DEF Clusters!ServerSelected
  <2>6. s \in Clusters!Blank
    BY DEF Clusters!Blank
  <2>7. FormOK /\ EditOK
    BY <1>5, <1>6, <2>5, <2>6 DEF FormOK, EditOK
  <2>8. QED
    BY <1>2, <1>3, <1>9, <2>4, <2>7 DEF Clusters!ServerSelected
<1>10. CASE Clusters!FormChanges
  <2>1. PICK c \in Clusters!Changes(form.fields) : form' = [form EXCEPT !.fields = c[2]]
    BY <1>10 DEF Clusters!FormChanges
  <2>2. c[2] \in Clusters!FieldTypes /\ TypeTold(c[2])
    BY <1>5, FieldsTyped
  <2>3. FormOK
    BY <1>5, <2>1, <2>2 DEF FormOK
  <2>4. QED
    BY <1>2, <1>3, <1>4, <1>10, <2>3 DEF Clusters!FormChanges
<1>11. CASE Clusters!EditChanges
  <2>1. PICK c \in Clusters!Changes(edit.fields) :
          /\ edit' = [edit EXCEPT !.fields = c[2]]
          /\ chosen' = [chosen EXCEPT !.set = @ \cup {c[1]}]
    BY <1>11 DEF Clusters!EditChanges
  <2>2. c[2] \in Clusters!FieldTypes /\ TypeTold(c[2])
    BY <1>6, FieldsTyped
  <2>3. EditOK
    BY <1>6, <2>1, <2>2 DEF EditOK
  <2>4. chosen'.cluster = chosen.cluster
    BY <2>1 DEF ClusterInv, ClusterShape
  <2>5. ChosenOK
    BY <2>4 DEF ChosenOK, ClustersTyped, Clusters!TypeOK
  <2>6. QED
    BY <1>2, <1>3, <1>11, <2>3, <2>5 DEF Clusters!EditChanges
<1>12. ASSUME NEW name, Clusters!OnChangeClusterNameList(name) PROVE ClustersTyped'
  <2>1. PICK cluster \in store.globalClustersList :
          /\ edit' = Clusters!Loaded(cluster)
          /\ chosen' = [cluster |-> cluster, set |-> {}]
    BY <1>12 DEF Clusters!OnChangeClusterNameList
  <2>2. cluster \in Clusters!Cluster
    <3>1. Clusters!IsList(store.globalClustersList)
      BY Zenon DEF ClustersTyped, Clusters!TypeOK
    <3>2. QED
      BY <1>12, <3>1 DEF Clusters!OnChangeClusterNameList, Clusters!IsList
  <2>3. /\ cluster.name \in ClusterNames /\ cluster.agentsList \in ClusterAgents
        /\ cluster.platformType \in ClusterTypes \cup {Clusters!Empty}
    BY <2>2 DEF Clusters!Cluster
  <2>4. /\ edit'.selectedServer = edit.selectedServer
        /\ edit'.originalClusterName = cluster.name
        /\ edit'.clusterNameList = edit.clusterNameList
        /\ edit'.fields = [edit.fields EXCEPT !.name = cluster.name,
                              !.platformType = cluster.platformType,
                              !.agentsList = cluster.agentsList]
    BY <1>6, <2>1 DEF Clusters!Loaded, Clusters!FieldTypes
  <2>5. edit'.fields \in Clusters!FieldTypes /\ edit'.fields.platformType = cluster.platformType
    BY <1>6, <2>3, <2>4 DEF Clusters!FieldTypes
  <2>6. TypeTold(edit'.fields)
    <3>1. Clusters!Manual \notin ClusterTypes \cup {Clusters!Empty}
      BY DEF Clusters!ClusterAssumption, Clusters!Manual, Clusters!Empty
    <3>2. QED
      BY <2>3, <2>5, <3>1 DEF TypeTold
  <2>7. EditOK
    BY <1>6, <2>3, <2>4, <2>5, <2>6 DEF EditOK
  <2>8. ChosenOK
    BY <2>1, <2>2 DEF ChosenOK
  <2>9. QED
    BY <1>2, <1>3, <1>12, <2>7, <2>8 DEF Clusters!OnChangeClusterNameList
<1>13. ASSUME NEW f, f.selectedServer \in Clusters!Blank, Clusters!Endpoint(f) /= NoServer
       PROVE  Clusters!Endpoint(f) \in Servers
  BY <1>13 DEF Clusters!Endpoint, Clusters!Blank, Clusters!ClusterAssumption
<1>14. CASE Clusters!Create
  <2> DEFINE c == Clusters!Call("create", Clusters!Endpoint(form), Clusters!Empty,
                                Clusters!ClusterOf(form.fields))
  <2>1. PostOK(c)
    <3>1. Clusters!ClusterOf(form.fields) \in Clusters!Cluster
      BY <1>5, <1>14, ClusterOfFields DEF Clusters!Create
    <3>2. Clusters!Endpoint(form) \in Servers
      BY <1>5, <1>13, <1>14 DEF Clusters!Create
    <3>3. QED
      BY <3>1, <3>2 DEF Clusters!Call
  <2>2. posts' = posts \cup {c}
    BY <1>14 DEF Clusters!Create
  <2> HIDE DEF c, PostOK
  <2>3. PostsOK
    BY <1>3, <2>1, <2>2 DEF PostsOK
  <2>4. QED
    BY <1>2, <1>3, <1>4, <1>14, <2>3 DEF Clusters!Create
<1>15. CASE Clusters!Edit
  <2> DEFINE c == Clusters!Call("edit", Clusters!Endpoint(edit), edit.originalClusterName,
                                Clusters!ClusterOf(edit.fields))
  <2>1. PostOK(c)
    <3>1. Clusters!ClusterOf(edit.fields) \in Clusters!Cluster
      BY <1>6, <1>15, ClusterOfFields DEF Clusters!Edit
    <3>2. Clusters!Endpoint(edit) \in Servers
      BY <1>6, <1>13, <1>15 DEF Clusters!Edit
    <3>3. QED
      BY <3>1, <3>2 DEF Clusters!Call
  <2>2. posts' = posts \cup Clusters!ListCalls(store) \cup {c}
    BY <1>15 DEF Clusters!Edit
  <2> HIDE DEF c, PostOK
  <2>3. PostsOK
    BY <1>3, <1>8, <2>1, <2>2 DEF PostsOK
  <2>4. QED
    BY <1>2, <1>3, <1>4, <1>15, <2>3 DEF Clusters!Edit
<1>16. CASE Clusters!DeleteCluster
  <2> DEFINE s == IF manager THEN store.globalServerSelected ELSE Own
             c == Clusters!Deletion(s, edit.fields.name, store.globalClustersList)
  <2>1. s /= NoServer /\ posts' = posts \cup {c}
    BY <1>16 DEF Clusters!DeleteCluster
  <2>2. s \in Servers
    BY <1>7, <2>1 DEF Clusters!Blank, Clusters!ClusterAssumption
  <2> HIDE DEF s
  <2>3. PostOK(c)
    BY <2>2 DEF Clusters!Deletion, ClustersTyped, Clusters!TypeOK
  <2> HIDE DEF c, PostOK
  <2>4. PostsOK
    BY <1>3, <2>1, <2>3 DEF PostsOK
  <2>5. QED
    BY <1>2, <1>3, <1>4, <1>16, <2>4 DEF Clusters!DeleteCluster
<1>17. ASSUME NEW c \in posts, NEW cs \in Clusters!CarriedOut(c) \cup {backend[c.server]},
              backend' = [backend EXCEPT ![c.server] = cs]
       PROVE  BackendOK
  <2>1. cs \subseteq Clusters!Cluster
    BY CarriedOutTyped
  <2>2. QED
    BY <1>17, <2>1 DEF BackendOK, ClustersTyped, Clusters!TypeOK
<1>18. ASSUME NEW c \in posts, Clusters!CallFails(c), UNCHANGED manager PROVE ClustersTyped'
  <2>1. BackendOK
    BY <1>17, <1>18 DEF Clusters!CallFails
  <2>2. posts' \subseteq posts
    BY <1>18 DEF Clusters!CallFails
  <2>3. QED
    BY <1>2, <1>3, <1>4, <1>18, <2>1, <2>2 DEF Clusters!CallFails
<1>19. ASSUME NEW c \in posts, Clusters!CallSucceeds(c), UNCHANGED manager PROVE ClustersTyped'
  <2>1. BackendOK
    BY <1>17, <1>19 DEF Clusters!CallSucceeds
  <2>2. Clusters!Succeeds(c)
    BY <1>19 DEF Clusters!CallSucceeds
  <2>3. CASE c.op = "create"
    <3>1. form' = [form EXCEPT !.statusOK = "OK"] /\ posts' \subseteq posts
          /\ UNCHANGED <<store, edit, chosen>>
      BY <2>2, <2>3 DEF Clusters!Succeeds
    <3>2. FormOK
      BY <1>5, <3>1 DEF FormOK
    <3>3. QED
      BY <1>2, <1>3, <1>4, <1>19, <2>1, <3>1, <3>2
  <2>4. CASE c.op = "edit"
    <3>1. edit' = [edit EXCEPT !.statusOK = "OK"] /\ posts' \subseteq posts
          /\ UNCHANGED <<store, form, chosen>>
      BY <2>2, <2>4 DEF Clusters!Succeeds
    <3>2. EditOK
      BY <1>6, <3>1 DEF EditOK
    <3>3. QED
      BY <1>2, <1>3, <1>19, <2>1, <3>1, <3>2
  <2>5. CASE c.op = "delete" /\ manager
    <3>1. /\ Clusters!Dispatch(<<Clusters!clustersListUpdateFunc(c.list)>>)
          /\ edit' = [edit EXCEPT !.clusterNameList = Clusters!NamesOf(c.list)]
          /\ posts' \subseteq posts /\ UNCHANGED <<form, chosen>>
      BY <2>2, <2>5 DEF Clusters!Succeeds
    <3>2. Clusters!IsList(c.list)
      BY <1>3, <2>5
    <3>3. StoreOK
      BY <2>5, <3>1, <3>2, ListPutBack DEF StoreOK, ClusterInv, ClusterShape
    <3>4. Clusters!NamesOf(c.list) \subseteq ClusterNames
      BY <3>2, NamesTyped
    <3>5. EditOK
      BY <1>6, <3>1, <3>4 DEF EditOK
    <3>6. QED
      BY <1>2, <1>3, <1>19, <2>1, <3>1, <3>3, <3>5
  <2>6. CASE c.op = "delete" /\ ~manager
    <3> DEFINE rest == Clusters!Without(c.list, c.name)
    <3>1. /\ Clusters!Dispatch(<<Clusters!clustersListUpdateFunc(rest)>>)
          /\ chosen' = [cluster |-> <<>>, set |-> {}]
          /\ form' = Clusters!MountedForm(store') /\ edit' = Clusters!MountedEdit(store')
          /\ posts' = Clusters!ListCalls(store')
      BY <2>2, <2>6 DEF Clusters!Succeeds
    <3>2. Clusters!IsList(rest)
      BY <1>3, <2>6 DEF Clusters!Without, Clusters!IsList, ClustersTyped, Clusters!TypeOK
    <3>3. ListOfClusters(rest)
      BY <2>6 DEF Clusters!Without, ListOfClusters, AreClusters, ClusterInv, ClusterShape
    <3> HIDE DEF rest
    <3>4. store'.globalClustersList = rest
      BY <3>1, <3>3, ListPutBack DEF ClusterInv
    <3>5. StoreOK
      BY <3>2, <3>4 DEF StoreOK
    <3>6. FormOK /\ EditOK
      BY <1>7, <3>1, <3>2, <3>4, MountedTyped DEF FormOK, EditOK
    <3>7. PostsOK /\ ChosenOK
      BY <1>8, <3>1 DEF PostsOK, ChosenOK
    <3>8. QED
      BY <1>2, <1>19, <2>1, <3>5, <3>6, <3>7
  <2>7. QED
    BY <2>2, <2>3, <2>4, <2>5, <2>6 DEF Clusters!Succeeds
<1>20. ASSUME NEW c \in posts, NEW list \in {backend[c.server], NoServer},
              Clusters!ListReturns(c, list), UNCHANGED manager
       PROVE  ClustersTyped'
  <2> DEFINE a == Clusters!clustersListUpdateFunc(list)
             message == IF list = NoServer THEN "Error retrieving" ELSE "OK"
             b == Clusters!tornjakMessageFunc(message)
  <2>1. /\ a.slice = "globalClustersList" /\ a.payload = list /\ b.slice = "globalErrorMessage"
    BY DEF Clusters!clustersListUpdateFunc, Clusters!tornjakMessageFunc, Clusters!Action
  <2>2. store' = Dispatched(<<a, b>>)
    BY <1>20, SameDispatched DEF Clusters!ListReturns, Clusters!Dispatch
  <2> HIDE DEF a, b, message
  <2>3. store'.globalClustersList = list
    BY <2>1, <2>2, TwoDispatched DEF ClusterInv, ClusterStoreShape
  <2>4. Clusters!IsList(list)
    BY CarriedOutTyped DEF Clusters!IsList
  <2>5. StoreOK
    BY <2>3, <2>4 DEF StoreOK
  <2>6. /\ edit' = [edit EXCEPT !.clusterNameList = Clusters!NamesOf(list)]
        /\ posts' \subseteq posts
    BY <1>20 DEF Clusters!ListReturns
  <2>7. Clusters!NamesOf(list) \subseteq ClusterNames
    BY <2>4, NamesTyped
  <2>8. EditOK
    BY <1>6, <2>6, <2>7 DEF EditOK
  <2>9. QED
    BY <1>2, <1>3, <1>20, <2>5, <2>6, <2>8 DEF Clusters!ListReturns
<1>21. CASE Clusters!Returns
  BY <1>18, <1>19, <1>20, <1>21 DEF Clusters!Returns
<1>22. CASE UNCHANGED Clusters!vars
  BY <1>2, <1>3, <1>4, <1>22 DEF Clusters!vars
<1>23. QED
  BY <1>9, <1>10, <1>11, <1>12, <1>14, <1>15, <1>16, <1>21, <1>22 DEF Clusters!Next

----------------------------------------------------------------------------
(* The form for backends                                                    *)

BackendFields == {"name", "formTLS", "formMTLS", "statusOK", "data", "loadSuccess"}

BackendShape ==
    /\ DOMAIN form = BackendFields
    /\ DOMAIN form.data = Backends!Inputs /\ DOMAIN form.loadSuccess = Backends!Inputs
    /\ DOMAIN picked = Backends!Inputs
    /\ \A i \in Backends!Inputs : form.loadSuccess[i] \in BOOLEAN

\* What is being read, unless it is empty, is of the files picked last in its input.
ReadWherePicked ==
    \A r \in reading :
        /\ r[1] \in Backends!Inputs
        /\ r[2] /= EmptyFile => r[2] \in picked[r[1]]

\* What an input holds, once nothing is read for it, is of those files, and it is there
\* exactly if the input says so.
DataWherePicked ==
    \A i \in Backends!Inputs :
        /\ picked[i] \subseteq BackendFiles
        /\ Backends!Awaited(i) = {} =>
                form.data[i] \in IF picked[i] = {} THEN {NoData} ELSE picked[i]
        /\ form.data[i] = NoData <=> ~form.loadSuccess[i]

BackendInv == BackendShape /\ ReadWherePicked /\ DataWherePicked

LEMMA BackendInitial == Backends!Init => BackendInv
<1> SUFFICES ASSUME Backends!Init PROVE BackendInv
  OBVIOUS
<1>1. /\ DOMAIN form = BackendFields /\ reading = {}
      /\ form.data = [i \in Backends!Inputs |-> NoData]
      /\ form.loadSuccess = [i \in Backends!Inputs |-> FALSE]
      /\ picked = [i \in Backends!Inputs |-> {}]
  BY DEF Backends!Init, BackendFields
<1>2. BackendShape
  BY <1>1 DEF BackendShape
<1>3. ReadWherePicked /\ DataWherePicked
  BY <1>1 DEF ReadWherePicked, DataWherePicked
<1>4. QED
  BY <1>2, <1>3 DEF BackendInv

\* Neither the contents of a file nor what is being read changes.
LEMMA BackendKept ==
    ASSUME BackendInv, UNCHANGED <<picked, reading>>, DOMAIN form' = BackendFields,
           form'.data = form.data, form'.loadSuccess = form.loadSuccess
    PROVE  BackendInv'
BY DEF BackendInv, BackendShape, ReadWherePicked, DataWherePicked, Backends!Inputs, Backends!Awaited

\* Another field, or a status, is set.
LEMMA BackendFieldSet ==
    ASSUME BackendInv, NEW field \in BackendFields \ {"data", "loadSuccess"}, NEW v,
           form' = [form EXCEPT ![field] = v]
    PROVE  /\ DOMAIN form' = BackendFields
           /\ form'.data = form.data /\ form'.loadSuccess = form.loadSuccess
<1>1. DOMAIN form = BackendFields
  BY DEF BackendInv, BackendShape
<1>2. DOMAIN form' = BackendFields
  BY <1>1
<1>3. field /= "data" /\ field /= "loadSuccess"
  OBVIOUS
<1>4. form'.data = form.data /\ form'.loadSuccess = form.loadSuccess
  BY <1>1, <1>3 DEF BackendFields
<1>5. QED
  BY <1>2, <1>4

LEMMA BackendPicked ==
    ASSUME BackendInv, NEW i \in Backends!Inputs, NEW f \in BackendFiles, Backends!PickFile(i, f)
    PROVE  BackendInv' /\ UNCHANGED posts
<1> USE DEF BackendInv, BackendShape
<1>1. /\ reading' = reading \cup {<<i, f>>}
      /\ picked' = Backends!Picked(i, f)
      /\ UNCHANGED <<form, posts>>
  BY DEF Backends!PickFile
<1>2. \A j \in Backends!Inputs : j /= i => Backends!Awaited(j)' = Backends!Awaited(j)
  BY <1>1 DEF Backends!Awaited
<1>3. CASE f = EmptyFile
  <2>1. picked' = picked
    BY <1>1, <1>3 DEF Backends!Picked
  <2>2. Backends!Awaited(i)' = Backends!Awaited(i)
    BY <1>1, <1>3 DEF Backends!Awaited
  <2>3. ReadWherePicked'
    BY <1>1, <1>3, <2>1 DEF ReadWherePicked, Backends!Inputs
  <2>4. DataWherePicked'
    <3> HIDE DEF BackendInv, BackendShape
    <3>1. ASSUME NEW j \in Backends!Inputs
          PROVE  Backends!Awaited(j)' = Backends!Awaited(j)
      BY <1>2, <2>2
    <3>2. DataWherePicked
      BY DEF BackendInv
    <3>3. QED
      BY <1>1, <2>1, <3>1, <3>2 DEF DataWherePicked, Backends!Inputs
  <2>5. QED
    BY <1>1, <2>1, <2>3, <2>4 DEF Backends!Inputs
<1>4. CASE f /= EmptyFile
  <2> DEFINE side == {f} \cup IF Backends!Awaited(i) = {} THEN {} ELSE picked[i]
  <2>1. picked' = [picked EXCEPT ![i] = side]
    BY <1>1, <1>4 DEF Backends!Picked
  <2>2. /\ DOMAIN picked' = Backends!Inputs /\ picked'[i] = side
        /\ \A j \in Backends!Inputs : j /= i => picked'[j] = picked[j]
    BY <2>1
  <2>3. f \in side /\ side \subseteq BackendFiles
    BY DEF DataWherePicked
  <2>4. \A r \in Backends!Awaited(i) : r[2] \in side
    BY DEF ReadWherePicked, Backends!Awaited
  <2>5. Backends!Awaited(i)' /= {}
    <3>1. <<i, f>> \in Backends!Awaited(i)'
      BY <1>1, <1>4 DEF Backends!Awaited
    <3>2. QED
      BY <3>1
  <2> HIDE DEF side
  <2>6. ReadWherePicked'
    <3>1. ASSUME NEW r \in reading'
          PROVE  r[1] \in Backends!Inputs /\ (r[2] /= EmptyFile => r[2] \in picked'[r[1]])
      <4>1. CASE r = <<i, f>>
        BY <2>2, <2>3, <4>1
      <4>2. CASE r /= <<i, f>>
        <5>1. r \in reading /\ r[1] \in Backends!Inputs
          BY <1>1, <4>2 DEF ReadWherePicked
        <5>2. QED
          BY <2>2, <2>4, <5>1 DEF ReadWherePicked, Backends!Awaited
      <4>3. QED
        BY <4>1, <4>2
    <3>2. QED
      BY <3>1 DEF ReadWherePicked, Backends!Inputs
  <2>7. DataWherePicked'
    <3>1. ASSUME NEW j \in Backends!Inputs
          PROVE  /\ picked'[j] \subseteq BackendFiles
                 /\ Backends!Awaited(j)' = {} =>
                        form.data[j] \in IF picked'[j] = {} THEN {NoData} ELSE picked'[j]
      <4>1. CASE j = i
        BY <2>2, <2>3, <2>5, <4>1
      <4>2. CASE j /= i
        BY <1>2, <2>2, <4>2 DEF DataWherePicked
      <4>3. QED
        BY <4>1, <4>2
    <3>2. QED
      BY <1>1, <3>1 DEF DataWherePicked, Backends!Inputs
  <2>8. QED
    BY <1>1, <2>2, <2>6, <2>7 DEF Backends!Inputs
<1>5. QED
  BY <1>3, <1>4

\* A file has been read: into its input, or, empty, nowhere.
LEMMA BackendFileRead ==
    ASSUME Backends!ServerFormAssumption, BackendInv, Backends!FileRead
    PROVE  BackendInv' /\ UNCHANGED posts
<1>1. PICK r \in reading :
        /\ form' = IF r[2] = EmptyFile THEN form ELSE Backends!Loaded(r[1], r[2])
        /\ reading' = reading \ {r}
        /\ UNCHANGED <<posts, picked>>
  BY DEF Backends!FileRead
<1> USE DEF BackendInv, BackendShape
<1>2. r[1] \in Backends!Inputs
  BY DEF ReadWherePicked
<1>3. ReadWherePicked'
  BY <1>1 DEF ReadWherePicked, Backends!Inputs
<1>4. \A i \in Backends!Inputs :
        i /= r[1] \/ r[2] = EmptyFile => Backends!Awaited(i)' = Backends!Awaited(i)
  BY <1>1 DEF Backends!Awaited
<1>5. CASE r[2] = EmptyFile
  <2>1. UNCHANGED <<form, picked>> /\ \A i \in Backends!Inputs : Backends!Awaited(i)' = Backends!Awaited(i)
    BY <1>1, <1>4, <1>5
  <2>2. DataWherePicked'
    BY <2>1 DEF DataWherePicked, Backends!Inputs
  <2>3. QED
    BY <1>1, <1>3, <2>1, <2>2 DEF Backends!Inputs
<1>6. CASE r[2] /= EmptyFile
  <2>1. r[2] \in picked[r[1]] /\ r[2] \in BackendFiles
    BY <1>2, <1>6 DEF ReadWherePicked, DataWherePicked
  <2>2. r[2] /= NoData
    BY <2>1 DEF Backends!ServerFormAssumption
  <2>3. /\ DOMAIN form' = BackendFields
        /\ DOMAIN form'.data = Backends!Inputs /\ DOMAIN form'.loadSuccess = Backends!Inputs
        /\ form'.data[r[1]] = r[2] /\ form'.loadSuccess[r[1]] = TRUE
        /\ \A i \in Backends!Inputs \ {r[1]} :
                form'.data[i] = form.data[i] /\ form'.loadSuccess[i] = form.loadSuccess[i]
    BY <1>1, <1>2, <1>6 DEF Backends!Loaded, BackendFields
  <2>4. \A i \in Backends!Inputs : form'.loadSuccess[i] \in BOOLEAN
    BY <2>3
  <2>5. DataWherePicked'
    <3>1. ASSUME NEW i \in Backends!Inputs
          PROVE  /\ picked[i] \subseteq BackendFiles
                 /\ Backends!Awaited(i)' = {} =>
                        form'.data[i] \in IF picked[i] = {} THEN {NoData} ELSE picked[i]
                 /\ form'.data[i] = NoData <=> ~form'.loadSuccess[i]
      <4>1. CASE i = r[1]
        BY <2>1, <2>2, <2>3, <4>1 DEF DataWherePicked
      <4>2. CASE i /= r[1]
        BY <1>4, <2>3, <4>2 DEF DataWherePicked
      <4>3. QED
        BY <4>1, <4>2
    <3>2. QED
      BY <1>1, <3>1 DEF DataWherePicked, Backends!Inputs
  <2>6. BackendShape'
    BY <1>1, <2>3, <2>4 DEF Backends!Inputs
  <2>7. QED
    BY <1>1, <1>3, <2>5, <2>6
<1>7. QED
  BY <1>5, <1>6

LEMMA BackendInductive ==
    ASSUME Backends!ServerFormAssumption, BackendInv, Backends!Next \/ UNCHANGED Backends!vars
    PROVE  BackendInv' /\ Backends!PostedStep
<1>1. posts' \subseteq posts => Backends!PostedStep
  BY DEF Backends!PostedStep
<1>2. ASSUME NEW field \in BackendFields \ {"data", "loadSuccess"}, NEW v,
             form' = [form EXCEPT ![field] = v], UNCHANGED <<reading, picked>>,
             posts' \subseteq posts
      PROVE  BackendInv' /\ Backends!PostedStep
  BY <1>1, <1>2, BackendFieldSet, BackendKept
<1>3. ASSUME UNCHANGED <<form, reading, picked>> PROVE BackendInv'
  BY <1>3, BackendKept DEF BackendInv, BackendShape
<1>4. CASE Backends!FieldChanges
  <2>1. UNCHANGED <<reading, posts, picked>>
    BY <1>4 DEF Backends!FieldChanges
  <2>2. \E field \in BackendFields \ {"data", "loadSuccess"} : \E v :
            form' = [form EXCEPT ![field] = v]
    BY <1>4 DEF Backends!FieldChanges, BackendFields
  <2>3. QED
    BY <1>2, <2>1, <2>2
<1>5. CASE \E i \in Backends!Inputs, f \in BackendFiles : Backends!PickFile(i, f)
  BY <1>1, <1>5, BackendPicked
<1>6. CASE Backends!FileRead
  BY <1>1, <1>6, BackendFileRead
<1>7. CASE Backends!OnSubmit
  <2>1. /\ \A p \in posts' : p.data = form.data
        /\ UNCHANGED <<form, reading, picked>>
    BY <1>7 DEF Backends!OnSubmit
  <2>2. Backends!PostedStep
    BY <2>1 DEF Backends!PostedStep, BackendInv, DataWherePicked
  <2>3. QED
    BY <1>3, <2>1, <2>2
<1>8. CASE Backends!OnSubmitReturns
  <2>1. /\ \E v : form' = [form EXCEPT !.statusOK = v]
        /\ posts' = {} /\ UNCHANGED <<reading, picked>>
    BY <1>8 DEF Backends!OnSubmitReturns
  <2>2. QED
    BY <1>2, <2>1 DEF BackendFields
<1>9. CASE Backends!ListRead \/ Backends!ListReturns \/ UNCHANGED Backends!vars
  <2>1. UNCHANGED <<form, reading, posts, picked>>
    BY <1>9 DEF Backends!ListRead, Backends!ListReturns, Backends!vars
  <2>2. QED
    BY <1>1, <1>3, <2>1
<1>10. QED
  BY <1>4, <1>5, <1>6, <1>7, <1>8, <1>9 DEF Backends!Next

----------------------------------------------------------------------------
(* The types of the form for backends                                       *)

\* The lists under way are a sequence.
BackendTypes ==
    /\ Backends!TypeOK
    /\ "globalServersList" \in DOMAIN store
    /\ lists \in Seq({Backends!NotRead} \cup (SUBSET BackendNames))
    /\ \A p \in posts : p.name \in BackendNames \cup {""}

\* The form starts blank, with a list asked for.
LEMMA BackendTypesInitial ==
    ASSUME Backends!Init
    PROVE  BackendTypes
<1>1. "globalServersList" \in DOMAIN store /\ store.globalServersList = {}
  <2>1. "globalServersList" \in DOMAIN serversInitial /\ serversInitial.globalServersList = {}
    BY DEF serversInitial
  <2>2. QED
    BY <2>1, InitialSlices, SameInitialStore DEF Backends!Init
<1> DEFINE Readings == {Backends!NotRead} \cup (SUBSET BackendNames)
<1>2. lists = <<Backends!NotRead>>
  BY DEF Backends!Init
<1>3. lists \in Seq(Readings)
  <2>1. Backends!NotRead \in Readings
    OBVIOUS
  <2> HIDE DEF Readings
  <2>2. QED
    BY <1>2, <2>1
<1>4. \A i \in DOMAIN lists : lists[i] = Backends!NotRead
  BY <1>2
<1>5. Backends!TypeOK
  BY <1>1, <1>4 DEF Backends!Init, Backends!TypeOK
<1>6. QED
  BY <1>1, <1>3, <1>5 DEF Backends!Init, BackendTypes

\* One case for each action.
LEMMA BackendTypesInductive ==
    ASSUME Backends!ServerFormAssumption, BackendInv, BackendTypes,
           Backends!Next \/ UNCHANGED Backends!vars
    PROVE  BackendTypes'
<1> DEFINE StoreOK == /\ "globalServersList" \in DOMAIN store'
                      /\ store'.globalServersList \subseteq BackendNames
           FormOK == /\ form'.name \in BackendNames \cup {""}
                     /\ form'.data \in [Backends!Inputs -> BackendFiles \cup {NoData}]
                     /\ form'.loadSuccess \in [Backends!Inputs -> BOOLEAN]
                     /\ {form'.formTLS, form'.formMTLS} \subseteq BOOLEAN
                     /\ form'.statusOK \in {"", "OK", "ERROR"}
           ReadingOK == \A r \in reading' : r[1] \in Backends!Inputs /\ r[2] \in BackendFiles
           PickedOK == picked' \in [Backends!Inputs -> SUBSET BackendFiles]
           Readings == {Backends!NotRead} \cup (SUBSET BackendNames)
           ListsOK == lists' \in Seq(Readings)
           PostsOK == \A p \in posts' : p.name \in BackendNames \cup {""}
<1>1. Backends!Inputs' = Backends!Inputs /\ Backends!NotRead' = Backends!NotRead
  BY DEF Backends!Inputs, Backends!NotRead
<1>2. lists \in Seq(Readings) /\ Backends!NotRead \in Readings
  BY DEF BackendTypes
<1>3. ASSUME StoreOK, FormOK, ReadingOK, PickedOK, ListsOK, PostsOK, registry' \subseteq BackendNames
      PROVE  BackendTypes'
  <2>1. \A i \in DOMAIN lists' : lists'[i] \in Readings
    <3>1. lists' \in Seq(Readings)
      BY <1>3
    <3> HIDE DEF Readings
    <3>2. QED
      BY <3>1
  <2>2. \A i \in DOMAIN lists' : lists'[i] = Backends!NotRead \/ lists'[i] \subseteq BackendNames
    BY <2>1
  <2>3. Backends!TypeOK'
    BY <1>1, <1>3, <2>2 DEF Backends!TypeOK
  <2>4. QED
    BY <1>1, <1>3, <2>3 DEF BackendTypes
<1>4. /\ UNCHANGED store => StoreOK
      /\ UNCHANGED form => FormOK
      /\ UNCHANGED lists => ListsOK
      /\ UNCHANGED picked => PickedOK
      /\ posts' \subseteq posts => PostsOK
      /\ UNCHANGED registry => registry' \subseteq BackendNames
  BY <1>2 DEF BackendTypes, Backends!TypeOK
<1>5. reading' \subseteq reading => ReadingOK
  BY DEF BackendTypes, Backends!TypeOK
<1>6. ASSUME NEW field \in BackendFields \ {"data", "loadSuccess"}, NEW v,
             form' = [form EXCEPT ![field] = v],
             \/ field = "name" /\ v \in BackendNames \cup {""}
             \/ field \in {"formTLS", "formMTLS"} /\ v \in BOOLEAN
             \/ field = "statusOK" /\ v \in {"OK", "ERROR"}
      PROVE  FormOK
  <2>1. DOMAIN form = BackendFields
    BY DEF BackendInv, BackendShape
  <2>2. /\ form'[field] = v
        /\ \A f \in BackendFields : f /= field => form'[f] = form[f]
    BY <1>6, <2>1
  <2>3. /\ form.name \in BackendNames \cup {""}
        /\ form.data \in [Backends!Inputs -> BackendFiles \cup {NoData}]
        /\ form.loadSuccess \in [Backends!Inputs -> BOOLEAN]
        /\ {form.formTLS, form.formMTLS} \subseteq BOOLEAN /\ form.statusOK \in {"", "OK", "ERROR"}
    BY DEF BackendTypes, Backends!TypeOK
  <2>4. form'.data = form.data /\ form'.loadSuccess = form.loadSuccess
    BY <2>2 DEF BackendFields
  <2>5. CASE field = "name"
    BY <1>6, <2>2, <2>3, <2>4, <2>5 DEF BackendFields
  <2>6. CASE field = "formTLS"
    BY <1>6, <2>2, <2>3, <2>4, <2>6 DEF BackendFields
  <2>7. CASE field = "formMTLS"
    BY <1>6, <2>2, <2>3, <2>4, <2>7 DEF BackendFields
  <2>8. CASE field = "statusOK"
    BY <1>6, <2>2, <2>3, <2>4, <2>8 DEF BackendFields
  <2>9. QED
    BY <2>5, <2>6, <2>7, <2>8 DEF BackendFields
<1>7. ASSUME NEW i \in Backends!Inputs, NEW f \in BackendFiles, form' = Backends!Loaded(i, f)
      PROVE  FormOK
  <2>1. DOMAIN form = BackendFields
    BY DEF BackendInv, BackendShape
  <2>2. /\ form'.data = [form.data EXCEPT ![i] = f]
        /\ form'.loadSuccess = [form.loadSuccess EXCEPT ![i] = TRUE]
        /\ form'.name = form.name /\ form'.formTLS = form.formTLS
        /\ form'.formMTLS = form.formMTLS /\ form'.statusOK = form.statusOK
    BY <1>7, <2>1 DEF Backends!Loaded, BackendFields
  <2>3. /\ form.name \in BackendNames \cup {""}
        /\ form.data \in [Backends!Inputs -> BackendFiles \cup {NoData}]
        /\ form.loadSuccess \in [Backends!Inputs -> BOOLEAN]
        /\ {form.formTLS, form.formMTLS} \subseteq BOOLEAN /\ form.statusOK \in {"", "OK", "ERROR"}
    BY DEF BackendTypes, Backends!TypeOK
  <2>4. form'.data \in [Backends!Inputs -> BackendFiles \cup {NoData}]
    BY <2>2, <2>3
  <2>5. form'.loadSuccess \in [Backends!Inputs -> BOOLEAN]
    BY <2>2, <2>3
  <2>6. QED
    BY <2>2, <2>3, <2>4, <2>5
<1> HIDE DEF FormOK, StoreOK, ReadingOK, PickedOK, ListsOK, PostsOK
<1>8. CASE Backends!FieldChanges
  <2>1. FormOK
    <3>1. CASE \E name \in BackendNames \cup {""} : form' = [form EXCEPT !.name = name]
      BY <1>6, <3>1 DEF BackendFields
    <3>2. CASE form' = [form EXCEPT !["formTLS"] = ~form["formTLS"]]
      BY <1>6, <3>2 DEF BackendFields
    <3>3. CASE form' = [form EXCEPT !["formMTLS"] = ~form["formMTLS"]]
      BY <1>6, <3>3 DEF BackendFields
    <3>4. QED
      BY <1>8, <3>1, <3>2, <3>3 DEF Backends!FieldChanges
  <2>2. QED
    BY <1>3, <1>4, <1>5, <1>8, <2>1 DEF Backends!FieldChanges
<1>9. ASSUME NEW i \in Backends!Inputs, NEW f \in BackendFiles, Backends!PickFile(i, f)
      PROVE  BackendTypes'
  <2>1. reading' = reading \cup {<<i, f>>}
    BY <1>9 DEF Backends!PickFile
  <2>2. ReadingOK
    <3>1. \A r \in reading : r[1] \in Backends!Inputs /\ r[2] \in BackendFiles
      BY DEF BackendTypes, Backends!TypeOK
    <3>2. <<i, f>>[1] = i /\ <<i, f>>[2] = f
      OBVIOUS
    <3>3. QED
      BY <2>1, <3>1, <3>2, Zenon DEF ReadingOK
  <2>3. PickedOK
    <3>1. picked' = Backends!Picked(i, f) /\ picked \in [Backends!Inputs -> SUBSET BackendFiles]
      BY <1>9 DEF Backends!PickFile, BackendTypes, Backends!TypeOK
    <3>2. QED
      BY <3>1 DEF PickedOK, Backends!Picked
  <2>4. QED
    BY <1>3, <1>4, <1>9, <2>2, <2>3 DEF Backends!PickFile
<1>10. CASE Backends!FileRead
  <2>1. PICK r \in reading :
          /\ form' = IF r[2] = EmptyFile THEN form ELSE Backends!Loaded(r[1], r[2])
          /\ reading' = reading \ {r}
    BY <1>10 DEF Backends!FileRead
  <2>2. r[1] \in Backends!Inputs /\ r[2] \in BackendFiles
    BY <2>1 DEF BackendTypes, Backends!TypeOK
  <2>3. FormOK
    BY <1>4, <1>7, <2>1, <2>2
  <2>4. QED
    BY <1>3, <1>4, <1>5, <1>10, <2>1, <2>3 DEF Backends!FileRead
<1>11. CASE Backends!OnSubmit
  <2>1. \A p \in posts' : p.name = form.name
    BY <1>11 DEF Backends!OnSubmit
  <2>2. PostsOK
    BY <2>1 DEF PostsOK, BackendTypes, Backends!TypeOK
  <2>3. QED
    BY <1>3, <1>4, <1>5, <1>11, <2>2 DEF Backends!OnSubmit
<1>12. CASE Backends!OnSubmitReturns
  <2>1. PICK p \in posts :
          \/ /\ p.name \in BackendNames \ registry
             /\ registry' = registry \cup {p.name}
             /\ form' = [form EXCEPT !.statusOK = "OK"]
             /\ Len(lists) < 2 /\ lists' = Append(lists, Backends!NotRead)
          \/ /\ registry' \in {registry, registry \cup ({p.name} \ {""})}
             /\ form' = [form EXCEPT !.statusOK = "ERROR"]
             /\ UNCHANGED lists
    BY <1>12 DEF Backends!OnSubmitReturns
  <2>2. p.name \in BackendNames \cup {""} /\ registry \subseteq BackendNames
    BY DEF BackendTypes, Backends!TypeOK
  <2>3. registry' \subseteq BackendNames
    BY <2>1, <2>2
  <2>4. FormOK
    BY <1>6, <2>1 DEF BackendFields
  <2>5. ListsOK
    <3>1. Backends!NotRead \in Readings /\ lists \in Seq(Readings)
      BY <1>2
    <3> HIDE DEF Readings
    <3>2. Append(lists, Backends!NotRead) \in Seq(Readings)
      BY <3>1
    <3>3. QED
      BY <1>4, <2>1, <3>2 DEF ListsOK
  <2>6. QED
    BY <1>3, <1>4, <1>5, <1>12, <2>3, <2>4, <2>5 DEF Backends!OnSubmitReturns
<1>13. CASE Backends!ListRead
  <2>1. PICK i \in DOMAIN lists : lists' = [lists EXCEPT ![i] = registry]
    BY <1>13 DEF Backends!ListRead
  <2>2. registry \in Readings /\ lists \in Seq(Readings)
    BY <1>2 DEF BackendTypes, Backends!TypeOK
  <2> HIDE DEF Readings
  <2>3. [lists EXCEPT ![i] = registry] \in Seq(Readings)
    BY <2>2
  <2>4. QED
    BY <1>3, <1>4, <1>5, <1>13, <2>1, <2>3 DEF Backends!ListRead, ListsOK
<1>14. CASE Backends!ListReturns
  <2>1. PICK i \in DOMAIN lists :
          /\ \/ lists[i] /= Backends!NotRead
                /\ Backends!Dispatch(<<Backends!serversListUpdateFunc(lists[i])>>)
             \/ UNCHANGED store
          /\ lists' = SubSeq(lists, 1, i - 1) \o SubSeq(lists, i + 1, Len(lists))
    BY <1>14 DEF Backends!ListReturns
  <2>2. ListsOK
    <3>1. lists' = Federations!Without(lists, i)
      BY <2>1 DEF Federations!Without
    <3>2. lists \in Seq(Readings)
      BY <1>2
    <3> HIDE DEF Readings
    <3>3. QED
      BY <3>1, <3>2, WithoutOne DEF ListsOK
  <2>3. StoreOK
    <3> DEFINE action == Backends!serversListUpdateFunc(lists[i])
    <3>1. action.slice = "globalServersList" /\ action.payload = lists[i]
      BY DEF Backends!serversListUpdateFunc, Backends!Action
    <3>2. CASE lists[i] /= Backends!NotRead /\ Backends!Dispatch(<<action>>)
      <4>1. store' = Dispatched(<<action>>) /\ lists[i] \subseteq BackendNames
        BY <3>2, SameDispatched DEF Backends!Dispatch, BackendTypes, Backends!TypeOK
      <4> HIDE DEF action
      <4>2. QED
        BY <3>1, <4>1, OneDispatched, DispatchedDomain DEF StoreOK, BackendTypes
    <3>3. QED
      BY <1>4, <2>1, <3>2
  <2>4. QED
    BY <1>3, <1>4, <1>5, <1>14, <2>2, <2>3 DEF Backends!ListReturns
<1>15. CASE UNCHANGED Backends!vars
  BY <1>3, <1>4, <1>5, <1>15 DEF Backends!vars
<1>16. QED
  BY <1>8, <1>9, <1>10, <1>11, <1>12, <1>13, <1>14, <1>15 DEF Backends!Next

----------------------------------------------------------------------------
(* The forms for agents                                                     *)

AgentShape ==
    /\ "globalServerSelected" \in DOMAIN store
    /\ DOMAIN form = {"ttl", "spiffeId", "message", "selectedServer"}
    /\ \A c \in calls : c.op \in {"register", "selectors"}

\* The form follows the header.
AgentInv == AgentShape /\ (manager => form.selectedServer = store.globalServerSelected)

LEMMA AgentInitial == Agents!Init => AgentInv
<1> SUFFICES ASSUME Agents!Init PROVE AgentInv
  OBVIOUS
<1>1. "globalServerSelected" \in DOMAIN Agents!serversInitial
  BY DEF Agents!serversInitial
<1>2. "globalServerSelected" \in DOMAIN Agents!InitialStore
  BY <1>1 DEF Agents!InitialStore
<1>3. PICK s \in Agents!Blank :
        /\ store = [Agents!InitialStore EXCEPT !.globalServerSelected = s]
        /\ form = [ttl |-> 500, spiffeId |-> <<>>, message |-> FALSE, selectedServer |-> s]
  BY DEF Agents!Init
<1>4. calls = {}
  BY DEF Agents!Init
<1>5. DOMAIN store = DOMAIN Agents!InitialStore /\ store.globalServerSelected = s
  BY <1>2, <1>3
<1>6. QED
  BY <1>2, <1>3, <1>4, <1>5 DEF AgentInv, AgentShape

LEMMA AgentServerSelected ==
    ASSUME AgentInv, NEW s \in Servers, Agents!ServerSelected(s)
    PROVE  AgentInv' /\ UNCHANGED posts
<1> DEFINE action == Agents!serverSelectedFunc(s)
<1>1. action.slice = "globalServerSelected" /\ action.payload = s
  BY DEF Agents!serverSelectedFunc, Agents!Action
<1>2. store' = Dispatched(<<action>>)
  BY SameDispatched DEF Agents!ServerSelected, Agents!Dispatch
<1> HIDE DEF action
<1>3. DOMAIN store' = DOMAIN store /\ store'.globalServerSelected = s
  BY <1>1, <1>2, OneDispatched, DispatchedDomain DEF AgentInv, AgentShape
<1>4. form' = [form EXCEPT !.selectedServer = s] /\ UNCHANGED <<calls, manager, posts>>
  BY DEF Agents!ServerSelected, Agents!TakenOver
<1>5. DOMAIN form' = DOMAIN form /\ form'.selectedServer = s
  BY <1>4, Zenon DEF AgentInv, AgentShape
<1>6. QED
  BY <1>3, <1>4, <1>5 DEF AgentInv, AgentShape

\* The calls for selectors leave the server that is selected.
LEMMA AgentAnswered ==
    ASSUME AgentInv, Agents!Answers
    PROVE  /\ AgentInv' /\ UNCHANGED posts
           /\ store'.globalServerSelected = store.globalServerSelected
<1>1. PICK c \in calls, ok \in BOOLEAN : Agents!CallReturns(c, ok)
  BY DEF Agents!Answers
<1> DEFINE action == Agents!agentworkloadSelectorInfoFunc(c.server)
<1>2. c.op \in {"register", "selectors"}
  BY DEF AgentInv, AgentShape
<1>3. Agents!Answered(c, ok) \in {<<>>, <<action>>}
  <2>1. CASE c.op = "register"
    BY <2>1 DEF Agents!Answered
  <2>2. CASE c.op = "selectors"
    BY <2>2 DEF Agents!Answered, Agents!SelectorsAnswered
  <2>3. QED
    BY <1>2, <2>1, <2>2
<1>4. action.slice = "globalAgentsWorkLoadAttestorInfo"
  BY DEF Agents!agentworkloadSelectorInfoFunc, Agents!Action
<1>5. store' = Dispatched(Agents!Answered(c, ok))
  BY <1>1, SameDispatched DEF Agents!CallReturns, Agents!Dispatch
<1> HIDE DEF action
<1>6. /\ DOMAIN store' = DOMAIN store
      /\ store'.globalServerSelected = store.globalServerSelected
  <2> DEFINE acts == Agents!Answered(c, ok)
  <2>1. \A i \in DOMAIN acts : acts[i].slice /= "globalServerSelected"
    BY <1>3, <1>4
  <2> HIDE DEF acts
  <2>2. QED
    BY <1>5, <2>1, NotDispatched, DispatchedDomain DEF AgentInv, AgentShape, acts
<1>7. \A d \in calls' : d.op \in {"register", "selectors"}
  BY <1>1 DEF Agents!CallReturns, Agents!Follows, Agents!refreshSelectorsState, Agents!Call,
              AgentInv, AgentShape
<1>8. UNCHANGED <<manager, form, posts>>
  BY DEF Agents!Answers
<1>9. QED
  BY <1>6, <1>7, <1>8 DEF AgentInv, AgentShape

\* A token is asked for only of a server, for a time and under an id that are accepted.
LEMMA TokenPosted ==
    ASSUME Agents!AgentFormAssumption, AgentInv, Agents!OnSubmit
    PROVE  Agents!PostedStep
<1> SUFFICES ASSUME NEW p \in posts' \ posts
             PROVE  /\ p.server = IF manager THEN store.globalServerSelected ELSE Own
                    /\ p.ttl > 0
                    /\ p.path /= "" <=> form.spiffeId /= <<>>
  BY DEF Agents!PostedStep
<1>1. p = [server |-> Agents!Endpoint, ttl |-> form.ttl,
           path |-> IF form.spiffeId = <<>> THEN "" ELSE Agents!parseSpiffeId(form.spiffeId)[3]]
  BY DEF Agents!OnSubmit
<1>2. p.server = IF manager THEN store.globalServerSelected ELSE Own
  BY <1>1 DEF Agents!Endpoint, AgentInv
<1>3. p.ttl > 0
  BY <1>1 DEF Agents!OnSubmit, Agents!Accepted
<1>4. p.path /= "" <=> form.spiffeId /= <<>>
  <2>1. CASE form.spiffeId = <<>>
    BY <1>1, <2>1
  <2>2. CASE form.spiffeId /= <<>>
    <3>1. Agents!parseSpiffeId(form.spiffeId)[1]
      BY <2>2 DEF Agents!OnSubmit, Agents!Accepted
    <3>2. form.spiffeId \in AgentIds
      BY <3>1 DEF Agents!parseSpiffeId
    <3>3. p.path = form.spiffeId[2]
      BY <1>1, <2>2, <3>2 DEF Agents!parseSpiffeId
    <3>4. QED
      BY <2>2, <3>2, <3>3 DEF Agents!AgentFormAssumption
  <2>3. QED
    BY <2>1, <2>2
<1>5. QED
  BY <1>2, <1>3, <1>4

LEMMA AgentInductive ==
    ASSUME Agents!AgentFormAssumption, AgentInv, Agents!Next \/ UNCHANGED Agents!vars
    PROVE  AgentInv' /\ Agents!PostedStep
<1>1. posts' \subseteq posts => Agents!PostedStep
  BY DEF Agents!PostedStep
<1>2. ASSUME UNCHANGED <<store, manager>>, DOMAIN form' = DOMAIN form,
             form'.selectedServer = form.selectedServer,
             \A c \in calls' : c.op \in {"register", "selectors"}
      PROVE  AgentInv'
  BY <1>2 DEF AgentInv, AgentShape
<1>3. ASSUME \/ UNCHANGED form
             \/ \E v : form' = [form EXCEPT !.ttl = v]
             \/ \E v : form' = [form EXCEPT !.spiffeId = v]
             \/ \E v : form' = [form EXCEPT !.message = v]
      PROVE  DOMAIN form' = DOMAIN form /\ form'.selectedServer = form.selectedServer
  BY <1>3, Zenon DEF AgentInv, AgentShape
<1>4. \A c \in calls : c.op \in {"register", "selectors"}
  BY DEF AgentInv, AgentShape
<1>5. CASE \E s \in Servers : Agents!ServerSelected(s)
  BY <1>1, <1>5, AgentServerSelected
<1>6. CASE Agents!FieldChanges
  <2>1. /\ UNCHANGED <<store, calls, manager, posts>>
        /\ \/ \E v : form' = [form EXCEPT !.ttl = v]
           \/ \E v : form' = [form EXCEPT !.spiffeId = v]
    BY <1>6 DEF Agents!FieldChanges
  <2>2. QED
    BY <1>1, <1>2, <1>3, <1>4, <2>1
<1>7. CASE Agents!OnSubmit
  <2>1. /\ UNCHANGED <<store, calls, manager>>
        /\ UNCHANGED form \/ \E v : form' = [form EXCEPT !.message = v]
    BY <1>7 DEF Agents!OnSubmit
  <2>2. QED
    BY <1>2, <1>3, <1>4, <1>7, <2>1, TokenPosted
<1>8. CASE Agents!OnSubmitReturns
  <2>1. /\ UNCHANGED <<store, calls, manager>> /\ posts' = {}
        /\ UNCHANGED form \/ \E v : form' = [form EXCEPT !.message = v]
    BY <1>8 DEF Agents!OnSubmitReturns
  <2>2. QED
    BY <1>1, <1>2, <1>3, <1>4, <2>1
<1>9. CASE Agents!HandleSubmit
  <2>1. UNCHANGED <<store, manager, form, posts>>
    BY <1>9 DEF Agents!HandleSubmit
  <2>2. \A c \in calls' : c.op \in {"register", "selectors"}
    BY <1>4, <1>9 DEF Agents!HandleSubmit, Agents!registerSelectors, Agents!refreshSelectorsState,
                      Agents!Call
  <2>3. QED
    BY <1>1, <1>2, <2>1, <2>2
<1>10. CASE (\E p \in Agents!Plugins : Agents!OnChangeWorkloadPlugin(p)) \/ UNCHANGED Agents!vars
  <2>1. UNCHANGED <<store, calls, manager, form, posts>>
    BY <1>10 DEF Agents!OnChangeWorkloadPlugin, Agents!vars
  <2>2. QED
    BY <1>1, <1>2, <1>4, <2>1
<1>11. CASE Agents!Answers
  BY <1>1, <1>11, AgentAnswered
<1>12. QED
  BY <1>5, <1>6, <1>7, <1>8, <1>9, <1>10, <1>11 DEF Agents!Next

----------------------------------------------------------------------------
(* The types of the forms for agents                                        *)

\* The calls that the page makes.
LEMMA CallMade ==
    ASSUME NEW s \in Agents!Blank
    PROVE  {Agents!registerSelectors(s), Agents!refreshSelectorsState(s)} \subseteq Agents!Calls
BY DEF Agents!registerSelectors, Agents!refreshSelectorsState, Agents!Call, Agents!Calls

LEMMA CallOf ==
    \A c \in Agents!Calls : c.server \in Agents!Blank
BY DEF Agents!Calls

\* The form starts with the time that is preset.
LEMMA AgentTypesInitial ==
    ASSUME Agents!AgentFormAssumption, Agents!Init
    PROVE  Agents!TypeOK
<1>1. PICK s \in Agents!Blank :
        /\ store = [Agents!InitialStore EXCEPT !.globalServerSelected = s]
        /\ form = [ttl |-> 500, spiffeId |-> <<>>, message |-> FALSE, selectedServer |-> s]
  BY DEF Agents!Init
<1>2. AgentInv
  BY AgentInitial
<1>3. store.globalServerSelected = s
  BY <1>1, <1>2 DEF AgentInv, AgentShape
<1>4. QED
  BY <1>1, <1>3 DEF Agents!Init, Agents!TypeOK

\* One case for each action.
LEMMA AgentTypesInductive ==
    ASSUME Agents!AgentFormAssumption, AgentInv, Agents!TypeOK,
           Agents!Next \/ UNCHANGED Agents!vars
    PROVE  Agents!TypeOK'
<1> DEFINE FormOK == /\ form'.selectedServer \in Agents!Blank
                     /\ form'.ttl \in TTLs \cup {Agents!NoTTL, 500}
                     /\ form'.spiffeId \in AgentIds \cup {<<>>, Agents!NotAnId}
                     /\ form'.message \in BOOLEAN
           StoreOK == store'.globalServerSelected \in Agents!Blank
           PostsOK == \A p \in posts' : p.server \in Servers
           PluginOK == plugin' \in Agents!Plugins \cup {""}
<1>1. /\ Agents!Calls' = Agents!Calls /\ Agents!Blank' = Agents!Blank
      /\ Agents!NoTTL' = Agents!NoTTL /\ Agents!NotAnId' = Agents!NotAnId
      /\ Agents!Plugins' = Agents!Plugins
  BY DEF Agents!Calls, Agents!Blank, Agents!NoTTL, Agents!NotAnId, Agents!Plugins
<1>2. ASSUME FormOK, StoreOK, PostsOK, PluginOK, calls' \subseteq Agents!Calls, UNCHANGED manager
      PROVE  Agents!TypeOK'
  BY <1>1, <1>2 DEF Agents!TypeOK
<1>3. /\ UNCHANGED form => FormOK
      /\ UNCHANGED store => StoreOK
      /\ UNCHANGED posts => PostsOK
      /\ UNCHANGED plugin => PluginOK
      /\ UNCHANGED calls => calls' \subseteq Agents!Calls
  BY DEF Agents!TypeOK
<1>4. ASSUME NEW field \in {"ttl", "spiffeId", "message", "selectedServer"}, NEW v,
             form' = [form EXCEPT ![field] = v],
             \/ field = "ttl" /\ v \in TTLs \cup {Agents!NoTTL}
             \/ field = "spiffeId" /\ v \in AgentIds \cup {<<>>, Agents!NotAnId}
             \/ field = "message" /\ v \in BOOLEAN
             \/ field = "selectedServer" /\ v \in Servers
      PROVE  FormOK
  <2>1. DOMAIN form = {"ttl", "spiffeId", "message", "selectedServer"}
    BY DEF AgentInv, AgentShape
  <2>2. /\ form'[field] = v
        /\ \A f \in DOMAIN form : f /= field => form'[f] = form[f]
    BY <1>4, <2>1
  <2>3. /\ form.selectedServer \in Agents!Blank /\ form.ttl \in TTLs \cup {Agents!NoTTL, 500}
        /\ form.spiffeId \in AgentIds \cup {<<>>, Agents!NotAnId} /\ form.message \in BOOLEAN
    BY DEF Agents!TypeOK
  <2>4. CASE field = "ttl"
    BY <1>4, <2>1, <2>2, <2>3, <2>4
  <2>5. CASE field = "spiffeId"
    BY <1>4, <2>1, <2>2, <2>3, <2>5
  <2>6. CASE field = "message"
    BY <1>4, <2>1, <2>2, <2>3, <2>6
  <2>7. CASE field = "selectedServer"
    BY <1>4, <2>1, <2>2, <2>3, <2>7 DEF Agents!Blank
  <2>8. QED
    BY <2>4, <2>5, <2>6, <2>7
<1> HIDE DEF FormOK, StoreOK, PostsOK, PluginOK
<1>5. ASSUME NEW s \in Servers, Agents!ServerSelected(s) PROVE Agents!TypeOK'
  <2> DEFINE action == Agents!serverSelectedFunc(s)
  <2>1. action.slice = "globalServerSelected" /\ action.payload = s
    BY DEF Agents!serverSelectedFunc, Agents!Action
  <2>2. store' = Dispatched(<<action>>)
    BY <1>5, SameDispatched DEF Agents!ServerSelected, Agents!Dispatch
  <2> HIDE DEF action
  <2>3. StoreOK
    BY <2>1, <2>2, OneDispatched DEF AgentInv, AgentShape, StoreOK, Agents!Blank
  <2>4. form' = [form EXCEPT !["selectedServer"] = s]
    BY <1>5 DEF Agents!ServerSelected, Agents!TakenOver
  <2>5. FormOK
    BY <1>4, <2>4
  <2>6. QED
    BY <1>2, <1>3, <1>5, <2>3, <2>5 DEF Agents!ServerSelected
<1>6. CASE Agents!FieldChanges
  <2>1. FormOK
    <3>1. CASE \E t \in TTLs \cup {Agents!NoTTL} : form' = [form EXCEPT !.ttl = t]
      BY <1>4, <3>1
    <3>2. CASE \E id \in AgentIds \cup {<<>>, Agents!NotAnId} : form' = [form EXCEPT !.spiffeId = id]
      BY <1>4, <3>2
    <3>3. QED
      BY <1>6, <3>1, <3>2 DEF Agents!FieldChanges
  <2>2. QED
    BY <1>2, <1>3, <1>6, <2>1 DEF Agents!FieldChanges, Agents!TypeOK
<1>7. CASE Agents!OnSubmit
  <2>1. UNCHANGED <<store, calls, manager, plugin>>
    BY <1>7 DEF Agents!OnSubmit
  <2>2. CASE Agents!Endpoint = NoServer
    <3>1. form' = [form EXCEPT !["message"] = TRUE] /\ UNCHANGED posts
      BY <1>7, <2>2 DEF Agents!OnSubmit
    <3>2. FormOK
      BY <1>4, <3>1
    <3>3. QED
      BY <1>2, <1>3, <2>1, <3>1, <3>2
  <2>3. CASE Agents!Endpoint /= NoServer
    <3>1. Agents!Endpoint \in Servers
      BY <2>3, OwnAssumption DEF Agents!Endpoint, Agents!TypeOK, Agents!Blank
    <3>2. /\ UNCHANGED form
          /\ \E t, id : posts' = {[server |-> Agents!Endpoint, ttl |-> t, path |-> id]}
      BY <1>7, <2>3, Zenon DEF Agents!OnSubmit
    <3>3. QED
      BY <1>2, <1>3, <2>1, <3>1, <3>2 DEF PostsOK
  <2>4. QED
    BY <2>2, <2>3
<1>8. CASE Agents!OnSubmitReturns
  <2>1. FormOK
    <3>1. CASE form' = [form EXCEPT !.message = TRUE]
      BY <1>4, <3>1
    <3>2. QED
      BY <1>3, <1>8, <3>1 DEF Agents!OnSubmitReturns
  <2>2. QED
    BY <1>2, <1>3, <1>8, <2>1 DEF Agents!OnSubmitReturns, PostsOK
<1>9. ASSUME NEW p \in Agents!Plugins, Agents!OnChangeWorkloadPlugin(p) PROVE Agents!TypeOK'
  BY <1>2, <1>3, <1>9 DEF Agents!OnChangeWorkloadPlugin, PluginOK
<1>10. CASE Agents!HandleSubmit
  <2>1. PICK s \in Agents!Blank :
          calls' = calls \cup {Agents!registerSelectors(s), Agents!refreshSelectorsState(s)}
    BY <1>10, OwnAssumption DEF Agents!HandleSubmit, Agents!TypeOK, Agents!Blank
  <2>2. calls' \subseteq Agents!Calls
    BY <2>1, CallMade DEF Agents!TypeOK
  <2>3. QED
    BY <1>2, <1>3, <1>10, <2>2 DEF Agents!HandleSubmit
<1>11. CASE Agents!Answers
  <2>1. PICK c \in calls, ok \in BOOLEAN : Agents!CallReturns(c, ok)
    BY <1>11 DEF Agents!Answers
  <2>2. c.server \in Agents!Blank
    BY <2>1, CallOf DEF Agents!TypeOK
  <2>3. calls' \subseteq calls \cup {Agents!refreshSelectorsState(c.server)}
    BY <2>1 DEF Agents!CallReturns, Agents!Follows
  <2>4. calls' \subseteq Agents!Calls
    <3>1. Agents!refreshSelectorsState(c.server) \in Agents!Calls
      BY <2>2, CallMade
    <3> DEFINE next == Agents!refreshSelectorsState(c.server)
    <3>2. next \in Agents!Calls /\ calls' \subseteq calls \cup {next}
      BY <2>3, <3>1
    <3> HIDE DEF next
    <3>3. QED
      BY <3>2 DEF Agents!TypeOK
  <2>5. AgentInv'
    BY <1>11, AgentAnswered
  <2>6. store'.globalServerSelected = store.globalServerSelected
    BY <1>11, AgentAnswered
  <2>7. QED
    BY <1>2, <1>3, <1>11, <2>4, <2>6 DEF Agents!Answers, StoreOK, Agents!TypeOK
<1>12. CASE UNCHANGED Agents!vars
  BY <1>2, <1>3, <1>12 DEF Agents!vars, Agents!TypeOK
<1>13. QED
  BY <1>5, <1>6, <1>7, <1>8, <1>9, <1>10, <1>11, <1>12 DEF Agents!Next

----------------------------------------------------------------------------
(* The form for federations                                                 *)

UploadFields == {"list", "array", "federationLoaded", "ids", "selected", "federationSelected",
                 "field", "applied", "loading", "statusOK"}
AllUrls == Urls \cup {""}
Relationships == Seq(Federations!Federation)

FederationShape ==
    /\ DOMAIN bundle = {"bundleEndpointUrl", "trustBundle", "loading", "error"}
    /\ bundle.bundleEndpointUrl \in AllUrls /\ bundle.trustBundle \in Relationships
    /\ fetches \in Seq(AllUrls)
    /\ \A f \in files : f.list \in Relationships
    /\ DOMAIN upload = UploadFields
    /\ upload.list \in Relationships /\ upload.field \in AllUrls
    /\ reading \in Seq(files)
    /\ posts \in Seq(Relationships)

\* A list is of a file: relationship for relationship of the same trust domains, and an
\* object without one is as it was there; a URL is the file's, or is of the edits.
OfFile(list, edits, f) ==
    /\ Len(f.list) = Len(list)
    /\ \A i \in DOMAIN list :
        /\ f.list[i].domain = list[i].domain
        /\ list[i].url = f.list[i].url \/ <<i, list[i].url>> \in edits
        /\ f.list[i].domain = NoDomain => f.list[i] = list[i]

\* What is there to post is listed under its names, and is of a file there is.
ListedUnderNames ==
    upload.list /= <<>> =>
        /\ DOMAIN upload.list = DOMAIN upload.ids
        /\ \A i \in DOMAIN upload.list : upload.list[i].domain = upload.ids[i]
        /\ \E f \in files : OfFile(upload.list, upload.applied, f)

FederationInv == FederationShape /\ ListedUnderNames

LEMMA FederationInitial ==
    ASSUME Federations!FederationAssumption, Federations!Init
    PROVE  FederationInv
<1>1. /\ <<>> \in Relationships /\ <<>> \in Seq(AllUrls) /\ <<>> \in Seq(files)
      /\ <<>> \in Seq(Relationships)
  BY DEF Relationships
<1>2. \A f \in files : f.list \in Relationships
  BY DEF Federations!FederationAssumption, Federations!Init, Relationships
<1>3. FederationShape
  BY <1>1, <1>2 DEF Federations!Init, FederationShape, UploadFields, AllUrls
<1>4. QED
  BY <1>3 DEF Federations!Init, FederationInv, ListedUnderNames

\* The list that is shown, and its names, stay.
LEMMA ListKept ==
    ASSUME FederationInv, files \subseteq files', FederationShape',
           upload'.list = upload.list, upload'.ids = upload.ids, upload'.applied = upload.applied
    PROVE  FederationInv'
BY DEF FederationInv, ListedUnderNames, OfFile

LEMMA TrustBundleInductive ==
    ASSUME Federations!FederationAssumption, FederationInv, Federations!TrustBundlePage
    PROVE  FederationInv' /\ UNCHANGED posts
<1> USE DEF FederationInv, FederationShape
<1>1. UNCHANGED <<upload, reading, posts>>
  BY DEF Federations!TrustBundlePage
<1>2. SUFFICES /\ DOMAIN bundle' = DOMAIN bundle
               /\ bundle'.bundleEndpointUrl \in AllUrls /\ bundle'.trustBundle \in Relationships
               /\ fetches' \in Seq(AllUrls)
               /\ files \subseteq files' /\ \A f \in files' : f.list \in Relationships
  <2>1. reading' \in Seq(files')
    BY <1>1, <1>2
  <2>2. FederationShape'
    BY <1>1, <1>2, <2>1 DEF AllUrls, Relationships, Federations!Federation
  <2>3. QED
    BY <1>1, <1>2, <2>2, ListKept
<1>3. ASSUME NEW url \in Urls, Federations!HandleInputChange(url), UNCHANGED files
      PROVE  /\ DOMAIN bundle' = DOMAIN bundle
             /\ bundle'.bundleEndpointUrl \in AllUrls /\ bundle'.trustBundle \in Relationships
             /\ fetches' \in Seq(AllUrls)
  BY <1>3 DEF Federations!HandleInputChange, AllUrls
<1>4. ASSUME Federations!GetTrustBundle
      PROVE  /\ DOMAIN bundle' = DOMAIN bundle
             /\ bundle'.bundleEndpointUrl \in AllUrls /\ bundle'.trustBundle \in Relationships
             /\ fetches' \in Seq(AllUrls)
  <2>1. <<>> \in Relationships
    BY DEF Relationships
  <2>2. QED
    BY <1>4, <2>1 DEF Federations!GetTrustBundle
<1>5. ASSUME Federations!TrustBundleReturns
      PROVE  /\ DOMAIN bundle' = DOMAIN bundle
             /\ bundle'.bundleEndpointUrl \in AllUrls /\ bundle'.trustBundle \in Relationships
             /\ fetches' \in Seq(AllUrls)
  <2>1. PICK i \in DOMAIN fetches :
          /\ \/ bundle' = [bundle EXCEPT
                    !.trustBundle = <<[domain |-> OwnDomain, url |-> fetches[i]]>>, !.loading = FALSE]
             \/ bundle' = [bundle EXCEPT !.error = TRUE, !.loading = FALSE]
          /\ fetches' = Federations!Without(fetches, i)
    BY <1>5 DEF Federations!TrustBundleReturns
  <2>2. fetches[i] \in AllUrls
    OBVIOUS
  <2>3. [domain |-> OwnDomain, url |-> fetches[i]] \in Federations!Federation
    BY <2>2 DEF Federations!FederationAssumption, Federations!Federation, AllUrls
  <2>4. <<[domain |-> OwnDomain, url |-> fetches[i]]>> \in Relationships
    BY <2>3 DEF Relationships
  <2>5. fetches' \in Seq(AllUrls)
    BY <2>1, WithoutOne
  <2>6. QED
    BY <2>1, <2>4, <2>5
<1>6. ASSUME Federations!DownloadTrustBundle
      PROVE  /\ UNCHANGED <<bundle, fetches>> /\ files \subseteq files'
             /\ \A f \in files' : f.list \in Relationships
  BY <1>6 DEF Federations!DownloadTrustBundle
<1>7. QED
  BY <1>3, <1>4, <1>5, <1>6 DEF Federations!TrustBundlePage

\* A file has been read.
LEMMA FederationFileRead ==
    ASSUME FederationInv, Federations!FileRead, UNCHANGED <<bundle, fetches, files>>
    PROVE  FederationInv' /\ UNCHANGED posts
<1> USE DEF FederationInv, FederationShape
<1>1. PICK i \in DOMAIN reading :
        /\ upload' = Federations!Refused \/ upload' = Federations!Loaded(reading[i])
        /\ reading' = Federations!Without(reading, i)
  BY DEF Federations!FileRead
<1>2. UNCHANGED posts
  BY DEF Federations!FileRead
<1>3. reading' \in Seq(files')
  BY <1>1, WithoutOne
<1>4. CASE upload' = Federations!Refused
  <2>1. /\ DOMAIN upload' = DOMAIN upload /\ upload'.list = upload.list
        /\ upload'.ids = upload.ids /\ upload'.field = upload.field
        /\ upload'.applied = upload.applied
    BY <1>4 DEF Federations!Refused, UploadFields
  <2>2. FederationShape'
    BY <1>2, <1>3, <2>1 DEF AllUrls, Relationships, Federations!Federation
  <2>3. QED
    BY <1>2, <2>1, <2>2, ListKept
<1>5. CASE upload' = Federations!Loaded(reading[i])
  <2>1. reading[i] \in files /\ reading[i].list \in Relationships
    OBVIOUS
  <2>2. /\ DOMAIN upload' = DOMAIN upload /\ upload'.list = reading[i].list
        /\ upload'.ids = [k \in DOMAIN reading[i].list |-> reading[i].list[k].domain]
        /\ upload'.field = upload.field
    BY <1>5 DEF Federations!Loaded, UploadFields
  <2>3. FederationShape'
    BY <1>2, <1>3, <2>1, <2>2 DEF AllUrls, Relationships, Federations!Federation
  <2>4. OfFile(upload'.list, upload'.applied, reading[i])
    BY <2>2 DEF OfFile
  <2>5. ListedUnderNames'
    BY <2>1, <2>2, <2>4 DEF ListedUnderNames, OfFile
  <2>6. QED
    BY <1>2, <2>3, <2>5
<1>6. QED
  BY <1>1, <1>4, <1>5

\* An edit that is applied changes a URL, and no trust domain.
LEMMA FederationEdited ==
    ASSUME FederationInv, Federations!ApplyEditToFederation, UNCHANGED <<bundle, fetches, files>>
    PROVE  FederationInv' /\ UNCHANGED posts
<1> USE DEF FederationInv, FederationShape
<1> DEFINE list == Federations!Edited
           edit1 == <<upload.selected, upload.field>>
<1>1. /\ upload' = [upload EXCEPT !.list = list, !.selected = 0, !.federationSelected = FALSE,
                                  !.field = "", !.applied = upload.applied \cup {edit1}]
      /\ UNCHANGED <<reading, posts>>
  BY DEF Federations!ApplyEditToFederation
<1>2. /\ DOMAIN list = DOMAIN upload.list
      /\ \A i \in DOMAIN upload.list :
            /\ list[i] \in Federations!Federation
            /\ list[i].domain = upload.list[i].domain
            /\ list[i].url = upload.list[i].url \/ <<i, list[i].url>> = edit1
            /\ upload.list[i].domain = NoDomain => list[i] = upload.list[i]
  <2>1. DOMAIN list = DOMAIN upload.list
    BY DEF Federations!Edited
  <2>2. ASSUME NEW i \in DOMAIN upload.list
        PROVE  /\ list[i] \in Federations!Federation
               /\ list[i].domain = upload.list[i].domain
               /\ list[i].url = upload.list[i].url \/ <<i, list[i].url>> = edit1
               /\ upload.list[i].domain = NoDomain => list[i] = upload.list[i]
    <3>1. upload.list[i] \in Federations!Federation
      BY DEF Relationships
    <3>2. list[i] \in {upload.list[i], [upload.list[i] EXCEPT !.url = upload.field]}
      BY DEF Federations!Edited
    <3>3. upload.list[i].domain = NoDomain => list[i] = upload.list[i]
      BY DEF Federations!Edited
    <3>4. i /= upload.selected => list[i] = upload.list[i]
      BY DEF Federations!Edited
    <3>5. CASE list[i] = upload.list[i]
      BY <3>1, <3>3, <3>5
    <3>6. CASE list[i] /= upload.list[i]
      <4>1. i = upload.selected /\ list[i] = [upload.list[i] EXCEPT !.url = upload.field]
        BY <3>2, <3>4, <3>6
      <4>2. list[i].url = upload.field
        BY <3>1, <4>1 DEF Federations!Federation
      <4>3. QED
        BY <3>1, <3>3, <4>1, <4>2 DEF Federations!Federation, AllUrls
    <3>7. QED
      BY <3>5, <3>6
  <2>3. QED
    BY <2>1, <2>2
<1>3. list \in Relationships /\ Len(list) = Len(upload.list)
  <2>1. upload.list \in Relationships
    OBVIOUS
  <2>2. list = [i \in 1 .. Len(upload.list) |-> list[i]]
    BY <2>1 DEF Federations!Edited, Relationships
  <2>3. \A i \in 1 .. Len(upload.list) : list[i] \in Federations!Federation
    BY <1>2, <2>1 DEF Relationships
  <2>4. Len(upload.list) \in Nat
    BY <2>1 DEF Relationships
  <2> HIDE DEF list
  <2>5. list \in [1 .. Len(upload.list) -> Federations!Federation]
    BY <2>2, <2>3
  <2>6. ASSUME NEW T, NEW n \in Nat, NEW f \in [1 .. n -> T] PROVE f \in Seq(T) /\ Len(f) = n
    OBVIOUS
  <2>7. QED
    BY <2>4, <2>5, <2>6 DEF Relationships
<1> HIDE DEF list, edit1
<1>4. /\ DOMAIN upload' = DOMAIN upload /\ upload'.list = list /\ upload'.ids = upload.ids
      /\ upload'.field = "" /\ upload'.applied = upload.applied \cup {edit1}
  BY <1>1 DEF UploadFields
<1>5. FederationShape'
  BY <1>1, <1>3, <1>4 DEF AllUrls, Relationships, Federations!Federation
<1>6. ASSUME upload'.list /= <<>>
      PROVE  /\ DOMAIN list = DOMAIN upload.ids
             /\ \A i \in DOMAIN list : list[i].domain = upload.ids[i]
             /\ \E f \in files : OfFile(list, upload'.applied, f)
  <2>1. upload.list /= <<>>
    <3>1. list /= <<>>
      BY <1>4, <1>6
    <3>2. Len(list) /= 0
      BY <1>3, <3>1 DEF Relationships
    <3>3. QED
      BY <1>3, <3>2
  <2>2. PICK f \in files : OfFile(upload.list, upload.applied, f)
    BY <2>1 DEF ListedUnderNames
  <2>3. OfFile(list, upload'.applied, f)
    BY <1>2, <1>3, <1>4, <2>2 DEF OfFile
  <2>4. QED
    BY <1>2, <2>1, <2>3 DEF ListedUnderNames
<1>7. ListedUnderNames'
  BY <1>4, <1>6 DEF ListedUnderNames, OfFile
<1>8. QED
  BY <1>1, <1>5, <1>7

\* What is posted is the list that is shown, and nothing else is posted.
LEMMA FederationPosted ==
    ASSUME FederationInv,
           Federations!OnSubmit \/ Federations!OnSubmitReturns,
           UNCHANGED <<bundle, fetches, files>>
    PROVE  FederationInv' /\ Federations!PostedStep
<1> USE DEF FederationInv, FederationShape
<1>1. /\ DOMAIN upload' = DOMAIN upload /\ upload'.list = upload.list
      /\ upload'.ids = upload.ids /\ upload'.field = upload.field
      /\ upload'.applied = upload.applied
  BY DEF Federations!OnSubmit, Federations!OnSubmitReturns, UploadFields
<1>2. UNCHANGED reading
  BY DEF Federations!OnSubmit, Federations!OnSubmitReturns
<1>3. ASSUME posts' \in Seq(Relationships) PROVE FederationInv'
  <2>1. FederationShape'
    BY <1>1, <1>2, <1>3 DEF AllUrls, Relationships, Federations!Federation
  <2>2. QED
    BY <1>1, <2>1, ListKept
<1>4. CASE Federations!OnSubmit
  <2>1. posts' = Append(posts, upload.list) /\ upload.list /= <<>>
    BY <1>4 DEF Federations!OnSubmit
  <2>2. posts' \in Seq(Relationships) /\ posts'[Len(posts')] = upload.list
    BY <2>1
  <2>3. PICK f \in files : OfFile(upload.list, upload.applied, f)
    BY <2>1 DEF ListedUnderNames
  <2>4. Federations!PostedStep
    BY <2>1, <2>2, <2>3 DEF Federations!PostedStep, ListedUnderNames, OfFile
  <2>5. QED
    BY <1>3, <2>2, <2>4
<1>5. CASE Federations!OnSubmitReturns
  <2>1. PICK i \in DOMAIN posts : posts' = Federations!Without(posts, i)
    BY <1>5 DEF Federations!OnSubmitReturns
  <2>2. posts' \in Seq(Relationships) /\ Len(posts') = Len(posts) - 1 /\ Len(posts) \in Nat
    BY <2>1, WithoutOne
  <2>3. Federations!PostedStep
    BY <2>2 DEF Federations!PostedStep
  <2>4. QED
    BY <1>3, <2>2, <2>3
<1>6. QED
  BY <1>4, <1>5

\* The handlers that leave the list alone, or clear it.
LEMMA FederationHandled ==
    ASSUME FederationInv, UNCHANGED <<bundle, fetches, files>>,
           \/ \E f \in files : Federations!HandleFileUpload(f)
           \/ Federations!ClearFile
           \/ \E i \in DOMAIN upload.ids : Federations!SetSelectedFederation(i)
           \/ \E url \in Urls : Federations!EditEndpoint(url)
    PROVE  FederationInv' /\ UNCHANGED posts
<1> USE DEF FederationInv, FederationShape
<1>1. UNCHANGED posts
  BY DEF Federations!HandleFileUpload, Federations!ClearFile, Federations!SetSelectedFederation,
         Federations!EditEndpoint
<1>2. reading' \in Seq(files')
  <2>1. UNCHANGED reading \/ \E f \in files : reading' = Append(reading, f)
    BY DEF Federations!HandleFileUpload, Federations!ClearFile,
           Federations!SetSelectedFederation, Federations!EditEndpoint
  <2>2. reading \in Seq(files) /\ files' = files
    OBVIOUS
  <2>3. QED
    BY <2>1, <2>2
<1>3. ASSUME DOMAIN upload' = DOMAIN upload, upload'.list \in Relationships,
             upload'.field \in AllUrls
      PROVE  FederationShape'
  BY <1>1, <1>2, <1>3 DEF AllUrls, Relationships, Federations!Federation
<1>4. CASE \E f \in files : Federations!HandleFileUpload(f)
  <2>1. UNCHANGED upload
    BY <1>4 DEF Federations!HandleFileUpload
  <2>2. QED
    BY <1>1, <1>3, <2>1, ListKept
<1>5. CASE Federations!ClearFile
  <2>1. DOMAIN upload' = DOMAIN upload /\ upload'.list = <<>> /\ upload'.field = upload.field
    BY <1>5 DEF Federations!ClearFile, UploadFields
  <2>2. <<>> \in Relationships
    BY DEF Relationships
  <2>3. QED
    BY <1>1, <1>3, <2>1, <2>2 DEF ListedUnderNames
<1>6. CASE \E i \in DOMAIN upload.ids : Federations!SetSelectedFederation(i)
  <2>1. PICK i \in DOMAIN upload.ids :
          upload' = [upload EXCEPT !.selected = i, !.federationSelected = TRUE,
                                   !.field = Federations!UrlOf(i)]
    BY <1>6 DEF Federations!SetSelectedFederation
  <2>2. Federations!UrlOf(i) \in AllUrls
    <3>1. CASE i \in DOMAIN upload.list
      <4>1. upload.list[i] \in Federations!Federation
        BY <3>1 DEF Relationships
      <4>2. QED
        BY <3>1, <4>1 DEF Federations!UrlOf, Federations!Federation, AllUrls
    <3>2. CASE i \notin DOMAIN upload.list
      BY <3>2 DEF Federations!UrlOf, AllUrls
    <3>3. QED
      BY <3>1, <3>2
  <2>3. /\ DOMAIN upload' = DOMAIN upload /\ upload'.list = upload.list
        /\ upload'.ids = upload.ids /\ upload'.field = Federations!UrlOf(i)
        /\ upload'.applied = upload.applied
    BY <2>1 DEF UploadFields
  <2>4. QED
    BY <1>1, <1>3, <2>2, <2>3, ListKept
<1>7. CASE \E url \in Urls : Federations!EditEndpoint(url)
  <2>1. PICK url \in Urls : upload' = [upload EXCEPT !.field = url]
    BY <1>7 DEF Federations!EditEndpoint
  <2>2. /\ DOMAIN upload' = DOMAIN upload /\ upload'.list = upload.list
        /\ upload'.ids = upload.ids /\ upload'.field = url /\ upload'.applied = upload.applied
    BY <2>1 DEF UploadFields
  <2>3. QED
    BY <1>1, <1>3, <2>2, ListKept DEF AllUrls
<1>8. QED
  BY <1>4, <1>5, <1>6, <1>7

LEMMA FederationInductive ==
    ASSUME Federations!FederationAssumption, FederationInv,
           Federations!Next \/ UNCHANGED Federations!vars
    PROVE  FederationInv' /\ Federations!PostedStep
<1>1. UNCHANGED posts => Federations!PostedStep
  <2>1. Len(posts) \in Nat
    BY DEF FederationInv, FederationShape
  <2>2. QED
    BY <2>1 DEF Federations!PostedStep
<1>2. CASE Federations!TrustBundlePage
  BY <1>1, <1>2, TrustBundleInductive
<1>3. CASE Federations!FederationPage
  <2>1. UNCHANGED <<bundle, fetches, files>>
    BY <1>3 DEF Federations!FederationPage
  <2>2. CASE Federations!FileRead
    BY <1>1, <2>1, <2>2, FederationFileRead
  <2>3. CASE Federations!ApplyEditToFederation
    BY <1>1, <2>1, <2>3, FederationEdited
  <2>4. CASE Federations!OnSubmit \/ Federations!OnSubmitReturns
    BY <2>1, <2>4, FederationPosted
  <2>5. CASE ~(\/ Federations!FileRead \/ Federations!ApplyEditToFederation
               \/ Federations!OnSubmit \/ Federations!OnSubmitReturns)
    BY <1>1, <1>3, <2>1, <2>5, FederationHandled DEF Federations!FederationPage
  <2>6. QED
    BY <2>2, <2>3, <2>4, <2>5
<1>4. CASE UNCHANGED Federations!vars
  <2>1. UNCHANGED <<bundle, fetches, files, upload, reading, posts>>
    BY <1>4 DEF Federations!vars
  <2>2. FederationShape'
    BY <2>1 DEF FederationInv, FederationShape, AllUrls, Relationships, Federations!Federation
  <2>3. QED
    BY <1>1, <2>1, <2>2, ListKept
<1>5. QED
  BY <1>2, <1>3, <1>4 DEF Federations!Next

----------------------------------------------------------------------------
(* The types of the pages for federations                                   *)

\* The names that are listed are a sequence, whose places can be chosen.
FederationTypes == Federations!TypeOK /\ DOMAIN upload.ids \subseteq Nat

\* Nothing is shown at first.
LEMMA FederationTypesInitial ==
    ASSUME Federations!FederationAssumption, Federations!Init
    PROVE  FederationTypes
<1>1. FederationInv
  BY FederationInitial
<1>2. ASSUME NEW f \in files
      PROVE  f.array \in BOOLEAN /\ \A i \in DOMAIN f.list : f.list[i] \in Federations!Federation
  <2>1. f.array \in BOOLEAN
    BY DEF Federations!FederationAssumption, Federations!Init
  <2>2. f.list \in Seq(Federations!Federation)
    BY <1>1 DEF FederationInv, FederationShape, Relationships
  <2>3. QED
    BY <2>1, <2>2
<1>3. MaxReading \in Nat /\ MaxPosts \in Nat /\ Len(<<>>) = 0 /\ DOMAIN <<>> = {}
  BY DEF Federations!FederationAssumption
<1>4. /\ bundle.bundleEndpointUrl = "" /\ bundle.loading = FALSE /\ bundle.error = FALSE
      /\ bundle.trustBundle = <<>> /\ fetches = <<>> /\ reading = <<>> /\ posts = <<>>
  BY DEF Federations!Init
<1>5. /\ upload.list = <<>> /\ upload.ids = <<>> /\ upload.array = TRUE
      /\ upload.federationLoaded = FALSE /\ upload.loading = FALSE
      /\ upload.federationSelected = FALSE /\ upload.selected = 0 /\ upload.field = ""
      /\ upload.statusOK = "" /\ upload.applied = {}
  BY DEF Federations!Init
<1>6. Federations!TypeOK
  <2>1. /\ bundle.bundleEndpointUrl \in Urls \cup {""} /\ {bundle.loading, bundle.error} \subseteq BOOLEAN
        /\ {upload.array, upload.federationLoaded, upload.loading, upload.federationSelected}
              \subseteq BOOLEAN
    BY <1>4, <1>5, Zenon
  <2>2. /\ upload.selected \in Nat /\ upload.field \in Urls \cup {""}
        /\ upload.statusOK \in {"", "OK", "ERROR"}
    <3>1. upload.selected = 0 /\ upload.field = "" /\ upload.statusOK = ""
      BY <1>5, Zenon
    <3>2. upload.field \in Urls \cup {""} /\ upload.statusOK \in {"", "OK", "ERROR"}
      BY <3>1, Zenon
    <3>3. 0 \in Nat
      OBVIOUS
    <3>4. QED
      BY <3>1, <3>2, <3>3, Zenon
  <2>3. /\ Len(bundle.trustBundle) <= 1 /\ Len(fetches) <= MaxPosts
        /\ Len(reading) <= MaxReading /\ Len(posts) <= MaxPosts
    <3>1. /\ Len(bundle.trustBundle) = 0 /\ Len(fetches) = 0 /\ Len(reading) = 0
          /\ Len(posts) = 0
      BY <1>3, <1>4, Zenon
    <3>2. QED
      BY <1>3, <3>1
  <2>4. /\ \A i \in DOMAIN upload.list : upload.list[i] \in Federations!Federation
        /\ \A i \in DOMAIN upload.ids : upload.ids[i] \in Domains \cup {NoDomain}
    BY <1>3, <1>5, Zenon
  <2>5. upload.applied \subseteq Nat \X (Urls \cup {""})
    BY <1>5
  <2>6. QED
    BY <1>2, <2>1, <2>3, <2>4, <2>2, <2>5 DEF Federations!TypeOK
<1>7. QED
  BY <1>3, <1>5, <1>6 DEF FederationTypes

\* One case for each action of the two pages.
LEMMA FederationTypesInductive ==
    ASSUME Federations!FederationAssumption, FederationInv, FederationTypes,
           Federations!TrustBundlePage \/ Federations!FederationPage \/ UNCHANGED Federations!vars
    PROVE  FederationTypes'
<1> DEFINE FilesOK == \A f \in files' : f.array \in BOOLEAN
           BundleOK == /\ {bundle'.loading, bundle'.error} \subseteq BOOLEAN
                       /\ Len(bundle'.trustBundle) <= 1 /\ Len(fetches') <= MaxPosts
           FlagsOK == /\ {upload'.array, upload'.federationLoaded, upload'.loading,
                          upload'.federationSelected} \subseteq BOOLEAN
                      /\ upload'.statusOK \in {"", "OK", "ERROR"}
           IdsOK == /\ \A i \in DOMAIN upload'.ids : upload'.ids[i] \in Domains \cup {NoDomain}
                    /\ DOMAIN upload'.ids \subseteq Nat
           SelectedOK == upload'.selected \in Nat /\ upload'.applied \subseteq Nat \X AllUrls
           LengthsOK == Len(reading') <= MaxReading /\ Len(posts') <= MaxPosts
<1>1. FederationInv'
  BY FederationInductive DEF Federations!Next
<1>2. Federations!Federation' = Federations!Federation
  BY DEF Federations!Federation
<1>3. ASSUME FilesOK, BundleOK, FlagsOK, IdsOK, SelectedOK, LengthsOK PROVE FederationTypes'
  <2>1. /\ \A f \in files' : \A i \in DOMAIN f.list : f.list[i] \in Federations!Federation
        /\ \A i \in DOMAIN upload'.list : upload'.list[i] \in Federations!Federation
        /\ bundle'.bundleEndpointUrl \in Urls \cup {""} /\ upload'.field \in Urls \cup {""}
    <3>1. FederationShape'
      BY <1>1 DEF FederationInv
    <3>2. /\ \A f \in files' : f.list \in Seq(Federations!Federation)
          /\ upload'.list \in Seq(Federations!Federation)
          /\ bundle'.bundleEndpointUrl \in Urls \cup {""} /\ upload'.field \in Urls \cup {""}
      BY <1>2, <3>1 DEF FederationShape, Relationships, AllUrls
    <3>3. \A i \in DOMAIN upload'.list : upload'.list[i] \in Federations!Federation
      <4>1. upload'.list \in Seq(Federations!Federation)
        BY <3>2
      <4>2. QED
        BY <4>1
    <3>4. ASSUME NEW f \in files', NEW i \in DOMAIN f.list
          PROVE  f.list[i] \in Federations!Federation
      <4>1. f.list \in Seq(Federations!Federation)
        BY <3>2
      <4>2. QED
        BY <4>1
    <3>5. QED
      BY <3>2, <3>3, <3>4
  <2>2. Federations!TypeOK'
    BY <1>2, <1>3, <2>1 DEF Federations!TypeOK, AllUrls
  <2>3. QED
    BY <1>3, <2>2 DEF FederationTypes
<1>4. /\ UNCHANGED files => FilesOK
      /\ UNCHANGED <<bundle, fetches>> => BundleOK
      /\ UNCHANGED upload => FlagsOK /\ IdsOK /\ SelectedOK
      /\ UNCHANGED <<reading, posts>> => LengthsOK
  BY DEF FederationTypes, Federations!TypeOK, AllUrls
<1>5. /\ DOMAIN bundle = {"bundleEndpointUrl", "trustBundle", "loading", "error"}
      /\ DOMAIN upload = UploadFields
      /\ reading \in Seq(files) /\ posts \in Seq(Relationships) /\ fetches \in Seq(AllUrls)
  BY DEF FederationInv, FederationShape
<1>6. /\ Len(fetches) \in Nat /\ Len(reading) \in Nat /\ Len(posts) \in Nat
      /\ MaxPosts \in Nat /\ MaxReading \in Nat
      /\ Len(fetches) <= MaxPosts /\ Len(reading) <= MaxReading /\ Len(posts) <= MaxPosts
  <2>1. Len(fetches) \in Nat /\ Len(reading) \in Nat /\ Len(posts) \in Nat
    BY <1>5
  <2>2. MaxPosts \in Nat /\ MaxReading \in Nat
    BY DEF Federations!FederationAssumption
  <2>3. Len(fetches) <= MaxPosts /\ Len(reading) <= MaxReading /\ Len(posts) <= MaxPosts
    BY DEF FederationTypes, Federations!TypeOK
  <2>4. QED
    BY <2>1, <2>2, <2>3
<1>7. /\ {bundle.loading, bundle.error} \subseteq BOOLEAN /\ Len(bundle.trustBundle) <= 1
      /\ {upload.array, upload.federationLoaded, upload.loading, upload.federationSelected}
            \subseteq BOOLEAN
      /\ upload.statusOK \in {"", "OK", "ERROR"}
      /\ \A i \in DOMAIN upload.ids : upload.ids[i] \in Domains \cup {NoDomain}
      /\ DOMAIN upload.ids \subseteq Nat /\ upload.selected \in Nat
      /\ upload.applied \subseteq Nat \X AllUrls /\ upload.field \in AllUrls
      /\ \A f \in files : f.array \in BOOLEAN
  BY DEF FederationTypes, Federations!TypeOK, AllUrls
<1>8. CASE Federations!TrustBundlePage
  <2>1. UNCHANGED <<upload, reading, posts>>
    BY <1>8 DEF Federations!TrustBundlePage
  <2>2. SUFFICES FilesOK /\ BundleOK
    <3> HIDE DEF FilesOK, BundleOK, FlagsOK, IdsOK, SelectedOK, LengthsOK
    <3> QED  BY <1>3, <1>4, <2>1, <2>2
  <2>3. CASE (\E url \in Urls : Federations!HandleInputChange(url)) /\ UNCHANGED files
    BY <1>4, <1>5, <1>6, <1>7, <2>3 DEF Federations!HandleInputChange
  <2>4. CASE Federations!GetTrustBundle /\ UNCHANGED files
    <3>1. Len(<<>>) = 0
      OBVIOUS
    <3>2. /\ bundle' = [bundle EXCEPT !.loading = TRUE, !.error = FALSE, !.trustBundle = <<>>]
          /\ fetches' = Append(fetches, bundle.bundleEndpointUrl) /\ Len(fetches) < MaxPosts
      BY <2>4 DEF Federations!GetTrustBundle
    <3>3. Len(fetches') = Len(fetches) + 1
      BY <1>5, <3>2
    <3>4. bundle'.loading = TRUE /\ bundle'.error = FALSE /\ bundle'.trustBundle = <<>>
      BY <1>5, <3>2
    <3>5. BundleOK
      BY <1>6, <3>1, <3>2, <3>3, <3>4
    <3>6. QED
      BY <1>4, <2>4, <3>5
  <2>5. CASE Federations!TrustBundleReturns /\ UNCHANGED files
    <3>1. PICK i \in DOMAIN fetches :
            /\ \/ bundle' = [bundle EXCEPT
                      !.trustBundle = <<[domain |-> OwnDomain, url |-> fetches[i]]>>,
                      !.loading = FALSE]
               \/ bundle' = [bundle EXCEPT !.error = TRUE, !.loading = FALSE]
            /\ fetches' = Federations!Without(fetches, i)
      BY <2>5 DEF Federations!TrustBundleReturns
    <3>2. Len(fetches') = Len(fetches) - 1
      BY <1>5, <3>1, WithoutOne
    <3>3. \A f : Len(<<f>>) = 1
      OBVIOUS
    <3>4. Len(fetches') <= MaxPosts
      BY <1>6, <3>2
    <3> DEFINE answered == <<[domain |-> OwnDomain, url |-> fetches[i]]>>
    <3>5. Len(answered) = 1
      BY <3>3
    <3>6. \/ bundle' = [bundle EXCEPT !.trustBundle = answered, !.loading = FALSE]
          \/ bundle' = [bundle EXCEPT !.error = TRUE, !.loading = FALSE]
      BY <3>1
    <3> HIDE DEF answered
    <3>7. /\ bundle'.loading = FALSE /\ bundle'.error \in BOOLEAN
          /\ bundle'.trustBundle \in {answered, bundle.trustBundle}
      BY <1>5, <1>7, <3>6
    <3>8. BundleOK
      <4>1. Len(bundle'.trustBundle) <= 1
        <5>1. Len(bundle.trustBundle) <= 1
          BY <1>7
        <5>2. Len(answered) <= 1
          BY <3>5
        <5>3. QED
          BY <3>7, <5>1, <5>2, Zenon
      <4>2. {bundle'.loading, bundle'.error} \subseteq BOOLEAN
        BY <3>7, Zenon
      <4>3. QED
        BY <3>4, <4>1, <4>2
    <3>9. QED
      BY <1>4, <2>5, <3>8
  <2>6. CASE Federations!DownloadTrustBundle
    <3>1. /\ UNCHANGED <<bundle, fetches>>
          /\ files' = files \cup {[list |-> bundle.trustBundle, array |-> FALSE]}
      BY <2>6 DEF Federations!DownloadTrustBundle
    <3> DEFINE saved == [list |-> bundle.trustBundle, array |-> FALSE]
    <3>2. saved.array \in BOOLEAN /\ files' = files \cup {saved}
      BY <3>1
    <3> HIDE DEF saved
    <3>3. FilesOK
      BY <1>7, <3>2
    <3>4. QED
      BY <1>4, <3>1, <3>3
  <2>7. QED
    BY <1>8, <2>3, <2>4, <2>5, <2>6 DEF Federations!TrustBundlePage
<1>9. CASE Federations!FederationPage
  <2>1. UNCHANGED <<bundle, fetches, files>>
    BY <1>9 DEF Federations!FederationPage
  <2>2. SUFFICES FlagsOK /\ IdsOK /\ SelectedOK /\ LengthsOK
    <3> HIDE DEF FilesOK, BundleOK, FlagsOK, IdsOK, SelectedOK, LengthsOK
    <3> QED  BY <1>3, <1>4, <2>1, <2>2
  <2>3. CASE \E f \in files : Federations!HandleFileUpload(f)
    <3>1. PICK f \in files : /\ Len(reading) < MaxReading /\ reading' = Append(reading, f)
                             /\ UNCHANGED <<upload, posts>>
      BY <2>3 DEF Federations!HandleFileUpload
    <3>2. Len(reading') = Len(reading) + 1
      BY <1>5, <3>1
    <3>3. LengthsOK
      BY <1>6, <3>1, <3>2
    <3>4. QED
      BY <1>4, <3>1, <3>3
  <2>4. CASE Federations!FileRead
    <3>1. PICK i \in DOMAIN reading :
            /\ upload' = Federations!Refused \/ upload' = Federations!Loaded(reading[i])
            /\ reading' = Federations!Without(reading, i)
            /\ UNCHANGED posts
      BY <2>4 DEF Federations!FileRead
    <3>2. Len(reading') = Len(reading) - 1
      BY <1>5, <3>1, WithoutOne
    <3>3. LengthsOK
      BY <1>6, <3>1, <3>2
    <3>4. CASE upload' = Federations!Refused
      BY <1>5, <1>7, <3>3, <3>4 DEF Federations!Refused, UploadFields
    <3>5. CASE upload' = Federations!Loaded(reading[i])
      <4> DEFINE f == reading[i]
                 ids == [k \in DOMAIN f.list |-> f.list[k].domain]
      <4>1. f \in files
        BY <1>5
      <4>2. f.list \in Seq(Federations!Federation) /\ f.array \in BOOLEAN
        BY <1>7, <4>1 DEF FederationInv, FederationShape, Relationships
      <4> HIDE DEF f
      <4>3. DOMAIN ids \subseteq Nat /\ \A k \in DOMAIN ids : ids[k] \in Domains \cup {NoDomain}
        <5>1. DOMAIN f.list \subseteq Nat /\ \A k \in DOMAIN f.list : f.list[k] \in Federations!Federation
          BY <4>2
        <5>2. QED
          BY <5>1 DEF Federations!Federation
      <4>4. /\ upload'.ids = ids /\ upload'.array = f.array /\ upload'.federationLoaded = TRUE
            /\ upload'.statusOK = "" /\ upload'.loading = upload.loading
            /\ upload'.selected = upload.selected /\ upload'.applied = {}
            /\ upload'.federationSelected = upload.federationSelected
        BY <1>5, <3>5 DEF Federations!Loaded, UploadFields, f
      <4> HIDE DEF ids
      <4>5. QED
        BY <1>7, <3>3, <4>2, <4>3, <4>4
    <3>6. QED
      BY <3>1, <3>4, <3>5
  <2>5. CASE Federations!ClearFile
    <3>1. DOMAIN <<>> = {}
      OBVIOUS
    <3>2. LengthsOK
      BY <1>4, <2>5 DEF Federations!ClearFile
    <3>3. QED
      BY <1>5, <1>7, <2>5, <3>1, <3>2 DEF Federations!ClearFile, UploadFields
  <2>6. CASE \E i \in DOMAIN upload.ids : Federations!SetSelectedFederation(i)
    <3>1. PICK i \in DOMAIN upload.ids :
            /\ upload' = [upload EXCEPT !.selected = i, !.federationSelected = TRUE,
                                        !.field = Federations!UrlOf(i)]
            /\ UNCHANGED <<reading, posts>>
      BY <2>6 DEF Federations!SetSelectedFederation
    <3>2. QED
      BY <1>4, <1>5, <1>7, <3>1 DEF UploadFields
  <2>7. CASE \E url \in Urls : Federations!EditEndpoint(url)
    BY <1>4, <1>5, <1>7, <2>7 DEF Federations!EditEndpoint, UploadFields
  <2>8. CASE Federations!ApplyEditToFederation
    <3>1. /\ upload'.ids = upload.ids /\ upload'.array = upload.array
          /\ upload'.federationLoaded = upload.federationLoaded
          /\ upload'.statusOK = upload.statusOK /\ upload'.loading = upload.loading
          /\ upload'.selected = 0 /\ upload'.federationSelected = FALSE
          /\ upload'.applied = upload.applied \cup {<<upload.selected, upload.field>>}
          /\ UNCHANGED <<reading, posts>>
      BY <1>5, <2>8 DEF Federations!ApplyEditToFederation, UploadFields
    <3>2. IdsOK /\ SelectedOK
      <4>1. IdsOK
        BY <1>7, <3>1, Zenon
      <4>2. <<upload.selected, upload.field>> \in Nat \X AllUrls
        BY <1>7
      <4>3. upload'.selected = 0 /\ upload.applied \subseteq Nat \X AllUrls
        BY <1>7, <3>1
      <4>4. SelectedOK
        BY <3>1, <4>2, <4>3
      <4>5. QED
        BY <4>1, <4>4, Zenon
    <3>3. FlagsOK
      BY <1>7, <3>1
    <3>4. QED
      BY <1>4, <3>1, <3>2, <3>3
  <2>9. CASE Federations!OnSubmit
    <3>1. /\ posts' = Append(posts, upload.list) /\ Len(posts) < MaxPosts /\ UNCHANGED reading
          /\ upload' = [upload EXCEPT !.loading = TRUE, !.statusOK = ""]
      BY <2>9 DEF Federations!OnSubmit
    <3>2. Len(posts') = Len(posts) + 1
      BY <1>5, <3>1
    <3>3. LengthsOK
      BY <1>6, <3>1, <3>2
    <3>4. QED
      BY <1>5, <1>7, <3>1, <3>3 DEF UploadFields
  <2>10. CASE Federations!OnSubmitReturns
    <3>1. PICK i \in DOMAIN posts : posts' = Federations!Without(posts, i)
      BY <2>10 DEF Federations!OnSubmitReturns
    <3>2. PICK status \in {"OK", "ERROR"} :
            upload' = [upload EXCEPT !.loading = FALSE, !.statusOK = status]
      BY <2>10 DEF Federations!OnSubmitReturns
    <3>3. UNCHANGED reading
      BY <2>10 DEF Federations!OnSubmitReturns
    <3>4. Len(posts') = Len(posts) - 1
      BY <1>5, <3>1, WithoutOne
    <3>5. LengthsOK
      BY <1>6, <3>3, <3>4
    <3>6. QED
      BY <1>5, <1>7, <3>2, <3>5 DEF UploadFields
  <2>11. QED
    BY <1>9, <2>3, <2>4, <2>5, <2>6, <2>7, <2>8, <2>9, <2>10 DEF Federations!FederationPage
<1>10. CASE UNCHANGED Federations!vars
  <2>1. UNCHANGED <<bundle, fetches, files, upload, reading, posts>>
    BY <1>10 DEF Federations!vars
  <2> HIDE DEF FilesOK, BundleOK, FlagsOK, IdsOK, SelectedOK, LengthsOK
  <2>2. QED
    BY <1>3, <1>4, <2>1
<1>11. QED
  BY <1>8, <1>9, <1>10

----------------------------------------------------------------------------
(* The forms together                                                       *)

FormsInv ==
    /\ page = "entry" => EntryInv
    /\ page = "clusters" => ClusterInv
    /\ page = "backends" => BackendInv
    /\ page = "agents" => AgentInv
    /\ page \in FederationPages => FederationInv

LEMMA FormsInitial == Init => FormsInv
<1> SUFFICES ASSUME Init PROVE FormsInv
  OBVIOUS
<1>1. /\ page = "entry" => Entry!Init
      /\ page = "clusters" => Clusters!Init
      /\ page = "backends" => Backends!Init
      /\ page = "agents" => Agents!Init
      /\ page \in FederationPages => Federations!Init
  BY DEF Init, FederationPages
<1>2. QED
  BY <1>1, EntryInitial, ClusterInitial, BackendInitial, AgentInitial, FederationInitial,
     WebUIAssumption DEF WebUIAssumption, FormsInv

LEMMA FormsInductive ==
    ASSUME FormsInv, [Next]_vars
    PROVE  FormsInv' /\ PostedStep /\ EditStep
<1>1. page' = page
  BY StepOfPage
<1>2. page = "entry" => EntryInv' /\ Entry!PostedStep
  BY StepOfPage, EntryInductive DEF FormsInv
<1>3. page = "clusters" => ClusterInv' /\ Clusters!EditStep
  BY StepOfPage, ClusterInductive, WebUIAssumption DEF WebUIAssumption, FormsInv
<1>4. page = "backends" => BackendInv' /\ Backends!PostedStep
  BY StepOfPage, BackendInductive, WebUIAssumption DEF WebUIAssumption, FormsInv
<1>5. page = "agents" => AgentInv' /\ Agents!PostedStep
  BY StepOfPage, AgentInductive, WebUIAssumption DEF WebUIAssumption, FormsInv
<1>6. page \in FederationPages => FederationInv' /\ Federations!PostedStep
  BY StepOfPage, FederationInductive, WebUIAssumption DEF WebUIAssumption, FormsInv
<1>7. FormsInv'
  BY <1>1, <1>2, <1>3, <1>4, <1>5, <1>6 DEF FormsInv, FederationPages
<1>8. PostedStep /\ EditStep
  BY <1>2, <1>3, <1>4, <1>5, <1>6 DEF PostedStep, EditStep
<1>9. QED
  BY <1>7, <1>8

\* Between a handler and the next the forms keep what their submissions rest on: the parts
\* of an id are of its text, the stored time is the one that shows once the expiry has been
\* touched, the contents under an input are of the file picked there last, and the names and
\* URLs of federations are a file's own, but for the URLs that were applied.
THEOREM FormsInvariance == Spec => []FormsInv
<1>1. FormsInv /\ [Next]_vars => FormsInv'
  BY FormsInductive
<1>2. QED
  BY <1>1, FormsInitial, PTL DEF Spec

\* What is posted is, form by form: of an entry, the parts of the ids shown and, once the
\* expiry has been touched, the time shown, to the server that the header shows
\* (entry-create.tsx onSubmit and onYAMLEntryCreate; an untouched expiry posts the time that
\* an earlier form left, and the theorem says nothing of it); for a join token, what the form
\* shows, to that server (agent-create-join-token.tsx onSubmit); of federations, a file's
\* own, in order, but for the URLs that were applied (federation-create.tsx onSubmit); of a
\* backend, under each input the file picked there last (server-management.tsx onSubmit).
THEOREM PostsAreShown == Spec => PostedAsShown
<1>1. FormsInv /\ [Next]_vars => [PostedStep]_vars
  BY FormsInductive
<1>2. QED
  BY <1>1, FormsInvariance, PTL DEF Spec, PostedAsShown

\* An edit names the cluster that was chosen last, and brings what that had in every field
\* that has not been set since (cluster-edit.tsx onChangeClusterNameList and onSubmit).
THEOREM EditsTheChosen == Spec => EditIsOfChosen
<1>1. FormsInv /\ [Next]_vars => [EditStep]_vars
  BY FormsInductive
<1>2. QED
  BY <1>1, FormsInvariance, PTL DEF Spec, EditIsOfChosen

\* The message of the page reports a creation only once a backend has created an entry
\* (entry-create.tsx onSubmit, onYAMLEntryCreate and the message that render shows).
THEOREM CreationsAreTrue == Spec => []CreatedIsTrue
<1>1. EntryInv => Entry!CreatedIsTrue
  BY DEF EntryInv, EntryAnswer, Entry!CreatedIsTrue, Entry!SaysCreated, Entry!SaysSomeCreated
<1>2. FormsInv => CreatedIsTrue
  BY <1>1 DEF FormsInv, CreatedIsTrue
<1>3. QED
  BY <1>2, FormsInvariance, PTL

----------------------------------------------------------------------------
(* The types of all pages                                                   *)

\* What the variables of a page hold is of its type; those of other pages are idle.
TypesOfPage ==
    /\ page = "sidebar" => Health!TypeOK
    /\ page = "bar" => Bar!TypeOK
    /\ page = "upload" => Upload!TypeOK
    /\ page = "options" => Parents!TypeOK
    /\ page = "dashboard" => Numbers!TypeOK
    /\ page = "entry" => Entry!TypeOK
    /\ page = "clusters" => Clusters!TypeOK
    /\ page = "backends" => Backends!TypeOK
    /\ page = "agents" => Agents!TypeOK
    /\ page \in FederationPages => Federations!TypeOK

\* What a page keeps besides.
TypesInv ==
    /\ IndInv /\ FormsInv
    /\ page = "bar" => BarTypes
    /\ page = "upload" => UploadTypes
    /\ page = "options" => OptionTypes
    /\ page = "dashboard" => Numbers!TypeOK
    /\ page = "entry" => EntryTypes
    /\ page = "clusters" => ClustersTyped
    /\ page = "backends" => BackendTypes
    /\ page = "agents" => Agents!TypeOK
    /\ page \in FederationPages => FederationTypes

\* A page is opened with what has its types.
LEMMA TypesInitial == Init => TypesInv
<1> SUFFICES ASSUME Init PROVE TypesInv
  OBVIOUS
<1>1. /\ page = "bar" => Bar!Init
      /\ page = "upload" => Upload!Init
      /\ page = "options" => Parents!Init
      /\ page = "dashboard" => Numbers!Init
      /\ page = "entry" => Entry!Init
      /\ page = "clusters" => Clusters!Init
      /\ page = "backends" => Backends!Init
      /\ page = "agents" => Agents!Init
      /\ page \in FederationPages => Federations!Init
  BY DEF Init, FederationPages
<1>2. QED
  BY <1>1, WebUIAssumption, Initial, FormsInitial, BarTypesInitial, UploadTypesInitial,
     OptionTypesInitial, DashboardTypesInitial, EntryTypesInitial, ClusterTypesInitial,
     BackendTypesInitial, AgentTypesInitial, FederationTypesInitial
  DEF WebUIAssumption, TypesInv

\* A step of the page that is open keeps its types.
LEMMA TypesInductive ==
    ASSUME TypesInv, [Next]_vars
    PROVE  TypesInv'
<1>1. page' = page /\ IndInv' /\ FormsInv'
  BY StepOfPage, Inductive, FormsInductive DEF TypesInv
<1>2. page = "bar" => BarTypes'
  BY StepOfPage, BarTypesInductive DEF TypesInv
<1>3. page = "upload" => UploadTypes'
  BY StepOfPage, UploadTypesInductive, WebUIAssumption DEF WebUIAssumption, TypesInv, IndInv
<1>4. page = "options" => OptionTypes'
  BY StepOfPage, OptionTypesInductive DEF TypesInv
<1>5. page = "dashboard" => Numbers!TypeOK'
  BY StepOfPage, DashboardTypesInductive, WebUIAssumption DEF WebUIAssumption, TypesInv
<1>6. page = "entry" => EntryTypes'
  BY StepOfPage, EntryTypesInductive, WebUIAssumption DEF WebUIAssumption, TypesInv, FormsInv
<1>7. page = "clusters" => ClustersTyped'
  BY StepOfPage, ClusterTypesInductive, WebUIAssumption DEF WebUIAssumption, TypesInv, FormsInv
<1>8. page = "backends" => BackendTypes'
  BY StepOfPage, BackendTypesInductive, WebUIAssumption DEF WebUIAssumption, TypesInv, FormsInv
<1>9. page = "agents" => Agents!TypeOK'
  BY StepOfPage, AgentTypesInductive, WebUIAssumption DEF WebUIAssumption, TypesInv, FormsInv
<1>10. page \in FederationPages => FederationTypes'
  <2>1. page \in FederationPages =>
          Federations!TrustBundlePage \/ Federations!FederationPage \/ UNCHANGED Federations!vars
    BY StepOfPage DEF Federations!Next
  <2>2. QED
    BY <2>1, FederationTypesInductive, WebUIAssumption DEF WebUIAssumption, TypesInv, FormsInv
<1>11. QED
  BY <1>1, <1>2, <1>3, <1>4, <1>5, <1>6, <1>7, <1>8, <1>9, <1>10 DEF TypesInv, FederationPages

\* What every page of the web UI holds is always of its type: the slices of the store that
\* it reads, its fields and what has been parsed out of them, the requests that it has under
\* way, with the server that each of them names, and the numbers that it counts with.
THEOREM TypesOfPages == Spec => []TypesOfPage
<1>1. TypesInv /\ [Next]_vars => TypesInv'
  BY TypesInductive
<1>2. TypesInv => TypesOfPage
  BY DEF TypesInv, TypesOfPage, IndInv, HealthInv, BarTypes, UploadTypes, OptionTypes, EntryTypes,
         ClustersTyped, BackendTypes, FederationTypes
<1>3. QED
  BY TypesInitial, <1>1, <1>2, PTL DEF Spec
=============================================================================
