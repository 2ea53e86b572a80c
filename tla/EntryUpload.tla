----------------------------- MODULE EntryUpload -----------------------------
(****************************************************************************)
(* The upload of a file of new entries and the editor of its entries        *)
(* (components/entry-create-json.tsx), on the page whose button Create      *)
(* Entries posts what globalNewEntries holds (EntryForm).                   *)
(*                                                                          *)
(* The store and the component refer to arrays, and an edit is made in the  *)
(* array: "arrays" holds the content of each, by the order of their making, *)
(* and a reference is an index. The first is the empty array of the initial *)
(* state. A file is an array of entries, or nothing that parses as one.     *)
(* An id is a domain and a path, each of which a text may lack; Malformed   *)
(* is any other text. The rest of an entry is its DNS names, or none.       *)
(*                                                                          *)
(* Bounds: MaxUploads files are read, and the page is not left meanwhile.   *)
(****************************************************************************)
EXTENDS TornjakStore, FiniteSets

CONSTANTS
    Modes,          \* TRUE: the tab is of a manager (IsManager)
    Paths,          \* the paths of ids
    Missing,        \* of an entry: it has no such id; of a file: no entries in it
    Files,          \* what the files contain
    MaxUploads

Ids == Servers \X Paths
Entry == [spiffe_id : Ids \cup {Missing}, parent_id : Ids \cup {Missing}, dns_names : BOOLEAN]

\* What is assumed of the constants.
UploadAssumption ==
    /\ Modes \subseteq BOOLEAN /\ MaxUploads \in Nat
    /\ "" \notin Paths
    /\ \A f \in Files : f = Missing \/ f \in Seq(Entry)

VARIABLES
    manager,        \* the mode of the tab
    arrays,         \* the contents of the arrays of entries
    upload,         \* the state of CreateEntryJson, its fields aside
    fields,         \* the fields of the editor and what has been parsed out of them
    reading         \* the files that are being read

vars == <<store, manager, arrays, upload, fields, reading>>

Pairs == (Servers \cup {NoServer}) \X (Paths \cup {""})
Empty == <<NoServer, "">>
Malformed == <<"malformed">>
Texts == Pairs \cup {Malformed}
NoSelection == 0

UploadTypes ==
    [uploadedEntries : 1 .. Len(arrays), selectedEntryId : Nat, entrySelected : BOOLEAN,
     isEntriesLoaded : BOOLEAN, newEntriesLoaded : BOOLEAN, parseError : BOOLEAN]

TypeOK ==
    /\ manager \in Modes
    /\ arrays \in Seq(Seq(Entry)) /\ Len(arrays) \in 1 .. MaxUploads + 1
    /\ store.globalNewEntries \in 1 .. Len(arrays)
    /\ upload \in UploadTypes
    /\ fields \in [spiffeId : Texts, spiffeParts : Pairs, parentId : Texts, parentParts : Pairs,
                   prefix : Blank, selectors : BOOLEAN, dnsNames : BOOLEAN]
    /\ reading \subseteq Files

BlankUpload ==
    [uploadedEntries |-> 1, selectedEntryId |-> NoSelection, entrySelected |-> FALSE,
     isEntriesLoaded |-> FALSE, newEntriesLoaded |-> FALSE, parseError |-> FALSE]

BlankFields ==
    [spiffeId |-> Empty, spiffeParts |-> Empty, parentId |-> Empty, parentParts |-> Empty,
     prefix |-> NoServer, selectors |-> FALSE, dnsNames |-> FALSE]

Init ==
    /\ manager \in Modes
    /\ store = [InitialStore EXCEPT !.globalNewEntries = 1]
    /\ arrays = <<(<<>>)>>
    /\ upload = BlankUpload
    /\ fields = BlankFields
    /\ reading = {}

\* The page is left and opened again; a backend's tab begins with no new entries.
Reopen ==
    /\ reading = {}
    /\ upload' = BlankUpload /\ fields' = BlankFields
    /\ Dispatch(IF manager THEN <<>> ELSE <<newEntriesUpdateFunc(1)>>)
    /\ UNCHANGED <<manager, arrays, reading>>

\* componentDidUpdate: a list of agents has come in.
AgentsArrive ==
    /\ Dispatch(<<newEntriesUpdateFunc(upload.uploadedEntries)>>)
    /\ UNCHANGED <<manager, arrays, upload, fields, reading>>

Uploaded == arrays[upload.uploadedEntries]

----------------------------------------------------------------------------
(* Selecting an entry                                                       *)

Shown(id) == IF id = Missing THEN Empty ELSE id

Populated(e) ==
    [spiffeId |-> Shown(e.spiffe_id), spiffeParts |-> Shown(e.spiffe_id),
     parentId |-> Shown(e.parent_id), parentParts |-> Shown(e.parent_id),
     prefix |-> Shown(e.spiffe_id)[1], selectors |-> TRUE, dnsNames |-> e.dns_names]

\* setSelectedEntriesIds. With an entry under edit the user is asked, and may stay with it.
SetSelectedEntriesIds(i, e, up) ==
    \/ /\ upload.entrySelected
       /\ upload' = up
       /\ UNCHANGED fields
    \/ /\ upload' = [up EXCEPT !.selectedEntryId = i, !.entrySelected = TRUE]
       /\ fields' = Populated(e)

EditorThere == upload.isEntriesLoaded /\ ~upload.parseError

SelectEntry(i) ==
    /\ EditorThere
    /\ i \in DOMAIN Uploaded
    /\ SetSelectedEntriesIds(i, Uploaded[i], upload)
    /\ UNCHANGED <<store, manager, arrays, reading>>

----------------------------------------------------------------------------
(* Uploading                                                                *)

\* handleChange: a file is picked, or the choice of one is given up.
PickFile(f) ==
    /\ reading' = reading \cup {f}
    /\ Len(arrays) + Cardinality(reading') <= MaxUploads + 1

HandleChange(picked) ==
    /\ upload' = [upload EXCEPT !.parseError = FALSE, !.isEntriesLoaded = TRUE,
                                !.newEntriesLoaded = FALSE]
    /\ IF picked THEN \E f \in Files \ reading : PickFile(f) ELSE UNCHANGED reading
    /\ UNCHANGED <<store, manager, arrays, fields>>

LoadFails ==
    /\ upload' = [upload EXCEPT !.parseError = TRUE]
    /\ UNCHANGED fields

\* The file is no object with an array of entries.
LoadNothing(f) ==
    /\ f = Missing
    /\ LoadFails
    /\ UNCHANGED <<store, arrays>>

\* The store takes the entries before they are looked at.
StoreNew(f) ==
    /\ f /= Missing
    /\ arrays' = Append(arrays, f)
    /\ Dispatch(<<newEntriesUpdateFunc(Len(arrays'))>>)

LacksId(f) == \E i \in DOMAIN f : f[i].spiffe_id = Missing

\* An entry without an id: the look at it throws.
LoadRefused(f) ==
    /\ StoreNew(f)
    /\ LacksId(f)
    /\ LoadFails

\* Mutant: the store takes the entries only when it has been told of the agents.
LoadedUnstored(f) ==
    /\ f /= Missing /\ ~LacksId(f)
    /\ arrays' = Append(arrays, f) /\ UNCHANGED store
    /\ upload' = [upload EXCEPT !.parseError = FALSE, !.uploadedEntries = Len(arrays'),
                                !.newEntriesLoaded = TRUE]
    /\ UNCHANGED fields

\* The first entry is selected; of a file without entries, the first of the file
\* before, and where there is none either, that throws, unless the user stays with the
\* entry under edit.
Loaded(f) ==
    LET up == [upload EXCEPT !.parseError = FALSE, !.uploadedEntries = Len(arrays'),
                             !.newEntriesLoaded = TRUE]
    IN  /\ StoreNew(f)
        /\ ~LacksId(f)
        /\ \/ f /= <<>> /\ SetSelectedEntriesIds(1, f[1], up)
           \/ f = <<>> /\ Uploaded /= <<>> /\ SetSelectedEntriesIds(1, Uploaded[1], up)
           \/ /\ f = <<>> /\ Uploaded = <<>>
              /\ \E stays \in BOOLEAN :
                    /\ stays => upload.entrySelected
                    /\ upload' = [up EXCEPT !.parseError = ~stays]
              /\ UNCHANGED fields

FileRead ==
    \E f \in reading :
        /\ LoadNothing(f) \/ LoadRefused(f) \/ Loaded(f)
        /\ reading' = reading \ {f}
        /\ UNCHANGED manager

\* onDelete of the uploader: the store keeps the entries.
ClearFile ==
    /\ upload' = BlankUpload
    /\ UNCHANGED <<store, manager, arrays, fields, reading>>

----------------------------------------------------------------------------
(* Editing                                                                  *)

\* parseSpiffeId
Parse(text) == IF text \in Ids THEN text ELSE Empty

\* Mutant: a parent that does not parse leaves the parts of the one before.
ParentKept(text) ==
    fields' = [fields EXCEPT !.parentId = text,
                             !.parentParts = IF text \in Ids THEN text ELSE @]

OnChangeParentIdInput(text) ==
    fields' = [fields EXCEPT !.parentId = text, !.parentParts = Parse(text)]

\* The id is typed behind the prefix.
OnChangeSpiffeId(text) ==
    /\ fields.prefix = NoServer \/ text[1] \in {fields.prefix, "malformed"}
    /\ fields' = [fields EXCEPT !.spiffeId = text, !.spiffeParts = Parse(text)]

\* onChangeParentId: a parent of the list brings its domain to the id; one that does
\* not parse leaves its field as it was.
OnChangeParentId(sid) ==
    /\ upload.entrySelected
    /\ fields' = IF Parse(sid) = Empty THEN [fields EXCEPT !.parentParts = Empty]
                 ELSE [fields EXCEPT !.parentParts = sid, !.parentId = sid, !.prefix = sid[1],
                                     !.spiffeParts = <<sid[1], fields.spiffeParts[2]>>,
                                     !.spiffeId = <<sid[1], fields.spiffeParts[2]>>]

OnChangeRest(selectors, dnsNames) ==
    fields' = [fields EXCEPT !.selectors = selectors, !.dnsNames = dnsNames]

EditFields ==
    /\ EditorThere
    /\ \/ \E text \in Texts : OnChangeParentIdInput(text) \/ OnChangeSpiffeId(text)
       \/ \E sid \in Ids \cup {Malformed} : OnChangeParentId(sid)
       \/ \E s \in BOOLEAN, d \in BOOLEAN : OnChangeRest(s, d)
    /\ UNCHANGED <<store, manager, arrays, upload, reading>>

\* The checks of applyEditToEntry, each of which ends it with an alert.
Applicable ==
    /\ upload.selectedEntryId /= NoSelection
    /\ fields.spiffeParts \in Ids /\ fields.parentParts \in Ids
    /\ fields.selectors

\* Names that have been cleared are not cleared in the entry.
EditedEntry(e) ==
    [spiffe_id |-> fields.spiffeParts, parent_id |-> fields.parentParts,
     dns_names |-> fields.dnsNames \/ e.dns_names]

\* applyEditToEntry; where there is no such entry any more it throws, and nothing has
\* changed.
ApplyEditToEntry ==
    LET i == upload.selectedEntryId
    IN  /\ EditorThere
        /\ Applicable
        /\ i \in DOMAIN Uploaded
        /\ arrays' = [arrays EXCEPT ![upload.uploadedEntries][i] = EditedEntry(@)]
        /\ upload' = [upload EXCEPT !.selectedEntryId = NoSelection, !.entrySelected = FALSE]
        /\ fields' = [fields EXCEPT !.parentId = Empty, !.spiffeId = Empty,
                                    !.selectors = FALSE, !.dnsNames = FALSE]
        /\ UNCHANGED <<store, manager, reading>>

Next ==
    \/ Reopen
    \/ AgentsArrive
    \/ \E i \in DOMAIN Uploaded : SelectEntry(i)
    \/ \E picked \in BOOLEAN : HandleChange(picked)
    \/ FileRead
    \/ ClearFile
    \/ EditFields
    \/ ApplyEditToEntry

Spec == Init /\ [][Next]_vars

----------------------------------------------------------------------------
(* Properties                                                               *)

\* While the page says that entries have been loaded from a file (:643), the button
\* Create Entries posts the entries that the page shows, with the edits that have been
\* applied to them: of files that fail, are read side by side, are cleared or edited,
\* none leaves the store and the page apart and the page saying so.
LoadedIsPosted ==
    upload.newEntriesLoaded /\ ~upload.parseError
      => arrays[store.globalNewEntries] = Uploaded

\* An edit that is applied changes one entry of the array the page shows, to the ids that
\* its fields show: what has been parsed is never of an earlier text.
AppliedStep ==
    \A a \in DOMAIN arrays : arrays'[a] /= arrays[a] =>
        /\ a = upload.uploadedEntries
        /\ \A i \in DOMAIN arrays[a] : arrays'[a][i] /= arrays[a][i] =>
              /\ arrays'[a][i].spiffe_id = fields.spiffeId
              /\ arrays'[a][i].parent_id = fields.parentId

AppliedAsShown == [][AppliedStep]_vars
=============================================================================
