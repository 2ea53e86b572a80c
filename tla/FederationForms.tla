--------------------------- MODULE FederationForms ---------------------------
(***************************************************************************)
(* The pages that bring a federation about (components/trustbundle-        *)
(* create.tsx, federation-create.tsx): on one, the trust bundle of this    *)
(* server is fetched and saved as a file; on the other, a file is picked,  *)
(* its federations are edited and posted. A federation is its trust domain *)
(* and the URL of its bundle endpoint, and its bundle, which goes with the *)
(* domain, is left out. What SPIRE makes of a post is external.            *)
(*                                                                         *)
(* Bounds: MaxReading files being read, MaxPosts posts and MaxPosts        *)
(* fetches under way; a file is an object or an array of objects, or no    *)
(* JSON; an object has one relationship at most.                           *)
(***************************************************************************)
EXTENDS Integers, Sequences

CONSTANTS
    OwnDomain,      \* the trust domain of the server
    Domains, Urls,
    NoDomain,       \* "No Trust Domain": of an object without a relationship
    Files,          \* those at hand: [list, array], or NotJSON
    MaxReading, MaxPosts

NotJSON == [list |-> <<>>, array |-> FALSE]

Federation == [domain : Domains \cup {NoDomain}, url : Urls \cup {""}]

\* What is assumed of the constants.
FederationAssumption ==
    /\ OwnDomain \in Domains /\ NoDomain \notin Domains
    /\ NotJSON \in Files
    /\ \A f \in Files : /\ f.list \in Seq(Federation) /\ f.array \in BOOLEAN
                        /\ f.array \/ Len(f.list) <= 1
    /\ MaxReading \in Nat /\ MaxPosts \in Nat

VARIABLES
    bundle,         \* the state of TrustBundleCreate
    fetches,        \* the URLs of the requests for the bundle under way
    files,          \* the files there are to pick: those at hand, and bundles saved
    upload,         \* the state of FederationCreate; history: the edits applied to its list
    reading,        \* the files being read, in the order they were picked
    posts           \* the posts under way

vars == <<bundle, fetches, files, upload, reading, posts>>

TypeOK ==
    /\ bundle.bundleEndpointUrl \in Urls \cup {""} /\ {bundle.loading, bundle.error} \subseteq BOOLEAN
    /\ Len(bundle.trustBundle) <= 1 /\ Len(fetches) <= MaxPosts
    /\ \A f \in files : f.array \in BOOLEAN /\ \A i \in DOMAIN f.list : f.list[i] \in Federation
    /\ \A i \in DOMAIN upload.list : upload.list[i] \in Federation
    /\ {upload.array, upload.federationLoaded, upload.loading, upload.federationSelected} \subseteq BOOLEAN
    /\ \A i \in DOMAIN upload.ids : upload.ids[i] \in Domains \cup {NoDomain}
    /\ upload.selected \in Nat /\ upload.field \in Urls \cup {""}
    /\ upload.applied \subseteq Nat \X (Urls \cup {""})
    /\ upload.statusOK \in {"", "OK", "ERROR"}
    /\ Len(reading) <= MaxReading /\ Len(posts) <= MaxPosts

Init ==
    /\ bundle = [bundleEndpointUrl |-> "", trustBundle |-> <<>>, loading |-> FALSE, error |-> FALSE]
    /\ fetches = <<>>
    /\ files = Files
    /\ upload = [list |-> <<>>, array |-> TRUE, federationLoaded |-> FALSE, ids |-> <<>>,
                 selected |-> 0, federationSelected |-> FALSE, field |-> "",
                 applied |-> {}, loading |-> FALSE, statusOK |-> ""]
    /\ reading = <<>> /\ posts = <<>>

Without(s, i) == SubSeq(s, 1, i - 1) \o SubSeq(s, i + 1, Len(s))

----------------------------------------------------------------------------
(* The trust bundle                                                         *)

HandleInputChange(url) ==
    /\ bundle' = [bundle EXCEPT !.bundleEndpointUrl = url]
    /\ UNCHANGED fetches

GetTrustBundle ==
    /\ Len(fetches) < MaxPosts
    /\ bundle' = [bundle EXCEPT !.loading = TRUE, !.error = FALSE, !.trustBundle = <<>>]
    /\ fetches' = Append(fetches, bundle.bundleEndpointUrl)

\* The bundle, with the URL there was when it was asked for; or an error. Neither takes
\* away what the answer of another request left.
TrustBundleReturns ==
    \E i \in DOMAIN fetches :
        /\ \/ bundle' = [bundle EXCEPT !.trustBundle = <<[domain |-> OwnDomain, url |-> fetches[i]]>>,
                                       !.loading = FALSE]
           \/ bundle' = [bundle EXCEPT !.error = TRUE, !.loading = FALSE]
        /\ fetches' = Without(fetches, i)

\* The bundle that is shown is saved.
DownloadTrustBundle ==
    /\ ~bundle.loading /\ ~bundle.error /\ bundle.trustBundle /= <<>>
    /\ files' = files \cup {[list |-> bundle.trustBundle, array |-> FALSE]}
    /\ UNCHANGED <<bundle, fetches>>

TrustBundlePage ==
    /\ \/ \E url \in Urls : HandleInputChange(url) /\ UNCHANGED files
       \/ GetTrustBundle /\ UNCHANGED files
       \/ TrustBundleReturns /\ UNCHANGED files
       \/ DownloadTrustBundle
    /\ UNCHANGED <<upload, reading, posts>>

----------------------------------------------------------------------------
(* The file                                                                 *)

\* handleFileUpload: a file is picked, and read later.
HandleFileUpload(f) ==
    /\ f \in files /\ Len(reading) < MaxReading
    /\ reading' = Append(reading, f)
    /\ UNCHANGED <<upload, posts>>

Refused == [upload EXCEPT !.statusOK = "ERROR"]

\* Mutant: the names of a list that is shown already stay.
LoadedUnderOldNames(f) ==
    [upload EXCEPT !.list = f.list, !.array = f.array, !.federationLoaded = TRUE,
                   !.applied = {}, !.statusOK = "",
                   !.ids = IF upload.federationLoaded THEN @
                           ELSE [i \in DOMAIN f.list |-> f.list[i].domain]]

\* The file takes the place of the one there was. What was chosen in that stays chosen,
\* by its place, and what was typed stays in the field.
Loaded(f) ==
    [upload EXCEPT !.list = f.list, !.array = f.array, !.federationLoaded = TRUE,
                   !.applied = {}, !.statusOK = "",
                   !.ids = [i \in DOMAIN f.list |-> f.list[i].domain]]

\* It has been read, in whatever order the files were picked, or cannot be.
FileRead ==
    /\ \E i \in DOMAIN reading :
        /\ upload' \in {Refused} \cup IF reading[i] = NotJSON THEN {} ELSE {Loaded(reading[i])}
        /\ reading' = Without(reading, i)
    /\ UNCHANGED posts

\* onDelete: the choice stays here too, and so does a file that is being read.
ClearFile ==
    /\ upload' = [upload EXCEPT !.list = <<>>, !.array = TRUE, !.federationLoaded = FALSE,
                                !.applied = {}, !.statusOK = "", !.ids = <<>>]
    /\ UNCHANGED <<reading, posts>>

----------------------------------------------------------------------------
(* The editor, which is there once a file has been loaded                   *)

UrlOf(i) == IF i \in DOMAIN upload.list THEN upload.list[i].url ELSE ""

\* setSelectedFederation. One that was chosen is left only when the user agrees to it; of
\* an object, the first place is the only one.
SetSelectedFederation(i) ==
    /\ upload.federationLoaded /\ i \in DOMAIN upload.ids
    /\ upload.array \/ i = 1
    /\ upload' = [upload EXCEPT !.selected = i, !.federationSelected = TRUE, !.field = UrlOf(i)]
    /\ UNCHANGED <<reading, posts>>

EditEndpoint(url) ==
    /\ upload.federationLoaded /\ upload.federationSelected
    /\ upload' = [upload EXCEPT !.field = url]
    /\ UNCHANGED <<reading, posts>>

\* The list with the URL of the one chosen replaced, if it has a relationship.
Edited ==
    [i \in DOMAIN upload.list |->
        IF i = upload.selected /\ upload.list[i].domain /= NoDomain
        THEN [upload.list[i] EXCEPT !.url = upload.field] ELSE upload.list[i]]

ApplyEditToFederation ==
    /\ upload.federationLoaded /\ upload.selected /= 0
    /\ upload' = [upload EXCEPT !.list = Edited, !.selected = 0, !.federationSelected = FALSE,
                                !.field = "", !.applied = @ \cup {<<upload.selected, upload.field>>}]
    /\ UNCHANGED <<reading, posts>>

----------------------------------------------------------------------------
(* The post                                                                 *)

\* onSubmit, of a button that is there while there is something to post.
OnSubmit ==
    /\ upload.list /= <<>> /\ Len(posts) < MaxPosts
    /\ posts' = Append(posts, upload.list)
    /\ upload' = [upload EXCEPT !.loading = TRUE, !.statusOK = ""]
    /\ UNCHANGED reading

\* What the answer says of the first relationship; a failure of the call.
OnSubmitReturns ==
    /\ \E i \in DOMAIN posts : posts' = Without(posts, i)
    /\ \E status \in {"OK", "ERROR"} : upload' = [upload EXCEPT !.loading = FALSE, !.statusOK = status]
    /\ UNCHANGED reading

FederationPage ==
    /\ \/ \E f \in files : HandleFileUpload(f)
       \/ FileRead
       \/ ClearFile
       \/ \E i \in DOMAIN upload.ids : SetSelectedFederation(i)
       \/ \E url \in Urls : EditEndpoint(url)
       \/ ApplyEditToFederation
       \/ OnSubmit
       \/ OnSubmitReturns
    /\ UNCHANGED <<bundle, fetches, files>>

Next == TrustBundlePage \/ FederationPage

Spec == Init /\ [][Next]_vars

----------------------------------------------------------------------------
\* Federations are posted under the names that the editor lists them by, one for one and
\* in that order, those of one of the files that could be picked, and each with the URL
\* that this file had at its place or with one that was applied there since it was loaded;
\* an object without a relationship is posted as its file had it: whatever files were
\* picked, cleared and edited before, and in whatever order they were read. (The field is
\* applied by place: a URL shown for a place of one file can be applied to the same place
\* of the next. And the post goes to the tab's own API, federation-create.tsx:153,
\* whatever server the header shows: there is no server to speak of.)
PostedStep ==
    Len(posts') > Len(posts) =>
        LET post == posts'[Len(posts')]
        IN  /\ DOMAIN post = DOMAIN upload.ids
            /\ \A i \in DOMAIN post : post[i].domain = upload.ids[i]
            /\ \E f \in files :
                /\ Len(f.list) = Len(post)
                /\ \A i \in DOMAIN post :
                     /\ f.list[i].domain = post[i].domain
                     /\ post[i].url = f.list[i].url \/ <<i, post[i].url>> \in upload.applied
                     /\ f.list[i].domain = NoDomain => f.list[i] = post[i]

PostedAsListed == [][PostedStep]_vars
=============================================================================
