--------------------------- MODULE CRDFederation ---------------------------
(***************************************************************************)
(* What stands behind the CRD calls of AgentServer (pkg/agent/spirecrd):   *)
(* trust domains are ClusterFederatedTrustDomain objects of Kubernetes. A  *)
(* batch creates one object after another and collects a result for each;  *)
(* a list reads all objects and fails when one of them cannot be parsed.   *)
(* Nothing is kept in the process and nothing is locked: requests, and     *)
(* whoever else writes objects, meet in Kubernetes alone.                  *)
(*                                                                         *)
(* Outside src/ and modelled from their use: Kubernetes creates an object  *)
(* unless its name is taken, or refuses it, or does not answer; the        *)
(* library that reads a bundle back refuses one without authorities, which *)
(* the one that writes it accepts.                                         *)
(***************************************************************************)
EXTENDS Naturals, Sequences

CONSTANTS
    FedRequests,    \* HTTP requests that reach the CRD manager
    Texts,          \* what clients write for a trust domain
    DomainOf,       \* DomainOf[t]: the trust domain that t is parsed into
    NoDomain,       \* that of a text which is not parsed
    Endpoints,      \* bundle endpoints (URL and profile) that are accepted
    Batches,        \* the lists of relationships that clients send
    OtherNames,     \* names that others give to objects, trust domains or not
    OtherObjects,   \* what others write into them
    MaxOthers       \* bound on what others do

Domains == {DomainOf[t] : t \in Texts} \ {NoDomain}
ObjectNames == Domains \cup OtherNames

\* The authorities of a relationship's bundle; "absent" when it has none.
Keys == {"absent", "some", "none", "malformed"}
Relationships == [domain : Texts, endpoint : Endpoints \cup {"refused"}, keys : Keys]

\* What a batch may hold: any relationships.
ASSUME CRDAssumption ==
    /\ DomainOf \in [Texts -> Domains \cup {NoDomain}]
    /\ Batches \subseteq Seq(Relationships)
    /\ \A o \in OtherObjects : o.domain \in Domains \cup {NoDomain}

VARIABLES
    objects,        \* the objects by name, in Kubernetes
    fedStage,       \* fedStage[r]: what request r is about to do
    batch,          \* batch[r]: the relationships to create
    item,           \* item[r]: how many of them have been dealt with
    results,        \* results[r]: the results so far
    listed,         \* listed[r]: the relationships of an answered list
    made,           \* made[r]: the places in batch[r] whose objects were created
    owed,           \* owed[r]: the items, <<request, place>>, that list r has to show
    others          \* how often others have written an object

fedVars == <<objects, fedStage, batch, item, results, listed, made, owed, others>>

NoObject == [domain |-> NoDomain, endpoint |-> "", keys |-> "", by |-> <<>>]
Of(o) == [domain |-> o.domain, endpoint |-> o.endpoint, keys |-> o.keys]
Present == {n \in ObjectNames : objects[n] /= NoObject}

FedInit ==
    /\ objects = [n \in ObjectNames |-> NoObject]
    /\ fedStage = [r \in FedRequests |-> "idle"]
    /\ batch = [r \in FedRequests |-> <<>>]
    /\ item = [r \in FedRequests |-> 0]
    /\ results = [r \in FedRequests |-> <<>>]
    /\ listed = [r \in FedRequests |-> {}]
    /\ made = [r \in FedRequests |-> {}]
    /\ owed = [r \in FedRequests |-> {}]
    /\ others = 0

----------------------------------------------------------------------------
(* Conversions                                                             *)

\* federationRelationshipFromAPI
Accepted(x) ==
    /\ DomainOf[x.domain] /= NoDomain
    /\ x.endpoint \in Endpoints
    /\ x.keys /= "malformed"

\* parseToClusterFederatedTrustDomainSpec: the trust domain in its one spelling. A bundle
\* is written as its keys: the trust domain it names for itself is dropped.
Written(x) == [domain |-> DomainOf[x.domain], endpoint |-> x.endpoint, keys |-> x.keys]

\* unstructuredToSpireAPIFederation finds a relationship in the object.
Readable(o) ==
    /\ o.domain /= NoDomain
    /\ o.endpoint \in Endpoints
    /\ o.keys \in {"absent", "some"}

----------------------------------------------------------------------------
(* BatchCreateClusterFederatedTrustDomains                                 *)

This(r) == batch[r][item[r] + 1]
MoreItems(r) == fedStage[r] = "items" /\ item[r] < Len(batch[r])

\* result = append(result, ...), and on to the next item.
Conclude(r, result) ==
    /\ results' = [results EXCEPT ![r] = Append(@, result)]
    /\ item' = [item EXCEPT ![r] = @ + 1]
    /\ fedStage' = [fedStage EXCEPT ![r] = "items"]

Failure == [ok |-> FALSE, of |-> Of(NoObject)]
Success(o) == [ok |-> TRUE, of |-> Of(o)]

ReceiveBatch(r) ==
    /\ fedStage[r] = "idle"
    /\ batch' \in {[batch EXCEPT ![r] = b] : b \in Batches}
    /\ fedStage' = [fedStage EXCEPT ![r] = "items"]
    /\ UNCHANGED <<objects, item, results, listed, made, owed, others>>

\* Mutant: "continue" before the result of the item has been appended.
RefuseItemSilently(r) ==
    /\ MoreItems(r)
    /\ ~Accepted(This(r))
    /\ item' = [item EXCEPT ![r] = @ + 1]
    /\ UNCHANGED <<objects, fedStage, batch, results, listed, made, owed, others>>

\* The relationship cannot be converted: nothing is sent.
RefuseItem(r) ==
    /\ MoreItems(r)
    /\ ~Accepted(This(r))
    /\ Conclude(r, Failure)
    /\ UNCHANGED <<objects, batch, listed, made, owed, others>>

\* Kubernetes does not create the object: there is one of its name, or it is refused, or
\* the call does not get through.
CreateFails(r) ==
    /\ MoreItems(r)
    /\ Accepted(This(r))
    /\ Conclude(r, Failure)
    /\ UNCHANGED <<objects, batch, listed, made, owed, others>>

\* The object is created, under the trust domain for a name.
Create(r) ==
    /\ MoreItems(r)
    /\ Accepted(This(r))
    /\ LET s == Written(This(r))
       IN  /\ s.domain \notin Present
           /\ objects' = [objects EXCEPT ![s.domain] =
                  [domain |-> s.domain, endpoint |-> s.endpoint, keys |-> s.keys,
                   by |-> <<r, item[r] + 1>>]]
    /\ made' = [made EXCEPT ![r] = @ \cup {item[r] + 1}]
    /\ fedStage' = [fedStage EXCEPT ![r] = "created"]
    /\ UNCHANGED <<batch, item, results, listed, owed, others>>

\* The answer to Create is lost.
CreateAnswerLost(r) ==
    /\ fedStage[r] = "created"
    /\ Conclude(r, Failure)
    /\ UNCHANGED <<objects, batch, listed, made, owed, others>>

\* The object comes back, as it was created, and is parsed. One that cannot be parsed is
\* a failure and stays where it is.
CreateReturns(r) ==
    /\ fedStage[r] = "created"
    /\ LET s == Written(This(r))
       IN  Conclude(r, IF Readable(s) THEN Success(s) ELSE Failure)
    /\ UNCHANGED <<objects, batch, listed, made, owed, others>>

AnswerBatch(r) ==
    /\ fedStage[r] = "items" /\ ~MoreItems(r)
    /\ fedStage' = [fedStage EXCEPT ![r] = "answered"]
    /\ UNCHANGED <<objects, batch, item, results, listed, made, owed, others>>

----------------------------------------------------------------------------
(* ListClusterFederatedTrustDomains                                        *)

\* The items reported created by now whose objects are still there.
Reported ==
    {by \in {objects[n].by : n \in Present} \ {<<>>} :
        by[2] \in DOMAIN results[by[1]] /\ results[by[1]][by[2]].ok}

ReceiveList(r) ==
    /\ fedStage[r] = "idle"
    /\ fedStage' = [fedStage EXCEPT ![r] = "list"]
    /\ owed' = [owed EXCEPT ![r] = Reported]
    /\ UNCHANGED <<objects, batch, item, results, listed, made, others>>

\* Mutant: the list ends at the first object that cannot be parsed.
ListUpToUnreadable(r) ==
    /\ fedStage[r] = "list"
    /\ \E some \in SUBSET {n \in Present : Readable(objects[n])} :
        /\ (\A n \in Present : Readable(objects[n])) => some = Present
        /\ listed' = [listed EXCEPT ![r] = {Of(objects[n]) : n \in some}]
    /\ fedStage' = [fedStage EXCEPT ![r] = "answered"]
    /\ UNCHANGED <<objects, batch, item, results, made, owed, others>>

\* Kubernetes returns all objects, of every class, and all of them can be parsed.
List(r) ==
    /\ fedStage[r] = "list"
    /\ \A n \in Present : Readable(objects[n])
    /\ listed' = [listed EXCEPT ![r] = {Of(objects[n]) : n \in Present}]
    /\ fedStage' = [fedStage EXCEPT ![r] = "answered"]
    /\ UNCHANGED <<objects, batch, item, results, made, owed, others>>

\* One of them cannot, or Kubernetes fails: the whole list is an error.
ListFails(r) ==
    /\ fedStage[r] = "list"
    /\ fedStage' = [fedStage EXCEPT ![r] = "failed"]
    /\ UNCHANGED <<objects, batch, item, results, listed, made, owed, others>>

----------------------------------------------------------------------------
(* The others                                                              *)

\* kubectl, or another controller, creates an object or deletes one.
OthersCreate(n) ==
    /\ others < MaxOthers
    /\ n \notin Present
    /\ \E o \in OtherObjects :
        objects' = [objects EXCEPT ![n] = [domain |-> o.domain, endpoint |-> o.endpoint,
                                           keys |-> o.keys, by |-> <<>>]]
    /\ others' = others + 1
    /\ UNCHANGED <<fedStage, batch, item, results, listed, made, owed>>

OthersDelete(n) ==
    /\ others < MaxOthers
    /\ n \in Present
    /\ objects' = [objects EXCEPT ![n] = NoObject]
    /\ owed' = [r \in FedRequests |->
                    IF fedStage[r] = "list" THEN owed[r] \ {objects[n].by} ELSE owed[r]]
    /\ others' = others + 1
    /\ UNCHANGED <<fedStage, batch, item, results, listed, made>>

\* The process ends: the requests under way get no answer, what they have created stays.
Crash ==
    /\ \E r \in FedRequests : fedStage[r] \in {"items", "created", "list"}
    /\ fedStage' = [r \in FedRequests |->
                    IF fedStage[r] \in {"items", "created", "list"} THEN "lost"
                    ELSE fedStage[r]]
    /\ UNCHANGED <<objects, batch, item, results, listed, made, owed, others>>

FedQuiet == /\ \A r \in FedRequests : fedStage[r] \in {"answered", "failed", "lost"}
         /\ UNCHANGED fedVars

FedNext ==
    \/ \E r \in FedRequests :
        \/ ReceiveBatch(r) \/ RefuseItem(r) \/ CreateFails(r) \/ Create(r)
        \/ CreateAnswerLost(r) \/ CreateReturns(r) \/ AnswerBatch(r)
        \/ ReceiveList(r) \/ List(r) \/ ListFails(r)
    \/ \E n \in ObjectNames : OthersCreate(n) \/ OthersDelete(n)
    \/ Crash \/ FedQuiet

FedSpec == FedInit /\ [][FedNext]_fedVars

----------------------------------------------------------------------------
(* Properties                                                              *)

\* The results of a batch are those of its items, in their order, and what is reported
\* created was created by this item, as it was asked for: never by another batch, by
\* others, or under the number of another item (federation.go:52-94).
ResultsAreOfItems ==
    \A r \in FedRequests :
        /\ \A i \in DOMAIN results[r] :
              results[r][i].ok => i \in made[r] /\ results[r][i].of = Written(batch[r][i])
        /\ fedStage[r] = "answered" /\ batch[r] /= <<>> => Len(results[r]) = Len(batch[r])

\* A list that is not an error shows every relationship that had been reported created
\* when it was asked for and whose object nobody has deleted since: it is never a part
\* (federation.go:24-42). What others write may turn it into an error, not into a part.
ListShowsCreated ==
    \A l \in FedRequests : fedStage[l] = "answered" => \A by \in owed[l] :
        results[by[1]][by[2]].of \in listed[l]

----------------------------------------------------------------------------
(* What keeps them true                                                    *)

FedStages == {"idle", "items", "created", "list", "answered", "failed", "lost"}

\* What a result reports, an empty relationship when it is a failure.
Results == [ok : BOOLEAN,
            of : [domain : Domains \cup {NoDomain}, endpoint : Endpoints \cup {""},
                  keys : Keys \cup {""}]]

FedTypeOK ==
    /\ DOMAIN objects = ObjectNames
    /\ fedStage \in [FedRequests -> FedStages]
    /\ batch \in [FedRequests -> Seq(Relationships)]
    /\ item \in [FedRequests -> Nat]
    /\ results \in [FedRequests -> Seq(Results)]
    /\ DOMAIN listed = FedRequests
    /\ made \in [FedRequests -> SUBSET Nat]
    /\ DOMAIN owed = FedRequests

\* A batch: one result for every item dealt with, and a success only for an
\* item that was created as it was asked for.
BatchOK(r) ==
    /\ Len(results[r]) = item[r]
    /\ item[r] <= Len(batch[r])
    /\ \A i \in 1 .. item[r] : results[r][i].ok =>
          i \in made[r] /\ results[r][i].of = Written(batch[r][i])
    /\ fedStage[r] \notin {"items", "created", "answered", "lost"} => batch[r] = <<>>
    /\ fedStage[r] = "created" => item[r] < Len(batch[r]) /\ item[r] + 1 \in made[r]
    /\ fedStage[r] = "answered" => item[r] = Len(batch[r])

\* An object that a batch created is that of the item it names.
ObjectOK(n) ==
    objects[n].by /= <<>> =>
        \E r \in FedRequests : \E i \in 1 .. Len(batch[r]) :
            objects[n].by = <<r, i>> /\ Of(objects[n]) = Written(batch[r][i])

\* What a list has to show is there until it is shown, and was reported.
OwedOK(l) ==
    \A by \in owed[l] :
        /\ by \in FedRequests \X Nat /\ by[2] \in 1 .. item[by[1]]
        /\ results[by[1]][by[2]].ok
        /\ fedStage[l] = "list" => \E n \in Present : objects[n].by = by
        /\ fedStage[l] = "answered" => results[by[1]][by[2]].of \in listed[l]

\* The inductive invariant.
FedIndInv ==
    /\ FedTypeOK
    /\ \A r \in FedRequests : BatchOK(r) /\ OwedOK(r)
    /\ \A r \in FedRequests :
            fedStage[r] \in {"idle", "items", "created"} => owed[r] = {}
    /\ \A n \in ObjectNames : ObjectOK(n)
===========================================================================
