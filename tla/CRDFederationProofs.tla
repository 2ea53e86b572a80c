------------------------- MODULE CRDFederationProofs -------------------------
(* Theorems of CRDFederation, for any relationships, batches of any length,  *)
(* any number of requests, and whatever others write.                        *)
EXTENDS CRDFederation, TLAPS

----------------------------------------------------------------------------
(* Relationships and objects                                                *)

\* A relationship that is accepted is written under the name of a trust domain.
LEMMA WrittenUnderDomain ==
    ASSUME NEW x \in Relationships, Accepted(x)
    PROVE  /\ Written(x).domain \in Domains
           /\ Of(Written(x)) = Written(x)
           /\ Success(Written(x)) \in Results
           /\ Success(Written(x)).ok /\ Success(Written(x)).of = Written(x)
<1>1. DomainOf[x.domain] \in Domains
    BY CRDAssumption DEF Accepted, Relationships
<1> QED
    BY <1>1 DEF Accepted, Relationships, Written, Of, Success, Results

LEMMA FailureIsResult == Failure \in Results /\ ~Failure.ok
BY DEF Failure, Results, Of, NoObject, Keys

\* The item in hand is one of the relationships a client sent.
LEMMA ItemInHand ==
    ASSUME FedTypeOK, NEW r \in FedRequests, item[r] < Len(batch[r])
    PROVE  /\ This(r) \in Relationships
           /\ item[r] + 1 \in 1 .. Len(batch[r])
BY DEF FedTypeOK, This

----------------------------------------------------------------------------
(* Steps of one batch                                                       *)

\* A request that a step does not touch, while no result is lost.
LEMMA BatchFrame ==
    ASSUME NEW r \in FedRequests, BatchOK(r),
           fedStage'[r] = fedStage[r] \/ fedStage'[r] \in {"lost"},
           batch'[r] = batch[r], item'[r] = item[r], results'[r] = results[r],
           made'[r] = made[r]
    PROVE  BatchOK(r)'
BY DEF BatchOK

\* What a list has to show stays so while the results only grow and the objects
\* stay in their places.
LEMMA OwedFrame ==
    ASSUME FedTypeOK, NEW l \in FedRequests, OwedOK(l),
           owed'[l] = owed[l], listed'[l] = listed[l],
           fedStage'[l] \in {fedStage[l], "lost"},
           \A r \in FedRequests : item'[r] >= item[r] /\ item'[r] \in Nat,
           \A r \in FedRequests : \A i \in 1 .. item[r] : results'[r][i] = results[r][i],
           \A n \in Present : n \in Present' /\ objects'[n].by = objects[n].by
    PROVE  OwedOK(l)'
<1>1. ASSUME NEW by \in owed[l]
      PROVE  /\ by \in FedRequests \X Nat /\ by[2] \in 1 .. item'[by[1]]
             /\ results'[by[1]][by[2]] = results[by[1]][by[2]]
    BY <1>1 DEF OwedOK, FedTypeOK
<1>2. ASSUME NEW by \in owed[l], fedStage'[l] = "list"
      PROVE  \E n \in Present' : objects'[n].by = by
    BY <1>2 DEF OwedOK
<1> QED
    BY <1>1, <1>2 DEF OwedOK

\* The result of the item in hand is appended.
LEMMA ConcludeInv ==
    ASSUME FedIndInv, NEW r \in FedRequests, NEW result \in Results, Conclude(r, result),
           UNCHANGED <<objects, batch, listed, made, owed, others>>,
           fedStage[r] \in {"items", "created"}, item[r] < Len(batch[r]),
           result.ok => item[r] + 1 \in made[r] /\ result.of = Written(This(r))
    PROVE  FedIndInv'
<1> USE DEF Conclude
<1>0. FedTypeOK /\ BatchOK(r) /\ results[r] \in Seq(Results) /\ item[r] \in Nat
        /\ batch[r] \in Seq(Relationships)
    BY DEF FedIndInv, FedTypeOK
<1>1. /\ results'[r] = Append(results[r], result)
      /\ item'[r] = item[r] + 1
      /\ fedStage'[r] = "items"
    BY <1>0 DEF FedTypeOK
<1>2. /\ Len(results'[r]) = item[r] + 1
      /\ \A i \in 1 .. item[r] : results'[r][i] = results[r][i]
      /\ results'[r][item[r] + 1] = result
      /\ results'[r] \in Seq(Results)
    BY <1>0, <1>1 DEF BatchOK
<1>3. FedTypeOK'
    BY <1>0, <1>1, <1>2 DEF FedTypeOK, FedStages
<1>4. BatchOK(r)'
    <2>1. item[r] + 1 <= Len(batch[r])
        BY <1>0
    <2>2. ASSUME NEW i \in 1 .. item[r] + 1, results'[r][i].ok
          PROVE  i \in made[r] /\ results'[r][i].of = Written(batch[r][i])
        <3>1. CASE i = item[r] + 1
            BY <1>2, <2>2, <3>1 DEF This
        <3>2. CASE i \in 1 .. item[r]
            <4>1. results[r][i].ok
                BY <1>2, <2>2, <3>2
            <4>2. i \in made[r] /\ results[r][i].of = Written(batch[r][i])
                BY <1>0, <3>2, <4>1 DEF BatchOK
            <4> QED
                BY <1>2, <3>2, <4>2
        <3>3. i = item[r] + 1 \/ i \in 1 .. item[r]
            BY <1>0, <2>2
        <3> QED
            BY <3>1, <3>2, <3>3
    <2> QED
        BY <1>1, <1>2, <2>1, <2>2 DEF BatchOK
<1>5. ASSUME NEW q \in FedRequests, q /= r PROVE BatchOK(q)'
    BY <1>0, <1>5, BatchFrame DEF FedIndInv, FedTypeOK
<1>6. ASSUME NEW l \in FedRequests PROVE OwedOK(l)'
    <2>1. CASE l = r
        BY <1>1, <2>1 DEF OwedOK, FedIndInv
    <2>2. CASE l /= r
        <3>1. \A q \in FedRequests : item'[q] >= item[q] /\ item'[q] \in Nat
            BY <1>0, <1>1 DEF FedTypeOK
        <3>2. \A q \in FedRequests : \A i \in 1 .. item[q] : results'[q][i] = results[q][i]
            BY <1>0, <1>2 DEF FedTypeOK
        <3>3. Present' = Present
            BY DEF Present
        <3>4. fedStage'[l] = fedStage[l]
            BY <1>0, <2>2 DEF FedTypeOK
        <3> QED
            BY <1>0, <3>1, <3>2, <3>3, <3>4, OwedFrame DEF FedIndInv
    <2> QED
        BY <2>1, <2>2
<1>7. ASSUME NEW q \in FedRequests, fedStage'[q] \in {"idle", "items", "created"}
      PROVE  owed'[q] = {}
    BY <1>0, <1>7 DEF FedIndInv, FedTypeOK
<1>8. ASSUME NEW n \in ObjectNames PROVE ObjectOK(n)'
    BY <1>8 DEF FedIndInv, ObjectOK
<1> QED
    BY <1>3, <1>4, <1>5, <1>6, <1>7, <1>8 DEF FedIndInv

\* Steps that change only the stage of one request, and what it has listed or
\* has to show.
LEMMA StageInv ==
    ASSUME FedIndInv, NEW r \in FedRequests, NEW to \in FedStages,
           fedStage' = [fedStage EXCEPT ![r] = to],
           UNCHANGED <<objects, batch, item, results, made>>,
           DOMAIN listed' = FedRequests, DOMAIN owed' = FedRequests,
           \A q \in FedRequests \ {r} : listed'[q] = listed[q] /\ owed'[q] = owed[q],
           BatchOK(r)', OwedOK(r)', to \in {"idle", "items", "created"} => owed'[r] = {}
    PROVE  FedIndInv'
<1>0. FedTypeOK
    BY DEF FedIndInv
<1>1. FedTypeOK'
    BY <1>0 DEF FedTypeOK
<1>2. ASSUME NEW q \in FedRequests, q /= r PROVE BatchOK(q)' /\ OwedOK(q)'
    <2>1. fedStage'[q] = fedStage[q]
        BY <1>0, <1>2 DEF FedTypeOK
    <2>2. BatchOK(q)'
        BY <2>1, BatchFrame DEF FedIndInv
    <2>3. Present' = Present
        BY DEF Present
    <2>4. \A p \in FedRequests : item'[p] >= item[p] /\ item'[p] \in Nat
        BY <1>0 DEF FedTypeOK
    <2>5. OwedOK(q)'
        BY <1>0, <1>2, <2>1, <2>3, <2>4, OwedFrame DEF FedIndInv
    <2> QED
        BY <2>2, <2>5
<1>3. ASSUME NEW q \in FedRequests, fedStage'[q] \in {"idle", "items", "created"}
      PROVE  owed'[q] = {}
    BY <1>0, <1>3 DEF FedIndInv, FedTypeOK
<1>4. ASSUME NEW n \in ObjectNames PROVE ObjectOK(n)'
    BY <1>4 DEF FedIndInv, ObjectOK
<1> QED
    BY <1>1, <1>2, <1>3, <1>4 DEF FedIndInv

----------------------------------------------------------------------------
(* The steps                                                                *)

LEMMA FedInitInv == FedInit => FedIndInv
<1> SUFFICES ASSUME FedInit PROVE FedIndInv
    OBVIOUS
<1> USE DEF FedInit
<1>1. FedTypeOK
    BY DEF FedTypeOK, FedStages
<1>2. ASSUME NEW r \in FedRequests PROVE BatchOK(r) /\ OwedOK(r) /\ owed[r] = {}
    BY DEF BatchOK, OwedOK
<1>3. ASSUME NEW n \in ObjectNames PROVE ObjectOK(n)
    BY DEF ObjectOK, NoObject
<1> QED
    BY <1>1, <1>2, <1>3 DEF FedIndInv

\* The steps that conclude an item.
LEMMA ItemInv ==
    ASSUME FedIndInv, NEW r \in FedRequests,
           RefuseItem(r) \/ CreateFails(r) \/ CreateAnswerLost(r) \/ CreateReturns(r)
    PROVE  FedIndInv'
<1>0. FedTypeOK /\ BatchOK(r)
    BY DEF FedIndInv
<1>1. CASE RefuseItem(r)
    BY <1>1, ConcludeInv, FailureIsResult DEF RefuseItem, MoreItems
<1>2. CASE CreateFails(r)
    BY <1>2, ConcludeInv, FailureIsResult DEF CreateFails, MoreItems
<1>3. CASE CreateAnswerLost(r)
    <2>1. item[r] < Len(batch[r])
        BY <1>0, <1>3 DEF CreateAnswerLost, BatchOK
    <2> QED
        BY <1>3, <2>1, ConcludeInv, FailureIsResult DEF CreateAnswerLost
<1>4. CASE CreateReturns(r)
    <2>1. item[r] < Len(batch[r]) /\ item[r] + 1 \in made[r] /\ fedStage[r] = "created"
        BY <1>0, <1>4 DEF CreateReturns, BatchOK
    <2>2. PICK result : /\ result = IF Readable(Written(This(r)))
                                    THEN Success(Written(This(r))) ELSE Failure
                        /\ Conclude(r, result)
        BY <1>4 DEF CreateReturns
    <2>3. This(r) \in Relationships
        BY <1>0, <2>1, ItemInHand
    <2>4. CASE Readable(Written(This(r)))
        <3>1. Accepted(This(r))
            BY <2>3, <2>4 DEF Readable, Written, Accepted
        <3>2. result \in Results /\ result.of = Written(This(r))
            BY <2>2, <2>3, <2>4, <3>1, WrittenUnderDomain
        <3> QED
            BY <1>4, <2>1, <2>2, <3>2, ConcludeInv DEF CreateReturns
    <2>5. CASE ~Readable(Written(This(r)))
        BY <1>4, <2>1, <2>2, <2>5, ConcludeInv, FailureIsResult DEF CreateReturns
    <2> QED
        BY <2>4, <2>5
<1> QED
    BY <1>1, <1>2, <1>3, <1>4

\* A batch comes in. Until then no object names the request.
LEMMA ReceiveBatchInv ==
    ASSUME FedIndInv, NEW r \in FedRequests, ReceiveBatch(r) PROVE FedIndInv'
<1> USE DEF ReceiveBatch
<1>0. FedTypeOK /\ BatchOK(r) /\ batch[r] = <<>>
    BY DEF FedIndInv, BatchOK
<1>1. PICK b \in Batches : batch' = [batch EXCEPT ![r] = b]
    OBVIOUS
<1>2. b \in Seq(Relationships)
    BY CRDAssumption
<1>3. item[r] = 0 /\ Len(results[r]) = 0
    BY <1>0 DEF BatchOK, FedTypeOK
<1>4. FedTypeOK'
    BY <1>0, <1>1, <1>2 DEF FedTypeOK, FedStages
<1>5. BatchOK(r)'
    BY <1>0, <1>1, <1>2, <1>3 DEF BatchOK, FedTypeOK
<1>6. ASSUME NEW q \in FedRequests, q /= r PROVE BatchOK(q)'
    BY <1>0, <1>1, <1>6, BatchFrame DEF FedIndInv, FedTypeOK
<1>7. ASSUME NEW q \in FedRequests
      PROVE  OwedOK(q)' /\ (fedStage'[q] \in {"idle", "items", "created"} => owed'[q] = {})
    <2>1. CASE q = r
        BY <1>0, <2>1 DEF OwedOK, FedIndInv
    <2>2. CASE q /= r
        <3>1. fedStage'[q] = fedStage[q]
            BY <1>0, <2>2 DEF FedTypeOK
        <3>2. Present' = Present
            BY DEF Present
        <3>3. \A p \in FedRequests : item'[p] >= item[p] /\ item'[p] \in Nat
            BY <1>0 DEF FedTypeOK
        <3> QED
            BY <1>0, <3>1, <3>2, <3>3, OwedFrame DEF FedIndInv
    <2> QED
        BY <2>1, <2>2
<1>8. ASSUME NEW n \in ObjectNames PROVE ObjectOK(n)'
    <2> SUFFICES ASSUME objects[n].by /= <<>>
                 PROVE  \E q \in FedRequests : \E i \in 1 .. Len(batch'[q]) :
                            objects[n].by = <<q, i>> /\ Of(objects[n]) = Written(batch'[q][i])
        BY DEF ObjectOK
    <2>1. PICK q \in FedRequests : \E i \in 1 .. Len(batch[q]) :
            objects[n].by = <<q, i>> /\ Of(objects[n]) = Written(batch[q][i])
        BY DEF FedIndInv, ObjectOK
    <2>2. q /= r
        BY <1>0, <2>1
    <2>3. batch'[q] = batch[q]
        BY <1>0, <1>1, <2>2 DEF FedTypeOK
    <2> QED
        BY <2>1, <2>3
<1> QED
    BY <1>4, <1>5, <1>6, <1>7, <1>8 DEF FedIndInv

\* An object is created: its name was free, and it is that of the item in hand.
LEMMA CreateInv == ASSUME FedIndInv, NEW r \in FedRequests, Create(r) PROVE FedIndInv'
<1> USE DEF Create, MoreItems
<1> DEFINE w == Written(This(r))
           o == [domain |-> w.domain, endpoint |-> w.endpoint, keys |-> w.keys,
                 by |-> <<r, item[r] + 1>>]
<1>0. FedTypeOK /\ BatchOK(r)
    BY DEF FedIndInv
<1>1. This(r) \in Relationships /\ item[r] + 1 \in 1 .. Len(batch[r])
    BY <1>0, ItemInHand
<1>2. w.domain \in ObjectNames /\ Of(w) = w
    BY <1>1, WrittenUnderDomain DEF ObjectNames
<1>3. objects' = [objects EXCEPT ![w.domain] = o] /\ w.domain \notin Present
    OBVIOUS
<1>4. /\ objects'[w.domain] = o
      /\ \A n \in ObjectNames : n /= w.domain => objects'[n] = objects[n]
    BY <1>0, <1>2, <1>3 DEF FedTypeOK
<1>5. o.by = <<r, item[r] + 1>> /\ Of(o) = w
    BY <1>2 DEF Of
<1> HIDE DEF o
<1>6. FedTypeOK'
    BY <1>0, <1>1, <1>3 DEF FedTypeOK, FedStages
<1>7. BatchOK(r)'
    BY <1>0 DEF BatchOK, FedTypeOK
<1>8. ASSUME NEW q \in FedRequests, q /= r PROVE BatchOK(q)'
    BY <1>0, <1>8, BatchFrame DEF FedIndInv, FedTypeOK
<1>9. \A n \in Present : n \in Present' /\ objects'[n].by = objects[n].by
    BY <1>3, <1>4 DEF Present
<1>10. ASSUME NEW q \in FedRequests
       PROVE  OwedOK(q)' /\ (fedStage'[q] \in {"idle", "items", "created"} => owed'[q] = {})
    <2>1. CASE q = r
        BY <1>0, <2>1 DEF OwedOK, FedIndInv
    <2>2. CASE q /= r
        <3>1. fedStage'[q] = fedStage[q]
            BY <1>0, <2>2 DEF FedTypeOK
        <3>2. \A p \in FedRequests : item'[p] >= item[p] /\ item'[p] \in Nat
            BY <1>0 DEF FedTypeOK
        <3> QED
            BY <1>0, <1>9, <3>1, <3>2, OwedFrame DEF FedIndInv
    <2> QED
        BY <2>1, <2>2
<1>11. ASSUME NEW n \in ObjectNames PROVE ObjectOK(n)'
    <2>1. CASE n = w.domain
        BY <1>1, <1>4, <1>5, <2>1 DEF ObjectOK, This
    <2>2. CASE n /= w.domain
        BY <1>4, <2>2 DEF ObjectOK, FedIndInv
    <2> QED
        BY <2>1, <2>2
<1> QED
    BY <1>6, <1>7, <1>8, <1>10, <1>11 DEF FedIndInv

\* A batch is answered when all its items have been dealt with.
LEMMA AnswerBatchInv ==
    ASSUME FedIndInv, NEW r \in FedRequests, AnswerBatch(r) PROVE FedIndInv'
<1>0. FedTypeOK /\ BatchOK(r)
    BY DEF FedIndInv
<1>1. BatchOK(r)'
    BY <1>0 DEF AnswerBatch, MoreItems, BatchOK, FedTypeOK
<1>2. OwedOK(r)'
    BY DEF AnswerBatch, OwedOK, FedIndInv
<1> QED
    BY <1>0, <1>1, <1>2, StageInv DEF AnswerBatch, FedTypeOK, FedStages

\* A list owes what was reported and is still there.
LEMMA ReceiveListInv ==
    ASSUME FedIndInv, NEW r \in FedRequests, ReceiveList(r) PROVE FedIndInv'
<1>0. FedTypeOK /\ BatchOK(r)
    BY DEF FedIndInv
<1>1. fedStage'[r] = "list" /\ owed'[r] = Reported
    BY <1>0 DEF ReceiveList, FedTypeOK
<1>2. BatchOK(r)'
    BY <1>0, <1>1 DEF ReceiveList, BatchOK
<1>3. OwedOK(r)'
    <2> SUFFICES ASSUME NEW by \in Reported
                 PROVE  /\ by \in FedRequests \X Nat /\ by[2] \in 1 .. item[by[1]]
                        /\ results[by[1]][by[2]].ok
                        /\ \E n \in Present : objects[n].by = by
        BY <1>1 DEF ReceiveList, OwedOK, Present
    <2>1. PICK n \in Present : objects[n].by = by /\ by /= <<>>
        BY DEF Reported
    <2>2. by \in FedRequests \X Nat
        <3>1. PICK q \in FedRequests : \E i \in 1 .. Len(batch[q]) : by = <<q, i>>
            BY <2>1 DEF Present, FedIndInv, ObjectOK
        <3>2. batch[q] \in Seq(Relationships)
            BY <1>0 DEF FedTypeOK
        <3> QED
            BY <3>1, <3>2
    <2>3. BatchOK(by[1]) /\ results[by[1]] \in Seq(Results)
        BY <1>0, <2>2 DEF FedIndInv, FedTypeOK
    <2> QED
        BY <2>1, <2>2, <2>3 DEF Reported, BatchOK
<1> QED
    BY <1>0, <1>1, <1>2, <1>3, StageInv DEF ReceiveList, FedTypeOK, FedStages

\* A list shows every object, and with it what it owes.
LEMMA ListInv == ASSUME FedIndInv, NEW r \in FedRequests, List(r) PROVE FedIndInv'
<1>0. FedTypeOK /\ BatchOK(r) /\ OwedOK(r)
    BY DEF FedIndInv
<1>1. fedStage'[r] = "answered" /\ listed'[r] = {Of(objects[n]) : n \in Present}
    BY <1>0 DEF List, FedTypeOK
<1>2. batch[r] = <<>> /\ item[r] = 0
    BY <1>0 DEF List, BatchOK, FedTypeOK
<1>3. BatchOK(r)'
    BY <1>0, <1>1, <1>2 DEF List, BatchOK
<1>4. ASSUME NEW by \in owed[r]
      PROVE  results[by[1]][by[2]].of \in {Of(objects[n]) : n \in Present}
    <2>1. PICK n \in Present : objects[n].by = by
        BY <1>0 DEF List, OwedOK
    <2>2. /\ by \in FedRequests \X Nat /\ by[2] \in 1 .. item[by[1]]
          /\ results[by[1]][by[2]].ok
        BY <1>0 DEF OwedOK
    <2>3. results[by[1]][by[2]].of = Written(batch[by[1]][by[2]])
        BY <2>2 DEF FedIndInv, BatchOK
    <2>4. by /= <<>>
        <3>1. by = <<by[1], by[2]>>
            BY <2>2
        <3>2. <<by[1], by[2]>> /= <<>>
            OBVIOUS
        <3> QED
            BY <3>1, <3>2
    <2>5. Of(objects[n]) = Written(batch[by[1]][by[2]])
        <3>1. PICK q \in FedRequests : \E i \in 1 .. Len(batch[q]) :
                by = <<q, i>> /\ Of(objects[n]) = Written(batch[q][i])
            BY <2>1, <2>4 DEF FedIndInv, ObjectOK, Present
        <3>2. PICK i \in 1 .. Len(batch[q]) :
                by = <<q, i>> /\ Of(objects[n]) = Written(batch[q][i])
            BY <3>1
        <3>3. by[1] = q /\ by[2] = i
            BY <3>2
        <3> QED
            BY <3>2, <3>3
    <2> QED
        BY <2>3, <2>5
<1>5. OwedOK(r)'
    BY <1>0, <1>1, <1>4 DEF List, OwedOK
<1> QED
    BY <1>0, <1>1, <1>3, <1>5, StageInv DEF List, FedTypeOK, FedStages

LEMMA ListFailsInv == ASSUME FedIndInv, NEW r \in FedRequests, ListFails(r) PROVE FedIndInv'
<1>0. FedTypeOK /\ BatchOK(r) /\ OwedOK(r)
    BY DEF FedIndInv
<1>1. fedStage'[r] = "failed"
    BY <1>0 DEF ListFails, FedTypeOK
<1>2. BatchOK(r)'
    BY <1>0, <1>1 DEF ListFails, BatchOK
<1>3. OwedOK(r)'
    BY <1>0, <1>1 DEF ListFails, OwedOK
<1> QED
    BY <1>0, <1>1, <1>2, <1>3, StageInv DEF ListFails, FedTypeOK, FedStages

\* Others create an object under a free name, or delete one. What was deleted no
\* list has to show.
LEMMA OthersInv ==
    ASSUME FedIndInv, NEW n \in ObjectNames, OthersCreate(n) \/ OthersDelete(n)
    PROVE  FedIndInv'
<1>0. FedTypeOK
    BY DEF FedIndInv
<1>1. UNCHANGED <<fedStage, batch, item, results, listed, made>>
    BY DEF OthersCreate, OthersDelete
<1>2. ASSUME NEW r \in FedRequests PROVE BatchOK(r)'
    BY <1>1, BatchFrame DEF FedIndInv
<1>3. PICK o : objects' = [objects EXCEPT ![n] = o] /\ o.by = <<>>
    <2>1. NoObject.by = <<>>
        BY DEF NoObject
    <2>2. \A o \in OtherObjects : [domain |-> o.domain, endpoint |-> o.endpoint,
                                   keys |-> o.keys, by |-> <<>>].by = <<>>
        OBVIOUS
    <2> QED
        BY <2>1, <2>2 DEF OthersCreate, OthersDelete
<1>4. /\ objects'[n].by = <<>>
      /\ \A m \in ObjectNames : m /= n => objects'[m] = objects[m]
    BY <1>0, <1>3 DEF FedTypeOK
<1>5. FedTypeOK'
    BY <1>0, <1>1, <1>3 DEF FedTypeOK, OthersCreate, OthersDelete
<1>6. ASSUME NEW m \in ObjectNames PROVE ObjectOK(m)'
    <2>1. CASE m = n
        BY <1>4, <2>1 DEF ObjectOK
    <2>2. CASE m /= n
        BY <1>1, <1>4, <2>2 DEF ObjectOK, FedIndInv
    <2> QED
        BY <2>1, <2>2
<1>7. \A r \in FedRequests : owed'[r] \subseteq owed[r]
    BY <1>0 DEF OthersCreate, OthersDelete, FedTypeOK
<1>8. ASSUME NEW r \in FedRequests PROVE OwedOK(r)'
    <2> SUFFICES ASSUME NEW by \in owed'[r], fedStage[r] = "list"
                 PROVE  \E m \in Present' : objects'[m].by = by
        BY <1>1, <1>7 DEF OwedOK, FedIndInv
    <2>1. PICK m \in Present : objects[m].by = by
        BY <1>7 DEF FedIndInv, OwedOK
    <2>2. m /= n
        BY <1>0, <2>1 DEF OthersCreate, OthersDelete
    <2> QED
        BY <1>4, <2>1, <2>2 DEF Present
<1>9. ASSUME NEW r \in FedRequests, fedStage'[r] \in {"idle", "items", "created"}
      PROVE  owed'[r] = {}
    BY <1>1, <1>7, <1>9 DEF FedIndInv
<1> QED
    BY <1>2, <1>5, <1>6, <1>8, <1>9 DEF FedIndInv

\* The process ends: what was created stays.
LEMMA CrashInv == ASSUME FedIndInv, Crash PROVE FedIndInv'
<1>0. FedTypeOK
    BY DEF FedIndInv
<1>1. FedTypeOK'
    BY <1>0 DEF Crash, FedTypeOK, FedStages
<1>2. ASSUME NEW r \in FedRequests PROVE BatchOK(r)' /\ OwedOK(r)'
    <2>1. fedStage'[r] \in {fedStage[r], "lost"}
        BY DEF Crash
    <2>2. BatchOK(r)'
        BY <2>1, BatchFrame DEF FedIndInv, Crash
    <2>3. Present' = Present
        BY DEF Present, Crash
    <2>4. \A p \in FedRequests : item'[p] >= item[p] /\ item'[p] \in Nat
        BY <1>0 DEF FedTypeOK, Crash
    <2>5. OwedOK(r)'
        BY <1>0, <2>1, <2>3, <2>4, OwedFrame DEF FedIndInv, Crash
    <2> QED
        BY <2>2, <2>5
<1>3. ASSUME NEW r \in FedRequests, fedStage'[r] \in {"idle", "items", "created"}
      PROVE  owed'[r] = {}
    BY <1>3 DEF FedIndInv, Crash
<1>4. ASSUME NEW n \in ObjectNames PROVE ObjectOK(n)'
    BY <1>4 DEF FedIndInv, ObjectOK, Crash
<1> QED
    BY <1>1, <1>2, <1>3, <1>4 DEF FedIndInv

\* Every step preserves the invariant.
LEMMA FedStepInv == FedIndInv /\ [FedNext]_fedVars => FedIndInv'
<1> SUFFICES ASSUME FedIndInv, [FedNext]_fedVars PROVE FedIndInv'
    OBVIOUS
<1>1. CASE UNCHANGED fedVars
    BY <1>1 DEF fedVars, FedIndInv, FedTypeOK, BatchOK, ObjectOK, OwedOK, Present
<1>2. CASE FedQuiet
    BY <1>1, <1>2 DEF FedQuiet
<1> QED
    BY <1>1, <1>2, ItemInv, ReceiveBatchInv, CreateInv, AnswerBatchInv, ReceiveListInv,
        ListInv, ListFailsInv, OthersInv, CrashInv DEF FedNext

\* The inductive invariant holds of every run.
THEOREM FedInvariant == FedSpec => []FedIndInv
    BY FedInitInv, FedStepInv, PTL DEF FedSpec

\* What a batch reports created, this item created, as it was asked for; and the
\* results are as many as the items.
THEOREM ResultsHonest == FedSpec => []ResultsAreOfItems
<1>1. FedIndInv => ResultsAreOfItems
    <2> SUFFICES ASSUME FedIndInv, NEW r \in FedRequests
                 PROVE  /\ \A i \in DOMAIN results[r] : results[r][i].ok =>
                              i \in made[r] /\ results[r][i].of = Written(batch[r][i])
                        /\ fedStage[r] = "answered" /\ batch[r] /= <<>>
                              => Len(results[r]) = Len(batch[r])
        BY DEF ResultsAreOfItems
    <2>1. BatchOK(r) /\ results[r] \in Seq(Results)
        BY DEF FedIndInv, FedTypeOK
    <2>2. DOMAIN results[r] = 1 .. item[r]
        BY <2>1 DEF BatchOK
    <2> QED
        BY <2>1, <2>2 DEF BatchOK
<1> QED
    BY <1>1, FedInvariant, PTL

\* A list that is answered shows all it has to.
THEOREM ListsComplete == FedSpec => []ListShowsCreated
<1>1. FedIndInv => ListShowsCreated
    BY DEF FedIndInv, OwedOK, ListShowsCreated
<1> QED
    BY <1>1, FedInvariant, PTL
=============================================================================
