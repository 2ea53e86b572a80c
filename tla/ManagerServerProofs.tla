------------------------- MODULE ManagerServerProofs -------------------------
(* Theorems of ManagerServer, for any backends, addresses and requests.      *)
EXTENDS ManagerServer, FiniteSetTheorems, TLAPS

\* Some request registered `info` as backend n.
Registered(n, info) ==
    \E q \in Requests :
        /\ call[q] /= NoCall /\ call[q].op = "register" /\ call[q].name = n
        /\ acted[q] = info /\ acted[q] /= NoInfo

\* What the inductive invariant says of one request.
RequestOK(r) ==
    /\ StageOK(r)
    /\ target[r] /= NoInfo => Registered(Named(r), target[r])
    /\ \A n \in Names :
        listed[r][n] /= NoInfo =>
            /\ ~listed[r][n].secret
            /\ \E q \in Did("register", n) : acted[q].address = listed[r][n].address
    /\ answer[r] = "200" /\ call[r].op /= "list" => acted[r] /= NoInfo
    /\ stage[r] = "done" /\ call[r].op \in {"register", "delete"}
              => (acted[r] /= NoInfo <=> answer[r] = "200")

\* ... and of one row.
RowOK(n) == servers[n] /= NoInfo => Registered(n, servers[n])

LEMMA Parts ==
    IndInv <=> /\ TypeOK
               /\ \A r \in Requests : RequestOK(r)
               /\ \A n \in Names : RowOK(n)
<1>1. IndInv => /\ \A r \in Requests : RequestOK(r)
                /\ \A n \in Names : RowOK(n)
    BY DEF IndInv, RequestOK, RowOK, Registered, RowsRegistered, ListedAsRegistered,
        SentWhereRegistered, AnswerTellsOutcome, Did
<1>2. (/\ TypeOK
       /\ \A r \in Requests : RequestOK(r)
       /\ \A n \in Names : RowOK(n)) => IndInv
    BY DEF IndInv, RequestOK, RowOK, Registered, RowsRegistered, ListedAsRegistered,
        SentWhereRegistered, AnswerTellsOutcome, Did
<1> QED
    BY <1>1, <1>2 DEF IndInv

\* What a step has done is there to stay.
Kept ==
    \A q \in Requests :
        acted[q] /= NoInfo => acted'[q] = acted[q] /\ call'[q] = call[q]

\* A registration that was made has been made.
LEMMA RegisteredKept ==
    ASSUME Kept, NEW n, NEW info, Registered(n, info) PROVE Registered(n, info)'
BY DEF Kept, Registered

\* A request none of whose variables a step touches stays in order.
LEMMA Frame ==
    ASSUME Kept, NEW q \in Requests, RequestOK(q),
           stage'[q] = stage[q], call'[q] = call[q], target'[q] = target[q],
           acted'[q] = acted[q], answer'[q] = answer[q], listed'[q] = listed[q]
    PROVE  RequestOK(q)'
<1>1. StageOK(q)'
    BY DEF RequestOK, StageOK
<1>2. (target[q] /= NoInfo => Registered(Named(q), target[q]))'
    BY RegisteredKept DEF RequestOK, Named
<1>3. ASSUME NEW n \in Names, listed'[q][n] /= NoInfo
      PROVE /\ ~listed'[q][n].secret
            /\ \E p \in Did("register", n)' :
                    acted'[p].address = listed'[q][n].address
    BY <1>3 DEF RequestOK, Did, Kept
<1> QED
    BY <1>1, <1>2, <1>3 DEF RequestOK

\* A step that touches no request but r and keeps r and the table in order
\* keeps the invariant.
LEMMA OneRequest ==
    ASSUME NEW r \in Requests, IndInv, Kept, TypeOK', RequestOK(r)',
           \A n \in Names : RowOK(n)',
           \A q \in Requests \ {r} :
                /\ stage'[q] = stage[q] /\ call'[q] = call[q]
                /\ target'[q] = target[q] /\ acted'[q] = acted[q]
                /\ answer'[q] = answer[q] /\ listed'[q] = listed[q]
    PROVE  IndInv'
<1>1. ASSUME NEW q \in Requests, q /= r PROVE RequestOK(q)'
    BY <1>1, Frame, Parts
<1>2. (/\ TypeOK
       /\ \A q \in Requests : RequestOK(q)
       /\ \A n \in Names : RowOK(n))'
    BY <1>1
<1> QED
    BY <1>2 DEF IndInv, RequestOK, RowOK, Registered, RowsRegistered,
        ListedAsRegistered, SentWhereRegistered, AnswerTellsOutcome, Did

\* An empty table and no request.
LEMMA InitInv == Init => IndInv
BY DEF Init, IndInv, TypeOK, StageOK, RowsRegistered, ListedAsRegistered,
    SentWhereRegistered, AnswerTellsOutcome, Did

----------------------------------------------------------------------------
\* The proxied calls are none of the registry's own.
LEMMA ProxiedOps == {"list", "register", "delete", "none"} \cap Proxied = {}
BY ProxiedAssumption DEF ProxyRoutes

\* A step of r that leaves the table, and has r do nothing it had done.
LEMMA TableKept ==
    ASSUME IndInv, Kept, UNCHANGED servers, NEW n \in Names PROVE RowOK(n)'
BY RegisteredKept, Parts DEF RowOK

\* A request comes in.
LEMMA ArriveInv == ASSUME IndInv, NEW r \in Requests, Arrive(r) PROVE IndInv'
<1> USE DEF Arrive, Advance
<1>0. TypeOK /\ RequestOK(r)
    BY Parts
<1>1. PICK c \in Calls : call' = [call EXCEPT ![r] = c]
    OBVIOUS
<1>2. call'[r] \in Calls /\ stage'[r] = "decode"
    BY <1>0, <1>1 DEF TypeOK
<1>3. TypeOK'
    BY <1>0, <1>1 DEF TypeOK
<1>4. acted[r] = NoInfo /\ answer[r] = "none" /\ target[r] = NoInfo
    BY <1>0 DEF RequestOK, StageOK
<1>5. Kept
    BY <1>0, <1>1, <1>4 DEF Kept, TypeOK
<1>6. ASSUME NEW n \in Names, listed[r][n] /= NoInfo
      PROVE /\ ~listed[r][n].secret
            /\ \E p \in Did("register", n)' : acted'[p].address = listed[r][n].address
    BY <1>6, <1>0, <1>5 DEF RequestOK, Did, Kept
<1>7. RequestOK(r)'
    BY <1>2, <1>4, <1>6 DEF RequestOK, StageOK
<1> QED
    BY <1>0, <1>1, <1>3, <1>5, <1>7, TableKept, OneRequest DEF TypeOK

\* The steps that end or advance a request and touch nothing else.
LEMMA EndInv ==
    ASSUME IndInv, NEW r \in Requests,
           \/ Refuse(r) \/ Unreachable(r) \/ PassOn(r) \/ AnswerLost(r)
    PROVE  IndInv'
<1> USE DEF Refuse, Unreachable, PassOn, AnswerLost, Finish, Advance
<1>0. TypeOK /\ RequestOK(r)
    BY Parts
<1>1. TypeOK'
    BY <1>0 DEF TypeOK
<1>2. Kept
    BY DEF Kept
<1>3. StageOK(r)' /\ stage'[r] = "done"
    BY <1>0 DEF RequestOK, StageOK, TypeOK
<1>4. /\ (answer[r] = "200" /\ call[r].op /= "list" => acted[r] /= NoInfo)'
      /\ (stage[r] = "done" /\ call[r].op \in {"register", "delete"}
              => (acted[r] /= NoInfo <=> answer[r] = "200"))'
    BY <1>0, ProxiedOps DEF RequestOK, StageOK, TypeOK
<1>5. (target[r] /= NoInfo => Registered(Named(r), target[r]))'
    BY <1>0, <1>2, RegisteredKept DEF RequestOK, Named
<1>6. RequestOK(r)'
    BY <1>0, <1>3, <1>4, <1>5 DEF RequestOK, Did
<1> QED
    BY <1>0, <1>1, <1>2, <1>6, TableKept, OneRequest DEF TypeOK

\* A list shows the table, or some of it.
LEMMA ListInv == ASSUME IndInv, NEW r \in Requests, List(r) PROVE IndInv'
<1> USE DEF List, Handles, Finish
<1>0. TypeOK /\ RequestOK(r)
    BY Parts
<1>1. PICK shown \in SUBSET Names :
        listed' = [listed EXCEPT ![r] =
            [n \in Names |-> IF n \in shown THEN Blank(servers[n]) ELSE NoInfo]]
    OBVIOUS
<1>2. ASSUME NEW n \in Names
      PROVE /\ Blank(servers[n]) \in Infos \cup {NoInfo}
            /\ Blank(servers[n]) /= NoInfo =>
                /\ servers[n] /= NoInfo
                /\ ~Blank(servers[n]).secret
                /\ Blank(servers[n]).address = servers[n].address
    BY <1>0 DEF TypeOK, Blank, Infos
<1>3. TypeOK'
    BY <1>0, <1>1, <1>2 DEF TypeOK
<1>4. Kept
    BY DEF Kept
<1>5. ASSUME NEW n \in Names, listed'[r][n] /= NoInfo
      PROVE /\ ~listed'[r][n].secret
            /\ \E q \in Did("register", n)' : acted'[q].address = listed'[r][n].address
    <2>1. listed'[r][n] = Blank(servers[n])
        BY <1>5, <1>0, <1>1 DEF TypeOK
    <2>2. Registered(n, servers[n])
        BY <1>2, <1>5, <2>1, Parts DEF RowOK
    <2> QED
        BY <1>2, <1>5, <2>1, <2>2 DEF Registered, Did
<1>6. RequestOK(r)'
    BY <1>0, <1>5 DEF RequestOK, StageOK, TypeOK
<1> QED
    BY <1>0, <1>1, <1>3, <1>4, <1>6, TableKept, OneRequest DEF TypeOK

\* The registry's own writes.
LEMMA RegisterInv == ASSUME IndInv, NEW r \in Requests, Register(r) PROVE IndInv'
<1> USE DEF Register, Handles, Finish, Row, Named
<1>0. TypeOK /\ RequestOK(r)
    BY Parts
<1>1. call[r] \in Calls /\ call[r] /= NoCall /\ call[r].op = "register"
      /\ acted[r] = NoInfo /\ target[r] = NoInfo
    BY <1>0 DEF RequestOK, StageOK, NoCall
<1>2. call[r].name \in Names /\ call[r].info \in Infos
    BY <1>1, ProxiedOps DEF Calls
<1>3. TypeOK'
    BY <1>0, <1>2 DEF TypeOK
<1>4. Kept
    BY <1>0, <1>1 DEF Kept, TypeOK
<1>5. ASSUME NEW n \in Names PROVE RowOK(n)'
    <2>1. CASE servers'[n] = servers[n]
        BY <2>1, <1>4, RegisteredKept, Parts DEF RowOK
    <2>2. CASE servers'[n] /= servers[n]
        <3>1. n = call[r].name /\ servers'[n] = call[r].info /\ acted'[r] = call[r].info
            BY <2>2, <1>0, <1>2 DEF TypeOK
        <3> QED
            BY <3>1, <1>1, <1>2, NoInfoAssumption DEF RowOK, Registered
    <2> QED
        BY <2>1, <2>2
<1>6. ASSUME NEW n \in Names, listed[r][n] /= NoInfo
      PROVE /\ ~listed[r][n].secret
            /\ \E p \in Did("register", n)' : acted'[p].address = listed[r][n].address
    BY <1>6, <1>0, <1>4 DEF RequestOK, Did, Kept
<1>7. /\ stage'[r] = "done"
      /\ acted'[r] /= NoInfo <=> answer'[r] = "200"
    BY <1>0, <1>1, <1>2, NoInfoAssumption DEF TypeOK
<1>8. RequestOK(r)'
    BY <1>0, <1>1, <1>6, <1>7 DEF RequestOK, StageOK
<1> QED
    BY <1>0, <1>3, <1>4, <1>5, <1>8, OneRequest DEF TypeOK

LEMMA DeleteInv == ASSUME IndInv, NEW r \in Requests, Delete(r) PROVE IndInv'
<1> USE DEF Delete, Handles, Finish, Row, Named
<1>0. TypeOK /\ RequestOK(r)
    BY Parts
<1>1. call[r] \in Calls /\ call[r] /= NoCall /\ call[r].op = "delete"
      /\ acted[r] = NoInfo /\ target[r] = NoInfo
    BY <1>0 DEF RequestOK, StageOK, NoCall
<1>2. call[r].name \in Names
    BY <1>1, ProxiedOps DEF Calls
<1>3. TypeOK'
    BY <1>0, <1>2 DEF TypeOK
<1>4. Kept
    BY <1>0, <1>1 DEF Kept, TypeOK
<1>5. ASSUME NEW n \in Names PROVE RowOK(n)'
    BY <1>0, <1>2, <1>4, RegisteredKept, Parts DEF RowOK, TypeOK
<1>6. ASSUME NEW n \in Names, listed[r][n] /= NoInfo
      PROVE /\ ~listed[r][n].secret
            /\ \E p \in Did("register", n)' : acted'[p].address = listed[r][n].address
    BY <1>6, <1>0, <1>4 DEF RequestOK, Did, Kept
<1>7. /\ stage'[r] = "done"
      /\ acted'[r] /= NoInfo <=> answer'[r] = "200"
    BY <1>0, <1>1, <1>2 DEF TypeOK
<1>8. RequestOK(r)'
    BY <1>0, <1>1, <1>6, <1>7 DEF RequestOK, StageOK
<1> QED
    BY <1>0, <1>3, <1>4, <1>5, <1>8, OneRequest DEF TypeOK

\* The proxy reads the row of the name it was given.
LEMMA LookupInv == ASSUME IndInv, NEW r \in Requests, Lookup(r) PROVE IndInv'
<1> USE DEF Lookup, Finish, Advance, Row, Named
<1>0. TypeOK /\ RequestOK(r)
    BY Parts
<1>1. call[r] \in Calls /\ acted[r] = NoInfo /\ target[r] = NoInfo
    BY <1>0 DEF RequestOK, StageOK
<1>2. call[r].name \in Names /\ call[r].op \notin {"list", "register", "delete"}
    BY <1>1, ProxiedOps DEF Calls
<1>3. TypeOK'
    BY <1>0, <1>2 DEF TypeOK
<1>4. Kept
    BY DEF Kept
<1>5. (target[r] /= NoInfo => Registered(Named(r), target[r]))'
    BY <1>0, <1>1, <1>2, <1>4, RegisteredKept, Parts DEF RowOK, TypeOK
<1>6. StageOK(r)'
    BY <1>0, <1>1, <1>2 DEF RequestOK, StageOK, TypeOK
<1>7. answer'[r] /= "200"
    BY <1>0 DEF RequestOK, StageOK, TypeOK
<1>8. RequestOK(r)'
    BY <1>0, <1>2, <1>5, <1>6, <1>7 DEF RequestOK, Did
<1> QED
    BY <1>0, <1>3, <1>4, <1>8, TableKept, OneRequest DEF TypeOK

\* The backend acts or refuses.
LEMMA ReachInv == ASSUME IndInv, NEW r \in Requests, Reach(r) PROVE IndInv'
<1> USE DEF Reach, Advance
<1>0. TypeOK /\ RequestOK(r)
    BY Parts
<1>1. /\ call[r].op \in Proxied /\ call[r] \in Calls
      /\ target[r] /= NoInfo /\ target[r] \in Infos /\ acted[r] = NoInfo
    BY <1>0 DEF RequestOK, StageOK, TypeOK
<1>2. PICK status \in {"200", "400", "401", "500"} :
        /\ acted' = [acted EXCEPT ![r] =
                        IF status = "200" THEN target[r] ELSE NoInfo]
        /\ answer' = [answer EXCEPT ![r] = status]
    OBVIOUS
<1>3. TypeOK'
    BY <1>0, <1>1, <1>2 DEF TypeOK
<1>4. Kept
    BY <1>0, <1>1, <1>2 DEF Kept, TypeOK
<1>5. (target[r] /= NoInfo => Registered(Named(r), target[r]))'
    BY <1>0, <1>4, RegisteredKept DEF RequestOK, Named
<1>6. /\ stage'[r] = "reached"
      /\ answer'[r] = "200" => acted'[r] /= NoInfo
    BY <1>0, <1>1, <1>2 DEF TypeOK
<1>7. StageOK(r)'
    BY <1>0, <1>1, <1>6 DEF RequestOK, StageOK
<1>8. ASSUME NEW n \in Names, listed[r][n] /= NoInfo
      PROVE /\ ~listed[r][n].secret
            /\ \E p \in Did("register", n)' : acted'[p].address = listed[r][n].address
    BY <1>8, <1>0, <1>4 DEF RequestOK, Did, Kept
<1>9. RequestOK(r)'
    BY <1>5, <1>6, <1>7, <1>8 DEF RequestOK
<1> QED
    BY <1>0, <1>2, <1>3, <1>4, <1>9, TableKept, OneRequest DEF TypeOK

\* A restart keeps the table and drops the requests.
LEMMA RestartInv == ASSUME IndInv, Restart PROVE IndInv'
<1> USE DEF Restart
<1>0. TypeOK
    BY Parts
<1>1. TypeOK'
    BY <1>0 DEF TypeOK
<1>2. Kept
    BY DEF Kept
<1>3. ASSUME NEW q \in Requests PROVE RequestOK(q)'
    <2>1. RequestOK(q)
        BY Parts
    <2>2. StageOK(q)'
        BY <2>1, <1>0 DEF RequestOK, StageOK, TypeOK
    <2>3. (target[q] /= NoInfo => Registered(Named(q), target[q]))'
        BY <2>1, <1>2, RegisteredKept DEF RequestOK, Named
    <2>4. /\ (answer[q] = "200" /\ call[q].op /= "list" => acted[q] /= NoInfo)'
          /\ (stage[q] = "done" /\ call[q].op \in {"register", "delete"}
                  => (acted[q] /= NoInfo <=> answer[q] = "200"))'
        BY <2>1, <1>0, ProxiedOps DEF RequestOK, StageOK, TypeOK
    <2> QED
        BY <2>1, <2>2, <2>3, <2>4 DEF RequestOK, Did
<1>4. (/\ TypeOK
       /\ \A q \in Requests : RequestOK(q)
       /\ \A n \in Names : RowOK(n))'
    BY <1>1, <1>2, <1>3, TableKept
<1> QED
    BY <1>4 DEF IndInv, RequestOK, RowOK, Registered, RowsRegistered,
        ListedAsRegistered, SentWhereRegistered, AnswerTellsOutcome, Did

----------------------------------------------------------------------------
LEMMA NextInv == ASSUME IndInv, [Next]_vars PROVE IndInv'
<1>1. ASSUME NEW r \in Requests, Arrive(r) PROVE IndInv'
    BY <1>1, ArriveInv
<1>2. ASSUME NEW r \in Requests,
             \/ Refuse(r) \/ Unreachable(r) \/ PassOn(r) \/ AnswerLost(r)
      PROVE  IndInv'
    BY <1>2, EndInv
<1>3. ASSUME NEW r \in Requests, List(r) PROVE IndInv'
    BY <1>3, ListInv
<1>4. ASSUME NEW r \in Requests, Register(r) \/ Delete(r) PROVE IndInv'
    BY <1>4, RegisterInv, DeleteInv
<1>5. ASSUME NEW r \in Requests, Lookup(r) \/ Reach(r) PROVE IndInv'
    BY <1>5, LookupInv, ReachInv
<1>6. CASE Restart
    BY <1>6, RestartInv
<1>7. CASE UNCHANGED vars
    <2> USE <1>7 DEF vars
    <2> QED
        BY DEF IndInv, TypeOK, StageOK, RowsRegistered, ListedAsRegistered,
            SentWhereRegistered, AnswerTellsOutcome, Did, Named
<1> QED
    BY <1>1, <1>2, <1>3, <1>4, <1>5, <1>6, <1>7 DEF Next, Quiet

\* The invariant of the manager is inductive (api/manager/server.go,
\* pkg/manager/db/sqlite.go).
THEOREM Invariant == Spec => []IndInv
<1>1. Init => IndInv
    BY InitInv
<1>2. IndInv /\ [Next]_vars => IndInv'
    BY NextInv
<1> QED
    BY <1>1, <1>2, PTL DEF Spec

\* No request is sent to an address that was not registered under the name the
\* client gave (api/manager/server.go:70, 111).
THEOREM NeverAnothersBackend == Spec => []SentWhereRegistered
<1>1. IndInv => SentWhereRegistered
    BY DEF IndInv
<1> QED
    BY <1>1, Invariant, PTL

\* Lists show registered rows without their secrets (api/manager/api.go:21).
THEOREM SecretsStay == Spec => []ListedAsRegistered
<1>1. IndInv => ListedAsRegistered
    BY DEF IndInv
<1> QED
    BY <1>1, Invariant, PTL

\* The statuses of the manager are honest (api/manager/server.go:119, 318, 365).
THEOREM StatusHonest == Spec => []AnswerTellsOutcome
<1>1. IndInv => AnswerTellsOutcome
    BY DEF IndInv
<1> QED
    BY <1>1, Invariant, PTL

----------------------------------------------------------------------------
(* The balance of the registry                                              *)

\* The balance needs to know that what was done was done by finitely many requests.
Balance ==
    /\ \A n \in Names : /\ IsFiniteSet(Did("register", n))
                        /\ IsFiniteSet(Did("delete", n))
    /\ RegistryBalanced

\* A step that leaves the table, and neither registers nor deletes.
LEMMA BalanceKept ==
    ASSUME Balance, UNCHANGED servers,
           \A n \in Names : /\ Did("register", n)' = Did("register", n)
                            /\ Did("delete", n)' = Did("delete", n)
    PROVE  Balance'
BY DEF Balance, RegistryBalanced

\* A step of r that has done nothing which counts.
LEMMA NothingDone ==
    ASSUME Balance, UNCHANGED servers, NEW r \in Requests,
           \A q \in Requests \ {r} : call'[q] = call[q] /\ acted'[q] = acted[q],
           \/ acted[r] = NoInfo /\ acted'[r] = NoInfo
           \/ call'[r] = call[r] /\ acted'[r] = acted[r]
           \/ call'[r] = call[r] /\ call[r].op \notin {"register", "delete"}
    PROVE  Balance'
<1>1. ASSUME NEW n \in Names, NEW op \in {"register", "delete"}
      PROVE  Did(op, n)' = Did(op, n)
    BY DEF Did
<1> QED
    BY <1>1, BalanceKept

\* One more request has done `op` to n.
LEMMA OneMore ==
    ASSUME NEW S, IsFiniteSet(S), NEW r, r \notin S
    PROVE  IsFiniteSet(S \cup {r}) /\ Cardinality(S \cup {r}) = Cardinality(S) + 1
BY FS_AddElement

\* Registering a free name and deleting a row keep the balance.
LEMMA RegisterBalanced ==
    ASSUME IndInv, Balance, NEW r \in Requests, Register(r) PROVE Balance'
<1> USE DEF Register, Handles, Finish, Row, Named
<1>0. TypeOK /\ RequestOK(r)
    BY Parts
<1>1. call[r] \in Calls /\ call[r] /= NoCall /\ call[r].op = "register" /\ acted[r] = NoInfo
    BY <1>0 DEF RequestOK, StageOK, NoCall
<1>2. call[r].name \in Names /\ call[r].info \in Infos /\ call[r].info /= NoInfo
    BY <1>1, ProxiedOps, NoInfoAssumption DEF Calls
<1>3. PICK m \in Names : m = call[r].name
    BY <1>2
<1>4. CASE servers[m] /= NoInfo
    BY <1>4, <1>3, NothingDone DEF TypeOK
<1>5. CASE servers[m] = NoInfo
    <2>1. /\ servers' = [servers EXCEPT ![m] = call[r].info]
          /\ acted' = [acted EXCEPT ![r] = call[r].info]
          /\ UNCHANGED call
        BY <1>5, <1>3
    <2>2. /\ \A q \in Requests : acted'[q] = IF q = r THEN call[r].info ELSE acted[q]
          /\ \A n \in Names : servers'[n] = IF n = m THEN call[r].info ELSE servers[n]
        BY <1>0, <2>1 DEF TypeOK
    <2>3. /\ Did("register", m)' = Did("register", m) \cup {r}
          /\ r \notin Did("register", m)
        BY <1>1, <1>2, <1>3, <2>1, <2>2 DEF Did
    <2>4. \A n \in Names : n /= m => Did("register", n)' = Did("register", n)
        BY <1>1, <1>3, <2>1, <2>2 DEF Did
    <2>5. \A n \in Names : Did("delete", n)' = Did("delete", n)
        BY <1>1, <1>3, <2>1, <2>2 DEF Did
    <2>6. /\ IsFiniteSet(Did("register", m)')
          /\ Cardinality(Did("register", m)') = Cardinality(Did("register", m)) + 1
        BY <1>2, <2>3, OneMore DEF Balance
    <2>7. \A n \in Names : /\ Cardinality(Did("register", n)) \in Int
                           /\ Cardinality(Did("delete", n)) \in Int
        BY FS_CardinalityType DEF Balance
    <2>8. ASSUME NEW n \in Names
          PROVE  /\ IsFiniteSet(Did("register", n)') /\ IsFiniteSet(Did("delete", n)')
                 /\ Cardinality(Did("register", n)') - Cardinality(Did("delete", n)')
                        = IF servers'[n] = NoInfo THEN 0 ELSE 1
        <3>1. CASE n = m
            <4>1. Did("register", n)' = Did("register", m)' /\ Did("register", n) = Did("register", m)
                BY <3>1 DEF Did
            <4>2. /\ IsFiniteSet(Did("register", n)')
                  /\ Cardinality(Did("register", n)') = Cardinality(Did("register", n)) + 1
                BY <2>6, <4>1
            <4> QED
                BY <1>2, <1>5, <2>2, <2>5, <2>7, <3>1, <4>2 DEF Balance, RegistryBalanced
        <3>2. CASE n /= m
            BY <2>2, <2>4, <2>5, <3>2 DEF Balance, RegistryBalanced
        <3> QED
            BY <3>1, <3>2
    <2> QED
        BY <2>8 DEF Balance, RegistryBalanced
<1> QED
    BY <1>4, <1>5

LEMMA DeleteBalanced ==
    ASSUME IndInv, Balance, NEW r \in Requests, Delete(r) PROVE Balance'
<1> USE DEF Delete, Handles, Finish, Row, Named
<1>0. TypeOK /\ RequestOK(r)
    BY Parts
<1>1. call[r] \in Calls /\ call[r] /= NoCall /\ call[r].op = "delete" /\ acted[r] = NoInfo
    BY <1>0 DEF RequestOK, StageOK, NoCall
<1>2. call[r].name \in Names
    BY <1>1, ProxiedOps DEF Calls
<1>3. PICK m \in Names : m = call[r].name
    BY <1>2
<1>4. CASE servers[m] = NoInfo
    BY <1>4, <1>3, NothingDone DEF TypeOK
<1>5. CASE servers[m] /= NoInfo
    <2>1. /\ servers' = [servers EXCEPT ![m] = NoInfo]
          /\ acted' = [acted EXCEPT ![r] = servers[m]]
          /\ UNCHANGED call
        BY <1>5, <1>3
    <2>2. /\ \A q \in Requests : acted'[q] = IF q = r THEN servers[m] ELSE acted[q]
          /\ \A n \in Names : servers'[n] = IF n = m THEN NoInfo ELSE servers[n]
        BY <1>0, <2>1 DEF TypeOK
    <2>3. /\ Did("delete", m)' = Did("delete", m) \cup {r}
          /\ r \notin Did("delete", m)
        BY <1>1, <1>5, <1>3, <2>1, <2>2 DEF Did
    <2>4. \A n \in Names : n /= m => Did("delete", n)' = Did("delete", n)
        BY <1>1, <1>3, <2>1, <2>2 DEF Did
    <2>5. \A n \in Names : Did("register", n)' = Did("register", n)
        BY <1>1, <1>3, <2>1, <2>2 DEF Did
    <2>6. /\ IsFiniteSet(Did("delete", m)')
          /\ Cardinality(Did("delete", m)') = Cardinality(Did("delete", m)) + 1
        BY <1>2, <2>3, OneMore DEF Balance
    <2>7. \A n \in Names : /\ Cardinality(Did("register", n)) \in Int
                           /\ Cardinality(Did("delete", n)) \in Int
        BY FS_CardinalityType DEF Balance
    <2>8. ASSUME NEW n \in Names
          PROVE  /\ IsFiniteSet(Did("register", n)') /\ IsFiniteSet(Did("delete", n)')
                 /\ Cardinality(Did("register", n)') - Cardinality(Did("delete", n)')
                        = IF servers'[n] = NoInfo THEN 0 ELSE 1
        <3>1. CASE n = m
            <4>1. Did("delete", n)' = Did("delete", m)' /\ Did("delete", n) = Did("delete", m)
                BY <3>1 DEF Did
            <4>2. /\ IsFiniteSet(Did("delete", n)')
                  /\ Cardinality(Did("delete", n)') = Cardinality(Did("delete", n)) + 1
                BY <2>6, <4>1
            <4> QED
                BY <1>2, <1>5, <2>2, <2>5, <2>7, <3>1, <4>2 DEF Balance, RegistryBalanced
        <3>2. CASE n /= m
            BY <2>2, <2>4, <2>5, <3>2 DEF Balance, RegistryBalanced
        <3> QED
            BY <3>1, <3>2
    <2> QED
        BY <2>8 DEF Balance, RegistryBalanced
<1> QED
    BY <1>4, <1>5

LEMMA NextBalanced == ASSUME IndInv, Balance, [Next]_vars PROVE Balance'
<1>1. ASSUME NEW r \in Requests, Arrive(r) PROVE Balance'
    <2>1. acted[r] = NoInfo
        BY <1>1 DEF Arrive, IndInv, StageOK
    <2> QED
        BY <1>1, <2>1, NothingDone DEF Arrive, IndInv, TypeOK
<1>2. ASSUME NEW r \in Requests, Reach(r) PROVE Balance'
    <2>1. call[r].op \notin {"register", "delete"}
        BY <1>2, ProxiedOps DEF Reach, IndInv, StageOK
    <2> QED
        BY <1>2, <2>1, NothingDone DEF Reach, IndInv, TypeOK
<1>3. ASSUME UNCHANGED <<servers, call, acted>> PROVE Balance'
    BY <1>3, BalanceKept DEF Did
<1>4. ASSUME NEW r \in Requests,
             \/ Refuse(r) \/ List(r) \/ Lookup(r) \/ Unreachable(r) \/ PassOn(r)
             \/ AnswerLost(r)
      PROVE  Balance'
    BY <1>3, <1>4 DEF Refuse, List, Lookup, Unreachable, PassOn, AnswerLost
<1>5. ASSUME Restart \/ UNCHANGED vars PROVE Balance'
    BY <1>3, <1>5 DEF Restart, vars
<1> QED
    BY <1>1, <1>2, <1>4, <1>5, RegisterBalanced, DeleteBalanced DEF Next, Quiet

\* Registrations and deletions of a name balance with its row, for any number of requests,
\* restarts included.
THEOREM RegistrationsBalance == Spec => []RegistryBalanced
<1>1. Init => Balance
    <2> SUFFICES ASSUME Init PROVE Balance
        OBVIOUS
    <2>1. \A n : Did("register", n) = {} /\ Did("delete", n) = {}
        BY DEF Init, Did
    <2> QED
        BY <2>1, FS_EmptySet DEF Init, Balance, RegistryBalanced
<1>2. IndInv /\ Balance /\ [Next]_vars => Balance'
    BY NextBalanced
<1>3. Balance => RegistryBalanced
    BY DEF Balance
<1> QED
    BY <1>1, <1>2, <1>3, Invariant, PTL DEF Spec

----------------------------------------------------------------------------
(* The manager's routes and the backend's                                    *)
\* Every pair of the manager's table has a handler in the backend's: the two tables
\* are walked row by row, grouped by the path of the backend.
LEMMA RoutesMatch ==
    ASSUME NEW c \in DOMAIN ProxyRoutes
    PROVE  Routed(ProxyRoutes[c][1], ProxyRoutes[c][2])
<1>1. ASSUME c \in {"healthcheck", "serverinfo", "entry_list", "entry_delete",
                    "entry_create"}
      PROVE  ProxyRoutes[c] \in Handlers
    BY <1>1 DEF ProxyRoutes, Handlers
<1>2. ASSUME c \in {"agent_list", "agent_delete", "agent_ban", "agent_jointoken"}
      PROVE  ProxyRoutes[c] \in Handlers
    BY <1>2 DEF ProxyRoutes, Handlers
<1>3. ASSUME c \in {"tornjak_serverinfo", "selectors_register", "selectors_list",
                    "agents_list"}
      PROVE  ProxyRoutes[c] \in Handlers
    BY <1>3 DEF ProxyRoutes, Handlers
<1>4. ASSUME c \in {"clusters_create", "clusters_edit", "clusters_list",
                    "clusters_delete"}
      PROVE  ProxyRoutes[c] \in Handlers
    BY <1>4 DEF ProxyRoutes, Handlers
<1>5. ProxyRoutes[c] \in Handlers
    BY <1>1, <1>2, <1>3, <1>4 DEF ProxyRoutes
<1>6. ProxyRoutes[c] = <<ProxyRoutes[c][1], ProxyRoutes[c][2]>>
    BY DEF ProxyRoutes
<1> QED
    BY <1>5, <1>6 DEF Routed

\* What goes to a backend has a handler there, for any calls of the table that clients
\* make (api/manager/server.go:191, api/agent/server.go:187).
THEOREM ProxyMatchesRouter == Spec => []ProxiedIsRouted
<1>1. IndInv => ProxiedIsRouted
    BY RoutesMatch, ProxiedAssumption DEF IndInv, StageOK, TypeOK, ProxiedIsRouted
<1> QED
    BY <1>1, Invariant, PTL
=============================================================================
