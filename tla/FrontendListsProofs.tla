------------------------ MODULE FrontendListsProofs ------------------------
(****************************************************************************)
(* What a list page tells of deletions is true, whichever answers are lost  *)
(* or late, whoever else uses the backends and however often the tab asks.  *)
(* The inductive invariant is IndInv of FrontendLists: an answer names only *)
(* deletions that have taken place (AnswersTrue), and the ticks on entries  *)
(* go by the entries' ids (TicksOwn). AwayInv, about a page that shows what *)
(* was deleted, is inductive beside it.                                     *)
(****************************************************************************)
EXTENDS FrontendLists, FiniteSetTheorems, TLAPS

\* A row has a number for its key.
LEMMA KeyType ==
    ASSUME NEW shown \in SUBSET Items, NEW x \in Items
    PROVE  Key(x, shown) \in Nat
<1>1. IsFiniteSet({y \in shown : y <= x})
  BY FrontendAssumption, FS_Subset
<1> QED
  BY <1>1, FS_CardinalityType, FrontendAssumption DEF Key

\* What a request looks like when it is sent.
LEMMA RequestType ==
    ASSUME TypeOK, turns < MaxTurns,
           NEW op \in {"list", "delete"}, NEW s \in Servers, NEW copy \in {1, 2},
           NEW items \in SUBSET Items, NEW meant \in SUBSET Items
    PROVE  Request(op, s, copy, items, meant) \in Calls
<1>1. turns + 1 \in 1 .. MaxTurns
  BY FrontendAssumption DEF TypeOK
<1> QED
  BY <1>1 DEF TypeOK, Request, Calls, Requests

\* A call that has gone on is still a call.
LEMMA BecomesType ==
    ASSUME calls \subseteq Calls, NEW c \in calls,
           NEW left \in SUBSET Items, NEW done \in SUBSET Items,
           NEW stage \in {"open", "answered", "failed", "abandoned"},
           Becomes(c, left, done, stage)
    PROVE  calls' \subseteq Calls
BY DEF Becomes, Calls

\* What the invariant says of one call.
CallTrue(c) == /\ c.req.op = "delete" => {c.req.server} \X c.done \subseteq gone
               /\ app.kind = "entries" /\ c.req.op = "delete" => c.req.items \subseteq c.req.meant

\* The invariant is that of every call.
LEMMA IndInvCalls ==
    IndInv <=> TypeOK /\ ToldIsDeleted /\ TicksOwn /\ \A c \in calls : CallTrue(c)
BY DEF IndInv, AnswersTrue, EntriesAsTicked, CallTrue

\* Calls that are only dropped, or whose stage alone changes, stay true, as
\* deletions are never undone in the history.
LEMMA SameAnswers ==
    ASSUME \A c \in calls : CallTrue(c), UNCHANGED app, gone \subseteq gone',
           \A d \in calls' : \E c \in calls : d.req = c.req /\ d.done = c.done
    PROVE  \A d \in calls' : CallTrue(d)'
<1> SUFFICES ASSUME NEW d \in calls'
             PROVE  CallTrue(d)'
  OBVIOUS
<1>1. PICK c \in calls : d.req = c.req /\ d.done = c.done
  OBVIOUS
<1>2. CallTrue(c)
  OBVIOUS
<1> QED
  BY <1>1, <1>2 DEF CallTrue

\* A call that has gone on stays true when what it now says was deleted was.
LEMMA BecomesTrue ==
    ASSUME \A c \in calls : CallTrue(c), UNCHANGED app, gone \subseteq gone',
           NEW c \in calls, NEW left, NEW done, NEW stage,
           Becomes(c, left, done, stage),
           c.req.op = "delete" => {c.req.server} \X done \subseteq gone'
    PROVE  \A d \in calls' : CallTrue(d)'
<1> SUFFICES ASSUME NEW d \in calls'
             PROVE  CallTrue(d)'
  OBVIOUS
<1>1. CASE d \in calls
  <2>1. CallTrue(d)
    BY <1>1
  <2> QED
    BY <2>1 DEF CallTrue
<1>2. CASE d = [req |-> c.req, left |-> left, done |-> done, stage |-> stage]
  <2>1. d.req = c.req /\ d.done = done
    BY <1>2
  <2>2. CallTrue(c)
    OBVIOUS
  <2> QED
    BY <2>1, <2>2 DEF CallTrue
<1> QED
  BY <1>1, <1>2 DEF Becomes

\* The tab leaves a call: calls stay calls, and true.
LEMMA LeavesCalls ==
    ASSUME calls \subseteq Calls, \A c \in calls : CallTrue(c),
           UNCHANGED app, gone \subseteq gone', NEW c \in calls, Leaves(c)
    PROVE  calls' \subseteq Calls /\ \A d \in calls' : CallTrue(d)'
<1>1. CASE c.left = {}
  <2>1. calls' \subseteq calls
    BY <1>1 DEF Leaves
  <2> QED
    BY <2>1, SameAnswers
<1>2. CASE c.left /= {}
  <2>1. Becomes(c, c.left, c.done, "abandoned")
    BY <1>2 DEF Leaves
  <2>2. c.left \in SUBSET Items /\ c.done \in SUBSET Items
    BY DEF Calls
  <2>3. c.req.op = "delete" => {c.req.server} \X c.done \subseteq gone'
    BY DEF CallTrue
  <2> QED
    BY <2>1, <2>2, <2>3, BecomesType, BecomesTrue
<1> QED
  BY <1>1, <1>2

\* New requests are calls, and have deleted nothing yet.
LEMMA SendCalls ==
    ASSUME TypeOK, \A c \in calls : CallTrue(c), UNCHANGED <<app, gone>>,
           NEW new, Send(new),
           \A d \in new : /\ d \in Calls /\ d.done = {}
                          /\ app.kind = "entries" /\ d.req.op = "delete" =>
                                d.req.items \subseteq d.req.meant
    PROVE  calls' \subseteq Calls /\ turns' \in 0 .. MaxTurns /\ \A d \in calls' : CallTrue(d)'
<1>1. calls' \subseteq Calls /\ turns' \in 0 .. MaxTurns
  BY FrontendAssumption DEF Send, TypeOK
<1>2. ASSUME NEW d \in calls'
      PROVE  CallTrue(d)'
  <2>1. CASE d \in calls
    BY <2>1 DEF CallTrue
  <2>2. CASE d \in new
    <3>1. {d.req.server} \X d.done = {}
      BY <2>2
    <3> QED
      BY <2>2, <3>1 DEF CallTrue
  <2> QED
    BY <2>1, <2>2 DEF Send
<1> QED
  BY <1>1, <1>2

\* Requests for the list are calls.
LEMMA FetchCalls ==
    ASSUME TypeOK, turns < MaxTurns, NEW s \in Servers, NEW copies \in SUBSET {1, 2}
    PROVE  \A d \in Fetch(s, copies) :
              /\ d \in Calls /\ d.done = {}
              /\ app.kind = "entries" /\ d.req.op = "delete" =>
                    d.req.items \subseteq d.req.meant
<1> SUFFICES ASSUME NEW copy \in copies, NEW d, d = Request("list", s, copy, {}, {})
             PROVE  d \in Calls /\ d.done = {} /\ d.req.op = "list"
  BY DEF Fetch
<1>1. d \in Calls
  BY RequestType
<1> QED
  BY <1>1 DEF Request

\* A dispatched list leaves the table with items, and with ticks it had.
LEMMA ShowType ==
    ASSUME TypeOK, TicksOwn, UNCHANGED app,
           NEW l \in SUBSET Items, NEW s \in Servers \cup {NoServer}, Show(l, s)
    PROVE  /\ list' \subseteq Items /\ rows' \subseteq Items
           /\ from' \in Servers \cup {NoServer}
           /\ ticked' \subseteq Ticks
           /\ TicksOwn'
BY DEF Show, TypeOK, TicksOwn

----------------------------------------------------------------------------
(* The steps                                                                *)

LEMMA InitInv == Init => IndInv
<1> SUFFICES ASSUME Init
             PROVE  IndInv
  OBVIOUS
<1>1. TypeOK
  BY FrontendAssumption DEF Init, TypeOK
<1>2. ToldIsDeleted /\ TicksOwn /\ \A c \in calls : CallTrue(c)
  BY DEF Init, ToldIsDeleted, TicksOwn
<1> QED
  BY <1>1, <1>2, IndInvCalls

\* What the steps below establish: the invariant, one step later.
Holds == TypeOK /\ ToldIsDeleted /\ TicksOwn /\ \A c \in calls : CallTrue(c)

\* The steps of the user.
LEMMA UserSteps ==
    ASSUME Holds,
           \/ Mount \/ DebugInfoArrives \/ Delete \/ Reload
           \/ (\E s \in Servers : Select(s)) \/ (\E x \in Items : Tick(x))
    PROVE  Holds'
<1> USE DEF Holds
<1>1. CASE Mount
  <2>1. calls' \subseteq Calls /\ turns' \in 0 .. MaxTurns /\ \A d \in calls' : CallTrue(d)'
    <3>1. CASE selected = NoServer
      BY <1>1, <3>1, SameAnswers DEF Mount, TypeOK
    <3>2. CASE selected /= NoServer
      <4>1. selected \in Servers /\ Send(Fetch(selected, {1})) /\ turns < MaxTurns
        BY <1>1, <3>2 DEF Mount, TypeOK, Send
      <4> QED
        BY <1>1, <4>1, FetchCalls, SendCalls DEF Mount
    <3> QED
      BY <3>1, <3>2
  <2>2. TypeOK' /\ ToldIsDeleted' /\ TicksOwn'
    BY <1>1, <2>1 DEF Mount, TypeOK, ToldIsDeleted, TicksOwn
  <2> QED
    BY <2>1, <2>2
<1>2. CASE \E s \in Servers : Select(s)
  <2>1. PICK s \in Servers : Select(s)
    BY <1>2
  <2>2. PICK copies \in SUBSET {1, 2} : Send(Fetch(s, copies))
    BY <2>1 DEF Select
  <2>3. calls' \subseteq Calls /\ turns' \in 0 .. MaxTurns /\ \A d \in calls' : CallTrue(d)'
    BY <2>1, <2>2, FetchCalls, SendCalls DEF Select, Send
  <2>4. TypeOK' /\ ToldIsDeleted' /\ TicksOwn'
    BY <2>1, <2>3 DEF Select, TypeOK, ToldIsDeleted, TicksOwn
  <2> QED
    BY <2>3, <2>4
<1>3. CASE \E x \in Items : Tick(x)
  <2>1. PICK x \in Items : Tick(x)
    BY <1>3
  <2>2. Key(x, rows) \in Nat
    BY KeyType DEF TypeOK
  <2>3. ticked' \subseteq Ticks
    BY <2>1, <2>2 DEF Tick, TypeOK, Ticks
  <2>4. TicksOwn'
    <3>1. app.kind = "entries" => Key(x, rows) = x
      BY DEF Key
    <3>2. \A t \in ticked' : t \in ticked \/ t = [key |-> Key(x, rows), item |-> x]
      BY <2>1 DEF Tick
    <3> QED
      BY <2>1, <3>1, <3>2 DEF TicksOwn, Tick
  <2>5. \A d \in calls' : CallTrue(d)'
    BY <2>1, SameAnswers DEF Tick
  <2>6. TypeOK' /\ ToldIsDeleted'
    BY <2>1, <2>3 DEF Tick, TypeOK, ToldIsDeleted
  <2> QED
    BY <2>4, <2>5, <2>6
<1>4. CASE Delete
  <2> DEFINE Chosen(ts) == {x \in rows : \E t \in ts : t.key = Key(x, rows)}
             Deletion(ts) == Request("delete", selected, 1, Chosen(ts), {t.item : t \in ts})
             Good(d) == /\ d \in Calls /\ d.done = {}
                        /\ app.kind = "entries" /\ d.req.op = "delete" =>
                              d.req.items \subseteq d.req.meant
  <2>1. ASSUME NEW ts \in SUBSET ticked
        PROVE  Good(Deletion(ts))
    <3>1. selected \in Servers /\ turns < MaxTurns /\ "delete" \in {"list", "delete"} /\ 1 \in {1, 2}
      BY <1>4 DEF Delete, TypeOK, Send
    <3>2. Chosen(ts) \in SUBSET Items /\ {t.item : t \in ts} \in SUBSET Items
      BY DEF TypeOK, Ticks
    <3>3. Deletion(ts) \in Calls
      BY <3>1, <3>2, RequestType
    <3>4. Deletion(ts).done = {} /\ Deletion(ts).req.items = Chosen(ts)
          /\ Deletion(ts).req.meant = {t.item : t \in ts}
      BY DEF Request
    <3>5. app.kind = "entries" => Chosen(ts) \subseteq {t.item : t \in ts}
      BY DEF TicksOwn, Key
    <3> HIDE DEF Deletion, Chosen
    <3> QED
      BY <3>3, <3>4, <3>5
  <2>2. PICK new : Send(new) /\ \A d \in new : \E ts \in SUBSET ticked : d = Deletion(ts)
    <3>1. CASE app.kind = "clusters"
      <4>1. Send({Deletion({t}) : t \in ticked})
        BY <1>4, <3>1 DEF Delete
      <4>2. \A d \in {Deletion({t}) : t \in ticked} : \E ts \in SUBSET ticked : d = Deletion(ts)
        BY Zenon
      <4> QED
        BY <4>1, <4>2
    <3>2. CASE app.kind /= "clusters"
      <4>1. Send({Deletion(ticked)})
        BY <1>4, <3>2 DEF Delete
      <4>2. \A d \in {Deletion(ticked)} : \E ts \in SUBSET ticked : d = Deletion(ts)
        BY Zenon
      <4> HIDE DEF Deletion
      <4> QED
        BY <4>1, <4>2
    <3> QED
      BY <3>1, <3>2
  <2>3. \A d \in new : Good(d)
    <3> HIDE DEF Good, Deletion
    <3> QED
      BY <2>1, <2>2
  <2>4. UNCHANGED <<app, backend, selected, page, list, from, rows, told, gone>> /\ ticked' = {}
    BY <1>4 DEF Delete
  <2>5. calls' \subseteq Calls /\ turns' \in 0 .. MaxTurns /\ \A d \in calls' : CallTrue(d)'
    BY <2>2, <2>3, <2>4, SendCalls
  <2>6. TypeOK' /\ ToldIsDeleted' /\ TicksOwn'
    BY <2>4, <2>5 DEF TypeOK, ToldIsDeleted, TicksOwn
  <2> QED
    BY <2>5, <2>6
<1>5. CASE Reload
  <2>1. calls' \subseteq Calls
    BY <1>5 DEF Reload, TypeOK, Calls
  <2>2. \A d \in calls' : CallTrue(d)'
    <3>1. \A d \in calls' : \E c \in calls : d.req = c.req /\ d.done = c.done
      BY <1>5 DEF Reload
    <3> QED
      BY <1>5, <3>1, SameAnswers DEF Reload
  <2>3. TypeOK' /\ ToldIsDeleted' /\ TicksOwn'
    BY <1>5, <2>1 DEF Reload, TypeOK, ToldIsDeleted, TicksOwn
  <2> QED
    BY <2>2, <2>3
<1>6. CASE DebugInfoArrives
  <2>1. selected \in Servers /\ Send(Fetch(selected, {1})) /\ turns < MaxTurns
    BY <1>6 DEF DebugInfoArrives, TypeOK, Send
  <2>2. calls' \subseteq Calls /\ turns' \in 0 .. MaxTurns /\ \A d \in calls' : CallTrue(d)'
    BY <1>6, <2>1, FetchCalls, SendCalls DEF DebugInfoArrives
  <2>3. TypeOK' /\ ToldIsDeleted' /\ TicksOwn'
    BY <1>6, <2>2 DEF DebugInfoArrives, TypeOK, ToldIsDeleted, TicksOwn
  <2> QED
    BY <2>2, <2>3
<1> QED
  BY <1>1, <1>2, <1>3, <1>4, <1>5, <1>6

\* The steps of the backends.
LEMMA BackendSteps ==
    ASSUME Holds,
           \/ \E s \in Servers, x \in Items : Others(s, x)
           \/ \E c \in calls : \/ ServeList(c) \/ CallFails(c)
                               \/ \E x \in c.left : ServeDelete(c, x)
    PROVE  Holds'
<1> USE DEF Holds
<1>1. CASE \E s \in Servers, x \in Items : Others(s, x)
  <2>1. PICK s \in Servers, x \in Items : Others(s, x)
    BY <1>1
  <2>2. \A d \in calls' : CallTrue(d)'
    BY <2>1, SameAnswers DEF Others
  <2>3. turns' \in 0 .. MaxTurns /\ backend' \in [Servers -> SUBSET Items]
    BY <2>1, FrontendAssumption DEF Others, TypeOK
  <2>4. TypeOK' /\ ToldIsDeleted' /\ TicksOwn'
    BY <2>1, <2>3 DEF Others, TypeOK, ToldIsDeleted, TicksOwn
  <2> QED
    BY <2>2, <2>4
<1>2. ASSUME NEW c \in calls, ServeList(c)
      PROVE  Holds'
  <2>1. Becomes(c, {}, backend[c.req.server], "answered") /\ c.req.op = "list"
    BY <1>2 DEF ServeList
  <2>2. backend[c.req.server] \in SUBSET Items
    BY DEF TypeOK, Calls, Requests
  <2>3. UNCHANGED tab /\ UNCHANGED <<backend, gone>>
    BY <1>2 DEF ServeList
  <2>4. calls' \subseteq Calls
    BY <2>1, <2>2, BecomesType DEF TypeOK
  <2>5. \A d \in calls' : CallTrue(d)'
    BY <2>1, <2>3, BecomesTrue DEF tab
  <2>6. TypeOK' /\ ToldIsDeleted' /\ TicksOwn'
    BY <2>3, <2>4 DEF tab, TypeOK, ToldIsDeleted, TicksOwn
  <2> QED
    BY <2>5, <2>6
<1>3. ASSUME NEW c \in calls, CallFails(c)
      PROVE  Holds'
  <2>1. PICK on \in {{}, c.left} : Becomes(c, on, c.done, "failed")
    BY <1>3 DEF CallFails
  <2>2. on \in SUBSET Items /\ c.done \in SUBSET Items
    BY DEF TypeOK, Calls
  <2>3. UNCHANGED tab /\ UNCHANGED <<backend, gone>>
    BY <1>3 DEF CallFails
  <2>4. calls' \subseteq Calls
    BY <2>1, <2>2, BecomesType DEF TypeOK
  <2>5. \A d \in calls' : CallTrue(d)'
    BY <2>1, <2>3, BecomesTrue DEF tab, CallTrue
  <2>6. TypeOK' /\ ToldIsDeleted' /\ TicksOwn'
    BY <2>3, <2>4 DEF tab, TypeOK, ToldIsDeleted, TicksOwn
  <2> QED
    BY <2>5, <2>6
<1>4. ASSUME NEW c \in calls, NEW x \in c.left, ServeDelete(c, x)
      PROVE  Holds'
  <2> DEFINE rest == c.left \ {x}
             stage == IF rest = {} /\ c.stage = "open" THEN "answered" ELSE c.stage
  <2>1. PICK done : /\ done = c.done \/ (done = c.done \cup {x} /\ <<c.req.server, x>> \in gone')
                    /\ calls' = calls \ {c} \/ Becomes(c, rest, done, stage)
    <3> DEFINE Dealt(done) == calls' = calls \ {c} \/ Becomes(c, rest, done, stage)
    <3>1. \/ Dealt(c.done \cup {x}) /\ <<c.req.server, x>> \in gone'
          \/ Dealt(c.done)
      BY <1>4 DEF ServeDelete
    <3> HIDE DEF rest, stage
    <3> QED
      BY <3>1
  <2>2. /\ gone \subseteq gone' /\ UNCHANGED tab
        /\ gone' \subseteq gone \cup {<<c.req.server, x>>}
        /\ backend' = backend \/ backend' = [backend EXCEPT ![c.req.server] = @ \ {x}]
    BY <1>4 DEF ServeDelete
  <2>3. /\ rest \in SUBSET Items /\ x \in Items /\ done \in SUBSET Items /\ c.req.server \in Servers
        /\ stage \in {"open", "answered", "failed", "abandoned"}
    BY <2>1 DEF TypeOK, Calls, Requests
  <2>4. c.req.op = "delete" => {c.req.server} \X done \subseteq gone'
    <3>1. CallTrue(c)
      OBVIOUS
    <3> QED
      BY <2>1, <2>2, <3>1 DEF CallTrue
  <2>5. calls' \subseteq Calls /\ \A d \in calls' : CallTrue(d)'
    <3>1. CASE calls' = calls \ {c}
      BY <2>2, <3>1, SameAnswers DEF TypeOK, tab
    <3>2. CASE Becomes(c, rest, done, stage)
      <4> HIDE DEF rest, stage
      <4> calls \subseteq Calls
        BY DEF TypeOK
      <4>1. calls' \subseteq Calls
        BY <3>2, <2>3, BecomesType
      <4>2. UNCHANGED app
        BY <2>2 DEF tab
      <4>3. \A d \in calls' : CallTrue(d)'
        BY <3>2, <4>2, <2>2, <2>4, BecomesTrue
      <4> QED
        BY <4>1, <4>3
    <3> QED
      BY <2>1, <3>1, <3>2
  <2>6. backend' \in [Servers -> SUBSET Items] /\ gone' \subseteq Servers \X Items
    BY <2>2, <2>3 DEF TypeOK
  <2>7. TypeOK' /\ ToldIsDeleted' /\ TicksOwn'
    BY <2>2, <2>5, <2>6 DEF tab, TypeOK, ToldIsDeleted, TicksOwn
  <2> QED
    BY <2>5, <2>7
<1> QED
  BY <1>1, <1>2, <1>3, <1>4

\* The answers.
LEMMA AnswerSteps ==
    ASSUME Holds, \E c \in calls : ListArrives(c) \/ DeletionArrives(c)
    PROVE  Holds'
<1> USE DEF Holds
<1>1. ASSUME NEW c \in calls, ListArrives(c)
      PROVE  Holds'
  <2> DEFINE l == IF c.stage = "answered" THEN c.done ELSE {}
  <2>1. Show(l, c.req.server) /\ UNCHANGED <<app, backend, selected, page, turns, told, gone>>
        /\ calls' = calls \ {c}
    BY <1>1 DEF ListArrives
  <2>2. l \in SUBSET Items /\ c.req.server \in Servers \cup {NoServer}
    BY DEF TypeOK, Calls, Requests
  <2>3. /\ list' \subseteq Items /\ rows' \subseteq Items
        /\ from' \in Servers \cup {NoServer}
        /\ ticked' \subseteq Ticks
        /\ TicksOwn'
    <3> HIDE DEF l
    <3> QED
      BY <2>1, <2>2, ShowType
  <2>4. \A d \in calls' : CallTrue(d)'
    BY <2>1, SameAnswers
  <2>5. TypeOK' /\ ToldIsDeleted'
    BY <2>1, <2>3 DEF TypeOK, ToldIsDeleted
  <2> QED
    BY <2>3, <2>4, <2>5
<1>2. ASSUME NEW c \in calls, DeletionArrives(c)
      PROVE  Holds'
  <2>1. Leaves(c) /\ c.req.op = "delete" /\ UNCHANGED <<app, backend, selected, turns, gone>>
    BY <1>2 DEF DeletionArrives
  <2>2. c.req.snapshot \in SUBSET Items /\ c.req.origin \in Servers \cup {NoServer}
        /\ c.req.items \in SUBSET Items /\ c.req.server \in Servers
    BY DEF TypeOK, Calls, Requests
  <2>3. calls' \subseteq Calls /\ \A d \in calls' : CallTrue(d)'
    <3>1. calls \subseteq Calls
      BY DEF TypeOK
    <3> QED
      BY <2>1, <3>1, LeavesCalls
  <2>4. (\E l \in SUBSET Items, s \in Servers \cup {NoServer} : Show(l, s)) \/ Keep
    <3>1. CASE LocalClusterDeleted(c) \/ LocalEntriesDeleted(c)
      <4>1. Show(c.req.snapshot \ c.req.items, c.req.origin)
        BY <3>1 DEF LocalClusterDeleted, LocalEntriesDeleted, LocalDeleted
      <4> QED
        BY <2>2, <4>1
    <3>2. CASE ManagerDeleted(c)
      BY <2>2, <3>2 DEF ManagerDeleted
    <3>3. CASE AgentsDeleted(c)
      <4>1. PICK l \in SUBSET Items : Show(l, from)
        BY <3>3 DEF AgentsDeleted, TypeOK
      <4> QED
        BY <4>1 DEF TypeOK
    <3>4. CASE DeletionFailed(c)
      BY <3>4 DEF DeletionFailed
    <3> QED
      BY <1>2, <3>1, <3>2, <3>3, <3>4 DEF DeletionArrives
  <2>5. /\ list' \subseteq Items /\ rows' \subseteq Items
        /\ from' \in Servers \cup {NoServer}
        /\ ticked' \subseteq Ticks
        /\ TicksOwn'
    <3>1. CASE Keep
      BY <2>1, <3>1 DEF Keep, TypeOK, TicksOwn
    <3>2. CASE \E l \in SUBSET Items, s \in Servers \cup {NoServer} : Show(l, s)
      BY <2>1, <3>2, ShowType
    <3> QED
      BY <2>4, <3>1, <3>2
  <2>6. /\ told' = told \/ told' = told \cup ({c.req.server} \X c.req.items)
        /\ app.kind /= "entries" /\ told' /= told => c.done = c.req.items
        /\ page' \in {"loading", "shown", "leaving"}
    BY <1>2 DEF DeletionArrives, LocalClusterDeleted, LocalEntriesDeleted, ManagerDeleted,
                AgentsDeleted, DeletionFailed, Tell, TypeOK
  <2>7. ToldIsDeleted'
    <3>1. {c.req.server} \X c.done \subseteq gone
      BY <2>1 DEF CallTrue
    <3> QED
      BY <2>1, <2>6, <3>1 DEF ToldIsDeleted
  <2>8. told' \subseteq Servers \X Items
    BY <2>2, <2>6 DEF TypeOK
  <2>9. TypeOK'
    BY <2>1, <2>3, <2>5, <2>6, <2>8 DEF TypeOK
  <2> QED
    BY <2>3, <2>5, <2>7, <2>9
<1> QED
  BY <1>1, <1>2

\* Every step keeps the invariant.
LEMMA NextInv == IndInv /\ [Next]_vars => IndInv'
<1> SUFFICES ASSUME IndInv, [Next]_vars
             PROVE  IndInv'
  OBVIOUS
<1>1. Holds
  BY IndInvCalls DEF Holds
<1>2. Holds'
  <2>1. CASE Next
    <3>1. CASE \/ Mount \/ DebugInfoArrives \/ Delete \/ Reload
               \/ (\E s \in Servers : Select(s)) \/ (\E x \in Items : Tick(x))
      BY <1>1, <3>1, UserSteps
    <3>2. CASE \/ \E s \in Servers, x \in Items : Others(s, x)
               \/ \E c \in calls : \/ ServeList(c) \/ CallFails(c)
                                   \/ \E x \in c.left : ServeDelete(c, x)
      BY <1>1, <3>2, BackendSteps
    <3>3. CASE \E c \in calls : ListArrives(c) \/ DeletionArrives(c)
      BY <1>1, <3>3, AnswerSteps
    <3> QED
      BY <2>1, <3>1, <3>2, <3>3 DEF Next, Load, Revisit
  <2>2. CASE UNCHANGED vars
    BY <1>1, <2>2 DEF Holds, vars, TypeOK, ToldIsDeleted, TicksOwn, CallTrue
  <2> QED
    BY <2>1, <2>2
<1> QED
  BY <1>2 DEF Holds, IndInv, AnswersTrue, EntriesAsTicked, CallTrue

\* Whatever the tab, the backends and the network do: what an answer says was
\* deleted, was (deleteCluster, deleteAgent), and ticks on entries go by their
\* ids (prepareTableData of entries-list-table.tsx).
THEOREM ListsInvariant == Spec => []IndInv
<1> QED
  BY InitInv, NextInv, PTL DEF Spec

\* "DELETED SUCCESSFULLY" is said of clusters and agents that this tab has
\* deleted, on the server the request went to (clusters-list-table.tsx:101,
\* agents-list-table.tsx:127).
THEOREM ToldOnlyOfDeleted == Spec => []ToldIsDeleted
<1>1. IndInv => ToldIsDeleted
  BY DEF IndInv
<1> QED
  BY <1>1, ListsInvariant, PTL

\* The entries a deletion names are among the ones the user ticked, although
\* the list may have been replaced after the ticks (entries-list-table.tsx:75).
THEOREM OnlyTickedEntries == Spec => []EntriesAsTicked
<1>1. IndInv => EntriesAsTicked
  BY DEF IndInv
<1> QED
  BY <1>1, ListsInvariant, PTL

----------------------------------------------------------------------------
(* A cluster that was reported deleted stays away                           *)

\* A deleted item is not at its backend.
BackendsForget == \A s \in Servers : \A x \in backend[s] : <<s, x>> \notin gone

\* c is a list on its way to the page, or one that the page can be given.
ListComes(c) == c.req.op = "list" /\ c.stage /= "abandoned"
Fresh(c) == c.req.op = "list" /\ c.stage = "answered" =>
                \A x \in c.done : <<c.req.server, x>> \notin told

\* A step that leaves the page, its list and what was told, and loses no list.
LEMMA KeptAway ==
    ASSUME AwayInv, UNCHANGED <<app, page, list, from, told>>, BackendsForget',
           \A d \in calls' : \/ d \in calls
                             \/ (page = "loading" => d.stage = "abandoned") /\ Fresh(d),
           \A c \in calls : ListComes(c) => \E d \in calls' : ListComes(d)
    PROVE  AwayInv'
BY DEF AwayInv, BackendsForget, ListComes, Fresh

\* A step that sends requests.
LEMMA SentAway ==
    ASSUME AwayInv, UNCHANGED <<app, page, list, from, told, backend, gone>>,
           page = "shown", NEW new, Send(new), \A d \in new : d.stage = "open"
    PROVE  AwayInv'
<1>1. BackendsForget'
  BY DEF AwayInv, BackendsForget
<1>2. calls' = calls \cup new
  BY DEF Send
<1> QED
  BY <1>1, <1>2, KeptAway DEF Fresh

LEMMA InitAway == Init => AwayInv
BY DEF Init, AwayInv

\* The page is mounted: of a backend's own tab, the list is asked for.
LEMMA MountAway == ASSUME TypeOK, AwayInv, Load \/ Revisit PROVE AwayInv'
<1>0. Mount
  BY DEF Load, Revisit
<1>1. /\ list' = list /\ page' = "shown"
      /\ UNCHANGED <<app, backend, from, told, gone>>
  BY <1>0 DEF Mount
<1>2. CASE selected = NoServer
  <2>1. calls' = calls /\ (app.kind = "clusters" => told = {})
    BY <1>0, <1>2, FrontendAssumption DEF Mount, TypeOK, AwayInv
  <2> QED
    BY <1>1, <2>1 DEF AwayInv, Load, Revisit
<1>3. CASE selected /= NoServer
  <2>1. calls' = calls \cup Fetch(selected, {1})
    BY <1>0, <1>3 DEF Mount, Send
  <2>2. PICK f \in Fetch(selected, {1}) : f.req.op = "list" /\ f.stage = "open"
    <3>1. Request("list", selected, 1, {}, {}) \in Fetch(selected, {1})
      BY DEF Fetch
    <3>2. /\ Request("list", selected, 1, {}, {}).req.op = "list"
          /\ Request("list", selected, 1, {}, {}).stage = "open"
      BY DEF Request
    <3> QED
      BY <3>1, <3>2
  <2>3. \A d \in Fetch(selected, {1}) : d.stage = "open"
    BY DEF Fetch, Request
  <2> QED
    BY <1>1, <2>1, <2>2, <2>3 DEF AwayInv, Load, Revisit
<1> QED
  BY <1>2, <1>3

\* The user's other steps.
LEMMA UserAway ==
    ASSUME TypeOK, AwayInv,
           \/ DebugInfoArrives \/ Delete \/ Reload
           \/ (\E s \in Servers : Select(s)) \/ (\E x \in Items : Tick(x))
    PROVE  AwayInv'
<1>1. CASE DebugInfoArrives
  <2>1. \A d \in Fetch(selected, {1}) : d.stage = "open"
    BY DEF Fetch, Request
  <2> QED
    BY <1>1, <2>1, SentAway DEF DebugInfoArrives
<1>2. CASE \E s \in Servers : Select(s)
  <2>1. PICK s \in Servers : Select(s)
    BY <1>2
  <2>2. PICK copies : Send(Fetch(s, copies))
    BY <2>1 DEF Select
  <2>3. \A d \in Fetch(s, copies) : d.stage = "open"
    BY DEF Fetch, Request
  <2> QED
    BY <2>1, <2>2, <2>3, SentAway DEF Select
<1>3. CASE Delete
  <2>1. PICK new : Send(new) /\ \A d \in new : d.stage = "open"
    BY <1>3 DEF Delete, Request
  <2> QED
    BY <1>3, <2>1, SentAway DEF Delete
<1>4. CASE \E x \in Items : Tick(x)
  BY <1>4, KeptAway DEF Tick, AwayInv, BackendsForget
<1>5. CASE Reload
  <2>1. page' = "loading" /\ \A d \in calls' : d.stage = "abandoned"
    BY <1>5 DEF Reload
  <2> QED
    BY <1>5, <2>1 DEF Reload, AwayInv
<1> QED
  BY <1>1, <1>2, <1>3, <1>4, <1>5

\* The steps of the backends: what is served was there, so it is not gone.
LEMMA BackendAway ==
    ASSUME IndInv, AwayInv,
           \/ \E s \in Servers, x \in Items : Others(s, x)
           \/ \E c \in calls : \/ ServeList(c) \/ CallFails(c)
                               \/ \E x \in c.left : ServeDelete(c, x)
    PROVE  AwayInv'
<1>0. TypeOK
  BY DEF IndInv
<1>1. ASSUME NEW s \in Servers, NEW x \in Items, Others(s, x)
      PROVE  AwayInv'
  <2>1. BackendsForget'
    BY <1>0, <1>1 DEF Others, TypeOK, AwayInv, BackendsForget
  <2> QED
    BY <1>1, <2>1, KeptAway DEF Others
<1>2. ASSUME NEW c \in calls, ServeList(c)
      PROVE  AwayInv'
  <2> DEFINE d == [req |-> c.req, left |-> {}, done |-> backend[c.req.server],
                   stage |-> "answered"]
  <2>1. calls' = (calls \ {c}) \cup {d}
    BY <1>2 DEF ServeList, Becomes
  <2>2. page /= "loading"
    BY <1>2 DEF ServeList, AwayInv
  <2>3. app.kind = "clusters" => Fresh(d)
    <3>1. c.req.server \in Servers
      BY <1>0 DEF TypeOK, Calls, Requests
    <3> QED
      BY <3>1 DEF IndInv, ToldIsDeleted, AwayInv, Fresh
  <2>4. BackendsForget'
    BY <1>2 DEF ServeList, AwayInv, BackendsForget
  <2>5. CASE app.kind = "clusters"
    BY <1>2, <2>1, <2>2, <2>3, <2>4, <2>5, KeptAway DEF ServeList, tab, ListComes
  <2>6. CASE app.kind /= "clusters"
    BY <1>2, <2>2, <2>6 DEF ServeList, tab, AwayInv
  <2> QED
    BY <2>5, <2>6
<1>3. ASSUME NEW c \in calls, CallFails(c)
      PROVE  AwayInv'
  <2>1. PICK on : Becomes(c, on, c.done, "failed")
    BY <1>3 DEF CallFails
  <2>2. page /= "loading"
    BY <1>3 DEF CallFails, AwayInv
  <2>3. BackendsForget'
    BY <1>3 DEF CallFails, AwayInv, BackendsForget
  <2>4. PICK d : d.req = c.req /\ d.stage = "failed" /\ calls' = (calls \ {c}) \cup {d}
    BY <2>1 DEF Becomes
  <2>5. UNCHANGED <<app, page, list, from, told>>
    BY <1>3 DEF CallFails, tab
  <2> QED
    BY <2>2, <2>3, <2>4, <2>5, KeptAway DEF Fresh, ListComes
<1>4. ASSUME NEW c \in calls, NEW x \in c.left, ServeDelete(c, x)
      PROVE  AwayInv'
  <2>1. UNCHANGED tab /\ c.req.op = "delete"
    BY <1>4 DEF ServeDelete
  <2>2. \A d \in calls' : \/ d \in calls
                          \/ d.req = c.req /\ (c.stage = "abandoned" => d.stage = "abandoned")
    BY <1>4 DEF ServeDelete, Becomes
  <2>3. \A b \in calls : b /= c => b \in calls'
    BY <1>4 DEF ServeDelete, Becomes
  <2>4. BackendsForget'
    <3>1. c.req.server \in Servers
      BY <1>0 DEF TypeOK, Calls, Requests
    <3>2. BackendsForget /\ backend \in [Servers -> SUBSET Items]
      BY <1>0 DEF AwayInv, BackendsForget, TypeOK
    <3>3. \/ /\ backend' = [backend EXCEPT ![c.req.server] = @ \ {x}]
             /\ gone' = gone \cup {<<c.req.server, x>>}
          \/ UNCHANGED <<backend, gone>>
      BY <1>4 DEF ServeDelete
    <3>4. CASE /\ backend' = [backend EXCEPT ![c.req.server] = @ \ {x}]
               /\ gone' = gone \cup {<<c.req.server, x>>}
      <4>1. ASSUME NEW s \in Servers, NEW y \in backend'[s]
            PROVE  <<s, y>> \notin gone'
        <5>1. y \in backend[s] /\ (s = c.req.server => y /= x)
          BY <3>1, <3>2, <3>4
        <5>2. <<s, y>> \notin gone /\ <<s, y>> /= <<c.req.server, x>>
          BY <3>2, <5>1 DEF BackendsForget
        <5> QED
          BY <3>4, <5>2
      <4> QED
        BY <4>1 DEF BackendsForget
    <3> QED
      BY <3>2, <3>3, <3>4 DEF BackendsForget
  <2> QED
    BY <2>1, <2>2, <2>3, <2>4, KeptAway DEF tab, Fresh, ListComes, AwayInv
<1> QED
  BY <1>1, <1>2, <1>3, <1>4

\* The answers: a list names nothing that was told; success makes the page leave.
LEMMA AnswerAway ==
    ASSUME AwayInv, \E c \in calls : ListArrives(c) \/ DeletionArrives(c)
    PROVE  AwayInv'
<1>1. ASSUME NEW c \in calls, ListArrives(c)
      PROVE  AwayInv'
  <2>1. /\ list' = IF c.stage = "answered" THEN c.done ELSE {}
        /\ from' = c.req.server
        /\ calls' = calls \ {c}
        /\ c.req.op = "list" /\ page /= "loading"
        /\ UNCHANGED <<app, backend, page, told, gone>>
    BY <1>1 DEF ListArrives, Show
  <2>2. app.kind = "clusters" /\ page = "shown" => \A x \in list' : <<from', x>> \notin told
    BY <2>1 DEF AwayInv
  <2> QED
    BY <2>1, <2>2 DEF AwayInv
<1>2. ASSUME NEW c \in calls, DeletionArrives(c)
      PROVE  AwayInv'
  <2>1. /\ UNCHANGED <<app, backend, gone>>
        /\ c.req.op = "delete" /\ page /= "loading" /\ Leaves(c)
    BY <1>2 DEF DeletionArrives
  <2>2. /\ \A d \in calls' : d \in calls \/ d.req = c.req
        /\ \A b \in calls : b /= c => b \in calls'
    BY <2>1 DEF Leaves, Becomes
  <2>3. page' /= "loading"
    BY <1>2, <2>1 DEF DeletionArrives, LocalClusterDeleted, LocalEntriesDeleted,
        ManagerDeleted, AgentsDeleted, DeletionFailed
  <2>4. CASE app.kind = "clusters"
    <3>1. CASE LocalClusterDeleted(c)
      BY <2>1, <3>1 DEF LocalClusterDeleted, LocalDeleted, AwayInv
    <3>2. CASE ManagerDeleted(c)
      BY <2>1, <2>2, <2>4, <3>2 DEF ManagerDeleted, AwayInv
    <3>3. CASE DeletionFailed(c)
      BY <2>1, <2>2, <3>3 DEF DeletionFailed, Keep, AwayInv
    <3> QED
      BY <1>2, <2>4, <3>1, <3>2, <3>3 DEF DeletionArrives, LocalEntriesDeleted, AgentsDeleted
  <2>5. CASE app.kind /= "clusters"
    BY <2>1, <2>3, <2>5 DEF AwayInv
  <2> QED
    BY <2>4, <2>5
<1> QED
  BY <1>1, <1>2

LEMMA NextAway == ASSUME IndInv, AwayInv, [Next]_vars PROVE AwayInv'
<1>0. TypeOK
  BY DEF IndInv
<1>1. CASE UNCHANGED vars
  BY <1>1 DEF vars, AwayInv
<1> QED
  BY <1>0, <1>1, MountAway, UserAway, BackendAway, AnswerAway DEF Next

\* The two invariants together: what answers, ticks and the list say of deletions, and
\* which lists are still to come (tornjak-api-helpers.tsx:269, clusters-list-table.tsx:99).
THEOREM FullInvariant == Spec => []FullInv
<1>1. Init => AwayInv
  BY InitAway
<1>2. IndInv /\ AwayInv /\ [Next]_vars => AwayInv'
  BY NextAway
<1>3. IndInv /\ AwayInv => FullInv
  BY DEF FullInv
<1> QED
  BY <1>1, <1>2, <1>3, ListsInvariant, PTL DEF Spec

\* With every answer in whatever order it comes, a page that has settled does not
\* list a cluster that the user was told is deleted: the page reloads, drops the
\* snapshots of its other deletions and asks for the list again
\* (clusters-list-table.tsx:104, tornjak-api-helpers.tsx:284).
THEOREM DeletedClustersStayAway == Spec => []DeletedStaysAway
<1>1. FullInv => DeletedStaysAway
  BY DEF FullInv, AwayInv, DeletedStaysAway, Settled
<1> QED
  BY <1>1, FullInvariant, PTL
=============================================================================
