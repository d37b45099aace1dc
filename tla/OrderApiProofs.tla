---------------------------- MODULE OrderApiProofs ----------------------------
(***************************************************************************)
(* Theorems about OrderApi for any bodies: the API is the order service    *)
(* with validation in front of it and the envelope behind it.              *)
(***************************************************************************)
EXTENDS OrderApi, OrderServiceProofs

(* Validation and envelope only restrict what the service does: all that   *)
(* holds of the service holds of the API.                                  *)
THEOREM ApiImplementsService == ApiSpec => Spec
<1>1. ApiInit => Init
  BY DEF ApiInit
<1>2. [ApiNext]_apiVars => [Next]_vars
  BY DEF ApiNext, Serve, Refuse, Accept, Next, Arrive, apiVars
<1>3. QED
  BY <1>1, <1>2, PTL DEF ApiSpec, Spec

LEMMA ServiceInvariants == ApiSpec => [](IInv /\ Stages)
BY ApiImplementsService, InductiveInvariant, StagesInvariant, PTL

-----------------------------------------------------------------------------
(* The answer.                                                             *)

(* What has been sent still describes what is in the table.                *)
Told(r) ==
    reply[r] # NoReply =>
        IF reply[r].success
        THEN /\ answer[r] \in {200, 201}
             /\ orders[r] # NoOrder
             /\ reply[r].status = orders[r].status
        ELSE answer[r] \in {400, 404} /\ orders[r] = NoOrder

(* A step that gives request r an answer for the first time gives it one   *)
(* that is true.                                                           *)
LEMMA RespondTold ==
    ASSUME IInv, Stages, [Next]_vars, NEW r \in Requests,
           answer'[r] # answer[r], reply'[r] = Content(r, answer'[r])
    PROVE  Told(r)'
<1>1. \/ answer'[r] = 500
      \/ answer'[r] \in {400, 404} /\ orders'[r] = NoOrder
      \/ \E s \in {"CONFIRMED", "REJECTED"} :
            answer'[r] \in {200, 201} /\ orders'[r] = [status |-> s, payload |-> payload[r]]
  BY OutcomeStep
<1>2. answer'[r] \in {200, 201} => orders'[r] = orders[r]
  <2>1. orders'[r] = orders[r] \/ answer'[r] \in {0, 500}
    BY OutcomeStep
  <2>2. QED
    BY <2>1
<1>3. \A s \in {"CONFIRMED", "REJECTED"} : [status |-> s, payload |-> payload[r]] # NoOrder
  BY TablesAssumption DEF IInv, TypeOK, OrderRow
<1>4. CASE answer'[r] = 500
  BY <1>4 DEF Told, Content
<1>5. CASE answer'[r] \in {400, 404} /\ orders'[r] = NoOrder
  BY <1>5 DEF Told, Content
<1>6. CASE answer'[r] \in {200, 201}
  <2>1. orders'[r] # NoOrder
    BY <1>1, <1>3, <1>6
  <2>2. reply'[r] = [success |-> TRUE, status |-> orders'[r].status]
    BY <1>2, <1>6 DEF Content
  <2>3. QED
    BY <1>6, <2>1, <2>2 DEF Told
<1>7. QED
  BY <1>1, <1>4, <1>5, <1>6

(* What has been said stays true.                                          *)
LEMMA ToldStays ==
    ASSUME IInv, Stages, [Next]_vars, NEW r \in Requests, Told(r),
           answer'[r] = answer[r], reply'[r] = reply[r]
    PROVE  Told(r)'
<1>1. orders'[r] = orders[r] \/ answer[r] = 0
  BY OutcomeStep
<1>2. QED
  BY <1>1 DEF Told

(* The step of request r leaves what the others have been told alone.      *)
LEMMA ServeOthers ==
    ASSUME TypeOK, NEW r \in Requests, Serve(r), NEW q \in Requests \ {r}
    PROVE  answer'[q] = answer[q] /\ reply'[q] = reply[q]
<1>1. Arrive(r) \/ Work(r) \/ Abort(r) \/ Mishap(r)
  BY DEF Serve, Refuse, Accept, Arrive
<1>2. answer'[q] = answer[q]
  BY <1>1, OthersUntouched
<1>3. reply'[q] = reply[q]
  <2>1. Respond(r)
    BY DEF Serve
  <2>2. QED
    BY <2>1 DEF Respond
<1>4. QED
  BY <1>2, <1>3

(* success in a reply says whether the order is in the database.           *)
THEOREM RepliesAreTruthful == ApiSpec => []RepliesTruthful
<1> DEFINE Replies == DOMAIN reply = Requests
           AllTold == \A r \in Requests : Told(r)
<1>1. ApiInit => Replies /\ AllTold
  BY DEF ApiInit, Told
<1>2. ASSUME IInv, Stages, Replies, AllTold, [ApiNext]_apiVars
      PROVE  Replies' /\ AllTold'
  <2>1. [Next]_vars
    BY <1>2 DEF ApiNext, Serve, Refuse, Accept, Next, Arrive, apiVars
  <2>2. CASE UNCHANGED apiVars
    BY <1>2, <2>2 DEF apiVars, vars, otherVars, tableVars, Told
  <2>3. CASE Administer /\ UNCHANGED <<body, reply>>
    <3>1. answer' = answer
      BY <2>3 DEF Administer, SaveRow, ChangeRow, RemoveRow, RemoveProduct, AddRow
    <3>2. ASSUME NEW q \in Requests
          PROVE  Told(q)'
      BY <1>2, <2>1, <2>3, <3>1, ToldStays
    <3>3. QED
      BY <1>2, <2>3, <3>2
  <2>4. ASSUME NEW r \in Requests, Serve(r)
        PROVE  Replies' /\ AllTold'
    <3>1. Respond(r)
      BY <2>4 DEF Serve
    <3>2. Replies'
      BY <1>2, <3>1 DEF Respond
    <3>3. Told(r)'
      <4>1. CASE answer'[r] = answer[r]
        <5>1. reply'[r] = reply[r]
          BY <3>1, <4>1 DEF Respond
        <5>2. QED
          BY <1>2, <2>1, <4>1, <5>1, ToldStays
      <4>2. CASE answer'[r] # answer[r]
        <5>1. reply'[r] = Content(r, answer'[r])
          BY <1>2, <3>1, <4>2 DEF Respond
        <5>2. QED
          BY <1>2, <2>1, <4>2, <5>1, RespondTold
      <4>3. QED
        BY <4>1, <4>2
    <3>4. ASSUME NEW q \in Requests \ {r}
          PROVE  Told(q)'
      <4>1. answer'[q] = answer[q] /\ reply'[q] = reply[q]
        BY <1>2, <2>4, ServeOthers DEF IInv
      <4>2. QED
        BY <1>2, <2>1, <4>1, ToldStays
    <3>5. QED
      BY <3>2, <3>3, <3>4
  <2>5. QED
    BY <1>2, <2>2, <2>3, <2>4 DEF ApiNext
<1>3. AllTold => RepliesTruthful
  BY DEF Told, RepliesTruthful
<1>4. QED
  BY <1>1, <1>2, <1>3, ServiceInvariants, PTL DEF ApiSpec

-----------------------------------------------------------------------------
(* What is ordered is what was sent.                                       *)

(* The payload of request r is what its body says.                         *)
Described(r) ==
    LET items == body[r].items IN
    /\ payload[r] = Validated(body[r])
    /\ \A i \in DOMAIN items : items[i].product \in Products
    /\ ~Repeated(items)

Busy == InTransaction \cup {"accepted", "dispatching", "answering"}

(* A body that is valid now has been so from the start, for products only  *)
(* disappear; and one that has been accepted needs no catalogue any more.  *)
Sent(r) ==
    /\ Valid(body[r]) => payload[r] = Validated(body[r])
    /\ orders[r] # NoOrder => orders[r].payload = payload[r]
    /\ pc[r] \in Busy \/ orders[r] # NoOrder => Described(r)

Shape == {"list", "dict"}

LEMMA NoErrors ==
    ASSUME NEW s \in Seq(Shape), NEW t \in Seq(Shape)
    PROVE  s \o t = <<>> <=> s = <<>> /\ t = <<>>
<1>1. Len(s \o t) = Len(s) + Len(t) /\ Len(s) \in Nat /\ Len(t) \in Nat
  OBVIOUS
<1>2. CASE s = <<>> /\ t = <<>>
  BY <1>2
<1>3. CASE s # <<>> \/ t # <<>>
  <2>1. Len(s) # 0 \/ Len(t) # 0
    BY <1>3
  <2>2. Len(s \o t) # 0
    BY <1>1, <2>1
  <2>3. QED
    BY <1>3, <2>2
<1>4. QED
  BY <1>2, <1>3

LEMMA Shapes ==
    /\ <<>> \in Seq(Shape) /\ <<"list">> \in Seq(Shape) /\ <<"dict">> \in Seq(Shape)
    /\ <<"list">> # <<>> /\ <<"dict">> # <<>>
<1>1. <<>> \in Seq(Shape)
  OBVIOUS
<1>2. ASSUME NEW w \in Shape
      PROVE  <<w>> \in Seq(Shape)
  OBVIOUS
<1>3. ASSUME NEW w \in Shape
      PROVE  <<w>> # <<>>
  <2>1. Len(<<w>>) = 1 /\ Len(<<>>) = 0
    OBVIOUS
  <2>2. QED
    BY <2>1
<1>4. QED
  BY <1>1, <1>2, <1>3 DEF Shape

LEMMA ValidBody ==
    ASSUME NEW b
    PROVE  Valid(b) <=> /\ b \notin {Unparsable, NoObject}
                        /\ StoreErrors(b.store) = <<>>
                        /\ ItemErrors(b.items) = <<>>
<1>1. StoreErrors(b.store) \in Seq(Shape)
  BY Shapes DEF StoreErrors
<1>2. ItemErrors(b.items) \in Seq(Shape)
  BY Shapes DEF ItemErrors
<1>3. QED
  BY <1>1, <1>2, Shapes, NoErrors DEF Valid, Errors

LEMMA ValidItems ==
    ASSUME NEW b, Valid(b)
    PROVE  /\ \A i \in DOMAIN b.items : LineAccepted(b.items[i])
           /\ ~Repeated(b.items)
<1>1. ItemErrors(b.items) = <<>>
  BY ValidBody
<1>2. QED
  BY <1>1, Shapes DEF ItemErrors

(* Products are deleted and none is added.                                 *)
LEMMA CatalogueShrinks == [Next]_vars => catalogue' \subseteq catalogue
<1> SUFFICES ASSUME [Next]_vars PROVE catalogue' \subseteq catalogue
  OBVIOUS
<1>1. CASE UNCHANGED vars
  BY <1>1 DEF vars, otherVars, tableVars
<1>2. CASE Administer
  BY <1>2 DEF Administer, SaveRow, ChangeRow, RemoveRow, RemoveProduct, AddRow
<1>3. ASSUME NEW r \in Requests, Arrive(r) \/ Work(r) \/ Abort(r) \/ Mishap(r)
      PROVE  catalogue' = catalogue
  BY <1>3 DEF Arrive, RefuseInvalid, RefuseStore, Receive, Work, SelectForUpdate, SkipRow,
              LockRow, LockProduct, ConfirmOrder, RejectOrder, OverflowItems,
              CheckForeignKey, ForeignKeyFails, Commit, Dispatch, Answer, Abort,
              Mishap, CommitUnacknowledged, DispatchFails, AnswerFails, MayDisconnect,
              Crash, Fail, Record, otherVars, tableVars
<1>4. QED
  BY <1>1, <1>2, <1>3 DEF Next

LEMMA ValidBefore ==
    ASSUME [Next]_vars, NEW b, Valid(b)'
    PROVE  Valid(b)
<1> DEFINE items == b.items
<1>1. StoreErrors(b.store)' \in Seq(Shape)
  BY Shapes DEF StoreErrors
<1>2. ItemErrors(b.items)' \in Seq(Shape)
  BY Shapes DEF ItemErrors
<1>3. /\ b \notin {Unparsable, NoObject}
      /\ StoreErrors(b.store)' = <<>>
      /\ ItemErrors(b.items)' = <<>>
  BY <1>1, <1>2, Shapes, NoErrors DEF Valid, Errors
<1>4. StoreErrors(b.store) = <<>>
  BY <1>3 DEF StoreErrors
<1>5. /\ items \notin {Absent, Malformed, <<>>}
      /\ \A i \in DOMAIN items : LineAccepted(items[i])'
      /\ ~Repeated(items)
  BY <1>3, Shapes DEF ItemErrors, Repeated
<1>6. \A i \in DOMAIN items : LineAccepted(items[i])
  BY <1>5, CatalogueShrinks DEF LineAccepted
<1>7. ItemErrors(items) = <<>>
  BY <1>5, <1>6 DEF ItemErrors
<1>8. QED
  BY <1>3, <1>4, <1>7, ValidBody

(* What a step of request r does to what has been sent and accepted.       *)
LEMMA ServeSteps ==
    ASSUME TypeOK, NEW r \in Requests, Serve(r)
    PROVE  /\ payload' = payload
           /\ \/ orders'[r] = orders[r]
              \/ pc[r] \in Busy /\ orders'[r].payload = payload[r]
           /\ pc'[r] \in Busy => pc[r] \in Busy \/ Valid(body[r])
<1> DEFINE Step == /\ payload' = payload
                   /\ \/ orders'[r] = orders[r]
                      \/ pc[r] \in Busy /\ orders'[r].payload = payload[r]
                   /\ pc'[r] \in Busy => pc[r] \in Busy \/ Valid(body[r])
<1>1. CASE Refuse(r) \/ Accept(r)
  BY <1>1 DEF Refuse, Accept, RefuseInvalid, RefuseStore, Receive, Return, Goto, otherVars,
              tableVars, TypeOK, Busy, InTransaction
<1>2. CASE Fail(r)
  BY <1>2 DEF Fail, Return, Goto, tableVars, TypeOK, Busy, InTransaction
<1>3. CASE Commit(r) \/ CommitUnacknowledged(r)
  <2>1. Record(r) /\ payload' = payload
    BY <1>3 DEF Commit, CommitUnacknowledged
  <2>2. pc[r] \in Busy
    BY <2>1 DEF Record, Busy, InTransaction
  <2>3. orders'[r].payload = payload[r]
    BY <2>1 DEF Record, TypeOK
  <2>4. QED
    BY <2>1, <2>2, <2>3
<1>4. CASE Work(r)
  <2>1. CASE SelectForUpdate(r) \/ ConfirmOrder(r) \/ RejectOrder(r) \/ CheckForeignKey(r)
    BY <2>1 DEF SelectForUpdate, ConfirmOrder, RejectOrder, CheckForeignKey, Goto,
                otherVars, tableVars, TypeOK, Busy, InTransaction
  <2>2. ASSUME NEW k \in Rows, SkipRow(r, k) \/ LockRow(r, k) \/ LockProduct(r, k)
        PROVE  Step
    BY <2>2 DEF SkipRow, LockRow, LockProduct, otherVars, tableVars
  <2>3. CASE Dispatch(r) \/ Answer(r)
    BY <2>3 DEF Dispatch, Answer, Return, Goto, tableVars, TypeOK, Busy, InTransaction
  <2>4. QED
    BY <1>2, <1>3, <1>4, <2>1, <2>2, <2>3 DEF Work, OverflowItems, ForeignKeyFails
<1>5. CASE Mishap(r)
  <2>1. CASE DispatchFails(r) \/ AnswerFails(r) \/ Crash(r)
    BY <2>1 DEF DispatchFails, AnswerFails, Crash, Return, Goto, otherVars, tableVars, TypeOK,
                Busy, InTransaction
  <2>2. QED
    BY <1>2, <1>3, <1>5, <2>1 DEF Mishap
<1>6. QED
  BY <1>1, <1>2, <1>4, <1>5 DEF Serve, Abort

LEMMA DescribedBody ==
    ASSUME TypeOK, NEW r \in Requests, Sent(r), Valid(body[r])
    PROVE  Described(r)
BY ValidItems DEF Described, Sent, LineAccepted, TypeOK

LEMMA SentStays ==
    ASSUME TypeOK, [Next]_vars, NEW r \in Requests, Sent(r), body' = body,
           payload'[r] = payload[r], orders'[r] = orders[r],
           pc'[r] \in Busy => pc[r] \in Busy \/ Valid(body[r])
    PROVE  Sent(r)'
<1>1. Valid(body[r])' => Valid(body[r])
  BY ValidBefore
<1>2. Described(r) => Described(r)'
  BY DEF Described, Repeated, Validated
<1>3. CASE Valid(body[r])
  BY <1>1, <1>2, <1>3, DescribedBody DEF Sent
<1>4. CASE ~Valid(body[r])
  BY <1>1, <1>2, <1>4 DEF Sent
<1>5. QED
  BY <1>3, <1>4

LEMMA SentStep ==
    ASSUME TypeOK, [ApiNext]_apiVars, \A r \in Requests : Sent(r)
    PROVE  \A r \in Requests : Sent(r)'
<1>0. [Next]_vars
  BY DEF ApiNext, Serve, Refuse, Accept, Next, Arrive, apiVars
<1>1. CASE UNCHANGED apiVars
  BY <1>0, <1>1, SentStays DEF apiVars, vars, otherVars, tableVars
<1>2. CASE Administer /\ UNCHANGED <<body, reply>>
  <2>1. UNCHANGED <<pc, payload, orders>>
    BY <1>2 DEF Administer, SaveRow, ChangeRow, RemoveRow, RemoveProduct, AddRow
  <2>2. QED
    BY <1>0, <1>2, <2>1, SentStays
<1>3. ASSUME NEW r \in Requests, Serve(r)
      PROVE  \A q \in Requests : Sent(q)'
  <2>1. body' = body
    BY <1>3 DEF Serve, Respond
  <2>2. ASSUME NEW q \in Requests \ {r}
        PROVE  Sent(q)'
    <3>1. Arrive(r) \/ Work(r) \/ Abort(r) \/ Mishap(r)
      BY <1>3 DEF Serve, Refuse, Accept, Arrive
    <3>2. UNCHANGED <<pc[q], orders[q], payload[q]>>
      BY <3>1, OthersUntouched
    <3>3. QED
      BY <1>0, <2>1, <3>2, SentStays
  <2>3. Sent(r)'
    <3>1. CASE orders'[r] = orders[r]
      BY <1>0, <1>3, <2>1, <3>1, ServeSteps, SentStays
    <3>2. CASE orders'[r] # orders[r]
      <4>1. pc[r] \in Busy /\ orders'[r].payload = payload[r] /\ payload' = payload
        BY <1>3, <3>2, ServeSteps
      <4>2. Described(r)'
        BY <2>1, <4>1 DEF Sent, Described, Repeated, Validated
      <4>3. QED
        BY <4>1, <4>2 DEF Sent, Described
    <3>3. QED
      BY <3>1, <3>2
  <2>4. QED
    BY <2>2, <2>3
<1>4. QED
  BY <1>1, <1>2, <1>3 DEF ApiNext

(* The quantity of a line of a body without repeated products.             *)
LEMMA LineOrdered ==
    ASSUME NEW r, Described(r), NEW i \in DOMAIN body[r].items
    PROVE  payload[r].want[body[r].items[i].product] = body[r].items[i].quantity
<1> DEFINE items == body[r].items
           p == items[i].product
<1>1. p \in Products /\ \A j \in DOMAIN items : items[j].product = p => j = i
  BY DEF Described, Repeated
<1>2. LineOf(items, p) = i
  BY <1>1 DEF LineOf
<1>3. payload[r].want[p] = items[LineOf(items, p)].quantity
  BY <1>1 DEF Described, Validated
<1>4. QED
  BY <1>2, <1>3

(* The order in the database is the one the client sent, for any bodies,   *)
(* however products disappear in between.                                  *)
THEOREM OrdersAreAsSent == ApiSpec => []OrdersAsSent
<1> DEFINE AllSent == \A r \in Requests : Sent(r)
<1>1. ApiInit => AllSent
  BY DEF ApiInit, Init, Sent, Busy, InTransaction
<1>2. IInv /\ AllSent /\ [ApiNext]_apiVars => AllSent'
  BY SentStep DEF IInv
<1>3. AllSent => OrdersAsSent
  <2> SUFFICES ASSUME AllSent, NEW r \in Requests, orders[r] # NoOrder
               PROVE  LET order == orders[r].payload
                          items == body[r].items
                      IN  /\ order.store = body[r].store
                          /\ \A i \in DOMAIN items :
                                  order.want[items[i].product] = items[i].quantity
                          /\ ~Repeated(items)
                          /\ \A p \in Products : order.want[p] > 0 =>
                                  \E i \in DOMAIN items : items[i].product = p
    BY DEF OrdersAsSent
  <2>1. Described(r) /\ orders[r].payload = payload[r]
    BY DEF Sent
  <2>2. payload[r].store = body[r].store /\ ~Repeated(body[r].items)
    BY <2>1 DEF Described, Validated
  <2>3. \A p \in Products : payload[r].want[p] > 0 =>
                \E i \in DOMAIN body[r].items : body[r].items[i].product = p
    BY <2>1 DEF Described, Validated
  <2>4. QED
    BY <2>1, <2>2, <2>3, LineOrdered
<1>4. QED
  BY <1>1, <1>2, <1>3, ServiceInvariants, PTL DEF ApiSpec
-----------------------------------------------------------------------------
(* Why an order was refused.                                               *)

(* Steps of the service that answer with the status of an error.           *)
LEMMA ErrorStep ==
    ASSUME TypeOK, NEW r \in Requests, Serve(r), answer'[r] # answer[r]
    PROVE  /\ answer'[r] = 400 => ~Valid(body[r])
           /\ answer'[r] = 404 => Valid(body[r]) /\ payload[r].store \notin Stores
<1> DEFINE Step == /\ answer'[r] = 400 => ~Valid(body[r])
                   /\ answer'[r] = 404 => Valid(body[r]) /\ payload[r].store \notin Stores
<1>1. CASE Refuse(r) \/ Accept(r)
  BY <1>1 DEF Refuse, Accept, RefuseInvalid, RefuseStore, Receive, Return, otherVars, TypeOK
<1>2. CASE Fail(r)
  BY <1>2 DEF Fail, Return, TypeOK
<1>3. CASE Work(r)
  <2>1. CASE Answer(r)
    BY <2>1 DEF Answer, Return, TypeOK
  <2>2. CASE OverflowItems(r) \/ ForeignKeyFails(r)
    BY <1>2, <2>2 DEF OverflowItems, ForeignKeyFails
  <2>3. ASSUME ~Answer(r), ~OverflowItems(r), ~ForeignKeyFails(r)
        PROVE  answer' = answer
    BY <1>3, <2>3 DEF Work, SelectForUpdate, SkipRow, LockRow, LockProduct, ConfirmOrder,
                      RejectOrder, CheckForeignKey, Commit, Dispatch, otherVars
  <2>4. QED
    BY <2>1, <2>2, <2>3
<1>4. CASE Mishap(r)
  <2>1. CASE CommitUnacknowledged(r) \/ AnswerFails(r)
    BY <2>1 DEF CommitUnacknowledged, AnswerFails, Return, TypeOK
  <2>2. CASE DispatchFails(r) \/ Crash(r)
    BY <2>2 DEF DispatchFails, Crash, otherVars
  <2>3. QED
    BY <1>4, <2>1, <2>2 DEF Mishap
<1>5. QED
  BY <1>1, <1>2, <1>3, <1>4 DEF Serve, Abort

(* What there is to say against a body.                                    *)
AtFault(b) ==
    \/ b = NoObject
    \/ b.store \notin Stores \cup {MissingStore}
    \/ b.items \in {Absent, Malformed, <<>>}
    \/ \E i \in DOMAIN b.items :
            \/ b.items[i] = Malformed
            \/ b.items[i].product \notin catalogue
            \/ b.items[i].quantity \notin Nat \ {0}
    \/ Repeated(b.items)

Justified(r) ==
    reply[r] # NoReply /\ ~reply[r].success =>
        \/ reply[r].code = "parse_error" /\ body[r] = Unparsable
        \/ reply[r].code = "store_not_found" /\ body[r].store = MissingStore
           /\ \A i \in DOMAIN body[r].items : body[r].items[i].quantity > 0
        \/ reply[r].code = "validation_error" /\ AtFault(body[r])

(* Errors finds something exactly where there is something to find.        *)
LEMMA InvalidAtFault ==
    ASSUME NEW b, ~Valid(b)
    PROVE  b = Unparsable \/ AtFault(b)
<1>1. \/ b \in {Unparsable, NoObject}
      \/ StoreErrors(b.store) # <<>>
      \/ ItemErrors(b.items) # <<>>
  BY ValidBody
<1>2. CASE StoreErrors(b.store) # <<>>
  BY <1>2 DEF StoreErrors, AtFault
<1>3. CASE ItemErrors(b.items) # <<>>
  BY <1>3 DEF ItemErrors, LineAccepted, AtFault
<1>4. QED
  BY <1>1, <1>2, <1>3 DEF AtFault

(* What was wrong with a body stays wrong: no product comes back.          *)
LEMMA JustifiedStays ==
    ASSUME [Next]_vars, NEW r \in Requests, Justified(r), body' = body, reply'[r] = reply[r]
    PROVE  Justified(r)'
<1>1. AtFault(body[r]) => AtFault(body[r])'
  BY CatalogueShrinks DEF AtFault, Repeated
<1>2. QED
  BY <1>1 DEF Justified

LEMMA RespondJustified ==
    ASSUME TypeOK, [Next]_vars, NEW r \in Requests, Sent(r), Serve(r), body' = body,
           answer'[r] # answer[r], reply'[r] = Content(r, answer'[r])
    PROVE  Justified(r)'
<1>1. CASE answer'[r] = 400
  <2>1. ~Valid(body[r])
    BY <1>1, ErrorStep
  <2>2. reply'[r].code = ErrorCode(body[r])
    BY <1>1 DEF Content
  <2>3. body[r] # Unparsable => AtFault(body[r])'
    <3>1. AtFault(body[r]) => AtFault(body[r])'
      BY CatalogueShrinks DEF AtFault, Repeated
    <3>2. QED
      BY <2>1, <3>1, InvalidAtFault
  <2>4. QED
    BY <2>2, <2>3 DEF ErrorCode, Justified
<1>2. CASE answer'[r] = 404
  <2>1. Valid(body[r]) /\ payload[r].store \notin Stores
    BY <1>2, ErrorStep
  <2>2. body[r].store \notin Stores
    BY <2>1 DEF Sent, Validated
  <2>3. body[r].store = MissingStore
    BY <2>1, <2>2, ValidBody, Shapes DEF StoreErrors
  <2>4. \A i \in DOMAIN body[r].items : body[r].items[i].quantity > 0
    BY <2>1, ValidItems DEF LineAccepted
  <2>5. reply'[r].code = "store_not_found"
    BY <1>2 DEF Content
  <2>6. QED
    BY <2>3, <2>4, <2>5 DEF Justified
<1>3. CASE answer'[r] \in {200, 201}
  BY <1>3 DEF Content, Justified
<1>4. CASE answer'[r] \notin {200, 201, 400, 404}
  BY <1>4 DEF Content, Justified
<1>5. QED
  BY <1>1, <1>2, <1>3, <1>4

(* The code of an error names its cause, whatever the client sends and     *)
(* however products disappear before, while and after it is refused.       *)
THEOREM ErrorsAreJustified == ApiSpec => []ErrorsJustified
<1> DEFINE Replies == DOMAIN reply = Requests
           AllSent == \A r \in Requests : Sent(r)
           AllJustified == \A r \in Requests : Justified(r)
           Inv == Replies /\ AllSent /\ AllJustified
<1>1. ApiInit => Inv
  BY DEF ApiInit, Init, Sent, Busy, InTransaction, Justified
<1>2. ASSUME IInv, Inv, [ApiNext]_apiVars
      PROVE  Inv'
  <2>1. [Next]_vars
    BY <1>2 DEF ApiNext, Serve, Refuse, Accept, Next, Arrive, apiVars
  <2>2. AllSent'
    BY <1>2, SentStep DEF IInv
  <2>3. CASE UNCHANGED apiVars \/ (Administer /\ UNCHANGED <<body, reply>>)
    <3>1. UNCHANGED <<body, reply>>
      BY <2>3 DEF apiVars
    <3>2. QED
      BY <1>2, <2>1, <2>2, <3>1, JustifiedStays
  <2>4. ASSUME NEW r \in Requests, Serve(r)
        PROVE  Inv'
    <3>1. Respond(r) /\ body' = body
      BY <2>4 DEF Serve, Respond
    <3>2. Replies'
      BY <1>2, <3>1 DEF Respond
    <3>3. Justified(r)'
      <4>1. CASE answer'[r] = answer[r]
        <5>1. reply'[r] = reply[r]
          BY <3>1, <4>1 DEF Respond
        <5>2. QED
          BY <1>2, <2>1, <3>1, <5>1, JustifiedStays
      <4>2. CASE answer'[r] # answer[r]
        <5>1. reply'[r] = Content(r, answer'[r])
          BY <1>2, <3>1, <4>2 DEF Respond
        <5>2. QED
          BY <1>2, <2>1, <2>4, <3>1, <4>2, <5>1, RespondJustified DEF IInv
      <4>3. QED
        BY <4>1, <4>2
    <3>4. ASSUME NEW q \in Requests \ {r}
          PROVE  Justified(q)'
      <4>1. reply'[q] = reply[q]
        BY <1>2, <2>4, ServeOthers DEF IInv
      <4>2. QED
        BY <1>2, <2>1, <3>1, <4>1, JustifiedStays
    <3>5. QED
      BY <2>2, <3>2, <3>3, <3>4
  <2>5. QED
    BY <1>2, <2>3, <2>4 DEF ApiNext
<1>3. Inv => ErrorsJustified
  BY DEF Justified, AtFault, ErrorsJustified
<1>4. QED
  BY <1>1, <1>2, <1>3, ServiceInvariants, PTL DEF ApiSpec

-----------------------------------------------------------------------------

LEMMA EnvelopeShape ==
    ASSUME NEW code \in ErrorCodes, NEW message \in {"flat", "dump"}
    PROVE  [success |-> FALSE, code |-> code, message |-> message] \in Reply
BY Zenon DEF Reply

(* Every reply has one of the shapes the API documents, and clients keep   *)
(* the bodies they have sent.                                              *)
THEOREM ApiTypeCorrect == ApiSpec => []ApiTypeOK
<1> DEFINE Shaped == /\ body \in [Requests -> Bodies]
                     /\ reply \in [Requests -> Reply \cup {NoReply}]
<1>1. ApiInit => Shaped
  BY DEF ApiInit
<1>2. ASSUME IInv, Stages, Shaped, [ApiNext]_apiVars
      PROVE  Shaped'
  <2>1. [Next]_vars
    BY <1>2 DEF ApiNext, Serve, Refuse, Accept, Next, Arrive, apiVars
  <2>2. CASE UNCHANGED <<body, reply>>
    BY <1>2, <2>2
  <2>3. ASSUME NEW r \in Requests, Serve(r)
        PROVE  Shaped'
    <3>1. Respond(r)
      BY <2>3 DEF Serve
    <3>2. CASE answer'[r] = answer[r]
      BY <1>2, <3>1, <3>2 DEF Respond
    <3>3. CASE answer'[r] # answer[r]
      <4>1. answer'[r] \in {200, 201} => orders[r].status \in {"CONFIRMED", "REJECTED"}
        <5>1. \/ orders'[r] = orders[r]
              \/ answer'[r] \in {0, 500}
          BY <1>2, <2>1, OutcomeStep
        <5>2. \/ answer'[r] \in {500, 400, 404}
              \/ orders'[r] = [status |-> "CONFIRMED", payload |-> payload[r]]
              \/ orders'[r] = [status |-> "REJECTED", payload |-> payload[r]]
          BY <1>2, <2>1, <3>3, OutcomeStep
        <5>3. QED
          BY <5>1, <5>2
      <4>2. Content(r, answer'[r]) \in Reply \cup {NoReply}
        <5>1. CASE answer'[r] \in {200, 201}
          BY <4>1, <5>1 DEF Content, Reply
        <5>2. CASE answer'[r] \in {400, 404}
          <6>1. /\ ErrorCode(body[r]) \in ErrorCodes
                /\ ErrorMessage(Errors(body[r])) \in {"flat", "dump"}
                /\ "store_not_found" \in ErrorCodes
            BY DEF ErrorCode, ErrorMessage, ErrorCodes
          <6>2. CASE answer'[r] = 400
            <7>1. Content(r, answer'[r])
                      = [success |-> FALSE, code |-> ErrorCode(body[r]),
                         message |-> ErrorMessage(Errors(body[r]))]
              BY <6>2 DEF Content
            <7>2. QED
              BY <6>1, <7>1, EnvelopeShape
          <6>3. CASE answer'[r] = 404
            <7>1. Content(r, answer'[r])
                      = [success |-> FALSE, code |-> "store_not_found", message |-> "flat"]
              BY <6>3 DEF Content
            <7>2. QED
              BY <6>1, <7>1, EnvelopeShape
          <6>4. QED
            BY <5>2, <6>2, <6>3
        <5>3. CASE answer'[r] \notin {200, 201, 400, 404}
          BY <5>3 DEF Content
        <5>4. QED
          BY <5>1, <5>2, <5>3
      <4>3. QED
        BY <1>2, <3>1, <4>2 DEF Respond
    <3>4. QED
      BY <3>2, <3>3
  <2>4. QED
    BY <1>2, <2>2, <2>3 DEF ApiNext, apiVars
<1>3. IInv /\ Shaped => ApiTypeOK
  BY DEF ApiTypeOK, IInv
<1>4. QED
  BY <1>1, <1>2, <1>3, ServiceInvariants, PTL DEF ApiSpec
=============================================================================
