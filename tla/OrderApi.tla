------------------------------- MODULE OrderApi -------------------------------
(***************************************************************************)
(* POST /api/orders/ as the client sees it: the body it sends, the         *)
(* validation by OrderCreateSerializer, the order service behind it, and   *)
(* the JSON that comes back, errors in the envelope of                     *)
(* custom_exception_handler.                                               *)
(*                                                                         *)
(* A body is one of two unusable values or a record with a store and a     *)
(* sequence of lines; a field that is missing or cannot be converted is    *)
(* Absent or Malformed.  Of the errors only the shape is kept: the text of *)
(* a field's errors is a list, the errors of single lines are a dict.      *)
(***************************************************************************)
EXTENDS OrderService, Sequences

CONSTANTS
    Bodies,         \* what the clients send
    Unparsable,     \* a body that is not JSON
    NoObject,       \* a body that is JSON but no object
    Absent,         \* stands for a field that is not there
    Malformed,      \* stands for a value of the wrong type
    NoReply         \* the client has received nothing (yet), or a bare 500

VARIABLES
    body,           \* what each client sends
    reply           \* the JSON each client has received

apiVars == <<vars, body, reply>>

ErrorCodes == {"parse_error", "validation_error", "store_not_found"}
Reply == [success : {TRUE}, status : {"CONFIRMED", "REJECTED"}]
            \cup [success : {FALSE}, code : ErrorCodes, message : {"flat", "dump"}]

ApiTypeOK ==
    /\ TypeOK
    /\ body \in [Requests -> Bodies]
    /\ reply \in [Requests -> Reply \cup {NoReply}]

-----------------------------------------------------------------------------
(* Validation.                                                             *)

(* Mutant of LineAccepted: min_value of the quantity is off by one.        *)
LineAtLeastTwo(l) ==
    /\ l # Malformed
    /\ l.product \in catalogue
    /\ l.quantity \in Nat /\ l.quantity > 1

(* OrderItemInputSerializer: an object with a product that exists and a    *)
(* quantity of 1 or more.                                                  *)
LineAccepted(l) ==
    /\ l # Malformed
    /\ l.product \in catalogue
    /\ l.quantity \in Nat /\ l.quantity > 0

(* validate_items: two lines name the same product.                        *)
Repeated(items) ==
    \E i, j \in DOMAIN items : i # j /\ items[i].product = items[j].product

(* Mutant of ItemErrors: without validate_items.                           *)
ItemErrorsApart(items) ==
    IF items \in {Absent, Malformed} THEN <<"list">>
    ELSE IF \E i \in DOMAIN items : ~LineAccepted(items[i]) THEN <<"dict">>
    ELSE IF items = <<>> THEN <<"list">>
    ELSE <<>>

(* The errors of a field, if there are any.  Every line is validated       *)
(* before the length of the list, and that before validate_items.          *)
ItemErrors(items) ==
    IF items \in {Absent, Malformed} THEN <<"list">>
    ELSE IF \E i \in DOMAIN items : ~LineAccepted(items[i]) THEN <<"dict">>
    ELSE IF items = <<>> \/ Repeated(items) THEN <<"list">>
    ELSE <<>>

StoreErrors(store) ==
    IF store \in Stores \cup {MissingStore} THEN <<>> ELSE <<"list">>

(* What is_valid collects, in the order of the fields.  A body that is no  *)
(* object has a detail or non_field_errors instead.                        *)
Errors(b) ==
    IF b \in {Unparsable, NoObject} THEN <<"list">>
    ELSE StoreErrors(b.store) \o ItemErrors(b.items)

Valid(b) == Errors(b) = <<>>

(* The line of a product.                                                  *)
LineOf(items, p) == CHOOSE i \in DOMAIN items : items[i].product = p

(* The lines of a valid body as the quantity of each product.              *)
Validated(b) ==
    [store |-> b.store,
     want  |-> [p \in Products |->
                    IF \E i \in DOMAIN b.items : b.items[i].product = p
                    THEN b.items[LineOf(b.items, p)].quantity
                    ELSE 0]]

-----------------------------------------------------------------------------
(* The answer.                                                             *)

(* get_codes is a dict for the errors of fields, a word for the rest.      *)
ErrorCode(b) == IF b = Unparsable THEN "parse_error" ELSE "validation_error"

(* Mutant of ErrorMessage: the case of a list is missing.                  *)
ErrorMessageRaw(errors) == IF Head(errors) = "dict" THEN "dump" ELSE Head(errors)

(* _get_error_message picks the first error and writes a dict out as       *)
(* Python would.                                                           *)
ErrorMessage(errors) == IF Head(errors) = "dict" THEN "dump" ELSE "flat"

(* What the view or the exception handler returns with a status.  The      *)
(* handler has nothing to say about exceptions that DRF does not know.     *)
Content(r, status) ==
    IF status \in {200, 201} THEN [success |-> TRUE, status |-> orders[r].status]
    ELSE IF status = 404
      THEN [success |-> FALSE, code |-> "store_not_found", message |-> "flat"]
    ELSE IF status = 400
      THEN [success |-> FALSE, code |-> ErrorCode(body[r]),
            message |-> ErrorMessage(Errors(body[r]))]
    ELSE NoReply

(* Mutant of Respond: the status alone decides, with no order at hand.     *)
RespondConfirmed(r) ==
    /\ UNCHANGED body
    /\ reply' = IF answer'[r] = answer[r] THEN reply
                ELSE [reply EXCEPT ![r] =
                        IF answer'[r] \in {200, 201}
                        THEN [success |-> TRUE, status |-> "CONFIRMED"]
                        ELSE Content(r, answer'[r])]

(* An answer that is sent takes its content along.                         *)
Respond(r) ==
    /\ UNCHANGED body
    /\ reply' = IF answer'[r] = answer[r] THEN reply
                ELSE [reply EXCEPT ![r] = Content(r, answer'[r])]

-----------------------------------------------------------------------------

(* The payload of a request whose body will not become one.                *)
AnyPayload == CHOOSE pl \in Payloads : TRUE

ApiInit ==
    /\ Init
    /\ body \in [Requests -> Bodies]
    /\ reply = [r \in Requests |-> NoReply]
    /\ \A r \in Requests :
            payload[r] = IF Valid(body[r]) THEN Validated(body[r]) ELSE AnyPayload

(* is_valid(raise_exception=True), and then the service.                   *)
Refuse(r) == ~Valid(body[r]) /\ RefuseInvalid(r)
Accept(r) == Valid(body[r]) /\ (RefuseStore(r) \/ Receive(r))

Serve(r) ==
    /\ Refuse(r) \/ Accept(r) \/ Work(r) \/ Abort(r) \/ Mishap(r)
    /\ Respond(r)

ApiNext ==
    \/ \E r \in Requests : Serve(r)
    \/ Administer /\ UNCHANGED <<body, reply>>

ApiSpec == ApiInit /\ [][ApiNext]_apiVars

FairApiSpec == ApiSpec /\ Fairness

-----------------------------------------------------------------------------
(* Properties.                                                             *)

(* An order that is in the table is the one the body describes: each line  *)
(* in full, no product on two of them, nothing besides.                    *)
OrdersAsSent ==
    \A r \in Requests : orders[r] # NoOrder =>
        LET order == orders[r].payload
            items == body[r].items
        IN  /\ order.store = body[r].store
            /\ \A i \in DOMAIN items : order.want[items[i].product] = items[i].quantity
            /\ ~Repeated(items)
            /\ \A p \in Products :
                    order.want[p] > 0 => \E i \in DOMAIN items : items[i].product = p

(* success says whether there is an order, and which.  A client that gets  *)
(* the envelope of an error may send the order again.                      *)
RepliesTruthful ==
    \A r \in Requests : reply[r] # NoReply =>
        IF reply[r].success
        THEN orders[r] # NoOrder /\ reply[r].status = orders[r].status
        ELSE orders[r] = NoOrder

(* The code of an error leads to its cause: an order is only refused as    *)
(* invalid for what is in the body, or for a product that is gone, and one *)
(* for a store that does not exist has nothing else wrong with it.         *)
ErrorsJustified ==
    \A r \in Requests : reply[r] # NoReply /\ ~reply[r].success =>
        \/ reply[r].code = "parse_error" /\ body[r] = Unparsable
        \/ reply[r].code = "store_not_found" /\ body[r].store = MissingStore
           /\ \A i \in DOMAIN body[r].items : body[r].items[i].quantity > 0
        \/ /\ reply[r].code = "validation_error"
           /\ \/ body[r] = NoObject
              \/ body[r].store \notin Stores \cup {MissingStore}
              \/ body[r].items \in {Absent, Malformed, <<>>}
              \/ \E i \in DOMAIN body[r].items :
                    \/ body[r].items[i] = Malformed
                    \/ body[r].items[i].product \notin catalogue
                    \/ body[r].items[i].quantity \notin Nat \ {0}
              \/ Repeated(body[r].items)
=============================================================================
