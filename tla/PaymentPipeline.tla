--------------------------- MODULE PaymentPipeline ---------------------------
(***************************************************************************)
(* From a payment provider's webhook, or an administrator's action, to the *)
(* payment transaction, the subscription and the financial ledger.         *)
(*                                                                         *)
(* Nothing in this pipeline runs in a transaction of its own: a worker     *)
(* reads, writes and calls one step at a time, and another worker, a       *)
(* second delivery of the same event or a crash may come between any two.  *)
(* SubscriptionsService and FinancialEventsService.record are transactions *)
(* and are one step each here; Subscriptions models the first in full.     *)
(***************************************************************************)
EXTENDS Naturals, Sequences, FiniteSets, SubscriptionStatus

CONSTANTS
    Events,     \* normalised events the providers may send: records, see Event
    Txs,        \* ids of payment transactions
    Workers,    \* API workers: each serves one webhook or request at a time
    None,       \* SQL NULL, and an optional field that is absent
    Elsewhere,  \* statuses that other requests of the subscription API lead to
    MaxRequests,\* bound on the distinct requests: events and administrators' requests
    MaxRows,    \* bound on the refund rows, and on the dispute rows
    MaxVersion  \* bound on the writes to the subscription

\* id: externalEventId.  tx: externalTransactionId.  names: the event names
\* the subscription.  charge: the charge at the provider that it reports.
\* priced: it has amount and currency.  full: the amount is at least the
\* transaction's, or absent.  outcome: disputeStatus.
EventTypes ==
    { "PAYMENT_SUCCEEDED", "PAYMENT_FAILED", "SUBSCRIPTION_RENEWED",
      "SUBSCRIPTION_CANCELED", "SUBSCRIPTION_EXPIRED", "SUBSCRIPTION_PAST_DUE",
      "REFUND_COMPLETED", "CHARGEBACK_CREATED", "DISPUTE_UPDATED", "UNKNOWN" }

ASSUME EventsAssumption ==
    /\ Events \subseteq
          [ id : { e.id : e \in Events }, type : EventTypes, tx : Txs \cup {None},
            names : BOOLEAN, charge : { e.charge : e \in Events }, priced : BOOLEAN,
            full : BOOLEAN, outcome : {"WON", "LOST", "UNDER_REVIEW", None} ]
    /\ \A e \in Events : e.id \notin Txs \cup {None}

ASSUME BoundsAssumption ==
    /\ None \notin Txs \cup {"WON", "LOST", "UNDER_REVIEW"}
    /\ Elsewhere \subseteq Statuses \ {"INCOMPLETE", "TRIALING"}
    /\ MaxRequests \in Nat /\ MaxRows \in Nat /\ MaxVersion \in Nat

VARIABLES
    webhook,    \* webhook[e]: status of the PaymentWebhook row of e
    txn,        \* txn[t]: the PaymentTransaction row of t
    sub,        \* the Subscription row the payments are for
    refunds,    \* PaymentRefund rows, oldest first
    disputes,   \* PaymentDispute rows, oldest first
    ledger,     \* FinancialEvent rows
    published,  \* events announced on the platform event bus
    seen,       \* history: the distinct requests made so far
    pc,         \* pc[w]: what worker w does next
    call,       \* call[w]: the event it works on
    todo,       \* todo[w]: the steps the event still calls for
    snap,       \* snap[w]: the Subscription row as w read it
    row         \* row[w]: the refund or dispute w works on, 0 for none

tables == <<webhook, txn, sub, refunds, disputes, ledger, published>>
workers == <<pc, call, todo, snap, row>>
vars == <<tables, seen, workers>>

-----------------------------------------------------------------------------
(* Rows and events. *)

NoTxn == [status |-> "none", linked |-> FALSE]

\* A worker that has found no subscription.
NoSub == [status |-> "ABSENT", period |-> 0, version |-> 0]

NoEvent ==
    [ id |-> None, type |-> "UNKNOWN", tx |-> None, names |-> FALSE, charge |-> None,
      priced |-> FALSE, full |-> FALSE, outcome |-> None ]

\* The event markSucceeded() makes up for a transaction an administrator
\* reconciles by hand, and the refund an administrator asks for.
ManualSuccess(t) ==
    [NoEvent EXCEPT !.id = t, !.type = "PAYMENT_SUCCEEDED", !.tx = t, !.charge = t,
                    !.priced = TRUE]

AdminRefund(t, full) ==
    [NoEvent EXCEPT !.id = t, !.type = "ADMIN_REFUND", !.tx = t, !.charge = t,
                    !.priced = TRUE, !.full = full]

\* The request for a transaction that no provider reports.
ManualTx(t) == [NoEvent EXCEPT !.id = t]

Exists(t) == txn[t].status # "none"

PreActivation == {"INCOMPLETE", "TRIALING"}
ActiveLike == {"ACTIVE", "PAST_DUE", "GRACE_PERIOD"}

\* Variant: a payment renews, and never activates.
MoveToRenewOnly(type, status) ==
    CASE type \in {"PAYMENT_SUCCEEDED", "SUBSCRIPTION_RENEWED"} ->
            IF status \in ActiveLike THEN "ACTIVE" ELSE "none"
      [] OTHER -> "none"

\* The status an event asks of a subscription last read in `status`.
MoveTo(type, status) ==
    CASE type \in {"PAYMENT_SUCCEEDED", "SUBSCRIPTION_RENEWED"} ->
            IF status \in PreActivation \cup ActiveLike THEN "ACTIVE" ELSE "none"
      [] type \in {"PAYMENT_FAILED", "SUBSCRIPTION_PAST_DUE"} ->
            IF status = "ACTIVE" THEN "PAST_DUE" ELSE "none"
      [] type = "SUBSCRIPTION_CANCELED" ->
            IF status \notin {"CANCELED", "ABSENT"} THEN "CANCELED" ELSE "none"
      [] type = "SUBSCRIPTION_EXPIRED" ->
            IF status \notin {"EXPIRED", "ABSENT"} THEN "EXPIRED" ELSE "none"
      [] OTHER -> "none"

\* Variant: a refund is booked before the transaction is marked.
ProgramBooksFirst(e, onTx, status) ==
    IF onTx /\ e.type = "REFUND_COMPLETED" THEN <<"row", "book", "mark", "publish">>
    ELSE <<>>

\* Variant: the transaction is marked before the refund or dispute exists.
ProgramMarksFirst(e, onTx, status) ==
    IF onTx /\ e.type \in {"REFUND_COMPLETED", "CHARGEBACK_CREATED"}
    THEN <<"mark", "row", "book", "publish">> ELSE <<>>

\* The steps the dispatcher takes for e, in order: onTx when it has found or
\* made the transaction e names, with the subscription read in `status`.
Program(e, onTx, status) ==
    LET move == IF MoveTo(e.type, status) = "none" THEN <<>> ELSE <<"move">>
        If(b, steps) == IF b THEN steps ELSE <<>>
    IN  CASE e.type \in {"PAYMENT_SUCCEEDED", "PAYMENT_FAILED"} ->
                If(onTx, <<"mark">>) \o move \o If(onTx, <<"book", "publish">>)
          [] e.type = "SUBSCRIPTION_RENEWED" ->
                move \o If(~onTx /\ status # "ABSENT", <<"book">>)
          [] e.type \in {"REFUND_COMPLETED", "CHARGEBACK_CREATED"} ->
                If(onTx, <<"row", "mark", "book", "publish">>)
          [] e.type = "DISPUTE_UPDATED" ->
                If(onTx /\ e.outcome # None, <<"latest", "row", "mark", "book">>)
          [] OTHER -> move

\* Variant: the type of the event is taken for a status.
MarkedAsEvent(e) == e.type

\* The status the transaction is given, whatever it has been.
MarkedAs(e) ==
    CASE e.type = "PAYMENT_FAILED"     -> "FAILED"
      [] e.type = "CHARGEBACK_CREATED" -> "CHARGEBACK"
      [] e.type \in {"REFUND_COMPLETED", "ADMIN_REFUND"} ->
            IF e.full THEN "REFUNDED" ELSE "PARTIALLY_REFUNDED"
      [] OTHER -> "SUCCEEDED"

\* The idempotency key w records its financial event under.  A renewal with no
\* transaction is keyed by the end of the period w read, or by updatedAt (which
\* every write to the row changes) while there is none.
LedgerKey(w) ==
    LET e == call[w] IN
    CASE e.type = "PAYMENT_SUCCEEDED"  -> <<"payment_succeeded", e.tx>>
      [] e.type = "PAYMENT_FAILED"     -> <<"payment_failed", e.tx, e>>
      [] e.type = "REFUND_COMPLETED"   -> <<"refund", row[w]>>
      [] e.type = "CHARGEBACK_CREATED" -> <<"chargeback", row[w]>>
      [] e.type = "DISPUTE_UPDATED"    -> <<"chargeback_reversed", row[w]>>
      [] OTHER -> <<"subscription_renewed", snap[w].period,
                    IF snap[w].period = 0 THEN snap[w].version ELSE 0>>

Booked(key) == \E x \in ledger : x.key = key

\* FinancialEventsService.record: a key that is there is left alone, whether
\* the look-up finds it or the unique index does.
Recorded(key, e) ==
    IF Booked(key) THEN ledger ELSE ledger \cup {[key |-> key, by |-> e]}

-----------------------------------------------------------------------------
Init ==
    /\ webhook = [e \in Events |-> "none"]
    /\ txn = [t \in Txs |-> NoTxn]
    /\ sub \in { [status |-> "TRIALING", period |-> 0, version |-> 1],
                 [status |-> "ACTIVE", period |-> 1, version |-> 1] }
    /\ refunds = <<>> /\ disputes = <<>>
    /\ ledger = {} /\ published = {} /\ seen = {}
    /\ pc = [w \in Workers |-> "idle"]
    /\ call = [w \in Workers |-> NoEvent]
    /\ todo = [w \in Workers |-> <<>>]
    /\ snap = [w \in Workers |-> NoSub]
    /\ row = [w \in Workers |-> 0]

Goto(w, step) == pc' = [pc EXCEPT ![w] = step]

\* The dispatcher of worker w is left, and what it has read is forgotten.
Forget(w) ==
    /\ todo' = [todo EXCEPT ![w] = <<>>]
    /\ snap' = [snap EXCEPT ![w] = NoSub]
    /\ row' = [row EXCEPT ![w] = 0]

Idle(w) ==
    /\ Goto(w, "idle")
    /\ call' = [call EXCEPT ![w] = NoEvent]
    /\ Forget(w)

\* A request is made, for the first time or again.
Asked(e) ==
    /\ seen' = seen \cup {e}
    /\ Cardinality(seen') <= MaxRequests

\* Worker w takes event e.
Take(w, e, step) ==
    /\ Asked(e)
    /\ pc[w] = "idle"
    /\ Goto(w, step)
    /\ call' = [call EXCEPT ![w] = e]

-----------------------------------------------------------------------------
(* The webhook pipeline: handleIncoming(). *)

\* A provider delivers an event, for the first time or again, in any order.
\* An event that is PROCESSED is skipped; one that is VERIFIED or FAILED is not.
Receive(w, e) ==
    /\ webhook[e] # "PROCESSED"
    /\ Take(w, e, IF webhook[e] = "none" THEN "storing" ELSE "reading")
    /\ UNCHANGED <<tables, todo, snap, row>>

\* Variant: the row is stored as PROCESSED, before the event is dispatched.
StoreProcessed(w) ==
    /\ pc[w] = "storing"
    /\ webhook[call[w]] = "none"
    /\ webhook' = [webhook EXCEPT ![call[w]] = "PROCESSED"]
    /\ Goto(w, "reading")
    /\ UNCHANGED <<seen, txn, sub, refunds, disputes, ledger, published, call, todo, snap, row>>

\* The row is created.  If a concurrent delivery has created it, the unique
\* index makes this request fail, outside of any handler: see Die.
Store(w) ==
    /\ pc[w] = "storing"
    /\ webhook[call[w]] = "none"
    /\ webhook' = [webhook EXCEPT ![call[w]] = "VERIFIED"]
    /\ Goto(w, "reading")
    /\ UNCHANGED <<seen, txn, sub, refunds, disputes, ledger, published, call, todo, snap, row>>

\* All steps done: the webhook is PROCESSED (a manual success has none).
Process(w) ==
    /\ pc[w] = "applying"
    /\ todo[w] = <<>>
    /\ webhook' = IF call[w] \in Events THEN [webhook EXCEPT ![call[w]] = "PROCESSED"]
                  ELSE webhook
    /\ Idle(w)
    /\ UNCHANGED <<seen, txn, sub, refunds, disputes, ledger, published>>

\* An exception leaves the dispatcher: the catch block of the webhook handler
\* comes next; an administrator's request has none and ends.
Throw(w) == IF call[w] \in Events
            THEN Goto(w, "failing") /\ Forget(w) /\ UNCHANGED call
            ELSE Idle(w)

\* Any read or write of the dispatcher may fail.
Error(w) ==
    /\ pc[w] \in {"reading", "finding", "creating", "applying"}
    /\ Throw(w)
    /\ UNCHANGED <<tables, seen>>

\* The catch block: FAILED, even over the PROCESSED of another delivery.
FailWebhook(w) ==
    /\ pc[w] = "failing"
    /\ webhook' = [webhook EXCEPT ![call[w]] = "FAILED"]
    /\ Idle(w)
    /\ UNCHANGED <<seen, txn, sub, refunds, disputes, ledger, published>>

\* The process dies, or a failure outside of the handlers ends the request.
Die(w) ==
    /\ pc[w] # "idle"
    /\ Idle(w)
    /\ UNCHANGED <<tables, seen>>

-----------------------------------------------------------------------------
(* The dispatcher: dispatch() and the functions it calls.                   *)

\* The subscription the event names is read first.
ReadSub(w) ==
    /\ pc[w] = "reading"
    /\ Goto(w, "finding")
    /\ snap' = IF call[w].names THEN [snap EXCEPT ![w] = sub] ELSE snap
    /\ UNCHANGED <<tables, seen, call, todo, row>>

\* The steps begin, with the transaction (onTx) and the subscription found.
Start(w, onTx, s) ==
    /\ Goto(w, "applying")
    /\ todo' = [todo EXCEPT ![w] = Program(call[w], onTx, s.status)]
    /\ snap' = [snap EXCEPT ![w] = s]

\* Then the transaction is looked up.  If the event named no subscription, the
\* one the transaction is linked to is read.
FindTx(w) ==
    LET e == call[w]
        found == e.tx # None /\ Exists(e.tx)
        linked == found /\ snap[w] = NoSub /\ txn[e.tx].linked
    IN  /\ pc[w] = "finding"
        /\ IF found \/ e.tx = None \/ ~e.priced
           THEN Start(w, found, IF linked THEN sub ELSE snap[w])
           ELSE Goto(w, "creating") /\ UNCHANGED <<todo, snap>>
        /\ UNCHANGED <<tables, seen, call, row>>

\* A transaction that was not there is created, linked to the subscription the
\* event named.  If another worker has created it, the unique index refuses
\* and that is an Error.
CreateTx(w) ==
    /\ pc[w] = "creating"
    /\ ~Exists(call[w].tx)
    /\ txn' = [txn EXCEPT ![call[w].tx] =
                  [status |-> "PENDING", linked |-> snap[w] # NoSub]]
    /\ Start(w, TRUE, snap[w])
    /\ UNCHANGED <<seen, webhook, sub, refunds, disputes, ledger, published, call, row>>

\* Worker w takes its next step, which must be `step`, and goes on to the rest.
Does(w, step) == pc[w] = "applying" /\ todo[w] # <<>> /\ Head(todo[w]) = step

Advance(w) ==
    /\ todo' = [todo EXCEPT ![w] = Tail(@)]
    /\ UNCHANGED <<pc, call, snap>>

\* The transaction gets its status, unconditionally.
Mark(w) ==
    /\ Does(w, "mark")
    /\ txn' = [txn EXCEPT ![call[w].tx].status = MarkedAs(call[w])]
    /\ Advance(w)
    /\ UNCHANGED <<seen, webhook, sub, refunds, disputes, ledger, published, row>>

\* The call to SubscriptionsService: decided on the status that was read,
\* refused (an exception) on the status the row has.  A renewal or activation
\* starts a period; a renewal that finds a cancellation due cancels instead.
Move(w) ==
    LET asked == MoveTo(call[w].type, snap[w].status)
        renews == asked = "ACTIVE" /\ snap[w].status \in ActiveLike
    IN  /\ Does(w, "move")
        /\ sub.version < MaxVersion
        /\ \E to \in {asked} \cup IF renews THEN {"CANCELED"} ELSE {} :
              IF IsTransitionAllowed(sub.status, to)
              THEN /\ sub' = [ status |-> to, version |-> sub.version + 1,
                               period |-> sub.period + IF to = "ACTIVE" THEN 1 ELSE 0 ]
                   /\ Advance(w)
                   /\ UNCHANGED row
              ELSE Throw(w) /\ UNCHANGED sub
        /\ UNCHANGED <<seen, webhook, txn, refunds, disputes, ledger, published>>

\* The financial event is recorded under its key.
Book(w) ==
    /\ Does(w, "book")
    /\ ledger' = Recorded(LedgerKey(w), call[w])
    /\ Advance(w)
    /\ UNCHANGED <<seen, webhook, txn, sub, refunds, disputes, published, row>>

\* The outcome is announced on the platform event bus.
Publish(w) ==
    /\ Does(w, "publish")
    /\ published' = published \cup {call[w]}
    /\ Advance(w)
    /\ UNCHANGED <<seen, webhook, txn, sub, refunds, disputes, ledger, row>>

\* applyRefund, and RefundsService.create after the provider's answer: a new
\* row each time.  Only a refund that SUCCEEDED goes on to mark the transaction.
AddRefund(w) ==
    LET e == call[w]
        outcomes == IF e.type = "ADMIN_REFUND" THEN {"SUCCEEDED", "FAILED", "PENDING"}
                    ELSE {"SUCCEEDED"}
    IN  /\ Does(w, "row")
        /\ e.type \in {"REFUND_COMPLETED", "ADMIN_REFUND"}
        /\ Len(refunds) < MaxRows
        /\ \E status \in outcomes :
              /\ refunds' = Append(refunds, [tx |-> e.tx, full |-> e.full,
                                             status |-> status, by |-> e])
              /\ todo' = [todo EXCEPT ![w] =
                             IF status = "SUCCEEDED" THEN Tail(@) ELSE <<>>]
        /\ row' = [row EXCEPT ![w] = Len(refunds) + 1]
        /\ UNCHANGED <<seen, webhook, txn, sub, disputes, ledger, published, pc, call, snap>>

\* applyChargeback: a new row each time.
AddDispute(w) ==
    LET e == call[w]
    IN  /\ Does(w, "row")
        /\ e.type = "CHARGEBACK_CREATED"
        /\ Len(disputes) < MaxRows
        /\ disputes' = Append(disputes, [tx |-> e.tx, status |-> "OPEN", by |-> e])
        /\ row' = [row EXCEPT ![w] = Len(disputes) + 1]
        /\ Advance(w)
        /\ UNCHANGED <<seen, webhook, txn, sub, refunds, ledger, published>>

\* applyDisputeUpdate: the latest dispute of the transaction, if any, ...
FindDispute(w) ==
    LET known == { i \in 1..Len(disputes) : disputes[i].tx = call[w].tx }
    IN  /\ Does(w, "latest")
        /\ IF known = {}
           THEN todo' = [todo EXCEPT ![w] = <<>>] /\ UNCHANGED row
           ELSE /\ \E latest \in known : /\ \A i \in known : i <= latest
                                        /\ row' = [row EXCEPT ![w] = latest]
                /\ todo' = [todo EXCEPT ![w] = Tail(@)]
        /\ UNCHANGED <<tables, seen, pc, call, snap>>

\* ... gets the status; only a dispute that is WON goes on.
UpdateDispute(w) ==
    /\ Does(w, "row")
    /\ call[w].type = "DISPUTE_UPDATED"
    /\ disputes' = [disputes EXCEPT ![row[w]].status = call[w].outcome]
    /\ todo' = [todo EXCEPT ![w] = IF call[w].outcome = "WON" THEN Tail(@) ELSE <<>>]
    /\ UNCHANGED <<seen, webhook, txn, sub, refunds, ledger, published, pc, call, snap, row>>

-----------------------------------------------------------------------------
(* Administrators, and whoever else moves the subscription.                 *)

\* createManual: a transaction that no provider reports.
CreateManual(t, linked) ==
    /\ ~Exists(t)
    /\ \A e \in Events : e.tx # t
    /\ Asked(ManualTx(t))
    /\ txn' = [txn EXCEPT ![t] = [status |-> "PENDING", linked |-> linked]]
    /\ UNCHANGED <<webhook, sub, refunds, disputes, ledger, published, workers>>

\* markSucceeded: dispatches a success, whatever the transaction's status.
MarkSucceeded(w, t) ==
    /\ Exists(t)
    /\ Take(w, ManualSuccess(t), "reading")
    /\ UNCHANGED <<tables, todo, snap, row>>

\* RefundsService.create: the provider has been asked for the refund.
AskRefund(w, t, full) ==
    /\ Exists(t)
    /\ Take(w, AdminRefund(t, full), "applying")
    /\ todo' = [todo EXCEPT ![w] = <<"row", "mark">>]
    /\ UNCHANGED <<tables, snap, row>>

\* Other requests of the subscription API write the row, and may start a
\* period.  None of them leads to TRIALING or INCOMPLETE; overlapping ones can
\* leave the allow-list, as Subscriptions shows, so it is no guard here.
MoveElsewhere ==
    /\ sub.version < MaxVersion
    /\ \E to \in Elsewhere \cup {sub.status}, started \in 0..1 :
          sub' = [ status |-> to, version |-> sub.version + 1,
                   period |-> sub.period + started ]
    /\ UNCHANGED <<seen, webhook, txn, refunds, disputes, ledger, published, workers>>

-----------------------------------------------------------------------------
Pipeline(w) ==
    \/ \E e \in Events : Receive(w, e)
    \/ Store(w) \/ Process(w) \/ Error(w) \/ FailWebhook(w) \/ Die(w)

Dispatcher(w) ==
    \/ ReadSub(w) \/ FindTx(w) \/ CreateTx(w)
    \/ Mark(w) \/ Move(w) \/ Book(w) \/ Publish(w)
    \/ AddRefund(w) \/ AddDispute(w) \/ FindDispute(w) \/ UpdateDispute(w)

Administration(w) ==
    \E t \in Txs :
        \/ \E linked \in BOOLEAN : CreateManual(t, linked)
        \/ MarkSucceeded(w, t)
        \/ \E full \in BOOLEAN : AskRefund(w, t, full)

Next ==
    \/ \E w \in Workers : Pipeline(w) \/ Dispatcher(w) \/ Administration(w)
    \/ MoveElsewhere

Spec == Init /\ [][Next]_vars

-----------------------------------------------------------------------------
(* Types. *)

CallType ==
    [ id : { e.id : e \in Events } \cup Txs \cup {None},
      type : EventTypes \cup {"ADMIN_REFUND"}, tx : Txs \cup {None}, names : BOOLEAN,
      charge : { e.charge : e \in Events } \cup Txs \cup {None}, priced : BOOLEAN,
      full : BOOLEAN, outcome : {"WON", "LOST", "UNDER_REVIEW", None} ]

SubRow == [status : Statuses \cup {"ABSENT"}, period : Nat, version : Nat]

TxnStatuses ==
    { "none", "PENDING", "SUCCEEDED", "FAILED", "REFUNDED", "PARTIALLY_REFUNDED",
      "CHARGEBACK" }

StepNames == {"latest", "row", "mark", "move", "book", "publish"}

\* Every table and every worker holds values of its type.
TypeOK ==
    /\ webhook \in [Events -> {"none", "VERIFIED", "PROCESSED", "FAILED"}]
    /\ txn \in [Txs -> [status : TxnStatuses, linked : BOOLEAN]]
    /\ sub \in SubRow
    /\ refunds \in Seq([tx : Txs, full : BOOLEAN, by : CallType,
                        status : {"SUCCEEDED", "FAILED", "PENDING"}])
    /\ disputes \in Seq([tx : Txs, by : CallType,
                         status : {"OPEN", "WON", "LOST", "UNDER_REVIEW"}])
    /\ \A x \in ledger : DOMAIN x = {"key", "by"} /\ x.by \in CallType
    /\ published \subseteq CallType /\ seen \subseteq CallType
    /\ pc \in [Workers -> {"idle", "storing", "reading", "finding", "creating",
                           "applying", "failing"}]
    /\ call \in [Workers -> CallType]
    /\ todo \in [Workers -> Seq(StepNames)]
    /\ snap \in [Workers -> SubRow]
    /\ row \in [Workers -> Nat]

-----------------------------------------------------------------------------
(* What holds however deliveries, crashes and failures interleave.          *)

\* Event e's own refund (or dispute) row has been booked under `kind`.
RowBooked(rows, kind, e) ==
    \E i \in 1..Len(rows) : rows[i].by = e /\ Booked(<<kind, i>>)

\* No processed event has lost an effect: once its webhook is PROCESSED, and so
\* never dispatched again, its money is in the ledger and it is published.
ProcessedIsBooked ==
    \A e \in Events : webhook[e] = "PROCESSED" /\ e.tx # None /\ e.priced =>
        /\ e.type = "PAYMENT_SUCCEEDED" =>
              Booked(<<"payment_succeeded", e.tx>>) /\ e \in published
        /\ e.type = "PAYMENT_FAILED" =>
              Booked(<<"payment_failed", e.tx, e>>) /\ e \in published
        /\ e.type = "REFUND_COMPLETED" =>
              RowBooked(refunds, "refund", e) /\ e \in published
        /\ e.type = "CHARGEBACK_CREATED" =>
              RowBooked(disputes, "chargeback", e) /\ e \in published

\* A customer whose payment has been processed is not left in a trial, nor
\* INCOMPLETE: whoever else moved the subscription in the meantime.
PaidIsActivated ==
    \A e \in Events :
        webhook[e] = "PROCESSED" /\ e.type = "PAYMENT_SUCCEEDED" /\ e.names
            => sub.status \notin PreActivation

\* A transaction is refunded or charged back only if a row says by what.
StatusExplained ==
    \A t \in Txs :
        LET status == txn[t].status
            refunded(full) == \E i \in 1..Len(refunds) :
                                 /\ refunds[i].tx = t /\ refunds[i].full = full
                                 /\ refunds[i].status = "SUCCEEDED"
        IN  /\ status = "REFUNDED" => refunded(TRUE)
            /\ status = "PARTIALLY_REFUNDED" => refunded(FALSE)
            /\ status = "CHARGEBACK" => \E i \in 1..Len(disputes) : disputes[i].tx = t

\* Whatever is in the ledger has happened to its transaction first: it is no
\* longer PENDING, and the refund or dispute booked is one of its rows.
LedgerBacked ==
    \A x \in ledger :
        LET rows == IF x.key[1] = "refund" THEN refunds ELSE disputes
        IN  /\ x.key[1] # "subscription_renewed"
                  => txn[x.by.tx].status \notin {"none", "PENDING"}
            /\ x.key[1] \in {"refund", "chargeback", "chargeback_reversed"}
                  => x.key[2] \in 1..Len(rows) /\ rows[x.key[2]].tx = x.by.tx

-----------------------------------------------------------------------------
(* What the source says of itself, and a run refutes.                       *)

\* A refund is booked once, however often its webhook is retried
\* (payment-event-dispatcher.service.ts: a retried webhook never double-books).
RefundBookedOnce ==
    \A x, y \in ledger :
        x.key[1] = "refund" /\ y.key[1] = "refund" /\ x.by = y.by => x = y

\* One charge of the provider is one payment in the ledger, though several of
\* its events report it (the same comment: two webhooks for one renewal must
\* not double-book revenue).
ChargeBookedOnce ==
    \A x, y \in ledger :
        /\ x.key[1] \in {"payment_succeeded", "subscription_renewed"}
        /\ y.key[1] \in {"payment_succeeded", "subscription_renewed"}
        /\ x.by.charge = y.by.charge
        => x = y

=============================================================================
