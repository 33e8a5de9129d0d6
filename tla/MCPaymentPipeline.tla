-------------------------- MODULE MCPaymentPipeline --------------------------
(***************************************************************************)
(* Instances of PaymentPipeline for TLC: the events a provider may send.   *)
(***************************************************************************)
EXTENDS PaymentPipeline, TLC

CONSTANTS e1, e2, e3, e4, e5, e6, e7, t1

Symmetry == Permutations(Workers)

Event(id, type) == [NoEvent EXCEPT !.id = id, !.type = type]

\* As Stripe reports one renewal: the paid invoice, which names transaction and
\* subscription, and the updated subscription, without a transaction.
Paid == [Event(e1, "PAYMENT_SUCCEEDED") EXCEPT
            !.tx = t1, !.names = TRUE, !.priced = TRUE, !.charge = 1]
Renewed == [Event(e2, "SUBSCRIPTION_RENEWED") EXCEPT !.names = TRUE, !.charge = 1]
RenewalEvents == {Paid, Renewed}

Refunded == [Event(e3, "REFUND_COMPLETED") EXCEPT !.tx = t1, !.priced = TRUE, !.full = TRUE]
RefundEvents == {Refunded}

\* A chargeback, its outcome, and a subscription deleted at the provider.
Disputed == [Event(e4, "CHARGEBACK_CREATED") EXCEPT !.tx = t1, !.priced = TRUE]
Won == [Event(e5, "DISPUTE_UPDATED") EXCEPT !.tx = t1, !.priced = TRUE, !.outcome = "WON"]
Deleted == [Event(e7, "SUBSCRIPTION_CANCELED") EXCEPT !.names = TRUE]

\* As PayPal reports a denied capture: it names a transaction, no subscription.
Denied == [Event(e6, "PAYMENT_FAILED") EXCEPT !.tx = t1, !.priced = TRUE]

AllEvents == RenewalEvents \cup RefundEvents \cup {Disputed, Won, Denied, Deleted}

=============================================================================
