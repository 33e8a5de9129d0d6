------------------------ MODULE PaymentPipelineProofs ------------------------
(***************************************************************************)
(* Theorems about PaymentPipeline, for any number of workers, events,      *)
(* transactions, deliveries and crashes: a processed event is booked, a    *)
(* paid subscription is activated, and transactions and ledger are backed  *)
(* by the rows they rest on.                                               *)
(***************************************************************************)
EXTENDS PaymentPipeline, SequenceTheorems, TLAPS

-----------------------------------------------------------------------------
(* The steps an event calls for. *)

Holds(s, step) == \E i \in 1..Len(s) : s[i] = step

\* Every event takes its steps in this order.
Rank(step) ==
    CASE step = "latest" -> 1
      [] step = "row" -> 2
      [] step = "mark" -> 3
      [] step = "move" -> 4
      [] step = "book" -> 5
      [] OTHER -> 6

InOrder(s) == \A i, j \in 1..Len(s) : i < j => Rank(s[i]) < Rank(s[j])

OfPayment == {"PAYMENT_SUCCEEDED", "PAYMENT_FAILED"}
OfReturn == {"REFUND_COMPLETED", "CHARGEBACK_CREATED"}

-----------------------------------------------------------------------------
(* The inductive invariant. *)

PcNames == {"idle", "storing", "reading", "finding", "creating", "applying", "failing"}

RefundRow ==
    [ tx : Txs, full : BOOLEAN, by : CallType, status : {"SUCCEEDED", "FAILED", "PENDING"} ]

DisputeRow == [ tx : Txs, by : CallType, status : {"OPEN", "WON", "LOST", "UNDER_REVIEW"} ]

TxnRow == [status : TxnStatuses, linked : BOOLEAN]

TableTypes ==
    /\ webhook \in [Events -> {"none", "VERIFIED", "PROCESSED", "FAILED"}]
    /\ txn \in [Txs -> TxnRow]
    /\ sub \in SubRow /\ sub.status \in Statuses
    /\ refunds \in Seq(RefundRow)
    /\ disputes \in Seq(DisputeRow)
    /\ \A x \in ledger : DOMAIN x = {"key", "by"} /\ x.by \in CallType
    /\ published \subseteq CallType

WorkerTypes ==
    /\ pc \in [Workers -> PcNames]
    /\ call \in [Workers -> CallType]
    /\ todo \in [Workers -> Seq(StepNames)]
    /\ snap \in [Workers -> SubRow]
    /\ row \in [Workers -> Nat]

\* Transaction t has had an outcome.
Settled(t) == txn[t].status \notin {"none", "PENDING"}

\* The i-th refund (dispute) is that of event e.
RefundIs(i, e) ==
    /\ i \in 1..Len(refunds)
    /\ refunds[i].tx = e.tx /\ refunds[i].full = e.full /\ refunds[i].by = e
    /\ refunds[i].status = "SUCCEEDED"

DisputeIs(i, e) ==
    /\ i \in 1..Len(disputes)
    /\ disputes[i].tx = e.tx
    /\ e.type = "CHARGEBACK_CREATED" => disputes[i].by = e

HasRefund(t, full) ==
    \E i \in 1..Len(refunds) :
        refunds[i].tx = t /\ refunds[i].full = full /\ refunds[i].status = "SUCCEEDED"

HasDispute(t) == \E i \in 1..Len(disputes) : disputes[i].tx = t

\* A row explains the status of transaction t.
TxnFits(t) ==
    /\ txn[t].status = "REFUNDED" => HasRefund(t, TRUE)
    /\ txn[t].status = "PARTIALLY_REFUNDED" => HasRefund(t, FALSE)
    /\ txn[t].status = "CHARGEBACK" => HasDispute(t)

\* The money of e is in the ledger.
BookedFor(e) ==
    /\ e.type = "PAYMENT_SUCCEEDED" => Booked(<<"payment_succeeded", e.tx>>)
    /\ e.type = "PAYMENT_FAILED" => Booked(<<"payment_failed", e.tx, e>>)
    /\ e.type = "REFUND_COMPLETED" => RowBooked(refunds, "refund", e)
    /\ e.type = "CHARGEBACK_CREATED" => RowBooked(disputes, "chargeback", e)

\* What entry x of the ledger is about has happened.
EntryFits(x) ==
    /\ x.key[1] # "subscription_renewed" => x.by.tx # None /\ Settled(x.by.tx)
    /\ x.key[1] = "refund" =>
           x.key[2] \in 1..Len(refunds) /\ refunds[x.key[2]].tx = x.by.tx
    /\ x.key[1] \in {"chargeback", "chargeback_reversed"} =>
           x.key[2] \in 1..Len(disputes) /\ disputes[x.key[2]].tx = x.by.tx

\* What has been done for e where the steps s are left and i is the worker's row: a step
\* that is not left has had its effect, unless the event never called for it.
WorkFits(e, s, i) ==
    /\ InOrder(s)
    /\ \A x \in {"latest", "row", "mark"} : Holds(s, x) => e.tx # None
    /\ Holds(s, "latest") => e.type = "DISPUTE_UPDATED"
    /\ Holds(s, "row") /\ e.type = "DISPUTE_UPDATED" => e.outcome # None
    /\ Holds(s, "book") /\ e.type # "SUBSCRIPTION_RENEWED" =>
           /\ e.type \in OfPayment \cup OfReturn \cup {"DISPUTE_UPDATED"}
           /\ e.tx # None /\ (Holds(s, "mark") \/ Settled(e.tx))
    /\ e.type \in {"REFUND_COMPLETED", "ADMIN_REFUND"} /\ ~ Holds(s, "row") /\ s # <<>> =>
           RefundIs(i, e)
    /\ e.type = "CHARGEBACK_CREATED" /\ ~ Holds(s, "row") /\ s # <<>> => DisputeIs(i, e)
    /\ e.type = "DISPUTE_UPDATED" /\ ~ Holds(s, "latest") /\ s # <<>> => DisputeIs(i, e)
    /\ e.type \in OfPayment \cup OfReturn /\ e.tx # None /\ e.priced =>
           /\ Holds(s, "book") \/ BookedFor(e)
           /\ Holds(s, "publish") \/ e \in published
    /\ e.type = "PAYMENT_SUCCEEDED" /\ e.names =>
           Holds(s, "move") \/ sub.status \notin PreActivation

\* What worker w knows of its event in each of its steps: a subscription it has read beyond
\* its trial has left the trial for good.
WorkerFits(w) ==
    /\ pc[w] = "creating" => call[w].tx # None
    /\ pc[w] \in {"finding", "creating", "applying"} /\ call[w].names =>
           snap[w].status # "ABSENT"
    /\ snap[w].status \notin PreActivation \cup {"ABSENT"} => sub.status \notin PreActivation
    /\ pc[w] = "applying" => WorkFits(call[w], todo[w], row[w])

TableInv ==
    /\ TableTypes
    /\ ProcessedIsBooked /\ PaidIsActivated
    /\ \A t \in Txs : TxnFits(t)
    /\ \A x \in ledger : EntryFits(x)

WorkerInv == WorkerTypes /\ \A w \in Workers : WorkerFits(w)

PipeInv == TableInv /\ WorkerInv /\ seen \subseteq CallType

-----------------------------------------------------------------------------
(* Programs. *)

\* The first step of a program is taken: what is left.
LEMMA FirstTaken ==
    ASSUME NEW s \in Seq(StepNames), s # <<>>, InOrder(s)
    PROVE  /\ Head(s) \in StepNames /\ Tail(s) \in Seq(StepNames)
           /\ InOrder(Tail(s))
           /\ \A step : Holds(s, step) <=> step = Head(s) \/ Holds(Tail(s), step)
           /\ \A step : Holds(Tail(s), step) => Rank(Head(s)) < Rank(step)
<1>1. /\ Head(s) \in StepNames /\ Tail(s) \in Seq(StepNames)
      /\ Len(Tail(s)) = Len(s) - 1
      /\ \A i \in 1..Len(Tail(s)) : Tail(s)[i] = s[i + 1]
  BY HeadTailProperties
<1>2. Len(s) \in Nat \ {0} /\ Head(s) = s[1]
  BY EmptySeq
<1>3. InOrder(Tail(s))
  BY <1>1, <1>2 DEF InOrder
<1>4. ASSUME NEW step PROVE Holds(s, step) <=> step = Head(s) \/ Holds(Tail(s), step)
  <2>1. ASSUME NEW i \in 1..Len(s), s[i] = step, i # 1 PROVE Holds(Tail(s), step)
    <3>1. i - 1 \in 1..Len(Tail(s)) /\ Tail(s)[i - 1] = s[i]
      BY <1>1, <1>2, <2>1
    <3> QED
      BY <2>1, <3>1 DEF Holds
  <2>2. ASSUME NEW i \in 1..Len(Tail(s)), Tail(s)[i] = step PROVE Holds(s, step)
    <3>1. i + 1 \in 1..Len(s) /\ s[i + 1] = step
      BY <1>1, <1>2, <2>2
    <3> QED
      BY <3>1 DEF Holds
  <2>3. 1 \in 1..Len(s)
    BY <1>2
  <2> QED
    BY <1>2, <2>1, <2>2, <2>3 DEF Holds
<1>5. ASSUME NEW i \in 1..Len(Tail(s)) PROVE Rank(Head(s)) < Rank(Tail(s)[i])
  <2>1. i + 1 \in 1..Len(s) /\ 1 \in 1..Len(s) /\ 1 < i + 1 /\ Tail(s)[i] = s[i + 1]
    BY <1>1, <1>2
  <2> QED
    BY <1>2, <2>1 DEF InOrder
<1> QED
  BY <1>1, <1>3, <1>4, <1>5 DEF Holds

\* A program in two parts.
LEMMA PartsJoined ==
    ASSUME NEW s \in Seq(StepNames), NEW t \in Seq(StepNames), InOrder(s), InOrder(t),
           \A x, y : Holds(s, x) /\ Holds(t, y) => Rank(x) < Rank(y)
    PROVE  /\ s \o t \in Seq(StepNames) /\ InOrder(s \o t)
           /\ \A step : Holds(s \o t, step) <=> Holds(s, step) \/ Holds(t, step)
<1> DEFINE u == s \o t
<1>1. /\ u \in Seq(StepNames) /\ Len(u) = Len(s) + Len(t)
      /\ Len(s) \in Nat /\ Len(t) \in Nat
      /\ \A i \in 1..Len(u) : u[i] = IF i <= Len(s) THEN s[i] ELSE t[i - Len(s)]
  BY ConcatProperties, LenProperties
<1> HIDE DEF u
<1>2. ASSUME NEW i \in 1..Len(u), NEW j \in 1..Len(u), i < j
      PROVE  Rank(u[i]) < Rank(u[j])
  <2>1. CASE j <= Len(s)
    <3>1. i \in 1..Len(s) /\ j \in 1..Len(s) /\ u[i] = s[i] /\ u[j] = s[j]
      BY <1>1, <1>2, <2>1
    <3> QED
      BY <1>2, <3>1 DEF InOrder
  <2>2. CASE i > Len(s)
    <3>1. PICK k \in 1..Len(t), m \in 1..Len(t) : u[i] = t[k] /\ u[j] = t[m] /\ k < m
      <4>1. i - Len(s) \in 1..Len(t) /\ j - Len(s) \in 1..Len(t)
            /\ u[i] = t[i - Len(s)] /\ u[j] = t[j - Len(s)] /\ i - Len(s) < j - Len(s)
        BY <1>1, <1>2, <2>2
      <4> QED
        BY <4>1
    <3> QED
      BY <3>1 DEF InOrder
  <2>3. CASE i <= Len(s) /\ j > Len(s)
    <3>1. i \in 1..Len(s) /\ j - Len(s) \in 1..Len(t) /\ u[i] = s[i] /\ u[j] = t[j - Len(s)]
      BY <1>1, <1>2, <2>3
    <3> QED
      BY <3>1 DEF Holds
  <2> QED
    BY <1>1, <2>1, <2>2, <2>3
<1>3. ASSUME NEW step, Holds(u, step) PROVE Holds(s, step) \/ Holds(t, step)
  <2>1. PICK i \in 1..Len(u) : u[i] = step
    BY <1>3 DEF Holds
  <2>2. CASE i <= Len(s)
    BY <1>1, <2>1, <2>2 DEF Holds
  <2>3. CASE i > Len(s)
    <3>1. i - Len(s) \in 1..Len(t) /\ t[i - Len(s)] = step
      BY <1>1, <2>1, <2>3
    <3> QED
      BY <3>1 DEF Holds
  <2> QED
    BY <1>1, <2>2, <2>3
<1>4. ASSUME NEW step, Holds(s, step) \/ Holds(t, step) PROVE Holds(u, step)
  <2>1. ASSUME NEW i \in 1..Len(s), s[i] = step PROVE Holds(u, step)
    <3>1. i \in 1..Len(u) /\ u[i] = step
      BY <1>1, <2>1
    <3> QED
      BY <3>1 DEF Holds
  <2>2. ASSUME NEW i \in 1..Len(t), t[i] = step PROVE Holds(u, step)
    <3>1. i + Len(s) \in 1..Len(u) /\ ~(i + Len(s) <= Len(s)) /\ (i + Len(s)) - Len(s) = i
      BY <1>1, <2>2
    <3>2. u[i + Len(s)] = step
      BY <1>1, <2>2, <3>1
    <3> QED
      BY <3>1, <3>2 DEF Holds
  <2> QED
    BY <1>4, <2>1, <2>2 DEF Holds
<1>5. InOrder(u) /\ u \in Seq(StepNames)
      /\ \A step : Holds(u, step) <=> Holds(s, step) \/ Holds(t, step)
  BY <1>1, <1>2, <1>3, <1>4 DEF InOrder
<1> QED
  BY <1>5 DEF u

\* The parts programs are made of.
LEMMA Parts ==
    /\ <<>> \in Seq(StepNames) /\ InOrder(<<>>) /\ \A x : ~ Holds(<<>>, x)
    /\ \A a \in StepNames :
           <<a>> \in Seq(StepNames) /\ InOrder(<<a>>) /\ \A x : Holds(<<a>>, x) <=> x = a
    /\ LET s == <<"row", "mark", "book", "publish">>
       IN  /\ s \in Seq(StepNames) /\ InOrder(s)
           /\ \A x : Holds(s, x) <=> x \in {"row", "mark", "book", "publish"}
    /\ LET s == <<"latest", "row", "mark", "book">>
       IN  /\ s \in Seq(StepNames) /\ InOrder(s)
           /\ \A x : Holds(s, x) <=> x \in {"latest", "row", "mark", "book"}
    /\ LET s == <<"book", "publish">>
       IN  /\ s \in Seq(StepNames) /\ InOrder(s)
           /\ \A x : Holds(s, x) <=> x \in {"book", "publish"}
    /\ LET s == <<"row", "mark">>
       IN  /\ s \in Seq(StepNames) /\ InOrder(s)
           /\ \A x : Holds(s, x) <=> x \in {"row", "mark"}
<1>1. <<>> \in Seq(StepNames) /\ InOrder(<<>>) /\ \A x : ~ Holds(<<>>, x)
  BY DEF InOrder, Holds
<1>2. ASSUME NEW a \in StepNames
      PROVE  <<a>> \in Seq(StepNames) /\ InOrder(<<a>>) /\ \A x : Holds(<<a>>, x) <=> x = a
  <2>1. <<a>> \in Seq(StepNames) /\ Len(<<a>>) = 1 /\ <<a>>[1] = a
    OBVIOUS
  <2> QED
    BY <2>1 DEF InOrder, Holds
<1>3. ASSUME NEW a \in StepNames, NEW b \in StepNames, Rank(a) < Rank(b)
      PROVE  /\ <<a, b>> \in Seq(StepNames) /\ InOrder(<<a, b>>)
             /\ \A x : Holds(<<a, b>>, x) <=> x \in {a, b}
  <2>1. <<a, b>> \in Seq(StepNames) /\ Len(<<a, b>>) = 2 /\ <<a, b>>[1] = a /\ <<a, b>>[2] = b
    OBVIOUS
  <2>2. 1..2 = {1, 2}
    OBVIOUS
  <2> QED
    BY <1>3, <2>1, <2>2 DEF InOrder, Holds
<1>4. ASSUME NEW a \in StepNames, NEW b \in StepNames, NEW c \in StepNames,
             NEW d \in StepNames, Rank(a) < Rank(b), Rank(b) < Rank(c), Rank(c) < Rank(d)
      PROVE  /\ <<a, b, c, d>> \in Seq(StepNames) /\ InOrder(<<a, b, c, d>>)
             /\ \A x : Holds(<<a, b, c, d>>, x) <=> x \in {a, b, c, d}
  <2>1. PICK s : s = <<a, b, c, d>>
    OBVIOUS
  <2>2. s \in Seq(StepNames) /\ Len(s) = 4 /\ s[1] = a /\ s[2] = b /\ s[3] = c /\ s[4] = d
    BY <2>1
  <2>3. 1..4 = {1, 2, 3, 4}
    OBVIOUS
  <2>4. Rank(a) \in Nat /\ Rank(b) \in Nat /\ Rank(c) \in Nat /\ Rank(d) \in Nat
    BY DEF Rank
  <2>5. InOrder(s)
    BY <1>4, <2>2, <2>3, <2>4 DEF InOrder
  <2>6. \A x : Holds(s, x) <=> x \in {a, b, c, d}
    BY <2>2, <2>3 DEF Holds
  <2> QED
    BY <2>1, <2>2, <2>5, <2>6
<1>5. /\ Rank("latest") = 1 /\ Rank("row") = 2 /\ Rank("mark") = 3
      /\ Rank("book") = 5 /\ Rank("publish") = 6
      /\ {"latest", "row", "mark", "book", "publish"} \subseteq StepNames
  BY DEF Rank, StepNames
<1> QED
  BY <1>1, <1>2, <1>3, <1>4, <1>5

\* A program is in order, and what is in it depends on the event, on whether a transaction
\* was found and on the status the subscription was read in.
LEMMA ProgramFits ==
    ASSUME NEW e, e.type \in EventTypes \cup {"ADMIN_REFUND"}, NEW onTx \in BOOLEAN, NEW status
    PROVE  LET s == Program(e, onTx, status)
               moves == MoveTo(e.type, status) # "none"
           IN  /\ s \in Seq(StepNames) /\ InOrder(s)
               /\ e.type \in OfPayment => \A x : Holds(s, x) <=>
                      (x = "move" /\ moves) \/ (x \in {"mark", "book", "publish"} /\ onTx)
               /\ e.type \in OfReturn => \A x : Holds(s, x) <=>
                      x \in {"row", "mark", "book", "publish"} /\ onTx
               /\ e.type = "DISPUTE_UPDATED" => \A x : Holds(s, x) <=>
                      x \in {"latest", "row", "mark", "book"} /\ onTx /\ e.outcome # None
               /\ e.type = "SUBSCRIPTION_RENEWED" => \A x : Holds(s, x) => x \in {"move", "book"}
               /\ e.type \notin OfPayment \cup OfReturn \cup
                                {"DISPUTE_UPDATED", "SUBSCRIPTION_RENEWED"}
                      => \A x : Holds(s, x) => x = "move"
<1> DEFINE moves == MoveTo(e.type, status) # "none"
           move == IF MoveTo(e.type, status) = "none" THEN <<>> ELSE <<"move">>
<1>1. move \in Seq(StepNames) /\ InOrder(move) /\ \A x : Holds(move, x) <=> x = "move" /\ moves
  <2>1. "move" \in StepNames
    BY DEF StepNames
  <2> QED
    BY <2>1, Parts
<1>2. /\ Rank("latest") = 1 /\ Rank("row") = 2 /\ Rank("mark") = 3 /\ Rank("move") = 4
      /\ Rank("book") = 5 /\ Rank("publish") = 6
  BY DEF Rank
<1>3. CASE e.type \in OfPayment
  <2> DEFINE marks == IF onTx THEN <<"mark">> ELSE <<>>
             books == IF onTx THEN <<"book", "publish">> ELSE <<>>
  <2>1. marks \in Seq(StepNames) /\ InOrder(marks) /\ \A x : Holds(marks, x) <=> x = "mark" /\ onTx
    <3>1. "mark" \in StepNames
      BY DEF StepNames
    <3> QED
      BY <3>1, Parts
  <2>2. books \in Seq(StepNames) /\ InOrder(books)
        /\ \A x : Holds(books, x) <=> x \in {"book", "publish"} /\ onTx
    BY Parts
  <2>3. Program(e, onTx, status) = (marks \o move) \o books
    BY <1>3 DEF Program, OfPayment
  <2> HIDE DEF marks, books, move, moves
  <2>4. marks \o move \in Seq(StepNames) /\ InOrder(marks \o move)
        /\ \A x : Holds(marks \o move, x) <=> Holds(marks, x) \/ Holds(move, x)
    <3>1. \A x, y : Holds(marks, x) /\ Holds(move, y) => Rank(x) < Rank(y)
      BY <1>1, <1>2, <2>1
    <3> QED
      BY <1>1, <2>1, <3>1, PartsJoined
  <2>0. \A x : Holds(marks \o move, x) <=> (x = "mark" /\ onTx) \/ (x = "move" /\ moves)
    BY <1>1, <2>1, <2>4, Zenon
  <2>5. PICK both \in Seq(StepNames) :
            /\ both = marks \o move /\ InOrder(both)
            /\ \A x : Holds(both, x) <=> (x = "mark" /\ onTx) \/ (x = "move" /\ moves)
    BY <2>0, <2>4, Zenon
  <2>6. \A x, y : Holds(both, x) /\ Holds(books, y) => Rank(x) < Rank(y)
    <3> SUFFICES ASSUME NEW x, NEW y, Holds(both, x), Holds(books, y)
                 PROVE  Rank(x) < Rank(y)
      OBVIOUS
    <3>1. x \in {"mark", "move"}
      BY <2>5
    <3>2. y \in {"book", "publish"}
      BY <2>2
    <3> QED
      BY <1>2, <3>1, <3>2
  <2>7. both \o books \in Seq(StepNames) /\ InOrder(both \o books)
        /\ \A x : Holds(both \o books, x) <=> Holds(both, x) \/ Holds(books, x)
    BY <2>2, <2>5, <2>6, PartsJoined
  <2>8. Program(e, onTx, status) = both \o books
    BY <2>3, <2>5
  <2>9. \A x : Holds(both \o books, x) <=>
            (x = "move" /\ moves) \/ (x \in {"mark", "book", "publish"} /\ onTx)
    BY <2>2, <2>5, <2>7, Zenon
  <2> QED
    BY <1>3, <2>7, <2>8, <2>9 DEF OfPayment, OfReturn, moves
<1>4. CASE e.type \in OfReturn
  <2>1. Program(e, onTx, status) =
            IF onTx THEN <<"row", "mark", "book", "publish">> ELSE <<>>
    BY <1>4 DEF Program, OfReturn
  <2> QED
    BY <1>4, <2>1, Parts DEF OfPayment, OfReturn
<1>5. CASE e.type = "DISPUTE_UPDATED"
  <2>1. Program(e, onTx, status) =
            IF onTx /\ e.outcome # None THEN <<"latest", "row", "mark", "book">> ELSE <<>>
    BY <1>5 DEF Program
  <2> QED
    BY <1>5, <2>1, Parts DEF OfPayment, OfReturn
<1>6. CASE e.type = "SUBSCRIPTION_RENEWED"
  <2> DEFINE books == IF ~onTx /\ status # "ABSENT" THEN <<"book">> ELSE <<>>
  <2>1. books \in Seq(StepNames) /\ InOrder(books) /\ \A x : Holds(books, x) => x = "book"
    <3>1. "book" \in StepNames
      BY DEF StepNames
    <3> QED
      BY <3>1, Parts
  <2>2. Program(e, onTx, status) = move \o books
    BY <1>6 DEF Program
  <2> HIDE DEF books, move, moves
  <2>3. move \o books \in Seq(StepNames) /\ InOrder(move \o books)
        /\ \A x : Holds(move \o books, x) <=> Holds(move, x) \/ Holds(books, x)
    <3>1. \A x, y : Holds(move, x) /\ Holds(books, y) => Rank(x) < Rank(y)
      BY <1>1, <1>2, <2>1
    <3> QED
      BY <1>1, <2>1, <3>1, PartsJoined
  <2> QED
    BY <1>1, <1>6, <2>1, <2>2, <2>3 DEF OfPayment, OfReturn
<1>7. CASE e.type \notin OfPayment \cup OfReturn \cup {"DISPUTE_UPDATED", "SUBSCRIPTION_RENEWED"}
  <2>1. Program(e, onTx, status) = move
    BY <1>7 DEF Program, OfPayment, OfReturn
  <2> QED
    BY <1>1, <1>7, <2>1 DEF OfPayment, OfReturn
<1> QED
  BY <1>3, <1>4, <1>5, <1>6, <1>7

-----------------------------------------------------------------------------
(* What a step does to the tables: rows stay for what they are, outcomes and trials are left *)
(* for good, and nothing leaves the ledger.                                                *)

Grows ==
    /\ \A i \in 1..Len(refunds) : i \in 1..Len(refunds') /\ refunds'[i] = refunds[i]
    /\ \A i \in 1..Len(disputes) :
           /\ i \in 1..Len(disputes')
           /\ disputes'[i].tx = disputes[i].tx /\ disputes'[i].by = disputes[i].by
    /\ \A t \in Txs : Settled(t) => Settled(t)'
    /\ ledger \subseteq ledger' /\ published \subseteq published'
    /\ sub.status \notin PreActivation => sub'.status \notin PreActivation

\* Worker v stays where it is.
WorkerStays(v) ==
    /\ pc'[v] = pc[v] /\ call'[v] = call[v] /\ todo'[v] = todo[v]
    /\ snap'[v] = snap[v] /\ row'[v] = row[v]

\* The type invariant by its parts.
LEMMA TypeParts == TableTypes /\ WorkerTypes /\ seen \subseteq CallType => TypeOK
<1> SUFFICES ASSUME TableTypes, WorkerTypes, seen \subseteq CallType PROVE TypeOK
  OBVIOUS
<1>1. /\ webhook \in [Events -> {"none", "VERIFIED", "PROCESSED", "FAILED"}]
      /\ txn \in [Txs -> TxnRow] /\ sub \in SubRow
      /\ \A x \in ledger : DOMAIN x = {"key", "by"} /\ x.by \in CallType
      /\ published \subseteq CallType
  BY DEF TableTypes
<1>2. refunds \in Seq(RefundRow) /\ disputes \in Seq(DisputeRow)
  BY DEF TableTypes
<1> QED
  BY <1>1, <1>2 DEF WorkerTypes, TypeOK, TxnRow, RefundRow, DisputeRow, PcNames

\* The events of providers and administrators have their type.
LEMMA CallTypes ==
    /\ Events \subseteq CallType /\ NoEvent \in CallType
    /\ \A t \in Txs : ManualTx(t) \in CallType /\ ManualSuccess(t) \in CallType
    /\ \A t \in Txs, full \in BOOLEAN : AdminRefund(t, full) \in CallType
<1>1. Events \subseteq CallType
  BY EventsAssumption DEF CallType
<1>2. NoEvent \in CallType
  BY DEF NoEvent, CallType, EventTypes
<1>3. \A t \in Txs : ManualTx(t) \in CallType /\ ManualSuccess(t) \in CallType
  BY DEF NoEvent, CallType, EventTypes, ManualTx, ManualSuccess
<1>4. \A t \in Txs, full \in BOOLEAN : AdminRefund(t, full) \in CallType
  BY DEF NoEvent, CallType, EventTypes, AdminRefund
<1> QED
  BY <1>1, <1>2, <1>3, <1>4

\* What is known of the tables remains so.
LEMMA GrowthKeeps ==
    ASSUME Grows, NEW e, NEW i
    PROVE  /\ RefundIs(i, e) => RefundIs(i, e)'
           /\ DisputeIs(i, e) => DisputeIs(i, e)'
           /\ BookedFor(e) => BookedFor(e)'
<1>1. RefundIs(i, e) => RefundIs(i, e)'
  BY DEF Grows, RefundIs
<1>2. DisputeIs(i, e) => DisputeIs(i, e)'
  BY DEF Grows, DisputeIs
<1>3. \A key : Booked(key) => Booked(key)'
  BY DEF Grows, Booked
<1>4. RowBooked(refunds, "refund", e) => RowBooked(refunds, "refund", e)'
  BY <1>3 DEF Grows, RowBooked
<1>5. RowBooked(disputes, "chargeback", e) => RowBooked(disputes, "chargeback", e)'
  BY <1>3 DEF Grows, RowBooked
<1> QED
  BY <1>1, <1>2, <1>3, <1>4, <1>5 DEF BookedFor

\* What fits a worker's event keeps fitting when the tables grow.
LEMMA WorkKept ==
    ASSUME Grows, NEW e \in CallType, NEW s, NEW i, WorkFits(e, s, i)
    PROVE  WorkFits(e, s, i)'
<1>1. /\ RefundIs(i, e) => RefundIs(i, e)'
      /\ DisputeIs(i, e) => DisputeIs(i, e)'
      /\ BookedFor(e) => BookedFor(e)'
  BY GrowthKeeps
<1>2. e.tx # None /\ Settled(e.tx) => Settled(e.tx)'
  BY DEF Grows, CallType
<1>3. /\ e \in published => e \in published'
      /\ sub.status \notin PreActivation => sub'.status \notin PreActivation
  BY DEF Grows
<1> QED
  BY <1>1, <1>2, <1>3 DEF WorkFits

\* A worker that stays fits when the tables grow.
LEMMA StayingFits ==
    ASSUME WorkerInv, Grows, NEW v \in Workers, WorkerStays(v)
    PROVE  WorkerFits(v)'
<1>1. WorkerFits(v) /\ call[v] \in CallType
  BY DEF WorkerInv, WorkerTypes
<1>2. CASE pc[v] = "applying"
  <2>1. WorkFits(call[v], todo[v], row[v])
    BY <1>1, <1>2 DEF WorkerFits
  <2>2. PICK e, s, i : e \in CallType /\ e = call[v] /\ s = todo[v] /\ i = row[v]
    BY <1>1
  <2>3. WorkFits(e, s, i)'
    BY <2>1, <2>2, WorkKept
  <2>4. call'[v] = e /\ todo'[v] = s /\ row'[v] = i
    BY <2>2 DEF WorkerStays
  <2>5. WorkFits(call[v], todo[v], row[v])'
    BY <2>3, <2>4 DEF WorkFits, RefundIs, DisputeIs, BookedFor
  <2> QED
    BY <1>1, <2>5 DEF WorkerFits, WorkerStays, Grows
<1>3. CASE pc[v] # "applying"
  BY <1>1, <1>3 DEF WorkerFits, WorkerStays, Grows
<1> QED
  BY <1>2, <1>3

\* No worker moves.
LEMMA WorkersStay ==
    ASSUME WorkerInv, Grows, UNCHANGED workers
    PROVE  WorkerInv'
<1>1. \A v \in Workers : WorkerStays(v)
  BY DEF workers, WorkerStays
<1>2. WorkerTypes'
  BY DEF WorkerInv, WorkerTypes, workers
<1> QED
  BY <1>1, <1>2, StayingFits DEF WorkerInv

\* Only worker w moves.
LEMMA WorkerMoves ==
    ASSUME WorkerInv, Grows, NEW w \in Workers, WorkerTypes',
           \A v \in Workers \ {w} : WorkerStays(v), WorkerFits(w)'
    PROVE  WorkerInv'
  BY StayingFits DEF WorkerInv

\* Worker w leaves its event, or has not yet come to it.
LEMMA WorkerAway ==
    ASSUME WorkerInv, Grows, NEW w \in Workers, NEW p \in PcNames, NEW e \in CallType,
           p \notin {"finding", "creating", "applying"},
           pc' = [pc EXCEPT ![w] = p], call' = [call EXCEPT ![w] = e],
           \/ Forget(w) \/ UNCHANGED <<todo, snap, row>>
    PROVE  WorkerInv'
<1>1. WorkerTypes
  BY DEF WorkerInv
<1>2. NoSub \in SubRow /\ <<>> \in Seq(StepNames) /\ 0 \in Nat
  BY DEF NoSub, SubRow
<1>3. WorkerTypes'
  BY <1>1, <1>2 DEF WorkerTypes, Forget
<1>4. \A v \in Workers \ {w} : WorkerStays(v)
  BY <1>1 DEF WorkerTypes, WorkerStays, Forget
<1>5. pc'[w] = p /\ snap'[w] \in {snap[w], NoSub}
  BY <1>1 DEF WorkerTypes, Forget
<1>6. snap'[w].status \notin PreActivation \cup {"ABSENT"} => sub'.status \notin PreActivation
  BY <1>5 DEF NoSub, WorkerInv, WorkerFits, Grows
<1>7. WorkerFits(w)'
  BY <1>5, <1>6 DEF WorkerFits
<1> QED
  BY <1>3, <1>4, <1>7, WorkerMoves

\* Worker w is done, or an exception leaves its dispatcher.
LEMMA WorkerLeaves ==
    ASSUME WorkerInv, Grows, NEW w \in Workers, Idle(w) \/ Throw(w)
    PROVE  WorkerInv'
<1>1. CASE Idle(w)
  <2>1. "idle" \in PcNames /\ NoEvent \in CallType
    BY CallTypes DEF PcNames
  <2> QED
    BY <1>1, <2>1, WorkerAway DEF Idle, Goto
<1>2. CASE Goto(w, "failing") /\ Forget(w) /\ UNCHANGED call
  <2>1. "failing" \in PcNames /\ call[w] \in CallType /\ call' = [call EXCEPT ![w] = call[w]]
    BY <1>2 DEF PcNames, WorkerInv, WorkerTypes
  <2> QED
    BY <1>2, <2>1, WorkerAway DEF Goto
<1> QED
  BY <1>1, <1>2 DEF Throw

-----------------------------------------------------------------------------
(* The tables. *)

\* The parts of the tables' invariant that only growth and webhooks can disturb.
LEMMA ProcessedKept ==
    ASSUME TableInv, Grows, NEW e \in Events, webhook[e] = "PROCESSED"
    PROVE  /\ e.tx # None /\ e.priced /\ e.type \in OfPayment \cup OfReturn
                  => BookedFor(e)' /\ e \in published'
           /\ e.type = "PAYMENT_SUCCEEDED" /\ e.names => sub'.status \notin PreActivation
<1>1. e.tx # None /\ e.priced /\ e.type \in OfPayment \cup OfReturn
          => BookedFor(e) /\ e \in published
  BY DEF TableInv, ProcessedIsBooked, BookedFor, OfPayment, OfReturn
<1>2. e.type = "PAYMENT_SUCCEEDED" /\ e.names => sub.status \notin PreActivation
  BY DEF TableInv, PaidIsActivated
<1> QED
  BY <1>1, <1>2, GrowthKeeps DEF Grows

\* Processed events stay booked, and no other becomes processed.
LEMMA WebhooksKept ==
    ASSUME TableInv, Grows,
           \A e \in Events : webhook'[e] = "PROCESSED" => webhook[e] = "PROCESSED"
    PROVE  ProcessedIsBooked' /\ PaidIsActivated'
<1>1. ASSUME NEW e \in Events, webhook'[e] = "PROCESSED"
      PROVE  /\ e.tx # None /\ e.priced /\ e.type \in OfPayment \cup OfReturn
                    => BookedFor(e)' /\ e \in published'
             /\ e.type = "PAYMENT_SUCCEEDED" /\ e.names => sub'.status \notin PreActivation
  BY <1>1, ProcessedKept
<1>2. ProcessedIsBooked'
  BY <1>1 DEF ProcessedIsBooked, BookedFor, OfPayment, OfReturn
<1>3. PaidIsActivated'
  BY <1>1 DEF PaidIsActivated
<1> QED
  BY <1>2, <1>3

\* Transactions keep their status, or get one that is not of a return.
LEMMA StatusKept ==
    ASSUME TableInv, Grows,
           \A t \in Txs : txn'[t].status # txn[t].status =>
               txn'[t].status \notin {"REFUNDED", "PARTIALLY_REFUNDED", "CHARGEBACK"}
    PROVE  \A t \in Txs : TxnFits(t)'
<1>1. ASSUME NEW t \in Txs PROVE TxnFits(t)'
  <2>1. \A full : HasRefund(t, full) => HasRefund(t, full)'
    BY DEF HasRefund, Grows
  <2>2. HasDispute(t) => HasDispute(t)'
    BY DEF HasDispute, Grows
  <2> QED
    BY <2>1, <2>2 DEF TableInv, TxnFits
<1> QED
  BY <1>1

\* What is in the ledger keeps fitting.
LEMMA EntryKept ==
    ASSUME TableInv, Grows, NEW x \in ledger
    PROVE  EntryFits(x)' /\ x.by \in CallType /\ DOMAIN x = {"key", "by"}
<1>1. EntryFits(x) /\ x.by \in CallType /\ DOMAIN x = {"key", "by"}
  BY DEF TableInv, TableTypes
<1>2. x.by.tx # None => x.by.tx \in Txs
  BY <1>1 DEF CallType
<1> QED
  BY <1>1, <1>2 DEF EntryFits, Grows

\* A step that leaves the tables alone.
LEMMA TablesStay ==
    ASSUME TableInv, UNCHANGED tables
    PROVE  TableInv' /\ Grows
<1>1. /\ UNCHANGED <<webhook, txn, sub, refunds, disputes, ledger, published>>
  BY DEF tables
<1>2. Grows
  BY <1>1 DEF Grows, Settled
<1>3. TableTypes'
  BY <1>1 DEF TableInv, TableTypes
<1>4. ProcessedIsBooked' /\ PaidIsActivated'
  BY <1>1, <1>2, WebhooksKept
<1>5. \A t \in Txs : TxnFits(t)'
  BY <1>1, <1>2, StatusKept
<1>6. \A x \in ledger' : EntryFits(x)'
  BY <1>1, <1>2, EntryKept
<1> QED
  BY <1>2, <1>3, <1>4, <1>5, <1>6 DEF TableInv

\* A step that writes only webhooks, and makes none PROCESSED but that of e, whose money is
\* booked.
LEMMA WebhookWritten ==
    ASSUME TableInv, UNCHANGED <<txn, sub, refunds, disputes, ledger, published>>,
           webhook' \in [Events -> {"none", "VERIFIED", "PROCESSED", "FAILED"}],
           NEW e,
           \A f \in Events : webhook'[f] = "PROCESSED" => webhook[f] = "PROCESSED" \/ f = e,
           e \in Events /\ webhook'[e] = "PROCESSED" =>
               /\ e.tx # None /\ e.priced /\ e.type \in OfPayment \cup OfReturn
                      => BookedFor(e) /\ e \in published
               /\ e.type = "PAYMENT_SUCCEEDED" /\ e.names => sub.status \notin PreActivation
    PROVE  TableInv' /\ Grows
<1>2. Grows
  BY DEF Grows, Settled
<1>3. TableTypes'
  BY DEF TableInv, TableTypes
<1>4. ASSUME NEW f \in Events, webhook'[f] = "PROCESSED"
      PROVE  /\ f.tx # None /\ f.priced /\ f.type \in OfPayment \cup OfReturn
                    => BookedFor(f)' /\ f \in published'
             /\ f.type = "PAYMENT_SUCCEEDED" /\ f.names => sub'.status \notin PreActivation
  <2>1. CASE webhook[f] = "PROCESSED"
    BY <1>2, <2>1, ProcessedKept
  <2>2. CASE f = e
    BY <1>2, <1>4, <2>2, GrowthKeeps DEF Grows
  <2> QED
    BY <1>4, <2>1, <2>2
<1>5. ProcessedIsBooked'
  BY <1>4 DEF ProcessedIsBooked, BookedFor, OfPayment, OfReturn
<1>6. PaidIsActivated'
  BY <1>4 DEF PaidIsActivated
<1>7. \A t \in Txs : TxnFits(t)'
  BY <1>2, StatusKept
<1>8. \A x \in ledger' : EntryFits(x)'
  BY <1>2, EntryKept
<1> QED
  BY <1>2, <1>3, <1>5, <1>6, <1>7, <1>8 DEF TableInv

\* A transaction is created, where there was none.
LEMMA TxnCreated ==
    ASSUME TableInv, UNCHANGED <<webhook, sub, refunds, disputes, ledger, published>>,
           NEW t \in Txs, ~ Exists(t), NEW linked \in BOOLEAN,
           txn' = [txn EXCEPT ![t] = [status |-> "PENDING", linked |-> linked]]
    PROVE  TableInv' /\ Grows
<1>1. PICK new : new = [status |-> "PENDING", linked |-> linked]
  OBVIOUS
<1>2. new \in TxnRow /\ new.status = "PENDING" /\ txn' = [txn EXCEPT ![t] = new]
      /\ txn \in [Txs -> TxnRow]
  BY <1>1 DEF TxnRow, TxnStatuses, TableInv, TableTypes
<1>3. Grows
  BY <1>2 DEF Grows, Settled, Exists
<1>4. TableTypes'
  BY <1>2 DEF TableInv, TableTypes
<1>5. ProcessedIsBooked' /\ PaidIsActivated'
  BY <1>3, WebhooksKept
<1>6. \A u \in Txs : TxnFits(u)'
  BY <1>2, <1>3, StatusKept
<1>7. \A x \in ledger' : EntryFits(x)'
  BY <1>3, EntryKept
<1> QED
  BY <1>3, <1>4, <1>5, <1>6, <1>7 DEF TableInv

\* The subscription is written by a step that does not lead into a trial.
LEMMA SubWritten ==
    ASSUME TableInv, UNCHANGED <<webhook, txn, refunds, disputes, ledger, published>>,
           sub' \in SubRow, sub'.status \in Statuses,
           sub'.status \in PreActivation => sub'.status = sub.status
    PROVE  TableInv' /\ Grows
<1>1. Grows
  BY DEF Grows, Settled
<1>2. TableTypes'
  BY DEF TableInv, TableTypes
<1>3. ProcessedIsBooked' /\ PaidIsActivated'
  BY <1>1, WebhooksKept
<1>4. \A t \in Txs : TxnFits(t)'
  BY <1>1, StatusKept
<1>5. \A x \in ledger' : EntryFits(x)'
  BY <1>1, EntryKept
<1> QED
  BY <1>1, <1>2, <1>3, <1>4, <1>5 DEF TableInv

\* An event is announced.
LEMMA PublishedMore ==
    ASSUME TableInv, UNCHANGED <<webhook, txn, sub, refunds, disputes, ledger>>,
           NEW e \in CallType, published' = published \cup {e}
    PROVE  TableInv' /\ Grows
<1>1. Grows
  BY DEF Grows, Settled
<1>2. TableTypes'
  BY DEF TableInv, TableTypes
<1>3. ProcessedIsBooked' /\ PaidIsActivated'
  BY <1>1, WebhooksKept
<1>4. \A t \in Txs : TxnFits(t)'
  BY <1>1, StatusKept
<1>5. \A x \in ledger' : EntryFits(x)'
  BY <1>1, EntryKept
<1> QED
  BY <1>1, <1>2, <1>3, <1>4, <1>5 DEF TableInv

\* An entry that fits is booked.
LEMMA LedgerWritten ==
    ASSUME TableInv, UNCHANGED <<webhook, txn, sub, refunds, disputes, published>>,
           NEW key, NEW e \in CallType, ledger' = Recorded(key, e),
           EntryFits([key |-> key, by |-> e])
    PROVE  TableInv' /\ Grows /\ Booked(key)'
<1>0. PICK x : x = [key |-> key, by |-> e]
  OBVIOUS
<1>1. (ledger' = ledger /\ Booked(key)) \/ ledger' = ledger \cup {x}
  BY <1>0 DEF Recorded
<1>2. Grows
  BY <1>1 DEF Grows, Settled
<1>3. x.key = key /\ x.by = e /\ DOMAIN x = {"key", "by"}
  BY <1>0
<1>4. TableTypes'
  BY <1>1, <1>3 DEF TableInv, TableTypes
<1>5. ProcessedIsBooked' /\ PaidIsActivated'
  BY <1>2, WebhooksKept
<1>6. \A t \in Txs : TxnFits(t)'
  BY <1>2, StatusKept
<1>7. EntryFits(x)'
  BY <1>0 DEF EntryFits, Settled
<1>8. \A y \in ledger' : EntryFits(y)'
  BY <1>1, <1>2, <1>7, EntryKept
<1>9. Booked(key)'
  BY <1>1, <1>3 DEF Booked
<1> QED
  BY <1>2, <1>4, <1>5, <1>6, <1>8, <1>9 DEF TableInv

\* A transaction is marked as event e has it, which a row explains if it is a return.
LEMMA TxnMarked ==
    ASSUME TableInv, UNCHANGED <<webhook, sub, refunds, disputes, ledger, published>>,
           NEW e \in CallType, e.tx \in Txs,
           txn' = [txn EXCEPT ![e.tx].status = MarkedAs(e)],
           e.type \in {"REFUND_COMPLETED", "ADMIN_REFUND"} => \E i : RefundIs(i, e),
           e.type = "CHARGEBACK_CREATED" => \E i : DisputeIs(i, e)
    PROVE  TableInv' /\ Grows /\ Settled(e.tx)'
<1>1. PICK t \in Txs : t = e.tx
  OBVIOUS
<1>2. PICK status : /\ status = MarkedAs(e)
                    /\ status \in TxnStatuses \ {"none", "PENDING"}
  BY DEF MarkedAs, TxnStatuses
<1>3. txn \in [Txs -> TxnRow] /\ txn' = [txn EXCEPT ![t].status = status]
  BY <1>1, <1>2 DEF TableInv, TableTypes
<1>4. txn' \in [Txs -> TxnRow] /\ txn'[t].status = status
      /\ \A u \in Txs \ {t} : txn'[u] = txn[u]
  BY <1>2, <1>3 DEF TxnRow
<1>5. Grows /\ Settled(t)'
  BY <1>2, <1>4 DEF Grows, Settled
<1>6. TableTypes'
  BY <1>4 DEF TableInv, TableTypes
<1>7. ProcessedIsBooked' /\ PaidIsActivated'
  BY <1>5, WebhooksKept
<1>8. \A u \in Txs : TxnFits(u)'
  <2>1. /\ status = "REFUNDED" => HasRefund(t, TRUE)
        /\ status = "PARTIALLY_REFUNDED" => HasRefund(t, FALSE)
    <3>1. CASE e.type \in {"REFUND_COMPLETED", "ADMIN_REFUND"}
      <4>1. PICK i : RefundIs(i, e)
        BY <3>1
      <4>2. e.full \in BOOLEAN /\ status = IF e.full THEN "REFUNDED" ELSE "PARTIALLY_REFUNDED"
        BY <1>2, <3>1 DEF MarkedAs, CallType
      <4> QED
        BY <1>1, <4>1, <4>2 DEF RefundIs, HasRefund
    <3>2. CASE e.type \notin {"REFUND_COMPLETED", "ADMIN_REFUND"}
      BY <1>2, <3>2 DEF MarkedAs
    <3> QED
      BY <3>1, <3>2
  <2>2. status = "CHARGEBACK" => HasDispute(t)
    <3>1. status = "CHARGEBACK" => e.type = "CHARGEBACK_CREATED"
      BY <1>2 DEF MarkedAs
    <3> QED
      BY <1>1, <3>1 DEF DisputeIs, HasDispute
  <2>3. TxnFits(t)'
    BY <1>4, <2>1, <2>2 DEF TxnFits, HasRefund, HasDispute
  <2>4. ASSUME NEW u \in Txs \ {t} PROVE TxnFits(u)'
    <3>1. TxnFits(u) /\ txn'[u] = txn[u]
      BY <1>4 DEF TableInv
    <3> QED
      BY <3>1 DEF TxnFits, HasRefund, HasDispute
  <2> QED
    BY <2>3, <2>4
<1>9. \A x \in ledger' : EntryFits(x)'
  BY <1>5, EntryKept
<1> QED
  BY <1>1, <1>5, <1>6, <1>7, <1>8, <1>9 DEF TableInv

\* A refund or a dispute is added, or a dispute gets its outcome: rows stay for what they are.
LEMMA RowsWritten ==
    ASSUME TableInv, UNCHANGED <<webhook, txn, sub, ledger, published>>,
           refunds' \in Seq(RefundRow), disputes' \in Seq(DisputeRow),
           \A i \in 1..Len(refunds) : i \in 1..Len(refunds') /\ refunds'[i] = refunds[i],
           \A i \in 1..Len(disputes) :
               /\ i \in 1..Len(disputes')
               /\ disputes'[i].tx = disputes[i].tx /\ disputes'[i].by = disputes[i].by
    PROVE  TableInv' /\ Grows
<1>1. Grows
  BY DEF Grows, Settled
<1>2. TableTypes'
  BY DEF TableInv, TableTypes
<1>3. ProcessedIsBooked' /\ PaidIsActivated'
  BY <1>1, WebhooksKept
<1>4. \A t \in Txs : TxnFits(t)'
  BY <1>1, StatusKept
<1>5. \A x \in ledger' : EntryFits(x)'
  BY <1>1, EntryKept
<1> QED
  BY <1>1, <1>2, <1>3, <1>4, <1>5 DEF TableInv

-----------------------------------------------------------------------------
(* The webhook pipeline and the dispatcher, step by step. *)

\* The parts of the invariant make it up.
LEMMA InvAssembled ==
    ASSUME TableInv', WorkerInv', seen' \subseteq CallType
    PROVE  PipeInv'
  BY DEF PipeInv

\* A request is taken, or comes again.
LEMMA TakeKeeps ==
    ASSUME PipeInv, NEW w \in Workers, NEW e \in CallType, NEW step \in {"storing", "reading"},
           Take(w, e, step), UNCHANGED <<tables, todo, snap, row>>
    PROVE  PipeInv'
<1>1. TableInv' /\ Grows
  BY TablesStay DEF PipeInv
<1>2. step \in PcNames /\ step \notin {"finding", "creating", "applying"}
  BY DEF PcNames
<1>3. WorkerInv'
  BY <1>1, <1>2, WorkerAway DEF PipeInv, Take, Goto
<1> QED
  BY <1>1, <1>3, InvAssembled DEF PipeInv, Take, Asked

\* A provider delivers an event, or an administrator reconciles a transaction.
LEMMA RequestKeeps ==
    ASSUME PipeInv, NEW w \in Workers,
           (\E e \in Events : Receive(w, e)) \/ \E t \in Txs : MarkSucceeded(w, t)
    PROVE  PipeInv'
<1>1. ASSUME NEW e \in Events, Receive(w, e) PROVE PipeInv'
  <2>1. PICK step \in {"storing", "reading"} : Take(w, e, step)
    BY <1>1 DEF Receive
  <2>2. e \in CallType
    BY CallTypes
  <2> QED
    BY <1>1, <2>1, <2>2, TakeKeeps DEF Receive
<1>2. ASSUME NEW t \in Txs, MarkSucceeded(w, t) PROVE PipeInv'
  <2>1. ManualSuccess(t) \in CallType
    BY CallTypes
  <2> QED
    BY <1>2, <2>1, TakeKeeps DEF MarkSucceeded
<1> QED
  BY <1>1, <1>2

\* The webhook is stored.
LEMMA StoreKeeps ==
    ASSUME PipeInv, NEW w \in Workers, Store(w)
    PROVE  PipeInv'
<1>1. webhook' \in [Events -> {"none", "VERIFIED", "PROCESSED", "FAILED"}]
      /\ \A f \in Events : webhook'[f] = "PROCESSED" => webhook[f] = "PROCESSED"
  BY DEF Store, PipeInv, TableInv, TableTypes
<1>2. PICK e : e = call[w] /\ (e \in Events => webhook'[e] # "PROCESSED")
  BY DEF Store, PipeInv, TableInv, TableTypes
<1>3. TableInv' /\ Grows
  BY <1>1, <1>2, WebhookWritten DEF PipeInv, Store
<1>4. "reading" \in PcNames /\ call[w] \in CallType /\ call' = [call EXCEPT ![w] = call[w]]
  BY DEF PcNames, PipeInv, WorkerInv, WorkerTypes, Store
<1>5. WorkerInv'
  BY <1>3, <1>4, WorkerAway DEF PipeInv, Store, Goto
<1> QED
  BY <1>3, <1>5, InvAssembled DEF PipeInv, Store

\* The webhook is PROCESSED: none of the steps that book and announce its event is left.
LEMMA ProcessKeeps ==
    ASSUME PipeInv, NEW w \in Workers, Process(w)
    PROVE  PipeInv'
<1>1. webhook' \in [Events -> {"none", "VERIFIED", "PROCESSED", "FAILED"}]
      /\ \A f \in Events : webhook'[f] = "PROCESSED" => webhook[f] = "PROCESSED" \/ f = call[w]
  BY DEF Process, PipeInv, TableInv, TableTypes
<1>2. PICK e \in CallType : e = call[w]
  BY DEF PipeInv, WorkerInv, WorkerTypes
<1>3. WorkFits(e, <<>>, row[w])
  BY <1>2 DEF PipeInv, WorkerInv, WorkerFits, Process
<1>4. /\ e.tx # None /\ e.priced /\ e.type \in OfPayment \cup OfReturn
            => BookedFor(e) /\ e \in published
      /\ e.type = "PAYMENT_SUCCEEDED" /\ e.names => sub.status \notin PreActivation
  BY <1>3, Parts DEF WorkFits
<1>5. TableInv' /\ Grows
  BY <1>1, <1>2, <1>4, WebhookWritten DEF PipeInv, Process
<1>6. WorkerInv'
  BY <1>5, WorkerLeaves DEF PipeInv, Process
<1> QED
  BY <1>5, <1>6, InvAssembled DEF PipeInv, Process

\* The webhook is FAILED, or the request ends without a trace.
LEMMA FailureKeeps ==
    ASSUME PipeInv, NEW w \in Workers, FailWebhook(w) \/ Error(w) \/ Die(w)
    PROVE  PipeInv'
<1>1. CASE FailWebhook(w)
  <2>1. webhook' \in [Events -> {"none", "VERIFIED", "PROCESSED", "FAILED"}]
        /\ \A f \in Events : webhook'[f] = "PROCESSED" => webhook[f] = "PROCESSED"
    BY <1>1 DEF FailWebhook, PipeInv, TableInv, TableTypes
  <2>2. PICK e : e = call[w] /\ (e \in Events => webhook'[e] # "PROCESSED")
    BY <1>1 DEF FailWebhook, PipeInv, TableInv, TableTypes
  <2>3. TableInv' /\ Grows
    BY <1>1, <2>1, <2>2, WebhookWritten DEF PipeInv, FailWebhook
  <2>4. WorkerInv'
    BY <1>1, <2>3, WorkerLeaves DEF PipeInv, FailWebhook
  <2> QED
    BY <1>1, <2>3, <2>4, InvAssembled DEF PipeInv, FailWebhook
<1>2. CASE Error(w) \/ Die(w)
  <2>1. TableInv' /\ Grows
    BY <1>2, TablesStay DEF PipeInv, Error, Die
  <2>2. WorkerInv'
    BY <1>2, <2>1, WorkerLeaves DEF PipeInv, Error, Die
  <2> QED
    BY <1>2, <2>1, <2>2, InvAssembled DEF PipeInv, Error, Die
<1> QED
  BY <1>1, <1>2

\* The subscription the event names is read.
LEMMA ReadSubKeeps ==
    ASSUME PipeInv, NEW w \in Workers, ReadSub(w)
    PROVE  PipeInv'
<1>1. TableInv' /\ Grows /\ sub' = sub
  BY TablesStay DEF PipeInv, ReadSub, tables
<1>2. WorkerTypes /\ sub \in SubRow /\ sub.status \in Statuses
  BY DEF PipeInv, WorkerInv, TableInv, TableTypes
<1>3. WorkerTypes'
  BY <1>2 DEF WorkerTypes, ReadSub, Goto, PcNames
<1>4. \A v \in Workers \ {w} : WorkerStays(v)
  BY <1>2 DEF WorkerTypes, WorkerStays, ReadSub, Goto
<1>5. pc'[w] = "finding" /\ call'[w] = call[w]
      /\ snap'[w] = IF call[w].names THEN sub ELSE snap[w]
  BY <1>2 DEF WorkerTypes, ReadSub, Goto
<1>6. WorkerFits(w)'
  BY <1>1, <1>2, <1>5 DEF WorkerFits, PipeInv, WorkerInv, Statuses
<1> QED
  BY <1>1, <1>3, <1>4, <1>6, WorkerMoves, InvAssembled DEF PipeInv, ReadSub

\* The program of an event fits it before any of its steps.
LEMMA ProgramStarts ==
    ASSUME NEW e \in CallType, NEW onTx \in BOOLEAN, NEW s, NEW i,
           NEW p, p = Program(e, onTx, s),
           onTx => e.tx # None, e.tx # None /\ e.priced => onTx,
           e.type = "PAYMENT_SUCCEEDED" /\ e.names =>
               s # "ABSENT" /\ (s \in PreActivation \/ sub.status \notin PreActivation)
    PROVE  WorkFits(e, p, i)
<1>1. e.type \in EventTypes \cup {"ADMIN_REFUND"}
  BY DEF CallType
<1> DEFINE moves == MoveTo(e.type, s) # "none"
<1>3. /\ p \in Seq(StepNames) /\ InOrder(p)
      /\ e.type \in OfPayment => \A x : Holds(p, x) <=>
             (x = "move" /\ moves) \/ (x \in {"mark", "book", "publish"} /\ onTx)
      /\ e.type \in OfReturn => \A x : Holds(p, x) <=>
             x \in {"row", "mark", "book", "publish"} /\ onTx
      /\ e.type = "DISPUTE_UPDATED" => \A x : Holds(p, x) <=>
             x \in {"latest", "row", "mark", "book"} /\ onTx /\ e.outcome # None
      /\ e.type = "SUBSCRIPTION_RENEWED" => \A x : Holds(p, x) => x \in {"move", "book"}
      /\ e.type \notin OfPayment \cup OfReturn \cup {"DISPUTE_UPDATED", "SUBSCRIPTION_RENEWED"}
             => \A x : Holds(p, x) => x = "move"
  BY <1>1, ProgramFits
<1>4. p # <<>> => \E x : Holds(p, x)
  <2>1. p # <<>> => Head(p) \in StepNames /\ Holds(p, Head(p))
    BY <1>3, FirstTaken
  <2> QED
    BY <2>1
<1>5. e.type = "PAYMENT_SUCCEEDED" /\ e.names => moves \/ sub.status \notin PreActivation
  BY DEF MoveTo
<1> HIDE DEF moves
<1>6. CASE e.type \in OfPayment
  <2>1. /\ Holds(p, "move") <=> moves
        /\ Holds(p, "mark") <=> onTx
        /\ Holds(p, "book") <=> onTx
        /\ Holds(p, "publish") <=> onTx
        /\ ~ Holds(p, "row") /\ ~ Holds(p, "latest")
    BY <1>3, <1>6
  <2> QED
    BY <1>3, <1>5, <1>6, <2>1 DEF WorkFits, OfPayment, OfReturn
<1>7. CASE e.type \in OfReturn
  <2>1. /\ \A x \in {"row", "mark", "book", "publish"} : Holds(p, x) <=> onTx
        /\ ~ Holds(p, "move") /\ ~ Holds(p, "latest")
        /\ p # <<>> => Holds(p, "row")
    BY <1>3, <1>4, <1>7
  <2> QED
    BY <1>3, <1>7, <2>1 DEF WorkFits, OfPayment, OfReturn
<1>8. CASE e.type = "DISPUTE_UPDATED"
  <2>1. /\ \A x \in {"latest", "row", "mark", "book"} :
               Holds(p, x) <=> onTx /\ e.outcome # None
        /\ ~ Holds(p, "move") /\ ~ Holds(p, "publish")
        /\ p # <<>> => Holds(p, "latest")
    BY <1>3, <1>4, <1>8
  <2> QED
    BY <1>3, <1>8, <2>1 DEF WorkFits, OfPayment, OfReturn
<1>9. CASE e.type \in {"SUBSCRIPTION_RENEWED", "SUBSCRIPTION_CANCELED", "SUBSCRIPTION_EXPIRED",
                       "SUBSCRIPTION_PAST_DUE", "UNKNOWN", "ADMIN_REFUND"}
  <2>1. /\ \A x \in {"latest", "row", "mark"} : ~ Holds(p, x)
        /\ Holds(p, "book") => e.type = "SUBSCRIPTION_RENEWED"
    BY <1>3, <1>9 DEF OfPayment, OfReturn
  <2>2. e.type = "ADMIN_REFUND" => p = <<>>
    <3>1. e.type = "ADMIN_REFUND" => ~ moves
      BY DEF MoveTo, moves
    <3> QED
      BY <3>1 DEF Program, moves
  <2> QED
    BY <1>3, <1>9, <2>1, <2>2 DEF WorkFits, OfPayment, OfReturn
<1> QED
  BY <1>1, <1>6, <1>7, <1>8, <1>9 DEF EventTypes, OfPayment, OfReturn

\* Worker w starts the steps of its event.
LEMMA StartFits ==
    ASSUME WorkerInv, Grows, NEW w \in Workers, NEW onTx \in BOOLEAN, NEW s \in SubRow,
           Start(w, onTx, s), UNCHANGED <<call, row, sub>>,
           onTx => call[w].tx # None, call[w].tx # None /\ call[w].priced => onTx,
           call[w].names => s.status # "ABSENT",
           s.status \notin PreActivation \cup {"ABSENT"} => sub.status \notin PreActivation
    PROVE  WorkerInv'
<1>1. WorkerTypes
  BY DEF WorkerInv
<1>2. PICK e \in CallType : e = call[w]
  BY <1>1 DEF WorkerTypes
<1>3. PICK p : p = Program(e, onTx, s.status)
  OBVIOUS
<1>4. PICK i : i = row[w]
  OBVIOUS
<1>5. WorkFits(e, p, i)
  <2>1. e.names => s.status \in PreActivation \/ sub.status \notin PreActivation
    BY <1>2
  <2> QED
    BY <1>2, <1>3, <2>1, ProgramStarts
<1>6. WorkFits(e, p, i)'
  BY <1>5, WorkKept
<1>7. p \in Seq(StepNames)
  BY <1>3, ProgramFits DEF CallType
<1>8. /\ pc' = [pc EXCEPT ![w] = "applying"] /\ todo' = [todo EXCEPT ![w] = p]
      /\ snap' = [snap EXCEPT ![w] = s] /\ "applying" \in PcNames
  BY <1>2, <1>3 DEF Start, Goto, PcNames
<1>9. WorkerTypes'
  BY <1>1, <1>7, <1>8 DEF WorkerTypes
<1>10. \A v \in Workers \ {w} : WorkerStays(v)
  BY <1>1, <1>8 DEF WorkerTypes, WorkerStays
<1>11. pc'[w] = "applying" /\ todo'[w] = p /\ snap'[w] = s /\ call'[w] = e /\ row'[w] = i
  BY <1>1, <1>2, <1>4, <1>8 DEF WorkerTypes
<1>12. WorkFits(call[w], todo[w], row[w])'
  BY <1>6, <1>11 DEF WorkFits, RefundIs, DisputeIs, BookedFor
<1>13. WorkerFits(w)'
  BY <1>2, <1>11, <1>12 DEF WorkerFits
<1> QED
  BY <1>9, <1>10, <1>13, WorkerMoves

\* The transaction of the event is looked up.
LEMMA FindTxKeeps ==
    ASSUME PipeInv, NEW w \in Workers, FindTx(w)
    PROVE  PipeInv'
<1> DEFINE e == call[w]
           found == e.tx # None /\ Exists(e.tx)
           linked == found /\ snap[w] = NoSub /\ txn[e.tx].linked
<1>1. TableInv' /\ Grows /\ sub' = sub
  BY TablesStay DEF PipeInv, FindTx, tables
<1>2. WorkerTypes /\ WorkerInv /\ WorkerFits(w) /\ sub \in SubRow
  BY DEF PipeInv, WorkerInv, TableInv, TableTypes
<1>3. pc[w] = "finding" /\ UNCHANGED <<call, row>>
  BY DEF FindTx
<1>4. /\ e.names => snap[w].status # "ABSENT"
      /\ snap[w].status \notin PreActivation \cup {"ABSENT"} => sub.status \notin PreActivation
      /\ snap[w] \in SubRow
  BY <1>2, <1>3 DEF WorkerFits, WorkerTypes
<1>5. CASE found \/ e.tx = None \/ ~ e.priced
  <2>1. PICK s : s = IF linked THEN sub ELSE snap[w]
    OBVIOUS
  <2>2. PICK onTx \in BOOLEAN : onTx = found
    OBVIOUS
  <2>3. Start(w, onTx, s)
    BY <1>5, <2>1, <2>2 DEF FindTx
  <2>4. s \in SubRow /\ (e.names => s.status # "ABSENT")
        /\ (s.status \notin PreActivation \cup {"ABSENT"} => sub.status \notin PreActivation)
    BY <1>2, <1>4, <2>1 DEF NoSub
  <2>5. (onTx => e.tx # None) /\ (e.tx # None /\ e.priced => onTx)
    BY <1>5, <2>2
  <2>6. WorkerInv'
    BY <1>1, <1>2, <1>3, <2>3, <2>4, <2>5, StartFits
  <2> QED
    BY <1>1, <2>6, InvAssembled DEF PipeInv, FindTx
<1>6. CASE ~ (found \/ e.tx = None \/ ~ e.priced)
  <2>1. pc' = [pc EXCEPT ![w] = "creating"] /\ UNCHANGED <<todo, snap>> /\ "creating" \in PcNames
    BY <1>6 DEF FindTx, Goto, PcNames
  <2>2. WorkerTypes'
    BY <1>2, <1>3, <2>1 DEF WorkerTypes
  <2>3. \A v \in Workers \ {w} : WorkerStays(v)
    BY <1>2, <1>3, <2>1 DEF WorkerTypes, WorkerStays
  <2>4. pc'[w] = "creating" /\ snap'[w] = snap[w] /\ call'[w] = call[w]
    BY <1>2, <1>3, <2>1 DEF WorkerTypes
  <2>5. WorkerFits(w)'
    BY <1>1, <1>4, <1>6, <2>4 DEF WorkerFits
  <2>6. WorkerInv'
    BY <1>1, <1>2, <2>2, <2>3, <2>5, WorkerMoves
  <2> QED
    BY <1>1, <2>6, InvAssembled DEF PipeInv, FindTx
<1> QED
  BY <1>5, <1>6

\* The transaction of the event is created.
LEMMA CreateTxKeeps ==
    ASSUME PipeInv, NEW w \in Workers, CreateTx(w)
    PROVE  PipeInv'
<1>1. WorkerTypes /\ WorkerInv /\ WorkerFits(w)
  BY DEF PipeInv, WorkerInv
<1>2. pc[w] = "creating" /\ call[w] \in CallType /\ snap[w] \in SubRow
      /\ call[w].tx # None /\ call[w].tx \in Txs
  BY <1>1 DEF CreateTx, WorkerFits, WorkerTypes, CallType
<1>3. PICK t \in Txs, linked \in BOOLEAN :
          t = call[w].tx /\ linked = (snap[w] # NoSub)
  BY <1>2
<1>4. TableInv' /\ Grows
  BY <1>3, TxnCreated DEF CreateTx, PipeInv
<1>5. WorkerInv'
  BY <1>1, <1>2, <1>4, StartFits DEF CreateTx, WorkerFits
<1> QED
  BY <1>4, <1>5, InvAssembled DEF PipeInv, CreateTx

\* What worker w has just done for event e, whose first step it was, with i as its row.
Done(e, step, i) ==
    /\ step = "mark" => Settled(e.tx)'
    /\ step = "book" => BookedFor(e)'
    /\ step = "publish" => e \in published'
    /\ step = "move" /\ e.type = "PAYMENT_SUCCEEDED" => sub'.status \notin PreActivation
    /\ step = "row" /\ e.type \in {"REFUND_COMPLETED", "ADMIN_REFUND"} => RefundIs(i, e)'
    /\ step = "row" /\ e.type = "CHARGEBACK_CREATED" => DisputeIs(i, e)'
    /\ step = "latest" => DisputeIs(i, e)'

\* What is left of an event's program fits it once its first step has had its effect.
LEMMA WorkGoesOn ==
    ASSUME Grows, NEW e \in CallType, NEW s \in Seq(StepNames), s # <<>>, NEW i, NEW j,
           WorkFits(e, s, i), Done(e, Head(s), j),
           Head(s) \notin {"row", "latest"} \/ (Head(s) = "row" /\ e.type = "DISPUTE_UPDATED")
               => j = i
    PROVE  WorkFits(e, Tail(s), j)' /\ Tail(s) \in Seq(StepNames)
<1>1. InOrder(s)
  BY DEF WorkFits
<1>2. PICK h \in StepNames, r \in Seq(StepNames) :
          /\ h = Head(s) /\ r = Tail(s) /\ InOrder(r)
          /\ \A step : Holds(s, step) <=> step = h \/ Holds(r, step)
          /\ \A step : Holds(r, step) => Rank(h) < Rank(step)
  BY <1>1, FirstTaken
<1>3. /\ Rank("latest") = 1 /\ Rank("row") = 2 /\ Rank("mark") = 3 /\ Rank("move") = 4
      /\ Rank("book") = 5 /\ Rank("publish") = 6
  BY DEF Rank
<1>4. WorkFits(e, s, i)'
  BY WorkKept
<1>5. Done(e, h, j)
  BY <1>2
<1>6. \A x \in {"latest", "row", "mark"} : Holds(r, x) => e.tx # None
  BY <1>2, <1>4 DEF WorkFits
<1>7. Holds(r, "latest") => e.type = "DISPUTE_UPDATED"
  BY <1>2, <1>4 DEF WorkFits
<1>8. Holds(r, "row") /\ e.type = "DISPUTE_UPDATED" => e.outcome # None
  BY <1>2, <1>4 DEF WorkFits
<1>9. Holds(r, "book") /\ e.type # "SUBSCRIPTION_RENEWED" =>
          /\ e.type \in OfPayment \cup OfReturn \cup {"DISPUTE_UPDATED"}
          /\ e.tx # None /\ (Holds(r, "mark") \/ Settled(e.tx)')
  BY <1>2, <1>4, <1>5 DEF WorkFits, Done, Settled
<1>10. e.type \in {"REFUND_COMPLETED", "ADMIN_REFUND"} /\ ~ Holds(r, "row") => RefundIs(j, e)'
  <2>1. CASE h = "row"
    BY <1>5, <2>1 DEF Done
  <2>2. CASE h = "latest"
    BY <1>2, <1>4, <2>2 DEF WorkFits
  <2>3. CASE h \notin {"row", "latest"}
    BY <1>2, <1>4, <2>3 DEF WorkFits, RefundIs
  <2> QED
    BY <2>1, <2>2, <2>3
<1>11. e.type = "CHARGEBACK_CREATED" /\ ~ Holds(r, "row") => DisputeIs(j, e)'
  <2>1. CASE h = "row"
    BY <1>5, <2>1 DEF Done
  <2>2. CASE h = "latest"
    BY <1>2, <1>4, <2>2 DEF WorkFits
  <2>3. CASE h \notin {"row", "latest"}
    BY <1>2, <1>4, <2>3 DEF WorkFits, DisputeIs
  <2> QED
    BY <2>1, <2>2, <2>3
<1>12. e.type = "DISPUTE_UPDATED" /\ ~ Holds(r, "latest") => DisputeIs(j, e)'
  <2>1. CASE h = "latest"
    BY <1>5, <2>1 DEF Done
  <2>2. CASE h # "latest"
    BY <1>2, <1>4, <2>2 DEF WorkFits, DisputeIs
  <2> QED
    BY <2>1, <2>2
<1>13. e.type \in OfPayment \cup OfReturn /\ e.tx # None /\ e.priced =>
           /\ Holds(r, "book") \/ BookedFor(e)'
           /\ Holds(r, "publish") \/ e \in published'
  BY <1>2, <1>4, <1>5 DEF WorkFits, Done, BookedFor
<1>14. e.type = "PAYMENT_SUCCEEDED" /\ e.names =>
           Holds(r, "move") \/ sub'.status \notin PreActivation
  BY <1>2, <1>4, <1>5 DEF WorkFits, Done
<1>15. WorkFits(e, r, j)'
  BY <1>2, <1>6, <1>7, <1>8, <1>9, <1>10, <1>11, <1>12, <1>13, <1>14
     DEF WorkFits, Settled, RefundIs, DisputeIs, BookedFor
<1> QED
  BY <1>2, <1>15 DEF WorkFits, Settled, RefundIs, DisputeIs, BookedFor

\* The event, the steps and the row that a worker comes to have.
LEMMA WorkIs ==
    ASSUME NEW w, NEW e, NEW s, NEW i, call'[w] = e, todo'[w] = s, row'[w] = i,
           WorkFits(e, s, i)'
    PROVE  WorkFits(call[w], todo[w], row[w])'
  BY DEF WorkFits, RefundIs, DisputeIs, BookedFor

\* Worker w has taken a step of its event and goes on.
LEMMA WorkerGoesOn ==
    ASSUME WorkerInv, Grows, NEW w \in Workers, NEW e \in CallType, e = call[w],
           NEW step, Does(w, step), NEW j \in Nat, Done(e, step, j),
           step \notin {"row", "latest"} \/ (step = "row" /\ e.type = "DISPUTE_UPDATED")
               => j = row[w],
           todo' = [todo EXCEPT ![w] = Tail(todo[w])], row' = [row EXCEPT ![w] = j],
           UNCHANGED <<pc, call, snap>>
    PROVE  WorkerInv'
<1>1. WorkerTypes /\ WorkerFits(w)
  BY DEF WorkerInv
<1>2. PICK s, i : s \in Seq(StepNames) /\ s = todo[w] /\ i = row[w]
  BY <1>1 DEF WorkerTypes
<1>3. pc[w] = "applying" /\ s # <<>> /\ Head(s) = step /\ WorkFits(e, s, i)
  BY <1>1, <1>2 DEF Does, WorkerFits
<1>4. PICK r \in Seq(StepNames) : r = Tail(s) /\ WorkFits(e, r, j)'
  <2>1. WorkFits(e, Tail(s), j)' /\ Tail(s) \in Seq(StepNames)
    BY <1>2, <1>3, WorkGoesOn
  <2> QED
    BY <2>1
<1>5. WorkerTypes'
  BY <1>1, <1>2, <1>4 DEF WorkerTypes
<1>6. \A v \in Workers \ {w} : WorkerStays(v)
  BY <1>1 DEF WorkerTypes, WorkerStays
<1>7. /\ pc'[w] = pc[w] /\ snap'[w] = snap[w] /\ call'[w] = e
      /\ todo'[w] = r /\ row'[w] = j
  BY <1>1, <1>2, <1>4 DEF WorkerTypes
<1>8. WorkFits(call[w], todo[w], row[w])'
  BY <1>4, <1>7, WorkIs
<1>9. WorkerFits(w)'
  BY <1>1, <1>7, <1>8 DEF WorkerFits, Grows
<1> QED
  BY <1>5, <1>6, <1>9, WorkerMoves

\* Worker w has nothing more to do for its event, a refund or a dispute that is not final.
LEMMA WorkerEnds ==
    ASSUME WorkerInv, Grows, NEW w \in Workers, NEW e \in CallType, e = call[w],
           e.type \in {"ADMIN_REFUND", "DISPUTE_UPDATED"}, NEW j \in Nat,
           todo' = [todo EXCEPT ![w] = <<>>], row' = [row EXCEPT ![w] = j],
           UNCHANGED <<pc, call, snap>>
    PROVE  WorkerInv'
<1>1. WorkerTypes /\ WorkerFits(w)
  BY DEF WorkerInv
<1>2. PICK s \in Seq(StepNames) : s = <<>>
  BY Parts
<1>3. InOrder(s) /\ \A x : ~ Holds(s, x)
  BY <1>2, Parts
<1>4. WorkFits(e, s, j)'
  BY <1>2, <1>3 DEF WorkFits, OfPayment, OfReturn
<1>5. WorkerTypes'
  BY <1>1, <1>2 DEF WorkerTypes
<1>6. \A v \in Workers \ {w} : WorkerStays(v)
  BY <1>1 DEF WorkerTypes, WorkerStays
<1>7. /\ pc'[w] = pc[w] /\ snap'[w] = snap[w] /\ call'[w] = e
      /\ todo'[w] = s /\ row'[w] = j
  BY <1>1, <1>2 DEF WorkerTypes
<1>8. WorkFits(call[w], todo[w], row[w])'
  BY <1>4, <1>7 DEF WorkFits, RefundIs, DisputeIs, BookedFor
<1>9. WorkerFits(w)'
  BY <1>1, <1>7, <1>8 DEF WorkerFits, Grows
<1> QED
  BY <1>5, <1>6, <1>9, WorkerMoves

\* What worker w's event is when it takes a step of its own.
LEMMA AtStep ==
    ASSUME PipeInv, NEW w \in Workers, NEW step, Does(w, step)
    PROVE  /\ WorkerTypes /\ WorkerInv /\ TableInv /\ TableTypes /\ WorkerFits(w)
           /\ call[w] \in CallType /\ row[w] \in Nat /\ step \in StepNames
           /\ WorkFits(call[w], todo[w], row[w])
           /\ Holds(todo[w], step) /\ todo[w] # <<>>
           /\ \A x \in StepNames : Rank(x) < Rank(step) => ~ Holds(todo[w], x)
<1>1. WorkerTypes /\ WorkerInv /\ TableInv /\ TableTypes /\ WorkerFits(w)
  BY DEF PipeInv, WorkerInv, TableInv
<1>2. PICK s \in Seq(StepNames) : s = todo[w]
  BY <1>1 DEF WorkerTypes
<1>3. s # <<>> /\ Head(s) = step /\ WorkFits(call[w], s, row[w])
  BY <1>1, <1>2 DEF Does, WorkerFits
<1>4. InOrder(s)
  BY <1>3 DEF WorkFits
<1>5. /\ step \in StepNames /\ Holds(s, step)
      /\ \A x : Holds(s, x) => x = step \/ Rank(step) < Rank(x)
  BY <1>2, <1>3, <1>4, FirstTaken
<1>6. \A x \in StepNames : Rank(x) \in Nat
  BY DEF Rank
<1>7. \A x \in StepNames : Rank(x) < Rank(step) => ~ Holds(s, x)
  BY <1>5, <1>6
<1>8. call[w] \in CallType /\ row[w] \in Nat
  BY <1>1 DEF WorkerTypes
<1> QED
  BY <1>1, <1>2, <1>3, <1>5, <1>7, <1>8

\* The transaction is marked: the refund or dispute that explains it is there.
LEMMA MarkKeeps ==
    ASSUME PipeInv, NEW w \in Workers, Mark(w)
    PROVE  PipeInv'
<1>1. Does(w, "mark")
  BY DEF Mark
<1>2. PICK e \in CallType, i \in Nat : e = call[w] /\ i = row[w]
  BY <1>1, AtStep
<1>3. WorkFits(e, todo[w], i) /\ Holds(todo[w], "mark") /\ todo[w] # <<>>
      /\ ~ Holds(todo[w], "row") /\ ~ Holds(todo[w], "latest")
  BY <1>1, <1>2, AtStep DEF Rank, StepNames
<1>4. e.tx \in Txs
  BY <1>3 DEF WorkFits, CallType
<1>5. e.type \in {"REFUND_COMPLETED", "ADMIN_REFUND"} => RefundIs(i, e)
  BY <1>3 DEF WorkFits
<1>6. e.type = "CHARGEBACK_CREATED" => DisputeIs(i, e)
  BY <1>3 DEF WorkFits
<1>7. TableInv' /\ Grows /\ Settled(e.tx)'
  BY <1>2, <1>4, <1>5, <1>6, TxnMarked DEF Mark, PipeInv
<1>8. Done(e, "mark", i)
  BY <1>7 DEF Done
<1>9. /\ row' = [row EXCEPT ![w] = i] /\ todo' = [todo EXCEPT ![w] = Tail(todo[w])]
      /\ UNCHANGED <<pc, call, snap>>
  BY <1>1, <1>2, AtStep DEF Mark, Advance, WorkerTypes
<1>10. WorkerInv'
  BY <1>1, <1>2, <1>7, <1>8, <1>9, AtStep, WorkerGoesOn
<1> QED
  BY <1>7, <1>10, InvAssembled DEF PipeInv, Mark

\* The outcome is announced.
LEMMA PublishKeeps ==
    ASSUME PipeInv, NEW w \in Workers, Publish(w)
    PROVE  PipeInv'
<1>1. Does(w, "publish")
  BY DEF Publish
<1>2. PICK e \in CallType, i \in Nat : e = call[w] /\ i = row[w]
  BY <1>1, AtStep
<1>3. TableInv' /\ Grows
  BY <1>2, PublishedMore DEF Publish, PipeInv
<1>4. Done(e, "publish", i)
  BY <1>2 DEF Done, Publish
<1>5. /\ row' = [row EXCEPT ![w] = i] /\ todo' = [todo EXCEPT ![w] = Tail(todo[w])]
      /\ UNCHANGED <<pc, call, snap>>
  BY <1>1, <1>2, AtStep DEF Publish, Advance, WorkerTypes
<1>6. WorkerInv'
  BY <1>1, <1>2, <1>3, <1>4, <1>5, AtStep, WorkerGoesOn
<1> QED
  BY <1>3, <1>6, InvAssembled DEF PipeInv, Publish

\* The financial event is recorded: what it is about has happened.
LEMMA BookKeeps ==
    ASSUME PipeInv, NEW w \in Workers, Book(w)
    PROVE  PipeInv'
<1>1. Does(w, "book")
  BY DEF Book
<1>2. PICK e, i, key : /\ e \in CallType /\ e = call[w] /\ i \in Nat /\ i = row[w]
                       /\ key = LedgerKey(w)
  BY <1>1, AtStep
<1>3. /\ WorkFits(e, todo[w], i) /\ Holds(todo[w], "book") /\ todo[w] # <<>>
      /\ \A x \in {"latest", "row", "mark", "move"} : ~ Holds(todo[w], x)
  BY <1>1, <1>2, AtStep DEF Rank, StepNames
<1>4. e.type # "SUBSCRIPTION_RENEWED" =>
          /\ e.type \in OfPayment \cup OfReturn \cup {"DISPUTE_UPDATED"}
          /\ e.tx # None /\ Settled(e.tx)
  BY <1>3 DEF WorkFits
<1>5. /\ e.type = "REFUND_COMPLETED" => RefundIs(i, e)
      /\ e.type \in {"CHARGEBACK_CREATED", "DISPUTE_UPDATED"} => DisputeIs(i, e)
  BY <1>3 DEF WorkFits
<1>6. /\ e.type = "PAYMENT_SUCCEEDED" => key = <<"payment_succeeded", e.tx>>
      /\ e.type = "PAYMENT_FAILED" => key = <<"payment_failed", e.tx, e>>
      /\ e.type = "REFUND_COMPLETED" => key = <<"refund", i>>
      /\ e.type = "CHARGEBACK_CREATED" => key = <<"chargeback", i>>
      /\ e.type = "DISPUTE_UPDATED" => key = <<"chargeback_reversed", i>>
      /\ e.type = "SUBSCRIPTION_RENEWED" => key[1] = "subscription_renewed"
  BY <1>2 DEF LedgerKey
<1>7. PICK x : x = [key |-> key, by |-> e]
  OBVIOUS
<1>8. x.key = key /\ x.by = e
  BY <1>7
<1>9. EntryFits(x)
  <2>1. CASE e.type = "SUBSCRIPTION_RENEWED"
    BY <1>6, <1>8, <2>1 DEF EntryFits
  <2>2. CASE e.type \in OfPayment
    BY <1>4, <1>6, <1>8, <2>2 DEF EntryFits, OfPayment
  <2>3. CASE e.type = "REFUND_COMPLETED"
    BY <1>4, <1>5, <1>6, <1>8, <2>3 DEF EntryFits, RefundIs
  <2>4. CASE e.type \in {"CHARGEBACK_CREATED", "DISPUTE_UPDATED"}
    BY <1>4, <1>5, <1>6, <1>8, <2>4 DEF EntryFits, DisputeIs
  <2> QED
    BY <1>4, <2>1, <2>2, <2>3, <2>4 DEF OfPayment, OfReturn
<1>10. TableInv' /\ Grows /\ Booked(key)'
  BY <1>2, <1>7, <1>9, LedgerWritten DEF Book, PipeInv
<1>11. BookedFor(e)'
  <2>1. e.type \in OfPayment => BookedFor(e)'
    BY <1>6, <1>10 DEF BookedFor, OfPayment, Booked
  <2>2. CASE e.type = "REFUND_COMPLETED"
    <3>1. RefundIs(i, e)'
      BY <1>5, <1>10, <2>2, GrowthKeeps
    <3> QED
      BY <1>6, <1>10, <2>2, <3>1 DEF BookedFor, RowBooked, Booked, RefundIs
  <2>3. CASE e.type = "CHARGEBACK_CREATED"
    <3>1. DisputeIs(i, e)'
      BY <1>5, <1>10, <2>3, GrowthKeeps
    <3> QED
      BY <1>6, <1>10, <2>3, <3>1 DEF BookedFor, RowBooked, Booked, DisputeIs
  <2> QED
    BY <2>1, <2>2, <2>3 DEF BookedFor, OfPayment
<1>12. Done(e, "book", i)
  BY <1>11 DEF Done
<1>13. /\ row' = [row EXCEPT ![w] = i] /\ todo' = [todo EXCEPT ![w] = Tail(todo[w])]
       /\ UNCHANGED <<pc, call, snap>>
  BY <1>1, <1>2, AtStep DEF Book, Advance, WorkerTypes
<1>14. WorkerInv'
  BY <1>1, <1>2, <1>10, <1>12, <1>13, AtStep, WorkerGoesOn
<1> QED
  BY <1>10, <1>14, InvAssembled DEF PipeInv, Book

\* The call to SubscriptionsService: whatever it does, it does not lead into a trial.
LEMMA MoveKeeps ==
    ASSUME PipeInv, NEW w \in Workers, Move(w)
    PROVE  PipeInv'
<1>1. Does(w, "move")
  BY DEF Move
<1>2. PICK e \in CallType, i \in Nat : e = call[w] /\ i = row[w]
  BY <1>1, AtStep
<1> DEFINE asked == MoveTo(e.type, snap[w].status)
           renews == asked = "ACTIVE" /\ snap[w].status \in ActiveLike
<1>3. PICK to \in {asked} \cup IF renews THEN {"CANCELED"} ELSE {} :
          IF IsTransitionAllowed(sub.status, to)
          THEN /\ sub' = [ status |-> to, version |-> sub.version + 1,
                           period |-> sub.period + IF to = "ACTIVE" THEN 1 ELSE 0 ]
               /\ Advance(w)
               /\ UNCHANGED row
          ELSE Throw(w) /\ UNCHANGED sub
  BY <1>2 DEF Move
<1>4. UNCHANGED <<seen, webhook, txn, refunds, disputes, ledger, published>>
  BY DEF Move
<1>5. sub \in SubRow /\ sub.status \in Statuses /\ PipeInv /\ TableInv /\ WorkerInv
  BY DEF PipeInv, TableInv, TableTypes
<1>6. to \in {"ACTIVE", "PAST_DUE", "CANCELED", "EXPIRED", "none"}
  BY <1>3 DEF MoveTo
<1>7. CASE IsTransitionAllowed(sub.status, to)
  <2>1. to # "none"
    BY <1>5, <1>7 DEF IsTransitionAllowed, AllowedTransitions, Statuses
  <2>2. sub' \in SubRow /\ sub'.status = to /\ to \in Statuses \ PreActivation
    BY <1>3, <1>5, <1>6, <1>7, <2>1 DEF SubRow, Statuses, PreActivation
  <2>3. TableInv' /\ Grows
    BY <1>4, <1>5, <2>2, SubWritten
  <2>4. Done(e, "move", i)
    BY <2>2 DEF Done
  <2>5. /\ row' = [row EXCEPT ![w] = i] /\ todo' = [todo EXCEPT ![w] = Tail(todo[w])]
        /\ UNCHANGED <<pc, call, snap>>
    BY <1>1, <1>2, <1>3, <1>7, AtStep DEF Advance, WorkerTypes
  <2>6. WorkerInv'
    BY <1>1, <1>2, <1>5, <2>3, <2>4, <2>5, WorkerGoesOn
  <2> QED
    BY <1>4, <2>3, <2>6, InvAssembled DEF PipeInv
<1>8. CASE ~ IsTransitionAllowed(sub.status, to)
  <2>1. Throw(w) /\ UNCHANGED tables
    BY <1>3, <1>4, <1>8 DEF tables
  <2>2. TableInv' /\ Grows
    BY <1>5, <2>1, TablesStay
  <2>3. WorkerInv'
    BY <1>5, <2>1, <2>2, WorkerLeaves
  <2> QED
    BY <1>4, <2>2, <2>3, InvAssembled DEF PipeInv
<1> QED
  BY <1>7, <1>8

\* A refund is added; the one of an administrator may not have succeeded.
LEMMA AddRefundKeeps ==
    ASSUME PipeInv, NEW w \in Workers, AddRefund(w)
    PROVE  PipeInv'
<1>1. Does(w, "row")
  BY DEF AddRefund
<1>2. PICK e \in CallType : e = call[w]
  BY <1>1, AtStep
<1>3. e.type \in {"REFUND_COMPLETED", "ADMIN_REFUND"}
      /\ UNCHANGED <<seen, webhook, txn, sub, disputes, ledger, published, pc, call, snap>>
  BY <1>2 DEF AddRefund
<1>4. PICK status \in {"SUCCEEDED", "FAILED", "PENDING"} :
          /\ e.type = "REFUND_COMPLETED" => status = "SUCCEEDED"
          /\ refunds' = Append(refunds, [tx |-> e.tx, full |-> e.full,
                                         status |-> status, by |-> e])
          /\ todo' = [todo EXCEPT ![w] = IF status = "SUCCEEDED" THEN Tail(@) ELSE <<>>]
  BY <1>2 DEF AddRefund
<1>5. PICK new : new = [tx |-> e.tx, full |-> e.full, status |-> status, by |-> e]
  OBVIOUS
<1>6. e.tx \in Txs /\ refunds \in Seq(RefundRow) /\ disputes \in Seq(DisputeRow) /\ TableInv
  BY <1>1, <1>2, AtStep DEF WorkFits, CallType, TableTypes
<1>7. new \in RefundRow /\ new.tx = e.tx /\ new.full = e.full /\ new.by = e /\ new.status = status
  BY <1>5, <1>6 DEF RefundRow, CallType
<1>8. PICK j \in Nat : j = Len(refunds) + 1
  BY <1>6, LenProperties
<1>9. /\ refunds' \in Seq(RefundRow) /\ Len(refunds') = j
      /\ \A i \in 1..Len(refunds) : i \in 1..Len(refunds') /\ refunds'[i] = refunds[i]
      /\ refunds'[j] = new
  BY <1>4, <1>5, <1>6, <1>7, <1>8, AppendProperties, LenProperties
<1>10. TableInv' /\ Grows
  BY <1>3, <1>6, <1>9, RowsWritten
<1>11. row' = [row EXCEPT ![w] = j]
  BY <1>8 DEF AddRefund
<1>12. CASE status = "SUCCEEDED"
  <2>1. j \in 1..Len(refunds')
    BY <1>8, <1>9, <1>6, LenProperties
  <2>2. RefundIs(j, e)'
    BY <1>7, <1>9, <1>12, <2>1 DEF RefundIs
  <2>3. Done(e, "row", j)
    BY <1>3, <2>2 DEF Done
  <2>4. todo' = [todo EXCEPT ![w] = Tail(todo[w])]
    BY <1>4, <1>12, <1>1, AtStep DEF WorkerTypes
  <2>5. WorkerInv'
    BY <1>1, <1>2, <1>3, <1>10, <1>11, <2>3, <2>4, AtStep, WorkerGoesOn
  <2> QED
    BY <1>3, <1>10, <2>5, InvAssembled DEF PipeInv
<1>13. CASE status # "SUCCEEDED"
  <2>1. e.type = "ADMIN_REFUND" /\ todo' = [todo EXCEPT ![w] = <<>>]
    BY <1>3, <1>4, <1>13
  <2>2. WorkerInv'
    BY <1>1, <1>2, <1>3, <1>10, <1>11, <2>1, AtStep, WorkerEnds
  <2> QED
    BY <1>3, <1>10, <2>2, InvAssembled DEF PipeInv
<1> QED
  BY <1>12, <1>13

\* A dispute is opened.
LEMMA AddDisputeKeeps ==
    ASSUME PipeInv, NEW w \in Workers, AddDispute(w)
    PROVE  PipeInv'
<1>1. Does(w, "row")
  BY DEF AddDispute
<1>2. PICK e \in CallType : e = call[w]
  BY <1>1, AtStep
<1>3. /\ e.type = "CHARGEBACK_CREATED"
      /\ UNCHANGED <<seen, webhook, txn, sub, refunds, ledger, published, pc, call, snap>>
  BY <1>2 DEF AddDispute, Advance
<1>4. PICK new : new = [tx |-> e.tx, status |-> "OPEN", by |-> e]
  OBVIOUS
<1>5. e.tx \in Txs /\ refunds \in Seq(RefundRow) /\ disputes \in Seq(DisputeRow) /\ TableInv
  BY <1>1, <1>2, AtStep DEF WorkFits, CallType, TableTypes
<1>6. new \in DisputeRow /\ new.tx = e.tx /\ new.by = e
  BY <1>4, <1>5 DEF DisputeRow
<1>7. PICK j \in Nat : j = Len(disputes) + 1
  BY <1>5, LenProperties
<1>8. /\ disputes' \in Seq(DisputeRow) /\ Len(disputes') = j
      /\ \A i \in 1..Len(disputes) : i \in 1..Len(disputes') /\ disputes'[i] = disputes[i]
      /\ disputes'[j] = new
  BY <1>2, <1>4, <1>5, <1>6, <1>7, AppendProperties, LenProperties DEF AddDispute
<1>9. TableInv' /\ Grows
  BY <1>3, <1>5, <1>8, RowsWritten
<1>10. j \in 1..Len(disputes')
  BY <1>5, <1>7, <1>8, LenProperties
<1>11. DisputeIs(j, e)'
  BY <1>6, <1>8, <1>10 DEF DisputeIs
<1>12. Done(e, "row", j)
  BY <1>3, <1>11 DEF Done
<1>13. row' = [row EXCEPT ![w] = j] /\ todo' = [todo EXCEPT ![w] = Tail(todo[w])]
  BY <1>1, <1>7, AtStep DEF AddDispute, Advance, WorkerTypes
<1>14. WorkerInv'
  BY <1>1, <1>2, <1>3, <1>9, <1>12, <1>13, AtStep, WorkerGoesOn
<1> QED
  BY <1>3, <1>9, <1>14, InvAssembled DEF PipeInv

\* The latest dispute of the transaction is found, if there is one.
LEMMA FindDisputeKeeps ==
    ASSUME PipeInv, NEW w \in Workers, FindDispute(w)
    PROVE  PipeInv'
<1>1. Does(w, "latest")
  BY DEF FindDispute
<1>2. PICK e \in CallType, k \in Nat : e = call[w] /\ k = row[w]
  BY <1>1, AtStep
<1>3. UNCHANGED <<seen, pc, call, snap>> /\ UNCHANGED disputes
  BY DEF FindDispute, tables
<1>4. TableInv' /\ Grows
  BY TablesStay DEF FindDispute, PipeInv
<1>5. e.type = "DISPUTE_UPDATED" /\ disputes \in Seq(DisputeRow)
  BY <1>1, <1>2, AtStep DEF WorkFits, TableTypes
<1> DEFINE known == { i \in 1..Len(disputes) : disputes[i].tx = e.tx }
<1>6. CASE known = {}
  <2>1. row' = [row EXCEPT ![w] = k] /\ todo' = [todo EXCEPT ![w] = <<>>]
    BY <1>1, <1>2, <1>6, AtStep DEF FindDispute, WorkerTypes
  <2>2. WorkerInv'
    BY <1>1, <1>2, <1>3, <1>4, <1>5, <2>1, AtStep, WorkerEnds
  <2> QED
    BY <1>3, <1>4, <2>2, InvAssembled DEF PipeInv
<1>7. CASE known # {}
  <2>1. PICK j \in known : row' = [row EXCEPT ![w] = j] /\ todo' = [todo EXCEPT ![w] = Tail(@)]
    BY <1>2, <1>7 DEF FindDispute
  <2>2. j \in Nat /\ todo' = [todo EXCEPT ![w] = Tail(todo[w])]
    BY <1>1, <1>5, <2>1, AtStep, LenProperties DEF WorkerTypes
  <2>3. DisputeIs(j, e)'
    BY <1>3, <1>5, <2>1 DEF DisputeIs
  <2>4. Done(e, "latest", j)
    BY <2>3 DEF Done
  <2>5. WorkerInv'
    BY <1>1, <1>2, <1>3, <1>4, <2>1, <2>2, <2>4, AtStep, WorkerGoesOn
  <2> QED
    BY <1>3, <1>4, <2>5, InvAssembled DEF PipeInv
<1> QED
  BY <1>6, <1>7

\* The dispute gets its outcome.
LEMMA UpdateDisputeKeeps ==
    ASSUME PipeInv, NEW w \in Workers, UpdateDispute(w)
    PROVE  PipeInv'
<1>1. Does(w, "row")
  BY DEF UpdateDispute
<1>2. PICK e \in CallType, i \in Nat : e = call[w] /\ i = row[w]
  BY <1>1, AtStep
<1>3. /\ e.type = "DISPUTE_UPDATED"
      /\ UNCHANGED <<seen, webhook, txn, sub, refunds, ledger, published, pc, call, snap>>
  BY <1>2 DEF UpdateDispute
<1>4. WorkFits(e, todo[w], i) /\ Holds(todo[w], "row") /\ todo[w] # <<>>
      /\ ~ Holds(todo[w], "latest")
  BY <1>1, <1>2, AtStep DEF Rank, StepNames
<1>5. DisputeIs(i, e) /\ e.outcome \in {"WON", "LOST", "UNDER_REVIEW"}
  BY <1>3, <1>4 DEF WorkFits, CallType
<1>6. refunds \in Seq(RefundRow) /\ disputes \in Seq(DisputeRow) /\ TableInv
  BY <1>1, AtStep DEF TableTypes
<1>7. i \in 1..Len(disputes) /\ disputes[i] \in DisputeRow
  BY <1>5, <1>6, ElementOfSeq DEF DisputeIs
<1>8. PICK new : new = [disputes[i] EXCEPT !.status = e.outcome]
  OBVIOUS
<1>9. new \in DisputeRow /\ new.tx = disputes[i].tx /\ new.by = disputes[i].by
  BY <1>5, <1>7, <1>8 DEF DisputeRow
<1>10. disputes' = [disputes EXCEPT ![i] = new]
  BY <1>2, <1>8 DEF UpdateDispute
<1>11. /\ disputes' \in Seq(DisputeRow) /\ Len(disputes') = Len(disputes)
       /\ \A j \in 1..Len(disputes) : disputes'[j] = IF j = i THEN new ELSE disputes[j]
  BY <1>6, <1>7, <1>9, <1>10, ExceptSeq
<1>12. TableInv' /\ Grows
  BY <1>3, <1>6, <1>9, <1>11, RowsWritten
<1>13. row' = [row EXCEPT ![w] = i]
  BY <1>1, <1>2, AtStep DEF UpdateDispute, WorkerTypes
<1>14. CASE e.outcome = "WON"
  <2>1. todo' = [todo EXCEPT ![w] = Tail(todo[w])]
    BY <1>1, <1>2, <1>14, AtStep DEF UpdateDispute, WorkerTypes
  <2>2. Done(e, "row", i)
    BY <1>3 DEF Done
  <2>3. WorkerInv'
    BY <1>1, <1>2, <1>3, <1>12, <1>13, <2>1, <2>2, AtStep, WorkerGoesOn
  <2> QED
    BY <1>3, <1>12, <2>3, InvAssembled DEF PipeInv
<1>15. CASE e.outcome # "WON"
  <2>1. todo' = [todo EXCEPT ![w] = <<>>]
    BY <1>2, <1>15 DEF UpdateDispute
  <2>2. WorkerInv'
    BY <1>1, <1>2, <1>3, <1>12, <1>13, <2>1, AtStep, WorkerEnds
  <2> QED
    BY <1>3, <1>12, <2>2, InvAssembled DEF PipeInv
<1> QED
  BY <1>14, <1>15

\* Administrators' requests that take no webhook.
LEMMA AdministrationKeeps ==
    ASSUME PipeInv, NEW w \in Workers, NEW t \in Txs, NEW b \in BOOLEAN,
           CreateManual(t, b) \/ AskRefund(w, t, b)
    PROVE  PipeInv'
<1>1. CASE CreateManual(t, b)
  <2>1. TableInv' /\ Grows
    BY <1>1, TxnCreated DEF CreateManual, PipeInv
  <2>2. WorkerInv'
    BY <1>1, <2>1, WorkersStay DEF CreateManual, PipeInv
  <2>3. ManualTx(t) \in CallType
    BY CallTypes
  <2> QED
    BY <1>1, <2>1, <2>2, <2>3, InvAssembled DEF CreateManual, Asked, PipeInv
<1>2. CASE AskRefund(w, t, b)
  <2>1. TableInv' /\ Grows
    BY <1>2, TablesStay DEF AskRefund, PipeInv
  <2>2. WorkerTypes /\ WorkerInv /\ WorkerFits(w)
    BY DEF PipeInv, WorkerInv
  <2>3. PICK e \in CallType : /\ e = AdminRefund(t, b) /\ e.type = "ADMIN_REFUND"
                              /\ e.tx # None /\ ~ e.names
    <3>1. /\ AdminRefund(t, b).type = "ADMIN_REFUND" /\ AdminRefund(t, b).tx = t
          /\ ~ AdminRefund(t, b).names
      BY DEF AdminRefund, NoEvent
    <3>2. AdminRefund(t, b) \in CallType /\ t # None
      BY CallTypes, BoundsAssumption
    <3> QED
      BY <3>1, <3>2
  <2>4. PICK s \in Seq(StepNames) : /\ s = <<"row", "mark">> /\ InOrder(s)
                                    /\ \A x : Holds(s, x) <=> x \in {"row", "mark"}
    BY Parts
  <2>5. PICK i : i = row[w]
    OBVIOUS
  <2>6. WorkFits(e, s, i)'
    BY <2>3, <2>4 DEF WorkFits, OfPayment, OfReturn
  <2>7. /\ pc' = [pc EXCEPT ![w] = "applying"] /\ call' = [call EXCEPT ![w] = e]
        /\ todo' = [todo EXCEPT ![w] = s] /\ UNCHANGED <<snap, row>> /\ "applying" \in PcNames
    BY <1>2, <2>3, <2>4 DEF AskRefund, Take, Goto, PcNames
  <2>8. WorkerTypes'
    BY <2>2, <2>7 DEF WorkerTypes
  <2>9. \A v \in Workers \ {w} : WorkerStays(v)
    BY <2>2, <2>7 DEF WorkerTypes, WorkerStays
  <2>10. pc'[w] = "applying" /\ call'[w] = e /\ todo'[w] = s /\ snap'[w] = snap[w] /\ row'[w] = i
    BY <2>2, <2>5, <2>7 DEF WorkerTypes
  <2>11. WorkFits(call[w], todo[w], row[w])'
    BY <2>6, <2>10, WorkIs
  <2>12. WorkerFits(w)'
    BY <2>1, <2>2, <2>3, <2>10, <2>11 DEF WorkerFits, Grows
  <2>13. WorkerInv'
    BY <2>1, <2>2, <2>8, <2>9, <2>12, WorkerMoves
  <2> QED
    BY <1>2, <2>1, <2>3, <2>13, InvAssembled DEF AskRefund, Take, Asked, PipeInv
<1> QED
  BY <1>1, <1>2

\* Another request of the subscription API writes the row.
LEMMA ElsewhereKeeps ==
    ASSUME PipeInv, MoveElsewhere
    PROVE  PipeInv'
<1>1. PICK to \in Elsewhere \cup {sub.status}, started \in 0..1 :
          sub' = [ status |-> to, version |-> sub.version + 1, period |-> sub.period + started ]
  BY DEF MoveElsewhere
<1>2. sub \in SubRow /\ sub.status \in Statuses
  BY DEF PipeInv, TableInv, TableTypes
<1>3. to \in Statuses /\ (to \in PreActivation => to = sub.status)
  BY <1>1, <1>2, BoundsAssumption DEF PreActivation
<1>4. sub' \in SubRow /\ sub'.status = to
  BY <1>1, <1>2, <1>3 DEF SubRow
<1>5. TableInv' /\ Grows
  BY <1>3, <1>4, SubWritten DEF MoveElsewhere, PipeInv
<1>6. WorkerInv'
  BY <1>5, WorkersStay DEF MoveElsewhere, PipeInv
<1> QED
  BY <1>5, <1>6, InvAssembled DEF MoveElsewhere, PipeInv

-----------------------------------------------------------------------------
(* The theorems. *)

LEMMA InvInit == Init => PipeInv
<1> SUFFICES ASSUME Init PROVE PipeInv
  OBVIOUS
<1>1. webhook = [e \in Events |-> "none"] /\ txn = [t \in Txs |-> NoTxn]
      /\ sub \in { [status |-> "TRIALING", period |-> 0, version |-> 1],
                   [status |-> "ACTIVE", period |-> 1, version |-> 1] }
      /\ refunds = <<>> /\ disputes = <<>> /\ ledger = {} /\ published = {} /\ seen = {}
  BY DEF Init
<1>2. txn \in [Txs -> TxnRow] /\ \A t \in Txs : txn[t].status = "none"
  BY <1>1 DEF NoTxn, TxnRow, TxnStatuses
<1>3. sub \in SubRow /\ sub.status \in Statuses
  BY <1>1 DEF SubRow, Statuses
<1>4. TableTypes
  BY <1>1, <1>2, <1>3 DEF TableTypes
<1>5. TableInv
  BY <1>1, <1>2, <1>4 DEF TableInv, ProcessedIsBooked, PaidIsActivated, TxnFits
<1>6. WorkerTypes
  BY CallTypes, Parts DEF Init, WorkerTypes, PcNames, NoSub, SubRow
<1>7. \A w \in Workers : pc[w] = "idle" /\ snap[w].status = "ABSENT"
  BY DEF Init, NoSub
<1>8. WorkerInv
  BY <1>6, <1>7 DEF WorkerInv, WorkerFits
<1> QED
  BY <1>1, <1>5, <1>8 DEF PipeInv

LEMMA StepKeeps == PipeInv /\ [Next]_vars => PipeInv'
<1> SUFFICES ASSUME PipeInv, [Next]_vars PROVE PipeInv'
  OBVIOUS
<1>1. ASSUME NEW w \in Workers, Pipeline(w) PROVE PipeInv'
  BY <1>1, RequestKeeps, StoreKeeps, ProcessKeeps, FailureKeeps DEF Pipeline
<1>2. ASSUME NEW w \in Workers, Dispatcher(w) PROVE PipeInv'
  BY <1>2, ReadSubKeeps, FindTxKeeps, CreateTxKeeps, MarkKeeps, MoveKeeps, BookKeeps,
     PublishKeeps, AddRefundKeeps, AddDisputeKeeps, FindDisputeKeeps, UpdateDisputeKeeps
     DEF Dispatcher
<1>3. ASSUME NEW w \in Workers, Administration(w) PROVE PipeInv'
  BY <1>3, RequestKeeps, AdministrationKeeps DEF Administration
<1>4. CASE UNCHANGED vars
  <2>1. TableInv' /\ Grows
    BY <1>4, TablesStay DEF vars, PipeInv
  <2>2. WorkerInv'
    BY <1>4, <2>1, WorkersStay DEF vars, PipeInv
  <2> QED
    BY <1>4, <2>1, <2>2, InvAssembled DEF vars, PipeInv
<1> QED
  BY <1>1, <1>2, <1>3, <1>4, ElsewhereKeeps DEF Next

LEMMA InvHolds == Spec => []PipeInv
<1> QED
  BY InvInit, StepKeeps, PTL DEF Spec

\* Every table and every worker keeps to its type.
THEOREM TypeCorrect == Spec => []TypeOK
<1>1. PipeInv => TypeOK
  BY TypeParts DEF PipeInv, TableInv, WorkerInv
<1> QED
  BY <1>1, InvHolds, PTL

\* No processed event has lost an effect: its money is in the ledger and it is published,
\* whatever deliveries, failures and crashes came between.
THEOREM NoEffectLost == Spec => []ProcessedIsBooked
<1>1. PipeInv => ProcessedIsBooked
  BY DEF PipeInv, TableInv
<1> QED
  BY <1>1, InvHolds, PTL

\* A customer whose payment has been processed is not left in a trial, nor INCOMPLETE.
THEOREM PaymentsActivate == Spec => []PaidIsActivated
<1>1. PipeInv => PaidIsActivated
  BY DEF PipeInv, TableInv
<1> QED
  BY <1>1, InvHolds, PTL

\* A transaction is refunded or charged back only if a row says by what.
THEOREM ReturnsExplained == Spec => []StatusExplained
<1>1. PipeInv => StatusExplained
  BY DEF PipeInv, TableInv, TxnFits, HasRefund, HasDispute, StatusExplained
<1> QED
  BY <1>1, InvHolds, PTL

\* Whatever is in the ledger has happened to its transaction first.
THEOREM LedgerIsBacked == Spec => []LedgerBacked
<1>1. PipeInv => LedgerBacked
  BY DEF PipeInv, TableInv, EntryFits, Settled, LedgerBacked
<1> QED
  BY <1>1, InvHolds, PTL

=============================================================================
