------------------------- MODULE WebhookDispatchProofs -------------------------
(***************************************************************************)
(* Theorems about WebhookDispatch, for any number of deliveries, sweeps,   *)
(* operators, attempts and retries: it is typed, and implements Outbox.    *)
(***************************************************************************)
EXTENDS WebhookDispatch, SequenceTheorems, TLAPS

-----------------------------------------------------------------------------
(* The inductive invariant. *)

DeliveryRows ==
    [ status : HookStatuses, count : Nat, ready : BOOLEAN, recorded : SUBSET (Nat \ {0}) ]

\* The attempts on record are numbered from 1 without gaps, the count is one of them, and
\* an exhausted delivery has had all of its attempts.
HookRowFits(row) ==
    /\ row.count = 0 \/ row.count \in row.recorded
    /\ \A n \in row.recorded : 1..n \subseteq row.recorded
    /\ row.status = "EXHAUSTED" => MaxHookAttempts \in row.recorded

\* A row that exists, or did until its endpoint was removed.
Enqueued(row) == row.status \notin {"none", "checked"}

HookNumbered(d, n) ==
    /\ n \in Nat \ {0}
    /\ n = 1 \/ n - 1 \in hookRows[d].recorded

BatchEnqueued(b) == \A i \in 1..Len(b) : Enqueued(hookRows[b[i]])

\* What actor a knows of its current delivery in each of its steps.
HookActorFits(a) ==
    LET d == HookCurrent(a)
    IN  /\ BatchEnqueued(hookBatch[a])
        /\ hookPc[a] \in {"posting", "answered", "failed"} => HookNumbered(d, hookNumber[a])
        /\ hookPc[a] = "rearming" => MaxHookAttempts \in hookRows[d].recorded
        /\ hookPc[a] = "answered" => d \in received

HookInv ==
    /\ HookTypeOK
    /\ \A d \in Deliveries : HookRowFits(hookRows[d])
    /\ \A a \in HookActors : HookActorFits(a)

-----------------------------------------------------------------------------
(* What a step does to rows: they stay enqueued, with all they record. *)

HookRowGrows(old, new) == Enqueued(new) /\ old.recorded \subseteq new.recorded

HookGrows ==
    /\ received \subseteq received'
    /\ \A d \in Deliveries : Enqueued(hookRows[d]) => HookRowGrows(hookRows[d], hookRows'[d])

HookActorStays(a) ==
    hookPc'[a] = hookPc[a] /\ hookBatch'[a] = hookBatch[a] /\ hookNumber'[a] = hookNumber[a]

\* The current delivery of an actor, and what is left of its batch.
LEMMA HookCurrentOfBatch ==
    ASSUME HookInv, NEW a \in HookActors, hookPc[a] # "idle"
    PROVE  /\ HookCurrent(a) \in Deliveries /\ Enqueued(hookRows[HookCurrent(a)])
           /\ Tail(hookBatch[a]) \in Seq(Deliveries)
           /\ BatchEnqueued(Tail(hookBatch[a]))
<1>1. hookBatch[a] \in Seq(Deliveries) /\ hookBatch[a] # <<>>
  BY DEF HookInv, HookTypeOK
<1>2. Len(hookBatch[a]) \in Nat \ {0}
  BY <1>1, EmptySeq
<1>3. /\ Head(hookBatch[a]) \in Deliveries
      /\ Tail(hookBatch[a]) \in Seq(Deliveries)
      /\ Len(Tail(hookBatch[a])) = Len(hookBatch[a]) - 1
      /\ \A i \in 1..Len(Tail(hookBatch[a])) : Tail(hookBatch[a])[i] = hookBatch[a][i + 1]
  BY <1>1, HeadTailProperties
<1>4. Head(hookBatch[a]) = hookBatch[a][1]
  BY <1>1
<1>5. BatchEnqueued(hookBatch[a])
  BY DEF HookInv, HookActorFits
<1>6. \A i \in 1..Len(Tail(hookBatch[a])) : i + 1 \in 1..Len(hookBatch[a])
  BY <1>2, <1>3
<1> QED
  BY <1>2, <1>3, <1>4, <1>5, <1>6 DEF HookCurrent, BatchEnqueued

\* A batch stays enqueued when rows grow.
LEMMA BatchStays ==
    ASSUME HookGrows, NEW b \in Seq(Deliveries), BatchEnqueued(b)
    PROVE  \A i \in 1..Len(b) : Enqueued(hookRows'[b[i]])
<1>1. \A i \in 1..Len(b) : b[i] \in Deliveries
  BY ElementOfSeq
<1> QED
  BY <1>1 DEF BatchEnqueued, HookGrows, HookRowGrows

\* An actor that stays still fits when rows grow.
LEMMA HookStayingFits ==
    ASSUME HookInv, HookGrows, NEW a \in HookActors, HookActorStays(a)
    PROVE  HookActorFits(a)'
<1>1. HookCurrent(a)' = HookCurrent(a)
  BY DEF HookActorStays, HookCurrent
<1>2. BatchEnqueued(hookBatch[a])'
  <2>1. hookBatch[a] \in Seq(Deliveries) /\ BatchEnqueued(hookBatch[a])
    BY DEF HookInv, HookTypeOK, HookActorFits
  <2>2. \A i \in 1..Len(hookBatch[a]) : Enqueued(hookRows'[hookBatch[a][i]])
    BY <2>1, BatchStays
  <2> QED
    BY <2>2 DEF HookActorStays, BatchEnqueued, Enqueued
<1>3. CASE hookPc[a] = "idle"
  BY <1>2, <1>3 DEF HookActorFits, HookActorStays
<1>4. CASE hookPc[a] # "idle"
  <2>1. PICK d \in Deliveries : d = HookCurrent(a) /\ Enqueued(hookRows[d])
    BY <1>4, HookCurrentOfBatch
  <2>2. hookRows[d].recorded \subseteq hookRows'[d].recorded /\ received \subseteq received'
    BY <2>1 DEF HookGrows, HookRowGrows
  <2>3. HookActorFits(a)
    BY DEF HookInv
  <2> QED
    BY <1>1, <1>2, <2>1, <2>2, <2>3 DEF HookActorFits, HookActorStays, HookNumbered
<1> QED
  BY <1>3, <1>4

HookActorTypes ==
    /\ hookPc \in [HookActors -> HookSteps]
    /\ hookBatch \in [HookActors -> Seq(Deliveries)]
    /\ \A a \in HookActors : hookPc[a] = "idle" <=> hookBatch[a] = <<>>
    /\ hookNumber \in [HookActors -> Nat]

\* When no actor moves and rows only grow, the actors fit as before.
LEMMA HookActorsStay ==
    ASSUME HookInv, HookGrows, UNCHANGED hookActors
    PROVE  HookActorTypes' /\ \A a \in HookActors : HookActorFits(a)'
<1>1. HookActorTypes'
  BY DEF HookInv, HookTypeOK, HookActorTypes, hookActors
<1>2. ASSUME NEW a \in HookActors PROVE HookActorFits(a)'
  BY HookStayingFits DEF HookActorStays, hookActors
<1> QED
  BY <1>1, <1>2

\* Actor a goes on with `rest`.
LEMMA HookActorGoesOn ==
    ASSUME HookInv, HookGrows, NEW a \in HookActors, NEW rest \in Seq(Deliveries),
           BatchEnqueued(rest), HookGoOn(a, rest)
    PROVE  HookActorTypes' /\ \A b \in HookActors : HookActorFits(b)'
<1>1. /\ hookBatch' = [hookBatch EXCEPT ![a] = rest]
      /\ hookPc' = [hookPc EXCEPT ![a] = IF rest = <<>> THEN "idle" ELSE "reading"]
      /\ hookNumber' = [hookNumber EXCEPT ![a] = 0]
  BY DEF HookGoOn, HookGoto
<1>2. HookActorTypes
  BY DEF HookInv, HookTypeOK, HookActorTypes
<1>3. HookActorTypes'
  BY <1>1, <1>2 DEF HookActorTypes, HookSteps
<1>4. ASSUME NEW b \in HookActors, b # a PROVE HookActorFits(b)'
  BY <1>1, <1>2, <1>4, HookStayingFits DEF HookActorStays, HookActorTypes
<1>5. HookActorFits(a)'
  <2>1. hookPc'[a] \in {"idle", "reading"} /\ hookBatch'[a] = rest
    BY <1>1, <1>2 DEF HookActorTypes
  <2>2. \A i \in 1..Len(rest) : Enqueued(hookRows'[rest[i]])
    BY BatchStays
  <2> QED
    BY <2>1, <2>2 DEF HookActorFits, BatchEnqueued, Enqueued
<1> QED
  BY <1>3, <1>4, <1>5

\* Actor a goes to `step` with its batch, and knows what that step asks for.
LEMMA HookActorGoes ==
    ASSUME HookInv, HookGrows, NEW a \in HookActors,
           NEW step \in HookSteps \ {"idle"}, NEW n \in Nat, NEW d \in Deliveries,
           NEW b \in Seq(Deliveries), BatchEnqueued(b), b # <<>>, d = Head(b),
           HookGoto(a, step),
           hookBatch' = [hookBatch EXCEPT ![a] = b],
           hookNumber' = [hookNumber EXCEPT ![a] = n],
           step \in {"posting", "answered", "failed"} => HookNumbered(d, n),
           step = "rearming" => MaxHookAttempts \in hookRows[d].recorded,
           step = "answered" => d \in received',
           hookRows[d].recorded \subseteq hookRows'[d].recorded
    PROVE  HookActorTypes' /\ \A c \in HookActors : HookActorFits(c)'
<1>1. hookPc' = [hookPc EXCEPT ![a] = step]
  BY DEF HookGoto
<1>2. HookActorTypes
  BY DEF HookInv, HookTypeOK, HookActorTypes
<1>3. HookActorTypes'
  BY <1>1, <1>2 DEF HookActorTypes
<1>4. ASSUME NEW c \in HookActors, c # a PROVE HookActorFits(c)'
  BY <1>1, <1>2, <1>4, HookStayingFits DEF HookActorStays, HookActorTypes
<1>5. HookActorFits(a)'
  <2>1. hookPc'[a] = step /\ hookBatch'[a] = b /\ hookNumber'[a] = n
    BY <1>1, <1>2 DEF HookActorTypes
  <2>2. HookCurrent(a)' = d
    BY <2>1 DEF HookCurrent
  <2>3. \A i \in 1..Len(b) : Enqueued(hookRows'[b[i]])
    BY BatchStays
  <2>4. BatchEnqueued(hookBatch[a])'
    BY <2>1, <2>3 DEF BatchEnqueued, Enqueued
  <2> QED
    BY <2>1, <2>2, <2>4 DEF HookActorFits, HookNumbered
<1> QED
  BY <1>3, <1>4, <1>5

-----------------------------------------------------------------------------
(* Every step preserves the invariant. *)

\* The rows, the endpoint and what was received.
RowsFit ==
    /\ endpoint \in {"ENABLED", "DISABLED", "removed"}
    /\ hookRows \in [Deliveries -> DeliveryRows]
    /\ received \subseteq Deliveries
    /\ \A d \in Deliveries : HookRowFits(hookRows[d])

\* The parts of the invariant make it up.
LEMMA HookInvAssembled ==
    ASSUME RowsFit', HookActorTypes', \A a \in HookActors : HookActorFits(a)',
           hookRetries' \in 0..MaxHookRetries, hookLost' \in 0..MaxHookLost
    PROVE  HookInv'
  BY DEF RowsFit, HookInv, HookTypeOK, DeliveryRows, HookActorTypes

\* A row that fits, and that only grows, is written.
LEMMA HookRowWritten ==
    ASSUME HookInv, NEW d \in Deliveries, NEW row \in DeliveryRows,
           hookRows' = [hookRows EXCEPT ![d] = row],
           HookRowFits(row), Enqueued(hookRows[d]) => HookRowGrows(hookRows[d], row),
           UNCHANGED <<endpoint, received>>
    PROVE  HookGrows /\ RowsFit'
<1>1. hookRows \in [Deliveries -> DeliveryRows]
  BY DEF HookInv, HookTypeOK, DeliveryRows
<1>2. \A c \in Deliveries : hookRows'[c] = IF c = d THEN row ELSE hookRows[c]
  BY <1>1
<1>3. hookRows' \in [Deliveries -> DeliveryRows]
  BY <1>1
<1>4. HookGrows
  BY <1>2 DEF HookGrows, HookRowGrows
<1>5. \A c \in Deliveries : HookRowFits(hookRows'[c])
  BY <1>2 DEF HookInv
<1> QED
  BY <1>3, <1>4, <1>5 DEF RowsFit, HookInv, HookTypeOK, HookRowFits

\* No row is written.
LEMMA NothingWritten ==
    ASSUME HookInv, UNCHANGED hookRows, received \subseteq received',
           received' \subseteq Deliveries, endpoint' \in {"ENABLED", "DISABLED", "removed"}
    PROVE  HookGrows /\ RowsFit'
<1>1. HookGrows
  BY DEF HookGrows, HookRowGrows
<1>2. RowsFit'
  BY DEF RowsFit, HookRowFits, HookInv, HookTypeOK, DeliveryRows
<1> QED
  BY <1>1, <1>2

\* A row whose status and readiness change, and nothing that is on record.
LEMMA HookRowKeeping ==
    ASSUME NEW old \in DeliveryRows, HookRowFits(old), NEW new \in DeliveryRows,
           new.count = old.count, new.recorded = old.recorded,
           new.status \in {"checked", "PENDING", "RETRYING", "removed", old.status}
    PROVE  HookRowFits(new)
  BY DEF HookRowFits

\* A delivery is checked, stored, or becomes due.
LEMMA EnqueueKeeps ==
    ASSUME HookInv, NEW d \in Deliveries,
           CheckEndpoint(d) \/ EnqueueDelivery(d) \/ HookRipen(d)
    PROVE  HookInv'
<1>1. PICK old \in DeliveryRows : old = hookRows[d] /\ HookRowFits(old)
  BY DEF HookInv, HookTypeOK, DeliveryRows
<1>2. PICK row :
          /\ hookRows' = [hookRows EXCEPT ![d] = row]
          /\ \/ ~ Enqueued(old) /\ row = [old EXCEPT !.status = "checked"]
             \/ ~ Enqueued(old) /\ row = [old EXCEPT !.status = "PENDING"]
             \/ row = [old EXCEPT !.ready = TRUE]
  <2>1. CASE CheckEndpoint(d)
    BY <1>1, <2>1 DEF CheckEndpoint, Enqueued
  <2>2. CASE EnqueueDelivery(d)
    BY <1>1, <2>2 DEF EnqueueDelivery, Enqueued
  <2>3. CASE HookRipen(d)
    BY <1>1, <2>3 DEF HookRipen
  <2> QED
    BY <2>1, <2>2, <2>3
<1>3. /\ row \in DeliveryRows
      /\ row.count = old.count /\ row.recorded = old.recorded
      /\ row.status \in {"checked", "PENDING", old.status}
      /\ Enqueued(old) => row.status = old.status
  BY <1>2 DEF DeliveryRows, HookStatuses, Enqueued
<1>4. HookRowFits(row) /\ (Enqueued(old) => HookRowGrows(old, row))
  BY <1>1, <1>3, HookRowKeeping DEF HookRowGrows, Enqueued
<1>5. UNCHANGED <<endpoint, received>> /\ UNCHANGED hookActors /\ UNCHANGED hookHistory
  BY DEF CheckEndpoint, EnqueueDelivery, HookRipen
<1>6. HookGrows /\ RowsFit'
  BY <1>1, <1>2, <1>3, <1>4, <1>5, HookRowWritten
<1>7. HookActorTypes' /\ \A a \in HookActors : HookActorFits(a)'
  BY <1>5, <1>6, HookActorsStay
<1> QED
  BY <1>5, <1>6, <1>7, HookInvAssembled DEF HookInv, HookTypeOK, hookHistory

\* The endpoint is enabled or disabled.
LEMMA SetEndpointStatusKeeps ==
    ASSUME HookInv, SetEndpointStatus
    PROVE  HookInv'
<1>1. HookGrows /\ RowsFit'
  BY NothingWritten DEF SetEndpointStatus, HookInv, HookTypeOK
<1>2. HookActorTypes' /\ \A a \in HookActors : HookActorFits(a)'
  BY <1>1, HookActorsStay DEF SetEndpointStatus
<1> QED
  BY <1>1, <1>2, HookInvAssembled DEF SetEndpointStatus, HookInv, HookTypeOK, hookHistory

\* The endpoint is removed with its deliveries.
LEMMA RemoveEndpointKeeps ==
    ASSUME HookInv, RemoveEndpoint
    PROVE  HookInv'
<1>1. hookRows \in [Deliveries -> DeliveryRows]
  BY DEF HookInv, HookTypeOK, DeliveryRows
<1>2. ASSUME NEW d \in Deliveries
      PROVE  /\ hookRows'[d] \in DeliveryRows
             /\ HookRowFits(hookRows'[d])
             /\ Enqueued(hookRows[d]) => HookRowGrows(hookRows[d], hookRows'[d])
  <2>1. PICK old \in DeliveryRows : old = hookRows[d] /\ HookRowFits(old)
    BY DEF HookInv, HookTypeOK, DeliveryRows
  <2>2. hookRows'[d] = old \/ hookRows'[d] = [old EXCEPT !.status = "removed"]
    BY <2>1 DEF RemoveEndpoint
  <2>3. PICK new : new = hookRows'[d]
    OBVIOUS
  <2>4. /\ new \in DeliveryRows
        /\ new.count = old.count /\ new.recorded = old.recorded
        /\ new.status \in {"removed", old.status}
    BY <2>2, <2>3 DEF DeliveryRows, HookStatuses
  <2>5. HookRowFits(new) /\ (Enqueued(old) => HookRowGrows(old, new))
    BY <2>1, <2>4, HookRowKeeping DEF HookRowGrows, Enqueued
  <2> QED
    BY <2>1, <2>3, <2>4, <2>5
<1>3. hookRows' \in [Deliveries -> DeliveryRows]
  <2>1. DOMAIN hookRows' = Deliveries /\ hookRows' = [d \in Deliveries |-> hookRows'[d]]
    BY DEF RemoveEndpoint
  <2> QED
    BY <1>2, <2>1
<1>4. HookGrows /\ RowsFit'
  BY <1>2, <1>3 DEF HookGrows, RowsFit, HookRowFits, RemoveEndpoint, HookInv, HookTypeOK
<1>5. HookActorTypes' /\ \A a \in HookActors : HookActorFits(a)'
  BY <1>4, HookActorsStay DEF RemoveEndpoint
<1> QED
  BY <1>4, <1>5, HookInvAssembled DEF RemoveEndpoint, HookInv, HookTypeOK, hookHistory

\* The steps that leave the rows alone and move one actor.
LEMMA HookSweepKeeps ==
    ASSUME HookInv, NEW w \in HookWorkers, HookSweep(w)
    PROVE  HookInv'
<1>1. PICK b \in HookBatches : HookDueBatch(b) /\ HookGoOn(w, b)
  BY DEF HookSweep
<1>2. PICK n \in 1..HookBatchSize : b \in [1..n -> Deliveries]
  BY DEF HookBatches
<1>3. b \in Seq(Deliveries) /\ n \in Nat
  BY <1>2, SeqDef, HookAssumption
<1>4. BatchEnqueued(b)
  <2>1. Len(b) = n /\ DOMAIN b = 1..n
    BY <1>2, <1>3
  <2> QED
    BY <1>1, <2>1 DEF BatchEnqueued, Enqueued, HookDueBatch, HookIsDue
<1>5. HookGrows /\ RowsFit'
  BY NothingWritten DEF HookSweep, HookInv, HookTypeOK
<1>6. HookActorTypes' /\ \A a \in HookActors : HookActorFits(a)'
  BY <1>1, <1>3, <1>4, <1>5, HookActorGoesOn DEF HookActors
<1> QED
  BY <1>5, <1>6, HookInvAssembled DEF HookSweep, HookInv, HookTypeOK, hookHistory

\* An attempt finds its row gone, or is cut short.
LEMMA SkipsKeep ==
    ASSUME HookInv, NEW a \in HookActors, SkipRemoved(a) \/ LoseDelivery(a)
    PROVE  HookInv'
<1>1. hookPc[a] # "idle"
  BY DEF SkipRemoved, LoseDelivery
<1>2. PICK rest \in {Tail(hookBatch[a]), <<>>} : HookGoOn(a, rest)
  BY DEF SkipRemoved, LoseDelivery
<1>3. rest \in Seq(Deliveries) /\ BatchEnqueued(rest)
  <2>1. CASE rest = Tail(hookBatch[a])
    BY <1>1, <2>1, HookCurrentOfBatch
  <2>2. CASE rest = <<>>
    BY <2>2 DEF BatchEnqueued
  <2> QED
    BY <2>1, <2>2
<1>4. UNCHANGED <<hookRows, received, endpoint>>
  BY DEF SkipRemoved, LoseDelivery
<1>5. HookGrows /\ RowsFit'
  BY <1>4, NothingWritten DEF HookInv, HookTypeOK
<1>6. HookActorTypes' /\ \A b \in HookActors : HookActorFits(b)'
  BY <1>2, <1>3, <1>5, HookActorGoesOn
<1>7. hookRetries' \in 0..MaxHookRetries /\ hookLost' \in 0..MaxHookLost
  BY HookAssumption DEF SkipRemoved, LoseDelivery, HookInv, HookTypeOK, hookHistory
<1> QED
  BY <1>5, <1>6, <1>7, HookInvAssembled

\* The batch of an actor that is not idle, and its current delivery.
LEMMA CurrentBatch ==
    ASSUME HookInv, NEW a \in HookActors, hookPc[a] # "idle"
    PROVE  /\ hookBatch[a] \in Seq(Deliveries) /\ hookBatch[a] # <<>>
           /\ BatchEnqueued(hookBatch[a])
           /\ hookBatch = [hookBatch EXCEPT ![a] = hookBatch[a]]
           /\ hookNumber = [hookNumber EXCEPT ![a] = hookNumber[a]]
           /\ hookNumber[a] \in Nat
  BY DEF HookInv, HookTypeOK, HookActorFits

\* An attempt reads its row, and from it its number.
LEMMA ReadDeliveryKeeps ==
    ASSUME HookInv, NEW a \in HookActors, ReadDelivery(a)
    PROVE  HookInv'
<1>1. hookPc[a] # "idle" /\ HookGoto(a, "posting") /\ UNCHANGED hookBatch
  BY DEF ReadDelivery
<1>2. PICK d \in Deliveries : d = HookCurrent(a)
  BY <1>1, HookCurrentOfBatch
<1>3. PICK n \in Nat : n = hookRows[d].count + 1 /\ HookNumbered(d, n)
  <2>1. hookRows[d].count \in Nat /\ HookRowFits(hookRows[d])
    BY DEF HookInv, HookTypeOK
  <2> QED
    BY <2>1 DEF HookNumbered, HookRowFits
<1>4. hookNumber' = [hookNumber EXCEPT ![a] = n]
  BY <1>2, <1>3 DEF ReadDelivery
<1>5. HookGrows /\ RowsFit'
  BY NothingWritten DEF ReadDelivery, HookInv, HookTypeOK
<1>6. PICK b \in Seq(Deliveries) :
          /\ BatchEnqueued(b) /\ b # <<>> /\ d = Head(b)
          /\ hookBatch' = [hookBatch EXCEPT ![a] = b]
  BY <1>1, <1>2, CurrentBatch DEF HookCurrent
<1>7. hookRows' = hookRows /\ "posting" \in HookSteps \ {"idle"}
  BY DEF ReadDelivery, HookSteps
<1>8. HookActorTypes' /\ \A c \in HookActors : HookActorFits(c)'
  BY <1>1, <1>3, <1>4, <1>5, <1>6, <1>7, HookActorGoes
<1> QED
  BY <1>5, <1>8, HookInvAssembled DEF ReadDelivery, HookInv, HookTypeOK, hookHistory

\* A post, whose answer may be lost.
LEMMA PostDeliveryKeeps ==
    ASSUME HookInv, NEW a \in HookActors, PostDelivery(a)
    PROVE  HookInv'
<1>1. hookPc[a] = "posting" /\ UNCHANGED <<hookBatch, hookNumber, hookRows, endpoint>>
  BY DEF PostDelivery
<1>2. PICK d \in Deliveries : d = HookCurrent(a)
  BY <1>1, HookCurrentOfBatch
<1>3. PICK step \in {"answered", "failed"} :
          /\ HookGoto(a, step)
          /\ received' \in {received, received \cup {d}}
          /\ step = "answered" => d \in received'
  BY <1>2 DEF PostDelivery
<1>4. PICK n \in Nat : /\ n = hookNumber[a] /\ HookNumbered(d, n)
                       /\ hookNumber' = [hookNumber EXCEPT ![a] = n]
  BY <1>1, <1>2, CurrentBatch DEF HookInv, HookActorFits
<1>5. HookGrows /\ RowsFit'
  BY <1>1, <1>3, NothingWritten DEF HookInv, HookTypeOK
<1>6. PICK b \in Seq(Deliveries) :
          /\ BatchEnqueued(b) /\ b # <<>> /\ d = Head(b)
          /\ hookBatch' = [hookBatch EXCEPT ![a] = b]
  BY <1>1, <1>2, CurrentBatch DEF HookCurrent
<1>7. step \in HookSteps \ {"idle"} /\ step # "rearming"
  BY DEF HookSteps
<1>8. HookActorTypes' /\ \A c \in HookActors : HookActorFits(c)'
  BY <1>1, <1>3, <1>4, <1>5, <1>6, <1>7, HookActorGoes
<1> QED
  BY <1>5, <1>8, HookInvAssembled DEF PostDelivery, HookInv, HookTypeOK, hookHistory

\* A retry by hand reads its row.
LEMMA AskHookRetryKeeps ==
    ASSUME HookInv, NEW o \in HookOperators, NEW d \in Deliveries, AskHookRetry(o, d)
    PROVE  HookInv'
<1>1. /\ o \in HookActors /\ HookGoto(o, "rearming")
      /\ hookBatch' = [hookBatch EXCEPT ![o] = <<d>>]
      /\ hookRows' = hookRows /\ hookRows[d].status = "EXHAUSTED"
  BY DEF AskHookRetry, HookActors
<1>2. PICK b \in Seq(Deliveries) : b = <<d>> /\ b # <<>> /\ d = Head(b) /\ Len(b) = 1 /\ b[1] = d
  <2>1. <<d>> \in Seq(Deliveries) /\ Len(<<d>>) = 1 /\ <<d>>[1] = d /\ Head(<<d>>) = d
    OBVIOUS
  <2>2. <<d>> # <<>>
    OBVIOUS
  <2> QED
    BY <2>1, <2>2
<1>3. BatchEnqueued(b)
  BY <1>1, <1>2 DEF BatchEnqueued, Enqueued
<1>4. PICK n \in Nat : hookNumber' = [hookNumber EXCEPT ![o] = n]
  <2>1. hookNumber' = [hookNumber EXCEPT ![o] = hookNumber[o]] /\ hookNumber[o] \in Nat
    BY <1>1 DEF AskHookRetry, HookInv, HookTypeOK
  <2> QED
    BY <2>1
<1>5. MaxHookAttempts \in hookRows[d].recorded
  BY <1>1 DEF HookInv, HookRowFits
<1>6. HookGrows /\ RowsFit'
  BY NothingWritten DEF AskHookRetry, HookInv, HookTypeOK
<1>7. "rearming" \in HookSteps \ {"idle"}
  BY DEF HookSteps
<1>8. HookActorTypes' /\ \A c \in HookActors : HookActorFits(c)'
  BY <1>1, <1>2, <1>3, <1>4, <1>5, <1>6, <1>7, HookActorGoes
<1>9. hookRetries' \in 0..MaxHookRetries /\ hookLost' \in 0..MaxHookLost
  BY HookAssumption DEF AskHookRetry, HookInv, HookTypeOK
<1> QED
  BY <1>6, <1>8, <1>9, HookInvAssembled

\* What recording an attempt writes.
LEMMA HookRowRecording ==
    ASSUME HookInv, NEW a \in HookActors, SaveDelivery(a)
    PROVE  \E d \in Deliveries, n \in Nat \ {0}, row \in DeliveryRows :
               /\ d = HookCurrent(a) /\ n = hookNumber[a] /\ HookNumbered(d, n)
               /\ hookRows' = [hookRows EXCEPT ![d] = row]
               /\ row.count = n /\ row.recorded = hookRows[d].recorded \cup {n}
               /\ hookRows[d].status \in HookStored
               /\ \/ row.status = "SUCCESS" /\ d \in received
                  \/ row.status = "RETRYING" /\ n < MaxHookAttempts
                  \/ row.status = "EXHAUSTED" /\ n >= MaxHookAttempts
<1>1. hookPc[a] \in {"answered", "failed"} /\ hookRows[HookCurrent(a)].status \in HookStored
  BY DEF SaveDelivery
<1>2. PICK d \in Deliveries : d = HookCurrent(a)
  BY <1>1, HookCurrentOfBatch
<1>3. PICK n \in Nat \ {0} : n = hookNumber[a] /\ HookNumbered(d, n)
  BY <1>1, <1>2 DEF HookInv, HookActorFits, HookNumbered
<1>4. PICK status : status = IF hookPc[a] = "answered" THEN "SUCCESS" ELSE HookFailedStatus(n)
  OBVIOUS
<1>5. PICK row : row = HookRecorded(d, n, status)
  OBVIOUS
<1>6. hookRows' = [hookRows EXCEPT ![d] = row]
  BY <1>2, <1>3, <1>4, <1>5 DEF SaveDelivery
<1>7. hookRows[d] \in DeliveryRows
  BY DEF HookInv, HookTypeOK, DeliveryRows
<1>8. status \in {"SUCCESS", "RETRYING", "EXHAUSTED"}
  BY <1>4 DEF HookFailedStatus
<1>9. /\ row \in DeliveryRows /\ row.status = status
      /\ row.count = n /\ row.recorded = hookRows[d].recorded \cup {n}
  BY <1>5, <1>7, <1>8 DEF HookRecorded, DeliveryRows, HookStatuses
<1>10. hookPc[a] = "answered" => d \in received
  BY <1>2 DEF HookInv, HookActorFits
<1>11. \/ status = "SUCCESS" /\ d \in received
       \/ status = "RETRYING" /\ n < MaxHookAttempts
       \/ status = "EXHAUSTED" /\ n >= MaxHookAttempts
  BY <1>4, <1>10, HookAssumption DEF HookFailedStatus
<1> QED
  BY <1>1, <1>2, <1>3, <1>6, <1>9, <1>11

\* An attempt records its outcome under its number.
LEMMA SaveDeliveryKeeps ==
    ASSUME HookInv, NEW a \in HookActors, SaveDelivery(a)
    PROVE  HookInv'
<1>1. PICK d \in Deliveries, n \in Nat \ {0}, row \in DeliveryRows :
          /\ d = HookCurrent(a) /\ HookNumbered(d, n)
          /\ hookRows' = [hookRows EXCEPT ![d] = row]
          /\ row.count = n /\ row.recorded = hookRows[d].recorded \cup {n}
          /\ row.status \in HookStored
          /\ row.status = "EXHAUSTED" => n >= MaxHookAttempts
  BY HookRowRecording DEF HookStored
<1>2. PICK old \in DeliveryRows : old = hookRows[d] /\ HookRowFits(old)
  BY DEF HookInv, HookTypeOK, DeliveryRows
<1>3. 1..n \subseteq row.recorded
  <2>1. CASE n = 1
    BY <1>1, <2>1
  <2>2. CASE n # 1
    <3>1. 1..n - 1 \subseteq old.recorded
      BY <1>1, <1>2, <2>2 DEF HookRowFits, HookNumbered
    <3> QED
      BY <1>1, <1>2, <3>1
  <2> QED
    BY <2>1, <2>2
<1>4. \A m \in row.recorded : 1..m \subseteq row.recorded
  BY <1>1, <1>2, <1>3 DEF HookRowFits
<1>5. HookRowFits(row)
  BY <1>1, <1>3, <1>4, HookAssumption DEF HookRowFits
<1>6. HookRowGrows(hookRows[d], row)
  BY <1>1 DEF HookRowGrows, Enqueued, HookStored
<1>7. HookGrows /\ RowsFit'
  BY <1>1, <1>5, <1>6, HookRowWritten DEF SaveDelivery
<1>8. Tail(hookBatch[a]) \in Seq(Deliveries) /\ BatchEnqueued(Tail(hookBatch[a]))
  BY HookCurrentOfBatch DEF SaveDelivery
<1>9. HookActorTypes' /\ \A b \in HookActors : HookActorFits(b)'
  BY <1>7, <1>8, HookActorGoesOn DEF SaveDelivery
<1> QED
  BY <1>7, <1>9, HookInvAssembled DEF SaveDelivery, HookInv, HookTypeOK, hookHistory

\* What a retry by hand writes.
LEMMA RowRearmed ==
    ASSUME HookInv, NEW o \in HookOperators, RearmDelivery(o)
    PROVE  /\ o \in HookActors /\ hookPc[o] = "rearming"
           /\ \E d \in Deliveries, row \in DeliveryRows :
                  /\ d = HookCurrent(o)
                  /\ hookRows' = [hookRows EXCEPT ![d] = row]
                  /\ row.count = hookRows[d].count /\ row.recorded = hookRows[d].recorded
                  /\ row.status = "RETRYING"
                  /\ hookRows[d].status \in HookStored
                  /\ MaxHookAttempts \in hookRows[d].recorded
<1>1. o \in HookActors /\ hookPc[o] = "rearming"
  BY DEF RearmDelivery, HookActors
<1>2. PICK d \in Deliveries : d = HookCurrent(o)
  BY <1>1, HookCurrentOfBatch
<1>3. PICK row : row = [hookRows[d] EXCEPT !.status = "RETRYING", !.ready = TRUE]
  OBVIOUS
<1>4. hookRows[d] \in DeliveryRows
  BY DEF HookInv, HookTypeOK, DeliveryRows
<1>5. /\ row \in DeliveryRows /\ row.status = "RETRYING"
      /\ row.count = hookRows[d].count /\ row.recorded = hookRows[d].recorded
  BY <1>3, <1>4 DEF DeliveryRows, HookStatuses
<1>6. hookRows' = [hookRows EXCEPT ![d] = row] /\ hookRows[d].status \in HookStored
  BY <1>2, <1>3 DEF RearmDelivery
<1>7. MaxHookAttempts \in hookRows[d].recorded
  BY <1>1, <1>2 DEF HookInv, HookActorFits
<1> QED
  BY <1>1, <1>2, <1>5, <1>6, <1>7

\* A retry by hand writes its row.
LEMMA RearmDeliveryKeeps ==
    ASSUME HookInv, NEW o \in HookOperators, RearmDelivery(o)
    PROVE  HookInv'
<1>1. PICK d \in Deliveries, row \in DeliveryRows :
          /\ d = HookCurrent(o)
          /\ hookRows' = [hookRows EXCEPT ![d] = row]
          /\ row.count = hookRows[d].count /\ row.recorded = hookRows[d].recorded
          /\ row.status = "RETRYING"
  BY RowRearmed
<1>2. PICK old \in DeliveryRows : old = hookRows[d] /\ HookRowFits(old)
  BY DEF HookInv, HookTypeOK, DeliveryRows
<1>3. HookRowFits(row)
  BY <1>1, <1>2, HookRowKeeping
<1>4. HookRowGrows(hookRows[d], row)
  BY <1>1 DEF HookRowGrows, Enqueued
<1>5. HookGrows /\ RowsFit'
  BY <1>1, <1>3, <1>4, HookRowWritten DEF RearmDelivery
<1>6. o \in HookActors /\ hookPc[o] = "rearming"
  BY RowRearmed
<1>7. HookActorTypes' /\ \A b \in HookActors : HookActorFits(b)'
  BY <1>5, <1>6, CurrentBatch, HookActorGoesOn DEF RearmDelivery
<1> QED
  BY <1>5, <1>7, HookInvAssembled DEF RearmDelivery, HookInv, HookTypeOK, hookHistory

\* One step of any actor.
LEMMA HookStepKeeps ==
    ASSUME HookInv, [HookNext]_hookVars
    PROVE  HookInv'
<1>1. CASE UNCHANGED hookVars
  <2>1. /\ UNCHANGED <<hookRows, received, endpoint>> /\ UNCHANGED hookActors
        /\ UNCHANGED hookHistory
    BY <1>1 DEF hookVars
  <2>2. HookGrows /\ RowsFit'
    BY <2>1, NothingWritten DEF HookInv, HookTypeOK
  <2>3. HookActorTypes' /\ \A a \in HookActors : HookActorFits(a)'
    BY <2>1, <2>2, HookActorsStay
  <2> QED
    BY <2>1, <2>2, <2>3, HookInvAssembled DEF HookInv, HookTypeOK, hookHistory
<1> QED
  BY <1>1, EnqueueKeeps, SetEndpointStatusKeeps, RemoveEndpointKeeps, HookSweepKeeps,
     ReadDeliveryKeeps, PostDeliveryKeeps, SaveDeliveryKeeps, SkipsKeep, AskHookRetryKeeps,
     RearmDeliveryKeeps DEF HookNext, HookAttempt

\* There are no rows at first.
LEMMA HookInitKeeps ==
    ASSUME HookInit
    PROVE  HookInv
<1>1. NoDelivery \in DeliveryRows
  BY DEF NoDelivery, DeliveryRows, HookStatuses
<1>2. hookRows \in [Deliveries -> DeliveryRows]
  BY <1>1 DEF HookInit
<1>3. hookRetries \in 0..MaxHookRetries /\ hookLost \in 0..MaxHookLost
  BY HookAssumption DEF HookInit
<1>4. /\ hookPc \in [HookActors -> HookSteps]
      /\ hookNumber \in [HookActors -> Nat]
      /\ \A a \in HookActors : hookPc[a] = "idle" <=> hookBatch[a] = <<>>
  BY DEF HookInit, HookSteps
<1>5. hookBatch \in [HookActors -> Seq(Deliveries)]
  <2>1. <<>> \in Seq(Deliveries)
    OBVIOUS
  <2> QED
    BY <2>1 DEF HookInit
<1>6. endpoint \in {"ENABLED", "DISABLED", "removed"} /\ received \subseteq Deliveries
  BY DEF HookInit
<1>7. HookTypeOK
  BY <1>2, <1>3, <1>4, <1>5, <1>6 DEF HookTypeOK, DeliveryRows
<1>8. \A d \in Deliveries : HookRowFits(hookRows[d])
  BY DEF HookInit, HookRowFits, NoDelivery
<1>9. \A a \in HookActors : HookActorFits(a)
  BY DEF HookInit, HookActorFits, BatchEnqueued
<1> QED
  BY <1>7, <1>8, <1>9 DEF HookInv

-----------------------------------------------------------------------------
(* The dispatcher implements Outbox. *)

hookOutboxStill == UNCHANGED <<HookOutcome, received, HookRetriesOf>>

\* What the outbox sees of a row.
HookOutcomeOf(row) ==
    CASE row.status \in {"none", "checked"} -> "none"
      [] row.status = "SUCCESS" -> "done"
      [] row.status = "EXHAUSTED" -> "dead"
      [] row.status = "removed" -> "withdrawn"
      [] OTHER -> "open"

\* The row of d is written.
LEMMA HookRowSeen ==
    ASSUME HookInv, NEW d \in Deliveries, NEW row, hookRows' = [hookRows EXCEPT ![d] = row]
    PROVE  /\ HookOutcome' = [HookOutcome EXCEPT ![d] = HookOutcomeOf(row)]
           /\ HookRetriesOf' = [HookRetriesOf EXCEPT ![d] = row.recorded]
           /\ HookOutcome[d] = HookOutcomeOf(hookRows[d])
           /\ HookRetriesOf[d] = hookRows[d].recorded
           /\ HookRetriesOf'[d] = row.recorded
<1>1. \A c \in Deliveries : hookRows'[c] = IF c = d THEN row ELSE hookRows[c]
  BY DEF HookInv, HookTypeOK
<1>2. /\ HookOutcome' = [c \in Deliveries |-> HookOutcomeOf(hookRows'[c])]
      /\ HookRetriesOf' = [c \in Deliveries |-> hookRows'[c].recorded]
  BY DEF HookOutcome, HookOutcomeOf, HookRetriesOf
<1>3. /\ HookOutcome = [c \in Deliveries |-> HookOutcomeOf(hookRows[c])]
      /\ HookRetriesOf = [c \in Deliveries |-> hookRows[c].recorded]
  BY DEF HookOutcome, HookOutcomeOf, HookRetriesOf
<1>4. HookOutcome' = [HookOutcome EXCEPT ![d] = HookOutcomeOf(row)]
  BY <1>1, <1>2, <1>3
<1>5. HookRetriesOf' = [HookRetriesOf EXCEPT ![d] = row.recorded]
  BY <1>1, <1>2, <1>3
<1> QED
  BY <1>1, <1>2, <1>3, <1>4, <1>5

\* The outbox does not see a step that leaves rows and receipts.
LEMMA HookNothingSeen ==
    ASSUME UNCHANGED <<hookRows, received>>
    PROVE  hookOutboxStill
  BY DEF hookOutboxStill, HookOutcome, HookRetriesOf

\* Written again with its outcome and its record, a row shows nothing new.
LEMMA SameSeen ==
    ASSUME HookInv, NEW d \in Deliveries, NEW row, hookRows' = [hookRows EXCEPT ![d] = row],
           HookOutcomeOf(row) = HookOutcomeOf(hookRows[d]), row.recorded = hookRows[d].recorded,
           received' = received
    PROVE  hookOutboxStill
<1>1. \A c \in Deliveries : hookRows'[c] = IF c = d THEN row ELSE hookRows[c]
  BY DEF HookInv, HookTypeOK
<1>2. \A c \in Deliveries : HookOutcomeOf(hookRows'[c]) = HookOutcomeOf(hookRows[c])
  BY <1>1
<1>3. HookOutcome' = [c \in Deliveries |-> HookOutcomeOf(hookRows'[c])]
      /\ HookOutcome = [c \in Deliveries |-> HookOutcomeOf(hookRows[c])]
  BY DEF HookOutcome, HookOutcomeOf
<1>4. HookRetriesOf' = HookRetriesOf
  BY <1>1 DEF HookRetriesOf
<1> QED
  BY <1>2, <1>3, <1>4 DEF hookOutboxStill

\* A new row stores an item of the outbox, or is not seen.
LEMMA EnqueueMaps ==
    ASSUME HookInv, NEW d \in Deliveries,
           CheckEndpoint(d) \/ EnqueueDelivery(d) \/ HookRipen(d)
    PROVE  HookOutbox!OutboxNext \/ hookOutboxStill
<1>1. PICK old \in DeliveryRows : old = hookRows[d]
  BY DEF HookInv, HookTypeOK, DeliveryRows
<1>2. CASE CheckEndpoint(d)
  <2>1. PICK row : row = [old EXCEPT !.status = "checked"]
    OBVIOUS
  <2>2. hookRows' = [hookRows EXCEPT ![d] = row] /\ old.status = "none" /\ received' = received
    BY <1>1, <1>2, <2>1 DEF CheckEndpoint
  <2>3. HookOutcomeOf(row) = HookOutcomeOf(old) /\ row.recorded = old.recorded
    BY <2>1, <2>2 DEF HookOutcomeOf, DeliveryRows
  <2> QED
    BY <1>1, <2>2, <2>3, SameSeen
<1>3. CASE EnqueueDelivery(d)
  <2>1. PICK row : row = [old EXCEPT !.status = "PENDING"]
    OBVIOUS
  <2>2. hookRows' = [hookRows EXCEPT ![d] = row] /\ old.status = "checked" /\ received' = received
    BY <1>1, <1>3, <2>1 DEF EnqueueDelivery
  <2>3. HookOutcomeOf(row) = "open" /\ HookOutcomeOf(old) = "none" /\ row.recorded = old.recorded
    BY <2>1, <2>2 DEF HookOutcomeOf, DeliveryRows
  <2>4. /\ HookOutcome' = [HookOutcome EXCEPT ![d] = "open"]
        /\ HookOutcome[d] = "none"
        /\ HookRetriesOf' = [HookRetriesOf EXCEPT ![d] = HookRetriesOf[d]]
    <3>1. /\ HookOutcome' = [HookOutcome EXCEPT ![d] = HookOutcomeOf(row)]
          /\ HookRetriesOf' = [HookRetriesOf EXCEPT ![d] = row.recorded]
          /\ HookOutcome[d] = HookOutcomeOf(hookRows[d])
          /\ HookRetriesOf[d] = hookRows[d].recorded
      BY <2>2, HookRowSeen
    <3> QED
      BY <1>1, <2>3, <3>1
  <2>5. HookRetriesOf' = HookRetriesOf
    BY <2>4 DEF HookRetriesOf
  <2>6. HookOutbox!Accept(d)
    BY <2>2, <2>4, <2>5 DEF HookOutbox!Accept
  <2> QED
    BY <2>6 DEF HookOutbox!OutboxNext
<1>4. CASE HookRipen(d)
  <2>1. PICK row : row = [old EXCEPT !.ready = TRUE]
    OBVIOUS
  <2>2. hookRows' = [hookRows EXCEPT ![d] = row] /\ received' = received
    BY <1>1, <1>4, <2>1 DEF HookRipen
  <2>3. HookOutcomeOf(row) = HookOutcomeOf(old) /\ row.recorded = old.recorded
    BY <2>1 DEF HookOutcomeOf, DeliveryRows
  <2> QED
    BY <1>1, <2>2, <2>3, SameSeen
<1> QED
  BY <1>2, <1>3, <1>4

\* The deliveries of a removed endpoint are withdrawn together.
LEMMA RemoveEndpointMaps ==
    ASSUME HookInv, RemoveEndpoint
    PROVE  HookOutbox!OutboxNext
<1>1. PICK S \in SUBSET Deliveries : S = { d \in Deliveries : hookRows[d].status \in HookStored }
  OBVIOUS
<1>2. ASSUME NEW d \in Deliveries
      PROVE  /\ HookOutcomeOf(hookRows'[d]) = IF d \in S THEN "withdrawn" ELSE HookOutcomeOf(hookRows[d])
             /\ hookRows'[d].recorded = hookRows[d].recorded
  <2>1. PICK old \in DeliveryRows : old = hookRows[d]
    BY DEF HookInv, HookTypeOK, DeliveryRows
  <2>2. CASE d \in S
    <3>1. hookRows'[d] = [old EXCEPT !.status = "removed"]
      BY <1>1, <2>1, <2>2 DEF RemoveEndpoint
    <3> QED
      BY <2>1, <2>2, <3>1 DEF HookOutcomeOf, DeliveryRows
  <2>3. CASE d \notin S
    <3>1. hookRows'[d] = hookRows[d]
      BY <1>1, <2>3 DEF RemoveEndpoint
    <3> QED
      BY <2>3, <3>1
  <2> QED
    BY <2>2, <2>3
<1>3. /\ HookOutcome' = [d \in Deliveries |-> HookOutcomeOf(hookRows'[d])]
      /\ HookOutcome = [d \in Deliveries |-> HookOutcomeOf(hookRows[d])]
  BY DEF HookOutcome, HookOutcomeOf
<1>4. HookOutcome' = [d \in Deliveries |-> IF d \in S THEN "withdrawn" ELSE HookOutcome[d]]
  BY <1>2, <1>3
<1>5. HookRetriesOf' = HookRetriesOf
  BY <1>2 DEF HookRetriesOf
<1>6. HookOutbox!Withdraw(S)
  BY <1>4, <1>5 DEF HookOutbox!Withdraw, RemoveEndpoint
<1> QED
  BY <1>6 DEF HookOutbox!OutboxNext

\* A post that arrives is an effect of the outbox, or is not seen.
LEMMA PostDeliveryMaps ==
    ASSUME HookInv, NEW a \in HookActors, PostDelivery(a)
    PROVE  HookOutbox!OutboxNext \/ hookOutboxStill
<1>1. PICK d \in Deliveries : d = HookCurrent(a) /\ Enqueued(hookRows[d])
  BY HookCurrentOfBatch DEF PostDelivery
<1>2. hookRows' = hookRows
  BY DEF PostDelivery
<1>3. HookOutcome' = HookOutcome /\ HookRetriesOf' = HookRetriesOf
  BY <1>2 DEF HookOutcome, HookRetriesOf
<1>4. CASE received' = received
  BY <1>3, <1>4 DEF hookOutboxStill
<1>5. CASE received' = received \cup {d}
  <2>1. HookOutcome[d] # "none"
    BY <1>1 DEF HookOutcome, Enqueued
  <2>2. HookOutbox!TakeEffect(d)
    BY <1>3, <1>5, <2>1 DEF HookOutbox!TakeEffect
  <2> QED
    BY <2>2 DEF HookOutbox!OutboxNext
<1> QED
  BY <1>1, <1>4, <1>5 DEF PostDelivery

\* An outcome is recorded in the outbox.
LEMMA SaveDeliveryMaps ==
    ASSUME HookInv, NEW a \in HookActors, SaveDelivery(a)
    PROVE  HookOutbox!OutboxNext
<1>1. PICK d \in Deliveries, n \in Nat \ {0}, row \in DeliveryRows :
          /\ HookNumbered(d, n)
          /\ hookRows' = [hookRows EXCEPT ![d] = row]
          /\ row.recorded = hookRows[d].recorded \cup {n}
          /\ hookRows[d].status \in HookStored
          /\ \/ row.status = "SUCCESS" /\ d \in received
             \/ row.status = "RETRYING" /\ n < MaxHookAttempts
             \/ row.status = "EXHAUSTED" /\ n >= MaxHookAttempts
  BY HookRowRecording
<1>2. /\ HookOutcome' = [HookOutcome EXCEPT ![d] = HookOutcomeOf(row)]
      /\ HookRetriesOf' = [HookRetriesOf EXCEPT ![d] = row.recorded]
      /\ HookOutcome[d] = HookOutcomeOf(hookRows[d])
      /\ HookRetriesOf[d] = hookRows[d].recorded
      /\ HookRetriesOf'[d] = row.recorded
  BY <1>1, HookRowSeen
<1>3. HookOutcome[d] \in {"open", "done", "dead"}
  BY <1>1, <1>2 DEF HookOutcomeOf, HookStored
<1>4. PICK result \in {"open", "done", "dead"} :
          /\ result = HookOutcomeOf(row)
          /\ \/ result = "done" /\ d \in received
             \/ result = "open" /\ n < MaxHookAttempts
             \/ result = "dead" /\ n >= MaxHookAttempts
  BY <1>1 DEF HookOutcomeOf
<1>5. received' = received
  BY DEF SaveDelivery
<1>6. HookOutbox!RecordAttempt(d, n, result)
  BY <1>1, <1>2, <1>3, <1>4, <1>5 DEF HookOutbox!RecordAttempt, HookNumbered
<1>7. n \in HookRetriesOf'[d]
  BY <1>1, <1>2
<1> QED
  BY <1>6, <1>7 DEF HookOutbox!OutboxNext

\* A retry by hand re-arms an item of the outbox, or is not seen.
LEMMA RearmDeliveryMaps ==
    ASSUME HookInv, NEW o \in HookOperators, RearmDelivery(o)
    PROVE  HookOutbox!OutboxNext
<1>1. PICK d \in Deliveries, row \in DeliveryRows :
          /\ hookRows' = [hookRows EXCEPT ![d] = row]
          /\ row.recorded = hookRows[d].recorded
          /\ row.status = "RETRYING"
          /\ hookRows[d].status \in HookStored
          /\ MaxHookAttempts \in hookRows[d].recorded
  BY RowRearmed
<1>2. /\ HookOutcome' = [HookOutcome EXCEPT ![d] = HookOutcomeOf(row)]
      /\ HookRetriesOf' = [HookRetriesOf EXCEPT ![d] = HookRetriesOf[d]]
      /\ HookOutcome[d] = HookOutcomeOf(hookRows[d])
      /\ HookRetriesOf[d] = hookRows[d].recorded
  <2>1. hookRows' = [hookRows EXCEPT ![d] = row] /\ row.recorded = hookRows[d].recorded
    BY <1>1
  <2>2. /\ HookOutcome' = [HookOutcome EXCEPT ![d] = HookOutcomeOf(row)]
        /\ HookRetriesOf' = [HookRetriesOf EXCEPT ![d] = row.recorded]
        /\ HookOutcome[d] = HookOutcomeOf(hookRows[d])
        /\ HookRetriesOf[d] = hookRows[d].recorded
    BY <2>1, HookRowSeen
  <2> QED
    BY <2>1, <2>2
<1>3. HookOutcome[d] \in {"open", "done", "dead"} /\ HookOutcomeOf(row) = "open"
  BY <1>1, <1>2 DEF HookOutcomeOf, HookStored
<1>4. HookRetriesOf' = HookRetriesOf
  BY <1>2 DEF HookRetriesOf
<1>5. received' = received
  BY DEF RearmDelivery
<1>6. HookOutbox!Reopen(d)
  BY <1>1, <1>2, <1>3, <1>4, <1>5 DEF HookOutbox!Reopen
<1> QED
  BY <1>6 DEF HookOutbox!OutboxNext

\* An initial state is one of the outbox.
LEMMA HookInitMaps ==
    ASSUME HookInit
    PROVE  HookOutbox!OutboxInit
  BY DEF HookInit, HookOutbox!OutboxInit, HookOutcome, HookRetriesOf, NoDelivery

\* Every step is one of the outbox or is not seen.
LEMMA HookStepMaps ==
    ASSUME HookInv, [HookNext]_hookVars
    PROVE  [HookOutbox!OutboxNext]_(HookOutbox!outboxVars)
<1>1. hookOutboxStill => UNCHANGED HookOutbox!outboxVars
  BY DEF hookOutboxStill, HookOutbox!outboxVars
<1>2. CASE UNCHANGED hookVars
  BY <1>1, <1>2, HookNothingSeen DEF hookVars
<1>3. CASE SetEndpointStatus
  BY <1>1, <1>3, HookNothingSeen DEF SetEndpointStatus
<1>4. ASSUME NEW w \in HookWorkers, HookSweep(w) PROVE hookOutboxStill
  BY <1>4, HookNothingSeen DEF HookSweep
<1>5. ASSUME NEW a \in HookActors, ReadDelivery(a) \/ SkipRemoved(a) \/ LoseDelivery(a)
      PROVE  hookOutboxStill
  BY <1>5, HookNothingSeen DEF ReadDelivery, SkipRemoved, LoseDelivery
<1>6. ASSUME NEW o \in HookOperators, NEW d \in Deliveries, AskHookRetry(o, d)
      PROVE  hookOutboxStill
  BY <1>6, HookNothingSeen DEF AskHookRetry
<1> QED
  BY <1>1, <1>2, <1>3, <1>4, <1>5, <1>6, EnqueueMaps, RemoveEndpointMaps, PostDeliveryMaps,
     SaveDeliveryMaps, RearmDeliveryMaps DEF HookNext, HookAttempt

-----------------------------------------------------------------------------
(* The theorems. *)

\* The rows, batches and attempts of the dispatcher have their types in every reachable
\* state, also when an endpoint is removed under its attempts.
THEOREM HookTypeCorrect == HookSpec => []HookTypeOK
<1>1. HookInv => HookTypeOK
  BY DEF HookInv
<1> QED
  BY <1>1, HookInitKeeps, HookStepKeeps, PTL DEF HookSpec

\* The dispatcher keeps the promise of an outbox: a delivery is a success only if it was
\* received, exhausted only with all its attempts on record and numbered without gaps,
\* reopened by hand only after that, and left alone once it is withdrawn.
THEOREM HookRefinesOutbox == HookSpec => HookImplementsOutbox
<1>1. HookInv /\ [HookNext]_hookVars => HookInv'
  BY HookStepKeeps
<1>2. HookInv /\ [HookNext]_hookVars => [HookOutbox!OutboxNext]_(HookOutbox!outboxVars)
  BY HookStepMaps
<1>3. HookInit => HookInv /\ HookOutbox!OutboxInit
  BY HookInitKeeps, HookInitMaps
<1> QED
  BY <1>1, <1>2, <1>3, PTL DEF HookSpec, HookImplementsOutbox, HookOutbox!OutboxSpec
================================================================================
