--------------------------- MODULE SyncEngineProofs ---------------------------
(***************************************************************************)
(* Theorems about SyncEngine, for any number of events, sweeps, operators, *)
(* attempts and retries: it is typed, it books an event once, and it       *)
(* implements Outbox.                                                      *)
(***************************************************************************)
EXTENDS SyncEngine, SequenceTheorems, TLAPS

-----------------------------------------------------------------------------
(* The inductive invariant. *)

Entities == [ event : FinancialEvents, kind : CallSteps, key : FinancialEvents \X CallSteps ]

HasEntity(e, kind) == \E x \in erp : x.event = e /\ x.kind = kind

SyncRows ==
    [ status : SyncStatuses, provider : Providers, charge : BOOLEAN, count : Nat,
      ready : BOOLEAN, error : {"none", "open", "resolved"}, recorded : SUBSET (Nat \ {0}) ]

\* Every entity was created under the key of its event and kind.
ErpKeyed ==
    /\ erp \subseteq Entities
    /\ \A x \in erp : x.key = <<x.event, x.kind>>

\* The attempts on record are numbered from 1 without gaps, the count is one of them, and
\* a dead letter has had all of its attempts.
SyncRowFits(row) ==
    /\ row.count = 0 \/ row.count \in row.recorded
    /\ \A n \in row.recorded : 1..n \subseteq row.recorded
    /\ row.status = "DEAD_LETTER" => MaxSyncAttempts \in row.recorded

\* Number n is that of an attempt of e on record, or of the next one.
SyncNumbered(e, n) ==
    /\ n \in Nat \ {0}
    /\ n = 1 \/ n - 1 \in syncRows[e].recorded

\* The events of a batch have rows.
BatchStored(b) == \A i \in 1..Len(b) : syncRows[b[i]].status # "none"

\* What actor a knows of its current event in each of its steps.
SyncActorFits(a) ==
    LET e == SyncCurrent(a)
    IN  /\ BatchStored(syncBatch[a])
        /\ syncPc[a] \notin {"idle", "rearming", "reading"} => SyncNumbered(e, syncNumber[a])
        /\ syncPc[a] = "rearming" => MaxSyncAttempts \in syncRows[e].recorded
        /\ syncPc[a] \in {"receipt", "payment"} => HasEntity(e, "invoice")
        /\ syncPc[a] = "payment" => HasEntity(e, "receipt")
        /\ syncPc[a] = "succeeded" => Booked(e)

SyncInv ==
    /\ SyncTypeOK
    /\ ErpKeyed
    /\ \A e \in FinancialEvents : SyncRowFits(syncRows[e])
    /\ \A a \in SyncActors : SyncActorFits(a)

-----------------------------------------------------------------------------
(* What a step does to rows and entities: they stay, with all they record. *)

SyncRowGrows(old, new) ==
    /\ new.status # "none" /\ new.provider = old.provider /\ new.charge = old.charge
    /\ old.recorded \subseteq new.recorded

SyncGrows ==
    /\ erp \subseteq erp'
    /\ \A e \in FinancialEvents :
           syncRows[e].status # "none" => SyncRowGrows(syncRows[e], syncRows'[e])

\* Actor a stays where it is.
SyncActorStays(a) ==
    syncPc'[a] = syncPc[a] /\ syncBatch'[a] = syncBatch[a] /\ syncNumber'[a] = syncNumber[a]

\* An actor at work has an event in hand, the first of its batch.
LEMMA SyncCurrentOfBatch ==
    ASSUME SyncTypeOK, NEW a \in SyncActors, syncPc[a] # "idle"
    PROVE  /\ syncBatch[a] \in Seq(FinancialEvents) /\ syncBatch[a] # <<>>
           /\ SyncCurrent(a) \in FinancialEvents
           /\ SyncCurrent(a) = syncBatch[a][1] /\ 1 \in 1..Len(syncBatch[a])
           /\ Tail(syncBatch[a]) \in Seq(FinancialEvents)
           /\ \A i \in 1..Len(Tail(syncBatch[a])) :
                  i + 1 \in 1..Len(syncBatch[a]) /\ Tail(syncBatch[a])[i] = syncBatch[a][i + 1]
<1>1. syncBatch[a] \in Seq(FinancialEvents) /\ syncBatch[a] # <<>>
  BY DEF SyncTypeOK
<1>2. Len(syncBatch[a]) \in Nat \ {0}
  BY <1>1, EmptySeq
<1>3. /\ Head(syncBatch[a]) \in FinancialEvents
      /\ Tail(syncBatch[a]) \in Seq(FinancialEvents)
      /\ Len(Tail(syncBatch[a])) = Len(syncBatch[a]) - 1
      /\ \A i \in 1..Len(Tail(syncBatch[a])) : Tail(syncBatch[a])[i] = syncBatch[a][i + 1]
  BY <1>1, HeadTailProperties
<1>4. Head(syncBatch[a]) = syncBatch[a][1]
  BY <1>1
<1> QED
  BY <1>1, <1>2, <1>3, <1>4 DEF SyncCurrent

\* What is known of an event remains so when rows and entities grow.
LEMMA GrowthKeeps ==
    ASSUME SyncGrows, NEW e \in FinancialEvents, syncRows[e].status # "none"
    PROVE  /\ syncRows'[e].status # "none"
           /\ syncRows[e].recorded \subseteq syncRows'[e].recorded
           /\ \A n : SyncNumbered(e, n) => SyncNumbered(e, n)'
           /\ \A kind : HasEntity(e, kind) => HasEntity(e, kind)'
           /\ Booked(e) => Booked(e)'
<1>1. SyncRowGrows(syncRows[e], syncRows'[e]) /\ erp \subseteq erp'
  BY DEF SyncGrows
<1>2. \A n : SyncNumbered(e, n) => SyncNumbered(e, n)'
  BY <1>1 DEF SyncNumbered, SyncRowGrows
<1>3. \A kind : HasEntity(e, kind) => HasEntity(e, kind)'
  BY <1>1 DEF HasEntity
<1>4. Booked(e) => Booked(e)'
  BY <1>1 DEF Booked, SyncRowGrows
<1> QED
  BY <1>1, <1>2, <1>3, <1>4 DEF SyncRowGrows

\* An actor that stays still fits when rows and entities grow.
LEMMA SyncStayingFits ==
    ASSUME SyncTypeOK, SyncGrows, NEW a \in SyncActors, SyncActorFits(a), SyncActorStays(a)
    PROVE  SyncActorFits(a)'
<1>1. SyncCurrent(a)' = SyncCurrent(a)
  BY DEF SyncActorStays, SyncCurrent
<1>2. BatchStored(syncBatch[a])'
  <2>1. \A i \in 1..Len(syncBatch[a]) : syncBatch[a][i] \in FinancialEvents
    BY ElementOfSeq DEF SyncTypeOK
  <2> QED
    BY <2>1 DEF SyncActorStays, SyncActorFits, BatchStored, SyncGrows, SyncRowGrows
<1>3. CASE syncPc[a] = "idle"
  BY <1>2, <1>3 DEF SyncActorFits, SyncActorStays
<1>4. CASE syncPc[a] # "idle"
  <2>1. SyncCurrent(a) \in FinancialEvents /\ syncRows[SyncCurrent(a)].status # "none"
    BY <1>4, SyncCurrentOfBatch DEF SyncActorFits, BatchStored
  <2>2. PICK e \in FinancialEvents : e = SyncCurrent(a)
    BY <2>1
  <2>3. /\ syncRows[e].recorded \subseteq syncRows'[e].recorded
        /\ \A n : SyncNumbered(e, n) => SyncNumbered(e, n)'
        /\ \A kind : HasEntity(e, kind) => HasEntity(e, kind)'
        /\ Booked(e) => Booked(e)'
    BY <2>1, <2>2, GrowthKeeps
  <2> QED
    BY <1>1, <1>2, <2>2, <2>3 DEF SyncActorFits, SyncActorStays
<1> QED
  BY <1>3, <1>4

-----------------------------------------------------------------------------
(* Steps that write a row. *)

\* A row that fits, and that only grows, is written.
LEMMA SyncRowWritten ==
    ASSUME SyncInv, NEW e \in FinancialEvents, NEW row \in SyncRows,
           syncRows' = [syncRows EXCEPT ![e] = row], erp' = erp,
           SyncRowFits(row), syncRows[e].status # "none" => SyncRowGrows(syncRows[e], row)
    PROVE  /\ SyncGrows
           /\ syncRows' \in [FinancialEvents -> SyncRows]
           /\ \A f \in FinancialEvents : SyncRowFits(syncRows'[f])
           /\ ErpKeyed'
<1>1. syncRows \in [FinancialEvents -> SyncRows]
  BY DEF SyncInv, SyncTypeOK, SyncRows
<1>2. \A f \in FinancialEvents : syncRows'[f] = IF f = e THEN row ELSE syncRows[f]
  BY <1>1
<1>3. syncRows' \in [FinancialEvents -> SyncRows]
  BY <1>1
<1>4. SyncGrows
  BY <1>2 DEF SyncGrows, SyncRowGrows
<1>5. \A f \in FinancialEvents : SyncRowFits(syncRows'[f])
  BY <1>2 DEF SyncInv
<1>6. ErpKeyed'
  BY DEF SyncInv, ErpKeyed, Entities
<1> QED
  BY <1>3, <1>4, <1>5, <1>6

\* A row that only gets a provider, or ripens, or is reopened.
LEMMA SyncRowKeeping ==
    ASSUME NEW old \in SyncRows, NEW new,
           \/ \E p \in Providers, c \in BOOLEAN :
                  new = [old EXCEPT !.status = "PENDING", !.provider = p, !.charge = c]
           \/ new = [old EXCEPT !.ready = TRUE]
           \/ new = [old EXCEPT !.status = "PENDING", !.ready = TRUE, !.error = "resolved"]
    PROVE  /\ new \in SyncRows
           /\ new.count = old.count /\ new.recorded = old.recorded
           /\ new.status \in {"PENDING", old.status}
<1>1. CASE \E p \in Providers, c \in BOOLEAN :
               new = [old EXCEPT !.status = "PENDING", !.provider = p, !.charge = c]
  BY <1>1 DEF SyncRows, SyncStatuses
<1>2. CASE new = [old EXCEPT !.ready = TRUE]
  BY <1>2 DEF SyncRows
<1>3. CASE new = [old EXCEPT !.status = "PENDING", !.ready = TRUE, !.error = "resolved"]
  BY <1>3 DEF SyncRows, SyncStatuses
<1> QED
  BY <1>1, <1>2, <1>3

\* A row on which the n-th attempt is recorded.
LEMMA SyncRowRecording ==
    ASSUME NEW old \in SyncRows, NEW n \in Nat \ {0}, NEW new,
           new \in {SucceededRow(old, n), FailedRow(old, n)}
    PROVE  /\ new \in SyncRows
           /\ new.provider = old.provider /\ new.charge = old.charge
           /\ new.recorded = old.recorded \cup {n}
           /\ new.status # "none"
           /\ new.count \in {old.count, n}
           /\ new.status = "DEAD_LETTER" => n >= MaxSyncAttempts
<1>1. CASE new = SucceededRow(old, n)
  BY <1>1 DEF SyncRows, SyncStatuses, SucceededRow
<1>2. CASE new = FailedRow(old, n)
  <2>1. SyncFailedStatus(n) \in {"RETRYING", "DEAD_LETTER"}
        /\ (SyncFailedStatus(n) = "DEAD_LETTER" => n >= MaxSyncAttempts)
    BY SyncAssumption DEF SyncFailedStatus
  <2> QED
    BY <1>2, <2>1 DEF SyncRows, SyncStatuses, FailedRow
<1> QED
  BY <1>1, <1>2

\* Recording attempt number n, which is the next or one recorded already, fits.
LEMMA RecordingFits ==
    ASSUME NEW old \in SyncRows, SyncRowFits(old), NEW n \in Nat \ {0}, NEW new,
           n = 1 \/ n - 1 \in old.recorded,
           new.recorded = old.recorded \cup {n}, new.count \in {old.count, n},
           new.status = "DEAD_LETTER" => n >= MaxSyncAttempts
    PROVE  SyncRowFits(new)
<1>1. 1..n \subseteq new.recorded
  <2>1. CASE n = 1
    BY <2>1
  <2>2. CASE n # 1
    <3>1. 1..n - 1 \subseteq old.recorded
      BY <2>2 DEF SyncRowFits
    <3> QED
      BY <3>1
  <2> QED
    BY <2>1, <2>2
<1>2. \A m \in new.recorded : 1..m \subseteq new.recorded
  BY <1>1 DEF SyncRowFits
<1>3. new.status = "DEAD_LETTER" => MaxSyncAttempts \in new.recorded
  BY <1>1, SyncAssumption
<1> QED
  BY <1>2, <1>3 DEF SyncRowFits

-----------------------------------------------------------------------------
(* Steps that move an actor. *)

SyncActorTypes ==
    /\ syncPc \in [SyncActors -> SyncSteps]
    /\ syncBatch \in [SyncActors -> Seq(FinancialEvents)]
    /\ \A a \in SyncActors : syncPc[a] = "idle" <=> syncBatch[a] = <<>>
    /\ syncNumber \in [SyncActors -> Nat]

\* No actor moves.
LEMMA SyncActorsStay ==
    ASSUME SyncInv, SyncGrows, UNCHANGED syncActors
    PROVE  SyncActorTypes' /\ \A a \in SyncActors : SyncActorFits(a)'
<1>1. SyncActorTypes'
  BY DEF SyncInv, SyncTypeOK, SyncActorTypes, syncActors
<1>2. ASSUME NEW a \in SyncActors PROVE SyncActorFits(a)'
  BY SyncStayingFits DEF SyncInv, SyncActorStays, syncActors
<1> QED
  BY <1>1, <1>2

\* Actor a goes on with `rest`; what is left of a batch has rows if the batch had.
LEMMA SyncActorGoesOn ==
    ASSUME SyncInv, SyncGrows, NEW a \in SyncActors, NEW rest \in Seq(FinancialEvents),
           BatchStored(rest), SyncGoOn(a, rest)
    PROVE  SyncActorTypes' /\ \A b \in SyncActors : SyncActorFits(b)'
<1>1. /\ syncBatch' = [syncBatch EXCEPT ![a] = rest]
      /\ syncPc' = [syncPc EXCEPT ![a] = IF rest = <<>> THEN "idle" ELSE "reading"]
      /\ syncNumber' = [syncNumber EXCEPT ![a] = 0]
  BY DEF SyncGoOn, SyncGoto
<1>2. SyncActorTypes
  BY DEF SyncInv, SyncTypeOK, SyncActorTypes
<1>3. SyncActorTypes'
  BY <1>1, <1>2 DEF SyncActorTypes, SyncSteps
<1>4. ASSUME NEW b \in SyncActors, b # a PROVE SyncActorFits(b)'
  BY <1>1, <1>2, <1>4, SyncStayingFits DEF SyncInv, SyncActorStays, SyncActorTypes
<1>5. SyncActorFits(a)'
  <2>1. syncPc'[a] \in {"idle", "reading"} /\ syncBatch'[a] = rest
    BY <1>1, <1>2 DEF SyncActorTypes
  <2>2. BatchStored(rest)'
    <3>1. \A i \in 1..Len(rest) : rest[i] \in FinancialEvents
      BY ElementOfSeq
    <3> QED
      BY <3>1 DEF BatchStored, SyncGrows, SyncRowGrows
  <2> QED
    BY <2>1, <2>2 DEF SyncActorFits
<1> QED
  BY <1>3, <1>4, <1>5

\* The rest of a batch of stored events is one too.
LEMMA TailStored ==
    ASSUME SyncInv, NEW a \in SyncActors, syncPc[a] # "idle"
    PROVE  /\ Tail(syncBatch[a]) \in Seq(FinancialEvents)
           /\ BatchStored(Tail(syncBatch[a]))
           /\ SyncCurrent(a) \in FinancialEvents
           /\ syncRows[SyncCurrent(a)].status # "none"
  BY SyncCurrentOfBatch DEF SyncInv, SyncActorFits, BatchStored

\* Actor a goes on with its current event, and knows what the next step asks for.
LEMMA SyncActorGoes ==
    ASSUME SyncInv, SyncGrows, NEW a \in SyncActors, syncPc[a] # "idle",
           NEW step \in SyncSteps \ {"idle", "rearming", "reading"},
           NEW n \in Nat, SyncGoto(a, step), UNCHANGED syncBatch,
           syncNumber' = [syncNumber EXCEPT ![a] = n],
           NEW e \in FinancialEvents, e = SyncCurrent(a), SyncNumbered(e, n),
           step \in {"receipt", "payment"} => HasEntity(e, "invoice")',
           step = "payment" => HasEntity(e, "receipt")',
           step = "succeeded" => Booked(e)'
    PROVE  SyncActorTypes' /\ \A b \in SyncActors : SyncActorFits(b)'
<1>1. syncPc' = [syncPc EXCEPT ![a] = step]
  BY DEF SyncGoto
<1>2. SyncActorTypes
  BY DEF SyncInv, SyncTypeOK, SyncActorTypes
<1>3. SyncActorTypes'
  BY <1>1, <1>2 DEF SyncActorTypes
<1>4. ASSUME NEW b \in SyncActors, b # a PROVE SyncActorFits(b)'
  BY <1>1, <1>2, <1>4, SyncStayingFits DEF SyncInv, SyncActorStays, SyncActorTypes
<1>5. SyncActorFits(a)'
  <2>1. syncPc'[a] = step /\ syncBatch'[a] = syncBatch[a] /\ syncNumber'[a] = n
    BY <1>1, <1>2 DEF SyncActorTypes
  <2>2. SyncCurrent(a)' = e
    BY <2>1 DEF SyncCurrent
  <2>3. BatchStored(syncBatch[a])'
    <3>1. \A i \in 1..Len(syncBatch[a]) : syncBatch[a][i] \in FinancialEvents
      BY <1>2, ElementOfSeq DEF SyncActorTypes
    <3> QED
      BY <3>1 DEF SyncInv, SyncActorFits, BatchStored, SyncGrows, SyncRowGrows
  <2>4. SyncNumbered(e, n)'
    BY TailStored, GrowthKeeps
  <2> QED
    BY <2>1, <2>2, <2>3, <2>4 DEF SyncActorFits, SyncSteps
<1> QED
  BY <1>3, <1>4, <1>5

-----------------------------------------------------------------------------
(* Every step preserves the invariant. *)

\* Steps that write no row and create no entity.
LEMMA NothingGrows ==
    ASSUME SyncInv, UNCHANGED <<syncRows, erp>>
    PROVE  /\ SyncGrows
           /\ syncRows' \in [FinancialEvents -> SyncRows]
           /\ \A f \in FinancialEvents : SyncRowFits(syncRows'[f])
           /\ ErpKeyed'
<1>1. SyncGrows
  BY DEF SyncGrows, SyncRowGrows
<1> QED
  BY <1>1 DEF SyncInv, SyncTypeOK, SyncRows, ErpKeyed, Entities

\* The parts of the invariant make it up.
LEMMA SyncInvAssembled ==
    ASSUME syncRows' \in [FinancialEvents -> SyncRows], connected' \in BOOLEAN, ErpKeyed',
           \A f \in FinancialEvents : SyncRowFits(syncRows'[f]),
           SyncActorTypes', \A a \in SyncActors : SyncActorFits(a)',
           syncRetries' \in 0..MaxSyncRetries, syncLost' \in 0..MaxSyncLost
    PROVE  SyncInv'
<1>1. \A x \in erp' : x.event \in FinancialEvents /\ x.kind \in CallSteps
  BY DEF ErpKeyed, Entities
<1>2. SyncTypeOK'
  BY <1>1 DEF SyncTypeOK, SyncRows, SyncActorTypes
<1> QED
  BY <1>2 DEF SyncInv

\* A new event gets its sync row.
LEMMA RecordEventKeeps ==
    ASSUME SyncInv, NEW e \in FinancialEvents, RecordEvent(e)
    PROVE  SyncInv'
<1>1. PICK p \in Providers, c \in BOOLEAN :
          syncRows' = [syncRows EXCEPT ![e] =
              [@ EXCEPT !.status = "PENDING", !.provider = p, !.charge = c]]
  BY DEF RecordEvent
<1> DEFINE row == [syncRows[e] EXCEPT !.status = "PENDING", !.provider = p, !.charge = c]
<1>2. syncRows[e] \in SyncRows /\ SyncRowFits(syncRows[e])
  BY DEF SyncInv, SyncTypeOK, SyncRows
<1>3. row \in SyncRows /\ row.count = syncRows[e].count /\ row.recorded = syncRows[e].recorded
  BY <1>2, SyncRowKeeping
<1>4. row.status = "PENDING"
  BY <1>2 DEF SyncRows
<1>5. SyncRowFits(row)
  BY <1>2, <1>3, <1>4 DEF SyncRowFits
<1>6. syncRows' = [syncRows EXCEPT ![e] = row]
  BY <1>1
<1>7. syncRows[e].status = "none"
  BY DEF RecordEvent
<1> HIDE DEF row
<1>8. /\ SyncGrows
      /\ syncRows' \in [FinancialEvents -> SyncRows]
      /\ \A f \in FinancialEvents : SyncRowFits(syncRows'[f])
      /\ ErpKeyed'
  BY <1>3, <1>5, <1>6, <1>7, SyncRowWritten DEF RecordEvent
<1>9. SyncActorTypes' /\ \A a \in SyncActors : SyncActorFits(a)'
  BY <1>8, SyncActorsStay DEF RecordEvent
<1> QED
  BY <1>8, <1>9, SyncInvAssembled DEF RecordEvent, SyncInv, SyncTypeOK, syncHistory

\* The wait of a row is over.
LEMMA SyncRipenKeeps ==
    ASSUME SyncInv, NEW e \in FinancialEvents, SyncRipen(e)
    PROVE  SyncInv'
<1> DEFINE row == [syncRows[e] EXCEPT !.ready = TRUE]
<1>1. syncRows[e] \in SyncRows /\ SyncRowFits(syncRows[e])
  BY DEF SyncInv, SyncTypeOK, SyncRows
<1>2. row \in SyncRows /\ row.count = syncRows[e].count /\ row.recorded = syncRows[e].recorded
  BY <1>1, SyncRowKeeping
<1>3. /\ row.status = syncRows[e].status
      /\ row.provider = syncRows[e].provider /\ row.charge = syncRows[e].charge
  BY <1>1 DEF SyncRows
<1>4. SyncRowFits(row)
  BY <1>1, <1>2, <1>3 DEF SyncRowFits
<1>5. syncRows' = [syncRows EXCEPT ![e] = row]
  BY DEF SyncRipen
<1> HIDE DEF row
<1>6. syncRows[e].status # "none" => SyncRowGrows(syncRows[e], row)
  BY <1>2, <1>3 DEF SyncRowGrows
<1>7. /\ SyncGrows
      /\ syncRows' \in [FinancialEvents -> SyncRows]
      /\ \A f \in FinancialEvents : SyncRowFits(syncRows'[f])
      /\ ErpKeyed'
  BY <1>2, <1>4, <1>5, <1>6, SyncRowWritten DEF SyncRipen
<1>8. SyncActorTypes' /\ \A a \in SyncActors : SyncActorFits(a)'
  BY <1>7, SyncActorsStay DEF SyncRipen
<1> QED
  BY <1>7, <1>8, SyncInvAssembled DEF SyncRipen, SyncInv, SyncTypeOK, syncHistory

\* The connection to the ERP is made or broken.
LEMMA ConnectionKeeps ==
    ASSUME SyncInv, TestConnection \/ DropConnection
    PROVE  SyncInv'
<1>1. UNCHANGED <<syncRows, erp>> /\ UNCHANGED syncActors /\ connected' \in BOOLEAN
      /\ UNCHANGED syncHistory
  BY DEF TestConnection, DropConnection
<1>2. /\ SyncGrows
      /\ syncRows' \in [FinancialEvents -> SyncRows]
      /\ \A f \in FinancialEvents : SyncRowFits(syncRows'[f])
      /\ ErpKeyed'
  BY <1>1, NothingGrows
<1>3. SyncActorTypes' /\ \A a \in SyncActors : SyncActorFits(a)'
  BY <1>1, <1>2, SyncActorsStay
<1> QED
  BY <1>1, <1>2, <1>3, SyncInvAssembled DEF SyncInv, SyncTypeOK, syncHistory

\* A sweep takes the rows that are due.
LEMMA SyncSweepKeeps ==
    ASSUME SyncInv, NEW w \in SyncWorkers, SyncSweep(w)
    PROVE  SyncInv'
<1>1. PICK b \in SyncBatches : SyncDueBatch(b) /\ SyncGoOn(w, b)
  BY DEF SyncSweep
<1>2. PICK n \in 1..SyncBatchSize : b \in [1..n -> FinancialEvents]
  BY DEF SyncBatches
<1>3. b \in Seq(FinancialEvents) /\ n \in Nat
  BY <1>2, SeqDef, SyncAssumption
<1>4. BatchStored(b)
  <2>1. Len(b) = n /\ DOMAIN b = 1..n
    BY <1>2, <1>3
  <2> QED
    BY <1>1, <2>1 DEF BatchStored, SyncDueBatch, SyncIsDue
<1>5. /\ SyncGrows
      /\ syncRows' \in [FinancialEvents -> SyncRows]
      /\ \A f \in FinancialEvents : SyncRowFits(syncRows'[f])
      /\ ErpKeyed'
  BY NothingGrows DEF SyncSweep
<1>6. SyncActorTypes' /\ \A a \in SyncActors : SyncActorFits(a)'
  BY <1>1, <1>3, <1>4, <1>5, SyncActorGoesOn DEF SyncActors
<1> QED
  BY <1>5, <1>6, SyncInvAssembled DEF SyncSweep, SyncInv, SyncTypeOK, syncHistory

\* An attempt reads its row, and from it its number.
LEMMA ReadSyncKeeps ==
    ASSUME SyncInv, NEW a \in SyncActors, ReadSync(a)
    PROVE  SyncInv'
<1>1. PICK e \in FinancialEvents : e = SyncCurrent(a)
  BY TailStored DEF ReadSync
<1> DEFINE n == syncRows[e].count + 1
<1>2. syncRows[e].count \in Nat /\ SyncRowFits(syncRows[e])
  BY DEF SyncInv, SyncTypeOK
<1>3. n \in Nat \ {0} /\ SyncNumbered(e, n)
  BY <1>2 DEF SyncNumbered, SyncRowFits
<1>4. syncNumber' = [syncNumber EXCEPT ![a] = n]
  BY <1>1 DEF ReadSync
<1> HIDE DEF n
<1>5. /\ SyncGrows
      /\ syncRows' \in [FinancialEvents -> SyncRows]
      /\ \A f \in FinancialEvents : SyncRowFits(syncRows'[f])
      /\ ErpKeyed'
  BY NothingGrows DEF ReadSync
<1>6. SyncActorTypes' /\ \A b \in SyncActors : SyncActorFits(b)'
  <2>1. "resolving" \in SyncSteps \ {"idle", "rearming", "reading"}
    BY DEF SyncSteps
  <2>2. syncPc[a] # "idle" /\ SyncGoto(a, "resolving") /\ UNCHANGED syncBatch
    BY DEF ReadSync
  <2> QED
    BY <1>1, <1>3, <1>4, <1>5, <2>1, <2>2, SyncActorGoes
<1> QED
  BY <1>5, <1>6, SyncInvAssembled DEF ReadSync, SyncInv, SyncTypeOK, syncHistory

\* The number of its attempt does not change.
LEMMA NumberOf ==
    ASSUME SyncInv, NEW a \in SyncActors, syncPc[a] \notin {"idle", "rearming", "reading"}
    PROVE  /\ syncNumber[a] \in Nat \ {0}
           /\ syncNumber = [syncNumber EXCEPT ![a] = syncNumber[a]]
           /\ SyncNumbered(SyncCurrent(a), syncNumber[a])
  BY DEF SyncInv, SyncTypeOK, SyncActorFits, SyncNumbered

\* An attempt finds out what it is to do, and whether it can.
LEMMA ResolveSyncKeeps ==
    ASSUME SyncInv, NEW a \in SyncActors, ResolveSync(a)
    PROVE  SyncInv'
<1>1. PICK e \in FinancialEvents : e = SyncCurrent(a)
  BY TailStored DEF ResolveSync
<1> DEFINE step == IF syncRows[e].provider = "INTERNAL" THEN "succeeded"
                   ELSE IF ~ connected THEN "failed"
                   ELSE IF syncRows[e].charge THEN "invoice"
                   ELSE "succeeded"
<1>2. SyncGoto(a, step) /\ syncPc[a] = "resolving" /\ UNCHANGED <<syncBatch, syncNumber>>
  BY <1>1 DEF ResolveSync
<1>3. /\ SyncGrows
      /\ syncRows' \in [FinancialEvents -> SyncRows]
      /\ \A f \in FinancialEvents : SyncRowFits(syncRows'[f])
      /\ ErpKeyed'
  BY NothingGrows DEF ResolveSync
<1>4. step = "succeeded" => Booked(e)'
  BY DEF ResolveSync, Booked
<1>5. step \in {"succeeded", "failed", "invoice"}
  OBVIOUS
<1> HIDE DEF step
<1>6. step \in SyncSteps \ {"idle", "rearming", "reading"}
  BY <1>5 DEF SyncSteps, CallSteps
<1>7. SyncActorTypes' /\ \A b \in SyncActors : SyncActorFits(b)'
  BY <1>1, <1>2, <1>3, <1>4, <1>5, <1>6, NumberOf, SyncActorGoes
<1> QED
  BY <1>3, <1>7, SyncInvAssembled DEF ResolveSync, SyncInv, SyncTypeOK, syncHistory

\* A call of the ERP, whose answer may be lost.
LEMMA CallErpKeeps ==
    ASSUME SyncInv, NEW a \in SyncActors, CallErp(a)
    PROVE  SyncInv'
<1>1. PICK e \in FinancialEvents : e = SyncCurrent(a)
  BY TailStored DEF CallErp, CallSteps
<1>0. PICK kind \in CallSteps : kind = syncPc[a]
  BY DEF CallErp
<1>2. kind \notin {"idle", "rearming", "reading"}
  BY DEF CallSteps
<1>3. erp' = erp \cup {[event |-> e, kind |-> kind, key |-> <<e, kind>>]} \/ erp' = erp
  BY <1>0, <1>1 DEF CallErp, ErpAfter, SyncKey
<1>4. ErpKeyed'
  BY <1>2, <1>3 DEF SyncInv, ErpKeyed, Entities
<1>5. syncRows' = syncRows /\ UNCHANGED <<syncBatch, syncNumber>>
  BY DEF CallErp
<1>6. SyncGrows
  BY <1>3, <1>5 DEF SyncGrows, SyncRowGrows
<1>7. PICK step \in {"receipt", "payment", "succeeded", "failed"} :
          /\ SyncGoto(a, step)
          /\ step # "failed" => step = AfterCall(kind)
          /\ step # "failed" => HasEntity(e, kind)'
  <2>1. AfterCall(kind) \in {"receipt", "payment", "succeeded"}
    BY DEF AfterCall
  <2>2. CASE SyncGoto(a, "failed")
    BY <2>2
  <2>3. CASE erp' = ErpAfter(SyncCurrent(a), kind, syncNumber[a]) /\ SyncGoto(a, AfterCall(kind))
    <3>1. PICK x : x = [event |-> e, kind |-> kind, key |-> SyncKey(e, kind, syncNumber[a])]
      OBVIOUS
    <3>2. x \in erp' /\ x.event = e /\ x.kind = kind
      BY <1>1, <2>3, <3>1 DEF ErpAfter
    <3> QED
      BY <2>1, <2>3, <3>2 DEF HasEntity
  <2> QED
    BY <1>0, <2>2, <2>3 DEF CallErp
<1>8. /\ kind \in {"receipt", "payment"} => HasEntity(e, "invoice")'
      /\ kind = "payment" => HasEntity(e, "receipt")'
  BY <1>0, <1>1, <1>3 DEF SyncInv, SyncActorFits, HasEntity
<1>9. /\ step \in {"receipt", "payment"} => HasEntity(e, "invoice")'
      /\ step = "payment" => HasEntity(e, "receipt")'
      /\ step = "succeeded" =>
             HasEntity(e, "invoice")' /\ HasEntity(e, "receipt")' /\ HasEntity(e, "payment")'
  BY <1>2, <1>7, <1>8 DEF AfterCall, CallSteps
<1>10. step = "succeeded" => Booked(e)'
  BY <1>9 DEF Booked, HasEntity, CallSteps
<1>11. step \in SyncSteps \ {"idle", "rearming", "reading"}
  BY DEF SyncSteps, CallSteps
<1>12. SyncActorTypes' /\ \A b \in SyncActors : SyncActorFits(b)'
  BY <1>0, <1>1, <1>2, <1>5, <1>6, <1>7, <1>9, <1>10, <1>11, NumberOf, SyncActorGoes
<1>13. /\ syncRows' \in [FinancialEvents -> SyncRows]
       /\ \A f \in FinancialEvents : SyncRowFits(syncRows'[f])
  BY <1>5 DEF SyncInv, SyncTypeOK, SyncRows
<1> QED
  BY <1>4, <1>12, <1>13, SyncInvAssembled DEF CallErp, SyncInv, SyncTypeOK, syncHistory

\* Both ways to record an attempt.
LEMMA RecordingKeeps ==
    ASSUME SyncInv, NEW a \in SyncActors, syncPc[a] \in {"succeeded", "failed"},
           NEW row, syncRows' = [syncRows EXCEPT ![SyncCurrent(a)] = row], erp' = erp,
           row \in {SucceededRow(syncRows[SyncCurrent(a)], syncNumber[a]),
                    FailedRow(syncRows[SyncCurrent(a)], syncNumber[a])},
           SyncGoOn(a, Tail(syncBatch[a])), UNCHANGED <<connected, syncHistory>>
    PROVE  SyncInv'
<1>1. PICK e \in FinancialEvents : e = SyncCurrent(a)
  BY TailStored
<1>2. PICK n \in Nat \ {0} : n = syncNumber[a] /\ SyncNumbered(e, n)
  BY <1>1, NumberOf
<1>3. PICK old \in SyncRows : old = syncRows[e] /\ SyncRowFits(old)
  BY DEF SyncInv, SyncTypeOK, SyncRows
<1>4. /\ row \in SyncRows
      /\ row.provider = old.provider /\ row.charge = old.charge
      /\ row.recorded = old.recorded \cup {n}
      /\ row.status # "none"
      /\ row.count \in {old.count, n}
      /\ row.status = "DEAD_LETTER" => n >= MaxSyncAttempts
  BY <1>1, <1>2, <1>3, SyncRowRecording
<1>5. SyncRowFits(row)
  BY <1>2, <1>3, <1>4, RecordingFits DEF SyncNumbered
<1>6. SyncRowGrows(syncRows[e], row)
  BY <1>3, <1>4 DEF SyncRowGrows
<1>7. /\ SyncGrows
      /\ syncRows' \in [FinancialEvents -> SyncRows]
      /\ \A f \in FinancialEvents : SyncRowFits(syncRows'[f])
      /\ ErpKeyed'
  BY <1>1, <1>4, <1>5, <1>6, SyncRowWritten
<1>8. Tail(syncBatch[a]) \in Seq(FinancialEvents) /\ BatchStored(Tail(syncBatch[a]))
  BY TailStored
<1>9. SyncActorTypes' /\ \A b \in SyncActors : SyncActorFits(b)'
  BY <1>7, <1>8, SyncActorGoesOn
<1> QED
  BY <1>7, <1>9, SyncInvAssembled DEF SyncInv, SyncTypeOK, syncHistory

\* An attempt is cut short and records nothing.
LEMMA LoseAttemptKeeps ==
    ASSUME SyncInv, NEW a \in SyncActors, LoseAttempt(a)
    PROVE  SyncInv'
<1>1. PICK rest \in {Tail(syncBatch[a]), <<>>} : SyncGoOn(a, rest)
  BY DEF LoseAttempt
<1>2. rest \in Seq(FinancialEvents) /\ BatchStored(rest)
  <2>1. CASE rest = Tail(syncBatch[a])
    BY <2>1, TailStored DEF LoseAttempt
  <2>2. CASE rest = <<>>
    BY <2>2 DEF BatchStored
  <2> QED
    BY <2>1, <2>2
<1>3. /\ SyncGrows
      /\ syncRows' \in [FinancialEvents -> SyncRows]
      /\ \A f \in FinancialEvents : SyncRowFits(syncRows'[f])
      /\ ErpKeyed'
  BY NothingGrows DEF LoseAttempt
<1>4. SyncActorTypes' /\ \A b \in SyncActors : SyncActorFits(b)'
  BY <1>1, <1>2, <1>3, SyncActorGoesOn
<1>5. syncLost' \in 0..MaxSyncLost /\ syncRetries' \in 0..MaxSyncRetries /\ connected' \in BOOLEAN
  BY SyncAssumption DEF LoseAttempt, SyncInv, SyncTypeOK
<1> QED
  BY <1>3, <1>4, <1>5, SyncInvAssembled

\* A retry by hand reads its row.
LEMMA AskSyncRetryKeeps ==
    ASSUME SyncInv, NEW o \in SyncOperators, NEW e \in FinancialEvents, AskSyncRetry(o, e)
    PROVE  SyncInv'
<1>1. /\ syncBatch' = [syncBatch EXCEPT ![o] = <<e>>]
      /\ syncPc' = [syncPc EXCEPT ![o] = "rearming"]
      /\ syncNumber' = syncNumber /\ o \in SyncActors
  BY DEF AskSyncRetry, SyncGoto, SyncActors
<1>2. SyncActorTypes
  BY DEF SyncInv, SyncTypeOK, SyncActorTypes
<1>3. /\ SyncGrows
      /\ syncRows' \in [FinancialEvents -> SyncRows]
      /\ \A f \in FinancialEvents : SyncRowFits(syncRows'[f])
      /\ ErpKeyed'
  BY NothingGrows DEF AskSyncRetry
<1>4. <<e>> \in Seq(FinancialEvents) /\ <<e>> # <<>> /\ Len(<<e>>) = 1 /\ <<e>>[1] = e
      /\ Head(<<e>>) = e
  OBVIOUS
<1>5. SyncActorTypes'
  BY <1>1, <1>2, <1>4 DEF SyncActorTypes, SyncSteps
<1>6. ASSUME NEW b \in SyncActors, b # o PROVE SyncActorFits(b)'
  BY <1>1, <1>2, <1>3, <1>6, SyncStayingFits DEF SyncInv, SyncActorStays, SyncActorTypes
<1>7. SyncActorFits(o)'
  <2>1. syncPc'[o] = "rearming" /\ syncBatch'[o] = <<e>>
    BY <1>1, <1>2 DEF SyncActorTypes
  <2>2. SyncCurrent(o)' = e
    BY <1>4, <2>1 DEF SyncCurrent
  <2>3. syncRows' = syncRows /\ syncRows[e].status = "DEAD_LETTER"
    BY DEF AskSyncRetry
  <2>4. MaxSyncAttempts \in syncRows[e].recorded
    BY <2>3 DEF SyncInv, SyncRowFits
  <2>5. BatchStored(<<e>>)'
    BY <1>4, <2>3 DEF BatchStored
  <2> QED
    BY <2>1, <2>2, <2>3, <2>4, <2>5 DEF SyncActorFits
<1>8. syncRetries' \in 0..MaxSyncRetries /\ syncLost' \in 0..MaxSyncLost /\ connected' \in BOOLEAN
  BY SyncAssumption DEF AskSyncRetry, SyncInv, SyncTypeOK
<1> QED
  BY <1>3, <1>5, <1>6, <1>7, <1>8, SyncInvAssembled

\* A retry by hand writes its row.
LEMMA RearmSyncKeeps ==
    ASSUME SyncInv, NEW o \in SyncOperators, RearmSync(o)
    PROVE  SyncInv'
<1>0. o \in SyncActors /\ syncPc[o] # "idle" /\ syncPc[o] = "rearming"
  BY DEF SyncActors, RearmSync
<1>1. PICK e \in FinancialEvents : e = SyncCurrent(o)
  BY <1>0, TailStored
<1> DEFINE row == [syncRows[e] EXCEPT !.status = "PENDING", !.ready = TRUE, !.error = "resolved"]
<1>2. syncRows[e] \in SyncRows /\ SyncRowFits(syncRows[e])
  BY DEF SyncInv, SyncTypeOK, SyncRows
<1>3. row \in SyncRows /\ row.count = syncRows[e].count /\ row.recorded = syncRows[e].recorded
  BY <1>2, SyncRowKeeping
<1>4. /\ row.status = "PENDING"
      /\ row.provider = syncRows[e].provider /\ row.charge = syncRows[e].charge
  BY <1>2 DEF SyncRows
<1>5. SyncRowFits(row)
  BY <1>2, <1>3, <1>4 DEF SyncRowFits
<1>6. syncRows' = [syncRows EXCEPT ![e] = row]
  BY <1>1 DEF RearmSync
<1> HIDE DEF row
<1>7. SyncRowGrows(syncRows[e], row)
  BY <1>3, <1>4 DEF SyncRowGrows
<1>8. /\ SyncGrows
      /\ syncRows' \in [FinancialEvents -> SyncRows]
      /\ \A f \in FinancialEvents : SyncRowFits(syncRows'[f])
      /\ ErpKeyed'
  BY <1>3, <1>5, <1>6, <1>7, SyncRowWritten DEF RearmSync
<1>9. PICK rest \in {syncBatch[o], <<>>} : SyncGoOn(o, rest)
  BY DEF RearmSync
<1>10. rest \in Seq(FinancialEvents) /\ BatchStored(rest)
  <2>1. CASE rest = syncBatch[o]
    BY <1>0, <2>1 DEF SyncInv, SyncTypeOK, SyncActorFits
  <2>2. CASE rest = <<>>
    BY <2>2 DEF BatchStored
  <2> QED
    BY <2>1, <2>2
<1>11. SyncActorTypes' /\ \A b \in SyncActors : SyncActorFits(b)'
  BY <1>0, <1>8, <1>9, <1>10, SyncActorGoesOn
<1> QED
  BY <1>8, <1>11, SyncInvAssembled DEF RearmSync, SyncInv, SyncTypeOK, syncHistory

\* One step of any actor.
LEMMA SyncStepKeeps ==
    ASSUME SyncInv, [SyncNext]_syncVars
    PROVE  SyncInv'
<1>1. CASE UNCHANGED syncVars
  <2>1. UNCHANGED <<syncRows, erp>> /\ UNCHANGED syncActors /\ UNCHANGED connected
        /\ UNCHANGED syncHistory
    BY <1>1 DEF syncVars
  <2>2. /\ SyncGrows
        /\ syncRows' \in [FinancialEvents -> SyncRows]
        /\ \A f \in FinancialEvents : SyncRowFits(syncRows'[f])
        /\ ErpKeyed'
    BY <2>1, NothingGrows
  <2>3. SyncActorTypes' /\ \A a \in SyncActors : SyncActorFits(a)'
    BY <2>1, <2>2, SyncActorsStay
  <2> QED
    BY <2>1, <2>2, <2>3, SyncInvAssembled DEF SyncInv, SyncTypeOK, syncHistory
<1>2. ASSUME NEW a \in SyncActors, SaveSuccess(a) PROVE SyncInv'
  <2>1. PICK row : row = SucceededRow(syncRows[SyncCurrent(a)], syncNumber[a])
    OBVIOUS
  <2> QED
    BY <1>2, <2>1, RecordingKeeps DEF SaveSuccess
<1>3. ASSUME NEW a \in SyncActors, SaveFailure(a) PROVE SyncInv'
  <2>1. PICK row : row = FailedRow(syncRows[SyncCurrent(a)], syncNumber[a])
    OBVIOUS
  <2> QED
    BY <1>3, <2>1, RecordingKeeps DEF SaveFailure
<1> QED
  BY <1>1, <1>2, <1>3, RecordEventKeeps, SyncRipenKeeps, ConnectionKeeps, SyncSweepKeeps,
     ReadSyncKeeps, ResolveSyncKeeps, CallErpKeeps, LoseAttemptKeeps, AskSyncRetryKeeps,
     RearmSyncKeeps DEF SyncNext, SyncAttempt

\* There are no rows at first.
LEMMA SyncInitKeeps ==
    ASSUME SyncInit
    PROVE  SyncInv
<1>1. SyncTypeOK
  <2>1. NoRow \in SyncRows
    BY DEF NoRow, SyncRows, SyncStatuses, Providers
  <2>2. syncRows \in [FinancialEvents -> SyncRows]
    BY <2>1 DEF SyncInit
  <2>3. syncRetries \in 0..MaxSyncRetries /\ syncLost \in 0..MaxSyncLost
    BY SyncAssumption DEF SyncInit
  <2>4. connected \in BOOLEAN /\ erp = {}
    BY DEF SyncInit
  <2>5. /\ syncPc \in [SyncActors -> SyncSteps]
        /\ syncNumber \in [SyncActors -> Nat]
        /\ \A a \in SyncActors : syncPc[a] = "idle" <=> syncBatch[a] = <<>>
    BY DEF SyncInit, SyncSteps
  <2>6. syncBatch \in [SyncActors -> Seq(FinancialEvents)]
    <3>1. <<>> \in Seq(FinancialEvents)
      OBVIOUS
    <3> QED
      BY <3>1 DEF SyncInit
  <2> QED
    BY <2>2, <2>3, <2>4, <2>5, <2>6 DEF SyncTypeOK, SyncRows
<1>2. \A e \in FinancialEvents : SyncRowFits(syncRows[e])
  BY DEF SyncInit, SyncRowFits, NoRow
<1>3. \A a \in SyncActors : SyncActorFits(a)
  BY DEF SyncInit, SyncActorFits, BatchStored
<1> QED
  BY <1>1, <1>2, <1>3 DEF SyncInv, ErpKeyed, SyncInit

-----------------------------------------------------------------------------
(* The theorems. *)

\* The engine's rows, entities and attempts have their types in every reachable state,
\* however many sweeps and retries overlap.
THEOREM SyncTypeCorrect == SyncSpec => []SyncTypeOK
<1>1. SyncInv => SyncTypeOK
  BY DEF SyncInv
<1> QED
  BY <1>1, SyncInitKeeps, SyncStepKeeps, PTL DEF SyncSpec

\* A financial event never has two invoices, two receipts or two payments in the ERP: an
\* entity is created under the key of its event and kind, whichever attempt asks.
THEOREM EntityOncePerSync == SyncSpec => []OneEntityPerSync
<1>1. SyncInv => OneEntityPerSync
  <2> SUFFICES ASSUME SyncInv, NEW x \in erp, NEW y \in erp, x.event = y.event, x.kind = y.kind
               PROVE  x = y
    BY DEF OneEntityPerSync
  <2>1. x \in Entities /\ y \in Entities /\ x.key = y.key
    BY DEF SyncInv, ErpKeyed
  <2> QED
    BY <2>1 DEF Entities
<1> QED
  BY <1>1, SyncInitKeeps, SyncStepKeeps, PTL DEF SyncSpec

-----------------------------------------------------------------------------
(* The engine implements Outbox. *)

syncOutboxStill == UNCHANGED <<SyncOutcome, SyncEffects, SyncRecorded>>

\* What the outbox sees of a row.
SyncOutcomeOf(row) ==
    CASE row.status = "none" -> "none"
      [] row.status = "SUCCESS" -> "done"
      [] row.status = "DEAD_LETTER" -> "dead"
      [] OTHER -> "open"

\* Only the row of e is written, and no entity created: the outbox sees a change of e.
LEMMA SyncRowSeen ==
    ASSUME SyncInv, SyncInv', NEW e \in FinancialEvents, NEW row,
           syncRows' = [syncRows EXCEPT ![e] = row], erp' = erp,
           syncRows[e].status # "none", SyncRowGrows(syncRows[e], row)
    PROVE  /\ SyncOutcome' = [SyncOutcome EXCEPT ![e] = SyncOutcomeOf(row)]
           /\ SyncRecorded' = [SyncRecorded EXCEPT ![e] = row.recorded]
           /\ SyncEffects' = SyncEffects
           /\ SyncOutcome[e] = SyncOutcomeOf(syncRows[e])
           /\ SyncOutcome[e] \in {"open", "done", "dead"}
           /\ SyncRecorded[e] = syncRows[e].recorded
<1>1. \A f \in FinancialEvents : syncRows'[f] = IF f = e THEN row ELSE syncRows[f]
  BY DEF SyncInv, SyncTypeOK
<1>2. SyncOutcome' = [f \in FinancialEvents |-> SyncOutcomeOf(syncRows'[f])]
  BY DEF SyncOutcome, SyncOutcomeOf
<1>3. SyncOutcome = [f \in FinancialEvents |-> SyncOutcomeOf(syncRows[f])]
  BY DEF SyncOutcome, SyncOutcomeOf
<1>4. SyncOutcome' = [SyncOutcome EXCEPT ![e] = SyncOutcomeOf(row)]
  BY <1>1, <1>2, <1>3
<1>5. SyncRecorded' = [SyncRecorded EXCEPT ![e] = row.recorded]
  <2>1. SyncRecorded' = [f \in FinancialEvents |-> syncRows'[f].recorded]
    BY DEF SyncRecorded
  <2>2. SyncRecorded = [f \in FinancialEvents |-> syncRows[f].recorded]
    BY DEF SyncRecorded
  <2> QED
    BY <1>1, <2>1, <2>2
<1>6. SyncEffects' = SyncEffects
  BY <1>1 DEF SyncEffects, Booked, SyncRowGrows
<1>7. SyncOutcome[e] \in {"open", "done", "dead"}
  BY <1>3 DEF SyncOutcomeOf
<1> QED
  BY <1>3, <1>4, <1>5, <1>6, <1>7 DEF SyncRecorded

\* An initial state is one of the outbox.
LEMMA SyncInitMaps ==
    ASSUME SyncInit
    PROVE  SyncOutbox!OutboxInit
  BY DEF SyncInit, SyncOutbox!OutboxInit, SyncOutcome, SyncEffects, SyncRecorded, NoRow

\* An attempt on record maps to RecordAttempt.
LEMMA RecordingMaps ==
    ASSUME SyncInv, SyncInv', NEW a \in SyncActors, NEW row,
           syncRows' = [syncRows EXCEPT ![SyncCurrent(a)] = row], erp' = erp,
           \/ syncPc[a] = "succeeded" /\ row = SucceededRow(syncRows[SyncCurrent(a)], syncNumber[a])
           \/ syncPc[a] = "failed" /\ row = FailedRow(syncRows[SyncCurrent(a)], syncNumber[a])
    PROVE  SyncOutbox!OutboxNext
<1>1. PICK e \in FinancialEvents : e = SyncCurrent(a) /\ syncRows[e].status # "none"
  BY TailStored
<1>2. PICK n \in Nat \ {0} : n = syncNumber[a] /\ SyncNumbered(e, n)
  BY <1>1, NumberOf
<1>3. PICK old \in SyncRows : old = syncRows[e]
  BY DEF SyncInv, SyncTypeOK, SyncRows
<1>4. /\ row.provider = old.provider /\ row.charge = old.charge
      /\ row.recorded = old.recorded \cup {n}
      /\ row.status # "none"
  BY <1>1, <1>2, <1>3, SyncRowRecording
<1>5. /\ SyncOutcome' = [SyncOutcome EXCEPT ![e] = SyncOutcomeOf(row)]
      /\ SyncRecorded' = [SyncRecorded EXCEPT ![e] = row.recorded]
      /\ SyncEffects' = SyncEffects
      /\ SyncOutcome[e] \in {"open", "done", "dead"}
      /\ SyncRecorded[e] = old.recorded
  <2>1. SyncRowGrows(syncRows[e], row)
    BY <1>3, <1>4 DEF SyncRowGrows
  <2>2. syncRows' = [syncRows EXCEPT ![e] = row]
    BY <1>1
  <2> QED
    BY <1>1, <1>3, <2>1, <2>2, SyncRowSeen
<1>6. PICK result \in {"open", "done", "dead"} :
          /\ result = SyncOutcomeOf(row)
          /\ \/ result = "done" /\ e \in SyncEffects
             \/ result = "open" /\ n < MaxSyncAttempts
             \/ result = "dead" /\ n >= MaxSyncAttempts
  <2>1. CASE syncPc[a] = "succeeded" /\ row = SucceededRow(old, n)
    <3>1. row.status = "SUCCESS"
      BY <2>1 DEF SyncRows, SucceededRow
    <3>2. Booked(e)
      BY <1>1, <2>1 DEF SyncInv, SyncActorFits
    <3> QED
      BY <1>1, <3>1, <3>2 DEF SyncOutcomeOf, SyncEffects
  <2>2. CASE row = FailedRow(old, n)
    <3>1. row.status = SyncFailedStatus(n)
      BY <2>2 DEF SyncRows, FailedRow
    <3> QED
      BY <3>1, SyncAssumption DEF SyncOutcomeOf, SyncFailedStatus
  <2> QED
    BY <1>1, <1>2, <1>3, <2>1, <2>2
<1>7. SyncRecorded' = [SyncRecorded EXCEPT ![e] = SyncRecorded[e] \cup {n}]
  BY <1>4, <1>5
<1>8. SyncOutbox!RecordAttempt(e, n, result)
  BY <1>2, <1>3, <1>5, <1>6, <1>7 DEF SyncOutbox!RecordAttempt, SyncNumbered
<1>9. n \in SyncRecorded'[e]
  BY <1>7 DEF SyncRecorded
<1> QED
  BY <1>8, <1>9 DEF SyncOutbox!OutboxNext

\* Steps that write no row and create no entity are not seen.
LEMMA SyncNothingSeen ==
    ASSUME UNCHANGED <<syncRows, erp>>
    PROVE  syncOutboxStill
  BY DEF syncOutboxStill, SyncOutcome, SyncEffects, SyncRecorded, Booked

\* A new row stores an item of the outbox.
LEMMA RecordEventMaps ==
    ASSUME SyncInv, SyncInv', NEW e \in FinancialEvents, RecordEvent(e)
    PROVE  SyncOutbox!OutboxNext
<1>1. PICK p \in Providers, c \in BOOLEAN :
          syncRows' = [syncRows EXCEPT ![e] =
              [@ EXCEPT !.status = "PENDING", !.provider = p, !.charge = c]]
  BY DEF RecordEvent
<1>2. PICK row : row = [syncRows[e] EXCEPT !.status = "PENDING", !.provider = p, !.charge = c]
  OBVIOUS
<1>3. row.status = "PENDING" /\ row.recorded = syncRows[e].recorded
  BY <1>2 DEF SyncInv, SyncTypeOK
<1>4. \A f \in FinancialEvents : syncRows'[f] = IF f = e THEN row ELSE syncRows[f]
  BY <1>1, <1>2 DEF SyncInv, SyncTypeOK
<1>5. SyncOutcome' = [SyncOutcome EXCEPT ![e] = "open"] /\ SyncOutcome[e] = "none"
  BY <1>3, <1>4 DEF SyncOutcome, RecordEvent
<1>6. SyncRecorded' = SyncRecorded
  BY <1>3, <1>4 DEF SyncRecorded
<1>7. SyncEffects' \in {SyncEffects, SyncEffects \cup {e}}
  <2>1. \A f \in FinancialEvents \ {e} : f \in SyncEffects' <=> f \in SyncEffects
    BY <1>4 DEF SyncEffects, Booked, RecordEvent
  <2>2. e \notin SyncEffects
    BY DEF SyncEffects, RecordEvent
  <2>3. SyncEffects \subseteq FinancialEvents /\ SyncEffects' \subseteq FinancialEvents
    BY DEF SyncEffects
  <2> QED
    BY <2>1, <2>2, <2>3
<1>8. SyncOutbox!Accept(e)
  BY <1>5, <1>6, <1>7 DEF SyncOutbox!Accept
<1> QED
  BY <1>8 DEF SyncOutbox!OutboxNext

\* The outbox does not see that a row becomes due.
LEMMA SyncRipenMaps ==
    ASSUME SyncInv, SyncInv', NEW e \in FinancialEvents, SyncRipen(e)
    PROVE  syncOutboxStill
<1>1. PICK row : row = [syncRows[e] EXCEPT !.ready = TRUE]
  OBVIOUS
<1>2. \A f \in FinancialEvents : syncRows'[f] = IF f = e THEN row ELSE syncRows[f]
  BY <1>1 DEF SyncRipen, SyncInv, SyncTypeOK
<1>3. /\ row.status = syncRows[e].status /\ row.recorded = syncRows[e].recorded
      /\ row.provider = syncRows[e].provider /\ row.charge = syncRows[e].charge
  BY <1>1 DEF SyncInv, SyncTypeOK
<1>4. erp' = erp
  BY DEF SyncRipen
<1> QED
  BY <1>2, <1>3, <1>4 DEF syncOutboxStill, SyncOutcome, SyncEffects, SyncRecorded, Booked

\* An entity that completes the booking of its event is the effect.
LEMMA CallErpMaps ==
    ASSUME SyncInv, SyncInv', NEW a \in SyncActors, CallErp(a)
    PROVE  SyncOutbox!OutboxNext \/ syncOutboxStill
<1>1. PICK e \in FinancialEvents : e = SyncCurrent(a) /\ syncRows[e].status # "none"
  BY TailStored DEF CallErp, CallSteps
<1>2. PICK x : /\ x.event = e
               /\ erp' = erp \/ erp' = erp \cup {x}
  <2>1. PICK x : x = [event |-> e, kind |-> syncPc[a],
                      key |-> SyncKey(e, syncPc[a], syncNumber[a])]
    OBVIOUS
  <2> QED
    BY <1>1, <2>1 DEF CallErp, ErpAfter
<1>3. syncRows' = syncRows
  BY DEF CallErp
<1>4. SyncOutcome' = SyncOutcome /\ SyncRecorded' = SyncRecorded
  BY <1>3 DEF SyncOutcome, SyncRecorded
<1>5. \A f \in FinancialEvents \ {e} : Booked(f)' <=> Booked(f)
  BY <1>2, <1>3 DEF Booked
<1>6. Booked(e) => Booked(e)'
  BY <1>2, <1>3 DEF Booked
<1>7. SyncEffects' \in {SyncEffects, SyncEffects \cup {e}}
  BY <1>1, <1>3, <1>5, <1>6 DEF SyncEffects
<1>8. CASE SyncEffects' = SyncEffects
  BY <1>4, <1>8 DEF syncOutboxStill
<1>9. CASE SyncEffects' = SyncEffects \cup {e}
  <2>1. SyncOutcome[e] # "none"
    BY <1>1 DEF SyncOutcome
  <2>2. SyncOutbox!TakeEffect(e)
    BY <1>4, <1>9, <2>1 DEF SyncOutbox!TakeEffect
  <2> QED
    BY <2>2 DEF SyncOutbox!OutboxNext
<1> QED
  BY <1>7, <1>8, <1>9

\* A retry by hand re-arms an item of the outbox, or is not seen.
LEMMA RearmSyncMaps ==
    ASSUME SyncInv, SyncInv', NEW o \in SyncOperators, RearmSync(o)
    PROVE  SyncOutbox!OutboxNext
<1>0. o \in SyncActors /\ syncPc[o] = "rearming"
  BY DEF SyncActors, RearmSync
<1>1. PICK e \in FinancialEvents : e = SyncCurrent(o) /\ syncRows[e].status # "none"
  BY <1>0, TailStored
<1>2. PICK row : row = [syncRows[e] EXCEPT !.status = "PENDING", !.ready = TRUE,
                                           !.error = "resolved"]
  OBVIOUS
<1>3. /\ row.status = "PENDING" /\ row.recorded = syncRows[e].recorded
      /\ row.provider = syncRows[e].provider /\ row.charge = syncRows[e].charge
  BY <1>2 DEF SyncInv, SyncTypeOK
<1>4. /\ SyncOutcome' = [SyncOutcome EXCEPT ![e] = SyncOutcomeOf(row)]
      /\ SyncRecorded' = [SyncRecorded EXCEPT ![e] = row.recorded]
      /\ SyncEffects' = SyncEffects
      /\ SyncOutcome[e] \in {"open", "done", "dead"}
      /\ SyncRecorded[e] = syncRows[e].recorded
  <2>1. SyncRowGrows(syncRows[e], row)
    BY <1>1, <1>3 DEF SyncRowGrows
  <2>2. syncRows' = [syncRows EXCEPT ![e] = row] /\ erp' = erp
    BY <1>1, <1>2 DEF RearmSync
  <2> QED
    BY <1>1, <2>1, <2>2, SyncRowSeen
<1>5. MaxSyncAttempts \in syncRows[e].recorded
  BY <1>0, <1>1 DEF SyncInv, SyncActorFits
<1>6. SyncOutcomeOf(row) = "open"
  BY <1>3 DEF SyncOutcomeOf
<1>7. SyncRecorded' = SyncRecorded
  BY <1>3, <1>4 DEF SyncRecorded
<1>8. SyncOutbox!Reopen(e)
  BY <1>4, <1>5, <1>6, <1>7 DEF SyncOutbox!Reopen
<1> QED
  BY <1>8 DEF SyncOutbox!OutboxNext

\* Every step is one of the outbox or is not seen.
LEMMA SyncStepMaps ==
    ASSUME SyncInv, SyncInv', [SyncNext]_syncVars
    PROVE  [SyncOutbox!OutboxNext]_(SyncOutbox!outboxVars)
<1>1. syncOutboxStill => UNCHANGED SyncOutbox!outboxVars
  BY DEF syncOutboxStill, SyncOutbox!outboxVars
<1>2. CASE UNCHANGED syncVars
  BY <1>1, <1>2, SyncNothingSeen DEF syncVars
<1>3. CASE TestConnection \/ DropConnection
  BY <1>1, <1>3, SyncNothingSeen DEF TestConnection, DropConnection
<1>4. ASSUME NEW w \in SyncWorkers, SyncSweep(w) PROVE syncOutboxStill
  BY <1>4, SyncNothingSeen DEF SyncSweep
<1>5. ASSUME NEW a \in SyncActors, ReadSync(a) \/ ResolveSync(a) \/ LoseAttempt(a)
      PROVE  syncOutboxStill
  BY <1>5, SyncNothingSeen DEF ReadSync, ResolveSync, LoseAttempt
<1>6. ASSUME NEW o \in SyncOperators, NEW e \in FinancialEvents, AskSyncRetry(o, e)
      PROVE  syncOutboxStill
  BY <1>6, SyncNothingSeen DEF AskSyncRetry
<1>7. ASSUME NEW a \in SyncActors, SaveSuccess(a) PROVE SyncOutbox!OutboxNext
  <2>1. PICK row : row = SucceededRow(syncRows[SyncCurrent(a)], syncNumber[a])
    OBVIOUS
  <2> QED
    BY <1>7, <2>1, RecordingMaps DEF SaveSuccess
<1>8. ASSUME NEW a \in SyncActors, SaveFailure(a) PROVE SyncOutbox!OutboxNext
  <2>1. PICK row : row = FailedRow(syncRows[SyncCurrent(a)], syncNumber[a])
    OBVIOUS
  <2> QED
    BY <1>8, <2>1, RecordingMaps DEF SaveFailure
<1> QED
  BY <1>1, <1>2, <1>3, <1>4, <1>5, <1>6, <1>7, <1>8, RecordEventMaps, SyncRipenMaps,
     CallErpMaps, RearmSyncMaps DEF SyncNext, SyncAttempt

\* The sync engine keeps the promise of an outbox: an event is a success only if it is
\* booked, a dead letter only with all its attempts on record and numbered without gaps,
\* and only a sync that was a dead letter is reopened by hand.
THEOREM SyncRefinesOutbox == SyncSpec => SyncImplementsOutbox
<1>1. SyncInv /\ [SyncNext]_syncVars => SyncInv'
  BY SyncStepKeeps
<1>2. SyncInv /\ SyncInv' /\ [SyncNext]_syncVars => [SyncOutbox!OutboxNext]_(SyncOutbox!outboxVars)
  BY SyncStepMaps
<1>3. SyncInit => SyncInv /\ SyncOutbox!OutboxInit
  BY SyncInitKeeps, SyncInitMaps
<1> QED
  BY <1>1, <1>2, <1>3, PTL DEF SyncSpec, SyncImplementsOutbox, SyncOutbox!OutboxSpec
===============================================================================
