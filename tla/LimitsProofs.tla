----------------------------- MODULE LimitsProofs -----------------------------
(***************************************************************************)
(* Theorems about the limits that concurrent requests share: the seats of  *)
(* a license (Seats), the activations of a license key (LicenseKeys) and   *)
(* the redemptions of a coupon (Coupons), for any limits and requests.     *)
(* Seats and coupons are counted before they are claimed, so the theorems  *)
(* say how far the limit can be passed; keys are written by compare-and-   *)
(* swap, which keeps the limit.                                            *)
(***************************************************************************)
EXTENDS Seats, LicenseKeys, Coupons, SequenceTheorems, FiniteSetTheorems, TLAPS

-----------------------------------------------------------------------------
(* Seats: the inductive invariant. *)

SeatStates == {"AVAILABLE", "ASSIGNED"}
AssignmentRows == [ seat : SeatIds, status : {"ACTIVE", "REMOVED", "TRANSFERRED"} ]
SeatReqs == [ at : {"idle", "creating", "finding", "claiming", "assigning",
                "removing", "freeing", "transferring"}, arg : Nat, tries : Nat ]

\* SeatExclusive, for the two kinds of holders apart.
Assigned(a, s) == a \in ActiveAssignments /\ assignments[a].seat = s
Holds(r, s) == seatReq[r].at \in {"assigning", "freeing"} /\ seatReq[r].arg = s

SeatApart(s) ==
    /\ \A a, b \in AssignmentIds : Assigned(a, s) /\ Assigned(b, s) => a = b
    /\ \A r, q \in SeatRequests : Holds(r, s) /\ Holds(q, s) => r = q
    /\ \A a \in AssignmentIds, r \in SeatRequests : ~ (Assigned(a, s) /\ Holds(r, s))
    /\ seats[s] = "AVAILABLE" =>
           /\ \A a \in AssignmentIds : ~ Assigned(a, s)
           /\ \A r \in SeatRequests : ~ Holds(r, s)

Apart == \A s \in SeatIds \ clashed : SeatApart(s)

\* SeatsBounded, with the seats about to be created: one of these requests was the last to
\* count, and each of the others creates MaxBulk seats at most.
OtherSeatReqs == Cardinality(SeatRequests) - 1
Bound == SeatLimit + OtherSeatReqs * MaxBulk
Creating == { r \in SeatRequests : seatReq[r].at = "creating" }

Bounded ==
    /\ \A r \in Creating : seatReq[r].arg <= MaxBulk
    /\ Len(seats) <= Bound
    /\ Creating # {} =>
           \E r \in Creating :
               Len(seats) + seatReq[r].arg + (Cardinality(Creating) - 1) * MaxBulk <= Bound

-----------------------------------------------------------------------------
(* Seats: types. *)

\* What the type invariant says of the three variables.
LEMMA SeatTypes ==
    ASSUME SeatTypeOK
    PROVE  /\ seats \in Seq(SeatStates) /\ Len(seats) \in Nat
           /\ assignments \in Seq(AssignmentRows) /\ Len(assignments) \in Nat
           /\ seatReq \in [SeatRequests -> SeatReqs]
           /\ \A s \in SeatIds : seats[s] \in SeatStates
           /\ \A a \in AssignmentIds : assignments[a] \in AssignmentRows
  BY LenProperties, ElementOfSeq
     DEF SeatTypeOK, SeatStates, AssignmentRows, SeatReqs, SeatIds, AssignmentIds

\* A request that moves on and leaves seats and assignments as they are keeps the types,
\* when what it will work on exists.
LEMMA GotoTyped ==
    ASSUME SeatTypeOK, NEW r \in SeatRequests, NEW row \in SeatReqs,
           seatReq' = [seatReq EXCEPT ![r] = row],
           UNCHANGED <<seats, assignments>>, clashed' \subseteq SeatIds,
           row.at \in {"claiming", "assigning", "freeing"} => row.arg \in SeatIds,
           row.at \in {"removing", "transferring"} => row.arg \in AssignmentIds
    PROVE  SeatTypeOK'
<1>1. SeatIds' = SeatIds /\ AssignmentIds' = AssignmentIds
  BY DEF SeatIds, AssignmentIds
<1>2. seatReq' \in [SeatRequests -> SeatReqs]
  BY SeatTypes
<1>3. \A q \in SeatRequests :
          /\ seatReq'[q].at \in {"claiming", "assigning", "freeing"}
                 => seatReq'[q].arg \in SeatIds
          /\ seatReq'[q].at \in {"removing", "transferring"}
                 => seatReq'[q].arg \in AssignmentIds
  BY SeatTypes DEF SeatTypeOK
<1> QED
  BY <1>1, <1>2, <1>3 DEF SeatTypeOK, SeatReqs

\* The rows SeatReqGoto and SeatReqDone write.
LEMMA GotoRow ==
    ASSUME NEW at, NEW arg, NEW tries,
           at \in {"idle", "creating", "finding", "claiming", "assigning",
                   "removing", "freeing", "transferring"}, arg \in Nat, tries \in Nat
    PROVE  /\ [ at |-> at, arg |-> arg, tries |-> tries ] \in SeatReqs
           /\ [ at |-> at, arg |-> arg, tries |-> tries ].at = at
           /\ [ at |-> at, arg |-> arg, tries |-> tries ].arg = arg
  BY DEF SeatReqs

\* The row SeatReqDone writes.
LEMMA IdleRow == IdleRequest \in SeatReqs /\ IdleRequest.at = "idle"
  BY DEF IdleRequest, SeatReqs

-----------------------------------------------------------------------------
(* Seats stay apart. *)

\* A request that takes no seat in hand.
LEMMA NoNewHolder ==
    ASSUME Apart, UNCHANGED <<seats, assignments, clashed>>, NEW r \in SeatRequests,
           NEW row, row.at \notin {"assigning", "freeing"},
           seatReq \in [SeatRequests -> SeatReqs], seatReq' = [seatReq EXCEPT ![r] = row]
    PROVE  Apart'
<1>1. SeatIds' = SeatIds /\ AssignmentIds' = AssignmentIds
      /\ ActiveAssignments' = ActiveAssignments
  BY DEF SeatIds, AssignmentIds, ActiveAssignments
<1>2. \A q \in SeatRequests, s \in SeatIds : Holds(q, s)' => Holds(q, s)
  BY DEF Holds
<1>3. \A a \in AssignmentIds, s \in SeatIds : Assigned(a, s)' <=> Assigned(a, s)
  BY <1>1 DEF Assigned
<1> QED
  BY <1>1, <1>2, <1>3 DEF Apart, SeatApart

\* The statements that only read, and the end of a request.
QuietStep(r) ==
    \/ \E n \in 1..MaxBulk : CountSeats(r, n)
    \/ FindSeat(r)
    \/ NoSeatLeft(r)
    \/ LoseSeat(r)
    \/ \E a \in AssignmentIds : ReadAssignment(r, a)
    \/ CutSeatRequest(r)

\* What a statement that only reads may write in the row of its request.
Found(r, row) ==
    /\ seatReq' = [seatReq EXCEPT ![r] = row]
    /\ row.at \notin {"assigning", "freeing"}
    /\ row.at = "claiming" => row.arg \in SeatIds
    /\ row.at \in {"removing", "transferring"} => row.arg \in AssignmentIds
    /\ row.at = "creating" => \E n \in 1..MaxBulk : CountSeats(r, n) /\ row.arg = n

\* SeatReqGoto writes such a row, when what it points at exists.
LEMMA GotoFound ==
    ASSUME NEW r, NEW at \in {"idle", "creating", "finding", "claiming",
                              "removing", "transferring"}, NEW arg \in Nat, NEW tries \in Nat,
           SeatReqGoto(r, at, arg, tries),
           at = "claiming" => arg \in SeatIds,
           at \in {"removing", "transferring"} => arg \in AssignmentIds,
           at = "creating" => \E n \in 1..MaxBulk : CountSeats(r, n) /\ arg = n
    PROVE  \E row \in SeatReqs : Found(r, row)
<1> DEFINE row == [ at |-> at, arg |-> arg, tries |-> tries ]
<1>1. row \in SeatReqs /\ row.at = at /\ row.arg = arg
  BY GotoRow
<1>2. seatReq' = [seatReq EXCEPT ![r] = row]
  BY DEF SeatReqGoto
<1> HIDE DEF row
<1>3. Found(r, row)
  BY <1>1, <1>2 DEF Found
<1> QED
  BY <1>1, <1>3

\* SeatReqDone writes such a row.
LEMMA DoneFound ==
    ASSUME NEW r, SeatReqDone(r)
    PROVE  \E row \in SeatReqs : Found(r, row)
<1>1. Found(r, IdleRequest)
  BY IdleRow DEF Found, SeatReqDone
<1> QED
  BY <1>1, IdleRow

\* Every statement that only reads writes such a row.
LEMMA QuietRow ==
    ASSUME SeatTypeOK, NEW r \in SeatRequests, QuietStep(r)
    PROVE  \E row \in SeatReqs : Found(r, row)
<1>1. CASE \E n \in 1..MaxBulk : CountSeats(r, n)
  <2>1. PICK n \in 1..MaxBulk : CountSeats(r, n)
    BY <1>1
  <2>2. n \in Nat
    BY <2>1, SeatAssumption
  <2> QED
    BY <2>1, <2>2, GotoFound DEF CountSeats
<1>2. CASE FindSeat(r)
  <2>1. PICK s \in AvailableSeats : SeatReqGoto(r, "claiming", s, seatReq[r].tries)
    BY <1>2 DEF FindSeat
  <2>2. s \in SeatIds /\ s \in Nat /\ seatReq[r].tries \in Nat
    BY SeatTypes DEF AvailableSeats, SeatIds, SeatReqs
  <2> QED
    BY <2>1, <2>2, GotoFound
<1>3. CASE NoSeatLeft(r)
  BY <1>3, DoneFound DEF NoSeatLeft
<1>4. CASE LoseSeat(r)
  <2>1. CASE SeatReqGoto(r, "finding", 0, seatReq[r].tries + 1)
    <3>1. seatReq[r].tries + 1 \in Nat
      BY SeatTypes DEF SeatReqs
    <3> QED
      BY <2>1, <3>1, GotoFound
  <2>2. CASE SeatReqDone(r)
    BY <2>2, DoneFound
  <2> QED
    BY <1>4, <2>1, <2>2 DEF LoseSeat
<1>5. CASE \E a \in AssignmentIds : ReadAssignment(r, a)
  <2>1. PICK a \in AssignmentIds, at \in {"removing", "transferring"} :
            SeatReqGoto(r, at, a, 0)
    BY <1>5 DEF ReadAssignment
  <2>2. a \in Nat
    BY SeatTypes DEF AssignmentIds
  <2> QED
    BY <2>1, <2>2, GotoFound
<1>6. CASE CutSeatRequest(r)
  BY <1>6, DoneFound DEF CutSeatRequest
<1> QED
  BY <1>1, <1>2, <1>3, <1>4, <1>5, <1>6 DEF QuietStep

\* The statements that only read keep the types, and the seats apart.
LEMMA QuietKeeps ==
    ASSUME SeatTypeOK, Apart, NEW r \in SeatRequests, QuietStep(r)
    PROVE  SeatTypeOK' /\ Apart'
<1>1. PICK row \in SeatReqs : Found(r, row)
  BY QuietRow
<1>2. UNCHANGED <<seats, assignments, clashed>>
  BY DEF QuietStep, CountSeats, FindSeat, NoSeatLeft, LoseSeat, ReadAssignment, CutSeatRequest
<1>3. clashed' \subseteq SeatIds
  BY <1>2 DEF SeatTypeOK
<1>4. SeatTypeOK'
  BY <1>1, <1>2, <1>3, GotoTyped DEF Found
<1>5. Apart'
  BY <1>1, <1>2, NoNewHolder, SeatTypes DEF Found
<1> QED
  BY <1>4, <1>5

\* The new seats are the last ones, and nobody has them.
LEMMA CreateKeeps ==
    ASSUME SeatTypeOK, Apart, NEW r \in SeatRequests, CreateSeats(r)
    PROVE  /\ SeatTypeOK' /\ Apart'
           /\ Len(seats') = Len(seats) + seatReq[r].arg
<1> DEFINE n == seatReq[r].arg
           new == [i \in 1..n |-> "AVAILABLE"]
<1>1. n \in Nat
  BY SeatTypes DEF SeatReqs
<1>2. new \in Seq(SeatStates) /\ Len(new) = n
  BY <1>1 DEF SeatStates
<1>3. seats' = seats \o new
  BY DEF CreateSeats
<1>4. /\ seats' \in Seq(SeatStates) /\ Len(seats') = Len(seats) + n
      /\ \A s \in SeatIds : seats'[s] = seats[s]
  <2> HIDE DEF new, n
  <2>1. seats \in Seq(SeatStates)
    BY SeatTypes
  <2>2. /\ seats \o new \in Seq(SeatStates)
        /\ Len(seats \o new) = Len(seats) + Len(new)
        /\ \A i \in 1..Len(seats) + Len(new) :
               (seats \o new)[i] = IF i <= Len(seats) THEN seats[i] ELSE new[i - Len(seats)]
    BY <1>2, <2>1, ConcatProperties
  <2>3. \A s \in SeatIds : s \in 1..Len(seats) + n /\ s <= Len(seats)
    BY <1>1, SeatTypes DEF SeatIds
  <2> QED
    BY <1>2, <1>3, <2>2, <2>3
<1> HIDE DEF new
<1>5. SeatIds \subseteq SeatIds' /\ Len(seats') \in Nat
  BY <1>1, <1>4, SeatTypes DEF SeatIds
<1>6. /\ UNCHANGED <<assignments, clashed>>
      /\ seatReq' = [seatReq EXCEPT ![r] = IdleRequest]
      /\ AssignmentIds' = AssignmentIds /\ ActiveAssignments' = ActiveAssignments
  BY DEF CreateSeats, SeatReqDone, AssignmentIds, ActiveAssignments
<1>7. assignments' \in Seq(AssignmentRows')
  <2>1. AssignmentRows \subseteq AssignmentRows'
    BY <1>5 DEF AssignmentRows
  <2> QED
    BY <1>6, <2>1, SeqMonotonic, SeatTypes
<1>8. SeatTypeOK'
  <2>1. seatReq' \in [SeatRequests -> SeatReqs]
    BY <1>6, IdleRow, SeatTypes
  <2>2. \A q \in SeatRequests :
            /\ seatReq'[q].at \in {"claiming", "assigning", "freeing"}
                   => seatReq'[q].arg \in SeatIds'
            /\ seatReq'[q].at \in {"removing", "transferring"}
                   => seatReq'[q].arg \in AssignmentIds'
    BY <1>5, <1>6, IdleRow, SeatTypes DEF SeatTypeOK
  <2>3. clashed' \subseteq SeatIds'
    BY <1>5, <1>6 DEF SeatTypeOK
  <2> QED
    BY <1>4, <1>7, <2>1, <2>2, <2>3 DEF SeatTypeOK, AssignmentRows, SeatReqs, SeatStates
<1>9. ASSUME NEW s \in SeatIds' \ clashed'
      PROVE  SeatApart(s)'
  <2>1. /\ \A a \in AssignmentIds : Assigned(a, s)' <=> Assigned(a, s)
        /\ \A q \in SeatRequests : Holds(q, s)' => Holds(q, s)
    BY <1>6, IdleRow, SeatTypes DEF Assigned, Holds
  <2>2. CASE s \in SeatIds
    <3>1. SeatApart(s) /\ seats'[s] = seats[s]
      BY <1>4, <1>6, <2>2 DEF Apart
    <3> QED
      BY <1>6, <2>1, <3>1 DEF SeatApart
  <2>3. CASE s \notin SeatIds
    <3>1. \A a \in AssignmentIds : ~ Assigned(a, s)
      BY <2>3, SeatTypes DEF Assigned, AssignmentRows
    <3>2. \A q \in SeatRequests : ~ Holds(q, s)
      BY <2>3 DEF SeatTypeOK, Holds
    <3> QED
      BY <1>6, <2>1, <3>1, <3>2 DEF SeatApart
  <2> QED
    BY <2>2, <2>3
<1> QED
  BY <1>4, <1>8, <1>9 DEF Apart

\* The claim is of a seat nobody has.
LEMMA ClaimKeeps ==
    ASSUME SeatTypeOK, Apart, NEW r \in SeatRequests, ClaimSeat(r)
    PROVE  SeatTypeOK' /\ Apart' /\ Len(seats') = Len(seats)
<1> DEFINE s == seatReq[r].arg
           row == [ at |-> "assigning", arg |-> s, tries |-> 0 ]
<1>1. s \in SeatIds /\ s \in Nat /\ seats[s] = "AVAILABLE"
  BY SeatTypes DEF ClaimSeat, Claimable, SeatTypeOK, SeatIds
<1>2. row \in SeatReqs /\ row.at = "assigning" /\ row.arg = s
  BY <1>1, GotoRow
<1>3. /\ seats' = [seats EXCEPT ![s] = "ASSIGNED"]
      /\ seatReq' = [seatReq EXCEPT ![r] = row]
      /\ UNCHANGED <<assignments, clashed>>
      /\ AssignmentIds' = AssignmentIds /\ ActiveAssignments' = ActiveAssignments
  BY DEF ClaimSeat, SeatReqGoto, AssignmentIds, ActiveAssignments
<1> HIDE DEF row, s
<1>4. /\ seats' \in Seq(SeatStates) /\ Len(seats') = Len(seats) /\ SeatIds' = SeatIds
      /\ \A t \in SeatIds : seats'[t] = IF t = s THEN "ASSIGNED" ELSE seats[t]
  BY <1>1, <1>3, ExceptSeq, SeatTypes DEF SeatIds, SeatStates
<1>5. seatReq' \in [SeatRequests -> SeatReqs]
  BY <1>2, <1>3, SeatTypes
<1>6. \A q \in SeatRequests :
          /\ seatReq'[q].at \in {"claiming", "assigning", "freeing"}
                 => seatReq'[q].arg \in SeatIds
          /\ seatReq'[q].at \in {"removing", "transferring"}
                 => seatReq'[q].arg \in AssignmentIds
  BY <1>1, <1>2, <1>3, SeatTypes DEF SeatTypeOK
<1>7. SeatTypeOK'
  BY <1>3, <1>4, <1>5, <1>6 DEF SeatTypeOK, SeatReqs, SeatStates
<1>8. ASSUME NEW t \in SeatIds \ clashed
      PROVE  SeatApart(t)'
  <2>1. SeatApart(t)
    BY <1>8 DEF Apart
  <2>2. \A a \in AssignmentIds : Assigned(a, t)' <=> Assigned(a, t)
    BY <1>3 DEF Assigned
  <2>3. CASE t = s
    <3>1. /\ \A a \in AssignmentIds : ~ Assigned(a, t)
          /\ \A q \in SeatRequests : ~ Holds(q, t)
      BY <1>1, <2>1, <2>3 DEF SeatApart
    <3>2. \A q \in SeatRequests : Holds(q, t)' => q = r
      BY <1>3, <3>1, SeatTypes DEF Holds
    <3> QED
      BY <1>3, <1>4, <2>2, <2>3, <3>1, <3>2 DEF SeatApart
  <2>4. CASE t # s
    <3>1. \A q \in SeatRequests : Holds(q, t)' => Holds(q, t)
      BY <1>2, <1>3, <2>4, SeatTypes DEF Holds
    <3> QED
      BY <1>3, <1>4, <2>1, <2>2, <2>4, <3>1 DEF SeatApart
  <2> QED
    BY <2>3, <2>4
<1> QED
  BY <1>3, <1>4, <1>7, <1>8 DEF Apart

\* The seat passes from its request to its assignment.
LEMMA AssignKeeps ==
    ASSUME SeatTypeOK, Apart, NEW r \in SeatRequests, CreateAssignment(r)
    PROVE  SeatTypeOK' /\ Apart' /\ Len(seats') = Len(seats)
<1> DEFINE s == seatReq[r].arg
           new == NewAssignment(s)
<1>0. PICK last \in Nat : last = Len(assignments) + 1
  BY SeatTypes
<1>1. s \in SeatIds /\ Holds(r, s)
  BY DEF CreateAssignment, SeatTypeOK, Holds
<1>2. new \in AssignmentRows /\ new.seat = s /\ new.status = "ACTIVE"
  BY <1>1 DEF NewAssignment, AssignmentRows
<1>3. /\ assignments' = Append(assignments, new)
      /\ seatReq' = [seatReq EXCEPT ![r] = IdleRequest]
      /\ UNCHANGED <<seats, clashed>> /\ SeatIds' = SeatIds
  BY DEF CreateAssignment, SeatReqDone, SeatIds
<1> HIDE DEF new, s
<1>4. /\ assignments' \in Seq(AssignmentRows) /\ Len(assignments') = last
      /\ assignments'[last] = new
      /\ \A a \in AssignmentIds : assignments'[a] = assignments[a]
      /\ AssignmentIds' = AssignmentIds \cup {last} /\ last \notin AssignmentIds
  BY <1>0, <1>2, <1>3, AppendProperties, SeatTypes DEF AssignmentIds
<1>5. AssignmentRows' = AssignmentRows /\ AssignmentIds \subseteq AssignmentIds'
  BY <1>3, <1>4 DEF AssignmentRows
<1>6. seatReq' \in [SeatRequests -> SeatReqs]
  BY <1>3, IdleRow, SeatTypes
<1>7. \A q \in SeatRequests :
          /\ seatReq'[q].at \in {"claiming", "assigning", "freeing"}
                 => seatReq'[q].arg \in SeatIds
          /\ seatReq'[q].at \in {"removing", "transferring"}
                 => seatReq'[q].arg \in AssignmentIds'
  BY <1>3, <1>5, IdleRow, SeatTypes DEF SeatTypeOK
<1>8. SeatTypeOK'
  BY <1>3, <1>4, <1>5, <1>6, <1>7 DEF SeatTypeOK, SeatReqs, AssignmentRows, SeatStates
<1>9. ASSUME NEW t \in SeatIds \ clashed
      PROVE  SeatApart(t)'
  <2>1. SeatApart(t)
    BY <1>9 DEF Apart
  <2>2. /\ \A a \in AssignmentIds : Assigned(a, t)' <=> Assigned(a, t)
        /\ Assigned(last, t)' <=> t = s
    BY <1>2, <1>4 DEF Assigned, ActiveAssignments
  <2>3. \A q \in SeatRequests : Holds(q, t)' <=> Holds(q, t) /\ q # r
    BY <1>3, IdleRow, SeatTypes DEF Holds
  <2>4. CASE t = s
    <3>1. /\ \A a \in AssignmentIds : ~ Assigned(a, t)
          /\ \A q \in SeatRequests : ~ Holds(q, t)'
          /\ seats[t] # "AVAILABLE"
      BY <1>1, <2>1, <2>3, <2>4 DEF SeatApart
    <3>2. \A a \in AssignmentIds' : Assigned(a, t)' => a = last
      BY <1>4, <2>2, <3>1
    <3> QED
      BY <1>3, <3>1, <3>2 DEF SeatApart
  <2>5. CASE t # s
    <3>1. \A a \in AssignmentIds' : Assigned(a, t)' => a \in AssignmentIds /\ Assigned(a, t)
      BY <1>4, <2>2, <2>5
    <3> QED
      BY <1>3, <2>1, <2>3, <3>1 DEF SeatApart
  <2> QED
    BY <2>4, <2>5
<1> QED
  BY <1>3, <1>8, <1>9 DEF Apart

\* The seat passes from its assignment to the request that frees it, or is clashed.
LEMMA EndKeeps ==
    ASSUME SeatTypeOK, Apart, NEW r \in SeatRequests, EndAssignment(r)
    PROVE  SeatTypeOK' /\ Apart' /\ Len(seats') = Len(seats)
<1> DEFINE a0 == seatReq[r].arg
           s == assignments[a0].seat
           ended == [assignments[a0] EXCEPT !.status = "REMOVED"]
           row == [ at |-> "freeing", arg |-> s, tries |-> 0 ]
<1>1. a0 \in AssignmentIds
  BY DEF EndAssignment, SeatTypeOK
<1>2. assignments[a0] \in AssignmentRows /\ s \in SeatIds /\ s \in Nat
  BY <1>1, SeatTypes DEF AssignmentRows, SeatIds
<1>3. ended \in AssignmentRows /\ ended.seat = s /\ ended.status = "REMOVED"
  BY <1>2 DEF AssignmentRows
<1>4. row \in SeatReqs /\ row.at = "freeing" /\ row.arg = s
  BY <1>2, GotoRow
<1>5. /\ assignments' = [assignments EXCEPT ![a0] = ended]
      /\ seatReq' = [seatReq EXCEPT ![r] = row]
      /\ seats' = seats /\ SeatIds' = SeatIds
      /\ clashed' = IF a0 \in ActiveAssignments THEN clashed ELSE clashed \cup {s}
  BY DEF EndAssignment, SeatReqGoto, SeatIds, NoteClash
<1> HIDE DEF ended, row, s, a0
<1>6. /\ assignments' \in Seq(AssignmentRows) /\ AssignmentIds' = AssignmentIds
      /\ \A a \in AssignmentIds : assignments'[a] = IF a = a0 THEN ended ELSE assignments[a]
  BY <1>1, <1>3, <1>5, ExceptSeq, SeatTypes DEF AssignmentIds
<1>7. AssignmentRows' = AssignmentRows /\ clashed \subseteq clashed' /\ clashed' \subseteq SeatIds
  BY <1>2, <1>5 DEF AssignmentRows, SeatTypeOK
<1>8. seatReq' \in [SeatRequests -> SeatReqs]
  BY <1>4, <1>5, SeatTypes
<1>9. \A q \in SeatRequests :
          /\ seatReq'[q].at \in {"claiming", "assigning", "freeing"}
                 => seatReq'[q].arg \in SeatIds
          /\ seatReq'[q].at \in {"removing", "transferring"}
                 => seatReq'[q].arg \in AssignmentIds
  BY <1>2, <1>4, <1>5, SeatTypes DEF SeatTypeOK
<1>10. SeatTypeOK'
  BY <1>5, <1>6, <1>7, <1>8, <1>9 DEF SeatTypeOK, SeatReqs, AssignmentRows, SeatStates
<1>11. ASSUME NEW t \in SeatIds \ clashed'
       PROVE  SeatApart(t)'
  <2>1. SeatApart(t)
    BY <1>7, <1>11 DEF Apart
  <2>2. \A a \in AssignmentIds : Assigned(a, t)' <=> Assigned(a, t) /\ a # a0
    BY <1>3, <1>6 DEF Assigned, ActiveAssignments
  <2>3. CASE t = s
    <3>1. Assigned(a0, t)
      BY <1>1, <1>5, <1>11, <2>3 DEF Assigned, s
    <3>2. /\ \A a \in AssignmentIds : ~ Assigned(a, t)'
          /\ \A q \in SeatRequests : ~ Holds(q, t)
          /\ seats[t] # "AVAILABLE"
      BY <1>1, <2>1, <2>2, <3>1 DEF SeatApart
    <3>3. \A q \in SeatRequests : Holds(q, t)' => q = r
      BY <1>5, <3>2, SeatTypes DEF Holds
    <3> QED
      BY <1>5, <1>6, <3>2, <3>3 DEF SeatApart
  <2>4. CASE t # s
    <3>1. \A q \in SeatRequests : Holds(q, t)' => Holds(q, t)
      BY <1>4, <1>5, <2>4, SeatTypes DEF Holds
    <3> QED
      BY <1>5, <1>6, <2>1, <2>2, <3>1 DEF SeatApart
  <2> QED
    BY <2>3, <2>4
<1> QED
  BY <1>5, <1>10, <1>11 DEF Apart

\* Nobody but the request that frees a seat has it.
LEMMA FreeKeeps ==
    ASSUME SeatTypeOK, Apart, NEW r \in SeatRequests, FreeSeat(r)
    PROVE  SeatTypeOK' /\ Apart' /\ Len(seats') = Len(seats)
<1>0. PICK s \in SeatIds : s = seatReq[r].arg
  BY DEF FreeSeat, SeatTypeOK
<1>1. Holds(r, s)
  BY <1>0 DEF FreeSeat, Holds
<1>2. /\ seats' = [seats EXCEPT ![s] = "AVAILABLE"]
      /\ seatReq' = [seatReq EXCEPT ![r] = IdleRequest]
      /\ UNCHANGED <<assignments, clashed>>
      /\ AssignmentIds' = AssignmentIds /\ ActiveAssignments' = ActiveAssignments
  BY <1>0 DEF FreeSeat, SeatReqDone, AssignmentIds, ActiveAssignments
<1>3. /\ seats' \in Seq(SeatStates) /\ Len(seats') = Len(seats) /\ SeatIds' = SeatIds
      /\ \A t \in SeatIds : t # s => seats'[t] = seats[t]
  BY <1>2, ExceptSeq, SeatTypes DEF SeatIds, SeatStates
<1>4. /\ seatReq' \in [SeatRequests -> SeatReqs]
      /\ \A q \in SeatRequests :
             /\ seatReq'[q].at \in {"claiming", "assigning", "freeing"}
                    => seatReq'[q].arg \in SeatIds
             /\ seatReq'[q].at \in {"removing", "transferring"}
                    => seatReq'[q].arg \in AssignmentIds
  BY <1>2, IdleRow, SeatTypes DEF SeatTypeOK
<1>5. SeatTypeOK'
  BY <1>2, <1>3, <1>4 DEF SeatTypeOK, SeatReqs, SeatStates
<1>6. ASSUME NEW t \in SeatIds \ clashed
      PROVE  SeatApart(t)'
  <2>1. SeatApart(t)
    BY <1>6 DEF Apart
  <2>2. \A a \in AssignmentIds : Assigned(a, t)' <=> Assigned(a, t)
    BY <1>2 DEF Assigned
  <2>3. \A q \in SeatRequests : Holds(q, t)' <=> Holds(q, t) /\ q # r
    BY <1>2, IdleRow, SeatTypes DEF Holds
  <2>4. CASE t = s
    BY <1>1, <1>2, <2>1, <2>2, <2>3, <2>4 DEF SeatApart
  <2>5. CASE t # s
    BY <1>2, <1>3, <2>1, <2>2, <2>3, <2>5 DEF SeatApart
  <2> QED
    BY <2>4, <2>5
<1> QED
  BY <1>2, <1>3, <1>5, <1>6 DEF Apart

\* The seat passes from one assignment to the next, or is clashed.
LEMMA TransferKeeps ==
    ASSUME SeatTypeOK, Apart, NEW r \in SeatRequests, TransferSeat(r)
    PROVE  SeatTypeOK' /\ Apart' /\ Len(seats') = Len(seats)
<1> DEFINE ended == [assignments[seatReq[r].arg] EXCEPT !.status = "TRANSFERRED"]
<1>0. PICK a0 \in AssignmentIds : a0 = seatReq[r].arg
  BY DEF TransferSeat, SeatTypeOK
<1>1. assignments[a0] \in AssignmentRows
  BY SeatTypes
<1>2. PICK s \in SeatIds : s = assignments[a0].seat
  BY <1>1 DEF AssignmentRows
<1>3. PICK last \in Nat : last = Len(assignments) + 1
  BY SeatTypes
<1>4. ended \in AssignmentRows /\ ended.seat = s /\ ended.status = "TRANSFERRED"
  BY <1>0, <1>1, <1>2 DEF AssignmentRows
<1>5. NewAssignment(s) \in AssignmentRows /\ NewAssignment(s).seat = s
      /\ NewAssignment(s).status = "ACTIVE"
  BY DEF NewAssignment, AssignmentRows
<1>6. /\ assignments' = Append([assignments EXCEPT ![a0] = ended], NewAssignment(s))
      /\ seatReq' = [seatReq EXCEPT ![r] = IdleRequest]
      /\ seats' = seats /\ SeatIds' = SeatIds
      /\ clashed' = IF a0 \in ActiveAssignments THEN clashed ELSE clashed \cup {s}
  BY <1>0, <1>2 DEF TransferSeat, SeatReqDone, SeatIds, NoteClash
<1> HIDE DEF ended
<1>7. /\ [assignments EXCEPT ![a0] = ended] \in Seq(AssignmentRows)
      /\ Len([assignments EXCEPT ![a0] = ended]) = Len(assignments)
      /\ \A a \in AssignmentIds :
             [assignments EXCEPT ![a0] = ended][a] = IF a = a0 THEN ended ELSE assignments[a]
  BY <1>4, ExceptSeq, SeatTypes DEF AssignmentIds
<1>8. /\ assignments' \in Seq(AssignmentRows) /\ Len(assignments') = last
      /\ assignments'[last] = NewAssignment(s)
      /\ \A a \in AssignmentIds : assignments'[a] = IF a = a0 THEN ended ELSE assignments[a]
      /\ AssignmentIds' = AssignmentIds \cup {last} /\ last \notin AssignmentIds
  <2> DEFINE sq == [assignments EXCEPT ![a0] = ended]
  <2>1. /\ sq \in Seq(AssignmentRows) /\ Len(sq) = Len(assignments)
        /\ assignments' = Append(sq, NewAssignment(s))
    BY <1>6, <1>7
  <2> HIDE DEF sq
  <2>2. /\ assignments' \in Seq(AssignmentRows) /\ Len(assignments') = Len(sq) + 1
        /\ assignments'[Len(sq) + 1] = NewAssignment(s)
        /\ \A a \in 1..Len(sq) : assignments'[a] = sq[a]
    BY <1>5, <2>1, AppendProperties
  <2>3. /\ AssignmentIds' = AssignmentIds \cup {last} /\ last \notin AssignmentIds
    BY <1>3, <2>1, <2>2, SeatTypes DEF AssignmentIds
  <2> QED
    BY <1>3, <1>7, <2>1, <2>2, <2>3 DEF AssignmentIds, sq
<1>9. /\ AssignmentRows' = AssignmentRows /\ AssignmentIds \subseteq AssignmentIds'
      /\ clashed \subseteq clashed' /\ clashed' \subseteq SeatIds
  BY <1>6, <1>8 DEF AssignmentRows, SeatTypeOK
<1>10. /\ seatReq' \in [SeatRequests -> SeatReqs]
       /\ \A q \in SeatRequests :
              /\ seatReq'[q].at \in {"claiming", "assigning", "freeing"}
                     => seatReq'[q].arg \in SeatIds
              /\ seatReq'[q].at \in {"removing", "transferring"}
                     => seatReq'[q].arg \in AssignmentIds'
  BY <1>6, <1>9, IdleRow, SeatTypes DEF SeatTypeOK
<1>11. SeatTypeOK'
  BY <1>6, <1>8, <1>9, <1>10 DEF SeatTypeOK, SeatReqs, AssignmentRows, SeatStates
<1>12. ASSUME NEW t \in SeatIds \ clashed'
       PROVE  SeatApart(t)'
  <2>1. SeatApart(t)
    BY <1>9, <1>12 DEF Apart
  <2>2. /\ \A a \in AssignmentIds : Assigned(a, t)' <=> Assigned(a, t) /\ a # a0
        /\ Assigned(last, t)' <=> t = s
    BY <1>4, <1>5, <1>8 DEF Assigned, ActiveAssignments
  <2>3. \A q \in SeatRequests : Holds(q, t)' <=> Holds(q, t) /\ q # r
    BY <1>6, IdleRow, SeatTypes DEF Holds
  <2>4. CASE t = s
    <3>1. Assigned(a0, t)
      BY <1>2, <1>6, <1>12, <2>4 DEF Assigned
    <3>2. /\ \A a \in AssignmentIds' : Assigned(a, t)' => a = last
          /\ \A q \in SeatRequests : ~ Holds(q, t)'
          /\ seats[t] # "AVAILABLE"
      BY <1>8, <2>1, <2>2, <2>3, <3>1 DEF SeatApart
    <3> QED
      BY <1>6, <3>2 DEF SeatApart
  <2>5. CASE t # s
    <3>1. \A a \in AssignmentIds' : Assigned(a, t)' => a \in AssignmentIds /\ Assigned(a, t)
      BY <1>8, <2>2, <2>5
    <3> QED
      BY <1>6, <2>1, <2>3, <3>1 DEF SeatApart
  <2> QED
    BY <2>4, <2>5
<1> QED
  BY <1>6, <1>11, <1>12 DEF Apart

-----------------------------------------------------------------------------
(* Seats stay bounded. *)

\* Multiplication by the size of a bulk.
LEMMA BulkMonotone ==
    ASSUME NEW i \in Nat, NEW j \in Nat, i <= j
    PROVE  i * MaxBulk <= j * MaxBulk /\ i * MaxBulk \in Nat /\ j * MaxBulk \in Nat
<1>1. PICK d \in Nat : j = i + d
  <2>1. j - i \in Nat /\ j = i + (j - i)
    OBVIOUS
  <2> QED
    BY <2>1
<1>2. MaxBulk \in Nat
  BY SeatAssumption
<1>3. i * MaxBulk \in Nat /\ d * MaxBulk \in Nat
  BY <1>2
<1>4. (i + d) * MaxBulk = i * MaxBulk + d * MaxBulk
  BY <1>2
<1> QED
  BY <1>1, <1>3, <1>4

\* One bulk more.
LEMMA BulkOneMore ==
    ASSUME NEW i \in Nat
    PROVE  (i + 1) * MaxBulk = i * MaxBulk + MaxBulk
  BY SeatAssumption

\* The requests, and those that create seats.
LEMMA CreatingCounted ==
    /\ OtherSeatReqs \in Nat /\ Bound \in Nat
    /\ IsFiniteSet(Creating) /\ Cardinality(Creating) \in Nat
    /\ Creating # {} => Cardinality(Creating) # 0
<1>1. IsFiniteSet(SeatRequests) /\ Cardinality(SeatRequests) \in Nat
      /\ Cardinality(SeatRequests) # 0
  BY SeatAssumption, FS_CardinalityType, FS_EmptySet
<1>2. OtherSeatReqs \in Nat
  BY <1>1 DEF OtherSeatReqs
<1>3. Bound \in Nat
  BY <1>2, BulkMonotone, SeatAssumption DEF Bound
<1>4. Creating \in SUBSET SeatRequests
  BY DEF Creating
<1>5. IsFiniteSet(Creating)
  BY <1>1, <1>4, FS_Subset
<1> QED
  BY <1>2, <1>3, <1>5, FS_CardinalityType, FS_EmptySet

\* A request creates its seats, or no longer will.
LEMMA CreatedBounded ==
    ASSUME SeatTypeOK, Bounded, NEW r \in SeatRequests, NEW row \in SeatReqs,
           seatReq' = [seatReq EXCEPT ![r] = row], row.at # "creating",
           \/ Len(seats') = Len(seats)
           \/ /\ r \in Creating
              /\ Len(seats') = Len(seats) + seatReq[r].arg
    PROVE  Bounded'
<1>1. /\ Creating' = Creating \ {r}
      /\ \A q \in Creating' : seatReq'[q].arg = seatReq[q].arg
      /\ \A q \in Creating : seatReq[q].arg \in Nat
      /\ Len(seats) \in Nat /\ MaxBulk \in Nat
  BY SeatTypes, SeatAssumption DEF Creating, SeatReqs
<1>2. CASE r \notin Creating
  <2>1. Creating' = Creating /\ Len(seats') = Len(seats)
    BY <1>1, <1>2
  <2> QED
    BY <1>1, <2>1 DEF Bounded, Bound, OtherSeatReqs
<1>3. CASE r \in Creating
  <2>1. PICK n \in Nat : n = Cardinality(Creating') /\ Cardinality(Creating) = n + 1
    <3>1. Cardinality(Creating \ {r}) = Cardinality(Creating) - 1
      BY <1>3, CreatingCounted, FS_RemoveElement
    <3>2. Cardinality(Creating) # 0 /\ Cardinality(Creating) \in Nat
      BY <1>3, CreatingCounted
    <3>3. Cardinality(Creating) - 1 \in Nat
      BY <3>2
    <3> QED
      BY <1>1, <3>1, <3>2, <3>3
  <2>2. PICK k \in Nat : k = seatReq[r].arg /\ k <= MaxBulk
    BY <1>1, <1>3 DEF Bounded
  <2>3. PICK last \in Creating : Len(seats) + seatReq[last].arg + n * MaxBulk <= Bound
    <3>1. PICK q \in Creating :
              Len(seats) + seatReq[q].arg + (Cardinality(Creating) - 1) * MaxBulk <= Bound
      BY <1>3 DEF Bounded
    <3>2. Cardinality(Creating) - 1 = n
      BY <2>1
    <3> QED
      BY <3>1, <3>2
  <2>4. PICK m \in Nat : m = seatReq[last].arg
    BY <1>1, <2>3
  <2>5. n * MaxBulk \in Nat /\ Bound \in Nat
    BY <2>1, BulkMonotone, CreatingCounted
  <2>6. ASSUME n # 0
        PROVE  n * MaxBulk = (n - 1) * MaxBulk + MaxBulk /\ (n - 1) * MaxBulk \in Nat
    <3>1. PICK i \in Nat : i = n - 1 /\ n = i + 1
      <4>1. n - 1 \in Nat /\ n = (n - 1) + 1
        BY <2>6
      <4> QED
        BY <4>1
    <3>2. (i + 1) * MaxBulk = i * MaxBulk + MaxBulk
      BY BulkOneMore
    <3>3. i * MaxBulk \in Nat
      BY BulkMonotone
    <3>4. n * MaxBulk = (i + 1) * MaxBulk
      BY <3>1
    <3>5. (n - 1) * MaxBulk = i * MaxBulk
      BY <3>1
    <3> QED
      BY <3>2, <3>3, <3>4, <3>5, Zenon
  <2>7. Creating' # {} => n # 0
    <3>1. IsFiniteSet(Creating')
      BY <1>1, CreatingCounted, FS_RemoveElement
    <3> QED
      BY <2>1, <3>1, FS_EmptySet
  <2>8. Len(seats') \in Nat /\ Len(seats') <= Len(seats) + k
    BY <1>1, <2>2
  <2> DEFINE all == n * MaxBulk
             rest == (n - 1) * MaxBulk
  <2>13. all \in Nat /\ Len(seats) + m + all <= Bound
    BY <2>3, <2>4, <2>5
  <2> HIDE DEF all, rest
  <2>9. Len(seats') <= Bound
    <3>1. CASE last = r
      BY <1>1, <2>2, <2>4, <2>5, <2>8, <2>13, <3>1
    <3>2. CASE last # r
      <4>1. last \in Creating'
        BY <1>1, <2>3, <3>2
      <4>2. all >= MaxBulk
        BY <1>1, <2>6, <2>7, <4>1 DEF all
      <4> QED
        BY <1>1, <2>2, <2>5, <2>8, <2>13, <4>2
    <3> QED
      BY <3>1, <3>2
  <2>10. ASSUME Creating' # {}
         PROVE  \E q \in Creating' :
                    Len(seats') + seatReq'[q].arg + rest <= Bound
    <3>1. all = rest + MaxBulk /\ rest \in Nat
      BY <2>6, <2>7, <2>10 DEF all, rest
    <3>2. CASE last = r
      <4>1. PICK q \in Creating' : TRUE
        BY <2>10
      <4>2. PICK j \in Nat : j = seatReq'[q].arg /\ j <= MaxBulk
        BY <1>1, <4>1 DEF Bounded
      <4>3. Len(seats') + j + rest <= Bound
        <5>1. m = k
          BY <2>2, <2>4, <3>2
        <5> QED
          BY <1>1, <2>5, <2>8, <2>13, <3>1, <4>2, <5>1
      <4> QED
        BY <4>1, <4>2, <4>3
    <3>3. CASE last # r
      <4>1. last \in Creating' /\ seatReq'[last].arg = m
        BY <1>1, <2>3, <2>4, <3>3
      <4>2. Len(seats') + m + rest <= Bound
        BY <1>1, <2>2, <2>5, <2>8, <2>13, <3>1
      <4> QED
        BY <4>1, <4>2
    <3> QED
      BY <3>2, <3>3
  <2>11. \A q \in Creating' : seatReq'[q].arg <= MaxBulk
    BY <1>1 DEF Bounded
  <2>12. Bound' = Bound
    BY DEF Bound, OtherSeatReqs
  <2> QED
    BY <2>1, <2>9, <2>10, <2>11, <2>12 DEF Bounded, rest
<1> QED
  BY <1>2, <1>3

\* A request counts the seats, and finds room for those it will create.
LEMMA CountBounded ==
    ASSUME SeatTypeOK, Bounded, NEW r \in SeatRequests, NEW k \in 1..MaxBulk,
           CountSeats(r, k)
    PROVE  Bounded'
<1>1. /\ Creating' = Creating \cup {r} /\ r \notin Creating
      /\ \A q \in Creating : seatReq'[q].arg = seatReq[q].arg
      /\ seatReq'[r].arg = k
      /\ seats' = seats /\ Len(seats) + k <= SeatLimit
  BY SeatTypes DEF CountSeats, SeatReqGoto, SeatRoom, Creating
<1>2. k \in Nat /\ k <= MaxBulk /\ MaxBulk \in Nat /\ SeatLimit \in Nat /\ Len(seats) \in Nat
  BY SeatTypes, SeatAssumption
<1>3. PICK n \in Nat : n = Cardinality(Creating) /\ Cardinality(Creating') = n + 1
  BY <1>1, CreatingCounted, FS_AddElement
<1>4. n <= OtherSeatReqs
  <2>1. Creating' \in SUBSET SeatRequests
    BY <1>1 DEF Creating
  <2>2. Cardinality(Creating') <= Cardinality(SeatRequests)
    BY <2>1, SeatAssumption, FS_Subset
  <2>3. Cardinality(SeatRequests) \in Nat
    BY SeatAssumption, FS_CardinalityType
  <2> QED
    BY <1>3, <2>2, <2>3 DEF OtherSeatReqs
<1>5. n * MaxBulk <= OtherSeatReqs * MaxBulk
      /\ n * MaxBulk \in Nat /\ OtherSeatReqs * MaxBulk \in Nat
  BY <1>3, <1>4, CreatingCounted, BulkMonotone
<1>6. Len(seats) + k + n * MaxBulk <= Bound /\ Bound \in Nat
  BY <1>1, <1>2, <1>5, CreatingCounted DEF Bound
<1>7. Cardinality(Creating') - 1 = n
  BY <1>3
<1>8. \A q \in Creating' : seatReq'[q].arg <= MaxBulk
  BY <1>1, <1>2 DEF Bounded
<1>9. /\ r \in Creating'
      /\ Len(seats') + seatReq'[r].arg + (Cardinality(Creating') - 1) * MaxBulk <= Bound
  BY <1>1, <1>6, <1>7
<1>10. Bound' = Bound /\ Len(seats') <= Bound
  BY <1>1 DEF Bound, OtherSeatReqs, Bounded
<1> QED
  BY <1>8, <1>9, <1>10 DEF Bounded

-----------------------------------------------------------------------------
(* Seats: the theorems. *)

SeatInv == SeatTypeOK /\ Apart /\ Bounded

\* There are no seats at first.
LEMMA SeatInitInv == ASSUME SeatInit PROVE SeatInv
<1>1. /\ SeatIds = {} /\ AssignmentIds = {} /\ Len(seats) = 0
      /\ seats \in Seq(SeatStates) /\ assignments \in Seq(AssignmentRows)
  BY EmptySeq DEF SeatInit, SeatIds, AssignmentIds
<1>2. /\ seatReq \in [SeatRequests -> SeatReqs]
      /\ \A r \in SeatRequests : seatReq[r].at = "idle"
  BY IdleRow DEF SeatInit
<1>3. SeatTypeOK
  BY <1>1, <1>2 DEF SeatInit, SeatTypeOK, SeatStates, AssignmentRows, SeatReqs
<1>4. Creating = {}
  BY <1>2 DEF Creating
<1>5. Bounded
  BY <1>1, <1>4, CreatingCounted DEF Bounded
<1> QED
  BY <1>1, <1>3, <1>5 DEF SeatInv, Apart

\* A request that creates no seats and counts none.
LEMMA OtherBounded ==
    ASSUME SeatTypeOK, Bounded, NEW r \in SeatRequests, Len(seats') = Len(seats),
           \/ ClaimSeat(r)
           \/ CreateAssignment(r)
           \/ EndAssignment(r)
           \/ FreeSeat(r)
           \/ TransferSeat(r)
    PROVE  Bounded'
<1>1. CASE ClaimSeat(r)
  <2>1. seatReq[r].arg \in Nat
    BY SeatTypes DEF SeatReqs
  <2> DEFINE row == [ at |-> "assigning", arg |-> seatReq[r].arg, tries |-> 0 ]
  <2>2. row \in SeatReqs /\ row.at # "creating"
    BY <2>1, GotoRow
  <2>3. seatReq' = [seatReq EXCEPT ![r] = row]
    BY <1>1 DEF ClaimSeat, SeatReqGoto
  <2> HIDE DEF row
  <2> QED
    BY <2>2, <2>3, CreatedBounded
<1>2. CASE EndAssignment(r)
  <2>1. assignments[seatReq[r].arg].seat \in Nat
    BY <1>2, SeatTypes DEF EndAssignment, SeatTypeOK, AssignmentRows, SeatIds
  <2> DEFINE row == [ at |-> "freeing", arg |-> assignments[seatReq[r].arg].seat, tries |-> 0 ]
  <2>2. row \in SeatReqs /\ row.at # "creating"
    BY <2>1, GotoRow
  <2>3. seatReq' = [seatReq EXCEPT ![r] = row]
    BY <1>2 DEF EndAssignment, SeatReqGoto
  <2> HIDE DEF row
  <2> QED
    BY <2>2, <2>3, CreatedBounded
<1>3. CASE CreateAssignment(r) \/ FreeSeat(r) \/ TransferSeat(r)
  BY <1>3, IdleRow, CreatedBounded DEF CreateAssignment, FreeSeat, TransferSeat, SeatReqDone
<1> QED
  BY <1>1, <1>2, <1>3

\* One step of any request.
LEMMA SeatNextInv == ASSUME SeatInv, [SeatNext]_seatVars PROVE SeatInv'
<1> USE DEF SeatInv
<1>1. ASSUME NEW r \in SeatRequests, QuietStep(r)
      PROVE  SeatInv'
  <2>1. SeatTypeOK' /\ Apart'
    BY <1>1, QuietKeeps
  <2>2. CASE \E n \in 1..MaxBulk : CountSeats(r, n)
    BY <2>1, <2>2, CountBounded
  <2>3. CASE ~ \E n \in 1..MaxBulk : CountSeats(r, n)
    <3>1. PICK row \in SeatReqs : Found(r, row)
      BY <1>1, QuietRow
    <3>2. row.at # "creating" /\ seatReq' = [seatReq EXCEPT ![r] = row]
      BY <2>3, <3>1 DEF Found
    <3>3. seats' = seats
      BY <1>1 DEF QuietStep, CountSeats, FindSeat, NoSeatLeft, LoseSeat, ReadAssignment,
                  CutSeatRequest
    <3>4. Bounded'
      BY <3>2, <3>3, CreatedBounded
    <3> QED
      BY <2>1, <3>4
  <2> QED
    BY <2>2, <2>3
<1>2. ASSUME NEW r \in SeatRequests, CreateSeats(r)
      PROVE  SeatInv'
  <2>1. SeatTypeOK' /\ Apart' /\ Len(seats') = Len(seats) + seatReq[r].arg
    BY <1>2, CreateKeeps
  <2>2. r \in Creating /\ seatReq' = [seatReq EXCEPT ![r] = IdleRequest]
    BY <1>2 DEF CreateSeats, Creating, SeatReqDone
  <2>3. Bounded'
    BY <2>1, <2>2, IdleRow, CreatedBounded
  <2> QED
    BY <2>1, <2>3
<1>3. ASSUME NEW r \in SeatRequests,
             \/ ClaimSeat(r)
             \/ CreateAssignment(r)
             \/ EndAssignment(r)
             \/ FreeSeat(r)
             \/ TransferSeat(r)
      PROVE  SeatInv'
  <2>1. SeatTypeOK' /\ Apart' /\ Len(seats') = Len(seats)
    BY <1>3, ClaimKeeps, AssignKeeps, EndKeeps, FreeKeeps, TransferKeeps
  <2>2. Bounded'
    BY <1>3, <2>1, OtherBounded
  <2> QED
    BY <2>1, <2>2
<1>4. CASE UNCHANGED seatVars
  <2>1. /\ UNCHANGED <<seats, assignments, seatReq, clashed>>
        /\ SeatIds' = SeatIds /\ AssignmentIds' = AssignmentIds /\ Creating' = Creating
        /\ ActiveAssignments' = ActiveAssignments /\ Bound' = Bound
    BY <1>4 DEF seatVars, SeatIds, AssignmentIds, Creating, ActiveAssignments, Bound, OtherSeatReqs
  <2>2. /\ \A a, s : Assigned(a, s)' <=> Assigned(a, s)
        /\ \A r, s : Holds(r, s)' <=> Holds(r, s)
    BY <2>1 DEF Assigned, Holds
  <2>3. SeatTypeOK'
    BY <2>1 DEF SeatTypeOK
  <2>4. Apart'
    BY <2>1, <2>2 DEF Apart, SeatApart
  <2>5. Bounded'
    BY <2>1 DEF Bounded
  <2> QED
    BY <2>3, <2>4, <2>5
<1> QED
  BY <1>1, <1>2, <1>3, <1>4 DEF SeatNext, QuietStep

\* Every value has its type, and every seat and assignment a request works on exists.
THEOREM SeatTypeCorrect == SeatSpec => []SeatTypeOK
<1>1. SeatInit => SeatInv
  BY SeatInitInv
<1>2. SeatInv /\ [SeatNext]_seatVars => SeatInv'
  BY SeatNextInv
<1>3. SeatInv => SeatTypeOK
  BY DEF SeatInv
<1> QED
  BY <1>1, <1>2, <1>3, PTL DEF SeatSpec

\* The holders of a seat, in the two kinds of SeatApart.
LEMMA HoldersApart == SeatTypeOK /\ Apart => SeatExclusive
<1> SUFFICES ASSUME SeatTypeOK, Apart, NEW s \in SeatIds \ clashed
             PROVE  /\ \A x, y \in Holders(s) : x = y
                    /\ seats[s] = "AVAILABLE" => Holders(s) = {}
  BY DEF SeatExclusive
<1>1. SeatApart(s)
  BY DEF Apart
<1>2. ASSUME NEW x \in Holders(s)
      PROVE  \/ \E a \in AssignmentIds : Assigned(a, s) /\ x = <<"assignment", a>>
             \/ \E r \in SeatRequests : Holds(r, s) /\ x = <<"request", r>>
  BY <1>2 DEF Holders, Assigned, Holds, ActiveAssignments
<1>3. ASSUME NEW x \in Holders(s), NEW y \in Holders(s)
      PROVE  x = y
  BY <1>1, <1>2, <1>3 DEF SeatApart
<1>4. ASSUME seats[s] = "AVAILABLE", NEW x \in Holders(s)
      PROVE  FALSE
  BY <1>1, <1>2, <1>4 DEF SeatApart
<1> QED
  BY <1>3, <1>4

\* Two people never share a seat, and a seat that is available is really free, unless an
\* assignment of it was ended twice: however assign, removeAssignment and transfer of
\* seats.service.ts interleave, and wherever their requests end early.
THEOREM SeatsExclusive == SeatSpec => []SeatExclusive
<1>1. SeatInit => SeatInv
  BY SeatInitInv
<1>2. SeatInv /\ [SeatNext]_seatVars => SeatInv'
  BY SeatNextInv
<1>3. SeatInv => SeatExclusive
  BY HoldersApart DEF SeatInv
<1> QED
  BY <1>1, <1>2, <1>3, PTL DEF SeatSpec

\* bulkCreate passes the seat limit by no more than what the other requests were creating.
THEOREM SeatOverrun == SeatSpec => []SeatsBounded
<1>1. SeatInit => SeatInv
  BY SeatInitInv
<1>2. SeatInv /\ [SeatNext]_seatVars => SeatInv'
  BY SeatNextInv
<1>3. SeatInv => SeatsBounded
  BY DEF SeatInv, Bounded, Bound, OtherSeatReqs, SeatsBounded
<1> QED
  BY <1>1, <1>2, <1>3, PTL DEF SeatSpec

-----------------------------------------------------------------------------
(* License keys: the inductive invariant. *)

KeyRows ==
    [ status : {"none", "ACTIVE", "REVOKED"}, license : OwningLicenses \cup {"none"},
      limit : Nat, count : Nat, expired : BOOLEAN ]

KeyReqs ==
    [ at : {"idle", "swapping", "retrying", "revoking", "moving"},
      key : LicenseKeyIds \cup {"none"}, count : Nat, tries : Nat,
      to : OwningLicenses \cup {"none"} ]

\* The counts of key k agree, and only a revoked key has outlived its revocation, once.
KeyFits(k) ==
    /\ granted[k] = keys[k].count
    /\ keys[k].count <= keys[k].limit
    /\ outlived[k] <= 1
    /\ outlived[k] # 0 => keys[k].status = "REVOKED"
    /\ keys[k].status = "none" => keys[k].count = 0

\* A request has read a key that exists; one about to swap has read a count below the
\* limit that is not ahead of the key's, and is behind it once the key was outlived.
RequestFits(r) ==
    LET k == keyReq[r].key
    IN  /\ keyReq[r].at # "idle" => k \in LicenseKeyIds /\ keys[k].status # "none"
        /\ keyReq[r].at = "swapping" =>
               /\ keyReq[r].count <= keys[k].count
               /\ keyReq[r].count < keys[k].limit
               /\ outlived[k] # 0 => keyReq[r].count < keys[k].count

KeyInv ==
    /\ KeyTypeOK
    /\ \A k \in LicenseKeyIds : KeyFits(k)
    /\ \A r \in KeyRequests : RequestFits(r)

-----------------------------------------------------------------------------
(* License keys: every step preserves the invariant. *)

\* Keys keep their limits, do not cease to exist, and their counts do not fall.
KeysGrow ==
    \A k \in LicenseKeyIds : keys[k].status # "none" =>
        /\ keys'[k].status # "none" /\ keys'[k].limit = keys[k].limit
        /\ keys'[k].count >= keys[k].count

\* A request that does not move fits when keys grow and no more of them are outlived.
LEMMA WaitingFits ==
    ASSUME KeyInv, KeysGrow, NEW r \in KeyRequests, keyReq'[r] = keyReq[r],
           KeyTypeOK',
           \A k \in LicenseKeyIds : outlived'[k] = outlived[k] \/ keys'[k].count > keys[k].count
    PROVE  RequestFits(r)'
<1>1. CASE keyReq[r].at = "idle"
  BY <1>1 DEF RequestFits
<1>2. CASE keyReq[r].at # "idle"
  <2>1. PICK k \in LicenseKeyIds : k = keyReq[r].key /\ keys[k].status # "none"
    BY <1>2 DEF KeyInv, RequestFits
  <2>2. /\ keys'[k].status # "none" /\ keys'[k].limit = keys[k].limit
        /\ keys'[k].count >= keys[k].count
    BY <2>1 DEF KeysGrow
  <2>3. /\ keys[k].count \in Nat /\ keys'[k].count \in Nat /\ keys[k].limit \in Nat
        /\ keyReq[r].count \in Nat
    BY DEF KeyInv, KeyTypeOK
  <2>4. RequestFits(r)
    BY DEF KeyInv
  <2> QED
    BY <2>1, <2>2, <2>3, <2>4 DEF RequestFits
<1> QED
  BY <1>1, <1>2

\* The types, of the definitions above.
LEMMA KeyTypes ==
    /\ KeyTypeOK <=> /\ keys \in [LicenseKeyIds -> KeyRows]
                     /\ keyReq \in [KeyRequests -> KeyReqs]
                     /\ granted \in [LicenseKeyIds -> Nat] /\ outlived \in [LicenseKeyIds -> Nat]
    /\ KeyTypeOK' <=> /\ keys' \in [LicenseKeyIds -> KeyRows]
                      /\ keyReq' \in [KeyRequests -> KeyReqs]
                      /\ granted' \in [LicenseKeyIds -> Nat]
                      /\ outlived' \in [LicenseKeyIds -> Nat]
  BY DEF KeyTypeOK, KeyRows, KeyReqs

\* The row of key k is written and no activation granted.
LEMMA RowWritten ==
    ASSUME KeyInv, NEW k \in LicenseKeyIds, NEW row \in KeyRows,
           keys' = [keys EXCEPT ![k] = row], UNCHANGED <<granted, outlived>>,
           row.status # "none", row.count = keys[k].count, row.count <= row.limit,
           keys[k].status # "none" => row.limit = keys[k].limit,
           outlived[k] # 0 => row.status = "REVOKED"
    PROVE  /\ keys' \in [LicenseKeyIds -> KeyRows]
           /\ KeysGrow
           /\ \A j \in LicenseKeyIds : KeyFits(j)'
<1>1. keys \in [LicenseKeyIds -> KeyRows] /\ \A j \in LicenseKeyIds : KeyFits(j)
  BY KeyTypes DEF KeyInv
<1>2. keys' \in [LicenseKeyIds -> KeyRows]
      /\ \A j \in LicenseKeyIds : keys'[j] = IF j = k THEN row ELSE keys[j]
  BY <1>1
<1>3. \A j \in LicenseKeyIds : keys[j].count \in Nat /\ row.count \in Nat
  BY <1>1 DEF KeyRows
<1> QED
  BY <1>1, <1>2, <1>3 DEF KeysGrow, KeyFits

\* The steps that write key k and move no request.
LEMMA KeyWrittenKeeps ==
    ASSUME KeyInv, NEW k \in LicenseKeyIds,
           ExpireKey(k) \/ \E l \in OwningLicenses, n \in ActivationLimits : GenerateKey(k, l, n)
    PROVE  KeyInv'
<1>1. PICK old \in KeyRows : old = keys[k] /\ KeyFits(k)
  BY KeyTypes DEF KeyInv
<1>2. PICK row \in KeyRows :
          /\ keys' = [keys EXCEPT ![k] = row]
          /\ row.status # "none" /\ row.count = old.count /\ row.count <= row.limit
          /\ old.status # "none" => row.limit = old.limit /\ row.status = old.status
  <2>1. CASE ExpireKey(k)
    <3>1. PICK row : row = [old EXCEPT !.expired = TRUE]
      OBVIOUS
    <3>2. row \in KeyRows /\ row.status = old.status /\ row.count = old.count
          /\ row.limit = old.limit
      BY <3>1 DEF KeyRows
    <3>3. keys' = [keys EXCEPT ![k] = row] /\ old.status # "none"
      BY <1>1, <2>1, <3>1 DEF ExpireKey
    <3> QED
      BY <1>1, <3>2, <3>3 DEF KeyFits
  <2>2. ASSUME NEW l \in OwningLicenses, NEW n \in ActivationLimits, GenerateKey(k, l, n)
        PROVE  \E row \in KeyRows :
                   /\ keys' = [keys EXCEPT ![k] = row]
                   /\ row.status # "none" /\ row.count = old.count /\ row.count <= row.limit
                   /\ old.status # "none" => row.limit = old.limit /\ row.status = old.status
    <3>1. PICK row : row = [NoKeyYet EXCEPT !.status = "ACTIVE", !.license = l, !.limit = n]
      OBVIOUS
    <3>2. row \in KeyRows /\ row.status = "ACTIVE" /\ row.count = 0 /\ row.limit = n /\ n \in Nat
      BY <3>1, KeyAssumption DEF KeyRows, NoKeyYet
    <3>3. keys' = [keys EXCEPT ![k] = row] /\ old.status = "none"
      BY <1>1, <2>2, <3>1 DEF GenerateKey
    <3>4. old.count = 0
      BY <1>1, <3>3 DEF KeyFits
    <3>5. row.count <= row.limit /\ row.count = old.count /\ row.status # "none"
      BY <3>2, <3>4
    <3> QED
      BY <3>2, <3>3, <3>5
  <2> QED
    BY <2>1, <2>2
<1>3. UNCHANGED <<keyReq, granted, outlived>>
  BY DEF ExpireKey, GenerateKey
<1>4. outlived[k] # 0 => row.status = "REVOKED"
  BY <1>1, <1>2 DEF KeyFits
<1>5. /\ keys' \in [LicenseKeyIds -> KeyRows]
      /\ KeysGrow
      /\ \A j \in LicenseKeyIds : KeyFits(j)'
  BY <1>1, <1>2, <1>3, <1>4, RowWritten
<1>6. KeyTypeOK'
  BY <1>3, <1>5, KeyTypes DEF KeyInv
<1>7. \A r \in KeyRequests : RequestFits(r)'
  BY <1>3, <1>5, <1>6, WaitingFits
<1> QED
  BY <1>5, <1>6, <1>7 DEF KeyInv

\* Request r goes to a stage and no key is written.
LEMMA RequestMoves ==
    ASSUME KeyInv, NEW r \in KeyRequests, NEW new \in KeyReqs,
           keyReq' = [keyReq EXCEPT ![r] = new], UNCHANGED <<keys, granted, outlived>>,
           new.at # "idle" => new.key \in LicenseKeyIds /\ keys[new.key].status # "none",
           new.at = "swapping" => /\ new.count <= keys[new.key].count
                                  /\ new.count < keys[new.key].limit
                                  /\ outlived[new.key] = 0
    PROVE  KeyInv'
<1>1. keyReq \in [KeyRequests -> KeyReqs]
  BY KeyTypes DEF KeyInv
<1>2. /\ keyReq' \in [KeyRequests -> KeyReqs]
      /\ \A q \in KeyRequests : keyReq'[q] = IF q = r THEN new ELSE keyReq[q]
  BY <1>1
<1>3. KeyTypeOK'
  BY <1>2, KeyTypes DEF KeyInv
<1>4. KeysGrow
  BY KeyTypes DEF KeyInv, KeysGrow, KeyRows
<1>5. \A j \in LicenseKeyIds : KeyFits(j)'
  BY DEF KeyInv, KeyFits
<1>6. RequestFits(r)'
  BY <1>2 DEF RequestFits
<1>7. ASSUME NEW q \in KeyRequests, q # r PROVE RequestFits(q)'
  BY <1>2, <1>3, <1>4, <1>7, WaitingFits
<1> QED
  BY <1>3, <1>5, <1>6, <1>7 DEF KeyInv

\* A request that reads, is refused or ends.
LEMMA RequestMovesKeeps ==
    ASSUME KeyInv, NEW r \in KeyRequests,
           \/ \E k \in LicenseKeyIds : CheckKey(r, k) \/ ReadKey(r, k)
           \/ RefuseKey(r) \/ LoseActivation(r)
    PROVE  KeyInv'
<1>1. UNCHANGED <<keys, granted, outlived>>
  BY DEF CheckKey, ReadKey, RefuseKey, LoseActivation
<1>2. PICK old \in KeyReqs : old = keyReq[r]
  BY KeyTypes DEF KeyInv
<1>3. IdleKeyRequest \in KeyReqs /\ IdleKeyRequest.at = "idle"
  BY DEF IdleKeyRequest, KeyReqs
<1>4. CASE KeyReqDone(r)
  BY <1>1, <1>3, <1>4, RequestMoves DEF KeyReqDone
<1>5. ASSUME NEW k \in LicenseKeyIds, CheckKey(r, k) PROVE KeyInv'
  <2>1. PICK new : new = [old EXCEPT !.at = "swapping", !.key = k, !.count = keys[k].count]
    OBVIOUS
  <2>2. keys[k].count \in Nat /\ keys[k] \in KeyRows
    BY KeyTypes DEF KeyInv, KeyRows
  <2>3. new \in KeyReqs /\ new.at = "swapping" /\ new.key = k /\ new.count = keys[k].count
    BY <2>1, <2>2 DEF KeyReqs
  <2>4. keyReq' = [keyReq EXCEPT ![r] = new]
    BY <1>2, <1>5, <2>1 DEF CheckKey
  <2>5. keys[k].status = "ACTIVE" /\ keys[k].count < keys[k].limit
    BY <1>5 DEF CheckKey, MayActivate
  <2>6. outlived[k] = 0
    BY <2>5 DEF KeyInv, KeyFits
  <2> QED
    <3>1. /\ new.key \in LicenseKeyIds /\ keys[new.key].status # "none"
          /\ new.count <= keys[new.key].count
          /\ new.count < keys[new.key].limit
          /\ outlived[new.key] = 0
      BY <2>2, <2>3, <2>5, <2>6
    <3> QED
      BY <1>1, <2>3, <2>4, <3>1, RequestMoves
<1>6. ASSUME NEW k \in LicenseKeyIds, ReadKey(r, k) PROVE KeyInv'
  <2>1. PICK new \in KeyReqs :
            /\ keyReq' = [keyReq EXCEPT ![r] = new]
            /\ new.at \in {"revoking", "moving"} /\ new.key = k
    <3>1. CASE keyReq' = [keyReq EXCEPT ![r].at = "revoking", ![r].key = k]
      <4>1. PICK new : new = [old EXCEPT !.at = "revoking", !.key = k]
        OBVIOUS
      <4>2. keyReq' = [keyReq EXCEPT ![r] = new]
        BY <1>2, <3>1, <4>1, KeyTypes DEF KeyInv
      <4>3. new \in KeyReqs /\ new.at = "revoking" /\ new.key = k
        BY <4>1 DEF KeyReqs
      <4> QED
        BY <4>2, <4>3
    <3>2. ASSUME NEW l \in OwningLicenses,
                 keyReq' = [keyReq EXCEPT ![r].at = "moving", ![r].key = k, ![r].to = l]
          PROVE  \E new \in KeyReqs :
                     /\ keyReq' = [keyReq EXCEPT ![r] = new]
                     /\ new.at \in {"revoking", "moving"} /\ new.key = k
      <4>1. PICK new : new = [old EXCEPT !.at = "moving", !.key = k, !.to = l]
        OBVIOUS
      <4>2. keyReq' = [keyReq EXCEPT ![r] = new]
        BY <1>2, <3>2, <4>1, KeyTypes DEF KeyInv
      <4>3. new \in KeyReqs /\ new.at = "moving" /\ new.key = k
        BY <4>1 DEF KeyReqs
      <4> QED
        BY <4>2, <4>3
    <3> QED
      BY <1>6, <3>1, <3>2 DEF ReadKey
  <2>2. keys[k].status # "none"
    BY <1>6 DEF ReadKey
  <2> QED
    BY <1>1, <2>1, <2>2, RequestMoves
<1>7. CASE LoseActivation(r) /\ ~ KeyReqDone(r)
  <2>1. PICK new : new = [old EXCEPT !.at = "retrying", !.tries = old.tries + 1]
    OBVIOUS
  <2>2. new \in KeyReqs /\ new.at = "retrying" /\ new.key = old.key
    <3>1. old.tries + 1 \in Nat
      BY DEF KeyReqs
    <3> QED
      BY <2>1, <3>1 DEF KeyReqs
  <2>3. keyReq' = [keyReq EXCEPT ![r] = new]
    BY <1>2, <1>7, <2>1, KeyTypes DEF LoseActivation, KeyInv
  <2>4. old.key \in LicenseKeyIds /\ keys[old.key].status # "none"
    BY <1>2, <1>7 DEF LoseActivation, KeyInv, RequestFits
  <2> QED
    BY <1>1, <2>2, <2>3, <2>4, RequestMoves
<1> QED
  BY <1>4, <1>5, <1>6, <1>7 DEF RefuseKey

\* A request that is done fits.
LEMMA DoneFits ==
    ASSUME KeyInv, NEW r \in KeyRequests, KeyReqDone(r)
    PROVE  /\ keyReq' \in [KeyRequests -> KeyReqs]
           /\ \A q \in KeyRequests \ {r} : keyReq'[q] = keyReq[q]
           /\ RequestFits(r)'
<1>1. IdleKeyRequest \in KeyReqs /\ IdleKeyRequest.at = "idle"
  BY DEF IdleKeyRequest, KeyReqs
<1>2. keyReq \in [KeyRequests -> KeyReqs]
  BY KeyTypes DEF KeyInv
<1> QED
  BY <1>1, <1>2 DEF KeyReqDone, RequestFits

\* A revocation, or a move to another license, leaves the count of the key.
LEMMA RevokeKeyKeeps ==
    ASSUME KeyInv, NEW r \in KeyRequests, RevokeKey(r) \/ MoveKey(r)
    PROVE  KeyInv'
<1>1. PICK k \in LicenseKeyIds : k = keyReq[r].key /\ keys[k].status # "none"
  BY DEF RevokeKey, MoveKey, KeyInv, RequestFits
<1>2. PICK old \in KeyRows : old = keys[k] /\ KeyFits(k)
  BY KeyTypes DEF KeyInv
<1>3. PICK row : /\ keys' = [keys EXCEPT ![k] = row]
                 /\ \/ row = [old EXCEPT !.status = "REVOKED"]
                    \/ row = [old EXCEPT !.license = keyReq[r].to]
  BY <1>1, <1>2, KeyTypes DEF RevokeKey, MoveKey, KeyInv
<1>4. keyReq[r].to \in OwningLicenses \cup {"none"}
  BY DEF KeyInv, KeyTypeOK
<1>5. /\ row \in KeyRows /\ row.count = old.count /\ row.limit = old.limit
      /\ row.status \in {"REVOKED", old.status}
  BY <1>3, <1>4 DEF KeyRows
<1>6. KeyReqDone(r) /\ UNCHANGED <<granted, outlived>>
  BY DEF RevokeKey, MoveKey
<1>7. /\ keys' \in [LicenseKeyIds -> KeyRows]
      /\ KeysGrow
      /\ \A j \in LicenseKeyIds : KeyFits(j)'
  <2>1. /\ row.status # "none" /\ row.count = keys[k].count /\ row.count <= row.limit
        /\ row.limit = keys[k].limit
        /\ outlived[k] # 0 => row.status = "REVOKED"
    BY <1>1, <1>2, <1>5 DEF KeyFits
  <2> QED
    BY <1>3, <1>5, <1>6, <2>1, RowWritten
<1>8. KeyTypeOK'
  BY <1>6, <1>7, DoneFits, KeyTypes DEF KeyInv
<1>9. \A q \in KeyRequests : RequestFits(q)'
  BY <1>6, <1>7, <1>8, DoneFits, WaitingFits
<1> QED
  BY <1>7, <1>8, <1>9 DEF KeyInv

\* The compare-and-swap counts once and within the limit.
LEMMA ActivateKeyKeeps ==
    ASSUME KeyInv, NEW r \in KeyRequests, ActivateKey(r)
    PROVE  KeyInv'
<1>1. PICK k \in LicenseKeyIds :
          /\ k = keyReq[r].key /\ keys[k].status # "none"
          /\ keys[k].count < keys[k].limit
          /\ outlived[k] = 0
  BY DEF ActivateKey, CountUnchanged, KeyInv, KeyTypeOK, RequestFits
<1>2. /\ keys' = [keys EXCEPT ![k].count = keys[k].count + 1]
      /\ granted' = [granted EXCEPT ![k] = granted[k] + 1]
      /\ outlived' = [outlived EXCEPT ![k] = IF keys[k].status = "REVOKED" THEN 1 ELSE 0]
      /\ KeyReqDone(r)
  BY <1>1 DEF ActivateKey
<1>3. PICK row \in KeyRows : /\ keys' = [keys EXCEPT ![k] = row]
                             /\ row.count = keys[k].count + 1 /\ row.limit = keys[k].limit
                             /\ row.status = keys[k].status
  <2>1. PICK old \in KeyRows : old = keys[k]
    BY KeyTypes DEF KeyInv
  <2>2. PICK row : row = [old EXCEPT !.count = old.count + 1]
    OBVIOUS
  <2>3. /\ row \in KeyRows /\ row.count = old.count + 1 /\ row.limit = old.limit
        /\ row.status = old.status
    BY <2>2 DEF KeyRows
  <2> QED
    BY <1>2, <2>1, <2>2, <2>3
<1>4. /\ keys \in [LicenseKeyIds -> KeyRows] /\ keys' \in [LicenseKeyIds -> KeyRows]
      /\ granted \in [LicenseKeyIds -> Nat] /\ granted' \in [LicenseKeyIds -> Nat]
      /\ outlived \in [LicenseKeyIds -> Nat] /\ outlived' \in [LicenseKeyIds -> Nat]
  BY <1>2, <1>3, KeyTypes DEF KeyInv
<1>5. KeyTypeOK' /\ KeysGrow
  <2>1. KeyTypeOK'
    BY <1>2, <1>4, DoneFits, KeyTypes
  <2>2. \A j \in LicenseKeyIds : keys'[j] = IF j = k THEN row ELSE keys[j]
    BY <1>3, <1>4
  <2>3. \A j \in LicenseKeyIds : keys[j].count \in Nat
    BY <1>4 DEF KeyRows
  <2> QED
    BY <1>3, <2>1, <2>2, <2>3 DEF KeysGrow
<1>6. \A j \in LicenseKeyIds : KeyFits(j)'
  <2>1. \A j \in LicenseKeyIds \ {k} :
            keys'[j] = keys[j] /\ granted'[j] = granted[j] /\ outlived'[j] = outlived[j]
    BY <1>2, <1>3, <1>4
  <2>2. /\ keys'[k] = row /\ granted'[k] = granted[k] + 1
        /\ outlived'[k] = IF keys[k].status = "REVOKED" THEN 1 ELSE 0
    BY <1>2, <1>3, <1>4
  <2>3. KeyFits(k) /\ keys[k].count \in Nat /\ keys[k].limit \in Nat
    BY <1>4 DEF KeyInv, KeyRows
  <2>4. KeyFits(k)'
    BY <1>1, <1>3, <2>2, <2>3 DEF KeyFits
  <2> QED
    BY <2>1, <2>4 DEF KeyFits, KeyInv
<1>7. \A j \in LicenseKeyIds : outlived'[j] = outlived[j] \/ keys'[j].count > keys[j].count
  <2>1. keys'[k].count > keys[k].count
    BY <1>3, <1>4 DEF KeyRows
  <2> QED
    BY <1>2, <1>4, <2>1
<1>8. \A q \in KeyRequests : RequestFits(q)'
  BY <1>2, <1>5, <1>7, DoneFits, WaitingFits
<1> QED
  BY <1>5, <1>6, <1>8 DEF KeyInv

\* One step of any request.
LEMMA KeyStepKeeps ==
    ASSUME KeyInv, [KeyNext]_keyVars
    PROVE  KeyInv'
<1>1. CASE UNCHANGED keyVars
  BY <1>1 DEF keyVars, KeyInv, KeyTypeOK, KeyFits, RequestFits
<1> QED
  BY <1>1, KeyWrittenKeeps, RequestMovesKeeps, RevokeKeyKeeps, ActivateKeyKeeps DEF KeyNext

\* No key is activated at first.
LEMMA KeyInitKeeps ==
    ASSUME KeyInit
    PROVE  KeyInv
  BY DEF KeyInit, KeyInv, KeyTypeOK, KeyFits, RequestFits, NoKeyYet, IdleKeyRequest

-----------------------------------------------------------------------------
\* However many activations of a key race, each against a count that it read a while ago,
\* as many succeed as the key's row says, never more than its limit, and at most one of
\* them after the key was revoked.
THEOREM ActivationsWithinLimit == KeySpec => []KeyAllowance
<1>1. KeyInv => KeyAllowance
  BY DEF KeyInv, KeyFits, KeyAllowance
<1> QED
  BY <1>1, KeyInitKeeps, KeyStepKeeps, PTL DEF KeySpec

-----------------------------------------------------------------------------
(* Coupons: the inductive invariant. *)

RedemptionRows == [ code : CodeInputs, removed : BOOLEAN ]
CodeRows == [ active : BOOLEAN, count : Nat ]
CouponReqs == [ at : {"idle", "applying", "removing"}, code : CodeInputs, row : Nat ]

OtherCouponReqs == Cardinality(CouponRequests) - 1

\* What is redeemed and what is about to be: the last of them was checked when less than
\* the limit was redeemed, and then at most all of the requests were under way.
LimitHolds == Len(redemptions) + Cardinality(InFlight) <= MaxRedemptions + OtherCouponReqs

CodeLimitHolds(c) ==
    Cardinality(RedeemedBy(c)) + Cardinality(InFlightBy(c)) <= MaxCodeRedemptions + OtherCouponReqs

CouponInv ==
    /\ CouponTypeOK
    /\ RedemptionsCounted
    /\ LimitHolds
    /\ \A c \in PromotionCodes : CodeLimitHolds(c)

-----------------------------------------------------------------------------
(* The sets that are counted. *)

\* There is a request, and so one fewer others.
LEMMA RequestsCounted ==
    /\ IsFiniteSet(CouponRequests) /\ Cardinality(CouponRequests) \in Nat \ {0}
    /\ OtherCouponReqs \in Nat
<1>1. IsFiniteSet(CouponRequests) /\ CouponRequests # {}
  BY CouponAssumption
<1>2. Cardinality(CouponRequests) \in Nat \ {0}
  BY <1>1, FS_CardinalityType, FS_EmptySet
<1> QED
  BY <1>1, <1>2 DEF OtherCouponReqs

\* The requests under way, with any coupon or with a code, can be counted.
LEMMA InFlightCounted ==
    /\ IsFiniteSet(InFlight) /\ Cardinality(InFlight) \in 0..Cardinality(CouponRequests)
    /\ \A c : IsFiniteSet(InFlightBy(c))
              /\ Cardinality(InFlightBy(c)) \in 0..Cardinality(CouponRequests)
<1>1. InFlight \in SUBSET CouponRequests /\ \A c : InFlightBy(c) \in SUBSET CouponRequests
  BY DEF InFlight, InFlightBy
<1>2. \A T \in SUBSET CouponRequests :
          IsFiniteSet(T) /\ Cardinality(T) <= Cardinality(CouponRequests)
  BY RequestsCounted, FS_Subset
<1>3. \A T \in SUBSET CouponRequests : Cardinality(T) \in 0..Cardinality(CouponRequests)
  BY <1>2, RequestsCounted, FS_CardinalityType
<1> QED
  BY <1>1, <1>2, <1>3

\* The redemptions of a code can be counted.
LEMMA RedeemedCounted ==
    ASSUME redemptions \in Seq(RedemptionRows), NEW c
    PROVE  /\ IsFiniteSet(RedeemedBy(c)) /\ Cardinality(RedeemedBy(c)) \in Nat
           /\ RedeemedBy(c) \subseteq 1..Len(redemptions)
<1>1. RedeemedBy(c) \in SUBSET (1..Len(redemptions))
  BY DEF RedeemedBy
<1>2. IsFiniteSet(1..Len(redemptions))
  BY FS_Interval, LenProperties
<1>3. IsFiniteSet(RedeemedBy(c))
  BY <1>1, <1>2, FS_Subset
<1> QED
  BY <1>1, <1>3, FS_CardinalityType

\* What the type invariant says of each variable.
LEMMA CouponTypes ==
    CouponTypeOK => /\ redemptions \in Seq(RedemptionRows) /\ Len(redemptions) \in Nat
                    /\ couponReq \in [CouponRequests -> CouponReqs]
                    /\ codes \in [PromotionCodes -> CodeRows]
                    /\ coupon \in [ status : {"ACTIVE", "ARCHIVED"}, count : Nat ]
  BY LenProperties DEF CouponTypeOK, RedemptionRows, CouponReqs, CodeRows

-----------------------------------------------------------------------------
(* Coupons: every step preserves the invariant. *)

\* Nothing is redeemed, and no more is under way than before.
LEMMA NoMoreUnderWay ==
    ASSUME CouponInv, Len(redemptions') = Len(redemptions), InFlight' \subseteq InFlight,
           \A c \in PromotionCodes :
               RedeemedBy(c)' = RedeemedBy(c) /\ InFlightBy(c)' \subseteq InFlightBy(c)
    PROVE  LimitHolds' /\ \A c \in PromotionCodes : CodeLimitHolds(c)'
<1>1. Cardinality(InFlight') <= Cardinality(InFlight)
      /\ Cardinality(InFlight') \in Nat /\ Cardinality(InFlight) \in Nat
  BY InFlightCounted, FS_Subset, FS_CardinalityType
<1>2. \A c \in PromotionCodes :
          /\ Cardinality(InFlightBy(c)') <= Cardinality(InFlightBy(c))
          /\ Cardinality(InFlightBy(c)') \in Nat /\ Cardinality(InFlightBy(c)) \in Nat
  BY InFlightCounted, FS_Subset, FS_CardinalityType
<1>3. Len(redemptions) \in Nat /\ OtherCouponReqs \in Nat
      /\ \A c \in PromotionCodes : Cardinality(RedeemedBy(c)) \in Nat
  BY CouponTypes, RequestsCounted, RedeemedCounted DEF CouponInv
<1>4. LimitHolds'
  BY <1>1, <1>3, CouponAssumption DEF CouponInv, LimitHolds, OtherCouponReqs
<1>5. \A c \in PromotionCodes : CodeLimitHolds(c)'
  BY <1>2, <1>3, CouponAssumption DEF CouponInv, CodeLimitHolds, OtherCouponReqs
<1> QED
  BY <1>4, <1>5

\* Archiving the coupon, or deactivating a code, touches no count.
LEMMA ArchiveKeeps ==
    ASSUME CouponInv, ArchiveCoupon \/ \E c \in PromotionCodes : DeactivateCode(c)
    PROVE  CouponInv'
<1>1. UNCHANGED <<redemptions, couponReq>>
  BY DEF ArchiveCoupon, DeactivateCode
<1>2. /\ coupon' \in [ status : {"ACTIVE", "ARCHIVED"}, count : Nat ]
      /\ coupon'.count = coupon.count
  BY CouponTypes DEF CouponInv, ArchiveCoupon, DeactivateCode
<1>3. /\ codes' \in [PromotionCodes -> CodeRows]
      /\ \A c \in PromotionCodes : codes'[c].count = codes[c].count
  <2>0. codes \in [PromotionCodes -> CodeRows]
    BY CouponTypes DEF CouponInv
  <2>1. CASE ArchiveCoupon
    BY <2>0, <2>1 DEF ArchiveCoupon
  <2>2. ASSUME NEW d \in PromotionCodes, DeactivateCode(d)
        PROVE  /\ codes' \in [PromotionCodes -> CodeRows]
               /\ \A c \in PromotionCodes : codes'[c].count = codes[c].count
    <3>1. codes' = [codes EXCEPT ![d] = [codes[d] EXCEPT !.active = FALSE]]
      BY <2>2 DEF DeactivateCode
    <3>2. /\ [codes[d] EXCEPT !.active = FALSE] \in CodeRows
          /\ [codes[d] EXCEPT !.active = FALSE].count = codes[d].count
      BY <2>0 DEF CodeRows
    <3> QED
      BY <2>0, <3>1, <3>2
  <2> QED
    BY <2>1, <2>2
<1>4. CouponTypeOK'
  BY <1>1, <1>2, <1>3 DEF CouponInv, CouponTypeOK, CodeRows
<1>5. /\ InFlight' = InFlight
      /\ \A c : RedeemedBy(c)' = RedeemedBy(c) /\ InFlightBy(c)' = InFlightBy(c)
  BY <1>1 DEF InFlight, InFlightBy, RedeemedBy
<1>6. RedemptionsCounted'
  BY <1>1, <1>2, <1>3, <1>5 DEF CouponInv, RedemptionsCounted
<1> QED
  BY <1>1, <1>4, <1>5, <1>6, NoMoreUnderWay DEF CouponInv

\* Request r takes a new state.
LEMMA RequestTyped ==
    ASSUME CouponInv, NEW r \in CouponRequests, NEW new \in CouponReqs,
           couponReq' = [couponReq EXCEPT ![r] = new],
           new.at = "removing" => new.row \in DOMAIN redemptions,
           UNCHANGED <<coupon, codes, redemptions>>
    PROVE  /\ CouponTypeOK' /\ RedemptionsCounted'
           /\ \A q \in CouponRequests : couponReq'[q] = IF q = r THEN new ELSE couponReq[q]
           /\ \A c : RedeemedBy(c)' = RedeemedBy(c)
<1>1. couponReq \in [CouponRequests -> CouponReqs]
  BY CouponTypes DEF CouponInv
<1>2. /\ couponReq' \in [CouponRequests -> CouponReqs]
      /\ \A q \in CouponRequests : couponReq'[q] = IF q = r THEN new ELSE couponReq[q]
  BY <1>1
<1>3. CouponTypeOK'
  BY <1>2 DEF CouponInv, CouponTypeOK, CouponReqs
<1>4. \A c : RedeemedBy(c)' = RedeemedBy(c)
  BY DEF RedeemedBy
<1>5. RedemptionsCounted'
  BY <1>4 DEF CouponInv, RedemptionsCounted
<1> QED
  BY <1>2, <1>3, <1>4, <1>5

\* A check lets one more request be under way, below the limit.
LEMMA ResolveCouponKeeps ==
    ASSUME CouponInv, NEW r \in CouponRequests, NEW c \in CodeInputs, ResolveCoupon(r, c)
    PROVE  CouponInv'
<1>1. PICK old \in CouponReqs : old = couponReq[r] /\ old.at = "idle"
  BY CouponTypes DEF CouponInv, ResolveCoupon
<1>2. PICK new : new = [old EXCEPT !.at = "applying", !.code = c]
  OBVIOUS
<1>3. new \in CouponReqs /\ new.at = "applying" /\ new.code = c
  BY <1>2 DEF CouponReqs
<1>4. couponReq' = [couponReq EXCEPT ![r] = new]
  BY <1>1, <1>2, CouponTypes DEF CouponInv, ResolveCoupon
<1>5. /\ CouponTypeOK' /\ RedemptionsCounted'
      /\ \A q \in CouponRequests : couponReq'[q] = IF q = r THEN new ELSE couponReq[q]
      /\ \A d : RedeemedBy(d)' = RedeemedBy(d)
  BY <1>3, <1>4, RequestTyped DEF ResolveCoupon
<1>6. InFlight' = InFlight \cup {r} /\ r \notin InFlight
  BY <1>1, <1>3, <1>5 DEF InFlight
<1>7. \A d : InFlightBy(d)' = IF d = c THEN InFlightBy(d) \cup {r} ELSE InFlightBy(d)
  BY <1>1, <1>3, <1>5, <1>6 DEF InFlight, InFlightBy
<1>8. LimitHolds'
  <2>1. Cardinality(InFlight') <= Cardinality(CouponRequests) /\ Cardinality(InFlight') \in Nat
    <3>1. InFlight' \in SUBSET CouponRequests
      BY DEF InFlight
    <3> QED
      BY <3>1, RequestsCounted, FS_Subset, FS_CardinalityType
  <2>2. Len(redemptions) < MaxRedemptions /\ Len(redemptions) \in Nat
    BY CouponTypes DEF CouponInv, RedemptionsCounted, ResolveCoupon, Redeemable
  <2>3. redemptions' = redemptions
    BY DEF ResolveCoupon
  <2> QED
    BY <2>1, <2>2, <2>3, RequestsCounted, CouponAssumption DEF LimitHolds, OtherCouponReqs
<1>9. ASSUME NEW d \in PromotionCodes PROVE CodeLimitHolds(d)'
  <2>1. RedeemedBy(d)' = RedeemedBy(d) /\ Cardinality(RedeemedBy(d)) \in Nat
    BY <1>5, CouponTypes, RedeemedCounted DEF CouponInv
  <2>2. CASE d = c
    <3>1. Cardinality(InFlightBy(d)') <= Cardinality(CouponRequests)
          /\ Cardinality(InFlightBy(d)') \in Nat
      <4>1. InFlightBy(d)' \in SUBSET CouponRequests
        BY DEF InFlight, InFlightBy
      <4> QED
        BY <4>1, RequestsCounted, FS_Subset, FS_CardinalityType
    <3>2. Cardinality(RedeemedBy(d)) < MaxCodeRedemptions
      <4>1. codes[d].count < MaxCodeRedemptions
        BY <2>2, CouponAssumption DEF ResolveCoupon, CodeRedeemable
      <4> QED
        BY <4>1 DEF CouponInv, RedemptionsCounted
    <3> QED
      BY <2>1, <3>1, <3>2, RequestsCounted, CouponAssumption DEF CodeLimitHolds, OtherCouponReqs
  <2>3. CASE d # c
    <3>1. InFlightBy(d)' = InFlightBy(d)
      BY <1>7, <2>3
    <3> QED
      BY <2>1, <3>1 DEF CouponInv, CodeLimitHolds
  <2> QED
    BY <2>2, <2>3
<1> QED
  BY <1>5, <1>8, <1>9 DEF CouponInv

\* A request that is done, or was never to redeem anything, is not under way.
LEMMA RequestLeaves ==
    ASSUME NEW r \in CouponRequests, NEW new,
           \A q \in CouponRequests : couponReq'[q] = IF q = r THEN new ELSE couponReq[q],
           new.at # "applying"
    PROVE  InFlight' = InFlight \ {r} /\ \A c : InFlightBy(c)' = InFlightBy(c) \ {r}
<1>1. InFlight' = InFlight \ {r}
  BY DEF InFlight
<1> QED
  BY <1>1 DEF InFlight, InFlightBy

\* A request that is looked up or that ends adds nothing to what is under way.
LEMMA OtherRequestsKeep ==
    ASSUME CouponInv, NEW r \in CouponRequests,
           CutCouponRequest(r) \/ \E i \in DOMAIN redemptions : FindRedemption(r, i)
    PROVE  CouponInv'
<1>1. PICK old \in CouponReqs : old = couponReq[r]
  BY CouponTypes DEF CouponInv
<1>2. PICK new \in CouponReqs :
          /\ couponReq' = [couponReq EXCEPT ![r] = new]
          /\ new.at # "applying"
          /\ new.at = "removing" => new.row \in DOMAIN redemptions
  <2>1. CASE CutCouponRequest(r)
    <3>1. IdleCouponRequest \in CouponReqs /\ IdleCouponRequest.at = "idle"
      BY DEF IdleCouponRequest, CouponReqs, CodeInputs
    <3> QED
      BY <2>1, <3>1 DEF CutCouponRequest, CouponReqDone
  <2>2. ASSUME NEW i \in DOMAIN redemptions, FindRedemption(r, i)
        PROVE  \E new \in CouponReqs :
                   /\ couponReq' = [couponReq EXCEPT ![r] = new]
                   /\ new.at # "applying"
                   /\ new.at = "removing" => new.row \in DOMAIN redemptions
    <3>1. PICK new : new = [old EXCEPT !.at = "removing", !.row = i]
      OBVIOUS
    <3>2. i \in Nat
      BY CouponTypes DEF CouponInv
    <3>3. new \in CouponReqs /\ new.at = "removing" /\ new.row = i
      BY <3>1, <3>2 DEF CouponReqs
    <3>4. couponReq' = [couponReq EXCEPT ![r] = new]
      BY <1>1, <2>2, <3>1, CouponTypes DEF CouponInv, FindRedemption
    <3> QED
      BY <3>3, <3>4
  <2> QED
    BY <2>1, <2>2
<1>3. UNCHANGED <<coupon, codes, redemptions>>
  BY DEF CutCouponRequest, FindRedemption
<1>4. /\ CouponTypeOK' /\ RedemptionsCounted'
      /\ \A q \in CouponRequests : couponReq'[q] = IF q = r THEN new ELSE couponReq[q]
      /\ \A c : RedeemedBy(c)' = RedeemedBy(c)
  BY <1>2, <1>3, RequestTyped
<1>5. InFlight' = InFlight \ {r} /\ \A c : InFlightBy(c)' = InFlightBy(c) \ {r}
  BY <1>2, <1>4, RequestLeaves
<1> QED
  BY <1>3, <1>4, <1>5, NoMoreUnderWay DEF CouponInv

\* A request that ends, in a step that writes redemptions.
LEMMA DoneTyped ==
    ASSUME CouponInv, NEW r \in CouponRequests, CouponReqDone(r),
           DOMAIN redemptions \subseteq DOMAIN redemptions'
    PROVE  /\ couponReq' \in [CouponRequests -> CouponReqs]
           /\ \A q \in CouponRequests :
                  couponReq'[q].at = "removing" => couponReq'[q].row \in DOMAIN redemptions'
           /\ InFlight' = InFlight \ {r} /\ \A c : InFlightBy(c)' = InFlightBy(c) \ {r}
<1>1. couponReq \in [CouponRequests -> CouponReqs]
  BY CouponTypes DEF CouponInv
<1>2. IdleCouponRequest \in CouponReqs /\ IdleCouponRequest.at = "idle"
  BY DEF IdleCouponRequest, CouponReqs, CodeInputs
<1>3. /\ couponReq' \in [CouponRequests -> CouponReqs]
      /\ \A q \in CouponRequests :
             couponReq'[q] = IF q = r THEN IdleCouponRequest ELSE couponReq[q]
  BY <1>1, <1>2 DEF CouponReqDone
<1>4. \A q \in CouponRequests :
          couponReq'[q].at = "removing" => couponReq'[q].row \in DOMAIN redemptions'
  BY <1>2, <1>3 DEF CouponInv, CouponTypeOK
<1> QED
  BY <1>2, <1>3, <1>4, RequestLeaves

\* A removal leaves the row and the counts, and only marks the row.
LEMMA RemoveCouponKeeps ==
    ASSUME CouponInv, NEW r \in CouponRequests, RemoveCoupon(r)
    PROVE  CouponInv'
<1>1. PICK i \in 1..Len(redemptions) : i = couponReq[r].row
  BY CouponTypes DEF CouponInv, CouponTypeOK, RemoveCoupon
<1>2. PICK row \in RedemptionRows : row = [redemptions[i] EXCEPT !.removed = TRUE]
                          /\ row.code = redemptions[i].code
  <2>1. redemptions[i] \in RedemptionRows
    BY CouponTypes, ElementOfSeq DEF CouponInv
  <2>2. PICK row : row = [redemptions[i] EXCEPT !.removed = TRUE]
    OBVIOUS
  <2>3. row \in RedemptionRows /\ row.code = redemptions[i].code
    BY <2>1, <2>2 DEF RedemptionRows
  <2> QED
    BY <2>2, <2>3
<1>3. redemptions' = [redemptions EXCEPT ![i] = row]
  BY <1>1, <1>2 DEF RemoveCoupon
<1>4. /\ redemptions' \in Seq(RedemptionRows) /\ Len(redemptions') = Len(redemptions)
      /\ \A j \in 1..Len(redemptions) : redemptions'[j] = IF j = i THEN row ELSE redemptions[j]
  BY <1>3, CouponTypes, ExceptSeq DEF CouponInv
<1>5. DOMAIN redemptions' = DOMAIN redemptions /\ DOMAIN redemptions = 1..Len(redemptions)
  BY <1>4, CouponTypes DEF CouponInv
<1>6. \A c : RedeemedBy(c)' = RedeemedBy(c)
  BY <1>2, <1>4, <1>5 DEF RedeemedBy
<1>7. /\ couponReq' \in [CouponRequests -> CouponReqs]
      /\ \A q \in CouponRequests :
             couponReq'[q].at = "removing" => couponReq'[q].row \in DOMAIN redemptions'
      /\ InFlight' = InFlight \ {r} /\ \A c : InFlightBy(c)' = InFlightBy(c) \ {r}
  BY <1>5, DoneTyped DEF RemoveCoupon
<1>8. UNCHANGED <<coupon, codes>>
  BY DEF RemoveCoupon
<1>9. CouponTypeOK' /\ RedemptionsCounted'
  BY <1>4, <1>6, <1>7, <1>8
     DEF CouponInv, CouponTypeOK, RedemptionsCounted, RedemptionRows, CouponReqs
<1> QED
  BY <1>4, <1>6, <1>7, <1>9, NoMoreUnderWay DEF CouponInv

\* What was under way is redeemed, and counted where it is.
LEMMA ApplyCouponKeeps ==
    ASSUME CouponInv, NEW r \in CouponRequests, ApplyCoupon(r)
    PROVE  CouponInv'
<1>1. PICK c \in CodeInputs : c = couponReq[r].code
  BY CouponTypes DEF CouponInv, CouponReqs
<1>2. PICK row \in RedemptionRows : row = [ code |-> c, removed |-> FALSE ] /\ row.code = c
  <2>1. [ code |-> c, removed |-> FALSE ] \in RedemptionRows
        /\ [ code |-> c, removed |-> FALSE ].code = c
    BY DEF RedemptionRows
  <2> QED
    BY <2>1
<1>3. PICK n \in Nat : n = Len(redemptions) /\ DOMAIN redemptions = 1..n
  BY CouponTypes DEF CouponInv
<1>4. redemptions' = Append(redemptions, row)
  BY <1>1, <1>2 DEF ApplyCoupon
<1>5. /\ redemptions' \in Seq(RedemptionRows) /\ Len(redemptions') = n + 1
      /\ \A i \in 1..n : redemptions'[i] = redemptions[i]
      /\ redemptions'[n + 1] = row
  BY <1>3, <1>4, CouponTypes, AppendProperties DEF CouponInv
<1>6. DOMAIN redemptions' = 1..(n + 1) /\ 1..(n + 1) = (1..n) \cup {n + 1}
  BY <1>5
<1>7. \A d : RedeemedBy(d)' = IF d = c THEN RedeemedBy(d) \cup {n + 1} ELSE RedeemedBy(d)
  BY <1>2, <1>3, <1>5, <1>6 DEF RedeemedBy
<1>8. /\ couponReq' \in [CouponRequests -> CouponReqs]
      /\ \A q \in CouponRequests :
             couponReq'[q].at = "removing" => couponReq'[q].row \in DOMAIN redemptions'
      /\ InFlight' = InFlight \ {r} /\ \A d : InFlightBy(d)' = InFlightBy(d) \ {r}
  BY <1>3, <1>6, DoneTyped DEF ApplyCoupon
<1>9. r \in InFlight /\ r \in InFlightBy(c)
  BY <1>1 DEF ApplyCoupon, InFlight, InFlightBy
<1>10. \A d : Cardinality(RedeemedBy(d)) \in Nat /\ IsFiniteSet(RedeemedBy(d))
             /\ n + 1 \notin RedeemedBy(d)
  <2>1. \A d : RedeemedBy(d) \subseteq 1..n
    BY <1>3, CouponTypes, RedeemedCounted DEF CouponInv
  <2> QED
    BY <2>1, CouponTypes, RedeemedCounted DEF CouponInv
<1>11. Cardinality(RedeemedBy(c)') = Cardinality(RedeemedBy(c)) + 1
  BY <1>7, <1>10, FS_AddElement
<1>12. /\ coupon' \in [ status : {"ACTIVE", "ARCHIVED"}, count : Nat ]
       /\ coupon'.count = coupon.count + 1
  BY CouponTypes DEF CouponInv, ApplyCoupon, CouponCountAfter
<1>13. /\ codes' \in [PromotionCodes -> CodeRows]
       /\ \A d \in PromotionCodes :
              codes'[d].count = IF d = c THEN codes[d].count + 1 ELSE codes[d].count
  BY <1>1, CouponTypes DEF CouponInv, ApplyCoupon, CodeRows
<1>14. CouponTypeOK'
  BY <1>5, <1>8, <1>12, <1>13 DEF CouponTypeOK, RedemptionRows, CodeRows, CouponReqs
<1>15. RedemptionsCounted'
  BY <1>3, <1>5, <1>7, <1>11, <1>12, <1>13 DEF CouponInv, RedemptionsCounted
<1>16. LimitHolds'
  <2>1. Cardinality(InFlight') = Cardinality(InFlight) - 1 /\ Cardinality(InFlight) \in Nat
    <3>1. Cardinality(InFlight \ {r}) = Cardinality(InFlight) - 1
      BY <1>9, InFlightCounted, FS_RemoveElement
    <3>2. Cardinality(InFlight) \in Nat
      BY InFlightCounted, FS_CardinalityType
    <3> QED
      BY <1>8, <3>1, <3>2
  <2>2. n + Cardinality(InFlight) <= MaxRedemptions + OtherCouponReqs
    BY <1>3 DEF CouponInv, LimitHolds
  <2> QED
    BY <1>5, <2>1, <2>2, RequestsCounted, CouponAssumption DEF LimitHolds, OtherCouponReqs
<1>17. ASSUME NEW d \in PromotionCodes PROVE CodeLimitHolds(d)'
  <2>1. CodeLimitHolds(d)
    BY DEF CouponInv
  <2>2. Cardinality(InFlightBy(d)) \in Nat
    BY InFlightCounted
  <2>3. CASE d = c
    <3>1. Cardinality(InFlightBy(d)') = Cardinality(InFlightBy(d)) - 1
      BY <1>8, <1>9, <2>3, InFlightCounted, FS_RemoveElement
    <3>2. Cardinality(RedeemedBy(d)') = Cardinality(RedeemedBy(d)) + 1
      BY <1>11, <2>3
    <3> QED
      BY <1>10, <2>1, <2>2, <3>1, <3>2, RequestsCounted, CouponAssumption
         DEF CodeLimitHolds, OtherCouponReqs
  <2>4. CASE d # c
    <3>1. InFlightBy(d)' = InFlightBy(d)
      <4>1. r \notin InFlightBy(d)
        BY <1>1, <2>4 DEF InFlightBy
      <4> QED
        BY <1>8, <4>1
    <3>2. RedeemedBy(d)' = RedeemedBy(d)
      BY <1>7, <2>4
    <3> QED
      BY <2>1, <3>1, <3>2 DEF CodeLimitHolds
  <2> QED
    BY <2>3, <2>4
<1> QED
  BY <1>14, <1>15, <1>16, <1>17 DEF CouponInv

\* One step of any request.
LEMMA CouponStepKeeps ==
    ASSUME CouponInv, [CouponNext]_couponVars
    PROVE  CouponInv'
<1>1. CASE UNCHANGED couponVars
  <2>1. UNCHANGED <<coupon, codes, redemptions, couponReq>>
    BY <1>1 DEF couponVars
  <2> QED
    BY <2>1 DEF CouponInv, CouponTypeOK, RedemptionsCounted, LimitHolds, CodeLimitHolds,
       RedeemedBy, InFlight, InFlightBy
<1> QED
  BY <1>1, ArchiveKeeps, ResolveCouponKeeps, ApplyCouponKeeps, OtherRequestsKeep,
     RemoveCouponKeeps DEF CouponNext

\* Nothing is redeemed at first.
LEMMA CouponInitKeeps ==
    ASSUME CouponInit
    PROVE  CouponInv
<1>1. redemptions = <<>> /\ Len(redemptions) = 0 /\ \A c : RedeemedBy(c) = {}
  BY DEF CouponInit, RedeemedBy
<1>2. \A r \in CouponRequests : couponReq[r].at = "idle"
  BY DEF CouponInit, IdleCouponRequest
<1>3. InFlight = {} /\ \A c : InFlightBy(c) = {}
  BY <1>2 DEF InFlight, InFlightBy
<1>4. Cardinality({}) = 0
  BY FS_EmptySet
<1>5. CouponTypeOK
  <2>1. redemptions \in Seq([ code : CodeInputs, removed : BOOLEAN ])
    BY <1>1
  <2> QED
    BY <1>2, <2>1 DEF CouponInit, CouponTypeOK, IdleCouponRequest, CodeInputs
<1>6. RedemptionsCounted
  BY <1>1, <1>4 DEF RedemptionsCounted, CouponInit
<1>7. LimitHolds /\ \A c \in PromotionCodes : CodeLimitHolds(c)
  <2>1. Cardinality(InFlight) = 0 /\ \A c : Cardinality(InFlightBy(c)) = 0
    BY <1>3, <1>4
  <2>2. \A c : Cardinality(RedeemedBy(c)) = 0
    BY <1>1, <1>4
  <2>3. OtherCouponReqs \in Nat /\ MaxRedemptions \in Nat /\ MaxCodeRedemptions \in Nat
    BY RequestsCounted, CouponAssumption
  <2>4. LimitHolds
    BY <1>1, <2>1, <2>3 DEF LimitHolds
  <2>5. \A c \in PromotionCodes : CodeLimitHolds(c)
    BY <2>1, <2>2, <2>3 DEF CodeLimitHolds
  <2> QED
    BY <2>4, <2>5
<1> QED
  BY <1>5, <1>6, <1>7 DEF CouponInv

-----------------------------------------------------------------------------
\* The counts of a coupon and of its codes are the redemptions there have ever been, for
\* any requests that redeem and remove at the same time.
THEOREM CouponCountsExact == CouponSpec => []RedemptionsCounted
<1>1. CouponInv => RedemptionsCounted
  BY DEF CouponInv
<1> QED
  BY <1>1, CouponInitKeeps, CouponStepKeeps, PTL DEF CouponSpec

\* Redeemed and in flight together pass a limit by the other requests at most, and so
\* does what is redeemed.
LEMMA CouponInvBounds == CouponInv => CouponOverrunBounded
<1> SUFFICES ASSUME CouponInv PROVE CouponOverrunBounded
  OBVIOUS
<1>1. Len(redemptions) <= MaxRedemptions + (Cardinality(CouponRequests) - 1)
  BY CouponTypes, InFlightCounted, RequestsCounted, CouponAssumption
     DEF CouponInv, LimitHolds, OtherCouponReqs
<1>2. \A c \in PromotionCodes :
          Cardinality(RedeemedBy(c)) <= MaxCodeRedemptions + (Cardinality(CouponRequests) - 1)
  BY CouponTypes, RedeemedCounted, InFlightCounted, RequestsCounted, CouponAssumption
     DEF CouponInv, CodeLimitHolds, OtherCouponReqs
<1> QED
  BY <1>1, <1>2 DEF CouponOverrunBounded

\* Checking before counting lets a limit be passed by the requests that were checked at
\* the same time as the last redemption that was free, and never by more than those.
THEOREM CouponOverrun == CouponSpec => []CouponOverrunBounded
  BY CouponInitKeeps, CouponStepKeeps, CouponInvBounds, PTL DEF CouponSpec
=============================================================================
