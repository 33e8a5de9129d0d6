--------------------------------- MODULE Seats ---------------------------------
(***************************************************************************)
(* The seats of one license of type SEAT.                                  *)
(*                                                                         *)
(* Seats are created in bulk after a count, assigned by a compare-and-swap *)
(* from AVAILABLE to ASSIGNED followed by the insertion of the assignment, *)
(* and freed or passed on by requests that have read the assignment and    *)
(* found it active.  Every statement is a step: requests interleave        *)
(* between them, and a request may end early after any of them.            *)
(***************************************************************************)
EXTENDS Naturals, Sequences, FiniteSets

CONSTANTS
    SeatRequests,       \* requests that may be served at the same time
    SeatLimit,          \* License.seatLimit
    MaxBulk,            \* bound on the seats created by one request
    MaxSeatTries,       \* MAX_ATTEMPTS of assign
    MaxAssignments      \* bound on the assignments there will ever be

ASSUME SeatAssumption ==
    /\ IsFiniteSet(SeatRequests) /\ SeatRequests # {}
    /\ SeatLimit \in Nat /\ MaxBulk \in Nat
    /\ MaxSeatTries \in Nat \ {0} /\ MaxAssignments \in Nat

VARIABLES
    seats,          \* status of each seat, oldest first
    assignments,    \* the SeatAssignment rows, oldest first
    seatReq,        \* seatReq[r]: what request r does next, and what it has read
    clashed         \* history: seats of which an assignment was ended twice

seatVars == <<seats, assignments, seatReq, clashed>>

SeatIds == 1..Len(seats)
AssignmentIds == 1..Len(assignments)

IdleRequest == [ at |-> "idle", arg |-> 0, tries |-> 0 ]

SeatReqGoto(r, at, arg, tries) ==
    seatReq' = [seatReq EXCEPT ![r] = [ at |-> at, arg |-> arg, tries |-> tries ]]

SeatReqDone(r) == seatReq' = [seatReq EXCEPT ![r] = IdleRequest]

AvailableSeats == { s \in SeatIds : seats[s] = "AVAILABLE" }

ActiveAssignments == { a \in AssignmentIds : assignments[a].status = "ACTIVE" }

NewAssignment(s) == [ seat |-> s, status |-> "ACTIVE" ]

\* Variant: the claim does not ask whether the seat is still available.
ClaimableAlways(s) == TRUE

\* The condition of the claim, evaluated under the lock of the seat's row.
Claimable(s) == seats[s] = "AVAILABLE"

\* Variant: a full license takes one seat more.
SeatRoomOffByOne(n) == Len(seats) + n <= SeatLimit + 1

\* bulkCreate's check.
SeatRoom(n) == Len(seats) + n <= SeatLimit

-----------------------------------------------------------------------------
SeatInit ==
    /\ seats = <<>> /\ assignments = <<>>
    /\ seatReq = [r \in SeatRequests |-> IdleRequest]
    /\ clashed = {}

\* bulkCreate: the count and the check; and then the insertion.
CountSeats(r, n) ==
    /\ seatReq[r].at = "idle"
    /\ SeatRoom(n)
    /\ SeatReqGoto(r, "creating", n, 0)
    /\ UNCHANGED <<seats, assignments, clashed>>

CreateSeats(r) ==
    /\ seatReq[r].at = "creating"
    /\ seats' = seats \o [i \in 1..seatReq[r].arg |-> "AVAILABLE"]
    /\ SeatReqDone(r)
    /\ UNCHANGED <<assignments, clashed>>

\* assign: the oldest available seat is the candidate.
FindSeat(r) ==
    /\ seatReq[r].at \in {"idle", "finding"}
    /\ \E s \in AvailableSeats :
           /\ \A t \in AvailableSeats : s <= t
           /\ SeatReqGoto(r, "claiming", s, seatReq[r].tries)
    /\ UNCHANGED <<seats, assignments, clashed>>

NoSeatLeft(r) ==
    /\ seatReq[r].at = "finding"
    /\ AvailableSeats = {}
    /\ SeatReqDone(r)
    /\ UNCHANGED <<seats, assignments, clashed>>

\* assign: the compare-and-swap, and another try when it was lost.
ClaimSeat(r) ==
    LET s == seatReq[r].arg
    IN  /\ seatReq[r].at = "claiming"
        /\ Claimable(s)
        /\ seats' = [seats EXCEPT ![s] = "ASSIGNED"]
        /\ SeatReqGoto(r, "assigning", s, 0)
        /\ UNCHANGED <<assignments, clashed>>

LoseSeat(r) ==
    /\ seatReq[r].at = "claiming"
    /\ ~ Claimable(seatReq[r].arg)
    /\ IF seatReq[r].tries + 1 < MaxSeatTries
       THEN SeatReqGoto(r, "finding", 0, seatReq[r].tries + 1)
       ELSE SeatReqDone(r)
    /\ UNCHANGED <<seats, assignments, clashed>>

CreateAssignment(r) ==
    /\ seatReq[r].at = "assigning"
    /\ Len(assignments) < MaxAssignments
    /\ assignments' = Append(assignments, NewAssignment(seatReq[r].arg))
    /\ SeatReqDone(r)
    /\ UNCHANGED <<seats, clashed>>

\* removeAssignment and transfer: the assignment is read and must be active.
ReadAssignment(r, a) ==
    /\ seatReq[r].at = "idle"
    /\ a \in ActiveAssignments
    /\ \E at \in {"removing", "transferring"} : SeatReqGoto(r, at, a, 0)
    /\ UNCHANGED <<seats, assignments, clashed>>

\* History: the assignment that is ended had been ended by another request already.
NoteClash(a) ==
    clashed' = IF a \in ActiveAssignments THEN clashed
               ELSE clashed \cup {assignments[a].seat}

\* removeAssignment: the assignment first; and then its seat, whoever has it by now.
EndAssignment(r) ==
    LET a == seatReq[r].arg
    IN  /\ seatReq[r].at = "removing"
        /\ assignments' = [assignments EXCEPT ![a].status = "REMOVED"]
        /\ SeatReqGoto(r, "freeing", assignments[a].seat, 0)
        /\ NoteClash(a)
        /\ UNCHANGED seats

FreeSeat(r) ==
    /\ seatReq[r].at = "freeing"
    /\ seats' = [seats EXCEPT ![seatReq[r].arg] = "AVAILABLE"]
    /\ SeatReqDone(r)
    /\ UNCHANGED <<assignments, clashed>>

\* transfer: both rows in one transaction, and the seat stays ASSIGNED.
TransferSeat(r) ==
    LET a == seatReq[r].arg
    IN  /\ seatReq[r].at = "transferring"
        /\ Len(assignments) < MaxAssignments
        /\ assignments' = Append([assignments EXCEPT ![a].status = "TRANSFERRED"],
                                 NewAssignment(assignments[a].seat))
        /\ SeatReqDone(r)
        /\ NoteClash(a)
        /\ UNCHANGED seats

\* A request ends early: its process ends, or its next statement fails.
CutSeatRequest(r) ==
    /\ seatReq[r].at # "idle"
    /\ SeatReqDone(r)
    /\ UNCHANGED <<seats, assignments, clashed>>

SeatNext ==
    \E r \in SeatRequests :
        \/ \E n \in 1..MaxBulk : CountSeats(r, n)
        \/ CreateSeats(r)
        \/ FindSeat(r) \/ NoSeatLeft(r) \/ ClaimSeat(r) \/ LoseSeat(r) \/ CreateAssignment(r)
        \/ \E a \in AssignmentIds : ReadAssignment(r, a)
        \/ EndAssignment(r) \/ FreeSeat(r) \/ TransferSeat(r)
        \/ CutSeatRequest(r)

SeatSpec == SeatInit /\ [][SeatNext]_seatVars

-----------------------------------------------------------------------------
SeatTypeOK ==
    /\ seats \in Seq({"AVAILABLE", "ASSIGNED"})
    /\ assignments \in Seq([ seat : SeatIds, status : {"ACTIVE", "REMOVED", "TRANSFERRED"} ])
    /\ seatReq \in [SeatRequests ->
           [ at : {"idle", "creating", "finding", "claiming", "assigning",
                   "removing", "freeing", "transferring"}, arg : Nat, tries : Nat ]]
    /\ \A r \in SeatRequests :
           /\ seatReq[r].at \in {"claiming", "assigning", "freeing"} => seatReq[r].arg \in SeatIds
           /\ seatReq[r].at \in {"removing", "transferring"} => seatReq[r].arg \in AssignmentIds
    /\ clashed \subseteq SeatIds

\* Everything that has seat s: its active assignments, and the requests between the
\* two statements of an assignment or of a removal.
Holders(s) ==
    { <<"assignment", a>> : a \in { b \in ActiveAssignments : assignments[b].seat = s } } \cup
    { <<"request", r>> : r \in { q \in SeatRequests :
          seatReq[q].at \in {"assigning", "freeing"} /\ seatReq[q].arg = s } }

\* A seat has one holder at most, and none while it is available: two people never
\* share a seat, and one that is free is really free, however assignments, removals and
\* transfers interleave - unless two of them ended the same assignment.
SeatExclusive ==
    \A s \in SeatIds \ clashed :
        /\ \A x, y \in Holders(s) : x = y
        /\ seats[s] = "AVAILABLE" => Holders(s) = {}

\* The seats that exist and those about to be created: the count before an insertion
\* lets the limit be passed by what the other requests were creating, and no more.
SeatsBounded ==
    Len(seats) <= SeatLimit + (Cardinality(SeatRequests) - 1) * MaxBulk

\* What the comment on the tests of this service states: there are never more active
\* assignments than seats.
NeverOverAllocated == Cardinality(ActiveAssignments) <= Len(seats)
===============================================================================
