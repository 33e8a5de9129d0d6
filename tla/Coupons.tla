-------------------------------- MODULE Coupons --------------------------------
(***************************************************************************)
(* The redemptions of one coupon, directly or by its promotion codes.      *)
(*                                                                         *)
(* A redemption is checked against the coupon's and the code's counts      *)
(* outside of any transaction; a transaction then inserts the redemption   *)
(* and increments the counts.  Removing a redemption marks it and gives    *)
(* nothing back.                                                           *)
(***************************************************************************)
EXTENDS Naturals, Sequences, FiniteSets

CONSTANTS
    PromotionCodes,     \* promotion codes of the coupon
    NoCode,             \* a redemption by coupon id
    CouponRequests,     \* requests that may be served at the same time
    MaxRedemptions,     \* Coupon.maxRedemptions
    MaxCodeRedemptions  \* maxRedemptions of every code

ASSUME CouponAssumption ==
    /\ NoCode \notin PromotionCodes
    /\ IsFiniteSet(CouponRequests) /\ CouponRequests # {}
    /\ MaxRedemptions \in Nat /\ MaxCodeRedemptions \in Nat

VARIABLES
    coupon,         \* the Coupon row: status and redemptionCount
    codes,          \* codes[c]: the PromotionCode row of c
    redemptions,    \* the SubscriptionCoupon rows, oldest first
    couponReq       \* couponReq[r]: what request r does next

couponVars == <<coupon, codes, redemptions, couponReq>>

CodeInputs == PromotionCodes \cup {NoCode}

IdleCouponRequest == [ at |-> "idle", code |-> NoCode, row |-> 0 ]

CouponReqDone(r) == couponReq' = [couponReq EXCEPT ![r] = IdleCouponRequest]

InFlight == { r \in CouponRequests : couponReq[r].at = "applying" }

InFlightBy(c) == { r \in InFlight : couponReq[r].code = c }

RedeemedBy(c) == { i \in DOMAIN redemptions : redemptions[i].code = c }

\* resolveForRedemption, the coupon: not archived nor expired, and below its limit.
Redeemable == coupon.status = "ACTIVE" /\ coupon.count < MaxRedemptions

\* resolveForRedemption, the code: active, not expired, and below its limit.
CodeRedeemable(c) == c # NoCode => codes[c].active /\ codes[c].count < MaxCodeRedemptions

\* Variant: a redemption by code is not counted on the coupon.
CouponCountByIdOnly(c) == IF c = NoCode THEN coupon.count + 1 ELSE coupon.count

\* Every redemption counts on the coupon.
CouponCountAfter(c) == coupon.count + 1

-----------------------------------------------------------------------------
CouponInit ==
    /\ coupon = [ status |-> "ACTIVE", count |-> 0 ]
    /\ codes = [c \in PromotionCodes |-> [ active |-> TRUE, count |-> 0 ]]
    /\ redemptions = <<>>
    /\ couponReq = [r \in CouponRequests |-> IdleCouponRequest]

\* The coupon is archived, or expires; and so a code.
ArchiveCoupon ==
    /\ coupon.status = "ACTIVE"
    /\ coupon' = [coupon EXCEPT !.status = "ARCHIVED"]
    /\ UNCHANGED <<codes, redemptions, couponReq>>

DeactivateCode(c) ==
    /\ codes[c].active
    /\ codes' = [codes EXCEPT ![c].active = FALSE]
    /\ UNCHANGED <<coupon, redemptions, couponReq>>

\* applyCoupon: the check.
ResolveCoupon(r, c) ==
    /\ couponReq[r].at = "idle"
    /\ CodeRedeemable(c)
    /\ Redeemable
    /\ couponReq' = [couponReq EXCEPT ![r].at = "applying", ![r].code = c]
    /\ UNCHANGED <<coupon, codes, redemptions>>

\* applyCoupon: the transaction, which checks nothing.
ApplyCoupon(r) ==
    LET c == couponReq[r].code
    IN  /\ couponReq[r].at = "applying"
        /\ redemptions' = Append(redemptions, [ code |-> c, removed |-> FALSE ])
        /\ coupon' = [coupon EXCEPT !.count = CouponCountAfter(c)]
        /\ codes' = [d \in PromotionCodes |->
                        IF d = c THEN [codes[d] EXCEPT !.count = @ + 1] ELSE codes[d]]
        /\ CouponReqDone(r)

\* removeCoupon: the read; and then the update, the count left as it is.
FindRedemption(r, i) ==
    /\ couponReq[r].at = "idle"
    /\ ~ redemptions[i].removed
    /\ couponReq' = [couponReq EXCEPT ![r].at = "removing", ![r].row = i]
    /\ UNCHANGED <<coupon, codes, redemptions>>

RemoveCoupon(r) ==
    /\ couponReq[r].at = "removing"
    /\ redemptions' = [redemptions EXCEPT ![couponReq[r].row].removed = TRUE]
    /\ CouponReqDone(r)
    /\ UNCHANGED <<coupon, codes>>

\* A request ends between its two steps.
CutCouponRequest(r) ==
    /\ couponReq[r].at # "idle"
    /\ CouponReqDone(r)
    /\ UNCHANGED <<coupon, codes, redemptions>>

CouponNext ==
    \/ ArchiveCoupon
    \/ \E c \in PromotionCodes : DeactivateCode(c)
    \/ \E r \in CouponRequests :
           \/ \E c \in CodeInputs : ResolveCoupon(r, c)
           \/ ApplyCoupon(r)
           \/ \E i \in DOMAIN redemptions : FindRedemption(r, i)
           \/ RemoveCoupon(r) \/ CutCouponRequest(r)

CouponSpec == CouponInit /\ [][CouponNext]_couponVars

-----------------------------------------------------------------------------
CouponTypeOK ==
    /\ coupon \in [ status : {"ACTIVE", "ARCHIVED"}, count : Nat ]
    /\ codes \in [PromotionCodes -> [ active : BOOLEAN, count : Nat ]]
    /\ redemptions \in Seq([ code : CodeInputs, removed : BOOLEAN ])
    /\ couponReq \in [CouponRequests ->
           [ at : {"idle", "applying", "removing"}, code : CodeInputs, row : Nat ]]
    /\ \A r \in CouponRequests :
           couponReq[r].at = "removing" => couponReq[r].row \in DOMAIN redemptions

\* The counts are the redemptions there have ever been, removed ones included.
RedemptionsCounted ==
    /\ coupon.count = Len(redemptions)
    /\ \A c \in PromotionCodes : codes[c].count = Cardinality(RedeemedBy(c))

\* A coupon, and each of its codes, is redeemed beyond its limit by the requests that were
\* checked at the same time as the last free redemption, and by no more than those.
CouponOverrunBounded ==
    LET others == Cardinality(CouponRequests) - 1
    IN  /\ Len(redemptions) <= MaxRedemptions + others
        /\ \A c \in PromotionCodes :
               Cardinality(RedeemedBy(c)) <= MaxCodeRedemptions + others
===============================================================================
