----------------------------- MODULE QuoteProofs -----------------------------
(* Machine-checked facts about Quote, and about the operators of Budget,   *)
(* Replace, Units and Verdict it is built from, for every value of their   *)
(* constants.                                                              *)
EXTENDS Quote, FiniteSetTheorems, TLAPS

-----------------------------------------------------------------------------
(* What a grant is                                                         *)

\* Budget::take: a grant is worth a call, within the call's own cap, and within
\* what is left.
LEMMA SliceGrants ==
    ASSUME NEW total \in Nat, NEW spent \in Nat, NEW perCall \in Nat
    PROVE  LET g == Slice(total, spent, perCall) IN
           /\ g \in Nat /\ g <= perCall
           /\ g = Refused \/ (g >= MinSlice /\ g <= Left(total, spent))
           /\ spent <= total => spent + g <= total
           /\ Left(total, spent) >= MinSlice /\ perCall >= MinSlice => g # Refused
BY BudgetAssumption DEF Slice, Left, Lesser, Refused

\* Budget::take_whole: the same, and nothing unless the least is there.
LEMMA WholeGrants ==
    ASSUME NEW total \in Nat, NEW spent \in Nat, NEW min \in Nat, NEW cap \in Nat
    PROVE  LET g == Whole(total, spent, min, cap) IN
           /\ g \in Nat /\ g <= cap
           /\ g = Refused \/ (Left(total, spent) >= min /\ g <= Left(total, spent))
           /\ spent <= total => spent + g <= total
BY BudgetAssumption DEF Whole, Left, Lesser, Greater, Refused

LEMMA WholeGiven ==
    ASSUME NEW total \in Nat, NEW spent \in Nat, NEW min \in Nat, NEW cap \in Nat, cap > 0,
           Whole(total, spent, min, cap) = Refused
    PROVE  Left(total, spent) < min \/ Left(total, spent) < MinSlice
BY BudgetAssumption DEF Whole, Left, Lesser, Greater, Refused

LEMMA TripRange ==
    ASSUME NEW t \in Nat
    PROVE  RoundTrip(t) \in MinTrip..MaxTrip
BY BudgetAssumption DEF RoundTrip, Lesser, Greater

\* A fee pass that may begin with `after` still to come is never given what that needs.
LEMMA FeeCapLeaves ==
    ASSUME NEW left \in Nat, NEW legs \in Nat, NEW after \in Nat, NEW t \in Nat,
           left >= FeeFloor(t, legs) + after
    PROVE  FeeCap(left, legs, after, t) + after <= left
<1>1. FeeFloor(t, legs) \in Nat
  BY BudgetAssumption DEF FeeFloor, RpcSlice
<1>2. FeeRounds(legs) \in Nat /\ RpcSlice(t) \in Nat
  BY BudgetAssumption DEF FeeRounds, RpcSlice
<1>3. Greater(FeeBudget, RpcSlice(t) * FeeRounds(legs)) + CalleeMargin \in Nat
  BY <1>2, BudgetAssumption DEF Greater
<1> QED
  BY <1>1, <1>3 DEF FeeCap, Left, Lesser, Greater

LEMMA RpcSize ==
    ASSUME NEW t \in Nat
    PROVE  RpcSlice(t) \in Nat /\ RpcSlice(t) >= t /\ RpcSlice(t) >= MinSlice
BY BudgetAssumption DEF RpcSlice

LEMMA FeeSizes ==
    ASSUME NEW left \in Nat, NEW legs \in Nat, NEW after \in Nat, NEW t \in Nat
    PROVE  /\ FeeFloor(t, legs) \in Nat /\ FeeFloor(t, legs) >= RpcSlice(t)
           /\ FeeCap(left, legs, after, t) \in Nat
           /\ FeeCap(left, legs, after, t) > 0
<1>1. RpcSlice(t) \in Nat /\ RpcSlice(t) > 0
  BY RpcSize, BudgetAssumption
<1>2. RpcSlice(t) * legs \in Nat /\ RpcSlice(t) * (legs + 1) = RpcSlice(t) * legs + RpcSlice(t)
  BY <1>1
<1>3. FeeFloor(t, legs) \in Nat /\ FeeFloor(t, legs) >= RpcSlice(t)
  BY <1>1, <1>2, BudgetAssumption DEF FeeFloor
<1>4. RpcSlice(t) * FeeRounds(legs) \in Nat
  BY <1>1 DEF FeeRounds
<1> QED
  BY <1>1, <1>3, <1>4, BudgetAssumption DEF FeeCap, Left, Lesser, Greater

-----------------------------------------------------------------------------
(* What a raised price is                                                  *)

\* Highest is what its name says, of any words.
LEMMA HighestIs ==
    ASSUME NEW S \in SUBSET (0..W), S # {}
    PROVE  Highest(S) \in S /\ \A m \in S : m <= Highest(S)
<1> DEFINE above == {n..W : n \in S}
           less == StrictSubsetOrdering(0..W)
<1>1. W \in Nat
  BY WordAssumption
<1>2. above \subseteq FiniteSubsetsOf(0..W) /\ above # {}
  <2>1. IsFiniteSet(0..W)
    BY <1>1, FS_Interval
  <2>2. \A n \in S : n..W \subseteq 0..W
    BY <1>1
  <2>3. FiniteSubsetsOf(0..W) = SUBSET (0..W)
    BY <2>1, FS_FiniteSubsetsOfFinite
  <2>4. above \subseteq SUBSET (0..W)
    BY <2>2
  <2>5. above # {}
    OBVIOUS
  <2> QED
    BY <2>3, <2>4, <2>5
<1>3. PICK A \in above : \A B \in above : ~(<<B, A>> \in less)
  <2> HIDE DEF above
  <2> QED BY <1>2, WFMin, FS_StrictSubsetOrderingWellFounded
<1>4. PICK n \in S : A = n..W
  OBVIOUS
<1>5. ASSUME NEW m \in S PROVE m <= n
  <2> SUFFICES ASSUME ~(m <= n) PROVE FALSE
    OBVIOUS
  <2>1. m \in Int /\ n \in Int /\ n \in n..W /\ n \notin m..W /\ n..W # m..W
    BY <1>1
  <2>2. m..W \subseteq n..W /\ n..W \subseteq 0..W /\ m..W \subseteq 0..W
    BY <1>1, <2>1
  <2>3. <<m..W, n..W>> \in less
    BY <2>1, <2>2 DEF StrictSubsetOrdering
  <2> QED BY <1>3, <1>4, <2>3
<1> QED
  BY <1>5 DEF Highest

LEMMA Product == ASSUME NEW m \in Nat, NEW n \in Nat PROVE m * n \in Nat
OBVIOUS

LEMMA Division ==
    ASSUME NEW m \in Nat, NEW d \in Nat, d > 0
    PROVE  m = d * (m \div d) + (m % d)
OBVIOUS

\* A bump is a word, whatever it is the bump of.
LEMMA BumpIs ==
    ASSUME NEW y \in 0..W
    PROVE  /\ BumpUp(y) \in 0..W
           /\ y + y \div Bump >= W => BumpUp(y) = W
<1>1. W \in Nat /\ y \div Bump \in Nat
  BY WordAssumption
<1> QED
  BY <1>1 DEF BumpUp, SatAdd

\* replace::bump clears a node's rule over anything no dearer, or is the greatest word.
LEMMA BumpOutbids ==
    ASSUME NEW y \in 0..W, NEW x \in 0..W, x >= BumpUp(y), NEW z \in 0..W, z <= y
    PROVE  Outbids(x, z)
<1> DEFINE q == y \div Bump
<1>1. /\ W \in Nat /\ Bump \in Nat /\ Bump > 0 /\ y \in Nat /\ z \in Nat /\ x \in Nat
      /\ q \in Nat /\ y = (Bump * q) + (y % Bump) /\ y % Bump < Bump /\ y % Bump \in Nat
  <2>1. W \in Nat /\ Bump \in Nat /\ Bump > 0 /\ y \in Nat /\ z \in Nat /\ x \in Nat
    BY WordAssumption
  <2>2. q \in Nat /\ y % Bump \in Nat /\ y % Bump < Bump
    BY <2>1
  <2>3. y = (Bump * q) + (y % Bump)
    BY <2>1, Division
  <2> QED BY <2>1, <2>2, <2>3
<1>2. CASE y + y \div Bump >= W
  <2>1. BumpUp(y) = W /\ W \in Nat
    BY <1>2, BumpIs, WordAssumption
  <2>2. x = W
    BY <2>1
  <2> QED BY <2>2 DEF Outbids
<1>3. CASE ~(y + y \div Bump >= W)
  <2>1. y + q < W
    BY <1>1, <1>3
  <2>2. BumpUp(y) = y + q + 1
    BY <1>1, <2>1 DEF BumpUp, SatAdd
  <2>3. (q + 1) * Bump > y
    <3>1. (q + 1) * Bump = Bump * q + Bump
      BY <1>1, <2>1
    <3> HIDE DEF q
    <3> QED BY <1>1, <2>1, <3>1
  <2>4. x * Bump >= (y + q + 1) * Bump
    <3> HIDE DEF q
    <3> QED BY <1>1, <2>1, <2>2
  <2>5. (y + q + 1) * Bump = y * Bump + (q + 1) * Bump
    <3> HIDE DEF q
    <3> QED BY <1>1, <2>1
  <2>6. y * (Bump + 1) = y * Bump + y /\ y * (Bump + 1) >= z * (Bump + 1)
    BY <1>1
  <2> QED
    <3> HIDE DEF q
    <3>1. y * Bump \in Nat /\ (q + 1) * Bump \in Nat /\ x * Bump \in Nat /\ z * (Bump + 1) \in Nat
      BY <1>1, <2>1
    <3>2. x * Bump >= z * (Bump + 1)
      BY <2>3, <2>4, <2>5, <2>6, <3>1, <1>1, <2>1
    <3> QED BY <1>1, <2>1, <2>2, <3>2 DEF Outbids
<1> QED
  BY <1>2, <1>3

\* The floor is no lower than any row it is made of.
LEMMA FloorIs ==
    ASSUME NEW h \in Histories, NEW c, NEW n, Pending(h, c, n) # {}
    PROVE  LET f == Floor(h, c, n) IN
           /\ ~f.none
           /\ f.fee \in 0..W /\ f.tip \in 0..W
           /\ \A r \in Pending(h, c, n) : r.fee <= f.fee /\ r.tip <= f.tip
<1> DEFINE S == Pending(h, c, n)
           fees == {r.fee : r \in S}
           tips == {r.tip : r \in S}
<1>1. \A r \in S : r \in PricedRow /\ r \in h
  BY QuoteAssumption DEF Pending, At
<1>2. \A r \in S : r.fee \in 0..W /\ r.tip \in 0..W
  BY <1>1 DEF PricedRow
<1>3. Highest(fees) \in fees /\ \A m \in fees : m <= Highest(fees)
  BY <1>2, HighestIs
<1>4. Highest(tips) \in tips /\ \A m \in tips : m <= Highest(tips)
  BY <1>2, HighestIs
<1>5. Floor(h, c, n) = [fee |-> Highest(fees), tip |-> Highest(tips), none |-> FALSE]
  BY DEF Floor
<1> HIDE DEF S
<1> QED
  BY <1>1, <1>2, <1>3, <1>4, <1>5 DEF S

LEMMA NoFloorMeans ==
    ASSUME NEW h, NEW c, NEW n, Floor(h, c, n).none
    PROVE  Pending(h, c, n) = {}
BY DEF Floor, NoFloor

\* replace::raise: what it does not refuse is bumped on both fields, and no tip is
\* above its fee.
LEMMA RaisedIs ==
    ASSUME NEW p \in 0..W, NEW t \in 0..W, NEW sp \in BOOLEAN, NEW st \in BOOLEAN, NEW f,
           f.fee \in 0..W, f.tip \in 0..W,
           ~RaiseRefused(p, t, sp, st, f)
    PROVE  /\ RaisedTip(t, st, f) \in 0..W /\ RaisedTip(t, st, f) >= BumpUp(f.tip)
           /\ RaisedFee(p, t, sp, st, f) \in 0..W /\ RaisedFee(p, t, sp, st, f) >= BumpUp(f.fee)
           /\ RaisedTip(t, st, f) <= RaisedFee(p, t, sp, st, f)
<1>1. W \in Nat
  BY WordAssumption
<1>2. BumpUp(f.fee) \in 0..W /\ BumpUp(f.tip) \in 0..W
  BY BumpIs
<1> DEFINE T == RaisedTip(t, st, f)
<1>3. T \in 0..W /\ T >= BumpUp(f.tip)
  BY <1>1, <1>2 DEF RaisedTip, RaiseRefused
<1> HIDE DEF T
<1>4. Highest({p, BumpUp(f.fee), T}) \in 0..W /\ Highest({p, BumpUp(f.fee), T}) >= BumpUp(f.fee)
  <2>1. {p, BumpUp(f.fee), T} \in SUBSET (0..W) /\ {p, BumpUp(f.fee), T} # {}
    BY <1>2, <1>3
  <2>2. /\ Highest({p, BumpUp(f.fee), T}) \in {p, BumpUp(f.fee), T}
        /\ \A m \in {p, BumpUp(f.fee), T} : m <= Highest({p, BumpUp(f.fee), T})
    BY <2>1, HighestIs
  <2> QED BY <2>1, <2>2, <1>2, <1>3
<1>5. RaisedFee(p, t, sp, st, f) \in 0..W /\ RaisedFee(p, t, sp, st, f) >= BumpUp(f.fee)
  BY <1>1, <1>2, <1>4 DEF RaisedFee, RaiseRefused, T
<1>6. T <= RaisedFee(p, t, sp, st, f)
  BY <1>1, <1>3, <1>5 DEF RaiseRefused, T
<1> QED
  BY <1>3, <1>5, <1>6 DEF T

-----------------------------------------------------------------------------
(* The allowance                                                           *)

LEMMA Allowance ==
    ASSUME QuoteTypeOK
    PROVE  /\ req \in Request /\ Total \in Nat /\ elapsed \in Nat /\ elapsed <= Total
           /\ rt \in Nat /\ Have \in Nat /\ Have = Total - elapsed
<1>1. req \in Request
  BY QuoteAssumption DEF QuoteTypeOK
<1>2. Total \in Nat
  BY <1>1, QuoteAssumption DEF Total, BoundedBy, Lesser, Request
<1> QED
  BY <1>1, <1>2, BudgetAssumption DEF QuoteTypeOK, Have, Left

\* What is still to do after a fee pass, and after the reads behind it.
LEMMA AfterSizes ==
    ASSUME NEW t \in Nat
    PROVE  /\ AfterOn(AfterFees, t) \in Nat
           /\ req.send => AfterOn(AfterFees, t) = 2 * RpcSlice(t) + InitBudget
           /\ ~req.send => AfterOn(AfterFees, t) = 2 * RpcSlice(t)
BY RpcSize, BudgetAssumption DEF AfterOn, AfterFees, AfterAdd, AfterPricing, AfterQuote, RpcSlice

\* A call that may take its grant stays within the allowance.
LEMMA Spent ==
    ASSUME QuoteTypeOK, NEW g \in Nat, elapsed + g <= Total, Spend(g)
    PROVE  elapsed' \in elapsed..(elapsed + g) /\ elapsed' \in 0..Total
BY Allowance DEF Spend

\* What each call is granted.
LEMMA Grants ==
    ASSUME QuoteTypeOK
    PROVE  /\ \A c \in Nat : Slice(Total, elapsed, c) \in Nat /\ elapsed + Slice(Total, elapsed, c) <= Total
           /\ FeePass \in Nat /\ elapsed + FeePass <= Total
           /\ ReadGrant \in Nat /\ elapsed + ReadGrant <= Total /\ ReadGrant <= RpcSlice(rt)
           /\ ReadGrant = Refused => Have < rt \/ Have < MinSlice
           /\ FeePass <= FeeCap(Have, req.calls, AfterOn(AfterFees, rt), rt)
           /\ FeePass = Refused => Have < RpcSlice(rt)
<1>1. /\ req.calls \in Nat /\ Total \in Nat /\ elapsed \in Nat /\ elapsed <= Total
      /\ rt \in Nat /\ Have \in Nat /\ Have = Left(Total, elapsed)
  BY Allowance DEF Request, Have
<1>2. RpcSlice(rt) \in Nat /\ RpcSlice(rt) >= MinSlice /\ RpcSlice(rt) > 0
  BY <1>1, RpcSize, BudgetAssumption
<1>3. AfterOn(AfterFees, rt) \in Nat
  BY <1>1, AfterSizes
<1>4. /\ FeeCap(Have, req.calls, AfterOn(AfterFees, rt), rt) \in Nat
      /\ FeeCap(Have, req.calls, AfterOn(AfterFees, rt), rt) > 0
  BY <1>1, <1>3, FeeSizes
<1>5. \A c \in Nat : Slice(Total, elapsed, c) \in Nat /\ elapsed + Slice(Total, elapsed, c) <= Total
  BY <1>1, SliceGrants
<1>6. /\ FeePass \in Nat /\ elapsed + FeePass <= Total
      /\ FeePass <= FeeCap(Have, req.calls, AfterOn(AfterFees, rt), rt)
      /\ FeePass = Refused => Have < RpcSlice(rt) \/ Have < MinSlice
  <2> DEFINE cap == FeeCap(Have, req.calls, AfterOn(AfterFees, rt), rt)
  <2>1. FeePass = Whole(Total, elapsed, RpcSlice(rt), cap)
    BY DEF FeePass
  <2> HIDE DEF cap
  <2>2. cap \in Nat /\ cap > 0
    BY <1>4 DEF cap
  <2>3. FeePass \in Nat /\ elapsed + FeePass <= Total /\ FeePass <= cap
    BY <1>1, <1>2, <2>1, <2>2, WholeGrants
  <2>4. FeePass = Refused => Have < RpcSlice(rt) \/ Have < MinSlice
    BY <1>1, <1>2, <2>1, <2>2, WholeGiven
  <2> QED BY <2>3, <2>4 DEF cap
<1>7. /\ ReadGrant \in Nat /\ elapsed + ReadGrant <= Total /\ ReadGrant <= RpcSlice(rt)
      /\ ReadGrant = Refused => Have < rt \/ Have < MinSlice
  <2>1. ReadGrant \in Nat /\ elapsed + ReadGrant <= Total /\ ReadGrant <= RpcSlice(rt)
    BY <1>1, <1>2, WholeGrants DEF ReadGrant
  <2>2. ReadGrant = Refused => Have < rt \/ Have < MinSlice
    BY <1>1, <1>2, WholeGiven DEF ReadGrant
  <2> QED BY <2>1, <2>2
<1> QED
  BY <1>1, <1>2, <1>5, <1>6, <1>7, BudgetAssumption

\* What Pin raises a price to, over rows it found.
LEMMA PinRaises ==
    ASSUME QuoteTypeOK, NEW h \in Histories \cup {{}}, ~FloorOf(h).none,
           ~RaiseRefused(fee, tip, OwnFee, OwnTip, FloorOf(h))
    PROVE  LET p == RaisedFee(fee, tip, OwnFee, OwnTip, FloorOf(h))
               t == RaisedTip(tip, OwnTip, FloorOf(h))
           IN  /\ p \in 0..W /\ t \in 0..W /\ t <= p
               /\ \A r \in Pending(h, req.chain, req.pin) : Outbids(p, r.fee) /\ Outbids(t, r.tip)
<1> DEFINE S == Pending(h, req.chain, req.pin)
           f == FloorOf(h)
           p == RaisedFee(fee, tip, OwnFee, OwnTip, f)
           t == RaisedTip(tip, OwnTip, f)
<1>1. OwnFee \in BOOLEAN /\ OwnTip \in BOOLEAN
  BY DEF OwnFee, OwnTip
<1>2. h \in Histories /\ S # {}
  BY DEF FloorOf, Floor, NoFloor, Pending, At
<1>3. /\ f.fee \in 0..W /\ f.tip \in 0..W
      /\ \A r \in S : r.fee <= f.fee /\ r.tip <= f.tip
  BY <1>2, FloorIs DEF FloorOf
<1>4. \A r \in S : r.fee \in 0..W /\ r.tip \in 0..W
  BY <1>2, QuoteAssumption DEF Pending, At, PricedRow
<1> HIDE DEF f
<1>5. /\ p \in 0..W /\ p >= BumpUp(f.fee)
      /\ t \in 0..W /\ t >= BumpUp(f.tip)
      /\ t <= p
  BY <1>1, <1>3, RaisedIs DEF QuoteTypeOK, f
<1> HIDE DEF p, t, S
<1>6. \A r \in S : Outbids(p, r.fee) /\ Outbids(t, r.tip)
  BY <1>3, <1>4, <1>5, BumpOutbids
<1> QED
  BY <1>5, <1>6 DEF p, t, S, f

-----------------------------------------------------------------------------
(* Type correctness, and the allowance with it                             *)

LEMMA InitType == Init => QuoteTypeOK
<1> SUFFICES ASSUME Init PROVE QuoteTypeOK
  OBVIOUS
<1>1. req \in Request
  BY QuoteAssumption DEF Init
<1>2. Total \in Nat
  BY <1>1, QuoteAssumption DEF Total, BoundedBy, Lesser, Request
<1>3. labels \in Seq(Routes)
  BY DEF Init
<1>4. elapsed \in 0..Total /\ rt \in MinTrip..MaxTrip
  BY <1>2, BudgetAssumption DEF Init
<1>5. fee \in 0..W /\ tip \in 0..W /\ ceiling \in 0..W /\ balance \in 0..W /\ gas \in Nat
  BY WordAssumption DEF Init
<1> QED
  BY <1>3, <1>4, <1>5 DEF Init, QuoteTypeOK

LEMMA NextType == QuoteTypeOK /\ [Next]_vars => QuoteTypeOK'
<1> SUFFICES ASSUME QuoteTypeOK, [Next]_vars PROVE QuoteTypeOK'
  OBVIOUS
<1>0. /\ req \in Request /\ Total \in Nat /\ elapsed \in Nat /\ elapsed <= Total
      /\ rt \in Nat /\ Have \in Nat /\ W \in Nat
  BY Allowance, WordAssumption
<1>1. \A c \in Nat : Slice(Total, elapsed, c) \in Nat /\ elapsed + Slice(Total, elapsed, c) <= Total
  BY Grants
<1>2. /\ FeePass \in Nat /\ elapsed + FeePass <= Total
      /\ ReadGrant \in Nat /\ elapsed + ReadGrant <= Total
  BY Grants
<1>3. ASSUME req' = req PROVE Total' = Total
  BY <1>3 DEF Total
<1>4. ASSUME NEW g \in Nat, elapsed + g <= Total, Spend(g), req' = req
      PROVE  elapsed' \in 0..Total'
  BY <1>3, <1>4, Spent
<1>5. ASSUME NEW g \in Nat, elapsed + g <= Total, Fails(g) PROVE QuoteTypeOK'
  BY <1>4, <1>5 DEF Fails, QuoteTypeOK, world, priced, read, Ends
<1>6. CASE NoTime
  BY <1>3, <1>6 DEF NoTime, QuoteTypeOK, world, priced, read, Ends
<1>7. CASE Start
  BY <1>3, <1>7 DEF Start, QuoteTypeOK, world, priced, read, Ends
<1>8. CASE Gate
  <2>1. ProbeBudget \in Nat
    BY BudgetAssumption
  <2>2. req' = req /\ seen' = seen /\ rt' = rt /\ elapsed' \in 0..Total'
    BY <1>0, <1>1, <1>3, <1>4, <1>8, <2>1 DEF Gate, world
  <2>3. pc' \in {"form", "blocked"}
    BY <1>8 DEF Gate
  <2> QED BY <1>8, <2>2, <2>3 DEF Gate, QuoteTypeOK, world, priced, read, Ends
<1>9. CASE Form
  BY <1>3, <1>9 DEF Form, QuoteTypeOK, world, priced, read, Ends
<1>10. CASE ReadRoute
  <2>1. ProbeBudget \in Nat
    BY BudgetAssumption
  <2>2. req' = req /\ seen' = seen /\ elapsed' \in 0..Total'
    BY <1>0, <1>1, <1>3, <1>4, <1>10, <2>1 DEF ReadRoute, world
  <2>3. rt' \in MinTrip..MaxTrip
    BY <1>10, TripRange, QuoteAssumption DEF ReadRoute
  <2> QED BY <1>10, <2>2, <2>3 DEF ReadRoute, QuoteTypeOK, world, priced, read, Ends
<1>11. CASE EstimateBundle
  <2>0. ample' \in BOOLEAN
    <3>1. ample' = (Have >= FeeFloor(rt, req.calls) + AfterOn(AfterFees, rt))
      BY <1>11 DEF EstimateBundle
    <3> QED BY <3>1
  <2>1. CASE FeePass = Refused
    BY <1>3, <1>11, <2>0, <2>1 DEF EstimateBundle, QuoteTypeOK, world, priced, read, Ends
  <2>2. CASE FeePass # Refused
    <3>1. req' = req /\ seen' = seen /\ rt' = rt /\ elapsed' \in 0..Total'
      BY <1>2, <1>4, <1>11, <2>2 DEF EstimateBundle, world
    <3>2. CASE pc' = "refused" /\ UNCHANGED priced
      BY <1>11, <2>0, <2>2, <3>1, <3>2 DEF EstimateBundle, QuoteTypeOK, priced, read, Ends
    <3>3. CASE /\ fee' \in Prices /\ tip' \in Prices
               /\ custom' \in {FALSE, req.setFee \/ req.setTip}
               /\ gas' \in Gases
               /\ ceiling' = fee' * gas' /\ ceiling' <= W
               /\ raised' = FALSE
               /\ pc' = IF tip' > fee' THEN "refused"
                        ELSE IF req.pin = NoPin THEN "balance" ELSE "pin"
      <4>1. fee' \in 0..W /\ tip' \in 0..W /\ gas' \in Nat /\ custom' \in BOOLEAN
        BY <3>3, QuoteAssumption
      <4>2. ceiling' \in 0..W
        <5>1. fee' \in Nat /\ gas' \in Nat
          BY <4>1
        <5>2. fee' * gas' \in Nat
          BY <5>1, Product
        <5> QED BY <1>0, <3>3, <5>2
      <4>3. pc' \in {"refused", "balance", "pin"}
        BY <3>3
      <4> QED BY <1>11, <2>0, <3>1, <3>3, <4>1, <4>2, <4>3
              DEF EstimateBundle, QuoteTypeOK, read, Ends
    <3> QED BY <1>11, <2>2, <3>2, <3>3 DEF EstimateBundle
  <2> QED BY <2>1, <2>2
<1>12. CASE Pin
  <2>1. pc' \in {"refused", "balance", "reprice"} /\ raised' \in BOOLEAN
    BY <1>12 DEF Pin, QuoteTypeOK
  <2>2. fee' \in 0..W /\ tip' \in 0..W
    <3>1. CASE UNCHANGED <<fee, tip>>
      BY <3>1 DEF QuoteTypeOK
    <3>2. CASE ~UNCHANGED <<fee, tip>>
      <4>1. /\ seen' \in Histories \cup {{}} /\ ~FloorOf(seen').none
            /\ ~RaiseRefused(fee, tip, OwnFee, OwnTip, FloorOf(seen'))
            /\ tip' = RaisedTip(tip, OwnTip, FloorOf(seen'))
            /\ fee' = RaisedFee(fee, tip, OwnFee, OwnTip, FloorOf(seen'))
        BY <1>12, <3>2 DEF Pin
      <4> QED BY <1>0, <4>1, PinRaises
    <3> QED BY <3>1, <3>2
  <2>3. seen' \in Histories \cup {{}}
    BY <1>12 DEF Pin, QuoteTypeOK
  <2> QED BY <1>3, <1>12, <2>1, <2>2, <2>3 DEF Pin, QuoteTypeOK, read, Ends
<1>13. CASE Reprice
  <2>1. FeeFloor(rt, req.calls) \in Nat
    BY <1>0, FeeSizes DEF Request
  <2> DEFINE g == Slice(Total, elapsed, FeeFloor(rt, req.calls))
  <2>2. g \in Nat /\ elapsed + g <= Total
    BY <1>1, <2>1
  <2> HIDE DEF g
  <2>3. \/ NoTime \/ Fails(g)
        \/ /\ fee * gas <= W /\ Spend(g) /\ ceiling' = fee * gas /\ pc' = "balance"
           /\ UNCHANGED <<world, rt, fee, tip, custom, gas, raised, read, ample>>
    BY <1>13 DEF Reprice, Repriced, g
  <2>4. fee * gas \in Nat
    BY <1>0 DEF QuoteTypeOK
  <2>5. CASE NoTime \/ Fails(g)
    BY <1>5, <1>6, <2>2, <2>5
  <2>6. CASE /\ fee * gas <= W /\ Spend(g) /\ ceiling' = fee * gas /\ pc' = "balance"
             /\ UNCHANGED <<world, rt, fee, tip, custom, gas, raised, read, ample>>
    <3>1. elapsed' \in 0..Total'
      BY <1>4, <2>2, <2>6 DEF world
    <3>2. ceiling' \in 0..W
      BY <1>0, <2>4, <2>6
    <3> QED BY <2>6, <3>1, <3>2 DEF QuoteTypeOK, world, read
  <2> QED BY <2>3, <2>5, <2>6
<1>14. CASE ReadBalance
  <2>1. CASE \/ NoTime \/ Fails(ReadGrant)
    BY <1>2, <1>5, <1>6, <2>1
  <2>2. CASE ~(NoTime \/ Fails(ReadGrant))
    <3>1. /\ Spend(ReadGrant) /\ balance' \in Balances
          /\ \E l \in Routes : labels' = <<l>>
          /\ pc' \in {"nonce", "refused"}
          /\ UNCHANGED <<world, rt, priced, ample>>
      BY <1>14, <2>2 DEF ReadBalance
    <3>2. balance' \in 0..W /\ labels' \in Seq(Routes)
      BY <3>1, QuoteAssumption
    <3> QED BY <1>2, <1>4, <3>1, <3>2 DEF QuoteTypeOK, world, priced, Ends
  <2> QED BY <2>1, <2>2
<1>15. CASE ReadNonce
  <2>1. CASE \/ NoTime \/ Fails(ReadGrant)
    BY <1>2, <1>5, <1>6, <2>1
  <2>2. CASE ~(NoTime \/ Fails(ReadGrant))
    <3>1. /\ Spend(ReadGrant) \/ elapsed' = elapsed
          /\ \E l \in Routes : labels' = Append(labels, l)
          /\ pc' \in {"approve", "quoted"}
          /\ UNCHANGED <<world, rt, priced, balance, ample>>
      BY <1>15, <2>2 DEF ReadNonce, Quoted, Routes
    <3>2. labels' \in Seq(Routes)
      BY <3>1 DEF QuoteTypeOK
    <3>3. elapsed' \in 0..Total'
      BY <1>0, <1>2, <1>3, <1>4, <3>1 DEF world
    <3> QED BY <3>1, <3>2, <3>3 DEF QuoteTypeOK, world, priced, Ends
  <2> QED BY <2>1, <2>2
<1>16. CASE Approve
  <2> DEFINE g == Slice(Total, elapsed, InitBudget)
  <2>1. g \in Nat /\ elapsed + g <= Total
    BY <1>1, BudgetAssumption
  <2> HIDE DEF g
  <2>2. \/ NoTime \/ Fails(g)
        \/ Spend(g) /\ pc' = "asked" /\ UNCHANGED <<world, rt, priced, read, ample>>
    BY <1>16 DEF Approve, g
  <2> QED BY <1>4, <1>5, <1>6, <2>1, <2>2 DEF QuoteTypeOK, world, priced, read, Ends
<1>17. CASE Done \/ UNCHANGED vars
  BY <1>3, <1>17 DEF Done, vars, QuoteTypeOK, world, priced, read, Ends
<1> QED
  BY <1>7, <1>8, <1>9, <1>10, <1>11, <1>12, <1>13, <1>14, <1>15, <1>16, <1>17 DEF Next

\* For every allowance, margin, chain and answer: the state is well typed, and no
\* request ever takes more time than its caller allowed (Budget::take, take_whole).
THEOREM AllowanceHolds == Spec => []QuoteTypeOK
BY InitType, NextType, PTL DEF Spec

-----------------------------------------------------------------------------
(* What is bought is paid for                                              *)

\* The ceiling the balance is held against is the gas at the fees of this moment,
\* from the fee pass on; only a raise that is not priced again yet parts them.
Paid ==
    /\ pc \in {"pin", "balance", "nonce", "approve"} \cup {"quoted", "asked"} => ceiling = fee * gas
    /\ pc \in {"nonce", "approve"} \cup {"quoted", "asked"} => req.value + ceiling <= balance

LEMMA NextPaid == QuoteTypeOK /\ Paid /\ [Next]_vars => Paid'
<1> SUFFICES ASSUME QuoteTypeOK, Paid, [Next]_vars PROVE Paid'
  OBVIOUS
<1>1. CASE Start \/ Gate \/ Form \/ ReadRoute
  BY <1>1 DEF Start, Gate, Form, ReadRoute, Paid
<1>2. ASSUME NEW g, Fails(g) \/ NoTime PROVE Paid'
  BY <1>2 DEF Fails, NoTime, Paid
<1>3. CASE EstimateBundle
  <2>1. CASE FeePass = Refused
    BY <1>3, <2>1 DEF EstimateBundle, Paid
  <2>2. CASE FeePass # Refused
    <3>1. \/ pc' = "refused"
          \/ ceiling' = fee' * gas' /\ pc' \in {"refused", "balance", "pin"}
      BY <1>3, <2>2 DEF EstimateBundle
    <3> QED BY <3>1 DEF Paid
  <2> QED BY <2>1, <2>2
<1>4. CASE Pin
  <2>1. \/ pc' \in {"refused", "reprice"}
        \/ pc = "pin" /\ pc' = "balance" /\ fee' = fee /\ gas' = gas /\ ceiling' = ceiling
    BY <1>4 DEF Pin
  <2> QED BY <2>1 DEF Paid
<1>5. CASE Reprice
  <2> DEFINE g == Slice(Total, elapsed, FeeFloor(rt, req.calls))
  <2>1. \/ NoTime \/ Fails(g)
        \/ ceiling' = fee * gas /\ pc' = "balance" /\ fee' = fee /\ gas' = gas
    BY <1>5 DEF Reprice, Repriced
  <2> HIDE DEF g
  <2> QED BY <1>2, <2>1 DEF Paid
<1>6. CASE ReadBalance
  <2>1. \/ NoTime \/ Fails(ReadGrant) \/ pc' = "refused"
        \/ /\ pc = "balance" /\ pc' = "nonce" /\ req.value + ceiling <= balance'
           /\ UNCHANGED <<req, fee, gas, ceiling>>
    BY <1>6 DEF ReadBalance, Affordable, world, priced
  <2> QED BY <1>2, <2>1 DEF Paid
<1>7. CASE ReadNonce
  <2>1. \/ NoTime \/ Fails(ReadGrant)
        \/ /\ pc = "nonce" /\ pc' \in {"approve", "quoted"}
           /\ UNCHANGED <<req, fee, gas, ceiling, balance>>
    BY <1>7 DEF ReadNonce, Quoted, world, priced
  <2> QED BY <1>2, <2>1 DEF Paid
<1>8. CASE Approve
  <2> DEFINE g == Slice(Total, elapsed, InitBudget)
  <2>1. \/ NoTime \/ Fails(g)
        \/ pc = "approve" /\ pc' = "asked" /\ UNCHANGED <<req, fee, gas, ceiling, balance>>
    BY <1>8 DEF Approve, world, priced, read
  <2> HIDE DEF g
  <2> QED BY <1>2, <2>1 DEF Paid
<1>9. CASE Done \/ UNCHANGED vars
  BY <1>9 DEF Done, vars, world, priced, read, Paid
<1> QED
  BY <1>1, <1>3, <1>4, <1>5, <1>6, <1>7, <1>8, <1>9 DEF Next

\* What goes out is paid for at the fees it goes out with, raised or not, whatever
\* fee_module found (quote, reprice, affordable).
THEOREM NothingUnpaid == Spec => []PaidInFull
<1>1. Init => Paid
  BY DEF Init, Paid
<1>2. QuoteTypeOK /\ Paid => PaidInFull
  BY DEF Paid, PaidInFull, Served
<1> QED
  BY <1>1, <1>2, AllowanceHolds, NextPaid, PTL DEF Spec

-----------------------------------------------------------------------------
(* A replacement outbids                                                   *)

\* No tip is above its fee once both are found, and a pinned bundle past its floor
\* outbids what it found there.
Outbidding ==
    /\ pc \in {"pin", "reprice", "balance", "nonce", "approve", "quoted", "asked"} => tip <= fee
    /\ pc \in {"reprice", "balance", "nonce", "approve", "quoted", "asked"} /\ req.pin # NoPin =>
          /\ ~Mined(seen, req.chain, req.pin)
          /\ \A r \in Pending(seen, req.chain, req.pin) : Outbids(fee, r.fee) /\ Outbids(tip, r.tip)

LEMMA NextOutbidding == QuoteTypeOK /\ Outbidding /\ [Next]_vars => Outbidding'
<1> SUFFICES ASSUME QuoteTypeOK, Outbidding, [Next]_vars PROVE Outbidding'
  OBVIOUS
<1>1. CASE Start \/ Gate \/ Form \/ ReadRoute
  BY <1>1 DEF Start, Gate, Form, ReadRoute, Outbidding
<1>2. ASSUME pc' \in {"refused", "no time"} PROVE Outbidding'
  BY <1>2 DEF Outbidding
<1>3. ASSUME pc \in {"reprice", "balance", "nonce", "approve"},
             UNCHANGED <<req, seen, fee, tip>>
      PROVE  Outbidding'
  BY <1>3 DEF Outbidding
<1>4. CASE EstimateBundle
  <2>1. CASE FeePass = Refused
    BY <1>2, <1>4, <2>1 DEF EstimateBundle
  <2>2. CASE FeePass # Refused
    <3>1. \/ pc' = "refused"
          \/ /\ fee' \in Prices /\ tip' \in Prices /\ ~(tip' > fee') /\ req' = req
             /\ pc' = IF req.pin = NoPin THEN "balance" ELSE "pin"
      BY <1>4, <2>2 DEF EstimateBundle, world
    <3>2. fee' \in Prices /\ tip' \in Prices => fee' \in Nat /\ tip' \in Nat
      BY QuoteAssumption
    <3>3. CASE pc' # "refused"
      <4>1. tip' <= fee'
        BY <3>1, <3>2, <3>3
      <4>2. (pc' = "balance" /\ req.pin = NoPin) \/ pc' = "pin"
        BY <3>1, <3>3
      <4> QED BY <3>1, <3>3, <4>1, <4>2 DEF Outbidding
    <3> QED BY <1>2, <3>3
  <2> QED BY <2>1, <2>2
<1>5. CASE Pin
  <2>0. pc = "pin" /\ tip <= fee /\ req' = req
    BY <1>5 DEF Pin, Outbidding
  <2>1. CASE pc' = "refused"
    BY <1>2, <2>1
  <2>2. CASE /\ ~Mined(seen', req.chain, req.pin) /\ FloorOf(seen').none
             /\ pc' = "balance" /\ UNCHANGED <<fee, tip>>
    <3>1. Pending(seen', req.chain, req.pin) = {}
      BY <2>2, NoFloorMeans DEF FloorOf
    <3> QED BY <2>0, <2>2, <3>1 DEF Outbidding
  <2>3. CASE /\ seen' \in Histories \cup {{}}
             /\ ~Mined(seen', req.chain, req.pin) /\ ~FloorOf(seen').none
             /\ ~RaiseRefused(fee, tip, OwnFee, OwnTip, FloorOf(seen'))
             /\ tip' = RaisedTip(tip, OwnTip, FloorOf(seen'))
             /\ fee' = RaisedFee(fee, tip, OwnFee, OwnTip, FloorOf(seen'))
             /\ pc' \in {"reprice", "balance"}
    <3>1. /\ tip' <= fee'
          /\ \A r \in Pending(seen', req.chain, req.pin) :
                Outbids(fee', r.fee) /\ Outbids(tip', r.tip)
      BY <2>3, PinRaises
    <3> QED BY <2>0, <2>3, <3>1 DEF Outbidding
  <2> QED BY <1>5, <2>1, <2>2, <2>3 DEF Pin
<1>6. CASE Reprice
  <2>1. \/ pc' \in {"refused", "no time"}
        \/ pc = "reprice" /\ UNCHANGED <<req, seen, fee, tip>>
    BY <1>6 DEF Reprice, NoTime, Fails, world
  <2> QED BY <1>2, <1>3, <2>1
<1>7. CASE ReadBalance
  <2>1. \/ pc' \in {"refused", "no time"}
        \/ pc = "balance" /\ UNCHANGED <<req, seen, fee, tip>>
    BY <1>7 DEF ReadBalance, NoTime, Fails, world, priced
  <2> QED BY <1>2, <1>3, <2>1
<1>8. CASE ReadNonce
  <2>1. \/ pc' \in {"refused", "no time"}
        \/ pc = "nonce" /\ UNCHANGED <<req, seen, fee, tip>>
    BY <1>8 DEF ReadNonce, NoTime, Fails, world, priced
  <2> QED BY <1>2, <1>3, <2>1
<1>9. CASE Approve
  <2>1. \/ pc' \in {"refused", "no time"}
        \/ pc = "approve" /\ UNCHANGED <<req, seen, fee, tip>>
    BY <1>9 DEF Approve, NoTime, Fails, world, priced
  <2> QED BY <1>2, <1>3, <2>1
<1>10. CASE Done \/ UNCHANGED vars
  BY <1>10 DEF Done, vars, world, priced, Outbidding
<1> QED
  BY <1>1, <1>4, <1>5, <1>6, <1>7, <1>8, <1>9, <1>10 DEF Next

\* Over any rows, prices and bump, dear enough to saturate ones too: whatever goes out
\* at a pinned number clears a node's rule against every row the quote found unsettled
\* there, on the fee and on the tip, or offers the greatest word there is; and the
\* quote found none mined (quote, replace.rs).  It is of what the quote's one look at
\* the history found, which a locked wallet or an unread file makes nothing, and not
\* of what the rows become after it.
THEOREM ReplacementsOutbid == Spec => []OutbidsWhatItFound
<1>1. Init => Outbidding
  BY DEF Init, Outbidding
<1>2. QuoteTypeOK /\ Outbidding => OutbidsWhatItFound
  BY DEF Outbidding, OutbidsWhatItFound, Served, Pending, Mined, At
<1> QED
  BY <1>1, <1>2, AllowanceHolds, NextOutbidding, PTL DEF Spec

-----------------------------------------------------------------------------
(* A quote is not cut off                                                  *)

\* What a fee pass begun with time enough has left at each step behind it, unless a
\* price was raised; and where the question does not arise yet.
TimeKept ==
    /\ pc \in {"start", "gate", "form", "route", "fee"} => ~ample
    /\ pc = "pin" => ~raised
    /\ pc = "reprice" => raised
    /\ ample /\ ~raised =>
          /\ pc \in {"pin", "balance"} => Have >= AfterOn(AfterFees, rt)
          /\ pc = "nonce" => Have >= AfterOn(AfterFees, rt) - RpcSlice(rt)
          /\ pc = "approve" => req.send /\ Have >= InitBudget
          /\ pc # "no time"

LEMMA Remaining ==
    ASSUME NEW t \in Nat, NEW e \in Nat, NEW f \in Nat, NEW g \in Nat, f <= t, f <= e + g
    PROVE  t - f \in Nat /\ t - f >= (t - e) - g
OBVIOUS

\* Time left goes down by no more than the grant.
LEMMA Later ==
    ASSUME QuoteTypeOK, NEW g \in Nat, elapsed + g <= Total, Spend(g), req' = req
    PROVE  Have' \in Nat /\ Have' >= Have - g
<1>1. Total' = Total
  BY DEF Total
<1>2. elapsed' \in elapsed..(elapsed + g) /\ elapsed' \in 0..Total
  BY Spent
<1>3. Total \in Nat /\ elapsed \in Nat /\ Have = Total - elapsed
  BY Allowance
<1>4. Have' = IF elapsed' <= Total' THEN Total' - elapsed' ELSE 0
  BY DEF Have, Left
<1>5. elapsed' \in Nat /\ elapsed' <= Total /\ elapsed' <= elapsed + g
  BY <1>2, <1>3
<1>6. Have' = Total - elapsed'
  BY <1>1, <1>4, <1>5
<1>7. Total - elapsed' \in Nat /\ Total - elapsed' >= (Total - elapsed) - g
  BY <1>3, <1>5, Remaining
<1> QED
  BY <1>3, <1>6, <1>7

LEMMA NextTimeKept == QuoteTypeOK /\ TimeKept /\ [Next]_vars => TimeKept'
<1> SUFFICES ASSUME QuoteTypeOK, TimeKept, [Next]_vars PROVE TimeKept'
  OBVIOUS
<1>0. /\ req \in Request /\ req.calls \in Nat /\ rt \in Nat /\ Have \in Nat
      /\ RpcSlice(rt) \in Nat /\ RpcSlice(rt) >= rt /\ RpcSlice(rt) >= MinSlice
      /\ AfterOn(AfterFees, rt) \in Nat
      /\ req.send => AfterOn(AfterFees, rt) = 2 * RpcSlice(rt) + InitBudget
      /\ ~req.send => AfterOn(AfterFees, rt) = 2 * RpcSlice(rt)
      /\ MinSlice \in Nat /\ InitBudget \in Nat /\ InitBudget >= MinSlice /\ MinSlice > 0
  BY Allowance, RpcSize, AfterSizes, BudgetAssumption DEF Request
<1>1. CASE Start \/ Gate \/ Form \/ ReadRoute
  <2>1. /\ pc \in {"start", "gate", "form", "route"} /\ ample' = ample
        /\ pc' \in {"refused", "gate", "form", "blocked", "route", "fee"}
    BY <1>1 DEF Start, Gate, Form, ReadRoute
  <2>2. ~ample
    BY <2>1 DEF TimeKept
  <2> QED BY <2>1, <2>2 DEF TimeKept
<1>2. ASSUME pc' = "refused" PROVE TimeKept'
  BY <1>2 DEF TimeKept
<1>3. ASSUME NoTime, ~(ample /\ ~raised) PROVE TimeKept'
  BY <1>3 DEF NoTime, TimeKept, priced
<1>4. CASE EstimateBundle
  <2>1. ample' = (Have >= FeeFloor(rt, req.calls) + AfterOn(AfterFees, rt))
    BY <1>4 DEF EstimateBundle
  <2>2. FeeFloor(rt, req.calls) \in Nat /\ FeeFloor(rt, req.calls) >= RpcSlice(rt)
    BY <1>0, FeeSizes
  <2>3. CASE FeePass = Refused
    <3>1. ~ample'
      <4>1. Have < RpcSlice(rt)
        BY <2>3, Grants
      <4>2. ~(Have >= FeeFloor(rt, req.calls) + AfterOn(AfterFees, rt))
        BY <1>0, <2>2, <4>1
      <4> QED BY <2>1, <4>2
    <3>2. pc' = "no time"
      BY <1>4, <2>3 DEF EstimateBundle
    <3> QED BY <3>1, <3>2 DEF TimeKept
  <2>4. CASE FeePass # Refused /\ pc' # "refused"
    <3>1. Spend(FeePass) /\ req' = req /\ rt' = rt /\ raised' = FALSE /\ pc' \in {"pin", "balance"}
      BY <1>4, <2>4 DEF EstimateBundle, world
    <3>2. Have' \in Nat /\ Have' >= Have - FeePass
      BY <3>1, Grants, Later
    <3>3. ASSUME ample' PROVE Have' >= AfterOn(AfterFees, rt)
      <4>1. Have >= FeeFloor(rt, req.calls) + AfterOn(AfterFees, rt)
        BY <2>1, <3>3
      <4>2. FeeCap(Have, req.calls, AfterOn(AfterFees, rt), rt) + AfterOn(AfterFees, rt) <= Have
        BY <1>0, <4>1, FeeCapLeaves
      <4>3. FeeCap(Have, req.calls, AfterOn(AfterFees, rt), rt) \in Nat
        BY <1>0, FeeSizes
      <4>4. FeePass \in Nat /\ FeePass <= FeeCap(Have, req.calls, AfterOn(AfterFees, rt), rt)
        BY Grants
      <4> HIDE DEF Have
      <4> QED BY <1>0, <3>2, <4>2, <4>3, <4>4
    <3>4. AfterOn(AfterFees, rt)' = AfterOn(AfterFees, rt)
      BY <3>1 DEF AfterOn, AfterFees
    <3> QED BY <3>1, <3>3, <3>4 DEF TimeKept
  <2> QED BY <1>2, <2>3, <2>4
<1>5. CASE Pin
  <2>1. pc = "pin" /\ ~raised /\ req' = req /\ elapsed' = elapsed /\ rt' = rt /\ ample' = ample
    BY <1>5 DEF Pin, TimeKept, world
  <2>2. pc' = "refused" \/ (pc' = "reprice" /\ raised') \/ (pc' = "balance" /\ ~raised')
    BY <1>5, <2>1 DEF Pin
  <2>3. ample => Have >= AfterOn(AfterFees, rt)
    BY <2>1 DEF TimeKept
  <2>4. Have' = Have /\ AfterOn(AfterFees, rt)' = AfterOn(AfterFees, rt)
    BY <2>1 DEF Have, Total, AfterOn, AfterFees
  <2> QED BY <2>1, <2>2, <2>3, <2>4 DEF TimeKept
<1>6. CASE Reprice
  <2>1. pc = "reprice" /\ raised
    BY <1>6 DEF Reprice, TimeKept
  <2>2. \/ NoTime \/ pc' = "refused"
        \/ pc' = "balance" /\ raised' = raised
    BY <1>6 DEF Reprice, Fails
  <2> QED BY <1>2, <1>3, <2>1, <2>2 DEF TimeKept
<1>7. CASE ReadBalance
  <2>1. pc = "balance"
    BY <1>7 DEF ReadBalance
  <2>2. ample /\ ~raised => Have >= AfterOn(AfterFees, rt)
    BY <2>1 DEF TimeKept
  <2>3. CASE ReadGrant = Refused
    <3>1. ~(ample /\ ~raised)
      BY <1>0, <2>2, <2>3, Grants
    <3> QED BY <1>3, <1>7, <2>3, <3>1 DEF ReadBalance
  <2>4. CASE ReadGrant # Refused /\ pc' # "refused"
    <3>1. /\ Spend(ReadGrant) /\ pc' = "nonce"
          /\ req' = req /\ rt' = rt /\ raised' = raised /\ ample' = ample
      BY <1>7, <2>4 DEF ReadBalance, Fails, world, priced
    <3>2. Have' \in Nat /\ Have' >= Have - ReadGrant
      BY <3>1, Grants, Later
    <3>3. AfterOn(AfterFees, rt)' = AfterOn(AfterFees, rt) /\ RpcSlice(rt)' = RpcSlice(rt)
      BY <3>1 DEF AfterOn, AfterFees, RpcSlice
    <3>4. ReadGrant \in Nat /\ ReadGrant <= RpcSlice(rt)
      BY Grants
    <3>5. ample /\ ~raised => Have' >= AfterOn(AfterFees, rt) - RpcSlice(rt)
      BY <1>0, <2>2, <3>2, <3>4
    <3> QED BY <3>1, <3>3, <3>5 DEF TimeKept
  <2> QED BY <1>2, <2>3, <2>4
<1>8. CASE ReadNonce
  <2>1. pc = "nonce"
    BY <1>8 DEF ReadNonce
  <2>2. ample /\ ~raised => Have >= AfterOn(AfterFees, rt) - RpcSlice(rt)
    BY <2>1 DEF TimeKept
  <2>3. CASE req.pin = NoPin /\ ReadGrant = Refused
    <3>1. ~(ample /\ ~raised)
      BY <1>0, <2>2, <2>3, Grants
    <3> QED BY <1>3, <1>8, <2>3, <3>1 DEF ReadNonce
  <2>4. CASE ~(req.pin = NoPin /\ ReadGrant = Refused) /\ pc' # "refused"
    <3>1. /\ Spend(ReadGrant) \/ elapsed' = elapsed
          /\ pc' = Quoted
          /\ req' = req /\ rt' = rt /\ raised' = raised /\ ample' = ample
      BY <1>8, <2>4 DEF ReadNonce, Fails, world, priced
    <3>2. Have' \in Nat /\ Have' >= Have - ReadGrant
      <4>1. CASE Spend(ReadGrant)
        BY <3>1, <4>1, Grants, Later
      <4>2. CASE elapsed' = elapsed
        <5>1. Have' = Have
          BY <3>1, <4>2 DEF Have, Total
        <5> QED BY <1>0, <5>1, Grants
      <4> QED BY <3>1, <4>1, <4>2
    <3>3. ReadGrant \in Nat /\ ReadGrant <= RpcSlice(rt)
      BY Grants
    <3>4. ample /\ ~raised /\ req.send => Have' >= InitBudget
      BY <1>0, <2>2, <3>2, <3>3
    <3> QED BY <3>1, <3>4 DEF TimeKept, Quoted
  <2> QED BY <1>2, <2>3, <2>4
<1>9. CASE Approve
  <2>1. pc = "approve"
    BY <1>9 DEF Approve
  <2> DEFINE g == Slice(Total, elapsed, InitBudget)
  <2>2. CASE g = Refused
    <3>1. ~(ample /\ ~raised)
      <4>1. Total \in Nat /\ elapsed \in Nat /\ Left(Total, elapsed) = Have
        BY Allowance DEF Have
      <4>2. ~(Have >= MinSlice)
        BY <1>0, <2>2, <4>1, SliceGrants
      <4>3. ample /\ ~raised => Have >= InitBudget
        BY <2>1 DEF TimeKept
      <4> QED BY <1>0, <4>2, <4>3
    <3> QED BY <1>3, <1>9, <2>2, <3>1 DEF Approve
  <2>3. CASE g # Refused
    <3>1. pc' \in {"refused", "asked"}
      BY <1>9, <2>3 DEF Approve, Fails
    <3> QED BY <3>1 DEF TimeKept
  <2> QED BY <2>2, <2>3
<1>10. CASE Done \/ UNCHANGED vars
  <2>1. UNCHANGED <<pc, req, elapsed, rt, ample, raised>>
    BY <1>10 DEF Done, vars, world, priced
  <2>2. Have' = Have /\ AfterOn(AfterFees, rt)' = AfterOn(AfterFees, rt) /\ RpcSlice(rt)' = RpcSlice(rt)
    BY <2>1 DEF Have, Total, AfterOn, AfterFees, RpcSlice
  <2> QED BY <2>1, <2>2 DEF TimeKept
<1> QED
  BY <1>1, <1>4, <1>5, <1>6, <1>7, <1>8, <1>9, <1>10 DEF Next

\* However the allowance, the margins and a chain's round trip are set: a request
\* whose fee pass began with time enough is never cut off behind it, unless its price
\* was raised (fee_cap, After, Route::take).
THEOREM NeverCutOff == Spec => []TimeKeptForTheRest
<1>1. Init => TimeKept
  BY DEF Init, TimeKept
<1>2. TimeKept => TimeKeptForTheRest
  BY DEF TimeKept, TimeKeptForTheRest
<1> QED
  BY <1>1, <1>2, AllowanceHolds, NextTimeKept, PTL DEF Spec
-----------------------------------------------------------------------------
(* Powers of the radix                                                     *)

\* Of any numbers, one is the least.
LEMMA LeastIs ==
    ASSUME NEW S \in SUBSET Nat, S # {}
    PROVE  \E n \in S : \A m \in S : n <= m
<1>1. PICK top \in S : TRUE
  OBVIOUS
<1> DEFINE T == {n \in S : n <= top}
           below == {0..n : n \in T}
           less == StrictSubsetOrdering(0..top)
<1>2. top \in Nat /\ top \in T
  OBVIOUS
<1>3. below \subseteq FiniteSubsetsOf(0..top) /\ below # {}
  <2>0. IsFiniteSet(0..top)
    BY <1>2, FS_Interval
  <2>1. FiniteSubsetsOf(0..top) = SUBSET (0..top)
    BY <2>0, FS_FiniteSubsetsOfFinite
  <2>2. \A n \in T : 0..n \subseteq 0..top
    BY <1>2
  <2>3. below \subseteq SUBSET (0..top)
    BY <2>2
  <2>4. below # {}
    BY <1>2
  <2> QED BY <2>1, <2>3, <2>4
<1>4. PICK B \in below : \A A \in below : ~(<<A, B>> \in less)
  <2>1. IsFiniteSet(0..top)
    BY <1>2, FS_Interval
  <2> HIDE DEF below
  <2> QED BY <1>3, <2>1, WFMin, FS_StrictSubsetOrderingWellFounded
<1>5. PICK n \in T : B = 0..n
  OBVIOUS
<1>6. ASSUME NEW m \in S PROVE n <= m
  <2> SUFFICES ASSUME m < n PROVE FALSE
    OBVIOUS
  <2>1. m \in Nat /\ n \in Nat /\ m \in T
    BY <1>2
  <2>2. 0..m \subseteq 0..n /\ n \in 0..n /\ n \notin 0..m /\ 0..m \subseteq 0..top /\ 0..n \subseteq 0..top
    BY <1>2, <2>1
  <2>3. <<0..m, 0..n>> \in less
    BY <2>2 DEF StrictSubsetOrdering
  <2> HIDE DEF less
  <2> QED BY <1>4, <1>5, <2>1, <2>3
<1> QED
  BY <1>6

\* The powers up to the n-th, written down.
Step(f, k) == IF k = 0 THEN 1 ELSE Radix * f[k - 1]
Table(f, n) == f \in [0..n -> Nat] /\ \A k \in 0..n : f[k] = Step(f, k)

LEMMA TablesAre == ASSUME NEW n \in Nat PROVE \E f : Table(f, n)
<1> DEFINE none == {m \in Nat : ~\E f : Table(f, m)}
<1> SUFFICES ASSUME none # {} PROVE FALSE
  OBVIOUS
<1>1. PICK m \in none : \A k \in none : m <= k
  BY LeastIs
<1>2. Radix \in Nat /\ m \in Nat
  BY UnitsAssumption
<1>3. CASE m = 0
  <2> DEFINE f == [k \in 0..m |-> 1]
  <2>1. Table(f, m)
    BY <1>3 DEF Table, Step
  <2> QED BY <1>1, <2>1
<1>4. CASE m # 0
  <2>1. m - 1 \in Nat /\ m - 1 \notin none
    BY <1>1, <1>2, <1>4
  <2>2. PICK g : Table(g, m - 1)
    BY <2>1
  <2> DEFINE f == [k \in 0..m |-> IF k = 0 THEN 1 ELSE Radix * g[k - 1]]
  <2>3. \A k \in 0..m : k # 0 => k - 1 \in 0..(m - 1) /\ g[k - 1] \in Nat
    BY <1>2, <1>4, <2>2 DEF Table
  <2>4. f \in [0..m -> Nat]
    BY <1>2, <2>3
  <2>5. ASSUME NEW k \in 0..(m - 1) PROVE f[k] = g[k]
    <3>1. k \in 0..m /\ g[k] = Step(g, k)
      BY <1>2, <2>2 DEF Table
    <3> QED BY <3>1 DEF Step
  <2>6. ASSUME NEW k \in 0..m PROVE f[k] = Step(f, k)
    <3>1. CASE k = 0
      BY <3>1 DEF Step
    <3>2. CASE k # 0
      <4>1. k - 1 \in 0..(m - 1) /\ f[k] = Radix * g[k - 1]
        BY <2>3, <3>2
      <4>2. f[k - 1] = g[k - 1]
        BY <2>5, <4>1
      <4> HIDE DEF f
      <4> QED BY <3>2, <4>1, <4>2 DEF Step
    <3> QED BY <3>1, <3>2
  <2> HIDE DEF f
  <2>7. Table(f, m)
    BY <2>4, <2>6 DEF Table
  <2> QED BY <1>1, <2>7
<1> QED
  BY <1>3, <1>4

LEMMA TablesAgree ==
    ASSUME NEW f, NEW g, NEW m \in Nat, NEW n \in Nat, Table(f, m), Table(g, n),
           NEW k \in Nat, k <= m, k <= n
    PROVE  f[k] = g[k]
<1> DEFINE apart == {j \in Nat : j <= m /\ j <= n /\ f[j] # g[j]}
<1> SUFFICES ASSUME apart # {} PROVE FALSE
  OBVIOUS
<1>1. PICK j \in apart : \A i \in apart : j <= i
  BY LeastIs
<1>2. j \in Nat /\ j \in 0..m /\ j \in 0..n
  OBVIOUS
<1>3. f[j] = Step(f, j) /\ g[j] = Step(g, j)
  BY <1>2 DEF Table
<1>4. CASE j = 0
  BY <1>1, <1>3, <1>4 DEF Step
<1>5. CASE j # 0
  <2>1. j - 1 \in Nat /\ ~(j <= j - 1) /\ j - 1 <= m /\ j - 1 <= n
    BY <1>2, <1>5
  <2>2. f[j - 1] = g[j - 1]
    BY <1>1, <2>1
  <2> QED BY <1>1, <1>3, <1>5, <2>2 DEF Step
<1> QED
  BY <1>4, <1>5

\* Pow is what its definition says: the tables make one function.
LEMMA PowIs ==
    /\ Pow \in [Nat -> Nat]
    /\ Pow[0] = 1
    /\ \A n \in Nat : Pow[n + 1] = Radix * Pow[n]
<1> DEFINE T(n) == CHOOSE f : Table(f, n)
           F == [n \in Nat |-> T(n)[n]]
<1>1. \A n \in Nat : Table(T(n), n)
  BY TablesAre
<1> HIDE DEF T
<1>2. ASSUME NEW n \in Nat PROVE F[n] \in Nat /\ F[n] = IF n = 0 THEN 1 ELSE Radix * F[n - 1]
  <2>1. Table(T(n), n) /\ n \in 0..n
    BY <1>1
  <2>2. T(n)[n] \in Nat /\ T(n)[n] = Step(T(n), n)
    BY <2>1 DEF Table
  <2>3. CASE n = 0
    BY <2>2, <2>3 DEF Step
  <2>4. CASE n # 0
    <3>1. n - 1 \in Nat /\ n - 1 <= n
      BY <2>4
    <3>2. T(n)[n - 1] = T(n - 1)[n - 1]
      BY <1>1, <2>1, <3>1, TablesAgree
    <3> QED BY <2>2, <2>4, <3>1, <3>2 DEF Step
  <2> QED BY <2>3, <2>4
<1>3. F = [n \in Nat |-> IF n = 0 THEN 1 ELSE Radix * F[n - 1]]
  BY <1>2
<1> HIDE DEF F
<1>4. Pow = [n \in Nat |-> IF n = 0 THEN 1 ELSE Radix * Pow[n - 1]]
  BY <1>3 DEF Pow
<1>5. \A n \in Nat : n \in DOMAIN Pow /\ Pow[n] = IF n = 0 THEN 1 ELSE Radix * Pow[n - 1]
  BY <1>4
<1>6. Pow[0] = 1
  BY <1>5
<1>7. \A n \in Nat : Pow[n + 1] = Radix * Pow[n]
  <2> SUFFICES ASSUME NEW n \in Nat PROVE Pow[n + 1] = Radix * Pow[n]
    OBVIOUS
  <2>1. n + 1 \in Nat /\ n + 1 # 0 /\ (n + 1) - 1 = n
    OBVIOUS
  <2> QED BY <1>5, <2>1
<1>8. Pow \in [Nat -> Nat]
  <2>1. Radix \in Nat
    BY UnitsAssumption
  <2> DEFINE odd == {n \in Nat : Pow[n] \notin Nat}
  <2>2. odd = {}
    <3> SUFFICES ASSUME odd # {} PROVE FALSE
      OBVIOUS
    <3>1. PICK n \in odd : \A m \in odd : n <= m
      BY LeastIs
    <3>2. n # 0
      BY <1>6, <3>1
    <3>3. n - 1 \in Nat /\ ~(n <= n - 1)
      BY <3>1, <3>2
    <3>4. Pow[n - 1] \in Nat
      BY <3>1, <3>3
    <3>5. Pow[n] = Radix * Pow[n - 1]
      BY <1>5, <3>2
    <3> QED BY <2>1, <3>1, <3>4, <3>5
  <2> QED BY <1>4, <2>2
<1> QED
  BY <1>6, <1>7, <1>8

LEMMA PowAdds ==
    ASSUME NEW a \in Nat, NEW b \in Nat
    PROVE  Pow[a + b] = Pow[a] * Pow[b] /\ Pow[a] \in Nat /\ Pow[a] > 0
<1>1. Radix \in Nat /\ Radix > 0
  BY UnitsAssumption
<1>2. \A n \in Nat : Pow[n] \in Nat
  BY PowIs
<1>3. \A n \in Nat : Pow[n] > 0
  <2> DEFINE naught == {n \in Nat : ~(Pow[n] > 0)}
  <2> SUFFICES ASSUME naught # {} PROVE FALSE
    OBVIOUS
  <2>1. PICK n \in naught : \A m \in naught : n <= m
    BY LeastIs
  <2>2. n # 0
    BY <2>1, PowIs
  <2>3. n - 1 \in Nat /\ ~(n <= n - 1) /\ (n - 1) + 1 = n
    BY <2>1, <2>2
  <2>4. Pow[n - 1] > 0
    BY <2>1, <2>3
  <2>5. Pow[n] = Radix * Pow[n - 1]
    BY <2>3, PowIs
  <2>6. Pow[n - 1] \in Nat
    BY <1>2, <2>3
  <2>7. Radix * Pow[n - 1] > 0
    BY <1>1, <2>4, <2>6
  <2> QED BY <2>1, <2>5, <2>7
<1>4. Pow[a + b] = Pow[a] * Pow[b]
  <2> DEFINE odd == {n \in Nat : Pow[a + n] # Pow[a] * Pow[n]}
  <2> SUFFICES ASSUME odd # {} PROVE FALSE
    OBVIOUS
  <2>1. PICK n \in odd : \A m \in odd : n <= m
    BY LeastIs
  <2>2. n # 0
    BY <1>2, <2>1, PowIs
  <2>3. n - 1 \in Nat /\ ~(n <= n - 1) /\ (n - 1) + 1 = n
    BY <2>1, <2>2
  <2> DEFINE m == n - 1
  <2>4. Pow[a + m] = Pow[a] * Pow[m]
    BY <2>1, <2>3
  <2>5. m \in Nat /\ n = m + 1 /\ a + n = (a + m) + 1 /\ a + m \in Nat
    BY <2>3
  <2> HIDE DEF m
  <2>6. Pow[n] = Radix * Pow[m] /\ Pow[a + n] = Radix * Pow[a + m]
    BY <2>5, PowIs
  <2>7. Pow[a] \in Nat /\ Pow[m] \in Nat
    BY <1>2, <2>5
  <2>8. Radix * (Pow[a] * Pow[m]) = Pow[a] * (Radix * Pow[m])
    BY <1>1, <2>7
  <2> QED BY <2>1, <2>4, <2>6, <2>8
<1> QED
  BY <1>2, <1>3, <1>4

-----------------------------------------------------------------------------
(* What an amount is read back as                                          *)

LEMMA Quotient ==
    ASSUME NEW m \in Nat, NEW d \in Nat, d > 0
    PROVE  /\ m \div d \in Nat /\ m % d \in Nat /\ m % d < d
           /\ m = d * (m \div d) + (m % d)
<1>1. m \div d \in Nat /\ m % d \in Nat /\ m % d < d
  OBVIOUS
<1> QED
  BY <1>1, Division

\* A fraction without its trailing zeros says what it said, in no more places.
LEMMA TrimmedIs ==
    ASSUME NEW whole \in Nat, NEW part \in Nat, NEW places \in Nat
    PROVE  LET t == Trimmed(whole, part, places) IN
           /\ t.whole = whole /\ t.places \in 0..places /\ t.part \in Nat
           /\ part = t.part * Pow[places - t.places]
<1> DEFINE fits == {p \in 0..places : part % Pow[places - p] = 0}
           least == CHOOSE p \in fits : \A q \in fits : p <= q
           scale == Pow[places - least]
<1>1. places \in fits
  <2>1. places - places = 0 /\ places \in 0..places
    OBVIOUS
  <2>2. part % 1 = 0
    OBVIOUS
  <2> QED BY <2>1, <2>2, PowIs
<1>2. least \in fits
  <2>1. fits \in SUBSET Nat /\ fits # {}
    BY <1>1
  <2> HIDE DEF fits
  <2> QED BY <2>1, LeastIs
<1>3. least \in 0..places /\ part % scale = 0
  BY <1>2
<1>4. Trimmed(whole, part, places) = [whole |-> whole, part |-> part \div scale, places |-> least]
  BY DEF Trimmed
<1> HIDE DEF fits, least
<1>5. places - least \in Nat
  BY <1>3
<1>6. scale \in Nat /\ scale > 0
  BY <1>5, PowAdds
<1> HIDE DEF scale
<1>7. part \div scale \in Nat /\ part = scale * (part \div scale) + (part % scale)
  BY <1>6, Quotient
<1>8. part = (part \div scale) * scale
  BY <1>3, <1>6, <1>7
<1> QED
  BY <1>3, <1>4, <1>7, <1>8 DEF scale

\* ... and is read as that many base units.
LEMMA TrimmedReads ==
    ASSUME NEW whole \in Nat, NEW part \in Nat, NEW places \in Nat, NEW decimals \in Nat,
           places <= decimals,
           (whole * Pow[places] + part) * Pow[decimals - places] <= MaxAmount
    PROVE  ParseUnits(Trimmed(whole, part, places), decimals)
             = (whole * Pow[places] + part) * Pow[decimals - places]
<1> DEFINE t == Trimmed(whole, part, places)
           k == t.places
           A == Pow[k]
           B == Pow[places - k]
           C == Pow[decimals - places]
<1>1. /\ t.whole = whole /\ k \in 0..places /\ t.part \in Nat
      /\ part = t.part * B
  BY TrimmedIs
<1> HIDE DEF t
<1>2. k \in Nat /\ places - k \in Nat /\ decimals - places \in Nat /\ decimals - k \in Nat
  BY <1>1
<1>3. A \in Nat /\ B \in Nat /\ C \in Nat
  BY <1>2, PowAdds
<1>4. Pow[places] = A * B
  <2>1. places = k + (places - k)
    BY <1>2
  <2> QED BY <1>2, <2>1, PowAdds
<1>5. Pow[decimals - k] = B * C
  <2>1. decimals - k = (places - k) + (decimals - places)
    BY <1>2
  <2> QED BY <1>2, <2>1, PowAdds
<1> HIDE DEF k, A, B, C
<1>6. (whole * A + t.part) * (B * C) = (whole * (A * B) + t.part * B) * C
  BY <1>1, <1>3
<1>7. (t.whole * Pow[t.places] + t.part) * Pow[decimals - t.places]
        = (whole * Pow[places] + part) * Pow[decimals - places]
  BY <1>1, <1>4, <1>5, <1>6 DEF k, A, B, C
<1>8. ~(t.places > decimals)
  BY <1>1, <1>2 DEF k
<1>9. ~((whole * Pow[places] + part) * Pow[decimals - places] > MaxAmount)
  <2>1. (whole * Pow[places] + part) * Pow[decimals - places] \in Nat /\ MaxAmount \in Nat
    BY <1>1, <1>3, <1>4, UnitsAssumption DEF C
  <2> QED BY <2>1
<1> QED
  BY <1>7, <1>8, <1>9 DEF ParseUnits, t

\* The exact form, read back, is the amount.
LEMMA ExactReads ==
    ASSUME NEW raw \in Nat, raw <= MaxAmount, NEW decimals \in Nat
    PROVE  ParseUnits(FormatExact(raw, decimals), decimals) = raw
<1> DEFINE P == Pow[decimals]
<1>1. P \in Nat /\ P > 0
  BY PowAdds
<1> HIDE DEF P
<1> DEFINE whole == raw \div P
           part == raw % P
<1>2. whole \in Nat /\ part \in Nat /\ raw = P * whole + part
  BY <1>1, Quotient
<1> HIDE DEF whole, part
<1>3. (whole * P + part) * 1 = raw
  BY <1>1, <1>2
<1>4. decimals - decimals = 0 /\ Pow[0] = 1 /\ decimals <= decimals
  BY PowIs
<1>5. (whole * Pow[decimals] + part) * Pow[decimals - decimals] = raw
  BY <1>3, <1>4 DEF P
<1>6. ParseUnits(Trimmed(whole, part, decimals), decimals) = raw
  BY <1>2, <1>4, <1>5, TrimmedReads
<1> QED
  BY <1>6 DEF FormatExact, P, whole, part

\* The short form, read back: the amount without what its last place cannot say.
LEMMA DisplayReads ==
    ASSUME NEW raw \in Nat, raw <= MaxAmount, NEW decimals \in Nat
    PROVE  LET step == Pow[decimals - KeptPlaces(decimals)]
               shown == FormatDisplay(raw, decimals)
               short == ParseUnits(shown, decimals)
           IN  IF shown = Dust THEN raw \in 1..step - 1
               ELSE short <= raw /\ raw - short < step /\ (raw > 0 => short > 0)
<1> DEFINE kept == KeptPlaces(decimals)
           P == Pow[decimals]
           K == Pow[kept]
           S == Pow[decimals - kept]
           shown == FormatDisplay(raw, decimals)
           short == ParseUnits(shown, decimals)
<1>1. kept \in Nat /\ kept <= decimals /\ decimals - kept \in Nat
  BY UnitsAssumption DEF KeptPlaces
<1>2. P = K * S
  <2>1. decimals = kept + (decimals - kept)
    BY <1>1
  <2> HIDE DEF kept
  <2> QED BY <1>1, <2>1, PowAdds
<1>3. P \in Nat /\ P > 0 /\ K \in Nat /\ S \in Nat /\ S > 0
  BY <1>1, PowAdds
<1> HIDE DEF kept, P, K, S
<1> DEFINE whole == raw \div P
           part == raw % P
           digits == part \div S
           lost == part % S
<1>4. whole \in Nat /\ part \in Nat /\ raw = P * whole + part
  BY <1>3, Quotient
<1> HIDE DEF whole, part
<1>5. digits \in Nat /\ lost \in Nat /\ lost < S /\ part = S * digits + lost
  BY <1>3, <1>4, Quotient
<1> HIDE DEF digits, lost
<1>6. shown = IF raw > 0 /\ raw < S THEN Dust ELSE Trimmed(whole, digits, kept)
  BY DEF FormatDisplay, kept, P, S, whole, part, digits
<1>7. CASE raw > 0 /\ raw < S
  <2>1. shown = Dust /\ raw \in 1..S - 1
    BY <1>3, <1>6, <1>7
  <2> QED BY <2>1 DEF kept, S
<1>8. CASE ~(raw > 0 /\ raw < S)
  <2>1. shown = Trimmed(whole, digits, kept)
    BY <1>6, <1>8
  <2>2. shown # Dust
    <3>1. shown.places \in 0..kept
      BY <1>1, <1>4, <1>5, <2>1, TrimmedIs
    <3> QED BY <1>1, <3>1 DEF Dust
  <2>3. (whole * K + digits) * S = whole * (K * S) + S * digits
    BY <1>3, <1>4, <1>5
  <2>4. (whole * K + digits) * S = raw - lost
    <3>1. whole * (K * S) = P * whole
      BY <1>2, <1>3, <1>4
    <3>2. P * whole \in Nat /\ S * digits \in Nat
      BY <1>3, <1>4, <1>5, Product
    <3> QED BY <1>4, <1>5, <2>3, <3>1, <3>2
  <2>5. lost <= raw
    <3>1. P * whole \in Nat /\ S * digits \in Nat
      BY <1>3, <1>4, <1>5, Product
    <3> QED BY <1>4, <1>5, <3>1
  <2>6. raw - lost <= MaxAmount
    BY <1>5, <2>5, UnitsAssumption
  <2>7. (whole * Pow[kept] + digits) * Pow[decimals - kept] <= MaxAmount
    BY <2>4, <2>6 DEF K, S
  <2>8. ParseUnits(Trimmed(whole, digits, kept), decimals)
          = (whole * Pow[kept] + digits) * Pow[decimals - kept]
    BY <1>1, <1>4, <1>5, <2>7, TrimmedReads
  <2>9. short = raw - lost
    BY <2>1, <2>4, <2>8 DEF K, S
  <2>10. raw - lost <= raw /\ raw - (raw - lost) < S /\ (raw > 0 => raw - lost > 0)
    BY <1>3, <1>5, <1>8, <2>5
  <2>11. short <= raw /\ raw - short < S /\ (raw > 0 => short > 0)
    BY <2>9, <2>10
  <2> HIDE DEF shown, short
  <2>12. IF shown = Dust THEN raw \in 1..S - 1
         ELSE short <= raw /\ raw - short < S /\ (raw > 0 => short > 0)
    BY <2>2, <2>11
  <2> QED BY <2>12 DEF kept, S, shown, short
<1> QED
  BY <1>7, <1>8

\* units.rs `decorate`, of any amount a word holds.
LEMMA DecoratedTrue ==
    ASSUME NEW raw \in Nat, raw <= MaxAmount
    PROVE  ShownTrue(Decorate(raw, Decimals))
<1>1. Decimals \in Nat
  BY QuoteAssumption
<1>2. ParseUnits(FormatExact(raw, Decimals), Decimals) = raw
  BY <1>1, ExactReads
<1>3. LET step == Pow[Decimals - KeptPlaces(Decimals)]
          shown == FormatDisplay(raw, Decimals)
          short == ParseUnits(shown, Decimals)
      IN  IF shown = Dust THEN raw \in 1..step - 1
          ELSE short <= raw /\ raw - short < step /\ (raw > 0 => short > 0)
  BY <1>1, DisplayReads
<1> QED
  BY <1>2, <1>3 DEF ShownTrue, Decorate

-----------------------------------------------------------------------------
(* How an answer was proved                                                *)

\* weakest_route is no stronger than any label it is made of.
LEMMA WeakestIs ==
    ASSUME NEW legs \in Seq(Routes)
    PROVE  \A i \in DOMAIN legs : Rank(WeakestRoute(legs)) <= Rank(legs[i])
<1>1. \A l : Rank(l) \in Nat
  BY DEF Rank
<1>2. CASE legs = <<>> \/ \E i \in DOMAIN legs : Rank(legs[i]) = 0
  <2>1. WeakestRoute(legs) = UnknownRoute
    BY <1>2 DEF WeakestRoute
  <2>2. Rank(UnknownRoute) = 0
    BY DEF Rank, UnknownRoute
  <2> QED BY <1>1, <2>1, <2>2
<1>3. CASE ~(legs = <<>> \/ \E i \in DOMAIN legs : Rank(legs[i]) = 0)
  <2> DEFINE least(i) == \A j \in DOMAIN legs : Rank(legs[i]) <= Rank(legs[j])
             ranks == {Rank(legs[i]) : i \in DOMAIN legs}
  <2>1. \E i \in DOMAIN legs : least(i)
    <3>1. ranks \in SUBSET Nat
      BY <1>1
    <3>2. ranks # {}
      <4>1. 1 \in DOMAIN legs
        <5>1. legs \in Seq(Routes) /\ legs # <<>>
          BY <1>3
        <5> QED BY <5>1
      <4> QED BY <4>1
    <3> HIDE DEF ranks
    <3>3. PICK n \in ranks : \A m \in ranks : n <= m
      BY <3>1, <3>2, LeastIs
    <3> QED BY <3>3 DEF ranks
  <2> DEFINE c == CHOOSE i \in DOMAIN legs : least(i)
  <2>2. c \in DOMAIN legs /\ least(c)
    BY <2>1
  <2>3. WeakestRoute(legs) = legs[c]
    BY <1>3 DEF WeakestRoute
  <2> HIDE DEF c
  <2> QED BY <2>2, <2>3
<1> QED
  BY <1>2, <1>3

-----------------------------------------------------------------------------
(* What a reply says                                                       *)

\* Over any radix, decimals, places shown and prices: what a reply shows of the value
\* and of the most it may cost reads back as those amounts, digit for digit where it
\* is exact, short by less than its last place where it is not; and the reply claims
\* no better proof than any read behind it had (decorate, format_exact,
\* format_display, parse_units, weakest_route).
THEOREM RepliesTell == Spec => []ReplyTells
<1>1. Init => Paid
  BY DEF Init, Paid
<1>2. QuoteTypeOK /\ Paid => ReplyTells
  <2> SUFFICES ASSUME QuoteTypeOK, Paid, Served PROVE
        /\ \A k \in DOMAIN Figures : ShownTrue(Figures[k])
        /\ \A i \in DOMAIN labels : Rank(WeakestRoute(labels)) <= Rank(labels[i])
    BY DEF ReplyTells
  <2>1. req.value + ceiling <= balance
    BY DEF Paid, Served
  <2>2. req.value \in Nat /\ ceiling \in 0..W /\ balance \in 0..W /\ labels \in Seq(Routes)
    BY Allowance DEF QuoteTypeOK, Request
  <2>3. W \in Nat /\ MaxAmount \in Nat /\ W <= MaxAmount
    BY WordAssumption, UnitsAssumption, QuoteAssumption
  <2>4. /\ req.value \in Nat /\ req.value <= MaxAmount
        /\ req.value + ceiling \in Nat /\ req.value + ceiling <= MaxAmount
    BY <2>1, <2>2, <2>3
  <2>5. ShownTrue(Decorate(req.value, Decimals)) /\ ShownTrue(Decorate(req.value + ceiling, Decimals))
    BY <2>4, DecoratedTrue
  <2>6. \A k \in DOMAIN Figures : ShownTrue(Figures[k])
    <3>1. /\ DOMAIN Figures = {"value", "maxCost"}
          /\ Figures["value"] = Decorate(req.value, Decimals)
          /\ Figures["maxCost"] = Decorate(req.value + ceiling, Decimals)
      BY DEF Figures
    <3> QED BY <2>5, <3>1
  <2> QED BY <2>2, <2>6, WeakestIs
<1> QED
  BY <1>1, <1>2, AllowanceHolds, NextPaid, PTL DEF Spec
=============================================================================
