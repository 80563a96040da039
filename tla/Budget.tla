------------------------------- MODULE Budget -------------------------------
(***************************************************************************)
(* One allowance shared by every call of an entry point: rust-lib/src/     *)
(* budget.rs, clock-free as it is there.  Time is counted in ticks.        *)
(***************************************************************************)
EXTENDS Naturals

CONSTANTS
    MinSlice,       \* MIN_SLICE: less than this is not worth a call
    CalleeMargin,   \* CALLEE_MARGIN: what a callee's own refusal needs to come home
    ProbeBudget,    \* PROBE_BUDGET: one local read
    InitBudget,     \* INIT_BUDGET: registering an approval
    FeeBudget,      \* FEE_BUDGET: fee_module's own default
    DefaultTrip,    \* DEFAULT_ROUND_TRIP and its verified counterpart
    MinTrip,        \* the least a configured timeout counts for
    MaxTrip         \* the most

ASSUME BudgetAssumption ==
    /\ MinSlice \in Nat /\ MinSlice > 0
    /\ CalleeMargin \in Nat /\ CalleeMargin >= MinSlice
    /\ ProbeBudget \in Nat /\ InitBudget \in Nat /\ InitBudget >= MinSlice
    /\ FeeBudget \in Nat
    /\ MinTrip \in Nat /\ MinTrip >= MinSlice
    /\ MaxTrip \in Nat /\ DefaultTrip \in MinTrip..MaxTrip

\* No grant.  A grant is at least MinSlice.
Refused == 0

Lesser(m, n) == IF m <= n THEN m ELSE n
Greater(m, n) == IF m >= n THEN m ELSE n
Left(total, elapsed) == IF elapsed <= total THEN total - elapsed ELSE 0

\* A caller's deadline of zero or less is no deadline.
BoundedBy(total, deadline) == IF deadline > 0 THEN Lesser(total, deadline) ELSE total

\* Mutant: a grant looks at the call's own cap alone.
SlicePerCall(total, elapsed, perCall) == IF perCall >= MinSlice THEN perCall ELSE Refused

\* Budget::take: what the next call may spend.
Slice(total, elapsed, perCall) ==
    LET grant == Lesser(Left(total, elapsed), perCall)
    IN  IF elapsed <= total /\ grant >= MinSlice THEN grant ELSE Refused

\* Budget::take_whole: up to `cap`, but only when at least `min` is left.
Whole(total, elapsed, min, cap) ==
    IF Left(total, elapsed) < Greater(min, MinSlice) THEN Refused
                                                    ELSE Lesser(Left(total, elapsed), cap)

\* One round trip on a chain, from eth_rpc's config; 0 stands for a missing or zero entry.
RoundTrip(configured) ==
    IF configured > 0 THEN Lesser(Greater(configured, MinTrip), MaxTrip) ELSE DefaultTrip

RpcSlice(rt) == rt + CalleeMargin

\* The deadline a callee is told, shorter than the wait for it; `Refused` is none.
CalleeDeadline(transport) ==
    IF transport >= CalleeMargin + MinSlice THEN transport - CalleeMargin ELSE Refused

\* What is still to do once a step is back: round trips, and local work.
After == [trips : Nat, local : Nat]
AfterOn(after, rt) == RpcSlice(rt) * after.trips + after.local
AfterAdd(a, b) == [trips |-> a.trips + b.trips, local |-> a.local + b.local]
AfterPricing == [trips |-> 2, local |-> 0]
AfterQuote == [trips |-> 0, local |-> InitBudget]

FeeRounds(legs) == 2 * legs + 1
FeeFloor(rt, legs) == RpcSlice(rt) * (legs + 1) + CalleeMargin

\* Mutant: the fee pass may have all that is left.
FeeCapGreedy(left, legs, after, rt) ==
    Lesser(Greater(left, FeeFloor(rt, legs)),
           Greater(FeeBudget, RpcSlice(rt) * FeeRounds(legs)) + CalleeMargin)

\* What `after` leaves of `left`, never less than the floor of a fee pass, never
\* more than fee_module would use.
FeeCap(left, legs, after, rt) ==
    Lesser(Greater(Left(left, after), FeeFloor(rt, legs)),
           Greater(FeeBudget, RpcSlice(rt) * FeeRounds(legs)) + CalleeMargin)
=============================================================================
