-------------------------------- MODULE Quote --------------------------------
(***************************************************************************)
(* One `prepare` or `send` up to its approval request, as rust-lib/src/    *)
(* glue.rs walks it: the gate, the chain's config, the fee pass, the floor *)
(* under a pinned number, the price of a replacement, the balance, the     *)
(* nonce, the request.  Every call is charged to one allowance, and may    *)
(* take all it is granted.                                                 *)
(*                                                                         *)
(* A bundle is its number of calls, its value and its gas, summed over the *)
(* calls.  External: fee_module, eth_rpc and the signer manager, as the    *)
(* answers glue.rs acts on.  Left out: the reservation between the quote   *)
(* and the request (Ledger), and the wording of a refusal.                 *)
(***************************************************************************)
EXTENDS Integers, Budget, Replace, Verdict, Units

CONSTANTS
    MaxLegs,        \* MAX_LEGS
    SendBudget,     \* SEND_BUDGET
    Requests,       \* the requests callers make
    Histories,      \* the rows an account's history may hold
    Prices,         \* fees and tips fee_module may find
    Gases,          \* gas it may find a bundle to need
    Balances,
    Decimals,       \* of the native currency
    Trips           \* round trips a chain may be configured with

\* No number is pinned.
NoPin == 0 - 1

Request == [chain : Nat, calls : Nat, value : Nat, pin : Nat \cup {NoPin}, sound : BOOLEAN,
            setFee : BOOLEAN, setTip : BOOLEAN, send : BOOLEAN, deadline : Nat]

\* A word can be written as an amount.
ASSUME QuoteAssumption ==
    /\ MaxLegs \in Nat /\ SendBudget \in Nat
    /\ Requests \subseteq Request
    /\ Histories \subseteq SUBSET PricedRow
    /\ Prices \subseteq 0..W /\ Gases \subseteq Nat \ {0} /\ Balances \subseteq 0..W
    /\ Trips \subseteq Nat /\ Decimals \in Nat /\ W <= MaxAmount

VARIABLES
    pc, req,
    elapsed,        \* of this request's allowance
    rt,             \* a whole round trip on the chain
    seen,           \* the rows of it a pinned request was priced over
    fee, tip,       \* the fees the bundle goes out with
    custom,         \* whether fee_module priced it at the caller's own fees
    gas,
    ceiling,        \* fee_module's figure for the most the fees may come to
    raised,         \* the price was raised over a floor
    balance,
    labels,         \* how the balance and the nonce were proved
    ample           \* the fee pass began with time enough for all that follows

world == <<req, seen>>
priced == <<fee, tip, custom, gas, ceiling, raised>>
read == <<balance, labels>>
vars == <<pc, world, elapsed, rt, priced, read, ample>>

Ends == {"quoted", "asked", "refused", "no time", "blocked"}

Total == BoundedBy(SendBudget, req.deadline)
AfterFees == IF req.send THEN AfterAdd(AfterPricing, AfterQuote) ELSE AfterPricing
Have == Left(Total, elapsed)

\* A call that comes back within its grant.
Spend(grant) == \E d \in 0..grant : elapsed' = elapsed + d

\* A call refused, not answered in time, or answered with what cannot be used.
Fails(grant) == Spend(grant) /\ pc' = "refused" /\ UNCHANGED <<world, rt, priced, read, ample>>

NoTime == pc' = "no time" /\ UNCHANGED <<world, elapsed, rt, priced, read, ample>>

Init ==
    /\ pc = "start" /\ req \in Requests /\ seen = {}
    /\ elapsed = 0 /\ rt = DefaultTrip
    /\ fee = 0 /\ tip = 0 /\ custom = FALSE /\ gas = 0 /\ ceiling = 0 /\ raised = FALSE
    /\ balance = 0 /\ labels = <<>> /\ ample = FALSE

-----------------------------------------------------------------------------
(* The gate, the form of the request, the chain's config                   *)

\* Neither entry point asks anything for no chain at all; `send` also refuses
\* while the account's history is closed.
Start ==
    /\ pc = "start"
    /\ pc' \in IF req.chain = 0 THEN {"refused"}
               ELSE IF req.send THEN {"refused", "gate"} ELSE {"gate"}
    /\ UNCHANGED <<world, elapsed, rt, priced, read, ample>>

\* verified_gate_within: the cache opens it, or a probe that says so.
Gate ==
    /\ pc = "gate"
    /\ \/ pc' = "form" /\ UNCHANGED elapsed
       \/ LET grant == Slice(Total, elapsed, ProbeBudget) IN
          IF grant = Refused
          THEN pc' = "blocked" /\ UNCHANGED elapsed
          ELSE /\ Spend(grant)
               /\ \E raw \in RawVerdicts \cup {Unknown} :
                     pc' = IF IsBlocking(Normalize(raw)) THEN "blocked" ELSE "form"
    /\ UNCHANGED <<world, rt, priced, read, ample>>

Sound ==
    /\ req.sound
    /\ req.calls \in 1..MaxLegs
    /\ req.pin # NoPin => req.calls = 1

\* Validated whole before anything is asked.
Form ==
    /\ pc = "form"
    /\ pc' = IF Sound THEN "route" ELSE "refused"
    /\ UNCHANGED <<world, elapsed, rt, priced, read, ample>>

\* An unreadable config, or no time to read it, leaves the defaults.
ReadRoute ==
    /\ pc = "route"
    /\ pc' = "fee"
    /\ LET grant == Slice(Total, elapsed, ProbeBudget) IN
       \/ Spend(grant) /\ rt' = RoundTrip(0)
       \/ grant # Refused /\ Spend(grant) /\ \E t \in Trips : rt' = RoundTrip(t)
    /\ UNCHANGED <<world, priced, read, ample>>

-----------------------------------------------------------------------------
(* The price                                                               *)

FeePass == Whole(Total, elapsed, RpcSlice(rt),
                 FeeCap(Have, req.calls, AfterOn(AfterFees, rt), rt))

\* One fee for the bundle, and a limit for every call of it.
EstimateBundle ==
    /\ pc = "fee"
    /\ ample' = (Have >= FeeFloor(rt, req.calls) + AfterOn(AfterFees, rt))
    /\ IF FeePass = Refused
       THEN pc' = "no time" /\ UNCHANGED <<elapsed, priced>>
       ELSE /\ Spend(FeePass)
            /\ \/ pc' = "refused" /\ UNCHANGED priced
               \/ /\ fee' \in Prices /\ tip' \in Prices
                  /\ custom' \in {FALSE, req.setFee \/ req.setTip}
                  /\ gas' \in Gases
                  /\ ceiling' = fee' * gas' /\ ceiling' <= W
                  /\ raised' = FALSE
                  /\ pc' = IF tip' > fee' THEN "refused"
                           ELSE IF req.pin = NoPin THEN "balance" ELSE "pin"
    /\ UNCHANGED <<world, rt, read>>

\* What the rows `list` ask of a price at the pinned number.
FloorOf(list) == Floor(list, req.chain, req.pin)
\* The caller's own only when fee_module priced it so.
OwnFee == custom /\ req.setFee
OwnTip == custom /\ req.setTip

\* A closed history refuses.  One found open is listed by a second look: it gives
\* the rows of that moment, whatever sweeps and other sends made of them, or none,
\* when the wallet was locked in between or the file will not be read; and none ask
\* nothing of the price.  Nothing reads the rows again.
Pin ==
    /\ pc = "pin"
    /\ \/ pc' = "refused" /\ UNCHANGED <<fee, tip, raised, seen>>
       \/ /\ seen' \in Histories \cup {{}}
          /\ IF Mined(seen', req.chain, req.pin)
             THEN pc' = "refused" /\ UNCHANGED <<fee, tip, raised>>
             ELSE IF FloorOf(seen').none
             THEN pc' = "balance" /\ UNCHANGED <<fee, tip, raised>>
             ELSE IF RaiseRefused(fee, tip, OwnFee, OwnTip, FloorOf(seen'))
             THEN pc' = "refused" /\ UNCHANGED <<fee, tip, raised>>
             ELSE /\ tip' = RaisedTip(tip, OwnTip, FloorOf(seen'))
                  /\ fee' = RaisedFee(fee, tip, OwnFee, OwnTip, FloorOf(seen'))
                  /\ raised' = (<<fee', tip'>> # <<fee, tip>>)
                  /\ pc' = IF raised' THEN "reprice" ELSE "balance"
    /\ UNCHANGED <<req, elapsed, rt, custom, gas, ceiling, read, ample>>

\* Mutant: the reply keeps the ceiling of the price before.
RepriceNothing(grant) == Spend(grant) /\ UNCHANGED ceiling

\* fee_module's own figure at the raised fees.
Repriced(grant) == Spend(grant) /\ ceiling' = fee * gas

Reprice ==
    /\ pc = "reprice"
    /\ LET grant == Slice(Total, elapsed, FeeFloor(rt, req.calls)) IN
       IF grant = Refused THEN NoTime
       ELSE \/ Fails(grant)
            \/ /\ fee * gas <= W /\ Repriced(grant)
               /\ pc' = "balance"
               /\ UNCHANGED <<world, rt, fee, tip, custom, gas, raised, read, ample>>

-----------------------------------------------------------------------------
(* What the chain says, and the request                                    *)

\* Route::take: a whole round trip for the next read, or none.
ReadGrant == Whole(Total, elapsed, rt, RpcSlice(rt))

Affordable(b) == req.value + ceiling <= W /\ req.value + ceiling <= b

ReadBalance ==
    /\ pc = "balance"
    /\ IF ReadGrant = Refused THEN NoTime
       ELSE \/ Fails(ReadGrant)
            \/ /\ Spend(ReadGrant)
               /\ balance' \in Balances
               /\ \E l \in Routes : labels' = <<l>>
               /\ pc' = IF Affordable(balance') THEN "nonce" ELSE "refused"
               /\ UNCHANGED <<world, rt, priced, ample>>

Quoted == IF req.send THEN "approve" ELSE "quoted"

\* A number the caller pinned is vouched for by nothing.
ReadNonce ==
    /\ pc = "nonce"
    /\ IF req.pin # NoPin
       THEN /\ labels' = Append(labels, "none") /\ pc' = Quoted
            /\ UNCHANGED <<world, elapsed, rt, priced, balance, ample>>
       ELSE IF ReadGrant = Refused THEN NoTime
       ELSE \/ Fails(ReadGrant)
            \/ /\ Spend(ReadGrant)
               /\ \E l \in Routes : labels' = Append(labels, l)
               /\ pc' = Quoted
               /\ UNCHANGED <<world, rt, priced, balance, ample>>

\* request_send, once the numbers are reserved: the manager is asked.
Approve ==
    /\ pc = "approve"
    /\ LET grant == Slice(Total, elapsed, InitBudget) IN
       IF grant = Refused THEN NoTime
       ELSE \/ Fails(grant)
            \/ Spend(grant) /\ pc' = "asked" /\ UNCHANGED <<world, rt, priced, read, ample>>

Done == pc \in Ends /\ UNCHANGED vars

Next ==
    \/ Start \/ Gate \/ Form \/ ReadRoute
    \/ EstimateBundle \/ Pin \/ Reprice
    \/ ReadBalance \/ ReadNonce \/ Approve
    \/ Done

Spec == Init /\ [][Next]_vars

\* quote_reply: the value and the most it may cost, as `prepare` shows them.
Figures == [value |-> Decorate(req.value, Decimals),
            maxCost |-> Decorate(req.value + ceiling, Decimals)]

-----------------------------------------------------------------------------
(* Properties                                                              *)

\* The state has its type; above all no chain of calls, each with its own cap and
\* floor, has taken more than the caller's allowance (Budget::take, take_whole).
QuoteTypeOK ==
    /\ pc \in {"start", "gate", "form", "route", "fee", "pin", "reprice", "balance", "nonce",
               "approve"} \cup Ends
    /\ req \in Requests /\ seen \in Histories \cup {{}}
    /\ elapsed \in 0..Total /\ rt \in MinTrip..MaxTrip
    /\ fee \in 0..W /\ tip \in 0..W /\ gas \in Nat /\ ceiling \in 0..W
    /\ custom \in BOOLEAN /\ raised \in BOOLEAN /\ ample \in BOOLEAN
    /\ balance \in 0..W /\ labels \in Seq(Routes)

Served == pc \in {"quoted", "asked"}

\* A fee pass begun with its floor and all that follows still ahead leaves enough
\* for it, however slow every call is: such a request is never cut off half way
\* (fee_cap, After, Route::take).  A price raised over a floor is asked a second
\* time, which nothing was kept for.
TimeKeptForTheRest == pc = "no time" /\ ample => raised

\* A node's rule: more, and one part in Bump more, on the field.  Over a price too
\* near the greatest word there is only that word.
Outbids(x, y) == (x > y /\ x * Bump >= y * (Bump + 1)) \/ x = W

\* A bundle that goes out at a pinned number outbids, on both fields, everything
\* unsettled the quote found there, tips no more than it pays, and is never at a
\* number it found mined, whatever was raised, repriced or moved on since (quote,
\* replace.rs).
OutbidsWhatItFound ==
    Served /\ req.pin # NoPin =>
        /\ tip <= fee
        /\ \A r \in seen : r.chain = req.chain /\ r.nonce = req.pin =>
              /\ r.status # "mined"
              /\ r.status \in {"unknown", "pending"} => Outbids(fee, r.fee) /\ Outbids(tip, r.tip)

\* What the account holds covers the value and the gas at the fees the bundle
\* really goes out with, raised or not (quote, affordable).
PaidInFull == Served => req.value + fee * gas <= balance

\* A number shown short is never more than the amount, falls short by less than its
\* last place, and is never nothing for an amount that is something.
ShownTrue(f) ==
    LET short == ParseUnits(f.display, Decimals)
        step == Pow[Decimals - KeptPlaces(Decimals)]
    IN  /\ ParseUnits(f.exact, Decimals) = f.raw
        /\ IF f.display = Dust THEN f.raw \in 1..step - 1
           ELSE short <= f.raw /\ f.raw - short < step /\ (f.raw > 0 => short > 0)

\* What a person approves by is what will be signed: the exact figures read back
\* digit for digit, the short ones tell no more than they know, and the reply claims
\* no better proof than each read behind it had (format_exact, format_display,
\* parse_units, weakest_route).
ReplyTells ==
    Served =>
        /\ \A k \in DOMAIN Figures : ShownTrue(Figures[k])
        /\ \A i \in DOMAIN labels : Rank(WeakestRoute(labels)) <= Rank(labels[i])
=============================================================================
