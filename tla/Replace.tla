------------------------------- MODULE Replace -------------------------------
(***************************************************************************)
(* What a pinned number must pay to replace what is still pending at it:   *)
(* rust-lib/src/replace.rs, over words no greater than W.                  *)
(***************************************************************************)
EXTENDS Naturals

CONSTANTS
    W,              \* the greatest word
    Bump            \* the price bump is one part in Bump

ASSUME WordAssumption == W \in Nat /\ Bump \in Nat \ {0}

\* A row as far as its number and its price go.
PricedRow == [chain : Nat, nonce : Nat, status : {"unknown", "pending", "mined", "replaced"},
              fee : 0..W, tip : 0..W]
NoFloor == [fee |-> 0, tip |-> 0, none |-> TRUE]

SatAdd(m, n) == IF m + n <= W THEN m + n ELSE W
Highest(S) == CHOOSE n \in S : \A m \in S : m <= n

At(rows, chain, n) == {r \in rows : r.chain = chain /\ r.nonce = n}
Pending(rows, chain, n) == {r \in At(rows, chain, n) : r.status \in {"unknown", "pending"}}

\* The highest each field offered, or none.
Floor(rows, chain, n) ==
    LET S == Pending(rows, chain, n)
    IN  IF S = {} THEN NoFloor
        ELSE [fee |-> Highest({r.fee : r \in S}), tip |-> Highest({r.tip : r \in S}),
              none |-> FALSE]

\* replace::mined: the number is used.
Mined(rows, chain, n) == \E r \in At(rows, chain, n) : r.status = "mined"

\* Mutant: a bump of the floor alone, which is none for a small price.
BumpFlat(x) == SatAdd(x, x \div Bump)

\* replace::bump: more than x, and at least one part in Bump more.
BumpUp(x) == SatAdd(SatAdd(x, x \div Bump), 1)

\* replace::raise: a field the caller set is used as given, or refused.
RaisedTip(tip, setTip, f) == IF setTip \/ tip >= BumpUp(f.tip) THEN tip ELSE BumpUp(f.tip)

RaisedFee(fee, tip, setFee, setTip, f) ==
    IF setFee THEN fee
    ELSE Highest({fee, BumpUp(f.fee), RaisedTip(tip, setTip, f)})

RaiseRefused(fee, tip, setFee, setTip, f) ==
    \/ setFee /\ fee < BumpUp(f.fee)
    \/ setTip /\ tip < BumpUp(f.tip)
    \/ RaisedTip(tip, setTip, f) > RaisedFee(fee, tip, setFee, setTip, f)
=============================================================================
