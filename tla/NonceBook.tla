------------------------------ MODULE NonceBook ------------------------------
(***************************************************************************)
(* What the ledger of rust-lib/src/send.rs promises of an account's        *)
(* numbers: a number is handed to one send at a time, and once bytes have  *)
(* left with it, only to a send that declares that it replaces.  A send    *)
(* gives a number back or leaves with it, and what has left never comes    *)
(* back.  A new process starts with nothing in hand, and is bound by what  *)
(* left before it and was not seen to be over.                             *)
(***************************************************************************)
EXTENDS Naturals

CONSTANTS Accounts, Nonces

VARIABLES
    granted,    \* how many sends were ever handed numbers
    hand,       \* what was handed out and has not left: entries
    out,        \* what may have left, but what a process before found over: entries
    over        \* what of it is known to be over: entries

bookVars == <<granted, hand, out, over>>

Entry(claim, a, n, declared) ==
    [claim |-> claim, acct |-> a, nonce |-> n, declared |-> declared]

At(S, a, n) == {e \in S : e.acct = a /\ e.nonce = n}

BookInit ==
    /\ granted = 0
    /\ hand = {}
    /\ out = {} /\ over = {}

Grant(a, ns, declared) ==
    /\ granted' = granted + 1
    /\ \A n \in ns : At(hand, a, n) = {} /\ (declared \/ At(out, a, n) = {})
    /\ hand' = hand \cup {Entry(granted', a, n, declared) : n \in ns}
    /\ UNCHANGED <<out, over>>

Leave(e) ==
    /\ e \in hand
    /\ hand' = hand \ {e}
    /\ out' = out \cup {e}
    /\ UNCHANGED <<granted, over>>

GiveBack(S) ==
    /\ S \subseteq hand
    /\ hand' = hand \ S
    /\ UNCHANGED <<granted, out, over>>

Finish(S) ==
    /\ S \subseteq out
    /\ over' = over \cup S
    /\ UNCHANGED <<granted, hand, out>>

Restart ==
    /\ hand' = {}
    /\ out' = out \ over
    /\ over' = {}
    /\ UNCHANGED granted

BookNext ==
    \/ \E a \in Accounts, ns \in SUBSET Nonces, d \in BOOLEAN : Grant(a, ns, d)
    \/ \E e \in hand : Leave(e)
    \/ \E S \in SUBSET hand : GiveBack(S)
    \/ \E S \in SUBSET out : Finish(S)
    \/ Restart

BookSpec == BookInit /\ [][BookNext]_bookVars

\* Nothing is in two hands, an undeclared hand is at a number nothing left with,
\* and of two sends that left with one number one said what it replaces.
OneEach ==
    /\ \A x, y \in hand : x.acct = y.acct /\ x.nonce = y.nonce => x = y
    /\ \A x \in hand, y \in out : x.acct = y.acct /\ x.nonce = y.nonce => x.declared
    /\ \A x, y \in out :
        x.acct = y.acct /\ x.nonce = y.nonce /\ x.claim # y.claim
            => x.declared \/ y.declared
=============================================================================
