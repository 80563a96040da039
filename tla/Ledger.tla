------------------------------- MODULE Ledger -------------------------------
(***************************************************************************)
(* The in-memory send ledger of rust-lib/src/send.rs: the jobs, the claims *)
(* and the reserver of account numbers ("nonces"), every door of           *)
(* SendLedger one action, atomic because each runs under the one lock.     *)
(*                                                                         *)
(* Abstractions.  An account is a (chain, address) pair after `key` has    *)
(* folded its spelling.  A bundle's legs are named by their numbers: they  *)
(* are distinct, and leg order is numeric order because `reserve` scans    *)
(* upwards.  Prices, calldata, labels and reasons are left out.  A door    *)
(* that refuses writes nothing, so a refusal is a disabled action.         *)
(*                                                                         *)
(* `audit` runs as the lock is released.  In a debug build a violation     *)
(* panics; a release build re-reserves the numbers.  The repair is NOT     *)
(* modelled: Containment and Uniqueness say it never has anything to do.   *)
(***************************************************************************)
EXTENDS Naturals, FiniteSets

CONSTANTS
    RequestIds,     \* the ids a handle of the signer manager can become
    Accounts,       \* (chain, address) pairs
    MaxNonce,       \* bound: the largest number of an account
    MaxLegs,        \* MAX_LEGS of the code, 8
    MaxClaims,      \* bound: how many claims are ever opened
    PriorRows,      \* the <<account, number>> pairs of a previous process
    FreshIds,       \* TRUE: the signer manager never repeats a handle
    None, Departed  \* the two answers of `pin` that name no send

ASSUME LedgerAssumption ==
    /\ MaxNonce \in Nat /\ MaxLegs \in Nat \ {0} /\ MaxClaims \in Nat
    /\ PriorRows \subseteq Accounts \X (0..MaxNonce)
    /\ FreshIds \in BOOLEAN
    /\ None \notin RequestIds /\ Departed \notin RequestIds /\ None # Departed

VARIABLES
    jobs,       \* request id -> job, a partial function
    claims,     \* the claims whose guard is alive
    reserved,   \* account -> numbers handed out
    spent,      \* account -> numbers burnt, append-only
    stranded,   \* numbers left by an overwritten job
    lastClaim,
    lastTicket,
    tickets,    \* the BroadcastTicket values dispatches hold
    wire,       \* history: which claim's bytes may have left at which number
    served      \* history: the ids ever committed

ledgerVars == <<jobs, claims, reserved, spent, stranded, lastClaim, lastTicket,
                tickets, wire, served>>

Nonces == 0..MaxNonce
Terminal == {"broadcast", "rejected", "cancelled", "failed"}
Status == Terminal \cup {"awaitingApproval"}
Replaces == RequestIds \cup {None, Departed}
NoTicket == 0

\* `claim` is the id of the claim the job came from: it tells two jobs that
\* used one request id apart, and the code keeps no such field.
Job == [claim : Nat, acct : Accounts, nonces : SUBSET Nonces, left : SUBSET Nonces,
        landed : SUBSET Nonces, status : Status, ticket : Nat, replaces : Replaces]
Claim == [id : Nat, acct : Accounts, nonces : SUBSET Nonces, replaces : Replaces]
Ticket == [id : RequestIds, ticket : Nat]
Sighting == [claim : Nat, acct : Accounts, nonce : Nonces, replaces : Replaces]

-----------------------------------------------------------------------------
(* What a job holds                                                        *)

IsTerminal(j) == j.status \in Terminal
\* Mutant: only a whole broadcast burns, so a send that failed midway does not.
LegSpentWhenSettled(j, n) == j.status = "broadcast"

LegSpent(j, n) == n \in j.left \/ j.status = "broadcast"
HoldsLeg(j, n) == n \in j.nonces /\ (~IsTerminal(j) \/ LegSpent(j, n))
HoldsNonce(j) == \E n \in j.nonces : HoldsLeg(j, n)

\* Every number still held for an account.
Held(js, cs, a) ==
    {n \in Nonces :
        \/ \E c \in cs : c.acct = a /\ n \in c.nonces
        \/ \E i \in DOMAIN js : js[i].acct = a /\ HoldsLeg(js[i], n)}

-----------------------------------------------------------------------------
(* The reserver                                                            *)

Free(a, n) == n \notin reserved[a] /\ n \notin spent[a]

\* What `count` calls of `reserve` starting at `from` hand out: free numbers at
\* or above it, stepping over nothing that is free.
IsNextFree(a, from, count, run) ==
    /\ Cardinality(run) = count
    /\ \A n \in run : n >= from /\ Free(a, n)
    /\ \A n \in run : \A m \in from..n : Free(a, m) => m \in run

\* Several numbers given back at once: each only if nothing holds it, and
\* never a burnt one.
Release(js, cs, a, ns) ==
    reserved' = [reserved EXCEPT ![a] = @ \ ((ns \ Held(js, cs, a)) \ spent[a])]

\* Mutant: the numbers of the legs that have not left go back unasked.
SyncNonceUnasked(js, i) ==
    LET j == js[i]
        burnt == {n \in j.nonces : LegSpent(j, n)}
        spentNow == spent[j.acct] \cup burnt
    IN  /\ spent' = [spent EXCEPT ![j.acct] = spentNow]
        /\ reserved' = [reserved EXCEPT ![j.acct] = (@ \cup burnt) \ (j.nonces \ spentNow)]

\* The one writer of a job's numbers: burn what may have left, hand back what
\* nothing holds any more.
SyncNonce(js, i) ==
    LET j == js[i]
        burnt == {n \in j.nonces : LegSpent(j, n)}
        spentNow == spent[j.acct] \cup burnt
        idle == (j.nonces \ Held(js, claims, j.acct)) \ spentNow
    IN  /\ spent' = [spent EXCEPT ![j.acct] = spentNow]
        /\ reserved' = [reserved EXCEPT ![j.acct] = (@ \cup burnt) \ idle]

-----------------------------------------------------------------------------
(* Claims                                                                  *)

NewClaim(a, ns, r) ==
    /\ lastClaim < MaxClaims
    /\ lastClaim' = lastClaim + 1
    /\ claims' = claims \cup {[id |-> lastClaim', acct |-> a, nonces |-> ns, replaces |-> r]}
    /\ UNCHANGED <<jobs, spent, stranded, lastTicket, tickets, wire, served>>

\* An unpinned send of `count` legs, the chain answering `chainNonce`.
Open(a, chainNonce, count) ==
    /\ count \in 1..MaxLegs
    /\ \E run \in SUBSET Nonces :
        /\ IsNextFree(a, chainNonce, count, run)
        /\ reserved' = [reserved EXCEPT ![a] = @ \cup run]
        /\ NewClaim(a, run, None)

\* `hold` took the number: the pin shares it with nobody.
PinFree(a, n) ==
    /\ Free(a, n)
    /\ reserved' = [reserved EXCEPT ![a] = @ \cup {n}]
    /\ NewClaim(a, {n}, None)

\* Mutant: a claim whose approval has not been asked for yet is overlooked.
ReplaceableOverClaims(a, n) ==
    /\ ~Free(a, n)
    /\ \A i \in DOMAIN jobs :
        jobs[i].acct = a /\ HoldsLeg(jobs[i], n) => LegSpent(jobs[i], n)

\* No claim has the number and no job holds it without having begun to leave.
Replaceable(a, n) ==
    /\ ~Free(a, n)
    /\ \A c \in claims : ~(c.acct = a /\ n \in c.nonces)
    /\ \A i \in DOMAIN jobs :
        jobs[i].acct = a /\ HoldsLeg(jobs[i], n) => LegSpent(jobs[i], n)

Leavers(a, n) ==
    {i \in DOMAIN jobs : jobs[i].acct = a /\ n \in jobs[i].nonces /\ LegSpent(jobs[i], n)}

\* Mutant: the pin shares the number and does not say so.
PinSendUndirected(a, n) ==
    /\ Replaceable(a, n)
    /\ \E i \in Leavers(a, n) : NewClaim(a, {n}, None)
    /\ UNCHANGED reserved

\* The pin takes over from a send whose leg has begun to leave.  The map the
\* code walks has no order, so any such send may be the one named.
PinSend(a, n) ==
    /\ Replaceable(a, n)
    /\ \E i \in Leavers(a, n) : NewClaim(a, {n}, i)
    /\ UNCHANGED reserved

\* Nothing here holds the number and it is not free: the claim takes it over
\* from a send this process never saw.
PinDeparted(a, n) ==
    /\ Replaceable(a, n)
    /\ Leavers(a, n) = {}
    /\ reserved' = [reserved EXCEPT ![a] = @ \cup {n}]
    /\ NewClaim(a, {n}, Departed)

\* The guard was dropped: no approval request came of the claim.
Abandon(c) ==
    /\ c \in claims
    /\ claims' = claims \ {c}
    /\ Release(jobs, claims', c.acct, c.nonces)
    /\ UNCHANGED <<jobs, spent, stranded, lastClaim, lastTicket, tickets, wire, served>>

FromClaim(c) ==
    [claim |-> c.id, acct |-> c.acct, nonces |-> c.nonces, left |-> {}, landed |-> {},
     status |-> "awaitingApproval", ticket |-> NoTicket, replaces |-> c.replaces]

\* Mutant: the numbers of the overwritten job are forgotten.
CommitSilently(c, i) ==
    /\ c \in claims
    /\ FreshIds => i \notin served
    /\ claims' = claims \ {c}
    /\ jobs' = [k \in DOMAIN jobs \cup {i} |-> IF k = i THEN FromClaim(c) ELSE jobs[k]]
    /\ served' = served \cup {i}
    /\ UNCHANGED <<reserved, spent, stranded, lastClaim, lastTicket, tickets, wire>>

\* The approval request landed under id i: the claim becomes a job.  A
\* repeated id overwrites the job that had it.
Commit(c, i) ==
    /\ c \in claims
    /\ FreshIds => i \notin served
    /\ claims' = claims \ {c}
    /\ jobs' = [k \in DOMAIN jobs \cup {i} |-> IF k = i THEN FromClaim(c) ELSE jobs[k]]
    /\ stranded' = IF i \in DOMAIN jobs /\ HoldsNonce(jobs[i])
                   THEN stranded \cup ({jobs[i].acct} \X jobs[i].nonces)
                   ELSE stranded
    /\ served' = served \cup {i}
    /\ UNCHANGED <<reserved, spent, lastClaim, lastTicket, tickets, wire>>

-----------------------------------------------------------------------------
(* Settling and broadcasting                                               *)

\* Mutant: a poll that read the job before the claim settles it all the same.
MaySettleBehind(i, s, t) ==
    IsTerminal(jobs[i]) => s = "broadcast" /\ t # NoTicket /\ jobs[i].status # "broadcast"

\* Mutant: the last verdict wins.
MaySettleAgain(i, s, t) == jobs[i].ticket \in {NoTicket, t}

\* The broadcast's owner alone once it is claimed, and never a terminal job
\* again, but for a ticketed hash.  A job nobody claimed refuses no ticket.
MaySettle(i, s, t) ==
    /\ jobs[i].ticket \in {NoTicket, t}
    /\ IsTerminal(jobs[i]) =>
        s = "broadcast" /\ t # NoTicket /\ jobs[i].status # "broadcast"

SettleLocked(i, s, t) ==
    /\ i \in DOMAIN jobs
    /\ MaySettle(i, s, t)
    /\ jobs' = [jobs EXCEPT ![i].status = s]
    /\ SyncNonce(jobs', i)
    /\ UNCHANGED <<claims, stranded, lastClaim, lastTicket, wire, served>>

Settle(i, s) == SettleLocked(i, s, NoTicket) /\ UNCHANGED tickets

\* Mutant: only a terminal job refuses a second broadcaster.
ClaimBroadcastAgain(i) ==
    /\ i \in DOMAIN jobs
    /\ ~IsTerminal(jobs[i])
    /\ lastTicket' = lastTicket + 1
    /\ jobs' = [jobs EXCEPT ![i].ticket = lastTicket']
    /\ tickets' = tickets \cup {[id |-> i, ticket |-> lastTicket']}
    /\ UNCHANGED <<claims, reserved, spent, stranded, lastClaim, wire, served>>

\* The right to broadcast, to one dispatch.
ClaimBroadcast(i) ==
    /\ i \in DOMAIN jobs
    /\ ~IsTerminal(jobs[i]) /\ jobs[i].ticket = NoTicket
    /\ lastTicket' = lastTicket + 1
    /\ jobs' = [jobs EXCEPT ![i].ticket = lastTicket']
    /\ tickets' = tickets \cup {[id |-> i, ticket |-> lastTicket']}
    /\ UNCHANGED <<claims, reserved, spent, stranded, lastClaim, wire, served>>

Owns(t) == t.id \in DOMAIN jobs /\ jobs[t.id].ticket = t.ticket

Sight(j, n) ==
    [claim |-> j.claim, acct |-> j.acct, nonce |-> n, replaces |-> j.replaces]

\* Leg n of the job is about to leave under ticket t: its number is burnt
\* first.  `seen` is what then reaches the wire.
LeavingLeg(t, n, seen) ==
    /\ t \in tickets
    /\ Owns(t)
    /\ n \in jobs[t.id].nonces
    /\ jobs' = [jobs EXCEPT ![t.id].left = @ \cup {n}]
    /\ SyncNonce(jobs', t.id)
    /\ wire' = wire \cup {seen}
    /\ UNCHANGED <<claims, stranded, lastClaim, lastTicket, tickets, served>>

\* The node answered with a hash.
Landed(t, n) ==
    /\ t \in tickets
    /\ Owns(t)
    /\ n \in jobs[t.id].left
    /\ jobs' = [jobs EXCEPT ![t.id].landed = @ \cup {n}]
    /\ UNCHANGED <<claims, reserved, spent, stranded, lastClaim, lastTicket,
                   tickets, wire, served>>

\* What the glue settles with: by poll, and by ticket.
PolledVerdicts == {"rejected", "failed"}
OwnedVerdicts == {"broadcast", "failed"}

\* Every path of advance_send that settles by ticket returns, dropping it.
SettleOwned(t, s) ==
    /\ t \in tickets
    /\ SettleLocked(t.id, s, t.ticket)
    /\ tickets' = tickets \ {t}

\* The settle found nothing it may write; the dispatch returns all the same.
DropTicket(t) ==
    /\ t \in tickets
    /\ \E s \in OwnedVerdicts : ~MaySettle(t.id, s, t.ticket)
    /\ tickets' = tickets \ {t}
    /\ UNCHANGED <<jobs, claims, reserved, spent, stranded, lastClaim, lastTicket,
                   wire, served>>

\* Mutant: a cancel lands on a send that is being broadcast.
ClaimCancelLate(i) ==
    /\ i \in DOMAIN jobs
    /\ ~IsTerminal(jobs[i])
    /\ jobs' = [jobs EXCEPT ![i].status = "cancelled"]
    /\ SyncNonce(jobs', i)
    /\ UNCHANGED <<claims, stranded, lastClaim, lastTicket, tickets, wire, served>>

\* Neither a settled send nor one whose broadcast is claimed can be cancelled.
ClaimCancel(i) ==
    /\ i \in DOMAIN jobs
    /\ ~IsTerminal(jobs[i]) /\ jobs[i].ticket = NoTicket
    /\ Settle(i, "cancelled")

RowsOf(a, rows) == {n \in Nonces : <<a, n>> \in rows}

\* Mutant: burnt, and not reserved.
SeedSpentOnly(rows) ==
    /\ spent' = [a \in Accounts |-> spent[a] \cup RowsOf(a, rows)]
    /\ UNCHANGED <<jobs, claims, reserved, stranded, lastClaim, lastTicket, tickets,
                   wire, served>>

\* Rows of a previous process are burnt as the history opens.
SeedSpent(rows) ==
    /\ spent' = [a \in Accounts |-> spent[a] \cup RowsOf(a, rows)]
    /\ reserved' = [a \in Accounts |-> reserved[a] \cup RowsOf(a, rows)]
    /\ UNCHANGED <<jobs, claims, stranded, lastClaim, lastTicket, tickets, wire, served>>

-----------------------------------------------------------------------------
LedgerInit ==
    /\ jobs = [i \in {} |-> FALSE]
    /\ claims = {}
    /\ reserved = [a \in Accounts |-> {}]
    /\ spent = [a \in Accounts |-> {}]
    /\ stranded = {}
    /\ lastClaim = 0 /\ lastTicket = 0
    /\ tickets = {}
    /\ wire = {}
    /\ served = {}

LedgerNext ==
    \/ \E a \in Accounts, n \in Nonces :
        \/ \E count \in 1..MaxLegs : Open(a, n, count)
        \/ PinFree(a, n)
        \/ PinSend(a, n)
        \/ PinDeparted(a, n)
    \/ \E c \in claims : Abandon(c) \/ \E i \in RequestIds : Commit(c, i)
    \/ \E i \in RequestIds :
        \/ \E s \in PolledVerdicts : Settle(i, s)
        \/ ClaimBroadcast(i)
        \/ ClaimCancel(i)
    \/ \E t \in tickets :
        \/ \E n \in Nonces : LeavingLeg(t, n, Sight(jobs[t.id], n)) \/ Landed(t, n)
        \/ \E s \in OwnedVerdicts : SettleOwned(t, s)
        \/ DropTicket(t)
    \/ \E rows \in (SUBSET PriorRows) \ {{}} : SeedSpent(rows)

LedgerSpec == LedgerInit /\ [][LedgerNext]_ledgerVars

-----------------------------------------------------------------------------
(* What an account's numbers look like from outside                        *)

Handed(claim, a, n, r) ==
    [claim |-> claim, acct |-> a, nonce |-> n, declared |-> r # None]

ByClaim(c) == {Handed(c.id, c.acct, n, c.replaces) : n \in c.nonces}
ByJob(j) ==
    {Handed(j.claim, j.acct, n, j.replaces) :
        n \in {m \in j.nonces : HoldsLeg(j, m) /\ ~LegSpent(j, m)}}

\* In hand: the numbers that claims have, and jobs that have yet to leave with them.
InHand(js, cs) == UNION ({ByClaim(c) : c \in cs} \cup {ByJob(js[i]) : i \in DOMAIN js})

Gone(ws) == {Handed(w.claim, w.acct, w.nonce, w.replaces) : w \in ws}

Book == INSTANCE NonceBook WITH
    granted <- lastClaim,
    hand <- InHand(jobs, claims),
    out <- Gone(wire),
    over <- {}

-----------------------------------------------------------------------------
(* Properties                                                              *)

\* Every door of the ledger does to the numbers what the book allows, or nothing:
\* they are handed to one send at a time, shared with bytes that left only as
\* declared, and given back or left with once, though the ledger has no such book.
ImplementsNonceBook == Book!BookSpec

\* Every variable has its type; a number is burnt only while it is reserved,
\* and what left or landed is a leg.
LedgerTypeOK ==
    /\ DOMAIN jobs \subseteq RequestIds /\ jobs \in [DOMAIN jobs -> Job]
    /\ claims \subseteq Claim
    /\ reserved \in [Accounts -> SUBSET Nonces]
    /\ spent \in [Accounts -> SUBSET Nonces]
    /\ stranded \subseteq Accounts \X Nonces
    /\ lastClaim \in Nat /\ lastTicket \in Nat
    /\ tickets \subseteq Ticket
    /\ wire \subseteq Sighting
    /\ served \subseteq RequestIds
    /\ \A a \in Accounts : spent[a] \subseteq reserved[a]
    /\ \A i \in DOMAIN jobs : jobs[i].landed \subseteq jobs[i].left /\ jobs[i].left \subseteq jobs[i].nonces

\* The first half of what `audit` checks at every release of the lock: a number
\* that a claim, a live job or a leg that may have left holds is still reserved.
Containment == \A a \in Accounts : Held(jobs, claims, a) \subseteq reserved[a]

\* The claims and live jobs that hold a number without naming what they replace.
Undirected(a, n) ==
    {c.id : c \in {x \in claims : x.acct = a /\ n \in x.nonces /\ x.replaces = None}} \cup
    {jobs[i].claim : i \in {k \in DOMAIN jobs :
        /\ jobs[k].acct = a /\ n \in jobs[k].nonces
        /\ ~IsTerminal(jobs[k]) /\ jobs[k].replaces = None}}

\* The second half of what `audit` checks: at most one holder of a number is
\* not an explicit replacement.
Uniqueness ==
    \A a \in Accounts : \A n \in Nonces :
        \A x, y \in Undirected(a, n) : x = y

\* The claims and jobs that have a number and have not begun to leave with it,
\* by the claim they come from.
Pending(a, n) ==
    {c.id : c \in {x \in claims : x.acct = a /\ n \in x.nonces}} \cup
    {jobs[i].claim : i \in {k \in DOMAIN jobs :
        jobs[k].acct = a /\ HoldsLeg(jobs[k], n) /\ ~LegSpent(jobs[k], n)}}

\* More than `audit` asks, replacements included: at most one holder of a
\* number has yet to leave with it, so a pin that would collide with a send the
\* human is still reading is never granted.
OnePending ==
    \A a \in Accounts : \A n \in Nonces :
        \A x, y \in Pending(a, n) : x = y

\* The reason the ledger exists: two sends whose bytes may both have left at
\* one number of one account are a transaction and its declared replacement,
\* whatever was cancelled, overwritten, seeded or settled in between.
WireExclusive ==
    \A x, y \in wire :
        x.acct = y.acct /\ x.nonce = y.nonce /\ x.claim # y.claim
            => x.replaces # None \/ y.replaces # None

\* No silent leak: a number is taken only while something holds it, it is
\* burnt, or its loss is disclosed by `stranded`.  An account is never queued
\* behind a gap nobody can name.
NoLeak ==
    \A a \in Accounts : \A n \in reserved[a] :
        \/ n \in Held(jobs, claims, a)
        \/ n \in spent[a]
        \/ <<a, n>> \in stranded

\* One and the same job before and after a step.
SameJob(i) ==
    i \in DOMAIN jobs /\ i \in DOMAIN jobs' /\ jobs'[i].claim = jobs[i].claim

\* A job reaches exactly one terminal state: no poll, cancel or late broadcast
\* ever revises a verdict a caller was told.
OneVerdict ==
    [][\A i \in RequestIds :
        SameJob(i) /\ IsTerminal(jobs[i]) => jobs'[i].status = jobs[i].status]_ledgerVars

\* Nobody settles a job behind its broadcast: while a ticket for it is out, its
\* status moves only in the step that hands that ticket in.
OwnerAlone ==
    [][\A i \in RequestIds :
        SameJob(i) /\ jobs[i].ticket # NoTicket /\ jobs'[i].status # jobs[i].status
            => [id |-> i, ticket |-> jobs[i].ticket] \in tickets \ tickets']_ledgerVars
=============================================================================
