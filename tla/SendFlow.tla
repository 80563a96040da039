------------------------------ MODULE SendFlow ------------------------------
(***************************************************************************)
(* A send from `send` to its verdict, as rust-lib/src/glue.rs drives the   *)
(* ledger: the dispatches of send_status that race to broadcast it, the    *)
(* human behind the signer manager, the write-ahead rows of history.rs,    *)
(* the opener thread, a crash and the process that comes after it.         *)
(*                                                                         *)
(* Every outbound call is a step boundary, as nothing is locked across     *)
(* one.  External: the signer manager, the node and the chain, modelled    *)
(* from how glue.rs uses them.  Left out: prices, budgets, events, and the *)
(* verified-proxy gate, which shows as a dispatch that returns (`Hold`).   *)
(***************************************************************************)
EXTENDS Ledger

CONSTANTS
    Pollers,        \* dispatches of send_status that may run at once
    MaxCrashes,     \* bound: how often the process dies
    MaxLocks,       \* bound: how often a wallet is locked
    ReadFaults      \* TRUE: the disk may refuse the read `seed_spent` depends on

ASSUME FlowAssumption ==
    /\ MaxCrashes \in Nat /\ MaxLocks \in Nat /\ ReadFaults \in BOOLEAN

VARIABLES
    rows,       \* the history on disk
    opened,     \* accounts whose history is open
    seeding,    \* accounts the opener has burnt the rows of and not yet opened
    everOpen,   \* accounts opened since the process started
    verdict,    \* claim -> what the manager answers of its request
    poll,       \* what each dispatch is doing
    mined,      \* account -> how many of its transactions the chain holds
    past,       \* history: the rows that were over when this process started
    crashes, locks

flowVars == <<rows, opened, seeding, everOpen, verdict, poll, mined, past, crashes, locks>>
vars == <<ledgerVars, flowVars>>
diskAndWorld == <<rows, opened, seeding, everOpen, verdict, mined, past, crashes, locks>>

Verdicts == {"offered", "approved", "rejected", "lost"}
NoHash == 0
\* `hash` is the claim whose transaction the row's hash names, its leg being the
\* row's; `settled` is confirmed, failed or replaced.
Row == [claim : Nat, id : RequestIds, acct : Accounts, leg : 1..MaxLegs, nonce : Nonces,
        hash : Nat, status : {"unknown", "pending", "settled"}]
Unsettled(r) == r.status # "settled"

Idle == [pc |-> "idle"]
\* A dispatch carries the job as it read it, and past the claim its ticket and
\* the legs still to go.
Asking == [pc : {"ask", "reject", "fail", "approved", "clear"}, id : RequestIds, job : Job]
Sending == [pc : {"record", "leave", "sent", "land", "ack", "settle", "failing"},
            id : RequestIds, job : Job, ticket : Ticket, todo : SUBSET Nonces]

Least(S) == CHOOSE n \in S : \A m \in S : n <= m
At(p, pc) == poll[p].pc = pc
Goto(p, pc) == poll' = [poll EXCEPT ![p].pc = pc]
Return(p) == poll' = [poll EXCEPT ![p] = Idle]

IndexIn(j, n) == Cardinality({m \in j.nonces : m <= n})

\* The leg in hand, its index, and the number the ledger has for that index.
Leg(p) == Least(poll[p].todo)
LegIndex(p) == IndexIn(poll[p].job, Leg(p))
LedgerLeg(p) ==
    {n \in jobs[poll[p].id].nonces : IndexIn(jobs[poll[p].id], n) = LegIndex(p)}

-----------------------------------------------------------------------------
(* send: reserve, ask for approval, commit                                 *)

\* The account's nonce at the time of the quote, which the dispatch may act on
\* much later.  It counts what is mined (`latest`); eth_rpc's own read may count
\* what waits in the node's pool too, so any number of those.  A later read may be
\* lower than an earlier one: nodes differ, and a chain may be reorganised.
Readings(a) ==
    {n \in Nonces :
        \A m \in 0..n : m = n \/ m < mined[a] \/ \E w \in wire : w.acct = a /\ w.nonce = m}

\* The history was open when the dispatch looked, and may have closed since: the
\* quote refuses a pin the rows it lists show mined (Quote), but a wallet locked
\* between its two looks, or a file that is not read, lists none, so any pin may
\* get here.
OpenSend(a) ==
    /\ a \in everOpen
    /\ \/ \E n \in Readings(a), count \in 1..MaxLegs : Open(a, n, count)
       \/ \E n \in Nonces : PinFree(a, n) \/ PinSend(a, n) \/ PinDeparted(a, n)
    /\ UNCHANGED flowVars

\* The approval request failed or timed out.
DropSend(c) == Abandon(c) /\ UNCHANGED flowVars

CommitSend(c, i) == Commit(c, i) /\ UNCHANGED flowVars

\* cancel_send tells the ledger first; the manager is told as a courtesy.
CancelSend(i) == ClaimCancel(i) /\ UNCHANGED flowVars

-----------------------------------------------------------------------------
(* send_status: advance_send, up to the claim                              *)

StartPoll(p, i) ==
    /\ At(p, "idle")
    /\ i \in DOMAIN jobs
    /\ ~IsTerminal(jobs[i]) /\ jobs[i].ticket = NoTicket
    /\ poll' = [poll EXCEPT ![p] = [pc |-> "ask", id |-> i, job |-> jobs[i]]]
    /\ UNCHANGED <<ledgerVars, diskAndWorld>>

\* A hop that failed, a request still offered, a closed gate, a locked history:
\* nothing is claimed or recorded, and a later poll asks again.
Hold(p) ==
    /\ poll[p].pc \in {"ask", "approved"}
    /\ Return(p)
    /\ UNCHANGED <<ledgerVars, diskAndWorld>>

Ask(p) ==
    /\ At(p, "ask")
    /\ \E v \in {<<"approved", "approved">>, <<"rejected", "reject">>, <<"lost", "fail">>} :
        verdict[poll[p].job.claim] = v[1] /\ Goto(p, v[2])
    /\ UNCHANGED <<ledgerVars, diskAndWorld>>

\* The approval is fetched next, and a manager that has let go of the request by
\* then carries too few signatures.
FetchShort(p) ==
    /\ At(p, "approved")
    /\ verdict[poll[p].job.claim] = "lost"
    /\ Goto(p, "fail")
    /\ UNCHANGED <<ledgerVars, diskAndWorld>>

\* settle by poll: it writes unless a broadcast was claimed or a verdict fell
\* since the dispatch read the job.
SettlePolled(p) ==
    /\ poll[p].pc \in {"reject", "fail"}
    /\ LET s == IF At(p, "reject") THEN "rejected" ELSE "failed"
       IN  IF MaySettle(poll[p].id, s, NoTicket) THEN Settle(poll[p].id, s)
                                                 ELSE UNCHANGED ledgerVars
    /\ Return(p)
    /\ UNCHANGED diskAndWorld

\* The gate and the history, as late as they can be looked at.
Pass(p) ==
    /\ At(p, "approved")
    /\ poll[p].job.acct \in opened
    /\ Goto(p, "clear")
    /\ UNCHANGED <<ledgerVars, diskAndWorld>>

Claims(p) ==
    /\ At(p, "clear")
    /\ \/ /\ ClaimBroadcast(poll[p].id)
          /\ poll' = [poll EXCEPT ![p] =
                [pc |-> "record", id |-> @.id, job |-> @.job, todo |-> @.job.nonces,
                 ticket |-> [id |-> @.id, ticket |-> lastTicket']]]
       \/ /\ IsTerminal(jobs[poll[p].id]) \/ jobs[poll[p].id].ticket # NoTicket
          /\ Return(p)
          /\ UNCHANGED ledgerVars
    /\ UNCHANGED diskAndWorld

-----------------------------------------------------------------------------
(* advance_send past the claim: record, burn, broadcast, leg by leg        *)

\* Mutant: legs counted from one more than the ledger counts them from.
IntentOffByOne(p) ==
    [claim |-> poll[p].job.claim, id |-> poll[p].id, acct |-> poll[p].job.acct,
     leg |-> LegIndex(p) + 1, nonce |-> Leg(p), hash |-> NoHash, status |-> "unknown"]

Intent(p) == [claim |-> poll[p].job.claim, id |-> poll[p].id, acct |-> poll[p].job.acct,
              leg |-> LegIndex(p), nonce |-> Leg(p), hash |-> NoHash, status |-> "unknown"]

\* Mutant: any row of the leg that awaits an outcome.
OwnsRowByLeg(p, r) ==
    r.acct = poll[p].job.acct /\ r.status = "unknown" /\ r.leg = LegIndex(p)

\* Recorded::owns: a row still awaiting an outcome, found by its request and leg.
OwnsRow(p, r) ==
    /\ r.acct = poll[p].job.acct /\ r.status = "unknown"
    /\ r.id = poll[p].id /\ r.leg = LegIndex(p)

\* Mutant: a row that cannot be written does not stop the send.
RecordOrGoOn(p) ==
    /\ At(p, "record")
    /\ rows' = IF poll[p].job.acct \in opened THEN rows \cup {Intent(p)} ELSE rows
    /\ Goto(p, "leave")
    /\ UNCHANGED <<ledgerVars, opened, seeding, everOpen, verdict, mined, past, crashes, locks>>

\* WRITE AHEAD: the row is on disk before the bytes leave.
Record(p) ==
    /\ At(p, "record")
    /\ poll[p].job.acct \in opened
    /\ rows' = rows \cup {Intent(p)}
    /\ Goto(p, "leave")
    /\ UNCHANGED <<ledgerVars, opened, seeding, everOpen, verdict, mined, past, crashes, locks>>

\* Mutant: an early return that forgets the ticket it holds.
RecordFailsUnsettled(p) ==
    /\ At(p, "record")
    /\ Return(p)
    /\ UNCHANGED <<ledgerVars, diskAndWorld>>

\* The history closed since the dispatch looked, or the disk refused the row.
RecordFails(p) ==
    /\ At(p, "record")
    /\ Goto(p, "failing")
    /\ UNCHANGED <<ledgerVars, diskAndWorld>>

\* The number is burnt in memory; then the bytes go.
Leave(p) ==
    /\ At(p, "leave")
    /\ \/ /\ \E n \in LedgerLeg(p) :
                LeavingLeg(poll[p].ticket, n, Sight(poll[p].job, Leg(p)))
          /\ Goto(p, "sent")
       \/ /\ ~Owns(poll[p].ticket) \/ LedgerLeg(p) = {}
          /\ Goto(p, "failing")
          /\ UNCHANGED ledgerVars
    /\ UNCHANGED diskAndWorld

\* The node answers with a hash, and the row it belongs to becomes pending, if
\* the history is open and the row still awaits an outcome.
Answered(p) ==
    /\ At(p, "sent")
    /\ rows' = IF poll[p].job.acct \in opened
               THEN {IF OwnsRow(p, r)
                     THEN [r EXCEPT !.status = "pending", !.hash = poll[p].job.claim]
                     ELSE r : r \in rows}
               ELSE rows
    /\ Goto(p, "land")
    /\ UNCHANGED <<ledgerVars, opened, seeding, everOpen, verdict, mined, past, crashes, locks>>

\* Mutant: the legs after the one with no hash leave all the same.
UnansweredGoesOn(p) ==
    /\ At(p, "sent")
    /\ LET rest == poll[p].todo \ {Leg(p)}
       IN  poll' = [poll EXCEPT ![p].todo = rest,
                                ![p].pc = IF rest = {} THEN "failing" ELSE "record"]
    /\ UNCHANGED <<ledgerVars, diskAndWorld>>

\* An error, or a success with no hash: the row stays unknown, the legs after
\* this one never leave.
Unanswered(p) ==
    /\ At(p, "sent")
    /\ Goto(p, "failing")
    /\ UNCHANGED <<ledgerVars, diskAndWorld>>

\* Mutant: the first hash settles the bundle.
LandFirst(p) ==
    /\ At(p, "land")
    /\ IF \E n \in LedgerLeg(p) : Owns(poll[p].ticket) /\ n \in jobs[poll[p].id].left
       THEN \E n \in LedgerLeg(p) : Landed(poll[p].ticket, n)
       ELSE UNCHANGED ledgerVars
    /\ Goto(p, "ack")
    /\ UNCHANGED diskAndWorld

\* `landed` writes the hash to the job, if the ticket still owns it.
Land(p) ==
    /\ At(p, "land")
    /\ IF \E n \in LedgerLeg(p) : Owns(poll[p].ticket) /\ n \in jobs[poll[p].id].left
       THEN \E n \in LedgerLeg(p) : Landed(poll[p].ticket, n)
       ELSE UNCHANGED ledgerVars
    /\ LET rest == poll[p].todo \ {Leg(p)}
       IN  poll' = [poll EXCEPT ![p].todo = rest,
                                ![p].pc = IF rest = {} THEN "ack" ELSE "record"]
    /\ UNCHANGED diskAndWorld

\* ack_result: the manager may now forget the request.
Ack(p) ==
    /\ At(p, "ack")
    /\ verdict' = [verdict EXCEPT ![poll[p].job.claim] = "lost"]
    /\ Goto(p, "settle")
    /\ UNCHANGED <<ledgerVars, rows, opened, seeding, everOpen, mined, past, crashes, locks>>

SettleByTicket(p, pc, s) ==
    /\ At(p, pc)
    /\ IF MaySettle(poll[p].id, s, poll[p].ticket.ticket)
       THEN SettleOwned(poll[p].ticket, s) ELSE DropTicket(poll[p].ticket)
    /\ Return(p)
    /\ UNCHANGED diskAndWorld

Finish(p) == SettleByTicket(p, "settle", "broadcast")
FailOwned(p) == SettleByTicket(p, "failing", "failed")

-----------------------------------------------------------------------------
(* The opener thread                                                       *)

\* Mutant: an intent whose outcome never came back is not a pending row.
PendingNonces(a) == {<<a, r.nonce>> : r \in {x \in rows : x.acct = a /\ x.status = "pending"}}

UnsettledNonces(a) == {<<a, r.nonce>> : r \in {x \in rows : x.acct = a /\ Unsettled(x)}}

\* seed_spent(unsettled_nonces): what the disk gave is burnt, and a file it
\* would not give counts as empty.
Seed(a) ==
    /\ a \notin opened \cup seeding
    /\ \E read \in SUBSET UnsettledNonces(a) :
        /\ ReadFaults \/ read = UnsettledNonces(a)
        /\ SeedSpent(read)
    /\ seeding' = seeding \cup {a}
    /\ UNCHANGED <<rows, opened, everOpen, verdict, poll, mined, past, crashes, locks>>

\* An old file could not be moved to the new key.
OpenFails(a) ==
    /\ a \in seeding
    /\ seeding' = seeding \ {a}
    /\ UNCHANGED <<ledgerVars, rows, opened, everOpen, verdict, poll, mined, past, crashes, locks>>

OpenHistory(a) ==
    /\ a \in seeding
    /\ seeding' = seeding \ {a}
    /\ opened' = opened \cup {a}
    /\ everOpen' = everOpen \cup {a}
    /\ UNCHANGED <<ledgerVars, rows, verdict, poll, mined, past, crashes, locks>>

LockWallet(a) ==
    /\ a \in opened /\ locks < MaxLocks
    /\ opened' = opened \ {a}
    /\ locks' = locks + 1
    /\ UNCHANGED <<ledgerVars, rows, seeding, everOpen, verdict, poll, mined, past, crashes>>

-----------------------------------------------------------------------------
(* Around the module                                                       *)

\* The human decides, once.
Decide(c, v) ==
    /\ \E i \in DOMAIN jobs : jobs[i].claim = c
    /\ verdict[c] = "offered"
    /\ verdict' = [verdict EXCEPT ![c] = v]
    /\ UNCHANGED <<ledgerVars, rows, opened, seeding, everOpen, poll, mined, past, crashes, locks>>

\* The manager restarts, or the request expires.
Forget(c) ==
    /\ \E i \in DOMAIN jobs : jobs[i].claim = c
    /\ verdict[c] \in {"offered", "approved"}
    /\ verdict' = [verdict EXCEPT ![c] = "lost"]
    /\ UNCHANGED <<ledgerVars, rows, opened, seeding, everOpen, poll, mined, past, crashes, locks>>

\* The chain takes the next number, if a transaction that left carries it.
Mine(a) ==
    /\ \E w \in wire : w.acct = a /\ w.nonce = mined[a]
    /\ mined' = [mined EXCEPT ![a] = @ + 1]
    /\ UNCHANGED <<ledgerVars, rows, opened, seeding, everOpen, verdict, poll, past, crashes, locks>>

\* A sweep settles a pending row: the transaction its hash names was mined, or
\* the chain is past its number.
Sweep(r) ==
    /\ r.acct \in opened
    /\ r.status = "pending"
    /\ \E x \in rows :
        /\ x.acct = r.acct /\ x.nonce < mined[r.acct]
        /\ x.nonce = r.nonce \/ (x.claim = r.hash /\ x.leg = r.leg)
    /\ rows' = (rows \ {r}) \cup {[r EXCEPT !.status = "settled"]}
    /\ UNCHANGED <<ledgerVars, opened, seeding, everOpen, verdict, poll, mined, past, crashes, locks>>

\* The process dies.  Rows, the chain and the manager outlive it; the next
\* process starts from an empty ledger, its histories closed.  lastClaim only
\* keeps the claims of two processes apart.
Crash ==
    /\ crashes < MaxCrashes
    /\ crashes' = crashes + 1
    /\ jobs' = [i \in {} |-> FALSE] /\ claims' = {} /\ tickets' = {} /\ stranded' = {}
    /\ reserved' = [a \in Accounts |-> {}] /\ spent' = [a \in Accounts |-> {}]
    /\ poll' = [p \in Pollers |-> Idle]
    /\ opened' = {} /\ seeding' = {} /\ everOpen' = {}
    /\ past' = {r \in rows : ~Unsettled(r)}
    /\ UNCHANGED <<lastClaim, lastTicket, wire, served, rows, verdict, mined, locks>>

-----------------------------------------------------------------------------
Init ==
    /\ LedgerInit
    /\ rows = {} /\ opened = {} /\ seeding = {} /\ everOpen = {}
    /\ verdict = [c \in 1..MaxClaims |-> "offered"]
    /\ poll = [p \in Pollers |-> Idle]
    /\ mined = [a \in Accounts |-> 0] /\ past = {}
    /\ crashes = 0 /\ locks = 0

PollStep(p) ==
    \/ Ask(p) \/ FetchShort(p) \/ SettlePolled(p) \/ Claims(p)
    \/ Record(p) \/ RecordFails(p) \/ Leave(p) \/ Land(p) \/ Ack(p)
    \/ Finish(p) \/ FailOwned(p)

NodeAnswers(p) == Answered(p) \/ Unanswered(p)

Next ==
    \/ \E a \in Accounts :
        \/ OpenSend(a) \/ Seed(a) \/ OpenHistory(a) \/ OpenFails(a)
        \/ LockWallet(a) \/ Mine(a)
    \/ \E c \in claims : DropSend(c) \/ \E i \in RequestIds : CommitSend(c, i)
    \/ \E i \in RequestIds : CancelSend(i)
    \/ \E p \in Pollers :
        \/ \E i \in RequestIds : StartPoll(p, i)
        \/ Hold(p) \/ Pass(p) \/ PollStep(p) \/ NodeAnswers(p)
    \/ \E c \in 1..MaxClaims : Forget(c) \/ \E v \in {"approved", "rejected"} : Decide(c, v)
    \/ \E r \in rows : Sweep(r)
    \/ Crash

Spec == Init /\ [][Next]_vars

\* What the consumer, the manager, the node and the opener are assumed to do:
\* send_status is called again and again, a dispatch runs on, the node answers
\* a broadcast in the end (the one call without a deadline), and if the manager
\* keeps being asked, the gate looked at and the history opened, these do not
\* fail for ever.  Nothing says that the human decides, or that nothing closes.
Fairness ==
    /\ \A p \in Pollers :
        /\ \A i \in RequestIds : WF_vars(StartPoll(p, i))
        /\ SF_vars(Ask(p)) /\ SF_vars(Pass(p))
        /\ WF_vars(PollStep(p)) /\ WF_vars(NodeAnswers(p))
    /\ \A a \in Accounts : WF_vars(Seed(a)) /\ SF_vars(OpenHistory(a))

FairSpec == Spec /\ Fairness

-----------------------------------------------------------------------------
(* The numbers, from process to process                                    *)

\* An entry of the book whose transaction `rs` has as over.
Over(rs, e) ==
    \E r \in rs : ~Unsettled(r) /\ r.claim = e.claim /\ r.acct = e.acct /\ r.nonce = e.nonce

\* What left and was not over when this process started, and what of it is over.
Outstanding == {e \in Gone(wire) : ~Over(past, e)}
OverNow == {e \in Outstanding : Over(rows, e)}

FlowBook == INSTANCE NonceBook WITH
    granted <- lastClaim,
    hand <- InHand(jobs, claims),
    out <- Outstanding,
    over <- OverNow

-----------------------------------------------------------------------------
(* Properties                                                              *)

\* Every variable has its type.
TypeOK ==
    /\ LedgerTypeOK
    /\ rows \subseteq Row
    /\ opened \subseteq Accounts /\ seeding \subseteq Accounts /\ everOpen \subseteq Accounts
    /\ verdict \in [1..MaxClaims -> Verdicts]
    /\ poll \in [Pollers -> {Idle} \cup Asking \cup Sending]
    /\ mined \in [Accounts -> Nat] /\ past \subseteq Row

\* Bytes never leave without evidence: whatever may be on the wire, from any
\* process, is a row on disk, so a process that starts after a crash can see it.
WriteAhead ==
    \A w \in wire : \E r \in rows :
        r.claim = w.claim /\ r.acct = w.acct /\ r.nonce = w.nonce

\* Before any send can reach an account, what an earlier process left unsettled
\* is burnt: the numbers of an open account's unsettled rows cannot be handed
\* out.  A row a live dispatch has just written is its own, still reserved.
BurntBeforeOpen ==
    \A r \in rows :
        Unsettled(r) /\ r.acct \in everOpen => r.nonce \in reserved[r.acct]

\* A leg about to leave has not left before: neither a second dispatch nor a later
\* poll repeats a broadcast (claim_broadcast, advance_send).
SentOnce ==
    \A p \in Pollers :
        poll[p].pc \in {"record", "leave"} => Sight(poll[p].job, Leg(p)) \notin wire

\* A cancel the caller was told of is final: no byte of that send ever leaves,
\* whatever poll was under way.
CancelledNeverLeaves ==
    \A i \in DOMAIN jobs :
        jobs[i].status \in {"cancelled", "rejected"} =>
            \A w \in wire : w.claim # jobs[i].claim

\* Legs leave in order, and the first that gets no hash stops the rest.
InOrder ==
    \A i \in DOMAIN jobs : \A n \in jobs[i].left :
        \A m \in jobs[i].nonces : m < n => m \in jobs[i].landed

\* `broadcast` says every leg was handed to the chain and answered.
BroadcastMeansAll ==
    \A i \in DOMAIN jobs : jobs[i].status = "broadcast" => jobs[i].landed = jobs[i].nonces

\* A number whose bytes may have left in this process is burnt: what the
\* Leaving proof is said to be.
BytesBurn ==
    \A p \in Pollers : At(p, "sent") => Leg(p) \in spent[poll[p].job.acct]

\* The numbers stay one book from process to process: what a crash forgets is given
\* back, what was over by then may be handed out again, and what left and was not
\* is never handed out undeclared, whatever the node answers and whichever pin the
\* quote lets through (seed_spent, open_histories).
KeepsNonceBook == FlowBook!BookSpec

\* A row's hash names that row's own transaction, so a receipt settles the row
\* of the bytes it is about.
HashNamesItsRow == \A r \in rows : r.hash \in {NoHash, r.claim}

\* A send the human decided does not hang: given polls, a node that answers and
\* a history and gate that open again, it settles.
DecidedSettles ==
    \A c \in 1..MaxClaims :
        (\E i \in DOMAIN jobs : jobs[i].claim = c /\ verdict[c] # "offered")
            ~> (\A i \in DOMAIN jobs : jobs[i].claim = c => IsTerminal(jobs[i]))
=============================================================================
