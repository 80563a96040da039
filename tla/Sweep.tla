-------------------------------- MODULE Sweep --------------------------------
(***************************************************************************)
(* How the rows of one account settle: the receipt sweep behind `history`  *)
(* and `refresh_pending`, and the refresh of one row, as rust-lib/src/     *)
(* glue.rs runs them over history.rs, several at once.                     *)
(*                                                                         *)
(* A row is written as an intent before its bytes leave, and turns pending *)
(* when the node answers with a hash; then its status, its last poll, the  *)
(* winner it names and the figures of its receipt move.  Every read goes   *)
(* out holding nothing, so each is a step, and every edit of the file is   *)
(* one step under history.rs's lock; what settle_superseded read and what  *)
(* it writes are two.  External: the chains, which mine one transaction at *)
(* a number, an account's numbers in order, and may mine one this history  *)
(* does not hold; the node, the gate and the disk, as what they answer.    *)
(***************************************************************************)
EXTENDS Receipts

CONSTANTS
    Rows,           \* the rows of the account, oldest first: 1, 2, ...
    ChainOf, NonceOf, SentAt, ValueOf,      \* SentAt: when its intent was written
    Sweepers, Refreshers,
    ReceiptIf,      \* row -> its receipt, if it is mined
    Foreign,        \* a transaction this history does not hold
    SweepMax,       \* SWEEP_MAX
    ReplacedAfter,  \* REPLACED_AFTER_SECS
    Fast, Slow, Horizon,    \* the ages at which poll_interval_secs changes, and ends
    MaxTime,        \* bound: the clock
    MaxLag          \* how many of its transactions a node may not have seen yet

ASSUME SweepAssumption ==
    /\ Rows \subseteq Nat \ {0} /\ IsFiniteSet(Rows) /\ Foreign \notin Rows
    /\ NonceOf \in [Rows -> Nat] /\ SentAt \in [Rows -> Nat] /\ ValueOf \in [Rows -> Nat]
    /\ \A r \in Rows :
          /\ ReceiptIf[r].status \in {"0x0", "0x1"}
          /\ ReceiptIf[r].logs \in Seq(ToSet(ReceiptIf[r].logs))
    /\ TransfersMax \in Nat
    /\ ReplacedAfter \in Nat /\ Fast \in Nat /\ Slow \in Nat /\ Horizon \in Nat
    /\ SweepMax \in Nat \ {0} /\ MaxTime \in Nat /\ MaxLag \in Nat

VARIABLES
    now,
    chain,          \* chain -> what it mined for the account, in order of number
    disk,           \* row -> what the history file says of it
    told,           \* row -> how often tx_status_changed was emitted for it
    job,            \* sweep or refresh -> what it is doing
    dismissed       \* rows a reply showed and said no poll could move, and that nobody
                    \* was told of since

vars == <<now, chain, disk, told, job, dismissed>>

Chains == {ChainOf[r] : r \in Rows}
Mined == {[tx |-> r, receipt |-> ReceiptIf[r]] : r \in Rows} \cup {[tx |-> Foreign, receipt |-> Null]}
Settled == {"confirmed", "failed", "replaced"}
NoWinner == 0

-----------------------------------------------------------------------------
(* When a row is polled                                                    *)

\* poll_interval_secs: how long until the next poll, longer with age.
Interval(age) == CASE age <= Fast -> 1 [] age <= Slow -> 2 [] OTHER -> 3
Age(r, at) == IF at >= disk[r].born THEN at - disk[r].born ELSE 0
Within(r, at) == Age(r, at) <= Horizon

\* A row never polled: long enough ago to be due.
Never == 0 - Interval(Horizon)

IsLive(r, at) == disk[r].status = "pending" /\ Within(r, at)
IsDue(r, at) == Within(r, at) /\ at >= disk[r].polled + Interval(Age(r, at))

\* pending_due: newest first, at most SweepMax.
Due(at) == {r \in Rows : disk[r].status = "pending" /\ IsDue(r, at)}
PendingDue(at) == {r \in Due(at) : Cardinality({s \in Due(at) : s > r}) < SweepMax}
Newest(S) == CHOOSE r \in S : \A s \in S : s <= r

-----------------------------------------------------------------------------
(* history.rs, each an edit under its lock.  An edit whose write fails     *)
(* leaves the file as it was and announces nothing.                        *)

\* What is told is what moved: no more, no less.
Announce(moved) ==
    /\ told' = [r \in Rows |-> IF r \in moved THEN told[r] + 1 ELSE told[r]]
    /\ dismissed' = dismissed \ moved

Quiet == UNCHANGED <<told, dismissed>>
Refuse == UNCHANGED disk /\ Quiet

\* Mutant: a missing receipt is written down as a status.
ApplyAnyStatus(r, receipt, at) ==
    /\ disk' = [disk EXCEPT ![r].polled = at, ![r].status = Classify(receipt)]
    /\ Announce(IF Classify(receipt) # disk[r].status THEN {r} ELSE {})

\* Mutant: every settling receipt is announced, the second as the first.
ApplyAloud(r, receipt, at) ==
    IF Classify(receipt) = "pending"
    THEN disk' = [disk EXCEPT ![r].polled = at] /\ Quiet
    ELSE /\ disk' = [disk EXCEPT ![r].polled = at, ![r].status = Classify(receipt),
                                 ![r].figures = Absorbed(receipt, ValueOf[r])]
         /\ Announce({r})

\* apply_receipt: always stamps the poll; a receipt settles the row, whatever it said.
ApplyReceipt(r, receipt, at) ==
    IF Classify(receipt) = "pending"
    THEN disk' = [disk EXCEPT ![r].polled = at] /\ Quiet
    ELSE /\ disk' = [disk EXCEPT ![r].polled = at, ![r].status = Classify(receipt),
                                 ![r].figures = Absorbed(receipt, ValueOf[r])]
         /\ Announce(IF Classify(receipt) # disk[r].status THEN {r} ELSE {})

\* settle_replaced: only a row that is pending still.
SettleReplaced(r, at) ==
    IF disk[r].status = "pending"
    THEN disk' = [disk EXCEPT ![r].polled = at, ![r].status = "replaced"] /\ Announce({r})
    ELSE Refuse

SameNumber(r, w) == ChainOf[r] = ChainOf[w] /\ NonceOf[r] = NonceOf[w]
MinedRows == {w \in Rows : disk[w].status \in {"confirmed", "failed"}}

\* settle_superseded, by the mined rows it read under a lock of their own: what
\* their numbers replaced, and the name of the winner where an earlier read of the
\* chain settled a row with none.
SettleSuperseded(won) ==
    LET at(r) == {w \in won : SameNumber(r, w)}
        moved == {r \in Rows : disk[r].status = "pending" /\ at(r) # {} /\ Newest(at(r)) # r}
        named == {r \in Rows : disk[r].status = "replaced" /\ disk[r].by = NoWinner
                               /\ at(r) # {}}
    IN  /\ disk' = [r \in Rows |->
                      IF r \in moved \cup named
                      THEN [disk[r] EXCEPT !.status = "replaced", !.by = Newest(at(r))]
                      ELSE disk[r]]
        /\ Announce(moved)

-----------------------------------------------------------------------------
(* What a node answers                                                     *)

Count(c, lag) == IF Len(chain[c]) >= lag THEN Len(chain[c]) - lag ELSE 0
Lags == 0..MaxLag

\* eth_getTransactionCount at `latest`.
Latest(c) == {Count(c, lag) : lag \in Lags}

\* A receipt names its own transaction's; null while the node has none.
ReceiptOf(r, lag) ==
    IF NonceOf[r] < Count(ChainOf[r], lag) /\ chain[ChainOf[r]][NonceOf[r] + 1].tx = r
    THEN chain[ChainOf[r]][NonceOf[r] + 1].receipt ELSE Null

NoAnswer == [status |-> "error"]
Answers(r) == {ReceiptOf(r, lag) : lag \in Lags} \cup {NoAnswer}

\* The clock, the sends and the chains.
Tick == now < MaxTime /\ now' = now + 1 /\ UNCHANGED <<chain, disk, told, job, dismissed>>

Recorded(r) == disk[r].status # "none"

\* record_intent: the row goes down before its bytes leave, with no hash.
Record(r) ==
    /\ ~Recorded(r) /\ SentAt[r] = now
    /\ disk' = [disk EXCEPT ![r].status = "unknown", ![r].born = now]
    /\ UNCHANGED <<now, chain, told, job, dismissed>>

\* Mutant: the row turns pending and nobody is told.
ResolveUntold(r) ==
    /\ disk[r].status = "unknown"
    /\ disk' = [disk EXCEPT ![r].status = "pending", ![r].born = now]
    /\ UNCHANGED <<now, chain, told, job, dismissed>>

\* resolve_broadcast, and its announcement: the node answered with a hash, and the
\* row is polled from here on.  A row whose answer is an error, or whose write is
\* refused, is never resolved.
Resolve(r) ==
    /\ disk[r].status = "unknown"
    /\ disk' = [disk EXCEPT ![r].status = "pending", ![r].born = now]
    /\ Announce({r})
    /\ UNCHANGED <<now, chain, job>>

\* The next number of the account is mined: by one of ours, resolved or not, or by
\* another's.
Mine(c) ==
    /\ \E r \in Rows : ChainOf[r] = c /\ NonceOf[r] = Len(chain[c])
    /\ \E m \in Mined :
          /\ m.tx \in Rows => /\ Recorded(m.tx)
                               /\ ChainOf[m.tx] = c /\ NonceOf[m.tx] = Len(chain[c])
          /\ chain' = [chain EXCEPT ![c] = Append(@, m)]
    /\ UNCHANGED <<now, disk, told, job, dismissed>>

-----------------------------------------------------------------------------
(* sweep                                                                   *)

Idle == [pc |-> "idle"]
Unread == -1
NoReading == -2
world == <<now, chain>>

Has(p, pc) == job[p].pc = pc
InHand(p) == Newest(job[p].todo)
ChainInHand(p) == ChainOf[InHand(p)]
Drop(p) == [job[p] EXCEPT !.pc = "row", !.todo = @ \ {InHand(p)}]
DropChain(p) == [job[p] EXCEPT !.pc = "row", !.todo = {r \in @ : ChainOf[r] # ChainInHand(p)}]

Begin(p) ==
    /\ Has(p, "idle")
    /\ job' = [job EXCEPT ![p] = [pc |-> "first", at |-> now, todo |-> {}, got |-> Null, won |-> MinedRows,
                                  open |-> {}, erred |-> {}, seen |-> [c \in Chains |-> Unread]]]
    /\ UNCHANGED <<disk, told, dismissed, world>>

\* The edit of settle_superseded, and what the sweep does after it: at its start,
\* and after each row that moved.
Supersede(p, pc, next) ==
    /\ Has(p, pc)
    /\ SettleSuperseded(job[p].won) \/ Refuse
    /\ job' = [job EXCEPT ![p].pc = next, ![p].won = {}]
    /\ UNCHANGED world

\* Its read, after a row that moved: that row's number is spent for the others too.
FindMined(p) ==
    /\ Has(p, "moved")
    /\ job' = [job EXCEPT ![p].pc = "again", ![p].won = MinedRows]
    /\ UNCHANGED <<disk, told, dismissed, world>>

Collect(p) ==
    /\ Has(p, "collect")
    /\ job' = [job EXCEPT ![p].pc = "row", ![p].todo = PendingDue(job[p].at)]
    /\ UNCHANGED <<disk, told, dismissed, world>>

AtRow(p) == Has(p, "row") /\ job[p].todo # {}
IsOpen(p) == ChainInHand(p) \in job[p].open
Old(p) == Age(InHand(p), job[p].at) > ReplacedAfter

\* The verdict is read once a chain; a blocking one skips every row of it.
ReadGate(p) ==
    /\ AtRow(p) /\ ~IsOpen(p)
    /\ \/ job' = [job EXCEPT ![p].open = @ \cup {ChainInHand(p)}]
       \/ job' = [job EXCEPT ![p] = DropChain(p)]
    /\ UNCHANGED <<disk, told, dismissed, world>>

\* What the chain mined for the account, once a chain, for the first row past
\* the fast polls: before the receipt of that row or of any after it.
ReadMined(p) ==
    /\ AtRow(p) /\ IsOpen(p) /\ Old(p)
    /\ job[p].seen[ChainInHand(p)] = Unread
    /\ \E n \in Latest(ChainInHand(p)) \cup {NoReading} :
          job' = [job EXCEPT ![p].seen[ChainInHand(p)] = n]
    /\ UNCHANGED <<disk, told, dismissed, world>>

AtReceipt(p) == AtRow(p) /\ IsOpen(p) /\ (Old(p) => job[p].seen[ChainInHand(p)] # Unread)

\* The sweep's allowance is spent.
Stop(p) ==
    /\ AtReceipt(p)
    /\ job' = [job EXCEPT ![p].todo = {}]
    /\ UNCHANGED <<disk, told, dismissed, world>>

ReadReceipt(p) ==
    /\ AtReceipt(p)
    /\ \E a \in Answers(InHand(p)) : job' = [job EXCEPT ![p].pc = "apply", ![p].got = a]
    /\ UNCHANGED <<disk, told, dismissed, world>>

\* Mutant: the chain is asked after the receipt.
PassedLate(p) == Old(p) /\ Len(chain[ChainInHand(p)]) > NonceOf[InHand(p)]

\* The chain is past the row's number, as read before its receipt was.
Passed(p) == Old(p) /\ job[p].seen[ChainInHand(p)] > NonceOf[InHand(p)]

\* An error is never a status: the stamp alone.  The second in a row drops the
\* chain for the rest of the sweep.
ApplyError(p) ==
    /\ Has(p, "apply") /\ job[p].got = NoAnswer
    /\ ApplyReceipt(InHand(p), Null, job[p].at) \/ Refuse
    /\ job' = [job EXCEPT ![p] =
          [(IF ChainInHand(p) \in job[p].erred THEN DropChain(p) ELSE Drop(p))
             EXCEPT !.erred = @ \cup {ChainInHand(p)}, !.got = Null]]
    /\ UNCHANGED world

Answered(p) == [Drop(p) EXCEPT !.erred = @ \ {ChainInHand(p)}, !.got = Null]

\* No receipt, and the number is spent: another transaction took it.
ApplyPassed(p) ==
    /\ Has(p, "apply") /\ job[p].got = Null /\ Passed(p)
    /\ SettleReplaced(InHand(p), job[p].at) \/ Refuse
    /\ job' = [job EXCEPT ![p] = Answered(p)]
    /\ UNCHANGED world

Apply(p) ==
    /\ Has(p, "apply") /\ job[p].got # NoAnswer /\ ~(job[p].got = Null /\ Passed(p))
    /\ ApplyReceipt(InHand(p), job[p].got, job[p].at) \/ Refuse
    /\ job' = [job EXCEPT ![p] =
          IF told' = told THEN Answered(p) ELSE [Answered(p) EXCEPT !.pc = "moved"]]
    /\ UNCHANGED world

\* The rows of one chain, or of all, and whether a poll could still move one of
\* them: what a caller's timer stops on.
Reply(p) ==
    /\ Has(p, "row") /\ job[p].todo = {}
    /\ \E C \in {Chains} \cup {{c} : c \in Chains} :
          LET shown == {r \in Rows : Recorded(r) /\ ChainOf[r] \in C} IN
          dismissed' = IF \E r \in shown : IsLive(r, now) THEN dismissed
                                                          ELSE dismissed \cup shown
    /\ job' = [job EXCEPT ![p] = Idle]
    /\ UNCHANGED <<now, chain, disk, told>>

-----------------------------------------------------------------------------
(* refresh_tx_status                                                       *)

Refresh(p, r) ==
    /\ Has(p, "idle")
    /\ Recorded(r) /\ disk[r].status # "unknown"
    /\ job' = [job EXCEPT ![p] = [pc |-> "fetch", todo |-> {r}, got |-> Null]]
    /\ UNCHANGED <<disk, told, dismissed, world>>

\* A closed gate, an answer that is none: nothing is touched.
Fetch(p) ==
    /\ Has(p, "fetch")
    /\ \/ job' = [job EXCEPT ![p] = Idle]
       \/ \E a \in Answers(InHand(p)) \ {NoAnswer} :
             job' = [job EXCEPT ![p].pc = "store", ![p].got = a]
    /\ UNCHANGED <<disk, told, dismissed, world>>

Store(p) ==
    /\ Has(p, "store")
    /\ ApplyReceipt(InHand(p), job[p].got, now) \/ Refuse
    /\ job' = [job EXCEPT ![p] = Idle]
    /\ UNCHANGED world

-----------------------------------------------------------------------------

Init ==
    /\ now = 0
    /\ chain = [c \in Chains |-> <<>>]
    /\ disk = [r \in Rows |-> [status |-> "none", born |-> 0, polled |-> Never, by |-> NoWinner,
                                figures |-> NoFigures]]
    /\ told = [r \in Rows |-> 0]
    /\ job = [p \in Sweepers \cup Refreshers |-> Idle]
    /\ dismissed = {}

SweepStep(p) ==
    \/ Begin(p) \/ Supersede(p, "first", "collect") \/ Collect(p)
    \/ ReadGate(p) \/ ReadMined(p) \/ Stop(p) \/ ReadReceipt(p)
    \/ ApplyError(p) \/ ApplyPassed(p) \/ Apply(p)
    \/ FindMined(p) \/ Supersede(p, "again", "row") \/ Reply(p)

Next ==
    \/ Tick
    \/ \E r \in Rows : Record(r) \/ Resolve(r)
    \/ \E c \in Chains : Mine(c)
    \/ \E p \in Sweepers : SweepStep(p)
    \/ \E p \in Refreshers : (\E r \in Rows : Refresh(p, r)) \/ Fetch(p) \/ Store(p)

Spec == Init /\ [][Next]_vars

-----------------------------------------------------------------------------
(* Properties                                                              *)

IsMined(r) == ReceiptOf(r, 0) # Null

\* A row settled as replaced was never mined, its number was taken by another
\* transaction, and a winner it names is that transaction (settle_replaced,
\* settle_superseded; the chain read before the receipt in `sweep`).  As far as
\* MaxLag is 0: reads of one chain are not answered by nodes behind one another.
ReplacedWasReplaced ==
    \A r \in Rows : disk[r].status = "replaced" =>
        /\ ~IsMined(r) /\ Len(chain[ChainOf[r]]) > NonceOf[r]
        /\ disk[r].by # NoWinner => SameNumber(r, disk[r].by) /\ IsMined(disk[r].by)

\* A row that settled stays so, whatever older answer a slower sweep or refresh
\* still brings home (apply_receipt, settle_replaced).
SettledStays ==
    [][\A r \in Rows : disk[r].status \in Settled => disk'[r].status = disk[r].status]_vars

\* The event goes out once for each move of a row that reached the disk, and for
\* nothing else, however many sweeps saw the same receipt.
ToldAsMoved ==
    [][\A r \in Rows : told'[r] = told[r]
          + (IF Recorded(r) /\ disk'[r].status # disk[r].status THEN 1 ELSE 0)]_vars

\* What a row lists of the logs in a set: all of them counted and none made up,
\* and nobody else's before the account's own.
Lists(d, logs, which, own) ==
    LET shown == {d.kept[k] : k \in DOMAIN d.kept}
    IN  /\ Len(d.kept) + d.more = Cardinality({i \in DOMAIN logs : logs[i] \in which})
        /\ d.more > 0 => Len(d.kept) = TransfersMax
        /\ shown \subseteq which
        /\ which \cap own \subseteq shown \/ shown \subseteq own

\* A mined row keeps the figures of its receipt: the transfers as above, and no
\* total for a transaction that failed.
RowTellsReceipt ==
    \A r \in Rows : disk[r].status \in {"confirmed", "failed"} =>
        LET receipt == chain[ChainOf[r]][NonceOf[r] + 1].receipt
            f == disk[r].figures
        IN  /\ disk[r].status = Classify(receipt)
            /\ f.total # None => disk[r].status = "confirmed" /\ f.total = ValueOf[r] + f.fee
            /\ Lists(f.transfers, receipt.logs, Tokens(receipt.logs), Sent(receipt.logs))
            /\ Lists(f.native, receipt.logs, Natives(receipt.logs), Touched(receipt.logs))

\* No timer that stopped on a reply leaves a row behind: a row shown by a reply that
\* said no poll could move anything is due again only if it was told of since, as an
\* intent is when the node's hash reaches it (history_reply and has_live against
\* resolve_broadcast and pending_due).
IdleMeansOver == dismissed \cap Due(now) = {}
=============================================================================
