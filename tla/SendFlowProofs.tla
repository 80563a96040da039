--------------------------- MODULE SendFlowProofs ---------------------------
(* Machine-checked facts about SendFlow, for every value of its constants.  *)
EXTENDS SendFlow, LedgerProofs, FiniteSetTheorems

-----------------------------------------------------------------------------
(* The legs of a send                                                      *)

LEMMA NoncesFinite == IsFiniteSet(Nonces) /\ Nonces \subseteq Nat
BY LedgerAssumption, FS_Interval DEF Nonces

\* Of any numbers, one is the least.
LEMMA LeastIs ==
    ASSUME NEW S \in SUBSET Nonces, S # {}
    PROVE  Least(S) \in S /\ \A m \in S : Least(S) <= m
<1> DEFINE UpTo(n) == {m \in Nonces : m <= n}
           below == {UpTo(n) : n \in S}
           less == StrictSubsetOrdering(Nonces)
<1>1. IsFiniteSet(Nonces) /\ Nonces \subseteq Nat
  BY NoncesFinite
<1>2. below \subseteq FiniteSubsetsOf(Nonces) /\ below # {}
  <2>1. FiniteSubsetsOf(Nonces) = SUBSET Nonces
    BY <1>1, FS_FiniteSubsetsOfFinite
  <2>2. below \subseteq SUBSET Nonces /\ below # {}
    OBVIOUS
  <2> HIDE DEF below
  <2> QED BY <2>1, <2>2
<1>3. PICK A \in below : \A B \in below : ~(<<B, A>> \in less)
  <2> HIDE DEF below
  <2> QED BY <1>2, WFMin, FS_StrictSubsetOrderingWellFounded
<1>4. PICK n \in S : A = UpTo(n)
  OBVIOUS
<1>5. ASSUME NEW m \in S PROVE n <= m
  <2> SUFFICES ASSUME ~(n <= m) PROVE FALSE
    OBVIOUS
  <2>1. m \in Nat /\ n \in Nat
    BY <1>1
  <2>2. n \in UpTo(n) /\ n \notin UpTo(m) /\ UpTo(m) \subseteq UpTo(n)
    <3>1. n \in UpTo(n) /\ n \notin UpTo(m)
      BY <2>1
    <3>2. ASSUME NEW k \in UpTo(m) PROVE k \in UpTo(n)
      <4>1. k \in Nat /\ k <= m
        BY <1>1
      <4> QED BY <2>1, <4>1
    <3> QED BY <3>1, <3>2
  <2>3. <<UpTo(m), A>> \in less
    BY <1>4, <2>2 DEF StrictSubsetOrdering
  <2> QED BY <1>3, <2>3
<1> QED
  BY <1>5 DEF Least

\* A leg's index counts the legs up to it.
LEMMA IndexIs ==
    ASSUME NEW j, j.nonces \in SUBSET Nonces, NEW n \in j.nonces
    PROVE  /\ IndexIn(j, n) \in 1..Cardinality(j.nonces)
           /\ \A m \in j.nonces : IndexIn(j, m) = IndexIn(j, n) => m = n
<1> DEFINE N == j.nonces
           UpTo(m) == {k \in N : k <= m}
<1>1. IsFiniteSet(N) /\ N \subseteq Nat
  BY NoncesFinite, FS_Subset
<1>2. \A m \in N : /\ IsFiniteSet(UpTo(m)) /\ Cardinality(UpTo(m)) \in Nat
                   /\ Cardinality(UpTo(m)) <= Cardinality(N)
  BY <1>1, FS_Subset, FS_CardinalityType
<1>3. \A m \in N : Cardinality(UpTo(m)) # 0
  <2>1. \A m \in N : m \in UpTo(m)
    BY <1>1
  <2> QED
    BY <1>2, <2>1, FS_EmptySet
<1>4. \A k, m \in N : k < m => Cardinality(UpTo(k)) # Cardinality(UpTo(m))
  <2> SUFFICES ASSUME NEW k \in N, NEW m \in N, k < m,
                      Cardinality(UpTo(k)) = Cardinality(UpTo(m))
               PROVE  FALSE
    OBVIOUS
  <2>1. UpTo(k) \in SUBSET UpTo(m) /\ m \in UpTo(m) /\ m \notin UpTo(k)
    BY <1>1
  <2> HIDE DEF UpTo
  <2> QED
    BY <1>2, <2>1, FS_Subset
<1>5. \A m \in N : IndexIn(j, m) = Cardinality(UpTo(m))
  BY DEF IndexIn
<1>6. Cardinality(N) \in Nat
  BY <1>1, FS_CardinalityType
<1> HIDE DEF UpTo
<1> QED
  BY <1>1, <1>2, <1>3, <1>4, <1>5, <1>6

-----------------------------------------------------------------------------
(* Type correctness                                                        *)

AskPcs == {"ask", "reject", "fail", "approved", "clear"}
SendPcs == {"record", "leave", "sent", "land", "ack", "settle", "failing"}
LegPcs == {"record", "leave", "sent", "land"}
Doings == {Idle} \cup Asking \cup Sending

HasLegs(ns) == ns # {} /\ Cardinality(ns) <= MaxLegs

\* Every claim and job has between one and MaxLegs legs.
Sized ==
    /\ \A c \in claims : HasLegs(c.nonces)
    /\ \A i \in DOMAIN jobs : HasLegs(jobs[i].nonces)

\* A dispatch carries such a job; while it works on a leg, there is one to go.
Legged(x) ==
    /\ x.pc # "idle" => HasLegs(x.job.nonces)
    /\ x.pc \in LegPcs => x.todo # {} /\ x.todo \subseteq x.job.nonces

FlowTyped == TypeOK /\ Sized /\ \A p \in Pollers : Legged(poll[p])

\* What one dispatch does.
Turn(p) ==
    \/ \E i \in RequestIds : StartPoll(p, i)
    \/ Hold(p) \/ Ask(p) \/ FetchShort(p) \/ SettlePolled(p) \/ Pass(p) \/ Claims(p)
    \/ Record(p) \/ RecordFails(p) \/ Leave(p) \/ Answered(p) \/ Unanswered(p)
    \/ Land(p) \/ Ack(p) \/ Finish(p) \/ FailOwned(p)

\* What happens around the dispatches.
Around ==
    \/ \E a \in Accounts :
        \/ OpenSend(a) \/ Seed(a) \/ OpenHistory(a) \/ OpenFails(a)
        \/ LockWallet(a) \/ Mine(a)
    \/ \E c \in claims : DropSend(c)
    \/ \E c \in claims, i \in RequestIds : CommitSend(c, i)
    \/ \E i \in RequestIds : CancelSend(i)
    \/ \E c \in 1..MaxClaims : Forget(c) \/ \E v \in {"approved", "rejected"} : Decide(c, v)
    \/ \E r \in rows : Sweep(r)

LEMMA NextIs == Next => Crash \/ Around \/ \E p \in Pollers : Turn(p)
BY DEF Next, Turn, Around, PollStep, NodeAnswers

LEMMA AskingIs ==
    ASSUME TypeOK, NEW p \in Pollers, poll[p].pc \in AskPcs
    PROVE  poll[p] \in Asking /\ poll[p].id \in RequestIds /\ poll[p].job \in Job
<1>1. poll[p] \in {Idle} \cup Asking \cup Sending
  BY DEF TypeOK
<1>2. poll[p] # Idle /\ poll[p] \notin Sending
  BY DEF AskPcs, Idle, Sending
<1>3. poll[p] \in Asking
  BY <1>1, <1>2
<1> QED
  BY <1>3 DEF Asking

LEMMA SendingIs ==
    ASSUME TypeOK, NEW p \in Pollers, poll[p].pc \in SendPcs
    PROVE  /\ poll[p] \in Sending /\ poll[p].id \in RequestIds /\ poll[p].job \in Job
           /\ poll[p].ticket \in Ticket /\ poll[p].todo \in SUBSET Nonces
<1>1. poll[p] \in {Idle} \cup Asking \cup Sending
  BY DEF TypeOK
<1>2. poll[p] # Idle /\ poll[p] \notin Asking
  BY DEF SendPcs, Idle, Asking
<1>3. poll[p] \in Sending
  BY <1>1, <1>2
<1> QED
  BY <1>3 DEF Sending

LEMMA DoingIs ==
    ASSUME TypeOK, NEW p \in Pollers
    PROVE  poll[p] = Idle \/ poll[p].pc \in AskPcs \/ poll[p].pc \in SendPcs
BY DEF TypeOK, Asking, Sending, AskPcs, SendPcs

\* Which leg is in hand.
LEMMA LegIs ==
    ASSUME FlowTyped, NEW p \in Pollers, poll[p].pc \in LegPcs
    PROVE  /\ Leg(p) \in poll[p].todo /\ Leg(p) \in poll[p].job.nonces /\ Leg(p) \in Nonces
           /\ \A m \in poll[p].todo : Leg(p) <= m
           /\ LegIndex(p) \in 1..MaxLegs
<1>1. /\ poll[p].job \in Job /\ poll[p].todo \in SUBSET Nonces
      /\ HasLegs(poll[p].job.nonces)
      /\ poll[p].todo # {} /\ poll[p].todo \subseteq poll[p].job.nonces
  <2>1. TypeOK /\ Legged(poll[p])
    BY DEF FlowTyped
  <2>2. poll[p].pc \in SendPcs /\ poll[p].pc # "idle"
    BY DEF SendPcs, LegPcs
  <2> QED
    BY <2>1, <2>2, SendingIs DEF Legged
<1>2. Leg(p) \in poll[p].todo /\ \A m \in poll[p].todo : Leg(p) <= m
  BY <1>1, LeastIs DEF Leg
<1>3. poll[p].job.nonces \in SUBSET Nonces
  BY <1>1 DEF Job
<1>4. LegIndex(p) \in 1..Cardinality(poll[p].job.nonces)
  BY <1>1, <1>2, <1>3, IndexIs DEF LegIndex
<1>5. Cardinality(poll[p].job.nonces) \in Nat /\ MaxLegs \in Nat
      /\ Cardinality(poll[p].job.nonces) <= MaxLegs
  BY <1>1, <1>3, NoncesFinite, FS_Subset, FS_CardinalityType, LedgerAssumption DEF HasLegs
<1> QED
  BY <1>1, <1>2, <1>3, <1>4, <1>5

\* The dispatch that acts changes its own entry alone.
LEMMA PutIs ==
    ASSUME TypeOK, NEW p \in Pollers, NEW x \in Doings, poll' = [poll EXCEPT ![p] = x]
    PROVE  /\ poll' \in [Pollers -> {Idle} \cup Asking \cup Sending] /\ poll'[p] = x
           /\ \A q \in Pollers \ {p} : poll'[q] = poll[q]
BY DEF TypeOK, Doings

LEMMA ReturnIs ==
    ASSUME TypeOK, NEW p \in Pollers, Return(p)
    PROVE  /\ poll' \in [Pollers -> {Idle} \cup Asking \cup Sending] /\ poll'[p] = Idle
           /\ \A q \in Pollers \ {p} : poll'[q] = poll[q]
BY PutIs DEF Return, Doings

LEMMA GotoAskIs ==
    ASSUME TypeOK, NEW p \in Pollers, poll[p].pc \in AskPcs, NEW pc \in AskPcs, Goto(p, pc)
    PROVE  /\ poll' \in [Pollers -> {Idle} \cup Asking \cup Sending]
           /\ poll'[p].pc = pc /\ poll'[p].id = poll[p].id /\ poll'[p].job = poll[p].job
           /\ \A q \in Pollers \ {p} : poll'[q] = poll[q]
<1> DEFINE x == [poll[p] EXCEPT !.pc = pc]
<1>1. x \in Asking /\ x.pc = pc /\ x.id = poll[p].id /\ x.job = poll[p].job
  BY AskingIs DEF Asking, AskPcs
<1>2. poll' = [poll EXCEPT ![p] = x]
  BY DEF Goto
<1> HIDE DEF x
<1> QED
  BY <1>1, <1>2, PutIs DEF Doings

LEMMA GotoSendIs ==
    ASSUME TypeOK, NEW p \in Pollers, poll[p].pc \in SendPcs, NEW pc \in SendPcs, Goto(p, pc)
    PROVE  /\ poll' \in [Pollers -> {Idle} \cup Asking \cup Sending]
           /\ poll'[p].pc = pc /\ poll'[p].id = poll[p].id /\ poll'[p].job = poll[p].job
           /\ poll'[p].ticket = poll[p].ticket /\ poll'[p].todo = poll[p].todo
           /\ \A q \in Pollers \ {p} : poll'[q] = poll[q]
<1> DEFINE x == [poll[p] EXCEPT !.pc = pc]
<1>1. /\ x \in Sending /\ x.pc = pc /\ x.id = poll[p].id /\ x.job = poll[p].job
      /\ x.ticket = poll[p].ticket /\ x.todo = poll[p].todo
  BY SendingIs DEF Sending, SendPcs
<1>2. poll' = [poll EXCEPT ![p] = x]
  BY DEF Goto
<1> HIDE DEF x
<1> QED
  BY <1>1, <1>2, PutIs DEF Doings

LEMMA StartIs ==
    ASSUME TypeOK, NEW p \in Pollers, NEW i \in RequestIds, StartPoll(p, i)
    PROVE  /\ poll' \in [Pollers -> {Idle} \cup Asking \cup Sending]
           /\ i \in DOMAIN jobs
           /\ poll'[p].pc = "ask" /\ poll'[p].id = i /\ poll'[p].job = jobs[i]
           /\ \A q \in Pollers \ {p} : poll'[q] = poll[q]
<1> DEFINE x == [pc |-> "ask", id |-> i, job |-> jobs[i]]
<1>1. i \in DOMAIN jobs /\ jobs[i] \in Job
  BY DEF StartPoll, TypeOK, LedgerTypeOK
<1>2. x \in Asking
  BY <1>1 DEF Asking
<1>3. poll' = [poll EXCEPT ![p] = x]
  BY DEF StartPoll
<1>4. x.pc = "ask" /\ x.id = i /\ x.job = jobs[i]
  OBVIOUS
<1> HIDE DEF x
<1> QED
  BY <1>1, <1>2, <1>3, <1>4, PutIs DEF Doings

\* The dispatch that claimed the broadcast holds its ticket, every leg to go.
LEMMA ClaimedIs ==
    ASSUME TypeOK, NEW p \in Pollers, At(p, "clear"),
           poll' = [poll EXCEPT ![p] =
                [pc |-> "record", id |-> @.id, job |-> @.job, todo |-> @.job.nonces,
                 ticket |-> [id |-> @.id, ticket |-> lastTicket']]],
           lastTicket' \in Nat
    PROVE  /\ poll' \in [Pollers -> {Idle} \cup Asking \cup Sending]
           /\ poll'[p].pc = "record" /\ poll'[p].id = poll[p].id /\ poll'[p].job = poll[p].job
           /\ poll'[p].ticket = [id |-> poll[p].id, ticket |-> lastTicket']
           /\ poll'[p].todo = poll[p].job.nonces
           /\ \A q \in Pollers \ {p} : poll'[q] = poll[q]
<1> DEFINE t == [id |-> poll[p].id, ticket |-> lastTicket']
           x == [pc |-> "record", id |-> poll[p].id, job |-> poll[p].job,
                 todo |-> poll[p].job.nonces, ticket |-> t]
<1>1. poll[p].id \in RequestIds /\ poll[p].job \in Job /\ poll[p].job.nonces \in SUBSET Nonces
  BY AskingIs DEF At, AskPcs, Job
<1>2. t \in Ticket
  BY <1>1 DEF Ticket
<1>3. x \in Sending
  BY <1>1, <1>2 DEF Sending
<1>4. poll' = [poll EXCEPT ![p] = x]
  BY DEF TypeOK
<1>5. /\ x.pc = "record" /\ x.id = poll[p].id /\ x.job = poll[p].job
      /\ x.ticket = t /\ x.todo = poll[p].job.nonces
  OBVIOUS
<1> HIDE DEF x
<1> QED
  BY <1>3, <1>4, <1>5, PutIs DEF Doings

LEMMA LandIs ==
    ASSUME FlowTyped, NEW p \in Pollers, Land(p)
    PROVE  LET rest == poll[p].todo \ {Leg(p)}
           IN  /\ poll' \in [Pollers -> {Idle} \cup Asking \cup Sending]
               /\ poll'[p].pc = IF rest = {} THEN "ack" ELSE "record"
               /\ poll'[p].id = poll[p].id /\ poll'[p].job = poll[p].job
               /\ poll'[p].ticket = poll[p].ticket /\ poll'[p].todo = rest
               /\ \A q \in Pollers \ {p} : poll'[q] = poll[q]
<1> DEFINE rest == poll[p].todo \ {Leg(p)}
           pc == IF rest = {} THEN "ack" ELSE "record"
           x == [poll[p] EXCEPT !.todo = rest, !.pc = pc]
<1>1. TypeOK /\ poll[p].pc \in SendPcs
  BY DEF FlowTyped, Land, At, SendPcs
<1>2. pc \in SendPcs /\ rest \in SUBSET Nonces
  BY <1>1, SendingIs DEF SendPcs
<1>3. poll' = [poll EXCEPT ![p] = x]
  BY <1>1 DEF Land, TypeOK
<1> HIDE DEF rest, pc
<1>4. /\ x \in Sending /\ x.pc = pc /\ x.id = poll[p].id /\ x.job = poll[p].job
      /\ x.ticket = poll[p].ticket /\ x.todo = rest
  BY <1>1, <1>2, SendingIs DEF Sending, SendPcs
<1> HIDE DEF x
<1>5. /\ poll' \in [Pollers -> {Idle} \cup Asking \cup Sending] /\ poll'[p] = x
      /\ \A q \in Pollers \ {p} : poll'[q] = poll[q]
  BY <1>1, <1>3, <1>4, PutIs DEF Doings
<1> QED
  BY <1>4, <1>5 DEF rest, pc

\* Everything but a crash is a step of the ledger, or leaves it alone.
LEMMA LeaveSight ==
    ASSUME FlowTyped, NEW p \in Pollers, At(p, "leave")
    PROVE  Sight(poll[p].job, Leg(p)) \in Sighting
<1>1. poll[p].job \in Job /\ Leg(p) \in Nonces
  BY LegIs, SendingIs DEF FlowTyped, At, LegPcs, SendPcs
<1> QED
  BY <1>1 DEF Sight, Sighting, Job

LEMMA TurnOfLedger ==
    ASSUME FlowTyped, NEW p \in Pollers, Turn(p)
    PROVE  [Step]_ledgerVars
<1> USE DEF At
<1>1. TypeOK /\ LedgerTypeOK
  BY DEF FlowTyped, TypeOK
<1>2. CASE SettlePolled(p)
  <2>1. poll[p].id \in RequestIds
    BY <1>1, <1>2, AskingIs DEF SettlePolled, AskPcs
  <2>2. {"rejected", "failed"} \subseteq Terminal
    BY DEF Terminal
  <2> QED
    BY <1>2, <2>1, <2>2 DEF SettlePolled, Step
<1>3. CASE Claims(p)
  <2>1. poll[p].id \in RequestIds
    BY <1>1, <1>3, AskingIs DEF Claims, AskPcs
  <2> QED
    BY <1>3, <2>1 DEF Claims, Step
<1>4. CASE Leave(p)
  <2>1. ASSUME NEW n \in LedgerLeg(p),
               LeavingLeg(poll[p].ticket, n, Sight(poll[p].job, Leg(p)))
        PROVE  Step
    <3>1. Sight(poll[p].job, Leg(p)) \in Sighting
      BY <1>4, LeaveSight DEF Leave
    <3>2. poll[p].ticket \in tickets /\ n \in Nonces
      BY <1>1, <2>1 DEF LeavingLeg, Owns, LedgerTypeOK, Job
    <3> QED
      BY <2>1, <3>1, <3>2 DEF Step
  <2> QED
    BY <1>4, <2>1 DEF Leave
<1>5. CASE Land(p)
  <2>1. ASSUME NEW n \in LedgerLeg(p), Landed(poll[p].ticket, n) PROVE Step
    <3>1. poll[p].ticket \in tickets /\ n \in Nonces
      BY <1>1, <2>1 DEF Landed, Owns, LedgerTypeOK, Job
    <3> QED
      BY <2>1, <3>1 DEF Step
  <2> QED
    BY <1>5, <2>1 DEF Land
<1>6. CASE Finish(p) \/ FailOwned(p)
  <2>1. {"broadcast", "failed"} \subseteq Terminal
    BY DEF Terminal
  <2>2. ASSUME NEW s \in Terminal, NEW pc, SettleByTicket(p, pc, s) PROVE Step
    <3>1. SettleOwned(poll[p].ticket, s) \/ DropTicket(poll[p].ticket)
      BY <2>2 DEF SettleByTicket
    <3>2. poll[p].ticket \in tickets
      BY <3>1 DEF SettleOwned, DropTicket
    <3> QED
      BY <3>1, <3>2 DEF Step
  <2> QED
    BY <1>6, <2>1, <2>2 DEF Finish, FailOwned
<1> QED
  BY <1>2, <1>3, <1>4, <1>5, <1>6
  DEF Turn, StartPoll, Hold, Ask, FetchShort, Pass, Record, RecordFails, Answered, Unanswered, Ack

LEMMA AroundOfLedger ==
    ASSUME FlowTyped, Around
    PROVE  [Step]_ledgerVars /\ poll' = poll
<1>1. CASE \E a \in Accounts : OpenSend(a)
  <2> PICK a \in Accounts : OpenSend(a)
    BY <1>1
  <2>1. Readings(a) \subseteq Nonces
    BY DEF Readings
  <2> QED
    BY <2>1 DEF OpenSend, Step, flowVars
<1>2. CASE \E a \in Accounts : Seed(a)
  <2> PICK a \in Accounts : Seed(a)
    BY <1>2
  <2>1. UnsettledNonces(a) \subseteq Accounts \X Nonces
    BY DEF UnsettledNonces, FlowTyped, TypeOK, Row
  <2> QED
    BY <2>1 DEF Seed, Step
<1>3. CASE (\E c \in claims : DropSend(c)) \/ \E c \in claims, i \in RequestIds : CommitSend(c, i)
  BY <1>3 DEF DropSend, CommitSend, Step, flowVars
<1>4. CASE \E i \in RequestIds : CancelSend(i)
  BY <1>4 DEF CancelSend, ClaimCancel, Step, flowVars, Terminal
<1> QED
  BY <1>1, <1>2, <1>3, <1>4
  DEF Around, OpenHistory, OpenFails, LockWallet, Mine, Decide, Forget, Sweep

\* The ledger gives out claims of a bundle's size, and a job keeps its claim's.
LEMMA SizedStep ==
    ASSUME LedgerTypeOK, Sized, [Step]_ledgerVars
    PROVE  Sized'
<1>1. CASE UNCHANGED ledgerVars
  BY <1>1 DEF ledgerVars, Sized
<1>2. ASSUME NEW i, Moves(i), claims' = claims PROVE Sized'
  BY <1>2 DEF Sized, Moves
<1>3. ASSUME NEW a, NEW ns, NEW r, NewClaim(a, ns, r), HasLegs(ns) PROVE Sized'
  BY <1>3 DEF Sized, NewClaim
<1>4. CASE \E a \in Accounts, n \in Nonces, count \in 1..MaxLegs : Open(a, n, count)
  <2> PICK a \in Accounts, n \in Nonces, count \in 1..MaxLegs : Open(a, n, count)
    BY <1>4
  <2> PICK run \in SUBSET Nonces : IsNextFree(a, n, count, run) /\ NewClaim(a, run, None)
    BY DEF Open
  <2>1. Cardinality(run) = count /\ count <= MaxLegs /\ count # 0
    BY LedgerAssumption DEF IsNextFree
  <2>2. HasLegs(run)
    BY <2>1, FS_EmptySet DEF HasLegs
  <2> QED
    BY <1>3, <2>2
<1>5. CASE \E a \in Accounts, n \in Nonces : PinFree(a, n) \/ PinSend(a, n) \/ PinDeparted(a, n)
  <2> PICK a \in Accounts, n \in Nonces : \E r : NewClaim(a, {n}, r)
    BY <1>5 DEF PinFree, PinSend, PinDeparted
  <2>1. HasLegs({n})
    BY FS_Singleton, LedgerAssumption DEF HasLegs
  <2> QED
    BY <1>3, <2>1
<1>6. CASE \E c \in claims, i \in RequestIds : Commit(c, i)
  BY <1>6 DEF Sized, Commit, FromClaim
<1>7. CASE \E i \in RequestIds, s \in Terminal : Settle(i, s)
  BY <1>2, <1>7, SettleMoves DEF Settle, SettleLocked
<1>8. CASE \E i \in RequestIds : ClaimBroadcast(i)
  BY <1>2, <1>8, ClaimBroadcastMoves DEF ClaimBroadcast
<1>9. CASE \/ \E t \in tickets, n \in Nonces, seen \in Sighting : LeavingLeg(t, n, seen)
           \/ \E t \in tickets, n \in Nonces : Landed(t, n)
  BY <1>2, <1>9, LeavingMoves, LandedMoves DEF LeavingLeg, Landed
<1>10. CASE \E t \in tickets, s \in Terminal : SettleOwned(t, s)
  BY <1>2, <1>10, SettleMoves DEF SettleOwned, SettleLocked
<1>11. CASE (\E c \in claims : Abandon(c)) \/ (\E t \in tickets : DropTicket(t))
            \/ \E rs \in SUBSET (Accounts \X Nonces) : SeedSpent(rs)
  BY <1>11 DEF Abandon, DropTicket, SeedSpent, Sized
<1> QED
  BY <1>1, <1>4, <1>5, <1>6, <1>7, <1>8, <1>9, <1>10, <1>11 DEF Step

\* The poll table after a dispatch acts: its own entry typed, the others as
\* they were.
PollTyped(p) ==
    /\ poll' \in [Pollers -> {Idle} \cup Asking \cup Sending]
    /\ \A q \in Pollers \ {p} : poll'[q] = poll[q]
    /\ Legged(poll'[p])

LEMMA TurnPoll ==
    ASSUME FlowTyped, LedgerTypeOK', NEW p \in Pollers, Turn(p)
    PROVE  PollTyped(p)
<1> USE DEF PollTyped, Legged
<1>1. TypeOK /\ Sized /\ Legged(poll[p])
  BY DEF FlowTyped
<1>2. CASE \E i \in RequestIds : StartPoll(p, i)
  BY <1>1, <1>2, StartIs DEF Sized, LegPcs
<1>3. CASE Return(p)
  BY <1>1, <1>3, ReturnIs DEF Idle, LegPcs
<1>4. ASSUME NEW pc \in AskPcs, poll[p].pc \in AskPcs, Goto(p, pc) PROVE PollTyped(p)
  BY <1>1, <1>4, GotoAskIs DEF AskPcs, LegPcs
<1>5. ASSUME NEW pc \in SendPcs, poll[p].pc \in SendPcs, Goto(p, pc),
             pc \in LegPcs => poll[p].pc \in LegPcs
      PROVE  PollTyped(p)
  BY <1>1, <1>5, GotoSendIs DEF SendPcs, LegPcs
<1>6. CASE Claims(p)
  <2>1. CASE Return(p)
    BY <2>1, <1>3
  <2>2. CASE ~Return(p)
    <3>1. lastTicket' \in Nat /\ At(p, "clear")
      BY <1>6 DEF LedgerTypeOK, Claims
    <3>2. poll'[p].pc = "record" /\ poll'[p].job = poll[p].job
          /\ poll'[p].todo = poll[p].job.nonces
          /\ poll' \in [Pollers -> {Idle} \cup Asking \cup Sending]
          /\ \A q \in Pollers \ {p} : poll'[q] = poll[q]
      BY <1>1, <1>6, <2>2, <3>1, ClaimedIs DEF Claims
    <3>3. HasLegs(poll[p].job.nonces)
      BY <1>1, <3>1 DEF At
    <3> QED
      BY <3>2, <3>3 DEF HasLegs
  <2> QED
    BY <2>1, <2>2
<1>7. CASE Land(p)
  <2> DEFINE rest == poll[p].todo \ {Leg(p)}
  <2>1. poll[p].pc = "land" /\ poll[p].pc \in SendPcs /\ poll[p].pc \in LegPcs
    BY <1>7 DEF Land, At, SendPcs, LegPcs
  <2>2. rest \subseteq poll[p].job.nonces /\ HasLegs(poll[p].job.nonces)
    BY <1>1, <2>1
  <2>3. /\ poll' \in [Pollers -> {Idle} \cup Asking \cup Sending]
        /\ poll'[p].pc = IF rest = {} THEN "ack" ELSE "record"
        /\ poll'[p].job = poll[p].job /\ poll'[p].todo = rest
        /\ \A q \in Pollers \ {p} : poll'[q] = poll[q]
    BY <1>7, LandIs
  <2> HIDE DEF rest
  <2> QED
    BY <2>2, <2>3 DEF LegPcs
<1> USE DEF At, AskPcs, SendPcs, LegPcs
<1>8. CASE Ask(p) \/ FetchShort(p) \/ Pass(p)
  BY <1>4, <1>8 DEF Ask, FetchShort, Pass
<1>9. CASE Record(p) \/ RecordFails(p) \/ Answered(p) \/ Unanswered(p) \/ Ack(p)
  BY <1>5, <1>9 DEF Record, RecordFails, Answered, Unanswered, Ack
<1>10. CASE Leave(p)
  BY <1>5, <1>10 DEF Leave
<1>11. CASE Hold(p) \/ SettlePolled(p) \/ Finish(p) \/ FailOwned(p)
  BY <1>3, <1>11 DEF Hold, SettlePolled, Finish, FailOwned, SettleByTicket
<1> QED
  BY <1>2, <1>6, <1>7, <1>8, <1>9, <1>10, <1>11 DEF Turn

LEMMA IntentType ==
    ASSUME FlowTyped, NEW p \in Pollers, At(p, "record")
    PROVE  Intent(p) \in Row
<1>1. /\ poll[p].job \in Job /\ poll[p].id \in RequestIds /\ Leg(p) \in Nonces
      /\ LegIndex(p) \in 1..MaxLegs
  BY LegIs, SendingIs DEF FlowTyped, At, LegPcs, SendPcs
<1> QED
  BY <1>1 DEF Intent, Row, Job, NoHash

LEMMA TurnDisk ==
    ASSUME FlowTyped, NEW p \in Pollers, Turn(p)
    PROVE  /\ rows' \subseteq Row
           /\ verdict' \in [1..MaxClaims -> Verdicts]
           /\ UNCHANGED <<opened, seeding, everOpen, mined, past, crashes, locks>>
<1>1. rows \subseteq Row /\ verdict \in [1..MaxClaims -> Verdicts]
  BY DEF FlowTyped, TypeOK
<1>2. CASE Record(p)
  BY <1>1, <1>2, IntentType DEF Record
<1>3. CASE Answered(p)
  <2>1. poll[p].job.claim \in Nat
    BY <1>3, SendingIs DEF Answered, At, SendPcs, FlowTyped, Job
  <2>2. \A r \in rows : [r EXCEPT !.status = "pending", !.hash = poll[p].job.claim] \in Row
    BY <1>1, <2>1 DEF Row
  <2> QED
    BY <1>1, <1>3, <2>2 DEF Answered
<1>4. CASE Ack(p)
  BY <1>1, <1>4 DEF Ack, Verdicts
<1> QED
  BY <1>1, <1>2, <1>3, <1>4
  DEF Turn, StartPoll, Hold, Ask, FetchShort, SettlePolled, Pass, Claims, RecordFails, Leave,
      Unanswered, Land, Finish, FailOwned, SettleByTicket, diskAndWorld

LEMMA AroundDisk ==
    ASSUME FlowTyped, Around
    PROVE  /\ rows' \subseteq Row
           /\ opened' \subseteq Accounts /\ seeding' \subseteq Accounts /\ everOpen' \subseteq Accounts
           /\ verdict' \in [1..MaxClaims -> Verdicts]
           /\ mined' \in [Accounts -> Nat] /\ past' \subseteq Row
<1>1. /\ rows \subseteq Row
      /\ opened \subseteq Accounts /\ seeding \subseteq Accounts /\ everOpen \subseteq Accounts
      /\ verdict \in [1..MaxClaims -> Verdicts]
      /\ mined \in [Accounts -> Nat] /\ past \subseteq Row
  BY DEF FlowTyped, TypeOK
<1>2. CASE \E r \in rows : Sweep(r)
  <2>1. \A r \in rows : [r EXCEPT !.status = "settled"] \in Row
    BY <1>1 DEF Row
  <2> QED
    BY <1>1, <1>2, <2>1 DEF Sweep
<1>3. CASE \E c \in 1..MaxClaims : Forget(c) \/ \E v \in {"approved", "rejected"} : Decide(c, v)
  BY <1>1, <1>3 DEF Forget, Decide, Verdicts
<1>4. CASE \E a \in Accounts : Seed(a) \/ OpenHistory(a) \/ OpenFails(a) \/ LockWallet(a) \/ Mine(a)
  BY <1>1, <1>4 DEF Seed, OpenHistory, OpenFails, LockWallet, Mine
<1> QED
  BY <1>1, <1>2, <1>3, <1>4
  DEF Around, OpenSend, DropSend, CommitSend, CancelSend, flowVars

LEMMA CrashTyped ==
    ASSUME FlowTyped, Crash
    PROVE  FlowTyped'
<1>1. LedgerTypeOK'
  BY DEF FlowTyped, TypeOK, Crash, LedgerTypeOK
<1>2. poll' = [p \in Pollers |-> Idle]
  BY DEF Crash
<1>3. poll' \in [Pollers -> {Idle} \cup Asking \cup Sending] /\ \A p \in Pollers : Legged(poll'[p])
  BY <1>2 DEF Legged, Idle, LegPcs
<1>4. Sized'
  BY DEF Crash, Sized
<1> QED
  BY <1>1, <1>3, <1>4 DEF FlowTyped, TypeOK, Crash

LEMMA FlowTypedStep == FlowTyped /\ [Next]_vars => FlowTyped'
<1> SUFFICES ASSUME FlowTyped, [Next]_vars PROVE FlowTyped'
  OBVIOUS
<1>1. CASE UNCHANGED vars
  BY <1>1 DEF vars, ledgerVars, flowVars, FlowTyped, TypeOK, LedgerTypeOK, Sized
<1>2. CASE Crash
  BY <1>2, CrashTyped
<1>3. ASSUME [Step]_ledgerVars PROVE LedgerTypeOK' /\ Sized'
  BY <1>3, TypeStep, SizedStep DEF FlowTyped, TypeOK
<1>4. CASE Around
  BY <1>3, <1>4, AroundOfLedger, AroundDisk DEF FlowTyped, TypeOK
<1>5. ASSUME NEW p \in Pollers, Turn(p) PROVE FlowTyped'
  <2>1. LedgerTypeOK' /\ Sized'
    BY <1>3, <1>5, TurnOfLedger
  <2>2. PollTyped(p)
    BY <1>5, <2>1, TurnPoll
  <2> QED
    BY <1>5, <2>1, <2>2, TurnDisk DEF PollTyped, FlowTyped, TypeOK
<1> QED
  BY <1>1, <1>2, <1>4, <1>5, NextIs

LEMMA FlowTypedInit == Init => FlowTyped
<1> SUFFICES ASSUME Init PROVE FlowTyped
  OBVIOUS
<1>1. poll \in [Pollers -> {Idle} \cup Asking \cup Sending] /\ \A p \in Pollers : Legged(poll[p])
  BY DEF Init, Legged, Idle, LegPcs
<1>2. LedgerTypeOK /\ Sized
  BY TypeInit DEF Init, LedgerInit, Sized
<1> QED
  BY <1>1, <1>2 DEF FlowTyped, TypeOK, Init, Verdicts

\* The whole flow keeps its types, whatever ids the manager gives out: a bundle
\* never has more legs than a row can name.
THEOREM FlowTypeCorrect == Spec => []TypeOK
<1>1. FlowTyped => TypeOK
  BY DEF FlowTyped
<1> QED
  BY <1>1, FlowTypedInit, FlowTypedStep, PTL DEF Spec

-----------------------------------------------------------------------------
(* Bytes never leave without a row                                         *)

\* Where a dispatch can have come from.
Started(p) ==
    /\ poll'[p].pc = "ask" /\ poll'[p].id \in DOMAIN jobs /\ poll'[p].job = jobs[poll'[p].id]
    /\ UNCHANGED ledgerVars
Resumed(p) ==
    poll[p].pc # "idle" /\ poll'[p].id = poll[p].id /\ poll'[p].job = poll[p].job
SameTicket(p) ==
    poll[p].pc \in SendPcs /\ poll'[p].ticket = poll[p].ticket
Edges(p) ==
    /\ poll'[p].pc # "idle" => Resumed(p) \/ Started(p)
    /\ poll'[p].pc \in SendPcs => Resumed(p)
    /\ poll'[p].pc = "record" => Claims(p) \/ Land(p)
    /\ poll'[p].pc = "leave" => Record(p) /\ SameTicket(p) /\ poll'[p].todo = poll[p].todo
    /\ poll'[p].pc = "sent" => Leave(p) /\ SameTicket(p) /\ poll'[p].todo = poll[p].todo
    /\ poll'[p].pc = "land" => Answered(p) /\ SameTicket(p) /\ poll'[p].todo = poll[p].todo
    /\ poll'[p].pc = "ack" => Land(p)
    /\ poll'[p].pc = "settle" => Ack(p) /\ SameTicket(p) /\ poll'[p].todo = poll[p].todo
    /\ poll'[p].pc = "failing" => SameTicket(p)

LEMMA TurnEdges ==
    ASSUME FlowTyped, LedgerTypeOK', NEW p \in Pollers, Turn(p)
    PROVE  Edges(p)
<1> USE DEF Edges, Resumed, SameTicket
<1>1. TypeOK
  BY DEF FlowTyped
<1>2. CASE \E i \in RequestIds : StartPoll(p, i)
  BY <1>1, <1>2, StartIs DEF Started, SendPcs, StartPoll
<1>3. CASE Return(p)
  BY <1>1, <1>3, ReturnIs DEF Idle, SendPcs
<1>4. ASSUME NEW pc \in AskPcs, poll[p].pc \in AskPcs, Goto(p, pc) PROVE Edges(p)
  BY <1>1, <1>4, GotoAskIs DEF AskPcs, SendPcs
<1>5. CASE Claims(p)
  <2>1. CASE Return(p)
    BY <2>1, <1>3
  <2>2. CASE ~Return(p)
    <3>1. lastTicket' \in Nat /\ At(p, "clear")
      BY <1>5 DEF LedgerTypeOK, Claims
    <3>2. poll'[p].pc = "record" /\ poll'[p].job = poll[p].job /\ poll'[p].id = poll[p].id
      BY <1>1, <1>5, <2>2, <3>1, ClaimedIs DEF Claims
    <3> QED
      BY <1>5, <3>1, <3>2 DEF At, SendPcs
  <2> QED
    BY <2>1, <2>2
<1>6. CASE Land(p)
  <2>1. /\ poll'[p].pc \in {"ack", "record"} /\ poll'[p].id = poll[p].id
        /\ poll'[p].job = poll[p].job /\ poll[p].pc = "land"
    BY <1>6, LandIs DEF Land, At
  <2> QED
    BY <1>6, <2>1 DEF SendPcs
<1>7. ASSUME NEW pc \in SendPcs, poll[p].pc \in SendPcs, Goto(p, pc)
      PROVE  /\ poll'[p].pc = pc /\ SameTicket(p) /\ Resumed(p) /\ poll'[p].todo = poll[p].todo
  BY <1>1, <1>7, GotoSendIs DEF SendPcs
<1>8. CASE Ask(p) \/ FetchShort(p) \/ Pass(p)
  BY <1>4, <1>8 DEF Ask, FetchShort, Pass, At, AskPcs
<1>9. CASE Record(p) \/ RecordFails(p) \/ Answered(p) \/ Unanswered(p) \/ Ack(p) \/ Leave(p)
  <2>1. poll[p].pc \in SendPcs
    BY <1>9 DEF Record, RecordFails, Answered, Unanswered, Ack, Leave, At, SendPcs
  <2>2. \/ Record(p) /\ Goto(p, "leave")
        \/ Answered(p) /\ Goto(p, "land")
        \/ Ack(p) /\ Goto(p, "settle")
        \/ Leave(p) /\ Goto(p, "sent")
        \/ Goto(p, "failing")
    BY <1>9 DEF Record, RecordFails, Answered, Unanswered, Ack, Leave
  <2>3. {"leave", "land", "settle", "sent", "failing"} \subseteq SendPcs
    BY DEF SendPcs
  <2> QED
    BY <1>7, <2>1, <2>2, <2>3
<1>10. CASE Hold(p) \/ SettlePolled(p) \/ Finish(p) \/ FailOwned(p)
  BY <1>3, <1>10 DEF Hold, SettlePolled, Finish, FailOwned, SettleByTicket
<1> QED
  BY <1>2, <1>5, <1>6, <1>8, <1>9, <1>10 DEF Turn

\* One row of a leg, whatever has become of its status and hash.
SameRow(x, r) ==
    /\ x.claim = r.claim /\ x.id = r.id /\ x.acct = r.acct
    /\ x.leg = r.leg /\ x.nonce = r.nonce

\* What writes rows.
LEMMA RowsMove ==
    Next => \/ rows' = rows
            \/ \E r \in rows : Sweep(r)
            \/ \E p \in Pollers : Record(p) \/ Answered(p)
BY NextIs
DEF Around, OpenSend, Seed, OpenHistory, OpenFails, LockWallet, Mine, DropSend, CommitSend,
    CancelSend, Forget, Decide, Crash, Turn, StartPoll, Hold, Ask, FetchShort, SettlePolled,
    Pass, Claims, RecordFails, Leave, Unanswered, Land, Ack, Finish, FailOwned,
    SettleByTicket, diskAndWorld, flowVars

\* No step takes a row off the disk.
LEMMA RowsStay ==
    ASSUME FlowTyped, Next
    PROVE  \A r \in rows : \E x \in rows' : SameRow(x, r)
<1> USE DEF SameRow
<1>1. CASE rows' = rows
  BY <1>1
<1>2. rows \subseteq Row
  BY DEF FlowTyped, TypeOK
<1>3. ASSUME NEW p \in Pollers, Answered(p) PROVE \A r \in rows : \E x \in rows' : SameRow(x, r)
  <2>1. CASE poll[p].job.acct \in opened
    <3> SUFFICES ASSUME NEW r \in rows PROVE \E x \in rows' : SameRow(x, r)
      OBVIOUS
    <3> DEFINE y == IF OwnsRow(p, r)
                    THEN [r EXCEPT !.status = "pending", !.hash = poll[p].job.claim] ELSE r
    <3>1. y \in rows'
      BY <1>3, <2>1 DEF Answered
    <3>2. SameRow(y, r)
      BY <1>2 DEF Row
    <3> QED
      BY <3>1, <3>2
  <2> QED
    BY <1>1, <1>3, <2>1 DEF Answered
<1>4. ASSUME NEW r \in rows, Sweep(r) PROVE \A y \in rows : \E x \in rows' : SameRow(x, y)
  <2>1. rows' = (rows \ {r}) \cup {[r EXCEPT !.status = "settled"]}
    BY <1>4 DEF Sweep
  <2>2. SameRow([r EXCEPT !.status = "settled"], r)
    BY <1>2 DEF Row
  <2> QED
    BY <2>1, <2>2
<1>5. ASSUME NEW p \in Pollers, Record(p) PROVE rows \subseteq rows'
  BY <1>5 DEF Record
<1> QED
  BY <1>1, <1>3, <1>4, <1>5, RowsMove

\* A leg about to leave has its row.
LeaveRow ==
    \A p \in Pollers : At(p, "leave") =>
        \E r \in rows : r.claim = poll[p].job.claim /\ r.acct = poll[p].job.acct /\ r.nonce = Leg(p)

\* What a step puts on the wire.
LEMMA WireGrows ==
    ASSUME FlowTyped, Next
    PROVE  \/ wire' = wire
           \/ \E p \in Pollers : Leave(p) /\ wire' = wire \cup {Sight(poll[p].job, Leg(p))}
<1>1. CASE Crash
  BY <1>1 DEF Crash
<1>2. CASE Around
  BY <1>2
  DEF Around, OpenSend, Open, PinFree, PinSend, PinDeparted, NewClaim, Seed, SeedSpent,
      OpenHistory, OpenFails, LockWallet, Mine, DropSend, Abandon, CommitSend, Commit,
      CancelSend, ClaimCancel, Settle, SettleLocked, Forget, Decide, Sweep, ledgerVars
<1>3. ASSUME NEW p \in Pollers, Turn(p)
      PROVE  wire' = wire \/ (Leave(p) /\ wire' = wire \cup {Sight(poll[p].job, Leg(p))})
  BY <1>3
  DEF Turn, StartPoll, Hold, Ask, FetchShort, SettlePolled, Settle, SettleLocked, Pass, Claims,
      ClaimBroadcast, Record, RecordFails, Leave, LeavingLeg, Answered, Unanswered, Land, Landed,
      Ack, Finish, FailOwned, SettleByTicket, SettleOwned, DropTicket, ledgerVars
<1> QED
  BY <1>1, <1>2, <1>3, NextIs

LEMMA LeaveRowStep == FlowTyped /\ LeaveRow /\ [Next]_vars => LeaveRow'
<1> SUFFICES ASSUME FlowTyped, LeaveRow, [Next]_vars PROVE LeaveRow'
  OBVIOUS
<1>1. CASE UNCHANGED vars
  BY <1>1 DEF vars, flowVars, LeaveRow, At, Leg
<1>2. CASE Next
  <2> SUFFICES ASSUME NEW q \in Pollers, poll'[q].pc = "leave"
               PROVE  \E r \in rows' : /\ r.claim = poll'[q].job.claim /\ r.acct = poll'[q].job.acct
                                       /\ r.nonce = Least(poll'[q].todo)
    BY DEF LeaveRow, At, Leg
  <2>1. CASE poll'[q] = poll[q]
    <3> PICK r \in rows : r.claim = poll[q].job.claim /\ r.acct = poll[q].job.acct
                          /\ r.nonce = Leg(q)
      BY <2>1 DEF LeaveRow, At
    <3> QED
      BY <1>2, <2>1, RowsStay DEF SameRow, Leg
  <2>2. CASE poll'[q] # poll[q]
    <3>1. ~Crash
      BY DEF Crash, Idle
    <3>2. PICK p \in Pollers : Turn(p)
      BY <1>2, <2>2, <3>1, NextIs, AroundOfLedger
    <3>3. LedgerTypeOK'
      BY <1>2, FlowTypedStep DEF FlowTyped, TypeOK
    <3>4. p = q /\ Edges(q)
      BY <2>2, <3>2, <3>3, TurnPoll, TurnEdges DEF PollTyped
    <3>5. Record(q) /\ poll'[q].job = poll[q].job /\ poll'[q].todo = poll[q].todo
      BY <3>4 DEF Edges, Resumed, SendPcs
    <3>6. Intent(q) \in rows'
      BY <3>5 DEF Record
    <3> QED
      BY <3>5, <3>6 DEF Intent, Leg
  <2> QED
    BY <2>1, <2>2
<1> QED
  BY <1>1, <1>2

\* Whatever may be on the wire, from any process, is a row on disk: for every
\* interleaving of dispatches, crashes and locks, and even if ids repeat.
THEOREM RowsComeFirst == Spec => []WriteAhead
<1> DEFINE Inv == FlowTyped /\ LeaveRow /\ WriteAhead
<1>1. Init => Inv
  BY FlowTypedInit DEF Init, LedgerInit, LeaveRow, At, Idle, WriteAhead
<1>2. Inv /\ [Next]_vars => Inv'
  <2> SUFFICES ASSUME Inv, [Next]_vars PROVE Inv'
    OBVIOUS
  <2>1. FlowTyped' /\ LeaveRow'
    BY FlowTypedStep, LeaveRowStep
  <2>2. CASE UNCHANGED vars
    BY <2>1, <2>2 DEF vars, ledgerVars, flowVars, WriteAhead
  <2>3. CASE Next
    <3> SUFFICES ASSUME NEW w \in wire'
                 PROVE  \E r \in rows' : r.claim = w.claim /\ r.acct = w.acct /\ r.nonce = w.nonce
      BY <2>1 DEF WriteAhead
    <3>1. \E r \in rows : r.claim = w.claim /\ r.acct = w.acct /\ r.nonce = w.nonce
      <4>1. CASE w \in wire
        BY <4>1 DEF WriteAhead
      <4>2. CASE w \notin wire
        <5> PICK p \in Pollers : Leave(p) /\ w = Sight(poll[p].job, Leg(p))
          BY <2>3, <4>2, WireGrows
        <5> QED
          BY DEF LeaveRow, Leave, Sight
      <4> QED
        BY <4>1, <4>2
    <3> QED
      BY <2>3, <3>1, RowsStay DEF SameRow
  <2> QED
    BY <2>2, <2>3
<1>3. Inv => WriteAhead
  OBVIOUS
<1> QED
  BY <1>1, <1>2, <1>3, PTL DEF Spec

-----------------------------------------------------------------------------
(* The ledger's books across processes, when handles are not repeated      *)

FlowBooks == FlowTyped /\ Books /\ NoOverwrite

LEMMA CrashBooks ==
    ASSUME FlowBooks, Crash
    PROVE  Books' /\ NoOverwrite'
<1>1. LedgerTypeOK'
  BY CrashTyped DEF FlowBooks, FlowTyped, TypeOK
<1>2. /\ DOMAIN jobs' = {} /\ claims' = {} /\ tickets' = {}
      /\ \A a \in Accounts : reserved'[a] = {}
  BY DEF Crash
<1>3. \A a \in Accounts : Held(jobs', claims', a) = {}
  BY <1>2 DEF Held
<1>4. \A a \in Accounts, n \in Nonces : Undirected(a, n)' = {} /\ Pending(a, n)' = {}
  BY <1>2 DEF Undirected, Pending
<1> QED
  BY <1>1, <1>2, <1>3, <1>4
  DEF Books, ClaimIds, TicketsLive, Containment, Uniqueness, OnePending, NoLeak, NoOverwrite

LEMMA NextOfLedger ==
    ASSUME FlowTyped, [Next]_vars
    PROVE  Crash \/ [Step]_ledgerVars
<1>1. CASE UNCHANGED vars
  BY <1>1 DEF vars
<1>2. CASE Next
  BY <1>2, NextIs, AroundOfLedger, TurnOfLedger
<1> QED
  BY <1>1, <1>2

LEMMA FlowBooksStep == ASSUME FreshIds PROVE FlowBooks /\ [Next]_vars => FlowBooks'
<1> SUFFICES ASSUME FlowBooks, [Next]_vars PROVE FlowBooks'
  OBVIOUS
<1>1. FlowTyped'
  BY FlowTypedStep DEF FlowBooks
<1>2. Books' /\ NoOverwrite'
  BY NextOfLedger, CrashBooks, BooksStep, NoOverwriteStep DEF FlowBooks
<1> QED
  BY <1>1, <1>2 DEF FlowBooks

LEMMA FlowBooksInit == Init => FlowBooks
<1> SUFFICES ASSUME Init PROVE FlowBooks
  OBVIOUS
<1>1. FlowTyped /\ LedgerInit
  BY FlowTypedInit DEF Init
<1>2. NoOverwrite
  BY <1>1 DEF LedgerInit, NoOverwrite
<1> QED
  BY <1>1, <1>2, InvInit DEF FlowBooks, IInv

\* With every dispatch, the human, the opener and crashes around it, a job still
\* reaches one terminal state and keeps it.
THEOREM FlowVerdictsStand == ASSUME FreshIds PROVE Spec => OneVerdict
<1>1. FlowBooks /\ [Next]_vars =>
        [\A i \in RequestIds :
            SameJob(i) /\ IsTerminal(jobs[i]) => jobs'[i].status = jobs[i].status]_ledgerVars
  <2> SUFFICES ASSUME FlowBooks, [Next]_vars, ~UNCHANGED ledgerVars,
                      NEW i \in RequestIds, SameJob(i), IsTerminal(jobs[i])
               PROVE  jobs'[i].status = jobs[i].status
    OBVIOUS
  <2>1. ~Crash
    BY DEF Crash, SameJob
  <2>2. Step
    BY <2>1, NextOfLedger DEF FlowBooks
  <2> QED
    BY <2>2, OneVerdictStep DEF FlowBooks
<1> QED
  BY <1>1, FlowBooksInit, FlowBooksStep, PTL DEF Spec, OneVerdict

SameSend(j, k) ==
    j.claim = k.claim /\ j.acct = k.acct /\ j.nonces = k.nonces /\ j.replaces = k.replaces

\* Within one process: claims are numbered onwards, jobs stay what they are,
\* and new ones come from claims, under ids never used.
Onward ==
    /\ lastClaim <= lastClaim' /\ served \subseteq served'
    /\ \A a \in Accounts : spent[a] \subseteq spent'[a]
    /\ \A i \in DOMAIN jobs :
        i \in DOMAIN jobs' /\ SameSend(jobs'[i], jobs[i]) /\ jobs[i].left \subseteq jobs'[i].left
    /\ \A i \in DOMAIN jobs' \ DOMAIN jobs :
        i \notin served /\ \E c \in claims \ claims' : jobs'[i] = FromClaim(c)
    /\ \A c \in claims' \ claims : c.id = lastClaim + 1

LEMMA StepOnward ==
    ASSUME FreshIds, FlowBooks, [Step]_ledgerVars
    PROVE  Onward
<1> USE DEF Onward
<1>1. lastClaim \in Nat /\ LedgerTypeOK
  BY DEF FlowBooks, Books, LedgerTypeOK
<1>2. CASE UNCHANGED ledgerVars
  BY <1>1, <1>2 DEF ledgerVars, SameSend
<1>3. ASSUME NEW i, Moves(i), UNCHANGED <<claims, lastClaim, served>>,
             \A a \in Accounts : spent[a] \subseteq spent'[a]
      PROVE  Onward
  BY <1>1, <1>3 DEF Moves, SameSend
<1>4. ASSUME NEW i, Moves(i), UNCHANGED <<claims, lastClaim, served, stranded>>,
             SyncNonce(jobs', i)
      PROVE  Onward
  <2>1. LedgerTypeOK' /\ Containment /\ NoLeak
    BY TypeStep, <1>1 DEF FlowBooks, Books
  <2> QED
    BY <1>1, <1>3, <1>4, <2>1, SyncKeeps
<1>5. ASSUME NEW a, NEW ns, NEW r, NewClaim(a, ns, r) PROVE Onward
  BY <1>1, <1>5 DEF NewClaim, SameSend
<1>6. CASE \E a \in Accounts, n \in Nonces, count \in 1..MaxLegs : Open(a, n, count)
  BY <1>5, <1>6 DEF Open
<1>7. CASE \E a \in Accounts, n \in Nonces : PinFree(a, n) \/ PinSend(a, n) \/ PinDeparted(a, n)
  BY <1>5, <1>7 DEF PinFree, PinSend, PinDeparted
<1>8. CASE \E c \in claims, i \in RequestIds : Commit(c, i)
  BY <1>1, <1>8 DEF Commit, SameSend, FlowBooks, NoOverwrite
<1>9. CASE \E i \in RequestIds, s \in Terminal : Settle(i, s)
  BY <1>1, <1>4, <1>9, SettleMoves DEF Settle, SettleLocked
<1>10. CASE \E i \in RequestIds : ClaimBroadcast(i)
  BY <1>1, <1>3, <1>10, ClaimBroadcastMoves DEF ClaimBroadcast
<1>11. CASE \E t \in tickets, n \in Nonces, seen \in Sighting : LeavingLeg(t, n, seen)
  BY <1>1, <1>4, <1>11, LeavingMoves DEF LeavingLeg
<1>12. CASE \E t \in tickets, n \in Nonces : Landed(t, n)
  BY <1>1, <1>3, <1>12, LandedMoves DEF Landed
<1>13. CASE \E t \in tickets, s \in Terminal : SettleOwned(t, s)
  BY <1>1, <1>4, <1>13, SettleMoves DEF SettleOwned, SettleLocked
<1>14. CASE (\E c \in claims : Abandon(c)) \/ (\E t \in tickets : DropTicket(t))
            \/ \E rs \in SUBSET (Accounts \X Nonces) : SeedSpent(rs)
  BY <1>1, <1>14 DEF Abandon, DropTicket, SeedSpent, SameSend
<1> QED
  BY <1>2, <1>6, <1>7, <1>8, <1>9, <1>10, <1>11, <1>12, <1>13, <1>14 DEF Step

-----------------------------------------------------------------------------
(* What a dispatch knows, and how far it has come                          *)

\* A dispatch carries the job that its id still names.
Copies ==
    \A p \in Pollers : poll[p].pc # "idle" =>
        poll[p].id \in DOMAIN jobs /\ SameSend(poll[p].job, jobs[poll[p].id])

Sends(p) == poll[p].pc \in SendPcs

\* Past the claim it holds a ticket of that id, which no other dispatch holds.
Owners ==
    /\ \A p \in Pollers : Sends(p) => poll[p].ticket \in tickets /\ poll[p].ticket.id = poll[p].id
    /\ \A p, q \in Pollers : Sends(p) /\ Sends(q) /\ poll[p].ticket = poll[q].ticket => p = q

\* What dispatch x has done to its job j: the legs before those to go have left
\* and landed, the one in hand may have left, and nothing else has.
Drives(x, j) ==
    /\ x.pc \in {"record", "leave"} => j.left = j.nonces \ x.todo /\ j.landed = j.left
    /\ x.pc \in {"sent", "land"} =>
        j.left = (j.nonces \ x.todo) \cup {Least(x.todo)} /\ j.landed = j.nonces \ x.todo
    /\ x.pc \in {"ack", "settle"} => j.left = j.nonces /\ j.landed = j.nonces

Progress == \A p \in Pollers : Sends(p) => Drives(poll[p], jobs[poll[p].id])

\* A job nobody claimed has nothing out, and so has one that was refused; legs
\* leave in order, and a whole broadcast has them all answered.
Orderly(j) ==
    /\ j.ticket = NoTicket => j.left = {}
    /\ j.status \in {"cancelled", "rejected"} => j.ticket = NoTicket
    /\ \A n \in j.left : \A m \in j.nonces : m < n => m \in j.landed
    /\ j.status = "broadcast" => j.landed = j.nonces

JobsOrderly == \A i \in DOMAIN jobs : Orderly(jobs[i])

\* What has left in this process is burnt.
LeftBurnt == \A i \in DOMAIN jobs : \A n \in jobs[i].left : n \in spent[jobs[i].acct]

Driven ==
    /\ FlowBooks /\ Copies /\ Owners /\ Progress
    /\ JobsOrderly /\ LeftBurnt

LEMMA CopiesStep ==
    ASSUME FreshIds, FlowBooks, FlowBooks', Copies, Next, ~Crash
    PROVE  Copies'
<1> SUFFICES ASSUME NEW q \in Pollers, poll'[q].pc # "idle"
             PROVE  poll'[q].id \in DOMAIN jobs' /\ SameSend(poll'[q].job, jobs'[poll'[q].id])
  BY DEF Copies
<1>1. Onward
  BY NextOfLedger, StepOnward DEF FlowBooks
<1>2. CASE poll'[q] = poll[q]
  BY <1>1, <1>2 DEF Onward, SameSend, Copies
<1>3. CASE poll'[q] # poll[q]
  <2>1. PICK p \in Pollers : Turn(p)
    BY <1>3, NextIs, AroundOfLedger DEF FlowBooks
  <2>2. p = q /\ Edges(q)
    BY <1>3, <2>1, TurnPoll, TurnEdges DEF PollTyped, FlowBooks, Books
  <2>3. CASE Resumed(q)
    BY <1>1, <2>3 DEF Resumed, Onward, SameSend, Copies
  <2>4. CASE Started(q)
    BY <1>1, <2>4 DEF Started, Onward, SameSend
  <2> QED
    BY <2>2, <2>3, <2>4 DEF Edges
<1> QED
  BY <1>2, <1>3

\* The ticket is out, so nobody has overwritten or settled the job.
LEMMA OwnerIs ==
    ASSUME Driven, NEW p \in Pollers, Sends(p)
    PROVE  /\ poll[p].ticket \in tickets /\ poll[p].ticket.id = poll[p].id
           /\ poll[p].id \in DOMAIN jobs /\ jobs[poll[p].id] \in Job
           /\ Owns(poll[p].ticket) /\ ~IsTerminal(jobs[poll[p].id])
           /\ SameSend(poll[p].job, jobs[poll[p].id])
           /\ jobs[poll[p].id].ticket # NoTicket
           /\ Drives(poll[p], jobs[poll[p].id])
<1>1. poll[p].ticket \in tickets /\ poll[p].ticket.id = poll[p].id
  BY DEF Driven, Owners
<1>2. poll[p].pc # "idle"
  BY DEF Sends, SendPcs
<1>3. poll[p].id \in DOMAIN jobs /\ SameSend(poll[p].job, jobs[poll[p].id])
  BY <1>2 DEF Driven, Copies
<1>4. Owns(poll[p].ticket) /\ ~IsTerminal(jobs[poll[p].id])
  BY <1>1 DEF Driven, FlowBooks, NoOverwrite, Books, TicketsLive
<1>5. jobs[poll[p].id].ticket \in 1..lastTicket /\ lastTicket \in Nat
  BY <1>1, <1>4 DEF Owns, Driven, FlowBooks, Books, TicketsLive, LedgerTypeOK
<1> QED
  BY <1>1, <1>3, <1>4, <1>5 DEF Driven, Progress, FlowBooks, Books, LedgerTypeOK, NoTicket

\* Two dispatches past the claim drive two jobs.
LEMMA OwnersApart ==
    ASSUME Driven, NEW p \in Pollers, NEW q \in Pollers, Sends(p), Sends(q), poll[p].id = poll[q].id
    PROVE  p = q
<1>1. /\ poll[p].ticket \in Ticket /\ poll[q].ticket \in Ticket
      /\ poll[p].ticket.id = poll[q].ticket.id
      /\ poll[p].ticket.ticket = poll[q].ticket.ticket
  BY OwnerIs, SendingIs DEF Owns, Driven, FlowBooks, FlowTyped, Sends
<1>2. poll[p].ticket = poll[q].ticket
  BY <1>1 DEF Ticket
<1> QED
  BY <1>2 DEF Driven, Owners

\* The ledger's leg is the dispatch's leg.
LEMMA LedgerLegIs ==
    ASSUME Driven, NEW p \in Pollers, poll[p].pc \in LegPcs
    PROVE  /\ LedgerLeg(p) = {Leg(p)}
           /\ Leg(p) \in jobs[poll[p].id].nonces /\ poll[p].todo \subseteq jobs[poll[p].id].nonces
           /\ Leg(p) \in poll[p].todo
<1>1. Sends(p) /\ FlowTyped /\ Legged(poll[p])
  BY DEF Sends, SendPcs, LegPcs, Driven, FlowBooks, FlowTyped
<1>2. /\ poll[p].job.nonces = jobs[poll[p].id].nonces
      /\ jobs[poll[p].id].nonces \in SUBSET Nonces
  BY <1>1, OwnerIs DEF SameSend, Job
<1>3. Leg(p) \in jobs[poll[p].id].nonces /\ Leg(p) \in poll[p].todo
  BY <1>1, <1>2, LegIs
<1>4. \A n \in jobs[poll[p].id].nonces :
        IndexIn(jobs[poll[p].id], n) = IndexIn(poll[p].job, n)
  BY <1>2 DEF IndexIn
<1>5. \A n \in jobs[poll[p].id].nonces :
        IndexIn(jobs[poll[p].id], n) = IndexIn(jobs[poll[p].id], Leg(p)) => n = Leg(p)
  BY <1>2, <1>3, IndexIs
<1>6. LedgerLeg(p) = {Leg(p)}
  BY <1>3, <1>4, <1>5 DEF LedgerLeg, LegIndex
<1> QED
  BY <1>1, <1>2, <1>3, <1>6 DEF Legged

\* So a dispatch past the claim never finds its leg gone or its job taken.
LEMMA LeaveIs ==
    ASSUME Driven, NEW p \in Pollers, Leave(p)
    PROVE  /\ LeavingLeg(poll[p].ticket, Leg(p), Sight(poll[p].job, Leg(p)))
           /\ Goto(p, "sent")
<1>1. poll[p].pc \in LegPcs /\ Sends(p)
  BY DEF Leave, At, LegPcs, Sends, SendPcs
<1>2. LedgerLeg(p) = {Leg(p)} /\ Owns(poll[p].ticket)
  BY <1>1, LedgerLegIs, OwnerIs
<1> QED
  BY <1>2 DEF Leave

LEMMA LandedIs ==
    ASSUME Driven, NEW p \in Pollers, Land(p)
    PROVE  Landed(poll[p].ticket, Leg(p))
<1>1. poll[p].pc \in LegPcs /\ Sends(p) /\ poll[p].pc = "land"
  BY DEF Land, At, LegPcs, Sends, SendPcs
<1>2. LedgerLeg(p) = {Leg(p)} /\ Owns(poll[p].ticket) /\ Leg(p) \in jobs[poll[p].id].left
  BY <1>1, LedgerLegIs, OwnerIs DEF Drives, Leg
<1> QED
  BY <1>2 DEF Land

-----------------------------------------------------------------------------
(* What a step does to one job and to the tickets                          *)

Becomes(i, left, landed, status, ticket) ==
    /\ i \in DOMAIN jobs' /\ SameSend(jobs'[i], jobs[i])
    /\ jobs'[i].left = left /\ jobs'[i].landed = landed
    /\ jobs'[i].status = status /\ jobs'[i].ticket = ticket

\* A job nobody claimed is refused or claimed; a claimed one moves by the hand
\* of the dispatch that drives it alone.
Fate(i, j) ==
    \/ Becomes(i, j.left, j.landed, j.status, j.ticket)
    \/ j.ticket = NoTicket /\ \E s \in {"rejected", "failed", "cancelled"} :
            Becomes(i, j.left, j.landed, s, NoTicket)
    \/ j.ticket = NoTicket /\ ~IsTerminal(j) /\ Becomes(i, j.left, j.landed, j.status, lastTicket')
    \/ \E p \in Pollers : poll[p].id = i /\
        \/ Leave(p) /\ Becomes(i, j.left \cup {Leg(p)}, j.landed, j.status, j.ticket)
        \/ Land(p) /\ Becomes(i, j.left, j.landed \cup {Leg(p)}, j.status, j.ticket)
        \/ Finish(p) /\ Becomes(i, j.left, j.landed, "broadcast", j.ticket)
        \/ FailOwned(p) /\ Becomes(i, j.left, j.landed, "failed", j.ticket)

\* The doors that move a job, field by field.
LEMMA SettleBecomes ==
    ASSUME LedgerTypeOK, NEW i, NEW s \in Terminal, NEW t, SettleLocked(i, s, t)
    PROVE  /\ Becomes(i, jobs[i].left, jobs[i].landed, s, jobs[i].ticket)
           /\ \A k \in DOMAIN jobs \ {i} : k \in DOMAIN jobs' /\ jobs'[k] = jobs[k]
<1>1. /\ i \in DOMAIN jobs /\ jobs[i] \in Job
      /\ jobs' = [jobs EXCEPT ![i].status = s]
  BY DEF LedgerTypeOK, SettleLocked
<1>2. /\ i \in DOMAIN jobs' /\ jobs'[i] = [jobs[i] EXCEPT !.status = s]
      /\ \A k \in DOMAIN jobs \ {i} : k \in DOMAIN jobs' /\ jobs'[k] = jobs[k]
  BY <1>1
<1> QED
  BY <1>1, <1>2 DEF Becomes, SameSend, Job

LEMMA LandedBecomes ==
    ASSUME LedgerTypeOK, NEW t, NEW n, Landed(t, n)
    PROVE  /\ Becomes(t.id, jobs[t.id].left, jobs[t.id].landed \cup {n}, jobs[t.id].status,
                      jobs[t.id].ticket)
           /\ \A k \in DOMAIN jobs \ {t.id} : k \in DOMAIN jobs' /\ jobs'[k] = jobs[k]
<1>1. /\ t.id \in DOMAIN jobs /\ jobs[t.id] \in Job
      /\ jobs' = [jobs EXCEPT ![t.id].landed = @ \cup {n}]
  BY DEF LedgerTypeOK, Landed, Owns
<1>2. /\ t.id \in DOMAIN jobs'
      /\ jobs'[t.id] = [jobs[t.id] EXCEPT !.landed = @ \cup {n}]
      /\ \A k \in DOMAIN jobs \ {t.id} : k \in DOMAIN jobs' /\ jobs'[k] = jobs[k]
  BY <1>1
<1> QED
  BY <1>1, <1>2 DEF Becomes, SameSend, Job

LEMMA LeavingBecomes ==
    ASSUME LedgerTypeOK, NEW t, NEW n, NEW seen, LeavingLeg(t, n, seen)
    PROVE  /\ Becomes(t.id, jobs[t.id].left \cup {n}, jobs[t.id].landed, jobs[t.id].status,
                      jobs[t.id].ticket)
           /\ \A k \in DOMAIN jobs \ {t.id} : k \in DOMAIN jobs' /\ jobs'[k] = jobs[k]
<1>1. /\ t.id \in DOMAIN jobs /\ jobs[t.id] \in Job
      /\ jobs' = [jobs EXCEPT ![t.id].left = @ \cup {n}]
  BY DEF LedgerTypeOK, LeavingLeg, Owns
<1>2. /\ t.id \in DOMAIN jobs'
      /\ jobs'[t.id] = [jobs[t.id] EXCEPT !.left = @ \cup {n}]
      /\ \A k \in DOMAIN jobs \ {t.id} : k \in DOMAIN jobs' /\ jobs'[k] = jobs[k]
  BY <1>1
<1> QED
  BY <1>1, <1>2 DEF Becomes, SameSend, Job

LEMMA ClaimingBecomes ==
    ASSUME LedgerTypeOK, NEW i, ClaimBroadcast(i)
    PROVE  /\ Becomes(i, jobs[i].left, jobs[i].landed, jobs[i].status, lastTicket')
           /\ \A k \in DOMAIN jobs \ {i} : k \in DOMAIN jobs' /\ jobs'[k] = jobs[k]
<1>1. /\ i \in DOMAIN jobs /\ jobs[i] \in Job
      /\ jobs' = [jobs EXCEPT ![i].ticket = lastTicket']
  BY DEF LedgerTypeOK, ClaimBroadcast
<1>2. /\ i \in DOMAIN jobs' /\ jobs'[i] = [jobs[i] EXCEPT !.ticket = lastTicket']
      /\ \A k \in DOMAIN jobs \ {i} : k \in DOMAIN jobs' /\ jobs'[k] = jobs[k]
  BY <1>1
<1> QED
  BY <1>1, <1>2 DEF Becomes, SameSend, Job

LEMMA FateIs ==
    ASSUME FreshIds, Driven, Next, ~Crash, NEW i \in DOMAIN jobs
    PROVE  Fate(i, jobs[i])
<1> USE DEF Fate
<1>1. LedgerTypeOK /\ FlowTyped /\ NoOverwrite
  BY DEF Driven, FlowBooks, Books
<1>2. ASSUME i \in DOMAIN jobs', jobs'[i] = jobs[i] PROVE Fate(i, jobs[i])
  BY <1>2 DEF Becomes, SameSend
<1>3. ASSUME NEW k, NEW s \in {"rejected", "failed", "cancelled"}, Settle(k, s)
      PROVE  Fate(i, jobs[i])
  <2>1. s \in Terminal /\ SettleLocked(k, s, NoTicket) /\ jobs[k].ticket = NoTicket
    BY <1>3 DEF Settle, SettleLocked, MaySettle, Terminal
  <2> QED
    BY <1>1, <1>2, <2>1, SettleBecomes
<1>4. CASE Around
  <2>1. CASE \E c \in claims, k \in RequestIds : CommitSend(c, k)
    <3>1. i \in DOMAIN jobs' /\ jobs'[i] = jobs[i]
      BY <1>1, <2>1 DEF CommitSend, Commit, NoOverwrite
    <3> QED
      BY <1>2, <3>1
  <2>2. CASE \E k \in RequestIds : CancelSend(k)
    BY <1>3, <2>2 DEF CancelSend, ClaimCancel
  <2>3. CASE jobs' = jobs
    BY <1>2, <2>3
  <2> QED
    BY <1>4, <2>1, <2>2, <2>3
    DEF Around, OpenSend, Open, PinFree, PinSend, PinDeparted, NewClaim, Seed, SeedSpent,
        OpenHistory, OpenFails, LockWallet, Mine, DropSend, Abandon, Forget, Decide, Sweep,
        ledgerVars
<1>5. ASSUME NEW p \in Pollers, Turn(p) PROVE Fate(i, jobs[i])
  <2> USE DEF At
  <2>1. CASE jobs' = jobs
    BY <1>2, <2>1
  <2>2. CASE SettlePolled(p)
    BY <1>3, <2>1, <2>2 DEF SettlePolled, ledgerVars
  <2>3. CASE Claims(p)
    <3>1. CASE ClaimBroadcast(poll[p].id)
      <4>1. jobs[poll[p].id].ticket = NoTicket /\ ~IsTerminal(jobs[poll[p].id])
        BY <3>1 DEF ClaimBroadcast
      <4> QED
        BY <1>1, <1>2, <3>1, <4>1, ClaimingBecomes
    <3> QED
      BY <2>1, <2>3, <3>1 DEF Claims, ledgerVars
  <2>4. ASSUME poll[p].pc \in SendPcs
        PROVE  poll[p].ticket.id = poll[p].id /\ poll[p].id \in DOMAIN jobs
    BY <2>4, OwnerIs DEF Sends
  <2>5. CASE Leave(p)
    <3>1. LeavingLeg(poll[p].ticket, Leg(p), Sight(poll[p].job, Leg(p)))
      BY <2>5, LeaveIs
    <3>2. poll[p].ticket.id = poll[p].id
      BY <2>4, <2>5 DEF Leave, SendPcs
    <3>3. /\ Becomes(poll[p].id, jobs[poll[p].id].left \cup {Leg(p)}, jobs[poll[p].id].landed,
                     jobs[poll[p].id].status, jobs[poll[p].id].ticket)
          /\ \A k \in DOMAIN jobs \ {poll[p].id} : k \in DOMAIN jobs' /\ jobs'[k] = jobs[k]
      BY <1>1, <3>1, <3>2, LeavingBecomes
    <3> QED
      BY <1>2, <2>5, <3>3
  <2>6. CASE Land(p)
    <3>1. Landed(poll[p].ticket, Leg(p))
      BY <2>6, LandedIs
    <3>2. poll[p].ticket.id = poll[p].id
      BY <2>4, <2>6 DEF Land, SendPcs
    <3>3. /\ Becomes(poll[p].id, jobs[poll[p].id].left, jobs[poll[p].id].landed \cup {Leg(p)},
                     jobs[poll[p].id].status, jobs[poll[p].id].ticket)
          /\ \A k \in DOMAIN jobs \ {poll[p].id} : k \in DOMAIN jobs' /\ jobs'[k] = jobs[k]
      BY <1>1, <3>1, <3>2, LandedBecomes
    <3> QED
      BY <1>2, <2>6, <3>3
  <2>7. ASSUME NEW pc, NEW s \in {"broadcast", "failed"}, SettleByTicket(p, pc, s), pc \in SendPcs,
               (pc = "settle" /\ s = "broadcast" /\ Finish(p)) \/ (pc = "failing" /\ s = "failed" /\ FailOwned(p))
        PROVE  Fate(i, jobs[i])
    <3>1. poll[p].ticket.id = poll[p].id /\ s \in Terminal
      BY <2>4, <2>7 DEF SettleByTicket, Terminal
    <3>2. CASE SettleOwned(poll[p].ticket, s)
      <4>1. SettleLocked(poll[p].id, s, poll[p].ticket.ticket)
        BY <3>1, <3>2 DEF SettleOwned
      <4>2. /\ Becomes(poll[p].id, jobs[poll[p].id].left, jobs[poll[p].id].landed, s,
                       jobs[poll[p].id].ticket)
            /\ \A k \in DOMAIN jobs \ {poll[p].id} : k \in DOMAIN jobs' /\ jobs'[k] = jobs[k]
        BY <1>1, <3>1, <4>1, SettleBecomes
      <4> QED
        BY <1>2, <2>7, <4>2
    <3>3. CASE DropTicket(poll[p].ticket)
      BY <2>1, <3>3 DEF DropTicket
    <3> QED
      BY <2>7, <3>2, <3>3 DEF SettleByTicket
  <2>8. CASE Finish(p) \/ FailOwned(p)
    BY <2>7, <2>8 DEF Finish, FailOwned, SendPcs
  <2> QED
    BY <1>5, <2>1, <2>2, <2>3, <2>5, <2>6, <2>8
    DEF Turn, StartPoll, Hold, Ask, FetchShort, Pass, Record, RecordFails, Answered, Unanswered,
        Ack, ledgerVars
<1> QED
  BY <1>4, <1>5, NextIs

\* A dispatch gets a ticket as it claims and hands it in as it settles.
LEMMA TicketFate ==
    ASSUME FlowTyped, Next, ~Crash
    PROVE  \/ tickets' = tickets
           \/ \E p \in Pollers :
                /\ Claims(p) /\ poll'[p].pc = "record"
                /\ tickets' = tickets \cup {[id |-> poll[p].id, ticket |-> lastTicket + 1]}
                /\ lastTicket' = lastTicket + 1
           \/ \E p \in Pollers :
                /\ Finish(p) \/ FailOwned(p)
                /\ tickets' = tickets \ {poll[p].ticket}
<1>1. CASE Around
  BY <1>1
  DEF Around, OpenSend, Open, PinFree, PinSend, PinDeparted, NewClaim, Seed, SeedSpent,
      OpenHistory, OpenFails, LockWallet, Mine, DropSend, Abandon, CommitSend, Commit,
      CancelSend, ClaimCancel, Settle, Forget, Decide, Sweep, ledgerVars
<1>2. ASSUME NEW p \in Pollers, Turn(p)
      PROVE  \/ tickets' = tickets
             \/ /\ Claims(p) /\ poll'[p].pc = "record"
                /\ tickets' = tickets \cup {[id |-> poll[p].id, ticket |-> lastTicket + 1]}
                /\ lastTicket' = lastTicket + 1
             \/ /\ Finish(p) \/ FailOwned(p)
                /\ tickets' = tickets \ {poll[p].ticket}
  <2>1. CASE Claims(p)
    <3>1. CASE UNCHANGED ledgerVars
      BY <3>1 DEF ledgerVars
    <3>2. CASE ~UNCHANGED ledgerVars
      <4>1. /\ ClaimBroadcast(poll[p].id) /\ At(p, "clear")
            /\ poll' = [poll EXCEPT ![p] =
                [pc |-> "record", id |-> @.id, job |-> @.job, todo |-> @.job.nonces,
                 ticket |-> [id |-> @.id, ticket |-> lastTicket']]]
        BY <2>1, <3>2 DEF Claims
      <4>2. lastTicket' = lastTicket + 1
            /\ tickets' = tickets \cup {[id |-> poll[p].id, ticket |-> lastTicket']}
        BY <4>1 DEF ClaimBroadcast
      <4>3. lastTicket' \in Nat /\ TypeOK
        BY <4>2 DEF FlowTyped, TypeOK, LedgerTypeOK
      <4>4. poll'[p].pc = "record"
        BY <4>1, <4>3, ClaimedIs
      <4> QED
        BY <2>1, <4>2, <4>4
    <3> QED
      BY <3>1, <3>2
  <2> QED
    BY <1>2, <2>1
    DEF Turn, StartPoll, Hold, Ask, FetchShort, SettlePolled, Settle, Pass,
        Record, RecordFails, Leave, LeavingLeg, Answered, Unanswered, Land, Landed,
        Ack, Finish, FailOwned, SettleByTicket, SettleOwned, DropTicket, ledgerVars
<1> QED
  BY <1>1, <1>2, NextIs

-----------------------------------------------------------------------------
(* Dispatches keep to their jobs                                           *)

\* Nobody else settles or moves the job of a dispatch past the claim, and a
\* dispatch that is where it was has not moved its own.
LEMMA OthersKeep ==
    ASSUME FreshIds, Driven, Next, ~Crash, NEW q \in Pollers, Sends(q), poll'[q] = poll[q]
    PROVE  /\ Becomes(poll[q].id, jobs[poll[q].id].left, jobs[poll[q].id].landed,
                      jobs[poll[q].id].status, jobs[poll[q].id].ticket)
           /\ poll[q].ticket \in tickets'
<1>1. FlowTyped /\ TypeOK
  BY DEF Driven, FlowBooks, FlowTyped
<1>2. \A p \in Pollers : Leave(p) \/ Land(p) \/ Finish(p) \/ FailOwned(p) =>
        Sends(p) /\ poll'[p] # poll[p]
  <2> SUFFICES ASSUME NEW p \in Pollers, Leave(p) \/ Land(p) \/ Finish(p) \/ FailOwned(p)
               PROVE  Sends(p) /\ poll'[p] # poll[p]
    OBVIOUS
  <2>1. Sends(p)
    BY DEF Leave, Land, Finish, FailOwned, SettleByTicket, At, Sends, SendPcs
  <2>2. CASE Leave(p)
    <3>1. Goto(p, "sent") /\ "sent" \in SendPcs /\ poll[p].pc = "leave"
      BY <2>2, LeaveIs DEF Leave, At, SendPcs
    <3> QED
      BY <1>1, <2>1, <3>1, GotoSendIs DEF Sends
  <2>3. CASE Land(p)
    <3>1. poll'[p].pc \in {"ack", "record"} /\ poll[p].pc = "land"
      BY <1>1, <2>3, LandIs DEF Land, At
    <3> QED
      BY <2>1, <3>1
  <2>4. CASE Finish(p) \/ FailOwned(p)
    <3>1. Return(p)
      BY <2>4 DEF Finish, FailOwned, SettleByTicket
    <3> QED
      BY <1>1, <2>1, <3>1, ReturnIs DEF Sends, SendPcs, Idle
  <2> QED
    BY <2>1, <2>2, <2>3, <2>4
<1>3. \A p \in Pollers : poll[p].id = poll[q].id =>
        ~(Leave(p) \/ Land(p) \/ Finish(p) \/ FailOwned(p))
  BY <1>2, OwnersApart
<1>4. /\ poll[q].id \in DOMAIN jobs /\ jobs[poll[q].id].ticket # NoTicket
      /\ poll[q].ticket \in tickets /\ poll[q].ticket.id = poll[q].id
  BY OwnerIs
<1>5. Fate(poll[q].id, jobs[poll[q].id])
  BY <1>4, FateIs
<1>6. \A p \in Pollers : Finish(p) \/ FailOwned(p) => poll[p].ticket # poll[q].ticket
  <2> SUFFICES ASSUME NEW p \in Pollers, Finish(p) \/ FailOwned(p), poll[p].ticket = poll[q].ticket
               PROVE  FALSE
    OBVIOUS
  <2>1. Sends(p)
    BY <1>2
  <2>2. p = q
    BY <2>1 DEF Driven, Owners
  <2> QED
    BY <1>2, <2>2
<1>7. poll[q].ticket \in tickets'
  BY <1>1, <1>4, <1>6, TicketFate
<1> QED
  BY <1>3, <1>4, <1>5, <1>7 DEF Fate

\* The dispatch that acts: it is past the claim because it just claimed, or with
\* the ticket it had.
LEMMA ActorKeeps ==
    ASSUME FlowBooks, LedgerTypeOK', NEW q \in Pollers, Turn(q), poll'[q].pc \in SendPcs
    PROVE  \/ /\ Claims(q) /\ poll[q].pc = "clear" /\ poll'[q].pc = "record"
              /\ ClaimBroadcast(poll[q].id)
              /\ poll'[q].id = poll[q].id /\ poll'[q].job = poll[q].job
              /\ poll'[q].ticket = [id |-> poll[q].id, ticket |-> lastTicket + 1]
              /\ poll'[q].todo = poll[q].job.nonces
              /\ tickets' = tickets \cup {[id |-> poll[q].id, ticket |-> lastTicket + 1]}
           \/ /\ Sends(q) /\ Resumed(q) /\ poll'[q].ticket = poll[q].ticket
              /\ tickets' = tickets
<1>1. FlowTyped /\ TypeOK
  BY DEF FlowBooks, FlowTyped
<1>2. Edges(q)
  BY <1>1, TurnEdges
<1>3. CASE Claims(q)
  <2>1. ~Return(q)
    BY <1>1, ReturnIs DEF Idle, SendPcs
  <2>2. /\ ClaimBroadcast(poll[q].id) /\ At(q, "clear")
        /\ poll' = [poll EXCEPT ![q] =
            [pc |-> "record", id |-> @.id, job |-> @.job, todo |-> @.job.nonces,
             ticket |-> [id |-> @.id, ticket |-> lastTicket']]]
    BY <1>3, <2>1 DEF Claims
  <2>3. lastTicket' = lastTicket + 1 /\ lastTicket' \in Nat
        /\ tickets' = tickets \cup {[id |-> poll[q].id, ticket |-> lastTicket']}
    BY <2>2 DEF ClaimBroadcast, LedgerTypeOK
  <2> QED
    BY <1>1, <1>3, <2>2, <2>3, ClaimedIs DEF At
<1>4. CASE Land(q)
  <2>1. poll[q].pc \in SendPcs /\ poll[q].pc # "idle" /\ tickets' = tickets
    BY <1>4 DEF Land, Landed, At, SendPcs, ledgerVars
  <2>2. /\ poll'[q].ticket = poll[q].ticket
        /\ poll'[q].id = poll[q].id /\ poll'[q].job = poll[q].job
    BY <1>1, <1>4, LandIs
  <2> QED
    BY <2>1, <2>2 DEF Sends, Resumed
<1>5. CASE ~Claims(q) /\ ~Land(q)
  <2>1. SameTicket(q) /\ Resumed(q)
    BY <1>2, <1>5 DEF Edges, SendPcs
  <2>2. ~Return(q)
    BY <1>1, ReturnIs DEF Idle, SendPcs
  <2>3. tickets' = tickets
    BY <1>5, <2>2
    DEF Turn, StartPoll, Hold, Ask, FetchShort, SettlePolled, Pass, Record, RecordFails, Leave,
        LeavingLeg, Answered, Unanswered, Ack, Finish, FailOwned, SettleByTicket, ledgerVars
  <2> QED
    BY <2>1, <2>3 DEF SameTicket, Sends
<1> QED
  BY <1>3, <1>4, <1>5

\* Whoever changes its entry is the one that acts.
LEMMA ActorIs ==
    ASSUME FlowBooks, LedgerTypeOK', Next, ~Crash, NEW q \in Pollers, poll'[q] # poll[q]
    PROVE  Turn(q) /\ Edges(q) /\ \A p \in Pollers \ {q} : poll'[p] = poll[p]
<1>1. PICK p \in Pollers : Turn(p)
  BY NextIs, AroundOfLedger DEF FlowBooks
<1>2. p = q
  BY <1>1, TurnPoll DEF PollTyped, FlowBooks
<1> QED
  BY <1>1, <1>2, TurnPoll, TurnEdges DEF PollTyped, FlowBooks

LEMMA OwnersStep ==
    ASSUME FreshIds, Driven, FlowBooks', Next, ~Crash
    PROVE  Owners'
<1> DEFINE sends(q) == poll'[q].pc \in SendPcs
           new == [id \in RequestIds |-> [id |-> id, ticket |-> lastTicket + 1]]
<1>1. LedgerTypeOK' /\ FlowBooks
  BY DEF Driven, FlowBooks, Books
<1>2. \A q \in Pollers : sends(q) /\ poll'[q] = poll[q] => Sends(q)
  BY DEF Sends
<1>3. ASSUME NEW q \in Pollers, sends(q)
      PROVE  /\ poll'[q].ticket \in tickets' /\ poll'[q].ticket.id = poll'[q].id
             /\ \/ Sends(q) /\ poll'[q].ticket = poll[q].ticket
                \/ poll'[q] # poll[q] /\ poll'[q].ticket \notin tickets
  <2>1. CASE poll'[q] = poll[q]
    BY <1>2, <1>3, <2>1, OthersKeep, OwnerIs
  <2>2. CASE poll'[q] # poll[q]
    <3>1. Turn(q)
      BY <1>1, <2>2, ActorIs
    <3>2. CASE Sends(q) /\ Resumed(q) /\ poll'[q].ticket = poll[q].ticket /\ tickets' = tickets
      BY <3>2, OwnerIs DEF Resumed
    <3>3. CASE /\ poll'[q].ticket = [id |-> poll[q].id, ticket |-> lastTicket + 1]
               /\ poll'[q].id = poll[q].id
               /\ tickets' = tickets \cup {[id |-> poll[q].id, ticket |-> lastTicket + 1]}
      <4>1. \A t \in tickets : t.ticket <= lastTicket /\ t.ticket \in Nat /\ lastTicket \in Nat
        BY <1>1 DEF FlowBooks, Books, TicketsLive, LedgerTypeOK
      <4>2. [id |-> poll[q].id, ticket |-> lastTicket + 1] \notin tickets
        BY <4>1
      <4> QED
        BY <2>2, <3>3, <4>2
    <3> QED
      BY <1>1, <1>3, <3>1, <3>2, <3>3, ActorKeeps
  <2> QED
    BY <2>1, <2>2
<1>4. ASSUME NEW p \in Pollers, NEW q \in Pollers, sends(p), sends(q),
             poll'[p].ticket = poll'[q].ticket
      PROVE  p = q
  <2>1. CASE Sends(p) /\ poll'[p].ticket = poll[p].ticket
    <3>1. poll'[q].ticket \in tickets
      BY <1>4, <2>1, OwnerIs
    <3>2. Sends(q) /\ poll'[q].ticket = poll[q].ticket
      BY <1>3, <1>4, <3>1
    <3> QED
      BY <1>4, <2>1, <3>2 DEF Driven, Owners
  <2>2. CASE poll'[p] # poll[p] /\ poll'[p].ticket \notin tickets
    <3>1. poll'[q] # poll[q]
      BY <1>3, <1>4, <2>2, OwnerIs
    <3> QED
      BY <1>1, <2>2, <3>1, ActorIs
  <2> QED
    BY <1>3, <1>4, <2>1, <2>2
<1> QED
  BY <1>3, <1>4 DEF Owners, Sends

LEMMA ProgressStep ==
    ASSUME FreshIds, Driven, FlowBooks', Next, ~Crash
    PROVE  Progress'
<1> SUFFICES ASSUME NEW q \in Pollers, poll'[q].pc \in SendPcs
             PROVE  Drives(poll'[q], jobs'[poll'[q].id])
  BY DEF Progress, Sends
<1>1. LedgerTypeOK /\ LedgerTypeOK' /\ FlowBooks /\ FlowTyped /\ TypeOK
  BY DEF Driven, FlowBooks, Books, FlowTyped
<1>2. CASE poll'[q] = poll[q]
  <2>1. Sends(q)
    BY <1>2 DEF Sends
  <2>2. /\ Becomes(poll[q].id, jobs[poll[q].id].left, jobs[poll[q].id].landed,
                   jobs[poll[q].id].status, jobs[poll[q].id].ticket)
        /\ Drives(poll[q], jobs[poll[q].id])
    BY <1>2, <2>1, OthersKeep, OwnerIs
  <2> QED
    BY <1>2, <2>2 DEF Becomes, SameSend, Drives
<1>3. CASE poll'[q] # poll[q]
  <2> DEFINE i == poll[q].id
             j == jobs[poll[q].id]
             k == jobs'[poll[q].id]
  <2>1. Turn(q) /\ Edges(q)
    BY <1>1, <1>3, ActorIs
  <2>2. CASE Claims(q)
    <3>1. /\ ClaimBroadcast(poll[q].id) /\ poll'[q].pc = "record" /\ poll[q].pc = "clear"
          /\ poll'[q].id = i /\ poll'[q].todo = poll[q].job.nonces
      BY <1>1, <2>1, <2>2, ActorKeeps DEF Claims, At, Sends, SendPcs
    <3>2. /\ Becomes(i, j.left, j.landed, j.status, lastTicket')
          /\ j.ticket = NoTicket /\ i \in DOMAIN jobs
      BY <1>1, <3>1, ClaimingBecomes DEF ClaimBroadcast
    <3>3. j.left = {} /\ j.landed \subseteq j.left
      BY <1>1, <3>2 DEF Driven, JobsOrderly, Orderly, FlowTyped, TypeOK, LedgerTypeOK
    <3>4. poll[q].job.nonces = j.nonces
      BY <3>1 DEF Driven, Copies, SameSend
    <3>5. k.left = {} /\ k.landed = {} /\ k.nonces = poll'[q].todo
      BY <3>1, <3>2, <3>3, <3>4 DEF Becomes, SameSend
    <3> QED
      BY <3>1, <3>5 DEF Drives
  <2>3. CASE ~Claims(q)
    <3>1. Sends(q) /\ Resumed(q)
      BY <1>1, <2>1, <2>3, ActorKeeps
    <3>2. /\ poll'[q].id = i /\ i \in DOMAIN jobs /\ Drives(poll[q], j)
          /\ poll[q].job.nonces = j.nonces
      BY <3>1, OwnerIs DEF Resumed, SameSend
    <3>3. CASE Land(q)
      <4>1. poll[q].pc = "land" /\ poll[q].pc \in LegPcs /\ poll[q].ticket.id = i
        BY <3>1, <3>3, OwnerIs DEF Land, At, LegPcs
      <4>2. Leg(q) \in poll[q].todo /\ poll[q].todo \subseteq j.nonces
        BY <4>1, LedgerLegIs
      <4>3. Becomes(i, j.left, j.landed \cup {Leg(q)}, j.status, j.ticket)
        BY <1>1, <3>3, <4>1, LandedIs, LandedBecomes
      <4>4. /\ j.left = (j.nonces \ poll[q].todo) \cup {Leg(q)}
            /\ j.landed = j.nonces \ poll[q].todo
        BY <3>2, <4>1 DEF Drives, Leg
      <4>5. /\ poll'[q].todo = poll[q].todo \ {Leg(q)}
            /\ poll'[q].pc = IF poll'[q].todo = {} THEN "ack" ELSE "record"
        BY <1>1, <3>3, LandIs
      <4>6. k.left = k.nonces \ poll'[q].todo /\ k.landed = k.nonces \ poll'[q].todo
        BY <4>2, <4>3, <4>4, <4>5 DEF Becomes, SameSend
      <4> QED
        BY <3>2, <4>5, <4>6 DEF Drives
    <3>4. CASE Leave(q) /\ poll'[q].pc = "sent"
      <4>1. /\ poll[q].pc = "leave" /\ poll[q].pc \in LegPcs /\ poll[q].ticket.id = i
            /\ poll'[q].todo = poll[q].todo
        BY <2>1, <3>1, <3>4, OwnerIs DEF Leave, At, LegPcs, Edges
      <4>2. Becomes(i, j.left \cup {Leg(q)}, j.landed, j.status, j.ticket)
        BY <1>1, <3>4, <4>1, LeaveIs, LeavingBecomes
      <4>3. j.left = j.nonces \ poll[q].todo /\ j.landed = j.left
        BY <3>2, <4>1 DEF Drives
      <4>4. k.left = (k.nonces \ poll'[q].todo) \cup {Least(poll'[q].todo)}
            /\ k.landed = k.nonces \ poll'[q].todo
        BY <4>1, <4>2, <4>3 DEF Becomes, SameSend, Leg
      <4> QED
        BY <3>2, <3>4, <4>4 DEF Drives
    <3>5. CASE (Record(q) /\ poll'[q].pc = "leave") \/ (Answered(q) /\ poll'[q].pc = "land")
                \/ (Ack(q) /\ poll'[q].pc = "settle")
      <4>1. jobs' = jobs /\ poll'[q].todo = poll[q].todo
        BY <2>1, <3>5 DEF Edges, Record, Answered, Ack, ledgerVars
      <4>2. \/ poll[q].pc = "record" /\ poll'[q].pc = "leave"
            \/ poll[q].pc = "sent" /\ poll'[q].pc = "land"
            \/ poll[q].pc = "ack" /\ poll'[q].pc = "settle"
        BY <3>5 DEF Record, Answered, Ack, At
      <4> QED
        BY <3>2, <4>1, <4>2 DEF Drives
    <3>6. CASE poll'[q].pc = "failing"
      BY <3>6 DEF Drives
    <3> QED
      BY <2>1, <2>3, <3>3, <3>4, <3>5, <3>6 DEF Edges, SendPcs
  <2> QED
    BY <2>2, <2>3
<1> QED
  BY <1>2, <1>3

LEMMA OrderlyStep ==
    ASSUME FreshIds, Driven, FlowBooks', Next, ~Crash
    PROVE  JobsOrderly' /\ LeftBurnt'
<1>1. LedgerTypeOK /\ LedgerTypeOK' /\ FlowBooks /\ FlowTyped
  BY DEF Driven, FlowBooks, Books
<1>2. Onward
  BY <1>1, NextOfLedger, StepOnward
<1>3. ASSUME NEW i \in DOMAIN jobs' \ DOMAIN jobs
      PROVE  Orderly(jobs'[i]) /\ jobs'[i].left = {}
  <2>1. \E c : jobs'[i] = FromClaim(c)
    BY <1>2 DEF Onward
  <2> QED
    BY <2>1 DEF FromClaim, Orderly, NoTicket
<1>4. ASSUME NEW i \in DOMAIN jobs PROVE Orderly(jobs'[i])
  <2> DEFINE j == jobs[i]
             k == jobs'[i]
  <2>1. Fate(i, j) /\ Orderly(j) /\ j \in Job /\ j.landed \subseteq j.left /\ j.left \subseteq j.nonces
    BY <1>1, FateIs DEF Driven, JobsOrderly, LedgerTypeOK
  <2>2. CASE Becomes(i, j.left, j.landed, j.status, j.ticket)
    BY <2>1, <2>2 DEF Becomes, SameSend, Orderly
  <2>3. ASSUME NEW s \in {"rejected", "failed", "cancelled"}, j.ticket = NoTicket,
               Becomes(i, j.left, j.landed, s, NoTicket)
        PROVE  Orderly(k)
    BY <2>1, <2>3 DEF Becomes, SameSend, Orderly
  <2>4. CASE ~IsTerminal(j) /\ Becomes(i, j.left, j.landed, j.status, lastTicket') /\ j.ticket = NoTicket
    BY <2>1, <2>4 DEF Becomes, SameSend, Orderly, IsTerminal, Terminal
  <2>5. ASSUME NEW p \in Pollers, poll[p].id = i, Sends(p)
        PROVE  j.ticket # NoTicket /\ ~IsTerminal(j) /\ Drives(poll[p], j)
    BY <2>5, OwnerIs
  <2>6. ASSUME NEW p \in Pollers, poll[p].id = i, Leave(p),
               Becomes(i, j.left \cup {Leg(p)}, j.landed, j.status, j.ticket)
        PROVE  Orderly(k)
    <3>1. /\ Sends(p) /\ poll[p].pc = "leave" /\ poll[p].pc \in LegPcs
      BY <2>6 DEF Leave, At, Sends, SendPcs, LegPcs
    <3>2. /\ j.left = j.nonces \ poll[p].todo /\ j.landed = j.left
          /\ j.ticket # NoTicket /\ ~IsTerminal(j)
      BY <2>5, <2>6, <3>1 DEF Drives
    <3>3. Leg(p) \in Nonces /\ \A m \in poll[p].todo : Leg(p) <= m
      BY <1>1, <3>1, LegIs
    <3>4. j.nonces \subseteq Nat /\ Leg(p) \in Nat
      BY <2>1, <3>3, NoncesFinite DEF Job
    <3>5. \A m \in j.nonces : m < Leg(p) => m \in j.landed
      BY <3>2, <3>3, <3>4
    <3> QED
      BY <2>1, <2>6, <3>2, <3>5 DEF Becomes, SameSend, Orderly, IsTerminal, Terminal
  <2>7. ASSUME NEW p \in Pollers, poll[p].id = i, Land(p),
               Becomes(i, j.left, j.landed \cup {Leg(p)}, j.status, j.ticket)
        PROVE  Orderly(k)
    <3>1. Sends(p)
      BY <2>7 DEF Land, At, Sends, SendPcs
    <3>2. j.ticket # NoTicket /\ ~IsTerminal(j)
      BY <2>5, <2>7, <3>1
    <3> QED
      BY <2>1, <2>7, <3>2 DEF Becomes, SameSend, Orderly, IsTerminal, Terminal
  <2>8. ASSUME NEW p \in Pollers, poll[p].id = i, Finish(p),
               Becomes(i, j.left, j.landed, "broadcast", j.ticket)
        PROVE  Orderly(k)
    <3>1. Sends(p) /\ poll[p].pc = "settle"
      BY <2>8 DEF Finish, SettleByTicket, At, Sends, SendPcs
    <3>2. j.ticket # NoTicket /\ j.landed = j.nonces
      BY <2>5, <2>8, <3>1 DEF Drives
    <3> QED
      BY <2>1, <2>8, <3>2 DEF Becomes, SameSend, Orderly
  <2>9. ASSUME NEW p \in Pollers, poll[p].id = i, FailOwned(p),
               Becomes(i, j.left, j.landed, "failed", j.ticket)
        PROVE  Orderly(k)
    BY <2>1, <2>9 DEF Becomes, SameSend, Orderly
  <2> QED
    BY <2>1, <2>2, <2>3, <2>4, <2>6, <2>7, <2>8, <2>9 DEF Fate
<1>5. ASSUME NEW i \in DOMAIN jobs, NEW n \in jobs'[i].left
      PROVE  n \in spent'[jobs'[i].acct]
  <2>1. i \in DOMAIN jobs' /\ jobs[i].acct \in Accounts /\ jobs'[i].acct = jobs[i].acct
    BY <1>1, <1>2 DEF Onward, SameSend, LedgerTypeOK, Job
  <2>2. CASE n \in jobs[i].left
    BY <1>2, <2>1, <2>2 DEF Driven, LeftBurnt, Onward
  <2>3. CASE n \notin jobs[i].left
    <3>1. Fate(i, jobs[i])
      BY FateIs
    <3>2. PICK p \in Pollers : Leave(p) /\ poll[p].id = i
      BY <1>5, <2>3, <3>1 DEF Fate, Becomes
    <3>3. LeavingLeg(poll[p].ticket, Leg(p), Sight(poll[p].job, Leg(p)))
      BY <3>2, LeaveIs
    <3>4. poll[p].ticket.id = i
      BY <3>2, OwnerIs DEF Leave, At, Sends, SendPcs
    <3>5. Moves(i) /\ claims' = claims /\ stranded' = stranded /\ SyncNonce(jobs', i)
      BY <1>1, <3>3, <3>4, LeavingMoves DEF LeavingLeg
    <3>6. Containment /\ NoLeak
      BY <1>1 DEF FlowBooks, Books
    <3>7. jobs'[i].left \subseteq jobs'[i].nonces
      BY <1>1, <2>1 DEF LedgerTypeOK
    <3> QED
      BY <1>1, <1>5, <3>5, <3>6, <3>7, SyncKeeps DEF LegSpent
  <2> QED
    BY <2>2, <2>3
<1> QED
  BY <1>3, <1>4, <1>5 DEF JobsOrderly, LeftBurnt

LEMMA DrivenStep == ASSUME FreshIds PROVE Driven /\ [Next]_vars => Driven'
<1> SUFFICES ASSUME Driven, [Next]_vars PROVE Driven'
  OBVIOUS
<1>1. FlowBooks'
  BY FlowBooksStep DEF Driven
<1>2. CASE UNCHANGED vars
  BY <1>1, <1>2
  DEF vars, ledgerVars, flowVars, Driven, Copies, Owners, Sends, Progress, JobsOrderly, LeftBurnt
<1>3. CASE Crash
  <2>1. DOMAIN jobs' = {} /\ \A p \in Pollers : poll'[p].pc = "idle"
    BY <1>3 DEF Crash, Idle
  <2> QED
    BY <1>1, <2>1 DEF Driven, Copies, Owners, Sends, SendPcs, Progress, JobsOrderly, LeftBurnt
<1>4. CASE Next /\ ~Crash
  BY <1>1, <1>4, CopiesStep, OwnersStep, ProgressStep, OrderlyStep DEF Driven
<1> QED
  BY <1>2, <1>3, <1>4

LEMMA DrivenInit == Init => Driven
<1> SUFFICES ASSUME Init PROVE Driven
  OBVIOUS
<1>1. FlowBooks
  BY FlowBooksInit
<1>2. DOMAIN jobs = {} /\ \A p \in Pollers : poll[p].pc = "idle"
  BY DEF Init, LedgerInit, Idle
<1> QED
  BY <1>1, <1>2 DEF Driven, Copies, Owners, Sends, SendPcs, Progress, JobsOrderly, LeftBurnt

LEMMA DrivenAlways == ASSUME FreshIds PROVE Spec => []Driven
BY DrivenInit, DrivenStep, PTL DEF Spec

\* Legs leave in order, the one before answered: for every bundle, whatever
\* polls race, and whatever fails or crashes in between.
THEOREM LegsLeaveInOrder == ASSUME FreshIds PROVE Spec => []InOrder
<1>1. Driven => InOrder
  BY DEF Driven, JobsOrderly, Orderly, InOrder
<1> QED
  BY <1>1, DrivenAlways, PTL

\* A send said to be broadcast has had every leg answered by the node.
THEOREM BroadcastIsWhole == ASSUME FreshIds PROVE Spec => []BroadcastMeansAll
<1>1. Driven => BroadcastMeansAll
  BY DEF Driven, JobsOrderly, Orderly, BroadcastMeansAll
<1> QED
  BY <1>1, DrivenAlways, PTL

\* While the node is asked, the number of the leg is burnt: no crash of the call,
\* no settling behind it can hand the number to another send.
THEOREM SentIsBurnt == ASSUME FreshIds PROVE Spec => []BytesBurn
<1>1. ASSUME Driven, NEW p \in Pollers, At(p, "sent") PROVE Leg(p) \in spent[poll[p].job.acct]
  <2>1. Sends(p) /\ poll[p].pc = "sent"
    BY <1>1 DEF At, Sends, SendPcs
  <2>2. /\ poll[p].id \in DOMAIN jobs /\ poll[p].job.acct = jobs[poll[p].id].acct
        /\ Leg(p) \in jobs[poll[p].id].left
    BY <1>1, <2>1, OwnerIs DEF Drives, Leg, SameSend
  <2> QED
    BY <1>1, <2>2 DEF Driven, LeftBurnt
<1>2. Driven => BytesBurn
  BY <1>1 DEF BytesBurn
<1> QED
  BY <1>2, DrivenAlways, PTL

-----------------------------------------------------------------------------
(* What is on the wire and on disk, by job                                 *)

\* Bytes carry the claim of a job that has counted them as left, if it is here.
Carried(w) ==
    /\ w.claim <= lastClaim /\ \A c \in claims : c.id # w.claim
    /\ \A i \in DOMAIN jobs : jobs[i].claim = w.claim => w.nonce \in jobs[i].left

\* A row names its job by id and by claim, and its leg by the number.
RowKnown(r) ==
    /\ r.claim <= lastClaim /\ r.id \in served /\ \A c \in claims : c.id # r.claim
    /\ \A i \in DOMAIN jobs :
        /\ r.id = i => r.claim = jobs[i].claim
        /\ r.claim = jobs[i].claim =>
            r.acct = jobs[i].acct /\ r.nonce \in jobs[i].nonces /\ r.leg = IndexIn(jobs[i], r.nonce)

LegsApart == \A x, y \in rows : x.claim = y.claim /\ x.leg = y.leg => x.nonce = y.nonce
Hashed(r) == r.hash \in {NoHash, r.claim} /\ (r.status = "pending" => r.hash = r.claim)

Recorded ==
    /\ Driven
    /\ \A w \in wire : Carried(w)
    /\ \A r \in rows : RowKnown(r) /\ Hashed(r)
    /\ LegsApart

\* What was true of bytes or a row stays true: claims are numbered onwards, ids
\* never come back.
LEMMA KnownOnward ==
    ASSUME FreshIds, Driven, Next, NEW x
    PROVE  /\ x \in Sighting /\ Carried(x) => Carried(x)'
           /\ x \in Row /\ RowKnown(x) => RowKnown(x)'
<1>1. CASE Crash
  BY <1>1 DEF Crash, Carried, RowKnown
<1>2. CASE ~Crash
  <2>1. Onward /\ LedgerTypeOK /\ FlowTyped
    BY <1>2, NextOfLedger, StepOnward DEF Driven, FlowBooks, Books
  <2>2. lastClaim \in Nat /\ lastClaim' \in Nat
    BY <2>1, FlowTypedStep DEF LedgerTypeOK, FlowTyped, TypeOK
  <2>3. \A i \in DOMAIN jobs' \ DOMAIN jobs :
            i \notin served /\ \E c \in claims : jobs'[i].claim = c.id
    BY <2>1 DEF Onward, FromClaim
  <2>4. \A i \in DOMAIN jobs :
            /\ jobs'[i].claim = jobs[i].claim /\ jobs'[i].acct = jobs[i].acct
            /\ jobs'[i].nonces = jobs[i].nonces /\ jobs[i].left \subseteq jobs'[i].left
    BY <2>1 DEF Onward, SameSend
  <2>5. ASSUME NEW claim \in Nat, claim <= lastClaim, \A c \in claims : c.id # claim
        PROVE  claim <= lastClaim' /\ \A c \in claims' : c.id # claim
    BY <2>1, <2>2, <2>5 DEF Onward
  <2>6. ASSUME x \in Sighting, Carried(x) PROVE Carried(x)'
    BY <2>3, <2>4, <2>5, <2>6 DEF Carried, Sighting
  <2>7. ASSUME x \in Row, RowKnown(x) PROVE RowKnown(x)'
    <3>1. x.claim \in Nat /\ served \subseteq served'
      BY <2>1, <2>7 DEF Row, Onward
    <3>2. x.claim <= lastClaim' /\ x.id \in served' /\ \A c \in claims' : c.id # x.claim
      BY <2>5, <2>7, <3>1 DEF RowKnown
    <3>3. ASSUME NEW i \in DOMAIN jobs'
          PROVE  /\ x.id = i => x.claim = jobs'[i].claim
                 /\ x.claim = jobs'[i].claim =>
                    /\ x.acct = jobs'[i].acct /\ x.nonce \in jobs'[i].nonces
                    /\ x.leg = IndexIn(jobs'[i], x.nonce)
      <4>1. CASE i \in DOMAIN jobs
        BY <2>4, <2>7, <4>1 DEF RowKnown, IndexIn
      <4>2. CASE i \notin DOMAIN jobs
        BY <2>3, <2>7, <3>3, <4>2 DEF RowKnown
      <4> QED
        BY <4>1, <4>2
    <3> QED
      BY <3>2, <3>3 DEF RowKnown
  <2> QED
    BY <2>6, <2>7
<1> QED
  BY <1>1, <1>2

LEMMA CarriedStep ==
    ASSUME FreshIds, Driven, Driven', Next, \A w \in wire : Carried(w), NEW w \in wire'
    PROVE  Carried(w)'
<1>1. FlowTyped /\ LedgerTypeOK /\ Books'
  BY DEF Driven, FlowBooks, Books
<1>2. CASE w \in wire
  BY <1>1, <1>2, KnownOnward DEF LedgerTypeOK
<1>3. CASE w \notin wire
  <2>1. PICK p \in Pollers : Leave(p) /\ w = Sight(poll[p].job, Leg(p))
    BY <1>1, <1>3, WireGrows
  <2>2. /\ LeavingLeg(poll[p].ticket, Leg(p), Sight(poll[p].job, Leg(p)))
        /\ Sends(p)
    BY <2>1, LeaveIs DEF Leave, At, Sends, SendPcs
  <2> DEFINE i == poll[p].id
  <2>3. /\ poll[p].ticket.id = i /\ poll[p].job.claim = jobs[i].claim
    BY <2>2, OwnerIs DEF SameSend
  <2>4. /\ i \in DOMAIN jobs' /\ jobs'[i].claim = jobs[i].claim
        /\ jobs'[i].left = jobs[i].left \cup {Leg(p)}
    BY <1>1, <2>2, <2>3, LeavingBecomes DEF Becomes, SameSend
  <2>5. w.claim = jobs'[i].claim /\ w.nonce = Leg(p)
    BY <2>1, <2>3, <2>4 DEF Sight
  <2>6. /\ jobs'[i].claim <= lastClaim' /\ \A c \in claims' : c.id # jobs'[i].claim
        /\ \A k \in DOMAIN jobs' : jobs'[k].claim = jobs'[i].claim => k = i
    BY <1>1, <2>4 DEF Books, ClaimIds
  <2> QED
    BY <2>4, <2>5, <2>6 DEF Carried
<1> QED
  BY <1>2, <1>3

\* The row an intent writes is its leg's, and its leg's alone.
LEMMA IntentKnown ==
    ASSUME Driven, NEW p \in Pollers, At(p, "record")
    PROVE  /\ Intent(p) \in Row /\ RowKnown(Intent(p)) /\ Hashed(Intent(p))
           /\ \A r : RowKnown(r) /\ r.claim = Intent(p).claim /\ r.leg = Intent(p).leg
                        => r.nonce = Intent(p).nonce
<1> DEFINE i == poll[p].id
<1>1. FlowTyped /\ Books /\ NoOverwrite /\ LedgerTypeOK
  BY DEF Driven, FlowBooks, Books
<1>2. Sends(p) /\ poll[p].pc \in LegPcs
  BY DEF At, Sends, SendPcs, LegPcs
<1>3. /\ i \in DOMAIN jobs /\ jobs[i] \in Job /\ SameSend(poll[p].job, jobs[i])
  BY <1>2, OwnerIs
<1>4. Leg(p) \in jobs[i].nonces /\ LegIndex(p) = IndexIn(jobs[i], Leg(p))
  BY <1>2, <1>3, LedgerLegIs DEF SameSend, LegIndex, IndexIn
<1>5. /\ jobs[i].claim <= lastClaim /\ i \in served /\ \A c \in claims : c.id # jobs[i].claim
      /\ \A k \in DOMAIN jobs : jobs[k].claim = jobs[i].claim => k = i
  BY <1>1, <1>3 DEF Books, ClaimIds, NoOverwrite
<1>6. /\ Intent(p).claim = jobs[i].claim /\ Intent(p).id = i /\ Intent(p).acct = jobs[i].acct
      /\ Intent(p).leg = IndexIn(jobs[i], Leg(p)) /\ Intent(p).nonce = Leg(p)
      /\ Intent(p).hash = NoHash /\ Intent(p).status = "unknown"
  BY <1>3, <1>4 DEF Intent, SameSend
<1>7. Intent(p) \in Row
  BY <1>1, IntentType
<1>8. RowKnown(Intent(p)) /\ Hashed(Intent(p))
  BY <1>3, <1>4, <1>5, <1>6 DEF RowKnown, Hashed
<1>9. ASSUME NEW r, RowKnown(r), r.claim = Intent(p).claim, r.leg = Intent(p).leg
      PROVE  r.nonce = Intent(p).nonce
  <2>1. r.nonce \in jobs[i].nonces /\ IndexIn(jobs[i], r.nonce) = IndexIn(jobs[i], Leg(p))
    BY <1>3, <1>6, <1>9 DEF RowKnown
  <2>2. jobs[i].nonces \in SUBSET Nonces
    BY <1>3 DEF Job
  <2> QED
    BY <1>4, <1>6, <2>1, <2>2, IndexIs
<1> QED
  BY <1>7, <1>8, <1>9

\* Where a row comes from.
LEMMA RowsFrom ==
    ASSUME FlowTyped, Next
    PROVE  \/ \A x \in rows' : \E r \in rows : SameRow(x, r)
           \/ \E p \in Pollers : Record(p) /\ rows' = rows \cup {Intent(p)}
<1> USE DEF SameRow
<1>1. rows \subseteq Row
  BY DEF FlowTyped, TypeOK
<1>2. ASSUME NEW p \in Pollers, Answered(p) PROVE \A x \in rows' : \E r \in rows : SameRow(x, r)
  BY <1>1, <1>2 DEF Answered, Row
<1>3. ASSUME NEW r \in rows, Sweep(r) PROVE \A x \in rows' : \E y \in rows : SameRow(x, y)
  BY <1>1, <1>3 DEF Sweep, Row
<1>4. \A p \in Pollers : Record(p) => rows' = rows \cup {Intent(p)}
  BY DEF Record
<1> QED
  BY <1>2, <1>3, <1>4, RowsMove

\* A hash goes to the row of the request and leg it was asked for.
LEMMA HashedStep ==
    ASSUME Recorded, Next, NEW x \in rows'
    PROVE  Hashed(x)
<1>1. rows \subseteq Row /\ FlowTyped
  BY DEF Recorded, Driven, FlowBooks, FlowTyped, TypeOK
<1>2. CASE rows' = rows
  BY <1>2 DEF Recorded
<1>3. ASSUME NEW r \in rows, Sweep(r) PROVE Hashed(x)
  <2>1. CASE x \in rows
    BY <2>1 DEF Recorded
  <2>2. CASE x = [r EXCEPT !.status = "settled"]
    <3>1. x.hash = r.hash /\ x.claim = r.claim /\ x.status = "settled"
      BY <1>1, <2>2 DEF Row
    <3> QED
      BY <3>1 DEF Recorded, Hashed
  <2> QED
    BY <1>3, <2>1, <2>2 DEF Sweep
<1>4. ASSUME NEW p \in Pollers, Record(p) PROVE Hashed(x)
  BY <1>4, IntentKnown DEF Record, Recorded
<1>5. ASSUME NEW p \in Pollers, Answered(p) PROVE Hashed(x)
  <2>1. CASE x \in rows
    BY <2>1 DEF Recorded
  <2>2. CASE x \notin rows
    <3>1. PICK r \in rows :
            /\ OwnsRow(p, r)
            /\ x = [r EXCEPT !.status = "pending", !.hash = poll[p].job.claim]
      BY <1>5, <2>2 DEF Answered
    <3>2. x.hash = poll[p].job.claim /\ x.claim = r.claim
      BY <1>1, <3>1 DEF Row
    <3>3. poll[p].id \in DOMAIN jobs /\ poll[p].job.claim = jobs[poll[p].id].claim
      BY <1>5 DEF Recorded, Driven, Copies, SameSend, Answered, At
    <3>4. r.claim = poll[p].job.claim
      BY <3>1, <3>3 DEF Recorded, RowKnown, OwnsRow
    <3> QED
      BY <3>2, <3>4 DEF Hashed
  <2> QED
    BY <2>1, <2>2
<1> QED
  BY <1>2, <1>3, <1>4, <1>5, RowsMove

LEMMA RecordedStep == ASSUME FreshIds PROVE Recorded /\ [Next]_vars => Recorded'
<1> SUFFICES ASSUME Recorded, [Next]_vars PROVE Recorded'
  OBVIOUS
<1>1. Driven /\ Driven' /\ FlowTyped /\ rows \subseteq Row
  BY DrivenStep DEF Recorded, Driven, FlowBooks, FlowTyped, TypeOK
<1>2. CASE UNCHANGED vars
  BY <1>1, <1>2
  DEF vars, ledgerVars, flowVars, Recorded, Carried, RowKnown, Hashed, LegsApart
<1>3. CASE Next
  <2>1. \A w \in wire' : Carried(w)'
    BY <1>1, <1>3, CarriedStep DEF Recorded
  <2>2. \A x \in rows' : Hashed(x)
    BY <1>3, HashedStep
  <2>3. \A r \in Row : RowKnown(r) => RowKnown(r)'
    BY <1>1, <1>3, KnownOnward
  <2>4. rows' \subseteq Row
    BY <1>1 DEF Driven, FlowBooks, FlowTyped, TypeOK
  <2>5. CASE \A x \in rows' : \E r \in rows : SameRow(x, r)
    <3>1. \A x \in rows' : RowKnown(x)
      BY <2>5 DEF SameRow, RowKnown, Recorded
    <3>2. LegsApart'
      BY <2>5 DEF SameRow, Recorded, LegsApart
    <3> QED
      BY <1>1, <2>1, <2>2, <2>3, <2>4, <3>1, <3>2 DEF Recorded, Hashed
  <2>6. ASSUME NEW p \in Pollers, Record(p), rows' = rows \cup {Intent(p)}
        PROVE  Recorded'
    <3>1. /\ RowKnown(Intent(p))
          /\ \A r : RowKnown(r) /\ r.claim = Intent(p).claim /\ r.leg = Intent(p).leg
                        => r.nonce = Intent(p).nonce
      BY <1>1, <2>6, IntentKnown DEF Record
    <3>2. \A x \in rows' : RowKnown(x)
      BY <2>6, <3>1 DEF Recorded
    <3>3. LegsApart'
      BY <2>6, <3>1, <3>2 DEF Recorded, LegsApart
    <3> QED
      BY <1>1, <2>1, <2>2, <2>3, <2>4, <3>2, <3>3 DEF Recorded, Hashed
  <2> QED
    BY <1>1, <1>3, <2>5, <2>6, RowsFrom
<1> QED
  BY <1>2, <1>3

LEMMA RecordedInit == Init => Recorded
BY DrivenInit DEF Init, LedgerInit, Recorded, LegsApart

LEMMA RecordedAlways == ASSUME FreshIds PROVE Spec => []Recorded
BY RecordedInit, RecordedStep, PTL DEF Spec

\* No leg's bytes leave twice: not by a second dispatch, nor a later poll, nor
\* after a restart.
THEOREM LegsLeaveOnce == ASSUME FreshIds PROVE Spec => []SentOnce
<1>1. ASSUME Recorded, NEW p \in Pollers, poll[p].pc \in {"record", "leave"},
             Sight(poll[p].job, Leg(p)) \in wire
      PROVE  FALSE
  <2> DEFINE i == poll[p].id
  <2>1. Sends(p) /\ poll[p].pc \in LegPcs /\ Driven
    BY <1>1 DEF Sends, SendPcs, LegPcs, Recorded
  <2>2. /\ i \in DOMAIN jobs /\ poll[p].job.claim = jobs[i].claim
        /\ jobs[i].left = jobs[i].nonces \ poll[p].todo
    BY <1>1, <2>1, OwnerIs DEF SameSend, Drives
  <2>3. Leg(p) \in poll[p].todo
    BY <2>1, LedgerLegIs
  <2>4. Leg(p) \in jobs[i].left
    BY <1>1, <2>2 DEF Recorded, Carried, Sight
  <2> QED
    BY <2>2, <2>3, <2>4
<1>2. Recorded => SentOnce
  BY <1>1 DEF SentOnce
<1> QED
  BY <1>2, RecordedAlways, PTL

\* A cancel or a refusal the caller was told of is final: nothing of that send is
\* on the wire, and by FlowVerdictsStand nothing ever will be.
THEOREM CancelIsFinal == ASSUME FreshIds PROVE Spec => []CancelledNeverLeaves
<1>1. Recorded => CancelledNeverLeaves
  <2> SUFFICES ASSUME Recorded, NEW i \in DOMAIN jobs,
                      jobs[i].status \in {"cancelled", "rejected"},
                      NEW w \in wire, w.claim = jobs[i].claim
               PROVE  FALSE
    BY DEF CancelledNeverLeaves
  <2>1. jobs[i].left = {}
    BY DEF Recorded, Driven, JobsOrderly, Orderly
  <2>2. w.nonce \in jobs[i].left
    BY DEF Recorded, Carried
  <2> QED
    BY <2>1, <2>2
<1> QED
  BY <1>1, RecordedAlways, PTL

\* The hash a row carries is that of its own transaction, so a receipt settles the
\* row of the bytes it is about.
THEOREM HashesNameTheirRows == ASSUME FreshIds PROVE Spec => []HashNamesItsRow
<1>1. Recorded => HashNamesItsRow
  BY DEF Recorded, Hashed, HashNamesItsRow
<1> QED
  BY <1>1, RecordedAlways, PTL
=============================================================================
