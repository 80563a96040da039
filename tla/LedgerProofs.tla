---------------------------- MODULE LedgerProofs ----------------------------
(* Machine-checked facts about Ledger, for every value of its constants.   *)
EXTENDS Ledger, TLAPS

-----------------------------------------------------------------------------
(* Type correctness                                                        *)

\* SyncNonce keeps the reserver well formed, and burns only what is reserved.
LEMMA SyncNonceType ==
    ASSUME LedgerTypeOK, NEW js, DOMAIN js \subseteq RequestIds, js \in [DOMAIN js -> Job],
           NEW i \in DOMAIN js, SyncNonce(js, i)
    PROVE  /\ reserved' \in [Accounts -> SUBSET Nonces]
           /\ spent' \in [Accounts -> SUBSET Nonces]
           /\ \A a \in Accounts : spent'[a] \subseteq reserved'[a]
<1> DEFINE j == js[i]
           burnt == {n \in j.nonces : LegSpent(j, n)}
           spentNow == spent[j.acct] \cup burnt
           idle == (j.nonces \ Held(js, claims, j.acct)) \ spentNow
<1>1. j.acct \in Accounts /\ j.nonces \subseteq Nonces
  BY DEF Job
<1>2. burnt \subseteq Nonces /\ spentNow \subseteq Nonces /\ idle \cap spentNow = {}
  BY <1>1 DEF LedgerTypeOK
<1>3. /\ spent' = [spent EXCEPT ![j.acct] = spentNow]
      /\ reserved' = [reserved EXCEPT ![j.acct] = (@ \cup burnt) \ idle]
  BY DEF SyncNonce
<1> HIDE DEF burnt, idle
<1>4. /\ reserved \in [Accounts -> SUBSET Nonces] /\ spent \in [Accounts -> SUBSET Nonces]
      /\ \A a \in Accounts : spent[a] \subseteq reserved[a]
  BY DEF LedgerTypeOK
<1> QED
  BY <1>1, <1>2, <1>3, <1>4

\* The jobs after one of them got another value in a field.
LEMMA JobUpdate ==
    ASSUME LedgerTypeOK, NEW i \in DOMAIN jobs, NEW j \in Job,
           j.landed \subseteq j.left, j.left \subseteq j.nonces,
           jobs' = [jobs EXCEPT ![i] = j]
    PROVE  /\ DOMAIN jobs' = DOMAIN jobs /\ jobs' \in [DOMAIN jobs' -> Job]
           /\ DOMAIN jobs' \subseteq RequestIds
           /\ \A k \in DOMAIN jobs' :
                jobs'[k].landed \subseteq jobs'[k].left /\ jobs'[k].left \subseteq jobs'[k].nonces
BY DEF LedgerTypeOK

LEMMA NewClaimType ==
    ASSUME LedgerTypeOK, NEW a \in Accounts, NEW ns \in SUBSET Nonces, NEW r \in Replaces,
           NewClaim(a, ns, r)
    PROVE  claims' \subseteq Claim /\ lastClaim' \in Nat
BY DEF LedgerTypeOK, NewClaim, Claim

LEMMA SettleType ==
    ASSUME LedgerTypeOK, NEW i, NEW s \in Terminal, NEW t, SettleLocked(i, s, t),
           tickets' \subseteq tickets
    PROVE  LedgerTypeOK'
<1> DEFINE j == [jobs[i] EXCEPT !.status = s]
<1>1. i \in DOMAIN jobs /\ jobs[i] \in Job /\ jobs \in [DOMAIN jobs -> Job]
  BY DEF LedgerTypeOK, SettleLocked
<1>2. j \in Job /\ j.landed \subseteq j.left /\ j.left \subseteq j.nonces
  BY <1>1 DEF LedgerTypeOK, Job, Status
<1>3. jobs' = [jobs EXCEPT ![i] = j]
  BY <1>1 DEF SettleLocked
<1>4. /\ DOMAIN jobs' = DOMAIN jobs /\ jobs' \in [DOMAIN jobs' -> Job]
      /\ DOMAIN jobs' \subseteq RequestIds
      /\ \A k \in DOMAIN jobs' :
            jobs'[k].landed \subseteq jobs'[k].left /\ jobs'[k].left \subseteq jobs'[k].nonces
  <2> HIDE DEF j
  <2> QED BY <1>1, <1>2, <1>3, JobUpdate
<1>5. SyncNonce(jobs', i)
  BY DEF SettleLocked
<1>6. /\ reserved' \in [Accounts -> SUBSET Nonces]
      /\ spent' \in [Accounts -> SUBSET Nonces]
      /\ \A a \in Accounts : spent'[a] \subseteq reserved'[a]
  BY <1>1, <1>4, <1>5, SyncNonceType
<1> QED
  BY <1>4, <1>6 DEF LedgerTypeOK, SettleLocked

LEMMA LeavingType ==
    ASSUME LedgerTypeOK, NEW t, NEW n, NEW seen \in Sighting, LeavingLeg(t, n, seen)
    PROVE  LedgerTypeOK'
<1> DEFINE i == t.id
           j == [jobs[i] EXCEPT !.left = @ \cup {n}]
<1>1. i \in DOMAIN jobs /\ jobs[i] \in Job /\ n \in jobs[i].nonces /\ jobs \in [DOMAIN jobs -> Job]
  BY DEF LedgerTypeOK, LeavingLeg, Owns
<1>2. j \in Job /\ j.landed \subseteq j.left /\ j.left \subseteq j.nonces
  BY <1>1 DEF LedgerTypeOK, Job
<1>3. jobs' = [jobs EXCEPT ![i] = j]
  BY <1>1 DEF LeavingLeg
<1>4. /\ DOMAIN jobs' = DOMAIN jobs /\ jobs' \in [DOMAIN jobs' -> Job]
      /\ DOMAIN jobs' \subseteq RequestIds
      /\ \A k \in DOMAIN jobs' :
            jobs'[k].landed \subseteq jobs'[k].left /\ jobs'[k].left \subseteq jobs'[k].nonces
  <2> HIDE DEF j
  <2> QED BY <1>1, <1>2, <1>3, JobUpdate
<1>5. SyncNonce(jobs', i)
  BY DEF LeavingLeg
<1>6. /\ reserved' \in [Accounts -> SUBSET Nonces]
      /\ spent' \in [Accounts -> SUBSET Nonces]
      /\ \A a \in Accounts : spent'[a] \subseteq reserved'[a]
  BY <1>1, <1>4, <1>5, SyncNonceType
<1> QED
  BY <1>4, <1>6 DEF LedgerTypeOK, LeavingLeg

LEMMA LandedType ==
    ASSUME LedgerTypeOK, NEW t, NEW n, Landed(t, n)
    PROVE  LedgerTypeOK'
<1> DEFINE i == t.id
           j == [jobs[i] EXCEPT !.landed = @ \cup {n}]
<1>1. i \in DOMAIN jobs /\ jobs[i] \in Job /\ n \in jobs[i].left /\ jobs \in [DOMAIN jobs -> Job]
  BY DEF LedgerTypeOK, Landed, Owns
<1>2. j \in Job /\ j.landed \subseteq j.left /\ j.left \subseteq j.nonces
  BY <1>1 DEF LedgerTypeOK, Job
<1>3. jobs' = [jobs EXCEPT ![i] = j]
  BY <1>1 DEF Landed
<1>4. /\ DOMAIN jobs' = DOMAIN jobs /\ jobs' \in [DOMAIN jobs' -> Job]
      /\ DOMAIN jobs' \subseteq RequestIds
      /\ \A k \in DOMAIN jobs' :
            jobs'[k].landed \subseteq jobs'[k].left /\ jobs'[k].left \subseteq jobs'[k].nonces
  <2> HIDE DEF j
  <2> QED BY <1>1, <1>2, <1>3, JobUpdate
<1> QED
  BY <1>4 DEF LedgerTypeOK, Landed

LEMMA ClaimBroadcastType ==
    ASSUME LedgerTypeOK, NEW i \in RequestIds, ClaimBroadcast(i)
    PROVE  LedgerTypeOK'
<1> DEFINE j == [jobs[i] EXCEPT !.ticket = lastTicket']
<1>1. /\ i \in DOMAIN jobs /\ jobs[i] \in Job /\ jobs \in [DOMAIN jobs -> Job]
      /\ lastTicket' \in Nat
  BY DEF LedgerTypeOK, ClaimBroadcast
<1>2. j \in Job /\ j.landed \subseteq j.left /\ j.left \subseteq j.nonces
  BY <1>1 DEF LedgerTypeOK, Job
<1>3. jobs' = [jobs EXCEPT ![i] = j]
  BY <1>1 DEF ClaimBroadcast
<1>4. /\ DOMAIN jobs' = DOMAIN jobs /\ jobs' \in [DOMAIN jobs' -> Job]
      /\ DOMAIN jobs' \subseteq RequestIds
      /\ \A k \in DOMAIN jobs' :
            jobs'[k].landed \subseteq jobs'[k].left /\ jobs'[k].left \subseteq jobs'[k].nonces
  <2> HIDE DEF j
  <2> QED BY <1>1, <1>2, <1>3, JobUpdate
<1>5. tickets' \subseteq Ticket
  BY <1>1 DEF LedgerTypeOK, ClaimBroadcast, Ticket
<1> QED
  BY <1>1, <1>4, <1>5 DEF LedgerTypeOK, ClaimBroadcast

LEMMA CommitType ==
    ASSUME LedgerTypeOK, NEW c, NEW i \in RequestIds, Commit(c, i)
    PROVE  LedgerTypeOK'
<1>1. c \in Claim /\ jobs \in [DOMAIN jobs -> Job] /\ DOMAIN jobs \subseteq RequestIds
  BY DEF LedgerTypeOK, Commit
<1>2. FromClaim(c) \in Job
  BY <1>1 DEF FromClaim, Job, Claim, Status, NoTicket
<1>3. /\ DOMAIN jobs' \subseteq RequestIds /\ jobs' \in [DOMAIN jobs' -> Job]
  BY <1>1, <1>2 DEF Commit
<1>4. \A k \in DOMAIN jobs' :
        jobs'[k].landed \subseteq jobs'[k].left /\ jobs'[k].left \subseteq jobs'[k].nonces
  BY <1>1 DEF Commit, FromClaim, LedgerTypeOK
<1>5. stranded' \subseteq Accounts \X Nonces
  BY <1>1 DEF Commit, LedgerTypeOK, Job
<1> QED
  BY <1>3, <1>4, <1>5 DEF LedgerTypeOK, Commit

\* The doors one by one, for whatever is sighted on the wire and whatever rows
\* are burnt: what a step lemma cites, here and where the ledger is composed.
Step ==
    \/ \E a \in Accounts, n \in Nonces, count \in 1..MaxLegs : Open(a, n, count)
    \/ \E a \in Accounts, n \in Nonces : PinFree(a, n) \/ PinSend(a, n) \/ PinDeparted(a, n)
    \/ \E c \in claims : Abandon(c)
    \/ \E c \in claims, i \in RequestIds : Commit(c, i)
    \/ \E i \in RequestIds, s \in Terminal : Settle(i, s)
    \/ \E i \in RequestIds : ClaimBroadcast(i)
    \/ \E t \in tickets, n \in Nonces, seen \in Sighting : LeavingLeg(t, n, seen)
    \/ \E t \in tickets, n \in Nonces : Landed(t, n)
    \/ \E t \in tickets, s \in Terminal : SettleOwned(t, s)
    \/ \E t \in tickets : DropTicket(t)
    \/ \E rows \in SUBSET (Accounts \X Nonces) : SeedSpent(rows)

LEMMA SightType ==
    ASSUME LedgerTypeOK, NEW i \in DOMAIN jobs, NEW n \in Nonces
    PROVE  Sight(jobs[i], n) \in Sighting
BY DEF LedgerTypeOK, Sight, Sighting, Job

LEMMA NextIsStep == LedgerTypeOK /\ LedgerNext => Step
<1> SUFFICES ASSUME LedgerTypeOK, LedgerNext PROVE Step
  OBVIOUS
<1>1. ASSUME NEW t \in tickets, NEW n \in Nonces, LeavingLeg(t, n, Sight(jobs[t.id], n))
      PROVE  Step
  <2>1. Sight(jobs[t.id], n) \in Sighting
    BY <1>1, SightType DEF LeavingLeg, Owns
  <2> QED
    BY <1>1, <2>1 DEF Step
<1>2. ASSUME NEW rows \in SUBSET PriorRows, SeedSpent(rows) PROVE Step
  <2>1. rows \in SUBSET (Accounts \X Nonces)
    BY <1>2, LedgerAssumption DEF Nonces
  <2> QED
    BY <1>2, <2>1 DEF Step
<1> QED
  BY <1>1, <1>2 DEF LedgerNext, Step, ClaimCancel, PolledVerdicts, OwnedVerdicts, Terminal

LEMMA TypeStep == LedgerTypeOK /\ [Step]_ledgerVars => LedgerTypeOK'
<1> SUFFICES ASSUME LedgerTypeOK, [Step]_ledgerVars PROVE LedgerTypeOK'
  OBVIOUS
<1>1. CASE UNCHANGED ledgerVars
  BY <1>1 DEF LedgerTypeOK, ledgerVars
<1>2. CASE Step
  <2>1. CASE \E a \in Accounts, n \in Nonces, count \in 1..MaxLegs : Open(a, n, count)
    <3> PICK a \in Accounts, n \in Nonces, count \in 1..MaxLegs : Open(a, n, count)
      BY <2>1
    <3> PICK run \in SUBSET Nonces :
            /\ reserved' = [reserved EXCEPT ![a] = @ \cup run] /\ NewClaim(a, run, None)
      BY DEF Open
    <3>1. claims' \subseteq Claim /\ lastClaim' \in Nat
      BY NewClaimType DEF Replaces
    <3> QED
      BY <3>1 DEF LedgerTypeOK, NewClaim
  <2>2. CASE \E a \in Accounts, n \in Nonces :
                PinFree(a, n) \/ PinSend(a, n) \/ PinDeparted(a, n)
    <3> PICK a \in Accounts, n \in Nonces : PinFree(a, n) \/ PinSend(a, n) \/ PinDeparted(a, n)
      BY <2>2
    <3> PICK r \in Replaces : NewClaim(a, {n}, r)
      BY DEF PinFree, PinSend, PinDeparted, Leavers, Replaces, LedgerTypeOK
    <3>1. claims' \subseteq Claim /\ lastClaim' \in Nat
      BY NewClaimType
    <3>2. reserved' = reserved \/ reserved' = [reserved EXCEPT ![a] = @ \cup {n}]
      BY DEF PinFree, PinSend, PinDeparted
    <3> QED
      BY <3>1, <3>2 DEF LedgerTypeOK, NewClaim
  <2>3. CASE \E c \in claims : Abandon(c)
    BY <2>3 DEF Abandon, Release, LedgerTypeOK, Claim
  <2>4. CASE \E c \in claims, i \in RequestIds : Commit(c, i)
    BY <2>4, CommitType
  <2>5. CASE \E i \in RequestIds, s \in Terminal : Settle(i, s)
    BY <2>5, SettleType DEF Settle
  <2>6. CASE \E i \in RequestIds : ClaimBroadcast(i)
    BY <2>6, ClaimBroadcastType
  <2>7. CASE \/ \E t \in tickets, n \in Nonces, seen \in Sighting : LeavingLeg(t, n, seen)
             \/ \E t \in tickets, n \in Nonces : Landed(t, n)
    BY <2>7, LeavingType, LandedType
  <2>8. CASE \E t \in tickets, s \in Terminal : SettleOwned(t, s)
    BY <2>8, SettleType DEF SettleOwned
  <2>9. CASE \E t \in tickets : DropTicket(t)
    BY <2>9 DEF DropTicket, LedgerTypeOK
  <2>10. CASE \E rows \in SUBSET (Accounts \X Nonces) : SeedSpent(rows)
    BY <2>10 DEF SeedSpent, RowsOf, LedgerTypeOK
  <2> QED
    BY <1>2, <2>1, <2>2, <2>3, <2>4, <2>5, <2>6, <2>7, <2>8, <2>9, <2>10 DEF Step
<1> QED
  BY <1>1, <1>2

LEMMA TypeInit == LedgerInit => LedgerTypeOK
BY DEF LedgerInit, LedgerTypeOK

\* The ledger never leaves its types, and a number is never burnt without
\* being reserved: mark_spent inserts into both sets.
THEOREM TypeCorrect == LedgerSpec => []LedgerTypeOK
<1>1. LedgerTypeOK /\ [LedgerNext]_ledgerVars => LedgerTypeOK'
  BY NextIsStep, TypeStep
<1> QED
  BY <1>1, TypeInit, PTL DEF LedgerSpec

-----------------------------------------------------------------------------
(* The inductive invariant                                                 *)

\* A claim id names one holder: no two claims, no two jobs, no claim and job.
ClaimIds ==
    /\ \A c \in claims : c.id <= lastClaim
    /\ \A c, d \in claims : c.id = d.id => c = d
    /\ \A i \in DOMAIN jobs :
        jobs[i].claim <= lastClaim /\ \A c \in claims : c.id # jobs[i].claim
    /\ \A i, k \in DOMAIN jobs : jobs[i].claim = jobs[k].claim => i = k

\* A ticket in hand is numbered, and the job it owns can still move.
TicketsLive ==
    /\ \A t \in tickets : t.ticket \in 1..lastTicket /\ t.id \in DOMAIN jobs
    /\ \A i \in DOMAIN jobs : jobs[i].ticket <= lastTicket
    /\ \A t \in tickets : Owns(t) => ~IsTerminal(jobs[t.id])

\* What is on the wire is burnt, and a leg that left is on the wire.
WireBurnt ==
    /\ \A w \in wire : w.nonce \in spent[w.acct]
    /\ \A i \in DOMAIN jobs : \A n \in jobs[i].left : Sight(jobs[i], n) \in wire

\* A holder that names nothing it replaces and has yet to leave with a number
\* has it to itself on the wire.
Untouched ==
    /\ \A c \in claims : c.replaces = None =>
        \A w \in wire : ~(w.acct = c.acct /\ w.nonce \in c.nonces)
    /\ \A i \in DOMAIN jobs : jobs[i].replaces = None =>
        \A n \in jobs[i].nonces : HoldsLeg(jobs[i], n) /\ ~LegSpent(jobs[i], n) =>
            \A w \in wire : ~(w.acct = jobs[i].acct /\ w.nonce = n)

\* What one process knows, and what it left on the wire: a crash keeps the
\* second and loses the first, so the two are kept apart.
Books ==
    /\ LedgerTypeOK /\ ClaimIds /\ TicketsLive
    /\ Containment /\ Uniqueness /\ OnePending /\ NoLeak

OnWire == WireBurnt /\ Untouched /\ WireExclusive

IInv == Books /\ OnWire

\* Job i may have moved; every other job is as it was, and no job changed its
\* identity.
Moves(i) ==
    /\ i \in DOMAIN jobs /\ DOMAIN jobs' = DOMAIN jobs
    /\ \A k \in DOMAIN jobs :
        /\ jobs'[k].claim = jobs[k].claim /\ jobs'[k].acct = jobs[k].acct
        /\ jobs'[k].nonces = jobs[k].nonces /\ jobs'[k].replaces = jobs[k].replaces
        /\ jobs[k].left \subseteq jobs'[k].left
        /\ IsTerminal(jobs[k]) => IsTerminal(jobs'[k])
        /\ jobs[k].status = "broadcast" => jobs'[k].status = "broadcast"
    /\ \A k \in DOMAIN jobs \ {i} : jobs'[k] = jobs[k]

LEMMA SettleMoves ==
    ASSUME LedgerTypeOK, NEW i, NEW s \in Terminal, NEW t, SettleLocked(i, s, t)
    PROVE  Moves(i) /\ jobs'[i].status = s /\ jobs'[i].left = jobs[i].left
                    /\ jobs'[i].ticket = jobs[i].ticket
<1>1. /\ i \in DOMAIN jobs /\ jobs \in [DOMAIN jobs -> Job]
      /\ jobs' = [jobs EXCEPT ![i].status = s]
      /\ jobs[i].status = "broadcast" => s = "broadcast"
  BY DEF LedgerTypeOK, SettleLocked, MaySettle, IsTerminal, Terminal
<1>2. /\ DOMAIN jobs' = DOMAIN jobs /\ jobs[i] \in Job
      /\ \A k \in DOMAIN jobs \ {i} : jobs'[k] = jobs[k]
      /\ jobs'[i] = [jobs[i] EXCEPT !.status = s]
  BY <1>1
<1>3. /\ jobs'[i].status = s /\ jobs'[i].left = jobs[i].left /\ jobs'[i].ticket = jobs[i].ticket
      /\ jobs'[i].claim = jobs[i].claim /\ jobs'[i].acct = jobs[i].acct
      /\ jobs'[i].nonces = jobs[i].nonces /\ jobs'[i].replaces = jobs[i].replaces
  BY <1>2 DEF Job
<1> QED
  BY <1>1, <1>2, <1>3 DEF Moves, IsTerminal

LEMMA LeavingMoves ==
    ASSUME LedgerTypeOK, NEW t, NEW n, NEW seen, LeavingLeg(t, n, seen)
    PROVE  /\ Moves(t.id) /\ jobs'[t.id].status = jobs[t.id].status
           /\ jobs'[t.id].left = jobs[t.id].left \cup {n}
           /\ jobs'[t.id].ticket = jobs[t.id].ticket
BY DEF LedgerTypeOK, LeavingLeg, Owns, Moves, IsTerminal, Job

LEMMA LandedMoves ==
    ASSUME LedgerTypeOK, NEW t, NEW n, Landed(t, n)
    PROVE  /\ Moves(t.id) /\ jobs'[t.id].status = jobs[t.id].status
           /\ jobs'[t.id].left = jobs[t.id].left
           /\ jobs'[t.id].ticket = jobs[t.id].ticket
BY DEF LedgerTypeOK, Landed, Owns, Moves, IsTerminal, Job

LEMMA ClaimBroadcastMoves ==
    ASSUME LedgerTypeOK, NEW i \in RequestIds, ClaimBroadcast(i)
    PROVE  /\ Moves(i) /\ jobs'[i].status = jobs[i].status
           /\ jobs'[i].left = jobs[i].left
           /\ jobs'[i].ticket = lastTicket'
BY DEF LedgerTypeOK, ClaimBroadcast, Moves, IsTerminal, Job

\* What a moving job can only let go of: it never comes to hold a number it did
\* not, unless the number is burnt with it.
LEMMA MovesHeld ==
    ASSUME LedgerTypeOK, LedgerTypeOK', NEW i, Moves(i), claims' = claims,
           NEW a \in Accounts, NEW n \in Held(jobs', claims', a)
    PROVE  n \in Held(jobs, claims, a) \/
           (a = jobs'[i].acct /\ n \in jobs'[i].nonces /\ LegSpent(jobs'[i], n))
BY DEF Moves, Held, HoldsLeg

LEMMA MovesPending ==
    ASSUME LedgerTypeOK, LedgerTypeOK', NEW i, Moves(i), claims' = claims,
           NEW a \in Accounts, NEW n \in Nonces
    PROVE  /\ Pending(a, n)' \subseteq Pending(a, n)
           /\ Undirected(a, n)' \subseteq Undirected(a, n)
BY DEF Moves, Pending, Undirected, HoldsLeg, LegSpent

\* SyncNonce after a move keeps the ledger's books.
LEMMA SyncKeeps ==
    ASSUME LedgerTypeOK, LedgerTypeOK', NEW i, Moves(i), claims' = claims,
           SyncNonce(jobs', i), stranded' = stranded, Containment, NoLeak
    PROVE  /\ Containment' /\ NoLeak'
           /\ \A a \in Accounts : spent[a] \subseteq spent'[a]
           /\ \A n \in jobs'[i].nonces : LegSpent(jobs'[i], n) => n \in spent'[jobs'[i].acct]
<1> DEFINE j == jobs'[i]
           burnt == {n \in j.nonces : LegSpent(j, n)}
           spentNow == spent[j.acct] \cup burnt
           idle == (j.nonces \ Held(jobs', claims, j.acct)) \ spentNow
<1>1. /\ spent' = [spent EXCEPT ![j.acct] = spentNow]
      /\ reserved' = [reserved EXCEPT ![j.acct] = (@ \cup burnt) \ idle]
  BY DEF SyncNonce
<1>2. j \in Job /\ j.acct \in Accounts /\ j.nonces \subseteq Nonces
  BY DEF LedgerTypeOK, Moves, Job
<1>3. /\ reserved \in [Accounts -> SUBSET Nonces] /\ spent \in [Accounts -> SUBSET Nonces]
  BY DEF LedgerTypeOK
<1>4. Containment'
  <2> SUFFICES ASSUME NEW a \in Accounts, NEW n \in Held(jobs', claims', a)
               PROVE  n \in reserved'[a]
    BY DEF Containment
  <2>1. n \in reserved[a] \/ (a = j.acct /\ n \in burnt)
    BY MovesHeld DEF Containment
  <2>2. a = j.acct => n \notin idle
    OBVIOUS
  <2> QED
    BY <1>1, <1>2, <1>3, <2>1, <2>2
<1>5. NoLeak'
  <2> SUFFICES ASSUME NEW a \in Accounts, NEW n \in reserved'[a]
               PROVE  n \in Held(jobs', claims', a) \/ n \in spent'[a] \/ <<a, n>> \in stranded'
    BY DEF NoLeak
  <2>1. CASE a # j.acct
    <3>1. n \in reserved[a] /\ spent'[a] = spent[a]
      BY <1>1, <1>2, <1>3, <2>1
    <3>2. n \in Held(jobs, claims, a) => n \in Held(jobs', claims', a)
      BY <2>1 DEF Held, Moves
    <3> QED
      BY <3>1, <3>2 DEF NoLeak
  <2>2. CASE a = j.acct
    <3>1. n \in (reserved[a] \cup burnt) \ idle /\ spent'[a] = spentNow /\ n \in Nonces
      BY <1>1, <1>2, <1>3, <2>2 DEF LedgerTypeOK
    <3>2. CASE n \in spentNow
      BY <3>1, <3>2
    <3>3. CASE n \notin spentNow /\ n \in j.nonces
      BY <2>2, <3>1, <3>3
    <3>4. CASE n \notin spentNow /\ n \notin j.nonces
      <4>1. n \in Held(jobs, claims, a) => n \in Held(jobs', claims', a)
        BY <3>4 DEF Held, Moves, HoldsLeg
      <4>2. n \in reserved[a] /\ n \notin spent[a]
        BY <2>2, <3>1, <3>4
      <4>3. n \in Held(jobs, claims, a) \/ <<a, n>> \in stranded
        BY <4>2 DEF NoLeak
      <4> QED
        BY <4>1, <4>3
    <3> QED
      BY <3>2, <3>3, <3>4
  <2> QED
    BY <2>1, <2>2
<1> QED
  BY <1>1, <1>2, <1>3, <1>4, <1>5

-----------------------------------------------------------------------------
(* Every step keeps the invariant                                          *)

\* The four ways to open a claim come down to this: numbers that were free, or
\* one that nobody has yet to leave with.
LEMMA NewClaimKeeps ==
    ASSUME Books, LedgerTypeOK', NEW a \in Accounts, NEW ns \in SUBSET Nonces, NEW r \in Replaces,
           NewClaim(a, ns, r),
           reserved' = [reserved EXCEPT ![a] = @ \cup ns],
           \A n \in ns : IF r = None THEN Free(a, n) ELSE Replaceable(a, n)
    PROVE  Books'
<1> DEFINE c == [id |-> lastClaim + 1, acct |-> a, nonces |-> ns, replaces |-> r]
<1>1. /\ lastClaim' = lastClaim + 1 /\ lastClaim \in Nat
      /\ claims' = claims \cup {c}
      /\ UNCHANGED <<jobs, spent, stranded, lastTicket, tickets, wire>>
      /\ claims \subseteq Claim
  BY DEF NewClaim, Books, LedgerTypeOK
<1>2. c.id = lastClaim + 1 /\ c.acct = a /\ c.nonces = ns /\ c.replaces = r
  OBVIOUS
<1> HIDE DEF c
<1>3. \A b \in Accounts : reserved'[b] = IF b = a THEN reserved[a] \cup ns ELSE reserved[b]
  BY DEF Books, LedgerTypeOK
<1>4. \A b \in Accounts :
        Held(jobs', claims', b) = IF b = a THEN Held(jobs, claims, a) \cup ns
                                           ELSE Held(jobs, claims, b)
  BY <1>1, <1>2 DEF Held
<1>5. ClaimIds'
  BY <1>1, <1>2 DEF Books, ClaimIds, LedgerTypeOK, Job, Claim
<1>6. TicketsLive'
  BY <1>1 DEF Books, TicketsLive, Owns
<1>7. Containment'
  BY <1>3, <1>4 DEF Books, Containment
<1>8. \A n \in ns : r = None => n \notin reserved[a] /\ n \notin spent[a]
  BY DEF Free
<1>9. Uniqueness'
  <2> SUFFICES ASSUME NEW b \in Accounts, NEW n \in Nonces,
                      NEW x \in Undirected(b, n)', NEW y \in Undirected(b, n)'
               PROVE  x = y
    BY DEF Uniqueness
  <2>1. CASE b = a /\ n \in ns /\ r = None
    <3>1. n \notin Held(jobs, claims, a)
      BY <1>8, <2>1 DEF Books, Containment
    <3>2. Undirected(a, n) = {}
      BY <3>1 DEF Undirected, Held, HoldsLeg
    <3>3. Undirected(a, n)' \subseteq {c.id}
      BY <1>1, <3>2 DEF Undirected
    <3> QED
      BY <2>1, <3>3
  <2>2. CASE ~(b = a /\ n \in ns /\ r = None)
    <3>1. Undirected(b, n)' \subseteq Undirected(b, n)
      BY <1>1, <1>2, <2>2 DEF Undirected
    <3> QED
      BY <3>1 DEF Books, Uniqueness
  <2> QED
    BY <2>1, <2>2
<1>10. OnePending'
  <2> SUFFICES ASSUME NEW b \in Accounts, NEW n \in Nonces,
                      NEW x \in Pending(b, n)', NEW y \in Pending(b, n)'
               PROVE  x = y
    BY DEF OnePending
  <2>1. CASE b = a /\ n \in ns
    <3>1. Pending(a, n) = {}
      <4>1. CASE r = None
        <5>1. n \notin Held(jobs, claims, a)
          BY <1>8, <2>1, <4>1 DEF Books, Containment
        <5> QED
          BY <5>1 DEF Pending, Held
      <4>2. CASE r # None
        BY <2>1, <4>2 DEF Replaceable, Pending
      <4> QED
        BY <4>1, <4>2
    <3>2. Pending(a, n)' \subseteq {c.id}
      BY <1>1, <3>1 DEF Pending
    <3> QED
      BY <2>1, <3>2
  <2>2. CASE ~(b = a /\ n \in ns)
    <3>1. Pending(b, n)' \subseteq Pending(b, n)
      BY <1>1, <1>2, <2>2 DEF Pending
    <3> QED
      BY <3>1 DEF Books, OnePending
  <2> QED
    BY <2>1, <2>2
<1>11. NoLeak'
  <2> SUFFICES ASSUME NEW b \in Accounts, NEW n \in reserved'[b]
               PROVE  n \in Held(jobs', claims', b) \/ n \in spent[b] \/ <<b, n>> \in stranded
    BY <1>1 DEF NoLeak
  <2>1. n \in reserved[b] \/ n \in Held(jobs', claims', b)
    BY <1>3, <1>4
  <2>2. n \in Held(jobs, claims, b) => n \in Held(jobs', claims', b)
    BY <1>4
  <2> QED
    BY <2>1, <2>2 DEF Books, NoLeak
<1> QED
  BY <1>5, <1>6, <1>7, <1>9, <1>10, <1>11 DEF Books

LEMMA OpenKeeps ==
    ASSUME Books, LedgerTypeOK', NEW a \in Accounts, NEW n \in Nonces, NEW k, Open(a, n, k)
    PROVE  Books'
<1> PICK run \in SUBSET Nonces :
        /\ IsNextFree(a, n, k, run)
        /\ reserved' = [reserved EXCEPT ![a] = @ \cup run] /\ NewClaim(a, run, None)
  BY DEF Open
<1>1. \A m \in run : Free(a, m)
  BY DEF IsNextFree
<1> QED
  BY <1>1, NewClaimKeeps DEF Replaces

LEMMA PinKeeps ==
    ASSUME Books, LedgerTypeOK', NEW a \in Accounts, NEW n \in Nonces,
           PinFree(a, n) \/ PinSend(a, n) \/ PinDeparted(a, n)
    PROVE  Books'
<1> DEFINE ns == {n}
<1>0. ns \in SUBSET Nonces /\ None \in Replaces
  BY DEF Replaces
<1>1. CASE PinFree(a, n)
  <2>1. /\ NewClaim(a, ns, None) /\ reserved' = [reserved EXCEPT ![a] = @ \cup ns]
        /\ \A m \in ns : IF None = None THEN Free(a, m) ELSE Replaceable(a, m)
    BY <1>1 DEF PinFree
  <2> HIDE DEF ns
  <2> QED
    BY <1>0, <2>1, NewClaimKeeps
<1>2. CASE PinSend(a, n)
  <2> PICK i \in Leavers(a, n) : NewClaim(a, {n}, i)
    BY <1>2 DEF PinSend
  <2>1. i \in Replaces /\ i # None
    BY LedgerAssumption DEF Leavers, Books, LedgerTypeOK, Replaces
  <2>2. n \in reserved[a] /\ Replaceable(a, n)
    BY <1>2 DEF PinSend, Replaceable, Free, Books, LedgerTypeOK
  <2>3. reserved' = [reserved EXCEPT ![a] = @ \cup {n}]
    BY <1>2, <2>2 DEF PinSend, Books, LedgerTypeOK
  <2>4. \A m \in ns : IF i = None THEN Free(a, m) ELSE Replaceable(a, m)
    BY <2>1, <2>2
  <2> QED
    BY <1>0, <2>1, <2>3, <2>4, NewClaimKeeps
<1>3. CASE PinDeparted(a, n)
  <2>1. Departed \in Replaces /\ Departed # None
    BY LedgerAssumption DEF Replaces
  <2> QED
    BY <1>3, <2>1, NewClaimKeeps DEF PinDeparted
<1> QED
  BY <1>1, <1>2, <1>3

LEMMA AbandonKeeps ==
    ASSUME Books, LedgerTypeOK', NEW c \in claims, Abandon(c)
    PROVE  Books'
<1>1. /\ claims' = claims \ {c} /\ c \in Claim
      /\ UNCHANGED <<jobs, spent, stranded, lastClaim, lastTicket, tickets, wire>>
      /\ reserved' = [reserved EXCEPT
            ![c.acct] = @ \ ((c.nonces \ Held(jobs', claims', c.acct)) \ spent[c.acct])]
  BY DEF Abandon, Release, Books, LedgerTypeOK
<1>2. c.acct \in Accounts /\ c.nonces \subseteq Nonces
  BY <1>1 DEF Claim
<1>3. \A b \in Accounts : reserved'[b] =
        IF b = c.acct THEN reserved[b] \ ((c.nonces \ Held(jobs', claims', b)) \ spent[b])
                      ELSE reserved[b]
  BY <1>1, <1>2 DEF Books, LedgerTypeOK
<1>4. \A b \in Accounts : Held(jobs', claims', b) \subseteq Held(jobs, claims, b)
  BY <1>1 DEF Held
<1>5. \A b \in Accounts : \A n \in Held(jobs, claims, b) :
        n \in Held(jobs', claims', b) \/ (b = c.acct /\ n \in c.nonces)
  BY <1>1 DEF Held
<1>6. ClaimIds' /\ TicketsLive'
  BY <1>1 DEF Books, ClaimIds, TicketsLive, Owns
<1>7. Containment'
  BY <1>3, <1>4 DEF Books, Containment
<1>8. Uniqueness' /\ OnePending'
  <2>1. \A b \in Accounts : \A n \in Nonces :
            Undirected(b, n)' \subseteq Undirected(b, n) /\ Pending(b, n)' \subseteq Pending(b, n)
    BY <1>1 DEF Undirected, Pending
  <2> QED
    BY <2>1 DEF Books, Uniqueness, OnePending
<1>9. NoLeak'
  <2> SUFFICES ASSUME NEW b \in Accounts, NEW n \in reserved'[b]
               PROVE  n \in Held(jobs', claims', b) \/ n \in spent[b] \/ <<b, n>> \in stranded
    BY <1>1 DEF NoLeak
  <2>1. n \in reserved[b]
    BY <1>3
  <2>2. n \in Held(jobs, claims, b) => n \in Held(jobs', claims', b) \/ n \in spent[b]
    BY <1>3, <1>5
  <2> QED
    BY <2>1, <2>2 DEF Books, NoLeak
<1> QED
  BY <1>6, <1>7, <1>8, <1>9 DEF Books

LEMMA CommitKeeps ==
    ASSUME Books, LedgerTypeOK', NEW c \in claims, NEW i \in RequestIds, Commit(c, i)
    PROVE  Books'
<1> DEFINE j == FromClaim(c)
<1>1. /\ claims' = claims \ {c} /\ c \in Claim
      /\ UNCHANGED <<reserved, spent, lastClaim, lastTicket, tickets, wire>>
      /\ DOMAIN jobs' = DOMAIN jobs \cup {i} /\ jobs'[i] = j
      /\ \A k \in DOMAIN jobs \ {i} : jobs'[k] = jobs[k]
      /\ stranded \subseteq stranded'
  BY DEF Commit, Books, LedgerTypeOK
<1>2. /\ j.claim = c.id /\ j.acct = c.acct /\ j.nonces = c.nonces /\ j.left = {}
      /\ j.status = "awaitingApproval" /\ j.ticket = 0 /\ j.replaces = c.replaces
  BY DEF FromClaim, NoTicket
<1>3. \A n : HoldsLeg(j, n) <=> n \in c.nonces
  BY <1>2 DEF HoldsLeg, IsTerminal, Terminal
<1>4. \A n : ~LegSpent(j, n)
  BY <1>2 DEF LegSpent
<1>5. ~IsTerminal(j)
  BY <1>2 DEF IsTerminal, Terminal
<1> HIDE DEF j
<1>6. ClaimIds'
  BY <1>1, <1>2 DEF Books, ClaimIds
<1>7. TicketsLive'
  BY <1>1, <1>2, <1>5 DEF Books, TicketsLive, Owns, LedgerTypeOK, Ticket
<1>8. Containment'
  <2>1. \A b \in Accounts : Held(jobs', claims', b) \subseteq Held(jobs, claims, b)
    BY <1>1, <1>2, <1>3 DEF Held
  <2> QED
    BY <1>1, <2>1 DEF Books, Containment
<1>9. Uniqueness' /\ OnePending'
  <2>1. \A b \in Accounts : \A n \in Nonces :
            Undirected(b, n)' \subseteq Undirected(b, n) /\ Pending(b, n)' \subseteq Pending(b, n)
    BY <1>1, <1>2, <1>3, <1>4 DEF Undirected, Pending
  <2> QED
    BY <2>1 DEF Books, Uniqueness, OnePending
<1>10. NoLeak'
  <2> SUFFICES ASSUME NEW b \in Accounts, NEW n \in reserved[b]
               PROVE  n \in Held(jobs', claims', b) \/ n \in spent[b] \/ <<b, n>> \in stranded'
    BY <1>1 DEF NoLeak
  <2>1. CASE n \in Held(jobs, claims, b)
    <3>1. CASE i \in DOMAIN jobs /\ jobs[i].acct = b /\ HoldsLeg(jobs[i], n)
      BY <3>1 DEF Commit, HoldsNonce, HoldsLeg
    <3>2. CASE ~(i \in DOMAIN jobs /\ jobs[i].acct = b /\ HoldsLeg(jobs[i], n))
      BY <1>1, <1>2, <1>3, <2>1, <3>2 DEF Held
    <3> QED
      BY <3>1, <3>2
  <2>2. CASE n \notin Held(jobs, claims, b)
    BY <1>1, <2>2 DEF Books, NoLeak
  <2> QED
    BY <2>1, <2>2
<1> QED
  BY <1>6, <1>7, <1>8, <1>9, <1>10 DEF Books

\* A job that moves keeps every conjunct that speaks of identities and holders.
LEMMA MovesKeep ==
    ASSUME Books, LedgerTypeOK', NEW i, Moves(i), UNCHANGED <<claims, lastClaim>>
    PROVE  ClaimIds' /\ Uniqueness' /\ OnePending'
<1>1. ClaimIds'
  BY DEF Books, ClaimIds, Moves
<1>2. \A a \in Accounts : \A n \in Nonces :
        Undirected(a, n)' \subseteq Undirected(a, n) /\ Pending(a, n)' \subseteq Pending(a, n)
  BY MovesPending DEF Books
<1> QED
  BY <1>1, <1>2 DEF Books, Uniqueness, OnePending

\* Settling by ticket hands the ticket in; settling without one touches no job
\* a ticket owns.
LEMMA SettleKeeps ==
    ASSUME Books, LedgerTypeOK', NEW i, NEW s \in Terminal, NEW t \in Nat, SettleLocked(i, s, t),
           tickets' \subseteq tickets,
           \A u \in tickets' : u.id = i => u.ticket # t
    PROVE  Books'
<1>1. Moves(i) /\ jobs'[i].status = s /\ jobs'[i].left = jobs[i].left
               /\ jobs'[i].ticket = jobs[i].ticket
  BY SettleMoves DEF Books
<1>2. /\ UNCHANGED <<claims, stranded, lastClaim, lastTicket>> /\ SyncNonce(jobs', i)
      /\ jobs[i].ticket \in {0, t}
  BY DEF SettleLocked, MaySettle, NoTicket
<1>3. /\ Containment' /\ NoLeak'
      /\ \A a \in Accounts : spent[a] \subseteq spent'[a]
  BY <1>1, <1>2, SyncKeeps DEF Books
<1>4. ClaimIds' /\ Uniqueness' /\ OnePending'
  BY <1>1, <1>2, MovesKeep
<1>5. TicketsLive'
  <2>1. \A u \in tickets' : u.ticket \in 1..lastTicket /\ u.id \in DOMAIN jobs
    BY DEF Books, TicketsLive
  <2>2. \A k \in DOMAIN jobs' : jobs'[k].ticket = jobs[k].ticket
    BY <1>1 DEF Moves
  <2>3. ASSUME NEW u \in tickets', Owns(u)'
        PROVE  ~IsTerminal(jobs[u.id])' /\ u.id # i
    <3>1. Owns(u)
      BY <1>1, <2>2, <2>3 DEF Owns, Moves
    <3>2. u.id # i
      BY <1>2, <2>1, <3>1 DEF Owns
    <3> QED
      BY <1>1, <2>1, <3>1, <3>2 DEF Books, TicketsLive, Moves, IsTerminal
  <2> QED
    BY <1>1, <1>2, <2>1, <2>2, <2>3 DEF Books, TicketsLive, Moves
<1> QED
  BY <1>3, <1>4, <1>5 DEF Books

LEMMA SettleDoorKeeps ==
    ASSUME Books, LedgerTypeOK', NEW i \in RequestIds, NEW s \in Terminal, Settle(i, s)
    PROVE  Books'
BY SettleKeeps, SMTT(20) DEF Settle, NoTicket, Books, TicketsLive

LEMMA SettleOwnedKeeps ==
    ASSUME Books, LedgerTypeOK', NEW t \in tickets, NEW s \in Terminal, SettleOwned(t, s)
    PROVE  Books'
<1>1. t \in Ticket /\ tickets \subseteq Ticket /\ t.ticket \in Nat
  BY DEF Books, LedgerTypeOK, Ticket
<1>2. \A u \in tickets' : u.id = t.id => u.ticket # t.ticket
  BY <1>1 DEF SettleOwned, Ticket
<1> QED
  BY <1>1, <1>2, SettleKeeps DEF SettleOwned

LEMMA ClaimBroadcastKeeps ==
    ASSUME Books, LedgerTypeOK', NEW i \in RequestIds, ClaimBroadcast(i)
    PROVE  Books'
<1>1. /\ Moves(i) /\ jobs'[i].status = jobs[i].status /\ jobs'[i].left = jobs[i].left
      /\ jobs'[i].ticket = lastTicket'
  BY ClaimBroadcastMoves DEF Books
<1>2. /\ UNCHANGED <<claims, reserved, spent, stranded, lastClaim, wire>>
      /\ ~IsTerminal(jobs[i]) /\ lastTicket' = lastTicket + 1
      /\ tickets' = tickets \cup {[id |-> i, ticket |-> lastTicket']}
      /\ lastTicket \in Nat
  BY DEF ClaimBroadcast, Books, LedgerTypeOK
<1>3. \A k \in DOMAIN jobs : /\ jobs'[k].status = jobs[k].status
                             /\ jobs'[k].left = jobs[k].left
  BY <1>1 DEF Moves
<1>4. \A k \in DOMAIN jobs, n \in Nonces :
        /\ HoldsLeg(jobs'[k], n) <=> HoldsLeg(jobs[k], n)
        /\ LegSpent(jobs'[k], n) <=> LegSpent(jobs[k], n)
  BY <1>1, <1>3 DEF Moves, HoldsLeg, LegSpent, IsTerminal
<1>5. \A a \in Accounts : Held(jobs', claims', a) = Held(jobs, claims, a)
  BY <1>1, <1>2, <1>4 DEF Held, Moves
<1>6. Containment' /\ NoLeak'
  BY <1>2, <1>5 DEF Books, Containment, NoLeak
<1>7. ClaimIds' /\ Uniqueness' /\ OnePending'
  BY <1>1, <1>2, MovesKeep
<1>8. TicketsLive'
  <2>1. ASSUME NEW u \in tickets', Owns(u)' PROVE ~IsTerminal(jobs[u.id])'
    <3>1. CASE u \in tickets
      <4>1. u.ticket # lastTicket'
        BY <1>2, <3>1 DEF Books, TicketsLive
      <4>2. u.id # i /\ Owns(u)
        BY <1>1, <2>1, <4>1 DEF Owns, Moves
      <4> QED
        BY <1>1, <3>1, <4>2 DEF Books, TicketsLive, Moves, Owns
    <3>2. CASE u = [id |-> i, ticket |-> lastTicket']
      BY <1>1, <1>2, <3>2 DEF IsTerminal
    <3> QED
      BY <1>2, <3>1, <3>2
  <2>2. \A u \in tickets' : u.ticket \in 1..lastTicket' /\ u.id \in DOMAIN jobs'
    BY <1>1, <1>2 DEF Books, TicketsLive, Moves
  <2>3. \A k \in DOMAIN jobs' : jobs'[k].ticket <= lastTicket'
    BY <1>1, <1>2 DEF Books, TicketsLive, Moves, LedgerTypeOK, Job
  <2> QED
    BY <2>1, <2>2, <2>3 DEF TicketsLive
<1> QED
  BY <1>6, <1>7, <1>8 DEF Books

LEMMA LandedKeeps ==
    ASSUME Books, LedgerTypeOK', NEW t \in tickets, NEW m, Landed(t, m)
    PROVE  Books'
<1> DEFINE i == t.id
<1>1. /\ Moves(i) /\ jobs'[i].status = jobs[i].status /\ jobs'[i].left = jobs[i].left
      /\ jobs'[i].ticket = jobs[i].ticket
  BY LandedMoves DEF Books
<1>2. UNCHANGED <<claims, reserved, spent, stranded, lastClaim, lastTicket, tickets, wire>>
  BY DEF Landed
<1>3. \A k \in DOMAIN jobs : /\ jobs'[k].status = jobs[k].status
                             /\ jobs'[k].left = jobs[k].left
                             /\ jobs'[k].ticket = jobs[k].ticket
  BY <1>1 DEF Moves
<1>4. \A k \in DOMAIN jobs, n \in Nonces :
        /\ HoldsLeg(jobs'[k], n) <=> HoldsLeg(jobs[k], n)
        /\ LegSpent(jobs'[k], n) <=> LegSpent(jobs[k], n)
  BY <1>1, <1>3 DEF Moves, HoldsLeg, LegSpent, IsTerminal
<1>5. \A a \in Accounts : Held(jobs', claims', a) = Held(jobs, claims, a)
  BY <1>1, <1>2, <1>4 DEF Held, Moves
<1>6. Containment' /\ NoLeak'
  BY <1>2, <1>5 DEF Books, Containment, NoLeak
<1>7. ClaimIds' /\ Uniqueness' /\ OnePending'
  BY <1>1, <1>2, MovesKeep
<1>8. TicketsLive'
  BY <1>1, <1>2, <1>3 DEF Books, TicketsLive, Owns, Moves, IsTerminal
<1> QED
  BY <1>6, <1>7, <1>8 DEF Books

LEMMA LeavingKeeps ==
    ASSUME Books, LedgerTypeOK', NEW t \in tickets, NEW m, NEW seen, LeavingLeg(t, m, seen)
    PROVE  Books'
<1> DEFINE i == t.id
<1>1. /\ Moves(i) /\ jobs'[i].status = jobs[i].status /\ jobs'[i].ticket = jobs[i].ticket
  BY LeavingMoves DEF Books
<1>2. /\ UNCHANGED <<claims, stranded, lastClaim, lastTicket, tickets>>
      /\ SyncNonce(jobs', i)
  BY DEF LeavingLeg
<1>3. Containment' /\ NoLeak'
  BY <1>1, <1>2, SyncKeeps DEF Books
<1>4. ClaimIds' /\ Uniqueness' /\ OnePending'
  BY <1>1, <1>2, MovesKeep
<1>5. \A k \in DOMAIN jobs : /\ jobs'[k].status = jobs[k].status
                             /\ jobs'[k].ticket = jobs[k].ticket
  BY <1>1 DEF Moves
<1>6. TicketsLive'
  BY <1>1, <1>2, <1>5 DEF Books, TicketsLive, Owns, Moves, IsTerminal
<1> QED
  BY <1>3, <1>4, <1>6 DEF Books

LEMMA SeedKeeps ==
    ASSUME Books, LedgerTypeOK', NEW rows, SeedSpent(rows)
    PROVE  Books'
<1>1. /\ UNCHANGED <<jobs, claims, stranded, lastClaim, lastTicket, tickets>>
      /\ \A a \in Accounts : /\ spent'[a] = spent[a] \cup RowsOf(a, rows)
                             /\ reserved'[a] = reserved[a] \cup RowsOf(a, rows)
  BY DEF SeedSpent
<1>2. ClaimIds' /\ TicketsLive' /\ Uniqueness' /\ OnePending'
  BY <1>1 DEF Books, ClaimIds, TicketsLive, Owns, Uniqueness, Undirected, OnePending, Pending
<1>3. Containment' /\ NoLeak'
  BY <1>1 DEF Books, Containment, NoLeak
<1> QED
  BY <1>2, <1>3 DEF Books

LEMMA BooksStep == Books /\ [Step]_ledgerVars => Books'
<1> SUFFICES ASSUME Books, [Step]_ledgerVars PROVE Books'
  OBVIOUS
<1>1. LedgerTypeOK'
  BY TypeStep DEF Books
<1>2. CASE UNCHANGED ledgerVars
  BY <1>1, <1>2
  DEF Books, ledgerVars, ClaimIds, TicketsLive, Owns, Containment, Uniqueness, Undirected,
      OnePending, Pending, NoLeak
<1>3. CASE Step
  <2>1. CASE \E a \in Accounts, n \in Nonces, count \in 1..MaxLegs : Open(a, n, count)
    BY <1>1, <2>1, OpenKeeps
  <2>2. CASE \E a \in Accounts, n \in Nonces :
                PinFree(a, n) \/ PinSend(a, n) \/ PinDeparted(a, n)
    BY <1>1, <2>2, PinKeeps
  <2>3. CASE \E c \in claims : Abandon(c)
    BY <1>1, <2>3, AbandonKeeps
  <2>4. CASE \E c \in claims, i \in RequestIds : Commit(c, i)
    BY <1>1, <2>4, CommitKeeps
  <2>5. CASE \E i \in RequestIds, s \in Terminal : Settle(i, s)
    BY <1>1, <2>5, SettleDoorKeeps
  <2>6. CASE \E i \in RequestIds : ClaimBroadcast(i)
    BY <1>1, <2>6, ClaimBroadcastKeeps
  <2>7. CASE \/ \E t \in tickets, n \in Nonces, seen \in Sighting : LeavingLeg(t, n, seen)
             \/ \E t \in tickets, n \in Nonces : Landed(t, n)
    BY <1>1, <2>7, LeavingKeeps, LandedKeeps
  <2>8. CASE \E t \in tickets, s \in Terminal : SettleOwned(t, s)
    BY <1>1, <2>8, SettleOwnedKeeps
  <2>9. CASE \E t \in tickets : DropTicket(t)
    BY <1>1, <2>9
    DEF Books, DropTicket, ClaimIds, TicketsLive, Owns, Containment, Uniqueness, Undirected,
        OnePending, Pending, NoLeak
  <2>10. CASE \E rows \in SUBSET (Accounts \X Nonces) : SeedSpent(rows)
    BY <1>1, <2>10, SeedKeeps
  <2> QED
    BY <1>3, <2>1, <2>2, <2>3, <2>4, <2>5, <2>6, <2>7, <2>8, <2>9, <2>10 DEF Step
<1> QED
  BY <1>2, <1>3

-----------------------------------------------------------------------------
(* Every step keeps what is known of the wire                              *)

\* What holds without a word of what it replaces, and has yet to leave.
Bare(j, n) == j.replaces = None /\ HoldsLeg(j, n) /\ ~LegSpent(j, n)

\* A step that puts nothing on the wire, opens no claim and makes no job.
LEMMA QuietOnWire ==
    ASSUME IInv, LedgerTypeOK', wire' = wire, claims' \subseteq claims,
           \A a \in Accounts : spent[a] \subseteq spent'[a],
           DOMAIN jobs' = DOMAIN jobs,
           \A k \in DOMAIN jobs :
              /\ jobs'[k].left = jobs[k].left /\ jobs'[k].claim = jobs[k].claim
              /\ jobs'[k].acct = jobs[k].acct /\ jobs'[k].nonces = jobs[k].nonces
              /\ jobs'[k].replaces = jobs[k].replaces
              /\ \A n \in Nonces : Bare(jobs'[k], n) => Bare(jobs[k], n)
    PROVE  OnWire'
<1>1. \A w \in wire : w.acct \in Accounts
  BY DEF IInv, Books, LedgerTypeOK, Sighting
<1>2. \A k \in DOMAIN jobs : \A n : Sight(jobs'[k], n) = Sight(jobs[k], n)
  BY DEF Sight
<1>3. WireBurnt' /\ WireExclusive'
  BY <1>1, <1>2 DEF IInv, OnWire, WireBurnt, WireExclusive
<1>4. \A k \in DOMAIN jobs : jobs[k].nonces \subseteq Nonces
  BY DEF IInv, Books, LedgerTypeOK, Job
<1>5. Untouched'
  BY <1>4 DEF IInv, OnWire, Untouched, Bare
<1> QED
  BY <1>3, <1>5 DEF OnWire

LEMMA NewClaimOnWire ==
    ASSUME IInv, NEW a \in Accounts, NEW ns, NEW r, NewClaim(a, ns, r),
           \A n \in ns : r = None => Free(a, n)
    PROVE  OnWire'
<1>1. /\ claims' = claims \cup {[id |-> lastClaim', acct |-> a, nonces |-> ns, replaces |-> r]}
      /\ UNCHANGED <<jobs, spent, wire>>
  BY DEF NewClaim
<1>2. WireBurnt' /\ WireExclusive'
  BY <1>1 DEF IInv, OnWire, WireBurnt, WireExclusive
<1>3. Untouched'
  BY <1>1 DEF IInv, OnWire, Untouched, WireBurnt, Free
<1> QED
  BY <1>2, <1>3 DEF OnWire

LEMMA ClaimingOnWire ==
    ASSUME IInv, NEW a \in Accounts, NEW n \in Nonces,
           \/ \E k \in 1..MaxLegs : Open(a, n, k)
           \/ PinFree(a, n) \/ PinSend(a, n) \/ PinDeparted(a, n)
    PROVE  OnWire'
<1>1. CASE \E k \in 1..MaxLegs : Open(a, n, k)
  <2> PICK k \in 1..MaxLegs, run \in SUBSET Nonces :
        IsNextFree(a, n, k, run) /\ NewClaim(a, run, None)
    BY <1>1 DEF Open
  <2>1. \A m \in run : Free(a, m)
    BY DEF IsNextFree
  <2> QED
    BY <2>1, NewClaimOnWire
<1>2. CASE PinFree(a, n)
  <2>1. NewClaim(a, {n}, None) /\ \A m \in {n} : Free(a, m)
    BY <1>2 DEF PinFree
  <2> QED
    BY <2>1, NewClaimOnWire
<1>3. CASE PinSend(a, n)
  <2> PICK i \in Leavers(a, n) : NewClaim(a, {n}, i)
    BY <1>3 DEF PinSend
  <2>1. i # None
    BY LedgerAssumption DEF Leavers, IInv, Books, LedgerTypeOK
  <2> QED
    BY <2>1, NewClaimOnWire
<1>4. CASE PinDeparted(a, n)
  <2>1. NewClaim(a, {n}, Departed) /\ Departed # None
    BY <1>4, LedgerAssumption DEF PinDeparted
  <2> QED
    BY <2>1, NewClaimOnWire
<1> QED
  BY <1>1, <1>2, <1>3, <1>4

LEMMA CommitOnWire ==
    ASSUME IInv, NEW c \in claims, NEW i \in RequestIds, Commit(c, i)
    PROVE  OnWire'
<1> DEFINE j == FromClaim(c)
<1>1. /\ claims' = claims \ {c} /\ UNCHANGED <<spent, wire>>
      /\ DOMAIN jobs' = DOMAIN jobs \cup {i} /\ jobs'[i] = j
      /\ \A k \in DOMAIN jobs \ {i} : jobs'[k] = jobs[k]
  BY DEF Commit
<1>2. j.acct = c.acct /\ j.nonces = c.nonces /\ j.left = {} /\ j.replaces = c.replaces
  BY DEF FromClaim
<1> HIDE DEF j
<1>3. WireBurnt' /\ WireExclusive'
  BY <1>1, <1>2 DEF IInv, OnWire, WireBurnt, WireExclusive
<1>4. Untouched'
  BY <1>1, <1>2 DEF IInv, OnWire, Untouched
<1> QED
  BY <1>3, <1>4 DEF OnWire

\* The step that puts bytes on the wire.
LEMMA LeavingOnWire ==
    ASSUME IInv, Books', NEW t \in tickets, NEW m \in Nonces,
           LeavingLeg(t, m, Sight(jobs[t.id], m))
    PROVE  OnWire'
<1> DEFINE i == t.id
           seen == Sight(jobs[i], m)
<1>1. /\ Moves(i) /\ jobs'[i].status = jobs[i].status /\ jobs'[i].left = jobs[i].left \cup {m}
      /\ jobs'[i].ticket = jobs[i].ticket
  BY LeavingMoves DEF IInv, Books
<1>2. /\ UNCHANGED <<claims, stranded, lastClaim, lastTicket, tickets>>
      /\ wire' = wire \cup {seen} /\ SyncNonce(jobs', i)
      /\ Owns(t) /\ m \in jobs[i].nonces /\ i \in DOMAIN jobs
  BY DEF LeavingLeg, Owns
<1>3. /\ \A a \in Accounts : spent[a] \subseteq spent'[a]
      /\ \A n \in jobs'[i].nonces : LegSpent(jobs'[i], n) => n \in spent'[jobs'[i].acct]
  BY <1>1, <1>2, SyncKeeps DEF IInv, Books
<1>5. \A k \in DOMAIN jobs : /\ jobs'[k].status = jobs[k].status
                             /\ jobs'[k].ticket = jobs[k].ticket
                             /\ \A n : Sight(jobs'[k], n) = Sight(jobs[k], n)
  BY <1>1 DEF Moves, Sight
<1>7. /\ seen.acct = jobs[i].acct /\ seen.nonce = m /\ seen.claim = jobs[i].claim
      /\ seen.replaces = jobs[i].replaces
  BY DEF Sight
<1>8. WireBurnt'
  <2>1. m \in spent'[jobs[i].acct]
    BY <1>1, <1>2, <1>3 DEF LegSpent, Moves
  <2>2. \A w \in wire : w.acct \in Accounts
    BY DEF IInv, Books, OnWire, LedgerTypeOK, Sighting
  <2>3. \A w \in wire' : w.nonce \in spent'[w.acct]
    BY <1>2, <1>3, <1>7, <2>1, <2>2 DEF IInv, Books, OnWire, WireBurnt
  <2>4. \A k \in DOMAIN jobs' : \A n \in jobs'[k].left : Sight(jobs'[k], n) \in wire'
    BY <1>1, <1>2, <1>5 DEF IInv, Books, OnWire, WireBurnt, Moves
  <2> QED
    BY <2>3, <2>4 DEF WireBurnt
\* A leg that already left adds nothing; one that has not is the one pending
\* holder of its number.
<1>9. CASE m \in jobs[i].left
  <2>1. wire' = wire
    BY <1>2, <1>9 DEF IInv, Books, OnWire, WireBurnt
  <2>2. jobs'[i].left = jobs[i].left
    BY <1>1, <1>9
  <2>3. Untouched'
    BY <1>1, <1>2, <2>1, <2>2 DEF IInv, Books, OnWire, Untouched, Moves, HoldsLeg, LegSpent, IsTerminal
  <2> QED
    BY <1>8, <2>1, <2>3 DEF IInv, OnWire, WireExclusive
<1>10. CASE m \notin jobs[i].left
  <2>1. ~IsTerminal(jobs[i])
    BY <1>2 DEF IInv, Books, OnWire, TicketsLive
  <2>2. HoldsLeg(jobs[i], m) /\ ~LegSpent(jobs[i], m)
    BY <1>2, <1>10, <2>1 DEF HoldsLeg, LegSpent, IsTerminal, Terminal
  <2>3. jobs[i].claim \in Pending(jobs[i].acct, m) /\ jobs[i].acct \in Accounts
    BY <1>2, <2>2 DEF Pending, IInv, Books, OnWire, LedgerTypeOK, Job
  <2>4. \A c \in claims : ~(c.acct = jobs[i].acct /\ m \in c.nonces)
    <3> SUFFICES ASSUME NEW c \in claims, c.acct = jobs[i].acct, m \in c.nonces PROVE FALSE
      OBVIOUS
    <3>1. c.id \in Pending(jobs[i].acct, m)
      BY DEF Pending
    <3>2. c.id = jobs[i].claim
      BY <2>3, <3>1 DEF IInv, Books, OnWire, OnePending
    <3> QED
      BY <1>2, <3>2 DEF IInv, Books, OnWire, ClaimIds
  <2>5. \A k \in DOMAIN jobs : jobs[k].acct = jobs[i].acct /\ HoldsLeg(jobs[k], m)
                                /\ ~LegSpent(jobs[k], m) => k = i
    <3> SUFFICES ASSUME NEW k \in DOMAIN jobs, jobs[k].acct = jobs[i].acct,
                        HoldsLeg(jobs[k], m), ~LegSpent(jobs[k], m)
                 PROVE  k = i
      OBVIOUS
    <3>1. jobs[k].claim \in Pending(jobs[i].acct, m)
      BY DEF Pending
    <3>2. jobs[k].claim = jobs[i].claim
      BY <2>3, <3>1 DEF IInv, Books, OnWire, OnePending
    <3> QED
      BY <1>2, <3>2 DEF IInv, Books, OnWire, ClaimIds
  <2>6. WireExclusive'
    <3>1. \A w \in wire : w.acct = seen.acct /\ w.nonce = m => jobs[i].replaces # None
      BY <1>2, <1>7, <2>2 DEF IInv, Books, OnWire, Untouched
    <3> QED
      BY <1>2, <1>7, <3>1 DEF IInv, Books, OnWire, WireExclusive
  <2>7. \A c \in claims' : c.replaces = None =>
            \A w \in wire' : ~(w.acct = c.acct /\ w.nonce \in c.nonces)
    BY <1>2, <1>7, <2>4 DEF IInv, Books, OnWire, Untouched
  <2>8. ASSUME NEW k \in DOMAIN jobs', jobs'[k].replaces = None, NEW n \in jobs'[k].nonces,
               HoldsLeg(jobs'[k], n), ~LegSpent(jobs'[k], n), NEW w \in wire'
        PROVE  ~(w.acct = jobs'[k].acct /\ w.nonce = n)
    <3>1. /\ k \in DOMAIN jobs /\ HoldsLeg(jobs[k], n) /\ ~LegSpent(jobs[k], n)
          /\ jobs[k].replaces = None /\ jobs'[k].acct = jobs[k].acct /\ n \in jobs[k].nonces
      BY <1>1, <1>5, <2>8 DEF Moves, HoldsLeg, LegSpent, IsTerminal
    <3>2. CASE w \in wire
      BY <3>1, <3>2 DEF IInv, Books, OnWire, Untouched
    <3>3. CASE w = seen
      <4>1. k = i /\ n = m => LegSpent(jobs'[k], n)
        BY <1>1 DEF LegSpent
      <4> QED
        BY <1>7, <2>5, <2>8, <3>1, <3>3, <4>1
    <3> QED
      BY <1>2, <3>2, <3>3
  <2>9. Untouched'
    BY <2>7, <2>8 DEF Untouched
  <2> QED
    BY <1>8, <2>6, <2>9 DEF OnWire
<1> QED
  BY <1>9, <1>10

LEMMA WireStep == IInv /\ Books' /\ LedgerNext => OnWire'
<1> SUFFICES ASSUME IInv, Books', LedgerNext PROVE OnWire'
  OBVIOUS
<1> USE DEF IInv, Books
<1>1. ASSUME NEW i \in RequestIds, NEW s \in Terminal, NEW t, SettleLocked(i, s, t)
      PROVE  OnWire'
  <2>1. /\ Moves(i) /\ jobs'[i].left = jobs[i].left
        /\ claims' = claims /\ wire' = wire /\ stranded' = stranded /\ SyncNonce(jobs', i)
    BY <1>1, SettleMoves DEF SettleLocked
  <2>2. \A a \in Accounts : spent[a] \subseteq spent'[a]
    BY <2>1, SyncKeeps
  <2>3. \A k \in DOMAIN jobs : \A n \in Nonces : Bare(jobs'[k], n) => Bare(jobs[k], n)
    BY <2>1 DEF Moves, Bare, HoldsLeg, LegSpent
  <2> QED
    BY <2>1, <2>2, <2>3, QuietOnWire DEF Moves
<1>2. ASSUME NEW t \in tickets, NEW n, Landed(t, n) PROVE OnWire'
  <2>1. /\ Moves(t.id) /\ jobs'[t.id].left = jobs[t.id].left
        /\ jobs'[t.id].status = jobs[t.id].status
        /\ claims' = claims /\ wire' = wire /\ spent' = spent
    BY <1>2, LandedMoves DEF Landed
  <2>2. \A k \in DOMAIN jobs : \A m \in Nonces : Bare(jobs'[k], m) => Bare(jobs[k], m)
    BY <2>1 DEF Moves, Bare, HoldsLeg, LegSpent
  <2> QED
    BY <2>1, <2>2, QuietOnWire DEF Moves
<1>3. ASSUME NEW i \in RequestIds, ClaimBroadcast(i) PROVE OnWire'
  <2>1. /\ Moves(i) /\ jobs'[i].left = jobs[i].left /\ jobs'[i].status = jobs[i].status
        /\ claims' = claims /\ wire' = wire /\ spent' = spent
    BY <1>3, ClaimBroadcastMoves DEF ClaimBroadcast
  <2>2. \A k \in DOMAIN jobs : \A m \in Nonces : Bare(jobs'[k], m) => Bare(jobs[k], m)
    BY <2>1 DEF Moves, Bare, HoldsLeg, LegSpent
  <2> QED
    BY <2>1, <2>2, QuietOnWire DEF Moves
<1>4. ASSUME jobs' = jobs, wire' = wire, claims' \subseteq claims,
             \A a \in Accounts : spent[a] \subseteq spent'[a]
      PROVE  OnWire'
  BY <1>4, QuietOnWire
<1>5. \A t \in tickets : t.id \in RequestIds
  BY DEF LedgerTypeOK, Ticket
<1>6. ASSUME NEW rows, SeedSpent(rows) PROVE OnWire'
  <2>1. jobs' = jobs /\ wire' = wire /\ claims' \subseteq claims
        /\ \A a \in Accounts : spent[a] \subseteq spent'[a]
    BY <1>6 DEF SeedSpent
  <2> QED
    BY <2>1, <1>4
<1> QED
  BY <1>1, <1>2, <1>3, <1>4, <1>5, <1>6, ClaimingOnWire, CommitOnWire, LeavingOnWire
  DEF LedgerNext, ClaimCancel, Settle, SettleOwned, PolledVerdicts, OwnedVerdicts, Terminal,
      Abandon, DropTicket

-----------------------------------------------------------------------------
(* The theorems                                                            *)

LEMMA InvInit == LedgerInit => IInv
<1> SUFFICES ASSUME LedgerInit PROVE IInv
  OBVIOUS
<1>1. /\ claims = {} /\ DOMAIN jobs = {} /\ tickets = {} /\ wire = {}
      /\ \A a \in Accounts : reserved[a] = {}
  BY DEF LedgerInit
<1>2. \A a \in Accounts : Held(jobs, claims, a) = {}
  BY <1>1 DEF Held
<1>3. \A a \in Accounts, n \in Nonces : Undirected(a, n) = {} /\ Pending(a, n) = {}
  BY <1>1 DEF Undirected, Pending
<1> QED
  BY <1>1, <1>2, <1>3, TypeInit
  DEF IInv, Books, OnWire, ClaimIds, TicketsLive, Containment, Uniqueness, OnePending,
      WireBurnt, Untouched, WireExclusive, NoLeak

LEMMA InvStep == IInv /\ [LedgerNext]_ledgerVars => IInv'
<1> SUFFICES ASSUME IInv, [LedgerNext]_ledgerVars PROVE IInv'
  OBVIOUS
<1>1. Books'
  BY NextIsStep, BooksStep DEF IInv, Books
<1>2. CASE UNCHANGED ledgerVars
  BY <1>1, <1>2 DEF IInv, OnWire, ledgerVars, WireBurnt, Untouched, WireExclusive
<1>3. CASE LedgerNext
  BY <1>1, <1>3, WireStep DEF IInv
<1> QED
  BY <1>2, <1>3

LEMMA InvAlways == LedgerSpec => []IInv
BY InvInit, InvStep, PTL DEF LedgerSpec

LEMMA BooksAlways == LedgerSpec => []Books
<1>1. IInv => Books
  BY DEF IInv
<1> QED
  BY <1>1, InvAlways, PTL

\* `audit` never finds a violation: its repair, and its panic in a debug build,
\* are dead code for every number of accounts, sends and legs.
THEOREM AuditFindsNothing == LedgerSpec => [](Containment /\ Uniqueness)
<1>1. Books => Containment /\ Uniqueness
  BY DEF Books
<1> QED
  BY <1>1, BooksAlways, PTL

\* At most one claim or live job has a number without naming what it replaces:
\* for every number of sends at once, and even if the manager repeats an id.
THEOREM OneUndirectedHolder == LedgerSpec => []Uniqueness
<1>1. Books => Uniqueness
  BY DEF Books
<1> QED
  BY <1>1, BooksAlways, PTL

\* No pin is ever granted against a send that has yet to leave.
THEOREM PinsNeverCollide == LedgerSpec => []OnePending
<1>1. Books => OnePending
  BY DEF Books
<1> QED
  BY <1>1, BooksAlways, PTL

\* Two sends leave at one number only as a transaction and its declared
\* replacement, whatever is cancelled, overwritten, seeded or settled.
THEOREM NumbersAreUsedOnce == LedgerSpec => []WireExclusive
<1>1. IInv => WireExclusive
  BY DEF IInv, OnWire
<1> QED
  BY <1>1, InvAlways, PTL

\* Every taken number is held, burnt or disclosed as stranded: the doors of the
\* ledger lose none.
THEOREM NothingLeaks == LedgerSpec => []NoLeak
<1>1. Books => NoLeak
  BY DEF Books
<1> QED
  BY <1>1, BooksAlways, PTL

LEMMA OwnerAloneStep ==
    ASSUME Books, Step, NEW i \in RequestIds, SameJob(i), jobs[i].ticket # NoTicket,
           jobs'[i].status # jobs[i].status
    PROVE  [id |-> i, ticket |-> jobs[i].ticket] \in tickets \ tickets'
<1>1. CASE jobs' = jobs
  BY <1>1
<1>2. CASE \E c \in claims, k \in RequestIds : Commit(c, k)
  <2> PICK c \in claims, k \in RequestIds : Commit(c, k)
    BY <1>2
  <2>1. CASE k = i
    BY <2>1 DEF Commit, FromClaim, SameJob, Books, ClaimIds
  <2>2. CASE k # i
    BY <2>2 DEF Commit, SameJob
  <2> QED
    BY <2>1, <2>2
<1>3. CASE \E k \in RequestIds, s \in Terminal : Settle(k, s)
  <2> PICK k \in RequestIds, s \in Terminal : Settle(k, s)
    BY <1>3
  <2>1. Moves(k) /\ jobs[k].ticket = NoTicket
    BY SettleMoves DEF Settle, SettleLocked, MaySettle, Books
  <2> QED
    BY <2>1 DEF Moves, SameJob
<1>4. CASE \E k \in RequestIds : ClaimBroadcast(k)
  BY <1>4, ClaimBroadcastMoves DEF Books, Moves, SameJob
<1>5. CASE \/ \E t \in tickets, n \in Nonces, seen \in Sighting : LeavingLeg(t, n, seen)
          \/ \E t \in tickets, n \in Nonces : Landed(t, n)
  BY <1>5, LeavingMoves, LandedMoves DEF Books, Moves, SameJob
<1>6. CASE \E t \in tickets, s \in Terminal : SettleOwned(t, s)
  <2> PICK t \in tickets, s \in Terminal : SettleOwned(t, s)
    BY <1>6
  <2>1. Moves(t.id) /\ jobs[t.id].ticket \in {NoTicket, t.ticket} /\ t \notin tickets'
    BY SettleMoves DEF SettleOwned, SettleLocked, MaySettle, Books
  <2>2. i = t.id /\ jobs[i].ticket = t.ticket
    BY <2>1 DEF Moves, SameJob
  <2>3. t = [id |-> i, ticket |-> jobs[i].ticket]
    BY <2>2 DEF Books, LedgerTypeOK, Ticket
  <2> QED
    BY <2>1, <2>3
<1> QED
  BY <1>1, <1>2, <1>3, <1>4, <1>5, <1>6
  DEF Step, Open, PinFree, PinSend, PinDeparted, NewClaim, Abandon, DropTicket, SeedSpent

\* While a broadcast is claimed, the job's status moves only in the step that
\* hands its own ticket in: no poll, cancel or stale dispatch gets there first.
THEOREM OnlyTheOwnerSettles == LedgerSpec => OwnerAlone
<1>1. Books /\ [LedgerNext]_ledgerVars =>
        [\A i \in RequestIds :
            SameJob(i) /\ jobs[i].ticket # NoTicket /\ jobs'[i].status # jobs[i].status
                => [id |-> i, ticket |-> jobs[i].ticket] \in tickets \ tickets']_ledgerVars
  BY OwnerAloneStep, NextIsStep DEF Books
<1> QED
  BY <1>1, BooksAlways, PTL DEF LedgerSpec, OwnerAlone

-----------------------------------------------------------------------------
(* When the signer manager never repeats a handle                          *)

\* No job is ever overwritten, so a ticket in hand always owns its job.
NoOverwrite ==
    /\ DOMAIN jobs \subseteq served
    /\ \A t \in tickets : Owns(t)

LEMMA NoOverwriteStep ==
    ASSUME FreshIds, Books, NoOverwrite, [Step]_ledgerVars
    PROVE  NoOverwrite'
<1>1. CASE UNCHANGED ledgerVars
  BY <1>1 DEF ledgerVars, NoOverwrite, Owns
<1>2. CASE Step
  <2>1. CASE \E c \in claims, i \in RequestIds : Commit(c, i)
    BY <2>1 DEF Commit, NoOverwrite, Owns
  <2>2. CASE \E i \in RequestIds, s \in Terminal : Settle(i, s)
    <3> PICK i \in RequestIds, s \in Terminal : Settle(i, s)
      BY <2>2
    <3>1. /\ Moves(i) /\ jobs'[i].ticket = jobs[i].ticket
          /\ tickets' = tickets /\ served' = served
      BY SettleMoves DEF Settle, SettleLocked, Books
    <3> QED
      BY <3>1 DEF Moves, NoOverwrite, Owns
  <2>3. CASE \E i \in RequestIds : ClaimBroadcast(i)
    <3> PICK i \in RequestIds : ClaimBroadcast(i)
      BY <2>3
    <3>1. /\ Moves(i) /\ jobs'[i].ticket = lastTicket' /\ jobs[i].ticket = NoTicket
          /\ tickets' = tickets \cup {[id |-> i, ticket |-> lastTicket']} /\ served' = served
      BY ClaimBroadcastMoves DEF ClaimBroadcast, Books
    <3>2. \A t \in tickets : t.id # i
      BY <3>1 DEF NoOverwrite, Owns, Books, TicketsLive, NoTicket
    <3> QED
      BY <3>1, <3>2 DEF Moves, NoOverwrite, Owns
  <2>4. CASE \/ \E t \in tickets, n \in Nonces, seen \in Sighting : LeavingLeg(t, n, seen)
             \/ \E t \in tickets, n \in Nonces : Landed(t, n)
    <3> PICK t \in tickets, n \in Nonces :
                (\E seen \in Sighting : LeavingLeg(t, n, seen)) \/ Landed(t, n)
      BY <2>4
    <3>1. /\ Moves(t.id) /\ jobs'[t.id].ticket = jobs[t.id].ticket
          /\ tickets' = tickets /\ served' = served
      BY LeavingMoves, LandedMoves DEF LeavingLeg, Landed, Books
    <3> QED
      BY <3>1 DEF Moves, NoOverwrite, Owns
  <2>5. CASE \E t \in tickets, s \in Terminal : SettleOwned(t, s)
    <3> PICK t \in tickets, s \in Terminal : SettleOwned(t, s)
      BY <2>5
    <3>1. /\ Moves(t.id) /\ jobs'[t.id].ticket = jobs[t.id].ticket
          /\ tickets' \subseteq tickets /\ served' = served
      BY SettleMoves DEF SettleOwned, SettleLocked, Books
    <3> QED
      BY <3>1 DEF Moves, NoOverwrite, Owns
  <2> QED
    BY <1>2, <2>1, <2>2, <2>3, <2>4, <2>5
    DEF Step, Open, PinFree, PinSend, PinDeparted, NewClaim, Abandon, DropTicket, SeedSpent,
        NoOverwrite, Owns
<1> QED
  BY <1>1, <1>2

LEMMA OneVerdictStep ==
    ASSUME FreshIds, Books, NoOverwrite, Step, NEW i \in RequestIds, SameJob(i), IsTerminal(jobs[i])
    PROVE  jobs'[i].status = jobs[i].status
<1>1. CASE jobs' = jobs
  BY <1>1
<1>2. CASE \E c \in claims, k \in RequestIds : Commit(c, k)
  BY <1>2 DEF Commit, SameJob, NoOverwrite
<1>3. CASE \E k \in RequestIds, s \in Terminal : Settle(k, s)
  BY <1>3, SettleMoves DEF Settle, SettleLocked, MaySettle, Books, Moves, SameJob
<1>4. CASE \E k \in RequestIds : ClaimBroadcast(k)
  BY <1>4, ClaimBroadcastMoves DEF Books, Moves, SameJob
<1>5. CASE \/ \E t \in tickets, n \in Nonces, seen \in Sighting : LeavingLeg(t, n, seen)
          \/ \E t \in tickets, n \in Nonces : Landed(t, n)
  BY <1>5, LeavingMoves, LandedMoves DEF Books, Moves, SameJob
<1>6. CASE \E t \in tickets, s \in Terminal : SettleOwned(t, s)
  <2> PICK t \in tickets, s \in Terminal : SettleOwned(t, s)
    BY <1>6
  <2>1. Moves(t.id) /\ ~IsTerminal(jobs[t.id])
    BY SettleMoves DEF SettleOwned, Books, TicketsLive, NoOverwrite
  <2> QED
    BY <2>1 DEF Moves, SameJob
<1> QED
  BY <1>1, <1>2, <1>3, <1>4, <1>5, <1>6
  DEF Step, Open, PinFree, PinSend, PinDeparted, NewClaim, Abandon, DropTicket, SeedSpent

\* A job reaches exactly one terminal state, provided handles are not repeated.
THEOREM VerdictsStand == ASSUME FreshIds PROVE LedgerSpec => OneVerdict
<1>1. LedgerInit => NoOverwrite
  BY DEF LedgerInit, NoOverwrite
<1>2. Books /\ NoOverwrite /\ [LedgerNext]_ledgerVars => NoOverwrite'
  BY NextIsStep, NoOverwriteStep DEF Books
<1>3. Books /\ NoOverwrite /\ [LedgerNext]_ledgerVars =>
        [\A i \in RequestIds :
            SameJob(i) /\ IsTerminal(jobs[i]) => jobs'[i].status = jobs[i].status]_ledgerVars
  BY OneVerdictStep, NextIsStep DEF Books
<1> QED
  BY <1>1, <1>2, <1>3, BooksAlways, PTL DEF LedgerSpec, OneVerdict
-----------------------------------------------------------------------------
(* The book of numbers                                                     *)

\* What is in hand, one entry at a time.
LEMMA InHandIs ==
    ASSUME NEW js, NEW cs, NEW e
    PROVE  e \in InHand(js, cs) <=>
             \/ \E c \in cs : \E n \in c.nonces : e = Handed(c.id, c.acct, n, c.replaces)
             \/ \E i \in DOMAIN js : \E n \in js[i].nonces :
                    /\ HoldsLeg(js[i], n) /\ ~LegSpent(js[i], n)
                    /\ e = Handed(js[i].claim, js[i].acct, n, js[i].replaces)
<1> DEFINE A == {ByClaim(c) : c \in cs} \cup {ByJob(js[i]) : i \in DOMAIN js}
<1>1. InHand(js, cs) = UNION A
  BY DEF InHand
<1>2. \A S : S \in A <=> (\E c \in cs : S = ByClaim(c)) \/ \E i \in DOMAIN js : S = ByJob(js[i])
  OBVIOUS
<1> HIDE DEF A
<1>3. e \in InHand(js, cs) <=> \E S \in A : e \in S
  BY <1>1
<1>4. \A c : e \in ByClaim(c) <=> \E n \in c.nonces : e = Handed(c.id, c.acct, n, c.replaces)
  BY DEF ByClaim
<1>5. \A i : e \in ByJob(js[i]) <=> \E n \in js[i].nonces :
                    /\ HoldsLeg(js[i], n) /\ ~LegSpent(js[i], n)
                    /\ e = Handed(js[i].claim, js[i].acct, n, js[i].replaces)
  BY DEF ByJob
<1> QED
  BY <1>2, <1>3, <1>4, <1>5, Zenon

LEMMA GoneIs ==
    ASSUME NEW ws, NEW e
    PROVE  e \in Gone(ws) <=> \E w \in ws : e = Handed(w.claim, w.acct, w.nonce, w.replaces)
BY DEF Gone

\* A claim opened at numbers that are in nobody's hand puts them into one.
LEMMA ClaimHands ==
    ASSUME NEW a \in Accounts, NEW ns \in SUBSET Nonces, NEW r, NewClaim(a, ns, r),
           \A n \in ns : n \notin Held(jobs, claims, a) \/ Replaceable(a, n)
    PROVE  /\ lastClaim' = lastClaim + 1 /\ wire' = wire
           /\ \A n \in ns : \A e \in InHand(jobs, claims) : ~(e.acct = a /\ e.nonce = n)
           /\ InHand(jobs', claims')
                = InHand(jobs, claims) \cup {Handed(lastClaim', a, n, r) : n \in ns}
<1> DEFINE c == [id |-> lastClaim', acct |-> a, nonces |-> ns, replaces |-> r]
           new == {Handed(lastClaim', a, n, r) : n \in ns}
<1>1. /\ claims' = claims \cup {c} /\ lastClaim' = lastClaim + 1
      /\ jobs' = jobs /\ wire' = wire
  BY DEF NewClaim
<1>2. InHand(jobs', claims') = InHand(jobs, claims) \cup new
  <2>1. \A e : e \in InHand(jobs', claims') <=> e \in InHand(jobs, claims) \cup new
    <3> TAKE e
    <3>1. c.id = lastClaim' /\ c.acct = a /\ c.nonces = ns /\ c.replaces = r
      OBVIOUS
    <3> HIDE DEF c
    <3> QED
      BY <1>1, <3>1, InHandIs
  <2> QED
    BY <2>1
<1>3. ASSUME NEW n \in ns, NEW e \in InHand(jobs, claims), e.acct = a, e.nonce = n
      PROVE  FALSE
  <2>1. CASE \E d \in claims : \E m \in d.nonces : e = Handed(d.id, d.acct, m, d.replaces)
    <3>1. PICK d \in claims : d.acct = a /\ n \in d.nonces
      BY <1>3, <2>1 DEF Handed
    <3> QED
      BY <3>1 DEF Held, Replaceable
  <2>2. CASE \E i \in DOMAIN jobs : \E m \in jobs[i].nonces :
                /\ HoldsLeg(jobs[i], m) /\ ~LegSpent(jobs[i], m)
                /\ e = Handed(jobs[i].claim, jobs[i].acct, m, jobs[i].replaces)
    <3>1. PICK i \in DOMAIN jobs :
            jobs[i].acct = a /\ HoldsLeg(jobs[i], n) /\ ~LegSpent(jobs[i], n)
      BY <1>3, <2>2 DEF Handed
    <3> QED
      BY <3>1 DEF Held, Replaceable
  <2> QED
    BY <2>1, <2>2, <1>3, InHandIs
<1> QED
  BY <1>1, <1>2, <1>3

\* ... and, if they are on the wire only as it says, is an entry of the book.
LEMMA ClaimIsGrant ==
    ASSUME NEW a \in Accounts, NEW ns \in SUBSET Nonces, NEW r, NewClaim(a, ns, r),
           \A n \in ns : n \notin Held(jobs, claims, a) \/ Replaceable(a, n),
           \A n \in ns : r = None => \A w \in wire : ~(w.acct = a /\ w.nonce = n)
    PROVE  Book!BookNext
<1> DEFINE new == {Handed(lastClaim', a, n, r) : n \in ns}
<1>1. /\ lastClaim' = lastClaim + 1 /\ wire' = wire
      /\ \A n \in ns : \A e \in InHand(jobs, claims) : ~(e.acct = a /\ e.nonce = n)
      /\ InHand(jobs', claims') = InHand(jobs, claims) \cup new
  BY ClaimHands
<1>2. ASSUME NEW n \in ns, r = None, NEW e \in Gone(wire), e.acct = a, e.nonce = n
      PROVE  FALSE
  BY <1>2, GoneIs DEF Handed
<1>3. \A n \in ns : /\ Book!At(InHand(jobs, claims), a, n) = {}
                    /\ r # None \/ Book!At(Gone(wire), a, n) = {}
  BY <1>1, <1>2 DEF Book!At
<1>4. new = {Book!Entry(lastClaim', a, n, r # None) : n \in ns}
  BY DEF Handed, Book!Entry
<1> HIDE DEF new
<1>5. Gone(wire)' = Gone(wire)
  BY <1>1
<1>6. InHand(jobs, claims)'
        = InHand(jobs, claims) \cup {Book!Entry(lastClaim', a, n, r # None) : n \in ns}
  BY <1>1, <1>4
<1>7. Book!Grant(a, ns, r # None)
  BY <1>1, <1>3, <1>5, <1>6 DEF Book!Grant
<1> QED
  BY <1>7 DEF Book!BookNext

\* A step that only lets go of numbers.
LEMMA LettingGo ==
    ASSUME InHand(jobs', claims') \subseteq InHand(jobs, claims), UNCHANGED <<lastClaim, wire>>
    PROVE  Book!BookNext
<1> DEFINE S == InHand(jobs, claims) \ InHand(jobs', claims')
<1>1. S \in SUBSET InHand(jobs, claims)
  OBVIOUS
<1>2. InHand(jobs, claims)' = InHand(jobs, claims) \ S
  OBVIOUS
<1>3. Book!GiveBack(S)
  BY <1>1, <1>2 DEF Book!GiveBack
<1> QED
  BY <1>1, <1>3 DEF Book!BookNext

\* No move of a job, and no commit, puts a number into a hand it was not in.
LEMMA MovesLetGo ==
    ASSUME NEW i, Moves(i), claims' = claims
    PROVE  InHand(jobs', claims') \subseteq InHand(jobs, claims)
<1>1. ASSUME NEW k \in DOMAIN jobs', NEW n, HoldsLeg(jobs'[k], n), ~LegSpent(jobs'[k], n)
      PROVE  k \in DOMAIN jobs /\ HoldsLeg(jobs[k], n) /\ ~LegSpent(jobs[k], n)
  BY <1>1 DEF Moves, HoldsLeg, LegSpent
<1> QED
  BY <1>1, InHandIs DEF Moves

LEMMA CommitLetsGo ==
    ASSUME NEW c \in claims, NEW i \in RequestIds, Commit(c, i)
    PROVE  InHand(jobs', claims') \subseteq InHand(jobs, claims)
<1> DEFINE j == FromClaim(c)
<1>1. /\ j.claim = c.id /\ j.acct = c.acct /\ j.nonces = c.nonces /\ j.replaces = c.replaces
  BY DEF FromClaim
<1>2. /\ claims' \subseteq claims /\ DOMAIN jobs' = DOMAIN jobs \cup {i} /\ jobs'[i] = j
      /\ \A k \in DOMAIN jobs' \ {i} : k \in DOMAIN jobs /\ jobs'[k] = jobs[k]
  BY DEF Commit
<1> HIDE DEF j
<1> SUFFICES ASSUME NEW e \in InHand(jobs', claims') PROVE e \in InHand(jobs, claims)
  OBVIOUS
<1>3. CASE \E d \in claims' : \E n \in d.nonces : e = Handed(d.id, d.acct, n, d.replaces)
  BY <1>2, <1>3, InHandIs
<1>4. ASSUME NEW k \in DOMAIN jobs', NEW n \in jobs'[k].nonces,
             HoldsLeg(jobs'[k], n), ~LegSpent(jobs'[k], n),
             e = Handed(jobs'[k].claim, jobs'[k].acct, n, jobs'[k].replaces)
      PROVE  e \in InHand(jobs, claims)
  <2>1. CASE k = i
    <3>1. n \in c.nonces /\ e = Handed(c.id, c.acct, n, c.replaces)
      BY <1>1, <1>2, <1>4, <2>1
    <3> QED
      BY <3>1, InHandIs
  <2>2. CASE k # i
    <3>1. /\ k \in DOMAIN jobs /\ n \in jobs[k].nonces
          /\ HoldsLeg(jobs[k], n) /\ ~LegSpent(jobs[k], n)
          /\ e = Handed(jobs[k].claim, jobs[k].acct, n, jobs[k].replaces)
      BY <1>2, <1>4, <2>2
    <3> QED
      BY <3>1, InHandIs
  <2> QED
    BY <2>1, <2>2
<1> QED
  BY <1>3, <1>4, InHandIs

\* A pin that shares a number says so, and is granted against nobody who has yet
\* to leave.
LEMMA PinIsGrant ==
    ASSUME LedgerTypeOK, NEW a \in Accounts, NEW n \in Nonces, PinSend(a, n) \/ PinDeparted(a, n)
    PROVE  Book!BookNext
<1>1. PICK r : NewClaim(a, {n}, r) /\ r # None /\ Replaceable(a, n)
  BY LedgerAssumption DEF PinSend, PinDeparted, Leavers, LedgerTypeOK
<1>2. {n} \in SUBSET Nonces
  OBVIOUS
<1> QED
  BY <1>1, <1>2, ClaimIsGrant

\* Every door but the ones that open a claim or let a leg leave lets go or
\* does nothing.
LEMMA QuietLetGo ==
    ASSUME LedgerTypeOK, Step, UNCHANGED <<lastClaim, wire>>
    PROVE  InHand(jobs', claims') \subseteq InHand(jobs, claims)
<1>1. /\ lastClaim \in Nat /\ jobs \in [DOMAIN jobs -> Job]
  BY DEF LedgerTypeOK
<1>2. ASSUME NEW a, NEW ns, NEW r, NewClaim(a, ns, r) PROVE FALSE
  BY <1>1, <1>2 DEF NewClaim
<1>3. CASE \E c \in claims : Abandon(c)
  <2>1. claims' \subseteq claims /\ jobs' = jobs
    BY <1>3 DEF Abandon
  <2> QED
    BY <2>1, InHandIs
<1>4. CASE \E c \in claims, i \in RequestIds : Commit(c, i)
  BY <1>4, CommitLetsGo
<1>5. ASSUME NEW i, Moves(i), claims' = claims
      PROVE  InHand(jobs', claims') \subseteq InHand(jobs, claims)
  BY <1>5, MovesLetGo
<1>6. CASE \E i \in RequestIds, s \in Terminal : Settle(i, s)
  <2> PICK i \in RequestIds, s \in Terminal : Settle(i, s)
    BY <1>6
  <2>1. SettleLocked(i, s, NoTicket) /\ claims' = claims
    BY DEF Settle, SettleLocked
  <2> QED
    BY <1>5, <2>1, SettleMoves
<1>7. CASE \E t \in tickets, s \in Terminal : SettleOwned(t, s)
  <2> PICK t \in tickets, s \in Terminal : SettleOwned(t, s)
    BY <1>7
  <2>1. SettleLocked(t.id, s, t.ticket) /\ claims' = claims
    BY DEF SettleOwned, SettleLocked
  <2> QED
    BY <1>5, <2>1, SettleMoves
<1>8. CASE \E i \in RequestIds : ClaimBroadcast(i)
  <2> PICK i \in RequestIds : ClaimBroadcast(i)
    BY <1>8
  <2>1. claims' = claims
    BY DEF ClaimBroadcast
  <2> QED
    BY <1>5, <2>1, ClaimBroadcastMoves
<1>9. ASSUME NEW t \in tickets, NEW n \in Nonces, NEW seen,
             LeavingLeg(t, n, seen) \/ Landed(t, n)
      PROVE  InHand(jobs', claims') \subseteq InHand(jobs, claims)
  <2>1. claims' = claims
    BY <1>9 DEF LeavingLeg, Landed
  <2>2. Moves(t.id)
    BY <1>9, LeavingMoves, LandedMoves
  <2> QED
    BY <1>5, <2>1, <2>2
<1>10. CASE \/ \E t \in tickets : DropTicket(t)
            \/ \E rows \in SUBSET (Accounts \X Nonces) : SeedSpent(rows)
  BY <1>10 DEF DropTicket, SeedSpent
<1> QED
  BY <1>2, <1>3, <1>4, <1>6, <1>7, <1>8, <1>9, <1>10 DEF Step, Open, PinFree, PinSend, PinDeparted

LEMMA QuietDoors ==
    ASSUME LedgerTypeOK, Step, UNCHANGED <<lastClaim, wire>>
    PROVE  Book!BookNext
BY QuietLetGo, LettingGo

\* A leg that leaves takes its entry, and nobody else's, out of hand; one that had
\* left changes nothing the book knows of.
LEMMA LeavingTakes ==
    ASSUME Books, Books', NEW t \in tickets, NEW m \in Nonces, NEW seen,
           LeavingLeg(t, m, seen),
           seen.claim = jobs[t.id].claim, seen.acct = jobs[t.id].acct, seen.nonce = m,
           seen.replaces = jobs[t.id].replaces,
           m \in jobs[t.id].left => seen \in wire
    PROVE  /\ lastClaim' = lastClaim /\ wire' = wire \cup {seen}
           /\ \/ /\ m \in jobs[t.id].left /\ wire' = wire
                 /\ InHand(jobs', claims') \subseteq InHand(jobs, claims)
              \/ LET e == Handed(seen.claim, seen.acct, seen.nonce, seen.replaces)
                 IN  /\ m \notin jobs[t.id].left
                     /\ e \in InHand(jobs, claims)
                     /\ InHand(jobs', claims') = InHand(jobs, claims) \ {e}
                     /\ Gone(wire') = Gone(wire) \cup {e}
<1> DEFINE i == t.id
           e == Handed(seen.claim, seen.acct, seen.nonce, seen.replaces)
<1>1. /\ Moves(i) /\ jobs'[i].status = jobs[i].status
      /\ jobs'[i].left = jobs[i].left \cup {m}
  BY LeavingMoves DEF Books
<1>2. /\ claims' = claims /\ lastClaim' = lastClaim /\ wire' = wire \cup {seen}
      /\ i \in DOMAIN jobs /\ m \in jobs[i].nonces /\ ~IsTerminal(jobs[i])
  BY DEF LeavingLeg, Owns, Books, TicketsLive
<1>3. InHand(jobs', claims') \subseteq InHand(jobs, claims)
  BY <1>1, <1>2, MovesLetGo
<1>4. CASE m \in jobs[i].left
  <2>1. wire' = wire
    BY <1>2, <1>4
  <2> QED
    BY <1>2, <1>3, <1>4, <2>1
<1>5. CASE m \notin jobs[i].left
  <2>1. HoldsLeg(jobs[i], m) /\ ~LegSpent(jobs[i], m)
    BY <1>2, <1>5 DEF HoldsLeg, LegSpent, IsTerminal, Terminal
  <2>2. e = Handed(jobs[i].claim, jobs[i].acct, m, jobs[i].replaces)
    OBVIOUS
  <2>3. e \in InHand(jobs, claims)
    BY <1>2, <2>1, <2>2, InHandIs
  <2>4. e \notin InHand(jobs', claims')
    <3>1. ASSUME NEW c \in claims', NEW n, e = Handed(c.id, c.acct, n, c.replaces) PROVE FALSE
      <4>1. c.id = jobs[i].claim
        BY <2>2, <3>1 DEF Handed
      <4> QED
        BY <1>2, <3>1, <4>1 DEF Books, ClaimIds
    <3>2. ASSUME NEW k \in DOMAIN jobs', NEW n, ~LegSpent(jobs'[k], n),
                 e = Handed(jobs'[k].claim, jobs'[k].acct, n, jobs'[k].replaces)
          PROVE  FALSE
      <4>1. k \in DOMAIN jobs /\ jobs'[k].claim = jobs[k].claim
        BY <1>1 DEF Moves
      <4>2. jobs[k].claim = jobs[i].claim /\ n = m
        BY <2>2, <3>2, <4>1 DEF Handed
      <4>3. k = i
        BY <1>2, <4>1, <4>2 DEF Books, ClaimIds
      <4> QED
        BY <1>1, <3>2, <4>2, <4>3 DEF LegSpent
    <3> QED
      BY <3>1, <3>2, InHandIs
  <2>5. ASSUME NEW x \in InHand(jobs, claims), x # e PROVE x \in InHand(jobs', claims')
    <3>1. CASE \E c \in claims : \E n \in c.nonces : x = Handed(c.id, c.acct, n, c.replaces)
      BY <1>2, <3>1, InHandIs
    <3>2. ASSUME NEW k \in DOMAIN jobs, NEW n \in jobs[k].nonces,
                 HoldsLeg(jobs[k], n), ~LegSpent(jobs[k], n),
                 x = Handed(jobs[k].claim, jobs[k].acct, n, jobs[k].replaces)
          PROVE  x \in InHand(jobs', claims')
      <4>1. k = i => n # m
        BY <2>2, <2>5, <3>2
      <4>2. HoldsLeg(jobs'[k], n) /\ ~LegSpent(jobs'[k], n)
        BY <1>1, <3>2, <4>1 DEF Moves, HoldsLeg, LegSpent, IsTerminal
      <4>3. /\ k \in DOMAIN jobs' /\ n \in jobs'[k].nonces
            /\ x = Handed(jobs'[k].claim, jobs'[k].acct, n, jobs'[k].replaces)
        BY <1>1, <3>2 DEF Moves
      <4> QED
        BY <4>2, <4>3, InHandIs
    <3> QED
      BY <2>5, <3>1, <3>2, InHandIs
  <2>6. InHand(jobs', claims') = InHand(jobs, claims) \ {e}
    BY <1>3, <2>4, <2>5
  <2>7. Gone(wire') = Gone(wire) \cup {e}
    <3>1. \A x : x \in Gone(wire') <=> x \in Gone(wire) \cup {e}
      BY <1>2, GoneIs
    <3> QED
      BY <3>1
  <2> QED
    BY <1>2, <1>5, <2>3, <2>6, <2>7
<1> QED
  BY <1>4, <1>5

LEMMA LeavingIsLeave ==
    ASSUME Books, Books', NEW t \in tickets, NEW m \in Nonces, NEW seen,
           LeavingLeg(t, m, seen),
           seen.claim = jobs[t.id].claim, seen.acct = jobs[t.id].acct, seen.nonce = m,
           seen.replaces = jobs[t.id].replaces,
           m \in jobs[t.id].left => seen \in wire
    PROVE  Book!BookNext
<1> DEFINE e == Handed(seen.claim, seen.acct, seen.nonce, seen.replaces)
<1>1. /\ lastClaim' = lastClaim
      /\ \/ wire' = wire /\ InHand(jobs', claims') \subseteq InHand(jobs, claims)
         \/ /\ e \in InHand(jobs, claims)
            /\ InHand(jobs', claims') = InHand(jobs, claims) \ {e}
            /\ Gone(wire') = Gone(wire) \cup {e}
  BY LeavingTakes
<1> HIDE DEF e
<1>2. CASE wire' = wire /\ InHand(jobs', claims') \subseteq InHand(jobs, claims)
  BY <1>1, <1>2, LettingGo
<1>3. CASE /\ e \in InHand(jobs, claims)
           /\ InHand(jobs', claims') = InHand(jobs, claims) \ {e}
           /\ Gone(wire') = Gone(wire) \cup {e}
  BY <1>1, <1>3 DEF Book!Leave, Book!BookNext
<1> QED
  BY <1>1, <1>2, <1>3

\* The step where the ledger hands numbers out: free of holders, and free of the
\* wire unless the claim says what it replaces.
LEMMA NextIsOfBook == IInv /\ Books' /\ LedgerNext => Book!BookNext
<1> SUFFICES ASSUME IInv, Books', LedgerNext PROVE Book!BookNext
  OBVIOUS
<1>0. Books /\ LedgerTypeOK /\ Containment /\ WireBurnt
  BY DEF IInv, Books, OnWire
<1>1. ASSUME NEW a \in Accounts, NEW n \in Nonces, Free(a, n)
      PROVE  n \notin Held(jobs, claims, a) /\ \A w \in wire : ~(w.acct = a /\ w.nonce = n)
  BY <1>0, <1>1 DEF Free, Containment, WireBurnt
<1>2. ASSUME NEW a \in Accounts, NEW n \in Nonces, NEW k \in 1..MaxLegs, Open(a, n, k)
      PROVE  Book!BookNext
  <2>1. PICK run \in SUBSET Nonces : NewClaim(a, run, None) /\ \A m \in run : Free(a, m)
    BY <1>2 DEF Open, IsNextFree
  <2> QED
    BY <1>1, <2>1, ClaimIsGrant
<1>3. ASSUME NEW a \in Accounts, NEW n \in Nonces, PinFree(a, n)
      PROVE  Book!BookNext
  <2>1. NewClaim(a, {n}, None) /\ Free(a, n) /\ {n} \in SUBSET Nonces
    BY <1>3 DEF PinFree
  <2>2. \A m \in {n} : m \notin Held(jobs, claims, a)
    BY <1>1, <2>1
  <2>3. \A m \in {n} : \A w \in wire : ~(w.acct = a /\ w.nonce = m)
    BY <1>1, <2>1
  <2> QED
    BY <2>1, <2>2, <2>3, ClaimIsGrant
<1>4. ASSUME NEW a \in Accounts, NEW n \in Nonces, PinSend(a, n) \/ PinDeparted(a, n)
      PROVE  Book!BookNext
  BY <1>0, <1>4, PinIsGrant
<1>5. ASSUME NEW t \in tickets, NEW n \in Nonces, LeavingLeg(t, n, Sight(jobs[t.id], n))
      PROVE  Book!BookNext
  <2> DEFINE seen == Sight(jobs[t.id], n)
  <2>1. /\ seen.claim = jobs[t.id].claim /\ seen.acct = jobs[t.id].acct /\ seen.nonce = n
        /\ seen.replaces = jobs[t.id].replaces
    BY DEF Sight
  <2>2. t.id \in DOMAIN jobs /\ (n \in jobs[t.id].left => seen \in wire)
    BY <1>0, <1>5 DEF WireBurnt, LeavingLeg, Owns
  <2> HIDE DEF seen
  <2>3. LeavingLeg(t, n, seen)
    BY <1>5 DEF seen
  <2> QED
    BY <1>0, <2>1, <2>2, <2>3, LeavingIsLeave
<1>6. CASE UNCHANGED <<lastClaim, wire>>
  BY <1>0, <1>6, NextIsStep, QuietDoors
<1>7. CASE ~UNCHANGED <<lastClaim, wire>>
  BY <1>2, <1>3, <1>4, <1>5, <1>7
  DEF LedgerNext, Abandon, Commit, Settle, SettleLocked, ClaimBroadcast, ClaimCancel, Landed,
      SettleOwned, DropTicket, SeedSpent
<1> QED
  BY <1>6, <1>7

\* The ledger keeps the book of numbers: whatever its doors do, in any order and
\* for any number of sends, is a step the book allows.
THEOREM NumbersAreABook == LedgerSpec => ImplementsNonceBook
<1>1. LedgerInit => Book!BookInit
  <2> SUFFICES ASSUME LedgerInit PROVE Book!BookInit
    OBVIOUS
  <2>1. \A e : e \notin InHand(jobs, claims) /\ e \notin Gone(wire)
    BY InHandIs, GoneIs DEF LedgerInit
  <2> QED
    BY <2>1 DEF LedgerInit, Book!BookInit
<1>2. IInv /\ Books' /\ [LedgerNext]_ledgerVars => [Book!BookNext]_Book!bookVars
  <2>1. UNCHANGED ledgerVars => UNCHANGED Book!bookVars
    BY DEF ledgerVars, Book!bookVars
  <2> QED
    BY <2>1, NextIsOfBook
<1> QED
  BY <1>1, <1>2, InvAlways, BooksAlways, PTL DEF LedgerSpec, ImplementsNonceBook, Book!BookSpec

\* The book is enough: what keeps it hands no number to two sends, and lets bytes
\* leave twice with one number only as a transaction and its declared replacement.
THEOREM TheBookKeepsApart == Book!BookSpec => []Book!OneEach
<1> DEFINE hand == InHand(jobs, claims)
           out == Gone(wire)
<1>1. Book!BookInit => Book!OneEach
  BY DEF Book!BookInit, Book!OneEach
<1>2. Book!OneEach /\ [Book!BookNext]_Book!bookVars => Book!OneEach'
  <2> SUFFICES ASSUME Book!OneEach, [Book!BookNext]_Book!bookVars PROVE Book!OneEach'
    OBVIOUS
  <2>1. /\ \A x, y \in hand : x.acct = y.acct /\ x.nonce = y.nonce => x = y
        /\ \A x \in hand, y \in out : x.acct = y.acct /\ x.nonce = y.nonce => x.declared
        /\ \A x, y \in out :
            x.acct = y.acct /\ x.nonce = y.nonce /\ x.claim # y.claim
                => x.declared \/ y.declared
    BY DEF Book!OneEach
  <2>2. CASE hand' \subseteq hand /\ out' \subseteq out
    <3> HIDE DEF hand, out
    <3>1. /\ \A x, y \in hand' : x.acct = y.acct /\ x.nonce = y.nonce => x = y
          /\ \A x \in hand', y \in out' : x.acct = y.acct /\ x.nonce = y.nonce => x.declared
          /\ \A x, y \in out' :
            x.acct = y.acct /\ x.nonce = y.nonce /\ x.claim # y.claim
                => x.declared \/ y.declared
      BY <2>1, <2>2
    <3> QED
      BY <3>1 DEF Book!OneEach, hand, out
  <2>3. ASSUME NEW e \in hand, hand' = hand \ {e}, out' = out \cup {e} PROVE Book!OneEach'
    <3> HIDE DEF hand, out
    <3>1. /\ \A x, y \in hand' : x.acct = y.acct /\ x.nonce = y.nonce => x = y
          /\ \A x \in hand', y \in out' : x.acct = y.acct /\ x.nonce = y.nonce => x.declared
          /\ \A x, y \in out' :
            x.acct = y.acct /\ x.nonce = y.nonce /\ x.claim # y.claim
                => x.declared \/ y.declared
      BY <2>1, <2>3
    <3> QED
      BY <3>1 DEF Book!OneEach, hand, out
  <2>4. ASSUME NEW a \in Accounts, NEW ns \in SUBSET Nonces, NEW d \in BOOLEAN,
               Book!Grant(a, ns, d)
        PROVE  Book!OneEach'
    <3> DEFINE new == {Book!Entry(lastClaim', a, n, d) : n \in ns}
    <3>1. /\ hand' = hand \cup new /\ out' = out
          /\ \A n \in ns : /\ \A x \in hand : ~(x.acct = a /\ x.nonce = n)
                           /\ d \/ \A x \in out : ~(x.acct = a /\ x.nonce = n)
      BY <2>4 DEF Book!Grant, Book!At
    <3>2. /\ \A x \in new : x.acct = a /\ x.nonce \in ns /\ x.declared = d
          /\ \A x, y \in new : x.nonce = y.nonce => x = y
      BY DEF Book!Entry
    <3> HIDE DEF hand, out, new
    <3>3. /\ \A x, y \in hand' : x.acct = y.acct /\ x.nonce = y.nonce => x = y
          /\ \A x \in hand', y \in out' : x.acct = y.acct /\ x.nonce = y.nonce => x.declared
          /\ \A x, y \in out' :
            x.acct = y.acct /\ x.nonce = y.nonce /\ x.claim # y.claim
                => x.declared \/ y.declared
      BY <2>1, <3>1, <3>2
    <3> QED
      BY <3>3 DEF Book!OneEach, hand, out
  <2>5. CASE UNCHANGED Book!bookVars
    BY <2>2, <2>5 DEF Book!bookVars
  <2>6. CASE Book!BookNext
    BY <2>2, <2>3, <2>4, <2>6
    DEF Book!BookNext, Book!Leave, Book!GiveBack, Book!Finish, Book!Restart
  <2> QED
    BY <2>5, <2>6
<1> QED
  BY <1>1, <1>2, PTL DEF Book!BookSpec
=============================================================================
