---------------------------- MODULE RestartProofs ----------------------------
(* What one process leaves to the next, proved of SendFlow: a disk that     *)
(* reads, and any node and any pin.                                         *)
EXTENDS SendFlowProofs

\* A dispatch holds this row's number, its row on disk, and has yet to burn it.
AboutToLeave(p, r) == At(p, "leave") /\ poll[p].job.acct = r.acct /\ Leg(p) = r.nonce

\* The number of a row is taken in this process.
Taken(r) == r.nonce \in spent[r.acct] \/ \E p \in Pollers : AboutToLeave(p, r)

\* What opening an account's history means for its rows: each is taken, or was
\* over before this process started.
Opening ==
    /\ opened \subseteq everOpen
    /\ past \subseteq rows /\ \A r \in past : ~Unsettled(r)
    /\ \A r \in rows : r.acct \in everOpen \cup seeding => Taken(r) \/ r \in past
    /\ \A r \in rows : ~Unsettled(r) /\ r.acct \notin everOpen => r \in past

Restarted == Recorded /\ Opening

-----------------------------------------------------------------------------
(* The rows an open account has                                            *)

\* A row as it was, one just written, or one that moved on: never back from
\* settled, and settled only by a sweep.
LEMMA RowFrom ==
    ASSUME FlowTyped, Next, NEW x \in rows'
    PROVE  \/ x \in rows
           \/ Unsettled(x) /\ \E p \in Pollers : Record(p) /\ x = Intent(p)
           \/ \E r \in rows : SameRow(x, r) /\ Unsettled(r) /\ (~Unsettled(x) => Sweep(r))
<1> USE DEF SameRow, Unsettled
<1>1. rows \subseteq Row
  BY DEF FlowTyped, TypeOK
<1>2. ASSUME NEW p \in Pollers, Answered(p), x \notin rows
      PROVE  \E r \in rows : SameRow(x, r) /\ Unsettled(r) /\ Unsettled(x)
  <2>1. PICK r \in rows : /\ OwnsRow(p, r)
                          /\ x = [r EXCEPT !.status = "pending", !.hash = poll[p].job.claim]
    BY <1>2 DEF Answered
  <2> QED
    BY <1>1, <2>1 DEF OwnsRow, Row
<1>3. ASSUME NEW r \in rows, Sweep(r), x \notin rows PROVE SameRow(x, r) /\ Unsettled(r)
  BY <1>1, <1>3 DEF Sweep, Row
<1>4. ASSUME NEW p \in Pollers, Record(p), x \notin rows PROVE Unsettled(x) /\ x = Intent(p)
  BY <1>4 DEF Record, Intent
<1> QED
  BY <1>2, <1>3, <1>4, RowsMove

\* What was taken stays taken: the dispatch at hand burns before it goes on.
LEMMA TakenStays ==
    ASSUME FreshIds, Driven, Driven', Next, ~Crash, NEW r \in Row, Taken(r)
    PROVE  Taken(r)'
<1>1. /\ FlowTyped /\ FlowBooks /\ LedgerTypeOK /\ LedgerTypeOK'
      /\ r.acct \in Accounts /\ Containment /\ NoLeak
  BY DEF Driven, FlowBooks, Books, Row
<1>2. Onward
  BY <1>1, NextOfLedger, StepOnward
<1>3. CASE r.nonce \in spent[r.acct]
  BY <1>1, <1>2, <1>3 DEF Onward, Taken
<1>4. ASSUME NEW p \in Pollers, AboutToLeave(p, r) PROVE Taken(r)'
  <2>1. CASE poll'[p] = poll[p]
    BY <1>4, <2>1 DEF AboutToLeave, Taken, At, Leg
  <2>2. CASE poll'[p] # poll[p]
    <3>1. Turn(p)
      BY <1>1, <2>2, ActorIs
    <3>2. Leave(p)
      BY <1>4, <2>2, <3>1
      DEF Turn, AboutToLeave, At, StartPoll, Hold, Ask, FetchShort, SettlePolled, Pass, Claims,
          Record, RecordFails, Answered, Unanswered, Land, Ack, Finish, FailOwned, SettleByTicket
    <3>3. LeavingLeg(poll[p].ticket, Leg(p), Sight(poll[p].job, Leg(p))) /\ Sends(p)
      BY <3>2, LeaveIs DEF Leave, At, Sends, SendPcs
    <3> DEFINE i == poll[p].id
    <3>4. /\ poll[p].ticket.id = i /\ i \in DOMAIN jobs
          /\ poll[p].job.acct = jobs[i].acct
      BY <3>3, OwnerIs DEF SameSend
    <3>5. /\ i \in DOMAIN jobs' /\ Leg(p) \in jobs'[i].left /\ jobs'[i].acct = r.acct
      BY <1>1, <1>4, <3>3, <3>4, LeavingBecomes DEF Becomes, SameSend, AboutToLeave
    <3>6. Leg(p) \in spent'[r.acct]
      BY <3>5 DEF Driven, LeftBurnt
    <3> QED
      BY <1>4, <3>6 DEF AboutToLeave, Taken
  <2> QED
    BY <2>1, <2>2
<1> QED
  BY <1>3, <1>4 DEF Taken

\* A row that is over stays as it is.
LEMMA OverStays ==
    ASSUME Next, NEW r \in rows, ~Unsettled(r)
    PROVE  r \in rows'
<1>2. \A p \in Pollers : Record(p) => r \in rows'
  BY DEF Record
<1>3. ASSUME NEW p \in Pollers, Answered(p) PROVE r \in rows'
  <2>1. ~OwnsRow(p, r)
    BY DEF OwnsRow, Unsettled
  <2> QED
    BY <1>3, <2>1 DEF Answered
<1>4. ASSUME NEW q \in rows, Sweep(q) PROVE r \in rows'
  <2>1. r # q
    BY <1>4 DEF Sweep, Unsettled
  <2> QED
    BY <1>4, <2>1 DEF Sweep
<1> QED
  BY <1>2, <1>3, <1>4, RowsMove

\* What only the opener moves.
LEMMA WorldSteps ==
    ASSUME FlowTyped, Next, ~Crash
    PROVE  /\ past' = past /\ everOpen \subseteq everOpen'
           /\ opened' \subseteq opened \cup everOpen'
           /\ \A a \in (everOpen' \cup seeding') \ (everOpen \cup seeding) :
                a \in Accounts /\ Seed(a)
<1>1. ASSUME NEW p \in Pollers, Turn(p) PROVE UNCHANGED <<opened, seeding, everOpen, past>>
  BY <1>1, TurnDisk
<1>2. CASE Around
  <2>1. CASE \E a \in Accounts : Seed(a)
    BY <2>1 DEF Seed
  <2>2. CASE \E a \in Accounts : OpenHistory(a) \/ OpenFails(a) \/ LockWallet(a) \/ Mine(a)
    BY <2>2 DEF OpenHistory, OpenFails, LockWallet, Mine
  <2> QED
    BY <1>2, <2>1, <2>2
    DEF Around, OpenSend, DropSend, CommitSend, CancelSend, Forget, Decide, Sweep, flowVars
<1> QED
  BY <1>1, <1>2, NextIs

LEMMA OpeningStep ==
    ASSUME FreshIds, ~ReadFaults, Restarted, Recorded', Next
    PROVE  Opening'
<1>1. /\ Recorded /\ Opening /\ Driven /\ Driven' /\ FlowTyped
      /\ rows \subseteq Row /\ rows' \subseteq Row
  BY DEF Restarted, Recorded, Driven, FlowBooks, FlowTyped, TypeOK
<1>2. CASE Crash
  BY <1>1, <1>2 DEF Crash, Opening, Unsettled
<1>3. CASE ~Crash
  <2>1. /\ past' = past /\ everOpen \subseteq everOpen' /\ opened' \subseteq everOpen'
        /\ \A a \in (everOpen' \cup seeding') \ (everOpen \cup seeding) :
              a \in Accounts /\ Seed(a)
    BY <1>1, <1>3, WorldSteps DEF Opening
  <2>2. past' \subseteq rows' /\ \A r \in past' : ~Unsettled(r)
    BY <1>1, <2>1, OverStays DEF Opening
  <2>3. ASSUME NEW x \in rows', x.acct \in everOpen' \cup seeding'
        PROVE  Taken(x)' \/ x \in past'
    <3>1. ASSUME NEW r \in rows, Taken(r), x.acct = r.acct, x.nonce = r.nonce
          PROVE  Taken(x)'
      <4>1. Taken(x) /\ x \in Row
        BY <1>1, <3>1 DEF Taken, AboutToLeave
      <4> QED
        BY <1>1, <1>3, <4>1, TakenStays
    <3>2. ASSUME NEW p \in Pollers, Record(p), x = Intent(p) PROVE Taken(x)'
      <4>1. poll[p].pc = "record" /\ "leave" \in SendPcs /\ poll[p].pc \in SendPcs /\ TypeOK
        BY <1>1, <3>2 DEF Record, At, SendPcs, FlowTyped
      <4>2. poll'[p].pc = "leave" /\ poll'[p].job = poll[p].job /\ poll'[p].todo = poll[p].todo
        BY <3>2, <4>1, GotoSendIs DEF Record
      <4> QED
        BY <3>2, <4>2 DEF Taken, AboutToLeave, At, Leg, Intent
    <3>3. CASE x.acct \in everOpen \cup seeding
      <4>1. CASE x \in rows
        BY <1>1, <2>1, <3>1, <3>3, <4>1 DEF Opening
      <4>2. ASSUME NEW r \in rows, SameRow(x, r), Unsettled(r) PROVE Taken(x)'
        BY <1>1, <3>1, <3>3, <4>2 DEF Opening, SameRow
      <4> QED
        BY <1>1, <3>2, <4>1, <4>2, RowFrom
    <3>4. CASE x.acct \notin everOpen \cup seeding
      <4>1. Seed(x.acct) /\ x.acct \in Accounts
        BY <2>1, <2>3, <3>4
      <4>2. rows' = rows /\ SeedSpent(UnsettledNonces(x.acct))
        BY <4>1 DEF Seed
      <4>3. CASE Unsettled(x)
        <5>1. <<x.acct, x.nonce>> \in UnsettledNonces(x.acct) /\ x.nonce \in Nonces
          BY <1>1, <4>2, <4>3 DEF UnsettledNonces, Row
        <5>2. x.nonce \in spent'[x.acct]
          BY <4>1, <4>2, <5>1 DEF SeedSpent, RowsOf
        <5> QED
          BY <5>2 DEF Taken
      <4>4. CASE ~Unsettled(x)
        BY <1>1, <2>1, <3>4, <4>2, <4>4 DEF Opening
      <4> QED
        BY <4>3, <4>4
    <3> QED
      BY <3>3, <3>4
  <2>4. ASSUME NEW x \in rows', ~Unsettled(x), x.acct \notin everOpen'
        PROVE  x \in past'
    <3>1. CASE x \in rows
      BY <1>1, <2>1, <2>4, <3>1 DEF Opening
    <3>2. ASSUME NEW r \in rows, SameRow(x, r), Sweep(r) PROVE FALSE
      BY <1>1, <2>1, <2>4, <3>2 DEF Opening, Sweep, SameRow
    <3> QED
      BY <1>1, <2>4, <3>1, <3>2, RowFrom
  <2> QED
    BY <2>1, <2>2, <2>3, <2>4 DEF Opening, Unsettled
<1> QED
  BY <1>2, <1>3

LEMMA RestartedStep ==
    ASSUME FreshIds, ~ReadFaults PROVE Restarted /\ [Next]_vars => Restarted'
<1> SUFFICES ASSUME Restarted, [Next]_vars PROVE Restarted'
  OBVIOUS
<1>1. Recorded'
  BY RecordedStep DEF Restarted
<1>2. CASE UNCHANGED vars
  BY <1>1, <1>2
  DEF vars, ledgerVars, flowVars, Restarted, Opening, Taken, AboutToLeave, At, Leg, Unsettled
<1>3. CASE Next
  BY <1>1, <1>3, OpeningStep DEF Restarted
<1> QED
  BY <1>2, <1>3

LEMMA RestartedInit == Init => Restarted
<1> SUFFICES ASSUME Init PROVE Restarted
  OBVIOUS
<1>1. Recorded
  BY RecordedInit
<1> QED
  BY <1>1 DEF Init, Restarted, Opening

\* The number a dispatch at "leave" holds is reserved, its job still open.
LEMMA TakenReserved ==
    ASSUME Driven, NEW r \in Row, Taken(r)
    PROVE  r.nonce \in reserved[r.acct]
<1>1. r.acct \in Accounts /\ r.nonce \in Nonces /\ LedgerTypeOK /\ Containment
  BY DEF Row, Driven, FlowBooks, Books
<1>2. CASE r.nonce \in spent[r.acct]
  BY <1>1, <1>2 DEF LedgerTypeOK
<1>3. ASSUME NEW p \in Pollers, AboutToLeave(p, r) PROVE r.nonce \in reserved[r.acct]
  <2>1. Sends(p) /\ poll[p].pc \in LegPcs
    BY <1>3 DEF AboutToLeave, At, Sends, SendPcs, LegPcs
  <2>2. /\ poll[p].id \in DOMAIN jobs /\ ~IsTerminal(jobs[poll[p].id])
        /\ jobs[poll[p].id].acct = r.acct
    BY <1>3, <2>1, OwnerIs DEF AboutToLeave, SameSend
  <2>3. r.nonce \in jobs[poll[p].id].nonces
    BY <1>3, <2>1, LedgerLegIs DEF AboutToLeave
  <2>4. r.nonce \in Held(jobs, claims, r.acct)
    BY <1>1, <2>2, <2>3 DEF Held, HoldsLeg
  <2> QED
    BY <1>1, <2>4 DEF Containment
<1> QED
  BY <1>2, <1>3 DEF Taken

\* Whatever an earlier process left unsettled is burnt before a send can reach
\* the account, if the disk gives its rows: for every history, crash and lock.
THEOREM OpeningBurns == ASSUME FreshIds, ~ReadFaults PROVE Spec => []BurntBeforeOpen
<1>1. Restarted => BurntBeforeOpen
  <2> SUFFICES ASSUME Restarted, NEW r \in rows, Unsettled(r), r.acct \in everOpen
               PROVE  r.nonce \in reserved[r.acct]
    BY DEF BurntBeforeOpen
  <2>1. Driven /\ r \in Row /\ Taken(r)
    BY DEF Restarted, Opening, Recorded, Driven, FlowBooks, FlowTyped, TypeOK
  <2> QED
    BY <2>1, TakenReserved
<1> QED
  BY <1>1, RestartedInit, RestartedStep, PTL DEF Spec

-----------------------------------------------------------------------------
(* Numbers that rows have                                                  *)

\* A claim or a job that names nothing it replaces, and has yet to leave with a
\* number, has no row at that number but its own and those over before.
Apart ==
    /\ \A r \in rows \ past : \A c \in claims :
        c.acct = r.acct /\ c.replaces = None => r.nonce \notin c.nonces
    /\ \A r \in rows \ past : \A i \in DOMAIN jobs :
        jobs[i].acct = r.acct /\ Bare(jobs[i], r.nonce) => r.claim = jobs[i].claim

\* Of two sends on the wire at one number, one says that it replaces, or was over
\* when this process started.
WireApart ==
    \A x, y \in wire :
        x.acct = y.acct /\ x.nonce = y.nonce /\ x.claim # y.claim
            => \/ x.replaces # None \/ y.replaces # None
               \/ Over(past, x) \/ Over(past, y)

\* A row the node answered is of bytes its job has counted as left.
Answers ==
    \A r \in rows : r.status # "unknown" =>
        \A i \in DOMAIN jobs : jobs[i].claim = r.claim => r.nonce \in jobs[i].left

Exclusive == Restarted /\ Apart /\ Answers /\ WriteAhead /\ WireApart

\* A new claim that names nothing takes numbers no row of the account has, but one
\* that was over before.
LEMMA OpenApart ==
    ASSUME Restarted, NEW a \in Accounts, OpenSend(a),
           NEW c \in claims' \ claims, c.replaces = None, NEW r \in rows \ past, r.acct = c.acct
    PROVE  r.nonce \notin c.nonces
<1>1. Driven /\ LedgerTypeOK /\ a \in everOpen /\ r \in Row
  BY DEF OpenSend, Restarted, Recorded, Driven, FlowBooks, Books, FlowTyped, TypeOK
<1>2. ASSUME NEW ns, NEW q, NewClaim(a, ns, q)
      PROVE  c.acct = a /\ c.nonces = ns /\ c.replaces = q
  BY <1>2 DEF NewClaim
<1>3. r.acct = a
  BY <1>2 DEF OpenSend, Open, PinFree, PinSend, PinDeparted
<1>4. r.nonce \in reserved[a]
  BY <1>1, <1>3, TakenReserved DEF Restarted, Opening
<1>5. ASSUME NEW n, NEW count, Open(a, n, count) PROVE r.nonce \notin c.nonces
  BY <1>2, <1>4, <1>5 DEF Open, IsNextFree, Free
<1>6. ASSUME NEW n, PinFree(a, n) PROVE r.nonce \notin c.nonces
  BY <1>2, <1>4, <1>6 DEF PinFree, Free
<1>7. ASSUME NEW n \in Nonces, PinSend(a, n) \/ PinDeparted(a, n) PROVE FALSE
  <2>1. \A i \in DOMAIN jobs : i # None
    BY <1>1, LedgerAssumption DEF LedgerTypeOK
  <2> QED
    BY <1>2, <1>7, <2>1, LedgerAssumption DEF PinSend, PinDeparted, Leavers
<1> QED
  BY <1>5, <1>6, <1>7 DEF OpenSend

\* A claim is new only by `send`.
LEMMA ClaimsFrom ==
    ASSUME FlowTyped, Next
    PROVE  claims' \subseteq claims \/ \E a \in Accounts : OpenSend(a)
<1>1. ASSUME NEW p \in Pollers, Turn(p) PROVE claims' = claims
  BY <1>1
  DEF Turn, StartPoll, Hold, Ask, FetchShort, SettlePolled, Settle, SettleLocked, Pass, Claims,
      ClaimBroadcast, Record, RecordFails, Leave, LeavingLeg, Answered, Unanswered, Land, Landed,
      Ack, Finish, FailOwned, SettleByTicket, SettleOwned, DropTicket, ledgerVars
<1>2. CASE Around
  BY <1>2
  DEF Around, Seed, SeedSpent, OpenHistory, OpenFails, LockWallet, Mine, DropSend, Abandon,
      CommitSend, Commit, CancelSend, ClaimCancel, Settle, SettleLocked, Forget, Decide, Sweep,
      ledgerVars
<1>3. CASE Crash
  BY <1>3 DEF Crash
<1> QED
  BY <1>1, <1>2, <1>3, NextIs

\* A job that has yet to leave with a number had yet to before.
LEMMA BareStays ==
    ASSUME FreshIds, Driven, Next, ~Crash, NEW i \in DOMAIN jobs, NEW n, Bare(jobs'[i], n)
    PROVE  Bare(jobs[i], n)
<1>1. Fate(i, jobs[i]) /\ Onward /\ jobs[i].status \in Status
  BY FateIs, NextOfLedger, StepOnward DEF Driven, FlowBooks, Books, LedgerTypeOK, Job
<1>2. ~IsTerminal(jobs'[i]) /\ n \in jobs'[i].nonces /\ n \notin jobs'[i].left
  BY DEF Bare, HoldsLeg, LegSpent
<1>3. jobs'[i].status = jobs[i].status
  BY <1>1, <1>2 DEF Fate, Becomes, IsTerminal, Terminal
<1>4. /\ jobs[i].replaces = jobs'[i].replaces /\ jobs[i].nonces = jobs'[i].nonces
      /\ jobs[i].left \subseteq jobs'[i].left
  BY <1>1 DEF Onward, SameSend
<1> QED
  BY <1>2, <1>3, <1>4 DEF Bare, HoldsLeg, LegSpent, IsTerminal, Terminal

\* A number a dispatch is about to record is its job's alone.
LEMMA IntentApart ==
    ASSUME Driven, NEW p \in Pollers, At(p, "record")
    PROVE  /\ \A c \in claims : c.acct = Intent(p).acct => Intent(p).nonce \notin c.nonces
           /\ \A i \in DOMAIN jobs :
                jobs[i].acct = Intent(p).acct /\ Bare(jobs[i], Intent(p).nonce)
                    => Intent(p).claim = jobs[i].claim
<1> DEFINE k == poll[p].id
           a == jobs[poll[p].id].acct
           n == Leg(p)
<1>1. Sends(p) /\ poll[p].pc \in LegPcs /\ poll[p].pc = "record"
  BY DEF At, Sends, SendPcs, LegPcs
<1>2. /\ k \in DOMAIN jobs /\ jobs[k] \in Job /\ ~IsTerminal(jobs[k])
      /\ SameSend(poll[p].job, jobs[k]) /\ jobs[k].left = jobs[k].nonces \ poll[p].todo
  BY <1>1, OwnerIs DEF Drives
<1>3. n \in jobs[k].nonces /\ n \in poll[p].todo
  BY <1>1, LedgerLegIs
<1>4. /\ Intent(p).acct = a /\ Intent(p).nonce = n /\ Intent(p).claim = jobs[k].claim
      /\ a \in Accounts /\ n \in Nonces
  BY <1>2, <1>3 DEF Intent, SameSend, Job
<1>5. HoldsLeg(jobs[k], n) /\ ~LegSpent(jobs[k], n)
  BY <1>2, <1>3 DEF HoldsLeg, LegSpent, IsTerminal, Terminal
<1>6. jobs[k].claim \in Pending(a, n)
  BY <1>2, <1>5 DEF Pending
<1>7. \A x \in Pending(a, n) : x = jobs[k].claim
  BY <1>4, <1>6 DEF Driven, FlowBooks, Books, OnePending
<1>8. ASSUME NEW c \in claims, c.acct = a, n \in c.nonces PROVE FALSE
  <2>1. c.id \in Pending(a, n)
    BY <1>8 DEF Pending
  <2> QED
    BY <1>2, <1>7, <2>1 DEF Driven, FlowBooks, Books, ClaimIds
<1>9. ASSUME NEW i \in DOMAIN jobs, jobs[i].acct = a, Bare(jobs[i], n)
      PROVE  jobs[k].claim = jobs[i].claim
  <2>1. jobs[i].claim \in Pending(a, n)
    BY <1>9 DEF Pending, Bare
  <2> QED
    BY <1>7, <2>1
<1> QED
  BY <1>4, <1>8, <1>9

LEMMA ApartStep ==
    ASSUME FreshIds, Restarted, Apart, Next
    PROVE  Apart'
<1>1. Recorded /\ Driven /\ FlowTyped /\ Opening
  BY DEF Restarted, Recorded, Driven, FlowBooks
<1>2. CASE Crash
  BY <1>2 DEF Crash, Apart
<1>3. CASE ~Crash
  <2>1. Onward /\ past' = past
    BY <1>1, <1>3, NextOfLedger, StepOnward, WorldSteps DEF Driven
  <2>2. ASSUME NEW r, \A c \in claims : c.acct = r.acct /\ c.replaces = None => r.nonce \notin c.nonces,
               \A i \in DOMAIN jobs :
                    jobs[i].acct = r.acct /\ Bare(jobs[i], r.nonce) => r.claim = jobs[i].claim,
               NEW i \in DOMAIN jobs', jobs'[i].acct = r.acct, Bare(jobs'[i], r.nonce)
        PROVE  r.claim = jobs'[i].claim
    <3>1. CASE i \in DOMAIN jobs
      BY <1>1, <1>3, <2>1, <2>2, <3>1, BareStays DEF Onward, SameSend
    <3>2. CASE i \notin DOMAIN jobs
      <4>1. PICK c \in claims : jobs'[i] = FromClaim(c)
        BY <2>1, <3>2 DEF Onward
      <4> QED
        BY <2>2, <4>1 DEF FromClaim, Bare, HoldsLeg
    <3> QED
      BY <3>1, <3>2
  <2>3. ASSUME NEW x \in rows' \ past'
        PROVE  /\ \A c \in claims : c.acct = x.acct /\ c.replaces = None => x.nonce \notin c.nonces
               /\ \A i \in DOMAIN jobs :
                    jobs[i].acct = x.acct /\ Bare(jobs[i], x.nonce) => x.claim = jobs[i].claim
    <3>1. ASSUME NEW r \in rows \ past, SameRow(x, r)
          PROVE  /\ \A c \in claims : c.acct = x.acct /\ c.replaces = None => x.nonce \notin c.nonces
                 /\ \A i \in DOMAIN jobs :
                    jobs[i].acct = x.acct /\ Bare(jobs[i], x.nonce) => x.claim = jobs[i].claim
      BY <3>1 DEF SameRow, Apart
    <3>2. ASSUME NEW p \in Pollers, Record(p), x = Intent(p)
          PROVE  /\ \A c \in claims : c.acct = x.acct => x.nonce \notin c.nonces
                 /\ \A i \in DOMAIN jobs :
                    jobs[i].acct = x.acct /\ Bare(jobs[i], x.nonce) => x.claim = jobs[i].claim
      BY <1>1, <3>2, IntentApart DEF Record
    <3>3. \A r \in rows : Unsettled(r) => r \notin past
      BY <1>1 DEF Opening
    <3>4. x \in rows => x \in rows \ past /\ SameRow(x, x)
      BY <2>1 DEF SameRow
    <3> QED
      BY <1>1, <3>1, <3>2, <3>3, <3>4, RowFrom
  <2>4. ASSUME NEW x \in rows' \ past', NEW c \in claims', c.acct = x.acct, c.replaces = None
        PROVE  x.nonce \notin c.nonces
    <3>1. CASE c \in claims
      BY <2>3, <2>4, <3>1
    <3>2. CASE c \notin claims
      <4>1. PICK a \in Accounts : OpenSend(a)
        BY <1>1, <2>4, <3>2, ClaimsFrom
      <4>2. rows' = rows
        BY <4>1 DEF OpenSend, flowVars
      <4> QED
        BY <2>1, <2>4, <3>2, <4>1, <4>2, OpenApart
    <3> QED
      BY <3>1, <3>2
  <2>5. ASSUME NEW x \in rows' \ past', NEW i \in DOMAIN jobs', jobs'[i].acct = x.acct,
               Bare(jobs'[i], x.nonce)
        PROVE  x.claim = jobs'[i].claim
    BY <2>2, <2>3, <2>5
  <2> QED
    BY <2>4, <2>5 DEF Apart
<1> QED
  BY <1>2, <1>3

\* A row becomes pending as its leg's answer arrives, the leg counted as left.
LEMMA AnswersStep ==
    ASSUME FreshIds, Recorded, Answers, Next
    PROVE  Answers'
<1>1. Driven /\ FlowTyped /\ rows \subseteq Row
  BY DEF Recorded, Driven, FlowBooks, FlowTyped, TypeOK
<1>2. CASE Crash
  BY <1>2 DEF Crash, Answers
<1>3. CASE ~Crash
  <2>1. Onward
    BY <1>1, <1>3, NextOfLedger, StepOnward DEF Driven
  <2>2. ASSUME NEW r \in rows, r.status # "unknown",
               NEW i \in DOMAIN jobs', jobs'[i].claim = r.claim
        PROVE  r.nonce \in jobs'[i].left
    <3>1. CASE i \in DOMAIN jobs
      BY <2>1, <2>2, <3>1 DEF Onward, SameSend, Answers
    <3>2. CASE i \notin DOMAIN jobs
      <4>1. PICK c \in claims : jobs'[i] = FromClaim(c)
        BY <2>1, <3>2 DEF Onward
      <4>2. c.id = r.claim
        BY <2>2, <4>1 DEF FromClaim
      <4> QED
        BY <2>2, <4>2 DEF Recorded, RowKnown
    <3> QED
      BY <3>1, <3>2
  <2>3. ASSUME NEW p \in Pollers, Answered(p), NEW r \in rows, OwnsRow(p, r)
        PROVE  \A i \in DOMAIN jobs' : jobs'[i].claim = r.claim => r.nonce \in jobs'[i].left
    <3> DEFINE k == poll[p].id
    <3>1. Sends(p) /\ poll[p].pc \in LegPcs /\ poll[p].pc = "sent" /\ jobs' = jobs
      BY <2>3 DEF Answered, At, Sends, SendPcs, LegPcs, ledgerVars
    <3>2. /\ k \in DOMAIN jobs /\ jobs[k] \in Job /\ SameSend(poll[p].job, jobs[k])
          /\ Leg(p) \in jobs[k].left
      BY <1>1, <3>1, OwnerIs DEF Drives, Leg
    <3>3. Leg(p) \in jobs[k].nonces
      BY <1>1, <3>1, LedgerLegIs
    <3>4. /\ r.claim = jobs[k].claim /\ r.nonce \in jobs[k].nonces
          /\ r.leg = IndexIn(jobs[k], r.nonce)
      BY <2>3, <3>2 DEF OwnsRow, Recorded, RowKnown
    <3>5. r.leg = IndexIn(jobs[k], Leg(p))
      BY <2>3, <3>2 DEF OwnsRow, LegIndex, IndexIn, SameSend
    <3>6. r.nonce = Leg(p)
      <4>1. jobs[k].nonces \in SUBSET Nonces
        BY <3>2 DEF Job
      <4> QED
        BY <3>3, <3>4, <3>5, <4>1, IndexIs
    <3>7. \A i \in DOMAIN jobs : jobs[i].claim = jobs[k].claim => i = k
      BY <1>1, <3>2 DEF Driven, FlowBooks, Books, ClaimIds
    <3> QED
      BY <3>1, <3>2, <3>4, <3>6, <3>7
  <2>4. ASSUME NEW x \in rows', x.status # "unknown",
               NEW i \in DOMAIN jobs', jobs'[i].claim = x.claim
        PROVE  x.nonce \in jobs'[i].left
    <3>1. CASE x \in rows
      BY <2>2, <2>4, <3>1
    <3>2. ASSUME NEW p \in Pollers, Record(p), x \notin rows PROVE FALSE
      BY <2>4, <3>2 DEF Record, Intent
    <3>3. ASSUME NEW r \in rows, Sweep(r), x \notin rows PROVE x.nonce \in jobs'[i].left
      <4>1. x = [r EXCEPT !.status = "settled"] /\ r.status = "pending"
        BY <3>3 DEF Sweep
      <4>2. x.claim = r.claim /\ x.nonce = r.nonce /\ r.status # "unknown"
        BY <1>1, <4>1 DEF Row
      <4> QED
        BY <2>2, <2>4, <4>2
    <3>4. ASSUME NEW p \in Pollers, Answered(p), x \notin rows PROVE x.nonce \in jobs'[i].left
      <4>1. PICK r \in rows :
              /\ OwnsRow(p, r)
              /\ x = [r EXCEPT !.status = "pending", !.hash = poll[p].job.claim]
        BY <3>4 DEF Answered
      <4>2. x.claim = r.claim /\ x.nonce = r.nonce
        BY <1>1, <4>1 DEF Row
      <4> QED
        BY <2>3, <2>4, <3>4, <4>1, <4>2
    <3> QED
      BY <3>1, <3>2, <3>3, <3>4, RowsMove
  <2> QED
    BY <2>4 DEF Answers
<1> QED
  BY <1>2, <1>3

\* What was over before a process started is over for those after it.
LEMMA PastStays ==
    ASSUME Restarted, Next, NEW e, Over(past, e)
    PROVE  Over(past', e)
<1>1. past \subseteq rows /\ \A r \in past : ~Unsettled(r)
  BY DEF Restarted, Opening
<1>2. past' = past \/ past' = {r \in rows : ~Unsettled(r)}
  <2>1. Crash => past' = {r \in rows : ~Unsettled(r)}
    BY DEF Crash
  <2>2. ~Crash => past' = past
    BY WorldSteps DEF Restarted, Recorded, Driven, FlowBooks
  <2> QED
    BY <2>1, <2>2
<1>3. past \subseteq past'
  BY <1>1, <1>2
<1> QED
  BY <1>3 DEF Over

\* What leaves at a number that is on the wire already says what it replaces.
LEMMA ExclusiveStep ==
    ASSUME Exclusive, Next
    PROVE  WireApart'
<1>1. Driven /\ FlowTyped /\ Restarted
  BY DEF Exclusive, Restarted, Recorded, Driven, FlowBooks
<1>2. CASE wire' = wire
  BY <1>1, <1>2, PastStays DEF Exclusive, WireApart
<1>3. ASSUME NEW p \in Pollers, Leave(p), wire' = wire \cup {Sight(poll[p].job, Leg(p))}
      PROVE  WireApart'
  <2> DEFINE k == poll[p].id
             w == Sight(poll[p].job, Leg(p))
  <2>1. Sends(p) /\ poll[p].pc \in LegPcs /\ poll[p].pc = "leave"
    BY <1>3 DEF Leave, At, Sends, SendPcs, LegPcs
  <2>2. /\ k \in DOMAIN jobs /\ ~IsTerminal(jobs[k])
        /\ SameSend(poll[p].job, jobs[k]) /\ jobs[k].left = jobs[k].nonces \ poll[p].todo
    BY <1>1, <2>1, OwnerIs DEF Drives
  <2>3. Leg(p) \in jobs[k].nonces /\ Leg(p) \in poll[p].todo
    BY <1>1, <2>1, LedgerLegIs
  <2>4. /\ w.claim = jobs[k].claim /\ w.acct = jobs[k].acct /\ w.nonce = Leg(p)
        /\ w.replaces = jobs[k].replaces
    BY <2>2 DEF Sight, SameSend
  <2>5. w.replaces = None => Bare(jobs[k], Leg(p))
    BY <2>2, <2>3, <2>4 DEF Bare, HoldsLeg, LegSpent, IsTerminal, Terminal
  <2>6. ASSUME NEW x \in wire, x.acct = w.acct, x.nonce = w.nonce, w.replaces = None
        PROVE  x.claim = w.claim \/ Over(past, x)
    <3>1. PICK r \in rows : r.claim = x.claim /\ r.acct = x.acct /\ r.nonce = x.nonce
      BY DEF Exclusive, WriteAhead
    <3>2. r \in past => Over(past, x)
      BY <1>1, <3>1 DEF Over, Restarted, Opening
    <3> QED
      BY <2>2, <2>4, <2>5, <2>6, <3>1, <3>2 DEF Exclusive, Apart
  <2> HIDE DEF w
  <2>7. wire' = wire \cup {w}
    BY <1>3 DEF w
  <2>8. \A x \in wire : Over(past, x) => Over(past', x)
    BY <1>1, PastStays
  <2> QED
    BY <2>6, <2>7, <2>8 DEF Exclusive, WireApart
<1> QED
  BY <1>1, <1>2, <1>3, WireGrows

LEMMA ExclusiveAlways ==
    ASSUME FreshIds, ~ReadFaults PROVE Spec => []Exclusive
<1>1. Init => Exclusive
  <2> SUFFICES ASSUME Init PROVE Exclusive
    OBVIOUS
  <2>1. Restarted
    BY RestartedInit
  <2> QED
    BY <2>1 DEF Init, LedgerInit, Exclusive, Apart, Answers, WriteAhead, WireApart
<1>2. Exclusive /\ WriteAhead' /\ [Next]_vars => Exclusive'
  <2> SUFFICES ASSUME Exclusive, WriteAhead', [Next]_vars PROVE Exclusive'
    OBVIOUS
  <2>1. Restarted'
    BY RestartedStep DEF Exclusive
  <2>2. CASE UNCHANGED vars
    BY <2>1, <2>2
    DEF vars, ledgerVars, flowVars, Exclusive, Apart, Answers, WriteAhead, WireApart, Over, Unsettled
  <2>3. CASE Next
    BY <2>1, <2>3, ApartStep, AnswersStep, ExclusiveStep DEF Exclusive, Restarted
  <2> QED
    BY <2>2, <2>3
<1> QED
  BY <1>1, <1>2, RowsComeFirst, PTL DEF Spec

\* The reason the ledger exists, across processes: of two sends whose bytes may
\* both have left at one number of one account, one is a declared replacement or
\* was known to be over when the process began, though the other left before a
\* crash and its process is gone.
THEOREM NumbersAreUsedOnceForAll ==
    ASSUME FreshIds, ~ReadFaults PROVE Spec => []WireApart
<1>1. Exclusive => WireApart
  BY DEF Exclusive
<1> QED
  BY <1>1, ExclusiveAlways, PTL
-----------------------------------------------------------------------------
(* The book of numbers, across processes                                   *)

\* Only `send` opens a claim, only a dispatch puts bytes on the wire.
LEMMA NumbersFrom ==
    ASSUME FlowTyped, Next
    PROVE  \/ UNCHANGED <<lastClaim, wire>>
           \/ \E a \in Accounts : OpenSend(a)
           \/ \E p \in Pollers : Leave(p)
<1>1. ASSUME NEW p \in Pollers, Turn(p), ~Leave(p) PROVE UNCHANGED <<lastClaim, wire>>
  BY <1>1
  DEF Turn, StartPoll, Hold, Ask, FetchShort, SettlePolled, Settle, SettleLocked, Pass, Claims,
      ClaimBroadcast, Record, RecordFails, Answered, Unanswered, Land, Landed, Ack, Finish,
      FailOwned, SettleByTicket, SettleOwned, DropTicket, ledgerVars
<1>2. CASE Around
  BY <1>2
  DEF Around, Seed, SeedSpent, OpenHistory, OpenFails, LockWallet, Mine, DropSend, Abandon,
      CommitSend, Commit, CancelSend, ClaimCancel, Settle, SettleLocked, Forget, Decide, Sweep,
      ledgerVars
<1>3. CASE Crash
  BY <1>3 DEF Crash
<1> QED
  BY <1>1, <1>2, <1>3, NextIs

\* What the book has as out, one entry at a time.
LEMMA OutIs ==
    ASSUME NEW e
    PROVE  /\ e \in Outstanding <=> e \in Gone(wire) /\ ~Over(past, e)
           /\ e \in OverNow <=> e \in Outstanding /\ Over(rows, e)
BY DEF Outstanding, OverNow

\* A claim opened at numbers that are in nobody's hand, and outstanding only if it
\* says so, is an entry of the book.
LEMMA FlowGrant ==
    ASSUME NEW a \in Accounts, NEW ns \in SUBSET Nonces, NEW r, NewClaim(a, ns, r),
           UNCHANGED <<rows, past>>,
           \A n \in ns : n \notin Held(jobs, claims, a) \/ Replaceable(a, n),
           \A n \in ns : r = None => \A e \in Outstanding : ~(e.acct = a /\ e.nonce = n)
    PROVE  FlowBook!BookNext
<1> DEFINE new == {Handed(lastClaim', a, n, r) : n \in ns}
<1>1. /\ lastClaim' = lastClaim + 1 /\ wire' = wire
      /\ \A n \in ns : \A e \in InHand(jobs, claims) : ~(e.acct = a /\ e.nonce = n)
      /\ InHand(jobs', claims') = InHand(jobs, claims) \cup new
  BY ClaimHands
<1>2. \A n \in ns : /\ FlowBook!At(InHand(jobs, claims), a, n) = {}
                    /\ r # None \/ FlowBook!At(Outstanding, a, n) = {}
  BY <1>1 DEF FlowBook!At
<1>3. new = {FlowBook!Entry(lastClaim', a, n, r # None) : n \in ns}
  BY DEF Handed, FlowBook!Entry
<1> HIDE DEF new
<1>4. Outstanding' = Outstanding /\ OverNow' = OverNow
  BY <1>1 DEF Outstanding, OverNow
<1>5. InHand(jobs, claims)'
        = InHand(jobs, claims) \cup {FlowBook!Entry(lastClaim', a, n, r # None) : n \in ns}
  BY <1>1, <1>3
<1>6. FlowBook!Grant(a, ns, r # None)
  BY <1>1, <1>2, <1>4, <1>5 DEF FlowBook!Grant
<1> QED
  BY <1>6 DEF FlowBook!BookNext

\* A claim `send` opens is at nobody's number, and names what it replaces if bytes
\* of any process left with it and were not over when this one started.
LEMMA SendIsGrant ==
    ASSUME Exclusive, NEW a \in Accounts, OpenSend(a)
    PROVE  FlowBook!BookNext
<1>1. /\ Books /\ LedgerTypeOK /\ ClaimIds /\ Containment /\ Restarted /\ WriteAhead
      /\ lastClaim \in Nat
  BY DEF Exclusive, Restarted, Recorded, Driven, FlowBooks, Books, LedgerTypeOK
<1>2. ASSUME NEW ns, NEW r, NewClaim(a, ns, r), r = None, NEW n \in ns, NEW e \in Outstanding,
             e.acct = a, e.nonce = n
      PROVE  FALSE
  <2> DEFINE c == [id |-> lastClaim', acct |-> a, nonces |-> ns, replaces |-> r]
  <2>1. c \in claims' /\ lastClaim' = lastClaim + 1
    BY <1>2 DEF NewClaim
  <2>2. c.id = lastClaim' /\ c.acct = a /\ c.nonces = ns /\ c.replaces = r
    OBVIOUS
  <2> HIDE DEF c
  <2>3. c \notin claims
    BY <1>1, <2>1, <2>2 DEF ClaimIds, LedgerTypeOK, Claim
  <2>4. e \in Gone(wire) /\ ~Over(past, e)
    BY <1>2, OutIs
  <2>5. PICK w \in wire : e = Handed(w.claim, w.acct, w.nonce, w.replaces)
    BY <2>4, GoneIs
  <2>6. e.claim = w.claim /\ e.acct = w.acct /\ e.nonce = w.nonce
    BY <2>5 DEF Handed
  <2>7. PICK x \in rows : x.claim = w.claim /\ x.acct = w.acct /\ x.nonce = w.nonce
    BY <1>1 DEF WriteAhead
  <2>8. x \notin past
    BY <1>1, <2>4, <2>6, <2>7 DEF Over, Restarted, Opening
  <2> QED
    BY <1>1, <1>2, <2>1, <2>2, <2>3, <2>6, <2>7, <2>8, OpenApart
<1>3. ASSUME NEW m \in Nonces, Free(a, m) PROVE m \notin Held(jobs, claims, a)
  BY <1>1, <1>3 DEF Free, Containment
<1>4. UNCHANGED <<rows, past>>
  BY DEF OpenSend, flowVars
<1>5. CASE \E n \in Readings(a), count \in 1..MaxLegs : Open(a, n, count)
  <2>1. PICK run \in SUBSET Nonces : NewClaim(a, run, None) /\ \A m \in run : Free(a, m)
    BY <1>5 DEF Open, IsNextFree
  <2>2. \A m \in run : m \notin Held(jobs, claims, a)
    BY <1>3, <2>1
  <2>3. \A m \in run : \A e \in Outstanding : ~(e.acct = a /\ e.nonce = m)
    BY <1>2, <2>1
  <2> QED
    BY <1>4, <2>1, <2>2, <2>3, FlowGrant
<1>6. ASSUME NEW n \in Nonces, PinFree(a, n) PROVE FlowBook!BookNext
  <2>1. NewClaim(a, {n}, None) /\ Free(a, n) /\ {n} \in SUBSET Nonces
    BY <1>6 DEF PinFree
  <2>2. \A m \in {n} : m \notin Held(jobs, claims, a)
    BY <1>3, <2>1
  <2>3. \A m \in {n} : \A e \in Outstanding : ~(e.acct = a /\ e.nonce = m)
    BY <1>2, <2>1
  <2> QED
    BY <1>4, <2>1, <2>2, <2>3, FlowGrant
<1>7. ASSUME NEW n \in Nonces, PinSend(a, n) \/ PinDeparted(a, n) PROVE FlowBook!BookNext
  <2>1. PICK r : NewClaim(a, {n}, r) /\ r # None /\ Replaceable(a, n)
    BY <1>1, <1>7, LedgerAssumption DEF PinSend, PinDeparted, Leavers, LedgerTypeOK
  <2>2. {n} \in SUBSET Nonces
    OBVIOUS
  <2> QED
    BY <1>4, <2>1, <2>2, FlowGrant
<1> QED
  BY <1>5, <1>6, <1>7 DEF OpenSend

\* A leg that leaves was in hand, is out, and is not over.
LEMMA LeaveIsLeave ==
    ASSUME FreshIds, Exclusive, Books', NEW p \in Pollers, Leave(p)
    PROVE  FlowBook!BookNext
<1>1. /\ Driven /\ FlowTyped /\ Books /\ Recorded /\ Opening /\ Answers
  BY DEF Exclusive, Restarted, Recorded, Driven, FlowBooks, Books
<1> DEFINE t == poll[p].ticket
           seen == Sight(poll[p].job, Leg(p))
           e == Handed(seen.claim, seen.acct, seen.nonce, seen.replaces)
<1>2. Sends(p) /\ poll[p].pc \in LegPcs /\ poll[p].pc = "leave"
  BY DEF Leave, At, Sends, SendPcs, LegPcs
<1>3. /\ t \in tickets /\ t.id = poll[p].id /\ t.id \in DOMAIN jobs
      /\ SameSend(poll[p].job, jobs[t.id]) /\ jobs[t.id].left = jobs[t.id].nonces \ poll[p].todo
      /\ jobs[t.id] \in Job
  BY <1>1, <1>2, OwnerIs DEF Drives
<1>4. Leg(p) \in jobs[t.id].nonces /\ Leg(p) \notin jobs[t.id].left /\ Leg(p) \in Nonces
  BY <1>1, <1>2, <1>3, LedgerLegIs DEF Job
<1>5. /\ seen.claim = jobs[t.id].claim /\ seen.acct = jobs[t.id].acct
      /\ seen.nonce = Leg(p) /\ seen.replaces = jobs[t.id].replaces
  BY <1>3 DEF Sight, SameSend
<1>6. LeavingLeg(t, Leg(p), seen)
  BY <1>1, LeaveIs
<1>7. e.claim = jobs[t.id].claim /\ e.nonce = Leg(p)
  BY <1>5 DEF Handed
<1> HIDE DEF t, seen
<1>8. /\ lastClaim' = lastClaim /\ e \in InHand(jobs, claims)
      /\ InHand(jobs', claims') = InHand(jobs, claims) \ {e}
      /\ Gone(wire') = Gone(wire) \cup {e}
  BY <1>1, <1>3, <1>4, <1>5, <1>6, LeavingTakes
<1> HIDE DEF e
<1>9. rows' = rows /\ past' = past
  BY DEF Leave, diskAndWorld
<1>10. ~Over(rows, e) /\ ~Over(past, e)
  <2>1. ASSUME NEW r \in rows, ~Unsettled(r), r.claim = e.claim, r.nonce = e.nonce PROVE FALSE
    <3>1. r.status # "unknown"
      BY <2>1 DEF Unsettled
    <3> QED
      BY <1>1, <1>3, <1>4, <1>7, <2>1, <3>1 DEF Answers
  <2> QED
    BY <1>1, <2>1 DEF Over, Opening
<1>11. Outstanding' = Outstanding \cup {e}
  BY <1>8, <1>9, <1>10 DEF Outstanding
<1>12. OverNow' = OverNow
  BY <1>9, <1>10, <1>11 DEF OverNow
<1>13. FlowBook!Leave(e)
  BY <1>8, <1>11, <1>12 DEF FlowBook!Leave
<1> QED
  BY <1>8, <1>13 DEF FlowBook!BookNext

\* Nothing else puts anything out, and only a sweep finds something over.
LEMMA QuietOut ==
    ASSUME Exclusive, Next, ~Crash, UNCHANGED wire
    PROVE  /\ Outstanding' = Outstanding
           /\ \/ OverNow' = OverNow
              \/ /\ UNCHANGED ledgerVars
                 /\ OverNow' = OverNow \cup (OverNow' \ OverNow)
                 /\ OverNow' \ OverNow \in SUBSET Outstanding
<1>1. FlowTyped /\ past' = past
  BY WorldSteps DEF Exclusive, Restarted, Recorded, Driven, FlowBooks
<1>2. Outstanding' = Outstanding
  BY <1>1 DEF Outstanding
<1>3. \A e : Over(rows, e) => Over(rows', e)
  BY OverStays DEF Over
<1>4. OverNow \subseteq OverNow' /\ OverNow' \subseteq Outstanding'
  BY <1>2, <1>3 DEF OverNow
<1>5. CASE \E r \in rows : Sweep(r)
  BY <1>2, <1>4, <1>5 DEF Sweep
<1>6. CASE ~\E r \in rows : Sweep(r)
  <2>1. \A x \in rows' : ~Unsettled(x) => x \in rows
    BY <1>1, <1>6, RowFrom
  <2>2. \A e : Over(rows', e) => Over(rows, e)
    BY <2>1 DEF Over
  <2>3. OverNow' = OverNow
    BY <1>2, <1>3, <2>2 DEF OverNow
  <2> QED
    BY <1>2, <2>3
<1> QED
  BY <1>5, <1>6

\* A crash gives back what was in hand, and what was over is forgotten.
LEMMA CrashRestarts ==
    ASSUME Exclusive, Crash
    PROVE  FlowBook!BookNext
<1>1. /\ past \subseteq rows /\ \A r \in past : ~Unsettled(r)
  BY DEF Exclusive, Restarted, Opening
<1>2. /\ past' = {r \in rows : ~Unsettled(r)} /\ rows' = rows
      /\ wire' = wire /\ lastClaim' = lastClaim
  BY DEF Crash
<1>3. \A e : Over(past', e) <=> Over(rows, e)
  BY <1>2 DEF Over
<1>4. \A e : Over(past, e) => Over(rows, e)
  BY <1>1 DEF Over
<1>5. Outstanding' = Outstanding \ OverNow
  BY <1>2, <1>3, <1>4 DEF Outstanding, OverNow
<1>6. OverNow' = {}
  BY <1>2, <1>3 DEF Outstanding, OverNow
<1>7. InHand(jobs', claims') = {}
  <2>1. \A e : e \notin InHand(jobs', claims')
    BY InHandIs DEF Crash
  <2> QED
    BY <2>1
<1>8. FlowBook!Restart
  BY <1>2, <1>5, <1>6, <1>7 DEF FlowBook!Restart
<1> QED
  BY <1>8 DEF FlowBook!BookNext

LEMMA FlowOfBook ==
    ASSUME FreshIds, Exclusive, [Next]_vars
    PROVE  [FlowBook!BookNext]_FlowBook!bookVars
<1>1. /\ Driven /\ FlowTyped /\ FlowBooks /\ Books /\ LedgerTypeOK
  BY DEF Exclusive, Restarted, Recorded, Driven, FlowBooks, Books
<1>2. Books'
  BY <1>1, FlowBooksStep DEF FlowBooks
<1>3. CASE UNCHANGED vars
  BY <1>3 DEF vars, ledgerVars, flowVars, FlowBook!bookVars, Outstanding, OverNow, Over, Unsettled
<1>4. CASE Crash
  BY <1>4, CrashRestarts
<1>5. CASE \E a \in Accounts : OpenSend(a)
  BY <1>5, SendIsGrant
<1>6. ASSUME NEW p \in Pollers, Leave(p) PROVE FlowBook!BookNext
  BY <1>2, <1>6, LeaveIsLeave
<1>7. CASE Next /\ ~Crash /\ UNCHANGED <<lastClaim, wire>>
  <2>1. [Step]_ledgerVars
    BY <1>1, <1>7, NextOfLedger
  <2>2. InHand(jobs', claims') \subseteq InHand(jobs, claims)
    BY <1>1, <1>7, <2>1, QuietLetGo DEF ledgerVars
  <2> DEFINE S == InHand(jobs, claims) \ InHand(jobs', claims')
             O == OverNow' \ OverNow
  <2>3. /\ S \in SUBSET InHand(jobs, claims)
        /\ InHand(jobs, claims)' = InHand(jobs, claims) \ S
    BY <2>2
  <2>4. /\ Outstanding' = Outstanding
        /\ \/ OverNow' = OverNow
           \/ UNCHANGED ledgerVars /\ OverNow' = OverNow \cup O /\ O \in SUBSET Outstanding
    BY <1>7, QuietOut
  <2> HIDE DEF S, O
  <2>5. CASE OverNow' = OverNow
    <3>1. FlowBook!GiveBack(S)
      BY <1>7, <2>3, <2>4, <2>5 DEF FlowBook!GiveBack
    <3> QED
      BY <2>3, <3>1 DEF FlowBook!BookNext
  <2>6. CASE UNCHANGED ledgerVars /\ OverNow' = OverNow \cup O /\ O \in SUBSET Outstanding
    <3>1. InHand(jobs, claims)' = InHand(jobs, claims)
      BY <2>6 DEF ledgerVars
    <3>2. FlowBook!Finish(O)
      BY <1>7, <2>4, <2>6, <3>1 DEF FlowBook!Finish
    <3> QED
      BY <2>6, <3>2 DEF FlowBook!BookNext
  <2> QED
    BY <2>4, <2>5, <2>6
<1> QED
  BY <1>1, <1>3, <1>4, <1>5, <1>6, <1>7, NumbersFrom

\* The numbers stay one book though the process that kept it dies: what a crash
\* forgets is given back, and what left before it, unless it was over by then, is
\* never handed out undeclared: for every node's answers and every pin.
THEOREM NumbersAreABookForAll ==
    ASSUME FreshIds, ~ReadFaults PROVE Spec => KeepsNonceBook
<1>1. Init => FlowBook!BookInit
  <2> SUFFICES ASSUME Init PROVE FlowBook!BookInit
    OBVIOUS
  <2>1. \A e : e \notin InHand(jobs, claims) /\ e \notin Gone(wire)
    BY InHandIs, GoneIs DEF Init, LedgerInit
  <2>2. InHand(jobs, claims) = {} /\ Outstanding = {} /\ OverNow = {}
    BY <2>1 DEF Outstanding, OverNow
  <2> QED
    BY <2>2 DEF Init, LedgerInit, FlowBook!BookInit
<1>2. Exclusive /\ [Next]_vars => [FlowBook!BookNext]_FlowBook!bookVars
  BY FlowOfBook
<1> QED
  BY <1>1, <1>2, ExclusiveAlways, PTL DEF Spec, KeepsNonceBook, FlowBook!BookSpec
=============================================================================
