----------------------------- MODULE SweepProofs -----------------------------
(* Machine-checked facts about Sweep, for any rows, sweeps, refreshes and   *)
(* bounds: what a row tells of its receipt, what is announced and what is   *)
(* over, whatever the nodes answer; and what settles for good, where the    *)
(* reads of one chain are answered by nodes that are not behind one another *)
(* (MaxLag = 0).                                                            *)
EXTENDS Sweep, FiniteSetTheorems, TLAPS

Jobs == Sweepers \cup Refreshers
Answer == {Null, NoAnswer} \cup {ReceiptIf[r] : r \in Rows}
Statuses == {"none", "unknown", "pending", "confirmed", "failed", "replaced"}
Figures == {NoFigures} \cup {Absorbed(ReceiptIf[r], ValueOf[r]) : r \in Rows}
Row == [status : Statuses, born : Nat, polled : Int, by : Rows \cup {NoWinner}, figures : Figures]
Sweeping == [pc : {"first", "collect", "row", "apply", "moved", "again"}, at : Nat, todo : SUBSET Rows,
             got : Answer, won : SUBSET Rows, open : SUBSET Chains, erred : SUBSET Chains,
             seen : [Chains -> Int]]
Refreshing == [pc : {"fetch", "store"}, todo : SUBSET Rows, got : Answer]

\* The row's number is taken, and what the node has of the row itself.
Spent(ch, r) == NonceOf[r] < Len(ch[ChainOf[r]])
Got(ch, r) == IF Spent(ch, r) /\ ch[ChainOf[r]][NonceOf[r] + 1].tx = r THEN ReceiptIf[r] ELSE Null

\* No node is behind.
Abreast == MaxLag = 0

\* What the file says of a mined row is what the chain did to it; of a replaced
\* one, if no node was behind when it was asked.
RowOK(d, ch, r) ==
    /\ d \in Row
    /\ d.status \in {"confirmed", "failed"} =>
          /\ Got(ch, r) # Null /\ d.status = Classify(ReceiptIf[r])
          /\ d.figures = Absorbed(ReceiptIf[r], ValueOf[r])
    /\ Abreast =>
          /\ d.status = "replaced" => Spent(ch, r) /\ Got(ch, r) = Null
          /\ d.by # NoWinner =>
                d.status = "replaced" /\ SameNumber(r, d.by) /\ Got(ch, d.by) # Null

DiskOK(d, ch) == DOMAIN d = Rows /\ \A r \in Rows : RowOK(d[r], ch, r)

\* A receipt in hand is the row's own.
Holds(ch, receipt, r) ==
    receipt \in {Null, NoAnswer} \/ (Got(ch, r) # Null /\ receipt = ReceiptIf[r])

Listed(d, T) == \A r \in T : d[r].status # "none"
Won(ch, T) == \A w \in T : Got(ch, w) # Null

\* A sweep knows no more of a chain than it has mined, and no node being behind, a
\* receipt missing for a number it knows to be spent says another transaction took it.
SweepJob(j, d, ch) ==
    /\ j \in Sweeping
    /\ Listed(d, j.todo) /\ Won(ch, j.won)
    /\ \A c \in Chains : j.seen[c] <= Len(ch[c])
    /\ j.pc = "apply" =>
          /\ j.todo # {} /\ Holds(ch, j.got, Newest(j.todo))
          /\ Abreast /\ j.got = Null
                /\ j.seen[ChainOf[Newest(j.todo)]] > NonceOf[Newest(j.todo)]
                => Got(ch, Newest(j.todo)) = Null

RefreshJob(j, d, ch) ==
    /\ j \in Refreshing
    /\ Listed(d, j.todo) /\ j.todo # {}
    /\ j.pc = "store" => j.got # NoAnswer /\ Holds(ch, j.got, Newest(j.todo))

JobOK(j, d, ch) == j = Idle \/ SweepJob(j, d, ch) \/ RefreshJob(j, d, ch)

SettleInv ==
    /\ now \in Nat
    /\ chain \in [Chains -> Seq(Mined)]
    /\ DiskOK(disk, chain)
    /\ told \in [Rows -> Nat]
    /\ DOMAIN job = Jobs
    /\ \A p \in Jobs : JobOK(job[p], disk, chain)

\* An edit that keeps the file true, tells what it moved and, no node being
\* behind, takes nothing back.
SoundEdit ==
    /\ DiskOK(disk', chain)
    /\ told' \in [Rows -> Nat]
    /\ \A r \in Rows :
          /\ disk[r].status # "none" => disk'[r].status # "none"
          /\ Abreast => (disk[r].status \in Settled => disk'[r].status = disk[r].status)
          /\ told'[r] = told[r] + (IF Recorded(r) /\ disk'[r].status # disk[r].status THEN 1 ELSE 0)

-----------------------------------------------------------------------------
(* Rows and chains                                                         *)

\* Of any rows, one is the newest.
LEMMA NewestIs ==
    ASSUME NEW S \in SUBSET Rows, S # {}
    PROVE  Newest(S) \in S
<1> DEFINE From(n) == {m \in Rows : n <= m}
           above == {From(n) : n \in S}
           less == StrictSubsetOrdering(Rows)
<1>1. IsFiniteSet(Rows) /\ Rows \subseteq Nat
  BY SweepAssumption
<1>2. above \subseteq FiniteSubsetsOf(Rows) /\ above # {}
  <2>1. FiniteSubsetsOf(Rows) = SUBSET Rows
    BY <1>1, FS_FiniteSubsetsOfFinite
  <2>2. above \subseteq SUBSET Rows
    OBVIOUS
  <2>3. above # {}
    OBVIOUS
  <2> QED BY <2>1, <2>2, <2>3
<1>3. PICK A \in above : \A B \in above : ~(<<B, A>> \in less)
  <2> HIDE DEF above
  <2> QED BY <1>1, <1>2, WFMin, FS_StrictSubsetOrderingWellFounded
<1>4. PICK n \in S : A = From(n)
  OBVIOUS
<1>5. ASSUME NEW m \in S PROVE m <= n
  <2> SUFFICES ASSUME ~(m <= n) PROVE FALSE
    OBVIOUS
  <2>1. m \in Nat /\ n \in Nat
    BY <1>1
  <2>2. n \in From(n) /\ n \notin From(m) /\ From(m) \subseteq From(n)
    <3>1. n \in From(n)
      BY <2>1
    <3>2. n \notin From(m)
      BY <2>1
    <3>3. ASSUME NEW k \in From(m) PROVE k \in From(n)
      <4>1. k \in Nat /\ m <= k
        BY <1>1
      <4> QED BY <2>1, <4>1
    <3> QED BY <3>1, <3>2, <3>3
  <2>3. <<From(m), A>> \in less
    BY <1>4, <2>2 DEF StrictSubsetOrdering
  <2> QED BY <1>3, <2>3
<1> QED
  BY <1>5 DEF Newest

LEMMA ReceiptsAre ==
    ASSUME NEW r \in Rows
    PROVE  /\ ReceiptIf[r] # Null /\ ReceiptIf[r] # NoAnswer /\ Null # NoAnswer
           /\ Classify(Null) = "pending"
           /\ Classify(ReceiptIf[r]) \in {"confirmed", "failed"}
<1>1. ReceiptIf[r].status \in {"0x0", "0x1"} /\ Null.status = "absent" /\ NoAnswer.status = "error"
  BY SweepAssumption DEF Null, NoAnswer
<1> QED
  BY <1>1 DEF Classify

\* How much of a chain a node has: no more than there is, and all if it is not behind.
LEMMA CountIs ==
    ASSUME chain \in [Chains -> Seq(Mined)], NEW c \in Chains, NEW lag \in Lags
    PROVE  /\ Len(chain[c]) \in Nat /\ Count(c, lag) \in Nat /\ Count(c, lag) <= Len(chain[c])
           /\ Abreast => Count(c, lag) = Len(chain[c])
<1>1. Len(chain[c]) \in Nat
  OBVIOUS
<1>2. lag \in Nat /\ (Abreast => lag = 0)
  BY SweepAssumption DEF Lags, Abreast
<1> QED
  BY <1>1, <1>2 DEF Count

LEMMA RowsAre ==
    ASSUME NEW r \in Rows
    PROVE  ChainOf[r] \in Chains /\ NonceOf[r] \in Nat
BY SweepAssumption DEF Chains

\* What is mined at a row's number, if it is the row, comes with the row's receipt.
LEMMA MinedIs ==
    ASSUME chain \in [Chains -> Seq(Mined)], NEW r \in Rows, Got(chain, r) # Null
    PROVE  chain[ChainOf[r]][NonceOf[r] + 1].receipt = ReceiptIf[r]
<1>1. Spent(chain, r) /\ chain[ChainOf[r]][NonceOf[r] + 1].tx = r
  BY DEF Got
<1>2. chain[ChainOf[r]] \in Seq(Mined) /\ NonceOf[r] \in Nat
  BY RowsAre
<1>3. NonceOf[r] + 1 \in 1..Len(chain[ChainOf[r]])
  BY <1>1, <1>2 DEF Spent
<1>4. chain[ChainOf[r]][NonceOf[r] + 1] \in Mined
  BY <1>2, <1>3
<1>5. \A m \in Mined : m.tx = r => m.receipt = ReceiptIf[r]
  BY SweepAssumption DEF Mined
<1> QED
  BY <1>1, <1>4, <1>5

\* A node has the row's own receipt or none, and none for a row that is mined only
\* if it is behind.
LEMMA ReceiptIs ==
    ASSUME chain \in [Chains -> Seq(Mined)], NEW r \in Rows, NEW lag \in Lags
    PROVE  /\ ReceiptOf(r, lag) = Null \/ (Got(chain, r) # Null /\ ReceiptOf(r, lag) = ReceiptIf[r])
           /\ Abreast => ReceiptOf(r, lag) = Got(chain, r)
<1>1. ChainOf[r] \in Chains /\ NonceOf[r] \in Nat
  BY RowsAre
<1> DEFINE n == Count(ChainOf[r], lag)
           mined == chain[ChainOf[r]][NonceOf[r] + 1]
<1>2. /\ n \in Nat /\ Len(chain[ChainOf[r]]) \in Nat /\ n <= Len(chain[ChainOf[r]])
      /\ Abreast => n = Len(chain[ChainOf[r]])
  BY <1>1, CountIs
<1>3. ReceiptOf(r, lag) = IF NonceOf[r] < n /\ mined.tx = r THEN mined.receipt ELSE Null
  BY DEF ReceiptOf
<1>4. Got(chain, r) = IF Spent(chain, r) /\ mined.tx = r THEN ReceiptIf[r] ELSE Null
  BY DEF Got
<1>5. Spent(chain, r) <=> NonceOf[r] < Len(chain[ChainOf[r]])
  BY DEF Spent
<1>6. Got(chain, r) # Null => mined.receipt = ReceiptIf[r]
  BY MinedIs
<1>7. ReceiptIf[r] # Null
  BY ReceiptsAre
<1> HIDE DEF n, mined
<1> QED
  BY <1>1, <1>2, <1>3, <1>4, <1>5, <1>6, <1>7

\* Two rows at one number are not both mined.
LEMMA OneIsMined ==
    ASSUME NEW ch, NEW r \in Rows, NEW w \in Rows, r # w, SameNumber(r, w), Got(ch, w) # Null
    PROVE  Spent(ch, r) /\ Got(ch, r) = Null
BY DEF Got, Spent, SameNumber

\* What a chain mined, it keeps.
LEMMA ChainsGrow ==
    ASSUME chain \in [Chains -> Seq(Mined)], NEW c \in Chains, Mine(c)
    PROVE  /\ chain' \in [Chains -> Seq(Mined)]
           /\ \A b \in Chains : Len(chain[b]) \in Nat /\ Len(chain[b]) <= Len(chain'[b])
           /\ \A r \in Rows : Spent(chain, r) => Spent(chain', r) /\ Got(chain', r) = Got(chain, r)
<1>1. PICK m \in Mined : chain' = [chain EXCEPT ![c] = Append(@, m)]
  BY DEF Mine
<1>2. chain[c] \in Seq(Mined)
  OBVIOUS
<1>3. chain' \in [Chains -> Seq(Mined)]
  BY <1>1, <1>2
<1>4. ASSUME NEW b \in Chains
      PROVE  /\ Len(chain[b]) \in Nat /\ Len(chain[b]) <= Len(chain'[b])
             /\ \A i \in 1..Len(chain[b]) : chain'[b][i] = chain[b][i]
  <2>1. CASE b = c
    <3>1. chain'[b] = Append(chain[b], m)
      BY <1>1, <2>1
    <3> QED BY <1>2, <2>1, <3>1
  <2>2. CASE b # c
    <3>1. chain'[b] = chain[b] /\ chain[b] \in Seq(Mined)
      BY <1>1, <2>2
    <3> QED BY <3>1
  <2> QED BY <2>1, <2>2
<1>5. ASSUME NEW r \in Rows, Spent(chain, r)
      PROVE  Spent(chain', r) /\ Got(chain', r) = Got(chain, r)
  <2>1. ChainOf[r] \in Chains /\ NonceOf[r] \in Nat
    BY RowsAre
  <2>2. NonceOf[r] + 1 \in 1..Len(chain[ChainOf[r]])
    BY <1>4, <1>5, <2>1 DEF Spent
  <2>3. chain'[ChainOf[r]][NonceOf[r] + 1] = chain[ChainOf[r]][NonceOf[r] + 1]
    BY <1>4, <2>1, <2>2
  <2>4. Spent(chain', r)
    BY <1>3, <1>4, <1>5, <2>1 DEF Spent
  <2> QED BY <1>5, <2>3, <2>4 DEF Got
<1> QED BY <1>3, <1>4, <1>5

-----------------------------------------------------------------------------
(* The edits of the file                                                   *)

\* One row of a file written anew, its winner left as it was.
LEMMA RowWritten ==
    ASSUME NEW F, NEW R, NEW S, NEW N, NEW P, NEW B, NEW D, DOMAIN D = R, NEW r \in R,
           D[r] \in [status : S, born : N, polled : P, by : B, figures : F],
           NEW at \in P, NEW st \in S, NEW f \in F, NEW E,
           \/ E = [D EXCEPT ![r].polled = at, ![r].status = st]
           \/ E = [D EXCEPT ![r].polled = at, ![r].status = st, ![r].figures = f]
    PROVE  /\ DOMAIN E = R /\ \A q \in R \ {r} : E[q] = D[q]
           /\ E[r] \in [status : S, born : N, polled : P, by : B, figures : F]
           /\ E[r].status = st /\ E[r].by = D[r].by
           /\ E = [D EXCEPT ![r].polled = at, ![r].status = st, ![r].figures = f]
                => E[r].figures = f
OBVIOUS

LEMMA RefuseIsSound ==
    ASSUME DiskOK(disk, chain), told \in [Rows -> Nat], UNCHANGED <<disk, told>>
    PROVE  SoundEdit
<1>1. disk' = disk /\ told' = told /\ \A r \in Rows : told[r] \in Nat
  OBVIOUS
<1> QED BY <1>1 DEF SoundEdit

LEMMA ApplyIsSound ==
    ASSUME DiskOK(disk, chain), told \in [Rows -> Nat], NEW r \in Rows, Recorded(r),
           NEW receipt, receipt = Null \/ (Got(chain, r) # Null /\ receipt = ReceiptIf[r]),
           NEW at \in Nat, ApplyReceipt(r, receipt, at)
    PROVE  SoundEdit
<1>1. DOMAIN disk = Rows /\ (\A s \in Rows : RowOK(disk[s], chain, s)) /\ disk[r] \in Row
  BY DEF DiskOK, RowOK
<1>2. CASE receipt = Null
  <2>1. disk' = [disk EXCEPT ![r].polled = at] /\ told' = told
    BY <1>2, ReceiptsAre DEF ApplyReceipt, Quiet
  <2>2. /\ DOMAIN disk' = Rows /\ \A s \in Rows \ {r} : disk'[s] = disk[s]
        /\ disk'[r] \in Row /\ disk'[r].status = disk[r].status /\ disk'[r].by = disk[r].by
        /\ disk'[r].figures = disk[r].figures
    BY <1>1, <2>1 DEF Row
  <2>3. RowOK(disk'[r], chain, r)
    BY <1>1, <2>2 DEF RowOK
  <2>4. DiskOK(disk', chain)
    BY <1>1, <2>2, <2>3 DEF DiskOK
  <2> QED BY <1>1, <2>1, <2>2, <2>4 DEF SoundEdit
<1>3. CASE receipt # Null
  <2> DEFINE st == Classify(receipt)
             figures == Absorbed(receipt, ValueOf[r])
  <2>1. st \in {"confirmed", "failed"} /\ receipt = ReceiptIf[r] /\ Got(chain, r) # Null
    BY <1>3, ReceiptsAre
  <2>2. /\ disk' = [disk EXCEPT ![r].polled = at, ![r].status = st, ![r].figures = figures]
        /\ told' = [s \in Rows |-> IF s \in (IF st # disk[r].status THEN {r} ELSE {})
                                   THEN told[s] + 1 ELSE told[s]]
    BY <2>1 DEF ApplyReceipt, Announce
  <2>3. figures \in {Absorbed(ReceiptIf[s], ValueOf[s]) : s \in Rows}
    BY <2>1
  <2> HIDE DEF st, figures
  <2>4. /\ DOMAIN disk' = Rows /\ \A s \in Rows \ {r} : disk'[s] = disk[s]
        /\ disk'[r] \in Row /\ disk'[r].status = st /\ disk'[r].by = disk[r].by
        /\ disk'[r].figures = figures
    <3>1. st \in Statuses /\ figures \in Figures /\ at \in Int
      BY <2>1, <2>3 DEF Statuses, Figures
    <3> QED BY <1>1, <2>2, <3>1, RowWritten DEF Row
  <2>5. Abreast => (disk[r].status \in Settled => disk[r].status = st)
    BY <1>1, <2>1 DEF RowOK, Settled, st
  <2>6. RowOK(disk'[r], chain, r)
    BY <1>1, <2>1, <2>4 DEF RowOK, st, figures
  <2>7. DiskOK(disk', chain)
    BY <1>1, <2>4, <2>6 DEF DiskOK
  <2>8. told' \in [Rows -> Nat]
    BY <2>2
  <2>9. \A s \in Rows : told'[s] = told[s] + (IF Recorded(s) /\ disk'[s].status # disk[s].status
                                              THEN 1 ELSE 0)
    BY <2>2, <2>4, <2>1 DEF Recorded
  <2> QED BY <2>1, <2>4, <2>5, <2>7, <2>8, <2>9 DEF SoundEdit
<1> QED BY <1>2, <1>3

LEMMA ReplacedIsSound ==
    ASSUME DiskOK(disk, chain), told \in [Rows -> Nat], NEW r \in Rows,
           Abreast => Spent(chain, r) /\ Got(chain, r) = Null, NEW at \in Nat,
           SettleReplaced(r, at)
    PROVE  SoundEdit
<1>1. DOMAIN disk = Rows /\ (\A s \in Rows : RowOK(disk[s], chain, s)) /\ disk[r] \in Row
  BY DEF DiskOK, RowOK
<1>2. CASE disk[r].status # "pending"
  BY <1>2, RefuseIsSound DEF SettleReplaced, Refuse, Quiet
<1>3. CASE disk[r].status = "pending"
  <2>1. /\ disk' = [disk EXCEPT ![r].polled = at, ![r].status = "replaced"]
        /\ told' = [s \in Rows |-> IF s \in {r} THEN told[s] + 1 ELSE told[s]]
    BY <1>3 DEF SettleReplaced, Announce
  <2>2. /\ DOMAIN disk' = Rows /\ \A s \in Rows \ {r} : disk'[s] = disk[s]
        /\ disk'[r] \in Row /\ disk'[r].status = "replaced" /\ disk'[r].by = disk[r].by
    <3>1. "replaced" \in Statuses /\ NoFigures \in Figures /\ at \in Int
      BY DEF Statuses, Figures
    <3> QED BY <1>1, <2>1, <3>1, RowWritten DEF Row
  <2>3. Abreast => disk[r].by = NoWinner
    BY <1>1, <1>3 DEF RowOK
  <2>4. RowOK(disk'[r], chain, r)
    BY <2>2, <2>3 DEF RowOK
  <2>5. DiskOK(disk', chain)
    BY <1>1, <2>2, <2>4 DEF DiskOK
  <2>6. told' \in [Rows -> Nat]
    BY <2>1
  <2> QED BY <1>3, <2>1, <2>2, <2>5, <2>6 DEF SoundEdit, Recorded, Settled
<1> QED BY <1>2, <1>3

LEMMA SupersedeIsSound ==
    ASSUME DiskOK(disk, chain), told \in [Rows -> Nat], NEW won \in SUBSET Rows, Won(chain, won),
           SettleSuperseded(won)
    PROVE  SoundEdit
<1> DEFINE over(r) == {w \in won : SameNumber(r, w)}
           moved == {r \in Rows : disk[r].status = "pending" /\ over(r) # {} /\ Newest(over(r)) # r}
           named == {r \in Rows : disk[r].status = "replaced" /\ disk[r].by = NoWinner
                                  /\ over(r) # {}}
<1>1. DOMAIN disk = Rows /\ \A s \in Rows : RowOK(disk[s], chain, s) /\ disk[s] \in Row
  BY DEF DiskOK, RowOK
<1>2. disk' = [r \in Rows |->
                 IF r \in moved \cup named
                 THEN [disk[r] EXCEPT !.status = "replaced", !.by = Newest(over(r))]
                 ELSE disk[r]]
  BY DEF SettleSuperseded
<1>3. told' = [r \in Rows |-> IF r \in moved THEN told[r] + 1 ELSE told[r]]
  BY DEF SettleSuperseded, Announce
<1>4. \A r \in moved \cup named : r \in Rows /\ over(r) # {}
          /\ disk[r].status \in {"pending", "replaced"}
  OBVIOUS
<1>5. ASSUME NEW r \in Rows
      PROVE  IF r \in moved \cup named
             THEN /\ disk'[r] \in Row /\ disk'[r].status = "replaced"
                  /\ disk'[r].by = Newest(over(r))
                  /\ Newest(over(r)) \in over(r)
             ELSE disk'[r] = disk[r]
  <2>1. CASE r \in moved \cup named
    <3>1. Newest(over(r)) \in over(r) /\ over(r) \subseteq Rows
      BY <1>4, <2>1, NewestIs
    <3> HIDE DEF moved, named, over
    <3>2. disk'[r] = [disk[r] EXCEPT !.status = "replaced", !.by = Newest(over(r))]
      BY <1>2, <2>1
    <3>3. disk[r] \in Row /\ Newest(over(r)) \in Rows
      BY <1>1, <3>1
    <3>4. disk'[r] \in Row /\ disk'[r].status = "replaced" /\ disk'[r].by = Newest(over(r))
      BY <3>2, <3>3 DEF Row, Statuses
    <3> QED BY <2>1, <3>1, <3>4
  <2>2. CASE r \notin moved \cup named
    <3> HIDE DEF moved, named
    <3> QED BY <1>2, <2>2
  <2> QED BY <2>1, <2>2
<1>6. ASSUME NEW r \in moved \cup named PROVE RowOK(disk'[r], chain, r)
  <2>1. PICK w \in over(r) : disk'[r].by = w /\ w = Newest(over(r))
    BY <1>4, <1>5
  <2>2. w \in Rows /\ SameNumber(r, w) /\ Got(chain, w) # Null
    BY DEF Won
  <2>3. Abreast => Spent(chain, r) /\ Got(chain, r) = Null
    <3>1. CASE r \in moved
      BY <2>1, <2>2, <3>1, OneIsMined
    <3>2. CASE r \in named
      BY <1>1, <3>2 DEF RowOK
    <3> QED BY <3>1, <3>2
  <2>4. r \in Rows /\ disk'[r] \in Row /\ disk'[r].status = "replaced"
    BY <1>4, <1>5
  <2> QED BY <2>1, <2>2, <2>3, <2>4 DEF RowOK
<1>7. DiskOK(disk', chain)
  <2>1. DOMAIN disk' = Rows
    BY <1>2
  <2> HIDE DEF moved, named
  <2> QED BY <1>1, <1>5, <1>6, <2>1 DEF DiskOK
<1>8. told' \in [Rows -> Nat]
  <2> HIDE DEF moved
  <2> QED BY <1>3
<1>9. ASSUME NEW r \in Rows
      PROVE  /\ disk[r].status # "none" => disk'[r].status # "none"
             /\ Abreast => (disk[r].status \in Settled => disk'[r].status = disk[r].status)
             /\ told'[r] = told[r] + (IF Recorded(r) /\ disk'[r].status # disk[r].status
                                      THEN 1 ELSE 0)
  <2>1. CASE r \in moved
    <3>1. disk[r].status = "pending" /\ disk'[r].status = "replaced"
      BY <1>5, <2>1
    <3>2. told'[r] = told[r] + 1
      BY <1>3, <2>1
    <3> QED BY <3>1, <3>2 DEF Recorded, Settled
  <2>2. CASE r \notin moved
    <3>1. disk'[r].status = disk[r].status
      BY <1>5, <2>2
    <3>2. told'[r] = told[r] /\ told[r] \in Nat
      BY <1>3, <2>2
    <3> QED BY <3>1, <3>2
  <2> QED BY <2>1, <2>2
<1> QED BY <1>7, <1>8, <1>9 DEF SoundEdit

-----------------------------------------------------------------------------
(* The steps                                                               *)

\* What stands for an account's jobs before an edit stands after it.
LEMMA EditKeepsJobs ==
    ASSUME SoundEdit, NEW j, JobOK(j, disk, chain), j = Idle \/ j.todo \subseteq Rows
    PROVE  JobOK(j, disk', chain)
BY DEF SoundEdit, JobOK, SweepJob, RefreshJob, Listed

\* A step of one sweep or refresh: a sound edit of the file, and its own next state.
LEMMA JobMoves ==
    ASSUME SettleInv, SoundEdit, UNCHANGED <<now, chain>>, NEW p \in Jobs, NEW j,
           DOMAIN job' = Jobs, \A q \in Jobs \ {p} : job'[q] = job[q],
           job'[p] = j, JobOK(j, disk, chain), j = Idle \/ j.todo \subseteq Rows
    PROVE  SettleInv'
<1>1. ASSUME NEW q \in Jobs PROVE JobOK(job'[q], disk', chain)
  <2>1. CASE q = p
    BY <2>1, EditKeepsJobs
  <2>2. CASE q # p
    <3>1. job'[q] = job[q] /\ JobOK(job[q], disk, chain)
      BY <2>2 DEF SettleInv
    <3>2. job[q] = Idle \/ job[q].todo \subseteq Rows
      BY <3>1 DEF JobOK, SweepJob, RefreshJob, Sweeping, Refreshing
    <3> QED BY <3>1, <3>2, EditKeepsJobs
  <2> QED BY <2>1, <2>2
<1> QED BY <1>1 DEF SettleInv, SoundEdit

LEMMA HandIs ==
    ASSUME SettleInv, NEW p \in Jobs, job[p] # Idle, job[p].todo # {}
    PROVE  /\ InHand(p) \in job[p].todo /\ InHand(p) \in Rows /\ Recorded(InHand(p))
           /\ ChainInHand(p) \in Chains
<1>1. job[p].todo \subseteq Rows /\ Listed(disk, job[p].todo)
  BY DEF SettleInv, JobOK, SweepJob, RefreshJob, Sweeping, Refreshing
<1>2. InHand(p) \in job[p].todo
  BY <1>1, NewestIs DEF InHand
<1> QED
  BY <1>1, <1>2 DEF Listed, Recorded, ChainInHand, Chains

\* Nothing but a poll moves in the file.
LEMMA FileStays ==
    ASSUME SettleInv, UNCHANGED <<disk, told>>
    PROVE  SoundEdit
BY RefuseIsSound DEF Refuse, SettleInv

\* The pc says which kind of job it is.
LEMMA SweepOf ==
    ASSUME SettleInv, NEW p \in Jobs, job[p].pc \in {"first", "collect", "row", "apply", "moved", "again"}
    PROVE  job[p] # Idle /\ job[p] \in Sweeping /\ SweepJob(job[p], disk, chain)
BY DEF SettleInv, JobOK, RefreshJob, Refreshing, Idle, SweepJob

LEMMA RefreshOf ==
    ASSUME SettleInv, NEW p \in Jobs, job[p].pc \in {"fetch", "store"}
    PROVE  job[p] # Idle /\ job[p] \in Refreshing /\ RefreshJob(job[p], disk, chain)
<1>1. job[p] # Idle
  BY DEF Idle
<1>2. ~SweepJob(job[p], disk, chain)
  BY DEF SweepJob, Sweeping
<1>3. RefreshJob(job[p], disk, chain)
  BY <1>1, <1>2 DEF SettleInv, JobOK
<1> QED
  BY <1>1, <1>3 DEF RefreshJob

\* A sweep that is through with a row, or with a chain.
LEMMA DropKeeps ==
    ASSUME NEW p, job[p] \in Sweeping, NEW j \in {Drop(p), DropChain(p)}
    PROVE  /\ j \in Sweeping /\ j.pc = "row" /\ j.todo \subseteq job[p].todo
           /\ j.seen = job[p].seen /\ j.won = job[p].won
<1>1. CASE j = Drop(p)
  BY <1>1 DEF Drop, Sweeping
<1>2. CASE j = DropChain(p)
  <2> DEFINE rest == {r \in job[p].todo : ChainOf[r] # ChainInHand(p)}
  <2>1. j = [job[p] EXCEPT !.pc = "row", !.todo = rest] /\ rest \subseteq job[p].todo
    BY <1>2 DEF DropChain
  <2> HIDE DEF rest
  <2> QED BY <2>1 DEF Sweeping
<1> QED BY <1>1, <1>2

\* What a sweep reads, and how it drops rows, moves nothing in the file.
LEMMA ReadsKeep ==
    ASSUME SettleInv, NEW p \in Jobs,
           Collect(p) \/ ReadGate(p) \/ ReadMined(p) \/ Stop(p) \/ ReadReceipt(p)
    PROVE  SoundEdit /\ SettleInv'
<1>1. UNCHANGED <<disk, told, now, chain>>
  BY DEF Collect, ReadGate, ReadMined, Stop, ReadReceipt, world
<1>2. SoundEdit
  BY <1>1, FileStays
<1>3. job[p].pc \in {"collect", "row"} /\ DOMAIN job = Jobs
  BY DEF Collect, ReadGate, ReadMined, Stop, ReadReceipt, AtReceipt, AtRow, Has, SettleInv
<1>4. job[p] # Idle /\ job[p] \in Sweeping /\ SweepJob(job[p], disk, chain)
  BY <1>3, SweepOf
<1> DEFINE Done(j) ==
             /\ DOMAIN job' = Jobs /\ \A q \in Jobs \ {p} : job'[q] = job[q]
             /\ job'[p] = j /\ j \in Sweeping /\ SweepJob(j, disk, chain)
<1>5. ASSUME NEW j, Done(j) PROVE SettleInv'
  BY <1>1, <1>2, <1>5, JobMoves DEF JobOK, Sweeping
<1>6. ASSUME Collect(p) PROVE SettleInv'
  <2>1. job' = [job EXCEPT ![p].pc = "row", ![p].todo = PendingDue(job[p].at)]
    BY <1>6 DEF Collect
  <2>2. PendingDue(job[p].at) \subseteq Rows /\ Listed(disk, PendingDue(job[p].at))
    BY DEF PendingDue, Due, Listed
  <2>3. /\ DOMAIN job' = Jobs /\ \A q \in Jobs \ {p} : job'[q] = job[q]
        /\ job'[p] \in Sweeping /\ job'[p].seen = job[p].seen /\ job'[p].won = job[p].won
        /\ job'[p].pc = "row" /\ job'[p].todo = PendingDue(job[p].at)
    BY <1>3, <1>4, <2>1, <2>2 DEF Sweeping
  <2>4. SweepJob(job'[p], disk, chain)
    BY <1>4, <2>2, <2>3 DEF SweepJob
  <2> QED BY <1>5, <2>3, <2>4
<1>7. ASSUME Stop(p) PROVE SettleInv'
  <2>1. job' = [job EXCEPT ![p].todo = {}] /\ job[p].pc = "row"
    BY <1>7 DEF Stop, AtReceipt, AtRow, Has
  <2>2. /\ DOMAIN job' = Jobs /\ \A q \in Jobs \ {p} : job'[q] = job[q]
        /\ job'[p] \in Sweeping /\ job'[p].seen = job[p].seen /\ job'[p].won = job[p].won
        /\ job'[p].pc = "row" /\ job'[p].todo = {}
    BY <1>3, <1>4, <2>1 DEF Sweeping
  <2>3. SweepJob(job'[p], disk, chain)
    BY <1>4, <2>2 DEF SweepJob, Listed
  <2> QED BY <1>5, <2>2, <2>3
<1>8. ASSUME AtRow(p)
      PROVE  /\ job[p].pc = "row" /\ ChainInHand(p) \in Chains /\ InHand(p) \in job[p].todo
             /\ InHand(p) \in Rows
  BY <1>4, <1>8, HandIs DEF AtRow, Has
<1>9. ASSUME ReadGate(p) PROVE SettleInv'
  <2>1. job[p].pc = "row" /\ ChainInHand(p) \in Chains
    BY <1>8, <1>9 DEF ReadGate
  <2>2. \/ job' = [job EXCEPT ![p].open = @ \cup {ChainInHand(p)}]
        \/ job' = [job EXCEPT ![p] = DropChain(p)]
    BY <1>9 DEF ReadGate
  <2>3. /\ DOMAIN job' = Jobs /\ \A q \in Jobs \ {p} : job'[q] = job[q]
        /\ job'[p] \in Sweeping /\ job'[p].seen = job[p].seen /\ job'[p].won = job[p].won
        /\ job'[p].pc = "row" /\ job'[p].todo \subseteq job[p].todo
    <3>1. CASE job' = [job EXCEPT ![p] = DropChain(p)]
      BY <1>3, <1>4, <3>1, DropKeeps
    <3>2. CASE job' = [job EXCEPT ![p].open = @ \cup {ChainInHand(p)}]
      BY <1>3, <1>4, <2>1, <3>2 DEF Sweeping
    <3> QED BY <2>2, <3>1, <3>2
  <2>4. SweepJob(job'[p], disk, chain)
    BY <1>4, <2>3 DEF SweepJob, Listed
  <2> QED BY <1>5, <2>3, <2>4
<1>10. ASSUME ReadMined(p) PROVE SettleInv'
  <2>1. job[p].pc = "row" /\ ChainInHand(p) \in Chains
    BY <1>8, <1>10 DEF ReadMined
  <2>2. PICK n \in Latest(ChainInHand(p)) \cup {NoReading} :
            job' = [job EXCEPT ![p].seen[ChainInHand(p)] = n]
    BY <1>10 DEF ReadMined
  <2>3. chain \in [Chains -> Seq(Mined)]
    BY DEF SettleInv
  <2>4. n \in Int /\ n <= Len(chain[ChainInHand(p)])
    <3>1. Len(chain[ChainInHand(p)]) \in Nat /\ NoReading \in Int /\ NoReading < 0
      BY <2>1, <2>3 DEF NoReading
    <3>2. CASE n = NoReading
      BY <3>1, <3>2
    <3>3. ASSUME NEW lag \in Lags, n = Count(ChainInHand(p), lag)
          PROVE  n \in Int /\ n <= Len(chain[ChainInHand(p)])
      BY <2>1, <2>3, <3>3, CountIs
    <3> QED BY <2>2, <3>2, <3>3 DEF Latest
  <2>5. /\ DOMAIN job' = Jobs /\ \A q \in Jobs \ {p} : job'[q] = job[q]
        /\ job'[p] \in Sweeping /\ job'[p].pc = "row" /\ job'[p].todo = job[p].todo
        /\ job'[p].won = job[p].won
        /\ \A c \in Chains : job'[p].seen[c] = IF c = ChainInHand(p) THEN n ELSE job[p].seen[c]
    BY <1>3, <1>4, <2>1, <2>2, <2>4 DEF Sweeping
  <2>6. SweepJob(job'[p], disk, chain)
    BY <1>4, <2>4, <2>5 DEF SweepJob
  <2> QED BY <1>5, <2>5, <2>6
<1>11. ASSUME ReadReceipt(p) PROVE SettleInv'
  <2>1. job[p].pc = "row" /\ ChainInHand(p) \in Chains /\ InHand(p) \in Rows /\ job[p].todo # {}
    BY <1>8, <1>11 DEF ReadReceipt, AtReceipt, AtRow
  <2>2. PICK a \in Answers(InHand(p)) : job' = [job EXCEPT ![p].pc = "apply", ![p].got = a]
    BY <1>11 DEF ReadReceipt
  <2>3. a = NoAnswer \/ \E lag \in Lags : a = ReceiptOf(InHand(p), lag)
    BY <2>2 DEF Answers
  <2>4. /\ a \in Answer /\ Holds(chain, a, InHand(p))
        /\ Abreast /\ a = Null => Got(chain, InHand(p)) = Null
    BY <2>1, <2>3, ReceiptIs, ReceiptsAre DEF Answer, Holds, SettleInv
  <2>5. /\ DOMAIN job' = Jobs /\ \A q \in Jobs \ {p} : job'[q] = job[q]
        /\ job'[p] \in Sweeping /\ job'[p].pc = "apply" /\ job'[p].todo = job[p].todo
        /\ job'[p].seen = job[p].seen /\ job'[p].won = job[p].won /\ job'[p].got = a
    BY <1>3, <1>4, <2>2, <2>4 DEF Sweeping
  <2>6. SweepJob(job'[p], disk, chain)
    BY <1>4, <2>1, <2>4, <2>5 DEF SweepJob, InHand
  <2> QED BY <1>5, <2>5, <2>6
<1> QED
  BY <1>2, <1>6, <1>7, <1>9, <1>10, <1>11

\* An edit, and a sweep that goes on with fewer rows.
LEMMA GoesOn ==
    ASSUME SettleInv, SoundEdit, UNCHANGED <<now, chain>>, NEW p \in Jobs,
           job[p] \in Sweeping, SweepJob(job[p], disk, chain),
           NEW j \in Sweeping, job' = [job EXCEPT ![p] = j],
           j.pc \in {"row", "moved"}, j.todo \subseteq job[p].todo, j.seen = job[p].seen,
           j.won = job[p].won
    PROVE  SettleInv'
<1>1. DOMAIN job' = Jobs /\ job'[p] = j /\ \A q \in Jobs \ {p} : job'[q] = job[q]
  BY DEF SettleInv
<1>2. SweepJob(j, disk, chain) /\ j.todo \subseteq Rows
  BY DEF SweepJob, Listed, Sweeping
<1> QED BY <1>1, <1>2, JobMoves DEF JobOK

LEMMA AnsweredKeeps ==
    ASSUME NEW p, job[p] \in Sweeping,
           NEW j \in {Answered(p), [Answered(p) EXCEPT !.pc = "moved"]}
    PROVE  /\ j \in Sweeping /\ j.pc \in {"row", "moved"} /\ j.todo \subseteq job[p].todo
           /\ j.seen = job[p].seen /\ j.won = job[p].won
<1> DEFINE d == Drop(p)
<1>1. /\ d \in Sweeping /\ d.pc = "row" /\ d.todo \subseteq job[p].todo /\ d.seen = job[p].seen
      /\ d.won = job[p].won
  BY DropKeeps
<1>2. Answered(p) = [d EXCEPT !.erred = @ \ {ChainInHand(p)}, !.got = Null]
  BY DEF Answered
<1> HIDE DEF d
<1>3. /\ Answered(p) \in Sweeping /\ Answered(p).pc = "row"
      /\ Answered(p).todo = d.todo /\ Answered(p).seen = d.seen
      /\ Answered(p).won = d.won
  BY <1>1, <1>2 DEF Sweeping, Answer
<1> DEFINE e == [Answered(p) EXCEPT !.pc = "moved"]
<1>4. e \in Sweeping /\ e.pc = "moved" /\ e.todo = d.todo /\ e.seen = d.seen /\ e.won = d.won
  BY <1>3 DEF Sweeping
<1>5. j = Answered(p) \/ j = e
  OBVIOUS
<1> HIDE DEF e
<1> QED
  BY <1>1, <1>3, <1>4, <1>5

LEMMA EditsKeep ==
    ASSUME SettleInv, NEW p \in Jobs,
           \/ Begin(p) \/ ApplyError(p) \/ ApplyPassed(p) \/ Apply(p) \/ FindMined(p) \/ Reply(p)
           \/ Supersede(p, "first", "collect") \/ Supersede(p, "again", "row")
    PROVE  SoundEdit /\ SettleInv'
<1>1. UNCHANGED <<now, chain>> /\ DOMAIN job = Jobs
  BY DEF Begin, ApplyError, ApplyPassed, Apply, FindMined, Supersede, Reply, world, SettleInv
<1>2. ASSUME Refuse PROVE SoundEdit
  BY <1>2, RefuseIsSound DEF SettleInv, Refuse, Quiet
<1>10. MinedRows \subseteq Rows /\ Won(chain, MinedRows)
  BY DEF MinedRows, Won, SettleInv, DiskOK, RowOK
<1>3. ASSUME Begin(p) PROVE SoundEdit /\ SettleInv'
  <2> DEFINE j == [pc |-> "first", at |-> now, todo |-> {}, got |-> Null, won |-> MinedRows,
                   open |-> {}, erred |-> {}, seen |-> [c \in Chains |-> Unread]]
  <2>1. SoundEdit /\ job' = [job EXCEPT ![p] = j]
    BY <1>3, FileStays DEF Begin
  <2>2. \A c \in Chains : Unread <= Len(chain[c])
    BY DEF SettleInv, Unread
  <2>3. j \in Sweeping
    BY <1>10 DEF SettleInv, Sweeping, Answer, Unread
  <2>4. SweepJob(j, disk, chain) /\ j.todo = {}
    BY <1>10, <2>2, <2>3 DEF SweepJob, Listed
  <2> HIDE DEF j
  <2>5. DOMAIN job' = Jobs /\ job'[p] = j /\ \A q \in Jobs \ {p} : job'[q] = job[q]
    BY <1>1, <2>1
  <2> QED BY <1>1, <2>1, <2>4, <2>5, JobMoves DEF JobOK
<1>4. ASSUME job[p].pc = "apply"
      PROVE  /\ job[p] \in Sweeping /\ SweepJob(job[p], disk, chain)
             /\ InHand(p) \in Rows /\ Recorded(InHand(p)) /\ ChainInHand(p) \in Chains
             /\ Holds(chain, job[p].got, InHand(p)) /\ job[p].at \in Nat
  <2>1. job[p] # Idle /\ job[p] \in Sweeping /\ SweepJob(job[p], disk, chain)
    BY <1>4, SweepOf
  <2> QED BY <1>4, <2>1, HandIs DEF SweepJob, Sweeping, InHand
<1>5. ASSUME ApplyError(p) PROVE SoundEdit /\ SettleInv'
  <2>1. job[p].pc = "apply"
    BY <1>5 DEF ApplyError, Has
  <2>2. SoundEdit
    BY <1>2, <1>4, <1>5, <2>1, ApplyIsSound DEF ApplyError, SettleInv
  <2> DEFINE d == IF ChainInHand(p) \in job[p].erred THEN DropChain(p) ELSE Drop(p)
             j == [d EXCEPT !.erred = @ \cup {ChainInHand(p)}, !.got = Null]
  <2>3. job' = [job EXCEPT ![p] = j]
    BY <1>5 DEF ApplyError
  <2>4. /\ d \in Sweeping /\ d.pc = "row" /\ d.todo \subseteq job[p].todo /\ d.seen = job[p].seen
        /\ d.won = job[p].won
    BY <1>4, <2>1, DropKeeps
  <2> HIDE DEF d
  <2>5. j \in Sweeping /\ j.pc = "row" /\ j.todo = d.todo /\ j.seen = d.seen /\ j.won = d.won
    BY <1>4, <2>1, <2>4 DEF Sweeping, Answer
  <2> HIDE DEF j
  <2> QED BY <1>1, <1>4, <2>1, <2>2, <2>3, <2>4, <2>5, GoesOn
<1>6. ASSUME ApplyPassed(p) PROVE SoundEdit /\ SettleInv'
  <2>1. job[p].pc = "apply" /\ job[p].got = Null /\ job[p].seen[ChainInHand(p)] > NonceOf[InHand(p)]
    BY <1>6 DEF ApplyPassed, Has, Passed
  <2>2. Abreast => Got(chain, InHand(p)) = Null
    BY <1>4, <2>1 DEF SweepJob, ChainInHand, InHand
  <2>3. /\ job[p].seen[ChainInHand(p)] <= Len(chain[ChainInHand(p)])
        /\ job[p].seen[ChainInHand(p)] \in Int
        /\ NonceOf[InHand(p)] \in Nat /\ Len(chain[ChainInHand(p)]) \in Nat
    <3>1. ChainInHand(p) \in Chains /\ InHand(p) \in Rows
      BY <1>4, <2>1
    <3>2. job[p].seen \in [Chains -> Int] /\ \A c \in Chains : job[p].seen[c] <= Len(chain[c])
      BY <1>4, <2>1 DEF SweepJob, Sweeping
    <3>3. chain[ChainInHand(p)] \in Seq(Mined)
      BY <3>1 DEF SettleInv
    <3>4. NonceOf[InHand(p)] \in Nat
      BY <3>1, SweepAssumption
    <3>5. Len(chain[ChainInHand(p)]) \in Nat
      BY <3>3
    <3> HIDE DEF ChainInHand, InHand
    <3> QED BY <3>1, <3>2, <3>4, <3>5
  <2>4. Spent(chain, InHand(p))
    BY <2>1, <2>3 DEF Spent, ChainInHand
  <2>5. SoundEdit
    BY <1>2, <1>4, <1>6, <2>1, <2>2, <2>4, ReplacedIsSound DEF ApplyPassed, SettleInv
  <2>6. job' = [job EXCEPT ![p] = Answered(p)]
    BY <1>6 DEF ApplyPassed
  <2> QED BY <1>1, <1>4, <2>1, <2>5, <2>6, AnsweredKeeps, GoesOn
<1>7. ASSUME Apply(p) PROVE SoundEdit /\ SettleInv'
  <2>1. job[p].pc = "apply" /\ job[p].got # NoAnswer
    BY <1>7 DEF Apply, Has
  <2>2. job[p].got = Null \/ (Got(chain, InHand(p)) # Null /\ job[p].got = ReceiptIf[InHand(p)])
    BY <1>4, <2>1 DEF Holds
  <2>3. SoundEdit
    BY <1>2, <1>4, <1>7, <2>1, <2>2, ApplyIsSound DEF Apply, SettleInv
  <2>4. PICK j \in {Answered(p), [Answered(p) EXCEPT !.pc = "moved"]} :
            job' = [job EXCEPT ![p] = j]
    BY <1>7 DEF Apply
  <2> QED BY <1>1, <1>4, <2>1, <2>3, <2>4, AnsweredKeeps, GoesOn
<1>8. ASSUME NEW pc \in {"first", "again"}, NEW next \in {"collect", "row"}, Supersede(p, pc, next)
      PROVE  SoundEdit /\ SettleInv'
  <2>1. job[p].pc = pc /\ job' = [job EXCEPT ![p].pc = next, ![p].won = {}]
    BY <1>8 DEF Supersede, Has
  <2>2. job[p] \in Sweeping /\ SweepJob(job[p], disk, chain)
    BY <2>1, SweepOf
  <2>3. SoundEdit
    <3>1. job[p].won \in SUBSET Rows /\ Won(chain, job[p].won)
      BY <2>2 DEF SweepJob, Sweeping
    <3> QED BY <1>2, <1>8, <3>1, SupersedeIsSound DEF Supersede, SettleInv
  <2>4. /\ DOMAIN job' = Jobs /\ \A q \in Jobs \ {p} : job'[q] = job[q]
        /\ job'[p] \in Sweeping /\ job'[p].pc = next /\ job'[p].todo = job[p].todo
        /\ job'[p].seen = job[p].seen /\ job'[p].won = {}
    BY <1>1, <2>1, <2>2 DEF Sweeping
  <2>5. SweepJob(job'[p], disk, chain) /\ job'[p].todo \subseteq Rows
    BY <2>2, <2>4 DEF SweepJob, Sweeping, Won
  <2> QED BY <1>1, <2>3, <2>4, <2>5, JobMoves DEF JobOK
<1>11. ASSUME FindMined(p) PROVE SoundEdit /\ SettleInv'
  <2>1. /\ job[p].pc = "moved" /\ SoundEdit
        /\ job' = [job EXCEPT ![p].pc = "again", ![p].won = MinedRows]
    BY <1>11, FileStays DEF FindMined, Has
  <2>2. job[p] \in Sweeping /\ SweepJob(job[p], disk, chain)
    BY <2>1, SweepOf
  <2>3. /\ DOMAIN job' = Jobs /\ \A q \in Jobs \ {p} : job'[q] = job[q]
        /\ job'[p] \in Sweeping /\ job'[p].pc = "again" /\ job'[p].todo = job[p].todo
        /\ job'[p].seen = job[p].seen /\ job'[p].won = MinedRows
    BY <1>1, <1>10, <2>1, <2>2 DEF Sweeping
  <2>4. SweepJob(job'[p], disk, chain) /\ job'[p].todo \subseteq Rows
    BY <1>10, <2>2, <2>3 DEF SweepJob, Sweeping
  <2> QED BY <1>1, <2>1, <2>3, <2>4, JobMoves DEF JobOK
<1>9. ASSUME Reply(p) PROVE SoundEdit /\ SettleInv'
  <2>1. SoundEdit
    BY <1>9, FileStays DEF Reply
  <2>2. DOMAIN job' = Jobs /\ job'[p] = Idle /\ \A q \in Jobs \ {p} : job'[q] = job[q]
    BY <1>1, <1>9 DEF Reply
  <2> QED BY <1>1, <2>1, <2>2, JobMoves DEF JobOK
<1> QED
  BY <1>3, <1>5, <1>6, <1>7, <1>8, <1>9, <1>11

LEMMA RefreshKeeps ==
    ASSUME SettleInv, NEW p \in Jobs,
           (\E r \in Rows : Refresh(p, r)) \/ Fetch(p) \/ Store(p)
    PROVE  SoundEdit /\ SettleInv'
<1>1. UNCHANGED <<now, chain>> /\ DOMAIN job = Jobs
  BY DEF Refresh, Fetch, Store, world, SettleInv
<1>2. ASSUME NEW r \in Rows, Refresh(p, r) PROVE SoundEdit /\ SettleInv'
  <2> DEFINE j == [pc |-> "fetch", todo |-> {r}, got |-> Null]
  <2>1. SoundEdit
    BY <1>2, FileStays DEF Refresh
  <2>2. job' = [job EXCEPT ![p] = j] /\ Recorded(r)
    BY <1>2 DEF Refresh
  <2>3. RefreshJob(j, disk, chain) /\ j.todo \subseteq Rows
    BY <2>2 DEF RefreshJob, Refreshing, Answer, Listed, Recorded
  <2> HIDE DEF j
  <2>4. DOMAIN job' = Jobs /\ job'[p] = j /\ \A q \in Jobs \ {p} : job'[q] = job[q]
    BY <1>1, <2>2
  <2> QED BY <1>1, <2>1, <2>3, <2>4, JobMoves DEF JobOK
<1>3. ASSUME job[p].pc \in {"fetch", "store"}
      PROVE  /\ job[p] \in Refreshing /\ RefreshJob(job[p], disk, chain)
             /\ InHand(p) \in Rows /\ Recorded(InHand(p))
  <2>1. job[p] # Idle /\ job[p] \in Refreshing /\ RefreshJob(job[p], disk, chain)
    BY <1>3, RefreshOf
  <2> QED BY <2>1, HandIs DEF RefreshJob
<1>4. ASSUME SoundEdit, job' = [job EXCEPT ![p] = Idle] PROVE SettleInv'
  <2>1. DOMAIN job' = Jobs /\ job'[p] = Idle /\ \A q \in Jobs \ {p} : job'[q] = job[q]
    BY <1>1, <1>4
  <2> QED BY <1>1, <1>4, <2>1, JobMoves DEF JobOK
<1>5. ASSUME Fetch(p) PROVE SoundEdit /\ SettleInv'
  <2>1. SoundEdit /\ job[p].pc = "fetch"
    BY <1>5, FileStays DEF Fetch, Has
  <2>2. CASE job' = [job EXCEPT ![p] = Idle]
    BY <1>4, <2>1, <2>2
  <2>3. ASSUME NEW a \in Answers(InHand(p)) \ {NoAnswer},
               job' = [job EXCEPT ![p].pc = "store", ![p].got = a]
        PROVE  SettleInv'
    <3>1. \E lag \in Lags : a = ReceiptOf(InHand(p), lag)
      BY <2>3 DEF Answers
    <3>2. a \in Answer /\ Holds(chain, a, InHand(p))
      BY <1>3, <2>1, <3>1, ReceiptIs DEF Answer, Holds, SettleInv
    <3>3. /\ DOMAIN job' = Jobs /\ \A q \in Jobs \ {p} : job'[q] = job[q]
          /\ job'[p] \in Refreshing /\ job'[p].pc = "store" /\ job'[p].todo = job[p].todo
          /\ job'[p].got = a
      BY <1>1, <1>3, <2>1, <2>3, <3>2 DEF Refreshing
    <3>4. RefreshJob(job'[p], disk, chain) /\ job'[p].todo \subseteq Rows
      BY <1>3, <2>1, <3>2, <3>3 DEF RefreshJob, Refreshing, InHand
    <3> QED BY <1>1, <2>1, <3>3, <3>4, JobMoves DEF JobOK
  <2> QED BY <1>5, <2>1, <2>2, <2>3 DEF Fetch
<1>6. ASSUME Store(p) PROVE SoundEdit /\ SettleInv'
  <2>1. job[p].pc = "store" /\ job' = [job EXCEPT ![p] = Idle]
    BY <1>6 DEF Store, Has
  <2>2. CASE Refuse
    BY <1>4, <2>1, <2>2, RefuseIsSound DEF SettleInv, Refuse, Quiet
  <2>3. CASE ApplyReceipt(InHand(p), job[p].got, now)
    <3>1. job[p].got = Null \/ (Got(chain, InHand(p)) # Null /\ job[p].got = ReceiptIf[InHand(p)])
      BY <1>3, <2>1 DEF RefreshJob, Holds, InHand
    <3>2. SoundEdit
      BY <1>3, <2>1, <2>3, <3>1, ApplyIsSound DEF SettleInv
    <3> QED BY <1>4, <2>1, <3>2
  <2> QED BY <1>6, <2>2, <2>3 DEF Store
<1> QED
  BY <1>2, <1>5, <1>6

\* A hash completes a row that is there.
LEMMA ResolveKeeps ==
    ASSUME SettleInv, NEW r \in Rows, Resolve(r)
    PROVE  SoundEdit /\ SettleInv'
<1>1. DOMAIN disk = Rows /\ (\A s \in Rows : RowOK(disk[s], chain, s)) /\ disk[r] \in Row
  BY DEF SettleInv, DiskOK, RowOK
<1>2. /\ disk[r].status = "unknown" /\ UNCHANGED <<now, chain, job>>
      /\ disk' = [disk EXCEPT ![r].status = "pending", ![r].born = now]
      /\ told' = [s \in Rows |-> IF s \in {r} THEN told[s] + 1 ELSE told[s]]
  BY DEF Resolve, Announce
<1>3. /\ DOMAIN disk' = Rows /\ \A s \in Rows \ {r} : disk'[s] = disk[s]
      /\ disk'[r] \in Row /\ disk'[r].status = "pending" /\ disk'[r].by = disk[r].by
  BY <1>1, <1>2 DEF Row, Statuses, SettleInv
<1>4. DiskOK(disk', chain)
  BY <1>1, <1>2, <1>3 DEF DiskOK, RowOK
<1>5. told \in [Rows -> Nat] /\ told' \in [Rows -> Nat]
  BY <1>2 DEF SettleInv
<1>6. SoundEdit
  BY <1>1, <1>2, <1>3, <1>4, <1>5 DEF SoundEdit, Recorded, Settled
<1>7. ASSUME NEW p \in Jobs PROVE JobOK(job[p], disk', chain)
  <2>1. JobOK(job[p], disk, chain)
    BY DEF SettleInv
  <2>2. job[p] = Idle \/ job[p].todo \subseteq Rows
    BY <2>1 DEF JobOK, SweepJob, RefreshJob, Sweeping, Refreshing
  <2> QED BY <1>6, <2>1, <2>2, EditKeepsJobs
<1> QED BY <1>2, <1>4, <1>5, <1>6, <1>7 DEF SettleInv

\* An intent written down, the clock, and the chains.
LEMMA WorldKeeps ==
    ASSUME SettleInv, Tick \/ (\E r \in Rows : Record(r)) \/ (\E c \in Chains : Mine(c))
    PROVE  SettleInv'
<1>1. CASE Tick
  BY <1>1 DEF Tick, SettleInv
<1>2. ASSUME NEW r \in Rows, Record(r) PROVE SettleInv'
  <2>1. /\ disk[r].status = "none" /\ UNCHANGED <<now, chain, told, job>>
        /\ disk' = [disk EXCEPT ![r].status = "unknown", ![r].born = now]
    BY <1>2 DEF Record, Recorded
  <2>2. DOMAIN disk = Rows /\ (\A s \in Rows : RowOK(disk[s], chain, s)) /\ disk[r] \in Row
    BY DEF SettleInv, DiskOK, RowOK
  <2>3. /\ DOMAIN disk' = Rows /\ \A s \in Rows \ {r} : disk'[s] = disk[s]
        /\ disk'[r] \in Row /\ disk'[r].status = "unknown"
        /\ disk'[r].by = disk[r].by
    BY <2>1, <2>2 DEF Row, Statuses, SettleInv
  <2>4. DiskOK(disk', chain)
    BY <2>1, <2>2, <2>3 DEF DiskOK, RowOK
  <2>5. \A s \in Rows : disk[s].status # "none" => disk'[s].status # "none"
    BY <2>3
  <2>6. ASSUME NEW p \in Jobs PROVE JobOK(job[p], disk', chain)
    <3>1. JobOK(job[p], disk, chain)
      BY DEF SettleInv
    <3> QED BY <2>5, <3>1 DEF JobOK, SweepJob, RefreshJob, Listed, Sweeping, Refreshing
  <2> QED BY <2>1, <2>4, <2>6 DEF SettleInv
<1>3. ASSUME NEW c \in Chains, Mine(c) PROVE SettleInv'
  <2>1. /\ chain' \in [Chains -> Seq(Mined)] /\ UNCHANGED <<now, disk, told, job>>
        /\ \A b \in Chains : Len(chain[b]) \in Nat /\ Len(chain[b]) <= Len(chain'[b])
        /\ \A r \in Rows : Spent(chain, r) => Spent(chain', r) /\ Got(chain', r) = Got(chain, r)
    <3>1. chain \in [Chains -> Seq(Mined)] /\ UNCHANGED <<now, disk, told, job>>
      BY <1>3 DEF Mine, SettleInv
    <3> QED BY <1>3, <3>1, ChainsGrow
  <2>2. \A r \in Rows : Got(chain, r) # Null => Got(chain', r) = Got(chain, r)
    BY <2>1 DEF Got
  <2>3. DiskOK(disk, chain')
    BY <2>1, <2>2 DEF SettleInv, DiskOK, RowOK, Row
  <2>4. ASSUME NEW p \in Jobs PROVE JobOK(job[p], disk, chain')
    <3>1. JobOK(job[p], disk, chain)
      BY DEF SettleInv
    <3>2. CASE job[p] = Idle
      BY <3>2 DEF JobOK
    <3>3. CASE SweepJob(job[p], disk, chain)
      <4>1. \A b \in Chains : job[p].seen[b] \in Int /\ job[p].seen[b] <= Len(chain'[b])
        <5>1. \A b \in Chains : Len(chain'[b]) \in Nat
          BY <2>1
        <5>2. job[p].seen \in [Chains -> Int] /\ \A b \in Chains : job[p].seen[b] <= Len(chain[b])
          BY <3>3 DEF SweepJob, Sweeping
        <5> SUFFICES ASSUME NEW b \in Chains
                     PROVE  job[p].seen[b] \in Int /\ job[p].seen[b] <= Len(chain'[b])
          OBVIOUS
        <5>3. /\ job[p].seen[b] \in Int /\ Len(chain[b]) \in Nat /\ Len(chain'[b]) \in Nat
              /\ job[p].seen[b] <= Len(chain[b]) /\ Len(chain[b]) <= Len(chain'[b])
          BY <2>1, <5>1, <5>2
        <5> QED BY <5>3
      <4>2. ASSUME job[p].pc = "apply"
            PROVE  LET r == Newest(job[p].todo) IN
                   /\ r \in Rows /\ Holds(chain', job[p].got, r)
                   /\ Abreast /\ job[p].got = Null /\ job[p].seen[ChainOf[r]] > NonceOf[r]
                         => Got(chain', r) = Null
        <5> DEFINE r == Newest(job[p].todo)
        <5>1. r \in Rows
          BY <3>3, <4>2, NewestIs DEF SweepJob, Sweeping
        <5> HIDE DEF r
        <5>2. Holds(chain, job[p].got, r)
          BY <3>3, <4>2 DEF SweepJob, r
        <5>3. Holds(chain', job[p].got, r)
          BY <2>2, <5>1, <5>2 DEF Holds
        <5>4. ASSUME Abreast, job[p].got = Null, job[p].seen[ChainOf[r]] > NonceOf[r]
              PROVE  Got(chain', r) = Null
          <6>1. Got(chain, r) = Null
            BY <3>3, <4>2, <5>4 DEF SweepJob, r
          <6>2. ChainOf[r] \in Chains /\ NonceOf[r] \in Nat
            BY <5>1, SweepAssumption DEF Chains
          <6>3. /\ Len(chain[ChainOf[r]]) \in Nat /\ job[p].seen[ChainOf[r]] \in Int
                /\ job[p].seen[ChainOf[r]] <= Len(chain[ChainOf[r]])
            BY <2>1, <3>3, <6>2 DEF SweepJob, Sweeping
          <6>4. Spent(chain, r)
            BY <5>4, <6>2, <6>3 DEF Spent
          <6> QED BY <2>1, <5>1, <6>1, <6>4
        <5> QED BY <5>1, <5>3, <5>4 DEF r
      <4>3. SweepJob(job[p], disk, chain')
        BY <2>2, <3>3, <4>1, <4>2 DEF SweepJob, Sweeping, Won
      <4> QED BY <4>3 DEF JobOK
    <3>4. CASE RefreshJob(job[p], disk, chain)
      <4>1. Newest(job[p].todo) \in Rows
        BY <3>4, NewestIs DEF RefreshJob, Refreshing
      <4>2. RefreshJob(job[p], disk, chain')
        BY <2>2, <3>4, <4>1 DEF RefreshJob, Holds
      <4> QED BY <4>2 DEF JobOK
    <3> QED BY <3>1, <3>2, <3>3, <3>4 DEF JobOK
  <2> QED BY <2>1, <2>3, <2>4 DEF SettleInv
<1> QED
  BY <1>1, <1>2, <1>3

LEMMA InitSettle == Init => SettleInv
<1> SUFFICES ASSUME Init PROVE SettleInv
  OBVIOUS
<1>1. Never \in Int
  BY DEF Never, Interval
<1>2. DiskOK(disk, chain)
  <2>1. \A r \in Rows : disk[r] \in Row /\ disk[r].status = "none" /\ disk[r].by = NoWinner
    BY <1>1 DEF Init, Row, Statuses, Figures
  <2>2. DOMAIN disk = Rows
    BY DEF Init
  <2> QED BY <2>1, <2>2 DEF DiskOK, RowOK
<1>3. chain \in [Chains -> Seq(Mined)]
  BY DEF Init
<1>4. DOMAIN job = Jobs /\ \A p \in Jobs : JobOK(job[p], disk, chain)
  BY DEF Init, Jobs, JobOK
<1> QED
  BY <1>2, <1>3, <1>4 DEF Init, SettleInv

LEMMA NextSettle == ASSUME SettleInv, Next PROVE SettleInv'
<1>1. ASSUME NEW p \in Sweepers, SweepStep(p) PROVE SettleInv'
  BY <1>1, ReadsKeep, EditsKeep DEF SweepStep, Jobs
<1>2. ASSUME NEW p \in Refreshers, (\E r \in Rows : Refresh(p, r)) \/ Fetch(p) \/ Store(p)
      PROVE  SettleInv'
  BY <1>2, RefreshKeeps DEF Jobs
<1> QED
  BY <1>1, <1>2, ResolveKeeps, WorldKeeps DEF Next

\* What a step does to a row that is there.
LEMMA StepTells ==
    ASSUME SettleInv, Next
    PROVE  \A r \in Rows :
             /\ Abreast => (disk[r].status \in Settled => disk'[r].status = disk[r].status)
             /\ told'[r] = told[r]
                  + (IF Recorded(r) /\ disk'[r].status # disk[r].status THEN 1 ELSE 0)
<1>1. ASSUME SoundEdit
      PROVE  \A r \in Rows :
               /\ Abreast => (disk[r].status \in Settled => disk'[r].status = disk[r].status)
               /\ told'[r] = told[r]
                    + (IF Recorded(r) /\ disk'[r].status # disk[r].status THEN 1 ELSE 0)
  BY <1>1 DEF SoundEdit
<1>2. ASSUME NEW p \in Sweepers, SweepStep(p) PROVE SoundEdit
  BY <1>2, ReadsKeep, EditsKeep DEF SweepStep, Jobs
<1>3. ASSUME NEW p \in Refreshers, (\E r \in Rows : Refresh(p, r)) \/ Fetch(p) \/ Store(p)
      PROVE  SoundEdit
  BY <1>3, RefreshKeeps DEF Jobs
<1>4. ASSUME Tick \/ (\E c \in Chains : Mine(c)) PROVE SoundEdit
  BY <1>4, FileStays DEF Tick, Mine
<1>5. ASSUME NEW s \in Rows, Record(s)
      PROVE  \A r \in Rows :
               /\ Abreast => (disk[r].status \in Settled => disk'[r].status = disk[r].status)
               /\ told'[r] = told[r]
                    + (IF Recorded(r) /\ disk'[r].status # disk[r].status THEN 1 ELSE 0)
  <2>1. /\ DOMAIN disk = Rows /\ told \in [Rows -> Nat] /\ told' = told
        /\ disk[s].status = "none"
        /\ disk' = [disk EXCEPT ![s].status = "unknown", ![s].born = now]
    BY <1>5 DEF Record, Recorded, SettleInv, DiskOK
  <2>2. \A r \in Rows : r # s => disk'[r] = disk[r]
    BY <2>1
  <2> QED BY <2>1, <2>2 DEF Recorded, Settled
<1>6. ASSUME NEW s \in Rows, Resolve(s) PROVE SoundEdit
  BY <1>6, ResolveKeeps
<1> QED
  BY <1>1, <1>2, <1>3, <1>4, <1>5, <1>6 DEF Next

-----------------------------------------------------------------------------
(* What a row keeps of its receipt                                         *)

\* Each of finitely many numbers has a rank of its own, and each rank is taken.
LEMMA RanksAre ==
    ASSUME NEW I \in SUBSET Nat, IsFiniteSet(I)
    PROVE  /\ Cardinality(I) \in Nat
           /\ \A i \in I : Rank(I, i) \in 1..Cardinality(I)
           /\ \A k \in 1..Cardinality(I) : \E i \in I : Rank(I, i) = k
           /\ \A i, j \in I : Rank(I, i) = Rank(I, j) => i = j
<1> DEFINE Upto(i) == {j \in I : j <= i}
           n == Cardinality(I)
           rank == [i \in I |-> Rank(I, i)]
<1>1. n \in Nat
  BY FS_CardinalityType
<1>2. ASSUME NEW i \in I
      PROVE  /\ IsFiniteSet(Upto(i)) /\ Cardinality(Upto(i)) \in 1..n
             /\ Rank(I, i) = Cardinality(Upto(i))
  <2>1. Upto(i) \in SUBSET I /\ Upto(i) # {}
    OBVIOUS
  <2>2. IsFiniteSet(Upto(i)) /\ Cardinality(Upto(i)) <= n
    BY <2>1, FS_Subset
  <2>3. Cardinality(Upto(i)) \in Nat /\ Cardinality(Upto(i)) # 0
    BY <2>1, <2>2, FS_CardinalityType, FS_EmptySet
  <2> QED BY <1>1, <2>2, <2>3 DEF Rank
<1>3. ASSUME NEW i \in I, NEW j \in I, Rank(I, i) = Rank(I, j) PROVE i = j
  <2>1. ASSUME NEW a \in I, NEW b \in I, a < b PROVE Rank(I, a) # Rank(I, b)
    <3>1. Upto(a) \subseteq Upto(b) /\ b \in Upto(b) /\ b \notin Upto(a)
      <4>1. a \in Nat /\ b \in Nat
        OBVIOUS
      <4>2. b \in Upto(b) /\ b \notin Upto(a)
        BY <2>1, <4>1
      <4>3. ASSUME NEW k \in Upto(a) PROVE k \in Upto(b)
        <5>1. k \in I /\ k \in Nat /\ k <= a
          OBVIOUS
        <5> QED BY <2>1, <4>1, <5>1
      <4> HIDE DEF Upto
      <4> QED BY <4>2, <4>3
    <3> HIDE DEF Upto
    <3> QED BY <1>2, <3>1, FS_Subset
  <2>2. i \in Nat /\ j \in Nat
    OBVIOUS
  <2> QED BY <1>3, <2>1, <2>2
<1> HIDE DEF Upto
<1>4. rank \in Injection(I, 1..n)
  BY <1>2, <1>3 DEF Injection, IsInjective
<1>5. IsFiniteSet(1..n) /\ Cardinality(1..n) = n
  BY <1>1, FS_Interval
<1>6. rank \in Surjection(I, 1..n)
  BY <1>4, <1>5, FS_Injection
<1>7. \A k \in 1..n : \E i \in I : rank[i] = k
  BY <1>6 DEF Surjection
<1> QED
  BY <1>1, <1>2, <1>3, <1>7

\* Where in a sequence the members of a set are.
Places(s, S) == {i \in DOMAIN s : s[i] \in S}

LEMMA PlacesAre ==
    ASSUME NEW L, NEW s \in Seq(L), NEW S
    PROVE  /\ Places(s, S) \in SUBSET Nat /\ Places(s, S) \subseteq 1..Len(s)
           /\ IsFiniteSet(Places(s, S)) /\ Cardinality(Places(s, S)) \in Nat
<1>1. Len(s) \in Nat /\ DOMAIN s = 1..Len(s)
  OBVIOUS
<1>2. Places(s, S) \in SUBSET (1..Len(s))
  BY <1>1 DEF Places
<1>3. IsFiniteSet(1..Len(s))
  BY <1>1, FS_Interval
<1> QED
  BY <1>1, <1>2, <1>3, FS_Subset, FS_CardinalityType

\* A sequence has every entry of another that is in a set, by position k at the latest.
Covers(t, k, s, S) == \A i \in Places(s, S) : \E m \in 1..k : t[m] = s[i]

\* Among: every entry of the set, no other, and as many as there are places.
LEMMA AmongIs ==
    ASSUME NEW L, NEW s \in Seq(L), NEW S
    PROVE  /\ Among(s, S) \in Seq(L \cap S)
           /\ Len(Among(s, S)) = Cardinality(Places(s, S))
           /\ Covers(Among(s, S), Len(Among(s, S)), s, S)
<1> DEFINE I == Places(s, S)
           At(k) == CHOOSE i \in I : Rank(I, i) = k
<1>1. Among(s, S) = [k \in 1..Cardinality(I) |-> s[At(k)]]
  BY DEF Among, Places
<1>2. /\ I \in SUBSET Nat /\ IsFiniteSet(I) /\ Cardinality(I) \in Nat
      /\ \A i \in I : s[i] \in L \cap S
  BY PlacesAre DEF Places
<1> HIDE DEF I
<1>3. \A k \in 1..Cardinality(I) : At(k) \in I /\ Rank(I, At(k)) = k
  BY <1>2, RanksAre
<1>4. ASSUME NEW i \in I PROVE Rank(I, i) \in 1..Cardinality(I) /\ At(Rank(I, i)) = i
  BY <1>2, <1>3, RanksAre
<1> HIDE DEF At
<1>5. Among(s, S) \in Seq(L \cap S) /\ Len(Among(s, S)) = Cardinality(I)
  <2> DEFINE n == Cardinality(I)
             X == L \cap S
  <2>1. Among(s, S) \in [1..n -> X]
    BY <1>1, <1>2, <1>3
  <2>2. n \in Nat
    BY <1>2
  <2> HIDE DEF n, X
  <2>3. Among(s, S) \in Seq(X) /\ Len(Among(s, S)) = n
    BY <2>1, <2>2
  <2> QED BY <2>3 DEF n, X
<1>6. ASSUME NEW i \in I PROVE \E k \in 1..Len(Among(s, S)) : Among(s, S)[k] = s[i]
  BY <1>1, <1>4, <1>5
<1> QED
  BY <1>5, <1>6 DEF I, Covers

\* Sorted: the same number of entries, the account's own before any other.
LEMMA SortedIs ==
    ASSUME NEW L, NEW all \in Seq(L), NEW own
    PROVE  /\ Sorted(all, own) \in Seq(L) /\ Len(Sorted(all, own)) = Len(all)
           /\ \E n \in 0..Len(all) :
                /\ \A k \in 1..n : Sorted(all, own)[k] \in own
                /\ Covers(Sorted(all, own), n, all, own)
<1> DEFINE other == ToSet(all) \ own
           A == Among(all, own)
           B == Among(all, other)
<1>1. DOMAIN all = 1..Len(all) /\ Len(all) \in Nat
  OBVIOUS
<1>2. Places(all, own) \cup Places(all, other) = 1..Len(all)
  BY <1>1 DEF Places, ToSet
<1>3. Places(all, own) \cap Places(all, other) = {}
  BY DEF Places
<1> HIDE DEF other
<1>4. /\ A \in Seq(L \cap own) /\ Len(A) = Cardinality(Places(all, own))
      /\ Covers(A, Len(A), all, own)
  BY AmongIs
<1>5. B \in Seq(L \cap other) /\ Len(B) = Cardinality(Places(all, other))
  BY AmongIs
<1> HIDE DEF A, B
<1>6. Len(A) + Len(B) = Len(all)
  <2>1. /\ IsFiniteSet(Places(all, own)) /\ Cardinality(Places(all, own)) \in Nat
        /\ IsFiniteSet(Places(all, other)) /\ Cardinality(Places(all, other)) \in Nat
    BY PlacesAre
  <2>2. Cardinality(1..Len(all)) = Len(all)
    BY <1>1, FS_Interval
  <2>3. Cardinality({}) = 0
    BY FS_EmptySet
  <2>4. Cardinality(1..Len(all)) = Cardinality(Places(all, own)) + Cardinality(Places(all, other)) - 0
    BY <1>2, <1>3, <2>1, <2>3, FS_Union
  <2> QED BY <1>4, <1>5, <2>1, <2>2, <2>4
<1>7. A \in Seq(L) /\ B \in Seq(L) /\ Len(A) \in 0..Len(all)
  <2>1. A \in Seq(L) /\ B \in Seq(L)
    BY <1>4, <1>5
  <2>2. Len(A) \in Nat /\ Len(B) \in Nat
    BY <1>4, <1>5
  <2> QED BY <1>1, <1>6, <2>1, <2>2
<1>8. Sorted(all, own) = A \o B
  BY DEF Sorted, A, B, other
<1>9. Sorted(all, own) \in Seq(L) /\ Len(Sorted(all, own)) = Len(all)
  BY <1>6, <1>7, <1>8
<1>10. \A k \in 1..Len(A) : Sorted(all, own)[k] = A[k]
  BY <1>7, <1>8
<1>11. \A k \in 1..Len(A) : A[k] \in own
  BY <1>4
<1>12. Covers(Sorted(all, own), Len(A), all, own)
  BY <1>4, <1>10 DEF Covers
<1> QED
  BY <1>7, <1>9, <1>10, <1>11, <1>12

LEMMA ShorterIs ==
    ASSUME NEW m \in Nat, NEW n \in Nat
    PROVE  Shorter(m, n) \in 0..m /\ (Shorter(m, n) < m => Shorter(m, n) = n)
BY DEF Shorter

\* OwnFirst: what is kept and what the cap drops make up all; the cap is reached
\* before anything is dropped, and takes none of the account's own before all else.
LEMMA OwnFirstIs ==
    ASSUME NEW L, NEW all \in Seq(L), NEW own, TransfersMax \in Nat
    PROVE  LET d == OwnFirst(all, own)
               shown == {d.kept[k] : k \in DOMAIN d.kept}
           IN  /\ Len(d.kept) + d.more = Len(all)
               /\ d.more > 0 => Len(d.kept) = TransfersMax
               /\ shown \subseteq L /\ DOMAIN d.kept = 1..Len(d.kept)
               /\ Covers(d.kept, Len(d.kept), all, own) \/ shown \subseteq own
<1> DEFINE s == Sorted(all, own)
           cut == Shorter(Len(all), TransfersMax)
           kept == SubSeq(s, 1, cut)
           shown == {kept[k] : k \in DOMAIN kept}
<1>1. Len(all) \in Nat /\ DOMAIN all = 1..Len(all)
  OBVIOUS
<1>2. cut \in 0..Len(all) /\ (cut < Len(all) => cut = TransfersMax)
  BY <1>1, ShorterIs
<1>3. s \in Seq(L) /\ Len(s) = Len(all)
  BY SortedIs
<1>4. PICK n \in 0..Len(all) :
            /\ \A k \in 1..n : s[k] \in own
            /\ Covers(s, n, all, own)
  BY SortedIs
<1>5. OwnFirst(all, own).kept = kept /\ OwnFirst(all, own).more = Len(all) - cut
  BY DEF OwnFirst
<1> HIDE DEF s, cut
<1>6. /\ kept \in Seq(L) /\ Len(kept) = cut /\ DOMAIN kept = 1..cut
      /\ \A k \in 1..cut : kept[k] = s[k]
  BY <1>1, <1>2, <1>3
<1> HIDE DEF kept
<1>7. shown \subseteq L
  BY <1>6
<1>8. Covers(kept, Len(kept), all, own) \/ shown \subseteq own
  <2>1. cut \in Nat /\ n \in Nat
    BY <1>1, <1>2
  <2>2. CASE n <= cut
    <3>1. \A k \in 1..n : k \in 1..cut
      BY <2>1, <2>2
    <3> QED BY <1>4, <1>6, <3>1 DEF Covers
  <2>3. CASE cut < n
    <3>1. \A k \in 1..cut : k \in 1..n
      BY <2>1, <2>3
    <3>2. \A k \in DOMAIN kept : kept[k] \in own
      BY <1>4, <1>6, <3>1
    <3> QED BY <3>2
  <2> QED BY <2>1, <2>2, <2>3
<1> HIDE DEF shown
<1>9. DOMAIN kept = 1..Len(kept) /\ Len(kept) + (Len(all) - cut) = Len(all) /\ (Len(all) - cut > 0 => Len(kept) = TransfersMax)
  BY <1>1, <1>2, <1>6
<1> QED
  BY <1>5, <1>7, <1>8, <1>9 DEF shown

\* The two together, as a row tells them of the logs of its receipt.
LEMMA ListsAre ==
    ASSUME NEW logs, logs \in Seq(ToSet(logs)), NEW which \in SUBSET ToSet(logs), NEW own,
           TransfersMax \in Nat
    PROVE  Lists(OwnFirst(Among(logs, which), own), logs, which, own)
<1> DEFINE all == Among(logs, which)
           d == OwnFirst(all, own)
           shown == {d.kept[k] : k \in DOMAIN d.kept}
           L == ToSet(logs) \cap which
<1>1. /\ all \in Seq(L) /\ Len(all) = Cardinality(Places(logs, which))
      /\ Covers(all, Len(all), logs, which)
  BY AmongIs
<1>2. L \subseteq which
  OBVIOUS
<1>3. \A l \in which : \E i \in Places(logs, which) : logs[i] = l
  BY DEF ToSet, Places
<1> HIDE DEF all, L
<1>4. DOMAIN all = 1..Len(all)
  BY <1>1
<1>5. \A l \in which \cap own : \E i \in Places(all, own) : all[i] = l
  BY <1>1, <1>3, <1>4 DEF Covers, Places
<1>6. /\ Len(d.kept) + d.more = Len(all)
      /\ d.more > 0 => Len(d.kept) = TransfersMax
      /\ shown \subseteq L /\ DOMAIN d.kept = 1..Len(d.kept)
      /\ Covers(d.kept, Len(d.kept), all, own) \/ shown \subseteq own
  BY <1>1, OwnFirstIs
<1> HIDE DEF d
<1>7. which \cap own \subseteq shown \/ shown \subseteq own
  BY <1>5, <1>6 DEF Covers
<1> HIDE DEF shown
<1> QED
  BY <1>1, <1>2, <1>6, <1>7 DEF Places, Lists, all, d, shown

-----------------------------------------------------------------------------
(* What is over stays over                                                 *)

Columns == {"status", "born", "polled", "by", "figures"}

\* What a reply said no poll could move, and was not told of since, no poll can
\* move now.
OverInv ==
    /\ now \in Nat
    /\ DOMAIN disk = Rows /\ \A r \in Rows : DOMAIN disk[r] = Columns /\ disk[r].born \in Nat
    /\ dismissed \subseteq Rows
    /\ \A r \in dismissed : Recorded(r) /\ ~IsLive(r, now)

\* An edit that takes no row off the file, and makes none pending that it does not
\* tell of.
Settling ==
    /\ DOMAIN disk' = Rows /\ dismissed' \subseteq dismissed
    /\ \A r \in Rows :
          /\ DOMAIN disk'[r] = Columns /\ disk'[r].born \in Nat
          /\ Recorded(r) => disk'[r].status # "none"
          /\ r \in dismissed' /\ disk'[r].status = "pending"
                => disk[r].status = "pending" /\ disk'[r].born = disk[r].born

\* A row grows older, and never back into the polling horizon.
LEMMA RowsAge ==
    ASSUME NEW r, disk[r].born \in Nat, NEW at \in Nat, NEW later \in Nat, at <= later,
           Within(r, later)
    PROVE  Within(r, at)
<1>1. Horizon \in Nat
  BY SweepAssumption
<1> QED
  BY <1>1 DEF Within, Age

LEMMA SettlingKeepsOver ==
    ASSUME OverInv, Settling, UNCHANGED now
    PROVE  OverInv'
<1>1. \A r \in dismissed' : r \in Rows /\ Recorded(r) /\ ~IsLive(r, now)
  BY DEF OverInv, Settling
<1>2. ASSUME NEW r \in dismissed' PROVE Recorded(r)' /\ ~IsLive(r, now)'
  <2>1. Recorded(r)'
    BY <1>1 DEF Settling, Recorded
  <2>2. ASSUME IsLive(r, now)' PROVE FALSE
    <3>1. disk[r].status = "pending" /\ disk'[r].born = disk[r].born
      BY <1>1, <2>2 DEF Settling, IsLive
    <3> QED BY <1>1, <2>2, <3>1 DEF IsLive, Within, Age
  <2> QED BY <2>1, <2>2
<1> QED BY <1>2 DEF OverInv, Settling

LEMMA ApplySettles ==
    ASSUME OverInv, NEW r, NEW receipt, NEW at, ApplyReceipt(r, receipt, at)
    PROVE  Settling
<1>1. DOMAIN disk = Rows /\ \A s \in Rows : DOMAIN disk[s] = Columns /\ disk[s].born \in Nat
  BY DEF OverInv
<1>2. CASE Classify(receipt) = "pending"
  <2>1. disk' = [disk EXCEPT ![r].polled = at] /\ dismissed' = dismissed
    BY <1>2 DEF ApplyReceipt, Quiet
  <2> QED BY <1>1, <2>1 DEF Settling, Columns, Recorded
<1>3. CASE Classify(receipt) # "pending"
  <2> DEFINE st == Classify(receipt)
             figures == Absorbed(receipt, ValueOf[r])
  <2>1. st \notin {"pending", "none"}
    BY <1>3 DEF Classify
  <2>2. /\ disk' = [disk EXCEPT ![r].polled = at, ![r].status = st, ![r].figures = figures]
        /\ dismissed' \subseteq dismissed
    BY <1>3 DEF ApplyReceipt, Announce
  <2> HIDE DEF st, figures
  <2> QED BY <1>1, <2>1, <2>2 DEF Settling, Columns, Recorded
<1> QED
  BY <1>2, <1>3

LEMMA ReplacedSettles ==
    ASSUME OverInv, NEW r, NEW at, SettleReplaced(r, at)
    PROVE  Settling
<1>1. DOMAIN disk = Rows /\ \A s \in Rows : DOMAIN disk[s] = Columns /\ disk[s].born \in Nat
  BY DEF OverInv
<1>2. /\ disk' = disk \/ disk' = [disk EXCEPT ![r].polled = at, ![r].status = "replaced"]
      /\ dismissed' \subseteq dismissed
  BY DEF SettleReplaced, Refuse, Quiet, Announce
<1> QED
  BY <1>1, <1>2 DEF Settling, Columns, Recorded

LEMMA SupersedeSettles ==
    ASSUME OverInv, NEW won, SettleSuperseded(won)
    PROVE  Settling
<1>1. DOMAIN disk = Rows /\ \A s \in Rows : DOMAIN disk[s] = Columns /\ disk[s].born \in Nat
  BY DEF OverInv
<1>2. dismissed' \subseteq dismissed
  BY DEF SettleSuperseded, Announce
<1>3. PICK moved : disk' = [r \in Rows |->
                              IF r \in moved
                              THEN [disk[r] EXCEPT !.status = "replaced",
                                                   !.by = Newest({w \in won : SameNumber(r, w)})]
                              ELSE disk[r]]
  BY DEF SettleSuperseded
<1> QED
  BY <1>1, <1>2, <1>3 DEF Settling, Columns, Recorded

\* A row that turns pending is told of.
LEMMA ResolveSettles ==
    ASSUME OverInv, NEW r \in Rows, Resolve(r)
    PROVE  Settling
<1>1. DOMAIN disk = Rows /\ \A s \in Rows : DOMAIN disk[s] = Columns /\ disk[s].born \in Nat
  BY DEF OverInv
<1>2. /\ disk' = [disk EXCEPT ![r].status = "pending", ![r].born = now]
      /\ dismissed' = dismissed \ {r} /\ now \in Nat
  BY DEF Resolve, Announce, OverInv
<1> QED
  BY <1>1, <1>2 DEF Settling, Columns, Recorded

\* No step of a sweep or of a refresh but the reply touches more than the file.
LEMMA JobsKeepOver ==
    ASSUME OverInv, NEW p,
           \/ SweepStep(p) /\ ~Reply(p)
           \/ (\E r \in Rows : Refresh(p, r)) \/ Fetch(p) \/ Store(p)
    PROVE  OverInv'
<1>1. Settling \/ UNCHANGED <<disk, dismissed>>
  BY ApplySettles, ReplacedSettles, SupersedeSettles
     DEF SweepStep, Begin, Collect, ReadGate, ReadMined, Stop, ReadReceipt, ApplyError,
         ApplyPassed, Apply, FindMined, Supersede, Refresh, Fetch, Store, Refuse, Quiet
<1>2. UNCHANGED now
  BY DEF SweepStep, Begin, Collect, ReadGate, ReadMined, Stop, ReadReceipt, ApplyError,
         ApplyPassed, Apply, FindMined, Supersede, Refresh, Fetch, Store, world
<1>3. UNCHANGED <<disk, dismissed>> => OverInv'
  BY <1>2 DEF OverInv, Recorded, IsLive, Within, Age
<1> QED
  BY <1>1, <1>2, <1>3, SettlingKeepsOver

\* A reply adds only what nothing can move, as it is and as late as it is.
LEMMA ReplyKeepsOver ==
    ASSUME OverInv, NEW p, Reply(p)
    PROVE  OverInv'
<1>1. UNCHANGED <<now, disk>>
  BY DEF Reply
<1>2. PICK C \in {Chains} \cup {{c} : c \in Chains} :
        dismissed' = IF \E r \in {r \in Rows : Recorded(r) /\ ChainOf[r] \in C} :
                          IsLive(r, now)
                     THEN dismissed
                     ELSE dismissed \cup {r \in Rows : Recorded(r) /\ ChainOf[r] \in C}
  BY DEF Reply
<1>3. /\ dismissed' \subseteq Rows
      /\ \A r \in dismissed' : Recorded(r) /\ ~IsLive(r, now)
  BY <1>2 DEF OverInv
<1> QED
  BY <1>1, <1>3 DEF OverInv, Recorded, IsLive, Within, Age

\* The clock only makes rows older, and a row that is new was in no reply.
LEMMA WorldKeepsOver ==
    ASSUME OverInv, Tick \/ (\E r \in Rows : Record(r)) \/ (\E c \in Chains : Mine(c))
    PROVE  OverInv'
<1>1. CASE Tick
  <2>1. now' = now + 1 /\ now' \in Nat /\ now \in Nat /\ UNCHANGED <<disk, dismissed>>
    BY <1>1 DEF Tick, OverInv
  <2>2. \A r \in Rows : Within(r, now') => Within(r, now)
    BY <2>1, RowsAge DEF OverInv
  <2>3. \A r \in Rows : IsLive(r, now)' => IsLive(r, now)
    <3>1. \A r \in Rows : Within(r, now)' <=> Within(r, now')
      BY <2>1 DEF Within, Age
    <3> QED BY <2>1, <2>2, <3>1 DEF IsLive
  <2> QED BY <2>1, <2>3 DEF OverInv, Recorded
<1>2. ASSUME NEW s \in Rows, Record(s) PROVE OverInv'
  <2>1. /\ DOMAIN disk = Rows /\ (\A r \in Rows : DOMAIN disk[r] = Columns /\ disk[r].born \in Nat)
        /\ s \notin dismissed /\ UNCHANGED <<now, dismissed>> /\ now \in Nat
        /\ disk' = [disk EXCEPT ![s].status = "unknown", ![s].born = now]
    BY <1>2 DEF Record, OverInv
  <2>2. /\ DOMAIN disk' = Rows /\ \A r \in Rows : DOMAIN disk'[r] = Columns /\ disk'[r].born \in Nat
        /\ \A r \in Rows \ {s} : disk'[r] = disk[r]
    BY <2>1 DEF Columns
  <2>3. \A r \in dismissed : (Recorded(r) /\ ~IsLive(r, now)) => (Recorded(r) /\ ~IsLive(r, now))'
    BY <2>1, <2>2 DEF Recorded, IsLive, Within, Age, OverInv
  <2> QED BY <2>1, <2>2, <2>3 DEF OverInv
<1>3. CASE \E c \in Chains : Mine(c)
  BY <1>3 DEF Mine, OverInv, Recorded, IsLive, Within, Age
<1> QED
  BY <1>1, <1>2, <1>3

-----------------------------------------------------------------------------
(* The theorems                                                            *)

LEMMA SettleHolds == Spec => []SettleInv
<1>1. SettleInv /\ UNCHANGED vars => SettleInv'
  BY DEF SettleInv, vars
<1> QED
  BY InitSettle, NextSettle, <1>1, PTL DEF Spec

\* For any rows, sweeps and refreshes: a row is settled as replaced only when
\* another transaction took its number, and a winner it names is that transaction,
\* as long as the nodes that answer for one chain are not behind one another
\* (settle_replaced, settle_superseded).
THEOREM ReplacedForGood == ASSUME MaxLag = 0 PROVE Spec => []ReplacedWasReplaced
<1>1. SettleInv => ReplacedWasReplaced
  <2> SUFFICES ASSUME SettleInv, NEW r \in Rows, disk[r].status = "replaced"
               PROVE  /\ ~IsMined(r) /\ Len(chain[ChainOf[r]]) > NonceOf[r]
                      /\ disk[r].by # NoWinner => SameNumber(r, disk[r].by) /\ IsMined(disk[r].by)
    BY DEF ReplacedWasReplaced
  <2>1. RowOK(disk[r], chain, r) /\ chain \in [Chains -> Seq(Mined)] /\ Abreast /\ 0 \in Lags
    BY SweepAssumption DEF SettleInv, DiskOK, Abreast, Lags
  <2>2. Spent(chain, r) /\ Got(chain, r) = Null
    BY <2>1 DEF RowOK
  <2>3. Len(chain[ChainOf[r]]) \in Nat /\ NonceOf[r] \in Nat
    BY <2>1, RowsAre
  <2>4. \A s \in Rows : IsMined(s) <=> Got(chain, s) # Null
    BY <2>1, ReceiptIs DEF IsMined
  <2>5. ASSUME disk[r].by # NoWinner
        PROVE  SameNumber(r, disk[r].by) /\ IsMined(disk[r].by)
    <3>1. disk[r].by \in Rows /\ SameNumber(r, disk[r].by) /\ Got(chain, disk[r].by) # Null
      BY <2>1, <2>5 DEF RowOK, Row
    <3> QED BY <2>4, <3>1
  <2> QED BY <2>2, <2>3, <2>4, <2>5 DEF Spent
<1> QED
  BY <1>1, SettleHolds, PTL

\* A settled row stays settled, whatever older answer a slower sweep or refresh
\* brings home (apply_receipt, settle_replaced, settle_superseded).
THEOREM SettledForGood == ASSUME MaxLag = 0 PROVE Spec => SettledStays
<1>1. SettleInv /\ [Next]_vars
        => [\A r \in Rows : disk[r].status \in Settled => disk'[r].status = disk[r].status]_vars
  BY StepTells DEF Abreast
<1> QED
  BY <1>1, SettleHolds, PTL DEF Spec, SettledStays

\* Every move of a row on the disk is announced once, and nothing else is, however
\* late the nodes (HistoryWrite, announce).
THEOREM MovesAreTold == Spec => ToldAsMoved
<1>1. SettleInv /\ [Next]_vars
        => [\A r \in Rows : told'[r] = told[r]
              + (IF Recorded(r) /\ disk'[r].status # disk[r].status THEN 1 ELSE 0)]_vars
  BY StepTells
<1> QED
  BY <1>1, SettleHolds, PTL DEF Spec, ToldAsMoved

\* A mined row keeps the figures of its receipt, however late the nodes that sent
\* it and whatever older answer another sweep brings home: every transfer is counted,
\* none is made up, the account's own are not the ones cut, and only a confirmed row
\* has a total (own_first, absorb_receipt, apply_receipt).
THEOREM RowsTellTheirReceipts == Spec => []RowTellsReceipt
<1>1. SettleInv => RowTellsReceipt
  <2> SUFFICES ASSUME SettleInv PROVE RowTellsReceipt
    OBVIOUS
  <2> DEFINE Tells(r, receipt) ==
               /\ disk[r].status = Classify(receipt)
               /\ disk[r].figures.total # None =>
                     disk[r].status = "confirmed"
                     /\ disk[r].figures.total = ValueOf[r] + disk[r].figures.fee
               /\ Lists(disk[r].figures.transfers, receipt.logs, Tokens(receipt.logs), Sent(receipt.logs))
               /\ Lists(disk[r].figures.native, receipt.logs, Natives(receipt.logs), Touched(receipt.logs))
  <2>1. ASSUME NEW r \in Rows, disk[r].status \in {"confirmed", "failed"}
        PROVE  Tells(r, chain[ChainOf[r]][NonceOf[r] + 1].receipt)
    <3> DEFINE receipt == ReceiptIf[r]
               f == disk[r].figures
    <3>1. /\ Got(chain, r) # Null /\ disk[r].status = Classify(receipt)
          /\ f = Absorbed(receipt, ValueOf[r])
      BY <2>1 DEF SettleInv, DiskOK, RowOK
    <3>2. chain[ChainOf[r]][NonceOf[r] + 1].receipt = receipt
      BY <3>1, MinedIs DEF SettleInv
    <3>3. receipt.logs \in Seq(ToSet(receipt.logs)) /\ TransfersMax \in Nat
      BY SweepAssumption
    <3>4. /\ Tokens(receipt.logs) \in SUBSET ToSet(receipt.logs)
          /\ Natives(receipt.logs) \in SUBSET ToSet(receipt.logs)
      BY DEF Tokens, Natives
    <3>5. /\ f.fee = Fee(receipt) /\ f.total = Total(receipt, ValueOf[r])
          /\ f.transfers = OwnFirst(Among(receipt.logs, Tokens(receipt.logs)), Sent(receipt.logs))
          /\ f.native = OwnFirst(Among(receipt.logs, Natives(receipt.logs)), Touched(receipt.logs))
      BY <3>1 DEF Absorbed, DecodeTransfers, DecodeNative
    <3> HIDE DEF receipt, f
    <3>6. f.total # None => Classify(receipt) = "confirmed" /\ f.total = ValueOf[r] + f.fee
      BY <3>5 DEF Total
    <3>7. Lists(f.transfers, receipt.logs, Tokens(receipt.logs), Sent(receipt.logs))
      BY <3>3, <3>4, <3>5, ListsAre
    <3>8. Lists(f.native, receipt.logs, Natives(receipt.logs), Touched(receipt.logs))
      BY <3>3, <3>4, <3>5, ListsAre
    <3>9. Tells(r, receipt)
      BY <3>1, <3>6, <3>7, <3>8 DEF f
    <3> QED BY <3>2, <3>9
  <2> QED BY <2>1 DEF RowTellsReceipt
<1> QED
  BY <1>1, SettleHolds, PTL

\* A reply that says no row it shows can move is right until a row is told of,
\* however late the nodes and whatever another sweep still writes: no row of it is due
\* again before that (history_reply, has_live against resolve_broadcast, pending_due).
THEOREM IdleIsOver == Spec => []IdleMeansOver
<1>1. Init => OverInv
  BY DEF Init, OverInv, Columns
<1>2. OverInv /\ [Next]_vars => OverInv'
  <2> SUFFICES ASSUME OverInv, [Next]_vars PROVE OverInv'
    OBVIOUS
  <2>1. CASE UNCHANGED vars
    BY <2>1 DEF vars, OverInv, Recorded, IsLive, Within, Age
  <2>2. CASE \E p \in Sweepers : SweepStep(p)
    BY <2>2, JobsKeepOver, ReplyKeepsOver
  <2>3. CASE \E p \in Refreshers : (\E r \in Rows : Refresh(p, r)) \/ Fetch(p) \/ Store(p)
    BY <2>3, JobsKeepOver
  <2>4. CASE \E r \in Rows : Resolve(r)
    <3>1. Settling
      BY <2>4, ResolveSettles
    <3> QED BY <2>4, <3>1, SettlingKeepsOver DEF Resolve
  <2> QED BY <2>1, <2>2, <2>3, <2>4, WorldKeepsOver DEF Next
<1>3. OverInv => IdleMeansOver
  BY DEF OverInv, IdleMeansOver, Due, IsDue, IsLive
<1> QED
  BY <1>1, <1>2, <1>3, PTL DEF Spec
=============================================================================
