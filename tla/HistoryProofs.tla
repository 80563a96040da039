---------------------------- MODULE HistoryProofs ----------------------------
(***************************************************************************)
(* What is proved of HistoryStore, for any number of rows, generations,    *)
(* crashes and files gone bad, where no call outlives the instance it      *)
(* started on and no read but that of the account file fails for a moment. *)
(* Without those the properties fail: the runs adopt_unread and            *)
(* migrate_over, and the history run with Overlap TRUE, show how.          *)
(***************************************************************************)
EXTENDS HistoryStore, FiniteSetTheorems, TLAPS

\* What the theorems assume of the constants.
Steady == ~Overlap /\ "sidecar" \notin Faults /\ "scan" \notin Faults

Rank(s) == IF s = "unknown" THEN 1 ELSE IF s = "pending" THEN 2 ELSE 3

\* Every row of the one set is in the other, at least as far.
Covers(T, S) == \A c \in S : \E d \in T : d.row = c.row /\ Rank(c.status) <= Rank(d.status)

Live == {"account", "orphan"}
In(r, f) == \E c \in disk[f].copies : c.row = r

\* The operation under way, and the generation the account is open under.
Job == op[installed]
Here == open[installed]

Operation == {Idle} \cup Writing \cup Merging \cup Moving
Opening == [pc : {"seed", "open", "moving"}, at : Insts, gen : Generations,
            older : SUBSET Generations]

OnDisk ==
    /\ DOMAIN disk \subseteq Name /\ disk \in [DOMAIN disk -> Box]
    /\ IsFiniteSet(DOMAIN disk)
    /\ \A f \in DOMAIN disk : f.kind = "account" => f.n = 0
    /\ \A f \in DOMAIN disk : f.kind \in {"orphan", "staged"} => disk[f].ok

Typed ==
    /\ OnDisk
    /\ keyGen \in Generations
    /\ open \in [Insts -> Generations \cup {Closed}]
    /\ op \in [Insts -> Operation]
    /\ installed \in Insts
    /\ opener \in {Idle} \cup Opening
    /\ fate \in [Rows -> {"new", "writing", "recorded", "refused"}]
    /\ mine \subseteq Rows /\ burnt \subseteq Rows
    /\ crashes \in Nat

-----------------------------------------------------------------------------
(* Files                                                                   *)

\* A number not in use can be found: there are more than are used.
LEMMA FreshIsFree ==
    ASSUME Typed, NEW g \in Generations, NEW kind \in Kinds
    PROVE  /\ Fresh(g, kind) \in Name
           /\ Fresh(g, kind).gen = g /\ Fresh(g, kind).kind = kind /\ Fresh(g, kind).n # 0
           /\ Fresh(g, kind) \notin DOMAIN disk
           /\ \A f \in Names(kind) : f.n # Fresh(g, kind).n
<1> DEFINE used == {f.n : f \in Names(kind)}
           top == Cardinality(used) + 1
<1>1. IsFiniteSet(Names(kind))
  <2>1. Names(kind) \subseteq DOMAIN disk
    BY DEF Names
  <2> QED
    BY <2>1, FS_Subset DEF Typed, OnDisk
<1>2. IsFiniteSet(used)
  <2> DEFINE number == [f \in Names(kind) |-> f.n]
  <2>1. number \in Surjection(Names(kind), used)
    BY DEF Surjection
  <2> QED
    BY <1>1, <2>1, FS_Surjection
<1>3. Cardinality(used) \in Nat
  BY <1>2, FS_CardinalityType
<1>4. \E n \in 1..top : n \notin used
  <2>1. SUFFICES ASSUME 1..top \subseteq used PROVE FALSE
    OBVIOUS
  <2>2. Cardinality(1..top) = top
    <3>1. 1 \in Int /\ top \in Int /\ ~(1 > top)
      BY <1>3
    <3>2. Cardinality(1..top) = IF 1 > top THEN 0 ELSE top - 1 + 1
      BY <3>1, FS_Interval
    <3> QED
      BY <3>1, <3>2, <1>3
  <2>3. Cardinality(1..top) <= Cardinality(used)
    BY <2>1, <1>2, FS_Subset
  <2> QED
    BY <2>2, <2>3, <1>3
<1> DEFINE n == CHOOSE k \in 1..top : k \notin used
<1>5. n \in 1..top /\ n \notin used
  BY <1>4
<1>6. Fresh(g, kind) = [gen |-> g, kind |-> kind, n |-> n]
  BY DEF Fresh
<1> HIDE DEF n
<1>7. n \in Nat /\ n # 0
  BY <1>3, <1>5
<1>8. \A f \in Names(kind) : f.n # n
  BY <1>5
<1>9. Fresh(g, kind) \notin DOMAIN disk
  BY <1>6, <1>8 DEF Names
<1> QED
  BY <1>6, <1>7, <1>8, <1>9 DEF Name

LEMMA AccountIs ==
    ASSUME NEW g \in Generations
    PROVE  /\ Account(g) \in Name /\ Account(g).gen = g
           /\ Account(g).kind = "account" /\ Account(g).n = 0
BY DEF Account, Name, Kinds

\* There is one account file of a generation.
LEMMA AccountFiles ==
    ASSUME Typed, NEW f \in DOMAIN disk, f.kind = "account"
    PROVE  f = Account(f.gen)
BY DEF Typed, OnDisk, Account, Name

-----------------------------------------------------------------------------
(* The inductive invariant                                                 *)

\* No box of the generation can still be read.
Dead(g) ==
    \A f \in DOMAIN disk :
        f.kind \in {"account", "orphan", "staged"} /\ disk[f].ok => f.gen # g

\* The operation under way is the opener's move of the files still in Todo.
Moves == Job.pc = "move" \/ (Job.pc \in {"rename", "drop"} /\ Job.task.what = "move")
Todo == IF Moves THEN Job.task.todo ELSE {}

\* One instance is at work, on the opener's order or on its own.
Alone ==
    /\ \A i \in Insts \ {installed} : op[i] = Idle /\ open[i] = Closed
    /\ opener.pc # "idle" => opener.at = installed
    /\ opener.pc = "moving" <=> Moves
    /\ Job.pc = "move" => Job.task.what = "move" /\ Job.gen = opener.gen
    /\ Job.pc = "merge" =>
        /\ Job.task.what = "add" /\ Job.gen = Here
        /\ IsOpen(installed) /\ Account(Here) \notin DOMAIN disk
    /\ Job.pc \in {"rename", "drop"} =>
        IF Job.task.what = "move" THEN Job.dest.gen = opener.gen
                                  ELSE IsOpen(installed) /\ Job.dest.gen = Here

\* No file is newer than the key the account is open under, or will be.
Bounds ==
    /\ \A f \in DOMAIN disk : f.gen <= keyGen
    /\ IsOpen(installed) =>
        /\ Here <= keyGen
        /\ opener.pc # "moving" => \A f \in DOMAIN disk : f.gen <= Here
    /\ opener.pc # "idle" =>
        /\ opener.gen <= keyGen
        /\ IsOpen(installed) => Here < opener.gen
        /\ \A f \in DOMAIN disk : f.gen <= opener.gen
        /\ \A g \in opener.older : g < opener.gen

\* What is not readable under the key at hand is on the opener's list.
OldAreDead ==
    IsOpen(installed) /\ opener.pc # "moving" => \A g \in Generations : g < Here => Dead(g)

OldAreKnown ==
    opener.pc \in {"seed", "open"} =>
        /\ \A g \in Generations : ~Dead(g) => g \in KeysFor(installed, opener.gen, opener.older)
        /\ IsOpen(installed) => opener.older = {}

TodoIsAll ==
    Moves =>
        /\ \A f \in DOMAIN disk : f.gen < opener.gen /\ ~Dead(f.gen) => f \in Todo
        /\ Todo \subseteq DOMAIN disk
        /\ \A f \in Todo : f.gen < opener.gen
        /\ \A f \in Todo : \A h \in DOMAIN disk : h.gen = f.gen => h \in Todo

OldIsListed == OldAreDead /\ OldAreKnown /\ TodoIsAll

\* A file the opener reads, or may yet be given the key of.
Alive(g) ==
    \/ ~Dead(g)
    \/ opener.pc \in {"seed", "open"} /\ (g \in opener.older \/ g = Here)
    \/ \E f \in Todo : f.gen = g

\* Of two files of one name in two generations the newer has all the older has:
\* the older is the source of a move that landed.
Newer ==
    \A f, h \in DOMAIN disk :
        f.kind = h.kind /\ f.kind \in Live /\ f.n = h.n /\ f.gen < h.gen /\ Alive(f.gen)
            => Covers(disk[h].copies, disk[f].copies)

\* Bytes set aside are never set aside under a name that was taken.
AsidesApart == \A f, h \in Names("aside") : f.n = h.n => f = h

\* What the write will absorb: the file it replaces and those it removes.
Src(dest, drop) == drop \cup ({dest} \cap DOMAIN disk)

\* A list about to land has all it replaces, and beyond that the row its caller
\* adds, or edits one step further.
MergedList(task, dest, copies, drop) ==
    /\ \A f \in drop : f.kind = "orphan"
    /\ \/ dest = Account(dest.gen)
       \/ dest.kind = "orphan" /\ dest \notin DOMAIN disk /\ drop = {}
    /\ \A f \in Src(dest, drop) : Covers(copies, disk[f].copies)
    /\ \A c \in copies :
        \/ \E f \in Src(dest, drop) : c \in disk[f].copies
        \/ task.what = "add" /\ c = [row |-> task.row, status |-> "unknown"]
        \/ /\ task.what = "edit" /\ c.row = task.row
           /\ \E f \in Src(dest, drop) : \E d \in disk[f].copies :
                d.row = c.row /\ Rank(c.status) = Rank(d.status) + 1
    /\ task.what = "add" => NewRow(task.row) \subseteq copies

\* A file sealed again is the newest of the list, whole, to its own name.
SealedAgain(task, dest, copies, drop) ==
    \E f \in task.todo :
        /\ drop = {f} /\ dest = [f EXCEPT !.gen = opener.gen] /\ dest \notin DOMAIN disk
        /\ copies = disk[f].copies /\ f.kind # "aside"
        /\ \A g \in task.todo : g.gen <= f.gen

Staged(task, dest, copies, drop) ==
    /\ drop \subseteq DOMAIN disk /\ dest \notin drop
    /\ IF task.what = "move" THEN SealedAgain(task, dest, copies, drop)
                             ELSE MergedList(task, dest, copies, drop)

InFlight ==
    /\ Job.pc = "rename" =>
        /\ Job.tmp \in DOMAIN disk /\ Job.tmp.kind = "staged" /\ Job.tmp.gen = Job.dest.gen
        /\ Job.tmp # Job.dest /\ Job.tmp \notin Job.drop
        /\ Staged(Job.task, Job.dest, disk[Job.tmp].copies, Job.drop)
    /\ Job.pc = "drop" =>
        /\ Job.dest \in DOMAIN disk /\ Job.drop \subseteq DOMAIN disk /\ Job.dest \notin Job.drop
        /\ \A f \in Job.drop : Covers(disk[Job.dest].copies, disk[f].copies)
        /\ IF Job.task.what = "move"
           THEN \E f \in Todo : Job.drop = {f} /\ Job.dest = [f EXCEPT !.gen = opener.gen]
                                /\ f.kind # "aside"
           ELSE Job.dest.kind \in Live /\ \A f \in Job.drop : f.kind = "orphan"
        /\ Job.task.what = "add" => NewRow(Job.task.row) \subseteq disk[Job.dest].copies

\* Where the rows are whose fate is open, or sealed.
FateOK ==
    /\ \A r \in Rows : fate[r] \in {"new", "refused"} => \A f \in DOMAIN disk : ~In(r, f)
    /\ Job.pc \in {"merge", "rename", "drop"} /\ Job.task.what = "add" =>
        fate[Job.task.row] = "writing" /\ Job.task.row \in mine
    /\ Job.pc = "merge" => \A f \in DOMAIN disk : ~In(Job.task.row, f)
    /\ Job.pc = "rename" /\ Job.task.what = "add" =>
        \A f \in DOMAIN disk \ {Job.tmp} : ~In(Job.task.row, f)

\* The list about to land, where it will be read from.
Landing == IF Job.pc = "rename" /\ Job.dest.kind \in Live THEN {Job.tmp} ELSE {}

\* Since the seed, what can still be read of an earlier process is over.
Seeded ==
    opener.pc \in {"open", "moving"} \/ IsOpen(installed) =>
        \A r \in Rows \ (mine \cup burnt) :
            \A f \in Legible(Live) \cup Landing : In(r, f) => Furthest(r) = "settled"

\* Only a crash leaves a staged file behind.
Litter == crashes = 0 => \A f \in Names("staged") : Job.pc = "rename" /\ f = Job.tmp

Files == Typed /\ Alone /\ Bounds /\ OldIsListed /\ AsidesApart /\ InFlight
HInv == Files /\ Newer /\ FateOK /\ Seeded /\ Litter /\ RecordedStays

-----------------------------------------------------------------------------
(* Steps                                                                   *)

LEMMA Solo ==
    ASSUME Steady, Typed, Alone, NEW i \in Insts, Ready(i) \/ op[i].pc # "idle"
    PROVE  i = installed
BY DEF Steady, Alone, Ready, Idle

\* Each step is of the instance installed, or of what is around the store.
Step ==
    \/ \E r \in Rows :
        \/ Add(installed, r) \/ AddBeside(installed, r) \/ Quarantine(installed, r)
        \/ QuarantineFails(installed, r) \/ Edit(installed, r)
    \/ Merge(installed) \/ Rename(installed) \/ WriteFails(installed)
    \/ Drop(installed) \/ Answer(installed)
    \/ \E f \in DOMAIN disk :
        MoveLanded(installed, f) \/ MoveAside(installed, f) \/ Move(installed, f)
    \/ MoveOn(installed) \/ MoveFails(installed) \/ OpenDone(installed)
    \/ Scan \/ Seed \/ OpenStart \/ LockAccount
    \/ Rotate \/ Reinit \/ (\E g \in Generations : Spoil(g)) \/ Crash

LEMMA NextIsStep == ASSUME Steady, Typed, Alone, StoreNext PROVE Step
<1>1. CASE Scan \/ Seed \/ OpenStart \/ LockAccount \/ Rotate \/ Reinit
           \/ (\E g \in Generations : Spoil(g)) \/ Crash
  BY <1>1 DEF Step
<1>2. CASE \E i \in Insts :
              \/ \E r \in Rows :
                  \/ Add(i, r) \/ AddBeside(i, r) \/ Quarantine(i, r) \/ QuarantineFails(i, r)
                  \/ Edit(i, r)
              \/ Merge(i) \/ Rename(i) \/ WriteFails(i) \/ Drop(i) \/ Answer(i)
              \/ \E f \in DOMAIN disk : MoveLanded(i, f) \/ MoveAside(i, f) \/ Move(i, f)
              \/ MoveOn(i) \/ MoveFails(i) \/ OpenDone(i)
  <2>1. PICK i \in Insts :
              \/ \E r \in Rows :
                  \/ Add(i, r) \/ AddBeside(i, r) \/ Quarantine(i, r) \/ QuarantineFails(i, r)
                  \/ Edit(i, r)
              \/ Merge(i) \/ Rename(i) \/ WriteFails(i) \/ Drop(i) \/ Answer(i)
              \/ \E f \in DOMAIN disk : MoveLanded(i, f) \/ MoveAside(i, f) \/ Move(i, f)
              \/ MoveOn(i) \/ MoveFails(i) \/ OpenDone(i)
    BY <1>2
  <2>2. Ready(i) \/ op[i].pc # "idle"
    BY <2>1 DEF Add, AddBeside, Quarantine, QuarantineFails, Edit, Begin, Merge, Rename,
       WriteFails, Drop, Answer, MoveLanded, MoveAside, Move, NextFile, MoveOn, MoveFails, OpenDone
  <2>3. i = installed
    BY <2>2, Solo
  <2> QED
    BY <2>1, <2>3 DEF Step
<1> QED
  BY <1>1, <1>2 DEF StoreNext

\* What an operation does to `op`.
LEMMA SetIs ==
    ASSUME Typed, NEW x \in Operation, Set(installed, x)
    PROVE  /\ op' \in [Insts -> Operation] /\ op'[installed] = x
           /\ \A i \in Insts \ {installed} : op'[i] = op[i]
BY DEF Typed, OnDisk, Set

\* What is written, before it lands.
Staging(task, dest, copies, drop, tmp) ==
    /\ tmp \notin DOMAIN disk /\ tmp.kind = "staged" /\ tmp.gen = dest.gen
    /\ \A f \in Names("staged") : f.n # tmp.n
    /\ DOMAIN disk' = DOMAIN disk \cup {tmp}
    /\ disk' \in [DOMAIN disk' -> Box]
    /\ disk'[tmp] = [copies |-> copies, ok |-> TRUE]
    /\ \A x \in DOMAIN disk : disk'[x] = disk[x]
    /\ op' \in [Insts -> Operation]
    /\ op'[installed] = [pc |-> "rename", task |-> task, dest |-> dest, drop |-> drop, tmp |-> tmp]
    /\ \A i \in Insts \ {installed} : op'[i] = op[i]

LEMMA WriteIs ==
    ASSUME Typed, NEW task \in Tasks, NEW dest \in Name, NEW copies \in SUBSET Copy,
           NEW drop \in SUBSET DOMAIN disk, Write(installed, task, dest, copies, drop)
    PROVE  \E tmp \in Name : Staging(task, dest, copies, drop, tmp)
<1> DEFINE tmp == Fresh(dest.gen, "staged")
           box == [copies |-> copies, ok |-> TRUE]
           x == [pc |-> "rename", task |-> task, dest |-> dest, drop |-> drop, tmp |-> tmp]
<1>1. /\ tmp \in Name /\ tmp.gen = dest.gen /\ tmp.kind = "staged"
      /\ tmp \notin DOMAIN disk /\ \A f \in Names("staged") : f.n # tmp.n
  <2>1. dest.gen \in Generations /\ "staged" \in Kinds
    BY DEF Name, Kinds
  <2> QED
    BY <2>1, FreshIsFree
<1>2. disk' = With(disk, tmp, box) /\ Set(installed, x)
  BY DEF Write
<1> HIDE DEF tmp
<1>3. x \in Operation
  BY <1>1 DEF Operation, Writing, Typed, OnDisk
<1>4. box \in Box
  BY DEF Box
<1> HIDE DEF box
<1>5. /\ DOMAIN disk' = DOMAIN disk \cup {tmp}
      /\ disk'[tmp] = box
      /\ \A y \in DOMAIN disk \ {tmp} : disk'[y] = disk[y]
  BY <1>2 DEF With
<1>6. disk' \in [DOMAIN disk' -> Box]
  BY <1>1, <1>2, <1>4 DEF With, Typed, OnDisk
<1>7. /\ op' \in [Insts -> Operation] /\ op'[installed] = x
      /\ \A i \in Insts \ {installed} : op'[i] = op[i]
  <2> HIDE DEF x
  <2> QED
    BY <1>2, <1>3, SetIs
<1> QED
  BY <1>1, <1>5, <1>6, <1>7 DEF Staging, box

LEMMA CopiesAre ==
    ASSUME Typed, NEW files \in SUBSET DOMAIN disk
    PROVE  CopiesIn(files) \in SUBSET Copy
BY DEF Typed, OnDisk, CopiesIn, Box

LEMMA AllOrphans ==
    ASSUME Steady, Typed, NEW g
    PROVE  Adoptions(g) = {CopiesIn(Orphans(g))} /\ Orphans(g) \in SUBSET DOMAIN disk
BY DEF Steady, Adoptions, Orphans, Names

\* `read` and the sidecars are the whole of the files to be replaced, which are
\* all legible.
LEMMA ReadsAll ==
    ASSUME Typed, NEW g \in Generations, Readable(g)
    PROVE  /\ Read(g) \cup CopiesIn(Orphans(g)) = CopiesIn(Src(Account(g), Orphans(g)))
           /\ \A f \in Src(Account(g), Orphans(g)) : disk[f].ok /\ f \in DOMAIN disk /\ f.kind \in Live
<1>1. {f \in Names("account") : f.gen = g} = {Account(g)} \cap DOMAIN disk
  BY AccountFiles, AccountIs DEF Names
<1>2. Read(g) = CopiesIn({Account(g)} \cap DOMAIN disk)
  BY <1>1 DEF Read
<1>3. \A f \in Src(Account(g), Orphans(g)) : disk[f].ok /\ f \in DOMAIN disk /\ f.kind \in Live
  BY <1>1, AccountIs DEF Src, Orphans, Names, Readable, Typed, OnDisk, Live
<1>4. CopiesIn({Account(g)} \cap DOMAIN disk) \cup CopiesIn(Orphans(g))
        = CopiesIn(Src(Account(g), Orphans(g)))
  BY DEF CopiesIn, Src
<1> QED
  BY <1>2, <1>3, <1>4

-----------------------------------------------------------------------------
(* Lists                                                                   *)

LEMMA RankIs == \A s : Rank(s) \in {1, 2, 3}
BY DEF Rank

LEMMA CoversPart == ASSUME NEW S, NEW T, S \subseteq T PROVE Covers(T, S)
BY RankIs DEF Covers

LEMMA CoversOn ==
    ASSUME NEW S, NEW T, NEW U, Covers(T, S), Covers(U, T)
    PROVE  Covers(U, S)
<1> SUFFICES ASSUME NEW c \in S PROVE \E d \in U : d.row = c.row /\ Rank(c.status) <= Rank(d.status)
  BY DEF Covers
<1>1. PICK d \in T : d.row = c.row /\ Rank(c.status) <= Rank(d.status)
  BY DEF Covers
<1>2. PICK e \in U : e.row = d.row /\ Rank(d.status) <= Rank(e.status)
  BY DEF Covers
<1>3. Rank(c.status) <= Rank(e.status)
  BY <1>1, <1>2, RankIs
<1> QED
  BY <1>1, <1>2, <1>3

\* An edit leaves a copy alone or takes one of its row one step on.
Edits(r, all, copies) ==
    /\ copies \in SUBSET Copy
    /\ Covers(copies, all)
    /\ \A c \in copies :
        c \in all \/ (c.row = r /\ \E d \in all : d.row = c.row /\ Rank(c.status) = Rank(d.status) + 1)

LEMMA ResolveEdits ==
    ASSUME NEW r \in Rows, NEW all \in SUBSET Copy
    PROVE  Edits(r, all, {Resolved(r, c) : c \in all})
<1>1. ASSUME NEW c \in all
      PROVE  /\ Resolved(r, c) \in Copy /\ Resolved(r, c).row = c.row
             /\ \/ Resolved(r, c) = c
                \/ c.row = r /\ Rank(Resolved(r, c).status) = Rank(c.status) + 1
  BY DEF Resolved, Copy, Statuses, Rank
<1>2. Covers({Resolved(r, c) : c \in all}, all)
  <2>1. ASSUME NEW c \in all PROVE Rank(c.status) <= Rank(Resolved(r, c).status)
    BY <1>1, RankIs
  <2> QED
    BY <1>1, <2>1 DEF Covers
<1> QED
  BY <1>1, <1>2 DEF Edits

LEMMA SettleEdits ==
    ASSUME NEW r \in Rows, NEW all \in SUBSET Copy
    PROVE  Edits(r, all, {Settled(r, c) : c \in all})
<1>1. ASSUME NEW c \in all
      PROVE  /\ Settled(r, c) \in Copy /\ Settled(r, c).row = c.row
             /\ \/ Settled(r, c) = c
                \/ c.row = r /\ Rank(Settled(r, c).status) = Rank(c.status) + 1
  BY DEF Settled, Copy, Statuses, Rank
<1>2. Covers({Settled(r, c) : c \in all}, all)
  <2>1. ASSUME NEW c \in all PROVE Rank(c.status) <= Rank(Settled(r, c).status)
    BY <1>1, RankIs
  <2> QED
    BY <1>1, <2>1 DEF Covers
<1> QED
  BY <1>1, <1>2 DEF Edits

LEMMA StampEdits == ASSUME NEW r, NEW all \in SUBSET Copy PROVE Edits(r, all, all)
BY CoversPart DEF Edits

\* A call stages a list over the open account's files.
Lists(task, dest, copies, drop, tmp) ==
    /\ Staging(task, dest, copies, drop, tmp)
    /\ task.what \in {"add", "edit"} /\ Staged(task, dest, copies, drop)
    /\ IsOpen(installed) /\ dest.gen = Here /\ Job.pc \in {"idle", "merge"}
    /\ \A f \in Src(dest, drop) : disk[f].ok /\ f \in DOMAIN disk /\ f.kind \in Live
    /\ \/ /\ task.what = "add" /\ fate[task.row] \in {"new", "writing"}
          /\ fate' = [fate EXCEPT ![task.row] = "writing"] /\ mine' = mine \cup {task.row}
          /\ \A f \in DOMAIN disk : ~In(task.row, f)
       \/ task.what = "edit" /\ UNCHANGED <<fate, mine>>
    /\ UNCHANGED <<keyGen, open, installed, opener, burnt, crashes, spoils>>

\* The opener stages a file sealed again.
Seals(task, dest, copies, drop, tmp) ==
    /\ Staging(task, dest, copies, drop, tmp)
    /\ task = Job.task /\ task.what = "move" /\ Staged(task, dest, copies, drop)
    /\ dest.gen = opener.gen /\ Job.pc = "move" /\ \A f \in drop : disk[f].ok
    /\ UNCHANGED <<keyGen, open, installed, opener, fate, mine, burnt, crashes, spoils>>

LEMMA HereIs == ASSUME Typed, IsOpen(installed) PROVE Here \in Generations
BY DEF Typed, OnDisk, IsOpen, Here

\* A list of what the files have, and maybe a row more, misses nothing of them.
LEMMA WholeList ==
    ASSUME Typed, NEW g \in Generations, NEW task, NEW copies,
           LET all == CopiesIn(Src(Account(g), Orphans(g)))
           IN  \/ /\ task.what = "add" /\ copies = all \cup NewRow(task.row)
               \/ task.what = "edit" /\ Edits(task.row, all, copies)
    PROVE  Staged(task, Account(g), copies, Orphans(g))
<1> DEFINE src == Src(Account(g), Orphans(g))
           all == CopiesIn(src)
<1>1. /\ \A f \in Orphans(g) : f.kind = "orphan" /\ f \in DOMAIN disk
      /\ Account(g) \notin Orphans(g) /\ Account(g) = Account(Account(g).gen)
  BY AccountIs DEF Orphans, Names
<1>2. Covers(copies, all)
  BY CoversPart DEF Edits
<1>3. ASSUME NEW f \in src PROVE Covers(copies, disk[f].copies)
  <2>1. Covers(all, disk[f].copies)
    BY CoversPart DEF CopiesIn
  <2> QED
    BY <1>2, <2>1, CoversOn
<1>4. \A c : c \in all <=> \E f \in src : c \in disk[f].copies
  BY DEF CopiesIn
<1>5. ASSUME NEW c \in copies
      PROVE  \/ \E f \in src : c \in disk[f].copies
             \/ task.what = "add" /\ c = [row |-> task.row, status |-> "unknown"]
             \/ /\ task.what = "edit" /\ c.row = task.row
                /\ \E f \in src : \E d \in disk[f].copies :
                     d.row = c.row /\ Rank(c.status) = Rank(d.status) + 1
  <2> HIDE DEF src
  <2>1. CASE task.what = "add" /\ copies = all \cup NewRow(task.row)
    BY <2>1, <1>4 DEF NewRow
  <2>2. CASE task.what = "edit" /\ Edits(task.row, all, copies)
    <3>1. CASE c \in all
      BY <3>1, <1>4
    <3>2. CASE c.row = task.row /\ \E d \in all : d.row = c.row /\ Rank(c.status) = Rank(d.status) + 1
      <4>1. PICK d \in all : d.row = c.row /\ Rank(c.status) = Rank(d.status) + 1
        BY <3>2
      <4>2. PICK f \in src : d \in disk[f].copies
        BY <1>4
      <4> QED
        BY <2>2, <3>2, <4>1, <4>2
    <3> QED
      BY <2>2, <3>1, <3>2 DEF Edits
  <2> QED
    BY <2>1, <2>2 DEF src
<1>6. task.what = "add" => NewRow(task.row) \subseteq copies
  OBVIOUS
<1>7. MergedList(task, Account(g), copies, Orphans(g))
  BY <1>1, <1>3, <1>5, <1>6 DEF MergedList
<1> QED
  BY <1>1, <1>7 DEF Staged

LEMMA AddLists ==
    ASSUME Steady, Typed, FateOK, NEW r \in Rows, Add(installed, r)
    PROVE  \E task \in Tasks, dest \in Name, copies \in SUBSET Copy,
              drop \in SUBSET DOMAIN disk, tmp \in Name : Lists(task, dest, copies, drop, tmp)
<1> DEFINE task == [what |-> "add", row |-> r]
           all == Read(Here) \cup CopiesIn(Orphans(Here))
           copies == all \cup NewRow(r)
<1>1. /\ IsOpen(installed) /\ Job.pc = "idle" /\ fate[r] = "new" /\ Readable(Here)
      /\ fate' = [fate EXCEPT ![r] = "writing"] /\ mine' = mine \cup {r}
      /\ UNCHANGED <<keyGen, open, installed, opener, burnt, crashes, spoils>>
  BY DEF Add, Begin, Ready, Free, Job, Here
<1>2. /\ Here \in Generations /\ Account(Here) \in Name /\ Account(Here).gen = Here
      /\ Orphans(Here) \in SUBSET DOMAIN disk /\ Adoptions(Here) = {CopiesIn(Orphans(Here))}
  BY <1>1, HereIs, AccountIs, AllOrphans
<1>3. /\ all = CopiesIn(Src(Account(Here), Orphans(Here)))
      /\ \A f \in Src(Account(Here), Orphans(Here)) : disk[f].ok /\ f \in DOMAIN disk /\ f.kind \in Live
  BY <1>1, <1>2, ReadsAll
<1>4. all \in SUBSET Copy
  <2>1. Src(Account(Here), Orphans(Here)) \in SUBSET DOMAIN disk
    BY <1>3
  <2> QED
    BY <1>3, <2>1, CopiesAre
<1>5. task \in Tasks /\ task.what = "add" /\ task.row = r
  BY DEF Tasks
<1>6. copies \in SUBSET Copy
  BY <1>4 DEF NewRow, Copy, Statuses
<1>7. Write(installed, task, Account(Here), copies, Orphans(Here))
  BY <1>2 DEF Add, Here
<1> HIDE DEF task
<1>8. Staged(task, Account(Here), copies, Orphans(Here))
  BY <1>2, <1>3, <1>5, WholeList
<1>9. PICK tmp \in Name : Staging(task, Account(Here), copies, Orphans(Here), tmp)
  <2> HIDE DEF copies
  <2> QED
    BY <1>2, <1>5, <1>6, <1>7, WriteIs
<1>10. \A f \in DOMAIN disk : ~In(r, f)
  BY <1>1 DEF FateOK
<1>11. Lists(task, Account(Here), copies, Orphans(Here), tmp)
  BY <1>1, <1>2, <1>3, <1>5, <1>8, <1>9, <1>10 DEF Lists
<1> QED
  BY <1>2, <1>5, <1>6, <1>11

LEMMA BesideLists ==
    ASSUME Steady, Typed, FateOK, NEW r \in Rows, AddBeside(installed, r)
    PROVE  \E task \in Tasks, dest \in Name, copies \in SUBSET Copy,
              drop \in SUBSET DOMAIN disk, tmp \in Name : Lists(task, dest, copies, drop, tmp)
<1> DEFINE task == [what |-> "add", row |-> r]
           dest == Fresh(Here, "orphan")
<1>1. /\ IsOpen(installed) /\ Job.pc = "idle" /\ fate[r] = "new"
      /\ fate' = [fate EXCEPT ![r] = "writing"] /\ mine' = mine \cup {r}
      /\ UNCHANGED <<keyGen, open, installed, opener, burnt, crashes, spoils>>
  BY DEF AddBeside, Begin, Ready, Free, Job, Here
<1>2. dest \in Name /\ dest.gen = Here /\ dest.kind = "orphan" /\ dest \notin DOMAIN disk
  <2>1. Here \in Generations /\ "orphan" \in Kinds
    BY <1>1, HereIs DEF Kinds
  <2> QED
    BY <2>1, FreshIsFree
<1>3. task \in Tasks /\ task.what = "add" /\ task.row = r
  BY DEF Tasks
<1>4. NewRow(r) \in SUBSET Copy
  BY DEF NewRow, Copy, Statuses
<1>5. Write(installed, task, dest, NewRow(r), {})
  BY DEF AddBeside, Here
<1> HIDE DEF task, dest
<1>6. Src(dest, {}) = {}
  BY <1>2 DEF Src
<1>7. Staged(task, dest, NewRow(r), {})
  BY <1>2, <1>3, <1>6 DEF Staged, MergedList, NewRow
<1>8. PICK tmp \in Name : Staging(task, dest, NewRow(r), {}, tmp)
  BY <1>2, <1>3, <1>4, <1>5, WriteIs
<1>9. \A f \in DOMAIN disk : ~In(r, f)
  BY <1>1 DEF FateOK
<1>10. Lists(task, dest, NewRow(r), {}, tmp)
  BY <1>1, <1>2, <1>3, <1>6, <1>7, <1>8, <1>9 DEF Lists
<1> QED
  BY <1>2, <1>3, <1>4, <1>10

LEMMA EditLists ==
    ASSUME Steady, Typed, NEW r \in Rows, Edit(installed, r)
    PROVE  \E task \in Tasks, dest \in Name, copies \in SUBSET Copy,
              drop \in SUBSET DOMAIN disk, tmp \in Name : Lists(task, dest, copies, drop, tmp)
<1> DEFINE task == [what |-> "edit", row |-> r]
           all == Read(Here) \cup CopiesIn(Orphans(Here))
<1>1. /\ IsOpen(installed) /\ Job.pc = "idle" /\ Readable(Here)
      /\ UNCHANGED <<keyGen, open, installed, opener, fate, mine, burnt, crashes, spoils>>
  BY DEF Edit, Ready, Free, Job, Here
<1>2. /\ Here \in Generations /\ Account(Here) \in Name /\ Account(Here).gen = Here
      /\ Orphans(Here) \in SUBSET DOMAIN disk /\ Adoptions(Here) = {CopiesIn(Orphans(Here))}
  BY <1>1, HereIs, AccountIs, AllOrphans
<1>3. /\ all = CopiesIn(Src(Account(Here), Orphans(Here)))
      /\ \A f \in Src(Account(Here), Orphans(Here)) : disk[f].ok /\ f \in DOMAIN disk /\ f.kind \in Live
  BY <1>1, <1>2, ReadsAll
<1>4. all \in SUBSET Copy
  <2>1. Src(Account(Here), Orphans(Here)) \in SUBSET DOMAIN disk
    BY <1>3
  <2> QED
    BY <1>3, <2>1, CopiesAre
<1>5. task \in Tasks /\ task.what = "edit" /\ task.row = r
  BY DEF Tasks
<1>6. \E copies \in {{Resolved(r, c) : c \in all}, {Settled(r, c) : c \in all}, all} :
        Write(installed, task, Account(Here), copies, Orphans(Here))
  BY <1>2 DEF Edit, Here
<1>7. PICK copies \in {{Resolved(r, c) : c \in all}, {Settled(r, c) : c \in all}, all} :
        Write(installed, task, Account(Here), copies, Orphans(Here))
  BY <1>6
<1>8. Edits(r, all, copies) /\ copies \in SUBSET Copy
  <2> HIDE DEF all
  <2>1. Edits(r, all, copies)
    BY <1>4, <1>7, ResolveEdits, SettleEdits, StampEdits
  <2> QED
    BY <2>1 DEF Edits
<1> HIDE DEF task
<1>9. Staged(task, Account(Here), copies, Orphans(Here))
  BY <1>2, <1>3, <1>5, <1>8, WholeList
<1>10. PICK tmp \in Name : Staging(task, Account(Here), copies, Orphans(Here), tmp)
  BY <1>2, <1>5, <1>7, <1>8, WriteIs
<1>11. Lists(task, Account(Here), copies, Orphans(Here), tmp)
  BY <1>1, <1>2, <1>3, <1>5, <1>9, <1>10 DEF Lists
<1> QED
  BY <1>2, <1>5, <1>8, <1>11

LEMMA MergeLists ==
    ASSUME Steady, Typed, Alone, FateOK, Merge(installed)
    PROVE  \E task \in Tasks, dest \in Name, copies \in SUBSET Copy,
              drop \in SUBSET DOMAIN disk, tmp \in Name : Lists(task, dest, copies, drop, tmp)
<1> DEFINE r == Job.task.row
           all == CopiesIn(Orphans(Here))
           copies == all \cup NewRow(r)
<1>1. /\ Job.pc = "merge" /\ Job.gen = Here /\ Job.task.what = "add"
      /\ IsOpen(installed) /\ Account(Here) \notin DOMAIN disk
      /\ UNCHANGED <<keyGen, open, installed, opener, fate, mine, burnt, crashes, spoils>>
  BY DEF Merge, Alone, Job, Here
<1>2. /\ Here \in Generations /\ Account(Here) \in Name /\ Account(Here).gen = Here
      /\ Orphans(Here) \in SUBSET DOMAIN disk /\ Adoptions(Here) = {CopiesIn(Orphans(Here))}
  BY <1>1, HereIs, AccountIs, AllOrphans
<1>3. Src(Account(Here), Orphans(Here)) = Orphans(Here)
  BY <1>1 DEF Src
<1>4. \A f \in Orphans(Here) : disk[f].ok /\ f \in DOMAIN disk /\ f.kind \in Live
  BY DEF Typed, OnDisk, Orphans, Names, Live
<1>5. /\ Job.task \in Tasks /\ r \in Rows /\ Job \in Operation
  <2>1. Job \in Operation
    BY DEF Typed, OnDisk, Job
  <2>2. Job \in Merging
    BY <1>1, <2>1 DEF Operation, Idle, Writing, Moving, Merging
  <2> QED
    BY <1>1, <2>1, <2>2 DEF Merging, Tasks
<1>6. copies \in SUBSET Copy
  <2>1. all \in SUBSET Copy
    BY <1>2, CopiesAre
  <2>2. NewRow(r) \in SUBSET Copy
    BY <1>5 DEF NewRow, Copy, Statuses
  <2> QED
    BY <2>1, <2>2
<1>7. Write(installed, Job.task, Account(Here), copies, Orphans(Here))
  BY <1>1, <1>2 DEF Merge, Job
<1>8. Staged(Job.task, Account(Here), copies, Orphans(Here))
  BY <1>1, <1>2, <1>3, WholeList
<1>9. PICK tmp \in Name : Staging(Job.task, Account(Here), copies, Orphans(Here), tmp)
  BY <1>2, <1>5, <1>6, <1>7, WriteIs
<1>10. /\ fate[r] = "writing" /\ r \in mine /\ \A f \in DOMAIN disk : ~In(r, f)
  BY <1>1 DEF FateOK
<1>11. fate' = [fate EXCEPT ![r] = "writing"] /\ mine' = mine \cup {r}
  BY <1>1, <1>5, <1>10 DEF Typed, OnDisk
<1>12. Lists(Job.task, Account(Here), copies, Orphans(Here), tmp)
  <2> HIDE DEF copies
  <2> QED
    BY <1>1, <1>2, <1>3, <1>4, <1>8, <1>9, <1>10, <1>11 DEF Lists
<1> QED
  BY <1>2, <1>5, <1>6, <1>12

LEMMA MoveSeals ==
    ASSUME Typed, Alone, OldIsListed, NEW f \in DOMAIN disk, Move(installed, f)
    PROVE  \E task \in Tasks, dest \in Name, copies \in SUBSET Copy,
              drop \in SUBSET DOMAIN disk, tmp \in Name : Seals(task, dest, copies, drop, tmp)
<1> DEFINE dest == [f EXCEPT !.gen = opener.gen]
<1>1. /\ Job.pc = "move" /\ Job.task.what = "move" /\ Job.gen = opener.gen
      /\ f \in Job.task.todo /\ \A g \in Job.task.todo : g.gen <= f.gen
      /\ UNCHANGED <<keyGen, open, installed, opener, fate, mine, burnt, crashes, spoils>>
  BY DEF Move, NextFile, Alone, Job
<1>2. /\ Target(installed, f) = dest /\ dest \notin DOMAIN disk /\ f.kind # "aside" /\ disk[f].ok
      /\ Write(installed, Job.task, dest, disk[f].copies, {f})
  BY <1>1 DEF Move, Target, Job
<1>3. opener \in Opening
  BY <1>1 DEF Typed, OnDisk, Alone, Moves, Idle
<1>4. dest \in Name /\ dest.gen = opener.gen /\ dest # f
  BY <1>2, <1>3 DEF Typed, OnDisk, Name, Opening
<1>5. Job.task \in Tasks
  <2>1. Job \in Operation
    BY DEF Typed, OnDisk, Job
  <2> QED
    BY <1>1, <2>1 DEF Operation, Idle, Writing, Moving, Merging
<1>6. disk[f].copies \in SUBSET Copy
  BY DEF Typed, OnDisk, Box
<1>7. Staged(Job.task, dest, disk[f].copies, {f})
  BY <1>1, <1>2, <1>4 DEF Staged, SealedAgain
<1> HIDE DEF dest
<1>8. PICK tmp \in Name : Staging(Job.task, dest, disk[f].copies, {f}, tmp)
  BY <1>2, <1>4, <1>5, <1>6, WriteIs
<1>9. Seals(Job.task, dest, disk[f].copies, {f}, tmp)
  BY <1>1, <1>2, <1>4, <1>7, <1>8 DEF Seals
<1> QED
  BY <1>4, <1>5, <1>6, <1>9

-----------------------------------------------------------------------------
(* What a step does to the files                                           *)

\* The staged list takes the name of its destination.
Landed ==
    /\ DOMAIN disk' = (DOMAIN disk \ {Job.tmp}) \cup {Job.dest}
    /\ disk'[Job.dest] = disk[Job.tmp]
    /\ \A x \in DOMAIN disk \ {Job.tmp, Job.dest} : disk'[x] = disk[x]

Gone(f) ==
    /\ DOMAIN disk' = DOMAIN disk \ {f}
    /\ \A x \in DOMAIN disk \ {f} : disk'[x] = disk[x]

\* Bytes nobody can read, or set aside before, get a name not used.
SetAside(f, g) ==
    /\ f \in DOMAIN disk /\ g \in Name \ DOMAIN disk
    /\ g.kind = "aside" /\ f.kind # "staged"
    /\ f.kind = "aside" \/ ~disk[f].ok
    /\ \A h \in Names("aside") \ {f} : h.n # g.n
    /\ DOMAIN disk' = (DOMAIN disk \ {f}) \cup {g}
    /\ disk'[g] = disk[f]
    /\ \A x \in DOMAIN disk \ {f} : disk'[x] = disk[x]

Spoiled(f) ==
    /\ f \in DOMAIN disk /\ f.kind = "account"
    /\ DOMAIN disk' = DOMAIN disk
    /\ disk'[f].copies = disk[f].copies /\ ~disk'[f].ok
    /\ \A x \in DOMAIN disk \ {f} : disk'[x] = disk[x]

LEMMA GoneIs ==
    ASSUME OnDisk, NEW f, disk' = Without(disk, f)
    PROVE  Gone(f) /\ OnDisk'
<1>1. DOMAIN disk' = DOMAIN disk \ {f}
  BY DEF Without
<1>2. IsFiniteSet(DOMAIN disk')
  BY <1>1, FS_Subset DEF OnDisk
<1>3. Gone(f)
  BY DEF Gone, Without
<1>4. disk' \in [DOMAIN disk' -> Box]
  BY DEF Without, OnDisk
<1> QED
  BY <1>1, <1>2, <1>3, <1>4 DEF OnDisk, Gone

LEMMA RenamedKeeps ==
    ASSUME OnDisk, NEW f \in DOMAIN disk, NEW g \in Name, g # f, disk' = Renamed(disk, f, g),
           g.kind = "account" => g.n = 0,
           g.kind \in {"orphan", "staged"} => disk[f].ok
    PROVE  OnDisk'
<1>1. /\ DOMAIN disk' = (DOMAIN disk \ {f}) \cup {g}
      /\ disk'[g] = disk[f]
      /\ \A x \in DOMAIN disk \ {f, g} : disk'[x] = disk[x]
  BY DEF Renamed, With, Without
<1>2. IsFiniteSet(DOMAIN disk')
  <2>1. IsFiniteSet(DOMAIN disk \ {f})
    BY FS_Subset DEF OnDisk
  <2> QED
    BY <1>1, <2>1, FS_AddElement
<1>3. disk' \in [DOMAIN disk' -> Box]
  BY <1>1 DEF Renamed, With, OnDisk
<1> QED
  BY <1>1, <1>2, <1>3 DEF OnDisk

LEMMA LandedIs ==
    ASSUME Typed, InFlight, Rename(installed)
    PROVE  /\ Landed /\ OnDisk'
           /\ op' \in [Insts -> Operation]
           /\ op'[installed].pc = "drop" /\ op'[installed].task = Job.task
           /\ op'[installed].dest = Job.dest /\ op'[installed].drop = Job.drop
           /\ \A i \in Insts \ {installed} : op'[i] = op[i]
<1>1. /\ Job.pc = "rename" /\ disk' = Renamed(disk, Job.tmp, Job.dest)
      /\ Set(installed, [Job EXCEPT !.pc = "drop"])
  BY DEF Rename, Job
<1>2. Job \in Writing
  <2>1. Job \in Operation
    BY DEF Typed, Job
  <2> QED
    BY <1>1, <2>1 DEF Operation, Idle, Merging, Moving
<1>3. /\ Job.tmp \in DOMAIN disk /\ Job.tmp # Job.dest /\ Job.dest \in Name
      /\ Job.tmp.kind = "staged"
  BY <1>1, <1>2 DEF InFlight, Writing
<1>4. Job.dest.kind = "account" => Job.dest.n = 0
  <2>1. CASE Job.task.what = "move"
    <3>1. PICK f \in Job.task.todo : Job.drop = {f} /\ Job.dest = [f EXCEPT !.gen = opener.gen]
      BY <1>1, <2>1 DEF InFlight, Staged, SealedAgain
    <3>2. f \in DOMAIN disk
      BY <1>1, <3>1 DEF InFlight, Staged
    <3>3. Job.dest.kind = f.kind /\ Job.dest.n = f.n
      BY <3>1, <3>2 DEF Typed, OnDisk, Name
    <3> QED
      BY <3>2, <3>3 DEF Typed, OnDisk
  <2>2. CASE Job.task.what # "move"
    BY <1>1, <2>2 DEF InFlight, Staged, MergedList, Account
  <2> QED
    BY <2>1, <2>2
<1>5. Landed
  BY <1>1, <1>3 DEF Landed, Renamed, With, Without
<1>6. OnDisk'
  BY <1>1, <1>3, <1>4, RenamedKeeps DEF Typed, OnDisk
<1> DEFINE x == [Job EXCEPT !.pc = "drop"]
<1>7. /\ x \in Operation /\ x.pc = "drop" /\ x.task = Job.task
      /\ x.dest = Job.dest /\ x.drop = Job.drop
  BY <1>2 DEF Operation, Writing
<1> HIDE DEF x
<1>8. /\ op' \in [Insts -> Operation] /\ op'[installed] = x
      /\ \A i \in Insts \ {installed} : op'[i] = op[i]
  BY <1>1, <1>7, SetIs DEF x
<1> QED
  BY <1>5, <1>6, <1>7, <1>8

LEMMA QuarantineIs ==
    ASSUME Typed, NEW r \in Rows, Quarantine(installed, r)
    PROVE  /\ \E g : SetAside(Account(Here), g) /\ g.gen = Here
           /\ OnDisk' /\ Account(Here) \in DOMAIN disk /\ Account(Here) \notin DOMAIN disk'
<1>1. /\ IsOpen(installed) /\ ~Readable(Here)
      /\ disk' = Renamed(disk, Account(Here), Fresh(Here, "aside"))
  BY DEF Quarantine, Begin, Ready, Here
<1>2. Here \in Generations
  BY <1>1, HereIs
<1>3. Account(Here) \in DOMAIN disk /\ ~disk[Account(Here)].ok
  <2>1. PICK f \in Names("account") : f.gen = Here /\ ~disk[f].ok
    BY <1>1 DEF Readable
  <2> QED
    BY <2>1, AccountFiles DEF Names
<1> DEFINE g == Fresh(Here, "aside")
<1>4. /\ g \in Name /\ g.gen = Here /\ g.kind = "aside" /\ g \notin DOMAIN disk
      /\ \A f \in Names("aside") : f.n # g.n
  <2>1. "aside" \in Kinds
    BY DEF Kinds
  <2> QED
    BY <1>2, <2>1, FreshIsFree
<1> HIDE DEF g
<1>5. disk' = Renamed(disk, Account(Here), g)
  BY <1>1 DEF g
<1>6. Account(Here).kind = "account" /\ g # Account(Here)
  BY <1>2, <1>4, AccountIs
<1>7. OnDisk'
  BY <1>3, <1>4, <1>5, <1>6, RenamedKeeps DEF Typed
<1>8. SetAside(Account(Here), g) /\ Account(Here) \notin DOMAIN disk'
  BY <1>3, <1>4, <1>5, <1>6 DEF SetAside, Renamed, With, Without
<1> QED
  BY <1>3, <1>4, <1>7, <1>8

LEMMA MoveAsideIs ==
    ASSUME Typed, Alone, AsidesApart, OldIsListed, NEW f \in DOMAIN disk, MoveAside(installed, f)
    PROVE  /\ \E g : SetAside(f, g) /\ g.gen = opener.gen
           /\ OnDisk'
<1>1. /\ Job.pc = "move" /\ Job.gen = opener.gen /\ opener \in Opening /\ f \in Todo
  BY DEF MoveAside, NextFile, Alone, Moves, Todo, Job, Typed, Idle
<1>2. opener.gen \in Generations /\ f.gen # opener.gen
  BY <1>1 DEF Opening, OldIsListed, TodoIsAll, Generations, Moves
<1>3. CASE f.kind = "aside" /\ disk' = Renamed(disk, f, Target(installed, f))
  <2> DEFINE g == [f EXCEPT !.gen = opener.gen]
  <2>1. Target(installed, f) = g /\ g \notin DOMAIN disk
    BY <1>1 DEF MoveAside, Target, Job
  <2>2. g \in Name /\ g.gen = opener.gen /\ g.kind = f.kind /\ g.n = f.n /\ g # f
    BY <1>2 DEF Typed, OnDisk, Name
  <2>3. disk' = Renamed(disk, f, g)
    BY <1>3, <2>1
  <2> HIDE DEF g
  <2>4. \A h \in Names("aside") \ {f} : h.n # g.n
    BY <1>3, <2>2 DEF AsidesApart, Names
  <2>5. OnDisk'
    BY <1>3, <2>2, <2>3, RenamedKeeps DEF Typed
  <2>6. SetAside(f, g)
    BY <1>3, <2>1, <2>2, <2>3, <2>4 DEF SetAside, Renamed, With, Without
  <2> QED
    BY <2>2, <2>5, <2>6
<1>4. CASE ~disk[f].ok /\ f.kind # "aside" /\ disk' = Renamed(disk, f, Fresh(Job.gen, "aside"))
  <2> DEFINE g == Fresh(opener.gen, "aside")
  <2>1. /\ g \in Name /\ g.gen = opener.gen /\ g.kind = "aside" /\ g \notin DOMAIN disk
        /\ \A h \in Names("aside") : h.n # g.n
    <3>1. "aside" \in Kinds
      BY DEF Kinds
    <3> QED
      BY <1>2, <3>1, FreshIsFree
  <2>2. disk' = Renamed(disk, f, g)
    BY <1>1, <1>4
  <2> HIDE DEF g
  <2>3. g # f
    BY <2>1
  <2>4. OnDisk'
    BY <2>1, <2>2, <2>3, RenamedKeeps DEF Typed
  <2>5. SetAside(f, g)
    BY <1>4, <2>1, <2>2, <2>3 DEF SetAside, Typed, OnDisk, Renamed, With, Without
  <2> QED
    BY <2>1, <2>4, <2>5
<1> QED
  BY <1>3, <1>4 DEF MoveAside, Job

LEMMA SpoilIs ==
    ASSUME Typed, NEW g \in Generations, Spoil(g)
    PROVE  Spoiled(Account(g)) /\ OnDisk'
<1>1. disk' = [disk EXCEPT ![Account(g)].ok = FALSE] /\ Account(g) \in DOMAIN disk
  BY DEF Spoil
<1> DEFINE box == [disk[Account(g)] EXCEPT !.ok = FALSE]
<1>2. box \in Box /\ box.copies = disk[Account(g)].copies /\ box.ok = FALSE
  BY <1>1 DEF Typed, OnDisk, Box
<1>3. disk' = [disk EXCEPT ![Account(g)] = box]
  BY <1>1
<1> HIDE DEF box
<1> QED
  BY <1>1, <1>2, <1>3, AccountIs DEF Spoiled, Typed, OnDisk

LEMMA StagingKeeps ==
    ASSUME OnDisk, NEW task, NEW dest, NEW copies, NEW drop, NEW tmp \in Name,
           Staging(task, dest, copies, drop, tmp)
    PROVE  OnDisk'
<1>1. IsFiniteSet(DOMAIN disk')
  BY FS_AddElement DEF Staging, OnDisk
<1> QED
  BY <1>1 DEF Staging, OnDisk

-----------------------------------------------------------------------------
(* Types are kept                                                          *)

LEMMA JobIs ==
    ASSUME Typed
    PROVE  /\ Job \in Operation
           /\ Job.pc \in {"rename", "drop"} => Job \in Writing
           /\ Job.pc = "merge" => Job \in Merging
           /\ Job.pc = "move" => Job \in Moving
           /\ Job.pc \in {"idle", "rename", "drop", "merge", "move"}
           /\ Idle \in Operation
<1>1. Job \in Operation
  BY DEF Typed, Job
<1> QED
  BY <1>1 DEF Operation, Idle, Writing, Merging, Moving

LEMMA OpenerIs ==
    ASSUME Typed
    PROVE  /\ opener.pc # "idle" => opener \in Opening
           /\ opener.pc \in {"idle", "seed", "open", "moving"}
           /\ Idle \in {Idle} \cup Opening /\ Idle.pc = "idle"
BY DEF Typed, Idle, Opening

\* The end of an operation that could not write.
LEMMA FailsIs ==
    ASSUME Typed, Fails(installed), Job.pc # "idle"
    PROVE  /\ op' \in [Insts -> Operation] /\ op'[installed] = Idle
           /\ \A i \in Insts \ {installed} : op'[i] = op[i]
           /\ Job.task.what = "add" => Job.task.row \in Rows /\ fate' = [fate EXCEPT ![Job.task.row] = "refused"]
           /\ Job.task.what # "add" => fate' = fate
           /\ Job.task.what = "move" => open' = [open EXCEPT ![installed] = Closed] /\ opener' = Idle
           /\ Job.task.what # "move" => open' = open /\ opener' = opener
<1>1. Idle \in Operation /\ Job.task \in Tasks
  BY JobIs DEF Writing, Merging, Moving
<1>2. Job.task.what = "add" => Job.task.row \in Rows
  BY <1>1 DEF Tasks
<1> QED
  BY <1>1, <1>2, SetIs DEF Fails, Job

\* The parts of Typed a move or a failure changes.
LEMMA FailsTyped ==
    ASSUME Typed, OnDisk', Fails(installed), Job.pc # "idle",
           UNCHANGED <<keyGen, installed, mine, burnt, crashes, spoils>>
    PROVE  Typed'
<1>1. /\ fate' \in [Rows -> {"new", "writing", "recorded", "refused"}]
      /\ open' \in [Insts -> Generations \cup {Closed}]
      /\ opener' \in {Idle} \cup Opening
  BY FailsIs DEF Typed
<1> QED
  BY <1>1, FailsIs DEF Typed, Insts

LEMMA ListsTyped ==
    ASSUME Typed, NEW task \in Tasks, NEW dest, NEW copies, NEW drop, NEW tmp \in Name,
           Lists(task, dest, copies, drop, tmp)
    PROVE  Typed'
<1>1. Staging(task, dest, copies, drop, tmp) /\ OnDisk'
  BY StagingKeeps DEF Lists, Typed
<1>2. op' \in [Insts -> Operation]
  BY <1>1 DEF Staging
<1>3. CASE task.what = "add"
  <2>1. task.row \in Rows
    BY <1>3 DEF Tasks
  <2> QED
    BY <1>1, <1>2, <1>3, <2>1 DEF Lists, Typed
<1>4. CASE task.what = "edit"
  BY <1>1, <1>2, <1>4 DEF Lists, Typed
<1> QED
  BY <1>3, <1>4 DEF Lists

LEMMA SealsTyped ==
    ASSUME Typed, NEW task, NEW dest, NEW copies, NEW drop, NEW tmp \in Name,
           Seals(task, dest, copies, drop, tmp)
    PROVE  Typed'
<1>1. Staging(task, dest, copies, drop, tmp) /\ OnDisk'
  BY StagingKeeps DEF Seals, Typed
<1>2. op' \in [Insts -> Operation]
  BY <1>1 DEF Staging
<1> QED
  BY <1>1, <1>2 DEF Seals, Typed

LEMMA SameDisk == ASSUME OnDisk, UNCHANGED disk PROVE OnDisk'
BY DEF OnDisk

\* Files removed, one at a time.
LEMMA Removals ==
    ASSUME Typed, Alone, OldIsListed, InFlight
    PROVE  /\ WriteFails(installed) => Gone(Job.tmp) /\ OnDisk'
           /\ Drop(installed) => /\ \E f \in Job.drop : UNCHANGED disk \/ Gone(f)
                                 /\ OnDisk'
           /\ \A f \in DOMAIN disk : MoveLanded(installed, f) => Gone(f) /\ OnDisk'
           /\ MoveOn(installed) => /\ \E f \in Job.drop : Gone(f)
                                   /\ OnDisk'
BY GoneIs, SameDisk DEF WriteFails, Drop, MoveLanded, MoveOn, Typed, Job

\* One step of the operation, told by what it becomes.
LEMMA OpMoves ==
    ASSUME Typed, Alone, InFlight
    PROVE  /\ \A r \in Rows : Quarantine(installed, r) =>
                /\ [pc |-> "merge", gen |-> Here, task |-> [what |-> "add", row |-> r]] \in Operation
                /\ Set(installed, [pc |-> "merge", gen |-> Here, task |-> [what |-> "add", row |-> r]])
           /\ \A f : Drop(installed) /\ f \in Job.drop =>
                [Job EXCEPT !.drop = @ \ {f}] \in Operation
           /\ \A f : Job.pc = "move" /\ f \in Job.task.todo =>
                [Job EXCEPT !.task.todo = @ \ {f}] \in Operation
           /\ \A f : MoveOn(installed) /\ f \in Job.drop =>
                [pc |-> "move", gen |-> Job.dest.gen,
                 task |-> [Job.task EXCEPT !.todo = @ \ {f}]] \in Operation
<1>1. ASSUME NEW r \in Rows, Quarantine(installed, r)
      PROVE  /\ [pc |-> "merge", gen |-> Here, task |-> [what |-> "add", row |-> r]] \in Operation
             /\ Set(installed, [pc |-> "merge", gen |-> Here, task |-> [what |-> "add", row |-> r]])
  <2>1. Here \in Generations
    BY <1>1, HereIs DEF Quarantine, Begin, Ready
  <2> QED
    BY <1>1, <2>1 DEF Quarantine, Here, Operation, Merging, Tasks
<1>2. ASSUME NEW f, Drop(installed), f \in Job.drop
      PROVE  [Job EXCEPT !.drop = @ \ {f}] \in Operation
  <2>1. Job \in Writing
    BY <1>2, JobIs DEF Drop, Job
  <2> QED
    BY <2>1 DEF Operation, Writing
<1>3. ASSUME Job.task \in Tasks, Job.task.what = "move", NEW f
      PROVE  [Job.task EXCEPT !.todo = @ \ {f}] \in Tasks
  BY <1>3 DEF Tasks
<1>4. ASSUME NEW f, Job.pc = "move", f \in Job.task.todo
      PROVE  [Job EXCEPT !.task.todo = @ \ {f}] \in Operation
  <2>1. Job \in Moving /\ Job.task.what = "move"
    BY <1>4, JobIs DEF Alone
  <2> DEFINE t == [Job.task EXCEPT !.todo = @ \ {f}]
  <2>2. t \in Tasks
    BY <2>1, <1>3 DEF Moving
  <2>3. [Job EXCEPT !.task.todo = @ \ {f}] = [Job EXCEPT !.task = t]
    OBVIOUS
  <2> HIDE DEF t
  <2> QED
    BY <2>1, <2>2, <2>3 DEF Operation, Moving
<1>5. ASSUME NEW f, MoveOn(installed), f \in Job.drop
      PROVE  [pc |-> "move", gen |-> Job.dest.gen,
              task |-> [Job.task EXCEPT !.todo = @ \ {f}]] \in Operation
  <2>1. Job \in Writing /\ Job.task.what = "move"
    BY <1>5, JobIs DEF MoveOn, Job
  <2> DEFINE t == [Job.task EXCEPT !.todo = @ \ {f}]
  <2>2. t \in Tasks
    BY <2>1, <1>3 DEF Writing
  <2>3. Job.dest.gen \in Generations
    BY <2>1 DEF Writing, Name
  <2>4. [pc |-> "move", gen |-> Job.dest.gen, task |-> t] \in Operation
    <3> HIDE DEF t
    <3> QED
      BY <2>2, <2>3 DEF Operation, Moving
  <2> QED
    BY <2>4
<1> QED
  BY <1>1, <1>2, <1>4, <1>5

LEMMA TypedKept ==
    ASSUME Steady, Typed, Alone, OldIsListed, AsidesApart, InFlight, FateOK, Step
    PROVE  Typed'
<1>1. ASSUME NEW r \in Rows, Add(installed, r) \/ AddBeside(installed, r) \/ Edit(installed, r)
      PROVE  Typed'
  BY <1>1, AddLists, BesideLists, EditLists, ListsTyped
<1>2. ASSUME Merge(installed) PROVE Typed'
  BY <1>2, MergeLists, ListsTyped
<1>3. ASSUME NEW f \in DOMAIN disk, Move(installed, f) PROVE Typed'
  BY <1>3, MoveSeals, SealsTyped
<1>4. ASSUME NEW r \in Rows, Quarantine(installed, r) PROVE Typed'
  <2>1. OnDisk' /\ op' \in [Insts -> Operation]
    BY <1>4, QuarantineIs, OpMoves, SetIs
  <2> QED
    BY <1>4, <2>1 DEF Quarantine, Begin, Typed
<1>5. ASSUME NEW r \in Rows, QuarantineFails(installed, r) PROVE Typed'
  BY <1>5 DEF QuarantineFails, Typed, OnDisk
<1>6. ASSUME Rename(installed) PROVE Typed'
  BY <1>6, LandedIs DEF Rename, Typed
<1>7. ASSUME WriteFails(installed) PROVE Typed'
  <2>1. Job.pc # "idle" /\ OnDisk'
    BY <1>7, Removals DEF WriteFails, Job
  <2> QED
    BY <1>7, <2>1, FailsTyped DEF WriteFails
<1>8. ASSUME Drop(installed) PROVE Typed'
  <2>1. OnDisk' /\ op' \in [Insts -> Operation]
    BY <1>8, Removals, OpMoves, SetIs DEF Drop, Job
  <2> QED
    BY <1>8, <2>1 DEF Drop, Typed
<1>9. ASSUME Answer(installed) PROVE Typed'
  <2>1. Job \in Writing /\ op' \in [Insts -> Operation]
    BY <1>9, JobIs, SetIs DEF Answer, Job
  <2>2. Job.task.what = "add" => Job.task.row \in Rows
    BY <2>1 DEF Writing, Tasks
  <2>3. fate' \in [Rows -> {"new", "writing", "recorded", "refused"}]
    BY <1>9, <2>2 DEF Answer, Typed, Job
  <2> QED
    BY <1>9, <2>1, <2>3 DEF Answer, Typed, OnDisk
<1>10. ASSUME NEW f \in DOMAIN disk, MoveLanded(installed, f) PROVE Typed'
  <2>1. OnDisk' /\ op' \in [Insts -> Operation]
    BY <1>10, Removals, OpMoves, SetIs DEF MoveLanded, NextFile, Done, Job
  <2> QED
    BY <1>10, <2>1 DEF MoveLanded, Typed
<1>11. ASSUME NEW f \in DOMAIN disk, MoveAside(installed, f) PROVE Typed'
  <2>1. OnDisk' /\ op' \in [Insts -> Operation]
    BY <1>11, MoveAsideIs, OpMoves, SetIs DEF MoveAside, NextFile, Done, Job
  <2> QED
    BY <1>11, <2>1 DEF MoveAside, Typed
<1>12. ASSUME MoveOn(installed) PROVE Typed'
  <2>1. OnDisk' /\ op' \in [Insts -> Operation]
    BY <1>12, Removals, OpMoves, SetIs DEF MoveOn, Job
  <2> QED
    BY <1>12, <2>1 DEF MoveOn, Typed
<1>13. ASSUME MoveFails(installed) PROVE Typed'
  <2>1. Job.pc # "idle" /\ OnDisk'
    BY <1>13, SameDisk DEF MoveFails, Job, Typed
  <2> QED
    BY <1>13, <2>1, FailsTyped DEF MoveFails
<1>14. ASSUME OpenDone(installed) PROVE Typed'
  <2>1. Job \in Moving /\ op' \in [Insts -> Operation]
    BY <1>14, JobIs, SetIs DEF OpenDone, Job
  <2>2. open' \in [Insts -> Generations \cup {Closed}]
    BY <1>14, <2>1 DEF OpenDone, Typed, Job, Moving
  <2> QED
    BY <1>14, <2>1, <2>2 DEF OpenDone, Typed, OnDisk
<1>15. ASSUME Scan PROVE Typed'
  <2>1. opener' \in Opening
    BY <1>15 DEF Scan, Typed, Opening
  <2> QED
    BY <1>15, <2>1 DEF Scan, Typed, OnDisk
<1>16. ASSUME Seed PROVE Typed'
  <2>1. opener \in Opening
    BY <1>16, OpenerIs DEF Seed
  <2>2. opener' \in Opening
    BY <1>16, <2>1 DEF Seed, Opening
  <2>3. UnsettledRows(KeysFor(opener.at, opener.gen, opener.older)) \subseteq Rows
    BY DEF UnsettledRows, CopiesIn, Legible, Typed, OnDisk, Box, Copy
  <2> QED
    BY <1>16, <2>2, <2>3 DEF Seed, Typed, OnDisk
<1>17. ASSUME OpenStart PROVE Typed'
  <2>1. opener \in Opening /\ opener.at = installed
    BY <1>17, OpenerIs DEF OpenStart, Alone
  <2>2. opener' \in Opening
    BY <1>17, <2>1 DEF OpenStart, Opening
  <2> DEFINE gens == KeysFor(opener.at, opener.gen, opener.older) \ {opener.gen}
             x == [pc |-> "move", gen |-> opener.gen,
                   task |-> [what |-> "move", todo |-> {f \in DOMAIN disk : f.gen \in gens}]]
  <2>3. x \in Operation
    BY <2>1 DEF Operation, Moving, Tasks, Typed, OnDisk, Opening
  <2>4. Set(installed, x)
    BY <1>17, <2>1 DEF OpenStart
  <2>5. op' \in [Insts -> Operation]
    <3> HIDE DEF x
    <3> QED
      BY <2>3, <2>4, SetIs
  <2> QED
    BY <1>17, <2>2, <2>5 DEF OpenStart, Typed, OnDisk
<1>18. ASSUME LockAccount PROVE Typed'
  BY <1>18 DEF LockAccount, Typed, OnDisk
<1>19. ASSUME Rotate PROVE Typed'
  BY <1>19, StoreAssumption DEF Rotate, Typed, OnDisk, Generations
<1>20. ASSUME Reinit PROVE Typed'
  BY <1>20, StoreAssumption DEF Reinit, Typed, OnDisk, Insts
<1>21. ASSUME NEW g \in Generations, Spoil(g) PROVE Typed'
  BY <1>21, SpoilIs DEF Spoil, Typed
<1>22. ASSUME Crash PROVE Typed'
  <2>1. op' \in [Insts -> Operation] /\ 1 \in Insts
    BY <1>22, JobIs, StoreAssumption DEF Crash, Insts
  <2>2. open' \in [Insts -> Generations \cup {Closed}]
    BY <1>22 DEF Crash
  <2> QED
    BY <1>22, <2>1, <2>2 DEF Crash, Typed, OnDisk
<1> QED
  BY <1>1, <1>2, <1>3, <1>4, <1>5, <1>6, <1>7, <1>8, <1>9, <1>10, <1>11, <1>12, <1>13, <1>14,
     <1>15, <1>16, <1>17, <1>18, <1>19, <1>20, <1>21, <1>22 DEF Step

-----------------------------------------------------------------------------
(* One operation at a time                                                 *)

\* Operations that end, and what starts over.
LEMMA Ends ==
    ASSUME Steady, Typed, Alone,
           \/ WriteFails(installed) \/ Answer(installed) \/ MoveFails(installed)
           \/ OpenDone(installed) \/ Reinit \/ Crash
    PROVE  \A i \in Insts : op'[i] = Idle
<1>1. CASE WriteFails(installed) \/ MoveFails(installed)
  <2>1. Job.pc # "idle" /\ Fails(installed)
    BY <1>1 DEF WriteFails, MoveFails, Job
  <2> QED
    BY <2>1, FailsIs DEF Alone
<1>2. CASE Answer(installed) \/ OpenDone(installed)
  BY <1>2, JobIs, SetIs DEF Answer, OpenDone, Alone
<1>3. CASE Reinit
  <2>1. Job = Idle
    BY <1>3, JobIs DEF Reinit, Free, Steady, Job, Operation, Idle, Writing, Merging, Moving
  <2> QED
    BY <1>3, <2>1 DEF Reinit, Alone, Job
<1>4. CASE Crash
  BY <1>4 DEF Crash
<1> QED
  BY <1>1, <1>2, <1>3, <1>4

\* Operations that go on.
LEMMA GoesOn ==
    ASSUME Steady, Typed, Alone, InFlight
    PROVE  /\ \A r \in Rows : Quarantine(installed, r) =>
                /\ Job'.pc = "merge" /\ Job'.gen = Here /\ Job'.task = [what |-> "add", row |-> r]
                /\ \A i \in Insts \ {installed} : op'[i] = op[i]
           /\ Drop(installed) => \E f \in Job.drop :
                /\ UNCHANGED disk \/ Gone(f)
                /\ Job'.pc = "drop" /\ Job'.task = Job.task /\ Job'.dest = Job.dest
                /\ Job'.drop = Job.drop \ {f}
                /\ \A i \in Insts \ {installed} : op'[i] = op[i]
           /\ \A f \in DOMAIN disk : MoveLanded(installed, f) \/ MoveAside(installed, f) =>
                /\ Job'.pc = "move" /\ Job'.gen = Job.gen /\ Job'.task.what = "move"
                /\ Job'.task.todo = Job.task.todo \ {f}
                /\ \A i \in Insts \ {installed} : op'[i] = op[i]
           /\ MoveOn(installed) => \E f \in Job.drop :
                /\ Gone(f)
                /\ Job'.pc = "move" /\ Job'.gen = Job.dest.gen /\ Job'.task.what = "move"
                /\ Job'.task.todo = Job.task.todo \ {f}
                /\ \A i \in Insts \ {installed} : op'[i] = op[i]
           /\ OpenStart =>
                /\ Job'.pc = "move" /\ Job'.gen = opener.gen /\ Job'.task.what = "move"
                /\ Job'.task.todo = {f \in DOMAIN disk : f.gen \in
                        KeysFor(installed, opener.gen, opener.older) \ {opener.gen}}
                /\ \A i \in Insts \ {installed} : op'[i] = op[i]
<1>1. ASSUME NEW r \in Rows, Quarantine(installed, r)
      PROVE  /\ Job'.pc = "merge" /\ Job'.gen = Here /\ Job'.task = [what |-> "add", row |-> r]
             /\ \A i \in Insts \ {installed} : op'[i] = op[i]
  <2> DEFINE x == [pc |-> "merge", gen |-> Here, task |-> [what |-> "add", row |-> r]]
  <2>1. x \in Operation /\ Set(installed, x) /\ installed' = installed
    BY <1>1, OpMoves DEF Quarantine, Begin
  <2>2. op'[installed] = x /\ \A i \in Insts \ {installed} : op'[i] = op[i]
    <3> HIDE DEF x
    <3> QED
      BY <2>1, SetIs
  <2> QED
    BY <2>1, <2>2 DEF Job
<1>2. ASSUME Drop(installed)
      PROVE  \E f \in Job.drop :
                /\ UNCHANGED disk \/ Gone(f)
                /\ Job'.pc = "drop" /\ Job'.task = Job.task /\ Job'.dest = Job.dest
                /\ Job'.drop = Job.drop \ {f}
                /\ \A i \in Insts \ {installed} : op'[i] = op[i]
  <2>1. PICK f \in Job.drop : /\ disk' \in {disk, Without(disk, f)}
                              /\ Set(installed, [Job EXCEPT !.drop = @ \ {f}])
    BY <1>2 DEF Drop, Job
  <2> DEFINE x == [Job EXCEPT !.drop = @ \ {f}]
  <2>2. Job \in Writing /\ Job.pc = "drop" /\ installed' = installed
    BY <1>2, JobIs DEF Drop, Job
  <2>3. x.pc = "drop" /\ x.task = Job.task /\ x.dest = Job.dest /\ x.drop = Job.drop \ {f}
    BY <2>2 DEF Writing
  <2>4. x \in Operation
    BY <1>2, OpMoves
  <2>5. op'[installed] = x /\ \A i \in Insts \ {installed} : op'[i] = op[i]
    <3> HIDE DEF x
    <3>1. Set(installed, x)
      BY <2>1 DEF x
    <3> QED
      BY <2>4, <3>1, SetIs
  <2>6. UNCHANGED disk \/ Gone(f)
    BY <2>1, GoneIs DEF Typed
  <2> HIDE DEF x
  <2> QED
    BY <2>2, <2>3, <2>5, <2>6 DEF Job
<1>3. ASSUME NEW f \in DOMAIN disk, MoveLanded(installed, f) \/ MoveAside(installed, f)
      PROVE  /\ Job'.pc = "move" /\ Job'.gen = Job.gen /\ Job'.task.what = "move"
             /\ Job'.task.todo = Job.task.todo \ {f}
             /\ \A i \in Insts \ {installed} : op'[i] = op[i]
  <2> DEFINE x == [Job EXCEPT !.task.todo = @ \ {f}]
  <2>1. /\ Set(installed, x) /\ Job.pc = "move" /\ f \in Job.task.todo /\ installed' = installed
    BY <1>3 DEF MoveLanded, MoveAside, NextFile, Done, Job
  <2>2. Job \in Moving /\ Job.task.what = "move"
    BY <2>1, JobIs DEF Alone
  <2>3. /\ x.pc = "move" /\ x.gen = Job.gen /\ x.task.what = "move"
        /\ x.task.todo = Job.task.todo \ {f}
    BY <2>2 DEF Moving, Tasks
  <2>4. x \in Operation
    BY <2>1, OpMoves
  <2> HIDE DEF x
  <2>5. op'[installed] = x /\ \A i \in Insts \ {installed} : op'[i] = op[i]
    BY <2>1, <2>4, SetIs
  <2> QED
    BY <2>1, <2>3, <2>5 DEF Job
<1>4. ASSUME MoveOn(installed)
      PROVE  \E f \in Job.drop :
                /\ Gone(f)
                /\ Job'.pc = "move" /\ Job'.gen = Job.dest.gen /\ Job'.task.what = "move"
                /\ Job'.task.todo = Job.task.todo \ {f}
                /\ \A i \in Insts \ {installed} : op'[i] = op[i]
  <2>1. PICK f \in Job.drop :
            /\ disk' = Without(disk, f)
            /\ Set(installed, [pc |-> "move", gen |-> Job.dest.gen,
                               task |-> [Job.task EXCEPT !.todo = @ \ {f}]])
    BY <1>4 DEF MoveOn, Job
  <2> DEFINE x == [pc |-> "move", gen |-> Job.dest.gen, task |-> [Job.task EXCEPT !.todo = @ \ {f}]]
  <2>2. Job \in Writing /\ Job.task.what = "move" /\ installed' = installed
    BY <1>4, JobIs DEF MoveOn, Job
  <2>3. /\ x.pc = "move" /\ x.gen = Job.dest.gen /\ x.task.what = "move"
        /\ x.task.todo = Job.task.todo \ {f}
    BY <2>2 DEF Writing, Tasks
  <2>4. x \in Operation
    BY <1>4, OpMoves
  <2>5. op'[installed] = x /\ \A i \in Insts \ {installed} : op'[i] = op[i]
    <3> HIDE DEF x
    <3>1. Set(installed, x)
      BY <2>1 DEF x
    <3> QED
      BY <2>4, <3>1, SetIs
  <2>6. Gone(f)
    BY <2>1, GoneIs DEF Typed
  <2> HIDE DEF x
  <2> QED
    BY <2>2, <2>3, <2>5, <2>6 DEF Job
<1>5. ASSUME OpenStart
      PROVE  /\ Job'.pc = "move" /\ Job'.gen = opener.gen /\ Job'.task.what = "move"
             /\ Job'.task.todo = {f \in DOMAIN disk : f.gen \in
                        KeysFor(installed, opener.gen, opener.older) \ {opener.gen}}
             /\ \A i \in Insts \ {installed} : op'[i] = op[i]
  <2>1. opener \in Opening /\ opener.at = installed /\ installed' = installed
    BY <1>5, OpenerIs DEF OpenStart, Alone
  <2> DEFINE todo == {f \in DOMAIN disk : f.gen \in
                        KeysFor(installed, opener.gen, opener.older) \ {opener.gen}}
             x == [pc |-> "move", gen |-> opener.gen, task |-> [what |-> "move", todo |-> todo]]
  <2>2. Set(installed, x)
    BY <1>5, <2>1 DEF OpenStart
  <2>3. x \in Operation
    BY <2>1 DEF Operation, Moving, Tasks, Typed, OnDisk, Opening
  <2>4. x.pc = "move" /\ x.gen = opener.gen /\ x.task.what = "move" /\ x.task.todo = todo
    OBVIOUS
  <2> HIDE DEF x
  <2>5. op'[installed] = x /\ \A i \in Insts \ {installed} : op'[i] = op[i]
    BY <2>2, <2>3, SetIs
  <2> QED
    BY <2>1, <2>4, <2>5 DEF Job
<1> QED
  BY <1>1, <1>2, <1>3, <1>4, <1>5

\* Which calls stage what.
LEMMA Stages ==
    ASSUME Steady, Typed, Alone, OldIsListed, FateOK,
           \/ \E r \in Rows : Add(installed, r) \/ AddBeside(installed, r) \/ Edit(installed, r)
           \/ Merge(installed)
           \/ \E f \in DOMAIN disk : Move(installed, f)
    PROVE  \E task \in Tasks, dest \in Name, copies \in SUBSET Copy,
              drop \in SUBSET DOMAIN disk, tmp \in Name :
                \/ Lists(task, dest, copies, drop, tmp)
                \/ Seals(task, dest, copies, drop, tmp)
<1>1. CASE \E r \in Rows : Add(installed, r)
  BY <1>1, AddLists
<1>2. CASE \E r \in Rows : AddBeside(installed, r)
  BY <1>2, BesideLists
<1>3. CASE \E r \in Rows : Edit(installed, r)
  BY <1>3, EditLists
<1>4. CASE Merge(installed)
  BY <1>4, MergeLists
<1>5. CASE \E f \in DOMAIN disk : Move(installed, f)
  BY <1>5, MoveSeals
<1> QED
  BY <1>1, <1>2, <1>3, <1>4, <1>5

\* What a step that stages does to the operation.
LEMMA StagedJob ==
    ASSUME NEW task, NEW dest, NEW copies, NEW drop, NEW tmp,
           Lists(task, dest, copies, drop, tmp) \/ Seals(task, dest, copies, drop, tmp)
    PROVE  /\ Job'.pc = "rename" /\ Job'.task = task /\ Job'.dest = dest
           /\ Job'.drop = drop /\ Job'.tmp = tmp
           /\ \A i \in Insts \ {installed} : op'[i] = op[i]
BY DEF Lists, Seals, Staging, Job

LEMMA AloneKept ==
    ASSUME Steady, Typed, Typed', Alone, Bounds, OldIsListed, AsidesApart, InFlight, FateOK, Step
    PROVE  Alone'
<1>1. ASSUME NEW task, NEW dest, NEW copies, NEW drop, NEW tmp, Lists(task, dest, copies, drop, tmp)
      PROVE  Alone'
  <2>1. /\ Job'.pc = "rename" /\ Job'.task = task /\ Job'.dest = dest
        /\ \A i \in Insts \ {installed} : op'[i] = op[i]
    BY <1>1, StagedJob
  <2>2. /\ task.what # "move" /\ IsOpen(installed) /\ dest.gen = Here
        /\ Job.pc \in {"idle", "merge"} /\ UNCHANGED <<open, installed, opener>>
    BY <1>1 DEF Lists
  <2> QED
    BY <2>1, <2>2 DEF Alone, Moves, Here, IsOpen
<1>2. ASSUME NEW task, NEW dest, NEW copies, NEW drop, NEW tmp, Seals(task, dest, copies, drop, tmp)
      PROVE  Alone'
  <2>1. /\ Job'.pc = "rename" /\ Job'.task = task /\ Job'.dest = dest
        /\ \A i \in Insts \ {installed} : op'[i] = op[i]
    BY <1>2, StagedJob
  <2>2. /\ task.what = "move" /\ dest.gen = opener.gen
        /\ Job.pc = "move" /\ UNCHANGED <<open, installed, opener>>
    BY <1>2 DEF Seals
  <2> QED
    BY <2>1, <2>2 DEF Alone, Moves, Here, IsOpen
<1>3. ASSUME NEW r \in Rows, Quarantine(installed, r) PROVE Alone'
  <2>1. /\ Job'.pc = "merge" /\ Job'.gen = Here /\ Job'.task.what = "add"
        /\ \A i \in Insts \ {installed} : op'[i] = op[i]
    <3>1. /\ Job'.pc = "merge" /\ Job'.gen = Here /\ Job'.task = [what |-> "add", row |-> r]
          /\ \A i \in Insts \ {installed} : op'[i] = op[i]
      BY <1>3, GoesOn
    <3> QED
      BY <3>1
  <2>2. /\ IsOpen(installed) /\ Job.pc = "idle" /\ UNCHANGED <<open, installed, opener>>
    BY <1>3 DEF Quarantine, Begin, Ready, Free, Job
  <2>3. Account(Here) \notin DOMAIN disk'
    BY <1>3, QuarantineIs
  <2> QED
    BY <2>1, <2>2, <2>3 DEF Alone, Moves, Here, IsOpen
<1>4. ASSUME NEW r \in Rows, QuarantineFails(installed, r) PROVE Alone'
  BY <1>4 DEF QuarantineFails, Alone, Moves, Job, Here, IsOpen
<1>5. ASSUME Rename(installed) PROVE Alone'
  <2>1. /\ Job'.pc = "drop" /\ Job'.task = Job.task /\ Job'.dest = Job.dest
        /\ \A i \in Insts \ {installed} : op'[i] = op[i]
        /\ Job.pc = "rename" /\ UNCHANGED <<open, installed, opener>>
    BY <1>5, LandedIs DEF Rename, Job
  <2> QED
    BY <2>1 DEF Alone, Moves, Here, IsOpen
<1>6. ASSUME WriteFails(installed) \/ MoveFails(installed) PROVE Alone'
  <2>1. /\ \A i \in Insts : op'[i] = Idle
        /\ Job.pc # "idle" /\ Fails(installed) /\ installed' = installed
        /\ Job.pc \in {"rename", "move", "drop"}
    BY <1>6, Ends DEF WriteFails, MoveFails, Job
  <2>2. ~Moves' /\ Job'.pc = "idle"
    BY <2>1 DEF Moves, Job, Idle, Typed
  <2>3. CASE Job.task.what = "move"
    <3>1. opener' = Idle /\ open' = [open EXCEPT ![installed] = Closed]
      BY <2>1, <2>3, FailsIs
    <3> QED
      BY <2>1, <2>2, <3>1 DEF Alone, Idle, Typed, Insts
  <2>4. CASE Job.task.what # "move"
    <3>1. opener' = opener /\ open' = open
      BY <2>1, <2>4, FailsIs
    <3>2. ~Moves
      BY <2>1, <2>4 DEF Alone, Moves
    <3> QED
      BY <2>1, <2>2, <3>1, <3>2 DEF Alone
  <2> QED
    BY <2>3, <2>4
<1>7. ASSUME Drop(installed) PROVE Alone'
  <2>1. /\ Job'.pc = "drop" /\ Job'.task = Job.task /\ Job'.dest = Job.dest
        /\ \A i \in Insts \ {installed} : op'[i] = op[i]
        /\ Job.pc = "drop" /\ UNCHANGED <<open, installed, opener>>
    BY <1>7, GoesOn DEF Drop, Job
  <2> QED
    BY <2>1 DEF Alone, Moves, Here, IsOpen
<1>8. ASSUME Answer(installed) PROVE Alone'
  <2>1. /\ \A i \in Insts : op'[i] = Idle
        /\ Job.pc = "drop" /\ Job.task.what # "move" /\ UNCHANGED <<open, installed, opener>>
    BY <1>8, Ends DEF Answer, Job
  <2>2. ~Moves' /\ Job'.pc = "idle" /\ ~Moves
    BY <2>1 DEF Moves, Job, Idle, Typed
  <2> QED
    BY <2>1, <2>2 DEF Alone
<1>9. ASSUME NEW f \in DOMAIN disk, MoveLanded(installed, f) \/ MoveAside(installed, f) PROVE Alone'
  <2>1. /\ Job'.pc = "move" /\ Job'.gen = Job.gen /\ Job'.task.what = "move"
        /\ \A i \in Insts \ {installed} : op'[i] = op[i]
    BY <1>9, GoesOn
  <2>2. Job.pc = "move" /\ UNCHANGED <<open, installed, opener>>
    BY <1>9 DEF MoveLanded, MoveAside, NextFile, Job
  <2> QED
    BY <2>1, <2>2 DEF Alone, Moves
<1>10. ASSUME MoveOn(installed) PROVE Alone'
  <2>1. /\ Job'.pc = "move" /\ Job'.gen = Job.dest.gen /\ Job'.task.what = "move"
        /\ \A i \in Insts \ {installed} : op'[i] = op[i]
    BY <1>10, GoesOn
  <2>2. Job.pc = "drop" /\ Job.task.what = "move" /\ UNCHANGED <<open, installed, opener>>
    BY <1>10 DEF MoveOn, Job
  <2> QED
    BY <2>1, <2>2 DEF Alone, Moves
<1>11. ASSUME OpenDone(installed) PROVE Alone'
  <2>1. /\ \A i \in Insts : op'[i] = Idle
        /\ installed' = installed /\ opener' = Idle /\ open' = [open EXCEPT ![installed] = Job.gen]
    BY <1>11, Ends DEF OpenDone, Job
  <2>2. ~Moves' /\ Job'.pc = "idle"
    BY <2>1 DEF Moves, Job, Idle, Typed
  <2> QED
    BY <2>1, <2>2 DEF Alone, Idle, Typed
<1>12. ASSUME Scan \/ Seed PROVE Alone'
  <2>1. UNCHANGED <<op, open, installed, disk>>
    BY <1>12 DEF Scan, Seed
  <2>2. opener'.pc \in {"seed", "open"} /\ opener'.at = installed /\ Free(installed)
    BY <1>12, OpenerIs DEF Scan, Seed, Alone, Opening
  <2> QED
    BY <2>1, <2>2 DEF Alone, Moves, Job, Here, IsOpen, Free
<1>13. ASSUME OpenStart PROVE Alone'
  <2>1. /\ Job'.pc = "move" /\ Job'.gen = opener.gen /\ Job'.task.what = "move"
        /\ \A i \in Insts \ {installed} : op'[i] = op[i]
    BY <1>13, GoesOn
  <2>2. opener \in Opening /\ opener.at = installed /\ opener' = [opener EXCEPT !.pc = "moving"]
    BY <1>13, OpenerIs DEF OpenStart, Alone
  <2>3. opener'.pc = "moving" /\ opener'.at = installed /\ opener'.gen = opener.gen
    BY <2>2 DEF Opening
  <2> QED
    BY <1>13, <2>1, <2>3 DEF OpenStart, Alone, Moves
<1>14. ASSUME LockAccount PROVE Alone'
  BY <1>14 DEF LockAccount, Alone, Moves, Job, Here, IsOpen, Free, Typed
<1>15. ASSUME Rotate PROVE Alone'
  BY <1>15 DEF Rotate, Alone, Moves, Job, Here, IsOpen
<1>16. ASSUME Reinit \/ Crash PROVE Alone'
  <2>1. \A i \in Insts : op'[i] = Idle
    BY <1>16, Ends
  <2>2. opener'.pc = "idle" /\ \A i \in Insts \ {installed'} : open'[i] = Closed
    BY <1>16 DEF Reinit, Crash, Steady, Idle, Alone, Typed
  <2>3. ~Moves' /\ Job'.pc = "idle"
    BY <2>1 DEF Moves, Job, Idle, Typed
  <2> QED
    BY <2>1, <2>2, <2>3 DEF Alone
<1>17. ASSUME NEW g \in Generations, Spoil(g) PROVE Alone'
  <2>1. DOMAIN disk' = DOMAIN disk
    BY <1>17, SpoilIs DEF Spoiled
  <2> QED
    BY <1>17, <2>1 DEF Spoil, Alone, Moves, Job, Here, IsOpen
<1> QED
  BY <1>1, <1>2, <1>3, <1>4, <1>5, <1>6, <1>7, <1>8, <1>9, <1>10, <1>11, <1>12, <1>13, <1>14,
     <1>15, <1>16, <1>17, Stages DEF Step

-----------------------------------------------------------------------------
(* Generations                                                             *)

\* The generation a step may write under: the account's, or the one it moves to.
Current(g) == IF opener.pc = "moving" THEN g = opener.gen ELSE IsOpen(installed) /\ g = Here

\* A file is an old one, no more legible than it was, or of the current generation.
NothingOlder ==
    \A f \in DOMAIN disk' :
        \/ f \in DOMAIN disk /\ (disk'[f].ok => disk[f].ok)
        \/ Current(f.gen)

LEMMA NewFiles ==
    ASSUME Steady, Typed, Alone, Bounds, OldIsListed, AsidesApart, InFlight, FateOK, Step
    PROVE  NothingOlder
<1> USE DEF NothingOlder
<1>1. ASSUME NEW task, NEW dest, NEW copies, NEW drop, NEW tmp,
             Lists(task, dest, copies, drop, tmp) \/ Seals(task, dest, copies, drop, tmp)
      PROVE  NothingOlder
  <2>1. /\ DOMAIN disk' = DOMAIN disk \cup {tmp} /\ tmp.gen = dest.gen
        /\ \A x \in DOMAIN disk : disk'[x] = disk[x]
    BY <1>1 DEF Lists, Seals, Staging
  <2>2. Current(dest.gen)
    BY <1>1 DEF Lists, Seals, Current, Alone, Moves
  <2> QED
    BY <2>1, <2>2
<1>2. ASSUME NEW r \in Rows, Quarantine(installed, r) PROVE NothingOlder
  <2>1. IsOpen(installed) /\ Job.pc = "idle"
    BY <1>2 DEF Quarantine, Begin, Ready, Free, Job
  <2>2. PICK g : SetAside(Account(Here), g) /\ g.gen = Here
    BY <1>2, QuarantineIs
  <2> QED
    BY <2>1, <2>2 DEF SetAside, Current, Alone, Moves
<1>3. ASSUME Rename(installed) PROVE NothingOlder
  <2>1. Landed /\ Job.pc = "rename"
    BY <1>3, LandedIs DEF Rename, Job
  <2>2. Current(Job.dest.gen)
    BY <2>1 DEF Current, Alone, Moves
  <2> QED
    BY <2>1, <2>2 DEF Landed
<1>4. ASSUME NEW f, Gone(f) PROVE NothingOlder
  BY <1>4 DEF Gone
<1>5. ASSUME NEW f \in DOMAIN disk, MoveAside(installed, f) PROVE NothingOlder
  <2>1. PICK g : SetAside(f, g) /\ g.gen = opener.gen
    BY <1>5, MoveAsideIs
  <2>2. Current(g.gen)
    BY <1>5, <2>1 DEF MoveAside, NextFile, Current, Alone, Moves, Job
  <2> QED
    BY <2>1, <2>2 DEF SetAside
<1>6. ASSUME NEW g \in Generations, Spoil(g) PROVE NothingOlder
  BY <1>6, SpoilIs DEF Spoiled
<1>7. ASSUME UNCHANGED disk PROVE NothingOlder
  BY <1>7
<1> HIDE DEF NothingOlder
<1>8. CASE \E f \in DOMAIN disk : MoveLanded(installed, f)
  BY <1>8, <1>4, Removals
<1>9. CASE WriteFails(installed) \/ Drop(installed) \/ MoveOn(installed)
  BY <1>9, <1>4, <1>7, Removals
<1>10. CASE \/ \E r \in Rows : QuarantineFails(installed, r)
            \/ Answer(installed) \/ MoveFails(installed) \/ OpenDone(installed)
            \/ Scan \/ Seed \/ OpenStart \/ LockAccount \/ Rotate \/ Reinit \/ Crash
  BY <1>10, <1>7 DEF QuarantineFails, Answer, MoveFails, OpenDone, Scan, Seed, OpenStart,
     LockAccount, Rotate, Reinit, Crash
<1> QED
  BY <1>1, <1>2, <1>3, <1>5, <1>6, <1>8, <1>9, <1>10, Stages DEF Step

LEMMA GensAre ==
    ASSUME Typed
    PROVE  /\ \A g \in Generations : g \in Nat /\ g <= MaxGen
           /\ keyGen \in Nat /\ keyGen <= MaxGen
           /\ Here \in Generations \/ Here = Closed
           /\ Here \in Nat
           /\ IsOpen(installed) <=> Here \in Generations
           /\ opener.pc # "idle" => opener.gen \in Generations /\ opener.older \in SUBSET Generations
           /\ \A f \in DOMAIN disk : f.gen \in Generations
<1>1. \A g \in Generations : g \in Nat /\ g <= MaxGen
  BY StoreAssumption DEF Generations
<1>2. Closed \notin Generations /\ Closed \in Nat
  BY StoreAssumption DEF Closed, Generations
<1>3. Here \in Generations \/ Here = Closed
  BY DEF Typed, Here
<1>4. opener.pc # "idle" => opener.gen \in Generations /\ opener.older \in SUBSET Generations
  BY OpenerIs DEF Opening
<1> QED
  BY <1>1, <1>2, <1>3, <1>4 DEF Typed, OnDisk, Name, IsOpen, Here

LEMMA BoundsKept ==
    ASSUME Steady, Typed, Typed', Alone, Alone', Bounds, OldIsListed, AsidesApart, InFlight,
           FateOK, Step
    PROVE  Bounds'
<1>1. \A f \in DOMAIN disk' : f \in DOMAIN disk \/ Current(f.gen)
  BY NewFiles DEF NothingOlder
<1>2. ASSUME UNCHANGED <<keyGen, open, installed, opener>> PROVE Bounds'
  BY <1>1, <1>2, GensAre DEF Bounds, Current, IsOpen, Here
<1>3. ASSUME NEW r \in Rows, QuarantineFails(installed, r) PROVE Bounds'
  BY <1>2, <1>3 DEF QuarantineFails
<1>4. ASSUME NEW task, NEW dest, NEW copies, NEW drop, NEW tmp,
             Lists(task, dest, copies, drop, tmp) \/ Seals(task, dest, copies, drop, tmp)
      PROVE  Bounds'
  BY <1>2, <1>4 DEF Lists, Seals
<1>5. ASSUME NEW r \in Rows, Quarantine(installed, r) PROVE Bounds'
  BY <1>2, <1>5 DEF Quarantine, Begin
<1>6. CASE Rename(installed) \/ Drop(installed) \/ Answer(installed) \/ MoveOn(installed)
           \/ (\E g \in Generations : Spoil(g))
  BY <1>2, <1>6 DEF Rename, Drop, Answer, MoveOn, Spoil
<1>7. CASE \E f \in DOMAIN disk : MoveLanded(installed, f) \/ MoveAside(installed, f)
  BY <1>2, <1>7 DEF MoveLanded, MoveAside
<1>8. CASE WriteFails(installed) \/ MoveFails(installed)
  <2>1. /\ Job.pc # "idle" /\ Fails(installed) /\ UNCHANGED <<keyGen, installed>>
    BY <1>8 DEF WriteFails, MoveFails, Job
  <2>2. CASE Job.task.what = "move"
    <3>1. opener' = Idle /\ open'[installed'] = Closed
      BY <2>1, <2>2, FailsIs DEF Typed
    <3>2. Moves
      BY <1>8, <2>2 DEF WriteFails, MoveFails, Moves, Job
    <3>3. \A f \in DOMAIN disk' : f.gen <= keyGen
      BY <1>1, <3>2, GensAre DEF Alone, Current, Bounds
    <3> QED
      BY <2>1, <3>1, <3>3 DEF Bounds, IsOpen, Idle, Here
  <2>3. CASE Job.task.what # "move"
    BY <1>2, <2>1, <2>3, FailsIs
  <2> QED
    BY <2>2, <2>3
<1>9. CASE OpenDone(installed)
  <2>1. /\ opener.pc = "moving" /\ Job.gen = opener.gen
        /\ UNCHANGED <<disk, keyGen, installed>> /\ opener' = Idle
        /\ open' = [open EXCEPT ![installed] = opener.gen]
    BY <1>9 DEF OpenDone, Alone, Moves, Job
  <2>2. open'[installed'] = opener.gen
    BY <2>1 DEF Typed
  <2> QED
    BY <2>1, <2>2, GensAre DEF Bounds, Idle, Here
<1>10. CASE Scan
  <2>1. /\ UNCHANGED <<disk, keyGen, open, installed>> /\ opener.pc = "idle" /\ Here # keyGen
        /\ opener'.gen = keyGen /\ opener'.older \subseteq {g \in Generations : g < keyGen}
    BY <1>10 DEF Scan, Wanted, Here
  <2>2. IsOpen(installed) => Here < keyGen
    BY <2>1, GensAre DEF Bounds
  <2> QED
    BY <2>1, <2>2, GensAre DEF Bounds, IsOpen, Here
<1>11. CASE Seed \/ OpenStart
  <2>1. /\ UNCHANGED <<disk, keyGen, open, installed>> /\ opener.pc \in {"seed", "open"}
        /\ opener'.gen = opener.gen /\ opener'.older = opener.older
    BY <1>11, OpenerIs DEF Seed, OpenStart, Opening
  <2> QED
    BY <2>1 DEF Bounds, IsOpen, Here
<1>12. CASE LockAccount
  <2>1. /\ UNCHANGED <<disk, keyGen, installed, opener>> /\ opener.pc = "idle"
        /\ open'[installed'] = Closed
    BY <1>12 DEF LockAccount, Typed
  <2> QED
    BY <2>1 DEF Bounds, IsOpen, Here
<1>13. CASE Rotate
  <2>1. /\ UNCHANGED <<disk, open, installed, opener>> /\ keyGen' = keyGen + 1
    BY <1>13 DEF Rotate
  <2> QED
    BY <2>1, GensAre DEF Bounds, IsOpen, Here
<1>14. CASE Reinit \/ Crash
  <2>1. /\ UNCHANGED <<disk, keyGen>> /\ opener'.pc = "idle"
    BY <1>14 DEF Reinit, Crash, Steady, Idle
  <2>2. open'[installed'] = Closed
    BY <1>14 DEF Reinit, Crash, Steady, Typed, Insts, Alone
  <2> QED
    BY <2>1, <2>2 DEF Bounds, IsOpen, Here
<1> QED
  BY <1>3, <1>4, <1>5, <1>6, <1>7, <1>8, <1>9, <1>10, <1>11, <1>12, <1>13, <1>14, Stages DEF Step

LEMMA DeadStays ==
    ASSUME NothingOlder, NEW g, Dead(g), ~Current(g)
    PROVE  Dead(g)'
BY DEF NothingOlder, Dead

\* While the key at hand and the opener's list stay, so does what they leave out.
LEMMA DeadKept ==
    ASSUME Typed, OldIsListed, NothingOlder, UNCHANGED <<open, installed, opener>>
    PROVE  OldAreDead' /\ OldAreKnown'
<1>1. OldAreDead'
  <2> SUFFICES ASSUME (IsOpen(installed) /\ opener.pc # "moving")',
                      NEW g \in Generations, g < Here'
               PROVE  Dead(g)'
    BY DEF OldAreDead
  <2>1. IsOpen(installed) /\ opener.pc # "moving" /\ g < Here
    BY DEF IsOpen, Here
  <2>2. Dead(g) /\ ~Current(g)
    BY <2>1, GensAre DEF OldIsListed, OldAreDead, Current
  <2> QED
    BY <2>2, DeadStays
<1>2. OldAreKnown'
  <2>1. \A g \in Generations : Current(g) /\ opener.pc \in {"seed", "open"} =>
            g \in KeysFor(installed, opener.gen, opener.older)
    BY GensAre DEF Current, KeysFor, Here, IsOpen
  <2> QED
    BY <2>1, DeadStays DEF OldIsListed, OldAreKnown, IsOpen, KeysFor
<1> QED
  BY <1>1, <1>2

\* While files are moved, the list is of those that are left of it.
LEMMA TodoKept ==
    ASSUME Typed, Alone, OldIsListed, NothingOlder, Moves, opener' = opener,
           Todo' = Todo \cap DOMAIN disk'
    PROVE  TodoIsAll'
<1>1. /\ opener.pc = "moving" /\ opener.gen \in Generations
      /\ \A g : Current(g) <=> g = opener.gen
  BY GensAre DEF Alone, Current
<1>2. \A f \in DOMAIN disk' : f \in DOMAIN disk \/ f.gen = opener.gen
  BY <1>1 DEF NothingOlder
<1>3. ~(opener.gen < opener.gen)
  BY <1>1, GensAre
<1>4. ASSUME NEW f \in DOMAIN disk', f.gen < opener.gen, ~Dead(f.gen)'
      PROVE  f \in Todo'
  <2>1. f \in DOMAIN disk /\ ~Dead(f.gen)
    BY <1>1, <1>2, <1>3, <1>4, DeadStays
  <2> QED
    BY <2>1, <1>4 DEF OldIsListed, TodoIsAll
<1>5. \A f \in Todo' : \A h \in DOMAIN disk' : h.gen = f.gen => h \in Todo'
  BY <1>2, <1>3 DEF OldIsListed, TodoIsAll
<1> QED
  BY <1>4, <1>5 DEF OldIsListed, TodoIsAll

LEMMA ListedKept ==
    ASSUME Steady, Typed, Typed', Alone, Alone', Bounds, OldIsListed, AsidesApart, InFlight,
           FateOK, Step
    PROVE  OldIsListed'
<1> USE DEF OldIsListed
<1>1. NothingOlder
  BY NewFiles
<1>2. ASSUME UNCHANGED <<open, installed, opener>>, ~Moves PROVE OldIsListed'
  BY <1>1, <1>2, DeadKept DEF TodoIsAll, Alone
<1>3. ASSUME UNCHANGED <<open, installed, opener>>, Moves, Todo' = Todo \cap DOMAIN disk'
      PROVE  OldIsListed'
  BY <1>1, <1>3, DeadKept, TodoKept
<1>4. ASSUME NEW task, NEW dest, NEW copies, NEW drop, NEW tmp, Lists(task, dest, copies, drop, tmp)
      PROVE  OldIsListed'
  BY <1>2, <1>4 DEF Lists, Moves
<1>5. ASSUME NEW task, NEW dest, NEW copies, NEW drop, NEW tmp, Seals(task, dest, copies, drop, tmp)
      PROVE  OldIsListed'
  <2>1. Job'.pc = "rename" /\ Job'.task = Job.task /\ Moves /\ Job.task.what = "move"
    BY <1>5, StagedJob DEF Seals, Moves
  <2>2. Todo' = Todo /\ Todo \subseteq DOMAIN disk
    BY <2>1 DEF Todo, Moves, TodoIsAll
  <2>3. DOMAIN disk \subseteq DOMAIN disk'
    BY <1>5 DEF Seals, Staging
  <2> QED
    BY <1>3, <1>5, <2>1, <2>2, <2>3 DEF Seals
<1>6. ASSUME NEW r \in Rows, Quarantine(installed, r) \/ QuarantineFails(installed, r)
      PROVE  OldIsListed'
  BY <1>2, <1>6 DEF Quarantine, QuarantineFails, Begin, Ready, Free, Moves, Job
<1>7. ASSUME Rename(installed) PROVE OldIsListed'
  <2>1. /\ Landed /\ Job'.pc = "drop" /\ Job'.task = Job.task /\ Job.pc = "rename"
        /\ UNCHANGED <<open, installed, opener>>
    BY <1>7, LandedIs DEF Rename, Job
  <2>2. CASE Moves
    <3>1. Todo' = Todo /\ Todo \subseteq DOMAIN disk
      BY <2>1, <2>2 DEF Todo, Moves, TodoIsAll
    <3>2. Job.tmp \notin Todo
      <4>1. Job.tmp.gen = opener.gen /\ opener.gen \in Generations
        BY <2>1, <2>2, GensAre DEF InFlight, Alone, Moves
      <4> QED
        BY <2>2, <4>1, GensAre DEF TodoIsAll
    <3> QED
      BY <1>3, <2>1, <2>2, <3>1, <3>2 DEF Landed
  <2> QED
    BY <1>2, <2>1, <2>2
<1>8. ASSUME Drop(installed) \/ Answer(installed) PROVE OldIsListed'
  BY <1>2, <1>8 DEF Drop, Answer, Moves, Job
<1>9. ASSUME NEW f \in DOMAIN disk, MoveLanded(installed, f) PROVE OldIsListed'
  <2>1. /\ Job'.pc = "move" /\ Job'.task.todo = Job.task.todo \ {f} /\ Job.pc = "move"
        /\ Gone(f) /\ UNCHANGED <<open, installed, opener>>
    BY <1>9, GoesOn, Removals DEF MoveLanded, NextFile, Job
  <2>2. Moves /\ Todo' = Todo \ {f} /\ Todo \subseteq DOMAIN disk
    BY <2>1 DEF Moves, Todo, TodoIsAll
  <2> QED
    BY <1>3, <2>1, <2>2 DEF Gone
<1>10. ASSUME NEW f \in DOMAIN disk, MoveAside(installed, f) PROVE OldIsListed'
  <2>1. /\ Job'.pc = "move" /\ Job'.task.todo = Job.task.todo \ {f} /\ Job.pc = "move"
        /\ UNCHANGED <<open, installed, opener>>
    BY <1>10, GoesOn DEF MoveAside, NextFile, Job
  <2>2. PICK g : SetAside(f, g)
    BY <1>10, MoveAsideIs
  <2>3. Moves /\ Todo' = Todo \ {f} /\ Todo \subseteq DOMAIN disk
    BY <2>1 DEF Moves, Todo, TodoIsAll
  <2> QED
    BY <1>3, <2>1, <2>2, <2>3 DEF SetAside
<1>11. ASSUME MoveOn(installed) PROVE OldIsListed'
  <2>1. PICK f \in Job.drop : /\ Gone(f)
                              /\ Job'.pc = "move" /\ Job'.task.todo = Job.task.todo \ {f}
    BY <1>11, GoesOn
  <2>2. Job.pc = "drop" /\ Job.task.what = "move" /\ UNCHANGED <<open, installed, opener>>
    BY <1>11 DEF MoveOn, Job
  <2>3. Moves /\ Todo' = Todo \ {f} /\ Todo \subseteq DOMAIN disk
    BY <2>1, <2>2 DEF Moves, Todo, TodoIsAll
  <2> QED
    BY <1>3, <2>1, <2>2, <2>3 DEF Gone
<1>12. ASSUME WriteFails(installed) \/ MoveFails(installed) PROVE OldIsListed'
  <2>1. /\ Job.pc # "idle" /\ Fails(installed) /\ installed' = installed
        /\ Job.pc \in {"rename", "move", "drop"}
    BY <1>12 DEF WriteFails, MoveFails, Job
  <2>2. CASE Job.task.what = "move"
    <3>1. opener'.pc = "idle" /\ open'[installed'] = Closed
      BY <2>1, <2>2, FailsIs DEF Typed, Idle
    <3> QED
      BY <3>1 DEF OldAreDead, OldAreKnown, TodoIsAll, IsOpen, Alone
  <2>3. CASE Job.task.what # "move"
    BY <1>2, <2>1, <2>3, FailsIs DEF Moves, Alone
  <2> QED
    BY <2>2, <2>3
<1>13. ASSUME OpenDone(installed) PROVE OldIsListed'
  <2>1. /\ Moves /\ Todo = {} /\ Job.gen = opener.gen
        /\ UNCHANGED <<disk, installed>> /\ opener' = Idle
        /\ open' = [open EXCEPT ![installed] = opener.gen]
    BY <1>13 DEF OpenDone, Alone, Moves, Job, Todo
  <2>2. Here' = opener.gen /\ opener'.pc = "idle"
    BY <2>1 DEF Typed, Here, Idle
  <2>3. \A g \in Generations : g < opener.gen => Dead(g)
    BY <2>1 DEF TodoIsAll, Dead
  <2>4. \A g \in Generations : g < opener.gen => Dead(g)'
    BY <2>1, <2>3 DEF Dead
  <2> QED
    BY <2>2, <2>4 DEF OldAreDead, OldAreKnown, TodoIsAll, Alone
<1>14. ASSUME Scan PROVE OldIsListed'
  <2>1. /\ UNCHANGED <<disk, keyGen, open, installed>> /\ opener.pc = "idle" /\ Here # keyGen
        /\ opener'.gen = keyGen /\ opener'.pc = "seed"
        /\ LET sealed == {f.gen : f \in Legible({"account", "orphan", "staged"})}
           IN  opener'.older = {g \in sealed : g < keyGen /\ g # Here}
    BY <1>14 DEF Scan, Wanted, Steady, Here
  <2>2. \A g : ~Dead(g) <=> g \in {f.gen : f \in Legible({"account", "orphan", "staged"})}
    BY DEF Dead, Legible
  <2>3. \A g \in Generations : ~Dead(g) => g <= keyGen
    BY GensAre DEF Dead, Bounds
  <2>4. \A g \in Generations : ~Dead(g) => g \in KeysFor(installed, keyGen, opener'.older)
    BY <2>1, <2>2, <2>3, GensAre DEF KeysFor, Here, IsOpen
  <2>5. ASSUME IsOpen(installed) PROVE opener'.older = {}
    <3>1. \A g \in Generations : ~Dead(g) => ~(g < Here) /\ g <= Here
      BY <2>1, <2>5, GensAre DEF OldAreDead, Dead, Bounds
    <3>2. \A g \in Generations : ~(g < Here) /\ g <= Here => g = Here
      BY GensAre
    <3>3. \A g : ~Dead(g) => g \in Generations
      BY GensAre DEF Dead
    <3> QED
      BY <2>1, <2>2, <3>1, <3>2, <3>3
  <2>6. \A g : Dead(g)' <=> Dead(g)
    BY <2>1 DEF Dead
  <2>7. OldAreKnown'
    BY <2>1, <2>4, <2>5, <2>6 DEF OldAreKnown, IsOpen, KeysFor
  <2>8. OldAreDead'
    BY <2>1, <2>6 DEF OldAreDead, IsOpen, Here
  <2> QED
    BY <2>1, <2>7, <2>8 DEF TodoIsAll, Alone
<1>15. ASSUME Seed PROVE OldIsListed'
  <2>1. /\ UNCHANGED <<disk, keyGen, open, installed>> /\ opener.pc = "seed" /\ opener'.pc = "open"
        /\ opener'.gen = opener.gen /\ opener'.older = opener.older
    BY <1>15, OpenerIs DEF Seed, Opening
  <2>2. \A g : Dead(g)' <=> Dead(g)
    BY <2>1 DEF Dead
  <2> QED
    BY <2>1, <2>2 DEF OldAreDead, OldAreKnown, TodoIsAll, IsOpen, Here, KeysFor, Alone
<1>16. ASSUME OpenStart PROVE OldIsListed'
  <2>1. /\ UNCHANGED <<disk, keyGen, open, installed>> /\ opener.pc = "open" /\ opener'.pc = "moving"
        /\ opener'.gen = opener.gen /\ opener.gen \in Generations
    BY <1>16, OpenerIs, GensAre DEF OpenStart, Opening
  <2>2. /\ Job'.pc = "move"
        /\ Job'.task.todo = {f \in DOMAIN disk : f.gen \in
                        KeysFor(installed, opener.gen, opener.older) \ {opener.gen}}
    BY <1>16, GoesOn
  <2>3. /\ Moves'
        /\ Todo' = {f \in DOMAIN disk : f.gen \in
                        KeysFor(installed, opener.gen, opener.older) \ {opener.gen}}
    BY <2>2 DEF Moves, Todo
  <2>4. \A g \in KeysFor(installed, opener.gen, opener.older) \ {opener.gen} : g < opener.gen
    BY <2>1 DEF KeysFor, Bounds, IsOpen, Here
  <2>5. \A g : Dead(g)' <=> Dead(g)
    BY <2>1 DEF Dead
  <2>6. \A f \in DOMAIN disk : f.gen < opener.gen /\ ~Dead(f.gen) =>
            f.gen \in KeysFor(installed, opener.gen, opener.older) \ {opener.gen}
    BY <2>1, GensAre DEF OldAreKnown
  <2> QED
    BY <2>1, <2>3, <2>4, <2>5, <2>6 DEF OldAreDead, OldAreKnown, TodoIsAll
<1>17. ASSUME LockAccount PROVE OldIsListed'
  <2>1. opener'.pc = "idle" /\ open'[installed'] = Closed
    BY <1>17 DEF LockAccount, Typed
  <2> QED
    BY <2>1 DEF OldAreDead, OldAreKnown, TodoIsAll, IsOpen, Alone
<1>18. ASSUME Rotate PROVE OldIsListed'
  <2>1. UNCHANGED <<disk, open, op, installed, opener>>
    BY <1>18 DEF Rotate
  <2>2. Todo' = Todo /\ (Moves' <=> Moves) /\ (Moves => Todo \subseteq DOMAIN disk)
    BY <2>1 DEF Todo, Moves, Job, TodoIsAll
  <2> QED
    BY <1>2, <1>3, <2>1, <2>2
<1>19. ASSUME Reinit \/ Crash PROVE OldIsListed'
  <2>1. opener'.pc = "idle"
    BY <1>19 DEF Reinit, Crash, Steady, Idle
  <2>2. open'[installed'] = Closed
    BY <1>19 DEF Reinit, Crash, Steady, Typed, Insts, Alone
  <2> QED
    BY <2>1, <2>2 DEF OldAreDead, OldAreKnown, TodoIsAll, IsOpen, Alone
<1>20. ASSUME NEW g \in Generations, Spoil(g) PROVE OldIsListed'
  <2>1. UNCHANGED <<open, op, installed, opener>> /\ DOMAIN disk' = DOMAIN disk
    BY <1>20, SpoilIs DEF Spoil, Spoiled
  <2>2. Todo' = Todo /\ (Moves' <=> Moves) /\ (Moves => Todo \subseteq DOMAIN disk)
    BY <2>1 DEF Todo, Moves, Job, TodoIsAll
  <2> QED
    BY <1>2, <1>3, <2>1, <2>2
<1> HIDE DEF OldIsListed
<1> QED
  BY <1>4, <1>5, <1>6, <1>7, <1>8, <1>9, <1>10, <1>11, <1>12, <1>13, <1>14,
     <1>15, <1>16, <1>17, <1>18, <1>19, <1>20, Stages DEF Step

LEMMA AsidesKept ==
    ASSUME Steady, Typed, Alone, OldIsListed, AsidesApart, InFlight, FateOK, Step
    PROVE  AsidesApart'
<1>1. ASSUME NEW f, NEW g, SetAside(f, g) PROVE AsidesApart'
  BY <1>1 DEF AsidesApart, SetAside, Names
<1>2. ASSUME \A f \in DOMAIN disk' : f.kind = "aside" => f \in DOMAIN disk PROVE AsidesApart'
  BY <1>2 DEF AsidesApart, Names
<1>3. ASSUME NEW task, NEW dest, NEW copies, NEW drop, NEW tmp,
             Lists(task, dest, copies, drop, tmp) \/ Seals(task, dest, copies, drop, tmp)
      PROVE  AsidesApart'
  BY <1>2, <1>3 DEF Lists, Seals, Staging
<1>4. ASSUME Rename(installed) PROVE AsidesApart'
  <2>1. Landed /\ Job.pc = "rename"
    BY <1>4, LandedIs DEF Rename, Job
  <2>2. Job.dest.kind # "aside"
    <3>1. Staged(Job.task, Job.dest, disk[Job.tmp].copies, Job.drop)
      BY <2>1 DEF InFlight
    <3>2. CASE Job.task.what = "move"
      <4>1. PICK f \in Job.task.todo : /\ Job.drop = {f} /\ Job.dest = [f EXCEPT !.gen = opener.gen]
                                       /\ f.kind # "aside"
        BY <3>1, <3>2 DEF Staged, SealedAgain
      <4>2. f \in Name
        BY <3>1, <4>1 DEF Staged, Typed, OnDisk
      <4> QED
        BY <4>1, <4>2 DEF Name
    <3>3. CASE Job.task.what # "move"
      BY <3>1, <3>3 DEF Staged, MergedList, Account
    <3> QED
      BY <3>2, <3>3
  <2> QED
    BY <1>2, <2>1, <2>2 DEF Landed
<1>5. ASSUME NEW f, Gone(f) PROVE AsidesApart'
  BY <1>2, <1>5 DEF Gone
<1>6. ASSUME UNCHANGED disk PROVE AsidesApart'
  BY <1>2, <1>6
<1>7. CASE \E f \in DOMAIN disk : MoveLanded(installed, f)
  BY <1>7, <1>5, Removals
<1>8. CASE WriteFails(installed) \/ Drop(installed) \/ MoveOn(installed)
  BY <1>8, <1>5, <1>6, Removals
<1>9. CASE \/ \E r \in Rows : QuarantineFails(installed, r)
           \/ Answer(installed) \/ MoveFails(installed) \/ OpenDone(installed)
           \/ Scan \/ Seed \/ OpenStart \/ LockAccount \/ Rotate \/ Reinit \/ Crash
  BY <1>9, <1>6 DEF QuarantineFails, Answer, MoveFails, OpenDone, Scan, Seed, OpenStart,
     LockAccount, Rotate, Reinit, Crash
<1>10. CASE \E g \in Generations : Spoil(g)
  BY <1>10, <1>2, SpoilIs DEF Spoiled
<1>11. CASE \E f \in DOMAIN disk : MoveAside(installed, f)
  BY <1>11, <1>1, MoveAsideIs
<1>12. CASE \E r \in Rows : Quarantine(installed, r)
  BY <1>12, <1>1, QuarantineIs
<1> QED
  BY <1>3, <1>4, <1>7, <1>8, <1>9, <1>10, <1>11, <1>12, Stages DEF Step

-----------------------------------------------------------------------------
(* What is staged and what has landed                                      *)

LEMMA StagedStays ==
    ASSUME NEW task, NEW dest, NEW copies, NEW drop, Staged(task, dest, copies, drop),
           opener' = opener, drop \subseteq DOMAIN disk,
           dest \in DOMAIN disk' <=> dest \in DOMAIN disk,
           DOMAIN disk \subseteq DOMAIN disk',
           \A x \in DOMAIN disk : disk'[x].copies = disk[x].copies
    PROVE  Staged(task, dest, copies, drop)'
<1>1. Src(dest, drop)' = Src(dest, drop) /\ Src(dest, drop) \subseteq DOMAIN disk
  BY DEF Src
<1>2. \A x \in Src(dest, drop) : disk'[x].copies = disk[x].copies
  BY <1>1
<1>3. MergedList(task, dest, copies, drop) => MergedList(task, dest, copies, drop)'
  BY <1>1, <1>2 DEF MergedList
<1>4. SealedAgain(task, dest, copies, drop) => SealedAgain(task, dest, copies, drop)'
  BY DEF SealedAgain
<1> QED
  BY <1>3, <1>4 DEF Staged

\* The destination is kept apart from what will be removed for it.
LEMMA LandsOn ==
    ASSUME Typed, Alone, OldIsListed, InFlight, Job.pc = "rename"
    PROVE  /\ Job.dest \notin Job.drop /\ Job.drop \subseteq DOMAIN disk
           /\ Job.dest \in Name /\ Job.tmp \in DOMAIN disk /\ Job.tmp.kind = "staged"
           /\ Job.tmp # Job.dest /\ Job.tmp \notin Job.drop
           /\ \A f \in Src(Job.dest, Job.drop) :
                Covers(disk[Job.tmp].copies, disk[f].copies)
           /\ Job.task.what = "move" => \E f \in Todo :
                /\ Job.drop = {f} /\ Job.dest = [f EXCEPT !.gen = opener.gen]
                /\ Job.dest \notin DOMAIN disk /\ f.kind # "aside"
                /\ disk[Job.tmp].copies = disk[f].copies /\ \A g \in Todo : g.gen <= f.gen
           /\ Job.task.what # "move" => Job.dest.kind \in Live /\ \A f \in Job.drop : f.kind = "orphan"
<1>1. /\ Staged(Job.task, Job.dest, disk[Job.tmp].copies, Job.drop)
      /\ Job.tmp \in DOMAIN disk /\ Job.tmp.kind = "staged"
      /\ Job.tmp # Job.dest /\ Job.tmp \notin Job.drop
  BY DEF InFlight
<1>2. Job.dest \in Name
  BY JobIs DEF Writing
<1>3. CASE Job.task.what = "move"
  <2>1. PICK f \in Job.task.todo :
            /\ Job.drop = {f} /\ Job.dest = [f EXCEPT !.gen = opener.gen]
            /\ Job.dest \notin DOMAIN disk /\ f.kind # "aside"
            /\ disk[Job.tmp].copies = disk[f].copies
            /\ \A g \in Job.task.todo : g.gen <= f.gen
    BY <1>1, <1>3 DEF Staged, SealedAgain
  <2>2. Todo = Job.task.todo
    BY <1>3 DEF Todo, Moves
  <2>3. Src(Job.dest, Job.drop) = {f}
    BY <2>1 DEF Src
  <2> QED
    BY <1>1, <1>2, <1>3, <2>1, <2>2, <2>3, CoversPart DEF Staged
<1>4. CASE Job.task.what # "move"
  <2>1. Job.dest.kind \in Live
    BY <1>1, <1>4 DEF Staged, MergedList, Account, Live
  <2> QED
    BY <1>1, <1>2, <1>4, <2>1 DEF Staged, MergedList
<1> QED
  BY <1>3, <1>4

LEMMA InFlightKept ==
    ASSUME Steady, Typed, Typed', Alone, Alone', Bounds, OldIsListed, AsidesApart, InFlight,
           FateOK, Step
    PROVE  InFlight'
<1>1. ASSUME Job'.pc \notin {"rename", "drop"} PROVE InFlight'
  BY <1>1 DEF InFlight
<1>2. ASSUME NEW task, NEW dest, NEW copies, NEW drop \in SUBSET DOMAIN disk, NEW tmp,
             Lists(task, dest, copies, drop, tmp) \/ Seals(task, dest, copies, drop, tmp)
      PROVE  InFlight'
  <2>1. /\ Staging(task, dest, copies, drop, tmp) /\ Staged(task, dest, copies, drop)
        /\ opener' = opener
    BY <1>2 DEF Lists, Seals
  <2>2. /\ Job'.pc = "rename" /\ Job'.task = task /\ Job'.dest = dest
        /\ Job'.drop = drop /\ Job'.tmp = tmp
    BY <1>2, StagedJob
  <2>3. dest.kind # "staged" \/ task.what = "move"
    BY <2>1 DEF Staged, MergedList, Account
  <2>4. dest # tmp /\ tmp \notin drop
    <3>1. CASE task.what = "move"
      <4>1. PICK f \in drop : dest = [f EXCEPT !.gen = opener.gen] /\ f \in Name /\ f.kind # "aside"
        BY <2>1, <3>1 DEF Staged, SealedAgain, Typed, OnDisk
      <4>2. f \in DOMAIN disk /\ dest.kind = f.kind /\ dest.n = f.n
        BY <2>1, <4>1 DEF Staged, Name
      <4>3. dest # tmp
        BY <2>1, <4>2 DEF Staging, Names
      <4> QED
        BY <2>1, <4>3 DEF Staging
    <3>2. CASE task.what # "move"
      BY <2>1, <2>3, <3>2 DEF Staging
    <3> QED
      BY <3>1, <3>2
  <2>5. Staged(task, dest, copies, drop)'
    BY <2>1, <2>4, StagedStays DEF Staging
  <2>6. disk'[tmp].copies = copies
    BY <2>1 DEF Staging
  <2> QED
    BY <2>1, <2>2, <2>4, <2>5, <2>6 DEF InFlight, Staging
<1>3. ASSUME Rename(installed) PROVE InFlight'
  <2>1. /\ Landed /\ Job'.pc = "drop" /\ Job'.task = Job.task /\ Job'.dest = Job.dest
        /\ Job'.drop = Job.drop /\ Job.pc = "rename" /\ opener' = opener
    BY <1>3, LandedIs DEF Rename, Job
  <2>2. /\ Job.dest \in DOMAIN disk' /\ Job.drop \subseteq DOMAIN disk'
        /\ Job.dest \notin Job.drop
        /\ disk'[Job.dest] = disk[Job.tmp] /\ \A f \in Job.drop : disk'[f] = disk[f]
    BY <2>1, LandsOn DEF Landed
  <2>3. \A f \in Job.drop : Covers(disk'[Job.dest].copies, disk'[f].copies)
    BY <2>1, <2>2, LandsOn DEF Src
  <2>4. Todo' = Todo
    BY <2>1 DEF Todo, Moves
  <2>5. Job.task.what = "add" => NewRow(Job.task.row) \subseteq disk'[Job.dest].copies
    BY <2>1, <2>2 DEF InFlight, Staged, MergedList
  <2>6. IF Job.task.what = "move"
        THEN \E f \in Todo : Job.drop = {f} /\ Job.dest = [f EXCEPT !.gen = opener.gen]
                             /\ f.kind # "aside"
        ELSE Job.dest.kind \in Live /\ \A f \in Job.drop : f.kind = "orphan"
    BY <2>1, LandsOn
  <2> QED
    BY <2>1, <2>2, <2>3, <2>4, <2>5, <2>6 DEF InFlight
<1>4. ASSUME Drop(installed) PROVE InFlight'
  <2>1. PICK f \in Job.drop :
            /\ UNCHANGED disk \/ Gone(f)
            /\ Job'.pc = "drop" /\ Job'.task = Job.task /\ Job'.dest = Job.dest
            /\ Job'.drop = Job.drop \ {f}
    BY <1>4, GoesOn
  <2>2. Job.pc = "drop" /\ Job.task.what # "move"
    BY <1>4 DEF Drop, Job
  <2>3. /\ Job.dest \in DOMAIN disk' /\ Job.drop \ {f} \subseteq DOMAIN disk'
        /\ \A x \in DOMAIN disk' : x \in DOMAIN disk /\ disk'[x] = disk[x]
    BY <2>1, <2>2 DEF InFlight, Gone
  <2> QED
    BY <2>1, <2>2, <2>3 DEF InFlight
<1>5. CASE \E r \in Rows : Quarantine(installed, r)
  BY <1>1, <1>5, GoesOn
<1>6. CASE \E f \in DOMAIN disk : MoveLanded(installed, f) \/ MoveAside(installed, f)
  BY <1>1, <1>6, GoesOn
<1>7. CASE MoveOn(installed) \/ OpenStart
  BY <1>1, <1>7, GoesOn
<1>8. CASE WriteFails(installed) \/ Answer(installed) \/ MoveFails(installed)
           \/ OpenDone(installed) \/ Reinit \/ Crash
  <2>1. Job' = Idle
    BY <1>8, Ends DEF Job, Typed
  <2> QED
    BY <2>1, <1>1 DEF Idle
<1>9. CASE (\E r \in Rows : QuarantineFails(installed, r)) \/ Scan \/ Seed \/ LockAccount
  <2>1. Job.pc = "idle" /\ Job' = Job
    BY <1>9, OpenerIs DEF QuarantineFails, Scan, Seed, LockAccount, Ready, Free, Job, Alone
  <2> QED
    BY <2>1, <1>1
<1>10. CASE Rotate \/ (\E g \in Generations : Spoil(g))
  <2>1. /\ UNCHANGED <<op, installed, opener>> /\ DOMAIN disk' = DOMAIN disk
        /\ \A x \in DOMAIN disk : disk'[x].copies = disk[x].copies
    BY <1>10, SpoilIs DEF Rotate, Spoil, Spoiled
  <2>2. Job' = Job /\ Todo' = Todo
    BY <2>1 DEF Job, Todo, Moves
  <2>3. ASSUME Job.pc = "rename"
        PROVE  Staged(Job.task, Job.dest, disk[Job.tmp].copies, Job.drop)'
    <3>1. /\ Staged(Job.task, Job.dest, disk[Job.tmp].copies, Job.drop)
          /\ Job.drop \subseteq DOMAIN disk /\ disk'[Job.tmp].copies = disk[Job.tmp].copies
      BY <2>1, <2>3 DEF InFlight, Staged
    <3>2. /\ Src(Job.dest, Job.drop)' = Src(Job.dest, Job.drop)
          /\ \A x \in Src(Job.dest, Job.drop) : x \in DOMAIN disk
      BY <2>1, <2>2, <3>1 DEF Src
    <3>3. CASE Job.task.what = "move"
      BY <2>1, <2>2, <3>1, <3>3 DEF Staged, SealedAgain
    <3>4. CASE Job.task.what # "move"
      BY <2>1, <2>2, <3>1, <3>2, <3>4 DEF Staged, MergedList
    <3> QED
      BY <3>3, <3>4
  <2> QED
    BY <2>1, <2>2, <2>3 DEF InFlight
<1> QED
  BY <1>2, <1>3, <1>4, <1>5, <1>6, <1>7, <1>8, <1>9, <1>10, Stages DEF Step

LEMMA LitterKept ==
    ASSUME Steady, Typed, Typed', Alone, Alone', Bounds, OldIsListed, AsidesApart, InFlight,
           FateOK, Litter, Step
    PROVE  Litter'
<1> SUFFICES ASSUME crashes' = 0, NEW f \in DOMAIN disk', f.kind = "staged"
             PROVE  Job'.pc = "rename" /\ f = Job'.tmp
  BY DEF Litter, Names
<1>1. crashes = 0 /\ ~Crash
  <2>1. ~Crash
    BY DEF Crash, Typed
  <2>2. ASSUME NEW r \in Rows,
               \/ Add(installed, r) \/ AddBeside(installed, r) \/ Quarantine(installed, r)
               \/ QuarantineFails(installed, r) \/ Edit(installed, r)
        PROVE  crashes' = crashes
    BY <2>2 DEF Add, AddBeside, Quarantine, Begin, QuarantineFails, Edit
  <2>3. ASSUME NEW x \in DOMAIN disk,
               MoveLanded(installed, x) \/ MoveAside(installed, x) \/ Move(installed, x)
        PROVE  crashes' = crashes
    BY <2>3 DEF MoveLanded, MoveAside, Move
  <2>4. ASSUME \/ Merge(installed) \/ Rename(installed) \/ WriteFails(installed)
               \/ Drop(installed) \/ Answer(installed) \/ MoveOn(installed)
               \/ MoveFails(installed) \/ OpenDone(installed)
        PROVE  crashes' = crashes
    BY <2>4 DEF Merge, Rename, WriteFails, Drop, Answer, MoveOn, MoveFails, OpenDone
  <2>5. ASSUME \/ Scan \/ Seed \/ OpenStart \/ LockAccount \/ Rotate \/ Reinit
               \/ (\E g \in Generations : Spoil(g))
        PROVE  crashes' = crashes
    BY <2>5 DEF Scan, Seed, OpenStart, LockAccount, Rotate, Reinit, Spoil
  <2> QED
    BY <2>1, <2>2, <2>3, <2>4, <2>5 DEF Step
<1>2. \A x \in DOMAIN disk : x.kind = "staged" => Job.pc = "rename" /\ x = Job.tmp
  BY <1>1 DEF Litter, Names
<1>3. ASSUME NEW task, NEW dest, NEW copies, NEW drop, NEW tmp,
             Lists(task, dest, copies, drop, tmp) \/ Seals(task, dest, copies, drop, tmp)
      PROVE  Job'.pc = "rename" /\ f = Job'.tmp
  <2>1. Job'.pc = "rename" /\ Job'.tmp = tmp
    BY <1>3, StagedJob
  <2>2. DOMAIN disk' = DOMAIN disk \cup {tmp} /\ Job.pc # "rename"
    BY <1>3 DEF Lists, Seals, Staging
  <2> QED
    BY <1>2, <2>1, <2>2
<1>4. CASE Rename(installed)
  <2>1. Landed /\ Job.pc = "rename"
    BY <1>4, LandedIs DEF Rename, Job
  <2>2. Job.dest.kind # "staged"
    <3>1. CASE Job.task.what = "move"
      <4>1. PICK h \in Todo : /\ Job.dest = [h EXCEPT !.gen = opener.gen] /\ Job.drop = {h}
        BY <2>1, <3>1, LandsOn
      <4>2. h \in DOMAIN disk /\ h \in Name /\ h # Job.tmp
        BY <2>1, <4>1, LandsOn DEF Typed, OnDisk
      <4>3. h.kind # "staged"
        BY <1>2, <4>2
      <4> QED
        BY <4>1, <4>2, <4>3 DEF Name
    <3>2. CASE Job.task.what # "move"
      BY <2>1, <3>2, LandsOn DEF Live
    <3> QED
      BY <3>1, <3>2
  <2>3. f \in DOMAIN disk /\ f # Job.tmp
    BY <2>1, <2>2 DEF Landed
  <2> QED
    BY <1>2, <2>3
<1>5. CASE WriteFails(installed)
  <2>1. Gone(Job.tmp)
    BY <1>5, Removals
  <2> QED
    BY <1>2, <2>1 DEF Gone
<1>6. ASSUME Job.pc # "rename", f \in DOMAIN disk PROVE FALSE
  BY <1>2, <1>6
<1>7. CASE Drop(installed) \/ MoveOn(installed)
           \/ \E x \in DOMAIN disk : MoveLanded(installed, x)
  <2>1. Job.pc # "rename" /\ f \in DOMAIN disk
    BY <1>7, Removals DEF Drop, MoveOn, MoveLanded, NextFile, Gone, Job
  <2> QED
    BY <1>6, <2>1
<1>8. CASE \E x \in DOMAIN disk : MoveAside(installed, x)
  <2>1. Job.pc # "rename" /\ f \in DOMAIN disk
    BY <1>8, MoveAsideIs, ZenonT(30) DEF MoveAside, NextFile, SetAside, Job
  <2> QED
    BY <1>6, <2>1
<1>9. CASE \E r \in Rows : Quarantine(installed, r)
  <2>1. Job.pc # "rename" /\ f \in DOMAIN disk
    BY <1>9, QuarantineIs DEF Quarantine, Begin, Ready, Free, SetAside, Job
  <2> QED
    BY <1>6, <2>1
<1>10. CASE \/ \E r \in Rows : QuarantineFails(installed, r)
            \/ Answer(installed) \/ MoveFails(installed) \/ OpenDone(installed)
            \/ Scan \/ Seed \/ OpenStart \/ LockAccount \/ Reinit
  <2>1. Job.pc # "rename" /\ UNCHANGED disk
    BY <1>10, OpenerIs DEF QuarantineFails, Answer, MoveFails, OpenDone, Scan, Seed, OpenStart,
       LockAccount, Reinit, Ready, Free, Job, Alone, Steady
  <2> QED
    BY <1>6, <2>1
<1>11. CASE Rotate \/ (\E g \in Generations : Spoil(g))
  <2>1. UNCHANGED <<op, installed>> /\ DOMAIN disk' = DOMAIN disk
    BY <1>11, SpoilIs DEF Rotate, Spoil, Spoiled
  <2> QED
    BY <1>2, <2>1 DEF Job
<1> QED
  BY <1>1, <1>3, <1>4, <1>5, <1>7, <1>8, <1>9, <1>10, <1>11, Stages DEF Step

-----------------------------------------------------------------------------
(* Rows                                                                    *)

\* No list is new: each is one there was, and not a staged one come to light.
OldLists ==
    \A f \in DOMAIN disk' : \E g \in DOMAIN disk :
        /\ disk'[f].copies = disk[g].copies
        /\ f.kind # "staged" => g.kind # "staged"

\* Nor is one that can be read under a name rows are read from.
OldReads ==
    \A f \in DOMAIN disk' : f.kind \in Live /\ disk'[f].ok =>
        \E g \in Legible(Live) \cup Landing :
            g \in DOMAIN disk /\ disk'[f].copies = disk[g].copies

\* What the opener seals again lands as the list of its source.
LEMMA NothingWritten ==
    ASSUME Steady, Typed, Alone, OldIsListed, AsidesApart, InFlight,
           \/ \E r \in Rows : Quarantine(installed, r) \/ QuarantineFails(installed, r)
           \/ Rename(installed) /\ Job.task.what = "move"
           \/ WriteFails(installed) \/ Drop(installed) \/ Answer(installed)
           \/ \E f \in DOMAIN disk : MoveLanded(installed, f) \/ MoveAside(installed, f)
           \/ MoveOn(installed) \/ MoveFails(installed) \/ OpenDone(installed)
           \/ Scan \/ Seed \/ OpenStart \/ LockAccount
           \/ Rotate \/ Reinit \/ (\E g \in Generations : Spoil(g)) \/ Crash
    PROVE  OldLists /\ OldReads
<1>1. ASSUME NEW f, NEW g, SetAside(f, g) PROVE OldLists /\ OldReads
  BY <1>1 DEF OldLists, OldReads, SetAside, Legible, Live
<1>2. ASSUME NEW f, Gone(f) PROVE OldLists /\ OldReads
  BY <1>2 DEF OldLists, OldReads, Gone, Legible, Live
<1>3. ASSUME UNCHANGED disk PROVE OldLists /\ OldReads
  BY <1>3 DEF OldLists, OldReads, Legible, Live
<1>4. CASE \E r \in Rows : Quarantine(installed, r)
  BY <1>4, <1>1, QuarantineIs
<1>5. CASE \E f \in DOMAIN disk : MoveAside(installed, f)
  BY <1>5, <1>1, MoveAsideIs
<1>6. CASE \E f \in DOMAIN disk : MoveLanded(installed, f)
  BY <1>6, <1>2, Removals
<1>7. CASE WriteFails(installed) \/ Drop(installed) \/ MoveOn(installed)
  BY <1>7, <1>2, <1>3, Removals
<1>8. CASE \/ \E r \in Rows : QuarantineFails(installed, r)
           \/ Answer(installed) \/ MoveFails(installed) \/ OpenDone(installed)
           \/ Scan \/ Seed \/ OpenStart \/ LockAccount \/ Rotate \/ Reinit \/ Crash
  BY <1>8, <1>3 DEF QuarantineFails, Answer, MoveFails, OpenDone, Scan, Seed, OpenStart,
     LockAccount, Rotate, Reinit, Crash
<1>9. CASE \E g \in Generations : Spoil(g)
  BY <1>9, SpoilIs DEF OldLists, OldReads, Spoiled, Legible, Live
<1>10. CASE Rename(installed) /\ Job.task.what = "move"
  <2>1. Landed /\ Job.pc = "rename"
    BY <1>10, LandedIs DEF Rename, Job
  <2>2. PICK h \in Todo : /\ Job.drop = {h} /\ Job.dest = [h EXCEPT !.gen = opener.gen]
                          /\ disk[Job.tmp].copies = disk[h].copies
    BY <1>10, <2>1, LandsOn
  <2>3. h \in DOMAIN disk /\ h \in Name
    BY <2>1, <2>2, LandsOn DEF Typed, OnDisk
  <2>4. Job.dest.kind = h.kind
    BY <2>2, <2>3 DEF Name
  <2>5. \A f \in DOMAIN disk' \ {Job.dest} : f \in DOMAIN disk /\ disk'[f] = disk[f]
    BY <2>1 DEF Landed
  <2>6. disk'[Job.dest] = disk[Job.tmp] /\ Job.tmp \in DOMAIN disk
    BY <2>1, LandsOn DEF Landed
  <2>7. OldLists
    BY <2>2, <2>3, <2>4, <2>5, <2>6 DEF OldLists
  <2>8. Job.dest.kind \in Live => Job.tmp \in Landing
    BY <2>1 DEF Landing
  <2>9. OldReads
    BY <2>5, <2>6, <2>8 DEF OldReads, Legible
  <2> QED
    BY <2>7, <2>9
<1> QED
  BY <1>4, <1>5, <1>6, <1>7, <1>8, <1>9, <1>10

LEMMA RowOfJob ==
    ASSUME Typed, Job.pc \in {"merge", "rename", "drop"}, Job.task.what = "add"
    PROVE  Job.task.row \in Rows
BY JobIs DEF Writing, Merging, Tasks

\* A list landing is of the files it replaces and the row it is for.
LEMMA ListRows ==
    ASSUME NEW task, NEW dest, NEW copies, NEW drop, MergedList(task, dest, copies, drop),
           NEW c \in copies
    PROVE  \/ task.what = "add" /\ c.row = task.row
           \/ \E f \in Src(dest, drop) : In(c.row, f)
<1>1. CASE \E f \in Src(dest, drop) : c \in disk[f].copies
  BY <1>1 DEF In
<1>2. CASE task.what = "add" /\ c = [row |-> task.row, status |-> "unknown"]
  BY <1>2
<1>3. CASE \E f \in Src(dest, drop) : \E d \in disk[f].copies : d.row = c.row
  BY <1>3 DEF In
<1> QED
  BY <1>1, <1>2, <1>3 DEF MergedList

LEMMA FateOKKept ==
    ASSUME Steady, Typed, Typed', Alone, Alone', Bounds, OldIsListed, AsidesApart, InFlight,
           FateOK, Step
    PROVE  FateOK'
<1> DEFINE OldRows == \A f \in DOMAIN disk' : \E g \in DOMAIN disk : disk'[f].copies = disk[g].copies
           Nowhere == \A r \in Rows : fate[r] \in {"new", "refused"} => \A f \in DOMAIN disk : ~In(r, f)
<1>1. ASSUME NEW task \in Tasks, NEW dest, NEW copies, NEW drop, NEW tmp,
             Lists(task, dest, copies, drop, tmp)
      PROVE  FateOK'
  <2>1. /\ Job'.pc = "rename" /\ Job'.task = task /\ Job'.tmp = tmp
        /\ DOMAIN disk' = DOMAIN disk \cup {tmp} /\ tmp \notin DOMAIN disk
        /\ \A x \in DOMAIN disk : disk'[x] = disk[x]
        /\ disk'[tmp].copies = copies
    <3>1. Job'.pc = "rename" /\ Job'.task = task /\ Job'.tmp = tmp
      BY <1>1, StagedJob
    <3> QED
      BY <1>1, <3>1 DEF Lists, Staging
  <2>2. MergedList(task, dest, copies, drop) /\ Src(dest, drop) \subseteq DOMAIN disk
    BY <1>1 DEF Lists, Staged
  <2>3. \A r : (\E c \in copies : c.row = r) =>
            (task.what = "add" /\ r = task.row) \/ \E f \in DOMAIN disk : In(r, f)
    BY <2>2, ListRows
  <2>4. CASE task.what = "add"
    <3>1. /\ task.row \in Rows /\ fate' = [fate EXCEPT ![task.row] = "writing"]
          /\ mine' = mine \cup {task.row} /\ \A f \in DOMAIN disk : ~In(task.row, f)
      BY <1>1, <2>4 DEF Lists, Tasks
    <3>2. fate'[task.row] = "writing" /\ \A r \in Rows \ {task.row} : fate'[r] = fate[r]
      BY <3>1 DEF Typed
    <3>3. Nowhere'
      BY <2>1, <2>3, <3>1, <3>2 DEF FateOK, In
    <3>4. \A f \in DOMAIN disk' \ {tmp} : ~In(task.row, f)'
      BY <2>1, <3>1 DEF In
    <3> QED
      BY <2>1, <3>1, <3>2, <3>3, <3>4 DEF FateOK
  <2>5. CASE task.what = "edit"
    <3>1. Nowhere'
      BY <1>1, <2>1, <2>3, <2>5 DEF FateOK, In, Lists
    <3> QED
      BY <2>1, <2>5, <3>1 DEF FateOK
  <2> QED
    BY <1>1, <2>4, <2>5 DEF Lists
<1>2. ASSUME NEW task, NEW dest, NEW copies, NEW drop, NEW tmp,
             Seals(task, dest, copies, drop, tmp)
      PROVE  FateOK'
  <2>1. /\ Job'.pc = "rename" /\ Job'.task = task /\ task.what = "move" /\ fate' = fate
        /\ DOMAIN disk' = DOMAIN disk \cup {tmp}
        /\ \A x \in DOMAIN disk : disk'[x] = disk[x]
        /\ disk'[tmp].copies = copies
    <3>1. Job'.pc = "rename" /\ Job'.task = task
      BY <1>2, StagedJob
    <3> QED
      BY <1>2, <3>1 DEF Seals, Staging
  <2>2. \E f \in DOMAIN disk : copies = disk[f].copies
    BY <1>2 DEF Seals, Staged, SealedAgain
  <2>3. Nowhere'
    BY <2>1, <2>2 DEF FateOK, In
  <2> QED
    BY <2>1, <2>3 DEF FateOK
<1>3. ASSUME OldRows, \A r \in Rows : fate'[r] \in {"new", "refused"} => fate[r] \in {"new", "refused"}
      PROVE  Nowhere'
  BY <1>3 DEF FateOK, In
<1>4. ASSUME NEW r \in Rows, Quarantine(installed, r) PROVE FateOK'
  <2>1. /\ Job'.pc = "merge" /\ Job'.task = [what |-> "add", row |-> r]
        /\ OldRows /\ fate[r] = "new" /\ fate' = [fate EXCEPT ![r] = "writing"] /\ r \in mine'
    BY <1>4, GoesOn, NothingWritten DEF Quarantine, Begin, OldLists
  <2>2. fate'[r] = "writing" /\ \A s \in Rows \ {r} : fate'[s] = fate[s]
    BY <2>1 DEF Typed
  <2>3. Nowhere'
    BY <2>1, <2>2, <1>3
  <2>4. \A f \in DOMAIN disk' : ~In(r, f)'
    BY <2>1 DEF FateOK, In
  <2> QED
    BY <2>1, <2>2, <2>3, <2>4 DEF FateOK
<1>5. ASSUME NEW r \in Rows, QuarantineFails(installed, r) PROVE FateOK'
  <2>1. /\ Job' = Job /\ Job.pc = "idle" /\ disk' = disk
        /\ fate[r] = "new" /\ fate' = [fate EXCEPT ![r] = "refused"]
    BY <1>5 DEF QuarantineFails, Ready, Free, Job
  <2>2. \A s \in Rows \ {r} : fate'[s] = fate[s]
    BY <2>1 DEF Typed
  <2>3. Nowhere'
    BY <2>1, <2>2, <1>3
  <2> QED
    BY <2>1, <2>3 DEF FateOK
<1>6. ASSUME WriteFails(installed) PROVE FateOK'
  <2>1. /\ Gone(Job.tmp) /\ Job.pc = "rename" /\ Fails(installed) /\ Job'.pc = "idle" /\ OldRows
    BY <1>6, Removals, Ends, NothingWritten DEF WriteFails, Job, OldLists, Typed, Idle
  <2>2. CASE Job.task.what = "add"
    <3>1. /\ Job.task.row \in Rows /\ fate' = [fate EXCEPT ![Job.task.row] = "refused"]
          /\ \A f \in DOMAIN disk' : ~In(Job.task.row, f)
      BY <2>1, <2>2, FailsIs DEF FateOK, Gone
    <3>2. \A s \in Rows \ {Job.task.row} : fate'[s] = fate[s]
      BY <3>1 DEF Typed
    <3>3. Nowhere'
      BY <2>1, <3>1, <3>2 DEF FateOK, In, Gone
    <3> QED
      BY <2>1, <3>3 DEF FateOK
  <2>3. CASE Job.task.what # "add"
    <3>1. Nowhere'
      BY <2>1, <2>3, <1>3, FailsIs
    <3> QED
      BY <2>1, <3>1 DEF FateOK
  <2> QED
    BY <2>2, <2>3
<1>7. ASSUME Answer(installed) PROVE FateOK'
  <2>1. /\ Job.pc = "drop" /\ Job'.pc = "idle" /\ OldRows
        /\ fate' = IF Job.task.what = "add" THEN [fate EXCEPT ![Job.task.row] = "recorded"] ELSE fate
    BY <1>7, Ends, NothingWritten DEF Answer, Job, OldLists, Typed, Idle
  <2>2. Job.task.what = "add" => Job.task.row \in Rows
    BY <2>1, RowOfJob
  <2>3. \A s \in Rows : fate'[s] = fate[s] \/ fate'[s] = "recorded"
    BY <2>1, <2>2 DEF Typed
  <2>4. Nowhere'
    BY <2>1, <2>3, <1>3
  <2> QED
    BY <2>1, <2>4 DEF FateOK
<1>8. ASSUME OldRows, fate' = fate, Job'.pc \in {"idle", "move"} PROVE FateOK'
  <2>1. Nowhere'
    BY <1>8, <1>3
  <2> QED
    BY <1>8, <2>1 DEF FateOK
<1>9. CASE \/ \E f \in DOMAIN disk : MoveLanded(installed, f) \/ MoveAside(installed, f)
           \/ MoveOn(installed) \/ OpenStart
  <2>1. OldRows
    BY <1>9, NothingWritten DEF OldLists
  <2>2. Job'.pc = "move"
    BY <1>9, GoesOn
  <2>3. fate' = fate
    BY <1>9 DEF MoveLanded, MoveAside, MoveOn, OpenStart
  <2> QED
    BY <1>8, <2>1, <2>2, <2>3
<1>10. CASE MoveFails(installed) \/ OpenDone(installed) \/ Reinit \/ Crash
  <2>1. OldRows /\ Job'.pc = "idle"
    BY <1>10, Ends, NothingWritten DEF OldLists, Job, Typed, Idle
  <2>2. fate' = fate
    <3>1. MoveFails(installed) => fate' = fate
      BY FailsIs DEF MoveFails, Job
    <3> QED
      BY <1>10, <3>1 DEF OpenDone, Reinit, Crash
  <2> QED
    BY <1>8, <2>1, <2>2
<1>11. CASE Scan \/ Seed \/ LockAccount
  <2>1. OldRows /\ fate' = fate
    BY <1>11, NothingWritten DEF OldLists, Scan, Seed, LockAccount
  <2>2. Job'.pc = "idle"
    BY <1>11, OpenerIs DEF Scan, Seed, LockAccount, Free, Job, Alone
  <2> QED
    BY <1>8, <2>1, <2>2
<1>12. CASE Drop(installed)
  <2>1. /\ OldRows /\ fate' = fate /\ mine' = mine /\ Job.pc = "drop"
        /\ Job'.pc = "drop" /\ Job'.task = Job.task
    BY <1>12, GoesOn, NothingWritten DEF OldLists, Drop, Job
  <2>2. Nowhere'
    BY <2>1, <1>3
  <2> QED
    BY <2>1, <2>2 DEF FateOK
<1>13. CASE Rename(installed)
  <2>1. /\ Landed /\ fate' = fate /\ mine' = mine /\ Job.pc = "rename"
        /\ Job'.pc = "drop" /\ Job'.task = Job.task
    BY <1>13, LandedIs DEF Rename, Job
  <2>2. OldRows
    BY <2>1, LandsOn DEF Landed
  <2>3. Nowhere'
    BY <2>1, <2>2, <1>3
  <2> QED
    BY <2>1, <2>3 DEF FateOK
<1>14. CASE Rotate \/ (\E g \in Generations : Spoil(g))
  <2>1. /\ UNCHANGED <<op, installed, fate, mine>> /\ DOMAIN disk' = DOMAIN disk
        /\ \A x \in DOMAIN disk : disk'[x].copies = disk[x].copies
    BY <1>14, SpoilIs DEF Rotate, Spoil, Spoiled
  <2>2. Job' = Job
    BY <2>1 DEF Job
  <2> QED
    BY <2>1, <2>2 DEF FateOK, In
<1> HIDE DEF OldRows, Nowhere
<1> QED
  BY <1>1, <1>2, <1>4, <1>5, <1>6, <1>7, <1>9, <1>10, <1>11, <1>12, <1>13, <1>14, Stages DEF Step

-----------------------------------------------------------------------------
(* Nothing is lost                                                         *)

\* What was in a file other than a staged one is in such a file, as far or further.
NothingLost ==
    \A f \in DOMAIN disk : f.kind # "staged" =>
        \E g \in DOMAIN disk' :
            g.kind # "staged" /\ Covers(disk'[g].copies, disk[f].copies)

LEMMA NoneLost ==
    ASSUME Steady, Typed, Alone, Bounds, OldIsListed, AsidesApart, InFlight, FateOK, Newer, Step
    PROVE  NothingLost
<1>1. ASSUME NEW task, NEW dest, NEW copies, NEW drop, NEW tmp,
             Lists(task, dest, copies, drop, tmp) \/ Seals(task, dest, copies, drop, tmp)
      PROVE  NothingLost
  <2>1. /\ DOMAIN disk' = DOMAIN disk \cup {tmp}
        /\ \A x \in DOMAIN disk : disk'[x] = disk[x]
    BY <1>1 DEF Lists, Seals, Staging
  <2> QED
    BY <2>1, CoversPart DEF NothingLost
<1>2. ASSUME NEW f, NEW g, SetAside(f, g) PROVE NothingLost
  <2>1. /\ g \in DOMAIN disk' /\ g.kind # "staged" /\ disk'[g] = disk[f]
        /\ \A x \in DOMAIN disk \ {f} : x \in DOMAIN disk' /\ disk'[x] = disk[x]
    BY <1>2 DEF SetAside
  <2> QED
    BY <2>1, CoversPart DEF NothingLost
<1>3. ASSUME NEW f, Gone(f),
             f.kind # "staged" => \E g \in DOMAIN disk \ {f} :
                g.kind # "staged" /\ Covers(disk[g].copies, disk[f].copies)
      PROVE  NothingLost
  <2>1. \A x \in DOMAIN disk \ {f} : x \in DOMAIN disk' /\ disk'[x] = disk[x]
    BY <1>3 DEF Gone
  <2> QED
    BY <1>3, <2>1, CoversPart DEF NothingLost
<1>4. ASSUME UNCHANGED disk PROVE NothingLost
  BY <1>4, CoversPart DEF NothingLost
<1>5. CASE Rename(installed)
  <2>1. Landed /\ Job.pc = "rename"
    BY <1>5, LandedIs DEF Rename, Job
  <2>2. /\ Job.tmp \in DOMAIN disk /\ Job.tmp.kind = "staged" /\ Job.dest \in DOMAIN disk'
        /\ disk'[Job.dest] = disk[Job.tmp]
        /\ \A x \in DOMAIN disk \ {Job.tmp, Job.dest} : x \in DOMAIN disk' /\ disk'[x] = disk[x]
    BY <2>1, LandsOn DEF Landed
  <2>3. Job.dest \in DOMAIN disk => Covers(disk[Job.tmp].copies, disk[Job.dest].copies)
    BY <2>1, LandsOn DEF Src
  <2> QED
    BY <2>2, <2>3, CoversPart DEF NothingLost
<1>6. CASE WriteFails(installed)
  <2>1. Gone(Job.tmp) /\ Job.tmp.kind = "staged"
    BY <1>6, Removals DEF WriteFails, InFlight, Job
  <2> QED
    BY <2>1, <1>3
<1>7. CASE Drop(installed)
  <2>1. PICK f \in Job.drop : UNCHANGED disk \/ Gone(f)
    BY <1>7, Removals
  <2>2. /\ Job.dest \in DOMAIN disk \ {f} /\ Job.dest.kind # "staged"
        /\ Covers(disk[Job.dest].copies, disk[f].copies)
    BY <1>7, <2>1 DEF Drop, InFlight, Live, Job
  <2> QED
    BY <2>1, <2>2, <1>3, <1>4
<1>8. CASE MoveOn(installed)
  <2>1. PICK f \in Job.drop : Gone(f)
    BY <1>8, Removals
  <2>2. Job.pc = "drop" /\ Job.task.what = "move"
    BY <1>8 DEF MoveOn, Job
  <2>3. PICK h \in Todo : Job.drop = {h} /\ Job.dest = [h EXCEPT !.gen = opener.gen]
    BY <2>2 DEF InFlight
  <2>4. f = h /\ f \in DOMAIN disk /\ f \in Name
    BY <2>1, <2>2, <2>3 DEF InFlight, Typed, OnDisk
  <2>5. Job.dest.kind = f.kind
    BY <2>3, <2>4 DEF Name
  <2>6. /\ Job.dest \in DOMAIN disk \ {f} /\ Covers(disk[Job.dest].copies, disk[f].copies)
    BY <2>1, <2>2 DEF InFlight
  <2> QED
    BY <2>1, <2>5, <2>6, <1>3
<1>9. ASSUME NEW f \in DOMAIN disk, MoveLanded(installed, f) PROVE NothingLost
  <2> DEFINE g == [f EXCEPT !.gen = opener.gen]
  <2>1. /\ Gone(f) /\ Job.pc = "move" /\ Job.gen = opener.gen /\ f \in Todo /\ Moves
        /\ g \in DOMAIN disk
    BY <1>9, Removals DEF MoveLanded, NextFile, Alone, Moves, Todo, Target, Job
  <2>2. f \in Name /\ f.gen < opener.gen /\ opener.gen \in Generations /\ f.gen \in Generations
    BY <2>1, GensAre DEF OldIsListed, TodoIsAll, Alone, Typed, OnDisk
  <2>3. g.gen = opener.gen /\ g.kind = f.kind /\ g.n = f.n
    BY <2>2 DEF Name
  <2> HIDE DEF g
  <2>4. g # f
    BY <2>2, <2>3, GensAre
  <2>5. CASE f.kind \in Live
    <3>1. Alive(f.gen)
      BY <2>1 DEF Alive
    <3>2. Covers(disk[g].copies, disk[f].copies)
      BY <2>1, <2>2, <2>3, <2>5, <3>1 DEF Newer
    <3> QED
      BY <2>1, <2>3, <2>4, <3>2, <1>3
  <2>6. CASE f.kind = "aside"
    BY <2>1, <2>3, <2>4, <2>6 DEF AsidesApart, Names
  <2>7. f.kind \in {"account", "orphan", "staged", "aside"}
    BY <2>2 DEF Name, Kinds
  <2> QED
    BY <2>1, <2>5, <2>6, <2>7, <1>3 DEF Live
<1>10. CASE \/ \E r \in Rows : QuarantineFails(installed, r)
            \/ Answer(installed) \/ MoveFails(installed) \/ OpenDone(installed)
            \/ Scan \/ Seed \/ OpenStart \/ LockAccount \/ Rotate \/ Reinit \/ Crash
  BY <1>10, <1>4 DEF QuarantineFails, Answer, MoveFails, OpenDone, Scan, Seed, OpenStart,
     LockAccount, Rotate, Reinit, Crash
<1>11. CASE \E g \in Generations : Spoil(g)
  <2>1. DOMAIN disk' = DOMAIN disk /\ \A x \in DOMAIN disk : disk'[x].copies = disk[x].copies
    BY <1>11, SpoilIs DEF Spoiled
  <2> QED
    BY <2>1, CoversPart DEF NothingLost
<1>12. CASE \E r \in Rows : Quarantine(installed, r)
  BY <1>12, <1>2, QuarantineIs
<1>13. CASE \E f \in DOMAIN disk : MoveAside(installed, f)
  BY <1>13, <1>2, MoveAsideIs
<1> QED
  BY <1>1, <1>5, <1>6, <1>7, <1>8, <1>9, <1>10, <1>11, <1>12, <1>13, Stages DEF Step


-----------------------------------------------------------------------------
(* The newer file has all the older has                                    *)

\* A step that gives the opener no new key brings no old file back to life, but
\* under the current generation, and nothing is newer than that.
LEMMA AliveBefore ==
    ASSUME Typed, Bounds', NothingOlder, UNCHANGED <<open, installed, opener>>, Todo' \subseteq Todo,
           opener.pc = "moving" <=> Moves, Typed',
           NEW f \in DOMAIN disk', NEW h \in DOMAIN disk', f.gen < h.gen, Alive(f.gen)'
    PROVE  Alive(f.gen)
<1>1. /\ f.gen \in Nat /\ h.gen \in Nat
      /\ opener.pc # "idle" => opener.gen \in Nat
      /\ Here \in Nat
  <2>1. f.gen \in Generations /\ h.gen \in Generations
    BY DEF Typed, OnDisk, Name
  <2> QED
    BY <2>1, GensAre
<1>2. ~Current(f.gen)
  <2>1. opener.pc # "idle" => h.gen <= opener.gen
    BY DEF Bounds
  <2>2. IsOpen(installed) /\ opener.pc # "moving" => h.gen <= Here
    BY DEF Bounds, IsOpen, Here
  <2> QED
    BY <1>1, <2>1, <2>2 DEF Current
<1>3. ~Dead(f.gen)' => ~Dead(f.gen)
  BY <1>2, DeadStays
<1> QED
  BY <1>3 DEF Alive, Here

LEMMA NewerCarried ==
    ASSUME Newer,
           \A f \in DOMAIN disk' : f.kind \in Live =>
                f \in DOMAIN disk /\ disk'[f].copies = disk[f].copies,
           \A f, h \in DOMAIN disk' : f.kind \in Live /\ f.gen < h.gen /\ Alive(f.gen)' => Alive(f.gen)
    PROVE  Newer'
BY DEF Newer

\* Only what the opener leaves unfinished is still to be done.
LEMMA TodoShrinks ==
    ASSUME Steady, Typed, Typed', Alone, Alone', OldIsListed, InFlight, FateOK, AsidesApart,
           Step, ~OpenStart
    PROVE  Todo' \subseteq Todo
<1>1. ASSUME ~Moves' PROVE Todo' \subseteq Todo
  BY <1>1 DEF Todo
<1>2. ASSUME NEW task, NEW dest, NEW copies, NEW drop, NEW tmp,
             Lists(task, dest, copies, drop, tmp) \/ Seals(task, dest, copies, drop, tmp)
      PROVE  Todo' \subseteq Todo
  <2>1. Job'.pc = "rename" /\ Job'.task = task
    BY <1>2, StagedJob
  <2>2. CASE Lists(task, dest, copies, drop, tmp)
    BY <1>1, <2>1, <2>2 DEF Lists, Moves
  <2>3. CASE Seals(task, dest, copies, drop, tmp)
    BY <2>1, <2>3 DEF Seals, Moves, Todo
  <2> QED
    BY <1>2, <2>2, <2>3
<1>3. CASE \E r \in Rows : Quarantine(installed, r)
  <2>1. Job'.pc = "merge"
    BY <1>3, GoesOn
  <2> QED
    BY <1>1, <2>1 DEF Moves
<1>4. CASE \/ \E r \in Rows : QuarantineFails(installed, r)
           \/ Scan \/ Seed \/ LockAccount \/ Rotate \/ (\E g \in Generations : Spoil(g))
  <2>1. Job' = Job
    BY <1>4 DEF QuarantineFails, Scan, Seed, LockAccount, Rotate, Spoil, Job
  <2> QED
    BY <2>1 DEF Moves, Todo
<1>5. CASE Rename(installed)
  <2>1. Job'.pc = "drop" /\ Job'.task = Job.task /\ Job.pc = "rename"
    BY <1>5, LandedIs DEF Rename, Job
  <2> QED
    BY <2>1 DEF Moves, Todo
<1>6. CASE \/ WriteFails(installed) \/ Answer(installed) \/ MoveFails(installed)
           \/ OpenDone(installed) \/ Reinit \/ Crash
  <2>1. Job' = Idle
    BY <1>6, Ends DEF Job, Typed
  <2> QED
    BY <1>1, <2>1 DEF Moves, Idle
<1>7. CASE Drop(installed)
  <2>1. Job.pc = "drop" /\ Job'.pc = "drop" /\ Job'.task = Job.task
    BY <1>7, GoesOn DEF Drop, Job
  <2> QED
    BY <2>1 DEF Moves, Todo
<1>8. CASE \E f \in DOMAIN disk : MoveLanded(installed, f) \/ MoveAside(installed, f)
  <2>1. PICK f \in DOMAIN disk : MoveLanded(installed, f) \/ MoveAside(installed, f)
    BY <1>8
  <2>2. Job.pc = "move"
    BY <2>1 DEF MoveLanded, MoveAside, NextFile, Job
  <2>3. Job'.pc = "move" /\ Job'.task.todo = Job.task.todo \ {f}
    BY <2>1, GoesOn
  <2> QED
    BY <2>2, <2>3 DEF Moves, Todo
<1>9. CASE MoveOn(installed)
  <2>1. Job.pc = "drop" /\ Job.task.what = "move"
    BY <1>9 DEF MoveOn, Job
  <2>2. PICK f \in Job.drop : Job'.pc = "move" /\ Job'.task.todo = Job.task.todo \ {f}
    BY <1>9, GoesOn
  <2> QED
    BY <2>1, <2>2 DEF Moves, Todo
<1> QED
  BY <1>2, <1>3, <1>4, <1>5, <1>6, <1>7, <1>8, <1>9, Stages DEF Step

LEMMA NewerKept ==
    ASSUME Steady, Typed, Typed', Alone, Alone', Bounds, Bounds', OldIsListed, AsidesApart,
           InFlight, FateOK, Newer, Step
    PROVE  Newer'
<1>1. NothingOlder
  BY NewFiles
<1>2. ASSUME UNCHANGED <<open, installed, opener>>, Todo' \subseteq Todo,
             NEW f \in DOMAIN disk', NEW h \in DOMAIN disk', f.gen < h.gen, Alive(f.gen)'
      PROVE  Alive(f.gen)
  BY <1>1, <1>2, AliveBefore DEF Alone
<1>3. ASSUME UNCHANGED <<open, installed, opener>>, Todo' \subseteq Todo,
             \A f \in DOMAIN disk' : f.kind \in Live =>
                f \in DOMAIN disk /\ disk'[f].copies = disk[f].copies
      PROVE  Newer'
  BY <1>2, <1>3, NewerCarried
<1>4. ASSUME \A f \in DOMAIN disk' : f \in DOMAIN disk /\ disk'[f] = disk[f],
             Todo' = {}, opener'.pc = "idle"
      PROVE  Newer'
  <2>1. \A g : Alive(g)' => Alive(g)
    BY <1>4 DEF Alive, Dead
  <2> QED
    BY <1>4, <2>1, NewerCarried
<1>5. ASSUME NEW task, NEW dest, NEW copies, NEW drop, NEW tmp,
             Lists(task, dest, copies, drop, tmp) \/ Seals(task, dest, copies, drop, tmp),
             Todo' \subseteq Todo
      PROVE  Newer'
  <2>1. UNCHANGED <<open, installed, opener>>
    BY <1>5 DEF Lists, Seals
  <2>2. \A f \in DOMAIN disk' : f.kind \in Live => f \in DOMAIN disk /\ disk'[f] = disk[f]
    BY <1>5 DEF Lists, Seals, Staging, Live
  <2> QED
    BY <1>3, <1>5, <2>1, <2>2
<1>6. ASSUME NEW f, NEW g, SetAside(f, g), UNCHANGED <<open, installed, opener>>, Todo' \subseteq Todo
      PROVE  Newer'
  <2>1. \A x \in DOMAIN disk' : x.kind \in Live => x \in DOMAIN disk /\ disk'[x] = disk[x]
    BY <1>6 DEF SetAside, Live
  <2> QED
    BY <1>3, <1>6, <2>1
<1>7. ASSUME NEW f, Gone(f), UNCHANGED <<open, installed, opener>>, Todo' \subseteq Todo PROVE Newer'
  BY <1>3, <1>7 DEF Gone
<1>8. ASSUME UNCHANGED <<disk, open, installed, opener>>, Todo' \subseteq Todo PROVE Newer'
  BY <1>3, <1>8
<1>9. ASSUME Rename(installed), Todo' \subseteq Todo PROVE Newer'
  <2>1. /\ Landed /\ Job.pc = "rename" /\ UNCHANGED <<open, installed, opener>>
    BY <1>9, LandedIs DEF Rename, Job
  <2>2. /\ Job.tmp.kind = "staged" /\ Job.dest \in DOMAIN disk' /\ disk'[Job.dest] = disk[Job.tmp]
        /\ \A x \in DOMAIN disk' \ {Job.dest} : x \in DOMAIN disk /\ disk'[x] = disk[x]
    BY <2>1, LandsOn DEF Landed
  <2>3. SUFFICES ASSUME NEW f \in DOMAIN disk', NEW h \in DOMAIN disk',
                        f.kind = h.kind, f.kind \in Live, f.n = h.n, f.gen < h.gen, Alive(f.gen)'
                 PROVE  Covers(disk'[h].copies, disk'[f].copies)
    BY DEF Newer
  <2>4. Alive(f.gen)
    BY <1>2, <1>9, <2>1, <2>3
  <2>5. /\ f.gen \in Nat /\ h.gen \in Nat
        /\ opener.pc = "moving" => opener.gen \in Nat
        /\ Here \in Nat
    <3>1. f.gen \in Generations /\ h.gen \in Generations
      BY DEF Typed, OnDisk, Name
    <3> QED
      BY <3>1, GensAre
  <2>6. Job.dest.gen = IF Job.task.what = "move" THEN opener.gen ELSE Here
    BY <2>1 DEF Alone
  <2>7. CASE f = Job.dest
    <3>1. opener.pc # "idle" => h.gen <= opener.gen
      BY <2>1 DEF Bounds
    <3>2. IsOpen(installed) /\ opener.pc # "moving" => h.gen <= Here
      BY <2>1 DEF Bounds, IsOpen, Here
    <3>3. IF Job.task.what = "move" THEN opener.pc = "moving" ELSE IsOpen(installed) /\ opener.pc # "moving"
      BY <2>1 DEF Alone, Moves
    <3> QED
      BY <2>3, <2>5, <2>6, <2>7, <3>1, <3>2, <3>3
  <2>8. CASE f # Job.dest /\ h # Job.dest
    <3>1. /\ f \in DOMAIN disk /\ disk'[f] = disk[f]
          /\ h \in DOMAIN disk /\ disk'[h] = disk[h]
      BY <2>2, <2>8
    <3> QED
      BY <2>3, <2>4, <3>1 DEF Newer
  <2>9. CASE f # Job.dest /\ h = Job.dest /\ Job.task.what = "move"
    <3>1. f \in DOMAIN disk /\ disk'[f] = disk[f] /\ disk'[h] = disk[Job.tmp]
      BY <2>2, <2>9
    <3>2. opener.pc = "moving" /\ Moves /\ f.gen < opener.gen
      BY <2>1, <2>3, <2>6, <2>9 DEF Alone, Moves
    <3>3. f \in Todo
      BY <2>4, <3>1, <3>2 DEF Alive, OldIsListed, TodoIsAll
    <3>4. PICK k \in Todo : /\ Job.dest = [k EXCEPT !.gen = opener.gen]
                            /\ disk[Job.tmp].copies = disk[k].copies /\ \A g \in Todo : g.gen <= k.gen
      BY <2>1, <2>9, LandsOn
    <3>5. k \in DOMAIN disk /\ f \in Name /\ k \in Name
      BY <3>1, <3>2 DEF OldIsListed, TodoIsAll, Typed, OnDisk
    <3>6. k.kind = h.kind /\ k.n = h.n /\ f.gen <= k.gen /\ k.gen \in Nat
      <4>1. k.gen \in Generations
        BY <3>5 DEF Name
      <4> QED
        BY <2>9, <3>3, <3>4, <3>5, <4>1, GensAre DEF Name
    <3>7. CASE f.gen = k.gen
      <4>1. f = k
        BY <2>3, <3>5, <3>6, <3>7 DEF Name
      <4> QED
        BY <3>1, <3>4, <4>1, CoversPart
    <3>8. CASE f.gen < k.gen
      <4>1. Covers(disk[k].copies, disk[f].copies)
        BY <2>3, <2>4, <3>1, <3>5, <3>6, <3>8 DEF Newer
      <4> QED
        BY <3>1, <3>4, <4>1
    <3> QED
      BY <2>5, <3>6, <3>7, <3>8
  <2>10. CASE f # Job.dest /\ h = Job.dest /\ Job.task.what # "move"
    <3>1. /\ IsOpen(installed) /\ opener.pc # "moving" /\ Todo = {} /\ f.gen < Here
      BY <2>1, <2>3, <2>6, <2>10 DEF Alone, Moves, Todo
    <3>2. f.gen # Here
      BY <2>5, <3>1
    <3>3. Dead(f.gen)
      <4>1. f.gen \in Generations
        BY DEF Typed, OnDisk, Name
      <4> QED
        BY <3>1, <4>1 DEF OldIsListed, OldAreDead
    <3>4. opener.pc \in {"seed", "open"} => opener.older = {}
      BY <3>1 DEF OldIsListed, OldAreKnown
    <3> QED
      BY <2>4, <3>1, <3>2, <3>3, <3>4 DEF Alive
  <2> QED
    BY <2>7, <2>8, <2>9, <2>10
<1>10. ASSUME WriteFails(installed) \/ MoveFails(installed), Todo' \subseteq Todo PROVE Newer'
  <2>1. /\ Job.pc # "idle" /\ Fails(installed) /\ installed' = installed
        /\ UNCHANGED disk \/ Gone(Job.tmp)
    BY <1>10, Removals DEF WriteFails, MoveFails, Job
  <2>2. CASE Job.task.what = "move"
    <3>1. opener'.pc = "idle" /\ Job' = Idle
      BY <2>1, <2>2, FailsIs DEF Idle, Job
    <3>2. Todo' = {}
      BY <3>1 DEF Todo, Moves, Idle
    <3> QED
      BY <1>4, <2>1, <3>1, <3>2 DEF Gone
  <2>3. CASE Job.task.what # "move"
    <3>1. UNCHANGED <<open, installed, opener>>
      BY <2>1, <2>3, FailsIs
    <3> QED
      BY <1>7, <1>8, <1>10, <2>1, <3>1
  <2> QED
    BY <2>2, <2>3
<1>11. CASE OpenDone(installed) \/ Reinit \/ Crash \/ LockAccount
  <2>1. disk' = disk /\ opener'.pc = "idle"
    BY <1>11 DEF OpenDone, Reinit, Crash, LockAccount, Steady, Idle
  <2>2. Todo' = {}
    BY <2>1 DEF Todo, Alone
  <2> QED
    BY <1>4, <2>1, <2>2
<1>12. CASE Scan
  <2>1. /\ UNCHANGED <<disk, keyGen, open, installed>> /\ opener.pc = "idle"
        /\ opener'.pc = "seed"
        /\ LET sealed == {f.gen : f \in Legible({"account", "orphan", "staged"})}
           IN  opener'.older \subseteq sealed
    BY <1>12 DEF Scan, Wanted
  <2>2. \A g \in opener'.older : ~Dead(g)
    BY <2>1 DEF Dead, Legible
  <2>3. ASSUME NEW f \in DOMAIN disk, NEW h \in DOMAIN disk, f.gen < h.gen PROVE f.gen # Here
    <3>1. h.gen \in Generations /\ h.gen \in Nat /\ f.gen \in Nat /\ Here \in Nat /\ h.gen <= MaxGen
      BY GensAre
    <3>2. CASE IsOpen(installed)
      <4>1. h.gen <= Here
        BY <2>1, <3>2 DEF Bounds
      <4> QED
        BY <2>3, <3>1, <4>1
    <3>3. CASE ~IsOpen(installed)
      <4>1. f.gen \in Generations /\ Here \notin Generations
        BY <3>3, GensAre
      <4> QED
        BY <4>1
    <3> QED
      BY <3>2, <3>3
  <2>4. Todo' = {}
    BY <2>1 DEF Todo, Alone
  <2>5. ASSUME NEW f \in DOMAIN disk, NEW h \in DOMAIN disk, f.gen < h.gen, Alive(f.gen)'
        PROVE  Alive(f.gen)
    <3>1. f.gen # Here
      BY <2>3, <2>5
    <3>2. Dead(f.gen)' <=> Dead(f.gen)
      BY <2>1 DEF Dead
    <3> QED
      BY <2>1, <2>2, <2>4, <2>5, <3>1, <3>2 DEF Alive, Here
  <2> QED
    BY <2>1, <2>5, NewerCarried
<1>13. CASE Seed
  <2>1. /\ UNCHANGED <<disk, open, installed>> /\ opener.pc = "seed" /\ opener'.pc = "open"
        /\ opener'.older = opener.older
    BY <1>13, OpenerIs DEF Seed, Opening
  <2>2. Todo' = {}
    BY <2>1 DEF Todo, Alone
  <2>3. \A g : Alive(g)' => Alive(g)
    BY <2>1, <2>2 DEF Alive, Dead, Here
  <2> QED
    BY <2>1, <2>3, NewerCarried
<1>14. CASE OpenStart
  <2>1. /\ UNCHANGED <<disk, open, installed>> /\ opener.pc = "open" /\ opener'.pc = "moving"
        /\ opener.gen \in Generations
    BY <1>14, OpenerIs, GensAre DEF OpenStart, Opening
  <2>2. /\ Job'.pc = "move"
        /\ Job'.task.todo = {f \in DOMAIN disk : f.gen \in
                        KeysFor(installed, opener.gen, opener.older) \ {opener.gen}}
    BY <1>14, GoesOn
  <2>3. \A f \in Todo' : f.gen \in opener.older \/ f.gen = Here
    BY <2>2 DEF Todo, Moves, KeysFor, Here
  <2>4. \A g : Alive(g)' => Alive(g)
    BY <2>1, <2>3 DEF Alive, Dead
  <2> QED
    BY <2>1, <2>4, NewerCarried
<1>15. ASSUME ~OpenStart PROVE Todo' \subseteq Todo
  BY <1>15, TodoShrinks
<1>16. ASSUME NEW r \in Rows, Quarantine(installed, r) PROVE Newer'
  <2>1. UNCHANGED <<open, installed, opener>>
    BY <1>16 DEF Quarantine, Begin
  <2>2. Todo' = {}
    <3>1. Job'.pc = "merge"
      BY <1>16, GoesOn
    <3> QED
      BY <3>1 DEF Todo, Moves
  <2> QED
    BY <1>6, <1>16, <2>1, <2>2, QuarantineIs
<1>17. ASSUME NEW f \in DOMAIN disk, MoveLanded(installed, f) \/ MoveAside(installed, f),
              Todo' \subseteq Todo
       PROVE  Newer'
  <2>1. UNCHANGED <<open, installed, opener>>
    BY <1>17 DEF MoveLanded, MoveAside
  <2>2. Gone(f) \/ \E g : SetAside(f, g)
    BY <1>17, Removals, MoveAsideIs
  <2> QED
    BY <1>6, <1>7, <1>17, <2>1, <2>2
<1>18. ASSUME Drop(installed) \/ MoveOn(installed), Todo' \subseteq Todo PROVE Newer'
  <2>1. UNCHANGED <<open, installed, opener>>
    BY <1>18 DEF Drop, MoveOn
  <2>2. \E f \in Job.drop : UNCHANGED disk \/ Gone(f)
    BY <1>18, Removals
  <2> QED
    BY <1>7, <1>8, <1>18, <2>1, <2>2
<1>19. ASSUME (\E r \in Rows : QuarantineFails(installed, r)) \/ Answer(installed) \/ Rotate,
              Todo' \subseteq Todo
       PROVE  Newer'
  <2>1. UNCHANGED <<disk, open, installed, opener>>
    BY <1>19 DEF QuarantineFails, Answer, Rotate
  <2> QED
    BY <1>8, <1>19, <2>1
<1>20. ASSUME NEW g \in Generations, Spoil(g), Todo' \subseteq Todo PROVE Newer'
  <2>1. /\ UNCHANGED <<open, installed, opener>> /\ DOMAIN disk' = DOMAIN disk
        /\ \A x \in DOMAIN disk : disk'[x].copies = disk[x].copies
    BY <1>20, SpoilIs DEF Spoil, Spoiled
  <2> QED
    BY <1>3, <1>20, <2>1
<1> QED
  BY <1>5, <1>9, <1>10, <1>11, <1>12, <1>13, <1>14, <1>15, <1>16, <1>17, <1>18, <1>19, <1>20,
     Stages DEF Step

-----------------------------------------------------------------------------
(* What is over stays over, and what is not was seeded                     *)

\* How far the copies of a row on a disk got.
Got(d, r) ==
    {s \in Statuses : \E f \in DOMAIN d : f.kind # "staged" /\
        \E c \in d[f].copies : c.row = r /\ c.status = s}
Top(got) == IF "settled" \in got THEN "settled"
            ELSE IF "pending" \in got THEN "pending"
            ELSE IF "unknown" \in got THEN "unknown" ELSE "absent"

LEMMA FurthestIs ==
    ASSUME NEW r
    PROVE  /\ Furthest(r) = Top(Got(disk, r))
           /\ Furthest(r)' = Top(Got(disk', r))
<1> DEFINE Copies(d) == UNION {d[f].copies : f \in {x \in DOMAIN d : x.kind # "staged"}}
           Found(d) == {c.status : c \in {x \in Copies(d) : x.row = r}}
<1>1. ASSUME NEW d, NEW s \in Statuses PROVE s \in Found(d) <=> s \in Got(d, r)
  BY DEF Got
<1>2. ASSUME NEW d PROVE Top(Found(d)) = Top(Got(d, r))
  <2>1. {"unknown", "pending", "settled"} \subseteq Statuses
    BY DEF Statuses
  <2> HIDE DEF Found
  <2> QED
    BY <1>1, <2>1 DEF Top
<1>3. Furthest(r) = Top(Found(disk)) /\ Furthest(r)' = Top(Found(disk'))
  BY DEF Furthest, CopiesIn, Top
<1> HIDE DEF Found
<1> QED
  BY <1>2, <1>3

LEMMA SettledIs ==
    ASSUME NEW r
    PROVE  /\ Furthest(r) = "settled" <=> "settled" \in Got(disk, r)
           /\ Furthest(r)' = "settled" <=> "settled" \in Got(disk', r)
BY FurthestIs DEF Top

\* What got so far in the old files got as far in the new.
LEMMA GotGoesOn ==
    ASSUME Typed', NothingLost, NEW r, NEW s \in Got(disk, r)
    PROVE  \E t \in Got(disk', r) : Rank(s) <= Rank(t)
<1>1. PICK f \in DOMAIN disk : f.kind # "staged" /\
            \E c \in disk[f].copies : c.row = r /\ c.status = s
  BY DEF Got
<1>2. PICK c \in disk[f].copies : c.row = r /\ c.status = s
  BY <1>1
<1>3. PICK g \in DOMAIN disk' : g.kind # "staged" /\ Covers(disk'[g].copies, disk[f].copies)
  BY <1>1 DEF NothingLost
<1>4. PICK d \in disk'[g].copies : d.row = c.row /\ Rank(c.status) <= Rank(d.status)
  BY <1>3 DEF Covers
<1>5. d.status \in Statuses
  BY DEF Typed, OnDisk, Box, Copy
<1> QED
  BY <1>2, <1>3, <1>4, <1>5 DEF Got

LEMMA SettledStays ==
    ASSUME Typed', NothingLost, NEW r, Furthest(r) = "settled"
    PROVE  Furthest(r)' = "settled"
<1>1. "settled" \in Got(disk, r)
  BY SettledIs
<1>2. PICK t \in Got(disk', r) : Rank("settled") <= Rank(t)
  BY <1>1, GotGoesOn
<1>3. t = "settled"
  BY <1>2 DEF Got, Rank, Statuses
<1> QED
  BY <1>2, <1>3, SettledIs

\* The account is open, or its past is seeded and it is about to be.
Past == opener.pc \in {"open", "moving"} \/ IsOpen(installed)

\* No row comes to be read that was not, but one this process accounts for.
RowsRead ==
    \A f \in (Legible(Live) \cup Landing)' : \A r \in Rows \ (mine' \cup burnt') :
        (\E c \in disk'[f].copies : c.row = r) => \E g \in Legible(Live) \cup Landing : In(r, g)

LEMMA SeededCarried ==
    ASSUME Typed', NothingLost, Seeded, RowsRead, Past' => Past,
           mine \subseteq mine', burnt \subseteq burnt'
    PROVE  Seeded'
<1> SUFFICES ASSUME Past', NEW r \in Rows \ (mine' \cup burnt'),
                    NEW f \in (Legible(Live) \cup Landing)', In(r, f)'
             PROVE  Furthest(r)' = "settled"
  BY DEF Seeded, Past
<1>1. PICK g \in Legible(Live) \cup Landing : In(r, g)
  BY DEF RowsRead, In
<1>2. Furthest(r) = "settled"
  BY <1>1 DEF Seeded, Past
<1> QED
  BY <1>2, SettledStays

\* Where no list is staged or lands, what is read is what was.
LEMMA ReadsOld ==
    ASSUME OldReads,
           Landing' # {} => Landing' = Landing /\ \A f \in Landing : disk'[f].copies = disk[f].copies
    PROVE  RowsRead
<1> SUFFICES ASSUME NEW f \in (Legible(Live) \cup Landing)', NEW r, NEW c \in disk'[f].copies, c.row = r
             PROVE  \E g \in Legible(Live) \cup Landing : In(r, g)
  BY DEF RowsRead
<1>1. CASE f \in Landing'
  BY <1>1 DEF In
<1>2. CASE f \in Legible(Live)'
  <2>1. f \in DOMAIN disk' /\ f.kind \in Live /\ disk'[f].ok
    BY <1>2 DEF Legible
  <2>2. PICK g \in Legible(Live) \cup Landing : disk'[f].copies = disk[g].copies
    BY <2>1 DEF OldReads
  <2> QED
    BY <2>2 DEF In
<1> QED
  BY <1>1, <1>2

LEMMA SeededKept ==
    ASSUME Steady, Typed, Typed', Alone, Alone', Bounds, OldIsListed, AsidesApart, InFlight,
           FateOK, Newer, Seeded, Step
    PROVE  Seeded'
<1>1. NothingLost
  BY NoneLost
<1>2. ASSUME ~Past' PROVE Seeded'
  BY <1>2 DEF Seeded, Past
<1>3. ASSUME OldReads, Job'.pc # "rename", Past' => Past, mine \subseteq mine', burnt \subseteq burnt'
      PROVE  Seeded'
  <2>1. Landing' = {}
    BY <1>3 DEF Landing
  <2> QED
    BY <1>1, <1>3, <2>1, ReadsOld, SeededCarried
<1>4. ASSUME NEW task, NEW dest, NEW copies, NEW drop, NEW tmp, Lists(task, dest, copies, drop, tmp)
      PROVE  Seeded'
  <2>1. /\ Job'.pc = "rename" /\ Job'.tmp = tmp /\ Job'.dest = dest
    BY <1>4, StagedJob
  <2>2. /\ DOMAIN disk' = DOMAIN disk \cup {tmp} /\ tmp \notin DOMAIN disk /\ tmp.kind = "staged"
        /\ \A x \in DOMAIN disk : disk'[x] = disk[x]
        /\ disk'[tmp].copies = copies
        /\ MergedList(task, dest, copies, drop)
        /\ UNCHANGED <<open, installed, opener, burnt>>
        /\ mine \subseteq mine' /\ (task.what = "add" => task.row \in mine')
        /\ \A f \in Src(dest, drop) : f \in Legible(Live)
    BY <1>4 DEF Lists, Staging, Staged, Legible
  <2>3. ASSUME NEW f \in Legible(Live)' PROVE f \in Legible(Live) /\ disk'[f] = disk[f]
    BY <2>2 DEF Legible, Live
  <2>4. ASSUME NEW c \in copies
        PROVE  c.row \in mine' \/ \E f \in Legible(Live) : In(c.row, f)
    BY <2>2, ListRows
  <2>5. Landing' \subseteq {tmp}
    BY <2>1 DEF Landing
  <2>6. RowsRead
    BY <2>2, <2>3, <2>4, <2>5 DEF RowsRead, In
  <2>7. Past' => Past
    BY <2>2 DEF Past, IsOpen
  <2> QED
    BY <1>1, <2>2, <2>6, <2>7, SeededCarried
<1>5. ASSUME NEW task, NEW dest, NEW copies, NEW drop \in SUBSET DOMAIN disk, NEW tmp,
             Seals(task, dest, copies, drop, tmp)
      PROVE  Seeded'
  <2>1. /\ Job'.pc = "rename" /\ Job'.tmp = tmp /\ Job'.dest = dest
    BY <1>5, StagedJob
  <2>2. /\ DOMAIN disk' = DOMAIN disk \cup {tmp} /\ tmp \notin DOMAIN disk /\ tmp.kind = "staged"
        /\ \A x \in DOMAIN disk : disk'[x] = disk[x]
        /\ disk'[tmp].copies = copies
        /\ SealedAgain(task, dest, copies, drop) /\ \A f \in drop : disk[f].ok
        /\ UNCHANGED <<open, installed, opener, mine, burnt>>
    BY <1>5 DEF Seals, Staging, Staged
  <2>3. PICK h \in drop : dest = [h EXCEPT !.gen = opener.gen] /\ copies = disk[h].copies
    BY <2>2 DEF SealedAgain
  <2>4. h \in DOMAIN disk /\ disk[h].ok /\ dest.kind = h.kind
    BY <2>2, <2>3 DEF Typed, OnDisk, Name
  <2>5. ASSUME NEW f \in Legible(Live)' PROVE f \in Legible(Live) /\ disk'[f] = disk[f]
    BY <2>2 DEF Legible, Live
  <2>6. ASSUME NEW f \in Landing' PROVE f = tmp /\ h \in Legible(Live)
    BY <2>1, <2>4 DEF Landing, Legible
  <2>7. RowsRead
    BY <2>2, <2>3, <2>5, <2>6 DEF RowsRead, In
  <2>8. Past' => Past
    BY <2>2 DEF Past, IsOpen
  <2> QED
    BY <1>1, <2>2, <2>7, <2>8, SeededCarried
<1>6. CASE Rename(installed)
  <2>1. /\ Landed /\ Job.pc = "rename" /\ Job'.pc = "drop"
        /\ UNCHANGED <<open, installed, opener, mine, burnt>>
    BY <1>6, LandedIs DEF Rename, Job
  <2>2. /\ Job.tmp \in DOMAIN disk /\ disk'[Job.dest] = disk[Job.tmp]
        /\ \A x \in DOMAIN disk' \ {Job.dest} : x \in DOMAIN disk /\ disk'[x] = disk[x]
    BY <2>1, LandsOn DEF Landed
  <2>3. Job.dest.kind \in Live => Job.tmp \in Landing
    BY <2>1 DEF Landing
  <2>4. OldReads
    BY <2>2, <2>3 DEF OldReads, Legible
  <2>5. Past' => Past
    BY <2>1 DEF Past, IsOpen
  <2> QED
    BY <1>3, <2>1, <2>4, <2>5
<1>7. ASSUME NEW r \in Rows, Quarantine(installed, r) PROVE Seeded'
  <2>1. /\ Job'.pc = "merge" /\ OldReads
    BY <1>7, GoesOn, NothingWritten
  <2>2. UNCHANGED <<open, installed, opener, burnt>> /\ mine \subseteq mine'
    BY <1>7 DEF Quarantine, Begin
  <2>3. Past' => Past
    BY <2>2 DEF Past, IsOpen
  <2> QED
    BY <1>3, <2>1, <2>2, <2>3
<1>8. CASE WriteFails(installed) \/ MoveFails(installed)
  <2>1. /\ Job.pc # "idle" /\ Fails(installed) /\ UNCHANGED <<installed, mine, burnt>>
    BY <1>8 DEF WriteFails, MoveFails, Job
  <2>2. Job' = Idle /\ OldReads
    BY <1>8, <2>1, FailsIs, NothingWritten DEF Job
  <2>3. CASE Job.task.what = "move"
    <3>1. opener'.pc = "idle" /\ open'[installed'] = Closed
      BY <2>1, <2>3, FailsIs DEF Typed, Idle
    <3> QED
      BY <1>2, <3>1 DEF Past, IsOpen
  <2>4. CASE Job.task.what # "move"
    <3>1. UNCHANGED <<open, opener>>
      BY <2>1, <2>4, FailsIs
    <3>2. Past' => Past
      BY <2>1, <3>1 DEF Past, IsOpen
    <3> QED
      BY <1>3, <2>1, <2>2, <3>2 DEF Idle
  <2> QED
    BY <2>3, <2>4
<1>9. CASE \/ Drop(installed) \/ MoveOn(installed)
           \/ \E f \in DOMAIN disk : MoveLanded(installed, f) \/ MoveAside(installed, f)
  <2>1. Job'.pc \in {"drop", "move"}
    BY <1>9, GoesOn
  <2>2. OldReads
    BY <1>9, NothingWritten
  <2>3. UNCHANGED <<open, installed, opener, mine, burnt>>
    BY <1>9 DEF Drop, MoveOn, MoveLanded, MoveAside
  <2>4. Past' => Past
    BY <2>3 DEF Past, IsOpen
  <2> QED
    BY <1>3, <2>1, <2>2, <2>3, <2>4
<1>10. CASE Answer(installed) \/ OpenDone(installed)
  <2>1. Job' = Idle /\ OldReads
    BY <1>10, Ends, NothingWritten DEF Job, Typed
  <2>2. UNCHANGED <<installed, mine, burnt>>
    BY <1>10 DEF Answer, OpenDone
  <2>3. Past' => Past
    <3>1. CASE Answer(installed)
      BY <3>1 DEF Answer, Past, IsOpen
    <3>2. CASE OpenDone(installed)
      <4>1. opener.pc = "moving"
        BY <3>2 DEF OpenDone, Alone, Moves, Job
      <4> QED
        BY <4>1 DEF Past
    <3> QED
      BY <1>10, <3>1, <3>2
  <2> QED
    BY <1>3, <2>1, <2>2, <2>3 DEF Idle
<1>11. CASE Reinit \/ Crash \/ LockAccount
  <2>1. opener'.pc = "idle"
    BY <1>11 DEF Reinit, Crash, LockAccount, Steady, Idle
  <2>2. open'[installed'] = Closed
    BY <1>11 DEF Reinit, Crash, LockAccount, Steady, Typed, Insts, Alone
  <2> QED
    BY <1>2, <2>1, <2>2 DEF Past, IsOpen
<1>12. CASE Scan \/ OpenStart \/ \E r \in Rows : QuarantineFails(installed, r)
  <2>1. OldReads
    BY <1>12, NothingWritten
  <2>2. Job'.pc # "rename"
    <3>1. CASE OpenStart
      BY <3>1, GoesOn
    <3>2. CASE Scan \/ \E r \in Rows : QuarantineFails(installed, r)
      BY <3>2 DEF Scan, QuarantineFails, Ready, Free, Job
    <3> QED
      BY <1>12, <3>1, <3>2
  <2>3. UNCHANGED <<open, installed, mine, burnt>>
    BY <1>12 DEF Scan, OpenStart, QuarantineFails
  <2>4. Past' => Past
    BY <1>12, <2>3 DEF Past, IsOpen, Scan, OpenStart, QuarantineFails
  <2> QED
    BY <1>3, <2>1, <2>2, <2>3, <2>4
<1>13. CASE Rotate \/ (\E g \in Generations : Spoil(g))
  <2>1. /\ UNCHANGED <<open, op, installed, opener, mine, burnt>> /\ DOMAIN disk' = DOMAIN disk
        /\ \A x \in DOMAIN disk : disk'[x].copies = disk[x].copies
    BY <1>13, SpoilIs DEF Rotate, Spoil, Spoiled
  <2>2. Landing' = Landing /\ Landing \subseteq DOMAIN disk
    BY <2>1 DEF Landing, Job, InFlight
  <2>3. OldReads
    BY <1>13, NothingWritten
  <2>4. RowsRead
    BY <2>1, <2>2, <2>3, ReadsOld
  <2>5. Past' => Past
    BY <2>1 DEF Past, IsOpen
  <2> QED
    BY <1>1, <2>1, <2>4, <2>5, SeededCarried
<1>14. CASE Seed
  <2> DEFINE keys == KeysFor(installed, opener.gen, opener.older)
  <2>1. /\ opener.pc = "seed" /\ opener.at = installed /\ Job.pc = "idle"
        /\ UNCHANGED <<disk, op, installed, mine>>
        /\ burnt' = burnt \cup UnsettledRows(keys)
    BY <1>14 DEF Seed, Alone, Free, Job
  <2>2. Landing' = {} /\ Legible(Live)' = Legible(Live)
    BY <2>1 DEF Landing, Job, Legible
  <2>3. ASSUME NEW f \in Legible(Live), NEW c \in disk[f].copies, c.status # "settled"
        PROVE  c.row \in burnt'
    <3>1. f \in DOMAIN disk /\ f.kind \in Live /\ disk[f].ok
      BY <2>3 DEF Legible
    <3>2. ~Dead(f.gen) /\ f.gen \in Generations
      BY <3>1, GensAre DEF Dead, Live
    <3>3. f.gen \in keys
      BY <2>1, <3>2 DEF OldIsListed, OldAreKnown
    <3>4. f \in {x \in Legible({"account", "orphan", "staged"}) : x.gen \in keys}
      BY <3>1, <3>3 DEF Legible, Live
    <3>5. c \in CopiesIn({x \in Legible({"account", "orphan", "staged"}) : x.gen \in keys})
      BY <3>4 DEF CopiesIn
    <3> QED
      BY <2>1, <2>3, <3>5 DEF UnsettledRows
  <2>4. ASSUME NEW r \in Rows \ (mine' \cup burnt'), NEW f \in Legible(Live), In(r, f)
        PROVE  Furthest(r) = "settled"
    <3>1. PICK c \in disk[f].copies : c.row = r
      BY <2>4 DEF In
    <3>2. c.status = "settled"
      BY <2>3, <2>4, <3>1
    <3>3. f \in DOMAIN disk /\ f.kind # "staged"
      BY DEF Legible, Live
    <3>4. "settled" \in Got(disk, r)
      BY <3>1, <3>2, <3>3 DEF Got, Statuses
    <3> QED
      BY <3>4, SettledIs
  <2>5. \A r : Furthest(r)' = Furthest(r)
    BY <2>1 DEF Furthest, CopiesIn
  <2> QED
    BY <2>1, <2>2, <2>4, <2>5 DEF Seeded, In
<1> QED
  BY <1>4, <1>5, <1>6, <1>7, <1>8, <1>9, <1>10, <1>11, <1>12, <1>13, <1>14, Stages DEF Step

-----------------------------------------------------------------------------
(* What callers were told                                                  *)

\* A caller is told of the row its call added, and of no other.
Telling ==
    /\ Answer(installed) /\ Job.task.what = "add" /\ Job.task.row \in Rows
    /\ fate' = [fate EXCEPT ![Job.task.row] = "recorded"]

LEMMA ToldOf ==
    ASSUME Steady, Typed, Alone, OldIsListed, FateOK, Step
    PROVE  Telling \/ \A r \in Rows : fate'[r] = "recorded" <=> fate[r] = "recorded"
<1> DEFINE Same == \A r \in Rows : fate'[r] = "recorded" <=> fate[r] = "recorded"
<1> SUFFICES Telling \/ Same
  OBVIOUS
<1>1. ASSUME NEW s \in Rows, fate[s] # "recorded",
             NEW x, x # "recorded", fate' = [fate EXCEPT ![s] = x]
      PROVE  Same
  BY <1>1 DEF Typed
<1>2. ASSUME NEW task \in Tasks, NEW dest, NEW copies, NEW drop, NEW tmp,
             Lists(task, dest, copies, drop, tmp)
      PROVE  Same
  <2>1. CASE task.what = "add"
    <3>1. /\ task.row \in Rows /\ fate[task.row] # "recorded"
          /\ fate' = [fate EXCEPT ![task.row] = "writing"]
      BY <1>2, <2>1 DEF Lists, Tasks
    <3> QED
      BY <3>1, <1>1
  <2>2. CASE task.what # "add"
    BY <1>2, <2>2 DEF Lists
  <2> QED
    BY <2>1, <2>2
<1>3. ASSUME NEW r \in Rows, Quarantine(installed, r) \/ QuarantineFails(installed, r)
      PROVE  Same
  <2>1. fate[r] = "new" /\ \E x \in {"writing", "refused"} : fate' = [fate EXCEPT ![r] = x]
    BY <1>3 DEF Quarantine, QuarantineFails, Begin
  <2> QED
    BY <2>1, <1>1
<1>4. CASE WriteFails(installed) \/ MoveFails(installed)
  <2>1. /\ Job.pc \in {"rename", "drop", "move"} /\ Fails(installed)
        /\ Job.pc = "move" => Job.task.what = "move"
    BY <1>4 DEF WriteFails, MoveFails, Job, Alone
  <2>2. CASE Job.task.what = "add"
    <3>1. /\ Job.task.row \in Rows /\ fate' = [fate EXCEPT ![Job.task.row] = "refused"]
      BY <2>1, <2>2, FailsIs
    <3>2. fate[Job.task.row] = "writing"
      BY <2>1, <2>2 DEF FateOK
    <3> QED
      BY <3>1, <3>2, <1>1
  <2>3. CASE Job.task.what # "add"
    BY <2>1, <2>3, FailsIs
  <2> QED
    BY <2>2, <2>3
<1>5. CASE Answer(installed)
  <2>1. Job.pc = "drop"
    BY <1>5 DEF Answer, Job
  <2>2. CASE Job.task.what = "add"
    <3>1. Job.task.row \in Rows
      BY <2>1, <2>2, RowOfJob
    <3> QED
      BY <1>5, <2>2, <3>1 DEF Answer, Telling, Job
  <2>3. CASE Job.task.what # "add"
    BY <1>5, <2>3 DEF Answer, Job
  <2> QED
    BY <2>2, <2>3
<1>6. CASE \/ Rename(installed) \/ Drop(installed)
           \/ \E f \in DOMAIN disk : MoveLanded(installed, f) \/ MoveAside(installed, f)
           \/ MoveOn(installed) \/ OpenDone(installed) \/ Scan \/ Seed \/ OpenStart \/ LockAccount
           \/ Rotate \/ Reinit \/ (\E g \in Generations : Spoil(g)) \/ Crash
  <2>1. fate' = fate
    BY <1>6 DEF Rename, Drop, MoveLanded, MoveAside, MoveOn, OpenDone, Scan, Seed,
       OpenStart, LockAccount, Rotate, Reinit, Spoil, Crash
  <2> QED
    BY <2>1
<1>7. ASSUME NEW task, NEW dest, NEW copies, NEW drop, NEW tmp,
             Seals(task, dest, copies, drop, tmp)
      PROVE  Same
  BY <1>7 DEF Seals
<1> HIDE DEF Same
<1> QED
  BY <1>2, <1>3, <1>4, <1>5, <1>6, <1>7, Stages DEF Step

\* The row a caller is told of has landed.
LEMMA LandedRow ==
    ASSUME Typed, InFlight, Telling
    PROVE  /\ disk' = disk
           /\ \E f \in DOMAIN disk : f.kind # "staged" /\ In(Job.task.row, f)
           /\ "unknown" \in Got(disk, Job.task.row)
<1>1. /\ disk' = disk /\ Job.pc = "drop" /\ Job.task.what = "add"
  BY DEF Telling, Answer, Job
<1>2. /\ Job.dest \in DOMAIN disk /\ Job.dest.kind \in Live
      /\ NewRow(Job.task.row) \subseteq disk[Job.dest].copies
  BY <1>1 DEF InFlight
<1>3. [row |-> Job.task.row, status |-> "unknown"] \in disk[Job.dest].copies
  BY <1>2 DEF NewRow
<1> QED
  BY <1>1, <1>2, <1>3 DEF In, Got, Live, Statuses

LEMMA RecordedKept ==
    ASSUME Steady, Typed, Alone, Bounds, OldIsListed, AsidesApart, InFlight, FateOK, Newer,
           RecordedStays, Step
    PROVE  RecordedStays'
<1>1. NothingLost
  BY NoneLost
<1> SUFFICES ASSUME NEW r \in Rows, fate'[r] = "recorded"
             PROVE  \E f \in DOMAIN disk' : f.kind # "staged" /\ \E c \in disk'[f].copies : c.row = r
  BY DEF RecordedStays
<1>2. \E f \in DOMAIN disk : f.kind # "staged" /\ In(r, f)
  <2>1. CASE fate[r] = "recorded"
    BY <2>1 DEF RecordedStays, In
  <2>2. CASE fate[r] # "recorded"
    <3>1. Telling /\ r = Job.task.row
      BY <2>2, ToldOf DEF Telling, Typed
    <3> QED
      BY <3>1, LandedRow
  <2> QED
    BY <2>1, <2>2
<1>3. PICK f \in DOMAIN disk : f.kind # "staged" /\ In(r, f)
  BY <1>2
<1>4. PICK c \in disk[f].copies : c.row = r
  BY <1>3 DEF In
<1>5. PICK g \in DOMAIN disk' : g.kind # "staged" /\ Covers(disk'[g].copies, disk[f].copies)
  BY <1>1, <1>3 DEF NothingLost
<1> QED
  BY <1>4, <1>5 DEF Covers

-----------------------------------------------------------------------------
(* The invariant                                                           *)

LEMMA HInitial == StoreInit => HInv
<1> SUFFICES ASSUME StoreInit PROVE HInv
  OBVIOUS
<1>1. DOMAIN disk = {}
  BY DEF StoreInit
<1>2. /\ installed = 1 /\ installed \in Insts /\ op = [i \in Insts |-> Idle]
      /\ open = [i \in Insts |-> Closed] /\ opener = Idle /\ Job = Idle
  BY StoreAssumption DEF StoreInit, Insts, Job
<1>3. Closed \notin Generations /\ ~IsOpen(installed) /\ Idle.pc = "idle" /\ ~Moves /\ Todo = {}
  BY <1>2, StoreAssumption DEF Closed, Generations, IsOpen, Idle, Moves, Todo
<1>4. Typed
  <2>1. OnDisk
    BY <1>1, FS_EmptySet DEF OnDisk, StoreInit
  <2> QED
    BY <1>2, <2>1, StoreAssumption DEF Typed, StoreInit, Generations, Operation
<1>5. Alone /\ Bounds /\ OldIsListed
  BY <1>1, <1>2, <1>3 DEF Alone, Bounds, OldIsListed, OldAreDead, OldAreKnown, TodoIsAll
<1>6. AsidesApart /\ InFlight /\ Newer /\ FateOK /\ Litter
  BY <1>1, <1>2, <1>3 DEF AsidesApart, InFlight, Newer, FateOK, Litter, Names
<1>7. Seeded
  BY <1>2, <1>3 DEF Seeded
<1>8. RecordedStays
  BY DEF RecordedStays, StoreInit
<1> QED
  BY <1>4, <1>5, <1>6, <1>7, <1>8 DEF HInv, Files

LEMMA HKept ==
    ASSUME Steady, HInv, StoreNext
    PROVE  HInv'
<1> USE DEF HInv, Files
<1>1. Step
  BY NextIsStep
<1>2. Typed'
  BY <1>1, TypedKept
<1>3. Alone'
  BY <1>1, <1>2, AloneKept
<1>4. Bounds' /\ OldIsListed'
  BY <1>1, <1>2, <1>3, BoundsKept, ListedKept
<1>5. AsidesApart' /\ InFlight' /\ FateOK' /\ Litter'
  BY <1>1, <1>2, <1>3, AsidesKept, InFlightKept, FateOKKept, LitterKept
<1>6. Newer' /\ Seeded' /\ RecordedStays'
  BY <1>1, <1>2, <1>3, <1>4, NewerKept, SeededKept, RecordedKept
<1> QED
  BY <1>2, <1>3, <1>4, <1>5, <1>6

LEMMA HStutters == HInv /\ UNCHANGED storeVars => HInv'
<1> SUFFICES ASSUME HInv, UNCHANGED storeVars PROVE HInv'
  OBVIOUS
<1>1. UNCHANGED <<disk, keyGen, open, op, installed, opener, fate, mine, burnt, crashes, spoils>>
  BY DEF storeVars
<1>2. Job' = Job /\ Here' = Here /\ (Moves' <=> Moves) /\ Todo' = Todo
  BY <1>1 DEF Job, Here, Moves, Todo
<1>3. Typed' /\ Alone' /\ Bounds'
  BY <1>1, <1>2 DEF HInv, Files, Typed, OnDisk, Alone, Bounds, IsOpen
<1>4. OldIsListed' /\ AsidesApart'
  BY <1>1, <1>2 DEF HInv, Files, OldIsListed, OldAreDead, OldAreKnown, TodoIsAll, Dead, IsOpen,
     KeysFor, AsidesApart, Names
<1>5. InFlight'
  BY <1>1, <1>2, ZenonT(30) DEF HInv, Files, InFlight, Staged, SealedAgain, MergedList, Src
<1>6. Newer'
  BY <1>1, <1>2 DEF HInv, Newer, Alive, Dead
<1>7. FateOK' /\ Litter' /\ RecordedStays'
  BY <1>1, <1>2 DEF HInv, FateOK, In, Litter, Names, RecordedStays
<1>8. Seeded'
  <2>1. \A r : Furthest(r)' = Furthest(r)
    BY <1>1 DEF Furthest, CopiesIn
  <2> QED
    BY <1>1, <1>2, <2>1 DEF HInv, Seeded, In, Legible, Landing, IsOpen
<1> QED
  BY <1>3, <1>4, <1>5, <1>6, <1>7, <1>8 DEF HInv, Files

LEMMA HAlways == ASSUME Steady PROVE StoreSpec => []HInv
<1>1. HInv /\ [StoreNext]_storeVars => HInv'
  BY HKept, HStutters
<1> QED
  BY <1>1, HInitial, PTL DEF StoreSpec

-----------------------------------------------------------------------------
(* What follows                                                            *)

\* Every variable has its type, and a staged file outlives its write only where a
\* process died between the two halves of write_then_rename: whichever way a
\* write ends, the file it staged is renamed or removed.
THEOREM HistoryTypes == ASSUME Steady PROVE StoreSpec => []StoreTypeOK
<1>1. ASSUME HInv PROVE StoreTypeOK
  <2> USE <1>1 DEF HInv, Files
  <2>1. /\ DOMAIN disk \subseteq Name /\ disk \in [DOMAIN disk -> Box]
        /\ keyGen \in Generations /\ open \in [Insts -> Generations \cup {Closed}]
        /\ installed \in Insts
        /\ fate \in [Rows -> {"new", "writing", "recorded", "refused"}]
        /\ mine \subseteq Rows /\ burnt \subseteq Rows
    BY DEF Typed, OnDisk
  <2>2. \A i \in Insts : op[i] \in {Idle} \cup Writing \cup Merging \cup Moving
    BY DEF Typed, Operation
  <2>3. opener.pc \in {"idle", "seed", "open", "moving"}
    BY OpenerIs
  <2>4. crashes = 0 /\ (\A i \in Insts : Free(i)) => Names("staged") = {}
    BY <2>1 DEF Litter, Free, Job
  <2> QED
    BY <2>1, <2>2, <2>3, <2>4 DEF StoreTypeOK
<1> QED
  BY <1>1, HAlways, PTL

\* A row whose `record_intent` said true is in a file for ever after: through the
\* rewrite of the list, the sidecars it absorbs, bytes moved aside, a move to a
\* new key that a crash cut short, and the crash itself.
THEOREM RecordedForGood == ASSUME Steady PROVE StoreSpec => []RecordedStays
<1>1. HInv => RecordedStays
  BY DEF HInv
<1> QED
  BY <1>1, HAlways, PTL

\* A row whose `record_intent` said false is in no file, so that no restart reads
\* it back and takes the number it asked for as used.
THEOREM RefusedForGood == ASSUME Steady PROVE StoreSpec => []RefusedNowhere
<1>1. HInv => RefusedNowhere
  BY DEF HInv, FateOK, In, RefusedNowhere
<1> QED
  BY <1>1, HAlways, PTL

\* An account is open only after the rows of earlier processes that are still
\* unsettled, in whichever file and under whichever key, gave up their numbers to
\* the ledger: no send through it takes one of them again.
THEOREM SeedsCover == ASSUME Steady PROVE StoreSpec => []SeedCovers
<1>1. ASSUME HInv PROVE SeedCovers
  <2> SUFFICES ASSUME NEW i \in Insts, IsOpen(i), NEW r \in Rows \ (mine \cup burnt),
                      NEW f \in Legible({"account", "orphan"}), NEW c \in disk[f].copies, c.row = r
               PROVE  Furthest(r) = "settled"
    BY DEF SeedCovers
  <2>1. i = installed
    BY <1>1 DEF HInv, Files, Alone, IsOpen
  <2>2. f \in Legible(Live) /\ In(r, f)
    BY DEF Live, In
  <2> QED
    BY <1>1, <2>1, <2>2 DEF HInv, Seeded
<1> QED
  BY <1>1, HAlways, PTL

-----------------------------------------------------------------------------
(* The files are a book                                                    *)

LEMMA TopSame ==
    ASSUME NEW G \in SUBSET Statuses, NEW H \in SUBSET Statuses, H \subseteq G,
           \A s \in G : \E t \in H : Rank(s) <= Rank(t)
    PROVE  Top(H) = Top(G)
BY DEF Top, Rank, Statuses

\* One step further at most, and never back.
LEMMA TopStep ==
    ASSUME NEW G \in SUBSET Statuses, NEW H \in SUBSET Statuses,
           \A s \in G : \E t \in H : Rank(s) <= Rank(t),
           \A t \in H : t \in G \/ \E s \in G : Rank(t) = Rank(s) + 1
    PROVE  \/ Top(H) = Top(G)
           \/ Top(G) = "unknown" /\ Top(H) = "pending"
           \/ Top(G) = "pending" /\ Top(H) = "settled"
<1>1. CASE "settled" \in G
  BY <1>1 DEF Top, Rank, Statuses
<1>2. CASE "settled" \notin G /\ "pending" \in G
  BY <1>2 DEF Top, Rank, Statuses
<1>3. CASE "settled" \notin G /\ "pending" \notin G /\ "unknown" \in G
  BY <1>3 DEF Top, Rank, Statuses
<1>4. CASE G = {}
  BY <1>4 DEF Top, Rank, Statuses
<1> QED
  BY <1>1, <1>2, <1>3, <1>4 DEF Statuses

\* Where no row is written, none gets further.
LEMMA BookStands ==
    ASSUME Typed', NothingLost,
           \A f \in DOMAIN disk' : f.kind # "staged" => \E g \in DOMAIN disk :
                g.kind # "staged" /\ disk'[f].copies = disk[g].copies
    PROVE  \A r \in Rows : Furthest(r)' = Furthest(r)
<1> SUFFICES ASSUME NEW r \in Rows PROVE Furthest(r)' = Furthest(r)
  OBVIOUS
<1>1. /\ Got(disk, r) \in SUBSET Statuses /\ Got(disk', r) \in SUBSET Statuses
      /\ Got(disk', r) \subseteq Got(disk, r)
  BY DEF Got
<1>2. \A s \in Got(disk, r) : \E t \in Got(disk', r) : Rank(s) <= Rank(t)
  BY GotGoesOn
<1>3. Top(Got(disk', r)) = Top(Got(disk, r))
  BY <1>1, <1>2, TopSame
<1> QED
  BY <1>3, FurthestIs

\* A list that lands takes its row one step on, and no other.
LEMMA BookAdvances ==
    ASSUME Steady, Typed, Typed', Alone, Bounds, OldIsListed, AsidesApart, InFlight, FateOK, Newer,
           Rename(installed), Job.task.what # "move"
    PROVE  \E row \in Rows :
              /\ \A r \in Rows \ {row} : Furthest(r)' = Furthest(r)
              /\ \/ Furthest(row)' = Furthest(row)
                 \/ Furthest(row) = "absent" /\ Furthest(row)' = "unknown"
                 \/ Furthest(row) = "unknown" /\ Furthest(row)' = "pending"
                 \/ Furthest(row) = "pending" /\ Furthest(row)' = "settled"
<1> DEFINE new == disk[Job.tmp].copies
           src == Src(Job.dest, Job.drop)
<1>1. Landed /\ Job.pc = "rename" /\ Job.task \in Tasks
  BY LandedIs, JobIs DEF Rename, Job, Writing
<1>2. PICK row \in Rows : row = Job.task.row /\ Job.task.what \in {"add", "edit"}
  BY <1>1 DEF Tasks
<1>3. MergedList(Job.task, Job.dest, new, Job.drop)
  BY <1>1 DEF InFlight, Staged
<1>4. /\ Job.tmp.kind = "staged" /\ Job.dest.kind \in Live /\ Job.dest \in DOMAIN disk'
      /\ disk'[Job.dest].copies = new
      /\ \A f \in DOMAIN disk' \ {Job.dest} : f \in DOMAIN disk /\ disk'[f] = disk[f]
  BY <1>1, LandsOn DEF Landed
<1>5. \A f \in src : f \in DOMAIN disk \ {Job.tmp} /\ f.kind # "staged"
  <2>1. /\ Job.drop \subseteq DOMAIN disk /\ Job.tmp \notin Job.drop /\ Job.tmp # Job.dest
        /\ \A f \in Job.drop : f.kind = "orphan"
    BY <1>1, LandsOn
  <2> QED
    BY <1>4, <2>1 DEF Src, Live
<1>6. \A r \in Rows : /\ Got(disk, r) \in SUBSET Statuses /\ Got(disk', r) \in SUBSET Statuses
                      /\ \A s \in Got(disk, r) : \E t \in Got(disk', r) : Rank(s) <= Rank(t)
  <2>1. NothingLost
    BY NoneLost DEF Step
  <2> QED
    BY <2>1, GotGoesOn DEF Got
\* A status reached was reached before, or is that of a copy in the new list.
<1>7. ASSUME NEW r \in Rows, NEW t \in Got(disk', r)
      PROVE  t \in Got(disk, r) \/ \E c \in new : c.row = r /\ c.status = t
  <2>1. PICK f \in DOMAIN disk' : f.kind # "staged" /\
            \E c \in disk'[f].copies : c.row = r /\ c.status = t
    BY <1>7 DEF Got
  <2>2. CASE f = Job.dest
    BY <1>4, <2>1, <2>2
  <2>3. CASE f # Job.dest
    BY <1>4, <2>1, <2>3 DEF Got
  <2> QED
    BY <2>2, <2>3
<1>8. ASSUME NEW f \in src, NEW c \in disk[f].copies PROVE c.status \in Got(disk, c.row)
  <2>1. c.status \in Statuses
    BY <1>5 DEF Typed, OnDisk, Box, Copy
  <2> QED
    BY <1>5, <2>1 DEF Got
<1>9. ASSUME NEW c \in new
      PROVE  \/ c.status \in Got(disk, c.row)
             \/ Job.task.what = "add" /\ c.row = row /\ c.status = "unknown"
             \/ /\ Job.task.what = "edit" /\ c.row = row
                /\ \E s \in Got(disk, row) : Rank(c.status) = Rank(s) + 1
  <2> HIDE DEF src
  <2>1. CASE \E f \in src : c \in disk[f].copies
    BY <1>8, <2>1
  <2>2. CASE Job.task.what = "add" /\ c = [row |-> row, status |-> "unknown"]
    BY <2>2
  <2>3. CASE /\ Job.task.what = "edit" /\ c.row = row
             /\ \E f \in src : \E d \in disk[f].copies :
                  d.row = c.row /\ Rank(c.status) = Rank(d.status) + 1
    <3>1. PICK f \in src : \E d \in disk[f].copies :
                  d.row = c.row /\ Rank(c.status) = Rank(d.status) + 1
      BY <2>3
    <3>2. PICK d \in disk[f].copies : d.row = c.row /\ Rank(c.status) = Rank(d.status) + 1
      BY <3>1
    <3> QED
      BY <1>8, <2>3, <3>2
  <2> QED
    BY <1>2, <1>3, <2>1, <2>2, <2>3 DEF MergedList, src
<1> HIDE DEF new, src
<1>10. ASSUME NEW r \in Rows \ {row} PROVE Furthest(r)' = Furthest(r)
  <2>1. Got(disk', r) \subseteq Got(disk, r)
    BY <1>7, <1>9
  <2>2. Top(Got(disk', r)) = Top(Got(disk, r))
    BY <1>6, <2>1, TopSame
  <2> QED
    BY <2>2, FurthestIs
<1>11. CASE Job.task.what = "add"
  <2>1. Got(disk, row) = {}
    <3>1. \A f \in DOMAIN disk \ {Job.tmp} : ~In(row, f)
      BY <1>1, <1>2, <1>11 DEF FateOK
    <3> QED
      BY <1>4, <3>1 DEF Got, In
  <2>2. \A t \in Got(disk', row) : t = "unknown"
    BY <1>2, <1>7, <1>9, <1>11, <2>1
  <2>3. "unknown" \in Got(disk', row)
    <3>1. [row |-> row, status |-> "unknown"] \in disk'[Job.dest].copies
      BY <1>2, <1>3, <1>4, <1>11 DEF MergedList, NewRow
    <3> QED
      BY <1>4, <3>1 DEF Got, Live, Statuses
  <2>4. Top(Got(disk, row)) = "absent" /\ Top(Got(disk', row)) = "unknown"
    BY <2>1, <2>2, <2>3 DEF Top
  <2> QED
    BY <1>2, <1>10, <2>4, FurthestIs
<1>12. CASE Job.task.what = "edit"
  <2>1. \A t \in Got(disk', row) : t \in Got(disk, row) \/ \E s \in Got(disk, row) : Rank(t) = Rank(s) + 1
    BY <1>2, <1>7, <1>9, <1>12
  <2>2. \/ Top(Got(disk', row)) = Top(Got(disk, row))
        \/ Top(Got(disk, row)) = "unknown" /\ Top(Got(disk', row)) = "pending"
        \/ Top(Got(disk, row)) = "pending" /\ Top(Got(disk', row)) = "settled"
    <3>1. /\ Got(disk, row) \in SUBSET Statuses /\ Got(disk', row) \in SUBSET Statuses
          /\ \A s \in Got(disk, row) : \E t \in Got(disk', row) : Rank(s) <= Rank(t)
      BY <1>2, <1>6
    <3> QED
      BY <2>1, <3>1, TopStep
  <2> QED
    BY <1>2, <1>10, <2>2, FurthestIs
<1> QED
  BY <1>2, <1>11, <1>12

\* Every step but the landing of a list leaves the book as it was.
LEMMA OthersStand ==
    ASSUME Steady, Typed, Typed', Alone, Bounds, OldIsListed, AsidesApart, InFlight, FateOK, Newer,
           Step, ~(Rename(installed) /\ Job.task.what # "move")
    PROVE  \A r \in Rows : Furthest(r)' = Furthest(r)
<1>1. NothingLost
  BY NoneLost
<1>2. ASSUME NEW task, NEW dest, NEW copies, NEW drop, NEW tmp,
             Lists(task, dest, copies, drop, tmp) \/ Seals(task, dest, copies, drop, tmp)
      PROVE  \A r \in Rows : Furthest(r)' = Furthest(r)
  <2>1. \A f \in DOMAIN disk' : f.kind # "staged" => f \in DOMAIN disk /\ disk'[f] = disk[f]
    BY <1>2 DEF Lists, Seals, Staging
  <2> QED
    BY <1>1, <2>1, BookStands
<1>3. ASSUME OldLists PROVE \A r \in Rows : Furthest(r)' = Furthest(r)
  BY <1>1, <1>3, BookStands DEF OldLists
<1>4. CASE \/ \E r \in Rows : Add(installed, r) \/ AddBeside(installed, r) \/ Edit(installed, r)
           \/ Merge(installed)
           \/ \E f \in DOMAIN disk : Move(installed, f)
  BY <1>2, <1>4, Stages
<1>5. CASE \/ \E r \in Rows : Quarantine(installed, r) \/ QuarantineFails(installed, r)
           \/ Rename(installed) /\ Job.task.what = "move"
           \/ WriteFails(installed) \/ Drop(installed) \/ Answer(installed)
           \/ \E f \in DOMAIN disk : MoveLanded(installed, f) \/ MoveAside(installed, f)
           \/ MoveOn(installed) \/ MoveFails(installed) \/ OpenDone(installed)
           \/ Scan \/ Seed \/ OpenStart \/ LockAccount
           \/ Rotate \/ Reinit \/ (\E g \in Generations : Spoil(g)) \/ Crash
  BY <1>3, <1>5, NothingWritten
<1> QED
  BY <1>4, <1>5 DEF Step

\* A step of the files is a step of the book, or none.
LEMMA StepIsOfBook ==
    ASSUME Steady, HInv, HInv', Step
    PROVE  Book!BookNext \/ UNCHANGED Book!bookVars
<1> DEFINE book == [r \in Rows |-> Furthest(r)]
           told == {r \in Rows : fate[r] = "recorded"}
<1> USE DEF HInv, Files
<1>1. CASE Rename(installed) /\ Job.task.what # "move"
  <2>1. told' = told
    BY <1>1 DEF Rename
  <2>2. PICK row \in Rows :
            /\ \A r \in Rows \ {row} : Furthest(r)' = Furthest(r)
            /\ \/ Furthest(row)' = Furthest(row)
               \/ Furthest(row) = "absent" /\ Furthest(row)' = "unknown"
               \/ Furthest(row) = "unknown" /\ Furthest(row)' = "pending"
               \/ Furthest(row) = "pending" /\ Furthest(row)' = "settled"
    BY <1>1, BookAdvances
  <2>3. book' = [book EXCEPT ![row] = Furthest(row)'] /\ book[row] = Furthest(row)
    BY <2>2
  <2>4. CASE Furthest(row)' = Furthest(row)
    BY <2>1, <2>2, <2>4 DEF Book!bookVars
  <2>5. CASE \/ Furthest(row) = "absent" /\ Furthest(row)' = "unknown"
             \/ Furthest(row) = "unknown" /\ Furthest(row)' = "pending"
             \/ Furthest(row) = "pending" /\ Furthest(row)' = "settled"
    <3>1. \/ Book!Advance(row, "absent", "unknown")
          \/ Book!Advance(row, "unknown", "pending")
          \/ Book!Advance(row, "pending", "settled")
      BY <2>1, <2>3, <2>5 DEF Book!Advance
    <3> QED
      BY <2>2, <3>1 DEF Book!BookNext
  <2> QED
    BY <2>2, <2>4, <2>5
<1>2. CASE ~(Rename(installed) /\ Job.task.what # "move")
  <2>1. \A r \in Rows : Furthest(r)' = Furthest(r)
    BY <1>2, OthersStand
  <2>2. book' = book
    BY <2>1
  <2>3. CASE \A r \in Rows : fate'[r] = "recorded" <=> fate[r] = "recorded"
    BY <2>2, <2>3 DEF Book!bookVars
  <2>4. CASE Telling
    <3>1. PICK row \in Rows : row = Job.task.row /\ "unknown" \in Got(disk, row)
      BY <2>4, LandedRow DEF Telling
    <3>2. book[row] # "absent"
      <4>1. Furthest(row) # "absent"
        BY <3>1, FurthestIs DEF Top
      <4> QED
        BY <3>1, <4>1
    <3>3. told' = told \cup {row}
      <4>1. fate' = [fate EXCEPT ![row] = "recorded"]
        BY <2>4, <3>1 DEF Telling
      <4> QED
        BY <3>1, <4>1 DEF Typed
    <3>4. Book!Tell(row)
      BY <2>2, <3>2, <3>3 DEF Book!Tell
    <3> QED
      BY <3>1, <3>4 DEF Book!BookNext
  <2> QED
    BY <2>3, <2>4, ToldOf
<1> QED
  BY <1>1, <1>2

\* The files of an account are a book: no order of calls, crashes, key changes and
\* failed writes takes a row out of it or back, and what a caller was told stays
\* true.  Between the removal of an old file and the landing of what replaces it,
\* and in every other state between two file operations, the book reads the same.
THEOREM FilesAreABook == ASSUME Steady PROVE StoreSpec => ImplementsBook
<1>1. StoreInit => Book!BookInit
  BY DEF StoreInit, Book!BookInit, Furthest, CopiesIn
<1>2. HInv /\ HInv' /\ [StoreNext]_storeVars => [Book!BookNext]_Book!bookVars
  <2>1. ASSUME HInv, HInv', StoreNext PROVE Book!BookNext \/ UNCHANGED Book!bookVars
    <3>1. Step
      BY <2>1, NextIsStep DEF HInv, Files
    <3> QED
      BY <2>1, <3>1, StepIsOfBook
  <2>2. UNCHANGED storeVars => UNCHANGED Book!bookVars
    BY DEF storeVars, Book!bookVars, Furthest, CopiesIn
  <2> QED
    BY <2>1, <2>2
<1> QED
  BY <1>1, <1>2, HAlways, PTL DEF StoreSpec, ImplementsBook, Book!BookSpec
=============================================================================
