----------------------------- MODULE HistoryStore -----------------------------
(***************************************************************************)
(* The files behind one account's history, rust-lib/src/history.rs: the    *)
(* account file, sidecars written while it cannot be read, staged writes,  *)
(* bytes set aside, and the move of all of them to the name of a new key.  *)
(* Each file operation is a step, and the process may die between any two. *)
(*                                                                         *)
(* `History` holds a mutex for a whole operation, so an instance runs one  *)
(* at a time; on_context_ready called again makes another instance over    *)
(* the same files.  The opener is one thread.  A row is an id with its     *)
(* status, a box the set of copies it holds.  Left out: sealing (a box     *)
(* opens under its own generation or is garbage), other accounts, replies. *)
(* Names are made unique by a process id and a counter in the code, here   *)
(* by taking a number not in use: a process id that comes back with a      *)
(* sidecar of its namesake still there is not modelled.                    *)
(***************************************************************************)
EXTENDS Naturals, FiniteSets

CONSTANTS
    Rows,           \* the legs that may be recorded
    MaxGen,         \* bound: the newest key generation
    MaxCrashes,     \* bound: how often the process dies
    MaxSpoils,      \* bound: how often a file's bytes go bad
    Instances,      \* bound: History values made in one process, 1..Instances
    Overlap,        \* TRUE: calls go on with the instance they started on
    Faults          \* the reads that may fail: "account", "sidecar", "scan"

ASSUME StoreAssumption ==
    /\ MaxGen \in Nat /\ MaxCrashes \in Nat /\ MaxSpoils \in Nat
    /\ Instances \in Nat \ {0} /\ Overlap \in BOOLEAN
    /\ Faults \subseteq {"account", "sidecar", "scan"}

VARIABLES
    disk,       \* file name -> box, a partial function
    keyGen,     \* the wallet's current key generation
    open,       \* instance -> the generation it has the account open under
    op,         \* instance -> the operation that holds its mutex
    installed,  \* the instance a new call works on
    opener,     \* what the opener thread is doing
    fate,       \* row -> what its record_intent came to
    mine,       \* rows this process began to record
    burnt,      \* rows whose number this process seeded
    crashes, spoils

storeVars == <<disk, keyGen, open, op, installed, opener, fate, mine, burnt, crashes, spoils>>

Generations == 0..MaxGen
Closed == MaxGen + 1
Insts == 1..Instances

Statuses == {"unknown", "pending", "settled"}
Copy == [row : Rows, status : Statuses]
Box == [copies : SUBSET Copy, ok : BOOLEAN]
Kinds == {"account", "orphan", "staged", "aside"}
\* A sidecar is an orphan; an aside ends in .unreadable-<when>.
Name == [gen : Generations, kind : Kinds, n : Nat]

Account(g) == [gen |-> g, kind |-> "account", n |-> 0]
Names(kind) == {f \in DOMAIN disk : f.kind = kind}
Orphans(g) == {f \in Names("orphan") : f.gen = g}
Fresh(g, kind) ==
    LET used == {f.n : f \in Names(kind)}
    IN  [gen |-> g, kind |-> kind,
         n |-> CHOOSE n \in 1..(Cardinality(used) + 1) : n \notin used]

With(d, f, box) == [x \in DOMAIN d \cup {f} |-> IF x = f THEN box ELSE d[x]]
Without(d, f) == [x \in DOMAIN d \ {f} |-> d[x]]
Renamed(d, f, g) == With(Without(d, f), g, d[f])

CopiesIn(files) == UNION {disk[f].copies : f \in files}
Legible(kinds) == {f \in DOMAIN disk : f.kind \in kinds /\ disk[f].ok}

Idle == [pc |-> "idle"]
\* What an operation is for: to add a row, to edit one, to move a file.
Tasks == [what : {"add", "edit"}, row : Rows] \cup [what : {"move"}, todo : SUBSET Name]
\* An operation that has staged a file carries its name, where it is to land, and
\* the files to remove once it has.
Writing == [pc : {"rename", "drop"}, task : Tasks, dest : Name, drop : SUBSET Name, tmp : Name]
Merging == [pc : {"merge"}, task : Tasks, gen : Generations]
Moving == [pc : {"move"}, task : Tasks, gen : Generations]

Free(i) == op[i].pc = "idle"
IsOpen(i) == open[i] # Closed
\* A call may begin to read or write through instance i.
Ready(i) == Free(i) /\ IsOpen(i) /\ (Overlap \/ i = installed)
Set(i, o) == op' = [op EXCEPT ![i] = o]

\* Mutant: what the list absorbed is removed before the list has landed.
WriteDropping(i, task, dest, copies, drop) ==
    LET tmp == Fresh(dest.gen, "staged")
    IN  /\ disk' = With([f \in DOMAIN disk \ drop |-> disk[f]], tmp, [copies |-> copies, ok |-> TRUE])
        /\ Set(i, [pc |-> "rename", task |-> task, dest |-> dest,
                   drop |-> {}, tmp |-> tmp])

\* The first half of write_then_rename: the list is staged.
Write(i, task, dest, copies, drop) ==
    LET tmp == Fresh(dest.gen, "staged")
    IN  /\ disk' = With(disk, tmp, [copies |-> copies, ok |-> TRUE])
        /\ Set(i, [pc |-> "rename", task |-> task, dest |-> dest,
                   drop |-> drop, tmp |-> tmp])

\* How an operation that could not write ends.  A move that fails leaves the
\* account closed, some of its files under the new name.
Fails(i) ==
    LET task == op[i].task
    IN  /\ Set(i, Idle)
        /\ IF task.what = "add" THEN fate' = [fate EXCEPT ![task.row] = "refused"]
                                ELSE UNCHANGED fate
        /\ IF task.what = "move" THEN open' = [open EXCEPT ![i] = Closed] /\ opener' = Idle
                                 ELSE UNCHANGED <<open, opener>>

-----------------------------------------------------------------------------
(* add                                                                     *)

Begin(i, r) ==
    /\ Ready(i)
    /\ fate[r] = "new"
    /\ fate' = [fate EXCEPT ![r] = "writing"]
    /\ mine' = mine \cup {r}
    /\ UNCHANGED <<keyGen, open, installed, opener, burnt, crashes, spoils>>

NewRow(r) == {[row |-> r, status |-> "unknown"]}

\* The account file as `read` answers it; absent is empty.
Readable(g) == \A f \in Names("account") : f.gen = g => disk[f].ok
Read(g) == CopiesIn({f \in Names("account") : f.gen = g})

\* What the sidecars add to the list.  Every one is then removed, and one that
\* will not read counts as empty.
Adoptions(g) ==
    IF "sidecar" \in Faults THEN {CopiesIn(kept) : kept \in SUBSET Orphans(g)}
                            ELSE {CopiesIn(Orphans(g))}

Add(i, r) ==
    /\ Begin(i, r)
    /\ Readable(open[i])
    /\ \E more \in Adoptions(open[i]) :
        Write(i, [what |-> "add", row |-> r], Account(open[i]),
              Read(open[i]) \cup more \cup NewRow(r), Orphans(open[i]))

\* Mutant: a read error is an empty history.
AddOver(i, r) ==
    /\ Begin(i, r)
    /\ "account" \in Faults /\ Account(open[i]) \in DOMAIN disk
    /\ Write(i, [what |-> "add", row |-> r], Account(open[i]), NewRow(r), {})

\* A read error is not an empty history: the row goes beside the file.
AddBeside(i, r) ==
    /\ Begin(i, r)
    /\ "account" \in Faults /\ Account(open[i]) \in DOMAIN disk
    /\ Write(i, [what |-> "add", row |-> r], Fresh(open[i], "orphan"), NewRow(r), {})

\* Bytes that are not a history are moved aside.
Quarantine(i, r) ==
    /\ Begin(i, r)
    /\ ~Readable(open[i])
    /\ disk' = Renamed(disk, Account(open[i]), Fresh(open[i], "aside"))
    /\ Set(i, [pc |-> "merge", gen |-> open[i], task |-> [what |-> "add", row |-> r]])

\* They could not be moved aside either: the row is refused.
QuarantineFails(i, r) ==
    /\ Ready(i)
    /\ fate[r] = "new"
    /\ ~Readable(open[i])
    /\ fate' = [fate EXCEPT ![r] = "refused"]
    /\ UNCHANGED <<disk, keyGen, open, op, installed, opener, mine, burnt, crashes, spoils>>

Merge(i) ==
    /\ op[i].pc = "merge"
    /\ \E more \in Adoptions(op[i].gen) :
        Write(i, op[i].task, Account(op[i].gen), more \cup NewRow(op[i].task.row),
              Orphans(op[i].gen))
    /\ UNCHANGED <<keyGen, open, installed, opener, fate, mine, burnt, crashes, spoils>>

-----------------------------------------------------------------------------
(* edit: resolve_broadcast, apply_receipt and the settles                  *)

\* The broadcast's own process writes its outcome, on the rows that await one;
\* a receipt is for every row with the hash.
Resolved(r, c) == IF c.row = r /\ c.status = "unknown" THEN [c EXCEPT !.status = "pending"] ELSE c
Settled(r, c) == IF c.row = r /\ c.status # "unknown" THEN [c EXCEPT !.status = "settled"] ELSE c
Touches(r, all, hashed) == \E c \in all : c.row = r /\ (c.status # "unknown") = hashed

\* A read that fails, and a pass that matches nothing, write nothing.  A poll or
\* a broadcast with no answer writes the list with its time or reason stamped.
Edit(i, r) ==
    /\ Ready(i)
    /\ Readable(open[i])
    /\ \E more \in Adoptions(open[i]) :
        LET all == Read(open[i]) \cup more
            To(copies) == Write(i, [what |-> "edit", row |-> r], Account(open[i]), copies,
                                Orphans(open[i]))
        IN  \/ /\ fate[r] = "recorded" /\ r \in mine /\ Touches(r, all, FALSE)
               /\ To({Resolved(r, c) : c \in all}) \/ To(all)
            \/ /\ Touches(r, all, TRUE)
               /\ To({Settled(r, c) : c \in all}) \/ To(all)
    /\ UNCHANGED <<keyGen, open, installed, opener, fate, mine, burnt, crashes, spoils>>

-----------------------------------------------------------------------------
(* The rest of write_then_rename, and the removal of what the list absorbed *)

Rename(i) ==
    /\ op[i].pc = "rename"
    /\ disk' = Renamed(disk, op[i].tmp, op[i].dest)
    /\ Set(i, [op[i] EXCEPT !.pc = "drop"])
    /\ UNCHANGED <<keyGen, open, installed, opener, fate, mine, burnt, crashes, spoils>>

\* Mutant: a rename that fails leaves the staged file behind.
WriteFailsUntidy(i) ==
    /\ op[i].pc = "rename"
    /\ Fails(i)
    /\ UNCHANGED <<disk, keyGen, installed, mine, burnt, crashes, spoils>>

\* The write or the rename fails: the staged file goes.
WriteFails(i) ==
    /\ op[i].pc = "rename"
    /\ disk' = Without(disk, op[i].tmp)
    /\ Fails(i)
    /\ UNCHANGED <<keyGen, installed, mine, burnt, crashes, spoils>>

\* A sidecar the landed list absorbed goes, or stays for the next adoption.
Drop(i) ==
    /\ op[i].pc = "drop" /\ op[i].task.what # "move"
    /\ \E f \in op[i].drop :
        /\ disk' \in {disk, Without(disk, f)}
        /\ Set(i, [op[i] EXCEPT !.drop = @ \ {f}])
    /\ UNCHANGED <<keyGen, open, installed, opener, fate, mine, burnt, crashes, spoils>>

\* The caller is answered.
Answer(i) ==
    /\ op[i].pc = "drop" /\ op[i].task.what # "move" /\ op[i].drop = {}
    /\ Set(i, Idle)
    /\ fate' = IF op[i].task.what = "add" THEN [fate EXCEPT ![op[i].task.row] = "recorded"]
                                          ELSE fate
    /\ UNCHANGED <<disk, keyGen, open, installed, opener, mine, burnt, crashes, spoils>>

-----------------------------------------------------------------------------
(* The opener: wanted, unsettled_nonces, open with migrate                 *)

\* A box names its generation, if it is a box and the read does not fail.
Wanted(i, gen, older) ==
    LET sealed == {f.gen : f \in Legible({"account", "orphan", "staged"})}
        due == {g \in sealed : g < gen /\ g # open[i]}
    IN  older \subseteq due /\ ("scan" \in Faults \/ older = due)

\* The current key, then the older ones; a refusal of any is a step not taken.
Scan ==
    /\ opener.pc = "idle" /\ Free(installed)
    /\ open[installed] # keyGen
    /\ \E older \in SUBSET Generations :
        /\ Wanted(installed, keyGen, older)
        /\ opener' = [pc |-> "seed", at |-> installed, gen |-> keyGen, older |-> older]
    /\ UNCHANGED <<disk, keyGen, open, op, installed, fate, mine, burnt, crashes, spoils>>

KeysFor(i, gen, older) == {gen} \cup older \cup ({open[i]} \ {Closed})

\* Mutant: the account files alone are read.
UnsettledRowsOfAccount(gens) ==
    {c.row : c \in {x \in CopiesIn({f \in Legible({"account"}) : f.gen \in gens}) :
        x.status # "settled"}}

\* Every file the keys name is read, staged ones and sidecars too.
UnsettledRows(gens) ==
    {c.row : c \in {x \in CopiesIn({f \in Legible({"account", "orphan", "staged"}) :
                                        f.gen \in gens}) : x.status # "settled"}}

Seed ==
    /\ opener.pc = "seed" /\ Free(opener.at)
    /\ burnt' = burnt \cup UnsettledRows(KeysFor(opener.at, opener.gen, opener.older))
    /\ opener' = [opener EXCEPT !.pc = "open"]
    /\ UNCHANGED <<disk, keyGen, open, op, installed, fate, mine, crashes, spoils>>

OpenStart ==
    /\ opener.pc = "open" /\ Free(opener.at)
    /\ LET gens == KeysFor(opener.at, opener.gen, opener.older) \ {opener.gen}
       IN  Set(opener.at, [pc |-> "move", gen |-> opener.gen,
                           task |-> [what |-> "move", todo |-> {f \in DOMAIN disk : f.gen \in gens}]])
    /\ opener' = [opener EXCEPT !.pc = "moving"]
    /\ UNCHANGED <<disk, keyGen, open, installed, fate, mine, burnt, crashes, spoils>>

\* Newer generations first: what they hold, an older file's copy is not newer.
NextFile(i, f) ==
    /\ op[i].pc = "move"
    /\ f \in op[i].task.todo
    /\ \A g \in op[i].task.todo : g.gen <= f.gen

Target(i, f) == [f EXCEPT !.gen = op[i].gen]
Done(i, f) == Set(i, [op[i] EXCEPT !.task.todo = @ \ {f}])

\* A target already there is taken for a move that landed before a crash.
MoveLanded(i, f) ==
    /\ NextFile(i, f)
    /\ Target(i, f) \in DOMAIN disk
    /\ disk' = Without(disk, f)
    /\ Done(i, f)
    /\ UNCHANGED <<keyGen, open, installed, opener, fate, mine, burnt, crashes, spoils>>

MoveAside(i, f) ==
    /\ NextFile(i, f)
    /\ Target(i, f) \notin DOMAIN disk
    /\ \/ f.kind = "aside" /\ disk' = Renamed(disk, f, Target(i, f))
       \/ ~disk[f].ok /\ f.kind # "aside" /\ disk' = Renamed(disk, f, Fresh(op[i].gen, "aside"))
    /\ Done(i, f)
    /\ UNCHANGED <<keyGen, open, installed, opener, fate, mine, burnt, crashes, spoils>>

Move(i, f) ==
    /\ NextFile(i, f)
    /\ Target(i, f) \notin DOMAIN disk
    /\ f.kind # "aside" /\ disk[f].ok
    /\ Write(i, op[i].task, Target(i, f), disk[f].copies, {f})
    /\ UNCHANGED <<keyGen, open, installed, opener, fate, mine, burnt, crashes, spoils>>

\* The file sealed again has landed, and its source goes.
MoveOn(i) ==
    /\ op[i].pc = "drop" /\ op[i].task.what = "move"
    /\ \E f \in op[i].drop :
        /\ disk' = Without(disk, f)
        /\ Set(i, [pc |-> "move", gen |-> op[i].dest.gen,
                   task |-> [op[i].task EXCEPT !.todo = @ \ {f}]])
    /\ UNCHANGED <<keyGen, open, installed, opener, fate, mine, burnt, crashes, spoils>>

\* A read, a rename or a removal fails.
MoveFails(i) ==
    /\ op[i].pc \in {"move", "drop"} /\ op[i].task.what = "move" /\ op[i].task.todo # {}
    /\ Fails(i)
    /\ UNCHANGED <<disk, keyGen, installed, mine, burnt, crashes, spoils>>

OpenDone(i) ==
    /\ op[i].pc = "move" /\ op[i].task.todo = {}
    /\ Set(i, Idle)
    /\ open' = [open EXCEPT ![i] = op[i].gen]
    /\ opener' = Idle
    /\ UNCHANGED <<disk, keyGen, installed, fate, mine, burnt, crashes, spoils>>

\* close_all, or a key refused because its wallet is locked.
LockAccount ==
    /\ opener.pc = "idle" /\ Free(installed) /\ IsOpen(installed)
    /\ open' = [open EXCEPT ![installed] = Closed]
    /\ UNCHANGED <<disk, keyGen, op, installed, opener, fate, mine, burnt, crashes, spoils>>

-----------------------------------------------------------------------------
(* Around the store                                                        *)

\* The wallet gets a new key.
Rotate ==
    /\ keyGen < MaxGen
    /\ keyGen' = keyGen + 1
    /\ UNCHANGED <<disk, open, op, installed, opener, fate, mine, burnt, crashes, spoils>>

\* on_context_ready again: a fresh instance, every account in it closed, while
\* calls under way keep the instance they started with.
Reinit ==
    /\ installed < Instances
    /\ Overlap \/ (opener.pc = "idle" /\ Free(installed))
    /\ installed' = installed + 1
    \* An instance no call uses any more counts as closed.
    /\ open' = IF Overlap THEN open ELSE [open EXCEPT ![installed] = Closed]
    /\ UNCHANGED <<disk, keyGen, op, opener, fate, mine, burnt, crashes, spoils>>

\* The bytes of an account file go bad.
Spoil(g) ==
    /\ spoils < MaxSpoils
    /\ Account(g) \in DOMAIN disk /\ disk[Account(g)].ok
    /\ disk' = [disk EXCEPT ![Account(g)].ok = FALSE]
    /\ spoils' = spoils + 1
    /\ UNCHANGED <<keyGen, open, op, installed, opener, fate, mine, burnt, crashes>>

\* The process dies; the files are what they are.
Crash ==
    /\ crashes < MaxCrashes
    /\ crashes' = crashes + 1
    /\ open' = [i \in Insts |-> Closed]
    /\ op' = [i \in Insts |-> Idle]
    /\ installed' = 1 /\ opener' = Idle
    /\ mine' = {} /\ burnt' = {}
    /\ UNCHANGED <<disk, keyGen, fate, spoils>>

-----------------------------------------------------------------------------
StoreInit ==
    /\ disk = [f \in {} |-> {}]
    /\ keyGen = 0
    /\ open = [i \in Insts |-> Closed]
    /\ op = [i \in Insts |-> Idle]
    /\ installed = 1 /\ opener = Idle
    /\ fate = [r \in Rows |-> "new"]
    /\ mine = {} /\ burnt = {}
    /\ crashes = 0 /\ spoils = 0

StoreNext ==
    \/ \E i \in Insts :
        \/ \E r \in Rows :
            \/ Add(i, r) \/ AddBeside(i, r) \/ Quarantine(i, r) \/ QuarantineFails(i, r)
            \/ Edit(i, r)
        \/ Merge(i) \/ Rename(i) \/ WriteFails(i) \/ Drop(i) \/ Answer(i)
        \/ \E f \in DOMAIN disk : MoveLanded(i, f) \/ MoveAside(i, f) \/ Move(i, f)
        \/ MoveOn(i) \/ MoveFails(i) \/ OpenDone(i)
    \/ Scan \/ Seed \/ OpenStart \/ LockAccount
    \/ Rotate \/ Reinit \/ (\E g \in Generations : Spoil(g)) \/ Crash

StoreSpec == StoreInit /\ [][StoreNext]_storeVars

-----------------------------------------------------------------------------
(* Properties                                                              *)

\* Every variable has its type, and staged files are litter of a crash only.
StoreTypeOK ==
    /\ DOMAIN disk \subseteq Name /\ disk \in [DOMAIN disk -> Box]
    /\ keyGen \in Generations
    /\ open \in [Insts -> Generations \cup {Closed}]
    /\ \A i \in Insts : op[i] \in {Idle} \cup Writing \cup Merging \cup Moving
    /\ installed \in Insts
    /\ opener.pc \in {"idle", "seed", "open", "moving"}
    /\ fate \in [Rows -> {"new", "writing", "recorded", "refused"}]
    /\ mine \subseteq Rows /\ burnt \subseteq Rows
    /\ crashes = 0 /\ (\A i \in Insts : Free(i)) => Names("staged") = {}

\* Unreadable is not a licence to forget a transaction: a row its caller was told
\* is recorded is in a file for ever, if only in bytes set aside.
RecordedStays ==
    \A r \in Rows : fate[r] = "recorded" =>
        \E f \in DOMAIN disk : f.kind # "staged" /\ \E c \in disk[f].copies : c.row = r

\* `false` means the row is on disk nowhere: a refused row cannot come back after
\* a restart and burn a number that never left.
RefusedNowhere ==
    \A r \in Rows : fate[r] = "refused" =>
        \A f \in DOMAIN disk : \A c \in disk[f].copies : c.row # r

\* How far a row got, by all the copies on disk.
Furthest(r) ==
    LET seen == {c.status : c \in {x \in CopiesIn({f \in DOMAIN disk : f.kind # "staged"}) : x.row = r}}
    IN  IF "settled" \in seen THEN "settled"
        ELSE IF "pending" \in seen THEN "pending"
        ELSE IF "unknown" \in seen THEN "unknown" ELSE "absent"

Book == INSTANCE HistoryBook WITH
    book <- [r \in Rows |-> Furthest(r)],
    told <- {r \in Rows : fate[r] = "recorded"}

\* The files, with their crashes, moves and sidecars, are a book nothing is ever
\* taken out of, whose rows only go forward.
ImplementsBook == Book!BookSpec

\* No send reaches an account whose past is not burnt: in an open account, a row
\* of an earlier process that can still be read and is nowhere settled was seeded.
SeedCovers ==
    \A i \in Insts : IsOpen(i) =>
        \A r \in Rows \ (mine \cup burnt) :
            \A f \in Legible({"account", "orphan"}) : \A c \in disk[f].copies :
                c.row = r => Furthest(r) = "settled"
=============================================================================
