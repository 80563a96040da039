----------------------------- MODULE OpenerProofs -----------------------------
(* Machine-checked facts about Opener, for every set of accounts and every  *)
(* bound.                                                                   *)
EXTENDS Opener, Integers, TLAPS

\* What the argument needs of the types.
Shape ==
    /\ locked \subseteq Accounts /\ listed \subseteq Accounts
    /\ flight \in [Streams -> Nat] /\ wakes \subseteq Wakes
    /\ DOMAIN open = Accounts /\ DOMAIN why = Accounts
    /\ job.hand \in Accounts \cup {NoAccount}
    /\ job = [pc |-> job.pc, st |-> job.st, todo |-> job.todo, hand |-> job.hand,
              key |-> job.key, older |-> job.older]
    /\ job.st \in Nat /\ installed \in Nat /\ job.st <= installed

\* Only the opener opens, and only in the state it works on: until it takes up the
\* one installed last, nothing there is open.
Idler == job.st # installed => \A a \in Accounts : ~IsOpen(a)

LockInv == Shape /\ Idler /\ LockEndsIt

LEMMA InitLock == Init => LockInv
<1> SUFFICES ASSUME Init PROVE LockInv
  OBVIOUS
<1>1. job = Waiting(0) /\ installed = 0
  BY DEF Init
<1>2. Shape
  BY <1>1, OpenerAssumption DEF Init, Shape, Waiting, Streams, Wakes
<1>3. \A a \in Accounts : ~IsOpen(a)
  BY DEF Init, IsOpen
<1>4. job.pc = "wait"
  BY <1>1 DEF Waiting
<1> QED
  BY <1>2, <1>3, <1>4 DEF LockInv, Idler, LockEndsIt, Shape

\* What the wallets, the events and the callers do.
LEMMA OthersKeep ==
    ASSUME LockInv,
           \/ \E a \in Accounts : Lock(a) \/ Unlock(a) \/ Rekey(a) \/ List(a)
           \/ \E a \in Accounts, ask \in BOOLEAN : Call(a, ask)
           \/ \E s \in Streams : Deliver(s)
           \/ ContextReady
    PROVE  LockInv'
<1> USE DEF LockInv
<1>1. ASSUME NEW a \in Accounts, Lock(a) PROVE LockInv'
  <2>1. flight' = [flight EXCEPT !["wallets_locked"] = @ + 1]
    BY <1>1 DEF Lock, Moves, Emit
  <2>2. flight' \in [Streams -> Nat] /\ flight'["wallets_locked"] > 0
    BY <2>1 DEF Shape, Streams
  <2>3. locked' \subseteq Accounts /\ UNCHANGED <<listed, wakes, open, why, job, installed>>
    BY <1>1 DEF Lock, Moves, Shape, history
  <2> QED BY <2>2, <2>3 DEF Shape, Idler, IsOpen, LockEndsIt, LockOnItsWay
<1>2. ASSUME NEW a \in Accounts, Unlock(a) \/ Rekey(a) \/ List(a) PROVE LockInv'
  <2>1. \E s \in {"wallets_changed", "accounts_changed"} : flight' = [flight EXCEPT ![s] = @ + 1]
    BY <1>2 DEF Unlock, Rekey, List, Moves, Emit
  <2>2. flight' \in [Streams -> Nat] /\ flight'["wallets_locked"] = flight["wallets_locked"]
    BY <2>1 DEF Shape, Streams
  <2>3. /\ locked' \subseteq locked /\ listed' \subseteq Accounts
        /\ UNCHANGED <<wakes, open, why, job, installed>>
    BY <1>2 DEF Unlock, Rekey, List, Moves, Shape, history
  <2> QED BY <2>2, <2>3 DEF Shape, Idler, IsOpen, LockEndsIt, LockOnItsWay, Current
<1>3. ASSUME NEW a \in Accounts, NEW ask \in BOOLEAN, Call(a, ask) PROVE LockInv'
  <2>1. wakes' = wakes \cup {"ask"} /\ UNCHANGED <<locked, listed, flight, open, why, job, installed>>
    BY <1>3 DEF Call, wallet
  <2> QED BY <2>1 DEF Shape, Wakes, Idler, IsOpen, LockEndsIt, LockOnItsWay, Current
<1>4. ASSUME NEW s \in Streams, Deliver(s) PROVE LockInv'
  <2>1. /\ flight[s] > 0 /\ flight' = [flight EXCEPT ![s] = @ - 1]
        /\ wakes' = wakes \cup {IF s = "wallets_locked" THEN "locked" ELSE "ask"}
        /\ UNCHANGED <<locked, listed, open, why, job, installed>>
    BY <1>4 DEF Deliver, wallet, history
  <2>2. flight' \in [Streams -> Nat] /\ wakes' \subseteq Wakes
    BY <2>1 DEF Shape, Wakes
  <2>3. LockOnItsWay => LockOnItsWay'
    BY <2>1 DEF Shape, Streams, LockOnItsWay
  <2> QED BY <2>1, <2>2, <2>3 DEF Shape, Idler, IsOpen, LockEndsIt, Current
<1>5. CASE ContextReady
  <2>1. /\ installed' = installed + 1 /\ wakes' = wakes \cup {"install"}
        /\ open' = [a \in Accounts |-> Closed] /\ why' = [a \in Accounts |-> "asking"]
        /\ UNCHANGED <<locked, listed, flight, job>>
    BY <1>5 DEF ContextReady, wallet
  <2>2. job.st # installed' /\ installed' \in Nat /\ job.st <= installed'
    BY <2>1 DEF Shape
  <2>3. \A a \in Accounts : ~IsOpen(a)'
    BY <2>1 DEF IsOpen, Closed
  <2>4. Shape'
    BY <2>1, <2>2 DEF Shape, Wakes
  <2> QED BY <2>1, <2>2, <2>3, <2>4 DEF Shape, Idler, LockEndsIt, Current
<1> QED
  BY <1>1, <1>2, <1>3, <1>4, <1>5

\* A step of the opener that takes no wake and opens nothing.
LEMMA OpenerKeeps ==
    ASSUME LockInv, UNCHANGED <<locked, listed, flight, wakes, installed>>,
           \A a \in Accounts : IsOpen(a)' => IsOpen(a),
           DOMAIN open' = Accounts, DOMAIN why' = Accounts,
           NEW pc, NEW todo, NEW hand \in Accounts \cup {NoAccount}, NEW key, NEW older,
           job' = [pc |-> pc, st |-> job.st, todo |-> todo, hand |-> hand, key |-> key,
                   older |-> older],
           \/ pc \notin {"current", "older"}
           \/ hand \notin locked
           \/ hand = job.hand /\ job.pc \in {"current", "older"}
    PROVE  LockInv'
<1>1. job'.st = job.st /\ job'.pc = pc /\ job'.hand = hand
  OBVIOUS
<1>2. Shape'
  BY <1>1 DEF LockInv, Shape
<1>3. Idler'
  BY <1>1 DEF LockInv, Idler
<1>4. LockOnItsWay' = LockOnItsWay /\ Current' = Current
  BY <1>1 DEF LockOnItsWay, Current
<1>5. LockEndsIt'
  <2> SUFFICES ASSUME NEW a \in locked',
                      IsOpen(a)' \/ (job'.hand = a /\ job'.pc \in {"current", "older"} /\ Current')
               PROVE  LockOnItsWay'
    BY DEF LockEndsIt
  <2>1. a \in Accounts /\ a \in locked
    BY DEF LockInv, Shape
  <2>2. IsOpen(a) \/ (job.hand = a /\ job.pc \in {"current", "older"} /\ Current)
    BY <1>1, <1>4, <2>1
  <2> QED BY <1>4, <2>1, <2>2 DEF LockInv, LockEndsIt
<1> QED
  BY <1>2, <1>3, <1>5 DEF LockInv

LEMMA OpenerStepKeeps == ASSUME LockInv, OpenerStep PROVE LockInv'
<1>0. /\ Shape /\ Idler /\ LockEndsIt
      /\ job.hand \in Accounts \cup {NoAccount}
      /\ job = [pc |-> job.pc, st |-> job.st, todo |-> job.todo, hand |-> job.hand,
                key |-> job.key, older |-> job.older]
      /\ DOMAIN open = Accounts /\ DOMAIN why = Accounts
  BY DEF LockInv, Shape
<1>1. CASE Drain
  <2> DEFINE st == IF "install" \in wakes THEN installed ELSE job.st
  <2>1. /\ wakes' = {} /\ UNCHANGED <<locked, listed, flight, installed>>
        /\ job' = IF st = 0 THEN Waiting(0) ELSE [Waiting(st) EXCEPT !.pc = "list"]
        /\ IF LockedAmong /\ st = installed THEN CloseAll ELSE UNCHANGED <<open, why>>
    BY <1>1 DEF Drain, wallet, history
  <2>2. st \in Nat /\ st <= installed /\ (job.st # installed \/ st = installed)
    BY DEF LockInv, Shape
  <2> HIDE DEF st
  <2>3. /\ job' = [pc |-> job'.pc, st |-> st, todo |-> {}, hand |-> NoAccount,
                   key |-> Closed, older |-> {}]
        /\ job'.pc \in {"wait", "list"}
    BY <2>1 DEF Waiting
  <2>4. DOMAIN open' = Accounts /\ DOMAIN why' = Accounts
    BY <1>0, <2>1 DEF CloseAll
  <2>5. Shape'
    BY <2>1, <2>2, <2>3, <2>4 DEF LockInv, Shape
  <2>6. \A a \in Accounts : IsOpen(a)' => (IsOpen(a)) /\ ~(LockedAmong /\ st = installed)
    BY <2>1 DEF CloseAll, IsOpen, Closed
  <2>7. Idler'
    BY <2>1, <2>2, <2>3, <2>6 DEF LockInv, Idler
  <2>8. LockEndsIt'
    <3> SUFFICES ASSUME NEW a \in locked', IsOpen(a)' PROVE LockOnItsWay'
      BY <2>3 DEF LockEndsIt
    <3>1. a \in Accounts /\ a \in locked /\ IsOpen(a) /\ ~(LockedAmong /\ st = installed)
      BY <2>1, <2>6 DEF LockInv, Shape
    <3>2. job.st = installed
      BY <3>1 DEF LockInv, Idler
    <3>3. flight["wallets_locked"] > 0 \/ "locked" \in wakes
      BY <3>1 DEF LockInv, LockEndsIt, LockOnItsWay
    <3> QED BY <2>1, <2>2, <3>1, <3>2, <3>3 DEF LockOnItsWay, LockedAmong
  <2> QED BY <2>5, <2>7, <2>8 DEF LockInv
<1>2. CASE ManagerAccounts
  <2>1. \E T : job' = [pc |-> "next", st |-> job.st, todo |-> T, hand |-> job.hand,
                       key |-> job.key, older |-> job.older]
    BY <1>0, <1>2 DEF ManagerAccounts
  <2> QED BY <1>0, <1>2, <2>1, OpenerKeeps DEF ManagerAccounts, wallet, history, IsOpen
<1>3. CASE Rest
  <2>1. job' = [pc |-> "wait", st |-> job.st, todo |-> {}, hand |-> NoAccount, key |-> Closed,
                older |-> {}]
    BY <1>3 DEF Rest, Waiting
  <2> QED BY <1>0, <1>3, <2>1, OpenerKeeps DEF Rest, wallet, history, IsOpen
<1>4. ASSUME NEW a \in Accounts, AskKey(a) PROVE LockInv'
  <2>1. \E q, k : /\ job' = [pc |-> q, st |-> job.st, todo |-> job.todo \ {a}, hand |-> a,
                             key |-> k, older |-> job.older]
                  /\ q \notin {"current", "older"} \/ a \notin locked
    <3> DEFINE refused == [pc |-> "refused", st |-> job.st, todo |-> job.todo \ {a}, hand |-> a,
                           key |-> job.key, older |-> job.older]
               lockedOut == [pc |-> "locked", st |-> job.st, todo |-> job.todo \ {a}, hand |-> a,
                             key |-> job.key, older |-> job.older]
               given == [pc |-> "current", st |-> job.st, todo |-> job.todo \ {a}, hand |-> a,
                         key |-> keyGen[a], older |-> job.older]
    <3>1. job' = refused \/ job' = lockedOut \/ (job' = given /\ a \notin locked)
      <4>1. \/ job' = [job EXCEPT !.todo = @ \ {a}, !.hand = a, !.pc = "refused"]
            \/ job' = [job EXCEPT !.todo = @ \ {a}, !.hand = a, !.pc = "locked"]
            \/ /\ job' = [job EXCEPT !.todo = @ \ {a}, !.hand = a, !.pc = "current",
                                   !.key = keyGen[a]]
               /\ a \notin locked
        BY <1>4 DEF AskKey
      <4> QED BY <1>0, <4>1
    <3> QED BY <3>1
  <2> QED BY <1>0, <1>4, <2>1, OpenerKeeps DEF AskKey, wallet, history, IsOpen
<1>5. CASE Refused
  <2>1. job' = [pc |-> "next", st |-> job.st, todo |-> job.todo, hand |-> NoAccount,
                key |-> Closed, older |-> {}]
    BY <1>0, <1>5 DEF Refused, Next1
  <2>2. \/ open' = open
        \/ open' = [open EXCEPT ![job.hand] = Closed]
    BY <1>5 DEF Refused
  <2>3. \A a \in Accounts : IsOpen(a)' => IsOpen(a)
    BY <1>0, <2>2 DEF IsOpen, Closed
  <2>4. DOMAIN open' = Accounts /\ DOMAIN why' = Accounts
    BY <1>0, <1>5 DEF Refused
  <2> QED BY <1>5, <2>1, <2>3, <2>4, OpenerKeeps DEF Refused, wallet
<1>6. CASE Compare
  <2>1. \/ job' = [pc |-> "next", st |-> job.st, todo |-> job.todo, hand |-> NoAccount,
                   key |-> Closed, older |-> {}]
        \/ /\ job' = [pc |-> "older", st |-> job.st, todo |-> job.todo, hand |-> job.hand,
                      key |-> job.key, older |-> Wanted(job.hand)]
           /\ job.pc = "current"
    BY <1>0, <1>6 DEF Compare, Next1
  <2>2. /\ UNCHANGED <<locked, listed, flight, wakes, installed, open, why>>
        /\ \A a \in Accounts : IsOpen(a)' => IsOpen(a)
    BY <1>6 DEF Compare, wallet, history, IsOpen
  <2> QED BY <1>0, <2>1, <2>2, OpenerKeeps
<1>7. ASSUME NEW g \in Generations, AskOlder(g) PROVE LockInv'
  <2>1. \E q, o : /\ job' = [pc |-> q, st |-> job.st, todo |-> job.todo, hand |-> job.hand,
                             key |-> job.key, older |-> o]
                  /\ job.pc = "older"
    <3>1. \/ job' = [job EXCEPT !.pc = "refused"]
          \/ job' = [job EXCEPT !.pc = "locked"]
          \/ job' = [job EXCEPT !.older = @ \ {g}]
      BY <1>7 DEF AskOlder
    <3> QED BY <1>0, <1>7, <3>1 DEF AskOlder
  <2>2. /\ UNCHANGED <<locked, listed, flight, wakes, installed, open, why>>
        /\ \A a \in Accounts : IsOpen(a)' => IsOpen(a)
    BY <1>7 DEF AskOlder, wallet, history, IsOpen
  <2> QED BY <1>0, <2>1, <2>2, OpenerKeeps
<1>8. CASE Open
  <2>1. /\ job.pc = "older"
        /\ job' = [pc |-> "next", st |-> job.st, todo |-> job.todo, hand |-> NoAccount,
                   key |-> Closed, older |-> {}]
        /\ UNCHANGED <<locked, listed, flight, wakes, installed>>
    BY <1>0, <1>8 DEF Open, Next1, wallet
  <2>2. CASE ~Current
    <3>1. open' = open /\ why' = why /\ \A a \in Accounts : IsOpen(a)' => IsOpen(a)
      BY <1>8, <2>2 DEF Open, IsOpen
    <3> QED BY <1>0, <2>1, <3>1, OpenerKeeps
  <2>3. CASE Current
    <3>1. /\ open' = [open EXCEPT ![job.hand] = job.key]
          /\ why' = [why EXCEPT ![job.hand] = "asking"]
      BY <1>8, <2>3 DEF Open
    <3>2. Shape'
      BY <2>1, <3>1 DEF LockInv, Shape
    <3>3. Idler'
      BY <2>1, <2>3 DEF Idler, Current
    <3>4. LockEndsIt'
      <4> SUFFICES ASSUME NEW a \in locked', IsOpen(a)' PROVE LockOnItsWay'
        BY <2>1 DEF LockEndsIt
      <4>1. a \in locked /\ (IsOpen(a) \/ job.hand = a)
        BY <1>0, <2>1, <3>1 DEF IsOpen, Shape, Closed
      <4>2. LockOnItsWay
        BY <1>0, <2>1, <2>3, <4>1 DEF LockEndsIt
      <4> QED BY <2>1, <4>2 DEF LockOnItsWay
    <3> QED BY <3>2, <3>3, <3>4 DEF LockInv
  <2> QED BY <2>2, <2>3
<1>9. CASE OpenFails
  <2>1. job' = [pc |-> "next", st |-> job.st, todo |-> job.todo, hand |-> NoAccount,
                key |-> Closed, older |-> {}]
    BY <1>0, <1>9 DEF OpenFails, Next1
  <2>2. open' = open \/ open' = [open EXCEPT ![job.hand] = Closed]
    BY <1>9 DEF OpenFails
  <2>3. \A a \in Accounts : IsOpen(a)' => IsOpen(a)
    BY <1>0, <2>2 DEF IsOpen, Closed
  <2>4. DOMAIN open' = Accounts /\ DOMAIN why' = Accounts
    BY <1>0, <1>9 DEF OpenFails
  <2> QED BY <1>9, <2>1, <2>3, <2>4, OpenerKeeps DEF OpenFails, wallet
<1> QED
  BY <1>1, <1>2, <1>3, <1>4, <1>5, <1>6, <1>7, <1>8, <1>9 DEF OpenerStep

\* For any accounts, and any number of locks, lost answers and second starts: no
\* history stays open, and no key is at hand to open one, after the lock of its
\* wallet has reached the opener (opener, open_account).
THEOREM LocksWin == Spec => []LockEndsIt
<1>1. LockInv /\ Next => LockInv'
  BY OthersKeep, OpenerStepKeeps DEF Next
<1>2. LockInv /\ UNCHANGED vars => LockInv'
  BY DEF LockInv, Shape, Idler, LockEndsIt, LockOnItsWay, IsOpen, Current, vars, wallet, history
<1>3. LockInv => LockEndsIt
  BY DEF LockInv
<1> QED
  BY InitLock, <1>1, <1>2, <1>3, PTL DEF Spec
=============================================================================
