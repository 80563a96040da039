-------------------------------- MODULE Opener --------------------------------
(***************************************************************************)
(* When an account's history is open: the opener thread of rust-lib/src/   *)
(* glue.rs, the subscriptions and the callers that wake it, and the        *)
(* answers it acts on.                                                     *)
(*                                                                         *)
(* The opener drains its channel, closes every account when a lock was     *)
(* among the wakes, and asks the signer manager for one key after another, *)
(* holding nothing; meanwhile wallets lock, unlock and get new keys.  The  *)
(* three subscriptions deliver in any order among themselves.  External:   *)
(* the wallets, each of one account here; a call that times out is a       *)
(* refusal.  Left out: what the files hold (HistoryStore) and the seeding  *)
(* of their numbers, part of the opening step (SendFlow).                  *)
(***************************************************************************)
EXTENDS Naturals

CONSTANTS
    Accounts,       \* by the order of their addresses
    Listed,         \* accounts a signer lists from the start
    Boxed,          \* accounts with files sealed at generation 0
    MaxMoves,       \* bound: locks, unlocks, new keys and new accounts
    MaxFaults,      \* bound: calls and moves of files that fail
    MaxInstalls     \* bound: how often the context becomes ready

NoAccount == 0

ASSUME OpenerAssumption ==
    /\ Accounts \subseteq Nat \ {NoAccount} /\ Listed \subseteq Accounts /\ Boxed \subseteq Accounts
    /\ MaxMoves \in Nat /\ MaxFaults \in Nat /\ MaxInstalls \in Nat

VARIABLES
    locked,     \* accounts whose wallet is locked
    listed,     \* accounts a signer lists
    keyGen,     \* account -> the generation of its wallet's key
    flight,     \* stream -> events emitted and not delivered yet
    wakes,      \* what waits in the opener's channel
    open,       \* account -> the generation it is open under, in the state installed last
    why,        \* account -> why it is closed
    known,      \* accounts a caller named
    boxes,      \* account -> the generations its files are sealed at
    job,        \* what the opener is doing
    installed,  \* how often the context became ready
    moves, faults

wallet == <<locked, listed, keyGen>>
history == <<open, why, known, boxes>>
bounds == <<moves, faults>>
vars == <<wallet, flight, wakes, history, job, installed, bounds>>

Streams == {"wallets_changed", "wallets_locked", "accounts_changed"}
Wakes == {"install", "ask", "locked"}
Generations == 0..MaxMoves + 1
Closed == MaxMoves + 2
IsOpen(a) == open[a] # Closed

\* The opener: which state it works on, the accounts still to ask, the one in
\* hand with its answer, and the older keys it still needs.
Waiting(st) == [pc |-> "wait", st |-> st, todo |-> {}, hand |-> NoAccount, key |-> Closed,
                older |-> {}]

Init ==
    /\ locked \in SUBSET Accounts
    /\ listed = Listed
    /\ keyGen = [a \in Accounts |-> 1]
    /\ flight = [s \in Streams |-> 0]
    /\ wakes = {}
    /\ open = [a \in Accounts |-> Closed] /\ why = [a \in Accounts |-> "asking"]
    /\ known = {} /\ boxes = [a \in Accounts |-> IF a \in Boxed THEN {0} ELSE {}]
    /\ job = Waiting(0) /\ installed = 0
    /\ moves = 0 /\ faults = 0

-----------------------------------------------------------------------------
(* The signer manager                                                      *)

Emit(s) == flight' = [flight EXCEPT ![s] = @ + 1]

Moves(s) ==
    /\ moves < MaxMoves /\ moves' = moves + 1
    /\ Emit(s)
    /\ UNCHANGED <<wakes, history, job, installed, faults>>

Lock(a) ==
    /\ a \notin locked /\ locked' = locked \cup {a}
    /\ Moves("wallets_locked") /\ UNCHANGED <<listed, keyGen>>

Unlock(a) ==
    /\ a \in locked /\ locked' = locked \ {a}
    /\ Moves("wallets_changed") /\ UNCHANGED <<listed, keyGen>>

Rekey(a) ==
    /\ a \notin locked
    /\ keyGen' = [keyGen EXCEPT ![a] = @ + 1]
    /\ Moves("wallets_changed") /\ UNCHANGED <<locked, listed>>

\* A signer may list a wallet's accounts only after its unlock.
List(a) ==
    /\ a \notin listed /\ a \notin locked /\ listed' = listed \cup {a}
    /\ Moves("accounts_changed") /\ UNCHANGED <<locked, keyGen>>

-----------------------------------------------------------------------------
(* watch_wallets, on_context_ready and the callers                         *)

Deliver(s) ==
    /\ flight[s] > 0
    /\ flight' = [flight EXCEPT ![s] = @ - 1]
    /\ wakes' = wakes \cup {IF s = "wallets_locked" THEN "locked" ELSE "ask"}
    /\ UNCHANGED <<wallet, history, job, installed, bounds>>

\* A new state: every account in it starts closed, and none is known.
ContextReady ==
    /\ installed < MaxInstalls
    /\ installed' = installed + 1
    /\ wakes' = wakes \cup {"install"}
    /\ open' = [a \in Accounts |-> Closed] /\ why' = [a \in Accounts |-> "asking"]
    /\ known' = {}
    /\ UNCHANGED <<wallet, flight, boxes, job, bounds>>

\* Mutant: only the first call on an account asks for its key.
CallOnce(a, ask) ==
    /\ installed > 0 /\ ~IsOpen(a)
    /\ a \notin known \/ ask
    /\ known' = known \cup {a} /\ wakes' = wakes \cup {"ask"}
    /\ UNCHANGED <<wallet, flight, open, why, boxes, job, installed, bounds>>

\* `locked`: a call on a closed account.  The opener is asked the first time, when
\* the caller insists, or when the refusal was for anything but a lock.
Call(a, ask) ==
    /\ installed > 0 /\ ~IsOpen(a)
    /\ a \notin known \/ ask \/ why[a] # "locked"
    /\ known' = known \cup {a} /\ wakes' = wakes \cup {"ask"}
    /\ UNCHANGED <<wallet, flight, open, why, boxes, job, installed, bounds>>

-----------------------------------------------------------------------------
(* The opener                                                              *)

\* A call or a write that fails where another would not.
Fault == faults < MaxFaults /\ faults' = faults + 1 /\ UNCHANGED moves

\* An opener still at work on an earlier state moves nothing in this one.
Current == job.st = installed

\* close_all.
CloseAll ==
    /\ open' = [a \in Accounts |-> Closed]
    /\ why' = [a \in Accounts |-> IF IsOpen(a) THEN "locked" ELSE why[a]]
    /\ UNCHANGED <<known, boxes>>

\* Mutant: a batch is what its first wake is.
FirstIsLocked == wakes = {"locked"}

\* A lock anywhere in the batch counts.
LockedAmong == "locked" \in wakes

\* One wake, and all that came in behind it.
Drain ==
    /\ job.pc = "wait" /\ wakes # {}
    /\ wakes' = {}
    /\ LET st == IF "install" \in wakes THEN installed ELSE job.st IN
       /\ job' = IF st = 0 THEN Waiting(0) ELSE [Waiting(st) EXCEPT !.pc = "list"]
       /\ IF LockedAmong /\ st = installed THEN CloseAll ELSE UNCHANGED history
    /\ UNCHANGED <<wallet, flight, installed, bounds>>

KnownHere == IF Current THEN known ELSE {}

\* What the signers list, nothing if the manager does not answer, and what callers named.
ManagerAccounts ==
    /\ job.pc = "list"
    /\ \/ job' = [job EXCEPT !.pc = "next", !.todo = listed \cup KnownHere] /\ UNCHANGED bounds
       \/ job' = [job EXCEPT !.pc = "next", !.todo = KnownHere] /\ Fault
    /\ UNCHANGED <<wallet, flight, wakes, history, installed>>

Next1 == [job EXCEPT !.pc = "next", !.hand = NoAccount, !.key = Closed, !.older = {}]

Rest ==
    /\ job.pc = "next" /\ job.todo = {}
    /\ job' = Waiting(job.st)
    /\ UNCHANGED <<wallet, flight, wakes, history, installed, bounds>>

\* The manager answers for the wallet as it is; the answer is acted on later.
AskKey(a) ==
    /\ job.pc = "next" /\ a \in job.todo /\ \A b \in job.todo : a <= b
    /\ LET hand == [job EXCEPT !.todo = @ \ {a}, !.hand = a]
           refused == [hand EXCEPT !.pc = "refused"]
       IN  \/ job' = refused /\ Fault
           \/ /\ job' = IF a \notin listed THEN refused
                        ELSE IF a \in locked THEN [hand EXCEPT !.pc = "locked"]
                        ELSE [hand EXCEPT !.pc = "current", !.key = keyGen[a]]
              /\ UNCHANGED bounds
    /\ UNCHANGED <<wallet, flight, wakes, history, installed>>

\* A locked wallet closes its account; any other refusal leaves it as it was.
Refused ==
    /\ job.pc \in {"locked", "refused"}
    /\ job' = Next1
    /\ IF ~Current THEN UNCHANGED <<open, why>>
       ELSE IF job.pc = "locked"
       THEN open' = [open EXCEPT ![job.hand] = Closed] /\ why' = [why EXCEPT ![job.hand] = "locked"]
       ELSE /\ why' = [why EXCEPT ![job.hand] = IF IsOpen(job.hand) THEN @ ELSE "refused"]
            /\ UNCHANGED open
    /\ UNCHANGED <<wallet, flight, wakes, known, boxes, installed, bounds>>

OpenHere(a) == IF Current THEN open[a] ELSE Closed

\* wanted: every generation below this one that a box here, anybody's, is sealed at.
Wanted(a) == {g \in UNION {boxes[b] : b \in Accounts} : g < job.key /\ g # OpenHere(a)}

Compare ==
    /\ job.pc = "current"
    /\ job' = IF OpenHere(job.hand) = job.key THEN Next1
              ELSE [job EXCEPT !.pc = "older", !.older = Wanted(job.hand)]
    /\ UNCHANGED <<wallet, flight, wakes, history, installed, bounds>>

\* The key of an older generation, the wallet perhaps locked by now.
AskOlder(g) ==
    /\ job.pc = "older" /\ g \in job.older /\ \A h \in job.older : g <= h
    /\ \/ job' = [job EXCEPT !.pc = "refused"] /\ Fault
       \/ /\ job' = IF job.hand \in locked THEN [job EXCEPT !.pc = "locked"]
                    ELSE [job EXCEPT !.older = @ \ {g}]
          /\ UNCHANGED bounds
    /\ UNCHANGED <<wallet, flight, wakes, history, installed>>

\* Everything the account has is under its new key.
Open ==
    /\ job.pc = "older" /\ job.older = {}
    /\ boxes' = [boxes EXCEPT ![job.hand] = IF @ = {} THEN {} ELSE {job.key}]
    /\ IF Current THEN open' = [open EXCEPT ![job.hand] = job.key]
                       /\ why' = [why EXCEPT ![job.hand] = "asking"]
                  ELSE UNCHANGED <<open, why>>
    /\ job' = Next1
    /\ UNCHANGED <<wallet, flight, wakes, known, installed, bounds>>

\* A file that did not move leaves the account closed; a directory that is not
\* there, before any was tried, leaves it as it was.
OpenFails ==
    /\ job.pc = "older" /\ job.older = {} /\ Fault
    /\ IF Current
       THEN /\ open' \in {open, [open EXCEPT ![job.hand] = Closed]}
            /\ why' = [why EXCEPT ![job.hand] = "refused"]
       ELSE UNCHANGED <<open, why>>
    /\ job' = Next1
    /\ UNCHANGED <<wallet, flight, wakes, known, boxes, installed>>

-----------------------------------------------------------------------------

OpenerStep ==
    \/ Drain \/ ManagerAccounts \/ Rest
    \/ \E a \in Accounts : AskKey(a)
    \/ Refused \/ Compare
    \/ \E g \in Generations : AskOlder(g)
    \/ Open \/ OpenFails

Next ==
    \/ \E a \in Accounts : Lock(a) \/ Unlock(a) \/ Rekey(a) \/ List(a)
    \/ \E a \in Accounts, ask \in BOOLEAN : Call(a, ask)
    \/ \E s \in Streams : Deliver(s)
    \/ ContextReady
    \/ OpenerStep

\* The opener and the three subscriptions are threads; a consumer with a closed
\* account on its screen polls it.  Nobody need send.
Fairness ==
    /\ WF_vars(OpenerStep)
    /\ \A s \in Streams : WF_vars(Deliver(s))
    /\ \A a \in Accounts : WF_vars(Call(a, FALSE))

Spec == Init /\ [][Next]_vars
FairSpec == Spec /\ Fairness

-----------------------------------------------------------------------------
(* Properties                                                              *)

LockOnItsWay == flight["wallets_locked"] > 0 \/ "locked" \in wakes

\* A history is open, or a key to open it at hand, while its wallet is locked only
\* as long as the lock has not reached the opener: a key that was answered before
\* the lock never outlives it (opener, open_account).
LockEndsIt ==
    \A a \in locked :
        IsOpen(a) \/ (job.hand = a /\ job.pc \in {"current", "older"} /\ Current) => LockOnItsWay

\* Once the wallets rest, the history of each account follows its wallet: open
\* where it is unlocked and listed, closed where it is locked.  No lost answer, no
\* order of the events and no second start leaves it otherwise.
FollowsTheWallet ==
    \A a \in Accounts :
        /\ <>[](installed > 0 /\ a \in listed \ locked) => <>[]IsOpen(a)
        /\ <>[](a \in locked) => <>[]~IsOpen(a)
=============================================================================
