# tx_sender_module: verification project

TLA+ models, TLC runs and TLAPS proofs for the EVM transaction sender in
`rust-lib/`. The module lets any other module on the device send a bundle of
calls from one account: it prices the bundle, reserves one number ("nonce") per
call, asks a human through the signer manager, broadcasts the signatures in
order, and follows the receipts.

What must never happen is that two sends leave at one number without one being
the declared replacement of the other: one of the two would be lost silently.
What must never happen either is that a send the human approved hangs, or that a
number is lost and queues the account behind a gap. Most of this project is
about these three. The rest is about what a person decides by and is told
afterwards: the price a bundle goes out at, the account whose history is open,
and the status a row settles with.

## 1. Inventory

| Part | Source | State | Operations | Hard because |
|---|---|---|---|---|
| Send ledger | `send.rs` | jobs, claims, numbers reserved and burnt, `stranded`, two counters; one mutex | `open` (with `reserve`, `pin`), `commit`, `abandon`, `settle`, `settle_owned`, `claim_broadcast`, `leaving`, `landed`, `claim_cancel`, `seed_spent`, `audit` | every dispatch shares it; numbers pass from a claim to a job to a pin; a bundle can fail half way; ids may repeat |
| Send dispatch | `glue.rs` `request_send`, `advance_send`, `cancel_send` | none of its own: a copy of the job, a ticket, the leg in hand | quote, reserve, ask; poll, claim, record, burn, broadcast, settle | some ten outbound calls, none under a lock, so everything read may be stale when used |
| History | `history.rs` | one sealed file per account, sidecars, staged files; the open keys; one mutex | `record_intent`, `resolve_broadcast`, `leave_unknown`, `apply_receipt`, `settle_superseded`, `settle_replaced`, `open`, `migrate`, `close`, `unsettled_nonces` | what a restart knows; crashes between write and rename; files of an older key; read errors |
| Opener | `glue.rs` `opener`, `open_account` | the wake channel, one thread | install, ask, lock; seed, then open | seed must precede any send; keys come late or are refused; wallets lock again |
| Receipt sweep | `glue.rs` `sweep`, `refresh_one` | none | read due rows, gate, read `latest`, read receipt, apply | two sweeps at once; two reads answered by different nodes |
| Gate cache | `gate.rs`, `glue.rs` `arm_gate`, `gate_feed` | generation, live, cold, the chains known `off` | `told`, `learned`, `invalidate`, `feed_live`, `feed_dead`, `no_status_channel` | event feed, status callbacks and reads race; may only fail closed |
| Gate verdict | `verified.rs` | none | `normalize`, `is_blocking`, route folding | an unreadable verdict must block |
| Replacement price | `replace.rs` | none | `floor`, `mined`, `bump`, `raise` | rows read before the number is pinned |
| Budget | `budget.rs` | start and total | `take`, `take_whole`, `bounded_by`, fee floors | grants must not exceed the allowance |
| Pricing | `glue.rs` `quote`, `reprice` | none | one fee, a limit per call, floor, second pricing, balance and nonce | a chain of calls out, each as slow as it is let; a price raised after it was checked |
| Receipts and amounts | `receipt.rs`, `units.rs` | none | decode, cap and sum what a receipt carries; show and read amounts | caps, width, rounding |
| Views | `txbuild.rs`, `details.rs`, `chains.rs`, `failure.rs`, part of `sweep.rs` | none | pure functions on strings and JSON | - |
| Runtime, signer manager, eth_rpc, fee_module, chain | outside | - | called or calling | external |

How they interact: a dispatch (a call of the module's API; the runtime runs
several at once) works on the shared ledger and history, each behind its own
mutex that is never held across an outbound call. The opener thread closes and
opens histories and seeds the ledger from them. The gate feed threads write the
gate cache. The consumer drives everything: nothing advances a send but a poll
of `send_status`.

What makes each part correct:

- Ledger: a held number is reserved; one holder of a number is not a
  replacement; two claims never share a number that has yet to leave; nothing
  that may have left is ever handed out again; a number taken is held, burnt or
  disclosed; the ticket's owner alone settles a claimed job.
- Dispatch: one broadcaster per send; no leg leaves twice; a cancelled send
  never leaves; legs leave in order; `broadcast` means all of them; a decided
  send settles.
- History: a row precedes its bytes; its hash is that of its own bytes; no row
  is lost by a crash, a read error or a change of key; settled rows stay so.
- Opener: what an earlier process left is burnt before a send reaches the account;
  a lock ends what is open, and a history ends up as its wallet is.
- Sweep: a row is settled as replaced only when another transaction took its
  number; settled rows stay so; each move is told once; a row keeps what its
  receipt says; a caller's timer stops only when no poll could move a row it
  is not told of.
- Gate cache: while a thread feeds it, it says `Open` only while the chain is off or
  news to the contrary is on its way.
- Replacement: an accepted price clears the node's rule over what the quote finds
  pending. Budget: grants of one allowance never sum past it, and
  what is kept for the later calls is there when they come. Pricing: the balance
  covers the fees the bundle really goes out with. Amounts: what is shown is never
  more than there is, and never nothing for something.

The hazards, each at its line, are listed in `PROJECT.json`.

## 2. Modules

| Module | What it is |
|---|---|
| `Ledger` | The send ledger: every door of `SendLedger` an action, atomic under its mutex. |
| `NonceBook` | The abstract promise of the ledger: a number is in one hand at a time, and is left with twice only as declared, as long as it is not known to be over. |
| `LedgerProofs` | The inductive invariant of `Ledger` and the theorems that follow, the refinement of `NonceBook` included, checked by TLAPS. |
| `SendFlow` | Extends `Ledger`: the dispatches, the human, the node and the chain, the history rows, the opener, a lock, a crash and the next process. |
| `SendFlowProofs` | Extends `LedgerProofs` over `SendFlow`: what is proved of the dispatches, the wire and the rows. |
| `RestartProofs` | Extends it over a restart: what one process leaves to the next. |
| `HistoryBook` | The abstract promise of the history: a book rows are written into and never taken out of. |
| `HistoryStore` | The files behind one account's history, one file operation per step; implements `HistoryBook`. |
| `HistoryProofs` | What of `HistoryStore` is proved, the refinement included. |
| `GateCache` | The mode cache, its feed thread and status watcher, and the reads that fill it. |
| `GateCacheProofs` | What of `GateCache` is proved. |
| `Budget`, `Replace`, `Verdict`, `Units` | `budget.rs`, `replace.rs`, `verified.rs`, `units.rs` as operators: grants and floors, the price of a replacement, verdicts and labels, amounts. |
| `Quote` | One `prepare` or `send` from its gate to its approval request, a step per call, over these four. |
| `QuoteProofs` | What of `Quote` is proved. |
| `Receipts` | `receipt.rs` as operators: what a row keeps of its receipt. |
| `Sweep` | The sweeps and refreshes of one account over its rows and chains, a step per read and per edit. |
| `SweepProofs` | What of `Sweep` is proved. |
| `Opener` | The opener thread, its wakes, the subscriptions, the wallets and the callers. |
| `OpenerProofs` | What of `Opener` is proved. |
| `MCLedger`, `MCSendFlow`, `MCHistory`, `MCGate`, `MCQuote`, `MCSweep`, `MCOpener` | Constants and symmetry for TLC. |

`SendFlow` EXTENDS `Ledger`, `Quote` the four modules of operators, `Sweep` the
receipts. `HistoryStore`, `GateCache` and `Opener` stand alone. What one module
takes of another's subject is its promise: `SendFlow` sees of the history what
`HistoryBook` promises (a row recorded stays), of the gate a dispatch that is
held, of the quote any reading and any pin that may reach `open`; `Sweep`
sees an edit of the file as one step that happens or does not; `Opener` sees
the move of an account's files as one step that succeeds or fails.

### Ledger

| Code | Model |
|---|---|
| `jobs: HashMap<id, SendJob>` | `jobs`, a partial function. A job's legs are the set of its numbers (distinct; leg order is numeric order, as `reserve` scans upwards); `left` and `landed` are the legs with `left` set and with a hash |
| `broadcast: Option<Broadcasting>` | `ticket`, 0 for none |
| `claims` with a live `ClaimGuard` | `claims` |
| `NonceReserver` | `reserved`, `spent` per account |
| `BroadcastTicket`s held by dispatches | `tickets` |
| - | `wire`, `served`: history variables (what may have left; ids used) |

`open` is `Open`, and for a pin `PinFree` (`hold` took it), `PinSend` (a send
whose leg has left is replaced) or `PinDeparted` (nothing here holds it). The
map `pin` walks has no order, so any of several departed holders may be the one
named. A door that refuses writes nothing and is a disabled action, except
`settle_owned`, whose refusal drops the ticket (`DropTicket`). The repair
`audit` makes in a release build is not modelled: `Containment` and
`Uniqueness` are exactly what it looks for, and they are proved never to fail.

`NonceBook` is what is left of this when one forgets jobs, tickets and reservations:
how many claims were ever granted (`granted` is `lastClaim`), which numbers are with a
claim or with a leg that has not left (`hand` is `InHand`), and what may have left
(`out` is `Gone` of the wire). `open` is a `Grant`, the burning of a leg a `Leave`, a
settle and an abandon a `GiveBack`; every other door is a stutter (`ImplementsNonceBook`).
In `SendFlow` the book also has to survive the process (`KeepsNonceBook`). There a row
that settles is a `Finish`, and a crash is a `Restart`: what was in hand is given back,
and of what left only that whose row was not over yet stays `out` (`past` is
the rows as the process found them). So a number left with by an earlier process is
not granted again undeclared unless its row says it is over; then the next process
leaves it to the nonce the node reports, and what a lagging node or a blind pin makes of
it the node itself refuses.

`FreshIds` says whether the signer manager repeats a handle. The code handles
a repeated id in `commit`; both cases are checked.

### SendFlow

A dispatch of `send_status` is `poll[p]`, its `pc` the outbound call it is at:
`StartPoll` (the copy of the job) - `Ask` - `FetchShort`/`Pass` (signatures, gate,
lock) - `Claims` - per leg `Record`, `Leave`, `Answered`/`Unanswered`, `Land` -
`Ack` - `Finish`. Each early return is `Hold`, `SettlePolled`, `RecordFails` or
`FailOwned`. It keeps the job as it read it, as the code does: with a repeated
id the legs it sends and the legs the ledger has may differ (`LedgerLeg`).

A row has its claim, id, account, leg, number, status and the claim its hash
names; `confirmed`, `failed` and `replaced` are one status, `settled`. `Answered`
resolves every row `Recorded::owns` matches. The opener is `Seed` then
`OpenHistory` or `OpenFails`; a wallet lock closes an open history at any
moment. `Crash` keeps rows, chain and manager and starts from an empty ledger.
`Readings` is the account's nonce at quote time, used much later by `open`; it
may be `latest` or count what waits in the pool, because the code's comments
disagree on which eth_rpc returns (`glue.rs` `mined_nonce` against `send.rs`
`NonceReserver`), and it may be any lower number, as `latest` is monotonic neither
across calls nor across a reorg. A pin reaches `open` whatever the rows say: `quote`
refuses one at a mined number, but it looks twice (`locked`, then `list`), and `list`
gives no rows once the wallet is locked or when the file cannot be read. External, modelled from how the glue uses them: the verdicts
and forgetting of the signer manager, the node's answer, mining.

### HistoryStore

| Code | Model |
|---|---|
| the history directory, for one account | `disk`, a partial function from file names to boxes; a name is a key generation, a kind (account file, sidecar, staged write, bytes set aside) and a number |
| a sealed file | a box: the copies of rows in it, and whether its bytes are a history |
| `gate: Mutex<HashMap<_, Open>>` of one `History` | `open[i]`, the generation an instance has the account open under, and `op[i]`, the operation that holds its mutex |
| the `State` in `TxSenderModuleImpl` | `installed`, the instance a new call works on |
| `open_account` on the opener thread | `opener` |
| a caller's answer | `fate` |

`add` is `Add` (the file reads), `AddBeside` (it does not: a sidecar) or
`Quarantine` then `Merge` (it is no history), then `Rename` or `WriteFails`, a
`Drop` per sidecar absorbed, and `Answer`. `Edit` is `edit` with the closures of
`resolve_broadcast`, `leave_unknown`, `apply_receipt` and the two settles; a pass
that matches nothing or cannot read writes nothing and is no step. `open_account` is
`Scan` (the keys it was given), `Seed`, then `open` as `OpenStart`, per file
`MoveLanded`, `MoveAside` or `Move` - `Rename` - `MoveOn`, and `OpenDone`;
`MoveFails` leaves the account closed with part of the files under the new name.
`Crash` may come between any two. Sealing is abstracted to its effect: a box opens
under its own generation or is garbage. `Faults` names the reads that may fail for
a moment: the account file ("account"), a sidecar ("sidecar"), a file met by
`wanted` ("scan"). Only an account file's bytes go bad. Process ids are taken as
never repeating while a sidecar of theirs is there.

The refinement mapping: how far a row got is its furthest copy outside the staged
files, whatever file or generation it is in; `told` is what `fate` calls recorded.
A staged file is not in the book until it is renamed, so a rename is the step
that writes a row or moves it forward, and everything else stutters.

### GateCache

| Code | Model |
|---|---|
| `Inner` of `ModeCache` | `live`, `cold`, `off`; the generation as `ticket`, per read: whether anything moved since it was cut |
| `gate_feed`, `arm_gate` | `feed`, where the thread is; `attempt`; `watcher`, what the flag of the installed closure says |
| `watch_chain_config` | `config`: the feed runs, and holds the client |
| `verified_verdict_within` | `reading[r]`: `Probe` - `Cut` - `Answer` - `Learn` |
| eth_rpc, the runtime | `mode`, `link`, `sub`, the stream `events`, the status `reports` under way |
| - | `late`, `before`: history variables (chains the cache has on the word of an event from before the link last armed; how many such are in the stream) |

The runtime is not in the repository, so the model says what it takes it to do: it
delivers status reports in order; one watcher is installed at a time; a client and its
watcher go with the last handle on it, as the comment in `arm_gate` says; a
subscription taken on an armed link hears at once. Everything else is open. Both feeds
use one client: while the config feed runs, the end of a mode subscription leaves the
watcher, its raised flag, the link and the reports under way as they are (`LetGo`,
`Kept`), and a new subscription may find the link armed; when it does not, they all go
(`Gone`). The config feed starts and ends at any time. Any event may be one that does not
decode. The stream and the status channel are two ways: a loss and a new arm may reach the
watcher while the stream still holds events from before them.

### Quote

| Code | Model |
|---|---|
| the request and the account's rows | `req`, `rows`; a bundle is its number of calls, its value and its gas |
| `Budget` | `elapsed`; what a call is granted is `Slice` or `Whole` of it, and the call takes anything up to that |
| `Route` (a round trip on the chain) | `rt` |
| what the fee pass of `quote` and `reprice` keep | `fee`, `tip`, `custom`, `gas`, `ceiling` |
| the labels behind the reply | `labels` |

`Gate` - `Form` - `ReadRoute` - `EstimateBundle` - for a pinned number `Pin` and, when
its price is raised, `Reprice` - `ReadBalance` - `ReadNonce` - for a send `Approve`.
Each refusal is the same disjunct as in the code: no grant ends in "no time",
an answer that is none in "refused", a verdict that blocks in "blocked". `Pin`
is the two looks at the history, and `seen` what the second gave: the rows as they are by then, or
none, if the wallet was locked between the two or the file will not be read. What fee_module, eth_rpc and the signer
manager answer is any member of a small set. `ample` is a history variable: the
fee pass began with time for all behind it.

### Sweep and Receipts

| Code | Model |
|---|---|
| the rows of one account's file | `disk[r]`: status, last poll, the winner it names, the figures of its receipt |
| `tx_status_changed` | `told[r]`, how often it went out |
| `sweep`, `refresh_one`, each in its call | `job[p]` |
| the `due` list and the maps of one sweep | `todo`, `open`, `erred`, `seen` of a job |
| a reply without a live row | `dismissed`, the rows it showed, as long as nobody is told of them |
| eth_rpc's nodes and the chains | `chain[c]`, what was mined in order of number; a node may be up to `MaxLag` behind |

A row is `Record`ed as an intent, `unknown`, before its bytes leave, and turns `pending`,
its clock started anew and its hash announced, when the node answers (`Resolve`), or
never. `Begin` - `Supersede` - `Collect` (`pending_due`) - per row `ReadGate`,
`ReadMined` (the count at `latest`, once a chain, before the receipt),
`ReadReceipt`, then `Apply`, `ApplyPassed` or `ApplyError`, and where the row moved
`FindMined` - `Supersede` - `Reply`; `Stop` is the spent allowance. `settle_superseded`
lists the mined rows under one lock (`Begin`, `FindMined`: `won`) and edits under another
(`Supersede`), and anything may happen between the two. `Refresh` - `Fetch` - `Store` is
the refresh of one row. Every edit has a variant in which the write fails
(`Refuse`). What is picked of a list, the account's own transfers or those with a
figure, is `Among`: the places that qualify, in order. `Lists` says, without it, what a list
so picked must be, for the property to hold it against. `Receipts` has the order of the transfers, their cap, the sum of what
came in, the fee and the total, with a word of width `MaxWord`; addresses are
compared in one casing.

### Opener

| Code | Model |
|---|---|
| the mpsc channel | `wakes`, a set: a batch is drained whole and a wake repeated says nothing more |
| the three subscriptions of `watch_wallets` | `flight`, events emitted and not yet delivered, per stream |
| `State.history`, `Closed` reasons, `known` | `open`, `why`, `known`, those of the state installed last; `job.st` says which one the opener works on |
| file names' generations | `boxes` |
| the opener's local variables | `job` |

`Drain` is `recv` with the `try_recv` loop and `close_all`; `ManagerAccounts`, `AskKey`,
`Compare`, `AskOlder`, `Open`, `OpenFails` and `Refused` are `open_account`, one step
per call to the manager and one for the move. `Call` is `locked`: the entry
point that finds an account closed and may wake the opener. `Lock`, `Unlock`,
`Rekey` and `List` are the wallets', `ContextReady` the runtime's.

## 3. Runs

| Run | Question | Bounds |
|---|---|---|
| `ledger` | Do the ledger's invariants hold over every interleaving of its doors, with ids that repeat, and are the doors a `NonceBook`? | 2 ids, 1 account, numbers 0..2, bundles of up to 2, 3 claims, one row of an earlier process |
| `race` | Do two dispatches, a cancel, a lock and a crash ever break a send, and does a decided one settle? | 2 dispatches, 1 send of up to 2 legs, numbers 0..1, 1 lock, 1 crash |
| `restart` | Does a crash at any point free a number or lose evidence, and does the `NonceBook` outlive the process? | 1 dispatch, 2 ids, numbers 0..2, 2 claims, 1 crash, 1 lock |
| `history` | Does an account's history survive crashes, faults, failed writes and a change of key, and implement `HistoryBook`? | 2 rows, 2 generations, 1 crash, 1 file gone bad, 2 instances one after the other |
| `gate` | Is the cache ever wrong about a chain with nothing under way to correct it? | 1 chain, 1 read, 1 re-arm, 2 events and 2 reports waiting |
| `quote` | Does a request keep to its allowance, and tell, charge and outbid what it should? | a word of 60, a bump of a tenth, 2 calls, deadlines that cut every step, some or none, 7 histories |
| `sweep` | Do rows settle as the chain settled them, once, for good and audibly? | 2 rows at one number, one replacing the other or a stranger both, 2 sweeps, one of which may be a refresh instead, clock 0..2, a horizon of 1 |
| `opener` | Does a lock win against a key on its way, and does each history follow its wallet? | 2 accounts, 1 listed later, 2 moves of the wallets, 1 fault, 2 starts |
| `read_fault`, `adopt_unread`, `migrate_over`, `gate_unfed` | Sentences of the code or its comments that do not hold; see 5 | as above, smaller |

Why the bounds are enough. A clash needs two holders and a third to stand
between them (a cancelled or overwritten one, or a replacement), so three claims
on one account in `ledger`; accounts do not interact (every guard is per
account; the proofs are for any number of them). Two legs are the least with a
"first that failed" and a "rest"; three numbers let a bundle sit above a burnt
number and leave a gap. Races are between two dispatches of one send, so `race` has one; two
sends meet in `ledger` and `restart`. One crash
separates "before" from "after", and a second would only start over. In
`history`, two rows let one operation lose the other's, two generations are one
move, and a move cut short by a crash is taken up by the next process. In `gate`
chains do not interact but through the generation, which `Invalidate` moves at any
time; reads do not see each other (the proof is for any number), and one re-arm is a feed
that was lost and one that is given up. `quote` has one request, as requests share nothing but the rows, of which any
history may be found; the histories hold a price below the bump's resolution and one
above it, two rows that are dearest on one field each, a mined one, a replaced one
and rows of another chain and number. In `sweep` a row is at its number
alone, against a sibling or against a stranger; ages are young enough to be polled, old enough
for the count to decide, and past the horizon, and a row that is resolved late is young again; the second sweep and the refresh
are what a slow answer overtakes. In `opener` two moves are a lock and what
undoes it, in either order, while the opener is anywhere. TLC checks deadlock off where a bounded system stops (its claims, rows
and crashes used up), and on in `gate`.

What a passing run takes for granted is in its constants: `race` and `restart` a
manager that does not repeat a handle, `restart` rows that can be read when an account
opens (`read_fault` shows what happens otherwise), `history` that only reads of the
account file fail and calls do not outlive a re-initialisation, `sweep` that no node that is
behind another answers (`MaxLag` = 0; of its properties `ReplacedWasReplaced` and
`SettledStays` need it). What happens without them can be seen by changing the constant:

- `Overlap = TRUE` in `MCHistory.cfg`: `RecordedStays` and `RefusedNowhere` fail. A second
  `on_context_ready` makes a second mutex over the same files.
- `MaxLag = 1` in `MCSweep.cfg`: `ReplacedWasReplaced` fails. The count comes from a
  node that is past the number, the receipt from one that has not seen it.
- `FreshIds = FALSE` in `MCRestart.cfg`, or in `MCSendFlow.cfg` with `MaxClaims = 2` (a manager that repeats a handle, or answers
  without one: `request_send` then falls back to the empty handle): `HashNamesItsRow`,
  `OneVerdict` and `BytesBurn` fail, as `Recorded::owns` and `settle_locked` go by the request
  id. `commit` provides for such an id, and what it does promise is checked in
  `ledger`.

What a property does not cover is in its statement:

- `KeepsNonceBook`: a number whose row was over when the process started. It is not seeded,
  so a reading that lags, or a pin at it that the quote did not recognise, may get it
  again; the node refuses it as used.
- `StaleOnlyInFlight` and `SwitchOnIsHeard`: the time between a feed that gave up and the
  next (`Feeding`; see `gate_unfed` in 5), and the chains the cache has on the word of an event that
  a new arm overtook (`late`). Such an event waits in the stream while the link is lost and arms
  again; `feed_live` forgets everything and `told` then puts the old word back. Nothing in
  the code tells it from a new one.
- `OutbidsWhatItFound`: rows the quote's second look did not give, and what leaves at the number after
  that look. Where the bump saturates, the offer is the greatest word.
- `IdleMeansOver`: a row that somebody is told of after the reply. A reply given while an
  intent waits for its hash says truly that no row can be polled; the row turns pending
  afterwards, and what a caller has then is the announcement (`tx_status_changed`).

Fairness (`FairSpec`, used by `race`): the consumer polls while a send is
not final (the README asks it to), a dispatch that runs goes on, the node
answers a broadcast in the end (the one call without a deadline: if it never
does, the job is reported `stuck`, and settling cannot be promised), the opener
goes on. Strong fairness only for what may fail any number of times but not
for ever: the manager's answer, the gate, opening the history. Nothing is
assumed of the human, of locks, of forgetting, of errors. `FairGateSpec`, used by
`gate`: the feed thread, which blocks on nothing but its stream, goes on, and the
runtime delivers a report it owes. `FairSpec` of `Opener`: the opener goes on
while it has a wake or work, each subscription delivers what was emitted, and a
consumer with a closed account on its screen polls it (`WF_vars(Call(a, FALSE))`, the
refresh the README asks for). Nothing is assumed of sends, which would wake it too.

## 4. Proofs

`LedgerProofs` proves for every set of ids and accounts and every bound:

- `TypeCorrect`: the type invariant.
- `AuditFindsNothing`: `Containment` and `Uniqueness`, so `audit` never panics
  or repairs; `OneUndirectedHolder` is the second alone.
- `PinsNeverCollide`: `OnePending`, stronger than `audit`.
- `NumbersAreUsedOnce`: `WireExclusive`.
- `NothingLeaks`: `NoLeak`.
- `OnlyTheOwnerSettles`: `OwnerAlone`.
- `VerdictsStand`: `OneVerdict`, if handles are fresh (it is false otherwise,
  see 3).
- `NumbersAreABook`: `ImplementsNonceBook`, that every step of `Ledger` is a step of
  `NonceBook` or none; and of the book itself `TheBookKeepsApart`: no number is in two
  hands, none in an undeclared hand that something left with, none left with twice but
  as declared.

`Uniqueness` and `OnePending` are not properties of a run of their own: a grant of the
book is of numbers in nobody's hand, so the run of `ImplementsNonceBook` looks for
what they forbid, and the theorems say them outright.

The argument is one inductive invariant, `IInv`. `WireExclusive` is about the
past and says nothing inductive; it needs `WireBurnt` (what is on the wire is
burnt), and `Untouched` (a number held undeclared and not yet left is on the
wire for no send). For a pin to keep `Untouched` and `OnePending`, the
reserver must agree with the holders, which is `Containment`. `ClaimIds` says
that a claim id is used by one claim or job, which is what lets "another send"
be counted at all. `TicketsLive` ties tickets to their jobs for `OwnerAlone`.
`VerdictsStand` adds `NoOverwrite`: with fresh ids no ticket outlives its job.
The release path has lemmas of its own (`MovesHeld`, `SyncKeeps`): a step that
takes legs from a job releases exactly what nobody else holds. For the refinement each door is shown
to be one of three moves of the book (`InHandIs` and `GoneIs` read the mapped sets): what makes
`open` a grant is `Containment`, what makes an undeclared one lawful is
`WireBurnt`. Assumed: only `LedgerAssumption`.

`SendFlowProofs` proves for any number of dispatches, sends, legs, crashes and locks:

- `FlowTypeCorrect`: `TypeOK`, `RowsComeFirst`: `WriteAhead`, both even if handles repeat.
- With fresh handles (`FreshIds`):
  - `FlowVerdictsStand`: `OneVerdict`, now with everything around the ledger.
  - `LegsLeaveInOrder`: `InOrder`.
  - `BroadcastIsWhole`: `BroadcastMeansAll`.
  - `SentIsBurnt`: `BytesBurn`.
  - `LegsLeaveOnce`: `SentOnce`.
  - `CancelIsFinal`: `CancelledNeverLeaves`.
  - `HashesNameTheirRows`: `HashNamesItsRow`.

Every step of `SendFlow` that touches the ledger is a step of `Ledger`, so what
`LedgerProofs` shows of a step is used as it is (`FlowBooks`); a crash is the one that is
not, and starts from an empty ledger. The invariant on top, `Driven`, is about the
copy each dispatch works on. No lock keeps the copy and the job together; what
does is the ticket: a dispatch past `claim_broadcast` owns it alone (`Owners`), the
job behind its copy is the same send (`Copies`, where fresh ids are needed: a
repeated id puts another job there), and at each `pc` exactly the legs before the one in
hand have left and landed (`Progress`). Order, wholeness and the burning of numbers
(`JobsOrderly`, `LeftBurnt`) then follow step by step. `SentOnce`, `CancelledNeverLeaves` and
`HashNamesItsRow` outlive the job they are about and so need `Recorded`: bytes and rows
name their send by a claim id that is never used again (`Carried`, `RowKnown`), and two
rows of one send are two legs (`LegsApart`).

`RestartProofs` proves, for fresh handles and a disk that reads (`ReadFaults` FALSE):

- `OpeningBurns`: `BurntBeforeOpen`.
- `NumbersAreUsedOnceForAll`: of two sends whose bytes may have left at one number, in
  one process or two, one declared that it replaces or was over when this process started.
- `NumbersAreABookForAll`: `KeepsNonceBook`, that every step of the whole module, crashes
  included, is a step of the book or none.

Nothing is assumed of what the node reads: a reading may fall, and a pin may be at any
number. The invariant `Opening` says of each row of an account that was opened how its number is
kept: it is burnt, or its dispatch is about to burn it (`Taken`), or the row was over
when the process started (`past`). These are the two halves of the design: unsettled rows are seeded, settled
ones are left to the chain. `Exclusive` adds that no
claim or job without a `replaces` is at the number of another's row that was not over by
then (`Apart`), and with `RowsComeFirst` what holds of rows holds of bytes (`WireApart`).

`HistoryProofs` proves, for any number of rows, keys, crashes and files gone bad:

- `HistoryTypes`: `StoreTypeOK`.
- `RecordedForGood`: `RecordedStays`.
- `RefusedForGood`: `RefusedNowhere`.
- `SeedsCover`: `SeedCovers`.
- `FilesAreABook`: `ImplementsBook`, that every step of `HistoryStore` is a step of
  `HistoryBook` or none.

Assumed besides the constants' own assumptions is `Steady`: calls do not outlive the `History` they
started on, and of the reads only those of the account file fail for a moment. `adopt_unread`,
`migrate_over` and `Overlap = TRUE` show that each part is needed. The invariant, `HInv`, has to say
where a row may be at every point between two file operations. Its core is an order on
files: a list about to land covers every file it replaces or removes, row by row and
no row less far (`InFlight`), and of two files of one name in two generations the
newer covers the older as long as the older can still be read (`Newer`). That is what
makes a move that was cut short safe to take up: the source is dropped because the target has
it all. It holds as files of a key no longer at hand are dead or on the opener's list
(`OldIsListed`), nothing is newer than the key at hand (`Bounds`), and one operation is
under way (`Alone`). With it no step loses a row (`NoneLost`), whatever is removed.
`FateOK` says which files may hold a row whose call has yet to answer, `Seeded` that what an earlier
process left is burnt or over since the seed, `Litter` that staged files need a
crash. The refinement maps a row to the furthest status a landed file has of it: `NoneLost`
gives that no step takes that back, and the content of a landing list that one row
moves, by one status (`BookAdvances`), and the others not at all (`OthersStand`).

`QuoteProofs` proves for every allowance, every set of deadlines, reserves and
replies, every history and every width of the word:

- `AllowanceHolds`: `QuoteTypeOK`, in which no clock passes the allowance.
- `NothingUnpaid`: `PaidInFull`, so the balance that was checked covers the price and
  the limits the request is approved at, whichever of the two passes set them.
- `ReplacementsOutbid`: `OutbidsWhatItFound`.
- `NeverCutOff`: `TimeKeptForTheRest`, a fee pass that began with time for all
  behind it leaves each of the later calls its own.
- `RepliesTell`: `ReplyTells`, for every radix, number of decimals, places shown and
  word as well.

Each has its own strengthening over the steps of the pass (`Paid`, `Outbidding`,
`TimeKept`), above lemmas about the operators: what `slice` and `whole` grant
(`SliceGrants`, `WholeGrants`, `FeeCapLeaves`), that `floor` is at least every bumped
price (`HighestIs`) and that a bump outbids or is the greatest word
(`BumpOutbids`, `RaisedIs`). `RepliesTell` is of two parts. What `Served`
means of the state is `Paid`: value and price are within a balance, so within a word, so
they can be written. The rest is arithmetic: `Pow`, the one recursive function, is what
its definition says and adds in its exponent (`PowIs`, `PowAdds`; each by the least
number for which it fails, `LeastIs`), a fraction without its trailing zeros says
what it said (`TrimmedIs`, `TrimmedReads`), so the exact form reads back as the amount and
the short form as the amount less a remainder below its last place (`ExactReads`,
`DisplayReads`); and a least of the ranks exists (`WeakestIs`). Assumed: the assumptions
of `Budget`, `Replace`, `Units` and `Quote` on their constants, among them that a word can
be written as an amount (`W <= MaxAmount`: both are
the greatest U256 in the code).

`OpenerProofs` proves `LocksWin`: `LockEndsIt`, for every set of accounts and any
number of moves, faults and starts, from two parts: `Shape` (what the opener
holds at each of its steps) and `Idler` (an account it is to leave alone is
open only by a key asked for before the lock it has yet to hear).

`SweepProofs` proves for any number of rows, chains, sweeps and refreshes, however far
the nodes lag:

- `IdleIsOver`: `IdleMeansOver` (the one edit that makes a row pending and young again,
  `resolve_broadcast`, is announced; no other does either: `Settling`, `ResolveSettles`,
  `RowsAge`).
- `MovesAreTold`: `ToldAsMoved`.
- `RowsTellTheirReceipts`: `RowTellsReceipt`, for receipts of any length and any cap.

And where no node that is behind answers (`MaxLag` = 0):

- `ReplacedForGood`: `ReplacedWasReplaced`.
- `SettledForGood`: `SettledStays`.

The invariant of all but the first is `SettleInv`: what the file says of a row is true to the
chain (`RowOK`), and so is what each sweep and refresh has read and not yet written
(`SweepJob`, `RefreshJob`). Chains only grow (`ChainsGrow`), so what was true when it was
read is true when it is written; that is why an edit needs no look at the chain.
A receipt is that of the row's own transaction whichever node answers, and is final; only
that there is none may be untrue of a node that is behind, so only the clauses about
replacement are under `Abreast` (`MaxLag` = 0).
Every edit is then one of few shapes (`SoundEdit`), and the theorems
follow from the shape. For `RowsTellTheirReceipts` `SettleInv` says that a mined row has exactly
the figures of its receipt, and what these are is shown of the operators: the places
`Among` takes from a list and their order (`RanksAre`, `PlacesAre`, `AmongIs`), that sorting own
entries to the front leaves each entry in once (`SortedIs`), and that a cut behind them
drops an own entry only when it shows nothing else (`OwnFirstIs`, `ListsAre`). The counting is by
cardinalities of sets of places, which needs no induction over the list. Assumed
besides `MaxLag` where it is named: `SweepAssumption`, which has the logs of a receipt be a
sequence and the cap a number.

`GateCacheProofs` proves, for any number of chains, reads, attempts, events and reports,
for events that do not decode, and for a client that the config feed keeps or lets go:

- `WrongOnlyInFlight`: `StaleOnlyInFlight`.
- `GateTypes`: `GateTypeOK`.

The invariant, `GateInv`, ties together four things that move separately: which
handles the feed thread holds at each of its steps, and that a watcher left from an earlier
subscription is blind, and the cache closed, by the time the next one is taken
(`Handles`); that the last report on its way says how the link is and a live cache on a lost
link has the loss on its way (`LastWord`, `LossTold`); that on an armed link what the stream
holds from behind the last arm ends in the truth about each chain it names, or in
something that closes the cache (`StreamIsTrue`); and that an answer whose ticket is still
current is right or about to be corrected (`AnswersHold`). The last is why a ticket is
cut before the read goes out. Only taking an event removes a word under way, and it
does what that word says (`RightStays`, `ReceiveKeepsRight`). Assumed: `GateAssumption`.

Not proved, as the provers cannot do induction over data: the sum of what came in
(`NativeReceived` folds over the logs). That a row keeps it as its receipt has it is part of
`SettleInv`; no property says what the fold yields.

Model-checked only, as liveness under fairness and ENABLED are out of the provers'
reach: `DecidedSettles`, `SwitchOnIsHeard` and `FollowsTheWallet`. Every other property of a
passing run is the conclusion of a theorem.

## 5. Where the code and its words part

- `read_fault`. `open_account` says that what the last process left unsettled is
  burnt before any send can reach the account. `read_rows` turns a read error
  into an empty file, and the account then opens unseeded.
- `adopt_unread`. Sidecars are deleted only once the merged list has landed, "any
  earlier loses exactly the rows they exist to keep". A sidecar that fails to
  read is merged as an empty one and deleted all the same.
- `migrate_over`. "A target already there is a move that landed before a crash".
  It can also be a file made since: `wanted` skips a file it cannot read, the
  account opens under its new key without it, and a row recorded then makes the
  target. The source, with its rows, goes.

- `gate_unfed`. What opens the gate cache is an `Armed` report "while a mode subscription
  exists", and `live` is "whether the mode subscription is established". An event that does
  not decode ends `gate_feed`, which closes the cache first and drops the subscription
  after; the watcher's `subscribed` flag is never lowered. A report still on its way then
  opens the cache, and so does, while the config feed keeps the client, any arm after it. It is empty
  when it opens, and the next gated read arms a feed, whose install closes it.

Met while reading, with no run: `tests/a_state_change_is_announced.rs` says that
everything a caller can see change is announced. A change of key whose file move
fails closes a history that was open (`history.rs` `open`), and `open_account`
announces nothing for it: a consumer learns of it by its next read.

## 6. Not modelled, and the plan

Not modelled for good: `txbuild` (the encoding of a call), `details`, `chains`,
`failure` and the JSON of rows and replies: pure conversions without state, covered
by unit tests; the wording of replies and events; the sealing of a file, which
is taken to open under its own key alone.

Left out of what is modelled:

- Sidecar names that come back: a process id and a counter that starts over may
  repeat a name after a restart.
- What leaves at a pinned number between the quote's look at the history and the grant
  of the pin: `Quote` has the rows it found, `Ledger` the pin; the price of a replacement
  is against what `quote` found.
- Rows past the polling horizon stay pending unless someone refreshes them. The
  code means them to; `IdleMeansOver` takes the horizon as it is.

What could come next: the two hazards in `PROJECT.json` without a property (sidecar names that
come back, and a second `on_context_ready` while calls go on, which needs a fix in the code
before it can hold), and the rest of the history's readers.
