------------------------------ MODULE GateCache ------------------------------
(***************************************************************************)
(* The chains a gated call need not ask eth_rpc about: ModeCache of        *)
(* rust-lib/src/gate.rs, with the thread that feeds it and the reads that  *)
(* fill it, glue.rs arm_gate, gate_feed, watch_gate and                    *)
(* verified_verdict_within.                                                *)
(*                                                                         *)
(* Four parties touch the cache under its one lock: the feed thread, with  *)
(* each event; the runtime, calling the status watcher; the config feed;   *)
(* and any number of reads, which go out holding nothing.  The generation  *)
(* is kept as what it decides: whether a read's ticket is current.         *)
(*                                                                         *)
(* The runtime is external.  One watcher is installed at a time; it goes   *)
(* when the client does, with the last handle on it, and the config feed   *)
(* holds one; a subscription taken on an armed link hears at once.  Status *)
(* reports and mode events travel apart: neither waits for the other.      *)
(***************************************************************************)
EXTENDS Naturals, Sequences

CONSTANTS
    Chains,
    Readers,
    Rearms,         \* GATE_REARMS
    MaxEvents,      \* bound: events waiting in the stream
    MaxReports      \* bound: status reports on their way

ASSUME GateAssumption == Rearms \in Nat /\ MaxEvents \in Nat /\ MaxReports \in Nat

VARIABLES
    live, cold, off,    \* the cache
    late,               \* history: chains in off by an event from before the link armed
    ticket,             \* reader -> whether anything moved since it cut one
    reading,            \* reader -> the read it has under way
    feed,               \* where the feed thread is; "off": its flag is down
    attempt,
    watcher,            \* the watcher installed, by what its flag says
    channel,            \* the runtime has a status channel
    mode,               \* eth_rpc's own
    link,               \* whether the client is armed on eth_rpc
    config,             \* the chain-config feed runs
    sub,                \* the mode subscription
    events, reports,
    before              \* history: how many events were published before the link armed

cacheVars == <<live, cold, off, late, ticket>>
feedVars == <<feed, attempt, watcher>>
netVars == <<mode, link, config, sub, events, before, reports>>
gateVars == <<cacheVars, feedVars, netVars, reading, channel>>

Modes == {"off", "required"}
Garbled == [chain |-> "unreadable"]
Events == [chain : Chains, mode : Modes] \cup {Garbled}
NoRead == [pc |-> "none"]
Reads ==
    {NoRead} \cup [pc : {"cut", "out"}, chain : Chains]
             \cup [pc : {"back"}, chain : Chains, mode : Modes \cup {"unknown"}]

-----------------------------------------------------------------------------
(* ModeCache, each operation under its lock                                *)

\* The generation moves: no ticket cut before is current.
Bump == ticket' = [r \in Readers |-> IF ticket[r] = "current" THEN "stale" ELSE ticket[r]]

Forget == off' = {} /\ late' = {}

FeedLive == Bump /\ Forget /\ live' = ~cold /\ UNCHANGED cold
FeedDead == Bump /\ Forget /\ live' = FALSE /\ UNCHANGED cold
NoStatusChannel == Bump /\ Forget /\ live' = FALSE /\ cold' = TRUE

Open(c) == live /\ c \in off

\* What is known of chain c, and whether an event from before the link armed said it.
Apply(c, m, old) ==
    /\ off' = IF m = "off" THEN off \cup {c} ELSE off \ {c}
    /\ late' = IF m = "off" /\ old THEN late \cup {c} ELSE late \ {c}

Told(c, m, old) == Bump /\ Apply(c, m, old) /\ UNCHANGED <<live, cold>>

Lands(r) == Apply(reading[r].chain, reading[r].mode, FALSE)

\* Mutant: an answer lands whatever moved while it was out.
LearnedAnyway(r) ==
    /\ IF live THEN Lands(r) ELSE UNCHANGED <<off, late>>
    /\ UNCHANGED <<live, cold>>

\* A read's answer is dropped if the feed is not live or anything moved meanwhile.
Learned(r) ==
    /\ IF live /\ ticket[r] = "current" THEN Lands(r) ELSE UNCHANGED <<off, late>>
    /\ UNCHANGED <<live, cold>>

-----------------------------------------------------------------------------
(* The runtime's handles                                                   *)

\* Mutant: the watcher knows arms only.
HearArms(s) ==
    IF watcher = "seeing" /\ channel /\ s = "armed" THEN FeedLive ELSE UNCHANGED cacheVars

\* The watcher is called with a status.  Without a channel it never is.
Hear(s) ==
    CASE watcher = "none" \/ ~channel -> UNCHANGED cacheVars
      [] watcher = "seeing" /\ channel /\ s = "armed" -> FeedLive
      [] OTHER -> FeedDead

\* The client goes with the last handle on it, and its watcher with the client.
Kept == UNCHANGED <<watcher, link, reports>>
Gone == watcher' = "none" /\ link' = "held" /\ reports' = <<>>

\* The feed thread lets go of its handles.  The config feed's keeps the client, its
\* link, and the watcher with its flag as it is.
LetGo ==
    /\ sub' = "none" /\ events' = <<>> /\ before' = 0
    /\ IF config THEN Kept ELSE Gone
    /\ UNCHANGED config

-----------------------------------------------------------------------------
(* gate_feed and arm_gate                                                  *)

\* Mutant: one subscription too many.
AgainTooOften == IF attempt <= Rearms THEN feed' = "arm" /\ attempt' = attempt + 1
                                      ELSE feed' = "done" /\ UNCHANGED attempt

\* The next attempt, if one is left.
Again == IF attempt < Rearms THEN feed' = "arm" /\ attempt' = attempt + 1
                             ELSE feed' = "done" /\ UNCHANGED attempt

\* The watcher goes on first; the install replays the state, which opens nothing.
Install ==
    /\ feed = "arm"
    /\ watcher' = "blind"
    /\ IF channel THEN FeedDead ELSE UNCHANGED cacheVars
    /\ feed' = "subscribe"
    /\ UNCHANGED <<attempt, netVars, reading, channel>>

Subscribe ==
    /\ feed = "subscribe"
    /\ sub' = "on" /\ events' = <<>> /\ before' = 0
    /\ feed' = "raise"
    /\ UNCHANGED <<cacheVars, attempt, watcher, mode, link, config, reports, reading, channel>>

\* The watcher cannot be installed, or the subscription cannot be had.
ArmFails ==
    /\ feed \in {"arm", "subscribe"}
    /\ LetGo
    /\ FeedDead
    /\ Again
    /\ UNCHANGED <<mode, reading, channel>>

RaiseFlag ==
    /\ feed = "raise"
    /\ watcher' = "seeing"
    /\ feed' = "replay"
    /\ UNCHANGED <<cacheVars, attempt, netVars, reading, channel>>

\* The second install replays the state again; nobody minds if it fails.
Replay ==
    /\ feed = "replay"
    /\ Hear(link) \/ UNCHANGED cacheVars
    /\ feed' = "listen"
    /\ UNCHANGED <<attempt, watcher, netVars, reading, channel>>

Receive ==
    /\ feed = "listen" /\ events # <<>>
    /\ events' = Tail(events)
    /\ before' = IF before = 0 THEN 0 ELSE before - 1
    /\ IF Head(events) = Garbled
       THEN FeedDead /\ feed' = "done"
       ELSE Told(Head(events).chain, Head(events).mode, before > 0) /\ UNCHANGED feed
    /\ UNCHANGED <<attempt, watcher, mode, link, config, sub, reports, reading, channel>>

\* The stream ends once it is drained.
StreamEnds ==
    /\ feed = "listen" /\ sub = "ended" /\ events = <<>>
    /\ LetGo
    /\ feed' = "drop"
    /\ UNCHANGED <<cacheVars, attempt, mode, reading, channel>>

Drop ==
    /\ feed = "drop"
    /\ FeedDead
    /\ Again
    /\ UNCHANGED <<watcher, netVars, reading, channel>>

\* The thread returns and its flag goes down: the next gated read arms one itself.
Release ==
    /\ feed = "done"
    /\ LetGo
    /\ feed' = "off"
    /\ UNCHANGED <<cacheVars, attempt, mode, reading, channel>>

\* watch_gate: one feed thread at a time.
Watch ==
    IF feed = "off"
    THEN /\ feed' = "arm" /\ attempt' = 0
         /\ IF channel THEN UNCHANGED cacheVars ELSE NoStatusChannel
    ELSE UNCHANGED <<feed, attempt, cacheVars>>

\* on_context_ready arms the two feeds, one after the other.
Start ==
    /\ feed = "off"
    /\ Watch
    /\ UNCHANGED <<watcher, netVars, reading, channel>>

\* watch_chain_config: one feed at a time, and nothing takes it up again but this.
WatchConfig ==
    /\ ~config
    /\ config' = TRUE
    /\ UNCHANGED <<cacheVars, feedVars, mode, link, sub, events, before, reports, reading, channel>>

\* The feed thread holds the client, from its watcher on to the end of its stream.
Holds == feed \in {"subscribe", "raise", "replay", "listen"}

\* The config feed ends, and its handle with it.
ConfigEnds ==
    /\ config
    /\ config' = FALSE
    /\ IF Holds THEN Kept ELSE Gone
    /\ UNCHANGED <<cacheVars, feed, attempt, mode, sub, events, before, reading, channel>>

-----------------------------------------------------------------------------
(* verified_verdict_within                                                 *)

\* A gated call asks where the cache does not answer; a sweep asks whatever it says.
Probe(r, c) ==
    /\ reading[r] = NoRead
    /\ Watch
    /\ reading' = [reading EXCEPT ![r] = [pc |-> "cut", chain |-> c]]
    /\ UNCHANGED <<watcher, netVars, channel>>

\* The ticket is cut before the read goes out.
Cut(r) ==
    /\ reading[r].pc = "cut"
    /\ ticket' = [ticket EXCEPT ![r] = "current"]
    /\ reading' = [reading EXCEPT ![r].pc = "out"]
    /\ UNCHANGED <<live, cold, off, late, feedVars, netVars, channel>>

\* eth_rpc answers, or the read fails.
Answer(r) ==
    /\ reading[r].pc = "out"
    /\ \E m \in {mode[reading[r].chain], "unknown"} :
        reading' = [reading EXCEPT ![r] = [pc |-> "back", chain |-> @.chain, mode |-> m]]
    /\ UNCHANGED <<cacheVars, feedVars, netVars, channel>>

Learn(r) ==
    /\ reading[r].pc = "back"
    /\ Learned(r)
    /\ ticket' = [ticket EXCEPT ![r] = "none"]
    /\ reading' = [reading EXCEPT ![r] = NoRead]
    /\ UNCHANGED <<feedVars, netVars, channel>>

\* chain_config_changed: it can only move a chain towards asking.
Invalidate(c) ==
    /\ config
    /\ Bump /\ off' = off \ {c} /\ late' = late \ {c}
    /\ UNCHANGED <<live, cold, feedVars, netVars, reading, channel>>

-----------------------------------------------------------------------------
(* eth_rpc and the runtime                                                 *)

Hears == sub = "on" /\ link = "armed"

\* The event of a mode's change; a build that shares no contract cannot read it.
Published(c, m) == {[chain |-> c, mode |-> m], Garbled}

Move(c, m) ==
    /\ mode[c] # m
    /\ mode' = [mode EXCEPT ![c] = m]
    /\ IF Hears
       THEN Len(events) < MaxEvents /\ \E e \in Published(c, m) : events' = Append(events, e)
       ELSE UNCHANGED events
    /\ UNCHANGED <<cacheVars, feedVars, link, config, sub, before, reports, reading, channel>>

Becomes(l) ==
    /\ Len(reports) < MaxReports
    /\ link' = l
    /\ reports' = Append(reports, l)

\* The client arms, or arms again, for whichever subscription it has.  What the
\* stream holds may still be there when the watcher hears of it.
LinkUp ==
    /\ link # "armed" /\ (sub = "on" \/ config)
    /\ Becomes("armed")
    /\ before' = Len(events)
    /\ UNCHANGED <<cacheVars, feedVars, mode, config, sub, events, reading, channel>>

LinkLost ==
    /\ link = "armed"
    /\ Becomes("lost")
    /\ UNCHANGED <<cacheVars, feedVars, mode, config, sub, events, before, reading, channel>>

\* The runtime gives a subscription up, for good.
Abandon ==
    /\ sub = "on"
    /\ sub' = "ended"
    /\ Becomes("lost")
    /\ UNCHANGED <<cacheVars, feedVars, mode, config, events, before, reading, channel>>

Report ==
    /\ reports # <<>>
    /\ reports' = Tail(reports)
    /\ Hear(Head(reports))
    /\ UNCHANGED <<feedVars, mode, link, config, sub, events, before, reading, channel>>

-----------------------------------------------------------------------------
GateInit ==
    /\ live = FALSE /\ cold = FALSE /\ off = {} /\ late = {}
    /\ ticket = [r \in Readers |-> "none"]
    /\ reading = [r \in Readers |-> NoRead]
    /\ feed = "off" /\ attempt = 0 /\ watcher = "none"
    /\ channel \in BOOLEAN
    /\ mode \in [Chains -> Modes]
    /\ link = "held" /\ config = FALSE /\ sub = "none"
    /\ events = <<>> /\ before = 0 /\ reports = <<>>

FeedStep ==
    \/ Install \/ Subscribe \/ ArmFails \/ RaiseFlag \/ Replay
    \/ Receive \/ StreamEnds \/ Drop \/ Release

GateNext ==
    \/ FeedStep \/ Start \/ WatchConfig \/ ConfigEnds
    \/ \E r \in Readers : (\E c \in Chains : Probe(r, c)) \/ Cut(r) \/ Answer(r) \/ Learn(r)
    \/ \E c \in Chains : Invalidate(c) \/ (\E m \in Modes : Move(c, m))
    \/ LinkUp \/ LinkLost \/ Abandon \/ Report

GateSpec == GateInit /\ [][GateNext]_gateVars

\* A thread with something to do does it, and the runtime delivers what it owes.
FairGateSpec == GateSpec /\ WF_gateVars(FeedStep) /\ WF_gateVars(Report)

-----------------------------------------------------------------------------
(* Properties                                                              *)

GateTypeOK ==
    /\ live \in BOOLEAN /\ cold \in BOOLEAN /\ channel \in BOOLEAN /\ config \in BOOLEAN
    /\ off \subseteq Chains /\ late \subseteq off
    /\ ticket \in [Readers -> {"none", "current", "stale"}]
    /\ reading \in [Readers -> Reads]
    /\ \A r \in Readers : (ticket[r] = "none") <=> (reading[r].pc \in {"none", "cut"})
    /\ feed \in {"off", "arm", "subscribe", "raise", "replay", "listen", "drop", "done"}
    /\ attempt \in 0..Rearms
    /\ watcher \in {"none", "blind", "seeing"}
    /\ mode \in [Chains -> Modes]
    /\ link \in {"held", "armed", "lost"}
    /\ sub \in {"none", "on", "ended"}
    /\ events \in Seq(Events) /\ before \in 0..Len(events)
    /\ reports \in Seq({"armed", "lost"})

\* The feed thread has not given up.
Feeding == feed \notin {"done", "off"}

\* What will yet close the cache for chain c: its event in the stream, an event
\* that cannot be read, a loss on its way to the watcher, the end of the stream.
ClosesSoon(c) ==
    \/ \E i \in DOMAIN events :
        events[i] = Garbled \/ (events[i].chain = c /\ events[i].mode # "off")
    \/ \E i \in DOMAIN reports : reports[i] = "lost"
    \/ sub = "ended"
    \/ feed \in {"arm", "drop"}

\* While there is a feed thread the cache is wrong about a mode only while the word
\* of it is under way: what moved unheard, with the link down, between two
\* subscriptions, or behind the back of a read, ends in Gate::Ask.  Not so of what
\* an event overtaken by a new arm said, which nothing tells from one that was not.
StaleOnlyInFlight ==
    Feeding => \A c \in Chains \ late : Open(c) /\ mode[c] # "off" => ClosesSoon(c)

\* Verification being switched on is not missed while there is a feed thread: the
\* chain is asked about again, unless the mode goes back first; but for what an
\* event overtaken by a new arm said of it.
SwitchOnIsHeard ==
    \A c \in Chains :
        (Feeding /\ mode[c] = "required" /\ c \notin late) ~> (mode[c] = "off" \/ ~Open(c))

\* The cache is trusted only while there is a mode subscription, or one that has
\* ended and is about to be made good (gate.rs, `live`).
LiveMeansSubscribed == live => sub # "none" \/ feed \in {"arm", "drop"}
=============================================================================
