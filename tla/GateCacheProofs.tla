---------------------------- MODULE GateCacheProofs ----------------------------
(* Machine-checked facts about GateCache, for any number of chains, reads,  *)
(* attempts, events and reports.                                            *)
EXTENDS GateCache, Integers, TLAPS

\* The feed thread has a subscription its watcher sees.
Fed == feed \in {"replay", "listen"}

\* The handles the feed thread holds at each of its steps, and what they allow.
Handles ==
    /\ Fed => watcher = "seeing"
    /\ feed \in {"subscribe", "raise"} => watcher = "blind" /\ ~live
    /\ feed \in {"raise", "replay", "listen"} => sub # "none"
    /\ feed \in {"off", "arm", "subscribe", "drop"} => sub = "none"
    /\ sub = "none" => events = <<>>
    /\ live => channel

\* The last report on its way says how the link is.
LastWord == reports # <<>> => reports[Len(reports)] = link

\* A live cache on a lost link has the loss on its way.
LossTold ==
    live /\ Fed /\ link # "armed" => \E i \in DOMAIN reports : reports[i] = "lost"

\* What the stream holds from behind an event cannot be read, or ends in the truth
\* about its chain.
Follows(i) ==
    \E j \in DOMAIN events :
        /\ i <= j
        /\ \/ events[j] = Garbled
           \/ /\ events[j].chain = events[i].chain
              /\ events[j].mode = mode[events[i].chain]

\* So it is of every event published since the link armed.
EndsTrue ==
    \A i \in DOMAIN events : i > before /\ events[i] # Garbled => Follows(i)

StreamIsTrue == sub = "on" /\ link = "armed" => EndsTrue

\* The chain is off, or the word that it is not is under way.
Right(c) == mode[c] = "off" \/ ClosesSoon(c)

\* An answer that may still be learned is right, or the word of it is under way.
AnswersHold ==
    \A r \in Readers :
        (/\ Fed /\ live /\ ticket[r] = "current"
         /\ reading[r].pc = "back" /\ reading[r].mode = "off")
        => Right(reading[r].chain)

\* So is what the cache says, but for what an overtaken event said.
CacheHolds == Fed => \A c \in Chains \ late : Open(c) => Right(c)

GateInv ==
    /\ GateTypeOK /\ Handles /\ LastWord /\ LossTold /\ StreamIsTrue
    /\ AnswersHold /\ CacheHolds

-----------------------------------------------------------------------------
(* Types                                                                   *)

LEMMA EventIs ==
    ASSUME NEW e \in Events
    PROVE  e # Garbled => e.chain \in Chains /\ e.mode \in Modes
  BY DEF Events

LEMMA BumpTypes ==
    ASSUME ticket \in [Readers -> {"none", "current", "stale"}], Bump
    PROVE  /\ ticket' \in [Readers -> {"none", "current", "stale"}]
           /\ \A r \in Readers : ticket'[r] = "none" <=> ticket[r] = "none"
           /\ \A r \in Readers : ticket'[r] # "current"
  BY DEF Bump

\* What of the types the cache has.
CacheTypeOK ==
    /\ live \in BOOLEAN /\ cold \in BOOLEAN
    /\ off \subseteq Chains /\ late \subseteq off
    /\ ticket \in [Readers -> {"none", "current", "stale"}]

LEMMA CacheTypes ==
    ASSUME CacheTypeOK,
           \/ FeedLive \/ FeedDead \/ NoStatusChannel \/ UNCHANGED cacheVars
           \/ \E c \in Chains, m \in Modes, old \in BOOLEAN : Told(c, m, old)
    PROVE  /\ CacheTypeOK'
           /\ \A r \in Readers : ticket'[r] = "none" <=> ticket[r] = "none"
<1>1. CASE UNCHANGED cacheVars
  BY <1>1 DEF CacheTypeOK, cacheVars
<1>2. CASE FeedLive \/ FeedDead \/ NoStatusChannel
  BY <1>2, BumpTypes DEF CacheTypeOK, FeedLive, FeedDead, NoStatusChannel, Forget
<1>3. CASE \E c \in Chains, m \in Modes, old \in BOOLEAN : Told(c, m, old)
  BY <1>3, BumpTypes DEF CacheTypeOK, Told, Apply
<1> QED BY <1>1, <1>2, <1>3

LEMMA HearKinds == ASSUME NEW s, Hear(s) PROVE FeedLive \/ FeedDead \/ UNCHANGED cacheVars
  BY DEF Hear

LEMMA InitGate == GateInit => GateInv
<1> SUFFICES ASSUME GateInit PROVE GateInv
  OBVIOUS
<1>1. <<>> \in Seq(Events) /\ <<>> \in Seq({"armed", "lost"})
  OBVIOUS
<1>2. GateTypeOK
  <2>1. events \in Seq(Events) /\ reports \in Seq({"armed", "lost"})
    BY <1>1 DEF GateInit
  <2>7. before \in 0..Len(events)
    BY DEF GateInit
  <2>2. reading \in [Readers -> Reads] /\ \A r \in Readers : reading[r].pc = "none"
    BY DEF GateInit, Reads, NoRead
  <2>3. ticket \in [Readers -> {"none"}]
    BY DEF GateInit
  <2>4. \A r \in Readers : (ticket[r] = "none") <=> (reading[r].pc \in {"none", "cut"})
    BY <2>2, <2>3
  <2>5. attempt \in 0..Rearms
    BY GateAssumption DEF GateInit
  <2>6. ticket \in [Readers -> {"none", "current", "stale"}] /\ reading \in [Readers -> Reads]
    BY <2>2, <2>3
  <2> QED BY <2>1, <2>4, <2>5, <2>6, <2>7 DEF GateInit, GateTypeOK
<1>3. Handles /\ LastWord /\ LossTold /\ StreamIsTrue
  BY DEF GateInit, Handles, LastWord, LossTold, StreamIsTrue, Fed
<1>4. AnswersHold /\ CacheHolds
  BY DEF GateInit, AnswersHold, CacheHolds, Fed
<1> QED BY <1>2, <1>3, <1>4 DEF GateInv

-----------------------------------------------------------------------------
LEMMA LetGoIs ==
    ASSUME LetGo
    PROVE  /\ sub' = "none" /\ events' = <<>> /\ before' = 0 /\ config' = config
           /\ Kept \/ Gone
  BY DEF LetGo

\* A client that stays or goes leaves the last report the word on the link.
LEMMA ClientIs ==
    ASSUME Kept \/ Gone, GateTypeOK
    PROVE  /\ watcher' \in {"none", "blind", "seeing"} /\ link' \in {"held", "armed", "lost"}
           /\ reports' \in Seq({"armed", "lost"})
           /\ UNCHANGED <<reports, link>> \/ reports' = <<>>
<1>1. <<>> \in Seq({"armed", "lost"})
  OBVIOUS
<1> QED BY <1>1 DEF Kept, Gone, GateTypeOK

LEMMA AgainIs ==
    ASSUME Again, attempt \in 0..Rearms
    PROVE  /\ feed' \in {"arm", "done"} /\ attempt' \in 0..Rearms
  BY GateAssumption DEF Again

LEMMA WatchIs ==
    ASSUME Watch, attempt \in 0..Rearms
    PROVE  /\ attempt' \in 0..Rearms
           /\ NoStatusChannel \/ UNCHANGED cacheVars
           /\ \/ feed = "off" /\ feed' = "arm"
              \/ feed' = feed
  BY GateAssumption DEF Watch, cacheVars

ConfigStep == WatchConfig \/ ConfigEnds

\* The steps that leave the reads and the modes alone.
LEMMA FeedTypes ==
    ASSUME GateTypeOK, FeedStep \/ Start \/ ConfigStep \/ Report
           \/ LinkUp \/ LinkLost \/ Abandon
    PROVE  GateTypeOK'
<1> USE DEF GateTypeOK
<1>1. CacheTypeOK
  BY DEF CacheTypeOK
<1>2. <<>> \in Seq(Events) /\ 0 \in 0..Len(<<>>) /\ Len(events) \in Nat
  OBVIOUS
<1>3. ASSUME CacheTypeOK', \A r \in Readers : ticket'[r] = "none" <=> ticket[r] = "none",
             UNCHANGED <<mode, reading, channel>>,
             feed' \in {"off", "arm", "subscribe", "raise", "replay", "listen", "drop", "done"},
             attempt' \in 0..Rearms, watcher' \in {"none", "blind", "seeing"},
             link' \in {"held", "armed", "lost"}, config' \in BOOLEAN,
             sub' \in {"none", "on", "ended"},
             events' \in Seq(Events), before' \in 0..Len(events'),
             reports' \in Seq({"armed", "lost"})
      PROVE  GateTypeOK'
  BY <1>3 DEF CacheTypeOK
<1>4. CASE Install
  <2>1. FeedDead \/ UNCHANGED cacheVars
    BY <1>4 DEF Install
  <2> QED BY <1>1, <1>3, <1>4, <2>1, CacheTypes DEF Install, netVars
<1>5. CASE Subscribe
  BY <1>1, <1>2, <1>3, <1>5, CacheTypes DEF Subscribe
<1>20. ASSUME LetGo
       PROVE  /\ watcher' \in {"none", "blind", "seeing"} /\ link' \in {"held", "armed", "lost"}
              /\ config' \in BOOLEAN /\ sub' \in {"none", "on", "ended"}
              /\ events' \in Seq(Events) /\ before' \in 0..Len(events')
              /\ reports' \in Seq({"armed", "lost"})
  BY <1>2, <1>20, LetGoIs, ClientIs
<1>6. CASE ArmFails
  BY <1>1, <1>3, <1>6, <1>20, CacheTypes, AgainIs DEF ArmFails
<1>7. CASE RaiseFlag
  BY <1>1, <1>3, <1>7, CacheTypes DEF RaiseFlag, netVars
<1>8. CASE Replay
  <2>1. FeedLive \/ FeedDead \/ UNCHANGED cacheVars
    BY <1>8, HearKinds DEF Replay
  <2> QED BY <1>1, <1>3, <1>8, <2>1, CacheTypes DEF Replay, netVars
<1>9. CASE Receive
  <2>1. /\ Head(events) \in Events /\ Tail(events) \in Seq(Events)
        /\ Len(events) \in Nat \ {0} /\ Len(Tail(events)) = Len(events) - 1
    BY <1>9 DEF Receive
  <2>2. Head(events) # Garbled => Head(events).chain \in Chains /\ Head(events).mode \in Modes
    BY <2>1, EventIs
  <2>6. (before > 0) \in BOOLEAN
    OBVIOUS
  <2>7. Head(events) = Garbled \/ Told(Head(events).chain, Head(events).mode, before > 0)
    BY <1>9 DEF Receive
  <2>8. Head(events) = Garbled => FeedDead
    BY <1>9 DEF Receive
  <2>3. FeedDead \/ \E c \in Chains, m \in Modes, old \in BOOLEAN : Told(c, m, old)
    BY <2>2, <2>6, <2>7, <2>8
  <2>4. CacheTypeOK' /\ \A r \in Readers : ticket'[r] = "none" <=> ticket[r] = "none"
    BY <1>1, <2>3, CacheTypes
  <2>5. events' \in Seq(Events) /\ before' \in 0..Len(events')
    BY <1>9, <2>1 DEF Receive
  <2> QED BY <1>3, <1>9, <2>4, <2>5 DEF Receive
<1>10. CASE StreamEnds
  BY <1>1, <1>3, <1>10, <1>20, CacheTypes DEF StreamEnds
<1>11. CASE Drop
  BY <1>1, <1>3, <1>11, CacheTypes, AgainIs DEF Drop, netVars
<1>12. CASE Release
  BY <1>1, <1>3, <1>12, <1>20, CacheTypes DEF Release
<1>13. CASE Start
  BY <1>1, <1>3, <1>13, CacheTypes, WatchIs DEF Start, netVars
<1>14. CASE Report
  <2>1. FeedLive \/ FeedDead \/ UNCHANGED cacheVars
    BY <1>14, HearKinds DEF Report
  <2>2. reports' \in Seq({"armed", "lost"})
    BY <1>14 DEF Report
  <2> QED BY <1>1, <1>3, <1>14, <2>1, <2>2, CacheTypes DEF Report, feedVars
<1>15. CASE LinkUp \/ LinkLost \/ Abandon
  <2>1. \E l \in {"armed", "lost"} : link' = l /\ reports' = Append(reports, l)
    BY <1>15 DEF LinkUp, LinkLost, Abandon, Becomes
  <2>2. reports' \in Seq({"armed", "lost"}) /\ link' \in {"held", "armed", "lost"}
    BY <2>1
  <2>3. /\ UNCHANGED <<cacheVars, feedVars, mode, config, events, reading, channel>>
        /\ sub' \in {sub, "ended"} /\ before' \in {before, Len(events)}
    BY <1>15 DEF LinkUp, LinkLost, Abandon
  <2>4. before' \in 0..Len(events')
    BY <1>2, <2>3
  <2> QED BY <1>1, <1>3, <2>2, <2>3, <2>4, CacheTypes DEF feedVars
<1>16. CASE WatchConfig
  BY <1>1, <1>3, <1>16, CacheTypes DEF WatchConfig, feedVars
<1>17. CASE ConfigEnds
  <2>1. Kept \/ Gone
    BY <1>17 DEF ConfigEnds
  <2> QED BY <1>1, <1>3, <1>17, <2>1, ClientIs, CacheTypes DEF ConfigEnds
<1> QED BY <1>4, <1>5, <1>6, <1>7, <1>8, <1>9, <1>10, <1>11, <1>12, <1>13, <1>14, <1>15,
           <1>16, <1>17
        DEF FeedStep, ConfigStep

\* A read is what its step says.
LEMMA ReadIs ==
    ASSUME NEW x \in Reads
    PROVE  /\ x.pc \in {"none", "cut", "out", "back"}
           /\ x.pc # "none" => x.chain \in Chains
           /\ x.pc = "back" => x.mode \in Modes \cup {"unknown"}
           /\ x.pc = "cut" => [x EXCEPT !.pc = "out"] \in [pc : {"cut", "out"}, chain : Chains]
  BY DEF Reads, NoRead

LEMMA ReadTypes ==
    ASSUME GateTypeOK, NEW r \in Readers,
           (\E c \in Chains : Probe(r, c)) \/ Cut(r) \/ Answer(r) \/ Learn(r)
    PROVE  GateTypeOK'
<1> USE DEF GateTypeOK
<1>1. CacheTypeOK
  BY DEF CacheTypeOK
<1>2. CASE \E c \in Chains : Probe(r, c)
  <2>1. PICK c \in Chains : Probe(r, c)
    BY <1>2
  <2>2. reading' = [reading EXCEPT ![r] = [pc |-> "cut", chain |-> c]] /\ reading[r].pc = "none"
    BY <2>1 DEF Probe, NoRead
  <2>3. /\ reading' \in [Readers -> Reads]
        /\ \A q \in Readers : reading'[q].pc \in {"none", "cut"} <=> reading[q].pc \in {"none", "cut"}
    BY <2>2 DEF Reads
  <2>4. /\ NoStatusChannel \/ UNCHANGED cacheVars
        /\ UNCHANGED <<watcher, netVars, channel>> /\ attempt' \in 0..Rearms
        /\ feed' = feed \/ feed' = "arm"
    BY <2>1, WatchIs DEF Probe
  <2>5. CacheTypeOK' /\ \A q \in Readers : ticket'[q] = "none" <=> ticket[q] = "none"
    BY <1>1, <2>4, CacheTypes
  <2> QED BY <2>3, <2>4, <2>5 DEF CacheTypeOK, netVars
<1>3. CASE Cut(r)
  <2>1. reading[r] \in Reads /\ reading[r].pc = "cut"
    BY <1>3 DEF Cut
  <2>2. [reading[r] EXCEPT !.pc = "out"] \in Reads
    BY <2>1, ReadIs DEF Reads
  <2>3. [reading[r] EXCEPT !.pc = "out"].pc = "out"
    BY <2>1 DEF Reads, NoRead
  <2>4. reading' \in [Readers -> Reads] /\ reading'[r].pc = "out"
    BY <1>3, <2>2, <2>3 DEF Cut
  <2>5. \A q \in Readers : q # r => reading'[q] = reading[q] /\ ticket'[q] = ticket[q]
    BY <1>3 DEF Cut
  <2>6. ticket' \in [Readers -> {"none", "current", "stale"}] /\ ticket'[r] = "current"
    BY <1>3 DEF Cut
  <2> QED BY <1>3, <2>4, <2>5, <2>6 DEF Cut, feedVars, netVars
<1>4. CASE Answer(r)
  <2>1. reading[r] \in Reads /\ reading[r].pc = "out"
    BY <1>4 DEF Answer
  <2>2. PICK m \in {mode[reading[r].chain], "unknown"} :
            reading' = [reading EXCEPT ![r] = [pc |-> "back", chain |-> @.chain, mode |-> m]]
    BY <1>4 DEF Answer
  <2>3. reading[r].chain \in Chains
    BY <2>1, ReadIs
  <2>9. m \in Modes \cup {"unknown"}
    BY <2>2, <2>3
  <2>4. [pc |-> "back", chain |-> reading[r].chain, mode |-> m] \in Reads
    BY <2>3, <2>9 DEF Reads
  <2>5. reading' \in [Readers -> Reads] /\ reading'[r].pc = "back"
    BY <2>2, <2>4
  <2>6. \A q \in Readers : q # r => reading'[q] = reading[q]
    BY <2>2
  <2>7. UNCHANGED <<cacheVars, feedVars, netVars, channel>>
    BY <1>4 DEF Answer
  <2>8. \A q \in Readers : (ticket[q] = "none") <=> (reading'[q].pc \in {"none", "cut"})
    BY <2>1, <2>5, <2>6
  <2> QED BY <2>5, <2>7, <2>8 DEF cacheVars, feedVars, netVars
<1>5. CASE Learn(r)
  <2>1. reading[r] \in Reads /\ reading[r].pc = "back"
    BY <1>5 DEF Learn
  <2>2. reading[r].chain \in Chains
    BY <2>1, ReadIs
  <2>3. off' \subseteq Chains /\ late' \subseteq off' /\ UNCHANGED <<live, cold>>
    BY <1>5, <2>2 DEF Learn, Learned, Lands, Apply
  <2>4. NoRead \in Reads /\ NoRead.pc = "none"
    BY DEF Reads, NoRead
  <2>5. reading' = [reading EXCEPT ![r] = NoRead] /\ ticket' = [ticket EXCEPT ![r] = "none"]
    BY <1>5 DEF Learn
  <2>6. reading' \in [Readers -> Reads] /\ ticket' \in [Readers -> {"none", "current", "stale"}]
    BY <2>4, <2>5
  <2>7. reading'[r].pc = "none" /\ ticket'[r] = "none"
    BY <2>4, <2>5
  <2>8. \A q \in Readers : q # r => reading'[q] = reading[q] /\ ticket'[q] = ticket[q]
    BY <2>5
  <2>9. \A q \in Readers : (ticket'[q] = "none") <=> (reading'[q].pc \in {"none", "cut"})
    BY <2>7, <2>8
  <2>10. UNCHANGED <<feedVars, netVars, channel>>
    BY <1>5 DEF Learn
  <2> QED BY <2>3, <2>6, <2>9, <2>10 DEF feedVars, netVars
<1> QED BY <1>2, <1>3, <1>4, <1>5

LEMMA ModeTypes ==
    ASSUME GateTypeOK, NEW c \in Chains,
           Invalidate(c) \/ \E m \in Modes : Move(c, m)
    PROVE  GateTypeOK'
<1> USE DEF GateTypeOK
<1>1. CASE Invalidate(c)
  <2>1. off' \subseteq Chains /\ late' \subseteq off'
    BY <1>1 DEF Invalidate
  <2> QED BY <1>1, <2>1, BumpTypes DEF Invalidate, feedVars, netVars
<1>2. CASE \E m \in Modes : Move(c, m)
  <2>1. PICK m \in Modes : Move(c, m)
    BY <1>2
  <2>2. mode' \in [Chains -> Modes]
    BY <2>1 DEF Move
  <2>3. \A e \in Events : Append(events, e) \in Seq(Events) /\ Len(Append(events, e)) = Len(events) + 1
    OBVIOUS
  <2>4. Published(c, m) \subseteq Events
    BY DEF Events, Published
  <2>5. events' = events \/ \E e \in Events : events' = Append(events, e)
    BY <2>1, <2>4 DEF Move
  <2>6. events' \in Seq(Events) /\ before \in 0..Len(events')
    <3>1. Len(events) \in Nat
      OBVIOUS
    <3>2. events \in Seq(Events) /\ before \in 0..Len(events)
      OBVIOUS
    <3>3. CASE events' = events
      BY <3>2, <3>3
    <3>4. ASSUME NEW e \in Events, events' = Append(events, e)
          PROVE  events' \in Seq(Events) /\ Len(events') = Len(events) + 1
      BY <2>3, <3>4
    <3>5. CASE \E e \in Events : events' = Append(events, e)
      <4>1. events' \in Seq(Events) /\ Len(events') = Len(events) + 1
        BY <3>4, <3>5
      <4> QED BY <4>1, <3>1, <3>2
    <3> QED BY <2>5, <3>3, <3>5
  <2> QED BY <2>1, <2>2, <2>6 DEF Move, cacheVars, feedVars
<1> QED BY <1>1, <1>2

LEMMA TypesKept == ASSUME GateTypeOK, [GateNext]_gateVars PROVE GateTypeOK'
<1>1. CASE UNCHANGED gateVars
  BY <1>1 DEF GateTypeOK, gateVars, cacheVars, feedVars, netVars
<1>2. CASE GateNext
  BY <1>2, FeedTypes, ReadTypes, ModeTypes DEF GateNext, ConfigStep
<1> QED BY <1>1, <1>2

-----------------------------------------------------------------------------
(* The handles and the reports                                             *)

\* What the reads and the modes leave alone.
QuietStep ==
    \/ \E r \in Readers : Cut(r) \/ Answer(r) \/ Learn(r)
    \/ \E c \in Chains : Invalidate(c)

Watching == Start \/ \E r \in Readers, c \in Chains : Probe(r, c)
ModeMoves == \E c \in Chains, m \in Modes : Move(c, m)

LEMMA QuietIs ==
    ASSUME QuietStep
    PROVE  UNCHANGED <<live, feed, watcher, channel, mode, link, config, sub, events, before,
                       reports>>
<1>1. CASE \E r \in Readers : Cut(r)
  BY <1>1 DEF Cut, feedVars, netVars
<1>2. CASE \E r \in Readers : Answer(r)
  BY <1>2 DEF Answer, cacheVars, feedVars, netVars
<1>3. CASE \E r \in Readers : Learn(r)
  BY <1>3 DEF Learn, Learned, feedVars, netVars
<1>4. CASE \E c \in Chains : Invalidate(c)
  BY <1>4 DEF Invalidate, feedVars, netVars
<1> QED BY <1>1, <1>2, <1>3, <1>4 DEF QuietStep

LEMMA StepsAre ==
    ASSUME GateNext
    PROVE  \/ FeedStep \/ Watching \/ ConfigStep \/ QuietStep \/ ModeMoves
           \/ LinkUp \/ LinkLost \/ Abandon \/ Report
  BY DEF GateNext, QuietStep, Watching, ModeMoves, ConfigStep

LEMMA WatchingIs ==
    ASSUME GateTypeOK, Watching
    PROVE  /\ UNCHANGED <<watcher, netVars, channel>>
           /\ \/ feed = "off" /\ feed' = "arm"
              \/ feed' = feed /\ UNCHANGED cacheVars
           /\ live' = FALSE \/ UNCHANGED cacheVars
<1>1. Watch /\ UNCHANGED <<watcher, netVars, channel>>
  BY DEF Watching, Start, Probe
<1> QED BY <1>1 DEF Watch, NoStatusChannel

\* The client, and all it holds, stays while the feed thread has a handle.
LEMMA ConfigIs ==
    ASSUME ConfigStep
    PROVE  /\ UNCHANGED <<cacheVars, feed, attempt, mode, sub, events, before, reading, channel>>
           /\ Kept \/ (Gone /\ ~Holds)
<1>1. CASE WatchConfig
  BY <1>1 DEF WatchConfig, feedVars, Kept
<1>2. CASE ConfigEnds
  BY <1>2 DEF ConfigEnds
<1> QED BY <1>1, <1>2 DEF ConfigStep

LEMMA LinkMoves ==
    ASSUME LinkUp \/ LinkLost \/ Abandon
    PROVE  /\ \E l \in {"armed", "lost"} : Becomes(l) /\ (l = "armed" => LinkUp)
           /\ UNCHANGED <<cacheVars, feedVars, mode, config, events, reading, channel>>
           /\ sub' = sub \/ (Abandon /\ sub' = "ended")
           /\ before' = before \/ LinkUp
  BY DEF LinkUp, LinkLost, Abandon

\* An event that can be read sets or clears its chain; another ends the feed.
LEMMA ReceiveIs ==
    ASSUME Receive, GateTypeOK
    PROVE  /\ Head(events) \in Events
           /\ feed = "listen" /\ events # <<>> /\ events' = Tail(events)
           /\ UNCHANGED <<attempt, watcher, mode, link, config, sub, reports, reading, channel>>
           /\ \/ Head(events) = Garbled /\ FeedDead /\ feed' = "done"
              \/ /\ Head(events) # Garbled /\ feed' = feed
                 /\ Told(Head(events).chain, Head(events).mode, before > 0)
<1>1. Head(events) \in Events
  BY DEF Receive, GateTypeOK
<1> QED BY <1>1 DEF Receive

LEMMA HandlesKept ==
    ASSUME GateTypeOK, Handles, GateNext
    PROVE  Handles'
<1> USE DEF GateTypeOK, Handles, Fed
<1>1. CASE Install \/ Subscribe
  BY <1>1 DEF Install, Subscribe, FeedDead, cacheVars, netVars
<1>2. CASE ArmFails
  BY <1>2, LetGoIs, AgainIs DEF ArmFails, FeedDead
<1>3. CASE RaiseFlag
  BY <1>3 DEF RaiseFlag, cacheVars, netVars
<1>4. CASE Replay
  <2>1. live' => channel
    BY <1>4 DEF Replay, Hear, FeedLive, FeedDead, cacheVars
  <2> QED BY <1>4, <2>1 DEF Replay, netVars
<1>5. CASE Receive
  <2>1. /\ feed = "listen" /\ feed' \in {"listen", "done"}
        /\ UNCHANGED <<watcher, sub, channel>>
    BY <1>5, ReceiveIs
  <2>2. UNCHANGED live \/ (live' = FALSE /\ channel' = channel)
    BY <1>5 DEF Receive, Told, FeedDead
  <2> QED BY <2>1, <2>2
<1>6. CASE StreamEnds
  BY <1>6, LetGoIs DEF StreamEnds, cacheVars
<1>7. CASE Drop
  BY <1>7, AgainIs DEF Drop, FeedDead, netVars
<1>8. CASE Release
  BY <1>8, LetGoIs DEF Release, cacheVars
<1>9. CASE Watching
  <2>1. UNCHANGED <<watcher, channel, sub, events>>
    BY <1>9, WatchingIs DEF netVars
  <2>2. \/ feed = "off" /\ feed' = "arm"
        \/ feed' = feed /\ live' = live
    BY <1>9, WatchingIs DEF cacheVars
  <2>3. live' = FALSE \/ live' = live
    BY <1>9, WatchingIs DEF cacheVars
  <2> QED BY <2>1, <2>2, <2>3
<1>10. CASE QuietStep
  BY <1>10, QuietIs
<1>11. CASE ModeMoves
  <2>1. UNCHANGED <<live, feed, watcher, channel, sub>>
    BY <1>11 DEF ModeMoves, Move, cacheVars, feedVars
  <2>2. sub = "none" => events' = events
    BY <1>11 DEF ModeMoves, Move, Hears
  <2> QED BY <2>1, <2>2
<1>12. CASE LinkUp \/ LinkLost \/ Abandon
  <2>1. UNCHANGED <<live, feed, watcher, events, channel>>
    BY <1>12, LinkMoves DEF cacheVars, feedVars
  <2>2. sub' = sub \/ (sub = "on" /\ sub' = "ended")
    BY <1>12 DEF LinkUp, LinkLost, Abandon
  <2> QED BY <2>1, <2>2
<1>13. CASE Report
  <2>1. UNCHANGED <<feed, watcher, sub, events, channel>>
    BY <1>13 DEF Report, feedVars
  <2>2. live' => live \/ (watcher = "seeing" /\ channel)
    BY <1>13 DEF Report, Hear, FeedLive, FeedDead, cacheVars
  <2> QED BY <2>1, <2>2
<1>14. CASE ConfigStep
  <2>1. UNCHANGED <<live, feed, sub, events, channel>>
    BY <1>14, ConfigIs DEF cacheVars
  <2>2. Holds => watcher' = watcher
    BY <1>14, ConfigIs DEF Kept
  <2> QED BY <2>1, <2>2 DEF Holds
<1> QED BY <1>1, <1>2, <1>3, <1>4, <1>5, <1>6, <1>7, <1>8, <1>9, <1>10, <1>11, <1>12, <1>13,
           <1>14, StepsAre DEF FeedStep

LEMMA BecomesIs ==
    ASSUME NEW l \in {"armed", "lost"}, Becomes(l), reports \in Seq({"armed", "lost"})
    PROVE  /\ link' = l
           /\ reports' # <<>> /\ Len(reports') \in DOMAIN reports' /\ reports'[Len(reports')] = l
           /\ \A i \in DOMAIN reports : i \in DOMAIN reports' /\ reports'[i] = reports[i]
<1>1. reports' = Append(reports, l) /\ link' = l
  BY DEF Becomes
<1>2. Len(reports') = Len(reports) + 1 /\ Len(reports) \in Nat
  BY <1>1
<1>3. DOMAIN reports' = 1..Len(reports') /\ DOMAIN reports = 1..Len(reports)
  BY <1>1
<1>4. reports'[Len(reports')] = l
  BY <1>1, <1>2
<1>5. \A i \in 1..Len(reports) : reports'[i] = reports[i]
  BY <1>1
<1>6. reports' # <<>>
  BY <1>1, <1>2
<1> QED BY <1>1, <1>2, <1>3, <1>4, <1>5, <1>6

LEMMA TailIs ==
    ASSUME NEW S, NEW s \in Seq(S), s # <<>>
    PROVE  /\ Tail(s) \in Seq(S) /\ Head(s) = s[1] /\ s[1] \in S
           /\ Len(s) \in Nat \ {0} /\ Len(Tail(s)) = Len(s) - 1
           /\ DOMAIN s = 1..Len(s) /\ DOMAIN Tail(s) = 1..(Len(s) - 1)
           /\ \A i \in 1..(Len(s) - 1) : Tail(s)[i] = s[i + 1]
  OBVIOUS

\* How the link and its reports move.
LEMMA ReportsMove ==
    ASSUME GateTypeOK, GateNext
    PROVE  \/ UNCHANGED <<reports, link>>
           \/ reports' = <<>>
           \/ Report
           \/ LinkUp \/ LinkLost \/ Abandon
<1>1. CASE FeedStep
  <2>1. CASE Receive
    BY <2>1, ReceiveIs
  <2>2. CASE ArmFails \/ StreamEnds \/ Release
    BY <2>2, LetGoIs, ClientIs DEF ArmFails, StreamEnds, Release
  <2>3. CASE Install \/ Subscribe \/ RaiseFlag \/ Replay \/ Drop
    BY <2>3 DEF Install, Subscribe, RaiseFlag, Replay, Drop, netVars
  <2> QED BY <1>1, <2>1, <2>2, <2>3 DEF FeedStep
<1>2. CASE Watching
  BY <1>2, WatchingIs DEF netVars
<1>3. CASE QuietStep
  BY <1>3, QuietIs
<1>4. CASE ModeMoves
  BY <1>4 DEF ModeMoves, Move
<1>5. CASE ConfigStep
  BY <1>5, ConfigIs, ClientIs
<1> QED BY <1>1, <1>2, <1>3, <1>4, <1>5, StepsAre

LEMMA LastWordKept ==
    ASSUME GateTypeOK, LastWord, GateNext
    PROVE  LastWord'
<1>1. CASE UNCHANGED <<reports, link>> \/ reports' = <<>>
  BY <1>1 DEF LastWord
<1>2. CASE Report
  <2>1. reports # <<>> /\ reports' = Tail(reports) /\ link' = link
    BY <1>2 DEF Report
  <2>2. reports \in Seq({"armed", "lost"})
    BY DEF GateTypeOK
  <2>3. SUFFICES ASSUME reports' # <<>> PROVE reports'[Len(reports')] = link
    BY <2>1 DEF LastWord
  <2>4. Len(reports') = Len(reports) - 1 /\ Len(reports) - 1 \in Nat /\ Len(reports) - 1 # 0
    BY <2>1, <2>2, <2>3
  <2>5. reports'[Len(reports')] = reports[Len(reports)]
    BY <2>1, <2>2, <2>4, TailIs
  <2> QED BY <2>1, <2>5 DEF LastWord
<1>3. CASE LinkUp \/ LinkLost \/ Abandon
  BY <1>3, LinkMoves, BecomesIs DEF GateTypeOK, LastWord
<1> QED BY <1>1, <1>2, <1>3, ReportsMove

-----------------------------------------------------------------------------
(* A live cache                                                            *)

\* What leaves a live cache of a fed thread alive, but the taking of an event.
Harmless ==
    \/ Replay /\ UNCHANGED cacheVars
    \/ Watching /\ UNCHANGED <<cacheVars, netVars, feed>>
    \/ ConfigStep /\ Kept
    \/ QuietStep \/ ModeMoves \/ LinkUp \/ LinkLost \/ Abandon

\* A cache comes alive under a thread that is fed on an armed link, by the watcher or
\* by the replay; a step that leaves it alive is none of those that close it.
LEMMA ComesAlive ==
    ASSUME GateTypeOK, Handles, GateNext, live', Fed'
    PROVE  \/ FeedLive /\ ((Report /\ Head(reports) = "armed") \/ (Replay /\ link = "armed"))
           \/ /\ live /\ Fed
              /\ Harmless \/ Receive
<1> USE DEF GateTypeOK, Handles, Fed
<1>1. CASE FeedStep
  <2>1. ~Install /\ ~Subscribe
    BY DEF Install, Subscribe
  <2>2. ~ArmFails /\ ~Drop /\ ~StreamEnds /\ ~Release
    BY AgainIs DEF ArmFails, Drop, StreamEnds, Release
  <2>3. ~RaiseFlag
    BY DEF RaiseFlag, cacheVars
  <2>4. ASSUME Replay, ~UNCHANGED cacheVars PROVE FeedLive /\ link = "armed"
    BY <2>4 DEF Replay, Hear, FeedDead
  <2>5. Receive => live
    BY ReceiveIs DEF Told, FeedDead
  <2>6. Replay /\ UNCHANGED cacheVars => live
    BY DEF cacheVars
  <2>7. Replay \/ Receive => Fed
    BY DEF Replay, Receive
  <2> QED BY <1>1, <2>1, <2>2, <2>3, <2>4, <2>5, <2>6, <2>7 DEF FeedStep, Harmless
<1>2. CASE Report
  <2>1. Hear(Head(reports)) /\ reports # <<>> /\ feed' = feed /\ watcher = "seeing"
    BY <1>2 DEF Report, feedVars
  <2>2. ASSUME UNCHANGED cacheVars PROVE channel
    BY <2>1, <2>2 DEF cacheVars
  <2>3. CASE channel
    <3>1. CASE Head(reports) = "armed"
      <4>1. FeedLive
        BY <2>1, <2>3, <3>1 DEF Hear
      <4> QED BY <1>2, <3>1, <4>1
    <3>2. CASE Head(reports) # "armed"
      <4>1. FeedDead
        BY <2>1, <2>3, <3>2 DEF Hear
      <4> QED BY <4>1 DEF FeedDead
    <3> QED BY <3>1, <3>2
  <2>4. CASE ~channel
    BY <2>1, <2>2, <2>4 DEF Hear, FeedDead
  <2> QED BY <2>3, <2>4
<1>3. CASE Watching
  <2>1. feed' = feed /\ UNCHANGED <<cacheVars, netVars>>
    BY <1>3, WatchingIs
  <2> QED BY <1>3, <2>1 DEF cacheVars, Harmless
<1>4. CASE QuietStep
  BY <1>4, QuietIs DEF Harmless
<1>5. CASE ModeMoves
  BY <1>5 DEF ModeMoves, Move, cacheVars, feedVars, Harmless
<1>6. CASE LinkUp \/ LinkLost \/ Abandon
  BY <1>6, LinkMoves DEF cacheVars, feedVars, Harmless
<1>7. CASE ConfigStep
  <2>1. UNCHANGED <<live, feed>>
    BY <1>7, ConfigIs DEF cacheVars
  <2>2. Kept
    BY <1>7, <2>1, ConfigIs DEF Holds
  <2> QED BY <1>7, <2>1, <2>2 DEF Harmless
<1> QED BY <1>1, <1>2, <1>3, <1>4, <1>5, <1>6, <1>7, StepsAre

LEMMA LossKept ==
    ASSUME GateTypeOK, Handles, LastWord, LossTold, GateNext
    PROVE  LossTold'
<1> SUFFICES ASSUME live', Fed', link' # "armed"
             PROVE  \E i \in DOMAIN reports' : reports'[i] = "lost"
  BY DEF LossTold
<1>1. CASE FeedLive /\ Report /\ Head(reports) = "armed"
  <2>1. reports # <<>> /\ reports' = Tail(reports) /\ link' = link
    BY <1>1 DEF Report
  <2>2. reports \in Seq({"armed", "lost"})
    BY DEF GateTypeOK
  <2>3. reports[Len(reports)] = link /\ reports[Len(reports)] \in {"armed", "lost"}
    BY <2>1, <2>2, TailIs DEF LastWord
  <2>4. reports[Len(reports)] = "lost" /\ reports[1] = "armed"
    BY <1>1, <2>1, <2>2, <2>3, TailIs
  <2>5. Len(reports) - 1 \in 1..(Len(reports) - 1)
    BY <2>1, <2>2, <2>4, TailIs
  <2>6. Len(reports) - 1 \in DOMAIN reports' /\ reports'[Len(reports) - 1] = reports[Len(reports)]
    BY <2>1, <2>2, <2>5, TailIs
  <2> QED BY <2>4, <2>6
<1>2. CASE LinkUp \/ LinkLost \/ Abandon
  BY <1>2, LinkMoves, BecomesIs DEF GateTypeOK
<1>3. CASE /\ live /\ Fed
           /\ UNCHANGED <<reports, link>>
  BY <1>3 DEF LossTold
<1>4. CASE FeedLive /\ Replay /\ link = "armed"
  BY <1>4 DEF Replay, netVars
<1>5. CASE live /\ Fed /\ Receive
  BY <1>3, <1>5, ReceiveIs
<1>6. CASE live /\ Fed /\ Harmless
  BY <1>2, <1>3, <1>6, QuietIs DEF Harmless, ModeMoves, Move, Replay, netVars, Kept
<1> QED BY <1>1, <1>4, <1>5, <1>6, ComesAlive

-----------------------------------------------------------------------------
(* The stream                                                              *)

LEMMA AppendIs ==
    ASSUME NEW S, NEW s \in Seq(S), NEW e \in S
    PROVE  /\ Append(s, e) \in Seq(S)
           /\ Len(s) \in Nat
           /\ DOMAIN s = 1..Len(s) /\ DOMAIN Append(s, e) = 1..(Len(s) + 1)
           /\ Append(s, e)[Len(s) + 1] = e
           /\ \A i \in 1..Len(s) : Append(s, e)[i] = s[i]
  OBVIOUS

\* What a mode's move does to the modes and the stream.
LEMMA MoveIs ==
    ASSUME GateTypeOK, NEW c \in Chains, NEW m \in Modes, Move(c, m)
    PROVE  /\ mode'[c] = m /\ \A d \in Chains : d # c => mode'[d] = mode[d]
           /\ IF sub = "on" /\ link = "armed"
              THEN \E e \in Events : /\ e = Garbled \/ (e.chain = c /\ e.mode = m)
                                     /\ events' = Append(events, e)
              ELSE events' = events
           /\ UNCHANGED <<cacheVars, feedVars, link, config, sub, before, reports, reading, channel>>
<1>1. mode \in [Chains -> Modes]
  BY DEF GateTypeOK
<1>2. mode'[c] = m /\ \A d \in Chains : d # c => mode'[d] = mode[d]
  BY <1>1 DEF Move
<1>3. \A e \in Published(c, m) : e \in Events /\ (e = Garbled \/ (e.chain = c /\ e.mode = m))
  BY DEF Published, Events
<1>4. IF sub = "on" /\ link = "armed"
      THEN \E e \in Published(c, m) : events' = Append(events, e)
      ELSE events' = events
  BY DEF Move, Hears
<1> QED BY <1>2, <1>3, <1>4 DEF Move

\* How the stream and its standing move.
LEMMA StreamMoves ==
    ASSUME GateTypeOK, Handles, GateNext
    PROVE  \/ events' = <<>>
           \/ Receive
           \/ ModeMoves
           \/ UNCHANGED <<events, mode>> /\ (sub' # "on" \/ link' # "armed")
           \/ UNCHANGED <<events, mode, sub, link, before>>
           \/ UNCHANGED <<events, mode>> /\ before' = Len(events)
<1>1. CASE FeedStep
  <2>1. CASE ArmFails \/ StreamEnds \/ Release
    BY <2>1, LetGoIs DEF ArmFails, StreamEnds, Release
  <2>2. CASE Install \/ RaiseFlag \/ Replay \/ Drop
    BY <2>2 DEF Install, RaiseFlag, Replay, Drop, netVars
  <2>3. CASE Subscribe
    BY <2>3 DEF Subscribe
  <2> QED BY <1>1, <2>1, <2>2, <2>3 DEF FeedStep
<1>2. CASE Watching
  BY <1>2, WatchingIs DEF netVars
<1>3. CASE QuietStep
  BY <1>3, QuietIs
<1>4. CASE LinkUp
  BY <1>4 DEF LinkUp
<1>5. CASE LinkLost \/ Abandon
  BY <1>5 DEF LinkLost, Abandon, Becomes
<1>6. CASE Report
  BY <1>6 DEF Report
<1>7. CASE ConfigStep
  BY <1>7, ConfigIs DEF Kept, Gone
<1> QED BY <1>1, <1>2, <1>3, <1>4, <1>5, <1>6, <1>7, StepsAre

LEMMA StreamKept ==
    ASSUME GateTypeOK, Handles, StreamIsTrue, GateNext
    PROVE  StreamIsTrue'
<1>1. events \in Seq(Events) /\ before \in Nat /\ Len(events) \in Nat
  BY DEF GateTypeOK
<1>2. CASE events' = <<>>
  BY <1>2 DEF StreamIsTrue, EndsTrue
<1>3. CASE UNCHANGED <<events, mode>> /\ (sub' # "on" \/ link' # "armed")
  BY <1>3 DEF StreamIsTrue
<1>4. CASE UNCHANGED <<events, mode, sub, link, before>>
  BY <1>4 DEF StreamIsTrue, EndsTrue, Follows
<1>5. CASE UNCHANGED <<events, mode>> /\ before' = Len(events)
  <2>1. \A i \in DOMAIN events' : ~(i > before')
    BY <1>1, <1>5
  <2> QED BY <2>1 DEF StreamIsTrue, EndsTrue
<1>6. CASE Receive
  <2>1. events # <<>> /\ events' = Tail(events) /\ UNCHANGED <<mode, sub, link>>
    BY <1>6, ReceiveIs
  <2>2. before' = IF before = 0 THEN 0 ELSE before - 1
    BY <1>6 DEF Receive
  <2>3. ASSUME EndsTrue, NEW i \in DOMAIN events', i > before', events'[i] # Garbled
        PROVE  Follows(i)'
    <3>1. i \in 1..(Len(events) - 1) /\ Len(events) \in Nat \ {0}
      BY <1>1, <2>1, <2>3, TailIs
    <3>2. i + 1 \in DOMAIN events /\ events'[i] = events[i + 1]
      BY <1>1, <2>1, <3>1, TailIs
    <3>3. i + 1 > before
      BY <1>1, <2>2, <2>3, <3>1
    <3>4. PICK j \in DOMAIN events : /\ i + 1 <= j
                                     /\ \/ events[j] = Garbled
                                        \/ /\ events[j].chain = events[i + 1].chain
                                           /\ events[j].mode = mode[events[i + 1].chain]
      BY <2>3, <3>2, <3>3 DEF EndsTrue, Follows
    <3>5. j \in 1..Len(events)
      BY <1>1, <2>1, TailIs
    <3>6. j - 1 \in 1..(Len(events) - 1) /\ i <= j - 1 /\ (j - 1) + 1 = j
      BY <3>1, <3>4, <3>5
    <3>7. j - 1 \in DOMAIN events' /\ events'[j - 1] = events[j]
      BY <1>1, <2>1, <3>6, TailIs
    <3> QED BY <2>1, <3>2, <3>4, <3>6, <3>7 DEF Follows
  <2> QED BY <2>1, <2>3 DEF StreamIsTrue, EndsTrue
<1>7. CASE ModeMoves
  <2>1. PICK c \in Chains, m \in Modes : Move(c, m)
    BY <1>7 DEF ModeMoves
  <2>2. UNCHANGED <<sub, link, before>>
    BY <2>1, MoveIs
  <2>3. CASE ~(sub = "on" /\ link = "armed")
    BY <2>2, <2>3 DEF StreamIsTrue
  <2>4. CASE sub = "on" /\ link = "armed"
    <3>1. PICK e \in Events : /\ e = Garbled \/ (e.chain = c /\ e.mode = m)
                              /\ events' = Append(events, e)
      BY <2>1, <2>4, MoveIs
    <3>2. Len(events) + 1 \in DOMAIN events' /\ events'[Len(events) + 1] = e
      BY <1>1, <3>1, AppendIs
    <3>3. ASSUME NEW i \in DOMAIN events', i > before', events'[i] # Garbled
          PROVE  Follows(i)'
      <4>1. i \in 1..(Len(events) + 1)
        BY <1>1, <3>1, <3>3, AppendIs
      <4>2. CASE e = Garbled \/ events'[i].chain = c
        <5>1. i <= Len(events) + 1 /\ mode'[c] = m
          BY <1>1, <2>1, <4>1, MoveIs
        <5>2. e # Garbled => e.chain = events'[i].chain /\ e.mode = mode'[events'[i].chain]
          BY <3>1, <4>2, <5>1
        <5> QED BY <3>2, <5>1, <5>2 DEF Follows
      <4>3. CASE e # Garbled /\ events'[i].chain # c
        <5>1. i # Len(events) + 1
          BY <3>1, <3>2, <4>3
        <5>2. i \in 1..Len(events)
          BY <1>1, <4>1, <5>1
        <5>3. i \in DOMAIN events /\ events'[i] = events[i] /\ events[i] \in Events
          BY <1>1, <3>1, <5>2, AppendIs
        <5>4. PICK j \in DOMAIN events : /\ i <= j
                                         /\ \/ events[j] = Garbled
                                            \/ /\ events[j].chain = events[i].chain
                                               /\ events[j].mode = mode[events[i].chain]
          BY <2>2, <2>4, <3>3, <5>3 DEF StreamIsTrue, EndsTrue, Follows
        <5>5. j \in DOMAIN events' /\ events'[j] = events[j]
          BY <1>1, <3>1, AppendIs
        <5>6. events[i].chain \in Chains
          BY <3>3, <5>3, EventIs
        <5>7. mode'[events[i].chain] = mode[events[i].chain]
          BY <2>1, <4>3, <5>3, <5>6, MoveIs
        <5> QED BY <5>3, <5>4, <5>5, <5>7 DEF Follows
      <4> QED BY <4>2, <4>3
    <3> QED BY <3>3 DEF StreamIsTrue, EndsTrue
  <2> QED BY <2>3, <2>4
<1> QED BY <1>2, <1>3, <1>4, <1>5, <1>6, <1>7, StreamMoves

-----------------------------------------------------------------------------
(* What the cache and the answers say                                      *)

\* While the cache is live under a thread that is fed, a chain that was off stays
\* accounted for; only the thread, taking an event, takes such a word away.
LEMMA RightStays ==
    ASSUME GateTypeOK, Handles, LossTold, NEW c \in Chains, Right(c), live, Fed, Harmless
    PROVE  Right(c)'
<1>0. feed \notin {"arm", "drop"}
  BY DEF Fed
<1>1. CASE UNCHANGED <<mode, events, reports, sub>>
  BY <1>0, <1>1 DEF Right, ClosesSoon
<1>2. CASE \/ Replay \/ (Watching /\ UNCHANGED <<cacheVars, netVars, feed>>)
           \/ (ConfigStep /\ Kept) \/ QuietStep
  BY <1>1, <1>2, QuietIs, ConfigIs DEF Replay, netVars, Kept
<1>3. CASE LinkUp \/ LinkLost \/ Abandon
  <2>1. UNCHANGED <<mode, events, feed>> /\ (sub = "ended" => sub' = "ended")
    BY <1>3, LinkMoves DEF feedVars
  <2>2. \A i \in DOMAIN reports : i \in DOMAIN reports' /\ reports'[i] = reports[i]
    BY <1>3, LinkMoves, BecomesIs DEF GateTypeOK
  <2> QED BY <2>1, <2>2 DEF Right, ClosesSoon
<1>4. CASE ModeMoves
  <2>1. PICK d \in Chains, m \in Modes : Move(d, m)
    BY <1>4 DEF ModeMoves
  <2>2. /\ mode'[d] = m /\ (c # d => mode'[c] = mode[c])
        /\ UNCHANGED <<feedVars, link, sub, reports>>
    BY <2>1, MoveIs
  <2>3. events \in Seq(Events)
    BY DEF GateTypeOK
  <2>4. \A i \in DOMAIN events : i \in DOMAIN events' /\ events'[i] = events[i]
    BY <2>1, <2>3, MoveIs, AppendIs
  <2>5. ClosesSoon(c) => ClosesSoon(c)'
    BY <2>2, <2>4 DEF ClosesSoon, feedVars
  <2>6. CASE c # d
    BY <2>2, <2>5, <2>6 DEF Right
  <2>7. CASE c = d /\ m # "off" /\ sub = "on" /\ link = "armed"
    <3>1. PICK e \in Events : /\ e = Garbled \/ (e.chain = d /\ e.mode = m)
                              /\ events' = Append(events, e)
      BY <2>1, <2>7, MoveIs
    <3>2. Len(events) + 1 \in DOMAIN events' /\ events'[Len(events) + 1] = e
      BY <2>3, <3>1, AppendIs
    <3> QED BY <2>7, <3>1, <3>2 DEF Right, ClosesSoon
  <2>8. CASE ~(sub = "on" /\ link = "armed")
    <3>1. ClosesSoon(c)
      BY <2>8 DEF ClosesSoon, GateTypeOK, Handles, LossTold, Fed
    <3> QED BY <2>5, <3>1 DEF Right
  <2>9. CASE c = d /\ m = "off"
    BY <2>2, <2>9 DEF Right
  <2> QED BY <2>6, <2>7, <2>8, <2>9
<1> QED BY <1>2, <1>3, <1>4 DEF Harmless

\* Taking an event sets its chain to what the event says, which is the last word on
\* it or followed by another, if it was published since the link armed.
LEMMA ReceiveKeepsRight ==
    ASSUME GateTypeOK, Handles, LossTold, StreamIsTrue, CacheHolds, Receive, live', Fed'
    PROVE  CacheHolds' /\ AnswersHold'
<1> DEFINE d == Head(events).chain
           m == Head(events).mode
<1>1. /\ Head(events) \in Events /\ Head(events) # Garbled /\ Told(d, m, before > 0)
      /\ events # <<>> /\ events' = Tail(events) /\ feed = "listen"
      /\ UNCHANGED <<feed, mode, link, sub, reports>>
  BY ReceiveIs DEF FeedDead
<1>2. events \in Seq(Events) /\ before \in Nat
  BY DEF GateTypeOK
<1>3. /\ Len(events) \in Nat \ {0} /\ DOMAIN events = 1..Len(events)
      /\ events[1] # Garbled /\ events[1].chain = d /\ events[1].mode = m
  BY <1>1, <1>2, TailIs
<1>4. \A i \in DOMAIN events : i # 1 => i - 1 \in DOMAIN events' /\ events'[i - 1] = events[i]
  <2> SUFFICES ASSUME NEW i \in DOMAIN events, i # 1
               PROVE  i - 1 \in DOMAIN events' /\ events'[i - 1] = events[i]
    OBVIOUS
  <2>1. i - 1 \in 1..(Len(events) - 1) /\ (i - 1) + 1 = i
    BY <1>3
  <2> QED BY <1>1, <1>2, <2>1, TailIs
<1>5. AnswersHold'
  <2>1. \A r \in Readers : ticket'[r] # "current"
    BY <1>1, BumpTypes DEF Told, GateTypeOK
  <2> QED BY <2>1 DEF AnswersHold
<1>6. live /\ Fed /\ d \in Chains
  BY <1>1, EventIs DEF Told, Fed
<1>7. \A c \in off' \ late' : \/ c # d /\ c \in off \ late
                              \/ c = d /\ m = "off" /\ ~(before > 0)
  BY <1>1 DEF Told, Apply
<1> HIDE DEF d, m
<1>8. ASSUME NEW i \in DOMAIN events, i # 1, NEW c \in Chains,
             events[i] = Garbled \/ (events[i].chain = c /\ events[i].mode # "off")
      PROVE  Right(c)'
  BY <1>4, <1>8 DEF Right, ClosesSoon
<1>9. \A c \in Chains : (sub = "ended" \/ \E i \in DOMAIN reports : reports[i] = "lost") => Right(c)'
  BY <1>1 DEF Right, ClosesSoon
<1>10. ASSUME NEW c \in Chains \ late', Open(c)' PROVE Right(c)'
  <2>1. c \in off' \ late'
    BY <1>10 DEF Open
  <2>2. CASE c # d /\ c \in off \ late
    <3>1. Right(c)
      BY <1>6, <2>2 DEF CacheHolds, Open
    <3>2. CASE \E i \in DOMAIN events :
                    events[i] = Garbled \/ (events[i].chain = c /\ events[i].mode # "off")
      BY <1>3, <1>8, <2>2, <3>2
    <3>3. CASE mode[c] = "off"
      BY <1>1, <3>3 DEF Right
    <3> QED BY <1>1, <1>9, <3>1, <3>2, <3>3 DEF Right, ClosesSoon
  <2>3. CASE c = d /\ m = "off" /\ ~(before > 0)
    <3>1. CASE sub = "on" /\ link = "armed"
      <4>1. 1 \in DOMAIN events /\ 1 > before
        BY <1>2, <1>3, <2>3
      <4>2. PICK j \in DOMAIN events : \/ events[j] = Garbled
                                       \/ events[j].chain = d /\ events[j].mode = mode[d]
        BY <1>3, <3>1, <4>1 DEF StreamIsTrue, EndsTrue, Follows
      <4>3. CASE mode[d] = "off"
        BY <1>1, <2>3, <4>3 DEF Right
      <4>4. CASE mode[d] # "off"
        <5>1. j # 1
          BY <1>3, <2>3, <4>2, <4>4
        <5> QED BY <1>8, <2>3, <4>2, <4>4, <5>1
      <4> QED BY <4>3, <4>4
    <3>2. CASE ~(sub = "on" /\ link = "armed")
      <4>1. sub # "none"
        BY <1>1 DEF Handles
      <4> QED BY <1>6, <1>9, <3>2, <4>1 DEF LossTold, GateTypeOK
    <3> QED BY <3>1, <3>2
  <2> QED BY <1>7, <2>1, <2>2, <2>3
<1> QED BY <1>5, <1>10 DEF CacheHolds

\* What a step other than taking an event adds to the cache and to the answers.
LEMMA ReadsMove ==
    ASSUME GateTypeOK, Harmless
    PROVE  /\ \A c \in off' \ late' :
                \/ c \in off \ late
                \/ \E r \in Readers :
                        /\ live /\ ticket[r] = "current" /\ reading[r].pc = "back"
                        /\ reading[r].mode = "off" /\ reading[r].chain = c
           /\ \A r \in Readers :
                ticket'[r] = "current" /\ reading'[r].pc = "back" /\ reading'[r].mode = "off" =>
                    \/ ticket[r] = "current" /\ reading'[r] = reading[r]
                    \/ /\ mode[reading'[r].chain] = "off" /\ reading'[r].chain \in Chains
                       /\ mode' = mode
<1> USE DEF GateTypeOK
<1>1. CASE UNCHANGED <<off, late, ticket, reading>>
  BY <1>1
<1>2. CASE Replay /\ UNCHANGED cacheVars
  BY <1>1, <1>2 DEF Replay, cacheVars
<1>3. CASE ModeMoves
  BY <1>1, <1>3 DEF ModeMoves, Move, cacheVars
<1>4. CASE LinkUp \/ LinkLost \/ Abandon
  BY <1>1, <1>4 DEF LinkUp, LinkLost, Abandon, cacheVars
<1>5. CASE Start /\ UNCHANGED cacheVars
  BY <1>1, <1>5 DEF Start, cacheVars
<1>6. CASE (\E r \in Readers, c \in Chains : Probe(r, c)) /\ UNCHANGED cacheVars
  <2>1. PICK q \in Readers, c \in Chains : Probe(q, c)
    BY <1>6
  <2>2. reading' = [reading EXCEPT ![q] = [pc |-> "cut", chain |-> c]]
    BY <2>1 DEF Probe
  <2>3. reading'[q].pc = "cut" /\ \A r \in Readers : r # q => reading'[r] = reading[r]
    BY <2>2
  <2>4. off' = off /\ late' = late /\ ticket' = ticket
    BY <1>6 DEF cacheVars
  <2> QED BY <2>3, <2>4
<1>7. ASSUME NEW q \in Readers, Cut(q) PROVE reading'[q].pc = "out"
  BY <1>7, ReadIs DEF Cut, Reads, NoRead
<1>8. CASE \E q \in Readers : Cut(q)
  <2>1. PICK q \in Readers : Cut(q)
    BY <1>8
  <2>2. \A r \in Readers : r # q => reading'[r] = reading[r] /\ ticket'[r] = ticket[r]
    BY <2>1 DEF Cut
  <2>3. off' = off /\ late' = late
    BY <2>1 DEF Cut
  <2> QED BY <1>7, <2>1, <2>2, <2>3
<1>9. CASE \E q \in Readers : Answer(q)
  <2>1. PICK q \in Readers : Answer(q)
    BY <1>9
  <2>2. PICK m \in {mode[reading[q].chain], "unknown"} :
            reading' = [reading EXCEPT ![q] = [pc |-> "back", chain |-> @.chain, mode |-> m]]
    BY <2>1 DEF Answer
  <2>6. reading[q] \in Reads /\ reading[q].pc = "out"
    BY <2>1 DEF Answer
  <2>7. reading[q].chain \in Chains
    BY <2>6, ReadIs
  <2>3. reading'[q].chain = reading[q].chain /\ reading'[q].mode = m /\ reading[q].chain \in Chains
    BY <2>2, <2>7
  <2>4. \A r \in Readers : r # q => reading'[r] = reading[r]
    BY <2>2
  <2>5. off' = off /\ late' = late /\ ticket' = ticket /\ mode' = mode
    BY <2>1 DEF Answer, cacheVars, netVars
  <2> QED BY <2>2, <2>3, <2>4, <2>5
<1>10. CASE \E q \in Readers : Learn(q)
  <2>1. PICK q \in Readers : Learn(q)
    BY <1>10
  <2>2. ticket'[q] = "none" /\ \A r \in Readers : r # q => reading'[r] = reading[r] /\ ticket'[r] = ticket[r]
    BY <2>1 DEF Learn
  <2>3. reading[q].pc = "back"
    BY <2>1 DEF Learn
  <2>4. \A c \in off' \ late' : \/ c \in off \ late
                                \/ /\ live /\ ticket[q] = "current"
                                   /\ reading[q].mode = "off" /\ reading[q].chain = c
    BY <2>1 DEF Learn, Learned, Lands, Apply
  <2> QED BY <2>2, <2>3, <2>4
<1>11. CASE \E c \in Chains : Invalidate(c)
  <2>1. off' \ late' \subseteq off \ late /\ Bump
    BY <1>11 DEF Invalidate
  <2>2. \A r \in Readers : ticket'[r] # "current"
    BY <2>1, BumpTypes
  <2> QED BY <2>1, <2>2
<1>12. CASE ConfigStep
  BY <1>1, <1>12, ConfigIs DEF cacheVars
<1> QED BY <1>2, <1>3, <1>4, <1>5, <1>6, <1>8, <1>9, <1>10, <1>11, <1>12
        DEF Watching, QuietStep, Harmless

LEMMA RightKept ==
    ASSUME GateInv, GateNext
    PROVE  CacheHolds' /\ AnswersHold'
<1> USE DEF GateInv
<1>1. CASE ~live' \/ ~Fed'
  BY <1>1 DEF CacheHolds, AnswersHold, Open
<1>2. CASE Receive /\ live' /\ Fed'
  BY <1>2, ReceiveKeepsRight
<1>3. CASE FeedLive
  <2>1. \A r \in Readers : ticket'[r] # "current"
    BY <1>3, BumpTypes DEF FeedLive, GateTypeOK
  <2> QED BY <1>3, <2>1 DEF FeedLive, Forget, CacheHolds, AnswersHold, Open
<1>4. CASE live /\ Fed /\ Harmless
  <2>1. GateTypeOK'
    BY TypesKept
  <2>2. \A c \in Chains : Right(c) => Right(c)'
    BY <1>4, RightStays
  <2>3. \A r \in Readers : reading[r].pc = "back" => reading[r].chain \in Chains
    BY ReadIs DEF GateTypeOK
  <2>4. ASSUME NEW c \in Chains \ late', Open(c)' PROVE Right(c)'
    <3>1. c \in off' \ late'
      BY <2>4 DEF Open
    <3>2. CASE c \in off \ late
      <4>1. Right(c)
        BY <1>4, <3>2 DEF CacheHolds, Open
      <4> QED BY <2>2, <4>1
    <3>3. CASE ~(c \in off \ late)
      <4>1. PICK r \in Readers : /\ live /\ ticket[r] = "current" /\ reading[r].pc = "back"
                                 /\ reading[r].mode = "off" /\ reading[r].chain = c
        BY <1>4, <3>1, <3>3, ReadsMove
      <4>2. Right(c)
        BY <1>4, <4>1 DEF AnswersHold
      <4> QED BY <2>2, <4>2
    <3> QED BY <3>2, <3>3
  <2>5. ASSUME NEW r \in Readers, ticket'[r] = "current",
               reading'[r].pc = "back", reading'[r].mode = "off",
               NEW c \in Chains, reading'[r].chain = c
        PROVE  Right(c)'
    <3>1. CASE ticket[r] = "current" /\ reading'[r] = reading[r]
      <4>1. Right(c)
        BY <1>4, <2>5, <3>1 DEF AnswersHold
      <4> QED BY <2>2, <4>1
    <3>2. CASE mode[c] = "off" /\ mode' = mode
      BY <3>2 DEF Right
    <3> QED BY <1>4, <2>5, <3>1, <3>2, ReadsMove
  <2>6. CacheHolds'
    BY <2>4 DEF CacheHolds
  <2>7. AnswersHold'
    <3>1. \A r \in Readers : reading'[r].pc = "back" => reading'[r].chain \in Chains
      BY <2>1, ReadIs DEF GateTypeOK
    <3> QED BY <2>5, <3>1 DEF AnswersHold
  <2> QED BY <2>6, <2>7
<1> QED BY <1>1, <1>2, <1>3, <1>4, ComesAlive

LEMMA GateKept == ASSUME GateInv, [GateNext]_gateVars PROVE GateInv'
<1>1. CASE GateNext
  BY <1>1, TypesKept, HandlesKept, LastWordKept, LossKept, StreamKept, RightKept DEF GateInv
<1>2. CASE UNCHANGED gateVars
  <2>1. GateTypeOK'
    BY <1>2, TypesKept DEF GateInv
  <2>2. UNCHANGED <<live, cold, off, late, ticket, feed, attempt, watcher, mode, link, config,
                    sub, events, before, reports, reading, channel>>
    BY <1>2 DEF gateVars, cacheVars, feedVars, netVars
  <2>3. Handles' /\ LastWord' /\ LossTold'
    BY <2>2 DEF GateInv, Handles, LastWord, LossTold, Fed
  <2>4. StreamIsTrue'
    BY <2>2 DEF GateInv, StreamIsTrue, EndsTrue, Follows
  <2>5. AnswersHold' /\ CacheHolds'
    BY <2>2 DEF GateInv, AnswersHold, CacheHolds, Right, ClosesSoon, Open, Fed
  <2> QED BY <2>1, <2>3, <2>4, <2>5 DEF GateInv
<1> QED BY <1>1, <1>2

LEMMA GateAlways == GateSpec => []GateInv
<1>1. GateInv /\ [GateNext]_gateVars => GateInv'
  BY GateKept
<1> QED BY <1>1, InitGate, PTL DEF GateSpec

-----------------------------------------------------------------------------
(* The results                                                             *)

\* Whatever order events, reports, re-arms, reads and the config feed's coming and
\* going happen in, with the client kept or not and whatever cannot be read: while
\* there is a feed thread the cache says that a chain needs no verification only while
\* it is off, or while what will correct the cache is on its way, or on the word of an
\* event that a new arm overtook (gate.rs ModeCache, glue.rs gate_feed and arm_gate).
THEOREM WrongOnlyInFlight == GateSpec => []StaleOnlyInFlight
<1>1. GateInv => StaleOnlyInFlight
  <2> SUFFICES ASSUME GateInv, Feeding, NEW c \in Chains \ late, Open(c), mode[c] # "off"
               PROVE  ClosesSoon(c)
    BY DEF StaleOnlyInFlight
  <2>1. CASE Fed
    BY <2>1 DEF GateInv, CacheHolds, Right
  <2>2. CASE feed \in {"arm", "drop"}
    BY <2>2 DEF ClosesSoon
  <2>3. feed \notin {"subscribe", "raise"}
    BY DEF GateInv, Handles, Open
  <2> QED BY <2>1, <2>2, <2>3 DEF GateInv, GateTypeOK, Feeding, Fed
<1> QED BY <1>1, GateAlways, PTL

\* Types are kept; in particular a read holds a ticket exactly from its going out to
\* its being learned (glue.rs verified_verdict_within).
THEOREM GateTypes == GateSpec => []GateTypeOK
<1>1. GateInv => GateTypeOK
  BY DEF GateInv
<1> QED BY <1>1, GateAlways, PTL
=============================================================================
