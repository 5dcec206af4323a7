------------------------- MODULE SubscriptionsProofs -------------------------
(***************************************************************************)
(* The heartbeat's reference counts and the queue of the three             *)
(* subscription servers, for any number of sessions, URIs and writers:     *)
(* a count is the number of streams that hold it, and a write a live       *)
(* subscription has still to hear of is in a hook, the channel or the      *)
(* watcher's hand.                                                         *)
(***************************************************************************)
EXTENDS Subscriptions, FiniteSetTheorems, TLAPS

\* The subscriptions that hold a reference to u.
Watching(u) == {p \in Pairs : p[2] = u /\ phase[p] \in {"gated", "live"}}

SubsTypeOK ==
    /\ server \in {"queued", "direct", "listen"} /\ up \in BOOLEAN
    /\ phase \in [Pairs -> {"none", "gated", "live", "ungated"}]
    /\ watched \in [Uris -> Nat]
    /\ hook \in [Writers -> Uris \cup {NoUri}]
    /\ events \in Seq(Uris) /\ holding \in Uris \cup {NoUri}
    /\ watcher \in {"off", "on", "done"}
    /\ owed \subseteq Pairs

\* Finitely many subscriptions at any time, even where Sessions is infinite.
CountsInv ==
    server = "listen" =>
        \A u \in Uris : IsFiniteSet(Watching(u)) /\ watched[u] = Cardinality(Watching(u))

\* Where a write waits.
InTransit(u) ==
    \/ \E w \in Writers : hook[w] = u
    \/ server = "queued" /\ (holding = u \/ \E i \in 1..Len(events) : events[i] = u)

\* A live subscription that has not heard of a write has it on its way, and as long
\* as the queued server is up, its watcher is there to take it.
OwedIsOnItsWay ==
    \A p \in owed :
        /\ phase[p] = "live" => InTransit(p[2])
        /\ server = "queued" /\ up => watcher = "on"

OwedInv ==
    /\ \A p \in owed : phase[p] \in {"live", "ungated"}
    /\ \A p \in Pairs : server = "queued" /\ phase[p] # "none" => watcher # "off"
    /\ watcher = "done" => ~up
    /\ server # "queued" => holding = NoUri /\ events = <<>>
    /\ OwedIsOnItsWay

SubsIInv == SubsTypeOK /\ CountsInv /\ OwedInv
------------------------------------------------------------------------------
LEMMA PairFacts == \A p \in Pairs : p[1] \in Sessions /\ p[2] \in Uris /\ p = <<p[1], p[2]>>
  BY DEF Pairs

LEMMA SubsInitially == Init => SubsIInv
<1> SUFFICES ASSUME Init PROVE SubsIInv
  OBVIOUS
<1>1. SubsTypeOK
  BY SubscriptionsOK DEF Init, SubsTypeOK
<1>2. CountsInv
  <2>1. \A u \in Uris : Watching(u) = {}
    BY DEF Init, Watching
  <2> QED
    BY <2>1, FS_EmptySet DEF CountsInv, Init
<1>3. OwedInv
  BY DEF Init, OwedInv, OwedIsOnItsWay
<1> QED
  BY <1>1, <1>2, <1>3 DEF SubsIInv

------------------------------------------------------------------------------
\* The counts.

\* Steps that change neither a phase nor a count.
LEMMA CountsUntouched ==
  ASSUME CountsInv, UNCHANGED <<server, phase, watched>> PROVE CountsInv'
  BY DEF CountsInv, Watching

LEMMA SubscribeCounts ==
  ASSUME SubsTypeOK, CountsInv, NEW p \in Pairs, Subscribe(p) PROVE CountsInv'
<1> SUFFICES ASSUME server = "listen", NEW u \in Uris
             PROVE  IsFiniteSet(Watching(u)') /\ watched'[u] = Cardinality(Watching(u)')
  BY DEF CountsInv, Subscribe
<1> p[2] \in Uris
  BY PairFacts
<1>1. watched' = [watched EXCEPT ![p[2]] = @ + 1]
  BY DEF Subscribe, Retain
<1>2. CASE u = p[2]
  <2>1. Watching(u)' = Watching(u) \cup {p} /\ p \notin Watching(u)
    BY <1>2 DEF Subscribe, Watching, SubsTypeOK
  <2> QED
    BY <1>1, <1>2, <2>1, FS_AddElement DEF CountsInv, SubsTypeOK
<1>3. CASE u # p[2]
  <2>1. Watching(u)' = Watching(u)
    BY <1>3 DEF Subscribe, Watching, SubsTypeOK
  <2> QED
    BY <1>1, <1>3, <2>1 DEF CountsInv, SubsTypeOK
<1> QED
  BY <1>2, <1>3

LEMMA UnsubscribeCounts ==
  ASSUME SubsTypeOK, CountsInv, NEW p \in Pairs, Unsubscribe(p) PROVE CountsInv'
<1> SUFFICES ASSUME server = "listen", NEW u \in Uris
             PROVE  IsFiniteSet(Watching(u)') /\ watched'[u] = Cardinality(Watching(u)')
  BY DEF CountsInv, Unsubscribe
<1> p[2] \in Uris
  BY PairFacts
<1>1. watched' = [watched EXCEPT ![p[2]] = IF @ <= 1 THEN 0 ELSE @ - 1]
  BY DEF Unsubscribe, Release
<1>2. CASE u = p[2]
  <2>1. Watching(u)' = Watching(u) \ {p} /\ p \in Watching(u)
    BY <1>2 DEF Unsubscribe, Watching, SubsTypeOK
  <2>2. IsFiniteSet(Watching(u)) /\ watched[u] = Cardinality(Watching(u))
    BY DEF CountsInv
  <2>3. Cardinality(Watching(u)) # 0
    BY <2>1, <2>2, FS_EmptySet
  <2>4. /\ IsFiniteSet(Watching(u) \ {p})
        /\ Cardinality(Watching(u) \ {p}) = Cardinality(Watching(u)) - 1
    BY <2>1, <2>2, FS_RemoveElement
  <2>5. watched[u] \in Nat /\ watched'[u] = IF watched[u] <= 1 THEN 0 ELSE watched[u] - 1
    BY <1>1, <1>2 DEF SubsTypeOK
  <2> QED
    BY <2>1, <2>2, <2>3, <2>4, <2>5
<1>3. CASE u # p[2]
  <2>1. Watching(u)' = Watching(u)
    BY <1>3 DEF Unsubscribe, Watching, SubsTypeOK
  <2> QED
    BY <1>1, <1>3, <2>1 DEF CountsInv, SubsTypeOK
<1> QED
  BY <1>2, <1>3

\* A phase that moves inside or outside the counted ones.
LEMMA RecordForgetCounts ==
  ASSUME SubsTypeOK, CountsInv, NEW p \in Pairs, Record(p) \/ Forget(p) PROVE CountsInv'
<1>1. \A u \in Uris : Watching(u)' = Watching(u)
  BY DEF Record, Forget, Watching, SubsTypeOK
<1>2. UNCHANGED <<server, watched>>
  BY DEF Record, Forget, beatVars
<1> QED
  BY <1>1, <1>2 DEF CountsInv

LEMMA SubsTypeStep == SubsTypeOK /\ [Next]_vars => SubsTypeOK'
<1> SUFFICES ASSUME SubsTypeOK, [Next]_vars PROVE SubsTypeOK'
  OBVIOUS
<1> USE DEF SubsTypeOK, sdkVars, queueVars, beatVars, countVars
<1>1. ASSUME NEW p \in Pairs, Subscribe(p) PROVE SubsTypeOK'
  <2>1. watched' \in [Uris -> Nat]
    <3>1. CASE server = "listen"
      BY <1>1, <3>1, PairFacts DEF Subscribe, Retain
    <3>2. CASE server # "listen"
      BY <1>1, <3>2 DEF Subscribe
    <3> QED
      BY <3>1, <3>2
  <2>2. phase' \in [Pairs -> {"none", "gated", "live", "ungated"}]
    BY <1>1 DEF Subscribe
  <2>3. watcher' \in {"off", "on", "done"}
    BY <1>1 DEF Subscribe
  <2> QED
    BY <1>1, <2>1, <2>2, <2>3 DEF Subscribe
<1>2. ASSUME NEW p \in Pairs, Record(p) PROVE SubsTypeOK'
  BY <1>2 DEF Record
<1>3. ASSUME NEW p \in Pairs, Unsubscribe(p) PROVE SubsTypeOK'
  <2>1. watched' \in [Uris -> Nat]
    <3>1. CASE server = "listen"
      <4>1. \A n \in Nat : (IF n <= 1 THEN 0 ELSE n - 1) \in Nat
        OBVIOUS
      <4> QED
        BY <1>3, <3>1, <4>1, PairFacts DEF Unsubscribe, Release
    <3>2. CASE server # "listen"
      BY <1>3, <3>2 DEF Unsubscribe
    <3> QED
      BY <3>1, <3>2
  <2> QED
    BY <1>3, <2>1 DEF Unsubscribe
<1>4. ASSUME NEW p \in Pairs, Forget(p) PROVE SubsTypeOK'
  BY <1>4 DEF Forget
<1>5. ASSUME NEW s \in Sessions, Close(s) PROVE SubsTypeOK'
  BY <1>5 DEF Close
<1>6. ASSUME NEW u \in Uris, Legacy(u) \/ Touch(u) PROVE SubsTypeOK'
  BY <1>6 DEF Legacy, Touch, ResourceUpdated
<1>7. ASSUME NEW w \in Writers, PushDirect(w) PROVE SubsTypeOK'
  BY <1>7 DEF PushDirect, ResourceUpdated
<1>8. ASSUME NEW w \in Writers, PushQueued(w) PROVE SubsTypeOK'
  <2>1. owed' \subseteq Pairs
    BY <1>8 DEF PushQueued
  <2>2. events' \in Seq(Uris)
    <3>1. hook[w] \in Uris
      BY <1>8 DEF PushQueued
    <3>2. Append(events, hook[w]) \in Seq(Uris)
      BY <3>1
    <3> QED
      BY <1>8, <3>2 DEF PushQueued
  <2> QED
    BY <1>8, <2>1, <2>2 DEF PushQueued
<1>9. ASSUME NEW w \in Writers, NEW u \in Uris, Write(w, u) PROVE SubsTypeOK'
  <2>1. owed' \subseteq Pairs
    BY <1>9 DEF Write, Live
  <2> QED
    BY <1>9, <2>1 DEF Write
<1>10. CASE Receive
  BY <1>10 DEF Receive
<1>11. CASE Announce
  BY <1>11 DEF Announce, ResourceUpdated
<1>12. CASE Tick
  BY <1>12 DEF Tick
<1>13. CASE Shutdown \/ WatcherExits
  BY <1>13 DEF Shutdown, WatcherExits
<1>14. CASE UNCHANGED vars
  BY <1>14 DEF vars
<1> QED
  BY <1>1, <1>2, <1>3, <1>4, <1>5, <1>6, <1>7, <1>8, <1>9, <1>10, <1>11, <1>12, <1>13, <1>14
     DEF Next

\* Only these four steps move a count or a counted phase; Close is not for listen
\* streams, and a legacy call is turned away before the gate.
LEMMA CountsStep == SubsTypeOK /\ CountsInv /\ [Next]_vars => CountsInv'
<1> SUFFICES ASSUME SubsTypeOK, CountsInv, [Next]_vars PROVE CountsInv'
  OBVIOUS
<1> USE DEF sdkVars, queueVars, beatVars, countVars
<1>1. ASSUME NEW p \in Pairs, Subscribe(p) \/ Record(p) \/ Unsubscribe(p) \/ Forget(p)
      PROVE  CountsInv'
  BY <1>1, SubscribeCounts, UnsubscribeCounts, RecordForgetCounts
<1>2. ASSUME NEW s \in Sessions, Close(s) PROVE CountsInv'
  BY <1>2 DEF Close, CountsInv
<1>3. ASSUME NEW u \in Uris, Legacy(u) \/ Touch(u) PROVE CountsInv'
  BY <1>3, CountsUntouched DEF Legacy, Touch
<1>4. ASSUME NEW w \in Writers, NEW u \in Uris, PushDirect(w) \/ PushQueued(w) \/ Write(w, u)
      PROVE  CountsInv'
  BY <1>4, CountsUntouched DEF PushDirect, PushQueued, Write
<1>5. ASSUME NEW w \in Writers, PushDirect(w) \/ PushQueued(w) PROVE CountsInv'
  BY <1>5, CountsUntouched DEF PushDirect, PushQueued
<1>6. CASE Receive \/ Announce \/ Tick \/ Shutdown \/ WatcherExits
  BY <1>6, CountsUntouched DEF Receive, Announce, Tick, Shutdown, WatcherExits
<1>7. CASE UNCHANGED vars
  BY <1>7, CountsUntouched DEF vars
<1> QED
  BY <1>1, <1>2, <1>3, <1>4, <1>5, <1>6, <1>7 DEF Next

------------------------------------------------------------------------------
\* The queue.  A drop forgets only those for whom the same URI is not queued before.
LEMMA PushQueuedKeepsOwed ==
  ASSUME SubsTypeOK, OwedInv, NEW w \in Writers, PushQueued(w) PROVE OwedInv'
<1> USE DEF SubsTypeOK, OwedInv, OwedIsOnItsWay
<1> DEFINE u == hook[w]
<1>0. u \in Uris /\ server = "queued" /\ server' = server /\ phase' = phase
      /\ watcher' = watcher /\ up' = up /\ holding' = holding
      /\ \A v \in Writers : v # w => hook'[v] = hook[v]
  BY DEF PushQueued
<1>1. CASE Len(events) < EventBuffer
  <2>1. events' = Append(events, u) /\ owed' = owed
    BY <1>1 DEF PushQueued
  <2>2. /\ Len(events') = Len(events) + 1 /\ Len(events) \in Nat
        /\ events'[Len(events) + 1] = u
        /\ \A i \in 1..Len(events) : events'[i] = events[i]
    BY <1>0, <2>1
  <2>3. ASSUME NEW x \in Uris, InTransit(x) PROVE InTransit(x)'
    <3>1. ASSUME NEW v \in Writers, hook[v] = x PROVE InTransit(x)'
      <4>1. CASE v = w
        <5>1. Len(events) + 1 \in 1..Len(events') /\ events'[Len(events) + 1] = x
          BY <2>2, <3>1, <4>1
        <5> QED
          BY <1>0, <5>1 DEF InTransit
      <4>2. CASE v # w
        BY <1>0, <3>1, <4>2 DEF InTransit
      <4> QED
        BY <4>1, <4>2
    <3>2. ASSUME NEW i \in 1..Len(events), events[i] = x PROVE InTransit(x)'
      <4>1. i \in 1..Len(events') /\ events'[i] = x
        BY <2>2, <3>2
      <4> QED
        BY <1>0, <4>1 DEF InTransit
    <3>3. CASE holding = x
      BY <1>0, <3>3 DEF InTransit
    <3> QED
      BY <2>3, <3>1, <3>2, <3>3 DEF InTransit
  <2>4. OwedIsOnItsWay'
    BY <1>0, <2>1, <2>3, PairFacts
  <2> QED
    BY <1>0, <2>1, <2>4
<1>2. CASE ~(Len(events) < EventBuffer)
  <2>1. events' = events
        /\ owed' = {p \in owed : p[2] # u \/ u \in Range(events) \cup {holding}}
    BY <1>2 DEF PushQueued
  <2>2. \A x \in Uris : x # u /\ InTransit(x) => InTransit(x)'
    BY <1>0, <2>1 DEF InTransit
  <2>3. ASSUME NEW x \in Uris, x \in Range(events) \cup {holding} PROVE InTransit(x)'
    BY <1>0, <2>1, <2>3 DEF InTransit, Range
  <2>4. OwedIsOnItsWay'
    <3> SUFFICES ASSUME NEW p \in owed', phase[p] = "live" PROVE InTransit(p[2])'
      BY <1>0, <2>1
    <3>1. p \in owed /\ p[2] \in Uris /\ InTransit(p[2])
      BY <2>1, PairFacts
    <3>2. CASE p[2] = u
      BY <2>1, <2>3, <3>1, <3>2
    <3> QED
      BY <2>2, <3>1, <3>2
  <2> QED
    BY <1>0, <2>1, <2>4
<1> QED
  BY <1>1, <1>2

\* The steps of a subscription touch no queue and owe nothing new.
LEMMA SubscriberKeepsOwed ==
  ASSUME SubsTypeOK, OwedInv,
         \/ \E p \in Pairs : Subscribe(p) \/ Record(p) \/ Unsubscribe(p) \/ Forget(p)
         \/ \E s \in Sessions : Close(s)
  PROVE  OwedInv'
<1> USE DEF SubsTypeOK, OwedInv, OwedIsOnItsWay, InTransit, queueVars
<1>1. ASSUME NEW p \in Pairs, Subscribe(p) PROVE OwedInv'
  <2>1. \A q \in Pairs : q # p => phase'[q] = phase[q]
    BY <1>1 DEF Subscribe
  <2>2. p \notin owed /\ UNCHANGED <<server, up, owed, hook, events, holding>>
    BY <1>1 DEF Subscribe
  <2>3. watcher' = IF server = "queued" /\ watcher = "off" THEN "on" ELSE watcher
    BY <1>1 DEF Subscribe
  <2> QED
    BY <2>1, <2>2, <2>3
<1>2. ASSUME NEW p \in Pairs, Record(p) PROVE OwedInv'
  BY <1>2 DEF Record
<1>3. ASSUME NEW p \in Pairs, Unsubscribe(p) PROVE OwedInv'
  BY <1>3 DEF Unsubscribe
<1>4. ASSUME NEW p \in Pairs, Forget(p) PROVE OwedInv'
  BY <1>4 DEF Forget
<1>5. ASSUME NEW s \in Sessions, Close(s) PROVE OwedInv'
  BY <1>5 DEF Close
<1> QED
  BY <1>1, <1>2, <1>3, <1>4, <1>5

\* ResourceUpdated(u) pays everyone who is live on u, so u may leave the queue.
LEMMA ResourceUpdatedKeepsOwed ==
  ASSUME SubsTypeOK, OwedInv, NEW u \in Uris \cup {NoUri}, ResourceUpdated(u),
         UNCHANGED <<server, phase, up, watcher>>,
         server # "queued" => holding' = NoUri /\ events' = <<>>,
         \A x \in Uris : x # u /\ InTransit(x) => InTransit(x)'
  PROVE  OwedInv'
<1>1. \A p \in owed' : p \in owed /\ (phase[p] = "live" => p[2] # u)
  BY DEF ResourceUpdated, Live, SubsTypeOK
<1>2. OwedIsOnItsWay'
  BY <1>1, PairFacts DEF OwedInv, OwedIsOnItsWay, SubsTypeOK
<1> QED
  BY <1>1, <1>2 DEF OwedInv

LEMMA QueueKeepsOwed ==
  ASSUME SubsTypeOK, OwedInv,
         \/ \E w \in Writers : PushDirect(w) \/ \E u \in Uris : Write(w, u)
         \/ Receive \/ Announce
  PROVE  OwedInv'
<1> USE DEF SubsTypeOK, queueVars
<1>1. ASSUME NEW w \in Writers, PushDirect(w) PROVE OwedInv'
  <2>1. \A x \in Uris : x # hook[w] /\ InTransit(x) => InTransit(x)'
    BY <1>1 DEF PushDirect, InTransit
  <2>2. hook[w] \in Uris \cup {NoUri} /\ ResourceUpdated(hook[w])
        /\ UNCHANGED <<server, phase, up, watcher, holding, events>>
    BY <1>1 DEF PushDirect
  <2>3. server # "queued" => holding' = NoUri /\ events' = <<>>
    BY <2>2 DEF OwedInv
  <2> QED
    BY <2>1, <2>2, <2>3, ResourceUpdatedKeepsOwed
<1>2. ASSUME NEW w \in Writers, NEW u \in Uris, Write(w, u) PROVE OwedInv'
  <2>1. hook'[w] = u /\ \A v \in Writers : v # w => hook'[v] = hook[v]
    BY <1>2 DEF Write
  <2>2. UNCHANGED <<server, phase, events, watcher, holding, up>> /\ up /\ hook[w] = NoUri
    BY <1>2 DEF Write
  <2>3. \A x \in Uris : x = u \/ InTransit(x) => InTransit(x)'
    BY <2>1, <2>2, SubscriptionsOK DEF InTransit
  <2>4. \A p \in owed' : p \in Pairs /\ (p \in owed \/ (p[2] = u /\ phase[p] = "live"))
    BY <1>2 DEF Write, Live
  <2>5. \A p \in owed' : phase'[p] \in {"live", "ungated"}
    BY <2>2, <2>4 DEF OwedInv
  <2>6. OwedIsOnItsWay'
    <3> SUFFICES ASSUME NEW p \in owed'
                 PROVE  /\ phase[p] = "live" => InTransit(p[2])'
                        /\ server = "queued" /\ up => watcher = "on"
      BY <2>2 DEF OwedIsOnItsWay
    <3>1. phase[p] = "live" => InTransit(p[2])'
      BY <2>3, <2>4, PairFacts DEF OwedInv, OwedIsOnItsWay
    <3>2. server = "queued" /\ up => watcher = "on"
      BY <2>4 DEF OwedInv, OwedIsOnItsWay
    <3> QED
      BY <3>1, <3>2
  <2> QED
    BY <2>2, <2>5, <2>6 DEF OwedInv
<1>3. CASE Receive
  <2>0. server = "queued"
    BY <1>3 DEF Receive, OwedInv
  <2>1. UNCHANGED <<server, phase, owed, hook, watcher, up>> /\ holding = NoUri
    BY <1>3 DEF Receive, sdkVars
  <2>2. /\ holding' = events[1] /\ Len(events') = Len(events) - 1 /\ Len(events) \in Nat
        /\ \A i \in 2..Len(events) : events'[i - 1] = events[i]
    BY <1>3 DEF Receive
  <2>3. ASSUME NEW x \in Uris, InTransit(x) PROVE InTransit(x)'
    <3>1. ASSUME NEW i \in 1..Len(events), events[i] = x PROVE InTransit(x)'
      <4>1. CASE i = 1
        BY <2>0, <2>1, <2>2, <3>1, <4>1 DEF InTransit
      <4>2. CASE i # 1
        <5>1. i - 1 \in 1..Len(events') /\ events'[i - 1] = x
          BY <2>2, <3>1, <4>2
        <5> QED
          BY <2>0, <2>1, <5>1 DEF InTransit
      <4> QED
        BY <4>1, <4>2
    <3>2. holding # x
      BY <2>1, SubscriptionsOK
    <3> QED
      BY <2>1, <2>3, <3>1, <3>2 DEF InTransit
  <2>4. OwedIsOnItsWay'
    BY <2>1, <2>3, PairFacts DEF OwedInv, OwedIsOnItsWay
  <2> QED
    BY <2>0, <2>1, <2>4 DEF OwedInv
<1>4. CASE Announce
  <2>1. /\ ResourceUpdated(holding) /\ holding' = NoUri
        /\ UNCHANGED <<server, phase, hook, events, watcher, up>>
    BY <1>4 DEF Announce
  <2>2. \A x \in Uris : x # holding /\ InTransit(x) => InTransit(x)'
    BY <2>1 DEF InTransit
  <2>3. server # "queued" => holding' = NoUri /\ events' = <<>>
    BY <2>1 DEF OwedInv
  <2> QED
    BY <2>1, <2>2, <2>3, ResourceUpdatedKeepsOwed
<1> QED
  BY <1>1, <1>2, <1>3, <1>4

LEMMA OwedStep == SubsTypeOK /\ OwedInv /\ [Next]_vars => OwedInv'
<1> SUFFICES ASSUME SubsTypeOK, OwedInv, [Next]_vars PROVE OwedInv'
  OBVIOUS
<1> USE DEF sdkVars, queueVars, beatVars, countVars
<1>1. ASSUME NEW u \in Uris, Legacy(u) PROVE OwedInv'
  BY <1>1 DEF Legacy, OwedInv, OwedIsOnItsWay, InTransit
<1>2. ASSUME NEW u \in Uris, Touch(u) PROVE OwedInv'
  <2>1. ResourceUpdated(u) /\ UNCHANGED <<server, phase, up, watcher, hook, holding, events>>
    BY <1>2 DEF Touch
  <2>2. \A x \in Uris : x # u /\ InTransit(x) => InTransit(x)'
    BY <2>1 DEF InTransit
  <2>3. server # "queued" => holding' = NoUri /\ events' = <<>>
    BY <2>1 DEF OwedInv
  <2> QED
    BY <2>1, <2>2, <2>3, ResourceUpdatedKeepsOwed
<1>3. CASE Tick
  BY <1>3 DEF Tick, OwedInv, OwedIsOnItsWay, InTransit
<1>4. CASE Shutdown
  BY <1>4 DEF Shutdown, OwedInv, OwedIsOnItsWay, InTransit
<1>5. CASE WatcherExits
  BY <1>5 DEF WatcherExits, OwedInv, OwedIsOnItsWay, InTransit
<1>6. CASE UNCHANGED vars
  BY <1>6 DEF vars, OwedInv, OwedIsOnItsWay, InTransit
<1> QED
  BY <1>1, <1>2, <1>3, <1>4, <1>5, <1>6, SubscriberKeepsOwed, QueueKeepsOwed, PushQueuedKeepsOwed
     DEF Next

LEMMA SubsInductive == SubsIInv /\ [Next]_vars => SubsIInv'
  BY SubsTypeStep, CountsStep, OwedStep DEF SubsIInv
------------------------------------------------------------------------------
\* Type correctness of the three servers: a count stays a natural number however streams
\* are gated, fail and are released, and the channel holds URIs only.
THEOREM SubsTypeCorrect == Spec => []SubsTypeOK
<1>1. SubsIInv => SubsTypeOK
  BY DEF SubsIInv
<1> QED
  BY SubsInitially, SubsInductive, <1>1, PTL DEF Spec

\* The heartbeat's reference count of a URI is the number of streams between their
\* gate and their release, in every reachable state: none leaks, none is dropped
\* while somebody still watches.
THEOREM CountsAreStreams == Spec => []WatchedWhileStreaming
<1>1. SubsIInv => WatchedWhileStreaming
  BY DEF SubsIInv, CountsInv, WatchedWhileStreaming, Watching
<1> QED
  BY SubsInitially, SubsInductive, <1>1, PTL DEF Spec

\* A write that a live subscription has still to hear of is in a writer's hook, in
\* the channel or in the hand of a watcher that runs: it can get lost in none of
\* the races between subscribing, queueing, announcing and unsubscribing.
THEOREM OwedWritesInTransit == Spec => []OwedIsOnItsWay
<1>1. SubsIInv => OwedIsOnItsWay
  BY DEF SubsIInv, OwedInv
<1> QED
  BY SubsInitially, SubsInductive, <1>1, PTL DEF Spec
==============================================================================
