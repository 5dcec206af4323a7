----------------------------- MODULE Subscriptions -----------------------------
(***************************************************************************)
(* The three subscription servers of examples/subscriptions: "queued"      *)
(* (cmd/subscriptions: an event channel, a lazily started watcher and an   *)
(* ACL), "direct" (cmd/subscriptions-simple: the write path calls          *)
(* ResourceUpdated) and "listen" (cmd/subscriptions-stateless: the same,   *)
(* with subscriptions/listen streams and a heartbeat over reference        *)
(* counts).  The SDK keeps who subscribed to what and fans updates out.    *)
(***************************************************************************)
EXTENDS Naturals, Sequences, FiniteSets, Functions

CONSTANTS Sessions, Uris, Writers,
          Servers,      \* those of "queued", "direct", "listen" there are to choose from
          Granted,      \* Granted[s]: what the ACL lets the principal of s subscribe to
          NoUri,
          EventBuffer,  \* capacity of the event channel
          MaxWrites, MaxSubscribes, MaxLegacy  \* bounds

ASSUME SubscriptionsOK ==
    /\ Servers \subseteq {"queued", "direct", "listen"} /\ NoUri \notin Uris
    /\ Granted \in [Sessions -> SUBSET Uris]
    /\ EventBuffer \in Nat \ {0} /\ {MaxWrites, MaxSubscribes, MaxLegacy} \subseteq Nat

VARIABLES server,
          phase,     \* phase[s, u]: "none", "gated" (the handler has returned nil), "live"
                     \* (the SDK has recorded it), "ungated" (the unsubscribe handler has returned)
          hook,      \* hook[w]: the URI a writer is in OnChange for
          events,    \* the channel
          watcher,   \* "off", "on": sync.Once has started it, or "done"
          holding,   \* what the watcher has received and not passed on
          watched,   \* watchHeartbeat: reference counts, 0 where the map has no key
          touching,  \* the URIs of this beat still to touch
          touched,   \* history: the one just touched
          up,        \* ctx is not done
          owed,      \* history: live subscriptions with a write they have not heard of
          lost,      \* history: those whose event was dropped
          writes, subscribes, legacy  \* history, bounded

sdkVars == <<phase, owed, lost>>
queueVars == <<events, watcher, holding>>
beatVars == <<watched, touching, touched>>
countVars == <<writes, subscribes, legacy>>
vars == <<server, sdkVars, hook, queueVars, beatVars, up, countVars>>

Pairs == Sessions \X Uris
Live(u) == {p \in Pairs : p[2] = u /\ phase[p] = "live"}

Init ==
    /\ server \in Servers /\ up = TRUE
    /\ phase = [p \in Pairs |-> "none"] /\ owed = {} /\ lost = {}
    /\ hook = [w \in Writers |-> NoUri]
    /\ events = <<>> /\ watcher = "off" /\ holding = NoUri
    /\ watched = [u \in Uris |-> 0] /\ touching = {} /\ touched = NoUri
    /\ writes = 0 /\ subscribes = 0 /\ legacy = 0
------------------------------------------------------------------------------
\* authMiddleware, authorize: the others allow whatever they are asked for.
Permits(p) == server = "queued" => p[2] \in Granted[p[1]]

\* Bug: released is forgotten, whoever else still watches.
ForgetWatched(u) == watched' = [watched EXCEPT ![u] = 0]

\* watchHeartbeat.subscribed, .unsubscribed
Retain(u) == watched' = [watched EXCEPT ![u] = @ + 1]
Release(u) == watched' = [watched EXCEPT ![u] = IF @ <= 1 THEN 0 ELSE @ - 1]

\* The SDK calls the SubscribeHandler...
Subscribe(p) ==
    /\ up /\ phase[p] = "none" /\ subscribes < MaxSubscribes /\ Permits(p)
    /\ phase' = [phase EXCEPT ![p] = "gated"] /\ subscribes' = subscribes + 1
    /\ watcher' = IF server = "queued" /\ watcher = "off" THEN "on" ELSE watcher
    /\ IF server = "listen" THEN Retain(p[2]) ELSE UNCHANGED watched
    /\ UNCHANGED <<server, owed, lost, hook, events, holding, touching, touched, up, writes, legacy>>

\* ... and records the subscription.
Record(p) ==
    /\ phase[p] = "gated" /\ phase' = [phase EXCEPT ![p] = "live"]
    /\ UNCHANGED <<server, owed, lost, hook, queueVars, beatVars, up, countVars>>

\* Bug: the gate is the SDK's own.
LegacyAccepted(u) ==
    /\ server = "listen" /\ up /\ legacy < MaxLegacy /\ legacy' = legacy + 1 /\ Retain(u)
    /\ UNCHANGED <<server, sdkVars, hook, queueVars, touching, touched, up, writes, subscribes>>

\* requireListenScopedSubscription: a legacy resources/subscribe or /unsubscribe is
\* turned away.  Its session dies with the POST and would never call the gate again.
Legacy(u) ==
    /\ server = "listen" /\ up /\ legacy < MaxLegacy /\ legacy' = legacy + 1
    /\ UNCHANGED <<server, sdkVars, hook, queueVars, beatVars, up, writes, subscribes>>

\* resources/unsubscribe, or the end of a listen stream: first the handler...
Unsubscribe(p) ==
    /\ phase[p] = "live" /\ phase' = [phase EXCEPT ![p] = "ungated"]
    /\ IF server = "listen" THEN Release(p[2]) ELSE UNCHANGED watched
    /\ UNCHANGED <<server, owed, lost, hook, queueVars, touching, touched, up, countVars>>

\* ... then the SDK forgets it.
Forget(p) ==
    /\ phase[p] = "ungated" /\ phase' = [phase EXCEPT ![p] = "none"] /\ owed' = owed \ {p}
    /\ UNCHANGED <<server, lost, hook, queueVars, beatVars, up, countVars>>

\* A session that ends: no handler is called.  A listen stream has no session.
Close(s) ==
    /\ server # "listen" /\ \E u \in Uris : phase[<<s, u>>] = "live"
    /\ phase' = [p \in Pairs |-> IF p[1] = s /\ phase[p] = "live" THEN "none" ELSE phase[p]]
    /\ owed' = {p \in owed : p[1] # s}
    /\ UNCHANGED <<server, lost, hook, queueVars, beatVars, up, countVars>>
------------------------------------------------------------------------------
\* A mutation of the Tasks store is done; its goroutine is in OnChange.
Write(w, u) ==
    /\ up /\ hook[w] = NoUri /\ writes < MaxWrites /\ writes' = writes + 1
    /\ hook' = [hook EXCEPT ![w] = u] /\ owed' = owed \cup Live(u)
    /\ UNCHANGED <<server, phase, lost, queueVars, beatVars, up, subscribes, legacy>>

\* srv.SDK().ResourceUpdated
ResourceUpdated(u) == owed' = owed \ Live(u)

\* OnChange of the direct servers.
PushDirect(w) ==
    /\ server # "queued" /\ hook[w] # NoUri /\ ResourceUpdated(hook[w])
    /\ hook' = [hook EXCEPT ![w] = NoUri]
    /\ UNCHANGED <<server, phase, lost, queueVars, beatVars, up, countVars>>

\* OnChange of the queued server never blocks: it drops when the channel is full.
PushQueued(w) ==
    /\ server = "queued" /\ hook[w] # NoUri
    /\ IF Len(events) < EventBuffer
       THEN events' = Append(events, hook[w]) /\ UNCHANGED <<owed, lost>>
       ELSE /\ owed' = {p \in owed : p[2] # hook[w] \/ hook[w] \in Range(events) \cup {holding}}
            /\ lost' = lost \cup (owed \ owed') /\ UNCHANGED events
    /\ hook' = [hook EXCEPT ![w] = NoUri]
    /\ UNCHANGED <<server, phase, watcher, holding, beatVars, up, countVars>>

\* Bug: the loop runs on the ctx of the request that started it.
ReceiveWhileAsked ==
    /\ watcher = "on" /\ holding = NoUri /\ events # <<>> /\ \E p \in Pairs : phase[p] = "gated"
    /\ holding' = Head(events) /\ events' = Tail(events)
    /\ UNCHANGED <<server, sdkVars, hook, watcher, beatVars, up, countVars>>

\* The watcher inside RetryLoop: case id := <-events, then ResourceUpdated.
Receive ==
    /\ watcher = "on" /\ holding = NoUri /\ events # <<>>
    /\ holding' = Head(events) /\ events' = Tail(events)
    /\ UNCHANGED <<server, sdkVars, hook, watcher, beatVars, up, countVars>>

Announce ==
    /\ holding # NoUri /\ ResourceUpdated(holding) /\ holding' = NoUri
    /\ UNCHANGED <<server, phase, lost, hook, events, watcher, beatVars, up, countVars>>
------------------------------------------------------------------------------
\* watchHeartbeat.run: copy the watched URIs under the lock, touch them without it.
Tick ==
    /\ server = "listen" /\ up /\ touching = {}
    /\ touching' = {u \in Uris : watched[u] > 0} /\ touched' = NoUri
    /\ UNCHANGED <<server, sdkVars, hook, queueVars, watched, up, countVars>>

Touch(u) ==
    /\ u \in touching /\ touching' = touching \ {u} /\ touched' = u /\ ResourceUpdated(u)
    /\ UNCHANGED <<server, phase, lost, hook, queueVars, watched, up, countVars>>

\* ctx.Done: the watcher and the heartbeat return, httpSrv.Shutdown.
Shutdown ==
    /\ up /\ up' = FALSE
    /\ UNCHANGED <<server, sdkVars, hook, queueVars, beatVars, countVars>>
WatcherExits ==
    /\ ~up /\ watcher = "on" /\ holding = NoUri /\ watcher' = "done"
    /\ UNCHANGED <<server, sdkVars, hook, events, holding, beatVars, up, countVars>>

Next ==
    \/ \E p \in Pairs : Subscribe(p) \/ Record(p) \/ Unsubscribe(p) \/ Forget(p)
    \/ \E s \in Sessions : Close(s)
    \/ \E u \in Uris : Legacy(u) \/ Touch(u)
    \/ \E w \in Writers : PushDirect(w) \/ PushQueued(w) \/ \E u \in Uris : Write(w, u)
    \/ Receive \/ Announce \/ Tick \/ Shutdown \/ WatcherExits
Spec == Init /\ [][Next]_vars

\* Goroutines run and the ticker ticks; clients and writes are free.
Fairness ==
    /\ \A p \in Pairs : WF_vars(Record(p)) /\ WF_vars(Forget(p))
    /\ \A w \in Writers : WF_vars(PushDirect(w)) /\ WF_vars(PushQueued(w))
    /\ \A u \in Uris : WF_vars(Touch(u))
    /\ WF_vars(Receive) /\ WF_vars(Announce) /\ WF_vars(Tick) /\ WF_vars(WatcherExits)
FairSpec == Spec /\ Fairness
------------------------------------------------------------------------------
\* A subscription is counted from its gate to its release, and by no one else:
\* "a legacy subscribe ... would leak watchHeartbeat's refcount".
WatchedWhileStreaming ==
    server = "listen" =>
        \A u \in Uris : watched[u] = Cardinality({p \in Pairs : p[2] = u /\ phase[p] \in {"gated", "live"}})

\* "the server must touch every watched URI on an interval": a live listen stream
\* hears from the server again, whatever other streams of its URI come and go (with a
\* -heartbeat above 0).
StreamsBeat ==
    \A p \in Pairs : server = "listen" /\ phase[p] = "live" ~> touched = p[2] \/ phase[p] # "live" \/ ~up

\* A write to a URI somebody is subscribed to when it happens reaches that session,
\* unless its event is dropped, the session leaves or the server shuts down; also
\* when the subscription is recorded only after the watcher has started.
WritesReachSubscribers == \A p \in Pairs : p \in owed ~> p \notin owed \/ ~up

\* "The SDK's subscription map is empty anyway so a dropped event would have fanned
\* out to zero sessions" (cmd/subscriptions/main.go).
DropsReachNobody == lost = {}
==============================================================================
