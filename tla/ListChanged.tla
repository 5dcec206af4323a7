----------------------------- MODULE ListChanged -----------------------------
(***************************************************************************)
(* From a write in the Tasks store to a client that re-reads the list: the *)
(* change feed, the generated watcher goroutine that RetryLoop drives      *)
(* (internal/gen/templates/file.go.tmpl) and NotifyResourceListChanged     *)
(* (pkg/protomcp/list_changed.go), which adds and removes a sentinel       *)
(* template so that the SDK, after its debounce, tells every session.      *)
(***************************************************************************)
EXTENDS ChangeFeed, RetryLoop

CONSTANTS DirectCallers,  \* goroutines calling NotifyResourceListChanged themselves
          NoStream

VARIABLES fn,             \* the watcher in RetryLoop's fn: "out", "dial", "recv", "notify"
          opened,         \* streams the watcher has opened
          conn,           \* the latest of them
          received,       \* received[c]: messages Recv has returned
          notifying,      \* goroutines between adding and removing the sentinel
          sentinel,       \* the sentinel is in the SDK's registry
          debounce,       \* the SDK's debounce timer is armed
          unread,         \* a list_changed the client has not acted on
          clientVersion   \* history: the version the client last listed

watcherVars == <<fn, opened, conn, received>>
sdkVars == <<notifying, sentinel, debounce>>
clientVars == <<unread, clientVersion>>
listVars == <<feedVars, loopVars, watcherVars, sdkVars, clientVars>>

Notifiers == DirectCallers \cup {"watcher"}

ListInit ==
    /\ FeedInit /\ Init
    /\ fn = "out" /\ opened = {} /\ conn = NoStream
    /\ received = [c \in Watches |-> 0]
    /\ notifying = {} /\ sentinel = FALSE /\ debounce = FALSE
    /\ unread = FALSE /\ clientVersion = 0
------------------------------------------------------------------------------
\* stream, err := client.WatchResourceChanges(ctx, ...)
Dial ==
    /\ CallFn /\ fn' = "dial"
    /\ UNCHANGED <<feedVars, opened, conn, received, sdkVars, clientVars>>

DialFails ==
    /\ fn = "dial" /\ FnReturns /\ fn' = "out"
    /\ UNCHANGED <<feedVars, opened, conn, received, sdkVars, clientVars>>

\* The call returns before the server's handler has run.  A new stream is any one of
\* those not used yet.
OpenStream(c) ==
    /\ fn = "dial" /\ c \notin opened /\ c = CHOOSE d \in Watches : d \notin opened
    /\ fn' = "recv" /\ conn' = c /\ opened' = opened \cup {c}
    /\ UNCHANGED <<feedVars, loopVars, received, sdkVars, clientVars>>

\* Bug: the first message is taken for a greeting, and only resets the backoff.
RecvSkipFirst ==
    /\ fn = "recv" /\ received[conn] < events[conn]
    /\ received' = [received EXCEPT ![conn] = @ + 1]
    /\ Reset
    /\ fn' = IF received[conn] = 0 THEN "recv" ELSE "notify"
    /\ UNCHANGED <<feedVars, opened, conn, sdkVars, clientVars>>

\* stream.Recv(); reset()
Recv ==
    /\ fn = "recv" /\ received[conn] < events[conn]
    /\ received' = [received EXCEPT ![conn] = @ + 1]
    /\ Reset
    /\ fn' = "notify"
    /\ UNCHANGED <<feedVars, opened, conn, sdkVars, clientVars>>

\* The stream is broken or ctx is done; what was in transit may be lost.
Broken == crashed \/ cancelled \/ (conn # NoStream /\ ctxDone[conn])

\* Bug: an error that comes from ctx makes the loop call Recv again.
RecvSpins ==
    /\ fn = "recv" /\ Broken /\ ~cancelled /\ FnReturns /\ fn' = "out"
    /\ UNCHANGED <<feedVars, opened, conn, received, sdkVars, clientVars>>

RecvFails ==
    /\ fn = "recv" /\ Broken /\ FnReturns /\ fn' = "out"
    /\ UNCHANGED <<feedVars, opened, conn, received, sdkVars, clientVars>>

\* s.sdk.AddResourceTemplate: adding, or replacing, arms the debounce timer.
AddSentinel(n) ==
    /\ n \notin notifying /\ (n = "watcher" => fn = "notify")
    /\ notifying' = notifying \cup {n}
    /\ sentinel' = TRUE /\ debounce' = TRUE
    /\ UNCHANGED <<feedVars, loopVars, watcherVars, clientVars>>

\* Bug: remove first, then add.
RemoveThenAdd(n) ==
    /\ n \in notifying /\ notifying' = notifying \ {n}
    /\ sentinel' = TRUE /\ debounce' = TRUE
    /\ fn' = IF n = "watcher" THEN "recv" ELSE fn
    /\ UNCHANGED <<feedVars, loopVars, opened, conn, received, clientVars>>

\* s.sdk.RemoveResourceTemplates: a change only if it is there.
RemoveSentinel(n) ==
    /\ n \in notifying /\ notifying' = notifying \ {n}
    /\ sentinel' = FALSE
    /\ debounce' = (debounce \/ sentinel)
    /\ fn' = IF n = "watcher" THEN "recv" ELSE fn
    /\ UNCHANGED <<feedVars, loopVars, opened, conn, received, clientVars>>

\* The SDK's timer: notifications/resources/list_changed goes out.
DebounceFires ==
    /\ debounce /\ debounce' = FALSE /\ unread' = TRUE
    /\ UNCHANGED <<feedVars, loopVars, watcherVars, notifying, sentinel, clientVersion>>

\* The client calls resources/list, which reads the store through ListAllResources.
Relist ==
    /\ unread /\ ~crashed /\ unread' = FALSE /\ clientVersion' = version
    /\ UNCHANGED <<feedVars, loopVars, watcherVars, sdkVars>>
------------------------------------------------------------------------------
\* The feed's and the loop's own steps.  The server's handler starts only on a
\* stream the watcher has opened.
FeedStep ==
    /\ \/ \E w \in Writers : Write(w) \/ WriterStep(w)
       \/ \E c \in opened : Subscribe(c) \/ CancelStream(c) \/ WatchStep(c)
    /\ UNCHANGED <<loopVars, watcherVars, sdkVars, clientVars>>

LoopStep ==
    /\ Cancel \/ ExitAtTop \/ TimerFires \/ WakeOnCancel
    /\ UNCHANGED <<feedVars, watcherVars, sdkVars, clientVars>>

ListNext ==
    \/ FeedStep \/ LoopStep
    \/ Dial \/ DialFails \/ Recv \/ RecvFails \/ DebounceFires \/ Relist
    \/ \E c \in Watches : OpenStream(c)
    \/ \E n \in Notifiers : AddSentinel(n) \/ RemoveSentinel(n)

ListSpec == ListInit /\ [][ListNext]_listVars

\* A step of the watcher's goroutine, when it is not up to the network.
WatcherStep ==
    \/ Dial \/ (cancelled /\ DialFails) \/ Recv \/ RecvFails
    \/ AddSentinel("watcher") \/ RemoveSentinel("watcher")
    \/ LoopStep /\ ~Cancel

\* Goroutines of both processes run, the SDK's timer fires, the client relists.
\* Writes, cancellations, broken streams, failing dials and direct calls are free.
ListFairness ==
    /\ \A w \in Writers : WF_listVars(WriterStep(w) /\ FeedStep)
    /\ \A c \in Watches : WF_listVars(c \in opened /\ (Subscribe(c) \/ WatchStep(c)) /\ FeedStep)
    /\ WF_listVars(WatcherStep)
    /\ \A n \in DirectCallers : WF_listVars(RemoveSentinel(n))
    /\ WF_listVars(DebounceFires) /\ WF_listVars(Relist)
ListFairSpec == ListSpec /\ ListFairness
------------------------------------------------------------------------------
\* What the watcher adds to the types of its parts.
WatcherTypeOK ==
    /\ fn \in {"out", "dial", "recv", "notify"} /\ (fn # "out" <=> loop = "fn")
    /\ opened \subseteq Watches /\ conn \in Watches \cup {NoStream}
    /\ fn \in {"recv", "notify"} => conn \in opened
    /\ received \in [Watches -> Nat]
    /\ notifying \subseteq Notifiers /\ ("watcher" \in notifying => fn = "notify")
    /\ sentinel \in BOOLEAN /\ debounce \in BOOLEAN
    /\ unread \in BOOLEAN /\ clientVersion \in 0..version
ListTypeOK == FeedTypeOK /\ TypeOK /\ WatcherTypeOK

\* A client can see the sentinel only while some call is between its add and
\* its remove, however the calls overlap: none is left behind.
SentinelOnlyInsideCall == sentinel => notifying # {}

Connected == fn \in {"recv", "notify"} /\ watch[conn] \in {"wait", "send"}

\* While the watcher is connected, a write it was subscribed for and the client
\* has not listed is somewhere on its way: in the feed, on the wire, in the
\* watcher, in the SDK's timer or in the client's inbox.
ChangeOnItsWay ==
    Connected /\ since[conn] < version /\ clientVersion < version =>
        \/ buffer[conn] > 0 \/ watch[conn] = "send"
        \/ \E w \in Writers : writer[w] = "emit" \/ conn \in targets[w]
        \/ received[conn] < events[conn] \/ fn = "notify"
        \/ debounce \/ unread

\* ... and it arrives: the client lists a version at least as new, unless the
\* stream breaks, the backend crashes or ctx is cancelled first.
FreshWhileConnected ==
    \A n \in 1..MaxWrites :
        Connected /\ since[conn] < n /\ version >= n
            ~> clientVersion >= n \/ Broken

\* "watchers exit when ctx is canceled" (file.go.tmpl): also out of Recv, a
\* dial or a sleep.
WatcherExits == cancelled ~> loop = "done"

\* "fires notifications/resources/list_changed on every CRUD mutation"
\* (examples/tasks/README.md): once the watcher has opened a stream, a write
\* committed after that is one the client gets to list, unless that stream
\* breaks, the backend crashes or ctx is cancelled.  Opening the stream is the
\* watcher's half; the backend's handler subscribes only later.
MutationsReachClient ==
    \A n \in 1..MaxWrites, c \in Watches :
        [](fn \in {"recv", "notify"} /\ conn = c /\ version < n =>
             [](version >= n => <>(clientVersion >= n \/ crashed \/ cancelled \/ ctxDone[c])))
==============================================================================
