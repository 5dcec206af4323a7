----------------------------- MODULE ChangeFeed -----------------------------
(***************************************************************************)
(* The Tasks store's change feed (examples/tasks/server/server.go).  Each  *)
(* gRPC handler runs on its own goroutine: a write commits under mu, then, *)
(* with no lock held, copies the subscriber channels under changesMu and   *)
(* sends each of them a non-blocking tick.  Each WatchResourceChanges call *)
(* subscribes a channel of its own, turns ticks into stream events, and    *)
(* unsubscribes on the way out, closing the channel.                       *)
(***************************************************************************)
EXTENDS Naturals, FiniteSets

CONSTANTS Writers,    \* goroutines serving CreateTask, UpdateTask, DeleteTask
          Watches,    \* WatchResourceChanges calls; each owns one channel
          Slow,       \* those whose Send may block for ever
          TaskIds,    \* ids newID can produce
          Capacity,   \* the channel's buffer, 8
          MaxWrites   \* bound: successful writes

ASSUME FeedOK == Capacity \in Nat \ {0} /\ MaxWrites \in Nat /\ Slow \subseteq Watches

VARIABLES tasks,      \* the ids in the store
          created,    \* history: ids ever created (newID does not repeat)
          version,    \* history: number of successful writes
          writer,     \* writer[w]: "idle", "emit" or "send"
          targets,    \* targets[w]: copied channels w has still to tick
          watch,      \* watch[c]: "new", "wait", "send", "leave", "done"
          buffer,     \* buffer[c]: ticks in c's channel
          ctxDone,    \* ctxDone[c]: the stream's context is cancelled
          events,     \* history: events c's stream has sent
          since,      \* history: version when c subscribed
          seen,       \* history: version at c's last Send, or at its subscription
          crashed     \* a panic in a handler goroutine took the process down

storeVars == <<tasks, created, version>>
writerVars == <<writer, targets>>
watchVars == <<watch, buffer, ctxDone, events, since, seen>>
feedVars == <<storeVars, writerVars, watchVars, crashed>>

Subscribed == {c \in Watches : watch[c] \in {"wait", "send", "leave"}}

FeedInit ==
    /\ tasks = {} /\ created = {} /\ version = 0
    /\ writer = [w \in Writers |-> "idle"]
    /\ targets = [w \in Writers |-> {}]
    /\ watch = [c \in Watches |-> "new"]
    /\ buffer = [c \in Watches |-> 0]
    /\ ctxDone = [c \in Watches |-> FALSE]
    /\ events = [c \in Watches |-> 0]
    /\ since = [c \in Watches |-> 0]
    /\ seen = [c \in Watches |-> 0]
    /\ crashed = FALSE
------------------------------------------------------------------------------
\* The writes.  A failed write (missing id or title, NotFound, a delete of an
\* absent task) returns before emitChange and changes nothing.
Commit(w, newTasks) ==
    /\ ~crashed /\ writer[w] = "idle" /\ version < MaxWrites
    /\ tasks' = newTasks /\ version' = version + 1
    /\ writer' = [writer EXCEPT ![w] = "emit"]
    /\ UNCHANGED <<targets, watchVars, crashed>>

CreateTask(w, id) ==
    /\ id \notin created /\ created' = created \cup {id}
    /\ Commit(w, tasks \cup {id})

UpdateTask(w, id) ==
    /\ id \in tasks /\ UNCHANGED created
    /\ Commit(w, tasks)

DeleteTask(w, id) ==
    /\ id \in tasks /\ UNCHANGED created
    /\ Commit(w, tasks \ {id})

\* broadcastChange, under changesMu: copy the channels.
CopySubscribers(w) ==
    /\ ~crashed /\ writer[w] = "emit"
    /\ targets' = [targets EXCEPT ![w] = Subscribed]
    /\ writer' = [writer EXCEPT ![w] = "send"]
    /\ UNCHANGED <<storeVars, watchVars, crashed>>

\* Bug: an unbuffered channel, so a handler that is not yet back in its select
\* misses the tick.
TickUnbuffered(w, c) ==
    /\ ~crashed /\ writer[w] = "send" /\ c \in targets[w] /\ watch[c] # "done"
    /\ targets' = [targets EXCEPT ![w] = @ \ {c}]
    /\ \/ watch[c] = "wait" /\ buffer' = [buffer EXCEPT ![c] = 1]
       \/ UNCHANGED buffer
    /\ UNCHANGED <<storeVars, writer, watch, ctxDone, events, since, seen, crashed>>

\* Bug: ch <- struct{}{} without the default case.
TickBlocking(w, c) ==
    /\ ~crashed /\ writer[w] = "send" /\ c \in targets[w] /\ buffer[c] < Capacity
    /\ targets' = [targets EXCEPT ![w] = @ \ {c}]
    /\ buffer' = [buffer EXCEPT ![c] = @ + 1]
    /\ UNCHANGED <<storeVars, writer, watch, ctxDone, events, since, seen, crashed>>

\* select { case ch <- struct{}{}: default: }, in map order.  A send on a
\* channel its owner has closed panics, select or not.
Tick(w, c) ==
    /\ ~crashed /\ writer[w] = "send" /\ c \in targets[w]
    /\ targets' = [targets EXCEPT ![w] = @ \ {c}]
    /\ IF watch[c] = "done" THEN crashed' = TRUE /\ UNCHANGED buffer
       ELSE /\ buffer' = [buffer EXCEPT ![c] = IF @ < Capacity THEN @ + 1 ELSE @]
            /\ UNCHANGED crashed
    /\ UNCHANGED <<storeVars, writer, watch, ctxDone, events, since, seen>>

WriteReturns(w) ==
    /\ ~crashed /\ writer[w] = "send" /\ targets[w] = {}
    /\ writer' = [writer EXCEPT ![w] = "idle"]
    /\ UNCHANGED <<storeVars, targets, watchVars, crashed>>
------------------------------------------------------------------------------
\* WatchResourceChanges: subscribe.
Subscribe(c) ==
    /\ ~crashed /\ watch[c] = "new"
    /\ watch' = [watch EXCEPT ![c] = "wait"]
    /\ since' = [since EXCEPT ![c] = version]
    /\ seen' = [seen EXCEPT ![c] = version]
    /\ UNCHANGED <<storeVars, writerVars, buffer, ctxDone, events, crashed>>

\* The client goes away or the connection breaks.
CancelStream(c) ==
    /\ ~crashed /\ watch[c] \in {"wait", "send"} /\ ~ctxDone[c]
    /\ ctxDone' = [ctxDone EXCEPT ![c] = TRUE]
    /\ UNCHANGED <<storeVars, writerVars, watch, buffer, events, since, seen, crashed>>

\* case <-ch
TakeTick(c) ==
    /\ ~crashed /\ watch[c] = "wait" /\ buffer[c] > 0
    /\ buffer' = [buffer EXCEPT ![c] = @ - 1]
    /\ watch' = [watch EXCEPT ![c] = "send"]
    /\ UNCHANGED <<storeVars, writerVars, ctxDone, events, since, seen, crashed>>

\* Bug: the handler sends one event more when it finds the channel empty.
SendTwice(c) ==
    /\ ~crashed /\ watch[c] = "send"
    /\ watch' = [watch EXCEPT ![c] = "wait"]
    /\ events' = [events EXCEPT ![c] = @ + (IF buffer[c] = 0 THEN 2 ELSE 1)]
    /\ seen' = [seen EXCEPT ![c] = version]
    /\ UNCHANGED <<storeVars, writerVars, buffer, ctxDone, since, crashed>>

\* stream.Send succeeds...
SendEvent(c) ==
    /\ ~crashed /\ watch[c] = "send"
    /\ watch' = [watch EXCEPT ![c] = "wait"]
    /\ events' = [events EXCEPT ![c] = @ + 1]
    /\ seen' = [seen EXCEPT ![c] = version]
    /\ UNCHANGED <<storeVars, writerVars, buffer, ctxDone, since, crashed>>

\* ... or fails, or case <-ctx.Done() is taken.
Leave(c) ==
    /\ ~crashed /\ watch[c] \in {"wait", "send"} /\ ctxDone[c]
    /\ watch' = [watch EXCEPT ![c] = "leave"]
    /\ UNCHANGED <<storeVars, writerVars, buffer, ctxDone, events, since, seen, crashed>>

\* The deferred unsub, under changesMu: delete the channel and close it.
Unsubscribe(c) ==
    /\ ~crashed /\ watch[c] = "leave"
    /\ watch' = [watch EXCEPT ![c] = "done"]
    /\ UNCHANGED <<storeVars, writerVars, buffer, ctxDone, events, since, seen, crashed>>

WriterStep(w) == CopySubscribers(w) \/ WriteReturns(w) \/ \E c \in Watches : Tick(w, c)
WatchStep(c) == TakeTick(c) \/ SendEvent(c) \/ Leave(c) \/ Unsubscribe(c)
Write(w) == \E id \in TaskIds : CreateTask(w, id) \/ UpdateTask(w, id) \/ DeleteTask(w, id)

FeedNext ==
    \/ \E w \in Writers : Write(w) \/ WriterStep(w)
    \/ \E c \in Watches : Subscribe(c) \/ CancelStream(c) \/ WatchStep(c)

FeedSpec == FeedInit /\ [][FeedNext]_feedVars

\* Handler goroutines run; those of slow streams need not.
FeedFairness ==
    /\ \A w \in Writers : WF_feedVars(WriterStep(w))
    /\ \A c \in Watches \ Slow : WF_feedVars(WatchStep(c))
FeedFairSpec == FeedSpec /\ FeedFairness
------------------------------------------------------------------------------
FeedTypeOK ==
    /\ tasks \subseteq created /\ created \subseteq TaskIds
    /\ version \in 0..MaxWrites
    /\ writer \in [Writers -> {"idle", "emit", "send"}]
    /\ targets \in [Writers -> SUBSET Watches]
    /\ watch \in [Watches -> {"new", "wait", "send", "leave", "done"}]
    /\ buffer \in [Watches -> 0..Capacity]
    /\ ctxDone \in [Watches -> BOOLEAN]
    /\ events \in [Watches -> Nat]
    /\ since \in [Watches -> Nat] /\ seen \in [Watches -> Nat]
    /\ crashed \in BOOLEAN

\* A dropped tick loses nothing: as long as a stream has not sent an event
\* after the latest write, a tick for it is pending, or being turned into an
\* event, or some writer has still to send it one.
TriggerPending ==
    \A c \in Watches : watch[c] \in {"wait", "send"} /\ seen[c] < version =>
        \/ buffer[c] > 0 \/ watch[c] = "send"
        \/ \E w \in Writers : writer[w] = "emit" \/ c \in targets[w]

\* No stream sends more events than there were writes, whatever the
\* interleaving of ticks: events, pending ticks and ticks to come add up to at
\* most the writes.
AtMostOneEventPerWrite ==
    \A c \in Watches :
        events[c] + buffer[c] + (IF watch[c] = "send" THEN 1 ELSE 0)
            + Cardinality({w \in Writers : writer[w] = "emit" \/ c \in targets[w]})
        <= version

\* Every write is followed by an event on every stream that stays up and whose
\* Send gets through, whatever the slow ones do.
WriteIsAnnounced ==
    \A c \in Watches \ Slow, n \in 1..MaxWrites :
        watch[c] \in {"wait", "send"} /\ version = n
            ~> seen[c] >= n \/ ctxDone[c] \/ crashed

\* "Slow consumers drop ticks rather than block mutations": a write returns
\* even when a stream makes no progress for ever.
WritesNeverBlock ==
    \A w \in Writers : writer[w] # "idle" ~> writer[w] = "idle" \/ crashed

\* "Safe for concurrent use" (server.go:27): no interleaving of writes and
\* streams takes the process down.
NeverCrashes == ~crashed
==============================================================================
