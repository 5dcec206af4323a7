-------------------------- MODULE ListChangedProofs --------------------------
(***************************************************************************)
(* From a write to a re-read, proved part by part and then together: the   *)
(* feed loses no trigger and sends no more events than there were writes,  *)
(* the retry loop keeps its backoff, both do so as parts of the            *)
(* composition, and there the change a client has not listed is always     *)
(* somewhere on its way.                                                   *)
(***************************************************************************)
EXTENDS ListChanged, FiniteSetTheorems, TLAPS

\* ----- The change feed, alone -----

FeedIInv == FeedTypeOK /\ TriggerPending

LEMMA FeedInitially == FeedInit => FeedIInv
<1> SUFFICES ASSUME FeedInit PROVE FeedIInv
  OBVIOUS
<1>1. FeedTypeOK
  <2>1. version \in 0..MaxWrites
    BY FeedOK DEF FeedInit
  <2>2. buffer \in [Watches -> 0..Capacity]
    BY FeedOK DEF FeedInit
  <2> QED
    BY <2>1, <2>2 DEF FeedInit, FeedTypeOK
<1>2. TriggerPending
  BY DEF FeedInit, TriggerPending
<1> QED
  BY <1>1, <1>2 DEF FeedIInv

\* A committed write owes a tick to everyone: its writer is at "emit".
LEMMA CommitKeeps ==
  ASSUME FeedIInv, NEW w \in Writers, NEW newTasks, Commit(w, newTasks),
         newTasks \subseteq created', created' \subseteq TaskIds
  PROVE  FeedIInv'
<1>1. FeedTypeOK'
  <2>1. version' \in 0..MaxWrites
    BY FeedOK DEF FeedIInv, FeedTypeOK, Commit
  <2>2. writer' \in [Writers -> {"idle", "emit", "send"}]
    BY DEF FeedIInv, FeedTypeOK, Commit
  <2> QED
    BY <2>1, <2>2 DEF FeedIInv, FeedTypeOK, Commit, watchVars
<1>2. writer'[w] = "emit"
  BY DEF FeedIInv, FeedTypeOK, Commit
<1>3. TriggerPending'
  BY <1>2 DEF TriggerPending
<1> QED
  BY <1>1, <1>3 DEF FeedIInv

LEMMA WriteKeeps ==
  ASSUME FeedIInv, NEW w \in Writers, Write(w) PROVE FeedIInv'
<1> PICK id \in TaskIds : CreateTask(w, id) \/ UpdateTask(w, id) \/ DeleteTask(w, id)
  BY DEF Write
<1>1. CASE CreateTask(w, id)
  BY <1>1, CommitKeeps DEF CreateTask, FeedIInv, FeedTypeOK
<1>2. CASE UpdateTask(w, id)
  BY <1>2, CommitKeeps DEF UpdateTask, FeedIInv, FeedTypeOK
<1>3. CASE DeleteTask(w, id)
  BY <1>3, CommitKeeps DEF DeleteTask, FeedIInv, FeedTypeOK
<1> QED
  BY <1>1, <1>2, <1>3

\* The copy holds every subscribed channel, so the debt moves from "emit" to
\* targets; a tick moves it on into the buffer, which holds at least one.
LEMMA WriterKeeps ==
  ASSUME FeedIInv, NEW w \in Writers, WriterStep(w) PROVE FeedIInv'
<1> USE DEF FeedIInv, FeedTypeOK, storeVars, watchVars, Subscribed
<1>1. CASE CopySubscribers(w)
  <2>1. FeedTypeOK'
    BY <1>1 DEF CopySubscribers
  <2>2. TriggerPending'
    BY <1>1 DEF CopySubscribers, TriggerPending
  <2> QED
    BY <2>1, <2>2
<1>2. CASE WriteReturns(w)
  <2>1. FeedTypeOK'
    BY <1>2 DEF WriteReturns
  <2>2. TriggerPending'
    BY <1>2 DEF WriteReturns, TriggerPending
  <2> QED
    BY <2>1, <2>2
<1>3. ASSUME NEW c \in Watches, Tick(w, c) PROVE FeedIInv'
  <2>1. FeedTypeOK'
    <3>1. buffer' \in [Watches -> 0..Capacity]
      <4>1. CASE watch[c] = "done"
        BY <1>3, <4>1 DEF Tick
      <4>2. CASE watch[c] # "done"
        <5>1. (IF buffer[c] < Capacity THEN buffer[c] + 1 ELSE buffer[c]) \in 0..Capacity
          BY FeedOK
        <5> QED
          BY <1>3, <4>2, <5>1 DEF Tick
      <4> QED
        BY <4>1, <4>2
    <3>3. crashed' \in BOOLEAN
      BY <1>3 DEF Tick
    <3>2. targets' \in [Writers -> SUBSET Watches]
      BY <1>3 DEF Tick
    <3> QED
      BY <1>3, <3>1, <3>2, <3>3 DEF Tick
  <2>2. watch[c] # "done" => buffer'[c] > 0
    BY <1>3, FeedOK DEF Tick
  <2>3. \A d \in Watches : buffer[d] > 0 => buffer'[d] > 0
    BY <1>3, FeedOK DEF Tick
  <2>4. \A v \in Writers, d \in Watches :
            d # c /\ (writer[v] = "emit" \/ d \in targets[v])
                => writer'[v] = "emit" \/ d \in targets'[v]
    BY <1>3 DEF Tick
  <2>5. UNCHANGED <<watch, seen, version>>
    BY <1>3 DEF Tick
  <2>6. TriggerPending'
    BY <2>2, <2>3, <2>4, <2>5 DEF TriggerPending
  <2> QED
    BY <2>1, <2>6
<1> QED
  BY <1>1, <1>2, <1>3 DEF WriterStep

\* A stream gives up its last pending tick only on the way to sending an event.
LEMMA WatchKeeps ==
  ASSUME FeedIInv, NEW c \in Watches,
         Subscribe(c) \/ CancelStream(c) \/ WatchStep(c)
  PROVE  FeedIInv'
<1> USE DEF FeedIInv, FeedTypeOK, storeVars, writerVars
<1>1. CASE Subscribe(c)
  <2>1. FeedTypeOK'
    BY <1>1 DEF Subscribe
  <2>2. TriggerPending'
    BY <1>1 DEF Subscribe, TriggerPending
  <2> QED
    BY <2>1, <2>2
<1>2. CASE CancelStream(c)
  <2>1. FeedTypeOK'
    BY <1>2 DEF CancelStream
  <2>2. TriggerPending'
    BY <1>2 DEF CancelStream, TriggerPending
  <2> QED
    BY <2>1, <2>2
<1>3. CASE TakeTick(c)
  <2>1. FeedTypeOK'
    BY <1>3, FeedOK DEF TakeTick
  <2>2. TriggerPending'
    BY <1>3 DEF TakeTick, TriggerPending
  <2> QED
    BY <2>1, <2>2
<1>4. CASE SendEvent(c)
  <2>1. FeedTypeOK'
    BY <1>4 DEF SendEvent
  <2>2. TriggerPending'
    BY <1>4 DEF SendEvent, TriggerPending
  <2> QED
    BY <2>1, <2>2
<1>5. CASE Leave(c)
  <2>1. FeedTypeOK'
    BY <1>5 DEF Leave
  <2>2. TriggerPending'
    BY <1>5 DEF Leave, TriggerPending
  <2> QED
    BY <2>1, <2>2
<1>6. CASE Unsubscribe(c)
  <2>1. FeedTypeOK'
    BY <1>6 DEF Unsubscribe
  <2>2. TriggerPending'
    BY <1>6 DEF Unsubscribe, TriggerPending
  <2> QED
    BY <2>1, <2>2
<1> QED
  BY <1>1, <1>2, <1>3, <1>4, <1>5, <1>6 DEF WatchStep

LEMMA FeedInductive == FeedIInv /\ [FeedNext]_feedVars => FeedIInv'
<1> SUFFICES ASSUME FeedIInv, [FeedNext]_feedVars PROVE FeedIInv'
  OBVIOUS
<1>1. CASE FeedNext
  BY <1>1, WriteKeeps, WriterKeeps, WatchKeeps DEF FeedNext
<1>2. CASE UNCHANGED feedVars
  BY <1>2 DEF feedVars, storeVars, writerVars, watchVars, FeedIInv, FeedTypeOK, TriggerPending
<1> QED
  BY <1>1, <1>2

\* As long as a stream has not sent an event since the latest write, a tick for
\* it is buffered, being sent, or owed by a writer, whatever was dropped.
THEOREM TriggersNeverLost == FeedSpec => []TriggerPending
<1>1. FeedIInv => TriggerPending
  BY DEF FeedIInv
<1> QED
  BY FeedInitially, FeedInductive, <1>1, PTL DEF FeedSpec

\* No channel ever holds more than its capacity and the store stays well formed.
THEOREM FeedTypeCorrect == FeedSpec => []FeedTypeOK
<1>1. FeedIInv => FeedTypeOK
  BY DEF FeedIInv
<1> QED
  BY FeedInitially, FeedInductive, <1>1, PTL DEF FeedSpec

\* No more events than writes.  What is still to come on c's stream are the writers
\* that owe it a tick: finitely many, since each of them has committed.
Owing(c) == {w \in Writers : writer[w] = "emit" \/ c \in targets[w]}

InSend(c) == IF watch[c] = "send" THEN 1 ELSE 0

EventsInv ==
    \A c \in Watches :
        /\ IsFiniteSet(Owing(c))
        /\ events[c] + buffer[c] + InSend(c) + Cardinality(Owing(c)) <= version

LEMMA EventsInitially == FeedInit => EventsInv
<1> SUFFICES ASSUME FeedInit, NEW c \in Watches
             PROVE  /\ IsFiniteSet(Owing(c))
                    /\ events[c] + buffer[c] + InSend(c) + Cardinality(Owing(c)) <= version
  BY DEF EventsInv
<1>1. Owing(c) = {}
  BY DEF FeedInit, Owing
<1> QED
  BY <1>1, FS_EmptySet DEF FeedInit, InSend

\* A stream's sum grows by no more than the version does.
LEMMA EventsSumKept ==
  ASSUME FeedTypeOK, FeedTypeOK', EventsInv, NEW c \in Watches,
         Owing(c)' \subseteq Owing(c),
         events'[c] + buffer'[c] + InSend(c)' <= events[c] + buffer[c] + InSend(c),
         version' = version
  PROVE  /\ IsFiniteSet(Owing(c)')
         /\ events'[c] + buffer'[c] + InSend(c)' + Cardinality(Owing(c)') <= version'
<1>1. /\ IsFiniteSet(Owing(c)) /\ Cardinality(Owing(c)) \in Nat
      /\ IsFiniteSet(Owing(c)') /\ Cardinality(Owing(c)') \in Nat
      /\ Cardinality(Owing(c)') <= Cardinality(Owing(c))
  BY FS_Subset, FS_CardinalityType DEF EventsInv
<1>2. /\ events[c] \in Nat /\ buffer[c] \in Nat /\ InSend(c) \in Nat /\ version \in Nat
      /\ events'[c] \in Nat /\ buffer'[c] \in Nat /\ InSend(c)' \in Nat
  BY FeedOK DEF FeedTypeOK, InSend
<1>3. events[c] + buffer[c] + InSend(c) + Cardinality(Owing(c)) <= version
  BY DEF EventsInv
<1> QED
  BY <1>1, <1>2, <1>3

LEMMA CommitCounts ==
  ASSUME FeedTypeOK, EventsInv, NEW w \in Writers, NEW newTasks, Commit(w, newTasks)
  PROVE  EventsInv'
<1> SUFFICES ASSUME NEW c \in Watches
             PROVE  /\ IsFiniteSet(Owing(c)')
                    /\ events'[c] + buffer'[c] + InSend(c)' + Cardinality(Owing(c)') <= version'
  BY DEF EventsInv
<1>1. Owing(c)' = Owing(c) \cup {w}
  BY DEF Commit, Owing, FeedTypeOK
<1>2. /\ IsFiniteSet(Owing(c)) /\ Cardinality(Owing(c)) \in Nat
      /\ IsFiniteSet(Owing(c)') /\ Cardinality(Owing(c)') \in Nat
      /\ Cardinality(Owing(c)') <= Cardinality(Owing(c)) + 1
  <2>1. IsFiniteSet(Owing(c)) /\ Cardinality(Owing(c)) \in Nat
    BY FS_CardinalityType DEF EventsInv
  <2>2. /\ IsFiniteSet(Owing(c) \cup {w})
        /\ Cardinality(Owing(c) \cup {w}) =
                IF w \in Owing(c) THEN Cardinality(Owing(c)) ELSE Cardinality(Owing(c)) + 1
    BY <2>1, FS_AddElement
  <2> QED
    BY <1>1, <2>1, <2>2
<1>3. /\ events[c] \in Nat /\ buffer[c] \in Nat /\ InSend(c) \in Nat /\ version \in Nat
      /\ events' = events /\ buffer' = buffer /\ InSend(c)' = InSend(c)
      /\ version' = version + 1
  BY FeedOK DEF FeedTypeOK, InSend, Commit, watchVars
<1>4. events[c] + buffer[c] + InSend(c) + Cardinality(Owing(c)) <= version
  BY DEF EventsInv
<1> QED
  BY <1>2, <1>3, <1>4

\* A tick takes the writer out of those that owe one and puts at most one into the
\* buffer; a full buffer only makes the sum smaller.
LEMMA TickCounts ==
  ASSUME FeedTypeOK, FeedTypeOK', EventsInv, NEW w \in Writers, NEW d \in Watches, Tick(w, d)
  PROVE  EventsInv'
<1> SUFFICES ASSUME NEW c \in Watches
             PROVE  /\ IsFiniteSet(Owing(c)')
                    /\ events'[c] + buffer'[c] + InSend(c)' + Cardinality(Owing(c)') <= version'
  BY DEF EventsInv
<1>0. events' = events /\ watch' = watch /\ version' = version /\ writer' = writer
  BY DEF Tick, storeVars
<1>1. CASE c # d
  <2>1. buffer'[c] = buffer[c]
    BY <1>1 DEF Tick, FeedTypeOK
  <2>2. Owing(c)' \subseteq Owing(c)
    BY <1>0, <1>1 DEF Owing, Tick, FeedTypeOK
  <2>3. events'[c] + buffer'[c] + InSend(c)' <= events[c] + buffer[c] + InSend(c)
    BY <1>0, <2>1, FeedOK DEF FeedTypeOK, InSend
  <2> QED
    BY <1>0, <2>2, <2>3, EventsSumKept
<1>2. CASE c = d
  <2>1. w \in Owing(c) /\ Owing(c)' = Owing(c) \ {w}
    BY <1>0, <1>2 DEF Owing, Tick, FeedTypeOK
  <2>2. /\ IsFiniteSet(Owing(c)) /\ Cardinality(Owing(c)) \in Nat
        /\ IsFiniteSet(Owing(c)') /\ Cardinality(Owing(c)') \in Nat
        /\ Cardinality(Owing(c)') = Cardinality(Owing(c)) - 1
    BY <2>1, FS_RemoveElement, FS_CardinalityType DEF EventsInv
  <2>3. /\ events[c] \in Nat /\ buffer[c] \in Nat /\ buffer'[c] \in Nat
        /\ InSend(c) \in Nat /\ version \in Nat /\ InSend(c)' = InSend(c)
    BY <1>0, FeedOK DEF FeedTypeOK, InSend
  <2>4. buffer'[c] <= buffer[c] + 1
    BY <1>2, <2>3 DEF Tick, FeedTypeOK
  <2>5. events[c] + buffer[c] + InSend(c) + Cardinality(Owing(c)) <= version
    BY DEF EventsInv
  <2> QED
    BY <1>0, <2>2, <2>3, <2>4, <2>5
<1> QED
  BY <1>1, <1>2

\* The other steps move a tick from the writer to the buffer to the stream, or lose it.
LEMMA EventsInductive == FeedIInv /\ EventsInv /\ [FeedNext]_feedVars => EventsInv'
<1> SUFFICES ASSUME FeedIInv, EventsInv, [FeedNext]_feedVars PROVE EventsInv'
  OBVIOUS
<1>0. FeedTypeOK /\ FeedTypeOK'
  BY FeedInductive DEF FeedIInv
<1>1. ASSUME NEW w \in Writers, Write(w) PROVE EventsInv'
  BY <1>0, <1>1, CommitCounts DEF Write, CreateTask, UpdateTask, DeleteTask
<1>2. ASSUME NEW w \in Writers, NEW c \in Watches, Tick(w, c) PROVE EventsInv'
  BY <1>0, <1>2, TickCounts
<1>3. ASSUME version' = version,
             \A c \in Watches :
                /\ Owing(c)' \subseteq Owing(c)
                /\ events'[c] + buffer'[c] + InSend(c)' <= events[c] + buffer[c] + InSend(c)
      PROVE  EventsInv'
  BY <1>0, <1>3, EventsSumKept DEF EventsInv
<1>4. \A c \in Watches : events[c] \in Nat /\ buffer[c] \in Nat /\ InSend(c) \in Nat
  BY <1>0, FeedOK DEF FeedTypeOK, InSend
<1> USE DEF FeedTypeOK, storeVars, writerVars, watchVars, Owing
<1>5. ASSUME NEW w \in Writers, CopySubscribers(w) \/ WriteReturns(w) PROVE EventsInv'
  BY <1>0, <1>3, <1>4, <1>5 DEF CopySubscribers, WriteReturns, InSend
<1>6. ASSUME NEW c \in Watches, Subscribe(c) \/ CancelStream(c) \/ Leave(c) \/ Unsubscribe(c)
      PROVE  EventsInv'
  BY <1>0, <1>3, <1>4, <1>6 DEF Subscribe, CancelStream, Leave, Unsubscribe, InSend
<1>7. ASSUME NEW c \in Watches, TakeTick(c) PROVE EventsInv'
  BY <1>0, <1>3, <1>4, <1>7 DEF TakeTick, InSend
<1>8. ASSUME NEW c \in Watches, SendEvent(c) PROVE EventsInv'
  BY <1>0, <1>3, <1>4, <1>8 DEF SendEvent, InSend
<1>9. CASE UNCHANGED feedVars
  BY <1>3, <1>4, <1>9 DEF feedVars, InSend
<1> QED
  BY <1>1, <1>2, <1>5, <1>6, <1>7, <1>8, <1>9 DEF FeedNext, WriterStep, WatchStep

\* However ticks, drops and sends interleave, no stream sends more events than
\* there were writes.
THEOREM NoMoreEventsThanWrites == FeedSpec => []AtMostOneEventPerWrite
<1>1. EventsInv => AtMostOneEventPerWrite
  BY DEF EventsInv, AtMostOneEventPerWrite, Owing, InSend
<1> QED
  BY FeedInitially, FeedInductive, EventsInitially, EventsInductive, <1>1, PTL DEF FeedSpec
------------------------------------------------------------------------------
\* ----- RetryLoop, alone -----

LoopIInv == TypeOK /\ SleepWithinTenPercent

\* What a sleep can be, from the arithmetic of the jitter.
LEMMA SleepRange ==
  ASSUME NEW b \in InitialBackoff..MaxBackoff, NEW s \in Sleeps(b)
  PROVE  /\ s \in 0..(2 * MaxBackoff)
         /\ 9 * b <= 10 * s /\ 10 * s < 11 * b + 10
<1>1. PICK jitter \in 0..((b \div 5) - 1) : s = b - (b \div 10) + jitter
  BY DEF Sleeps
<1>2. /\ b \in Nat /\ b \div 10 \in Nat /\ b \div 5 \in Nat
      /\ 10 * (b \div 10) <= b /\ b < 10 * (b \div 10) + 10
      /\ 5 * (b \div 5) <= b
  BY BackoffOK
<1>3. jitter \in Nat /\ jitter + 1 <= b \div 5
  BY <1>1, <1>2
<1> QED
  BY <1>1, <1>2, <1>3, BackoffOK

\* Doubling never leaves the interval.
LEMMA GrownRange ==
  ASSUME NEW b \in InitialBackoff..MaxBackoff
  PROVE  Grown(b) \in InitialBackoff..MaxBackoff
  BY BackoffOK DEF Grown

LEMMA LoopInitially == Init => LoopIInv
<1> SUFFICES ASSUME Init PROVE LoopIInv
  OBVIOUS
<1>1. TypeOK
  <2>1. backoff \in InitialBackoff..MaxBackoff
    BY BackoffOK DEF Init
  <2>2. sleep \in 0..(2 * MaxBackoff)
    BY BackoffOK DEF Init
  <2> QED
    BY <2>1, <2>2 DEF Init, TypeOK
<1>2. SleepWithinTenPercent
  BY DEF Init, SleepWithinTenPercent
<1> QED
  BY <1>1, <1>2 DEF LoopIInv

LEMMA LoopInductive == LoopIInv /\ [Next]_loopVars => LoopIInv'
<1> SUFFICES ASSUME LoopIInv, [Next]_loopVars PROVE LoopIInv'
  OBVIOUS
<1> USE DEF LoopIInv, TypeOK, SleepWithinTenPercent
<1>1. CASE Cancel
  BY <1>1 DEF Cancel
<1>2. CASE CallFn
  BY <1>2 DEF CallFn
<1>3. CASE ExitAtTop
  BY <1>3 DEF ExitAtTop
<1>4. CASE Reset
  BY <1>4, BackoffOK DEF Reset
<1>5. CASE FnReturns
  BY <1>5, SleepRange DEF FnReturns
<1>6. CASE TimerFires
  BY <1>6, GrownRange, BackoffOK DEF TimerFires
<1>7. CASE WakeOnCancel
  BY <1>7, BackoffOK DEF WakeOnCancel
<1>8. CASE UNCHANGED loopVars
  BY <1>8 DEF loopVars
<1> QED
  BY <1>1, <1>2, <1>3, <1>4, <1>5, <1>6, <1>7, <1>8 DEF Next

\* The backoff is never below the first or above the last one.
THEOREM BackoffBounded == Spec => []TypeOK
<1>1. LoopIInv => TypeOK
  BY DEF LoopIInv
<1> QED
  BY LoopInitially, <1>1, LoopInductive, PTL DEF Spec

\* Every sleep is within ten percent of the backoff it belongs to.
THEOREM JitterBounded == Spec => []SleepWithinTenPercent
<1>1. LoopIInv => SleepWithinTenPercent
  BY DEF LoopIInv
<1> QED
  BY LoopInitially, <1>1, LoopInductive, PTL DEF Spec
------------------------------------------------------------------------------
\* ----- The composition -----

\* The watcher has heard what was sent on its stream, and has made, or will make,
\* the client list at least that version.
Heard ==
    \/ fn = "notify" /\ "watcher" \notin notifying
    \/ debounce \/ unread \/ clientVersion >= seen[conn]

\* ChangeOnItsWay is not inductive: it says nothing of a client that has listed the
\* current version when the next write commits.  What carries over is that once all
\* that was sent has been received, it has been heard; TriggerPending has the rest.
OnWayInv ==
    /\ \A c \in Watches :
        /\ c \notin opened => watch[c] = "new"
        /\ watch[c] = "new" => seen[c] = since[c]
        /\ received[c] <= events[c]
        /\ since[c] <= seen[c] /\ seen[c] <= version
    /\ fn \in {"recv", "notify"} /\ received[conn] = events[conn] /\ since[conn] < seen[conn]
            => Heard

ListIInv ==
    FeedIInv /\ LoopIInv /\ WatcherTypeOK /\ SentinelOnlyInsideCall /\ OnWayInv

\* A step of the composition is a step of the feed, or leaves it alone; and the same
\* for the loop: dialling is CallFn, a message is Reset, and either failure is
\* FnReturns.
LEMMA StepsOfTheParts ==
  opened \subseteq Watches /\ [ListNext]_listVars => [FeedNext]_feedVars /\ [Next]_loopVars
<1> SUFFICES ASSUME opened \subseteq Watches, [ListNext]_listVars
             PROVE  [FeedNext]_feedVars /\ [Next]_loopVars
  OBVIOUS
<1>1. CASE FeedStep
  <2>1. FeedNext
    BY <1>1 DEF FeedStep, FeedNext
  <2> QED
    BY <1>1, <2>1 DEF FeedStep
<1>2. CASE LoopStep
  BY <1>2 DEF LoopStep, Next
<1>3. CASE Dial \/ DialFails \/ Recv \/ RecvFails
  BY <1>3 DEF Dial, DialFails, Recv, RecvFails, Next
<1>4. CASE DebounceFires \/ Relist
  BY <1>4 DEF DebounceFires, Relist
<1>5. ASSUME NEW c \in Watches, OpenStream(c) PROVE UNCHANGED <<feedVars, loopVars>>
  BY <1>5 DEF OpenStream
<1>6. ASSUME NEW n \in Notifiers, AddSentinel(n) \/ RemoveSentinel(n)
      PROVE  UNCHANGED <<feedVars, loopVars>>
  BY <1>6 DEF AddSentinel, RemoveSentinel
<1>7. CASE UNCHANGED listVars
  BY <1>7 DEF listVars
<1> QED
  BY <1>1, <1>2, <1>3, <1>4, <1>5, <1>6, <1>7 DEF ListNext

LEMMA ListInitially == ListInit => ListIInv
<1> SUFFICES ASSUME ListInit PROVE ListIInv
  OBVIOUS
<1>1. FeedIInv /\ LoopIInv
  BY FeedInitially, LoopInitially DEF ListInit
<1>2. WatcherTypeOK
  <2>1. received \in [Watches -> Nat] /\ clientVersion \in 0..version
    BY DEF ListInit, FeedInit
  <2> QED
    BY <2>1 DEF ListInit, WatcherTypeOK, Init
<1>3. SentinelOnlyInsideCall
  BY DEF ListInit, SentinelOnlyInsideCall
<1>4. OnWayInv
  BY DEF ListInit, FeedInit, OnWayInv
<1> QED
  BY <1>1, <1>2, <1>3, <1>4 DEF ListIInv

LEMMA VersionGrows ==
  ASSUME FeedTypeOK, [FeedNext]_feedVars PROVE version \in Nat /\ version' \in Nat /\ version <= version'
<1> USE FeedOK DEF FeedTypeOK, storeVars
<1>1. CASE FeedNext
  BY <1>1 DEF FeedNext, Write, CreateTask, UpdateTask, DeleteTask, Commit, WriterStep,
              CopySubscribers, WriteReturns, Tick, Subscribe, CancelStream, WatchStep,
              TakeTick, SendEvent, Leave, Unsubscribe
<1>2. CASE UNCHANGED feedVars
  BY <1>2 DEF feedVars
<1> QED
  BY <1>1, <1>2

LEMMA WatcherTypeStep ==
  ASSUME FeedIInv, WatcherTypeOK, [ListNext]_listVars PROVE WatcherTypeOK'
<1>0. version \in Nat /\ version' \in Nat /\ version <= version'
  BY StepsOfTheParts, VersionGrows DEF WatcherTypeOK, FeedIInv
<1> USE DEF WatcherTypeOK, watcherVars, sdkVars, clientVars
<1>1. CASE FeedStep
  <2>1. clientVersion' \in 0..version'
    BY <1>0, <1>1 DEF FeedStep
  <2> QED
    BY <1>1, <2>1 DEF FeedStep, loopVars
<1>2. CASE LoopStep
  <2>1. loop = "fn" <=> loop' = "fn"
    BY <1>2 DEF LoopStep, Cancel, ExitAtTop, TimerFires, WakeOnCancel
  <2> QED
    BY <1>2, <2>1 DEF LoopStep, feedVars, storeVars
<1> USE DEF feedVars, storeVars
<1>3. CASE Dial \/ DialFails
  BY <1>3 DEF Dial, DialFails, CallFn, FnReturns
<1>4. CASE Recv
  BY <1>4 DEF Recv, Reset
<1>5. CASE RecvFails
  BY <1>5 DEF RecvFails, FnReturns
<1>6. CASE DebounceFires
  BY <1>6 DEF DebounceFires, loopVars
<1>7. CASE Relist
  <2>1. clientVersion' \in 0..version'
    BY <1>0, <1>7 DEF Relist
  <2> QED
    BY <1>7, <2>1 DEF Relist, loopVars
<1>8. ASSUME NEW c \in Watches, OpenStream(c) PROVE WatcherTypeOK'
  BY <1>8 DEF OpenStream, loopVars
<1>9. ASSUME NEW n \in Notifiers, AddSentinel(n) PROVE WatcherTypeOK'
  BY <1>9 DEF AddSentinel, loopVars
<1>10. ASSUME NEW n \in Notifiers, RemoveSentinel(n) PROVE WatcherTypeOK'
  BY <1>10 DEF RemoveSentinel, loopVars
<1>11. CASE UNCHANGED listVars
  BY <1>11 DEF listVars, loopVars
<1> QED
  BY <1>1, <1>2, <1>3, <1>4, <1>5, <1>6, <1>7, <1>8, <1>9, <1>10, <1>11 DEF ListNext

LEMMA SentinelStep ==
  ASSUME SentinelOnlyInsideCall, [ListNext]_listVars PROVE SentinelOnlyInsideCall'
<1> USE DEF SentinelOnlyInsideCall, sdkVars
<1>1. ASSUME NEW n \in Notifiers, AddSentinel(n) \/ RemoveSentinel(n)
      PROVE  SentinelOnlyInsideCall'
  BY <1>1 DEF AddSentinel, RemoveSentinel
<1>2. ASSUME NEW c \in Watches, OpenStream(c) PROVE SentinelOnlyInsideCall'
  BY <1>2 DEF OpenStream
<1>3. CASE FeedStep \/ LoopStep \/ Dial \/ DialFails \/ Recv \/ RecvFails
  BY <1>3 DEF FeedStep, LoopStep, Dial, DialFails, Recv, RecvFails
<1>4. CASE DebounceFires \/ Relist \/ UNCHANGED listVars
  BY <1>4 DEF DebounceFires, Relist, listVars
<1> QED
  BY <1>1, <1>2, <1>3, <1>4 DEF ListNext

\* What the feed does to OnWayInv: a message sent is one more to receive.
LEMMA FeedStepOnWay ==
  ASSUME FeedTypeOK, WatcherTypeOK, OnWayInv, FeedStep PROVE OnWayInv'
<1> USE DEF FeedTypeOK, WatcherTypeOK, OnWayInv, Heard, storeVars, writerVars, watchVars
<1>0. UNCHANGED <<fn, opened, conn, received, notifying, debounce, unread, clientVersion>>
  BY DEF FeedStep, watcherVars, sdkVars, clientVars
<1>1. ASSUME NEW w \in Writers, Write(w) \/ WriterStep(w) PROVE OnWayInv'
  <2>1. UNCHANGED <<watch, events, since, seen>>
    BY <1>1 DEF Write, CreateTask, UpdateTask, DeleteTask, Commit, WriterStep,
                CopySubscribers, WriteReturns, Tick
  <2>2. version' = version \/ version' = version + 1
    BY <1>1 DEF Write, CreateTask, UpdateTask, DeleteTask, Commit, WriterStep,
                CopySubscribers, WriteReturns, Tick
  <2>3. version \in Nat /\ \A c \in Watches : seen[c] \in Nat
    BY FeedOK
  <2> QED
    BY <1>0, <2>1, <2>2, <2>3
<1>2. ASSUME NEW c \in opened, SendEvent(c) PROVE OnWayInv'
  <2>1. /\ c \in Watches /\ version' = version /\ since' = since
        /\ events'[c] = events[c] + 1 /\ seen'[c] = version /\ watch'[c] = "wait"
        /\ \A d \in Watches \ {c} :
                events'[d] = events[d] /\ seen'[d] = seen[d] /\ watch'[d] = watch[d]
    BY <1>2 DEF SendEvent
  <2>2. version \in Nat /\ \A d \in Watches :
            events[d] \in Nat /\ seen[d] \in Nat /\ since[d] \in Nat /\ received[d] \in Nat
    BY FeedOK
  <2>3. since[c] <= version
    BY <2>1, <2>2
  <2>4. conn = c => received'[conn'] # events'[conn']
    BY <1>0, <2>1, <2>2
  <2> QED
    BY <1>0, <2>1, <2>2, <2>3, <2>4
<1>3. ASSUME NEW c \in opened, Subscribe(c) PROVE OnWayInv'
  <2>1. version \in Nat /\ c \in Watches
    BY FeedOK
  <2> QED
    BY <1>0, <1>3, <2>1 DEF Subscribe
<1>4. ASSUME NEW c \in opened, CancelStream(c) \/ TakeTick(c) \/ Leave(c) \/ Unsubscribe(c)
      PROVE  OnWayInv'
  BY <1>0, <1>4 DEF CancelStream, TakeTick, Leave, Unsubscribe
<1> QED
  BY <1>1, <1>2, <1>3, <1>4 DEF FeedStep, WatchStep

LEMMA OnWayStep ==
  ASSUME FeedIInv, WatcherTypeOK, OnWayInv, [ListNext]_listVars PROVE OnWayInv'
<1> USE DEF WatcherTypeOK, OnWayInv, Heard, feedVars, storeVars, watchVars, watcherVars,
            sdkVars, clientVars
<1>0. FeedTypeOK /\ version \in Nat
      /\ \A d \in Watches : events[d] \in Nat /\ seen[d] \in Nat
  BY FeedOK DEF FeedIInv, FeedTypeOK
<1>1. CASE FeedStep
  BY <1>0, <1>1, FeedStepOnWay
<1>2. CASE LoopStep
  BY <1>2 DEF LoopStep
<1>3. CASE Dial \/ DialFails \/ RecvFails
  BY <1>3 DEF Dial, DialFails, RecvFails
<1>4. CASE Recv
  <2>1. conn \in Watches /\ fn' = "notify" /\ "watcher" \notin notifying'
    BY <1>4 DEF Recv
  <2>2. \A d \in Watches : received'[d] <= events[d]
    BY <1>0, <1>4, <2>1 DEF Recv
  <2> QED
    BY <1>4, <2>1, <2>2 DEF Recv
<1>5. CASE DebounceFires
  BY <1>5 DEF DebounceFires
<1>6. CASE Relist
  BY <1>0, <1>6 DEF Relist
<1>7. ASSUME NEW c \in Watches, OpenStream(c) PROVE OnWayInv'
  BY <1>0, <1>7 DEF OpenStream
<1>8. ASSUME NEW n \in Notifiers, AddSentinel(n) PROVE OnWayInv'
  BY <1>8 DEF AddSentinel
<1>9. ASSUME NEW n \in Notifiers, RemoveSentinel(n) PROVE OnWayInv'
  BY <1>9 DEF RemoveSentinel
<1>10. CASE UNCHANGED listVars
  BY <1>10 DEF listVars
<1> QED
  BY <1>1, <1>2, <1>3, <1>4, <1>5, <1>6, <1>7, <1>8, <1>9, <1>10 DEF ListNext

LEMMA ListInductive == ListIInv /\ [ListNext]_listVars => ListIInv'
<1> SUFFICES ASSUME ListIInv, [ListNext]_listVars PROVE ListIInv'
  OBVIOUS
<1> USE DEF ListIInv
<1>1. FeedIInv' /\ LoopIInv'
  BY StepsOfTheParts, FeedInductive, LoopInductive DEF WatcherTypeOK
<1>2. WatcherTypeOK' /\ SentinelOnlyInsideCall' /\ OnWayInv'
  BY WatcherTypeStep, SentinelStep, OnWayStep
<1> QED
  BY <1>1, <1>2

\* The composition implements both of its parts: opening streams only when the
\* watcher dials, and deciding when fn returns, restrict them and add nothing.
THEOREM ListImplementsFeed == ListSpec => FeedSpec
<1>1. ListInit => FeedInit
  BY DEF ListInit
<1>2. ListIInv /\ [ListNext]_listVars => [FeedNext]_feedVars
  BY StepsOfTheParts DEF ListIInv, WatcherTypeOK
<1> QED
  BY ListInitially, ListInductive, <1>1, <1>2, PTL DEF ListSpec, FeedSpec

THEOREM ListImplementsLoop == ListSpec => Spec
<1>1. ListInit => Init
  BY DEF ListInit
<1>2. ListIInv /\ [ListNext]_listVars => [Next]_loopVars
  BY StepsOfTheParts DEF ListIInv, WatcherTypeOK
<1> QED
  BY ListInitially, ListInductive, <1>1, <1>2, PTL DEF ListSpec, Spec

\* The types, and how the watcher's place and the loop's go together: fn runs exactly
\* while the loop is in it, and notifies only on an open stream.
THEOREM ListTypeCorrect == ListSpec => []ListTypeOK
<1>1. ListIInv => ListTypeOK
  BY DEF ListIInv, FeedIInv, LoopIInv, ListTypeOK
<1> QED
  BY ListInitially, ListInductive, <1>1, PTL DEF ListSpec

\* No sentinel template is left in the registry by any overlap of notifiers.
THEOREM SentinelNeverLeft == ListSpec => []SentinelOnlyInsideCall
<1>1. ListIInv => SentinelOnlyInsideCall
  BY DEF ListIInv
<1> QED
  BY ListInitially, ListInductive, <1>1, PTL DEF ListSpec

\* While the watcher is connected, a write the client has not listed is in the feed,
\* on the wire, in the watcher, in the SDK's timer or in the client's inbox.
THEOREM ChangeNeverLost == ListSpec => []ChangeOnItsWay
<1>1. ListIInv => ChangeOnItsWay
  <2> SUFFICES ASSUME ListIInv, Connected, since[conn] < version, clientVersion < version
               PROVE  \/ buffer[conn] > 0 \/ watch[conn] = "send"
                      \/ \E w \in Writers : writer[w] = "emit" \/ conn \in targets[w]
                      \/ received[conn] < events[conn] \/ fn = "notify"
                      \/ debounce \/ unread
    BY DEF ChangeOnItsWay
  <2>1. conn \in Watches /\ fn \in {"recv", "notify"} /\ watch[conn] \in {"wait", "send"}
    BY DEF ListIInv, WatcherTypeOK, Connected
  <2>2. /\ version \in Nat /\ clientVersion \in Nat /\ seen[conn] \in Nat /\ since[conn] \in Nat
        /\ received[conn] \in Nat /\ events[conn] \in Nat
    BY <2>1, FeedOK DEF ListIInv, FeedIInv, FeedTypeOK, WatcherTypeOK
  <2>3. CASE seen[conn] < version
    BY <2>1, <2>3 DEF ListIInv, FeedIInv, TriggerPending
  <2>4. CASE ~(seen[conn] < version) /\ received[conn] = events[conn]
    BY <2>1, <2>2, <2>4 DEF ListIInv, OnWayInv, Heard
  <2>5. CASE received[conn] # events[conn]
    BY <2>1, <2>2, <2>5 DEF ListIInv, OnWayInv
  <2> QED
    BY <2>3, <2>4, <2>5
<1> QED
  BY ListInitially, ListInductive, <1>1, PTL DEF ListSpec
==============================================================================
