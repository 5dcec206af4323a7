----------------------------- MODULE ResourceList -----------------------------
(***************************************************************************)
(* resources/list: the one lister slot of a Server                         *)
(* (pkg/protomcp/resource_list.go), the generated lister behind it         *)
(* (resource_list.go.tmpl), the two pagination pairs                       *)
(* (pkg/protomcp/pagination.go), and a client that walks the pages by      *)
(* their NextCursor while the backend's collection changes.                *)
(***************************************************************************)
EXTENDS Naturals, FiniteSets

CONSTANTS Registrars,  \* callers of RegisterResourceLister
          NilLister,   \* those of them that pass a nil lister
          Nobody,      \* an empty slot; also the SDK's own list handler
          Items,       \* the ids the backend may ever hold, in their sort order
          Hidden,      \* what a filtering processor behind the pagination drops
          Modes,       \* "offset", "token": the pagination pairs there are to choose from
          PageSize,    \* of either pair
          MaxInt,      \* largest value of the request's integer fields
          MaxWrites,   \* bound: creations and deletions
          MaxRetries   \* bound: answers the client does not get

\* The request's fields hold every offset of the collection.
ASSUME ResourceListOK ==
    /\ Nobody \notin Registrars /\ NilLister \subseteq Registrars
    /\ Items \subseteq Nat \ {0} /\ IsFiniteSet(Items) /\ Hidden \subseteq Items
    /\ Modes \subseteq {"offset", "token"} /\ PageSize \in Nat \ {0}
    /\ MaxInt \in Nat /\ PageSize <= MaxInt /\ Cardinality(Items) <= MaxInt
    /\ MaxWrites \in Nat /\ MaxRetries \in Nat

VARIABLES registrar,  \* registrar[r]: "idle", "set" (the mutex is free again), "returned", "panicked"
          lister,     \* s.lister
          installed,  \* the SDK has resourcesListMiddleware
          store,      \* the backend's collection
          used,       \* ids created so far, deleted ones included
          writes,     \* history: creations and deletions
          mode,       \* the registered pair
          client,     \* "ready", "waiting", "done", "failed"
          cursor,     \* the client's next cursor
          request,    \* "none", "sent", "listing", "answered"
          servedBy,   \* who handles the request: a registrar's lister or Nobody
          page,       \* [items, next] of the answer
          listed,     \* what the client got so far
          retries,
          walk        \* history: see Begin

slotVars == <<registrar, lister, installed>>
backendVars == <<store, used, writes>>
requestVars == <<request, servedBy, page>>
clientVars == <<client, cursor, listed, retries, walk>>
vars == <<slotVars, backendVars, mode, requestVars, clientVars>>

Cursors == [kind : {"empty"}, at : {0}] \cup [kind : {"offset", "token"}, at : Nat]
                                        \cup [kind : {"foreign"}, at : {0}]
NoCursor == [kind |-> "empty", at |-> 0]
Foreign == [kind |-> "foreign", at |-> 0]   \* not a cursor of this server
NoPage == [items |-> {}, next |-> NoCursor]

Init ==
    /\ registrar = [r \in Registrars |-> "idle"] /\ lister = Nobody /\ installed = FALSE
    /\ store \in SUBSET Items /\ used = store /\ writes = 0 /\ mode \in Modes
    /\ client = "ready" /\ cursor \in {NoCursor, Foreign} /\ listed = {} /\ retries = 0
    /\ request = "none" /\ servedBy = Nobody /\ page = NoPage
    /\ walk = [start |-> {}, expected |-> Nobody, created |-> FALSE, deleted |-> FALSE, repeated |-> FALSE]
------------------------------------------------------------------------------
\* Bug: the slot is not checked.
RegisterUnchecked(r) ==
    /\ registrar[r] = "idle" /\ r \notin NilLister
    /\ lister' = r /\ registrar' = [registrar EXCEPT ![r] = "set"]
    /\ UNCHANGED <<installed, backendVars, mode, requestVars, clientVars>>

\* RegisterResourceLister up to the unlock: panics on nil and on a second call.
Register(r) ==
    /\ registrar[r] = "idle"
    /\ IF r \notin NilLister /\ lister = Nobody
       THEN lister' = r /\ registrar' = [registrar EXCEPT ![r] = "set"]
       ELSE registrar' = [registrar EXCEPT ![r] = "panicked"] /\ UNCHANGED lister
    /\ UNCHANGED <<installed, backendVars, mode, requestVars, clientVars>>

\* s.sdk.AddReceivingMiddleware, outside the mutex.
Install(r) ==
    /\ registrar[r] = "set" /\ registrar' = [registrar EXCEPT ![r] = "returned"]
    /\ installed' = TRUE
    /\ UNCHANGED <<lister, backendVars, mode, requestVars, clientVars>>
------------------------------------------------------------------------------
Create(i) ==
    /\ i \notin used /\ writes < MaxWrites /\ writes' = writes + 1
    /\ store' = store \cup {i} /\ used' = used \cup {i}
    /\ walk' = [walk EXCEPT !.created = TRUE]
    /\ UNCHANGED <<slotVars, mode, requestVars, client, cursor, listed, retries>>

Delete(i) ==
    /\ i \in store /\ writes < MaxWrites /\ writes' = writes + 1
    /\ store' = store \ {i}
    /\ walk' = [walk EXCEPT !.deleted = TRUE, !.start = @ \ {i}]
    /\ UNCHANGED <<slotVars, used, mode, requestVars, client, cursor, listed, retries>>

\* ListAllResources: the window [offset, offset + limit) of the sorted collection.
Rank(i) == Cardinality({j \in store : j < i})
Window(offset, limit) == {i \in store : offset <= Rank(i) /\ Rank(i) < offset + limit}

\* A page-token backend: at most limit items behind the one the token names.
After(token, limit) ==
    {i \in store : i > token /\ Cardinality({j \in store : token < j /\ j < i}) < limit}
Highest(items) == CHOOSE i \in items : \A j \in items : j <= i
------------------------------------------------------------------------------
\* DecodeOffsetCursor fails on what EncodeOffsetCursor did not make; a token
\* backend rejects what it did not issue.
Decodes(c) == c.kind = "empty" \/ c.kind = mode
DecodeOffsetCursor(c) == IF c.kind = "empty" THEN 0 ELSE c.at
EncodeOffsetCursor(n) == [kind |-> "offset", at |-> n]

\* SetProtoIntField clamps.
SetProtoIntField(v) == IF v > MaxInt THEN MaxInt ELSE v

OffsetPage(c) ==
    Window(SetProtoIntField(DecodeOffsetCursor(c)), SetProtoIntField(PageSize))

\* Bug: the next offset is that of the page just listed.
SameOffset(c, items) ==
    {IF Cardinality(items) < PageSize THEN NoCursor ELSE EncodeOffsetCursor(DecodeOffsetCursor(c))}

\* Bug: a full page is taken for the last.
FullPageEnds(c, items) ==
    {IF Cardinality(items) <= PageSize THEN NoCursor
     ELSE EncodeOffsetCursor(DecodeOffsetCursor(c) + Cardinality(items))}

\* Bug: the cursor is set whatever the page.
NoLastPage(c, items) == {EncodeOffsetCursor(DecodeOffsetCursor(c) + Cardinality(items))}

\* "A partial page is terminal."
NextOffset(c, items) ==
    {IF Cardinality(items) < PageSize THEN NoCursor
     ELSE EncodeOffsetCursor(DecodeOffsetCursor(c) + Cardinality(items))}

\* The backend returns a token when more may follow.
NextPageToken(items) ==
    IF items = {} THEN {NoCursor}
    ELSE LET token == [kind |-> "token", at |-> Highest(items)] IN
         IF \E i \in store : i > token.at THEN {token}
         ELSE IF Cardinality(items) = PageSize THEN {token, NoCursor} ELSE {NoCursor}
------------------------------------------------------------------------------
\* The walk begins: what is there, and whose lister is in charge already.
Begin == [start |-> store,
          expected |-> IF \E r \in Registrars : registrar[r] = "returned"
                       THEN CHOOSE r \in Registrars : registrar[r] = "returned" ELSE Nobody,
          created |-> FALSE, deleted |-> FALSE, repeated |-> FALSE]

\* session.ListResources(ctx, cursor): the first page of a walk, or a later one.
Send ==
    /\ client = "ready" /\ client' = "waiting" /\ request' = "sent"
    /\ walk' = IF cursor.kind \in {"empty", "foreign"} /\ retries = 0 THEN Begin ELSE walk
    /\ UNCHANGED <<slotVars, backendVars, mode, servedBy, page, cursor, listed, retries>>

\* resourcesListMiddleware reads the slot; without it the SDK lists what it has.
Dispatch ==
    /\ request = "sent" /\ request' = "listing"
    /\ servedBy' = IF installed THEN lister ELSE Nobody
    /\ UNCHANGED <<slotVars, backendVars, mode, page, clientVars>>

SDKList ==
    /\ request = "listing" /\ servedBy = Nobody
    /\ page' = NoPage /\ request' = "answered"
    /\ UNCHANGED <<slotVars, backendVars, mode, servedBy, clientVars>>

\* The pagination middleware, the final handler's gRPC call, the processors.
List ==
    /\ request = "listing" /\ servedBy # Nobody /\ Decodes(cursor)
    /\ LET items == IF mode = "offset" THEN OffsetPage(cursor) ELSE After(cursor.at, PageSize) IN
       \E next \in IF mode = "offset" THEN NextOffset(cursor, items) ELSE NextPageToken(items) :
          page' = [items |-> items \ Hidden, next |-> next]
    /\ request' = "answered"
    /\ UNCHANGED <<slotVars, backendVars, mode, servedBy, clientVars>>

\* InvalidCursorError, or the backend's error: the client gives the walk up.
Fail ==
    /\ request = "listing" /\ servedBy # Nobody
    /\ request' = "none" /\ client' = "failed"
    /\ UNCHANGED <<slotVars, backendVars, mode, servedBy, page, cursor, listed, retries, walk>>

Receive ==
    /\ request = "answered" /\ request' = "none"
    /\ walk' = [walk EXCEPT !.repeated = @ \/ listed \cap page.items # {}]
    /\ listed' = listed \cup page.items
    /\ cursor' = page.next /\ client' = IF page.next = NoCursor THEN "done" ELSE "ready"
    /\ retries' = 0
    /\ UNCHANGED <<slotVars, backendVars, mode, servedBy, page>>

\* The answer is lost and the client asks for the same page again.
Lose ==
    /\ request = "answered" /\ request' = "none" /\ retries < MaxRetries
    /\ client' = "ready" /\ retries' = retries + 1
    /\ UNCHANGED <<slotVars, backendVars, mode, servedBy, page, cursor, listed, walk>>

Next ==
    \/ \E r \in Registrars : Register(r) \/ Install(r)
    \/ \E i \in Items : Create(i) \/ Delete(i)
    \/ Send \/ Dispatch \/ SDKList \/ List \/ Fail \/ Receive \/ Lose
Spec == Init /\ [][Next]_vars

\* A client that walks on and a server that handles what it receives.
Fairness == WF_vars(Send) /\ WF_vars(Dispatch) /\ WF_vars(SDKList \/ List \/ Fail) /\ WF_vars(Receive \/ Lose)
FairSpec == Spec /\ Fairness
------------------------------------------------------------------------------
\* The slot is taken exactly when somebody set it, and by at most one caller.
TypeOK ==
    /\ registrar \in [Registrars -> {"idle", "set", "returned", "panicked"}]
    /\ lister \in Registrars \cup {Nobody} /\ installed \in BOOLEAN
    /\ \A r \in Registrars : registrar[r] \in {"set", "returned"} <=> lister = r
    /\ store \subseteq used /\ used \subseteq Items /\ writes \in 0..MaxWrites /\ mode \in Modes
    /\ client \in {"ready", "waiting", "done", "failed"} /\ cursor \in Cursors
    /\ request \in {"none", "sent", "listing", "answered"} /\ (client = "waiting" <=> request # "none")
    /\ servedBy \in Registrars \cup {Nobody}
    /\ page.items \subseteq Items /\ page.next \in Cursors /\ listed \subseteq Items
    /\ retries \in 0..MaxRetries /\ walk.start \subseteq Items

\* "At most one is allowed per Server": once a RegisterResourceLister has returned,
\* every list that is asked for is answered by that caller's lister, whoever tries
\* to register after it and however the calls interleave.
RegisteredListerServes ==
    request \in {"listing", "answered"} /\ walk.expected # Nobody => servedBy = walk.expected

\* A walk that ends has listed all that was there from its first page to its last,
\* whatever was created meanwhile and whichever answers were lost; deletions too do
\* no harm to page tokens, but shift the window of an offset.
WalkSkipsNothing ==
    client = "done" /\ servedBy # Nobody /\ (mode = "offset" => ~walk.deleted) =>
        walk.start \ Hidden \subseteq listed

\* No item is listed twice, whatever was deleted meanwhile; creations do no harm
\* to page tokens, but shift the window of an offset.
WalkRepeatsNothing == (mode = "offset" => ~walk.created) => ~walk.repeated

\* The walk of a collection that stops growing comes to an end.
WalkEnds == <>(client \in {"done", "failed"})
==============================================================================
