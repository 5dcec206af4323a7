-------------------------- MODULE ResourceListProofs --------------------------
(***************************************************************************)
(* The lister slot and the walk over the pages, for any registrars,        *)
(* collections, page sizes and orders of writes, requests and losses.      *)
(***************************************************************************)
EXTENDS ResourceList, FiniteSetTheorems, TLAPS

\* Whoever set the slot is in it; a caller that returned has the middleware installed.
SlotInv ==
    /\ \A r \in Registrars : registrar[r] \in {"set", "returned"} => lister = r
    /\ \A r \in Registrars : registrar[r] = "returned" => installed
    /\ registrar \in [Registrars -> {"idle", "set", "returned", "panicked"}]

Walks == [start : SUBSET Items, expected : Registrars \cup {Nobody},
          created : BOOLEAN, deleted : BOOLEAN, repeated : BOOLEAN]

\* The lister a walk relies on had been registered when the walk began.
ExpectedInv ==
    /\ client = "waiting" <=> request # "none"
    /\ walk.expected # Nobody =>
          walk.expected \in Registrars /\ registrar[walk.expected] = "returned"
    /\ walk \in Walks
    /\ store \in SUBSET Items

IInv == SlotInv /\ ExpectedInv /\ RegisteredListerServes
------------------------------------------------------------------------------
LEMMA InitIInv == Init => IInv
  BY ResourceListOK DEF Init, IInv, SlotInv, ExpectedInv, RegisteredListerServes, Walks

\* A registration takes the slot from nobody.
LEMMA RegisterKeeps == ASSUME IInv, NEW r \in Registrars, Register(r) PROVE IInv'
  <1> USE ResourceListOK DEF IInv, Register
  <1>1. SlotInv'
    BY DEF SlotInv
  <1>2. ExpectedInv'
    BY DEF SlotInv, ExpectedInv, backendVars, requestVars, clientVars
  <1>3. RegisteredListerServes'
    BY DEF RegisteredListerServes, requestVars, clientVars
  <1> QED
    BY <1>1, <1>2, <1>3

LEMMA InstallKeeps == ASSUME IInv, NEW r \in Registrars, Install(r) PROVE IInv'
  <1> USE ResourceListOK DEF IInv, Install
  <1>1. SlotInv'
    BY DEF SlotInv
  <1>2. ExpectedInv'
    BY DEF SlotInv, ExpectedInv, backendVars, requestVars, clientVars
  <1>3. RegisteredListerServes'
    BY DEF RegisteredListerServes, requestVars, clientVars
  <1> QED
    BY <1>1, <1>2, <1>3

\* A walk begins with what is registered; no request is under way then.
LEMMA SendKeeps == IInv /\ Send => IInv'
  <1> SUFFICES ASSUME IInv, Send PROVE IInv'
    OBVIOUS
  <1> USE ResourceListOK DEF IInv, Send
  <1>1. SlotInv'
    BY DEF SlotInv, slotVars
  <1>2. Begin.expected # Nobody =>
            Begin.expected \in Registrars /\ registrar[Begin.expected] = "returned"
    BY DEF Begin
  <1>3. Begin \in Walks
    BY DEF Begin, ExpectedInv, Walks
  <1>4. ExpectedInv'
    BY <1>2, <1>3 DEF ExpectedInv, slotVars, backendVars
  <1>5. RegisteredListerServes'
    BY DEF RegisteredListerServes
  <1> QED
    BY <1>1, <1>4, <1>5

LEMMA DispatchKeeps == IInv /\ Dispatch => IInv'
  <1> SUFFICES ASSUME IInv, Dispatch PROVE IInv'
    OBVIOUS
  <1> USE ResourceListOK DEF IInv, Dispatch
  <1>1. SlotInv'
    BY DEF SlotInv, slotVars
  <1>2. ExpectedInv'
    BY DEF ExpectedInv, slotVars, backendVars, clientVars
  <1>3. RegisteredListerServes'
    BY DEF RegisteredListerServes, SlotInv, ExpectedInv, slotVars, clientVars
  <1> QED
    BY <1>1, <1>2, <1>3

\* What is left of a step that touches neither the slot nor whose lister is expected.
Aside ==
    /\ UNCHANGED slotVars /\ walk'.expected = walk.expected
    /\ walk' \in Walks /\ store' \in SUBSET Items
    /\ client' = "waiting" <=> request' # "none"
    /\ request' \in {"listing", "answered"} =>
           request \in {"listing", "answered"} /\ servedBy' = servedBy

LEMMA AsideKeeps == IInv /\ Aside => IInv'
  <1> SUFFICES ASSUME IInv, Aside PROVE IInv'
    OBVIOUS
  <1> USE DEF IInv, Aside, slotVars
  <1>1. SlotInv'
    BY DEF SlotInv
  <1>2. ExpectedInv'
    BY DEF ExpectedInv
  <1>3. RegisteredListerServes'
    BY DEF RegisteredListerServes
  <1> QED
    BY <1>1, <1>2, <1>3

\* The backend's writes, the answers and the client's progress are such steps.
LEMMA WritesAside == ASSUME IInv, NEW i \in Items, Create(i) \/ Delete(i) PROVE Aside
  <1> USE DEF IInv, ExpectedInv, Aside, Walks
  <1>1. CASE Create(i)
    BY <1>1 DEF Create, requestVars
  <1>2. CASE Delete(i)
    BY <1>2 DEF Delete, requestVars
  <1> QED
    BY <1>1, <1>2

LEMMA AnswersAside == IInv /\ (SDKList \/ List \/ Fail \/ Receive \/ Lose) => Aside
  <1> SUFFICES ASSUME IInv PROVE (SDKList \/ List \/ Fail \/ Receive \/ Lose) => Aside
    OBVIOUS
  <1> USE DEF IInv, ExpectedInv, Aside, backendVars, clientVars
  <1>1. CASE SDKList
    BY <1>1 DEF SDKList
  <1>2. CASE List
    BY <1>2 DEF List
  <1>3. CASE Fail
    BY <1>3 DEF Fail
  <1>4. CASE Receive
    <2>1. walk' \in Walks /\ walk'.expected = walk.expected
      BY <1>4 DEF Receive, Walks
    <2> QED
      BY <1>4, <2>1 DEF Receive
  <1>5. CASE Lose
    BY <1>5 DEF Lose
  <1> QED
    BY <1>1, <1>2, <1>3, <1>4, <1>5

LEMMA StutterAside == IInv /\ UNCHANGED vars => Aside
  BY DEF IInv, ExpectedInv, Aside, vars, backendVars, clientVars, requestVars

LEMMA SlotStep == IInv /\ [Next]_vars => IInv'
  BY RegisterKeeps, InstallKeeps, SendKeeps, DispatchKeeps, AsideKeeps, WritesAside, AnswersAside, StutterAside DEF Next

\* Once a RegisterResourceLister has returned, every list asked for after it is
\* answered by that caller's lister.
THEOREM ListerServes == Spec => []RegisteredListerServes
  <1>1. IInv => RegisteredListerServes
    BY DEF IInv
  <1> QED
    BY <1>1, InitIInv, SlotStep, PTL DEF Spec
------------------------------------------------------------------------------
(* Counting: the items of a finite collection have the ranks 0, 1, ... *)

Lower(S, i) == {j \in S : j < i}
RankIn(S, i) == Cardinality(Lower(S, i))

LEMMA RankType == ASSUME NEW S, IsFiniteSet(S), NEW i PROVE RankIn(S, i) \in Nat
  <1>1. IsFiniteSet(Lower(S, i))
    BY FS_Subset DEF Lower
  <1> QED
    BY <1>1, FS_CardinalityType DEF RankIn

\* A larger collection ranks no item lower.
LEMMA RankMono ==
    ASSUME NEW S, IsFiniteSet(S), NEW T \in SUBSET S, NEW i
    PROVE  RankIn(T, i) <= RankIn(S, i)
  <1>1. IsFiniteSet(Lower(S, i)) /\ Lower(T, i) \in SUBSET Lower(S, i)
    BY FS_Subset DEF Lower
  <1> QED
    BY <1>1, FS_Subset DEF RankIn

LEMMA Ranks ==
    ASSUME NEW S \in SUBSET Nat, IsFiniteSet(S)
    PROVE  /\ Cardinality(S) \in Nat
           /\ \A i \in S : RankIn(S, i) \in 0..(Cardinality(S) - 1)
           /\ \A i, j \in S : i < j => RankIn(S, i) < RankIn(S, j)
           /\ \A r \in 0..(Cardinality(S) - 1) : \E i \in S : RankIn(S, i) = r
  <1> DEFINE n == Cardinality(S)
             T == 0..(n - 1)
             f == [i \in S |-> RankIn(S, i)]
  <1>1. n \in Nat
    BY FS_CardinalityType
  <1>2. ASSUME NEW A \in SUBSET S, NEW B \in SUBSET A, A # B PROVE Cardinality(B) < Cardinality(A)
    <2>1. IsFiniteSet(A) /\ IsFiniteSet(B)
      BY FS_Subset
    <2>2. Cardinality(A) \in Nat /\ Cardinality(B) \in Nat /\ Cardinality(B) <= Cardinality(A)
      BY <2>1, FS_CardinalityType, FS_Subset
    <2>3. Cardinality(B) # Cardinality(A)
      BY <1>2, <2>1, FS_Subset
    <2> QED
      BY <2>2, <2>3
  <1>3. \A i \in S : RankIn(S, i) \in T
    <2> SUFFICES ASSUME NEW i \in S PROVE RankIn(S, i) \in T
      OBVIOUS
    <2>1. Lower(S, i) \in SUBSET S /\ Lower(S, i) # S
      BY DEF Lower
    <2>2. RankIn(S, i) < n
      BY <1>2, <2>1 DEF RankIn
    <2> QED
      BY <1>1, <2>2, RankType
  <1>4. \A i, j \in S : i < j => RankIn(S, i) < RankIn(S, j)
    <2> SUFFICES ASSUME NEW i \in S, NEW j \in S, i < j PROVE RankIn(S, i) < RankIn(S, j)
      OBVIOUS
    <2>0. i \in Nat /\ j \in Nat /\ \A k \in S : k \in Nat
      OBVIOUS
    <2>3. Lower(S, j) \in SUBSET S /\ i \in Lower(S, j) /\ i \notin Lower(S, i)
      BY <2>0 DEF Lower
    <2>4. \A k \in S : k < i => k < j
      BY <2>0
    <2>1. Lower(S, j) \in SUBSET S /\ Lower(S, i) \in SUBSET Lower(S, j) /\ i \in Lower(S, j) /\ i \notin Lower(S, i)
      BY <2>3, <2>4 DEF Lower
    <2>2. Lower(S, j) # Lower(S, i)
      BY <2>1
    <2> QED
      BY <1>2, <2>1, <2>2 DEF RankIn
  <1>5. f \in Injection(S, T)
    <2>1. f \in [S -> T]
      BY <1>3
    <2>2. ASSUME NEW i \in S, NEW j \in S, f[i] = f[j] PROVE i = j
      <3>1. RankIn(S, i) = RankIn(S, j) /\ RankIn(S, i) \in Nat
        BY <2>2, RankType
      <3> QED
        BY <1>4, <3>1
    <2> QED
      BY <2>1, <2>2 DEF Injection, IsInjective
  <1>6. IsFiniteSet(T) /\ Cardinality(T) = n
    <2>1. IsFiniteSet(T) /\ Cardinality(T) = IF 0 > n - 1 THEN 0 ELSE (n - 1) - 0 + 1
      BY <1>1, FS_Interval
    <2> QED
      BY <1>1, <2>1
  <1>7. f \in Surjection(S, T)
    BY <1>5, <1>6, FS_Injection
  <1>8. \A r \in T : \E i \in S : f[i] = r
    BY <1>7 DEF Surjection
  <1> QED
    BY <1>1, <1>3, <1>4, <1>8

\* What a window of the sorted collection holds: at most limit items, less only when
\* nothing is behind it, and limit only when it is within the collection.
LEMMA WindowCount ==
    ASSUME NEW S \in SUBSET Nat, IsFiniteSet(S), NEW offset \in Nat, NEW limit \in Nat \ {0},
           NEW W, W = {i \in S : offset <= RankIn(S, i) /\ RankIn(S, i) < offset + limit}
    PROVE  /\ Cardinality(W) \in Nat /\ Cardinality(W) <= limit
           /\ Cardinality(W) < limit => \A i \in S : RankIn(S, i) < offset + limit
           /\ Cardinality(W) = limit => offset + limit <= Cardinality(S)
  <1> DEFINE n == Cardinality(S)
             R(i) == RankIn(S, i)
             K == {r \in 0..(n - 1) : offset <= r /\ r < offset + limit}
             D == offset..(offset + limit - 1)
             f == [i \in W |-> R(i)]
  <1>1. /\ n \in Nat /\ \A i \in S : R(i) \in 0..(n - 1)
        /\ \A i, j \in S : i < j => R(i) < R(j)
        /\ \A r \in 0..(n - 1) : \E i \in S : R(i) = r
    BY Ranks
  <1> HIDE DEF R, n
  <1>2. IsFiniteSet(D) /\ Cardinality(D) = limit
    <2>1. IsFiniteSet(D) /\ Cardinality(D) = IF offset > offset + limit - 1 THEN 0
                                             ELSE (offset + limit - 1) - offset + 1
      BY FS_Interval
    <2> QED
      BY <2>1
  <1>3. K \in SUBSET D
    OBVIOUS
  <1>4. IsFiniteSet(K) /\ Cardinality(K) \in Nat /\ Cardinality(K) <= limit /\ (Cardinality(K) = limit => K = D)
    <2>1. IsFiniteSet(K)
      BY <1>2, <1>3, FS_Subset
    <2>2. Cardinality(K) <= Cardinality(D) /\ (Cardinality(D) = Cardinality(K) => D = K)
      BY <1>2, <1>3, FS_Subset
    <2> QED
      BY <1>2, <2>1, <2>2, FS_CardinalityType
  <1>5. W = {i \in S : offset <= R(i) /\ R(i) < offset + limit}
    BY DEF R
  <1>6. f \in Bijection(W, K)
    <2>1. f \in [W -> K]
      BY <1>1, <1>5
    <2>2. ASSUME NEW i \in W, NEW j \in W, f[i] = f[j] PROVE i = j
      <3>1. i \in S /\ j \in S /\ R(i) = R(j) /\ R(i) \in Nat
        BY <1>1, <1>5, <2>2
      <3> QED
        BY <1>1, <3>1
    <2>3. \A r \in K : \E i \in W : f[i] = r
      BY <1>1, <1>5
    <2> QED
      BY <2>1, <2>2, <2>3 DEF Bijection, Injection, Surjection, IsInjective
  <1>7. Cardinality(W) = Cardinality(K)
    <2>1. IsFiniteSet(W)
      BY <1>5, FS_Subset
    <2>2. ExistsBijection(W, K)
      BY <1>6 DEF ExistsBijection
    <2> QED
      BY <2>1, <2>2, FS_Bijection
  <1>8. ASSUME Cardinality(W) < limit, NEW i \in S PROVE R(i) < offset + limit
    <2> SUFFICES ASSUME ~(R(i) < offset + limit) PROVE FALSE
      OBVIOUS
    <2>1. D \subseteq K
      BY <1>1
    <2>2. K = D
      BY <1>3, <2>1
    <2> HIDE DEF K, D
    <2> QED
      BY <1>2, <1>7, <1>8, <2>2
  <1>9. ASSUME Cardinality(W) = limit PROVE offset + limit <= n
    <2>1. offset + limit - 1 \in K
      BY <1>4, <1>7, <1>9
    <2> QED
      BY <1>1, <2>1
  <1> QED
    BY <1>4, <1>7, <1>8, <1>9 DEF R, n

\* A finite collection has a first and a last item.
LEMMA Ends ==
    ASSUME NEW S \in SUBSET Nat, IsFiniteSet(S), S # {}
    PROVE  /\ \E i \in S : \A j \in S : i <= j
           /\ \E i \in S : \A j \in S : j <= i
  <1>1. Cardinality(S) \in Nat /\ Cardinality(S) # 0
    BY FS_CardinalityType, FS_EmptySet
  <1>2. PICK first \in S : RankIn(S, first) = 0
    BY <1>1, Ranks
  <1>3. PICK last \in S : RankIn(S, last) = Cardinality(S) - 1
    BY <1>1, Ranks
  <1>4. ASSUME NEW j \in S PROVE first <= j /\ j <= last
    <2>1. RankIn(S, j) \in 0..(Cardinality(S) - 1)
      BY Ranks
    <2>2. j < first => RankIn(S, j) < RankIn(S, first)
      BY Ranks
    <2>3. last < j => RankIn(S, last) < RankIn(S, j)
      BY Ranks
    <2> QED
      BY <1>1, <1>2, <1>3, <2>1, <2>2, <2>3
  <1> QED
    BY <1>4
------------------------------------------------------------------------------
(* The walk.  Its cursor tells what it has gone past: the items before an  *)
(* offset, or those up to the one that a token names.                      *)

Behind(c, i) == IF mode = "offset" THEN Rank(i) < c.at ELSE i <= c.at

\* Offsets stay within the integers the request's fields hold.
CursorOK(c) ==
    /\ c \in Cursors /\ c.kind \in {"empty", "foreign", mode}
    /\ c.kind = "offset" => c.at <= Cardinality(Items)

PositionInv ==
    /\ mode \in {"offset", "token"} /\ store \subseteq Items /\ listed \subseteq Items /\ page.items \subseteq Items
    /\ walk \in Walks /\ walk.start \subseteq store
    /\ client = "waiting" <=> request # "none"
    /\ CursorOK(cursor) /\ CursorOK(page.next)
    /\ cursor.kind \in {"empty", "foreign"} /\ client # "done" => listed = {}
    /\ request = "answered" => page.next = NoCursor \/ page.next.kind = mode
    /\ request = "answered" /\ servedBy = Nobody => page = NoPage

\* Whatever is left of the start and behind the cursor has been listed.
SkipInv ==
    (mode = "offset" => ~walk.deleted) =>
        /\ \A i \in walk.start \ Hidden : Behind(cursor, i) => i \in listed
        /\ request = "answered" /\ servedBy # Nobody =>
               \A i \in walk.start \ Hidden :
                   page.next = NoCursor \/ Behind(page.next, i) => i \in listed \cup page.items
        /\ client = "done" /\ servedBy # Nobody => walk.start \ Hidden \subseteq listed

\* Whatever has been listed is behind the cursor, and a page is not.
RepeatInv ==
    (mode = "offset" => ~walk.created) =>
        /\ ~walk.repeated
        /\ client # "done" => \A i \in listed : Behind(cursor, i)
        /\ request = "answered" =>
               /\ listed \cap page.items = {}
               /\ page.next # NoCursor => \A i \in listed \cup page.items : Behind(page.next, i)

WalkInv == PositionInv /\ SkipInv /\ RepeatInv

LEMMA ItemsFinite ==
    ASSUME NEW S \in SUBSET Items
    PROVE  /\ IsFiniteSet(S) /\ S \in SUBSET Nat
           /\ Cardinality(S) \in Nat /\ Cardinality(Items) \in Nat /\ Cardinality(S) <= Cardinality(Items)
  <1>1. IsFiniteSet(S) /\ Cardinality(S) <= Cardinality(Items)
    BY ResourceListOK, FS_Subset
  <1> QED
    BY <1>1, ResourceListOK, FS_CardinalityType

LEMMA NoCursorOK == CursorOK(NoCursor)
  BY DEF CursorOK, Cursors, NoCursor

LEMMA CursorAt ==
    ASSUME NEW c \in Cursors
    PROVE  c.at \in Nat /\ (c.kind \in {"empty", "foreign"} => c.at = 0) /\ (c.kind = "empty" => c = NoCursor)
  BY DEF Cursors, NoCursor

LEMMA StartOfWalk ==
    ASSUME PositionInv, NEW c \in Cursors, c.kind \in {"empty", "foreign"}, NEW i \in Items
    PROVE  ~Behind(c, i)
  <1>1. c.at = 0
    BY CursorAt
  <1>2. i \in Nat \ {0}
    BY ResourceListOK
  <1>3. Rank(i) \in Nat
    BY ItemsFinite, RankType DEF PositionInv, Rank, RankIn, Lower
  <1> QED
    BY <1>1, <1>2, <1>3 DEF Behind

\* What the answer to a request at cursor c has to be.
PageOf(c, items, next) ==
    /\ items \subseteq store /\ CursorOK(next) /\ (next = NoCursor \/ next.kind = mode)
    /\ \A i \in items : ~Behind(c, i)
    /\ next # NoCursor => /\ \A i \in items : Behind(next, i)
                          /\ \A i \in Items : Behind(c, i) => Behind(next, i)
    /\ \A i \in store : next = NoCursor \/ Behind(next, i) => Behind(c, i) \/ i \in items

\* OffsetPagination: the next offset is that of the first item behind the page.
LEMMA OffsetPages ==
    ASSUME PositionInv, mode = "offset", Decodes(cursor),
           NEW items, items = OffsetPage(cursor), NEW next \in NextOffset(cursor, items)
    PROVE  PageOf(cursor, items, next)
  <1> DEFINE n == cursor.at
             R(i) == RankIn(store, i)
             count == Cardinality(items)
  <1>1. n \in Nat /\ n <= Cardinality(Items) /\ DecodeOffsetCursor(cursor) = n
    <2>1. cursor \in Cursors /\ cursor.kind \in {"empty", "offset"}
      BY DEF PositionInv, CursorOK, Decodes
    <2>2. n \in Nat /\ (cursor.kind = "empty" => n = 0)
      BY <2>1, CursorAt
    <2> QED
      BY <2>1, <2>2, ItemsFinite DEF PositionInv, CursorOK, DecodeOffsetCursor
  <1>2. SetProtoIntField(n) = n /\ SetProtoIntField(PageSize) = PageSize /\ PageSize \in Nat \ {0}
    BY <1>1, ResourceListOK, ItemsFinite DEF SetProtoIntField
  <1>3. store \in SUBSET Items /\ IsFiniteSet(store) /\ store \in SUBSET Nat
    BY ItemsFinite DEF PositionInv
  <1>4. items = {i \in store : n <= R(i) /\ R(i) < n + PageSize}
    BY <1>1, <1>2 DEF OffsetPage, Window, Rank, RankIn, Lower
  <1>5. /\ count \in Nat /\ count <= PageSize
        /\ count < PageSize => \A i \in store : R(i) < n + PageSize
        /\ count = PageSize => n + PageSize <= Cardinality(store)
    BY <1>1, <1>2, <1>3, <1>4, WindowCount
  <1>6. \A i : R(i) \in Nat /\ \A c : Behind(c, i) <=> R(i) < c.at
    BY <1>3, RankType DEF Behind, Rank, RankIn, Lower
  <1>7. next = IF count < PageSize THEN NoCursor ELSE [kind |-> "offset", at |-> n + count]
    BY <1>1 DEF NextOffset, EncodeOffsetCursor
  <1> HIDE DEF R, count, n
  <1>8. CASE count < PageSize
    <2>1. next = NoCursor /\ CursorOK(next)
      BY <1>7, <1>8, NoCursorOK
    <2>2. \A i \in store : Behind(cursor, i) \/ i \in items
      BY <1>1, <1>4, <1>5, <1>6, <1>8 DEF n
    <2>3. items \subseteq store /\ \A i \in items : ~Behind(cursor, i)
      BY <1>1, <1>4, <1>6 DEF n
    <2> QED
      BY <2>1, <2>2, <2>3 DEF PageOf
  <1>9. CASE ~(count < PageSize)
    <2>1. next = [kind |-> "offset", at |-> n + PageSize] /\ n + PageSize <= Cardinality(store)
      BY <1>2, <1>5, <1>7, <1>9
    <2>2. n + PageSize \in Nat /\ n + PageSize <= Cardinality(Items)
      BY <1>1, <1>2, <1>3, <2>1, ItemsFinite
    <2>3. next.kind = mode /\ next.at = n + PageSize /\ CursorOK(next) /\ next # NoCursor
      BY <2>1, <2>2 DEF CursorOK, Cursors, NoCursor
    <2>4. items \subseteq store /\ \A i \in items : ~Behind(cursor, i) /\ Behind(next, i)
      BY <1>1, <1>4, <1>6, <2>3 DEF n
    <2>5. \A i : Behind(cursor, i) => Behind(next, i)
      BY <1>1, <1>2, <1>6, <2>3 DEF n
    <2>6. \A i \in store : Behind(next, i) => Behind(cursor, i) \/ i \in items
      BY <1>1, <1>4, <1>6, <2>3 DEF n
    <2> QED
      BY <2>3, <2>4, <2>5, <2>6 DEF PageOf
  <1> QED
    BY <1>8, <1>9

\* PageTokenPagination over a backend that keeps its part of the protocol.
LEMMA TokenPages ==
    ASSUME PositionInv, mode = "token", Decodes(cursor),
           NEW items, items = After(cursor.at, PageSize), NEW next \in NextPageToken(items)
    PROVE  PageOf(cursor, items, next)
  <1> DEFINE t == cursor.at
             rest == {i \in store : i > t}
  <1>1. t \in Nat
    BY CursorAt DEF PositionInv, CursorOK
  <1>2. store \in SUBSET Items /\ store \in SUBSET Nat /\ IsFiniteSet(store) /\ IsFiniteSet(rest) /\ PageSize \in Nat \ {0}
    BY ItemsFinite, ResourceListOK, FS_Subset DEF PositionInv
  <1>3. items \subseteq rest /\ items = {i \in rest : Cardinality({j \in store : t < j /\ j < i}) < PageSize}
    BY DEF After
  <1>4. \A c, i : Behind(c, i) <=> i <= c.at
    BY DEF Behind
  <1> HIDE DEF t
  <1>5. items \subseteq store /\ \A i \in items : i \in Nat /\ ~Behind(cursor, i)
    BY <1>1, <1>2, <1>3, <1>4 DEF t
  <1>6. ASSUME items = {} PROVE rest = {}
    <2> SUFFICES ASSUME rest # {} PROVE FALSE
      OBVIOUS
    <2>1. rest \in SUBSET Nat
      BY <1>2
    <2> HIDE DEF rest
    <2>2. PICK m \in rest : \A j \in rest : m <= j
      BY <1>2, <2>1, Ends
    <2>3. {j \in store : t < j /\ j < m} = {}
      BY <1>1, <1>2, <2>1, <2>2 DEF rest
    <2>4. m \in items
      BY <1>2, <1>3, <2>2, <2>3, FS_EmptySet
    <2> QED
      BY <1>6, <2>4
  <1>7. CASE items = {}
    <2>1. next = NoCursor /\ CursorOK(next)
      BY <1>7, NoCursorOK DEF NextPageToken
    <2>2. \A i \in store : Behind(cursor, i)
      BY <1>1, <1>2, <1>4, <1>6, <1>7 DEF t
    <2> QED
      BY <1>7, <2>1, <2>2 DEF PageOf
  <1>8. CASE items # {}
    <2> DEFINE top == Highest(items)
    <2>1. items \in SUBSET Nat /\ IsFiniteSet(items)
      BY <1>2, <1>5, FS_Subset
    <2>2. \E i \in items : \A j \in items : j <= i
      BY <1>8, <2>1, Ends
    <2>3. top \in items /\ top \in Nat /\ \A j \in items : j <= top
      BY <2>1, <2>2 DEF Highest
    <2>4. ASSUME NEW i \in rest, i <= top PROVE i \in items
      <3>1. {j \in store : t < j /\ j < i} \in SUBSET {j \in store : t < j /\ j < top}
        <4>1. i \in Nat /\ \A j \in store : j \in Nat
          BY <1>2
        <4>2. \A j \in store : j < i => j < top
          BY <2>3, <2>4, <4>1
        <4> QED
          BY <4>2
      <3>2. IsFiniteSet({j \in store : t < j /\ j < top}) /\ IsFiniteSet({j \in store : t < j /\ j < i})
        BY <1>2, FS_Subset
      <3>3. Cardinality({j \in store : t < j /\ j < i}) <= Cardinality({j \in store : t < j /\ j < top})
        BY <3>1, <3>2, FS_Subset
      <3>4. Cardinality({j \in store : t < j /\ j < top}) < PageSize
        BY <1>3, <2>3
      <3>5. /\ Cardinality({j \in store : t < j /\ j < top}) \in Nat
            /\ Cardinality({j \in store : t < j /\ j < i}) \in Nat
        BY <3>2, FS_CardinalityType
      <3>6. Cardinality({j \in store : t < j /\ j < i}) < PageSize
        BY <1>2, <3>3, <3>4, <3>5
      <3> QED
        BY <1>3, <2>4, <3>6
    <2>5. /\ next \in {[kind |-> "token", at |-> top], NoCursor}
          /\ next = NoCursor => ~\E i \in store : i > top
      BY <1>8 DEF NextPageToken, NoCursor
    <2> HIDE DEF top
    <2>6. CursorOK(next) /\ (next = NoCursor \/ (next.kind = mode /\ next.at = top))
      <3>1. CASE next = NoCursor
        <4>1. CursorOK(next)
          BY <3>1, NoCursorOK
        <4> QED
          BY <3>1, <4>1
      <3>2. CASE next = [kind |-> "token", at |-> top]
        <4>1. next \in Cursors /\ next.kind = "token" /\ next.at = top
          BY <2>3, <3>2 DEF Cursors
        <4> QED
          BY <4>1 DEF CursorOK
      <3> QED
        BY <2>5, <3>1, <3>2
    <2>7. next # NoCursor => \A i \in items : Behind(next, i)
      BY <1>4, <2>3, <2>6
    <2>8. next # NoCursor => \A i \in Items : Behind(cursor, i) => Behind(next, i)
      <3>1. top > t
        BY <1>3, <2>3
      <3>2. \A i \in Items : i \in Nat
        BY ResourceListOK
      <3> QED
        BY <1>1, <1>4, <2>3, <2>6, <3>1, <3>2 DEF t
    <2>9. \A i \in store : next = NoCursor \/ Behind(next, i) => Behind(cursor, i) \/ i \in items
      <3> SUFFICES ASSUME NEW i \in store, next = NoCursor \/ Behind(next, i), ~Behind(cursor, i) PROVE i \in items
        OBVIOUS
      <3>1. i \in Nat /\ i \in rest
        BY <1>1, <1>2, <1>4 DEF t
      <3>2. i <= top
        BY <1>4, <2>3, <2>5, <2>6, <3>1
      <3> QED
        BY <2>4, <3>1, <3>2
    <2> QED
      BY <1>5, <2>6, <2>7, <2>8, <2>9 DEF PageOf
  <1> QED
    BY <1>7, <1>8

------------------------------------------------------------------------------
LEMMA WalkInit == Init => WalkInv
  <1> SUFFICES ASSUME Init PROVE WalkInv
    OBVIOUS
  <1>1. CursorOK(cursor) /\ CursorOK(page.next) /\ cursor.kind \in {"empty", "foreign"}
    BY NoCursorOK DEF Init, NoPage, CursorOK, Cursors, NoCursor, Foreign
  <1>2. PositionInv
    BY <1>1, ResourceListOK DEF Init, PositionInv, NoPage, Walks
  <1> QED
    BY <1>2 DEF Init, WalkInv, SkipInv, RepeatInv, StartOfWalk

\* The slot, the request on its way to the lister, and an answer that never came.
LEMMA StillKeeps ==
    ASSUME WalkInv, UNCHANGED <<store, mode, cursor, page, listed, walk>>,
           client' = "waiting" <=> request' # "none",
           client' = "done" => client = "done" /\ servedBy' = servedBy,
           client' # "done" => client # "done",
           request' = "answered" => request = "answered" /\ servedBy' = servedBy
    PROVE  WalkInv'
  <1>1. \A c : CursorOK(c)' = CursorOK(c) /\ \A i : Behind(c, i)' = Behind(c, i)
    BY DEF CursorOK, Behind, Rank
  <1>2. PositionInv'
    BY <1>1 DEF WalkInv, PositionInv
  <1>3. SkipInv'
    BY <1>1 DEF WalkInv, SkipInv
  <1>4. RepeatInv'
    BY <1>1 DEF WalkInv, RepeatInv
  <1> QED
    BY <1>2, <1>3, <1>4 DEF WalkInv

LEMMA SendWalks == WalkInv /\ Send => WalkInv'
  <1> SUFFICES ASSUME WalkInv, Send PROVE WalkInv'
    OBVIOUS
  <1>1. /\ UNCHANGED <<store, mode, cursor, page, listed, servedBy>>
        /\ client = "ready" /\ client' = "waiting" /\ request' = "sent"
    BY DEF Send, backendVars
  <1>2. CASE walk' = walk
    BY <1>1, <1>2, StillKeeps
  <1>3. CASE cursor.kind \in {"empty", "foreign"} /\ walk' = Begin
    <2>1. \A c : CursorOK(c)' = CursorOK(c) /\ \A i : Behind(c, i)' = Behind(c, i)
      BY <1>1 DEF CursorOK, Behind, Rank
    <2>2. listed = {} /\ \A i \in store : ~Behind(cursor, i)
      BY <1>1, <1>3, StartOfWalk DEF WalkInv, PositionInv, CursorOK
    <2>3. walk'.start = store /\ ~walk'.repeated /\ walk' \in Walks
      <3>1. Begin.expected \in Registrars \cup {Nobody}
        BY DEF Begin
      <3> QED
        BY <1>3, <3>1 DEF Begin, Walks, WalkInv, PositionInv
    <2>4. PositionInv'
      BY <1>1, <2>1, <2>2, <2>3 DEF WalkInv, PositionInv
    <2>5. SkipInv'
      BY <1>1, <2>1, <2>2, <2>3 DEF SkipInv
    <2>6. RepeatInv'
      BY <1>1, <2>1, <2>2, <2>3 DEF RepeatInv
    <2> QED
      BY <2>4, <2>5, <2>6 DEF WalkInv
  <1> QED
    BY <1>2, <1>3 DEF Send

\* A creation moves items behind a later offset, a deletion behind an earlier one.
LEMMA WritesWalk == ASSUME WalkInv, NEW x \in Items, Create(x) \/ Delete(x) PROVE WalkInv'
  <1>0. walk \in Walks /\ walk.start \subseteq store /\ store \subseteq Items
    BY DEF WalkInv, PositionInv
  <1>1. UNCHANGED <<mode, cursor, page, listed, client, request, servedBy>>
    BY DEF Create, Delete, requestVars
  <1>2. /\ walk'.start \subseteq walk.start /\ walk'.repeated = walk.repeated /\ walk' \in Walks
        /\ walk.created => walk'.created
        /\ walk.deleted => walk'.deleted
        /\ store' \subseteq Items /\ walk'.start \subseteq store'
    <2>1. CASE Create(x)
      BY <1>0, <2>1 DEF Create, Walks
    <2>2. CASE Delete(x)
      <3>1. walk' = [walk EXCEPT !.deleted = TRUE, !.start = walk.start \ {x}] /\ store' = store \ {x}
        BY <2>2 DEF Delete
      <3>2. /\ walk'.start = walk.start \ {x} /\ walk'.deleted /\ walk'.repeated = walk.repeated
            /\ walk'.created = walk.created /\ walk' \in Walks
        BY <1>0, <3>1 DEF Walks
      <3> QED
        BY <1>0, <3>1, <3>2
    <2> QED
      BY <2>1, <2>2
  <1>3. \/ store \subseteq store' /\ walk'.created
        \/ store' \subseteq store /\ walk'.deleted
    <2>1. CASE Create(x)
      BY <1>0, <2>1 DEF Create, Walks
    <2>2. CASE Delete(x)
      <3>1. walk'.deleted
        BY <1>0, <2>2 DEF Delete, Walks
      <3> QED
        BY <2>2, <3>1 DEF Delete
    <2> QED
      BY <2>1, <2>2
  <1>4. \A c : CursorOK(c)' = CursorOK(c)
    BY <1>1 DEF CursorOK
  <1>5. PositionInv'
    BY <1>1, <1>2, <1>4 DEF WalkInv, PositionInv
  <1>6. \A i : Rank(i) = RankIn(store, i) /\ Rank(i)' = RankIn(store', i)
    BY DEF Rank, RankIn, Lower
  <1>7. \A i : RankIn(store, i) \in Nat /\ RankIn(store', i) \in Nat
    BY <1>2, ItemsFinite, RankType DEF WalkInv, PositionInv
  <1>8. \A c \in {cursor, page.next} : c.at \in Nat
    BY CursorAt DEF WalkInv, PositionInv, CursorOK
  <1>9. ASSUME mode = "offset" => ~walk'.deleted, NEW i, NEW c \in {cursor, page.next}, Behind(c, i)'
        PROVE  Behind(c, i)
    <2>1. CASE mode = "offset"
      <3>1. store \in SUBSET store' /\ IsFiniteSet(store')
        BY <1>2, <1>3, <1>9, <2>1, ItemsFinite
      <3>2. RankIn(store, i) <= RankIn(store', i) /\ RankIn(store', i) < c.at
        BY <1>1, <1>6, <1>9, <2>1, <3>1, RankMono DEF Behind
      <3> QED
        BY <1>6, <1>7, <1>8, <2>1, <3>2 DEF Behind
    <2>2. CASE mode # "offset"
      BY <1>1, <1>9, <2>2 DEF Behind
    <2> QED
      BY <2>1, <2>2
  <1>10. ASSUME mode = "offset" => ~walk'.created, NEW i, NEW c \in {cursor, page.next}, Behind(c, i)
         PROVE  Behind(c, i)'
    <2>1. CASE mode = "offset"
      <3>1. store' \in SUBSET store /\ IsFiniteSet(store)
        BY <1>3, <1>10, <2>1, ItemsFinite DEF WalkInv, PositionInv
      <3>2. RankIn(store', i) <= RankIn(store, i) /\ RankIn(store, i) < c.at
        BY <1>6, <1>10, <2>1, <3>1, RankMono DEF Behind
      <3> QED
        BY <1>1, <1>6, <1>7, <1>8, <2>1, <3>2 DEF Behind
    <2>2. CASE mode # "offset"
      BY <1>1, <1>10, <2>2 DEF Behind
    <2> QED
      BY <2>1, <2>2
  <1>11. SkipInv'
    BY <1>1, <1>2, <1>9 DEF WalkInv, SkipInv
  <1>12. RepeatInv'
    BY <1>1, <1>2, <1>10 DEF WalkInv, RepeatInv
  <1> QED
    BY <1>5, <1>11, <1>12 DEF WalkInv

\* A page that answers the request as it should.
LEMMA ListWalks == WalkInv /\ List => WalkInv'
  <1> SUFFICES ASSUME WalkInv, List PROVE WalkInv'
    OBVIOUS
  <1>1. /\ UNCHANGED <<store, mode, cursor, listed, walk, client, servedBy>>
        /\ request = "listing" /\ request' = "answered" /\ servedBy # Nobody /\ Decodes(cursor)
    BY DEF List, backendVars, clientVars
  <1>2. \E items, next : PageOf(cursor, items, next) /\ page' = [items |-> items \ Hidden, next |-> next]
    <2>1. CASE mode = "offset"
      <3>1. PICK next \in NextOffset(cursor, OffsetPage(cursor)) :
                page' = [items |-> OffsetPage(cursor) \ Hidden, next |-> next]
        BY <2>1 DEF List
      <3> QED
        BY <1>1, <2>1, <3>1, OffsetPages DEF WalkInv
    <2>2. CASE mode = "token"
      <3>1. PICK next \in NextPageToken(After(cursor.at, PageSize)) :
                page' = [items |-> After(cursor.at, PageSize) \ Hidden, next |-> next]
        BY <2>2 DEF List
      <3> QED
        BY <1>1, <2>2, <3>1, TokenPages DEF WalkInv
    <2> QED
      BY <2>1, <2>2 DEF WalkInv, PositionInv
  <1>3. PICK items, next : PageOf(cursor, items, next) /\ page' = [items |-> items \ Hidden, next |-> next]
    BY <1>2
  <1>4. page'.items = items \ Hidden /\ page'.next = next
    BY <1>3
  <1>5. \A c : CursorOK(c)' = CursorOK(c) /\ \A i : Behind(c, i)' = Behind(c, i)
    BY <1>1 DEF CursorOK, Behind, Rank
  <1>6. PositionInv'
    BY <1>1, <1>3, <1>4, <1>5 DEF WalkInv, PositionInv, PageOf
  <1>7. SkipInv'
    <2> SUFFICES ASSUME mode = "offset" => ~walk.deleted, NEW i \in walk.start \ Hidden,
                        next = NoCursor \/ Behind(next, i)
                 PROVE  i \in listed \cup (items \ Hidden)
      BY <1>1, <1>4, <1>5 DEF SkipInv, WalkInv, PositionInv
    <2>1. i \in store
      BY DEF WalkInv, PositionInv
    <2>2. Behind(cursor, i) \/ i \in items
      BY <1>3, <2>1 DEF PageOf
    <2> QED
      BY <2>2 DEF WalkInv, SkipInv
  <1>8. RepeatInv'
    <2> SUFFICES ASSUME mode = "offset" => ~walk.created
                 PROVE  /\ ~walk.repeated /\ \A i \in listed : Behind(cursor, i)
                        /\ listed \cap (items \ Hidden) = {}
                        /\ next # NoCursor => \A i \in listed \cup (items \ Hidden) : Behind(next, i)
      BY <1>1, <1>4, <1>5 DEF RepeatInv
    <2>1. ~walk.repeated /\ \A i \in listed : i \in Items /\ Behind(cursor, i)
      BY <1>1 DEF WalkInv, RepeatInv, PositionInv
    <2>2. listed \cap (items \ Hidden) = {}
      BY <1>3, <2>1 DEF PageOf
    <2>3. next # NoCursor => \A i \in listed \cup (items \ Hidden) : Behind(next, i)
      BY <1>3, <2>1 DEF PageOf
    <2> QED
      BY <2>1, <2>2, <2>3
  <1> QED
    BY <1>6, <1>7, <1>8 DEF WalkInv

LEMMA SDKListWalks == WalkInv /\ SDKList => WalkInv'
  <1> SUFFICES ASSUME WalkInv, SDKList PROVE WalkInv'
    OBVIOUS
  <1>1. /\ UNCHANGED <<store, mode, cursor, listed, walk, client, servedBy>>
        /\ request = "listing" /\ request' = "answered" /\ servedBy = Nobody /\ page' = NoPage
    BY DEF SDKList, backendVars, clientVars
  <1>2. \A c : CursorOK(c)' = CursorOK(c) /\ \A i : Behind(c, i)' = Behind(c, i)
    BY <1>1 DEF CursorOK, Behind, Rank
  <1>3. page'.items = {} /\ page'.next = NoCursor
    BY <1>1 DEF NoPage
  <1>4. PositionInv'
    BY <1>1, <1>2, <1>3, NoCursorOK DEF WalkInv, PositionInv
  <1>5. SkipInv'
    BY <1>1, <1>2, <1>3 DEF WalkInv, SkipInv
  <1>6. RepeatInv'
    BY <1>1, <1>2, <1>3 DEF WalkInv, RepeatInv
  <1> QED
    BY <1>4, <1>5, <1>6 DEF WalkInv

LEMMA ReceiveWalks == WalkInv /\ Receive => WalkInv'
  <1> SUFFICES ASSUME WalkInv, Receive PROVE WalkInv'
    OBVIOUS
  <1>1. /\ UNCHANGED <<store, mode, page, servedBy>>
        /\ request = "answered" /\ request' = "none" /\ cursor' = page.next
        /\ listed' = listed \cup page.items
        /\ client' = IF page.next = NoCursor THEN "done" ELSE "ready"
    BY DEF Receive, backendVars
  <1>2. /\ walk' \in Walks /\ walk'.start = walk.start /\ walk'.created = walk.created
        /\ walk'.deleted = walk.deleted /\ walk'.repeated = (walk.repeated \/ listed \cap page.items # {})
    <2>1. walk \in Walks /\ walk' = [walk EXCEPT !.repeated = walk.repeated \/ listed \cap page.items # {}]
      BY DEF Receive, WalkInv, PositionInv
    <2>2. (walk.repeated \/ listed \cap page.items # {}) \in BOOLEAN
      OBVIOUS
    <2> QED
      BY <2>1, <2>2 DEF Walks
  <1>3. \A c : CursorOK(c)' = CursorOK(c) /\ \A i : Behind(c, i)' = Behind(c, i)
    BY <1>1 DEF CursorOK, Behind, Rank
  <1>4. PositionInv'
    BY <1>1, <1>2, <1>3 DEF WalkInv, PositionInv
  <1>5. SkipInv'
    <2> SUFFICES ASSUME mode = "offset" => ~walk.deleted
                 PROVE  /\ \A i \in walk.start \ Hidden : Behind(page.next, i) => i \in listed'
                        /\ client' = "done" /\ servedBy # Nobody => walk.start \ Hidden \subseteq listed'
      BY <1>1, <1>2, <1>3 DEF SkipInv
    <2>1. CASE servedBy # Nobody
      BY <1>1, <2>1 DEF WalkInv, SkipInv
    <2>2. CASE servedBy = Nobody
      <3>1. page.next = NoCursor /\ NoCursor \in Cursors /\ NoCursor.kind = "empty"
        BY <1>1, <2>2, NoCursorOK DEF WalkInv, PositionInv, NoPage, NoCursor, CursorOK
      <3>2. \A i \in walk.start : ~Behind(page.next, i)
        BY <3>1, StartOfWalk DEF WalkInv, PositionInv
      <3> QED
        BY <2>2, <3>2
    <2> QED
      BY <2>1, <2>2
  <1>6. RepeatInv'
    BY <1>1, <1>2, <1>3 DEF WalkInv, RepeatInv
  <1> QED
    BY <1>4, <1>5, <1>6 DEF WalkInv

LEMMA WalkStep == WalkInv /\ [Next]_vars => WalkInv'
  <1> SUFFICES ASSUME WalkInv, [Next]_vars PROVE WalkInv'
    OBVIOUS
  <1>0. client = "waiting" <=> request # "none"
    BY DEF WalkInv, PositionInv
  <1>1. ASSUME NEW r \in Registrars, Register(r) \/ Install(r) PROVE WalkInv'
    BY <1>0, <1>1, StillKeeps DEF Register, Install, backendVars, requestVars, clientVars
  <1>2. CASE Dispatch
    BY <1>0, <1>2, StillKeeps DEF Dispatch, backendVars, clientVars
  <1>3. CASE Fail \/ Lose
    BY <1>0, <1>3, StillKeeps DEF Fail, Lose, backendVars
  <1>4. CASE UNCHANGED vars
    BY <1>0, <1>4, StillKeeps DEF vars, backendVars, requestVars, clientVars
  <1> QED
    BY <1>1, <1>2, <1>3, <1>4, SendWalks, WritesWalk, ListWalks, SDKListWalks, ReceiveWalks DEF Next

\* "A partial page is terminal": a walk that ends has listed all that was there from
\* its first page to its last, for any collection, page size and order of writes.
THEOREM WalkComplete == Spec => []WalkSkipsNothing
  <1>1. WalkInv => WalkSkipsNothing
    BY DEF WalkInv, SkipInv, WalkSkipsNothing
  <1> QED
    BY <1>1, WalkInit, WalkStep, PTL DEF Spec

\* ... and lists nothing twice.
THEOREM WalkOnce == Spec => []WalkRepeatsNothing
  <1>1. WalkInv => WalkRepeatsNothing
    BY DEF WalkInv, RepeatInv, WalkRepeatsNothing
  <1> QED
    BY <1>1, WalkInit, WalkStep, PTL DEF Spec
------------------------------------------------------------------------------
\* What neither the slot's invariant nor the walk's says: a slot is taken by the
\* caller that set it, and the counters stay within their bounds.
RestInv ==
    /\ lister \in Registrars \cup {Nobody}
    /\ lister # Nobody => registrar[lister] \in {"set", "returned"}
    /\ store \subseteq used /\ used \subseteq Items /\ writes \in 0..MaxWrites /\ mode \in Modes
    /\ client \in {"ready", "waiting", "done", "failed"}
    /\ request \in {"none", "sent", "listing", "answered"}
    /\ servedBy \in Registrars \cup {Nobody} /\ retries \in 0..MaxRetries

\* ... and the flag that only one caller sets.
InstalledInv == installed \in BOOLEAN

LEMMA RestStep == IInv /\ RestInv /\ [Next]_vars => RestInv'
  <1> SUFFICES ASSUME IInv, RestInv, [Next]_vars PROVE RestInv'
    OBVIOUS
  <1>0. registrar \in [Registrars -> {"idle", "set", "returned", "panicked"}]
    BY DEF IInv, SlotInv
  <1> USE ResourceListOK DEF RestInv, slotVars, backendVars, requestVars, clientVars
  <1>1. ASSUME NEW r \in Registrars, Register(r) PROVE RestInv'
    <2>1. \A s : lister' = s /\ s # Nobody => registrar'[s] \in {"set", "returned"}
      BY <1>0, <1>1 DEF Register
    <2>2. lister' \in Registrars \cup {Nobody}
      BY <1>1 DEF Register
    <2> QED
      BY <1>1, <2>1, <2>2 DEF Register
  <1>2. ASSUME NEW r \in Registrars, Install(r) PROVE RestInv'
    BY <1>0, <1>2 DEF Install
  <1>3. ASSUME NEW i \in Items, Create(i) \/ Delete(i) PROVE RestInv'
    BY <1>3 DEF Create, Delete
  <1>4. CASE Send \/ Dispatch \/ SDKList
    BY <1>4 DEF Send, Dispatch, SDKList
  <1>5. CASE List
    BY <1>5 DEF List
  <1>6. CASE Fail \/ Receive \/ Lose
    BY <1>6 DEF Fail, Receive, Lose
  <1>7. CASE UNCHANGED vars
    BY <1>7 DEF vars
  <1> QED
    BY <1>1, <1>2, <1>3, <1>4, <1>5, <1>6, <1>7 DEF Next

LEMMA InstalledStep == InstalledInv /\ [Next]_vars => InstalledInv'
  <1> SUFFICES ASSUME InstalledInv, [Next]_vars PROVE installed' = installed \/ installed' = TRUE
    BY Zenon DEF InstalledInv
  <1> QED
    BY DEF Next, vars, slotVars, Register, Install, Create, Delete, Send, Dispatch, SDKList, List, Fail, Receive, Lose

\* Type correctness of the lister slot, the backend and the walk: the slot is taken
\* exactly by the one caller of RegisterResourceLister that found it empty, a client
\* waits exactly while its request is under way, and no cursor leaves the cursors.
THEOREM WalkTypeCorrect == Spec => []TypeOK
  <1>1. Init => RestInv /\ InstalledInv
    <2> SUFFICES ASSUME Init PROVE RestInv /\ InstalledInv
      OBVIOUS
    <2>1. RestInv
      BY ResourceListOK DEF Init, RestInv
    <2>2. InstalledInv
      BY DEF Init, InstalledInv
    <2> QED
      BY <2>1, <2>2
  <1>2. IInv /\ WalkInv /\ RestInv /\ InstalledInv => TypeOK
    <2> SUFFICES ASSUME IInv, WalkInv, RestInv, InstalledInv PROVE TypeOK
      OBVIOUS
    <2>1. \A r \in Registrars : registrar[r] \in {"set", "returned"} <=> lister = r
      BY ResourceListOK DEF IInv, SlotInv, RestInv
    <2>2. walk.start \subseteq Items /\ page.items \subseteq Items /\ listed \subseteq Items
      BY DEF WalkInv, PositionInv
    <2>3. cursor \in Cursors /\ page.next \in Cursors
      BY DEF WalkInv, PositionInv, CursorOK
    <2>4. installed \in BOOLEAN
      BY DEF InstalledInv
    <2>5. registrar \in [Registrars -> {"idle", "set", "returned", "panicked"}] /\ (client = "waiting" <=> request # "none")
      BY DEF IInv, SlotInv, ExpectedInv
    <2> QED
      BY <2>1, <2>2, <2>3, <2>4, <2>5 DEF TypeOK, RestInv
  <1> QED
    BY <1>1, <1>2, InitIInv, SlotStep, RestStep, InstalledStep, WalkInit, WalkStep, PTL DEF Spec
==============================================================================
