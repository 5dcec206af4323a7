----------------------------- MODULE MaskingProofs -----------------------------
(***************************************************************************)
(* For every set of descriptors, every message and every depth limit, what *)
(* a handler passes on is clean.  The walk is in reach of what it has not  *)
(* cleared yet: a marked value is below some message still to visit.       *)
(***************************************************************************)
EXTENDS Masking, TLAPS

\* A value is below itself, and below comes with all that hangs from it.
LEMMA BelowFacts ==
    ASSUME NEW m \in Messages, NEW n \in m.nodes
    PROVE  /\ n \in m.below[n] /\ m.below[n] \subseteq m.nodes
           /\ \A b \in m.below[n] : m.below[b] \subseteq m.below[n] /\ Children(m, b) \subseteq m.below[n]
<1>1. n \in m.below[n] /\ m.below[n] \subseteq m.nodes /\ Closed(m, m.below[n])
  BY MaskingOK DEF WellFormed
<1>2. m.below[n] \in SUBSET m.nodes
  BY <1>1
<1>4. \A S \in SUBSET m.nodes : Closed(m, S) => \A b \in S : m.below[b] \subseteq S
  BY MaskingOK DEF WellFormed
<1>3. \A b \in m.below[n] : m.below[b] \subseteq m.below[n]
  BY <1>1, <1>2, <1>4
<1> QED
  BY <1>1, <1>3 DEF Closed

\* It is the least such set.
LEMMA BelowLeast ==
    ASSUME NEW m \in Messages, NEW n \in m.nodes, NEW S \in SUBSET m.nodes, n \in S,
           \A b \in S : Children(m, b) \subseteq S
    PROVE  m.below[n] \subseteq S
BY MaskingOK DEF WellFormed, Closed

\* What is below a value is the value or below one of its children.
LEMMA BelowSplit ==
    ASSUME NEW m \in Messages, NEW n \in m.nodes, NEW b \in m.below[n], b # n
    PROVE  \E c \in Children(m, n) : b \in m.below[c]
<1> DEFINE S == {n} \cup UNION {m.below[c] : c \in Children(m, n)}
<1>1. Children(m, n) \subseteq m.nodes
  BY DEF Children
<1>2. S \in SUBSET m.nodes /\ n \in S
  BY <1>1, BelowFacts
<1>3. \A x \in S : Children(m, x) \subseteq S
  <2> SUFFICES ASSUME NEW x \in S PROVE Children(m, x) \subseteq S
    OBVIOUS
  <2>1. CASE x = n
    <3>1. \A c \in Children(m, n) : c \in m.below[c]
      BY <1>1, BelowFacts
    <3> QED
      BY <2>1, <3>1
  <2>2. CASE \E c \in Children(m, n) : x \in m.below[c]
    <3>1. PICK c \in Children(m, n) : x \in m.below[c]
      BY <2>2
    <3>2. Children(m, x) \subseteq m.below[c]
      BY <3>1, <1>1, BelowFacts
    <3> QED
      BY <3>2
  <2> QED
    BY <2>1, <2>2
<1>4. m.below[n] \subseteq S
  <2> HIDE DEF S
  <2> QED
    BY <1>2, <1>3, BelowLeast
<1> QED
  BY <1>4

\* A value hangs by a field of the message above it.
LEMMA ViaFacts ==
    ASSUME NEW m \in Messages, NEW c \in m.nodes \ {m.root}
    PROVE  /\ m.up[c] \in m.nodes /\ m.via[c] \in Fields
           /\ m.via[c].owner = TypeOf(m, m.up[c]) /\ m.via[c].owner \in Types
           /\ m.via[c].target \in Types \cup {Scalar} /\ TypeOf(m, c) = m.via[c].target
<1>1. WellFormed(m)
  BY MaskingOK
<1>2. m.up[c] \in m.nodes /\ m.via[c] \in Fields /\ m.via[c].owner = TypeOf(m, m.up[c])
  BY <1>1 DEF WellFormed
<1>3. m.via[c].owner \in Types /\ m.via[c].target \in Types \cup {Scalar}
  BY <1>2, MaskingOK
<1> QED
  BY <1>2, <1>3 DEF TypeOf

\* A set of types that leads to no other type holds the types of all below.
LEMMA TypesBelow ==
    ASSUME NEW m \in Messages, NEW n \in m.nodes, NEW T \in SUBSET Types,
           TypeOf(m, n) \in T \cup {Scalar},
           \A f \in Fields : f.owner \in T => f.target \in T \cup {Scalar}
    PROVE  \A b \in m.below[n] : TypeOf(m, b) \in T \cup {Scalar}
<1> DEFINE S == {b \in m.nodes : TypeOf(m, b) \in T \cup {Scalar}}
<1>1. S \in SUBSET m.nodes /\ n \in S
  OBVIOUS
<1>2. \A b \in S : Children(m, b) \subseteq S
  <2> SUFFICES ASSUME NEW b \in S, NEW c \in Children(m, b) PROVE c \in S
    OBVIOUS
  <2>1. c \in m.nodes \ {m.root} /\ m.up[c] = b
    BY DEF Children
  <2>2. m.via[c] \in Fields /\ m.via[c].owner = TypeOf(m, b) /\ m.via[c].owner \in Types
    BY <2>1, ViaFacts
  <2>3. m.via[c].target \in T \cup {Scalar}
    BY <2>2, MaskingOK
  <2> QED
    BY <2>1, <2>3 DEF TypeOf
<1>3. m.below[n] \subseteq S
  <2> HIDE DEF S
  <2> QED
    BY <1>1, <1>2, BelowLeast
<1> QED
  BY <1>3

\* HasMatch is right to let a subtree go unvisited.
LEMMA NoMatchBelow ==
    ASSUME NEW n \in msg.nodes, msg \in Messages,
           TypeOf(msg, n) \in Types, ~HasMatch(TypeOf(msg, n))
    PROVE  \A b \in msg.below[n] : \A f \in Fields : f.owner = TypeOf(msg, b) => ~Match(f)
<1>1. PICK T \in SUBSET (Types \ {AnyType}) :
        /\ TypeOf(msg, n) \in T
        /\ \A f \in Fields : f.owner \in T => ~Match(f) /\ f.target \in T \cup {Scalar}
  BY DEF HasMatch
<1>2. \A b \in msg.below[n] : TypeOf(msg, b) \in T \cup {Scalar}
  BY <1>1, TypesBelow
<1> QED
  BY <1>1, <1>2, MaskingOK

\* A value that is no message has nothing below it.
LEMMA ScalarLeaf ==
    ASSUME NEW m \in Messages, NEW n \in m.nodes, TypeOf(m, n) \notin Types
    PROVE  m.below[n] = {n}
<1>1. Children(m, n) = {}
  <2> SUFFICES ASSUME NEW c \in Children(m, n) PROVE FALSE
    OBVIOUS
  <2>1. c \in m.nodes \ {m.root} /\ m.up[c] = n
    BY DEF Children
  <2> QED
    BY <2>1, ViaFacts
<1> QED
  BY <1>1, BelowSplit, BelowFacts
------------------------------------------------------------------------------
Shape ==
    /\ msg \in Messages /\ op \in Ops
    /\ phase \in {"call", "walk", "marshal", "strip", "done", "failed"}
    /\ live \subseteq msg.nodes /\ todo \subseteq msg.nodes
    /\ \A n \in open : n \in msg.nodes /\ TypeOf(msg, n) = AnyType

\* What hangs from a cleared value is gone with it.
RemovedBelow == \A n \in msg.nodes \ live : msg.below[n] \cap live = {}

\* A marked value that is still there is below a message still to visit.
InReach(c) == phase = "walk" /\ \E t \in todo : msg.up[c] \in msg.below[t]
Covered ==
    phase \notin {"call", "failed"} =>
        \A c \in live \ {msg.root} : Match(msg.via[c]) => InReach(c)

\* The same of the keys of the JSON.
KeysOK ==
    /\ phase \in {"call", "walk", "marshal"} => names = {}
    /\ \A k \in names :
        /\ k[1] \in live /\ k[2] \in Fields
        /\ k[2].owner = TypeOf(msg, k[1]) /\ k[2].owner \notin CustomJSON
KeysCovered ==
    phase \in {"strip", "done"} =>
        \A k \in names : Match(k[2]) =>
            InGroupList(k[1]) \/ (phase = "strip" /\ \E t \in todo : k[1] \in msg.below[t])

IInv == Shape /\ RemovedBelow /\ Covered /\ NothingElseCleared /\ KeysOK /\ KeysCovered

\* A node below a live one's child that is live makes the child live.
LEMMA LiveAbove ==
    ASSUME Shape, RemovedBelow, NEW n \in msg.nodes, NEW b \in msg.below[n], b \in live
    PROVE  n \in live
BY DEF Shape, RemovedBelow

\* Clearing fields keeps the set of cleared values closed.
LEMMA ClearKeeps ==
    ASSUME Shape, RemovedBelow, NEW cs \in SUBSET msg.nodes, ClearFields(cs), msg' = msg
    PROVE  /\ live' \subseteq live /\ RemovedBelow'
           /\ \A c \in cs : msg.below[c] \cap live' = {}
           /\ \A n \in live \ live' : \E c \in cs : n \in msg.below[c]
<1>1. live' = live \ UNION {msg.below[c] : c \in cs}
  BY DEF ClearFields
<1>2. ASSUME NEW n \in msg.nodes \ live' PROVE msg.below[n] \cap live' = {}
  <2>1. CASE n \notin live
    BY <2>1, <1>1, <1>2 DEF RemovedBelow
  <2>2. CASE n \in live
    <3>1. PICK c \in cs : n \in msg.below[c]
      BY <2>2, <1>1, <1>2
    <3>2. msg.below[n] \subseteq msg.below[c]
      BY <3>1, BelowFacts DEF Shape
    <3> QED
      BY <3>1, <3>2, <1>1
  <2> QED
    BY <2>1, <2>2
<1> QED
  BY <1>1, <1>2 DEF RemovedBelow

THEOREM Initially == Init => IInv
BY DEF Init, IInv, Shape, RemovedBelow, Covered, NothingElseCleared, KeysOK, KeysCovered

\* Wiping everything a message holds, or giving up.
LEMMA UnverifiableKeeps ==
    ASSUME IInv, phase = "walk", NEW n \in msg.nodes, NEW cs \in SUBSET Children(msg, n),
           Unverifiable(n, cs), UNCHANGED <<input, repacked, names>>,
           Children(msg, n) \cap live \subseteq cs,
           \A c \in cs : msg.via[c].shape = "payload" \/ msg.depth[n] >= MaxDepth
    PROVE  IInv'
<1> USE DEF input
<1>1. CASE Loud
  BY <1>1 DEF IInv, Shape, RemovedBelow, Covered, NothingElseCleared, KeysOK, KeysCovered,
              Unverifiable, Removable, Loud, Match, Changed
<1>2. CASE ~Loud
  <2>1. ClearFields(cs) /\ todo' = todo \ {n} /\ open' = open \ {n} /\ phase' = phase /\ msg' = msg
    BY <1>2 DEF Unverifiable
  <2>2. cs \in SUBSET msg.nodes /\ \A c \in cs : c \in msg.nodes \ {msg.root} /\ msg.up[c] = n
    BY DEF Children
  <2>3. /\ live' \subseteq live /\ RemovedBelow'
        /\ \A c \in cs : msg.below[c] \cap live' = {}
        /\ \A x \in live \ live' : \E c \in cs : x \in msg.below[c]
    BY <2>1, <2>2, ClearKeeps DEF IInv
  <2>4. Shape' /\ KeysOK' /\ KeysCovered'
    BY <2>1, <2>3 DEF IInv, Shape, KeysOK, KeysCovered
  <2>5. Covered'
    <3> SUFFICES ASSUME NEW c \in live' \ {msg.root}, Match(msg.via[c]) PROVE InReach(c)'
      BY <2>1 DEF Covered, Match
    <3>1. PICK t \in todo : msg.up[c] \in msg.below[t]
      BY <2>3 DEF IInv, Covered, InReach
    <3>2. c \in live /\ c \in msg.nodes \ {msg.root} /\ msg.up[c] \in msg.nodes
      BY <2>3, ViaFacts DEF IInv, Shape
    <3>3. CASE t = n
      <4>1. CASE msg.up[c] = n
        <5>1. c \in cs
          BY <4>1, <3>2 DEF Children
        <5> QED
          BY <5>1, <2>2, <2>3, BelowFacts DEF IInv, Shape
      <4>2. CASE msg.up[c] # n
        <5>1. PICK x \in Children(msg, n) : msg.up[c] \in msg.below[x]
          BY <3>1, <3>3, <4>2, BelowSplit DEF IInv, Shape
        <5>2. x \in msg.nodes /\ c \in msg.below[x]
          BY <5>1, <3>2, BelowFacts DEF IInv, Shape, Children
        <5>3. x \in live
          BY <5>2, <3>2, LiveAbove DEF IInv
        <5> QED
          BY <5>1, <5>2, <5>3, <2>3
      <4> QED
        BY <4>1, <4>2
    <3> QED
      BY <3>1, <3>3, <2>1 DEF InReach
  <2>6. NothingElseCleared'
    <3>1. ASSUME NEW x \in msg.nodes \ live'
          PROVE  \E a \in msg.nodes \ {msg.root} : x \in msg.below[a] /\ Removable(a)
      <4>1. CASE x \in live
        BY <4>1, <3>1, <1>2, <2>2, <2>3 DEF Removable
      <4>2. CASE x \notin live
        BY <4>2, <3>1 DEF IInv, NothingElseCleared
      <4> QED
        BY <4>1, <4>2
    <3>2. \A x \in repacked \cap live' : Changed(x)'
      BY <2>1, <2>3 DEF IInv, NothingElseCleared, Changed
    <3> QED
      BY <3>1, <3>2 DEF NothingElseCleared, Removable, Match, Loud
  <2> QED
    BY <2>3, <2>4, <2>5, <2>6 DEF IInv
<1> QED
  BY <1>1, <1>2

LEMMA StartKeeps == ASSUME IInv, Start PROVE IInv'
<1> USE DEF input
<1>1. Shape' /\ RemovedBelow' /\ NothingElseCleared' /\ KeysOK' /\ KeysCovered'
  <2>1. msg.root \in msg.nodes
    BY MaskingOK DEF IInv, Shape, WellFormed
  <2> QED
    BY <2>1 DEF IInv, Start, Shape, RemovedBelow, NothingElseCleared, KeysOK,
              KeysCovered, Removable, Match, Loud, Changed
<1>2. Covered'
  <2> SUFFICES ASSUME NEW c \in live \ {msg.root}, Match(msg.via[c]) PROVE InReach(c)'
    BY DEF Start, Covered, Match
  <2>1. /\ msg.root \in msg.nodes /\ msg.below[msg.root] = msg.nodes
        /\ TypeOf(msg, msg.root) = msg.type /\ msg.type \in Types
    BY MaskingOK DEF IInv, Shape, WellFormed, TypeOf
  <2>2. c \in msg.nodes \ {msg.root} /\ msg.up[c] \in msg.nodes /\ msg.via[c] \in Fields
        /\ msg.via[c].owner = TypeOf(msg, msg.up[c])
    BY ViaFacts DEF IInv, Shape
  <2>3. CASE Masks
    BY <2>1, <2>2, <2>3 DEF Start, InReach
  <2>4. CASE ~Masks
    BY <2>1, <2>2, <2>4, NoMatchBelow DEF Masks, IInv, Shape
  <2> QED
    BY <2>3, <2>4
<1> QED
  BY <1>1, <1>2 DEF IInv

LEMMA TooDeepKeeps == ASSUME IInv, NEW n \in todo, TooDeep(n) PROVE IInv'
<1>1. n \in msg.nodes
  BY DEF IInv, Shape
<1> QED
  BY <1>1, UnverifiableKeeps DEF TooDeep

LEMMA VisitKeeps == ASSUME IInv, NEW n \in todo, Visit(n) PROVE IInv'
<1> USE DEF input
<1>1. n \in msg.nodes /\ Matched(n) \in SUBSET msg.nodes /\ Children(msg, n) \subseteq msg.nodes \ {msg.root}
  BY DEF IInv, Shape, Matched, Children
<1>2. /\ phase = "walk" /\ phase' = phase /\ msg' = msg /\ op' = op /\ open' = open
      /\ repacked' = repacked /\ names' = names
      /\ todo' = (todo \ {n}) \cup {c \in (Children(msg, n) \cap live) \ Matched(n) : Messagelike(c)}
  BY DEF Visit
<1>3. /\ live' \subseteq live /\ RemovedBelow'
      /\ \A c \in Matched(n) : msg.below[c] \cap live' = {}
      /\ \A x \in live \ live' : \E c \in Matched(n) : x \in msg.below[c]
  BY <1>1, <1>2, ClearKeeps DEF IInv, Visit
<1>4. Shape' /\ KeysOK' /\ KeysCovered'
  BY <1>1, <1>2, <1>3 DEF IInv, Shape, KeysOK, KeysCovered
<1>5. Covered'
  <2> SUFFICES ASSUME NEW c \in live' \ {msg.root}, Match(msg.via[c]) PROVE InReach(c)'
    BY <1>2 DEF Covered, Match
  <2>1. PICK t \in todo : msg.up[c] \in msg.below[t]
    BY <1>2, <1>3 DEF IInv, Covered, InReach
  <2>2. c \in live /\ c \in msg.nodes \ {msg.root} /\ msg.up[c] \in msg.nodes
        /\ TypeOf(msg, msg.up[c]) \in Types
    BY <1>3, ViaFacts DEF IInv, Shape
  <2>3. CASE t = n
    <3>1. CASE msg.up[c] = n
      <4>1. c \in Matched(n)
        BY <3>1, <2>2 DEF Children, Matched
      <4> QED
        BY <4>1, <2>2, <1>3, BelowFacts DEF IInv, Shape
    <3>2. CASE msg.up[c] # n
      <4>1. PICK x \in Children(msg, n) : msg.up[c] \in msg.below[x]
        BY <2>1, <2>3, <3>2, <1>1, BelowSplit DEF IInv, Shape
      <4>2. x \in msg.nodes \ {msg.root} /\ c \in msg.below[x]
        BY <4>1, <2>2, BelowFacts DEF IInv, Shape, Children
      <4>3. x \in live /\ x \notin Matched(n)
        BY <4>2, <2>2, <1>3, LiveAbove DEF IInv
      <4>4. Messagelike(x)
        <5>1. CASE TypeOf(msg, x) \notin Types
          BY <5>1, <4>1, <4>2, <2>2, ScalarLeaf DEF IInv, Shape
        <5> QED
          BY <5>1, <4>2 DEF Messagelike, TypeOf
      <4> QED
        BY <4>1, <4>3, <4>4, <1>2 DEF InReach
    <3> QED
      BY <3>1, <3>2
  <2> QED
    BY <2>1, <2>3, <1>2 DEF InReach
<1>6. NothingElseCleared'
  <2>1. ASSUME NEW x \in msg.nodes \ live'
        PROVE  \E a \in msg.nodes \ {msg.root} : x \in msg.below[a] /\ Removable(a)
    <3>1. CASE x \in live
      BY <3>1, <2>1, <1>1, <1>3 DEF Matched, Removable
    <3>2. CASE x \notin live
      BY <3>2, <2>1 DEF IInv, NothingElseCleared
    <3> QED
      BY <3>1, <3>2
  <2>2. \A x \in repacked \cap live' : Changed(x)'
    BY <1>2, <1>3 DEF IInv, NothingElseCleared, Changed
  <2> QED
    BY <2>1, <2>2, <1>2 DEF NothingElseCleared, Removable, Match, Loud
<1> QED
  BY <1>3, <1>4, <1>5, <1>6 DEF IInv

LEMMA VisitAnyKeeps == ASSUME IInv, NEW n \in todo, VisitAny(n) PROVE IInv'
<1> USE DEF input
<1> DEFINE raw == {p \in Payload(n) : Encoded(p)}
<1>1. n \in msg.nodes /\ phase = "walk" /\ TypeOf(msg, n) = AnyType
      /\ \A c \in Children(msg, n) : c \in msg.nodes \ {msg.root} /\ msg.up[c] = n
  BY DEF IInv, Shape, VisitAny, Children
<1>2. \A c \in Children(msg, n) : msg.via[c].owner = AnyType /\ msg.via[c] \in Fields
                                 /\ msg.via[c].shape = "payload" /\ ~Match(msg.via[c])
  BY <1>1, ViaFacts, MaskingOK DEF IInv, Shape, Match
<1>3. CASE \E p \in raw : Unreadable(p)
  <2>1. Unverifiable(n, Payload(n)) /\ Payload(n) \in SUBSET Children(msg, n)
        /\ UNCHANGED <<input, repacked, names>>
    BY <1>3 DEF VisitAny, Payload
  <2> QED
    BY <2>1, <1>1, <1>2, UnverifiableKeeps DEF Payload
<1>4. CASE ~ \E p \in raw : Unreadable(p)
  <2> DEFINE unpacked == {p \in raw : HasMatch(msg.via[p].target)}
  <2>1. /\ todo' = (todo \ {n}) \cup unpacked /\ open' \subseteq open \cup {n}
        /\ UNCHANGED <<phase, live, input, repacked, names>>
    BY <1>4 DEF VisitAny
  <2>2. unpacked \subseteq msg.nodes
    BY <1>1 DEF Payload
  <2>3. Shape' /\ RemovedBelow' /\ NothingElseCleared' /\ KeysOK' /\ KeysCovered'
    <3> HIDE DEF raw, unpacked
    <3> QED
      BY <2>1, <2>2, <1>1 DEF IInv, Shape, RemovedBelow, NothingElseCleared, Removable, KeysOK,
                              KeysCovered, Match, Loud, Changed, TypeOf
  <2>4. Covered'
    <3> SUFFICES ASSUME NEW c \in live \ {msg.root}, Match(msg.via[c]) PROVE InReach(c)'
      BY <2>1 DEF Covered, Match
    <3>1. PICK t \in todo : msg.up[c] \in msg.below[t]
      BY <1>1 DEF IInv, Covered, InReach
    <3>2. c \in msg.nodes \ {msg.root} /\ msg.up[c] \in msg.nodes /\ msg.via[c] \in Fields
          /\ msg.via[c].owner = TypeOf(msg, msg.up[c])
      BY ViaFacts DEF IInv, Shape
    <3>3. CASE t = n
      <4>1. msg.up[c] # n
        BY <1>2, <3>2 DEF Children
      <4>2. PICK p \in Children(msg, n) : msg.up[c] \in msg.below[p]
        BY <3>1, <3>3, <4>1, <1>1, BelowSplit DEF IInv, Shape
      <4>3. p \in msg.nodes \ {msg.root} /\ c \in msg.below[p]
        BY <4>2, <3>2, <1>1, BelowFacts DEF IInv, Shape, Children
      <4>4. p \in live
        BY <4>3, LiveAbove DEF IInv
      <4>5. Encoded(p)
        <5>1. CASE msg.up[c] = p
          BY <5>1, <3>2 DEF Encoded, Children
        <5>2. CASE msg.up[c] # p
          <6>1. PICK x \in Children(msg, p) : msg.up[c] \in msg.below[x]
            BY <5>2, <4>2, <4>3, BelowSplit DEF IInv, Shape
          <6>2. x \in msg.nodes /\ c \in msg.below[x]
            BY <6>1, <3>2, BelowFacts DEF IInv, Shape, Children
          <6>3. x \in live
            BY <6>2, LiveAbove DEF IInv
          <6> QED
            BY <6>1, <6>3 DEF Encoded
        <5> QED
          BY <5>1, <5>2
      <4>6. p \in raw
        BY <4>2, <4>4, <4>5 DEF Payload
      <4>7. TypeOf(msg, p) = msg.via[p].target
        BY <4>3 DEF TypeOf
      <4>8. CASE HasMatch(msg.via[p].target)
        <5>1. p \in todo'
          BY <4>6, <4>8, <2>1
        <5> QED
          BY <5>1, <4>2, <2>1, <1>1 DEF InReach
      <4>9. CASE ~HasMatch(msg.via[p].target)
        <5>1. TypeOf(msg, p) \in Types
          BY <4>2, <4>3, <3>2, <4>7, ScalarLeaf, ViaFacts DEF IInv, Shape
        <5> QED
          BY <5>1, <4>2, <4>3, <4>7, <4>9, <3>2, NoMatchBelow DEF IInv, Shape
      <4> QED
        BY <4>8, <4>9
    <3>4. CASE t # n
      BY <3>1, <3>4, <2>1, <1>1 DEF InReach
    <3> QED
      BY <3>3, <3>4
  <2> QED
    BY <2>3, <2>4 DEF IInv
<1> QED
  BY <1>3, <1>4

LEMMA RepackKeeps == ASSUME IInv, NEW n \in open, Repack(n) PROVE IInv'
<1> USE DEF input
<1>1. n \in msg.nodes /\ TypeOf(msg, n) = AnyType /\ phase = "walk"
  BY DEF IInv, Shape, Repack
<1>2. CASE Changed(n) /\ RequiredGone(n)
  <2>1. /\ Payload(n) \in SUBSET Children(msg, n) /\ Children(msg, n) \cap live \subseteq Payload(n)
        /\ \A c \in Payload(n) : msg.via[c].shape = "payload"
    BY <1>1, ViaFacts, MaskingOK DEF IInv, Shape, Payload, Children
  <2>2. Unverifiable(n, Payload(n)) /\ UNCHANGED <<input, repacked, names>>
    BY <1>2 DEF Repack
  <2> QED
    BY <2>1, <2>2, <1>1, UnverifiableKeeps
<1>3. CASE ~(Changed(n) /\ RequiredGone(n))
  <2>1. /\ open' = open \ {n} /\ UNCHANGED <<phase, live, todo, input, names>>
        /\ \A x \in repacked' : x \in repacked \/ (x = n /\ Changed(n))
    BY <1>3 DEF Repack
  <2>2. NothingElseCleared'
    <3>1. \A x \in repacked' \cap live' : Changed(x)'
      BY <2>1 DEF IInv, NothingElseCleared, Changed
    <3> QED
      BY <3>1, <2>1 DEF IInv, NothingElseCleared, Removable, Match, Loud
  <2>3. Shape' /\ RemovedBelow' /\ KeysOK' /\ KeysCovered'
    BY <2>1, <1>1 DEF IInv, Shape, RemovedBelow, KeysOK, KeysCovered, TypeOf
  <2>4. Covered'
    BY <2>1, <1>1 DEF IInv, Covered, InReach, Match
  <2> QED
    BY <2>2, <2>3, <2>4 DEF IInv
<1> QED
  BY <1>2, <1>3

LEMMA WalkEndsKeeps == ASSUME IInv, WalkEnds PROVE IInv'
<1>1. names = {} /\ \A c \in live \ {msg.root} : ~Match(msg.via[c])
  BY DEF IInv, WalkEnds, KeysOK, Covered, InReach
<1> QED
  BY <1>1 DEF IInv, Shape, RemovedBelow, Covered, NothingElseCleared, Removable, KeysOK, KeysCovered,
              Match, Loud, Changed, WalkEnds, input

LEMMA MarshalProtoKeeps == ASSUME IInv, MarshalProto PROVE IInv'
<1> USE DEF input
<1>1. /\ phase = "marshal" /\ names = {} /\ msg \in Messages
      /\ msg' = msg /\ op' = op /\ live' = live /\ open' = open /\ repacked' = repacked
      /\ phase' \in {"failed", "strip", "done"}
  BY DEF IInv, Shape, KeysOK, MarshalProto
<1>2. msg.root \in msg.nodes /\ msg.below[msg.root] = msg.nodes
      /\ TypeOf(msg, msg.root) = msg.type /\ msg.type \in Types
  BY <1>1, MaskingOK DEF WellFormed, TypeOf
<1>3. \A c \in live \ {msg.root} : ~Match(msg.via[c])
  BY <1>1 DEF IInv, Covered, InReach
<1>4. Shape' /\ RemovedBelow' /\ Covered' /\ NothingElseCleared'
  BY <1>1, <1>2, <1>3 DEF IInv, Shape, RemovedBelow, Covered, NothingElseCleared, Removable, Match,
                          Loud, Changed, MarshalProto
<1>5. CASE Unmarshalable
  BY <1>1, <1>4, <1>5 DEF IInv, MarshalProto, KeysOK, KeysCovered
<1>6. CASE ~Unmarshalable
  <2>1. names' = UNION {{n} \X Shown(n) : n \in live}
    BY <1>6 DEF MarshalProto
  <2>2. \A k \in names' : k[1] \in live /\ k[2] \in Shown(k[1])
    BY <2>1
  <2>3. \A k \in names' : k[2] \in Fields /\ k[2].owner = TypeOf(msg, k[1]) /\ k[2].owner \notin CustomJSON
    BY <2>2 DEF Shown
  <2>4. KeysOK'
    BY <1>1, <1>6, <2>2, <2>3 DEF KeysOK, TypeOf, MarshalProto
  <2>5. CASE Masks /\ emits # "populated"
    <3>1. phase' = "strip" /\ todo' = {msg.root}
      BY <1>6, <2>5 DEF MarshalProto
    <3> QED
      BY <3>1, <1>1, <1>2, <1>4, <2>2, <2>4 DEF IInv, KeysCovered, Shape
  <2>6. CASE ~(Masks /\ emits # "populated")
    <3>1. ASSUME NEW k \in names' PROVE ~Match(k[2])
      <4>1. CASE emits = "populated"
        <5>1. PICK c \in Children(msg, k[1]) \cap live : msg.via[c] = k[2]
          BY <4>1, <2>2 DEF Shown
        <5> QED
          BY <5>1, <1>3 DEF Children
      <4>2. CASE ~Masks
        BY <4>2, <1>1, <1>2, <2>2, <2>3, NoMatchBelow DEF Masks, IInv, Shape
      <4> QED
        BY <4>1, <4>2, <2>6
    <3> QED
      BY <3>1, <1>1, <1>4, <2>4 DEF IInv, KeysCovered, Match
  <2> QED
    BY <2>5, <2>6
<1> QED
  BY <1>5, <1>6

LEMMA StripKeeps == ASSUME IInv, NEW n \in todo, Strip(n) PROVE IInv'
<1> USE DEF input
<1>1. /\ phase = "strip" /\ phase' = phase /\ msg \in Messages /\ n \in msg.nodes
      /\ msg' = msg /\ op' = op /\ live' = live /\ open' = open /\ repacked' = repacked
      /\ todo' = (todo \ {n}) \cup StripBelow(n)
      /\ names' \subseteq names /\ \A k \in names' : ~(k[1] = n /\ Match(k[2]))
  BY DEF IInv, Shape, Strip
<1>2. \A c \in Children(msg, n) : c \in msg.nodes \ {msg.root} /\ msg.up[c] = n
  BY DEF Children
<1>3. StripBelow(n) \subseteq Children(msg, n)
  BY DEF StripBelow, Payload
<1>4. Shape' /\ RemovedBelow' /\ Covered' /\ NothingElseCleared' /\ KeysOK'
  BY <1>1, <1>2, <1>3 DEF IInv, Shape, RemovedBelow, Covered, InReach, NothingElseCleared, Removable,
                          KeysOK, Match, Loud, Changed, TypeOf
<1>5. KeysCovered'
  <2> SUFFICES ASSUME NEW k \in names', Match(k[2]), ~InGroupList(k[1])
               PROVE  \E t \in todo' : k[1] \in msg.below[t]
    BY <1>1 DEF KeysCovered, Match, InGroupList
  <2>1. PICK t \in todo : k[1] \in msg.below[t]
    BY <1>1 DEF IInv, KeysCovered
  <2>2. k[1] # n /\ k[1] \in live /\ k[2] \in Fields /\ k[2].owner = TypeOf(msg, k[1])
        /\ k[2].owner \notin CustomJSON /\ k[2].owner \in Types
    BY <1>1, MaskingOK DEF IInv, KeysOK
  <2>3. CASE t = n
    <3>1. PICK c \in Children(msg, n) : k[1] \in msg.below[c]
      BY <2>1, <2>2, <2>3, <1>1, BelowSplit
    <3>2. c \in msg.nodes \ {msg.root} /\ TypeOf(msg, c) = msg.via[c].target
      BY <3>1, <1>2 DEF TypeOf
    <3>3. c \in live
      BY <3>1, <3>2, <2>2, LiveAbove DEF IInv
    <3>4. TypeOf(msg, c) \in Types
      <4>1. CASE TypeOf(msg, c) \notin Types
        BY <4>1, <3>1, <3>2, <2>2, <1>1, ScalarLeaf
      <4> QED
        BY <4>1
    <3>5. msg.via[c].shape # "group list"
      BY <3>1, <3>2 DEF InGroupList
    <3>6. msg.via[c].target \notin CustomJSON \ {AnyType}
      <4>1. CASE msg.via[c].target \in CustomJSON \ {AnyType}
        <5> DEFINE T == CustomJSON \ {AnyType}
        <5>1. T \in SUBSET Types /\ \A f \in Fields : f.owner \in T => f.target \in T \cup {Scalar}
          BY MaskingOK
        <5>2. TypeOf(msg, c) \in T \cup {Scalar}
          BY <4>1, <3>2
        <5>3. TypeOf(msg, k[1]) \in T \cup {Scalar}
          <6> HIDE DEF T
          <6> QED
            BY <5>1, <5>2, <3>1, <3>2, <1>1, TypesBelow
        <5> QED
          BY <5>3, <2>2, MaskingOK
      <4> QED
        BY <4>1
    <3>7. c \in StripBelow(n)
      BY <3>1, <3>2, <3>3, <3>4, <3>5, <3>6 DEF StripBelow, Payload, Messagelike
    <3> QED
      BY <3>1, <3>7, <1>1
  <2> QED
    BY <2>1, <2>3, <1>1
<1> QED
  BY <1>4, <1>5 DEF IInv

LEMMA StripEndsKeeps == ASSUME IInv, StripEnds PROVE IInv'
BY DEF IInv, Shape, RemovedBelow, Covered, InReach, NothingElseCleared, Removable, KeysOK, KeysCovered,
       InGroupList, Match, Loud, Changed, TypeOf, StripEnds, input

LEMMA Step == IInv /\ [Next]_vars => IInv'
<1> SUFFICES ASSUME IInv, [Next]_vars PROVE IInv'
  OBVIOUS
<1>1. CASE UNCHANGED vars
  BY <1>1 DEF vars, IInv, Shape, RemovedBelow, Covered, InReach, NothingElseCleared, Removable, KeysOK,
              KeysCovered, InGroupList, Match, Loud, Changed, TypeOf
<1>2. CASE Start \/ WalkEnds \/ MarshalProto \/ StripEnds
  BY <1>2, StartKeeps, WalkEndsKeeps, MarshalProtoKeeps, StripEndsKeeps
<1>3. CASE \E n \in todo : TooDeep(n) \/ Visit(n) \/ VisitAny(n) \/ Strip(n)
  BY <1>3, TooDeepKeeps, VisitKeeps, VisitAnyKeeps, StripKeeps
<1>4. CASE \E n \in open : Repack(n)
  BY <1>4, RepackKeeps
<1> QED
  BY <1>1, <1>2, <1>3, <1>4 DEF Next
------------------------------------------------------------------------------
\* The invariant of the walk and of the strip pass.
THEOREM Invariant == Spec => []IInv
BY Initially, Step, PTL DEF Spec

\* Whatever the descriptors, no marked value leaves the handler.
THEOREM WalkCleans == Spec => []MaskedClean
<1>1. IInv => MaskedClean
  BY DEF IInv, Covered, InReach, MaskedClean
<1> QED
  BY <1>1, Invariant, PTL

\* Whatever the descriptors, nothing is lost but what is marked or, on the way
\* in, what could not be verified.
THEOREM WalkSpares == Spec => []NothingElseCleared
<1>1. IInv => NothingElseCleared
  BY DEF IInv
<1> QED
  BY <1>1, Invariant, PTL

\* Whatever the descriptors and the marshal options, no hidden name is left in
\* the JSON but in lists of groups.
THEOREM StripHides == Spec => []NamesHidden
<1>1. IInv => NamesHidden
  BY DEF IInv, KeysCovered, NamesHidden
<1> QED
  BY <1>1, Invariant, PTL
------------------------------------------------------------------------------
(* Where the walk goes. *)

\* Depth grows on the way down, so nothing is below what hangs from it.
LEMMA DeeperBelow ==
    ASSUME NEW m \in Messages, NEW n \in m.nodes
    PROVE  \A b \in m.below[n] : m.depth[b] \in Nat /\ m.depth[n] \in Nat /\ m.depth[n] <= m.depth[b]
<1> DEFINE S == {b \in m.nodes : m.depth[n] <= m.depth[b]}
<1>1. m.depth \in [m.nodes -> Nat] /\ \A c \in m.nodes \ {m.root} : m.depth[c] = m.depth[m.up[c]] + 1
  BY MaskingOK DEF WellFormed
<1>2. S \in SUBSET m.nodes /\ n \in S
  BY <1>1
<1>3. \A b \in S : Children(m, b) \subseteq S
  BY <1>1 DEF Children
<1>4. m.below[n] \subseteq S
  <2> HIDE DEF S
  <2> QED
    BY <1>2, <1>3, BelowLeast
<1> QED
  BY <1>1, <1>4

\* The way up from a value below n stays below n until it is there.
LEMMA UpBelow ==
    ASSUME NEW m \in Messages, NEW n \in m.nodes, NEW b \in m.below[n], b # n
    PROVE  b \in m.nodes \ {m.root} /\ m.up[b] \in m.below[n]
<1> DEFINE S == {x \in m.below[n] : x = n \/ (x \in m.nodes \ {m.root} /\ m.up[x] \in m.below[n])}
<1>1. S \in SUBSET m.nodes /\ n \in S
  BY BelowFacts
<1>2. \A x \in S : Children(m, x) \subseteq S
  <2> SUFFICES ASSUME NEW x \in S, NEW c \in Children(m, x) PROVE c \in S
    OBVIOUS
  <2>1. c \in m.nodes \ {m.root} /\ m.up[c] = x
    BY DEF Children
  <2>2. c \in m.below[n]
    BY BelowFacts
  <2> QED
    BY <2>1, <2>2
<1>3. m.below[n] \subseteq S
  <2> HIDE DEF S
  <2> QED
    BY <1>1, <1>2, BelowLeast
<1> QED
  BY <1>3

\* Children of one message share nothing, and none of them has it below.
LEMMA Siblings ==
    ASSUME NEW m \in Messages, NEW n \in m.nodes, NEW c \in Children(m, n)
    PROVE  /\ c \in m.nodes \ {m.root} /\ c \in m.below[n] /\ n \notin m.below[c] /\ c # n
           /\ m.root \notin m.below[c]
           /\ \A d \in Children(m, n) : c \in m.below[d] => c = d
<1>0. /\ m.depth \in [m.nodes -> Nat] /\ m.depth[m.root] = 0 /\ m.root \in m.nodes
      /\ \A d \in m.nodes \ {m.root} : m.depth[d] = m.depth[m.up[d]] + 1
  BY MaskingOK DEF WellFormed
<1>1. \A d \in Children(m, n) : d \in m.nodes \ {m.root} /\ m.up[d] = n /\ m.depth[d] = m.depth[n] + 1
  BY <1>0 DEF Children
<1>2. m.depth[n] \in Nat /\ m.depth[c] \in Nat
  BY <1>0, <1>1
<1>3. c \in m.below[n]
  BY BelowFacts
<1>4. n \notin m.below[c] /\ c # n /\ m.root \notin m.below[c]
  BY <1>0, <1>1, <1>2, DeeperBelow
<1>5. ASSUME NEW d \in Children(m, n), c \in m.below[d], c # d PROVE FALSE
  <2>1. d \in m.nodes /\ m.depth[d] = m.depth[n] + 1
    BY <1>1
  <2>2. n \in m.below[d]
    BY <1>1, <1>5, <2>1, UpBelow
  <2> QED
    BY <1>2, <2>1, <2>2, DeeperBelow
<1> QED
  BY <1>1, <1>3, <1>4, <1>5

\* No message still to visit, and no Any still open, is below another one to visit.
Apart == \A t \in todo : msg.below[t] \cap (todo \cup open) \subseteq {t}

\* The walk visits only what is still there.
Frontier ==
    /\ msg.root \in live /\ todo \subseteq live /\ open \subseteq live
    /\ phase = "call" => live = msg.nodes /\ open = {}
    /\ phase = "walk" => Apart
    /\ emits \in Emits /\ repacked \subseteq msg.nodes

\* Clearing fields of a message with nothing to visit below them.
LEMMA Prune ==
    ASSUME Shape, Frontier, NEW n \in msg.nodes, NEW cs \in SUBSET Children(msg, n), ClearFields(cs),
           msg.below[n] \cap (todo \cup open) \subseteq {n}
    PROVE  /\ msg.root \in live' /\ todo \subseteq live' /\ open \subseteq live'
           /\ \A c \in (Children(msg, n) \cap live) \ cs : c \in live'
<1>1. live' = live \ UNION {msg.below[c] : c \in cs} /\ msg \in Messages
  BY DEF ClearFields, Shape
<1>2. \A c \in cs : n \notin msg.below[c] /\ msg.root \notin msg.below[c] /\ msg.below[c] \subseteq msg.below[n]
  BY <1>1, Siblings, BelowFacts
<1>3. msg.root \in live' /\ todo \subseteq live' /\ open \subseteq live'
  BY <1>1, <1>2 DEF Frontier
<1>4. \A c \in (Children(msg, n) \cap live) \ cs : c \in live'
  BY <1>1, Siblings
<1> QED
  BY <1>3, <1>4

LEMMA UnverifiableFrontier ==
    ASSUME Shape, Frontier, phase = "walk", NEW n \in msg.nodes, NEW cs \in SUBSET Children(msg, n),
           Unverifiable(n, cs), UNCHANGED <<input, repacked>>,
           msg.below[n] \cap (todo \cup open) \subseteq {n}
    PROVE  Frontier'
<1> USE DEF input
<1>1. CASE Loud
  BY <1>1 DEF Frontier, Unverifiable
<1>2. CASE ~Loud
  <2>1. ClearFields(cs) /\ todo' = todo \ {n} /\ open' = open \ {n} /\ phase' = phase
    BY <1>2 DEF Unverifiable
  <2>2. msg.root \in live' /\ todo \subseteq live' /\ open \subseteq live'
    BY <2>1, Prune
  <2> QED
    BY <2>1, <2>2 DEF Frontier, Apart
<1> QED
  BY <1>1, <1>2

\* Children take the place of the message that was visited.
LEMMA Descend ==
    ASSUME Shape, Frontier, phase = "walk", phase' = phase, UNCHANGED input, NEW n \in todo,
           NEW next \in SUBSET Children(msg, n),
           todo' = (todo \ {n}) \cup next, open' \subseteq open \cup {n}
    PROVE  Apart'
<1>1. msg \in Messages /\ n \in msg.nodes /\ msg' = msg /\ todo \subseteq msg.nodes
  BY DEF Shape, input
<1>2. \A t \in todo : \A x \in msg.below[t] : x \in todo \/ x \in open => x = t
  BY DEF Frontier, Apart
<1>3. \A c \in next : /\ c \in msg.nodes /\ msg.below[c] \subseteq msg.below[n] /\ n \notin msg.below[c] /\ c # n
                      /\ c \in msg.below[n] /\ \A d \in next : c \in msg.below[d] => c = d
  BY <1>1, Siblings, BelowFacts
<1>4. ASSUME NEW t \in todo, t # n, NEW x \in msg.below[t], x \in todo' \cup open' PROVE x = t
  <2>1. CASE x \in todo \cup open
    BY <1>2, <1>4, <2>1
  <2>2. CASE x \in next
    <3>1. x # t
      BY <1>2, <1>3, <1>4, <2>2
    <3>2. n \in msg.below[t]
      BY <1>1, <1>4, <2>2, <3>1, UpBelow DEF Children
    <3> QED
      BY <1>2, <1>4, <3>2
  <2> QED
    BY <1>2, <1>4, <2>1, <2>2
<1>5. ASSUME NEW c \in next, NEW x \in msg.below[c], x \in todo' \cup open' PROVE x = c
  <2>1. CASE x \in next
    BY <1>3, <1>5, <2>1
  <2>2. CASE x \notin next
    <3>1. x \in todo \cup open \cup {n}
      BY <1>5, <2>2
    <3> QED
      BY <1>2, <1>3, <1>5, <3>1
  <2> QED
    BY <2>1, <2>2
<1> QED
  BY <1>1, <1>4, <1>5 DEF Apart

LEMMA FrontierStep == IInv /\ Frontier /\ [Next]_vars => Frontier'
<1> SUFFICES ASSUME IInv, Frontier, [Next]_vars PROVE Frontier'
  OBVIOUS
<1> USE DEF input
<1>0. Shape /\ msg \in Messages /\ todo \subseteq msg.nodes /\ live \subseteq msg.nodes
  BY DEF IInv, Shape
<1>1. CASE Start
  <2>1. todo' \subseteq {msg.root} /\ UNCHANGED <<input, live, open, repacked>> /\ phase = "call" /\ phase' # "call"
    BY <1>1 DEF Start
  <2> QED
    BY <2>1 DEF Frontier, Apart
<1>2. ASSUME NEW n \in todo, TooDeep(n) PROVE Frontier'
  <2>1. msg.below[n] \cap (todo \cup open) \subseteq {n}
    BY <1>2 DEF TooDeep, Frontier, Apart
  <2> QED
    BY <1>0, <1>2, <2>1, UnverifiableFrontier DEF TooDeep
<1>3. ASSUME NEW n \in todo, Visit(n) PROVE Frontier'
  <2> DEFINE into == {c \in (Children(msg, n) \cap live) \ Matched(n) : Messagelike(c)}
  <2>1. /\ ClearFields(Matched(n)) /\ todo' = (todo \ {n}) \cup into /\ phase = "walk"
        /\ UNCHANGED <<input, phase, open, repacked>>
    BY <1>3 DEF Visit
  <2>2. into \in SUBSET Children(msg, n) /\ Matched(n) \in SUBSET Children(msg, n)
    BY DEF Matched
  <2>3. Apart'
    <3> HIDE DEF into
    <3> QED
      BY <1>0, <2>1, <2>2, Descend
  <2>4. /\ msg.root \in live' /\ todo \subseteq live' /\ open \subseteq live'
        /\ \A c \in (Children(msg, n) \cap live) \ Matched(n) : c \in live'
    BY <1>0, <2>1, <2>2, Prune DEF Frontier, Apart
  <2> QED
    BY <2>1, <2>3, <2>4 DEF Frontier
<1>4. ASSUME NEW n \in todo, VisitAny(n) PROVE Frontier'
  <2> DEFINE raw == {p \in Payload(n) : Encoded(p)}
             unpacked == {p \in raw : HasMatch(msg.via[p].target)}
  <2>1. phase = "walk" /\ UNCHANGED <<input, repacked>> /\ Payload(n) \in SUBSET Children(msg, n)
    BY <1>4 DEF VisitAny, Payload
  <2>2. CASE \E p \in raw : Unreadable(p)
    <3>1. Unverifiable(n, Payload(n))
      BY <1>4, <2>2 DEF VisitAny
    <3> QED
      BY <1>0, <2>1, <3>1, UnverifiableFrontier DEF Frontier, Apart
  <2>3. CASE ~ \E p \in raw : Unreadable(p)
    <3>1. todo' = (todo \ {n}) \cup unpacked /\ open' \subseteq open \cup {n} /\ UNCHANGED <<phase, live>>
      BY <1>4, <2>3 DEF VisitAny
    <3>2. unpacked \in SUBSET Children(msg, n) /\ unpacked \subseteq live
      BY DEF Payload
    <3> HIDE DEF unpacked, raw
    <3>3. Apart'
      BY <1>0, <2>1, <3>1, <3>2, Descend
    <3> QED
      BY <2>1, <3>1, <3>2, <3>3 DEF Frontier
  <2> QED
    BY <2>2, <2>3
<1>5. ASSUME NEW n \in open, Repack(n) PROVE Frontier'
  <2>1. n \in msg.nodes /\ phase = "walk" /\ msg.below[n] \cap (todo \cup open) \subseteq {n} /\ UNCHANGED input
    BY <1>0, <1>5 DEF Repack, Finished, Shape
  <2>2. CASE Changed(n) /\ RequiredGone(n)
    <3>1. Unverifiable(n, Payload(n)) /\ Payload(n) \in SUBSET Children(msg, n) /\ repacked' = repacked
      BY <1>5, <2>2 DEF Repack, Payload
    <3> QED
      BY <1>0, <2>1, <3>1, UnverifiableFrontier
  <2>3. CASE ~(Changed(n) /\ RequiredGone(n))
    <3>1. open' \subseteq open /\ repacked' \subseteq repacked \cup {n} /\ UNCHANGED <<phase, live, todo>>
      BY <1>5, <2>3 DEF Repack
    <3> QED
      BY <2>1, <3>1 DEF Frontier, Apart
  <2> QED
    BY <2>2, <2>3
<1>6. CASE WalkEnds \/ MarshalProto \/ StripEnds
  BY <1>6 DEF WalkEnds, MarshalProto, StripEnds, Frontier, Apart
<1>7. ASSUME NEW n \in todo, Strip(n) PROVE Frontier'
  BY <1>7 DEF Strip, StripBelow, Payload, Frontier
<1>8. CASE UNCHANGED vars
  BY <1>8 DEF vars, Frontier, Apart
<1> QED
  BY <1>1, <1>2, <1>3, <1>4, <1>5, <1>6, <1>7, <1>8 DEF Next

\* Type correctness of the walk and the strip pass: whatever they have yet to visit, and
\* every Any whose payload is unpacked, is still part of the message, and the keys of
\* the JSON are those of values that are still there.
THEOREM WalkTypeCorrect == Spec => []TypeOK
<1>1. Init => Frontier
  BY MaskingOK DEF Init, Frontier, WellFormed
<1>2. IInv /\ Frontier => TypeOK
  BY DEF IInv, Shape, KeysOK, Frontier, TypeOK
<1> QED
  BY <1>1, <1>2, Initially, Step, FrontierStep, PTL DEF Spec
==============================================================================
