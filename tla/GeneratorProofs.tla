--------------------------- MODULE GeneratorProofs ---------------------------
(***************************************************************************)
(* What an accepted run of the generator guarantees the program that       *)
(* registers its output, for any number of RPCs, services and files; and   *)
(* what the schemas of its tools promise, for any messages: the recursion  *)
(* of messageSchema is shown to return a set defined without recursion,    *)
(* and the rest is said of that set.                                       *)
(***************************************************************************)
EXTENDS ToolContract, FiniteSetTheorems, SequenceTheorems, TLAPS

Held == service \cup output

\* Entries are RPCs the pass is done with.
EntriesInv == Held \in SUBSET (Primitives \X (1..(next - 1))) /\ next \in Nat \ {0}

\* A tool's name is in emitted, and no other tool has it.
ToolsInv ==
    /\ \A e \in Held : e[1] = "tool" => Name(e[2]) \in emitted
    /\ \A e, d \in Held :
          e[1] = "tool" /\ d[1] = "tool" /\ Name(e[2]) = Name(d[2]) => e = d

\* The one lister is that of the claimed site.
ListerInv == \A e \in Held : e[1] = "list" => listSite # 0 /\ e[2] = listSite

\* Nothing is called before the run is accepted, and a claimed key is that of an
\* entry that was called.
ClaimsInv ==
    /\ called \subseteq output
    /\ phase = "pass" => called = {}
    /\ \A k \in claimed : \E e \in called : e[1] # "feed" /\ k = Key(e)

IInv == EntriesInv /\ ToolsInv /\ ListerInv /\ ClaimsInv /\ StartsUnlessRuntimeKeysCollide
------------------------------------------------------------------------------
LEMMA InitIInv == Init => IInv
  BY DEF Init, IInv, EntriesInv, ToolsInv, ListerInv, ClaimsInv, Held, StartsUnlessRuntimeKeysCollide

\* The entries an RPC adds.
LEMMA EmitKeeps == IInv /\ Emit => IInv'
  <1> SUFFICES ASSUME IInv, Emit PROVE IInv'
    OBVIOUS
  <1> USE DEF IInv, Emit, AtMethod
  <1> DEFINE New == (Primitives \cap request[next].marks) \X {next}
  <1>1. Held' = Held \cup New /\ request' = request /\ next' = next + 1
    BY DEF Held
  <1>2. \A e \in New : e \in Primitives \X {next} /\ Has(next, e[1]) /\ e[2] = next
    BY DEF Has
  <1>3. ~(Has(next, "tool") /\ Name(next) \in emitted) /\ ~(Has(next, "list") /\ listSite # 0)
    BY DEF Rejected, DuplicateTool, SecondLister
  <1>4. EntriesInv'
    <2>1. next \in 1..next /\ 1..(next - 1) \subseteq 1..next /\ (next + 1) - 1 = next /\ next + 1 \in Nat \ {0}
      BY DEF EntriesInv
    <2>2. Held' \in SUBSET (Primitives \X (1..next))
      BY <1>1, <1>2, <2>1 DEF EntriesInv
    <2> QED
      BY <1>1, <2>1, <2>2 DEF EntriesInv
  <1>5. \A i : Name(i)' = Name(i)
    BY DEF Name
  <1>6. ToolsInv'
    <2>1. ASSUME NEW e \in Held', e[1] = "tool" PROVE Name(e[2]) \in emitted'
      <3>1. CASE e \in Held
        BY <3>1, <2>1 DEF ToolsInv
      <3>2. CASE e \in New
        BY <3>2, <2>1, <1>2
      <3> QED
        BY <1>1, <3>1, <3>2
    <2>2. ASSUME NEW e \in Held', NEW d \in Held', e[1] = "tool", d[1] = "tool", Name(e[2]) = Name(d[2])
          PROVE  e = d
      <3>1. CASE e \in Held /\ d \in Held
        BY <3>1, <2>2 DEF ToolsInv
      <3>2. CASE e \in New /\ d \in New
        BY <3>2, <2>2, <1>2
      <3>3. CASE e \in New /\ d \in Held
        BY <3>3, <2>2, <1>2, <1>3 DEF ToolsInv
      <3>4. CASE e \in Held /\ d \in New
        BY <3>4, <2>2, <1>2, <1>3 DEF ToolsInv
      <3> QED
        BY <1>1, <3>1, <3>2, <3>3, <3>4
    <2> QED
      BY <2>1, <2>2, <1>5 DEF ToolsInv
  <1>7. ListerInv'
    <2>1. ASSUME NEW e \in Held', e[1] = "list" PROVE listSite' # 0 /\ e[2] = listSite'
      <3>1. CASE e \in Held
        BY <3>1, <2>1, <1>3 DEF ListerInv
      <3>2. CASE e \in New
        BY <3>2, <2>1, <1>2 DEF EntriesInv
      <3> QED
        BY <1>1, <3>1, <3>2
    <2> QED
      BY <2>1 DEF ListerInv
  <1>8. ClaimsInv'
    BY DEF ClaimsInv, Key, Name
  <1>9. StartsUnlessRuntimeKeysCollide'
    BY DEF StartsUnlessRuntimeKeysCollide
  <1> QED
    BY <1>4, <1>6, <1>7, <1>8, <1>9

\* A call that finds its key taken: by a prompt or a template of the same name.
LEMMA CallKeeps == ASSUME IInv, NEW e \in Primitives \X RPCs, Call(e) PROVE IInv'
  <1> USE DEF IInv, Call
  <1>1. EntriesInv' /\ ToolsInv' /\ ListerInv'
    BY DEF passVars, EntriesInv, ToolsInv, ListerInv, Held, Name
  <1>2. \A d : Key(d)' = Key(d)
    BY DEF Key, Name
  <1>3. ClaimsInv'
    <2>1. called' \subseteq output' /\ phase' # "pass"
      BY DEF ClaimsInv, passVars
    <2>2. ASSUME NEW k \in claimed' PROVE \E d \in called' : d[1] # "feed" /\ k = Key(d)
      <3>1. CASE k \in claimed
        BY <3>1 DEF ClaimsInv
      <3>2. CASE k \notin claimed
        <4>1. k \in Keys(e)
          BY <3>2
        <4> QED
          BY <4>1 DEF Keys
      <3> QED
        BY <3>1, <3>2
    <2> QED
      BY <2>1, <2>2, <1>2 DEF ClaimsInv
  <1>4. StartsUnlessRuntimeKeysCollide'
    <2>1. CASE Keys(e) \cap claimed = {}
      BY <2>1 DEF StartsUnlessRuntimeKeysCollide
    <2>2. CASE Keys(e) \cap claimed # {}
      <3>1. e[1] # "feed" /\ Key(e) \in claimed
        BY <2>2 DEF Keys
      <3>2. PICK d \in called : d[1] # "feed" /\ Key(e) = Key(d)
        BY <3>1 DEF ClaimsInv
      <3>3. e # d /\ e \in called' /\ d \in called' /\ e \in Held /\ d \in Held
        BY <3>2 DEF ClaimsInv, Held
      <3>4. e[1] = d[1] /\ e[1] # "list"
        BY <3>2, <3>3 DEF Key, ListerInv, EntriesInv
      <3>5. Name(e[2]) = Name(d[2])
        BY <3>2, <3>4 DEF Key
      <3>6. e[1] # "tool"
        BY <3>3, <3>4, <3>5 DEF ToolsInv
      <3>7. e[1] \in {"template", "prompt"}
        BY <3>1, <3>4, <3>6 DEF Primitives
      <3> QED
        BY <3>3, <3>4, <3>5, <3>7 DEF StartsUnlessRuntimeKeysCollide, Name
    <2> QED
      BY <2>1, <2>2
  <1> QED
    BY <1>1, <1>3, <1>4

LEMMA NextKeeps == IInv /\ [Next]_vars => IInv'
  <1> SUFFICES ASSUME IInv, [Next]_vars PROVE IInv'
    OBVIOUS
  <1> USE DEF IInv
  <1>1. CASE Reject
    BY <1>1 DEF Reject, AtMethod, passVars, EntriesInv, ToolsInv, ListerInv, ClaimsInv, Held,
       StartsUnlessRuntimeKeysCollide, Key, Name
  <1>2. CASE Skip
    <2>1. next' = next + 1 /\ Held' = Held /\ request' = request /\ emitted' = emitted
          /\ listSite' = listSite /\ output' = output /\ called' = called /\ claimed' = claimed /\ phase' = phase
      BY <1>2 DEF Skip, Held
    <2>2. EntriesInv'
      <3>1. 1..(next - 1) \subseteq 1..next /\ (next + 1) - 1 = next /\ next + 1 \in Nat \ {0}
        BY DEF EntriesInv
      <3> QED
        BY <2>1, <3>1 DEF EntriesInv
    <2> QED
      BY <2>1, <2>2 DEF ToolsInv, ListerInv, ClaimsInv, StartsUnlessRuntimeKeysCollide, Key, Name
  <1>3. CASE Emit
    BY <1>3, EmitKeeps
  <1>4. CASE CloseService
    <2>1. Held' \subseteq Held /\ request' = request /\ next' = next /\ emitted' = emitted
          /\ listSite' = listSite /\ output \subseteq output' /\ called' = called /\ claimed' = claimed
          /\ phase' = "pass" /\ phase = "pass"
      BY <1>4 DEF CloseService, Held
    <2> QED
      BY <2>1 DEF EntriesInv, ToolsInv, ListerInv, ClaimsInv, StartsUnlessRuntimeKeysCollide, Key, Name
  <1>5. CASE Accept
    BY <1>5 DEF Accept, passVars, EntriesInv, ToolsInv, ListerInv, ClaimsInv, Held,
       StartsUnlessRuntimeKeysCollide, Key, Name
  <1>6. ASSUME NEW e \in Primitives \X RPCs, Call(e) PROVE IInv'
    BY <1>6, CallKeeps
  <1>7. CASE UNCHANGED vars
    BY <1>7 DEF vars, passVars, EntriesInv, ToolsInv, ListerInv, ClaimsInv, Held,
       StartsUnlessRuntimeKeysCollide, Key, Name
  <1> QED
    BY <1>1, <1>2, <1>3, <1>4, <1>5, <1>6, <1>7 DEF Next

\* A program that calls every registrar of an accepted run once is taken down by
\* nothing but a prompt name or a URI template used twice.
THEOREM StartUp == Spec => []StartsUnlessRuntimeKeysCollide
  <1>1. IInv => StartsUnlessRuntimeKeysCollide
    BY DEF IInv
  <1> QED
    BY <1>1, InitIInv, NextKeeps, PTL DEF Spec
------------------------------------------------------------------------------
(* Nothing annotated is left out. *)

Served == Primitives \ {"feed"}

\* Every primitive of an RPC the pass is done with is held, in the service at hand
\* or the output: a service that is dropped holds feeds only.
HeldInv == phase \in {"pass", "accepted"} =>
               \A j \in RPCs : \A p \in Served : j < next /\ Has(j, p) => <<p, j>> \in Held

\* What was called without a panic has its key.
CalledInv == phase # "panicked" => \A e \in called : e[1] # "feed" => Key(e) \in claimed

AcceptedInv == phase = "accepted" => next = N + 1 /\ service = {}

ServedInv == HeldInv /\ CalledInv /\ AcceptedInv

LEMMA ServedInit == Init => ServedInv
  BY DEF Init, ServedInv, HeldInv, CalledInv, AcceptedInv, RPCs

LEMMA DroppedIsFeeds ==
    ASSUME IInv, ~Kept(service) PROVE \A e \in service : e[1] \notin Served
  BY DEF Kept, Served, Primitives, IInv, EntriesInv, Held

LEMMA ServedStep == IInv /\ ServedInv /\ [Next]_vars => ServedInv'
  <1> SUFFICES ASSUME IInv, ServedInv, [Next]_vars PROVE ServedInv'
    OBVIOUS
  <1> USE DEF ServedInv
  <1>0. request' = request /\ N \in Nat /\ next \in Nat
    BY GeneratorOK DEF Next, Reject, Skip, Emit, CloseService, Accept, Call, vars, IInv, EntriesInv
  <1>1. /\ \A j, p : Has(j, p)' = Has(j, p)
        /\ \A e : Key(e)' = Key(e)
    BY <1>0 DEF Has, Key, Name
  <1>2. CASE Reject
    BY <1>1, <1>2 DEF Reject, AtMethod, passVars, HeldInv, CalledInv, AcceptedInv
  <1>3. CASE Skip
    <2>1. \A p \in Served : ~Has(next, p)
      BY <1>3 DEF Skip, Annotated, Served
    <2>2. UNCHANGED <<phase, service, output, called, claimed>> /\ next' = next + 1 /\ phase = "pass"
      BY <1>3 DEF Skip, AtMethod
    <2>3. HeldInv'
      <3> SUFFICES ASSUME NEW j \in RPCs, NEW p \in Served, j < next', Has(j, p) PROVE <<p, j>> \in Held
        BY <1>1, <2>2 DEF HeldInv, Held
      <3>1. j < next
        BY <1>0, <2>1, <2>2 DEF RPCs
      <3> QED
        BY <2>2, <3>1 DEF HeldInv
    <2> QED
      BY <1>1, <2>2, <2>3 DEF CalledInv, AcceptedInv
  <1>4. CASE Emit
    <2> DEFINE New == (Primitives \cap request[next].marks) \X {next}
    <2>1. /\ Held' = Held \cup New /\ next' = next + 1
          /\ UNCHANGED <<phase, called, claimed>> /\ phase = "pass"
      BY <1>4 DEF Emit, AtMethod, Held
    <2>2. HeldInv'
      <3> SUFFICES ASSUME NEW j \in RPCs, NEW p \in Served, j < next', Has(j, p) PROVE <<p, j>> \in Held'
        BY <1>1 DEF HeldInv
      <3>1. CASE j = next
        <4>1. p \in Primitives \cap request[next].marks
          BY <3>1 DEF Has, Served
        <4> QED
          BY <2>1, <3>1, <4>1
      <3>2. CASE j # next
        <4>1. j < next
          BY <1>0, <2>1, <3>2 DEF RPCs
        <4> QED
          BY <2>1, <4>1 DEF HeldInv
      <3> QED
        BY <3>1, <3>2
    <2> QED
      BY <1>1, <2>1, <2>2 DEF CalledInv, AcceptedInv
  <1>5. CASE CloseService
    <2>1. /\ UNCHANGED <<phase, next, called, claimed>> /\ phase = "pass" /\ service' = {}
          /\ output' = IF Kept(service) THEN output \cup service ELSE output
      BY <1>5 DEF CloseService
    <2>2. \A e \in Held : e[1] \in Served => e \in Held'
      BY <2>1, DroppedIsFeeds DEF Held
    <2> QED
      BY <1>1, <2>1, <2>2 DEF HeldInv, CalledInv, AcceptedInv
  <1>6. CASE Accept
    BY <1>1, <1>6 DEF Accept, passVars, HeldInv, CalledInv, AcceptedInv, Held
  <1>7. ASSUME NEW e \in Primitives \X RPCs, Call(e) PROVE ServedInv'
    <2>1. HeldInv' /\ AcceptedInv'
      BY <1>1, <1>7 DEF Call, passVars, HeldInv, AcceptedInv, Held
    <2>2. CalledInv'
      BY <1>1, <1>7 DEF Call, CalledInv, Keys
    <2> QED
      BY <2>1, <2>2
  <1>8. CASE UNCHANGED vars
    BY <1>1, <1>8 DEF vars, passVars, HeldInv, CalledInv, AcceptedInv, Held
  <1> QED
    BY <1>2, <1>3, <1>4, <1>5, <1>6, <1>7, <1>8 DEF Next

\* A run that succeeds leaves out no tool, template, lister or prompt: once the
\* program is up, every one of the request's annotations is served.
THEOREM NothingLeftOut == Spec => []EveryPrimitiveServed
  <1>1. IInv /\ ServedInv => EveryPrimitiveServed
    <2> SUFFICES ASSUME IInv, ServedInv, Up, NEW i \in RPCs, NEW p \in Served, Has(i, p)
                 PROVE  Key(<<p, i>>) \in claimed
      BY DEF EveryPrimitiveServed, Served
    <2>1. i < next /\ phase = "accepted" /\ service = {} /\ called = output
      BY GeneratorOK DEF Up, ServedInv, AcceptedInv, RPCs
    <2>2. <<p, i>> \in called
      BY <2>1 DEF ServedInv, HeldInv, Held
    <2> QED
      BY <2>1, <2>2 DEF ServedInv, CalledInv, Served
  <1> QED
    BY <1>1, InitIInv, NextKeeps, ServedInit, ServedStep, PTL DEF Spec

------------------------------------------------------------------------------
(* The types of the pass. *)

\* A service that declares the lister is kept, and so is the lister.
ListKept == {e \in Held : e[1] = "list"} = IF listSite = 0 THEN {} ELSE {<<"list", listSite>>}

\* The entries of the service at hand are of one service.
OneService == \A e, f \in service : ServiceOf(e[2]) = ServiceOf(f[2])

PassInv ==
    /\ request \in Requests /\ phase \in {"pass", "accepted", "rejected", "panicked"} /\ next <= N + 1
    /\ emitted \subseteq {request[i].name : i \in RPCs} /\ listSite \in 0..N /\ feedSite \in 0..N
    /\ OneService /\ ListKept

LEMMA PassInit == Init => PassInv
  BY GeneratorOK DEF Init, PassInv, OneService, ListKept, Held

LEMMA PassEmit == IInv /\ PassInv /\ Emit => PassInv'
  <1> SUFFICES ASSUME IInv, PassInv, Emit PROVE PassInv'
    OBVIOUS
  <1> DEFINE New == (Primitives \cap request[next].marks) \X {next}
  <1>1. /\ phase = "pass" /\ phase' = "pass" /\ request' = request /\ next <= N /\ next' = next + 1
        /\ service' = service \cup New /\ output' = output
        /\ \A e \in service : ServiceOf(e[2]) = ServiceOf(next)
    BY DEF Emit, AtMethod
  <1>2. N \in Nat /\ next \in Nat \ {0} /\ next \in 1..N /\ next' <= N + 1
    BY <1>1, GeneratorOK DEF IInv, EntriesInv
  <1>3. emitted' \subseteq {request[i].name : i \in RPCs} /\ listSite' \in 0..N /\ feedSite' \in 0..N
    BY <1>2 DEF Emit, PassInv, Name, RPCs
  <1>4. OneService'
    <2>1. \A e \in service' : ServiceOf(e[2]) = ServiceOf(next)
      BY <1>1
    <2> QED
      BY <2>1 DEF OneService
  <1>5. ListKept'
    <2>1. Held' = Held \cup New
      BY <1>1 DEF Held
    <2>2. CASE Has(next, "list")
      <3>1. listSite = 0 /\ listSite' = next
        BY <2>2 DEF Emit, Rejected, SecondLister
      <3>2. {e \in New : e[1] = "list"} = {<<"list", next>>}
        BY <2>2 DEF Has, Primitives
      <3> QED
        BY <1>2, <2>1, <3>1, <3>2 DEF PassInv, ListKept
    <2>3. CASE ~Has(next, "list")
      <3>1. listSite' = listSite
        BY <2>3 DEF Emit
      <3>2. {e \in New : e[1] = "list"} = {}
        BY <2>3 DEF Has
      <3> QED
        BY <2>1, <3>1, <3>2 DEF PassInv, ListKept
    <2> QED
      BY <2>2, <2>3
  <1> QED
    BY <1>1, <1>2, <1>3, <1>4, <1>5 DEF PassInv

LEMMA PassClose == IInv /\ PassInv /\ CloseService => PassInv'
  <1> SUFFICES ASSUME IInv, PassInv, CloseService PROVE PassInv'
    OBVIOUS
  <1>1. /\ UNCHANGED <<request, phase, next, emitted, listSite, feedSite>> /\ service' = {}
        /\ output' = IF Kept(service) THEN output \cup service ELSE output
    BY DEF CloseService
  <1>2. {e \in Held : e[1] = "list"} = {e \in Held' : e[1] = "list"}
    <2>1. ~Kept(service) => \A e \in service : e[1] # "list"
      BY DEF Kept
    <2> QED
      BY <1>1, <2>1 DEF Held
  <1> QED
    BY <1>1, <1>2 DEF PassInv, OneService, ListKept

LEMMA PassStep == IInv /\ PassInv /\ [Next]_vars => PassInv'
  <1> SUFFICES ASSUME IInv, PassInv, [Next]_vars PROVE PassInv'
    OBVIOUS
  <1> USE DEF PassInv, OneService, ListKept, Held
  <1>1. CASE Reject
    BY <1>1 DEF Reject, passVars
  <1>2. CASE Skip
    BY <1>2, GeneratorOK DEF Skip, AtMethod, IInv, EntriesInv
  <1>3. CASE Accept
    BY <1>3 DEF Accept, passVars
  <1>4. ASSUME NEW e \in Primitives \X RPCs, Call(e) PROVE PassInv'
    BY <1>4 DEF Call, passVars
  <1>5. CASE UNCHANGED vars
    BY <1>5 DEF vars, passVars
  <1> QED
    BY <1>1, <1>2, <1>3, <1>4, <1>5, PassEmit, PassClose DEF Next

\* Type correctness of the pass (generator.go): tool names recorded are those of RPCs,
\* what is held belongs to one service or to closed ones, and the lister that is emitted
\* is the claimed site's -- no service that declares it is left out.
THEOREM PassTypeCorrect == Spec => []TypeOK
  <1>1. IInv /\ PassInv => TypeOK
    <2> SUFFICES ASSUME IInv, PassInv PROVE TypeOK
      OBVIOUS
    <2>1. next \in 1..(N + 1) /\ 1..(next - 1) \subseteq RPCs
      BY GeneratorOK DEF IInv, EntriesInv, PassInv, RPCs
    <2>2. service \cup output \subseteq Primitives \X RPCs
      BY <2>1 DEF IInv, EntriesInv, Held
    <2>3. called \subseteq output
      BY DEF IInv, ClaimsInv
    <2>4. \A e, f \in service : ServiceOf(e[2]) = ServiceOf(f[2])
      BY DEF PassInv, OneService
    <2>5. {e \in service \cup output : e[1] = "list"} = IF listSite = 0 THEN {} ELSE {<<"list", listSite>>}
      BY DEF PassInv, ListKept, Held
    <2> QED
      BY <2>1, <2>2, <2>3, <2>4, <2>5 DEF TypeOK, PassInv
  <1> QED
    BY <1>1, InitIInv, NextKeeps, PassInit, PassStep, PTL DEF Spec

------------------------------------------------------------------------------
\* The calls of a tool leave the run alone: all this holds of them, too.
THEOREM ContractRuns == ContractSpec => Spec
  <1>1. ContractInit => Init
    BY DEF ContractInit
  <1>2. [ContractNext]_contractVars => [Next]_vars
    BY DEF ContractNext, contractVars
  <1> QED
    BY <1>1, <1>2, PTL DEF ContractSpec, Spec
------------------------------------------------------------------------------
(* Hidden fields.  What zeroValueViolation lets through, the zero value meets. *)

LEMMA NumericZeroMeets ==
    ASSUME NEW kind \in Numeric, NEW rules, \A r \in rules : RuleOK(kind, r) /\ ~NumericZero(r)
    PROVE  ValueMeets(kind, 0, rules)
  <1>1. \A r \in rules : r.is \notin Bounds => Meets(0, r)
    <2> SUFFICES ASSUME NEW r \in rules, r.is \notin Bounds PROVE Matches(0, r)
      BY DEF Meets
    <2> QED
      BY DEF RuleOK, NumericZero, Matches, Numeric, Narrow, Wide, Bounds
  <1>2. \A r \in Lower(rules) : 0 > r.of \/ (r.is = "gte" /\ 0 = r.of)
    BY DEF Lower, RuleOK, NumericZero, Numeric, Narrow, Wide, Bounds
  <1>3. \A r \in Upper(rules) : 0 < r.of \/ (r.is = "lte" /\ 0 = r.of)
    BY DEF Upper, RuleOK, NumericZero, Numeric, Narrow, Wide, Bounds
  <1> QED
    BY <1>1, <1>2, <1>3 DEF ValueMeets, InRange

LEMMA SequenceZeroMeets ==
    ASSUME NEW kind \in {"string", "bytes"}, NEW r, RuleOK(kind, r), ~SequenceZero(r)
    PROVE  Meets(<<>>, r)
  <1>1. Len(<<>>) = 0
    OBVIOUS
  <1>2. r.is \in {"const", "prefix", "suffix", "contains", "not_contains"} => r.of \in Seq(Int)
    BY DEF RuleOK, Numeric, Narrow, Wide, Bounds
  <1>3. r.is \in {"len", "min_len", "max_len", "len_bytes", "min_bytes"} => r.of \in Nat
    BY DEF RuleOK, Numeric, Narrow, Wide, Bounds
  <1>4. CASE r.is \in {"const", "in", "not_in", "pattern"}
    BY <1>4 DEF SequenceZero, Meets, Matches
  <1>5. CASE r.is = "format"
    BY <1>5 DEF SequenceZero, Meets, Matches, RuleOK, Numeric, Narrow, Wide, Bounds
  <1>6. CASE r.is \in {"len", "min_len", "max_len", "len_bytes", "min_bytes"}
    BY <1>1, <1>3, <1>6 DEF SequenceZero, Meets, Matches
  <1>7. CASE r.is \in {"prefix", "suffix", "contains"}
    <2>1. r.of = <<>>
      BY <1>7 DEF SequenceZero
    <2>2. IsPrefix(<<>>, <<>>) /\ IsSuffix(<<>>, <<>>)
      BY DEF IsPrefix, IsSuffix, Reverse
    <2>3. HasPart(<<>>, <<>>)
      <3>1. 0 \in 0..(Len(<<>>) - Len(<<>>)) /\ SubSeq(<<>>, 0 + 1, 0 + Len(<<>>)) = <<>>
        OBVIOUS
      <3> QED
        BY <3>1 DEF HasPart
    <2> QED
      BY <1>7, <2>1, <2>2, <2>3 DEF Meets
  <1>8. CASE r.is = "not_contains"
    <2>1. r.of \in Seq(Int) /\ r.of # <<>>
      BY <1>2, <1>8 DEF SequenceZero
    <2>2. Len(r.of) \in Nat /\ Len(r.of) > 0
      BY <2>1
    <2>3. ~HasPart(<<>>, r.of)
      BY <1>1, <2>2 DEF HasPart
    <2> QED
      BY <1>8, <2>3 DEF Meets
  <1> QED
    BY <1>4, <1>5, <1>6, <1>7, <1>8 DEF RuleOK, Numeric, Narrow, Wide, Bounds

\* A field the generator may hide is accepted once it is cleared.
LEMMA ClearedAccepted ==
    ASSUME NEW f, FieldOK(f), ~IsRequired(f), ~ZeroViolation(f),
           NEW object, f.json \notin object.keys, object.value[f.json] = ZeroOf(f)
    PROVE  FieldAccepts(f, object)
  <1> SUFFICES ASSUME f.ignore = "no", ~f.presence
               PROVE  /\ \A r \in f.wrap : Meets(ZeroOf(f), r)
                      /\ \A e \in Elements(f.card, ZeroOf(f)) : ValueMeets(f.kind, e, f.rules)
    BY DEF FieldAccepts, IsRequired, IsSet, FieldOK
  <1>1. CASE f.card # "single"
    <2>1. ZeroOf(f) = <<>> /\ Elements(f.card, ZeroOf(f)) = {}
      BY <1>1 DEF ZeroOf, Elements, ToSet
    <2>2. ASSUME NEW r \in f.wrap PROVE Meets(<<>>, r)
      <3>1. Len(<<>>) = 0 /\ ToSet(<<>>) = {}
        BY DEF ToSet
      <3>2. Cardinality({}) = 0
        BY FS_EmptySet
      <3>3. CASE r.is = "unique"
        BY <3>1, <3>2, <3>3 DEF Meets, Matches
      <3>4. CASE r.is # "unique"
        BY <1>1, <2>2, <3>1, <3>4 DEF FieldOK, ZeroViolation, Meets, Matches
      <3> QED
        BY <3>3, <3>4
    <2> QED
      BY <2>1, <2>2
  <1>2. CASE f.card = "single"
    <2>1. f.wrap = {} /\ Elements(f.card, ZeroOf(f)) = {Zero(f.kind)} /\ f.kind # "message"
      BY <1>2 DEF FieldOK, Elements, ZeroOf
    <2>2. \A r \in f.rules : RuleOK(f.kind, r)
      BY DEF FieldOK
    <2>3. CASE f.kind \in Numeric
      <3>1. \A r \in f.rules : ~NumericZero(r)
        BY <1>2, <2>3 DEF ZeroViolation
      <3>2. Zero(f.kind) = 0
        BY <2>3 DEF Zero
      <3> QED
        BY <2>1, <2>2, <2>3, <3>1, <3>2, NumericZeroMeets
    <2>4. CASE f.kind \in {"string", "bytes"}
      <3>1. \A r \in f.rules : ~SequenceZero(r)
        BY <1>2, <2>4 DEF ZeroViolation
      <3>2. Zero(f.kind) = <<>> /\ f.kind \notin Numeric
        BY <2>4 DEF Zero, Numeric, Narrow, Wide
      <3>3. \A r \in f.rules : Meets(<<>>, r)
        BY <2>2, <2>4, <3>1, SequenceZeroMeets
      <3> QED
        BY <2>1, <3>2, <3>3 DEF ValueMeets
    <2>5. CASE f.kind = "enum"
      <3>1. \A r \in f.rules : ~EnumZero(r)
        BY <1>2, <2>5 DEF ZeroViolation
      <3>2. Zero(f.kind) = 0 /\ f.kind \notin Numeric
        BY <2>5 DEF Zero, Numeric, Narrow, Wide
      <3>3. \A r \in f.rules : Meets(0, r)
        BY <2>2, <2>5, <3>1 DEF RuleOK, EnumZero, Meets, Matches, Numeric, Narrow, Wide
      <3> QED
        BY <2>1, <3>2, <3>3 DEF ValueMeets
    <2>6. CASE f.kind = "bool"
      <3>1. Zero(f.kind) = FALSE /\ f.kind \notin Numeric
        BY <2>6 DEF Zero, Numeric, Narrow, Wide
      <3>2. \A r \in f.rules : r.is = "const" /\ r.of = FALSE
        BY <1>2, <2>2, <2>6 DEF ZeroViolation, RuleOK, Numeric, Narrow, Wide
      <3>3. \A r \in f.rules : Meets(FALSE, r)
        BY <3>2 DEF Meets, Matches
      <3> QED
        BY <2>1, <3>1, <3>3 DEF ValueMeets
    <2>7. CASE f.kind \notin Numeric \cup {"string", "bytes", "enum", "bool"}
      <3>1. f.rules = {}
        BY <2>2, <2>7 DEF RuleOK
      <3> QED
        BY <2>1, <2>7, <3>1 DEF ValueMeets
    <2> QED
      BY <2>3, <2>4, <2>5, <2>6, <2>7
  <1> QED
    BY <1>1, <1>2
\* applyInt32Rules and its siblings say what the rules say, for every number and
\* every bound, unless a lower bound is above an upper one.
THEOREM NumericKeywords ==
    ASSUME NEW kind \in {"int32", "double"}, NEW v \in Int, NEW rules,
           \A r \in rules : RuleOK(kind, r), ~Reversed(rules)
    PROVE  (\A r \in rules : KeywordHolds(kind, v, r)) <=> ValueMeets(kind, v, rules)
  <1>1. kind \in Numeric /\ kind \notin Wide /\ kind # "bytes"
    BY DEF Numeric, Narrow, Wide
  <1>2. \A r \in rules : \/ r.is \in Bounds /\ r.of \in Int
                         \/ r.is \in {"const", "in", "not_in"}
    BY <1>1 DEF RuleOK, Bounds
  <1>3. \A r \in rules : r.is \notin Bounds => (KeywordHolds(kind, v, r) <=> Meets(v, r))
    BY <1>1, <1>2 DEF KeywordHolds, Meets, Matches
  <1>4. (\A r \in rules : r.is \in Bounds => KeywordHolds(kind, v, r)) <=> InRange(v, rules)
    <2>1. \A r \in Lower(rules) : KeywordHolds(kind, v, r) <=> (v > r.of \/ (r.is = "gte" /\ v = r.of))
      BY <1>1, <1>2 DEF Lower, KeywordHolds, Bounds
    <2>2. \A r \in Upper(rules) : KeywordHolds(kind, v, r) <=> (v < r.of \/ (r.is = "lte" /\ v = r.of))
      BY <1>1, <1>2 DEF Upper, KeywordHolds, Bounds
    <2>3. \A r \in rules : r.is \in Bounds <=> r \in Lower(rules) \/ r \in Upper(rules)
      BY DEF Lower, Upper, Bounds
    <2>4. Lower(rules) \subseteq rules /\ Upper(rules) \subseteq rules
      BY DEF Lower, Upper
    <2> QED
      BY <2>1, <2>2, <2>3, <2>4 DEF InRange
  <1> QED
    BY <1>1, <1>3, <1>4 DEF ValueMeets
\* An enum's schema lists every defined number that its rules leave.
LEMMA EnumListed ==
    ASSUME NEW f, f.kind = "enum", NEW v \in f.defined, ValueMeets(f.kind, v, f.rules), FieldOK(f)
    PROVE  v \in EnumValues(f)
  <1> DEFINE consts == {r.of : r \in {x \in f.rules : x.is = "const" /\ f.card = "single"}}
             ins == {r.of : r \in {x \in f.rules : x.is = "in" /\ f.card = "single"}}
             outs == {r.of : r \in {x \in f.rules : x.is = "not_in" /\ f.card = "single"}}
             const == consts \cap f.defined
  <1>1. \A r \in f.rules : /\ r.is = "const" => v = r.of
                           /\ r.is = "in" /\ r.of # {} => v \in r.of
                           /\ r.is = "not_in" => v \notin r.of
    <2>1. \A r \in f.rules : r.is \in {"const", "in", "not_in"} => Meets(v, r)
      BY DEF ValueMeets, Bounds
    <2> QED
      BY <2>1 DEF Meets, Matches
  <1>2. /\ \A c \in consts : \E r \in f.rules : r.is = "const" /\ r.of = c
        /\ \A c \in ins : \E r \in f.rules : r.is = "in" /\ r.of = c
        /\ \A c \in outs : \E r \in f.rules : r.is = "not_in" /\ r.of = c
    OBVIOUS
  <1>3. EnumValues(f) = IF consts # {} THEN IF const # {} THEN const ELSE f.defined
                        ELSE IF UNION ins # {} THEN (UNION ins) \cap f.defined
                        ELSE f.defined \ UNION outs
    BY DEF EnumValues
  <1> HIDE DEF consts, ins, outs
  <1>4. \A c \in consts : v = c
    BY <1>1, <1>2
  <1>5. \A c \in ins : c # {} => v \in c
    BY <1>1, <1>2
  <1>6. \A c \in outs : v \notin c
    BY <1>1, <1>2
  <1>7. CASE consts # {}
    BY <1>3, <1>4, <1>7
  <1>8. CASE consts = {} /\ UNION ins # {}
    <2>1. v \in UNION ins
      BY <1>5, <1>8
    <2>2. EnumValues(f) = (UNION ins) \cap f.defined
      BY <1>3, <1>8, Zenon
    <2> QED
      BY <2>1, <2>2, Zenon
  <1>9. CASE consts = {} /\ UNION ins = {}
    BY <1>3, <1>6, <1>9
  <1> QED
    BY <1>7, <1>8, <1>9

\* A field's schema turns away no value that its rules let through, whatever the kind,
\* the rules and the value, where the keywords can say what the rules say: what
\* AdmitsWhatUpstreamTakes and OutputFits say of a message, of each of its fields.
THEOREM FieldAdmits ==
    ASSUME NEW f, FieldOK(f), NEW path, NEW object, FieldAccepts(f, object), Faithful(f, object),
           f.presence => IsSet(f, object),
           \A v \in Elements(f.card, object.value[f.json]) :
               (f.kind \in Numeric => v \in Int) /\ (f.kind = "enum" => v \in f.defined)
    PROVE  NodeAdmits(Leaf(f, path), object.value[f.json])
  <1> DEFINE value == object.value[f.json]
             n == Leaf(f, path)
  <1>1. /\ \A r \in f.wrap : Meets(value, r)
        /\ \A v \in Elements(f.card, value) : ValueMeets(f.kind, v, f.rules)
    BY DEF FieldAccepts, Faithful
  <1>2. /\ n.wrapper = WrapperKeywords(f) /\ n.keywords = ValueKeywords(f) /\ n.is = f.kind /\ n.card = f.card
        /\ f.kind = "enum" => n.enum = EnumValues(f)
    BY DEF Leaf
  <1> HIDE DEF n, value
  <1>3. \A r \in WrapperKeywords(f) : Matches(value, r)
    <2>1. \A r \in WrapperKeywords(f) : r \in f.wrap /\ r.is \in {"min_items", "max_items", "unique"}
      BY DEF WrapperKeywords
    <2>2. \A r \in WrapperKeywords(f) : Meets(value, r)
      BY <1>1, <2>1
    <2> QED
      BY <2>1, <2>2 DEF Meets
  <1>4. ASSUME NEW v \in Elements(f.card, value), NEW r \in ValueKeywords(f) PROVE KeywordHolds(f.kind, v, r)
    <2>1. \/ r \in f.rules /\ r.is \in Keywords(f.kind)
          \/ /\ f.kind \in {"string", "bytes"} /\ r.is \in {"min_len", "max_len"}
             /\ \E q \in f.rules : q.is = "len" /\ r.of = q.of
      BY <1>4 DEF ValueKeywords, LengthKeywords
    <2>2. (\A q \in f.rules : RuleOK(f.kind, q)) /\ ValueMeets(f.kind, v, f.rules)
      BY <1>1, <1>4 DEF FieldOK
    <2>3. CASE f.kind \in Wide
      <3>1. r \in f.rules /\ r.is \in Keywords(f.kind)
        BY <2>1, <2>3 DEF Wide
      <3> QED
        BY <2>3, <3>1 DEF KeywordHolds, Faithful
    <2>4. CASE f.kind = "bytes"
      BY <1>4, <2>4 DEF Faithful
    <2>5. CASE f.kind \in {"int32", "double"}
      <3> DEFINE bounds == {x \in f.rules : x.is \in Bounds}
      <3>1. v \in Int /\ ~Reversed(bounds) /\ f.kind \in Numeric
        BY <1>4, <2>5 DEF Faithful, Numeric, Narrow, value
      <3>2. ~Reversed(f.rules)
        BY <3>1 DEF Reversed, Lower, Upper, Bounds
      <3>3. \A x \in f.rules : KeywordHolds(f.kind, v, x)
        BY <2>2, <2>5, <3>1, <3>2, NumericKeywords
      <3> QED
        BY <2>1, <2>5, <3>3
    <2>6. CASE f.kind \in {"string", "bool"}
      <3>1. f.kind \notin Wide /\ f.kind # "bytes"
        BY <2>6 DEF Wide
      <3>2. CASE r \in f.rules /\ r.is \in Keywords(f.kind)
        <4>1. r.is \in {"format", "pattern", "const", "min_len", "max_len", "in", "not_in"} /\ r.is \notin Bounds
          BY <2>6, <3>2 DEF Keywords, Bounds
        <4>2. Meets(v, r)
          BY <2>2, <3>2, <4>1 DEF ValueMeets
        <4> QED
          BY <3>1, <4>1, <4>2 DEF KeywordHolds, Meets
      <3>3. CASE r.is \in {"min_len", "max_len"} /\ \E q \in f.rules : q.is = "len" /\ r.of = q.of
        <4>1. PICK q \in f.rules : q.is = "len" /\ r.of = q.of
          BY <3>3
        <4>2. Meets(v, q) /\ r.of \in Nat
          BY <2>2, <4>1 DEF ValueMeets, RuleOK, Bounds, Numeric, Narrow, Wide
        <4>3. Len(v) = r.of
          BY <4>1, <4>2 DEF Meets, Matches
        <4>4. Matches(v, r) /\ r.is \notin Bounds
          BY <3>3, <4>2, <4>3 DEF Matches, Bounds
        <4> QED
          BY <3>1, <4>4 DEF KeywordHolds
      <3> QED
        BY <2>1, <3>2, <3>3
    <2>7. CASE f.kind \notin Wide \cup {"bytes", "int32", "double", "string", "bool"}
      BY <2>1, <2>7 DEF Keywords, Wide
    <2> QED
      BY <2>3, <2>4, <2>5, <2>6, <2>7
  <1>5. ASSUME NEW v \in Elements(f.card, value), f.kind = "enum" PROVE v \in EnumValues(f)
    BY <1>1, <1>5, EnumListed DEF value
  <1>6. NodeAdmits(n, value)
    BY <1>2, <1>3, <1>4, <1>5 DEF NodeAdmits
  <1> QED
    BY <1>6 DEF n, value
------------------------------------------------------------------------------
(* ... of every accepted run. *)

\* The pass is done with what it could build, and all of it when it accepts.
BuiltInv ==
    /\ request \in Requests /\ next \in Nat
    /\ \A j \in RPCs : j < next /\ Annotated(j) => ~Unbuildable(request[j])
    /\ phase = "accepted" => next = N + 1

\* A call is to a tool that could be built, and forwarded without hidden fields.
ExchangeInv ==
    /\ exchange.is # "none" => exchange.rpc \in RPCs /\ ~Unbuildable(request[exchange.rpc])
    /\ exchange.is = "forwarded" =>
          \A f \in FieldsOf(File, File.input) :
              ~Visible(f, TRUE) =>
                  f.json \notin exchange.object.keys /\ exchange.object.value[f.json] = ZeroOf(f)

LEMMA RootEntered ==
    ASSUME NEW r \in Requests, NEW i \in RPCs PROVE r[i].file.input \in Entered(r[i].file)
  BY ContractOK DEF Entered

LEMMA BuiltInit == ContractInit => BuiltInv /\ ExchangeInv
  BY DEF ContractInit, Init, NoCall, BuiltInv, ExchangeInv, RPCs

LEMMA BuiltStep == BuiltInv /\ Next => BuiltInv'
  <1> SUFFICES ASSUME BuiltInv, Next PROVE BuiltInv'
    OBVIOUS
  <1>0. request' = request /\ N \in Nat
    BY GeneratorOK DEF Next, Reject, Skip, Emit, CloseService, Accept, Call
  <1>1. \A j : Annotated(j)' = Annotated(j) /\ Unbuildable(request[j])' = Unbuildable(request[j])
    BY <1>0 DEF Annotated, Has
  <1>2. CASE Reject \/ CloseService \/ Accept \/ \E e \in Primitives \X RPCs : Call(e)
    BY <1>0, <1>1, <1>2 DEF BuiltInv, Reject, CloseService, Accept, Call, passVars
  <1>3. CASE Skip
    BY <1>0, <1>1, <1>3 DEF BuiltInv, Skip, AtMethod, RPCs
  <1>4. CASE Emit
    <2>1. ~Unbuildable(request[next]) /\ next \in Nat /\ next' = next + 1 /\ phase' = "pass"
      BY <1>4 DEF Emit, AtMethod, Rejected, Malformed, BuiltInv
    <2> QED
      BY <1>0, <1>1, <2>1 DEF BuiltInv, RPCs
  <1> QED
    BY <1>2, <1>3, <1>4 DEF Next

LEMMA ExchangeStep == BuiltInv /\ ExchangeInv /\ [ContractNext]_contractVars => (BuiltInv /\ ExchangeInv)'
  <1> SUFFICES ASSUME BuiltInv, ExchangeInv, [ContractNext]_contractVars PROVE (BuiltInv /\ ExchangeInv)'
    OBVIOUS
  <1>1. CASE Next /\ UNCHANGED exchange
    <2>1. request' = request
      BY <1>1 DEF Next, Reject, Skip, Emit, CloseService, Accept, Call
    <2> QED
      BY <1>1, <2>1, BuiltStep DEF ExchangeInv, File
  <1>2. CASE UNCHANGED contractVars
    BY <1>2 DEF contractVars, vars, passVars, BuiltInv, ExchangeInv, File, Annotated, Has
  <1>3. ASSUME UNCHANGED vars PROVE BuiltInv' /\ request' = request
    BY <1>3 DEF vars, passVars, BuiltInv, Annotated, Has
  <1>4. ASSUME NEW i \in RPCs, Invoke(i), UNCHANGED vars PROVE ExchangeInv'
    <2>1. N \in Nat /\ i < next /\ Annotated(i)
      BY <1>4, GeneratorOK DEF Invoke, Up, BuiltInv, RPCs, Annotated, Primitives
    <2>2. ~Unbuildable(request[i])
      BY <2>1 DEF BuiltInv
    <2>3. exchange'.is = "asked" /\ exchange'.rpc = i
      BY <1>4 DEF Invoke
    <2> QED
      BY <1>3, <1>4, <2>2, <2>3 DEF ExchangeInv
  <1>5. CASE Forward /\ UNCHANGED vars
    <2> DEFINE fields == FieldsOf(File, File.input)
               hidden == {f \in fields : ~Visible(f, TRUE)}
               kept == Without(exchange.object, fields, hidden)
    <2>1. /\ exchange' = [is |-> "forwarded", rpc |-> exchange.rpc, object |-> kept]
          /\ exchange.is = "asked" /\ request' = request /\ File' = File
      BY <1>5, <1>3 DEF Forward, File
    <2>2. exchange.rpc \in RPCs /\ ~Unbuildable(request[exchange.rpc])
      BY <2>1 DEF ExchangeInv
    <2>3. \A f, g \in fields : f.json = g.json => f = g
      BY <2>2, ContractOK DEF BuiltInv, File
    <2>4. ASSUME NEW f \in fields, ~Visible(f, TRUE)
          PROVE  f.json \notin kept.keys /\ kept.value[f.json] = ZeroOf(f)
      <3>1. f \in hidden /\ f.json \in JSONNames(fields) /\ f.json \in JSONNames(hidden)
        BY <2>4 DEF JSONNames
      <3>2. (CHOOSE g \in fields : g.json = f.json) = f
        BY <2>3
      <3> QED
        BY <3>1, <3>2 DEF Without
    <2>5. exchange'.is = "forwarded" /\ exchange'.rpc = exchange.rpc /\ exchange'.object = kept
      BY <2>1
    <2>6. FieldsOf(File', File'.input) = fields
      BY <2>1
    <2> HIDE DEF fields, hidden, kept
    <2>7. \A f \in FieldsOf(File', File'.input) :
              ~Visible(f, TRUE) =>
                  f.json \notin (exchange.object.keys)' /\ (exchange.object.value)'[f.json] = ZeroOf(f)
      BY <2>4, <2>5, <2>6
    <2> QED
      BY <1>3, <1>5, <2>1, <2>2, <2>5, <2>7 DEF ExchangeInv
  <1>6. CASE Reply /\ UNCHANGED vars
    BY <1>3, <1>6 DEF Reply, ExchangeInv
  <1> QED
    BY <1>1, <1>2, <1>3, <1>4, <1>5, <1>6 DEF ContractNext

\* validateInputExclusions does what its error messages say, whatever the messages,
\* rules and values: no request of an accepted run fails upstream for an excluded
\* field that was cleared, unless the field is OUTPUT_ONLY as well, or for a required
\* oneof that the client cannot fill.
THEOREM ExcludedFields == ContractSpec => []ExcludedFieldsNeverFail
  <1>1. BuiltInv /\ ExchangeInv => ExcludedFieldsNeverFail
    <2> SUFFICES ASSUME BuiltInv, ExchangeInv, exchange.is = "forwarded"
                 PROVE  /\ \A f \in FieldsOf(File, File.input) :
                               Excluded(f) /\ ~OutputOnly(f) => FieldAccepts(f, exchange.object)
                        /\ \A o \in File.oneofs[File.input] :
                               o.required => \E f \in Members(File, File.input, o) : Visible(f, TRUE)
      BY DEF ExcludedFieldsNeverFail
    <2>1. exchange.rpc \in RPCs /\ ~ExclusionRefused(File) /\ File.input \in Entered(File)
      BY RootEntered DEF ExchangeInv, Unbuildable, File, BuiltInv
    <2>2. ASSUME NEW f \in FieldsOf(File, File.input), Excluded(f), ~OutputOnly(f)
          PROVE  FieldAccepts(f, exchange.object)
      <3>1. ~IsRequired(f) /\ ~ZeroViolation(f)
        BY <2>1, <2>2 DEF ExclusionRefused
      <3>2. FieldOK(f)
        BY <2>1, ContractOK DEF BuiltInv, File
      <3>3. f.json \notin exchange.object.keys /\ exchange.object.value[f.json] = ZeroOf(f)
        BY <2>2 DEF ExchangeInv, Visible
      <3> QED
        BY <3>1, <3>2, <3>3, ClearedAccepted
    <2>3. \A o \in File.oneofs[File.input] :
              o.required => \E f \in Members(File, File.input, o) : Visible(f, TRUE)
      BY <2>1 DEF ExclusionRefused
    <2> QED
      BY <2>2, <2>3
  <1> QED
    BY <1>1, BuiltInit, ExchangeStep, PTL DEF ContractSpec
------------------------------------------------------------------------------
(* Induction over Nat, from the well-foundedness of a finite set's subsets: *)
(* the library's rule takes an operator, these take a set.                 *)

LEMMA Least ==
    ASSUME NEW T, T \subseteq Nat, T # {}
    PROVE  \E m \in T : \A n \in T : m <= n
  <1> DEFINE F == {1..n : n \in T}
             R == StrictSubsetOrdering(Nat)
             D == FiniteSubsetsOf(Nat)
  <1>1. F \subseteq D /\ F # {} /\ \A n \in T : 1..n \in F
    <2>1. \A n \in Nat : 1..n \subseteq Nat /\ IsFiniteSet(1..n)
      BY FS_Interval
    <2> QED
      BY <2>1 DEF FiniteSubsetsOf
  <1>2. IsWellFoundedOn(R, D)
    BY FS_StrictSubsetOrderingWellFounded
  <1>3. \A Z \in F : \E m \in T : Z = 1..m
    OBVIOUS
  <1>4. \A A, B \in D : A \subseteq B /\ A # B => <<A, B>> \in R
    BY DEF StrictSubsetOrdering, FiniteSubsetsOf
  <1> HIDE DEF F, R, D
  <1>5. PICK Z \in F : \A A \in F : <<A, Z>> \notin R
    BY <1>1, <1>2, WFMin
  <1>6. PICK m \in T : Z = 1..m
    BY <1>3
  <1>7. ASSUME NEW n \in T, ~(m <= n) PROVE FALSE
    <2>1. 1..n \subseteq 1..m /\ m \in 1..m /\ m \notin 1..n
      BY <1>7
    <2>2. 1..n # 1..m
      BY <2>1
    <2> QED
      BY <1>1, <1>4, <1>5, <1>6, <2>1, <2>2
  <1> QED
    BY <1>7

LEMMA SetInduction ==
    ASSUME NEW S, 0 \in S, \A n \in Nat : n \in S => n + 1 \in S
    PROVE  Nat \subseteq S
  <1> SUFFICES ASSUME Nat \ S # {} PROVE FALSE
    OBVIOUS
  <1>1. PICK m \in Nat \ S : \A n \in Nat \ S : m <= n
    BY Least
  <1>2. m # 0 /\ m - 1 \in Nat /\ m - 1 \in S
    BY <1>1
  <1> QED
    BY <1>2
------------------------------------------------------------------------------
(* Hidden fields back nothing.  The generator resolves a path one way and  *)
(* the emitted code follows it in four: step by step, each is where the    *)
(* generator was or nowhere at all.                                        *)

Find(way, file, type, name) ==
    IF way = "first" THEN FirstNamed(file, type, name)
    ELSE IF way = "named" THEN NamedFirst(file, type, name)
    ELSE IF way = "json" THEN ByJSON(file, type, name)
    ELSE FindField(file, type, name)
Lost == [field |-> NoField, type |-> Nowhere]
Visit(way, file, at, name) ==
    LET f == Find(way, file, at.type, name) IN
    [field |-> f, type |-> IF Singular(f) THEN f.target ELSE Nowhere]

\* w is Along's walk over path's first n segments, each found that way.
Walked(w, way, file, type, path, n) ==
    w = [i \in 0..n |-> IF i = 0 THEN [field |-> NoField, type |-> type]
                        ELSE Visit(way, file, w[i - 1], path[i])]

LEMMA WalkThere ==
    ASSUME NEW way, NEW file, NEW type, NEW path, NEW n \in Nat
    PROVE  \E w : Walked(w, way, file, type, path, n)
  <1> DEFINE start == [field |-> NoField, type |-> type]
             S == {m \in Nat : \E w : Walked(w, way, file, type, path, m)}
  <1>1. 0 \in S
    <2> DEFINE w == [i \in 0..0 |-> start]
    <2>1. Walked(w, way, file, type, path, 0)
      BY DEF Walked
    <2> QED
      BY <2>1
  <1>2. ASSUME NEW m \in Nat, m \in S PROVE m + 1 \in S
    <2>1. PICK w : Walked(w, way, file, type, path, m)
      BY <1>2
    <2> DEFINE further == [i \in 0..(m + 1) |-> IF i <= m THEN w[i] ELSE Visit(way, file, w[m], path[m + 1])]
    <2>2. \A i \in 0..m : w[i] = IF i = 0 THEN start ELSE Visit(way, file, w[i - 1], path[i])
      BY <2>1 DEF Walked
    <2>3. \A i \in 0..(m + 1) :
              further[i] = IF i = 0 THEN start ELSE Visit(way, file, further[i - 1], path[i])
      <3> SUFFICES ASSUME NEW i \in 0..(m + 1)
                   PROVE  further[i] = IF i = 0 THEN start ELSE Visit(way, file, further[i - 1], path[i])
        OBVIOUS
      <3>1. CASE i = 0
        BY <2>2, <3>1
      <3>2. CASE i # 0
        <4>1. i - 1 \in 0..(m + 1) /\ i - 1 <= m /\ further[i - 1] = w[i - 1]
          BY <3>2
        <4>2. CASE i <= m
          BY <2>2, <3>2, <4>1, <4>2
        <4>3. CASE ~(i <= m)
          <5>1. i = m + 1 /\ i - 1 = m
            BY <4>3
          <5> QED
            BY <3>2, <4>1, <4>3, <5>1
        <4> QED
          BY <4>2, <4>3
      <3> QED
        BY <3>1, <3>2
    <2>4. further = [i \in 0..(m + 1) |-> IF i = 0 THEN start ELSE Visit(way, file, further[i - 1], path[i])]
      <3>1. further = [i \in 0..(m + 1) |-> further[i]]
        OBVIOUS
      <3> HIDE DEF further
      <3> QED
        BY <2>3, <3>1
    <2>5. Walked(further, way, file, type, path, m + 1)
      BY <2>4 DEF Walked
    <2> QED
      BY <2>5
  <1> HIDE DEF S
  <1>3. n \in S
    BY <1>1, <1>2, SetInduction
  <1> QED
    BY <1>3 DEF S
FieldsOn(w, path) == [i \in DOMAIN path |-> w[i].field]

\* The fields of a path, followed in one of the ways.
Fields(way, file, type, path) ==
    IF way = "first" THEN Along(file, type, path, FirstNamed)
    ELSE IF way = "named" THEN Along(file, type, path, NamedFirst)
    ELSE IF way = "json" THEN Along(file, type, path, ByJSON)
    ELSE Along(file, type, path, FindField)
Ways == {"first", "named", "json", "find"}

\* What Along makes of a walk.

LEMMA AlongWalk ==
    ASSUME NEW file, NEW type, NEW path, Len(path) \in Nat, NEW way \in Ways
    PROVE  \E w : /\ Walked(w, way, file, type, path, Len(path))
                  /\ Fields(way, file, type, path) = FieldsOn(w, path)
  <1> DEFINE First(w) == w = [i \in 0..Len(path) |->
                            IF i = 0 THEN [field |-> NoField, type |-> type]
                            ELSE LET f == FirstNamed(file, w[i - 1].type, path[i]) IN
                                 [field |-> f, type |-> IF Singular(f) THEN f.target ELSE Nowhere]]
             Named(w) == w = [i \in 0..Len(path) |->
                            IF i = 0 THEN [field |-> NoField, type |-> type]
                            ELSE LET f == NamedFirst(file, w[i - 1].type, path[i]) IN
                                 [field |-> f, type |-> IF Singular(f) THEN f.target ELSE Nowhere]]
             Json(w) == w = [i \in 0..Len(path) |->
                            IF i = 0 THEN [field |-> NoField, type |-> type]
                            ELSE LET f == ByJSON(file, w[i - 1].type, path[i]) IN
                                 [field |-> f, type |-> IF Singular(f) THEN f.target ELSE Nowhere]]
             Found(w) == w = [i \in 0..Len(path) |->
                            IF i = 0 THEN [field |-> NoField, type |-> type]
                            ELSE LET f == FindField(file, w[i - 1].type, path[i]) IN
                                 [field |-> f, type |-> IF Singular(f) THEN f.target ELSE Nowhere]]
             first == CHOOSE w : First(w)
             named == CHOOSE w : Named(w)
             json == CHOOSE w : Json(w)
             find == CHOOSE w : Found(w)
  <1>1. /\ Along(file, type, path, FirstNamed) = [i \in DOMAIN path |-> first[i].field]
        /\ Along(file, type, path, NamedFirst) = [i \in DOMAIN path |-> named[i].field]
        /\ Along(file, type, path, ByJSON) = [i \in DOMAIN path |-> json[i].field]
        /\ Along(file, type, path, FindField) = [i \in DOMAIN path |-> find[i].field]
    BY Zenon DEF Along
  <1>2. Walked(first, "first", file, type, path, Len(path))
    <2>1. \A w : First(w) <=> Walked(w, "first", file, type, path, Len(path))
      BY DEF Walked, Visit, Find
    <2>2. \E w : Walked(w, "first", file, type, path, Len(path))
      BY WalkThere
    <2> QED
      BY <2>1, <2>2, Zenon
  <1>3. Walked(named, "named", file, type, path, Len(path))
    <2>1. \A w : Named(w) <=> Walked(w, "named", file, type, path, Len(path))
      BY DEF Walked, Visit, Find
    <2>2. \E w : Walked(w, "named", file, type, path, Len(path))
      BY WalkThere
    <2> QED
      BY <2>1, <2>2, Zenon
  <1>4. Walked(json, "json", file, type, path, Len(path))
    <2>1. \A w : Json(w) <=> Walked(w, "json", file, type, path, Len(path))
      BY DEF Walked, Visit, Find
    <2>2. \E w : Walked(w, "json", file, type, path, Len(path))
      BY WalkThere
    <2> QED
      BY <2>1, <2>2, Zenon
  <1>5. Walked(find, "find", file, type, path, Len(path))
    <2>1. \A w : Found(w) <=> Walked(w, "find", file, type, path, Len(path))
      BY DEF Walked, Visit, Find
    <2>2. \E w : Walked(w, "find", file, type, path, Len(path))
      BY WalkThere
    <2> QED
      BY <2>1, <2>2, Zenon
  <1>6. /\ Fields("first", file, type, path) = FieldsOn(first, path)
        /\ Fields("named", file, type, path) = FieldsOn(named, path)
        /\ Fields("json", file, type, path) = FieldsOn(json, path)
        /\ Fields("find", file, type, path) = FieldsOn(find, path)
    <2> HIDE DEF first, named, json, find
    <2> QED
      BY <1>1 DEF Fields, FieldsOn
  <1> HIDE DEF first, named, json, find
  <1> QED
    BY <1>2, <1>3, <1>4, <1>5, <1>6 DEF Ways

\* A message's fields as ContractOK has them, none the JSON name of another.
Clear(file) ==
    \A t \in DOMAIN file.fields :
        /\ file.fields[t] \in Seq(FieldsOf(file, t))
        /\ \A f, g \in FieldsOf(file, t) : {f.name, f.json} \cap {g.name, g.json} # {} => f = g
        /\ \A f \in FieldsOf(file, t) : f.kind = "message" => f.target \in DOMAIN file.fields

\* All ways to find a field find the same one, or, by JSON name only, none.
LEMMA WaysAgree ==
    ASSUME NEW file, Clear(file), NEW type \in DOMAIN file.fields, NEW name, NEW way,
           FindField(file, type, name) # NoField
    PROVE  /\ FindField(file, type, name) \in FieldsOf(file, type)
           /\ Find(way, file, type, name) \in {FindField(file, type, name), NoField}
  <1> DEFINE x == FindField(file, type, name)
             fields == FieldsOf(file, type)
             fs == file.fields[type]
  <1>0. type # Nowhere
    BY DEF FindField, ByJSON, ByName, Pick1, FieldsOf
  <1>1. x \in fields /\ name \in {x.name, x.json}
    <2>1. ByJSON(file, type, name) # NoField =>
              ByJSON(file, type, name) \in {f \in fields : f.json = name}
      BY DEF ByJSON, Pick1
    <2>2. ByName(file, type, name) # NoField =>
              ByName(file, type, name) \in {f \in fields : f.name = name}
      BY DEF ByName, Pick1
    <2> QED
      BY <2>1, <2>2 DEF FindField
  <1>2. \A f \in fields : name \in {f.name, f.json} => f = x
    BY <1>1 DEF Clear
  <1> HIDE DEF x, fields
  <1>3. ByJSON(file, type, name) \in {x, NoField}
    BY <1>2 DEF ByJSON, Pick1, fields
  <1>4. ByName(file, type, name) \in {x, NoField}
    BY <1>2 DEF ByName, Pick1, fields
  <1>5. FirstNamed(file, type, name) = x
    <2> DEFINE T == {k \in DOMAIN fs : name \in {fs[k].name, fs[k].json}}
               First(k) == /\ name \in {fs[k].name, fs[k].json}
                           /\ \A j \in 1..(k - 1) : name \notin {fs[j].name, fs[j].json}
               i == CHOOSE k \in DOMAIN fs : First(k)
    <2>1. fields = {fs[k] : k \in DOMAIN fs}
      BY <1>0 DEF fields, FieldsOf
    <2>2. Len(fs) \in Nat /\ DOMAIN fs = 1..Len(fs)
      BY DEF Clear
    <2>7. T # {} /\ T \subseteq Nat
      BY <1>1, <2>1, <2>2
    <2>3. PICK m \in T : \A n \in T : m <= n
      BY <2>7, Least
    <2>4. First(m)
      <3>1. m \in 1..Len(fs) /\ name \in {fs[m].name, fs[m].json}
        BY <2>2
      <3>2. ASSUME NEW j \in 1..(m - 1) PROVE name \notin {fs[j].name, fs[j].json}
        <4>1. j \in 1..Len(fs) /\ ~(m <= j)
          BY <2>2, <3>1
        <4> QED
          BY <2>2, <2>3, <4>1
      <3> QED
        BY <3>1, <3>2
    <2>5. i \in DOMAIN fs /\ First(i)
      BY <2>3, <2>4
    <2>6. fs[i] = x
      BY <1>2, <2>1, <2>5
    <2> QED
      BY <1>1, <2>6 DEF FirstNamed, fields
  <1> QED
    BY <1>1, <1>3, <1>4, <1>5 DEF Find, NamedFirst, x, fields




\* The generator's walk stays in the descriptors at hand as long as it finds its
\* fields; a walk of the emitted code is where it is, or lost.
LEMMA WalksAgree ==
    ASSUME NEW file, Clear(file), NEW type \in DOMAIN file.fields \cup {Nowhere},
           NEW path, Len(path) \in Nat, NEW v, Walked(v, "find", file, type, path, Len(path)),
           \A i \in 1..Len(path) : v[i].field # NoField,
           NEW way, NEW w, Walked(w, way, file, type, path, Len(path))
    PROVE  \A i \in 1..Len(path) :
               /\ \E t \in DOMAIN file.fields : v[i].field \in FieldsOf(file, t)
               /\ w[i].field \in {v[i].field, NoField}
  <1> DEFINE L == Len(path)
             Good(i) == /\ v[i].type \in DOMAIN file.fields \cup {Nowhere}
                        /\ w[i] \in {v[i], Lost}
                        /\ i # 0 => \E t \in DOMAIN file.fields : v[i].field \in FieldsOf(file, t)
             S == {n \in Nat : n <= L => Good(n)}
  <1>1. /\ v[0] = [field |-> NoField, type |-> type] /\ w[0] = [field |-> NoField, type |-> type]
        /\ \A i \in 1..L : v[i] = Visit("find", file, v[i - 1], path[i]) /\ w[i] = Visit(way, file, w[i - 1], path[i])
    BY DEF Walked
  <1>2. 0 \in S
    BY <1>1
  <1>3. ASSUME NEW n \in Nat, n \in S PROVE n + 1 \in S
    <2> SUFFICES ASSUME n + 1 <= L PROVE Good(n + 1)
      OBVIOUS
    <2> DEFINE i == n + 1
               t == v[n].type
               x == FindField(file, t, path[i])
    <2>1. i \in 1..L /\ i - 1 = n /\ i # 0 /\ t \in DOMAIN file.fields \cup {Nowhere} /\ w[n] \in {v[n], Lost}
      BY <1>3
    <2>2. v[i] = Visit("find", file, v[n], path[i]) /\ w[i] = Visit(way, file, w[n], path[i]) /\ v[i].field # NoField
      BY <1>1, <2>1
    <2> HIDE DEF i, S
    <2>3. v[i] = [field |-> x, type |-> IF Singular(x) THEN x.target ELSE Nowhere] /\ x # NoField
      BY <2>2 DEF Visit, Find
    <2>4. t \in DOMAIN file.fields
      <3>1. FindField(file, Nowhere, path[i]) = NoField
        BY DEF FindField, ByJSON, ByName, Pick1, FieldsOf
      <3> QED
        BY <2>1, <2>3, <3>1
    <2>5. x \in FieldsOf(file, t) /\ Find(way, file, t, path[i]) \in {x, NoField}
      BY <2>3, <2>4, WaysAgree
    <2>6. ~Singular(NoField)
      BY DEF Singular, NoField
    <2>7. Find(way, file, Nowhere, path[i]) = NoField
      BY DEF Find, FirstNamed, NamedFirst, FindField, ByJSON, ByName, Pick1, FieldsOf
    <2> HIDE DEF t, x
    <2>8. w[i] \in {v[i], Lost}
      <3>1. CASE w[n] = v[n]
        <4>1. w[i].field \in {x, NoField} /\ w[i] = [field |-> w[i].field,
                   type |-> IF Singular(w[i].field) THEN w[i].field.target ELSE Nowhere]
          BY <2>2, <2>5, <3>1 DEF Visit, t
        <4> QED
          BY <2>3, <2>6, <4>1 DEF Lost
      <3>2. CASE w[n] = Lost
        BY <2>2, <2>6, <2>7, <3>2 DEF Visit, Lost
      <3> QED
        BY <2>1, <3>1, <3>2
    <2>9. v[i].type \in DOMAIN file.fields \cup {Nowhere} /\ v[i].field = x
      BY <2>3, <2>4, <2>5 DEF Clear, Singular
    <2> QED
      BY <2>4, <2>5, <2>8, <2>9 DEF i
  <1> HIDE DEF S
  <1>4. \A i \in 1..L : i \in S
    BY <1>2, <1>3, SetInduction
  <1>5. \A i \in 1..L : Good(i)
    BY <1>4 DEF S
  <1> QED
    BY <1>5 DEF Lost

\* Whatever way the emitted code follows a path that the generator resolved, it reads
\* fields that the generator has looked at, or none.
LEMMA ReadsResolved ==
    ASSUME NEW file, Clear(file), NEW type \in DOMAIN file.fields \cup {Nowhere},
           NEW path, path \in Seq(STRING), Resolves(file, type, path),
           NEW way \in Ways, NEW reads, reads = Fields(way, file, type, path)
    PROVE  /\ DOMAIN reads = DOMAIN path
           /\ \A k \in DOMAIN reads :
               /\ ~Excluded(reads[k])
               /\ reads[k] # NoField => \E t \in DOMAIN file.fields : reads[k] \in FieldsOf(file, t)
  <1>1. Len(path) \in Nat /\ DOMAIN path = 1..Len(path)
    OBVIOUS
  <1>2. PICK v : /\ Walked(v, "find", file, type, path, Len(path))
                 /\ Fields("find", file, type, path) = FieldsOn(v, path)
    BY <1>1, AlongWalk DEF Ways
  <1>3. \A i \in 1..Len(path) : v[i].field # NoField /\ ~Excluded(v[i].field)
    <2>1. Fields("find", file, type, path) = Along(file, type, path, FindField)
      BY DEF Fields
    <2> QED
      BY <1>1, <1>2, <2>1 DEF Resolves, FieldsOn
  <1>5. PICK w : /\ Walked(w, way, file, type, path, Len(path))
                 /\ reads = FieldsOn(w, path)
    BY <1>1, AlongWalk
  <1>6. \A i \in 1..Len(path) : /\ \E t \in DOMAIN file.fields : v[i].field \in FieldsOf(file, t)
                                /\ w[i].field \in {v[i].field, NoField}
    BY <1>1, <1>2, <1>3, <1>5, WalksAgree
  <1>7. ~Excluded(NoField)
    BY DEF Excluded, NoField
  <1> QED
    BY <1>1, <1>3, <1>5, <1>6, <1>7 DEF FieldsOn

\* Nothing that field_schema hides backs a URI, a name, a blob or a prompt of an
\* accepted run, whatever the messages, the paths and their length.
THEOREM NothingHidden == ContractSpec => []NothingHiddenBacks
  <1>1. BuiltInv => NothingHiddenBacks
    <2> SUFFICES ASSUME BuiltInv, phase = "accepted", NEW i \in RPCs, Annotated(i), NEW use \in request[i].uses,
                        NEW file, file = request[i].file,
                        \A t \in DOMAIN file.fields : \A f, g \in FieldsOf(file, t) : ~(f # g /\ f.name = g.json)
                 PROVE  LET reads == Reads(file, use, request[i].itemPath) IN
                        \A k \in DOMAIN reads : ~Excluded(reads[k])
      BY DEF NothingHiddenBacks
    <2> DEFINE itemPath == request[i].itemPath
               base == Base(file, use, itemPath)
               reads == Reads(file, use, itemPath)
    <2>1. /\ {file.input, file.output} \subseteq DOMAIN file.fields
          /\ itemPath \in Seq(STRING) /\ use.path \in Seq(STRING)
      BY ContractOK DEF BuiltInv
    <2>2. Clear(file)
      BY ContractOK DEF BuiltInv, Clear
    <2>3. i < next
      BY GeneratorOK DEF BuiltInv, RPCs
    <2>4. Resolves(file, base, use.path)
      BY <2>3 DEF BuiltInv, Unbuildable, Usable
    <2>5. ItemType(file, itemPath) \in DOMAIN file.fields \cup {Nowhere}
      <3> SUFFICES ASSUME Resolves(file, file.output, itemPath)
                   PROVE  ItemType(file, itemPath) \in DOMAIN file.fields \cup {Nowhere}
        BY DEF ItemType
      <3> DEFINE along == Along(file, file.output, itemPath, FindField)
                 f == along[Len(itemPath)]
      <3>1. Len(itemPath) \in DOMAIN itemPath
        BY <2>1 DEF Resolves
      <3>2. f # NoField
        BY <3>1 DEF Resolves
      <3>3. along = Fields("find", file, file.output, itemPath)
        BY DEF Fields
      <3> HIDE DEF along
      <3>4. /\ DOMAIN along = DOMAIN itemPath
            /\ \A k \in DOMAIN along :
                along[k] # NoField => \E t \in DOMAIN file.fields : along[k] \in FieldsOf(file, t)
        BY <2>1, <2>2, <3>3, ReadsResolved DEF Ways
      <3>5. f.kind = "message" => f.target \in DOMAIN file.fields
        BY <2>2, <3>1, <3>2, <3>4 DEF Clear
      <3> QED
        BY <3>5 DEF ItemType, Terminal, along
    <2>6. base \in DOMAIN file.fields \cup {Nowhere}
      BY <2>1, <2>5 DEF Base
    <2>7. PICK way \in Ways : reads = Fields(way, file, base, use.path)
      BY DEF Reads, Fields, Ways
    <2> HIDE DEF base, reads
    <2>8. \A k \in DOMAIN reads : ~Excluded(reads[k])
      BY <2>1, <2>2, <2>4, <2>6, <2>7, ReadsResolved
    <2> QED
      BY <2>8 DEF reads
  <1> QED
    BY <1>1, BuiltInit, ExchangeStep, PTL DEF ContractSpec
------------------------------------------------------------------------------
(* What the walk of a schema comes to.  An entry is a field that the walk  *)
(* gets to, with its path and the counts there; what an entry leads to is  *)
(* the least set that holds the fields below each message it enters.  The  *)
(* walk w is [file, root, input, depth].                                   *)

Shown(w, type) == {v \in FieldsOf(w.file, type) : Visible(v, w.input)}
Entries(w) ==
    [field : (UNION {FieldsOf(w.file, t) : t \in DOMAIN w.file.fields}) \cup {w.root},
     path : Seq(STRING), seen : [DOMAIN w.file.fields -> Nat]]
Opens(w, e) == e.field.kind = "message" /\ e.seen[e.field.target] < w.depth
Child(e, v) ==
    [field |-> v, path |-> Append(e.path, v.json), seen |-> [e.seen EXCEPT ![e.field.target] = @ + 1]]
Under(w, e) == IF Opens(w, e) THEN {Child(e, v) : v \in Shown(w, e.field.target)} ELSE {}
Closed(w, S) == \A e \in S : Under(w, e) \subseteq S
Reach(w, e) == {d \in Entries(w) : \A S \in SUBSET Entries(w) : e \in S /\ Closed(w, S) => d \in S}

Node(w, e) ==
    IF e.field.kind # "message" THEN Leaf(e.field, e.path)
    ELSE IF Opens(w, e) THEN Object(w.file, e.field, e.path, Shown(w, e.field.target), w.input)
    ELSE Truncated(e.field, e.path)
Tree(w, e) == {Node(w, d) : d \in Reach(w, e)}

\* Descriptors as ContractOK has them, and a root whose message is among them.
WalkOK(w) ==
    /\ w.depth \in Nat \ {0} /\ w.root.kind = "message" /\ w.root.target \in DOMAIN w.file.fields
    /\ IsFiniteSet(DOMAIN w.file.fields)
    /\ \A t \in DOMAIN w.file.fields :
        /\ t # Nowhere /\ w.file.fields[t] \in Seq(FieldsOf(w.file, t))
        /\ \A f \in FieldsOf(w.file, t) :
            /\ f.json \in STRING /\ (f.kind = "message" => f.target \in DOMAIN w.file.fields)
            /\ \A g \in FieldsOf(w.file, t) : f.json = g.json => f = g

LEMMA EntryOK ==
    ASSUME NEW w, WalkOK(w), NEW e \in Entries(w), e.field.kind = "message"
    PROVE  e.field.target \in DOMAIN w.file.fields
  <1>1. e.field = w.root \/ \E t \in DOMAIN w.file.fields : e.field \in FieldsOf(w.file, t)
    BY DEF Entries
  <1> QED
    BY <1>1 DEF WalkOK

LEMMA UnderEntries ==
    ASSUME NEW w, WalkOK(w), NEW e \in Entries(w)
    PROVE  Under(w, e) \subseteq Entries(w)
  <1> SUFFICES ASSUME Opens(w, e), NEW v \in Shown(w, e.field.target) PROVE Child(e, v) \in Entries(w)
    BY DEF Under
  <1>1. e.field.target \in DOMAIN w.file.fields
    BY EntryOK DEF Opens
  <1>2. v \in FieldsOf(w.file, e.field.target) /\ v.json \in STRING
    BY <1>1 DEF Shown, WalkOK
  <1>3. e.path \in Seq(STRING) /\ e.seen \in [DOMAIN w.file.fields -> Nat]
    BY DEF Entries
  <1>4. Append(e.path, v.json) \in Seq(STRING)
    BY <1>2, <1>3
  <1>5. [e.seen EXCEPT ![e.field.target] = @ + 1] \in [DOMAIN w.file.fields -> Nat]
    BY <1>1, <1>3
  <1> QED
    BY <1>1, <1>2, <1>4, <1>5 DEF Child, Entries

LEMMA ReachWithin ==
    ASSUME NEW w, NEW e, NEW S \in SUBSET Entries(w), e \in S, Closed(w, S)
    PROVE  Reach(w, e) \subseteq S
  BY DEF Reach

LEMMA ReachClosed ==
    ASSUME NEW w, WalkOK(w), NEW e \in Entries(w)
    PROVE  e \in Reach(w, e) /\ Reach(w, e) \subseteq Entries(w) /\ Closed(w, Reach(w, e))
  <1>1. e \in Reach(w, e) /\ Reach(w, e) \subseteq Entries(w)
    BY DEF Reach
  <1>2. ASSUME NEW d \in Reach(w, e), NEW c \in Under(w, d) PROVE c \in Reach(w, e)
    <2>1. c \in Entries(w)
      BY <1>1, <1>2, UnderEntries
    <2>2. ASSUME NEW S \in SUBSET Entries(w), e \in S, Closed(w, S) PROVE c \in S
      BY <1>2, <2>2 DEF Closed, Reach
    <2> QED
      BY <2>1, <2>2 DEF Reach
  <1> QED
    BY <1>1, <1>2 DEF Closed

LEMMA ReachSplit ==
    ASSUME NEW w, WalkOK(w), NEW e \in Entries(w)
    PROVE  Reach(w, e) = {e} \cup UNION {Reach(w, c) : c \in Under(w, e)}
  <1> DEFINE all == {e} \cup (UNION {Reach(w, c) : c \in Under(w, e)})
  <1>1. \A c \in Under(w, e) : c \in Reach(w, c) /\ Reach(w, c) \subseteq Entries(w) /\ Closed(w, Reach(w, c))
    BY UnderEntries, ReachClosed
  <1>2. all \in SUBSET Entries(w) /\ e \in all
    BY <1>1
  <1>3. Closed(w, all)
    <2> SUFFICES ASSUME NEW d \in all PROVE Under(w, d) \subseteq all
      BY DEF Closed
    <2>1. CASE d = e
      BY <1>1, <2>1
    <2>2. CASE d # e
      <3>1. PICK c \in Under(w, e) : d \in Reach(w, c)
        BY <2>2
      <3>2. Under(w, d) \subseteq Reach(w, c)
        BY <1>1, <3>1 DEF Closed
      <3> QED
        BY <3>2
    <2> QED
      BY <2>1, <2>2
  <1>4. Reach(w, e) \subseteq all
    BY <1>2, <1>3, ReachWithin
  <1>5. ASSUME NEW c \in Under(w, e) PROVE Reach(w, c) \subseteq Reach(w, e)
    <2>1. Reach(w, e) \in SUBSET Entries(w) /\ Closed(w, Reach(w, e)) /\ c \in Reach(w, e)
      BY ReachClosed DEF Closed
    <2> QED
      BY <2>1, ReachWithin
  <1> QED
    BY <1>4, <1>5, ReachClosed

LEMMA TreeSplit ==
    ASSUME NEW w, WalkOK(w), NEW e \in Entries(w)
    PROVE  Tree(w, e) = {Node(w, e)} \cup UNION {Tree(w, c) : c \in Under(w, e)}
  <1>1. Reach(w, e) = {e} \cup UNION {Reach(w, c) : c \in Under(w, e)}
    BY ReachSplit
  <1>2. ASSUME NEW n \in Tree(w, e) PROVE n = Node(w, e) \/ \E c \in Under(w, e) : n \in Tree(w, c)
    <2>1. PICK d \in Reach(w, e) : n = Node(w, d)
      BY <1>2 DEF Tree
    <2>2. d = e \/ \E c \in Under(w, e) : d \in Reach(w, c)
      BY <1>1, <2>1
    <2> QED
      BY <2>1, <2>2 DEF Tree
  <1>3. Node(w, e) \in Tree(w, e)
    BY <1>1 DEF Tree
  <1>4. ASSUME NEW c \in Under(w, e), NEW n \in Tree(w, c) PROVE n \in Tree(w, e)
    <2>1. PICK d \in Reach(w, c) : n = Node(w, d)
      BY <1>4 DEF Tree
    <2>2. d \in Reach(w, e)
      BY <1>1, <1>4, <2>1
    <2> QED
      BY <2>1, <2>2 DEF Tree
  <1> QED
    BY <1>2, <1>3, <1>4

LEMMA TreeOfLeaf ==
    ASSUME NEW w, WalkOK(w), NEW e \in Entries(w), e.field.kind # "message"
    PROVE  Tree(w, e) = {Leaf(e.field, e.path)}
  <1>1. Under(w, e) = {} /\ Node(w, e) = Leaf(e.field, e.path)
    BY DEF Under, Opens, Node
  <1> QED
    BY <1>1, TreeSplit

\* message knows what its call for the field v comes to.
Knows(w, message, e, v) ==
    v.kind = "message" => message[Child(e, v)] = [nodes |-> Tree(w, Child(e, v)), seen |-> Child(e, v).seen]

\* One turn of the loop adds what hangs below one field and leaves the counts.
LEMMA FieldAdds ==
    ASSUME NEW w, WalkOK(w), NEW e \in Entries(w), Opens(w, e), NEW v \in Shown(w, e.field.target), NEW message,
           Knows(w, message, e, v), NEW ns
    PROVE  Field(message, e.path, v, [nodes |-> ns, seen |-> Child(e, v).seen])
           = [nodes |-> ns \cup Tree(w, Child(e, v)), seen |-> Child(e, v).seen]
  <1> DEFINE c == Child(e, v)
             sofar == [nodes |-> ns, seen |-> c.seen]
  <1>1. c \in Entries(w) /\ c.field = v /\ c.path = Append(e.path, v.json)
    BY UnderEntries DEF Under, Child
  <1>2. [field |-> v, path |-> Append(e.path, v.json), seen |-> sofar.seen] = c
    BY DEF Child
  <1>3. sofar.nodes = ns /\ sofar.seen = c.seen
    OBVIOUS
  <1>4. c.path = Append(e.path, v.json)
    BY <1>1
  <1>5. v.kind # "message" => Tree(w, c) = {Leaf(v, c.path)}
    BY <1>1, TreeOfLeaf
  <1>6. Field(message, e.path, v, sofar) =
          IF v.kind = "message" THEN [nodes |-> sofar.nodes \cup message[c].nodes, seen |-> message[c].seen]
          ELSE [nodes |-> sofar.nodes \cup {Leaf(v, c.path)}, seen |-> sofar.seen]
    BY <1>2 DEF Field
  <1> HIDE DEF c, sofar
  <1>7. v.kind = "message" => message[c] = [nodes |-> Tree(w, c), seen |-> c.seen]
    BY DEF c, Knows
  <1>8. Field(message, e.path, v, sofar) = [nodes |-> ns \cup Tree(w, c), seen |-> c.seen]
    BY <1>3, <1>5, <1>6, <1>7
  <1> QED
    BY <1>8 DEF c, sofar

\* The loop over all the fields: given what a message's own messages come to, so
\* does it, and its counts are given back.
LEMMA EnterIs ==
    ASSUME NEW w, WalkOK(w), NEW e \in Entries(w), Opens(w, e), NEW message,
           \A v \in Shown(w, e.field.target) : Knows(w, message, e, v)
    PROVE  Enter(message, w.file, e, w.input, w.depth) = [nodes |-> Tree(w, e), seen |-> e.seen]
  <1>0. ASSUME NEW v \in Shown(w, e.field.target), NEW ns
        PROVE  Field(message, e.path, v, [nodes |-> ns, seen |-> Child(e, v).seen])
               = [nodes |-> ns \cup Tree(w, Child(e, v)), seen |-> Child(e, v).seen]
    <2>1. Knows(w, message, e, v)
      OBVIOUS
    <2> QED
      BY <2>1, FieldAdds
  <1> DEFINE type == e.field.target
             fields == w.file.fields[type]
             visible == {v \in FieldsOf(w.file, type) : Visible(v, w.input)}
             n == Len(fields)
             inc == [e.seen EXCEPT ![type] = @ + 1]
             start == [nodes |-> {Object(w.file, e.field, e.path, visible, w.input)}, seen |-> inc]
             Runs(g) == g = [i \in 0..n |->
                 IF i = 0 THEN start
                 ELSE IF fields[i] \in visible THEN Field(message, e.path, fields[i], g[i - 1]) ELSE g[i - 1]]
             walked == CHOOSE g : Runs(g)
             Done(i) == {k \in 1..i : fields[k] \in visible}
             Nodes(i) == {Node(w, e)} \cup UNION {Tree(w, Child(e, fields[k])) : k \in Done(i)}
             want(i) == [nodes |-> Nodes(i), seen |-> inc]
  <1>1. type \in DOMAIN w.file.fields /\ e.seen[type] < w.depth /\ w.depth \in Nat
    BY EntryOK DEF Opens, WalkOK
  <1>2. Enter(message, w.file, e, w.input, w.depth) =
          [nodes |-> walked[n].nodes, seen |-> GiveBack(walked[n].seen, type)]
    <2>1. e.seen[type] \in Nat /\ ~(e.seen[type] >= w.depth)
      BY <1>1 DEF Entries
    <2>2. Enter(message, w.file, e, w.input, w.depth) =
            IF e.seen[type] >= w.depth THEN [nodes |-> {Truncated(e.field, e.path)}, seen |-> e.seen]
            ELSE [nodes |-> walked[n].nodes, seen |-> GiveBack(walked[n].seen, type)]
      BY Zenon DEF Enter
    <2> QED
      BY <2>1, <2>2, Zenon
  <1>3. fields \in Seq(FieldsOf(w.file, type)) /\ FieldsOf(w.file, type) = {fields[i] : i \in DOMAIN fields}
    BY <1>1 DEF WalkOK, FieldsOf
  <1>4. n \in Nat /\ DOMAIN fields = 1..n
    BY <1>3
  <1>5. visible = Shown(w, type)
    BY DEF Shown
  <1>6. \A v \in visible : Child(e, v).seen = inc
    BY DEF Child
  <1>7. want(0) = start
    <2>1. Node(w, e) = Object(w.file, e.field, e.path, visible, w.input)
      BY <1>5 DEF Node, Opens
    <2>2. Done(0) = {}
      OBVIOUS
    <2> QED
      BY <2>1, <2>2
  <1>8. ASSUME NEW i \in 1..n
        PROVE  want(i) = IF fields[i] \in visible THEN Field(message, e.path, fields[i], want(i - 1)) ELSE want(i - 1)
    <2>1. Done(i) = Done(i - 1) \cup (IF fields[i] \in visible THEN {i} ELSE {})
      <3>1. 1..i = 1..(i - 1) \cup {i}
        BY <1>4
      <3> QED
        BY <3>1
    <2>2. CASE fields[i] \in visible
      <3>1. Nodes(i) = Nodes(i - 1) \cup Tree(w, Child(e, fields[i]))
        BY <2>1, <2>2
      <3> DEFINE before == Nodes(i - 1)
      <3> HIDE DEF Nodes, before
      <3>2. Field(message, e.path, fields[i], [nodes |-> before, seen |-> Child(e, fields[i]).seen])
            = [nodes |-> before \cup Tree(w, Child(e, fields[i])), seen |-> Child(e, fields[i]).seen]
        BY <1>0, <1>5, <2>2
      <3>3. Child(e, fields[i]).seen = inc
        BY <1>6, <2>2
      <3> QED
        BY <2>2, <3>1, <3>2, <3>3 DEF before
    <2>3. CASE fields[i] \notin visible
      BY <2>1, <2>3
    <2> QED
      BY <2>2, <2>3
  <1> HIDE DEF start, Nodes, inc, visible, fields
  <1>9. \E g : Runs(g)
    <2> DEFINE g == [i \in 0..n |-> want(i)]
    <2>1. ASSUME NEW i \in 0..n
          PROVE  g[i] = IF i = 0 THEN start
                        ELSE IF fields[i] \in visible THEN Field(message, e.path, fields[i], g[i - 1]) ELSE g[i - 1]
      <3>1. CASE i = 0
        BY <1>7, <3>1
      <3>2. CASE i # 0
        <4>1. i \in 1..n /\ i - 1 \in 0..n
          BY <1>4, <3>2
        <4>2. g[i] = want(i) /\ g[i - 1] = want(i - 1)
          BY <4>1
        <4> HIDE DEF g, want
        <4> QED
          BY <1>8, <3>2, <4>1, <4>2
      <3> QED
        BY <3>1, <3>2
    <2>2. g = [i \in 0..n |-> g[i]]
      OBVIOUS
    <2> HIDE DEF g
    <2>3. Runs(g)
      BY <2>1, <2>2
    <2> QED
      BY <2>3
  <1>10. Runs(walked)
    BY <1>9
  <1> HIDE DEF walked, want
  <1>11. \A i \in 0..n : walked[i] = IF i = 0 THEN start
              ELSE IF fields[i] \in visible THEN Field(message, e.path, fields[i], walked[i - 1]) ELSE walked[i - 1]
    BY <1>10
  <1>12. n \in Nat /\ walked[n] = want(n)
    <2> DEFINE S == {i \in Nat : i <= n => walked[i] = want(i)}
    <2>1. 0 \in S
      BY <1>4, <1>7, <1>11
    <2>2. ASSUME NEW i \in Nat, i \in S PROVE i + 1 \in S
      <3> SUFFICES ASSUME i + 1 <= n PROVE walked[i + 1] = want(i + 1)
        OBVIOUS
      <3>1. i + 1 \in 1..n /\ i + 1 \in 0..n /\ i + 1 # 0 /\ (i + 1) - 1 = i /\ walked[i] = want(i)
        BY <1>4, <2>2
      <3>2. want(i + 1) = IF fields[i + 1] \in visible THEN Field(message, e.path, fields[i + 1], want(i)) ELSE want(i)
        BY <1>8, <3>1
      <3> QED
        BY <1>11, <3>1, <3>2
    <2> HIDE DEF S
    <2>3. n \in S
      BY <1>4, <2>1, <2>2, SetInduction
    <2> QED
      BY <1>4, <2>3 DEF S
  <1>13. Nodes(n) = Tree(w, e)
    <2>1. Under(w, e) = {Child(e, v) : v \in visible}
      BY <1>5 DEF Under
    <2>2. \A v \in visible : \E k \in Done(n) : fields[k] = v
      BY <1>3, <1>4 DEF visible
    <2>3. \A k \in Done(n) : fields[k] \in visible
      OBVIOUS
    <2>4. Tree(w, e) = {Node(w, e)} \cup UNION {Tree(w, c) : c \in Under(w, e)}
      BY TreeSplit
    <2>5. UNION {Tree(w, c) : c \in Under(w, e)} = UNION {Tree(w, Child(e, fields[k])) : k \in Done(n)}
      BY <2>1, <2>2, <2>3
    <2> QED
      BY <2>4, <2>5 DEF Nodes
  <1>14. GiveBack(inc, type) = e.seen
    <2>1. e.seen \in [DOMAIN w.file.fields -> Nat]
      BY DEF Entries
    <2>2. inc = [e.seen EXCEPT ![type] = e.seen[type] + 1] /\ GiveBack(inc, type) = [inc EXCEPT ![type] = inc[type] - 1]
      BY DEF inc, GiveBack
    <2>3. inc \in [DOMAIN w.file.fields -> Nat] /\ inc[type] = e.seen[type] + 1
      BY <1>1, <2>1, <2>2
    <2> QED
      BY <1>1, <2>1, <2>2, <2>3
  <1> QED
    BY <1>2, <1>12, <1>13, <1>14 DEF want

\* How often messages may still be entered: it shrinks on the way down.
Room(w, e) == {tk \in (DOMAIN w.file.fields) \X (0..(w.depth - 1)) : e.seen[tk[1]] <= tk[2]}

LEMMA RoomShrinks ==
    ASSUME NEW w, WalkOK(w), NEW e \in Entries(w), Opens(w, e), NEW v
    PROVE  /\ Cardinality(Room(w, e)) \in Nat /\ Cardinality(Room(w, Child(e, v))) \in Nat
           /\ Cardinality(Room(w, Child(e, v))) < Cardinality(Room(w, e))
  <1> DEFINE type == e.field.target
             c == Child(e, v)
             here == <<type, e.seen[type]>>
             types == DOMAIN w.file.fields
             all == types \X (0..(w.depth - 1))
  <1>1. /\ type \in types /\ e.seen \in [types -> Nat] /\ w.depth \in Nat
        /\ e.seen[type] \in Nat /\ e.seen[type] < w.depth
    BY EntryOK DEF Opens, WalkOK, Entries
  <1>2. c.seen = [e.seen EXCEPT ![type] = e.seen[type] + 1]
    BY DEF Child
  <1>3. IsFiniteSet(all)
    <2>1. IsFiniteSet(types) /\ IsFiniteSet(0..(w.depth - 1))
      BY <1>1, FS_Interval DEF WalkOK
    <2> QED
      BY <2>1, FS_Product
  <1>4. Room(w, e) \subseteq all /\ IsFiniteSet(Room(w, e))
    BY <1>3, FS_Subset DEF Room
  <1>5. \A tk \in all : tk[1] \in types /\ tk[2] \in 0..(w.depth - 1)
    OBVIOUS
  <1>6. here \in Room(w, e)
    <2>1. here \in all /\ here[1] = type /\ here[2] = e.seen[type]
      BY <1>1
    <2> QED
      BY <1>1, <2>1 DEF Room
  <1>7. here \notin Room(w, c)
    <2>1. here[1] = type /\ here[2] = e.seen[type] /\ c.seen[type] = e.seen[type] + 1
      BY <1>1, <1>2
    <2>2. ~(c.seen[here[1]] <= here[2])
      BY <1>1, <2>1
    <2> QED
      BY <2>2 DEF Room
  <1>8. Room(w, c) \subseteq Room(w, e)
    <2> SUFFICES ASSUME NEW tk \in all, c.seen[tk[1]] <= tk[2] PROVE e.seen[tk[1]] <= tk[2]
      BY DEF Room
    <2>1. tk[1] \in types /\ tk[2] \in Nat
      BY <1>1, <1>5
    <2>2. e.seen[tk[1]] \in Nat /\ c.seen[tk[1]] \in {e.seen[tk[1]], e.seen[tk[1]] + 1}
      BY <1>1, <1>2, <2>1
    <2> QED
      BY <2>1, <2>2
  <1> HIDE DEF here, c
  <1>9. /\ IsFiniteSet(Room(w, c)) /\ Cardinality(Room(w, c)) <= Cardinality(Room(w, e))
        /\ Cardinality(Room(w, c)) = Cardinality(Room(w, e)) => Room(w, c) = Room(w, e)
    BY <1>4, <1>8, FS_Subset
  <1>10. Cardinality(Room(w, c)) \in Nat /\ Cardinality(Room(w, e)) \in Nat
    BY <1>4, <1>9, FS_CardinalityType
  <1> QED
    BY <1>6, <1>7, <1>9, <1>10 DEF c

\* Whatever a message's place, messageSchema comes to what the place leads to, if
\* its calls of itself do.
LEMMA EnterAnyhow ==
    ASSUME NEW w, WalkOK(w), NEW e \in Entries(w), e.field.kind = "message", NEW message,
           Opens(w, e) => \A v \in Shown(w, e.field.target) : Knows(w, message, e, v)
    PROVE  Enter(message, w.file, e, w.input, w.depth) = [nodes |-> Tree(w, e), seen |-> e.seen]
  <1>1. CASE Opens(w, e)
    BY <1>1, EnterIs
  <1>2. CASE ~Opens(w, e)
    <2>1. e.seen[e.field.target] >= w.depth
      BY <1>2, EntryOK DEF Opens, WalkOK, Entries
    <2>2. Enter(message, w.file, e, w.input, w.depth) = [nodes |-> {Truncated(e.field, e.path)}, seen |-> e.seen]
      BY <2>1 DEF Enter
    <2>3. Under(w, e) = {} /\ Node(w, e) = Truncated(e.field, e.path)
      BY <1>2 DEF Under, Node
    <2> QED
      BY <2>2, <2>3, TreeSplit
  <1> QED
    BY <1>1, <1>2

\* The recursion of messageSchema is well-founded, and what it returns is what the
\* root leads to.
THEOREM WalkIs ==
    ASSUME NEW w, WalkOK(w)
    PROVE  /\ Start(w.file, w.root) \in Entries(w)
           /\ Walk(w.file, w.root, w.input, w.depth) = Tree(w, Start(w.file, w.root))
  <1> DEFINE D == Places(w.file, w.root)
             start == Start(w.file, w.root)
             right(e) == [nodes |-> Tree(w, e), seen |-> e.seen]
             Runs(m) == m = [e \in D |-> Enter(m, w.file, e, w.input, w.depth)]
             message == CHOOSE m : Runs(m)
  <1>1. D = {e \in Entries(w) : e.field.kind = "message"} /\ start \in D
    <2>1. D = {e \in Entries(w) : e.field.kind = "message"}
      BY DEF Places, Entries, WalkOK
    <2>2. start \in D
      BY DEF Places, Start
    <2> QED
      BY <2>1, <2>2
  <1>2. Walk(w.file, w.root, w.input, w.depth) = message[start].nodes
    BY Zenon DEF Walk
  <1> HIDE DEF D, start
  <1>3. ASSUME NEW e \in D, Opens(w, e), NEW v \in Shown(w, e.field.target), v.kind = "message"
        PROVE  Child(e, v) \in D
    <2>1. Child(e, v) \in Entries(w) /\ Child(e, v).field = v
      BY <1>1, <1>3, UnderEntries DEF Under, Child
    <2> QED
      BY <1>1, <1>3, <2>1
  <1>4. \E m : Runs(m)
    <2> DEFINE m == [e \in D |-> right(e)]
    <2>1. ASSUME NEW e \in D PROVE Enter(m, w.file, e, w.input, w.depth) = right(e)
      <3>1. ASSUME Opens(w, e), NEW v \in Shown(w, e.field.target) PROVE Knows(w, m, e, v)
        BY <1>3, <3>1 DEF Knows
      <3> HIDE DEF m
      <3> QED
        BY <1>1, <3>1, EnterAnyhow
    <2>2. m = [e \in D |-> Enter(m, w.file, e, w.input, w.depth)]
      BY <2>1
    <2> HIDE DEF m
    <2>3. Runs(m)
      BY <2>2
    <2> QED
      BY <2>3
  <1>5. Runs(message)
    BY <1>4
  <1> HIDE DEF message
  <1>6. \A e \in D : message[e] = Enter(message, w.file, e, w.input, w.depth)
    BY <1>5
  <1> HIDE DEF Runs
  <1> DEFINE size(e) == Cardinality(Room(w, e))
             S == {n \in Nat : \A e \in D : size(e) < n => message[e] = right(e)}
  <1>7. ASSUME NEW e \in D, Opens(w, e), NEW v
        PROVE  size(e) \in Nat /\ size(Child(e, v)) \in Nat /\ size(Child(e, v)) < size(e)
    BY <1>1, <1>7, RoomShrinks
  <1>8. \A e \in D : size(e) \in Nat
    <2>1. ASSUME NEW e \in D PROVE IsFiniteSet(Room(w, e))
      <3>1. w.depth \in Nat /\ IsFiniteSet(DOMAIN w.file.fields) /\ IsFiniteSet(0..(w.depth - 1))
        BY FS_Interval DEF WalkOK
      <3>2. IsFiniteSet((DOMAIN w.file.fields) \X (0..(w.depth - 1)))
        BY <3>1, FS_Product
      <3> QED
        BY <3>2, FS_Subset DEF Room
    <2> QED
      BY <2>1, FS_CardinalityType
  <1> HIDE DEF size
  <1>9. 0 \in S
    BY <1>8
  <1>10. ASSUME NEW n \in Nat, n \in S PROVE n + 1 \in S
    <2> SUFFICES ASSUME NEW e \in D, size(e) < n + 1 PROVE message[e] = right(e)
      OBVIOUS
    <2>1. ASSUME Opens(w, e), NEW v \in Shown(w, e.field.target) PROVE Knows(w, message, e, v)
      <3> SUFFICES ASSUME v.kind = "message" PROVE message[Child(e, v)] = right(Child(e, v))
        BY DEF Knows
      <3>1. Child(e, v) \in D /\ size(Child(e, v)) < n
        BY <1>3, <1>7, <2>1
      <3> QED
        BY <1>10, <3>1
    <2>2. Enter(message, w.file, e, w.input, w.depth) = right(e)
      BY <1>1, <2>1, EnterAnyhow
    <2> QED
      BY <1>6, <2>2
  <1> HIDE DEF S
  <1>11. size(start) + 1 \in S
    BY <1>1, <1>8, <1>9, <1>10, SetInduction
  <1>12. message[start] = right(start)
    BY <1>1, <1>8, <1>11 DEF S
  <1> QED
    BY <1>1, <1>2, <1>12 DEF start
------------------------------------------------------------------------------
(* What a schema says of the root message, where Admits looks. *)

LEMMA NodeIs ==
    ASSUME NEW w, NEW e
    PROVE  /\ Node(w, e).path = e.path /\ Node(w, e).type = e.field.target /\ Node(w, e).card = e.field.card
           /\ Node(w, e).wrapper = WrapperKeywords(e.field) /\ Node(w, e).keywords = ValueKeywords(e.field)
           /\ Node(w, e).is = IF e.field.kind # "message" THEN e.field.kind
                              ELSE IF Opens(w, e) THEN "object" ELSE "truncated"
  <1>1. /\ \A f, path : Leaf(f, path).path = path /\ Leaf(f, path).type = f.target /\ Leaf(f, path).card = f.card
        /\ \A f, path : Leaf(f, path).wrapper = WrapperKeywords(f) /\ Leaf(f, path).keywords = ValueKeywords(f)
        /\ \A f, path : Leaf(f, path).is = f.kind
    BY DEF Leaf
  <1>2. CASE e.field.kind # "message"
    BY <1>1, <1>2 DEF Node
  <1>3. CASE e.field.kind = "message" /\ Opens(w, e)
    <2>1. Node(w, e) = Object(w.file, e.field, e.path, Shown(w, e.field.target), w.input)
      BY <1>3 DEF Node
    <2> QED
      BY <1>3, <2>1 DEF Object, Leaf
  <1>4. CASE e.field.kind = "message" /\ ~Opens(w, e)
    <2>1. Node(w, e) = Truncated(e.field, e.path)
      BY <1>4 DEF Node
    <2> QED
      BY <1>4, <2>1 DEF Truncated, Leaf
  <1> QED
    BY <1>2, <1>3, <1>4

\* The root is the one node without a path, its visible fields are those one down.
LEMMA TreeTop ==
    ASSUME NEW w, WalkOK(w), NEW n \in Tree(w, Start(w.file, w.root))
    PROVE  /\ n.path = <<>> => n = Object(w.file, w.root, <<>>, Shown(w, w.root.target), w.input)
           /\ Len(n.path) = 1 => \E v \in Shown(w, w.root.target) :
                                    n = Node(w, Child(Start(w.file, w.root), v)) /\ n.path[1] = v.json
  <1> DEFINE r == Start(w.file, w.root)
             S == {e \in Entries(w) : e = r \/ e \in Under(w, r) \/ Len(e.path) > 1}
  <1>0. Len(<<>>) = 0 /\ 0 # 1
    OBVIOUS
  <1>1. r \in Entries(w) /\ r.field = w.root /\ r.path = <<>> /\ Opens(w, r)
    <2>1. w.root.target \in DOMAIN w.file.fields /\ 0 < w.depth
      BY DEF WalkOK
    <2> QED
      BY <2>1, WalkIs DEF Start, Opens, WalkOK
  <1>2. Under(w, r) = {Child(r, v) : v \in Shown(w, w.root.target)}
    BY <1>1 DEF Under
  <1>3. \A v : Child(r, v).path = <<v.json>> /\ Child(r, v).path # <<>> /\ Len(Child(r, v).path) = 1
    <2>1. \A v : Child(r, v).path = Append(<<>>, v.json)
      BY <1>1 DEF Child
    <2>2. \A x : Append(<<>>, x) = <<x>>
      OBVIOUS
    <2>3. \A x : <<x>> # <<>> /\ Len(<<x>>) = 1
      OBVIOUS
    <2> HIDE DEF r
    <2> QED
      BY <2>1, <2>2, <2>3
  <1>4. Closed(w, S)
    <2> SUFFICES ASSUME NEW e \in S, NEW c \in Under(w, e), c \notin Under(w, r) PROVE c \in Entries(w) /\ Len(c.path) > 1
      <3>1. ASSUME NEW e \in S, NEW c \in Under(w, e) PROVE c \in Entries(w)
        BY UnderEntries
      <3> QED
        BY <3>1 DEF Closed
    <2>1. c \in Entries(w)
      BY UnderEntries
    <2>2. e # r
      OBVIOUS
    <2>3. PICK v \in Shown(w, e.field.target) : c = Child(e, v)
      BY DEF Under
    <2>4. Opens(w, e)
      BY DEF Under
    <2>5. e.path \in Seq(STRING) /\ v.json \in STRING /\ c.path = Append(e.path, v.json)
      <3>1. v \in FieldsOf(w.file, e.field.target) /\ e.field.target \in DOMAIN w.file.fields
        BY <2>3, <2>4, EntryOK DEF Shown, Opens
      <3> QED
        BY <2>3, <3>1 DEF Child, Entries, WalkOK
    <2>6. Len(c.path) = Len(e.path) + 1 /\ Len(e.path) \in Nat
      BY <2>5
    <2>7. Len(e.path) > 0
      <3>1. CASE e \in Under(w, r)
        <4>1. PICK u : e = Child(r, u)
          BY <1>2, <3>1
        <4>2. Len(Child(r, u).path) = 1
          BY <1>3
        <4> HIDE DEF r
        <4> QED
          BY <4>1, <4>2
      <3>2. CASE Len(e.path) > 1
        BY <2>6, <3>2
      <3> QED
        BY <2>2, <3>1, <3>2
    <2> QED
      BY <2>1, <2>6, <2>7
  <1>5. Reach(w, r) \subseteq S
    BY <1>1, <1>4, ReachWithin
  <1>6. PICK e \in Reach(w, r) : n = Node(w, e)
    BY DEF Tree
  <1> HIDE DEF r, S
  <1>7. n.path = e.path /\ e \in S
    BY <1>5, <1>6, NodeIs
  <1>8. ASSUME n.path = <<>> PROVE n = Object(w.file, w.root, <<>>, Shown(w, w.root.target), w.input)
    <2>1. e = r
      <3>1. e \notin Under(w, r)
        BY <1>2, <1>3, <1>7, <1>8
      <3>2. ~(Len(e.path) > 1)
        BY <1>0, <1>7, <1>8
      <3> QED
        BY <1>7, <3>1, <3>2 DEF S
    <2> QED
      BY <1>1, <1>6, <2>1 DEF Node, Opens
  <1>9. ASSUME Len(n.path) = 1 PROVE \E v \in Shown(w, w.root.target) : n = Node(w, Child(r, v)) /\ n.path[1] = v.json
    <2>1. e \in Under(w, r)
      <3>1. e # r
        BY <1>0, <1>1, <1>7, <1>9
      <3>2. Len(e.path) = 1 /\ ~(Len(e.path) > 1)
        BY <1>7, <1>9
      <3> QED
        BY <1>7, <3>1, <3>2, Zenon DEF S
    <2>2. PICK v \in Shown(w, w.root.target) : e = Child(r, v)
      BY <1>2, <2>1
    <2> QED
      BY <1>3, <1>6, <1>7, <2>2
  <1> QED
    BY <1>8, <1>9 DEF r

\* A message below the root says no more than its field.
LEMMA NodeAdmitsLess ==
    ASSUME NEW w, NEW e, NEW value, NodeAdmits(Leaf(e.field, e.path), value),
           e.field.kind \notin {"object", "truncated"}
    PROVE  NodeAdmits(Node(w, e), value)
  <1>1. CASE e.field.kind # "message"
    BY <1>1 DEF Node
  <1>2. CASE e.field.kind = "message"
    <2> DEFINE l == Leaf(e.field, e.path)
               n == Node(w, e)
    <2>1. n.wrapper = l.wrapper /\ n.keywords = {} /\ n.is # "enum"
      <3>1. ValueKeywords(e.field) = {}
        BY <1>2 DEF ValueKeywords, LengthKeywords, Keywords
      <3> QED
        BY <1>2, <3>1, NodeIs DEF Leaf
    <2> HIDE DEF n, l
    <2>2. \A r \in n.wrapper : Matches(value, r)
      BY <2>1 DEF NodeAdmits, l
    <2>3. NodeAdmits(n, value)
      BY <2>1, <2>2 DEF NodeAdmits
    <2> QED
      BY <2>3 DEF n
  <1> QED
    BY <1>1, <1>2

\* At most one visible arm is written, and one of a required oneof unless it is hidden.
OneArm(w, type, o, keys) ==
    LET arms == Members(w.file, type, o) IN
    /\ \A f, g \in arms \cap Shown(w, type) : f.json \in keys /\ g.json \in keys => f = g
    /\ o.required => \/ \E f \in arms \cap Shown(w, type) : f.json \in keys
                     \/ ~w.input /\ \E f \in arms : f \notin Shown(w, type)

\* OneOfs, of one oneof
Branches(w, type, o) ==
    LET arms == Members(w.file, type, o) IN
    [arms |-> {f.json : f \in arms \cap Shown(w, type)}, none |-> NoneBranch(o, arms \cap Shown(w, type), arms, w.input)]

\* The branches of a oneof take what has at most one of its visible arms, and none
\* only if the oneof is optional or a response may hold a hidden one.
LEMMA OneofTakes ==
    ASSUME NEW w, WalkOK(w), NEW type \in DOMAIN w.file.fields, NEW keys, NEW o \in w.file.oneofs[type],
           OneArm(w, type, o, keys)
    PROVE  LET b == Branches(w, type, o) IN
           Cardinality(b.arms \cap keys) + (IF b.none /\ b.arms \cap keys = {} THEN 1 ELSE 0) = 1
  <1> DEFINE all == Members(w.file, type, o)
             some == all \cap Shown(w, type)
             arms == Branches(w, type, o).arms
             none == Branches(w, type, o).none
  <1>0. arms = {f.json : f \in some} /\ none = NoneBranch(o, some, all, w.input)
    BY DEF Branches
  <1> SUFFICES Cardinality(arms \cap keys) + (IF none /\ arms \cap keys = {} THEN 1 ELSE 0) = 1
    OBVIOUS
  <1> HIDE DEF arms, none
  <1>1. CASE arms \cap keys = {}
    <2>1. Cardinality(arms \cap keys) = 0
      BY <1>1, FS_EmptySet
    <2>2. none
      <3>1. CASE ~o.required
        BY <1>0, <3>1 DEF NoneBranch
      <3>2. CASE o.required
        <4>1. ~w.input /\ some # all /\ some \in SUBSET all
          BY <1>0, <1>1, <3>2 DEF OneArm
        <4>2. IsFiniteSet(all)
          <5>1. w.file.fields[type] \in Seq(FieldsOf(w.file, type))
            BY DEF WalkOK
          <5> DEFINE fs == w.file.fields[type]
          <5>2. IsFiniteSet(1..Len(fs)) /\ DOMAIN fs = 1..Len(fs) /\ Len(fs) \in Nat
            BY <5>1, FS_Interval
          <5>3. IsFiniteSet({fs[i] : i \in 1..Len(fs)})
            <6>1. fs \in [1..Len(fs) -> {fs[i] : i \in 1..Len(fs)}]
              BY <5>1, <5>2
            <6>2. fs \in Surjection(1..Len(fs), {fs[i] : i \in 1..Len(fs)})
              BY <6>1 DEF Surjection
            <6> QED
              BY <5>2, <6>2, FS_Surjection
          <5>4. FieldsOf(w.file, type) = {fs[i] : i \in 1..Len(fs)}
            BY <5>2 DEF FieldsOf, WalkOK
          <5>5. all \in SUBSET FieldsOf(w.file, type)
            BY DEF Members
          <5> QED
            BY <5>3, <5>4, <5>5, FS_Subset
        <4>3. Cardinality(some) \in Nat /\ Cardinality(all) \in Nat /\ Cardinality(some) < Cardinality(all)
          BY <4>1, <4>2, FS_Subset, FS_CardinalityType
        <4> QED
          BY <1>0, <4>1, <4>3 DEF NoneBranch
      <3> QED
        BY <3>1, <3>2
    <2> QED
      BY <1>1, <2>1, <2>2
  <1>2. CASE arms \cap keys # {}
    <2>1. PICK j : j \in arms \cap keys
      BY <1>2
    <2>2. arms \cap keys = {j}
      BY <1>0, <2>1 DEF OneArm
    <2>3. Cardinality(arms \cap keys) = 1
      BY <2>2, FS_Singleton
    <2> QED
      BY <1>2, <2>3
  <1> QED
    BY <1>1, <1>2

\* What a schema takes, said of the message and its fields.
LEMMA SchemaTakes ==
    ASSUME NEW w, WalkOK(w), NEW value, NEW keys,
           \A v \in Shown(w, w.root.target) :
               /\ v.kind \notin {"object", "truncated"}
               /\ IsRequired(v) => v.json \in keys
               /\ v.json \in keys => \A path : NodeAdmits(Leaf(v, path), value[v.json]),
           \A o \in w.file.oneofs[w.root.target] : OneArm(w, w.root.target, o, keys)
    PROVE  Admits(Walk(w.file, w.root, w.input, w.depth), value, keys)
  <1> DEFINE type == w.root.target
             schema == Walk(w.file, w.root, w.input, w.depth)
             vs == Shown(w, type)
             top == Object(w.file, w.root, <<>>, vs, w.input)
  <1>1. schema = Tree(w, Start(w.file, w.root))
    BY WalkIs
  <1>2. top.required = {v.json : v \in {x \in vs : IsRequired(x)}} /\ top.oneofs = OneOfs(w.file, type, vs, w.input)
    BY DEF Object, Leaf
  <1>3. ASSUME NEW n \in schema, n.path = <<>>
        PROVE  /\ n.required \subseteq keys
               /\ \A o \in n.oneofs : Cardinality(o.arms \cap keys) + (IF o.none /\ o.arms \cap keys = {} THEN 1 ELSE 0) = 1
    <2>1. n = top
      BY <1>1, <1>3, TreeTop
    <2>2. n.required \subseteq keys
      BY <1>2, <2>1
    <2>3. ASSUME NEW b \in OneOfs(w.file, type, vs, w.input)
          PROVE  Cardinality(b.arms \cap keys) + (IF b.none /\ b.arms \cap keys = {} THEN 1 ELSE 0) = 1
      <3>1. PICK o \in w.file.oneofs[type] : b = Branches(w, type, o)
        BY <2>3 DEF OneOfs, Branches
      <3>2. type \in DOMAIN w.file.fields /\ OneArm(w, type, o, keys)
        BY <3>1 DEF WalkOK
      <3> HIDE DEF type
      <3> QED
        BY <3>1, <3>2, OneofTakes
    <2> QED
      BY <1>2, <2>1, <2>2, <2>3
  <1>4. ASSUME NEW n \in schema, Len(n.path) = 1, n.path[1] \in keys PROVE NodeAdmits(n, value[n.path[1]])
    <2>1. PICK v \in vs : n = Node(w, Child(Start(w.file, w.root), v)) /\ n.path[1] = v.json
      BY <1>1, <1>4, TreeTop
    <2> DEFINE c == Child(Start(w.file, w.root), v)
    <2>2. c.field = v
      BY DEF Child
    <2>3. NodeAdmits(Leaf(c.field, c.path), value[v.json]) /\ c.field.kind \notin {"object", "truncated"}
      BY <1>4, <2>1, <2>2
    <2> HIDE DEF c
    <2>4. NodeAdmits(Node(w, c), value[v.json])
      BY <2>3, NodeAdmitsLess
    <2> QED
      BY <2>1, <2>4 DEF c
  <1> HIDE DEF schema
  <1>5. Admits(schema, value, keys)
    BY <1>3, <1>4 DEF Admits
  <1> QED
    BY <1>5 DEF schema
------------------------------------------------------------------------------
(* The objects of a call: what is not written down has its zero value, and *)
(* of a oneof one arm at most is.                                          *)

Chosen(keys, f) == IF f.json \in keys THEN Samples(f) ELSE {ZeroOf(f)}
Further(v, f, s) == [j \in DOMAIN v \cup {f.json} |-> IF j = f.json THEN s ELSE v[j]]

LEMMA ValuesAre ==
    ASSUME NEW file, NEW type, file.fields[type] \in Seq(FieldsOf(file, type)), type # Nowhere, NEW keys,
           \A f, g \in FieldsOf(file, type) : f.json = g.json => f = g,
           NEW value \in Values(file, type, keys), NEW f \in FieldsOf(file, type)
    PROVE  value[f.json] \in Chosen(keys, f)
  <1> DEFINE fields == file.fields[type]
             n == Len(fields)
             Next1(vs, i) == UNION {{Further(v, fields[i], s) : s \in Chosen(keys, fields[i])} : v \in vs}
             Runs(u, m) == u = [i \in 0..m |-> IF i = 0 THEN {<<>>} ELSE Next1(u[i - 1], i)]
             upTo == CHOOSE u : Runs(u, n)
  <1>1. Values(file, type, keys) = upTo[n]
    BY Zenon DEF Values, Further, Chosen
  <1>2. n \in Nat /\ DOMAIN fields = 1..n /\ \A i \in 1..n : fields[i] \in FieldsOf(file, type)
    OBVIOUS
  <1>3. PICK k \in 1..n : fields[k] = f
    BY <1>2 DEF FieldsOf
  <1> HIDE DEF fields, Next1, n
  <1>4. \E u : Runs(u, n)
    <2> DEFINE S == {m \in Nat : \E u : Runs(u, m)}
    <2>1. 0 \in S
      <3> DEFINE u == [i \in 0..0 |-> {<<>>}]
      <3>1. Runs(u, 0)
        OBVIOUS
      <3> QED
        BY <3>1
    <2>2. ASSUME NEW m \in Nat, m \in S PROVE m + 1 \in S
      <3>1. PICK u : Runs(u, m)
        BY <2>2
      <3>2. \A i \in 0..m : u[i] = IF i = 0 THEN {<<>>} ELSE Next1(u[i - 1], i)
        BY <3>1
      <3> HIDE DEF Runs
      <3> DEFINE w == [i \in 0..(m + 1) |-> IF i <= m THEN u[i] ELSE Next1(u[m], m + 1)]
      <3>3. ASSUME NEW i \in 0..(m + 1) PROVE w[i] = IF i = 0 THEN {<<>>} ELSE Next1(w[i - 1], i)
        <4>1. CASE i = 0
          BY <3>2, <4>1
        <4>2. CASE i # 0 /\ i <= m
          <5>1. i - 1 \in 0..m /\ i - 1 \in 0..(m + 1) /\ i - 1 <= m /\ i \in 0..m
            BY <4>2
          <5>2. w[i] = u[i] /\ w[i - 1] = u[i - 1]
            BY <4>2, <5>1
          <5> HIDE DEF w
          <5> QED
            BY <3>2, <4>2, <5>1, <5>2
        <4>3. CASE i = m + 1
          <5>1. i - 1 = m /\ m \in 0..(m + 1) /\ m <= m /\ ~(i <= m) /\ i # 0
            BY <4>3
          <5>2. w[i] = Next1(u[m], m + 1) /\ w[m] = u[m]
            BY <4>3, <5>1
          <5> HIDE DEF w
          <5> QED
            BY <4>3, <5>1, <5>2
        <4> QED
          BY <4>1, <4>2, <4>3
      <3>4. w = [i \in 0..(m + 1) |-> w[i]]
        OBVIOUS
      <3> HIDE DEF w
      <3>5. Runs(w, m + 1)
        BY <3>3, <3>4 DEF Runs
      <3> QED
        BY <3>5
    <2> HIDE DEF S
    <2>3. n \in S
      BY <1>2, <2>1, <2>2, SetInduction
    <2> QED
      BY <2>3 DEF S
  <1>5. Runs(upTo, n)
    BY <1>4
  <1> HIDE DEF upTo
  <1>6. \A i \in 0..n : upTo[i] = IF i = 0 THEN {<<>>} ELSE Next1(upTo[i - 1], i)
    BY <1>5
  <1> HIDE DEF Runs
  <1> DEFINE Good(v, i) == fields[i].json \in DOMAIN v /\ v[fields[i].json] \in Chosen(keys, fields[i])
             S == {m \in Nat : m <= n => \A v \in upTo[m] : \A i \in 1..m : Good(v, i)}
  <1>7. 0 \in S
    OBVIOUS
  <1>8. ASSUME NEW m \in Nat, m \in S PROVE m + 1 \in S
    <2> SUFFICES ASSUME m + 1 <= n, NEW v \in upTo[m + 1], NEW i \in 1..(m + 1) PROVE Good(v, i)
      OBVIOUS
    <2>1. m + 1 \in 0..n /\ m + 1 # 0 /\ (m + 1) - 1 = m /\ m + 1 \in 1..n /\ i \in 1..n /\ m <= n
      BY <1>2
    <2> HIDE DEF S
    <2>2. upTo[m + 1] = Next1(upTo[m], m + 1)
      BY <1>6, <2>1
    <2>3. PICK u \in upTo[m], s \in Chosen(keys, fields[m + 1]) : v = Further(u, fields[m + 1], s)
      BY <2>2 DEF Next1
    <2>4. CASE fields[i].json = fields[m + 1].json
      <3>1. fields[i] = fields[m + 1]
        BY <1>2, <2>1, <2>4
      <3> QED
        BY <2>3, <3>1 DEF Further
    <2>5. CASE fields[i].json # fields[m + 1].json
      <3>1. i \in 1..m
        BY <2>1, <2>5
      <3>2. Good(u, i)
        BY <1>8, <2>1, <2>3, <3>1 DEF S
      <3> QED
        BY <2>3, <2>5, <3>2 DEF Further
    <2> QED
      BY <2>4, <2>5
  <1> HIDE DEF S
  <1>9. n \in S
    BY <1>2, <1>7, <1>8, SetInduction
  <1>10. value \in upTo[n]
    BY <1>1
  <1>11. Good(value, k)
    BY <1>2, <1>3, <1>9, <1>10 DEF S
  <1> QED
    BY <1>3, <1>11

LEMMA FieldsFinite ==
    ASSUME NEW file, NEW type, type # Nowhere, file.fields[type] \in Seq(FieldsOf(file, type))
    PROVE  IsFiniteSet(FieldsOf(file, type))
  <1> DEFINE fs == file.fields[type]
  <1>0. DOMAIN fs = 1..Len(fs) /\ Len(fs) \in Nat
    OBVIOUS
  <1>1. IsFiniteSet(1..Len(fs)) /\ DOMAIN fs = 1..Len(fs) /\ Len(fs) \in Nat
    BY <1>0, FS_Interval
  <1>2. FieldsOf(file, type) = {fs[i] : i \in 1..Len(fs)}
    BY <1>1 DEF FieldsOf
  <1>3. fs \in [1..Len(fs) -> {fs[i] : i \in 1..Len(fs)}]
    BY <1>1
  <1>4. fs \in Surjection(1..Len(fs), {fs[i] : i \in 1..Len(fs)})
    BY <1>3 DEF Surjection
  <1> QED
    BY <1>1, <1>2, <1>4, FS_Surjection

\* Of a set with at most one element, two are the same.
LEMMA AtMostOne ==
    ASSUME NEW S, IsFiniteSet(S), Cardinality(S) <= 1, NEW x \in S, NEW y \in S
    PROVE  x = y
  <1>1. Cardinality(S) \in Nat /\ Cardinality(S) # 0
    BY FS_CardinalityType, FS_EmptySet
  <1>2. Cardinality(S) = 1
    BY <1>1
  <1> QED
    BY <1>2, FS_Singleton

TypedObject(file, type, object) ==
    /\ \A o \in file.oneofs[type] : \A f, g \in Members(file, type, o) :
           f.json \in object.keys /\ g.json \in object.keys => f = g
    /\ \A f \in FieldsOf(file, type) :
           /\ f.json \notin object.keys => object.value[f.json] = ZeroOf(f)
           /\ f.json \in object.keys \/ ~f.presence => Typed(f, object.value[f.json])

\* What ContractOK says of a message.
MessageOK(file, t) ==
    /\ t # Nowhere /\ file.fields[t] \in Seq(FieldsOf(file, t))
    /\ \A o \in file.oneofs[t] : \A f \in Members(file, t, o) : f.presence
    /\ \A f \in FieldsOf(file, t) :
        /\ FieldOK(f) /\ \A v \in Samples(f) : Typed(f, v)
        /\ ~f.presence => Typed(f, ZeroOf(f))
        /\ \A g \in FieldsOf(file, t) : f.json = g.json => f = g

LEMMA ObjectsTyped ==
    ASSUME NEW file, NEW type, MessageOK(file, type), NEW object \in Objects(file, type)
    PROVE  TypedObject(file, type, object)
  <1>1. PICK keys \in SUBSET JSONNames(FieldsOf(file, type)) :
            /\ \A o \in file.oneofs[type] : Cardinality(JSONNames(Members(file, type, o)) \cap keys) <= 1
            /\ object \in [keys : {keys}, value : Values(file, type, keys)]
    BY DEF Objects
  <1>2. object.keys = keys /\ object.value \in Values(file, type, keys)
    BY <1>1
  <1>3. \A f \in FieldsOf(file, type) : object.value[f.json] \in Chosen(keys, f)
    BY <1>2, ValuesAre DEF MessageOK
  <1>4. ASSUME NEW o \in file.oneofs[type], NEW f \in Members(file, type, o), NEW g \in Members(file, type, o),
               f.json \in keys, g.json \in keys
        PROVE  f = g
    <2> DEFINE fs == FieldsOf(file, type)
               names == {h.json : h \in fs}
               nameOf == [h \in fs |-> h.json]
    <2>1. IsFiniteSet(fs) /\ nameOf \in Surjection(fs, names)
      BY FieldsFinite DEF MessageOK, Surjection
    <2>2. IsFiniteSet(names)
      BY <2>1, FS_Surjection
    <2>3. JSONNames(Members(file, type, o)) \cap keys \in SUBSET names
      BY DEF JSONNames, Members
    <2>4. f.json \in JSONNames(Members(file, type, o)) \cap keys /\ g.json \in JSONNames(Members(file, type, o)) \cap keys
      BY <1>4 DEF JSONNames
    <2>5. IsFiniteSet(JSONNames(Members(file, type, o)) \cap keys)
      BY <2>2, <2>3, FS_Subset
    <2>6. f.json = g.json
      BY <1>1, <2>4, <2>5, AtMostOne
    <2> QED
      BY <2>6 DEF Members, MessageOK
  <1>5. ASSUME NEW f \in FieldsOf(file, type)
        PROVE  /\ f.json \notin keys => object.value[f.json] = ZeroOf(f)
               /\ f.json \in keys \/ ~f.presence => Typed(f, object.value[f.json])
    BY <1>3 DEF Chosen, MessageOK
  <1> QED
    BY <1>2, <1>4, <1>5 DEF TypedObject

\* Clearing keeps an object that.
LEMMA WithoutTyped ==
    ASSUME NEW file, NEW type, MessageOK(file, type), NEW object, TypedObject(file, type, object),
           NEW hidden \in SUBSET FieldsOf(file, type)
    PROVE  TypedObject(file, type, Without(object, FieldsOf(file, type), hidden))
  <1> DEFINE fields == FieldsOf(file, type)
             kept == Without(object, fields, hidden)
  <1>1. kept.keys = object.keys \ JSONNames(hidden)
    BY DEF Without
  <1>2. ASSUME NEW f \in fields
        PROVE  /\ kept.value[f.json] = IF f \in hidden THEN ZeroOf(f) ELSE object.value[f.json]
               /\ f.json \in JSONNames(hidden) <=> f \in hidden
    <2>1. f.json \in JSONNames(fields) /\ \A g \in fields : g.json = f.json => g = f
      BY DEF JSONNames, MessageOK
    <2>2. (CHOOSE g \in fields : g.json = f.json) = f
      BY <2>1
    <2>3. f.json \in JSONNames(hidden) <=> f \in hidden
      BY <2>1 DEF JSONNames
    <2> QED
      BY <2>1, <2>2, <2>3 DEF Without
  <1> HIDE DEF kept
  <1>3. ASSUME NEW o \in file.oneofs[type], NEW f \in Members(file, type, o), NEW g \in Members(file, type, o),
               f.json \in kept.keys, g.json \in kept.keys
        PROVE  f = g
    BY <1>1, <1>3 DEF TypedObject
  <1>4. ASSUME NEW f \in fields
        PROVE  /\ f.json \notin kept.keys => kept.value[f.json] = ZeroOf(f)
               /\ f.json \in kept.keys \/ ~f.presence => Typed(f, kept.value[f.json])
    <2>1. /\ f.json \notin object.keys => object.value[f.json] = ZeroOf(f)
          /\ f.json \in object.keys \/ ~f.presence => Typed(f, object.value[f.json])
      BY DEF TypedObject
    <2>2. ~f.presence => Typed(f, ZeroOf(f))
      BY DEF MessageOK
    <2> QED
      BY <1>1, <1>2, <2>1, <2>2
  <1>5. TypedObject(file, type, kept)
    BY <1>3, <1>4 DEF TypedObject
  <1> QED
    BY <1>5 DEF kept
------------------------------------------------------------------------------
(* The schemas of an accepted run, over a whole call. *)

WalkFrom(file, type, input) ==
    [file |-> file, root |-> Root(type), input |-> input, depth |-> MaxRecursionDepth]

LEMMA Descriptors ==
    ASSUME NEW r \in Requests, NEW i \in RPCs, NEW type \in {r[i].file.input, r[i].file.output}, NEW input
    PROVE  MessageOK(r[i].file, type) /\ WalkOK(WalkFrom(r[i].file, type, input))
  <1> DEFINE file == r[i].file
             w == WalkFrom(file, type, input)
  <1>1. /\ type \in DOMAIN file.fields /\ IsFiniteSet(DOMAIN file.fields) /\ Nowhere \notin DOMAIN file.fields
        /\ \A t \in DOMAIN file.fields :
            /\ file.fields[t] \in Seq(FieldsOf(file, t))
            /\ \A o \in file.oneofs[t] : \A f \in Members(file, t, o) : f.presence
            /\ \A f \in FieldsOf(file, t) :
                /\ FieldOK(f) /\ f.json \in STRING /\ (f.kind = "message" => f.target \in DOMAIN file.fields)
                /\ \A v \in Samples(f) : Typed(f, v)
                /\ ~f.presence => Typed(f, ZeroOf(f))
                /\ \A g \in FieldsOf(file, t) : f.json = g.json => f = g
    BY ContractOK
  <1>2. /\ w.file = file /\ w.depth = MaxRecursionDepth
        /\ w.root.kind = "message" /\ w.root.target = type
    BY DEF WalkFrom, Root
  <1> HIDE DEF w, file
  <1>3. MessageOK(file, type)
    BY <1>1 DEF MessageOK
  <1>4. WalkOK(w)
    BY <1>1, <1>2, GeneratorOK DEF WalkOK
  <1> QED
    BY <1>3, <1>4 DEF file, w

\* Of an object that its own rules let through, and its keys that are written.
LEMMA Takes ==
    ASSUME NEW file, NEW type, NEW input, MessageOK(file, type), WalkOK(WalkFrom(file, type, input)),
           NEW object, TypedObject(file, type, object), Accepts(file, type, object), NEW keys,
           \A f \in FieldsOf(file, type) :
               Visible(f, input) =>
                   /\ IsRequired(f) => f.json \in keys
                   /\ f.json \in keys => Faithful(f, object) /\ (f.presence => IsSet(f, object)),
           \A o \in file.oneofs[type] : OneArm(WalkFrom(file, type, input), type, o, keys)
    PROVE  Admits(Walk(file, Root(type), input, MaxRecursionDepth), object.value, keys)
  <1> DEFINE w == WalkFrom(file, type, input)
  <1>1. /\ w.file = file /\ w.root = Root(type) /\ w.input = input /\ w.depth = MaxRecursionDepth
        /\ w.root.target = type
    BY DEF WalkFrom, Root
  <1> HIDE DEF w
  <1>2. ASSUME NEW f \in Shown(w, type)
        PROVE  /\ f.kind \notin {"object", "truncated"}
               /\ IsRequired(f) => f.json \in keys
               /\ f.json \in keys => \A path : NodeAdmits(Leaf(f, path), object.value[f.json])
    <2>1. f \in FieldsOf(file, type) /\ Visible(f, input) /\ FieldOK(f)
      BY <1>1 DEF Shown, MessageOK
    <2>2. f.kind \notin {"object", "truncated"}
      BY <2>1 DEF FieldOK, Numeric, Narrow, Wide
    <2>3. ASSUME f.json \in keys, NEW path PROVE NodeAdmits(Leaf(f, path), object.value[f.json])
      <3>1. FieldAccepts(f, object) /\ Faithful(f, object) /\ (f.presence => IsSet(f, object))
        BY <2>1, <2>3 DEF Accepts
      <3>2. Typed(f, object.value[f.json])
        BY <2>1, <3>1 DEF TypedObject, IsSet
      <3> QED
        BY <2>1, <3>1, <3>2, FieldAdmits DEF Typed
    <2> QED
      BY <2>1, <2>2, <2>3
  <1>3. WalkOK(w) /\ \A o \in w.file.oneofs[w.root.target] : OneArm(w, w.root.target, o, keys)
    BY <1>1 DEF w
  <1>4. Admits(Walk(w.file, w.root, w.input, w.depth), object.value, keys)
    BY <1>1, <1>2, <1>3, SchemaTakes
  <1> QED
    BY <1>1, <1>4

\* A call's object is one of its message's.
ObjectInv ==
    exchange.is # "none" =>
        /\ exchange.rpc \in RPCs
        /\ TypedObject(File, IF exchange.is = "answered" THEN File.output ELSE File.input, exchange.object)

LEMMA ObjectStep == BuiltInv /\ ObjectInv /\ [ContractNext]_contractVars => ObjectInv'
  <1> SUFFICES ASSUME BuiltInv, ObjectInv, [ContractNext]_contractVars PROVE ObjectInv'
    OBVIOUS
  <1>0. request' = request
    BY DEF ContractNext, contractVars, vars, passVars, Next, Reject, Skip, Emit, CloseService, Accept, Call
  <1>1. CASE UNCHANGED exchange
    BY <1>0, <1>1 DEF ObjectInv, File
  <1>2. ASSUME NEW i \in RPCs, Invoke(i) PROVE ObjectInv'
    <2>1. PICK object \in Objects(request[i].file, request[i].file.input) :
              exchange' = [is |-> "asked", rpc |-> i, object |-> object]
      BY <1>2 DEF Invoke
    <2>2. exchange'.is = "asked" /\ exchange'.rpc = i /\ exchange'.object = object
      BY <2>1
    <2>3. File' = request[i].file
      BY <1>0, <2>2 DEF File
    <2>4. MessageOK(request[i].file, request[i].file.input)
      BY Descriptors DEF BuiltInv
    <2>5. TypedObject(request[i].file, request[i].file.input, object)
      BY <2>1, <2>4, ObjectsTyped
    <2> QED
      BY <2>2, <2>3, <2>5 DEF ObjectInv
  <1>3. CASE Forward
    <2> DEFINE fields == FieldsOf(File, File.input)
               hidden == {f \in fields : ~Visible(f, TRUE)}
               kept == Without(exchange.object, fields, hidden)
    <2>1. exchange.is = "asked" /\ exchange' = [is |-> "forwarded", rpc |-> exchange.rpc, object |-> kept]
      BY <1>3 DEF Forward
    <2>2. exchange.rpc \in RPCs /\ TypedObject(File, File.input, exchange.object)
      BY <2>1 DEF ObjectInv
    <2>3. MessageOK(File, File.input)
      BY <2>2, Descriptors DEF BuiltInv, File
    <2>4. TypedObject(File, File.input, kept)
      BY <2>2, <2>3, WithoutTyped
    <2>5. exchange'.is = "forwarded" /\ exchange'.rpc = exchange.rpc /\ exchange'.object = kept
      BY <2>1
    <2>6. File' = File
      BY <1>0, <2>5 DEF File
    <2> HIDE DEF kept
    <2> QED
      BY <2>2, <2>4, <2>5, <2>6 DEF ObjectInv
  <1>4. CASE Reply
    <2>1. PICK object \in Objects(File, File.output) :
              exchange' = [is |-> "answered", rpc |-> exchange.rpc, object |-> object]
      BY <1>4 DEF Reply
    <2>2. exchange.rpc \in RPCs
      BY <1>4 DEF Reply, ObjectInv
    <2>3. exchange'.is = "answered" /\ exchange'.rpc = exchange.rpc /\ exchange'.object = object
      BY <2>1
    <2>4. File' = File
      BY <1>0, <2>3 DEF File
    <2>5. TypedObject(File, File.output, object)
      BY <2>1, <2>2, Descriptors, ObjectsTyped DEF BuiltInv, File
    <2> QED
      BY <2>2, <2>3, <2>4, <2>5 DEF ObjectInv
  <1> QED
    BY <1>1, <1>2, <1>3, <1>4 DEF ContractNext, contractVars

CallInv == BuiltInv /\ ExchangeInv /\ ObjectInv

LEMMA CallInvariant == ContractSpec => []CallInv
  <1>1. ContractInit => CallInv
    BY BuiltInit DEF ContractInit, NoCall, ObjectInv, CallInv
  <1>2. CallInv /\ [ContractNext]_contractVars => CallInv'
    BY ExchangeStep, ObjectStep DEF CallInv
  <1> QED
    BY <1>1, <1>2, PTL DEF ContractSpec

\* The input schema of an accepted tool turns no good request away, whatever its
\* messages, rules, oneofs and recursion.
THEOREM InputAdmits == ContractSpec => []AdmitsWhatUpstreamTakes
  <1>1. CallInv => AdmitsWhatUpstreamTakes
    <2> DEFINE object == exchange.object
               type == File.input
               fs == {f \in FieldsOf(File, File.input) : Visible(f, TRUE)}
               w == WalkFrom(File, type, TRUE)
    <2> SUFFICES ASSUME CallInv, exchange.is = "forwarded", Accepts(File, File.input, object),
                        \A f \in fs : Promised(f, object) /\ (f.json \in object.keys => Faithful(f, object))
                 PROVE  Admits(ForInput(File, MaxRecursionDepth), object.value, object.keys)
      BY DEF AdmitsWhatUpstreamTakes
    <2>1. /\ MessageOK(File, type) /\ WalkOK(w) /\ TypedObject(File, type, object)
          /\ \A f \in FieldsOf(File, type) : ~Visible(f, TRUE) => f.json \notin object.keys
      BY Descriptors DEF CallInv, ObjectInv, ExchangeInv, BuiltInv, File
    <2>2. ASSUME NEW f \in FieldsOf(File, type), Visible(f, TRUE)
          PROVE  /\ IsRequired(f) => f.json \in object.keys
                 /\ f.json \in object.keys => Faithful(f, object) /\ (f.presence => IsSet(f, object))
      <3>1. f \in fs /\ FieldAccepts(f, object)
        BY <2>2 DEF Accepts
      <3>2. Promised(f, object) /\ (f.json \in object.keys => Faithful(f, object))
        BY <3>1
      <3>3. ASSUME IsRequired(f) PROVE f.json \in object.keys
        <4>1. CASE {"schema_required", "behavior_required"} \cap f.marks # {}
          BY <3>2, <4>1 DEF Promised
        <4>2. CASE "rule_required" \in f.marks /\ f.ignore # "always" /\ (f.ignore = "zero" => f.presence)
          <5>1. IsSet(f, object)
            BY <3>1, <4>2 DEF FieldAccepts
          <5> QED
            BY <2>1, <5>1 DEF IsSet, TypedObject
        <4> QED
          BY <3>3, <4>1, <4>2 DEF IsRequired
      <3> QED
        BY <3>2, <3>3 DEF IsSet
    <2>3. ASSUME NEW o \in File.oneofs[type] PROVE OneArm(w, type, o, object.keys)
      <3>1. w.file = File /\ w.input = TRUE
        BY DEF WalkFrom
      <3>2. \A f, g \in Members(File, type, o) : f.json \in object.keys /\ g.json \in object.keys => f = g
        BY <2>1 DEF TypedObject
      <3>3. ASSUME o.required
            PROVE  \E f \in Members(File, type, o) \cap Shown(w, type) : f.json \in object.keys
        <4>1. PICK f \in Members(File, type, o) : f.json \in object.keys
          BY <3>3 DEF Accepts, OneofAccepts, JSONNames
        <4>2. f \in FieldsOf(File, type) /\ Visible(f, TRUE)
          BY <2>1, <4>1 DEF Members
        <4>3. f \in Shown(w, type)
          BY <3>1, <4>2 DEF Shown
        <4> QED
          BY <4>1, <4>3
      <3> HIDE DEF w
      <3> QED
        BY <3>1, <3>2, <3>3 DEF OneArm
    <2> HIDE DEF object, w
    <2>4. Admits(Walk(File, Root(type), TRUE, MaxRecursionDepth), object.value, object.keys)
      BY <2>1, <2>2, <2>3, Takes DEF w, object
    <2> QED
      BY <2>4 DEF ForInput
  <1> QED
    BY <1>1, CallInvariant, PTL

\* The output schema admits every reply that its rules let through, once it is masked
\* and written as JSON.
THEOREM OutputAdmits == ContractSpec => []OutputFits
  <1>1. CallInv => OutputFits
    <2> DEFINE object == exchange.object
               type == File.output
               fs == {f \in FieldsOf(File, File.output) : Visible(f, FALSE)}
               keys == ShownKeys(object)
               w == WalkFrom(File, type, FALSE)
    <2> SUFFICES ASSUME CallInv, exchange.is = "answered", Accepts(File, File.output, object),
                        \A f \in fs : (IsRequired(f) => f.json \in keys) /\ (f.json \in keys => Faithful(f, object))
                 PROVE  Admits(ForOutput(File, MaxRecursionDepth), object.value, keys)
      BY DEF OutputFits
    <2>1. MessageOK(File, type) /\ WalkOK(w) /\ TypedObject(File, type, object)
      BY Descriptors DEF CallInv, ObjectInv, BuiltInv, File
    <2>2. ASSUME NEW f \in FieldsOf(File, type)
          PROVE  f.json \in keys <=> Visible(f, FALSE) /\ (f.presence => IsSet(f, object))
      BY <2>1, <2>2 DEF ShownKeys, MessageOK
    <2> HIDE DEF keys
    <2>3. ASSUME NEW f \in FieldsOf(File, type), Visible(f, FALSE)
          PROVE  /\ IsRequired(f) => f.json \in keys
                 /\ f.json \in keys => Faithful(f, object) /\ (f.presence => IsSet(f, object))
      <3>1. f \in fs
        BY <2>3
      <3> QED
        BY <2>2, <3>1
    <2>4. ASSUME NEW o \in File.oneofs[type] PROVE OneArm(w, type, o, keys)
      <3>1. w.file = File /\ w.input = FALSE
        BY DEF WalkFrom
      <3>2. \A f \in Members(File, type, o) : f \in FieldsOf(File, type) /\ f.presence
        BY <2>1 DEF Members, MessageOK
      <3>3. \A f \in Members(File, type, o) : f.json \in keys <=> f \in Shown(w, type) /\ f.json \in object.keys
        BY <2>2, <3>1, <3>2 DEF Shown, IsSet
      <3>4. \A f, g \in Members(File, type, o) : f.json \in keys /\ g.json \in keys => f = g
        BY <2>1, <3>3 DEF TypedObject
      <3>5. ASSUME o.required PROVE \E f \in Members(File, type, o) : f.json \in object.keys
        BY <3>5 DEF Accepts, OneofAccepts, JSONNames
      <3> HIDE DEF w
      <3> QED
        BY <3>1, <3>3, <3>4, <3>5 DEF OneArm
    <2> HIDE DEF object, w
    <2>5. Admits(Walk(File, Root(type), FALSE, MaxRecursionDepth), object.value, keys)
      BY <2>1, <2>3, <2>4, Takes DEF w, object
    <2> QED
      BY <2>5 DEF ForOutput
  <1> QED
    BY <1>1, CallInvariant, PTL
------------------------------------------------------------------------------
(* How often a message is entered around a place. *)

\* What is strictly before a sequence with one element more.
LEMMA StrictlyBefore ==
    ASSUME NEW T, NEW s \in Seq(T), NEW p \in Seq(T), NEW x \in T
    PROVE  /\ IsStrictPrefix(s, Append(p, x)) <=> s = p \/ IsStrictPrefix(s, p)
           /\ ~IsStrictPrefix(p, p)
  <1> DEFINE q == Append(p, x)
  <1>1. /\ q \in Seq(T) /\ Len(q) = Len(p) + 1 /\ Len(p) \in Nat /\ Len(s) \in Nat
        /\ \A i \in 1..Len(p) : q[i] = p[i]
    OBVIOUS
  <1>2. \A u \in Seq(T) : Len(s) <= Len(u) => (IsPrefix(s, u) <=> \A i \in 1..Len(s) : s[i] = u[i])
    <2> SUFFICES ASSUME NEW u \in Seq(T), Len(s) <= Len(u)
                 PROVE  IsPrefix(s, u) <=> \A i \in 1..Len(s) : s[i] = u[i]
      OBVIOUS
    <2> DEFINE a == SubSeq(s, 1, Len(s))
               b == SubSeq(u, 1, Len(s))
    <2>1. /\ a \in Seq(T) /\ Len(a) = Len(s) /\ \A i \in 1..Len(s) : a[i] = s[i]
      BY <1>1
    <2>2. /\ b \in Seq(T) /\ Len(b) = Len(s) /\ \A i \in 1..Len(s) : b[i] = u[i]
      BY <1>1
    <2>3. IsPrefix(s, u) <=> a = b
      BY DEF IsPrefix
    <2> HIDE DEF a, b
    <2>4. a = b <=> \A i \in 1..Len(s) : a[i] = b[i]
      BY <2>1, <2>2, SeqEqual
    <2> QED
      BY <2>1, <2>2, <2>3, <2>4
  <1>3. \A u : IsPrefix(s, u) => Len(s) <= Len(u)
    BY DEF IsPrefix
  <1>4. IsPrefix(s, q) <=> s = q \/ IsPrefix(s, p)
    <2>1. CASE Len(s) <= Len(p)
      <3>1. Len(s) <= Len(q) /\ s # q
        BY <1>1, <2>1
      <3>2. \A i \in 1..Len(s) : q[i] = p[i]
        BY <1>1, <2>1
      <3> HIDE DEF q
      <3>3. IsPrefix(s, q) <=> \A i \in 1..Len(s) : s[i] = q[i]
        BY <1>1, <1>2, <3>1
      <3>4. IsPrefix(s, p) <=> \A i \in 1..Len(s) : s[i] = p[i]
        BY <1>2, <2>1
      <3> QED
        BY <3>1, <3>2, <3>3, <3>4
    <2>2. CASE Len(s) > Len(p)
      <3>1. ~IsPrefix(s, p)
        BY <1>1, <1>3, <2>2
      <3>2. CASE Len(s) = Len(q)
        <4>1. IsPrefix(s, q) <=> \A i \in 1..Len(s) : s[i] = q[i]
          <5> HIDE DEF q
          <5> QED
            BY <1>1, <1>2, <3>2
        <4>2. s = q <=> \A i \in 1..Len(s) : s[i] = q[i]
          <5> HIDE DEF q
          <5> QED
            BY <1>1, <3>2, SeqEqual
        <4> QED
          BY <3>1, <4>1, <4>2
      <3>3. CASE Len(s) # Len(q)
        <4>1. ~(Len(s) <= Len(q)) /\ s # q
          BY <1>1, <2>2, <3>3
        <4> QED
          BY <1>3, <3>1, <4>1
      <3> QED
        BY <3>2, <3>3
    <2> QED
      BY <1>1, <2>1, <2>2
  <1>5. p # q /\ IsPrefix(p, p)
    BY <1>1 DEF IsPrefix
  <1>7. IsPrefix(s, p) => s # q
    BY <1>1, <1>3
  <1> HIDE DEF q
  <1>8. IsStrictPrefix(s, q) <=> s = p \/ IsStrictPrefix(s, p)
    BY <1>4, <1>5, <1>7 DEF IsStrictPrefix
  <1> QED
    BY <1>8 DEF IsStrictPrefix, q

LEMMA NothingBefore ==
    ASSUME NEW T, NEW s \in Seq(T)
    PROVE  ~IsStrictPrefix(s, <<>>)
  <1>1. Len(s) \in Nat /\ Len(<<>>) = 0 /\ (Len(s) = 0 => s = <<>>)
    OBVIOUS
  <1>2. IsPrefix(s, <<>>) => Len(s) <= 0
    BY <1>1 DEF IsPrefix
  <1> QED
    BY <1>1, <1>2 DEF IsStrictPrefix

\* Two longer paths that are the same are the same path and the same name.
Paths(z, x, u, v) == z.path \in Seq(STRING) /\ x.path \in Seq(STRING) /\ u.json \in STRING /\ v.json \in STRING
LEMMA PathsSplit ==
    ASSUME NEW z, NEW x, NEW u, NEW v, Paths(z, x, u, v)
    PROVE  Append(z.path, u.json) = Append(x.path, v.json) => z.path = x.path /\ u.json = v.json
  <1> DEFINE p == z.path
             q == x.path
             s == Append(p, u.json)
             t == Append(q, v.json)
  <1>1. p \in Seq(STRING) /\ q \in Seq(STRING) /\ u.json \in STRING /\ v.json \in STRING
    BY DEF Paths
  <1> HIDE DEF p, q
  <1>2. /\ Len(p) \in Nat /\ Len(s) = Len(p) + 1 /\ s[Len(p) + 1] = u.json /\ \A i \in 1..Len(p) : s[i] = p[i]
        /\ Len(q) \in Nat /\ Len(t) = Len(q) + 1 /\ t[Len(q) + 1] = v.json /\ \A i \in 1..Len(q) : t[i] = q[i]
    BY <1>1
  <1> HIDE DEF s, t
  <1>3. s = t => p = q /\ u.json = v.json
    BY <1>1, <1>2, SeqEqual
  <1> QED
    BY <1>3 DEF p, q, s, t

\* An entry is the root's, or one below another.
LEMMA HasParent ==
    ASSUME NEW w, WalkOK(w), NEW r \in Entries(w), NEW c \in Reach(w, r), c # r
    PROVE  \E e \in Reach(w, r) : c \in Under(w, e)
  <1> DEFINE R == Reach(w, r)
             S == {d \in R : d = r \/ \E e \in R : d \in Under(w, e)}
  <1>1. r \in R /\ R \subseteq Entries(w) /\ Closed(w, R)
    BY ReachClosed
  <1> HIDE DEF R
  <1>2. Closed(w, S)
    BY <1>1 DEF Closed
  <1>3. S \in SUBSET Entries(w) /\ r \in S
    BY <1>1
  <1>4. R \subseteq S
    BY <1>2, <1>3, ReachWithin DEF R
  <1> QED
    BY <1>4 DEF R

\* What a child is.
LEMMA ChildIs ==
    ASSUME NEW w, WalkOK(w), NEW e \in Entries(w), NEW c \in Under(w, e)
    PROVE  /\ Opens(w, e) /\ e.field.target \in DOMAIN w.file.fields /\ c \in Entries(w)
           /\ \E v \in FieldsOf(w.file, e.field.target) :
                  c = Child(e, v) /\ v.json \in STRING /\ c.path = Append(e.path, v.json)
  <1>1. Opens(w, e) /\ c \in Entries(w)
    BY UnderEntries DEF Under
  <1>2. e.field.target \in DOMAIN w.file.fields
    BY <1>1, EntryOK DEF Opens
  <1>3. PICK v \in Shown(w, e.field.target) : c = Child(e, v)
    BY <1>1 DEF Under
  <1>4. v \in FieldsOf(w.file, e.field.target) /\ v.json \in STRING
    BY <1>2 DEF Shown, WalkOK
  <1> QED
    BY <1>1, <1>2, <1>3, <1>4 DEF Child

\* The path says which entry it is.
LEMMA PathsDiffer ==
    ASSUME NEW w, WalkOK(w), NEW r \in Entries(w), r.path = <<>>,
           NEW e \in Reach(w, r), NEW d \in Reach(w, r), d.path = e.path
    PROVE  d = e
  <1> DEFINE R == Reach(w, r)
             S == {x \in R : \A y \in R : y.path = x.path => y = x}
  <1>1. r \in R /\ R \subseteq Entries(w) /\ Closed(w, R)
    BY ReachClosed
  <1>2. \A y \in R : y # r => \E x \in R : y \in Under(w, x)
    BY HasParent
  <1> HIDE DEF R
  <1>3. ASSUME NEW y \in R, y.path = <<>> PROVE y = r
    <2> SUFFICES ASSUME y # r PROVE FALSE
      OBVIOUS
    <2>1. PICK x \in R : y \in Under(w, x)
      BY <1>2
    <2>2. PICK v \in FieldsOf(w.file, x.field.target) : v.json \in STRING /\ y.path = Append(x.path, v.json)
      BY <1>1, <2>1, ChildIs
    <2>3. x.path \in Seq(STRING)
      BY <1>1 DEF Entries
    <2>4. Append(x.path, v.json) # <<>>
      BY <2>2, <2>3
    <2> QED
      BY <1>3, <2>2, <2>4
  <1>4. ASSUME NEW x \in S, NEW c \in Under(w, x) PROVE c \in S
    <2>1. c \in R
      BY <1>1, <1>4 DEF Closed
    <2> SUFFICES ASSUME NEW y \in R, y.path = c.path PROVE y = c
      BY <2>1
    <2>2. PICK v \in FieldsOf(w.file, x.field.target) :
              c = Child(x, v) /\ v.json \in STRING /\ c.path = Append(x.path, v.json)
      BY <1>1, <1>4, ChildIs
    <2>3. x.path \in Seq(STRING) /\ x.field.target \in DOMAIN w.file.fields
      BY <1>1, <1>4, ChildIs DEF Entries
    <2>4. y # r
      <3>1. Append(x.path, v.json) # <<>>
        BY <2>2, <2>3
      <3>2. y.path # r.path
        BY <2>2, <3>1
      <3> QED
        BY <3>2
    <2>5. PICK z \in R : y \in Under(w, z)
      BY <1>2, <2>4
    <2>6. PICK u \in FieldsOf(w.file, z.field.target) :
              y = Child(z, u) /\ u.json \in STRING /\ y.path = Append(z.path, u.json)
      BY <1>1, <2>5, ChildIs
    <2>7. z.path \in Seq(STRING)
      BY <1>1 DEF Entries
    <2>8. z.path = x.path /\ u.json = v.json
      <3>1. Append(z.path, u.json) = Append(x.path, v.json)
        BY <2>2, <2>6
      <3>2. Paths(z, x, u, v)
        BY <2>2, <2>3, <2>6, <2>7 DEF Paths
      <3> QED
        BY <3>1, <3>2, PathsSplit
    <2>9. z = x
      BY <1>4, <2>8
    <2>10. u = v
      BY <2>2, <2>3, <2>6, <2>8, <2>9 DEF WalkOK
    <2> QED
      BY <2>2, <2>6, <2>9, <2>10
  <1>5. Closed(w, S)
    BY <1>4 DEF Closed
  <1>6. S \in SUBSET Entries(w) /\ r \in S
    BY <1>1, <1>3
  <1>7. R \subseteq S
    BY <1>5, <1>6, ReachWithin DEF R
  <1> QED
    BY <1>7 DEF R

\* The expanded messages of a type on the way to a path.
Around(schema, path, type) ==
    {m \in schema : m.is = "object" /\ m.type = type /\ IsStrictPrefix(m.path, path)}

\* The count of a message is how many of the type are around.
LEMMA CountsAre ==
    ASSUME NEW w, WalkOK(w), NEW e \in Reach(w, Start(w.file, w.root)), NEW type \in DOMAIN w.file.fields
    PROVE  e.seen[type] = Cardinality(Around(Tree(w, Start(w.file, w.root)), e.path, type))
  <1> DEFINE r == Start(w.file, w.root)
             R == Reach(w, r)
             at(x, t) == Around(Tree(w, r), x.path, t)
             S == {x \in R : \A t \in DOMAIN w.file.fields :
                       IsFiniteSet(at(x, t)) /\ x.seen[t] = Cardinality(at(x, t))}
  <1>1. r \in Entries(w) /\ r.path = <<>> /\ r.seen = [t \in DOMAIN w.file.fields |-> 0]
    BY WalkIs DEF Start
  <1> HIDE DEF r
  <1>2. r \in R /\ R \subseteq Entries(w) /\ Closed(w, R)
    BY <1>1, ReachClosed
  <1>3. \A m \in Tree(w, r) : \E d \in R : m = Node(w, d) /\ m.path = d.path /\ d.path \in Seq(STRING)
    BY <1>2, NodeIs DEF Tree, Entries
  <1>4. \A x \in R : Node(w, x) \in Tree(w, r)
    BY DEF Tree
  <1>5. ASSUME NEW x \in R, NEW y \in R, x.path = y.path PROVE x = y
    BY <1>1, <1>5, PathsDiffer
  <1>6. r \in S
    <2> SUFFICES ASSUME NEW t \in DOMAIN w.file.fields PROVE at(r, t) = {}
      BY <1>1, <1>2, FS_EmptySet
    <2> SUFFICES ASSUME NEW m \in Tree(w, r) PROVE ~IsStrictPrefix(m.path, <<>>)
      BY <1>1 DEF Around
    <2>1. m.path \in Seq(STRING)
      BY <1>3
    <2> QED
      BY <2>1, NothingBefore
  <1> HIDE DEF R
  <1>7. ASSUME NEW x \in S, NEW c \in Under(w, x) PROVE c \in S
    <2>1. x \in R /\ x \in Entries(w) /\ c \in R
      BY <1>2, <1>7 DEF Closed
    <2>2. PICK v \in FieldsOf(w.file, x.field.target) :
              c = Child(x, v) /\ v.json \in STRING /\ c.path = Append(x.path, v.json)
      BY <1>7, <2>1, ChildIs
    <2>3. x.path \in Seq(STRING) /\ x.seen \in [DOMAIN w.file.fields -> Nat]
      BY <2>1 DEF Entries
    <2>4. Opens(w, x) /\ x.field.target \in DOMAIN w.file.fields
      BY <1>7, <2>1, ChildIs
    <2> SUFFICES ASSUME NEW t \in DOMAIN w.file.fields
                 PROVE  IsFiniteSet(at(c, t)) /\ c.seen[t] = Cardinality(at(c, t))
      BY <2>1
    <2>5. IsFiniteSet(at(x, t)) /\ x.seen[t] = Cardinality(at(x, t))
      BY <1>7
    <2>6. c.seen[t] = IF t = x.field.target THEN x.seen[t] + 1 ELSE x.seen[t]
      BY <2>2, <2>3, <2>4 DEF Child
    <2>7. Node(w, x) \in Tree(w, r) /\ Node(w, x).is = "object" /\ Node(w, x).type = x.field.target /\ Node(w, x).path = x.path
      BY <1>4, <2>1, <2>4, NodeIs DEF Opens
    <2>8. ASSUME NEW m \in Tree(w, r)
          PROVE  IsStrictPrefix(m.path, c.path) <=> m = Node(w, x) \/ IsStrictPrefix(m.path, x.path)
      <3>1. PICK d \in R : m = Node(w, d) /\ m.path = d.path /\ d.path \in Seq(STRING)
        BY <1>3
      <3>2. IsStrictPrefix(m.path, c.path) <=> m.path = x.path \/ IsStrictPrefix(m.path, x.path)
        BY <2>2, <2>3, <3>1, StrictlyBefore
      <3>3. m.path = x.path <=> m = Node(w, x)
        BY <1>5, <2>1, <2>7, <3>1
      <3> QED
        BY <3>2, <3>3
    <2>9. Node(w, x) \notin at(x, t)
      BY <2>2, <2>3, <2>7, StrictlyBefore DEF Around
    <2>10. at(c, t) = IF t = x.field.target THEN at(x, t) \cup {Node(w, x)} ELSE at(x, t)
      BY <2>7, <2>8 DEF Around
    <2> HIDE DEF at
    <2>11. CASE t = x.field.target
      <3>1. IsFiniteSet(at(x, t) \cup {Node(w, x)}) /\ Cardinality(at(x, t) \cup {Node(w, x)}) = Cardinality(at(x, t)) + 1
        BY <2>5, <2>9, FS_AddElement
      <3> QED
        BY <2>5, <2>6, <2>10, <2>11, <3>1
    <2>12. CASE t # x.field.target
      BY <2>5, <2>6, <2>10, <2>12
    <2> QED
      BY <2>11, <2>12
  <1>8. Closed(w, S)
    BY <1>7 DEF Closed
  <1>9. R \subseteq S
    BY <1>1, <1>2, <1>6, <1>8, ReachWithin DEF R
  <1> QED
    BY <1>9 DEF R, r

\* A message of an accepted tool's schema is cut off where it is inside itself
\* MaxRecursionDepth times and nowhere else, whatever its siblings hold.
THEOREM TruncatesByPath == ContractSpec => []ExpandsAlike
  <1>1. CallInv => ExpandsAlike
    <2> SUFFICES ASSUME CallInv, NEW i \in RPCs,
                        NEW n \in ForInput(request[i].file, MaxRecursionDepth), n.is \in {"object", "truncated"}
                 PROVE  n.is = "truncated" <=>
                          Cardinality(Around(ForInput(request[i].file, MaxRecursionDepth), n.path, n.type)) >= MaxRecursionDepth
      BY DEF ExpandsAlike, Around
    <2> DEFINE file == request[i].file
               w == WalkFrom(file, file.input, TRUE)
               r == Start(w.file, w.root)
    <2>1. WalkOK(w)
      BY Descriptors DEF CallInv, BuiltInv
    <2>2. ForInput(file, MaxRecursionDepth) = Tree(w, r) /\ r \in Entries(w)
      BY <2>1, WalkIs DEF ForInput, WalkFrom
    <2>3. w.file = file /\ w.depth = MaxRecursionDepth /\ w.root = Root(file.input)
      BY DEF WalkFrom
    <2> HIDE DEF w
    <2>4. PICK e \in Reach(w, r) : n = Node(w, e)
      BY <2>2 DEF Tree
    <2>5. e \in Entries(w)
      BY <2>1, <2>2, ReachClosed
    <2>6. e.field.kind = "message"
      <3>1. e.field = w.root \/ \E t \in DOMAIN file.fields : e.field \in FieldsOf(file, t)
        BY <2>3, <2>5 DEF Entries
      <3>2. \A t \in DOMAIN file.fields : \A f \in FieldsOf(file, t) : FieldOK(f)
        BY ContractOK DEF CallInv, BuiltInv
      <3>3. e.field.kind \notin {"object", "truncated"}
        <4>1. CASE e.field = w.root
          BY <2>1, <4>1 DEF WalkOK
        <4>2. ASSUME NEW t \in DOMAIN file.fields, e.field \in FieldsOf(file, t) PROVE e.field.kind \notin {"object", "truncated"}
          BY <3>2, <4>2 DEF FieldOK, Numeric, Narrow, Wide
        <4> QED
          BY <3>1, <4>1, <4>2
      <3> QED
        BY <2>4, <3>3, NodeIs
    <2>7. n.path = e.path /\ n.type = e.field.target /\ (n.is = "truncated" <=> ~Opens(w, e))
      BY <2>4, <2>6, NodeIs
    <2>8. e.field.target \in DOMAIN w.file.fields
      BY <2>1, <2>5, <2>6, EntryOK
    <2>9. e.seen[e.field.target] = Cardinality(Around(Tree(w, r), e.path, e.field.target))
      BY <2>1, <2>8, CountsAre
    <2>10. e.seen[e.field.target] \in Nat /\ w.depth \in Nat
      BY <2>1, <2>5, <2>8 DEF Entries, WalkOK
    <2> HIDE DEF r, file
    <2>11. n.is = "truncated" <=> e.seen[e.field.target] >= MaxRecursionDepth
      BY <2>3, <2>6, <2>7, <2>10 DEF Opens
    <2> QED
      BY <2>2, <2>7, <2>9, <2>11 DEF file
  <1> QED
    BY <1>1, CallInvariant, PTL
==============================================================================
