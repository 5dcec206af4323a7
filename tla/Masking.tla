-------------------------------- MODULE Masking --------------------------------
(***************************************************************************)
(* What a generated handler hides: the walk that clears the marked fields  *)
(* of a message (pkg/protomcp/fieldbehavior.go), serializing a masked      *)
(* clone and striking the hidden names from its JSON (schemamask.go), and  *)
(* the generator's decision to call them at all (schema.HasExclusions and  *)
(* the templates).                                                         *)
(*                                                                         *)
(* A message is a tree of values.  A field is a record [name, owner,       *)
(* target, shape, marks]; the payload of an Any hangs below it by a field  *)
(* of shape "payload".  The walks are recursive in the code; here they are *)
(* the set of messages still to visit, so every order is covered.          *)
(***************************************************************************)
EXTENDS Naturals

CONSTANTS Types, AnyType, Scalar,
          CustomJSON,  \* protojsonCustomWKTs: types protojson renders its own way
          Fields,
          Known,       \* types the configured resolver finds
          RPCs,        \* names an exclude_from_outputs may hold
          Messages,    \* the messages to mask
          Emits,       \* of "populated", "defaults", "all": MarshalOptions
          MaxDepth     \* clearOutputOnlyMaxDepth, 10000

VARIABLES msg,      \* [nodes, root, type, up, via, below, depth, corrupt], constant
          op,       \* what is called, see Ops
          emits,    \* the server's MarshalOptions
          phase,    \* "call", "walk", "marshal", "strip", "done", "failed"
          live,     \* the values still there
          todo,     \* messages the recursion has yet to enter
          open,     \* Any values whose payload is unpacked
          repacked, \* Any values whose payload was encoded again
          names     \* keys of the JSON: <<message, field>>

vars == <<msg, op, emits, phase, live, todo, open, repacked, names>>
input == <<msg, op, emits>>

Children(m, n) == {c \in m.nodes \ {m.root} : m.up[c] = n}
Closed(m, S) == \A n \in S : Children(m, n) \subseteq S

TypeOf(m, n) == IF n = m.root THEN m.type ELSE m.via[n].target

WellFormed(m) ==
    /\ m.root \in m.nodes /\ m.type \in Types \ {AnyType}
    /\ m.up \in [m.nodes \ {m.root} -> m.nodes]
    /\ m.via \in [m.nodes \ {m.root} -> Fields]
    /\ \A n \in m.nodes \ {m.root} : m.via[n].owner = TypeOf(m, m.up[n])
    /\ m.corrupt \subseteq m.nodes
    \* below[n]: a value with all that hangs from it
    /\ \A n \in m.nodes : n \in m.below[n] /\ m.below[n] \subseteq m.nodes /\ Closed(m, m.below[n])
    /\ \A S \in SUBSET m.nodes : Closed(m, S) => \A n \in S : m.below[n] \subseteq S
    /\ m.below[m.root] = m.nodes
    /\ m.depth \in [m.nodes -> Nat] /\ m.depth[m.root] = 0
    /\ \A n \in m.nodes \ {m.root} : m.depth[n] = m.depth[m.up[n]] + 1

\* Types that protojson renders its own way hold no field of the user's.
ASSUME MaskingOK ==
    /\ AnyType \in Types /\ Scalar \notin Types /\ CustomJSON \subseteq Types /\ AnyType \in CustomJSON
    /\ \A f \in Fields : f.owner \in Types /\ f.target \in Types \cup {Scalar}
    /\ \A f \in Fields : f.shape = "payload" <=> f.owner = AnyType
    /\ \A f \in Fields : f.owner \in CustomJSON => f.marks = {}
    /\ \A f \in Fields : f.owner \in CustomJSON \ {AnyType} => f.target \in (CustomJSON \ {AnyType}) \cup {Scalar}
    /\ \A m \in Messages : WellFormed(m)
    /\ "populated" \in Emits /\ MaxDepth \in Nat
------------------------------------------------------------------------------
\* ClearOutputOnly and ClearSchemaExcluded on a request; MarshalProtoMaskedForRPC
\* with a tool's name, MarshalProtoMasked ("") for prompts and resources.
Inputs == {"output_only", "excluded"}
Ops == Inputs \cup {""} \cup RPCs
Loud == op \notin Inputs

\* hasOutputOnly, isSchemaExcluded, outputExclusionMatcher
Match(f) ==
    IF op = "output_only" THEN "output_only" \in f.marks
    ELSE "exclude" \in f.marks \/ (op \in RPCs /\ op \in f.marks)

\* Bug: an Any is a type like the others.
HasMatchButAny(t) ==
    ~ \E S \in SUBSET Types :
        /\ t \in S
        /\ \A f \in Fields : f.owner \in S \ {AnyType} => ~Match(f) /\ f.target \in S \cup {Scalar}

\* descriptorHasMatch, hasMatching: a marked field, or an AnyType, is reachable from t.
HasMatch(t) ==
    ~ \E S \in SUBSET (Types \ {AnyType}) :
        /\ t \in S
        /\ \A f \in Fields : f.owner \in S => ~Match(f) /\ f.target \in S \cup {Scalar}

Init ==
    /\ msg \in Messages /\ op \in Ops
    /\ emits \in IF Loud THEN Emits ELSE {"populated"}
    /\ phase = "call" /\ live = msg.nodes
    /\ todo = {} /\ open = {} /\ repacked = {} /\ names = {}

\* The handler as generated: a request always loses its OUTPUT_ONLY fields, the
\* other calls are there if HasExclusions or HasOutputExclusions says so.
Masks == op = "output_only" \/ HasMatch(msg.type)
Start ==
    /\ phase = "call"
    /\ phase' = IF Masks THEN "walk" ELSE IF Loud THEN "marshal" ELSE "done"
    /\ todo' = IF Masks THEN {msg.root} ELSE {}
    /\ UNCHANGED <<input, live, open, repacked, names>>
------------------------------------------------------------------------------
Matched(n) == {c \in Children(msg, n) : Match(msg.via[c])}
Messagelike(c) == msg.via[c].target \in Types
ClearFields(cs) == live' = live \ UNION {msg.below[c] : c \in cs}

\* Bug: what cannot be verified is wiped on the way out too.
WipeSilently(n, cs) ==
    /\ ClearFields(cs) /\ todo' = todo \ {n} /\ open' = open \ {n} /\ UNCHANGED phase

\* Content the walk cannot verify: an error on the way out, wiped on the way in.
Unverifiable(n, cs) ==
    IF Loud THEN phase' = "failed" /\ UNCHANGED <<live, todo, open>>
    ELSE ClearFields(cs) /\ todo' = todo \ {n} /\ open' = open \ {n} /\ UNCHANGED phase

TooDeep(n) ==
    /\ phase = "walk" /\ n \in todo /\ msg.depth[n] >= MaxDepth
    /\ Unverifiable(n, Children(msg, n))
    /\ UNCHANGED <<input, repacked, names>>

\* clearFieldsMatchingReflect, clearFieldChildren
Visit(n) ==
    /\ phase = "walk" /\ n \in todo /\ msg.depth[n] < MaxDepth /\ TypeOf(msg, n) # AnyType
    /\ ClearFields(Matched(n))
    /\ todo' = (todo \ {n}) \cup {c \in (Children(msg, n) \cap live) \ Matched(n) : Messagelike(c)}
    /\ UNCHANGED <<input, phase, open, repacked, names>>

\* clearMatchingInAnyPayload up to the recursion.  A payload of no bytes, or of a
\* type that cannot hold a match, is left as it is.
Payload(n) == Children(msg, n) \cap live
Encoded(p) == (Children(msg, p) \cap live) # {} \/ p \in msg.corrupt
Unreadable(p) == msg.via[p].target \notin Known \/ (HasMatch(msg.via[p].target) /\ p \in msg.corrupt)
VisitAny(n) ==
    /\ phase = "walk" /\ n \in todo /\ msg.depth[n] < MaxDepth /\ TypeOf(msg, n) = AnyType
    /\ LET raw == {p \in Payload(n) : Encoded(p)}
           unpacked == {p \in raw : HasMatch(msg.via[p].target)} IN
       IF \E p \in raw : Unreadable(p)
       THEN Unverifiable(n, Payload(n))
       ELSE /\ todo' = (todo \ {n}) \cup unpacked
            /\ open' = IF unpacked = {} THEN open ELSE open \cup {n}
            /\ UNCHANGED <<phase, live>>
    /\ UNCHANGED <<input, repacked, names>>

\* ... and after it.  proto.Marshal wants the required fields.
Finished(n) == \A b \in msg.below[n] \ {n} : b \notin todo \cup open
Changed(n) == ~(msg.below[n] \subseteq live)
RequiredGone(n) == \E c \in msg.below[n] \ (live \cup {msg.root}) :
                       "required" \in msg.via[c].marks /\ msg.up[c] \in live
Repack(n) ==
    /\ phase = "walk" /\ n \in open /\ Finished(n)
    /\ IF Changed(n) /\ RequiredGone(n)
       THEN Unverifiable(n, Payload(n)) /\ UNCHANGED repacked
       ELSE /\ open' = open \ {n}
            /\ repacked' = IF Changed(n) THEN repacked \cup {n} ELSE repacked
            /\ UNCHANGED <<phase, live, todo>>
    /\ UNCHANGED <<input, names>>

WalkEnds ==
    /\ phase = "walk" /\ todo = {} /\ open = {}
    /\ phase' = IF Loud THEN "marshal" ELSE "done"
    /\ UNCHANGED <<input, live, todo, open, repacked, names>>
------------------------------------------------------------------------------
\* protojson: what is set, and with the emit options also what is not.
Shown(n) ==
    {f \in Fields :
        /\ f.owner = TypeOf(msg, n) /\ f.owner \notin CustomJSON
        /\ \/ \E c \in Children(msg, n) \cap live : msg.via[c] = f
           \/ emits = "defaults" /\ f.shape \notin {"message", "group"}
           \/ emits = "all"}

Unmarshalable ==
    \/ RequiredGone(msg.root)
    \/ \E p \in live \ {msg.root} : msg.via[p].shape = "payload"
                                    /\ (msg.via[p].target \notin Known \/ p \in msg.corrupt)

\* Server.MarshalProto, and whether the strip pass follows.
MarshalProto ==
    /\ phase = "marshal"
    /\ IF Unmarshalable
       THEN phase' = "failed" /\ UNCHANGED <<todo, names>>
       ELSE /\ names' = UNION {{n} \X Shown(n) : n \in live}
            /\ IF Masks /\ emits # "populated"
               THEN phase' = "strip" /\ todo' = {msg.root}
               ELSE phase' = "done" /\ UNCHANGED todo
    /\ UNCHANGED <<input, live, open, repacked>>

\* Bug: the object an Any holds is left as it is.
StripButAny(n) ==
    IF TypeOf(msg, n) = AnyType THEN {}
    ELSE {c \in Children(msg, n) \cap live : Messagelike(c) /\ msg.via[c].shape # "group list"}

\* stripSchemaExcludedJSONValue, stripSchemaExcludedAnyJSON: where the pass goes
\* next.  It enters lists of MessageKind only.
StripBelow(n) ==
    IF TypeOf(msg, n) = AnyType
    THEN {p \in Payload(n) : msg.via[p].target \notin CustomJSON \ {AnyType}}
    ELSE {c \in Children(msg, n) \cap live : Messagelike(c) /\ msg.via[c].shape # "group list"}

\* stripSchemaExcludedJSON
Strip(n) ==
    /\ phase = "strip" /\ n \in todo
    /\ names' = {k \in names : ~(k[1] = n /\ Match(k[2]))}
    /\ todo' = (todo \ {n}) \cup StripBelow(n)
    /\ UNCHANGED <<input, phase, live, open, repacked>>

StripEnds ==
    /\ phase = "strip" /\ todo = {} /\ phase' = "done"
    /\ UNCHANGED <<input, live, todo, open, repacked, names>>

Next ==
    \/ Start \/ WalkEnds \/ MarshalProto \/ StripEnds
    \/ \E n \in todo : TooDeep(n) \/ Visit(n) \/ VisitAny(n) \/ Strip(n)
    \/ \E n \in open : Repack(n)
Spec == Init /\ [][Next]_vars
------------------------------------------------------------------------------
TypeOK ==
    /\ op \in Ops /\ emits \in Emits
    /\ phase \in {"call", "walk", "marshal", "strip", "done", "failed"}
    /\ live \subseteq msg.nodes /\ todo \subseteq live /\ open \subseteq live
    /\ repacked \subseteq msg.nodes
    /\ \A k \in names : k[1] \in live /\ k[2] \in Fields

\* "zeros every field reachable from m whose descriptor carries" the mark: what a
\* handler passes on holds no value of such a field, at any depth, in lists, in
\* maps and inside every AnyType, and also where the generator left the call out.
MaskedClean ==
    phase = "done" => \A c \in live \ {msg.root} : ~Match(msg.via[c])

\* "Content the masking walk cannot verify ... is an error, never a silently
\* truncated success": an output loses the marked fields and nothing else; an
\* input moreover what could not be verified; and an Any keeps its bytes unless
\* something in it was cleared.
Removable(a) ==
    \/ Match(msg.via[a])
    \/ ~Loud /\ (msg.via[a].shape = "payload" \/ msg.depth[msg.up[a]] >= MaxDepth)
NothingElseCleared ==
    /\ \A n \in msg.nodes \ live : \E a \in msg.nodes \ {msg.root} : n \in msg.below[a] /\ Removable(a)
    /\ \A n \in repacked \cap live : Changed(n)

\* "the excluded field names are additionally removed from the JSON itself",
\* whatever the marshal options emit -- but in lists of groups, which the strip
\* pass does not enter (it asks for MessageKind, where the walk takes groups too).
InGroupList(n) ==
    \E c \in msg.nodes \ {msg.root} : msg.via[c].shape = "group list" /\ n \in msg.below[c]
NamesHidden ==
    phase = "done" => \A k \in names : Match(k[2]) => InGroupList(k[1])
==============================================================================
