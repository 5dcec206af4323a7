-------------------------------- MODULE Schema --------------------------------
(***************************************************************************)
(* Schema generation (internal/gen/schema/schema.go): what may not be      *)
(* excluded, and the walk from an RPC's request or response message to its *)
(* JSON Schema.  A schema is the set of its nodes, each with the path of   *)
(* JSON names that leads to it.                                            *)
(***************************************************************************)
EXTENDS FieldRules, FieldPaths

OutputOnly(f) == "output_only" \in f.marks

\* ForInputE, ForOutputE: the two filters.  "exclude_here": exclude_from_outputs
\* names this RPC.
Visible(f, input) == ~Excluded(f) /\ IF input THEN ~OutputOnly(f) ELSE "exclude_here" \notin f.marks

Members(file, type, oneof) == {f \in FieldsOf(file, type) : f.oneof = oneof.name}

\* The messages validateInputExclusions enters, from the request's.
Entered(file) ==
    {t \in DOMAIN file.fields :
        \A S \in SUBSET DOMAIN file.fields :
            (/\ file.input \in S
             /\ \A s \in S : \A f \in FieldsOf(file, s) :
                    f.kind = "message" /\ Visible(f, TRUE) => f.target \in S) => t \in S}

\* validateInputExclusions
ExclusionRefused(file) ==
    \E t \in Entered(file) :
        \/ \E o \in file.oneofs[t] : o.required /\ \A f \in Members(file, t, o) : ~Visible(f, TRUE)
        \/ \E f \in FieldsOf(file, t) :
              ~OutputOnly(f) /\ Excluded(f) /\ (IsRequired(f) \/ ZeroViolation(f))
------------------------------------------------------------------------------
\* Bug: a response always holds an arm of a required oneof.
NoneBranchUnlessRequired(o, arms, all, input) == ~o.required

\* A branch for no arm at all: also where the arm in a response may be a hidden one.
NoneBranch(o, arms, all, input) == ~o.required \/ (~input /\ Cardinality(arms) < Cardinality(all))

\* The oneOf groups of a message with the visible fields vs.
OneOfs(file, type, vs, input) ==
    {[arms |-> {f.json : f \in Members(file, type, o) \cap vs},
      none |-> NoneBranch(o, Members(file, type, o) \cap vs, Members(file, type, o), input)] :
         o \in {x \in file.oneofs[type] : Members(file, type, x) \cap vs # {}}}

\* scalarFieldSchema, enumFieldSchema, and the messages that protojson renders
\* its own way
Leaf(f, path) ==
    [path |-> path, is |-> f.kind, type |-> f.target, card |-> f.card, wrapper |-> WrapperKeywords(f),
     keywords |-> ValueKeywords(f), enum |-> IF f.kind = "enum" THEN EnumValues(f) ELSE {},
     required |-> {}, oneofs |-> {}]

\* messageSchema's own part of a message
Object(file, f, path, vs, input) ==
    [Leaf(f, path) EXCEPT !.is = "object", !.required = {v.json : v \in {x \in vs : IsRequired(x)}},
                          !.oneofs = OneOfs(file, f.target, vs, input)]
Truncated(f, path) == [Leaf(f, path) EXCEPT !.is = "truncated"]

\* Bug: the count of a message is not given back.
KeepCount(seen, type) == seen
GiveBack(seen, type) == [seen EXCEPT ![type] = @ - 1]

\* Where the walk is: the field that led there, its path, and how often each message
\* is entered around it.
Places(file, root) ==
    [field : {f \in UNION {FieldsOf(file, t) : t \in DOMAIN file.fields} : f.kind = "message"} \cup {root},
     path : Seq(STRING), seen : [DOMAIN file.fields -> Nat]]

\* One turn of the loop over a message's fields: nodes so far, and the counts.
\* messageFieldSchema, mapFieldSchema and lists wrap what their message becomes.
Field(message, path, v, sofar) ==
    LET there == [field |-> v, path |-> Append(path, v.json), seen |-> sofar.seen] IN
    IF v.kind = "message"
    THEN LET sub == message[there] IN [nodes |-> sofar.nodes \cup sub.nodes, seen |-> sub.seen]
    ELSE [nodes |-> sofar.nodes \cup {Leaf(v, there.path)}, seen |-> sofar.seen]

\* messageSchema, where message stands for its calls of itself
Enter(message, file, at, input, maxDepth) ==
    LET type == at.field.target
        fields == file.fields[type]
        visible == {v \in FieldsOf(file, type) : Visible(v, input)}
        walked[i \in 0..Len(fields)] ==
            IF i = 0 THEN [nodes |-> {Object(file, at.field, at.path, visible, input)},
                           seen |-> [at.seen EXCEPT ![type] = @ + 1]]
            ELSE IF fields[i] \in visible THEN Field(message, at.path, fields[i], walked[i - 1])
            ELSE walked[i - 1]
    IN IF at.seen[type] >= maxDepth THEN [nodes |-> {Truncated(at.field, at.path)}, seen |-> at.seen]
       ELSE [nodes |-> walked[Len(fields)].nodes, seen |-> GiveBack(walked[Len(fields)].seen, type)]

Start(file, root) == [field |-> root, path |-> <<>>, seen |-> [t \in DOMAIN file.fields |-> 0]]
Walk(file, root, input, maxDepth) ==
    LET message[at \in Places(file, root)] == Enter(message, file, at, input, maxDepth)
    IN message[Start(file, root)].nodes

Root(type) == [name |-> "", json |-> "", kind |-> "message", target |-> type, card |-> "single",
               presence |-> TRUE, oneof |-> "", marks |-> {}, ignore |-> "no", rules |-> {}, wrap |-> {},
               defined |-> {}]
ForInput(file, maxDepth) == Walk(file, Root(file.input), TRUE, maxDepth)
ForOutput(file, maxDepth) == Walk(file, Root(file.output), FALSE, maxDepth)

\* parseComment: an invalid @example of a field the walk gets to is an error.
BadExample(file, input, schema) ==
    \E n \in schema : n.is = "object" /\
        \E f \in FieldsOf(file, n.type) : Visible(f, input) /\ "bad_example" \in f.marks
SchemaFails(file, maxDepth) ==
    \/ BadExample(file, TRUE, ForInput(file, maxDepth)) \/ BadExample(file, FALSE, ForOutput(file, maxDepth))

\* buildPromptArguments: strings and enums only.
PromptRefused(file) ==
    \E f \in FieldsOf(file, file.input) :
        Visible(f, TRUE) /\ (f.card # "single" \/ f.kind \notin {"string", "enum"})
------------------------------------------------------------------------------
(* JSON Schema: value[name] is what an object of the root type holds under its   *)
(* field name, keys the fields that are written down at all.                     *)
NodeAdmits(n, value) ==
    /\ \A r \in n.wrapper : Matches(value, r)
    /\ \A v \in Elements(n.card, value) :
           /\ n.is = "enum" => v \in n.enum
           /\ \A r \in n.keywords : KeywordHolds(n.is, v, r)
Admits(schema, value, keys) ==
    /\ \A n \in schema : n.path = <<>> =>
           /\ n.required \subseteq keys
           /\ \A o \in n.oneofs :
                  Cardinality(o.arms \cap keys) + (IF o.none /\ o.arms \cap keys = {} THEN 1 ELSE 0) = 1
    /\ \A n \in schema : Len(n.path) = 1 /\ n.path[1] \in keys => NodeAdmits(n, value[n.path[1]])
===============================================================================
