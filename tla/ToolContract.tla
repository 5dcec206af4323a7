----------------------------- MODULE ToolContract -----------------------------
(***************************************************************************)
(* What the generator's schemas promise, held against one call of a tool   *)
(* of the program it generated: the client's arguments, the request the    *)
(* generated handler makes of them, an upstream server that validates with *)
(* protovalidate, and the reply the client gets.                           *)
(*                                                                         *)
(* An object is [keys, value]: the fields that are written down, by their  *)
(* JSON names, and the value of every field, written down or not.  Below   *)
(* the root a message is only there or not.                                *)
(***************************************************************************)
EXTENDS Generator

CONSTANT Samples(_)   \* values to try for a field

ZeroOf(f) == IF f.card = "single" THEN Zero(f.kind) ELSE <<>>
Typed(f, value) ==
    \A e \in Elements(f.card, value) : (f.kind \in Numeric => e \in Int) /\ (f.kind = "enum" => e \in f.defined)

\* Descriptors as protoc hands them over: two fields of a message have two names and
\* two JSON names, the message that a field is of is at hand, the arms of a oneof have
\* presence, and an enum without it has a number zero.
ASSUME ContractOK ==
    \A r \in Requests : \A i \in RPCs :
        LET file == r[i].file IN
        /\ {file.input, file.output} \subseteq DOMAIN file.fields
        /\ IsFiniteSet(DOMAIN file.fields) /\ Nowhere \notin DOMAIN file.fields
        /\ r[i].itemPath \in Seq(STRING) /\ \A use \in r[i].uses : use.path \in Seq(STRING)
        /\ \A t \in DOMAIN file.fields :
            /\ file.fields[t] \in Seq(FieldsOf(file, t))
            /\ \A o \in file.oneofs[t] : \A f \in Members(file, t, o) : f.presence
            /\ \A f \in FieldsOf(file, t) :
                /\ FieldOK(f) /\ f.json \in STRING /\ (f.kind = "message" => f.target \in DOMAIN file.fields)
                /\ \A v \in Samples(f) : Typed(f, v)
                /\ ~f.presence => Typed(f, ZeroOf(f))
                /\ \A g \in FieldsOf(file, t) : f.json = g.json \/ f.name = g.name => f = g

VARIABLE exchange   \* the call: [is, rpc, object], is "asked", "forwarded" or "answered"

contractVars == <<vars, exchange>>
NoCall == [is |-> "none", rpc |-> 0]
ContractInit == Init /\ exchange = NoCall

File == request[exchange.rpc].file
JSONNames(fs) == {f.json : f \in fs}
IsSet(f, object) == IF f.presence THEN f.json \in object.keys ELSE object.value[f.json] # ZeroOf(f)

\* The values there may be for a message's fields, one field after the other.
Values(file, type, keys) ==
    LET fields == file.fields[type]
        upTo[i \in 0..Len(fields)] ==
            IF i = 0 THEN {<<>>}
            ELSE LET f == fields[i]
                     ways == IF f.json \in keys THEN Samples(f) ELSE {ZeroOf(f)} IN
                 UNION {{[j \in DOMAIN v \cup {f.json} |-> IF j = f.json THEN s ELSE v[j]] : s \in ways} :
                            v \in upTo[i - 1]}
    IN upTo[Len(fields)]

\* At most one arm of a oneof is written down.
Objects(file, type) ==
    UNION {[keys : {keys}, value : Values(file, type, keys)] :
              keys \in {k \in SUBSET JSONNames(FieldsOf(file, type)) :
                           \A o \in file.oneofs[type] : Cardinality(JSONNames(Members(file, type, o)) \cap k) <= 1}}

\* Of an object of these fields, all but the hidden ones.
Without(object, fields, hidden) ==
    [keys |-> object.keys \ JSONNames(hidden),
     value |-> [j \in JSONNames(fields) |->
                   LET f == CHOOSE g \in fields : g.json = j IN
                   IF f \in hidden THEN ZeroOf(f) ELSE object.value[j]]]
------------------------------------------------------------------------------
(* protovalidate *)
FieldAccepts(f, object) ==
    LET v == object.value[f.json] IN
    f.ignore # "always" =>
        /\ "rule_required" \in f.marks /\ (f.ignore = "zero" => f.presence) => IsSet(f, object)
        /\ \/ f.presence /\ ~IsSet(f, object)
           \/ f.ignore = "zero" /\ v = ZeroOf(f)
           \/ /\ \A r \in f.wrap : Meets(v, r)
              /\ \A e \in Elements(f.card, v) : ValueMeets(f.kind, e, f.rules)
OneofAccepts(file, type, o, object) == o.required => JSONNames(Members(file, type, o)) \cap object.keys # {}
Accepts(file, type, object) ==
    /\ \A f \in FieldsOf(file, type) : FieldAccepts(f, object)
    /\ \A o \in file.oneofs[type] : OneofAccepts(file, type, o, object)
------------------------------------------------------------------------------
\* The client may write hidden fields as well.
Invoke(i) ==
    /\ Up /\ exchange = NoCall /\ Has(i, "tool")
    /\ \E object \in Objects(request[i].file, request[i].file.input) :
          exchange' = [is |-> "asked", rpc |-> i, object |-> object]

\* ClearOutputOnly and ClearSchemaExcluded
Forward ==
    /\ exchange.is = "asked"
    /\ LET fields == FieldsOf(File, File.input) IN
       exchange' = [is |-> "forwarded", rpc |-> exchange.rpc,
                    object |-> Without(exchange.object, fields, {f \in fields : ~Visible(f, TRUE)})]

\* The reply as the upstream sends it.
Reply ==
    /\ exchange.is = "forwarded" /\ Accepts(File, File.input, exchange.object)
    /\ \E object \in Objects(File, File.output) :
          exchange' = [is |-> "answered", rpc |-> exchange.rpc, object |-> object]

ContractNext ==
    \/ Next /\ UNCHANGED exchange
    \/ (\E i \in RPCs : Invoke(i)) /\ UNCHANGED vars
    \/ (Forward \/ Reply) /\ UNCHANGED vars
ContractSpec == ContractInit /\ [][ContractNext]_contractVars
------------------------------------------------------------------------------
\* protojson with EmitDefaultValues, and the masked names taken out.
ShownKeys(object) ==
    {f.json : f \in {g \in FieldsOf(File, File.output) : Visible(g, FALSE) /\ (g.presence => IsSet(g, object))}}

\* The keywords of a written field say what its rules say: not for numbers that JSON
\* writes as strings, lengths that base64 changes, bounds that are the wrong way
\* round or a rule that is to be ignored.
Faithful(f, object) ==
    /\ f.kind \in Wide => ~\E r \in f.rules : r.is \in {"const", "in"}
    /\ f.kind = "bytes" => ValueKeywords(f) = {}
    /\ ~Reversed({r \in f.rules : r.is \in Bounds})
    /\ f.ignore = "no" \/ (f.ignore = "zero" /\ object.value[f.json] # ZeroOf(f))

\* Fields that are required in words only: protovalidate does not look at them.
Promised(f, object) == f.marks \cap {"schema_required", "behavior_required"} # {} => f.json \in object.keys

\* "the cleared zero value always violates buf.validate rule ...: every request would
\* be rejected": of an accepted run, no request is rejected upstream for a field that
\* field_schema excluded and the handler cleared.  OUTPUT_ONLY fields are excepted:
\* they are hidden and cleared too, but validateInputExclusions passes over them and
\* their rules may reject every request.  Nor is one rejected for a required oneof:
\* one of its arms is visible, where an OUTPUT_ONLY arm counts as hidden.
ExcludedFieldsNeverFail ==
    exchange.is = "forwarded" =>
        /\ \A f \in FieldsOf(File, File.input) : Excluded(f) /\ ~OutputOnly(f) => FieldAccepts(f, exchange.object)
        /\ \A o \in File.oneofs[File.input] :
               o.required => \E f \in Members(File, File.input, o) : Visible(f, TRUE)

\* The input schema turns no good request away: what the upstream accepts, with the
\* fields there that are annotated as required, the schema admits.
AdmitsWhatUpstreamTakes ==
    LET fs == {f \in FieldsOf(File, File.input) : Visible(f, TRUE)}
        object == exchange.object IN
    /\ exchange.is = "forwarded" /\ Accepts(File, File.input, object)
    /\ \A f \in fs : Promised(f, object) /\ (f.json \in object.keys => Faithful(f, object))
    => Admits(ForInput(File, MaxRecursionDepth), object.value, object.keys)

\* "Default is EmitDefaultValues=true so output matches the declared schema": a reply
\* that keeps its own message's rules is one the output schema admits once it is
\* masked and written as JSON, its hidden oneof arms included.
OutputFits ==
    LET fs == {f \in FieldsOf(File, File.output) : Visible(f, FALSE)}
        keys == ShownKeys(exchange.object) IN
    /\ exchange.is = "answered" /\ Accepts(File, File.output, exchange.object)
    /\ \A f \in fs : (IsRequired(f) => f.json \in keys) /\ (f.json \in keys => Faithful(f, exchange.object))
    => Admits(ForOutput(File, MaxRecursionDepth), exchange.object.value, keys)

\* "seen tracks per-FullName expansion depth": a message is cut off where it is inside
\* itself MaxRecursionDepth times and nowhere else, however often its siblings hold it.
ExpandsAlike ==
    phase = "accepted" =>
        \A i \in RPCs : Has(i, "tool") =>
            LET schema == ForInput(request[i].file, MaxRecursionDepth)
                around(n) == {m \in schema : m.is = "object" /\ m.type = n.type /\ IsStrictPrefix(m.path, n.path)} IN
            \A n \in schema : n.is \in {"object", "truncated"} =>
                (n.is = "truncated" <=> Cardinality(around(n)) >= MaxRecursionDepth)

\* Nothing that field_schema hides backs a URI, a name, a blob or a prompt: the code
\* emitted for an accepted run reads no excluded field, unless one field's JSON name
\* is the name of another.
NothingHiddenBacks ==
    phase = "accepted" =>
        \A i \in RPCs : Annotated(i) =>
            \A use \in request[i].uses :
                LET file == request[i].file
                    reads == Reads(file, use, request[i].itemPath)
                    clash == \E t \in DOMAIN file.fields : \E f, g \in FieldsOf(file, t) : f # g /\ f.name = g.json IN
                ~clash => \A k \in DOMAIN reads : ~Excluded(reads[k])
===============================================================================
