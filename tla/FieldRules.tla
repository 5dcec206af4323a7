------------------------------ MODULE FieldRules ------------------------------
(***************************************************************************)
(* The buf.validate rules of a field as the generator reads them           *)
(* (internal/gen/schema/schema.go): which of them the zero value breaks,   *)
(* and which become JSON Schema keywords, beside what protovalidate makes  *)
(* of them on the upstream side.                                           *)
(*                                                                         *)
(* A rule is [is, of]: which one, and its argument.  Integers stand for    *)
(* every numeric value, sequences for strings and bytes, a regular         *)
(* expression and a format for the strings they match.  The kinds are      *)
(* those the code tells apart: "int32" also is uint32 and float, "fixed32" *)
(* sint32 and sfixed32 too, and so on.                                     *)
(***************************************************************************)
EXTENDS Integers, FiniteSets, SequencesExt

Narrow == {"int32", "double", "fixed32"}
Wide == {"int64", "fixed64"}   \* strings in JSON
Numeric == Narrow \cup Wide
Bounds == {"gt", "gte", "lt", "lte"}

Zero(kind) == IF kind \in Numeric \cup {"enum"} THEN 0 ELSE IF kind = "bool" THEN FALSE ELSE <<>>

\* Formats that do not match the empty string; the others are "uri_ref" and
\* "header_value".
WellKnown == {"email", "hostname", "ip", "ipv4", "ipv6", "uri", "address", "uuid", "tuuid",
              "ip_with_prefixlen", "ipv4_with_prefixlen", "ipv6_with_prefixlen", "ip_prefix",
              "ipv4_prefix", "ipv6_prefix", "host_and_port", "ulid", "protobuf_fqn",
              "protobuf_dot_fqn", "header_name"}
RuleOK(kind, r) ==
    \/ kind \in Numeric /\ r.is \in Bounds \cup {"const"} /\ r.of \in Int
    \/ kind \in Numeric /\ r.is \in {"in", "not_in"}
    \/ /\ kind \in {"string", "bytes"}
       /\ \/ r.is \in {"const", "prefix", "suffix", "contains", "not_contains"} /\ r.of \in Seq(Int)
          \/ r.is \in {"len", "min_len", "max_len", "len_bytes", "min_bytes"} /\ r.of \in Nat
          \/ r.is \in {"in", "not_in", "pattern"}
          \/ r.is = "format" /\ (r.of[1] \notin WellKnown => <<>> \in r.of[2])
    \/ kind = "enum" /\ r.is \in {"const", "in", "not_in", "defined_only"}
    \/ kind = "bool" /\ r.is = "const" /\ r.of \in BOOLEAN

\* What protoc and protovalidate let a field be.
FieldOK(f) ==
    /\ f.kind \in Numeric \cup {"enum", "bool", "string", "bytes", "message"}
    /\ f.presence \in BOOLEAN /\ f.card \in {"single", "list", "map"} /\ f.ignore \in {"no", "zero", "always"}
    /\ f.kind = "message" /\ f.card = "single" => f.presence
    /\ \A r \in f.rules : RuleOK(f.kind, r)
    /\ \A r \in f.wrap :
           \/ f.card = "list" /\ r.is \in {"min_items", "max_items"} /\ r.of \in Nat
           \/ f.card = "list" /\ r.is = "unique"
           \/ f.card = "map" /\ r.is \in {"min_pairs", "max_pairs"} /\ r.of \in Nat
------------------------------------------------------------------------------
(* The generator *)

\* numericZero, numericZeroViolation
NumericZero(r) ==
    \/ r.is = "const" /\ r.of # 0
    \/ r.is = "gt" /\ r.of >= 0
    \/ r.is = "gte" /\ r.of > 0
    \/ r.is = "lt" /\ r.of <= 0
    \/ r.is = "lte" /\ r.of < 0
    \/ r.is = "in" /\ r.of # {} /\ 0 \notin r.of
    \/ r.is = "not_in" /\ 0 \in r.of

\* stringZeroViolation, stringWellKnownZeroViolation, bytesZeroViolation
SequenceZero(r) ==
    \/ r.is \in {"const", "prefix", "suffix", "contains"} /\ r.of # <<>>
    \/ r.is = "not_contains" /\ r.of = <<>>
    \/ r.is \in {"len", "len_bytes", "min_len", "min_bytes"} /\ r.of > 0
    \/ r.is = "in" /\ r.of # {} /\ <<>> \notin r.of
    \/ r.is = "not_in" /\ <<>> \in r.of
    \/ r.is = "pattern" /\ <<>> \notin r.of
    \/ r.is = "format" /\ r.of[1] \in WellKnown

\* enumZeroViolation; the argument of defined_only is the enum's numbers
EnumZero(r) ==
    \/ r.is = "const" /\ r.of # 0
    \/ r.is = "in" /\ r.of # {} /\ 0 \notin r.of
    \/ r.is = "not_in" /\ 0 \in r.of
    \/ r.is = "defined_only" /\ 0 \notin r.of

\* Bug: a list is judged by the rules of its items.
ZeroIgnoringLists(f) ==
    /\ ~f.presence /\ f.ignore = "no" /\ f.card = "single"
    /\ \E r \in f.rules :
        \/ f.kind \in Numeric /\ NumericZero(r)
        \/ f.kind \in {"string", "bytes"} /\ SequenceZero(r)
        \/ f.kind = "enum" /\ EnumZero(r)
        \/ f.kind = "bool" /\ r.is = "const" /\ r.of

ZeroViolation(f) ==
    /\ ~f.presence /\ f.ignore = "no"
    /\ \/ f.card = "list" /\ \E r \in f.wrap : r.is = "min_items" /\ r.of > 0
       \/ f.card = "map" /\ \E r \in f.wrap : r.is = "min_pairs" /\ r.of > 0
       \/ /\ f.card = "single"
          /\ \E r \in f.rules :
              \/ f.kind \in Numeric /\ NumericZero(r)
              \/ f.kind \in {"string", "bytes"} /\ SequenceZero(r)
              \/ f.kind = "enum" /\ EnumZero(r)
              \/ f.kind = "bool" /\ r.is = "const" /\ r.of

\* Bug: buf.validate's required counts whatever the ignore rule says.
RequiredThoughIgnored(f) == {"schema_required", "behavior_required", "rule_required"} \cap f.marks # {}

IsRequired(f) ==
    \/ {"schema_required", "behavior_required"} \cap f.marks # {}
    \/ /\ "rule_required" \in f.marks /\ f.ignore # "always"
       /\ f.ignore = "zero" => f.presence

\* The enum values in a field's schema, by number: the rules of the items of a list
\* or map do not narrow them.
EnumValues(f) ==
    LET Of(is) == {r.of : r \in {x \in f.rules : x.is = is /\ f.card = "single"}}
        const == Of("const") \cap f.defined IN
    IF Of("const") # {} THEN IF const # {} THEN const ELSE f.defined
    ELSE IF UNION Of("in") # {} THEN (UNION Of("in")) \cap f.defined
    ELSE f.defined \ UNION Of("not_in")

\* applyStringRules, applyBytesRules, applyInt32Rules and their siblings.
Keywords(kind) ==
    IF kind \in {"int32", "int64", "double"} THEN Bounds \cup {"const", "in", "not_in"}
    ELSE IF kind = "string" THEN {"format", "pattern", "const", "min_len", "max_len", "in", "not_in"}
    ELSE IF kind = "bytes" THEN {"min_len", "max_len"}
    ELSE IF kind = "bool" THEN {"const"} ELSE {}

\* Formats that applyStringRules has no name for.
Unnamed == {"ulid", "protobuf_fqn", "protobuf_dot_fqn", "header_name", "header_value"}

\* len is a minLength and a maxLength, each unless min_len or max_len overwrites it.
LengthKeywords(f) ==
    {[is |-> side, of |-> r.of] : side \in {"min_len", "max_len"} \ {r.is : r \in f.rules},
                                  r \in {q \in f.rules : q.is = "len" /\ f.kind \in {"string", "bytes"}}}

\* convertFieldRules, extractValidateConstraints: the ignore rule plays no part.
ValueKeywords(f) ==
    LengthKeywords(f) \cup
        {r \in f.rules : r.is \in Keywords(f.kind) /\ (r.is = "format" => r.of[1] \notin Unnamed)}

\* applyRepeatedRules; a map gets none.
WrapperKeywords(f) ==
    IF f.card = "list" THEN {r \in f.wrap : r.is \in {"min_items", "max_items", "unique"}} ELSE {}
------------------------------------------------------------------------------
Elements(card, v) == IF card = "single" THEN {v} ELSE ToSet(v)

(* A rule that both sides read alike *)
Matches(v, r) ==
    \/ r.is = "const" /\ v = r.of
    \/ r.is = "in" /\ (r.of # {} => v \in r.of)
    \/ r.is = "not_in" /\ v \notin r.of
    \/ r.is = "len" /\ Len(v) = r.of
    \/ r.is \in {"min_len", "min_items"} /\ Len(v) >= r.of
    \/ r.is \in {"max_len", "max_items"} /\ Len(v) <= r.of
    \/ r.is = "pattern" /\ v \in r.of
    \/ r.is = "format" /\ v \in r.of[2]
    \/ r.is = "unique" /\ Cardinality(ToSet(v)) = Len(v)

(* A JSON Schema validator *)
KeywordHolds(kind, v, r) ==
    IF kind \in Wide THEN r.is \notin {"const", "in"}   \* the value is a string, the keyword a number
    ELSE IF kind = "bytes" THEN Matches(SubSeq(v \o v \o v \o v, 1, 4 * ((Len(v) + 2) \div 3)), r)   \* base64
    ELSE IF r.is \in Bounds
    THEN \/ (r.is = "gt" /\ v > r.of) \/ (r.is = "gte" /\ v >= r.of)
         \/ (r.is = "lt" /\ v < r.of) \/ (r.is = "lte" /\ v <= r.of)
    ELSE Matches(v, r)

(* protovalidate *)
\* A lower bound above the upper one means outside of the two.
Lower(rules) == {r \in rules : r.is \in {"gt", "gte"}}
Upper(rules) == {r \in rules : r.is \in {"lt", "lte"}}
Reversed(rules) == \E lo \in Lower(rules), up \in Upper(rules) : lo.of > up.of
InRange(v, rules) ==
    LET above == \A r \in Lower(rules) : v > r.of \/ (r.is = "gte" /\ v = r.of)
        below == \A r \in Upper(rules) : v < r.of \/ (r.is = "lte" /\ v = r.of) IN
    IF Reversed(rules) THEN above \/ below ELSE above /\ below

HasPart(v, part) == \E i \in 0..(Len(v) - Len(part)) : SubSeq(v, i + 1, i + Len(part)) = part
Meets(v, r) ==
    \/ Matches(v, r)
    \/ r.is = "prefix" /\ IsPrefix(r.of, v)
    \/ r.is = "suffix" /\ IsSuffix(r.of, v)
    \/ r.is = "contains" /\ HasPart(v, r.of)
    \/ r.is = "not_contains" /\ ~HasPart(v, r.of)
    \/ r.is = "len_bytes" /\ Len(v) = r.of
    \/ r.is = "min_bytes" /\ Len(v) >= r.of
    \/ r.is = "min_pairs" /\ Len(v) >= r.of
    \/ r.is = "max_pairs" /\ Len(v) <= r.of
    \/ r.is = "defined_only" /\ v \in r.of

ValueMeets(kind, v, rules) ==
    /\ \A r \in rules : r.is \notin Bounds => Meets(v, r)
    /\ kind \in Numeric => InRange(v, rules)
===============================================================================
