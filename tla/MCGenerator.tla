----------------------------- MODULE MCGenerator -----------------------------
(***************************************************************************)
(* Finite instance of ToolContract: two services in two files, the first   *)
(* with two RPCs, the second with one.  Either the three RPCs have any     *)
(* annotations and empty messages, or the first one has a message that     *)
(* puts a part of schema generation to work.                               *)
(***************************************************************************)
EXTENDS ToolContract

CONSTANTS n1, n2

MarkSets ==
    {{}, {"tool"}, {"tool", "server_stream"}, {"tool", "elicitation"}, {"elicitation"},
     {"tool", "elicitation", "server_stream"}, {"tool", "client_stream"}, {"tool", "read_only", "mutating"},
     {"tool", "read_only"}, {"template"}, {"template", "tool"}, {"template", "server_stream"}, {"list"},
     {"list", "malformed"}, {"feed"}, {"feed", "server_stream"}, {"feed", "tool", "server_stream"},
     {"prompt"}, {"prompt", "tool"}, {"prompt", "server_stream"}}

RPC(marks, name, file, uses, itemPath) ==
    [marks |-> marks, name |-> name, file |-> file, uses |-> uses, itemPath |-> itemPath]
Empty == [input |-> "M", output |-> "M", fields |-> [t \in {"M"} |-> <<>>], oneofs |-> [t \in {"M"} |-> {}]]
Packages == [1..3 -> {RPC(marks, name, Empty, {}, <<>>) : marks \in MarkSets, name \in {n1, n2}}]
------------------------------------------------------------------------------
(* One field, in every kind, with its rules, presence, ignore rule and marks *)
R(is, of) == [is |-> is, of |-> of]
F(name, kind, rules) ==
    [name |-> name, json |-> name, kind |-> kind, target |-> "", card |-> "single", presence |-> FALSE,
     oneof |-> "", marks |-> {}, ignore |-> "no", rules |-> rules, wrap |-> {}, defined |-> {0, 1, 2}]
One(f) == [input |-> "M", output |-> "M", fields |-> [t \in {"M"} |-> <<f>>], oneofs |-> [t \in {"M"} |-> {}]]

NumberRules ==
    {{}, {R("gt", 0)}, {R("gte", 1), R("lt", 3)}, {R("gt", 2), R("lte", 0)}, {R("lte", -1)}, {R("const", 2)},
     {R("in", {1, 2})}, {R("not_in", {0, 3})}}
StringRules ==
    {{R("min_len", 1)}, {R("max_len", 1)}, {R("len", 1)}, {R("prefix", <<1>>)}, {R("suffix", <<2>>)},
     {R("contains", <<2>>)}, {R("not_contains", <<1>>)}, {R("len_bytes", 2)}, {R("pattern", {<<1>>, <<2>>})},
     {R("len", 1), R("min_len", 0)}, {R("format", <<"email", {<<1>>}>>)}, {R("format", <<"ulid", {<<1>>}>>)},
     {R("const", <<1>>)}, {R("in", {<<>>, <<1>>})}, {R("not_in", {<<>>})}}
EnumRules == {{}, {R("in", {1, 2})}, {R("not_in", {0})}, {R("const", 1)}, {R("defined_only", {0, 1, 2})}}
Scalars ==
    {F("f", k, rs) : k \in {"int32", "int64", "fixed32"}, rs \in NumberRules} \cup
    {F("f", "string", rs) : rs \in StringRules} \cup
    {F("f", "bytes", {R("min_len", 2)}), F("f", "bool", {R("const", TRUE)}), F("f", "message", {})} \cup
    {F("f", "enum", rs) : rs \in EnumRules}
Lists ==
    {[F("f", "int32", rs) EXCEPT !.card = "list", !.wrap = w] :
        rs \in {{}, {R("gt", 0)}}, w \in {{R("min_items", 1)}, {R("max_items", 1)}, {R("unique", TRUE)}}} \cup
    {[F("f", "enum", {R("in", {1})}) EXCEPT !.card = "list"],
     [F("f", "int32", {R("gt", 0)}) EXCEPT !.card = "map", !.wrap = {R("min_pairs", 1)}]}
Uses1 == {{}, {"exclude"}, {"output_only"}, {"exclude_here"}, {"rule_required"}, {"exclude", "rule_required"},
          {"schema_required"}, {"behavior_required"}}
Singles ==
    {One([f EXCEPT !.marks = m, !.ignore = ig, !.presence = p \/ f.kind = "message",
                   !.target = IF f.kind = "message" THEN "M" ELSE ""]) :
        f \in Scalars, m \in Uses1, ig \in {"no", "zero", "always"}, p \in {TRUE, FALSE}}
Repeated == {One([f EXCEPT !.marks = m, !.ignore = ig]) : f \in Lists, m \in Uses1, ig \in {"no", "zero", "always"}}
MCSamples(f) ==
    LET one == IF f.kind \in Numeric THEN {-1, 0, 1, 2, 3} ELSE IF f.kind = "enum" THEN f.defined
               ELSE IF f.kind = "bool" THEN BOOLEAN ELSE IF f.kind = "message" THEN {<<>>}
               ELSE {<<>>, <<1>>, <<2>>, <<1, 2>>} IN
    IF f.card = "single" THEN one ELSE {<<>>, <<0>>, <<1>>, <<1, 1>>, <<1, 2>>}
------------------------------------------------------------------------------
(* Oneofs, nested and recursive messages, comments *)
Arm(name, marks) == [F(name, "int32", {}) EXCEPT !.presence = TRUE, !.oneof = "o", !.marks = marks]
Hidings == {{}, {"exclude"}, {"output_only"}, {"exclude_here"}}
Oneofs ==
    {[input |-> "M", output |-> "M", fields |-> [t \in {"M"} |-> <<Arm("f", a), Arm("g", b)>>],
      oneofs |-> [t \in {"M"} |-> {[name |-> "o", required |-> req]}]] : a \in Hidings, b \in Hidings, req \in BOOLEAN}

Child(name, type, card) == [F(name, "message", {}) EXCEPT !.target = type, !.presence = card = "single", !.card = card]
Trees ==
    {[input |-> "M", output |-> "M",
      fields |-> [t \in {"M", "K"} |-> IF t = "M" THEN m ELSE k],
      oneofs |-> [t \in {"M", "K"} |-> {}]] :
        m \in {<<Child("l", "M", "single"), Child("r", "M", "single")>>,
               <<Child("l", "K", "single"), Child("r", "K", "list")>>,
               <<Child("l", "K", "map"), Child("r", "M", "list")>>},
        k \in {<<Child("l", "M", "single")>>, <<Child("l", "K", "single")>>,
               <<[F("f", "int32", {R("gt", 0)}) EXCEPT !.marks = {"exclude"}]>>,
               <<[F("f", "int32", {}) EXCEPT !.marks = {"bad_example"}]>>}}

Annotations == {{"tool"}, {"tool", "server_stream"}, {"prompt"}}
Messages == {RPC({"tool"}, n1, file, {}, <<>>) : file \in Singles \cup Repeated} \cup
            {RPC(marks, n1, file, {}, <<>>) : marks \in Annotations, file \in Oneofs \cup Trees}
------------------------------------------------------------------------------
(* Paths *)
At(role, path) == [role |-> role, path |-> path]
Items ==
    {[input |-> "M", output |-> "M",
      fields |-> [t \in {"M", "K"} |->
          IF t = "M" THEN <<F("id", "string", {}), [Child("items", "K", "list") EXCEPT !.json = "its"],
                            [Child("only", "K", "single") EXCEPT !.marks = hide[1]]>>
          ELSE <<[F("key", "string", {}) EXCEPT !.json = json, !.marks = hide[2]],
                 [F(other, "bytes", {}) EXCEPT !.json = "d"]>>],
      oneofs |-> [t \in {"M", "K"} |-> {}]] :
        hide \in {<<a, b>> : a, b \in {{}, {"exclude"}}}, json \in {"key", "k"}, other \in {"data", "k"}}
Bound ==
    {RPC({"template"}, n1, file, {At("bind", path)}, <<>>) :
        file \in Items, path \in {<<"id">>, <<"only", "key">>, <<"only", "k">>, <<"only">>, <<"its", "key">>}} \cup
    {RPC({"list"}, n1, file, {At("item", path), At("item_bind", <<key>>), At("item_variable", <<"key">>)}, path) :
        file \in Items, path \in {<<"items">>, <<"its">>, <<"only">>}, key \in {"key", "k", "data"}} \cup
    {RPC({"template"}, n1, file, {At("blob", path), At("variable", <<"only", "k">>)}, <<>>) :
        file \in Items, path \in {<<"only", "data">>, <<"only", "key">>}} \cup
    {RPC({"tool", "elicitation"}, n1, file, {At("elicit_variable", path)}, <<>>) :
        file \in Items, path \in {<<"id">>, <<"only", "k">>, <<"none">>}}

None == RPC({}, n2, Empty, {}, <<>>)
MCRequests == Packages \cup {<<r, None, None>> : r \in Messages \cup Bound}
==============================================================================
