------------------------------ MODULE FieldPaths ------------------------------
(***************************************************************************)
(* The dotted paths of an annotation (URI bindings, item_path, blob_field, *)
(* the variables of Mustache templates): how the generator resolves them   *)
(* on a message (internal/gen/schema/template.go), and which fields the    *)
(* code it emits then reads or sets (internal/gen/mustache.go,             *)
(* internal/gen/resources.go).                                             *)
(*                                                                         *)
(* A file is the descriptors at hand: [input, output, fields, oneofs], the *)
(* two message types of the RPC, and for every type its fields in their    *)
(* order.  A use is [role, path].                                          *)
(***************************************************************************)
EXTENDS Naturals, Sequences, FiniteSets

Nowhere == "nowhere"   \* in place of a type
NoField == [name |-> Nowhere, json |-> Nowhere, kind |-> "none", card |-> "single", target |-> Nowhere,
            marks |-> {}]

FieldsOf(file, type) == IF type = Nowhere THEN {} ELSE {file.fields[type][i] : i \in DOMAIN file.fields[type]}
Pick1(fields) == IF fields = {} THEN NoField ELSE CHOOSE f \in fields : TRUE
ByJSON(file, type, name) == Pick1({f \in FieldsOf(file, type) : f.json = name})
ByName(file, type, name) == Pick1({f \in FieldsOf(file, type) : f.name = name})

\* findField, findProtoField: by JSON name first, then by proto name.
FindField(file, type, name) ==
    IF ByJSON(file, type, name) # NoField THEN ByJSON(file, type, name) ELSE ByName(file, type, name)

\* findProtogenField: the first field that has the name in either way.
FirstNamed(file, type, name) ==
    IF ~\E f \in FieldsOf(file, type) : name \in {f.name, f.json} THEN NoField
    ELSE LET fs == file.fields[type]
             i == CHOOSE k \in DOMAIN fs : /\ name \in {fs[k].name, fs[k].json}
                                           /\ \A j \in 1..(k - 1) : name \notin {fs[j].name, fs[j].json}
         IN fs[i]

\* mustacheGoGetter: by proto name first.
NamedFirst(file, type, name) ==
    IF ByName(file, type, name) # NoField THEN ByName(file, type, name) ELSE ByJSON(file, type, name)

Singular(f) == f.kind = "message" /\ f.card = "single"
Excluded(f) == "exclude" \in f.marks

\* The fields that the segments of path name, each found by Find in the message the
\* one before it leads to.
Along(file, type, path, Find(_, _, _)) ==
    LET walk[i \in 0..Len(path)] ==
            IF i = 0 THEN [field |-> NoField, type |-> type]
            ELSE LET f == Find(file, walk[i - 1].type, path[i]) IN
                 [field |-> f, type |-> IF Singular(f) THEN f.target ELSE Nowhere]
    IN [i \in DOMAIN path |-> walk[i].field]

\* Bug: an excluded field backs a path like any other.
ResolvesExcluded(file, type, path) ==
    path # <<>> /\ LET along == Along(file, type, path, FindField) IN \A i \in DOMAIN path : along[i] # NoField

\* resolveFieldPath, validateFieldPath
Resolves(file, type, path) ==
    /\ path # <<>>
    /\ LET along == Along(file, type, path, FindField) IN
       \A i \in DOMAIN path : along[i] # NoField /\ ~Excluded(along[i])
Terminal(file, type, path, Find(_, _, _)) == Along(file, type, path, Find)[Len(path)]

\* ResolveItemMessage: a repeated message
ItemType(file, path) ==
    IF ~Resolves(file, file.output, path) THEN Nowhere
    ELSE LET f == Terminal(file, file.output, path, FindField) IN
         IF f.kind = "message" /\ f.card = "list" THEN f.target ELSE Nowhere

\* The message a use is resolved on: a read's bindings and an elicitation's variables
\* on the request, a lister's on the items, everything else on the response.
Base(file, use, itemPath) ==
    IF use.role \in {"bind", "elicit_variable"} THEN file.input
    ELSE IF use.role \in {"item_bind", "item_variable"} THEN ItemType(file, itemPath) ELSE file.output

\* The fields the emitted code gets to: templates are rendered from masked JSON.
Reads(file, use, itemPath) ==
    LET base == Base(file, use, itemPath) IN
    IF use.role = "bind" THEN Along(file, base, use.path, FirstNamed)
    ELSE IF use.role = "elicit_variable" THEN Along(file, base, use.path, NamedFirst)
    ELSE IF use.role \in {"variable", "item_variable"} THEN Along(file, base, use.path, ByJSON)
    ELSE Along(file, base, use.path, FindField)

\* buildResourceReadTemplateData, buildResourceListTemplateData,
\* buildElicitationTemplateData, buildPromptTemplateData
Usable(file, use, itemPath) ==
    LET base == Base(file, use, itemPath)
        last == Terminal(file, base, use.path, FindField) IN
    /\ Resolves(file, base, use.path)
    /\ use.role = "bind" => Terminal(file, base, use.path, FirstNamed).kind = "string"
    /\ use.role = "item_bind" => last.kind = "string"
    /\ use.role = "item" => ItemType(file, use.path) # Nowhere
    /\ use.role = "blob" => last.kind = "bytes"
===============================================================================
