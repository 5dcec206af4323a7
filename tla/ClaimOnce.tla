------------------------------ MODULE ClaimOnce ------------------------------
(***************************************************************************)
(* What protomcp.Server promises about its four primitive registries: a    *)
(* key is bound at most once and the binding never changes afterwards      *)
(* (pkg/protomcp/registration.go, the package comment).  Registration.tla  *)
(* implements this module.                                                 *)
(***************************************************************************)
CONSTANTS Kinds,     \* tool, resource, resource template, prompt
          Keys,      \* names and URIs
          Handlers,  \* what a key can be bound to
          Unbound    \* not a handler

VARIABLE bound       \* bound[kind][key]: the handler the server answers with

Init == bound = [kind \in Kinds |-> [key \in Keys |-> Unbound]]

Bind(kind, key, handler) ==
    /\ bound[kind][key] = Unbound
    /\ bound' = [bound EXCEPT ![kind][key] = handler]

Next == \E kind \in Kinds, key \in Keys, handler \in Handlers :
            Bind(kind, key, handler)

Spec == Init /\ [][Next]_bound
==============================================================================
