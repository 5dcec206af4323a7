------------------------------- MODULE MCMasking -------------------------------
\* Every message of at most MaxNodes values over a small set of descriptors.
EXTENDS Masking, Sequences
CONSTANT MaxNodes

Field(n, o, t, s, k) == [name |-> n, owner |-> o, target |-> t, shape |-> s, marks |-> k]
MCTypes == {"Root", "Item", "Strict", "Plain", "Any", "Struct", "Lost"}
Declared ==
    {Field("secret", "Root", "Scalar", "scalar", {"exclude"}),
     Field("groups", "Root", "Item", "group list", {}),
     Field("any", "Root", "Any", "message", {}),
     Field("hidden", "Root", "Plain", "message", {"rpc", "output_only"}),
     Field("token", "Item", "Scalar", "scalar", {"exclude"}),
     Field("key", "Strict", "Scalar", "scalar", {"exclude", "required"}),
     Field("any", "Item", "Any", "map", {}),
     Field("text", "Plain", "Scalar", "scalar", {})}
Payloads == {Field("value", "Any", t, "payload", {}) : t \in MCTypes \ {"Root"}}
MCFields == Declared \cup Payloads

Repeated(f) == f.shape \in {"list", "map", "group list"}
\* A tree of n values is one of n - 1 and a last value, in breadth-first order.
Fits(t, u, f) ==
    /\ f.owner = IF u = 0 THEN t.type ELSE t.via[u].target
    /\ \A j \in DOMAIN t.up :
        t.up[j] <= u /\ (t.up[j] = u => t.via[j].shape # "payload" /\ (t.via[j] = f => Repeated(f)))
Grown(t, u, f) ==
    [type |-> t.type, up |-> Append(t.up, u), via |-> Append(t.via, f),
     depth |-> Append(t.depth, IF u = 0 THEN 1 ELSE t.depth[u] + 1)]
Grow(trees) ==
    UNION {UNION {{Grown(t, u, f) : f \in {g \in Fields : Fits(t, u, g)}} : u \in 0..Len(t.up)} :
           t \in {x \in trees : Len(x.up) < MaxNodes}}
Trees0 == {[type |-> r, up |-> <<>>, via |-> <<>>, depth |-> <<>>] : r \in {"Root", "Plain"}}
Trees1 == Grow(Trees0)
Trees2 == Grow(Trees1)
Trees3 == Grow(Trees2)
Trees4 == Grow(Trees3)
Trees5 == Grow(Trees4)
BelowIn(t) ==
    LET b[k \in 0..Len(t.up)] ==   \* from the last value, which has nothing below it
            LET n == Len(t.up) - k IN {n} \cup UNION {b[Len(t.up) - c] : c \in {x \in DOMAIN t.up : t.up[x] = n}}
    IN [n \in 0..Len(t.up) |-> b[Len(t.up) - n]]
\* A message that was decoded has its required fields.
Complete(t, bad) ==
    \A i \in DOMAIN t.up : t.via[i].target = "Strict" => i \in bad \/ i \in {t.up[j] : j \in DOMAIN t.up}
MCMessages ==
    UNION {{[nodes |-> 0..Len(t.up), root |-> 0, type |-> t.type, up |-> t.up, via |-> t.via,
             below |-> BelowIn(t), depth |-> [n \in 0..Len(t.up) |-> IF n = 0 THEN 0 ELSE t.depth[n]],
             corrupt |-> bad] :
            bad \in {b \in {{}} \cup {{i} : i \in {j \in DOMAIN t.up : t.via[j].shape = "payload"}} :
                        Complete(t, b)}} :
           t \in Trees0 \cup Trees1 \cup Trees2 \cup Trees3 \cup Trees4 \cup Trees5}
==============================================================================
