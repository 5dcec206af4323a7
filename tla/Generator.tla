------------------------------ MODULE Generator ------------------------------
(***************************************************************************)
(* One run of protoc-gen-mcp (internal/gen/generator.go) over the RPCs of  *)
(* a request, file by file and service by service: what it rejects, what   *)
(* it emits, and what becomes of the emitted registrars when a program     *)
(* calls each of them once on one Server.                                  *)
(***************************************************************************)
EXTENDS Schema

CONSTANTS N,                  \* RPCs of the request, in order
          MethodsPerService, ServicesPerFile,
          MaxRecursionDepth,  \* Options.MaxRecursionDepth
          Requests            \* requests there may be, see request

Primitives == {"tool", "template", "list", "feed", "prompt"}
\* The annotations of an RPC and what the generator looks at besides:
\* "elicitation"; the streaming kinds; "read_only" and "mutating" (the RPC's or the
\* tool's name starts with a mutating verb); "malformed": a template, a name or an
\* exclude_from_outputs that does not parse or names nothing.
Marks == Primitives \cup {"elicitation", "server_stream", "client_stream",
                          "read_only", "mutating", "malformed"}

ASSUME GeneratorOK ==
    /\ N \in Nat /\ {MethodsPerService, ServicesPerFile} \subseteq Nat \ {0}
    /\ MaxRecursionDepth \in Nat \ {0}
    /\ \A r \in Requests : DOMAIN r = 1..N /\ \A i \in 1..N : r[i].marks \subseteq Marks

RPCs == 1..N
ServiceOf(i) == (i - 1) \div MethodsPerService
FileOf(i) == ServiceOf(i) \div ServicesPerFile

VARIABLES request,        \* request[i]: an RPC's marks, derived name (of tool, prompt or
                          \* URI template), messages, path uses and item_path:
                          \* [marks, name, file, uses, itemPath]
          phase,          \* "pass", "accepted", "rejected", "panicked"
          next,           \* the RPC at hand
          emitted,        \* tool names, of the whole run
          promptEmitted,  \* prompt names, each with its file
          listSite, feedSite,  \* resourceListSite, resourceListChangedSite, 0 for ""
          service,        \* svcData: what the service at hand emits
          output,         \* what the generated files hold
          called,         \* what the program has registered or started
          claimed         \* keys on the program's Server

passVars == <<next, emitted, promptEmitted, listSite, feedSite, service, output>>
vars == <<request, phase, passVars, called, claimed>>

Init ==
    /\ request \in Requests
    /\ phase = "pass" /\ next = 1 /\ emitted = {} /\ promptEmitted = {}
    /\ listSite = 0 /\ feedSite = 0 /\ service = {} /\ output = {} /\ called = {} /\ claimed = {}

Has(i, mark) == mark \in request[i].marks
Name(i) == request[i].name

\* hasAnyPrimitiveAnnotation
Annotated(i) == \E p \in Primitives : Has(i, p)

\* The part of the pass that looks at RPC next, every RPC before it emitted.
AtMethod == phase = "pass" /\ next <= N /\ \A e \in service : ServiceOf(e[2]) = ServiceOf(next)
------------------------------------------------------------------------------
\* What an RPC is rejected for on its own, in the order of the checks.
StandaloneElicitation(i) == Has(i, "elicitation") /\ ~Has(i, "tool")
ClientStreaming(i) == Annotated(i) /\ Has(i, "client_stream")
ElicitedStream(i) == Has(i, "elicitation") /\ Has(i, "server_stream")
StreamedResource(i) == Has(i, "server_stream") /\ (Has(i, "template") \/ Has(i, "list"))
UnaryFeed(i) == Has(i, "feed") /\ ~Has(i, "server_stream")
ReadOnlyMutator(i) == Has(i, "tool") /\ Has(i, "read_only") /\ Has(i, "mutating")
StreamedPrompt(i) == Has(i, "prompt") /\ Has(i, "server_stream")

\* Its messages, schemas, arguments and paths.
Unbuildable(r) ==
    \/ ExclusionRefused(r.file)
    \/ "tool" \in r.marks /\ SchemaFails(r.file, MaxRecursionDepth)
    \/ "prompt" \in r.marks /\ PromptRefused(r.file)
    \/ \E use \in r.uses : ~Usable(r.file, use, r.itemPath)
Malformed(i) == Annotated(i) /\ (Has(i, "malformed") \/ Unbuildable(request[i]))

\* Bug: emitted is made anew for every file.
DuplicateToolInFile(i) ==
    Has(i, "tool") /\ \E j \in 1..(i - 1) : Has(j, "tool") /\ FileOf(j) = FileOf(i) /\ Name(j) = Name(i)

\* ... and for what was emitted before it.
DuplicateTool(i) == Has(i, "tool") /\ Name(i) \in emitted
SecondLister(i) == Has(i, "list") /\ listSite # 0
SecondFeed(i) == Has(i, "feed") /\ feedSite # 0
DuplicatePrompt(i) == Has(i, "prompt") /\ <<FileOf(i), Name(i)>> \in promptEmitted

Rejected(i) ==
    \/ StandaloneElicitation(i) \/ ClientStreaming(i) \/ ElicitedStream(i)
    \/ StreamedResource(i) \/ UnaryFeed(i) \/ ReadOnlyMutator(i) \/ Malformed(i)
    \/ DuplicateTool(i) \/ SecondLister(i) \/ SecondFeed(i)
    \/ StreamedPrompt(i) \/ DuplicatePrompt(i)

\* The run fails and writes no file.
Reject ==
    /\ AtMethod /\ Rejected(next) /\ phase' = "rejected"
    /\ UNCHANGED <<request, passVars, called, claimed>>

Skip ==
    /\ AtMethod /\ ~Annotated(next) /\ ~Has(next, "elicitation") /\ next' = next + 1
    /\ UNCHANGED <<request, phase, emitted, promptEmitted, listSite, feedSite, service, output, called, claimed>>

Emit ==
    /\ AtMethod /\ Annotated(next) /\ ~Rejected(next)
    /\ emitted' = IF Has(next, "tool") THEN emitted \cup {Name(next)} ELSE emitted
    /\ promptEmitted' = IF Has(next, "prompt") THEN promptEmitted \cup {<<FileOf(next), Name(next)>>} ELSE promptEmitted
    /\ listSite' = IF Has(next, "list") THEN next ELSE listSite
    /\ feedSite' = IF Has(next, "feed") THEN next ELSE feedSite
    /\ service' = service \cup ((Primitives \cap request[next].marks) \X {next})
    /\ next' = next + 1
    /\ UNCHANGED <<request, phase, output, called, claimed>>

\* Bug: HasResources looks at the resource templates only.
ListsNotCounted(entries) == \E e \in entries : e[1] \in {"tool", "template", "prompt"}

\* Tools, HasResources or Prompts: without them the service is left out.
Kept(entries) == \E e \in entries : e[1] \in {"tool", "template", "list", "prompt"}

\* The service's last RPC is done.
CloseService ==
    /\ phase = "pass" /\ service # {}
    /\ next = N + 1 \/ \E e \in service : ServiceOf(e[2]) # ServiceOf(next)
    /\ output' = IF Kept(service) THEN output \cup service ELSE output
    /\ service' = {}
    /\ UNCHANGED <<request, phase, next, emitted, promptEmitted, listSite, feedSite, called, claimed>>

Accept ==
    /\ phase = "pass" /\ next = N + 1 /\ service = {} /\ phase' = "accepted"
    /\ UNCHANGED <<request, passVars, called, claimed>>
------------------------------------------------------------------------------
\* The key an entry claims at runtime: MustAdd* and RegisterResourceLister panic
\* when it is taken.  A watcher claims none.
Key(e) == IF e[1] = "list" THEN <<"list", 0>> ELSE <<e[1], Name(e[2])>>
Keys(e) == IF e[1] = "feed" THEN {} ELSE {Key(e)}

\* The program calls Register<Svc>MCPTools, ...MCPResources, ...MCPPrompts and
\* Start<Svc>MCPResourceListChangedWatchers, service by service.
Call(e) ==
    /\ phase = "accepted" /\ e \in output \ called
    /\ \A d \in output \ called : ServiceOf(e[2]) <= ServiceOf(d[2])
    /\ called' = called \cup {e}
    /\ IF Keys(e) \cap claimed = {}
       THEN claimed' = claimed \cup Keys(e) /\ UNCHANGED phase
       ELSE phase' = "panicked" /\ UNCHANGED claimed
    /\ UNCHANGED <<request, passVars>>

Next == Reject \/ Skip \/ Emit \/ CloseService \/ Accept \/ \E e \in Primitives \X RPCs : Call(e)
Spec == Init /\ [][Next]_vars
------------------------------------------------------------------------------
Up == phase = "accepted" /\ called = output

\* What is emitted belongs to the service at hand or to a closed one, and the one
\* lister to the RPC that claimed the site.
TypeOK ==
    /\ request \in Requests
    /\ phase \in {"pass", "accepted", "rejected", "panicked"} /\ next \in 1..(N + 1)
    /\ emitted \subseteq {request[i].name : i \in RPCs} /\ {listSite, feedSite} \subseteq 0..N
    /\ service \cup output \subseteq Primitives \X RPCs /\ called \subseteq output
    /\ \A e, f \in service : ServiceOf(e[2]) = ServiceOf(f[2])
    /\ {e \in service \cup output : e[1] = "list"} = IF listSite = 0 THEN {} ELSE {<<"list", listSite>>}

\* "cross-file collisions are caught here at codegen time": a program that calls
\* every registrar of an accepted run once is never taken down by a tool's name or
\* by a second lister.  Prompt names and URI templates are left to the runtime.
StartsUnlessRuntimeKeysCollide ==
    phase = "panicked" =>
        \E e, d \in called : e # d /\ e[1] = d[1] /\ e[1] \in {"template", "prompt"} /\ Name(e[2]) = Name(d[2])

\* A run that succeeds leaves nothing out: once the program is up, every tool,
\* template, lister and prompt annotation of the request is served.
EveryPrimitiveServed ==
    Up => \A i \in RPCs : \A p \in Primitives \ {"feed"} :
              Has(i, p) => Key(<<p, i>>) \in claimed

\* "The annotated RPC becomes one goroutine running inside protomcp.RetryLoop".
EveryFeedWatched == Up => \A i \in RPCs : Has(i, "feed") => <<"feed", i>> \in called
==============================================================================
