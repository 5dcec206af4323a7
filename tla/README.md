# A verification project for protomcp

protomcp turns annotated protobuf services into MCP (Model Context Protocol)
servers: the plugin `protoc-gen-mcp` reads `protomcp.v1` annotations and emits Go
registrars; the runtime `pkg/protomcp` wraps the MCP Go SDK's server with
middleware, error handlers, result processors, masking, pagination and change
notifications; the examples wire both to gRPC servers.

This directory holds TLA+ models of the parts of that program that keep state or
decide something, the TLC configurations that check them, and TLAPS proofs.
All paths below are relative to the repository root (`src/` in PROJECT.json).

## 1. Inventory

| Component | State | Operations | Talks to |
|---|---|---|---|
| Registration (`pkg/protomcp/registration.go`) | four claimed-key maps under `registrationMu`; the SDK's replacing registries | `MustAddTool/Resource/ResourceTemplate/Prompt`, `Registered*` snapshots, `SDK()` escape hatch | SDK (accepts, or panics), generated registrars |
| Resource lister (`resource_list.go`) | `lister` under `listerRegMu`; the SDK's middleware chain | `RegisterResourceLister`, `resourcesListMiddleware` | SDK dispatch of `resources/list` |
| Change watcher (`list_changed.go`, `internal/gen/templates/file.go.tmpl`) | the retry loop's backoff; the upstream stream; the SDK's template registry (sentinel) | `RetryLoop`, `NotifyResourceListChanged`, the generated `Start...` goroutine | gRPC stream, SDK debounced notification |
| Tasks store (`examples/tasks/server/server.go`) | tasks and tags under `mu`; subscriber channels under `changesMu` | CRUD, `subscribeChanges`, `broadcastChange`, `WatchResourceChanges`, `ListAllResources` | `OnChange` callback, the watcher |
| Call pipeline (`pipeline.go`, `server.go`, `prompt.go`, `resource.go`, `errors.go`, `result.go`) | the request data shared by middleware, error handler and processors | `chain`, `handleError`, `finish`, `Finish*` | user middleware, handlers, processors |
| Generated handlers (`tool`, `prompt`, `resource_read`, `resource_list` templates, `elicitation.go`, `metadata.go`) | progress count, outgoing metadata, the elicitation answer | decode, clear, elicit, chain, upstream call or stream, render, finish | SDK session, upstream gRPC |
| Pagination (`pagination.go`) | none between calls but the opaque cursor | offset and page-token middleware and processors | list backends |
| Field clearing and masking (`fieldbehavior.go`, `schemamask.go`) | the message being walked | `ClearOutputOnly`, `ClearSchemaExcluded`, `MarshalProtoMasked...` | descriptors, Any resolver |
| Completion (`completion.go`) | completion table under a RWMutex; the caller's `ServerOptions` | `RegisterPromptArgCompletions`, the wrapped handler | SDK |
| Generator (`internal/gen`) | names emitted so far, the one lister and the one watcher site | `GenerateWithOptions`, annotation checks, emitting registrars | protoc |
| Schema generation (`internal/gen/schema`, `mustache.go`, `resources.go`) | per-message recursion counters | `ForInputE`, `ForOutputE`, exclusion checks, the lookup of dotted paths | protovalidate rules, the emitted getters |
| Subscription examples (`examples/subscriptions`) | event channel, once-started watcher, heartbeat reference counts | subscribe, unsubscribe, change events, heartbeat ticks | SDK sessions |
| Other examples, auth, HTTP wiring, generated code | - | - | - |

What is hard in this code, and what the properties are for: goroutines of two
processes that meet over a registry, a channel or a debounce timer; a panic
between two steps under a deferred unlock; user callbacks that may return
anything and call `next` again; retries and replays of an answer given to another
question; pages read from a collection that changes; retries with backoff over a
stream that breaks; a recursive walk that must neither miss a marked field nor
lose an unmarked one; a generator whose checks must leave nothing for the
program's start-up to trip over; and schemas whose every promise another program,
protovalidate or the client's validator, holds the server to. `PROJECT.json` lists every such place, with its
line, under `hazards`.

## 2. Modules

| Module | Models | State and actions |
|---|---|---|
| `ClaimOnce` | abstract: a registry that binds a key once | `bound`; `Claim` |
| `Registration` | `registration.go` | one step per statement of `claimAndRegister` that another goroutine can see: lock, check, SDK call (accepts or panics), record, deferred unlock; the `Registered*` snapshots; `SDK()` writes that bypass the claim. `Registration!WriteOnce` refines `ClaimOnce` |
| `Completion` | composes `Registration` with `completion.go` | a prompt's registration returns, its completion values go into the table; an answer is the caller's handler's or the table's |
| `RetryLoop` | `list_changed.go` `RetryLoop` | test of ctx, fn, `reset`, the jittered sleep, the doubled and capped backoff |
| `ChangeFeed` | the tasks store | write commits, channels are copied, ticks sent one by one without blocking; streams subscribe, turn ticks into events, leave and close |
| `ListChanged` | composes `ChangeFeed` and `RetryLoop` with the generated watcher and `NotifyResourceListChanged` | dial, receive, fail, add and remove the sentinel (two steps), the SDK's debounce, the client's relist |
| `Pipeline` | abstract: `pipeline.go`, `errors.go`, the `Finish*` functions around any final handler | the chain as a stack of running middleware; each callback a step with every return its type allows |
| `Handlers` | the four generated handlers; its `Spec` implements `PipelineSpec` | decoding, the gate, metadata on the context and in `g`, the gRPC call, unary and streaming finals, rendering, progress, disconnect |
| `Elicitation` | the gate of the tool handler and `elicitation.go` against the SDK's client | a `CallToolParams` struct that keeps the last answer and state, requests in flight, abandoned calls |
| `ResourceList` | `resource_list.go`, `pagination.go`, the list handler, `ListAllResources` | registering the lister in two steps, dispatch, both pagination pairs, a client that walks while the store changes |
| `Masking` | `fieldbehavior.go`, `schemamask.go`, `HasExclusions` of `schema.go` and the calls the handlers make | a message as a tree of values; the recursion as the set of messages still to enter; Any payloads unpacked and encoded again; the JSON as the set of its keys; the strip pass |
| `FieldRules` | the `buf.validate` part of `schema.go`, and protovalidate | operators: which rules the zero value breaks, what is required, which rules become keywords, and what each side makes of a value |
| `FieldPaths` | `template.go`, `mustache.go`, `resources.go` | operators: how a dotted path is resolved when it is checked, and by each kind of emitted code |
| `Schema` | the rest of `schema.go`, prompt arguments of `prompt.go` | the walk from a message to the set of its schema's nodes, with the recursion counters; what may not be excluded |
| `Generator` | `generator.go` with the checks of `annotations.go`, `lint.go`, `exclusions.go`, `prompt.go` | one step per RPC: reject, skip, emit; the end of a service; then the program that calls the emitted registrars |
| `ToolContract` | composes `Generator` and one call of a tool it emitted | the client's arguments, what the handler forwards, the reply of an upstream with protovalidate |
| `Subscriptions` | the three servers of `examples/subscriptions` | gate and record as two steps, the lazily started watcher over a channel that drops, direct pushes, listen streams with reference counts and heartbeat, legacy requests, shutdown |

`Generator` extends `Schema`, which extends `FieldRules` and `FieldPaths`.

`MC*.tla` give the finite instances, `*Proofs.tla` the theorems. Operators whose
comment begins with "Bug:" are faulty variants of the operator below them; they
are used by no specification, and each breaks a property when put in the place of
that operator (`mutants` in `PROJECT.json`).

How the models stand to the code:

- A step is what another goroutine or callback can see as one: the body of a
  critical section is split where the code calls out (the SDK, a callback), and a
  function without a lock is split at its shared reads and writes.
- Panics are outcomes: `MustAdd*` unwinds through its deferred unlock; a send on
  a closed channel ends the process (`crashed`); a handler without result or
  error ends in `Panic`.
- The SDK, gRPC, protojson and the client are external and may do all their
  contracts allow: replace a registration, panic on one, fail a call or lose an
  answer at any time, delay a notification.
- The generated handlers are read in their generated form,
  `tasks.mcp.pb.go` and `greeter.mcp.pb.go` under `pkg/api/gen/examples`.
- User code (middleware, error handlers, processors, `fn`) is chosen freely at each
  call within its Go type.
- History variables (`returned`, `accepted`, `chain`, `seen`, ...) are marked so.

## 3. Runs

Every run finishes with all reachable states explored. Deadlock is not checked:
each system may stop (all calls made, all writes done).

| Run | Question and bounds |
|---|---|
| `registration` | two goroutines, one registry, two prompts (one also written through `SDK()`, the other with completion values) and the empty key, two calls each, recovered panics: all interleavings of claims, refusals, SDK panics, snapshots and completion tables. Two goroutines and two calls give every pair of overlapping critical sections and a retry; kinds do not interact (proved), so one is enough |
| `change_feed` | two writers, two streams of which one may hang, a buffer of one tick, two writes: a tick is dropped, a stream is cancelled, a writer is mid-broadcast. A buffer of one makes dropping happen; the theorem covers every size |
| `change_feed_crash` | **violated**: `NeverCrashes`. See section 6 |
| `list_changed` | one writer, two streams one after the other (so the watcher fails, sleeps and connects again), a direct caller of `NotifyResourceListChanged` beside the watcher: sentinel, debounce, delivery, exit on cancel. One backoff value: how it grows is `RetryLoop`'s, proved. One write, as a second makes the liveness check too large; `ChangeOnItsWay`, the safety half of `FreshWhileConnected`, is proved for any number of writes, and `change_feed` has two |
| `list_changed_fresh` | **violated**: `MutationsReachClient`. One writer, one stream, one write. See section 6 |
| `handlers` | four surfaces, two middleware, two processors, two runs of the final handler, two streamed messages; unary and streaming, gated or not, default and custom error handler: the smallest numbers that tell an order from its reverse and a first run from a second |
| `elicitation` | one struct reused for two tools with the same arguments, two requests in flight: an answer to one tool meets a call of the other |
| `resource_list` | three registrars (one passes nil), both pagination pairs, four items, pages of two, two creations or deletions, one lost answer, a foreign cursor, a hidden item: full, partial and empty last pages |
| `codegen` | every request of three RPCs (two services in two files), each with one of twenty combinations of annotations and one of two names; and requests of one RPC with one field of every kind, rule at its boundary, presence, ignore rule and mark, a oneof with two arms, messages that contain each other, or paths through them. Each rejection of the code, each pair of RPCs in one service or across files; a recursion depth of 2 truncates below a node that is not. A tool is called with every object over five numbers or four strings per field |
| `codegen_watcher` | **violated**: `EveryFeedWatched`. See section 6 |
| `masking` | every message of at most six values over eight field descriptors (marked, marked for one RPC, required, OUTPUT_ONLY, message, list of groups, map, Any) and Any payloads of six types, one of them unresolvable, at most one corrupt; each call a handler makes, each marshal option, a depth limit of four |
| `subscriptions` | each of the three servers, two sessions, two URIs of which one session may subscribe to one, a channel of one event, three writes, two subscribes, one legacy request: two streams share a URI and one ends, an event is dropped while another waits |

Fairness, and why the code gives it:

- `Registration`, `Completion`: a running goroutine runs on (weak); `sync.Mutex` hands
  itself to a waiter that has starved (strong on the lock).
- `ChangeFeed`: writers and the streams of live clients run on (weak); a stream in
  `Slow` may hang in `Send` for ever.
- `ListChanged`: goroutines run on, timers fire, a client that was told relists;
  writes, cancellations, broken streams, direct calls and failing dials are
  free (a dial fails for sure only once ctx is cancelled).
- `Handlers`: a goroutine runs on; gRPC fails the `Recv` of a cancelled call, however
  many messages are waiting (strong). Middleware and upstream owe nothing.
- `Elicitation`: the server handles what it receives; the user answers or gives up.
- `ResourceList`: the client walks on, the server answers.
- `Subscriptions`: the watcher, the handlers and the SDK's calls run on, the ticker
  ticks (weak). Clients and writes are free.

## 4. Proofs

All theorems hold for every value of the constants under the named assumptions of
the modules (`ConstantsOK`, `CompletionOK`, `FeedOK`, `BackoffOK`, `PipelineOK`,
`HandlersOK`, `ElicitationOK`, `ResourceListOK`, `GeneratorOK`, `ContractOK`,
`MaskingOK`, `SubscriptionsOK`), which TLC evaluates in the runs. Each module defines
an inductive invariant, or a few that are proved one after the other, shows that
`Init` gives it and that each action keeps it, one lemma or step per action, and
derives the theorems from it. Every safety invariant and every action property of a
passing run is proved, and so is every type invariant.

| Module | Proved | Why the invariant is what it is |
|---|---|---|
| `RegistrationProofs` | type correctness, `RegisteredIsServed`, `NoFalseDuplicate`, `SnapshotDiffExact`, the refinement of `ClaimOnce`, and `CompletesServedPrompt` | between record and unlock the key is claimed and the call has not returned, so the invariant says who is in that gap (`Recorded`); a bracket counts that key already. `TableInv`: what is in the table, or about to be put there, belongs to a returned call |
| `ListChangedProofs` | the parts alone: type correctness of the feed, `TriggerPending`, `AtMostOneEventPerWrite`; backoff within its bounds, every sleep within ten per cent of its backoff. The composition: each of its steps is a step of the feed or a stutter (`ListImplementsFeed`), and of the loop (`ListImplementsLoop`); type correctness, `SentinelOnlyInsideCall`, `ChangeOnItsWay` | `FeedIInv`: a dropped tick means a full buffer, and a full buffer is not empty because the capacity is not 0. `EventsInv`: events sent, ticks buffered and ticks still owed add up to no more than the writes since the subscribe. `LoopIInv`: the integer divisions by 10 and 5 are bounded for every backoff, so for the code's 100 ms and 30 s. `ChangeOnItsWay` is not inductive, as it says nothing of a client that is up to date when the next write commits; `OnWayInv` says that whoever has received all that was sent has heard of it, and `TriggerPending` has the rest |
| `PipelineProofs` | over `PipelineSpec`: type correctness, `EveryMiddlewareGuardsFinal`, `ErrorNeverSwallowed`, `DefaultHandlerKeepsErrors`, `ProcessorsSeeEveryResult`, `OutMatchesIsError`; `Handlers` implements it (`ImplementsPipeline`), so they hold of the handlers; over `Handlers`: type correctness, `CompleteOrNothing`, `ProgressCountsMessages`, `MetadataArrives` | the stack is an initial segment of the chain; `PhaseInv` carries the error from the chain to the answer; `DeliveryInv` ties a result of the final handler to the run of it that saw everything; `ProgressInv`: within a run, what was announced is below the count; `MetadataInv` bounds what each middleware has on the context and in `g` |
| `ElicitationProofs` | type correctness, `RunsOnlyAccepted`, `AsksOnce` | an "accept" travels with the state of the call it was given for, in memory and on the wire |
| `ResourceListProofs` | type correctness, `RegisteredListerServes`, `WalkSkipsNothing`, `WalkRepeatsNothing` | the slot belongs to whoever set it, and a returned registration has the middleware installed. `PositionInv`, `SkipInv`, `RepeatInv`: whatever was listed is behind the cursor, and whatever of the start is behind the cursor was listed. For offsets "behind" is a rank: the ranks of a finite collection are 0, 1, ... (`Ranks`, a bijection), so a full page moves the cursor by its size (`WindowCount`); a creation only raises ranks and a deletion only lowers them, hence the two exceptions for offsets |
| `GeneratorProofs` | of the pass: type correctness, `StartsUnlessRuntimeKeysCollide`, `EveryPrimitiveServed`. Of a tool: `ExcludedFieldsNeverFail`, `AdmitsWhatUpstreamTakes`, `OutputFits`, `ExpandsAlike`, `NothingHiddenBacks`; the composition implements the pass (`ContractRuns`). Of the operators: `NumericKeywords`, `FieldAdmits`, `WalkIs` | tool names of entries are in `emitted` and differ; the one lister is the claimed site's; `ServedInv`: an RPC the pass is done with is held, as a service that is dropped holds feeds only. `BuiltInv`: the messages of an emitted RPC passed the checks; `ExchangeInv`: what is forwarded holds the zero value in every hidden field; `ObjectInv`: a call's object is one of its message's. The rest is about operators, see below |
| `MaskingProofs` | type correctness, `MaskedClean`, `NothingElseCleared`, `NamesHidden` | a marked value that is still there hangs below a message still to visit (`Covered`), and a hidden key below an object still to strip (`KeysCovered`); `NoMatchBelow` shows that skipping by type skips nothing marked. `Apart`: nothing still to visit is below anything else still to visit, so clearing a field never clears a place the walk has yet to go |
| `SubscriptionsProofs` | type correctness, `WatchedWhileStreaming`, and that a write a live subscription has still to hear of is in a writer's hook, in the channel or with a watcher that runs (`OwedIsOnItsWay`) | `CountsInv`: a count is the number of subscriptions between gate and release, a finite set even if there are infinitely many sessions |

How the schema of a tool is proved about. `Schema!Walk` recurses as `messageSchema` does,
with recursion counters that are raised on the way down and given back on the way up.
`Tree` is the same set of nodes without recursion: the entries that belong to every
closed set that holds the root. `WalkIs` shows the two to be equal; the recursion ends
because each entry has less `Room`, a finite set, than the one above it. What
`ToolContract` asks of a schema is then said of its entries: a path leads to one entry
only (`PathsDiffer`), an entry's counter is the number of expanded nodes of that
type strictly above it (`CountsAre`), the keywords of each leaf admit what its rules let
through (`FieldAdmits`, by kind and rule), and oneofs put their arms' branches on top.
`NothingHiddenBacks` is shown along the path: the walk that checks it and the code that reads it
agree at every segment (`WalksAgree`).

Induction. The library's induction rules take an operator, which the provers cannot
instantiate. `SetInduction` is the same for a set of numbers, shown from the
well-foundedness of the subsets of a finite set; it goes along a path, a list of
fields or the `Room` of an entry.

What is assumed of a request (`ContractOK`, `FieldOK`, `RuleOK`) is what protoc and
protovalidate guarantee: finitely many message types, no two fields of a message with one name,
arms of a oneof and single messages have presence, a rule fits its field's kind, the
formats that the generator does not count as broken by the empty string (`uri_ref`,
`header_value`) match it,
numbers are numbers, and an enum without presence defines its zero value.
`ResourceListOK` has the collection fit the request's integer fields, which are clamped otherwise.

Proved and not part of a run: type correctness, `NoFalseDuplicate`,
`DefaultHandlerKeepsErrors`, `OutMatchesIsError`, `OwedIsOnItsWay`, the bounds of the
backoff and its jitter, and the lemmas on operators named above.

Only model-checked: the liveness properties (`CallsEnd`, `WriteIsAnnounced`,
`WritesNeverBlock`, `WatcherExits`, `FreshWhileConnected`, `FinalLetsGo`, `CallEnds`,
`WalkEnds`, `StreamsBeat`, `WritesReachSubscribers`), since liveness under fairness and
ENABLED are out of the prover's reach. `OwedIsOnItsWay`, `TriggerPending` and
`ChangeOnItsWay` are the safety halves of three of them: what has to arrive has not been lost.

## 5. Abstractions

- Messages, names, URIs and handlers are values to compare. Cursors keep their kind
  and position, not their base64. The JSON of a masked message is the set of its
  keys, each with the message it belongs to.
- `Masking` gives each message `below[n]`, the values that hang from `n`, and
  assumes that it is the least set closed under children. Types that protojson
  renders in its own way hold no field of the user's (`MaskingOK`). Masking runs on a
  clone, so the caller's message is not part of the state. Extension fields, which
  neither walk visits, are not modelled.
- `HasMatch` is written as the absence of a closed set of types without a match; the
  code finds the same by a depth-first search with a `seen` map.
- `FieldRules`: integers stand for every numeric type, sequences for strings and
  bytes, and a regular expression or format for the set of strings it matches.
  Rules in CEL, which the generator does not look at either, are left out.
- `ToolContract`: below the root of a request or a reply a message is only there or
  not. `Faithful` and `Promised` name the cases in which the schema is not meant to
  say, or does not say, what the rules say; section 6 lists them.
- `Generator` has an RPC rejected when any of its checks fails, whichever comes first.
- `Handlers`: middleware sets metadata through `SetMetadata` or on the context; a
  middleware that swaps `g.Input` for another type is the request "other".
- `Completion`: an argument's values are the call that registered them; filtering by
  prefix and the cap of 100 are left out.
- `ListChanged` runs with one backoff value; `RetryLoop` has all of them.
- A backend that caps its pages below the page size would end a walk of the offset pair
  early; `pagination.go` documents full pages, and the model keeps to that.

## 6. Where code and documents part

Each has a run that shows it:

- `examples/tasks/server/server.go:90` (`change_feed_crash`): `broadcastChange` copies
  the channels under `changesMu` and sends after releasing it; a stream that
  unsubscribes in between closes its channel, and the send panics, although the
  comment at line 27 calls the server safe for concurrent use.
- `examples/tasks/server/server.go:184` (`list_changed_fresh`): the watcher's call
  returns with a stream before the handler runs; a write that commits between that
  and the handler's subscribe is announced to nobody, and the client keeps its old
  list while the stream stays up. `examples/tasks/README.md:12` promises a
  notification for every mutation.
- `internal/gen/generator.go:593` (`codegen_watcher`): a service whose only annotation is
  `resource_list_changed` is skipped, and with it the `Start...` function that
  `README.md:341` describes.

Seen while modelling, and described here without a run:

- A write between two streams of the watcher is announced to nobody either:
  the generated watcher (`file.go.tmpl:68`) does not notify when it connects again.
- `server.go:176` of the tasks example speaks of one bare event per mutation; with
  the buffer of 8 full, ticks are dropped and events coalesce. What holds instead is
  `TriggerPending` and `AtMostOneEventPerWrite`.
- `prompt.go:105` says that `(nil, nil)` from middleware panics. It does only if no result
  processor turns the nil into a result first (`pipeline.go:76`), and a processor that
  assigns nil to `data.Output` (`pipeline.go:85` returns it) panics with the same
  words, which blame the middleware; `Process` has both.
- `schemamask.go:32-37` promises that excluded names are removed from the JSON. The walk
  enters lists of groups (`fieldbehavior.go:106`), the strip pass asks for
  `MessageKind` (`schemamask.go:166`) and does not, so with emit options on,
  the names in such lists stay (their values are gone). `NamesHidden` says so by
  excluding them, and `MaskedClean` covers their values.
- `prompt.go.tmpl` (so `tasks.mcp.pb.go:547`) calls `metadata.NewOutgoingContext` where
  the other three handlers call `protomcp.OutgoingContext`: what middleware put on the
  context is lost for prompts. `examples/tasks/e2e_metadata_test.go:1` speaks of
  `protomcp.OutgoingContext`, "which MERGES". `MetadataArrives` has the exception.
- `completion.go:48` replaces the handler in the caller's `ServerOptions`: two servers
  made of one value chain their handlers, and the second answers for the first's
  prompts as well.
- `subscriptions/main.go:87` says that a dropped event "would have fanned out to zero
  sessions". It is so before the first subscribe; with a full channel later, events
  of live subscriptions are dropped too. `Subscriptions!DropsReachNobody` states the
  comment, and TLC refutes it; `WritesReachSubscribers` is what holds.
- `template.go:57` has a template's variables "looked up by protojson JSON name", but
  `findField` also accepts the proto name, which the JSON a template is rendered from
  does not have: such a variable renders empty.
- `resources.go:290` says that a binding's terminal "must be a scalar string field"; a
  repeated or optional string, or an arm of a oneof, passes the check too.
- Schemas that are narrower than the rules: `IGNORE_ALWAYS` and `IGNORE_IF_ZERO_VALUE`
  drop a rule but not its keywords, so a default value written out by
  `EmitDefaultValues` may not match the output schema `server.go:110` speaks of; a
  lower bound above the upper one means "outside" to protovalidate and nothing at all
  to JSON Schema; 64-bit numbers are strings in JSON, while `const` and `in` list
  numbers (`schema.go:1198`); lengths of bytes are those of the value, while
  JSON has base64. `Faithful` excludes these from `AdmitsWhatUpstreamTakes` and
  `OutputFits`.
- An OUTPUT_ONLY field whose zero value breaks a rule is not refused as an excluded one
  is (`schema.go:191-193` passes over it), although it is cleared just the same: every
  request would fail. `ExcludedFieldsNeverFail` excepts these fields; its half about
  oneofs does count an OUTPUT_ONLY arm as hidden, as the code does.
- Completion values of a prompt's enum argument are all the enum's but the unspecified one, also where
  `buf.validate` narrows them (`prompt.go:214`).

## 7. Not modelled

What this project leaves out, and why:

- Server options and the HTTP handler: applied once, and the SDK's.
- Templates, comments, flags and the rendering of prompts: text.
- `MaxToolSchemaBytes`: the length of marshalled JSON, of which the model has no
  measure.
- Extension fields: neither the clearing walk nor the schema visits them.
- A session of the subscription servers that subscribes to a URI it already streams, and
  `-heartbeat 0`, which turns the heartbeat off: `StreamsBeat` is about a server
  whose heartbeat is above 0.
- Two servers built from one `ServerOptions` value (section 6), and list backends
  that return partial pages.
- The greeter and auth examples: stateless handlers.
- Code generated by `protoc-gen-go`.

Worth proving next: the safety halves of more liveness properties, as `OwedIsOnItsWay` is
for the notifications: that a call that waits for `registrationMu` has a holder about to
release it (`CallsEnd`), and that a beat leaves out no URI that is watched (`StreamsBeat`).
