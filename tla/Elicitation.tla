----------------------------- MODULE Elicitation -----------------------------
(***************************************************************************)
(* The confirmation gate of a generated tool handler (tool.go.tmpl,        *)
(* pkg/protomcp/elicitation.go) against the SDK's client, which answers an *)
(* InputRequest by writing the user's answer and the RequestState into the *)
(* caller's CallToolParams and sending them again.  The caller may use one *)
(* struct for call after call, with whatever answer is left in it, and may *)
(* give up on a call whose request the server still handles.               *)
(***************************************************************************)
EXTENDS Naturals, FiniteSets

CONSTANTS Structs,   \* CallToolParams structs of one client
          Tools,     \* tools with an elicitation annotation
          Args,      \* raw argument bytes
          Nothing,   \* an absent answer or RequestState
          MaxInFlight \* bound: requests the server has not finished

ASSUME ElicitationOK ==
    Nothing \notin (Tools \X Args) \cup {"accept", "decline", "malformed"}

Answers == {"accept", "decline", "malformed"}   \* "malformed": not an ElicitResult
Calls == Tools \X Args

Contents == [call : Calls, state : Calls \cup {Nothing}, confirm : Answers \cup {Nothing}]

VARIABLES params,    \* params[p]: [call, state, confirm] in the caller's memory
          phase,     \* phase[p]: "idle", "waiting" for a result, "asking" the user
          requests,  \* requests on the wire or in the server, each with its struct
          prompts,   \* history: InputRequests of the current call on p
          accepted,  \* history: <<p, call>> the user said accept to
          ran        \* history: <<p, call>> whose chain, and gRPC call, ran

vars == <<params, phase, requests, prompts, accepted, ran>>

Init ==
    /\ params \in [Structs -> [call : Calls, state : {Nothing}, confirm : {Nothing}]]
    /\ phase = [p \in Structs |-> "idle"]
    /\ requests = {} /\ prompts = [p \in Structs |-> 0] /\ accepted = {} /\ ran = {}

\* Bug: the hash leaves the tool's name out.
StateOfArgs(call) == call[2]

\* ElicitationState(toolName, rawArgs): as free of collisions as SHA-256.
ElicitationState(call) == call

Send(p, contents) ==
    /\ Cardinality(requests) < MaxInFlight
    /\ params' = [params EXCEPT ![p] = contents]
    /\ requests' = requests \cup {<<p, contents>>}
    /\ phase' = [phase EXCEPT ![p] = "waiting"]
------------------------------------------------------------------------------
\* session.CallTool(ctx, params), with a new struct...
CallFresh(p, call) ==
    /\ phase[p] = "idle"
    /\ Send(p, [call |-> call, state |-> Nothing, confirm |-> Nothing])
    /\ prompts' = [prompts EXCEPT ![p] = 0]
    /\ UNCHANGED <<accepted, ran>>

\* ... or with the struct of an earlier call, new arguments or a new name in it.
CallReused(p, call) ==
    /\ phase[p] = "idle"
    /\ Send(p, [params[p] EXCEPT !.call = call])
    /\ prompts' = [prompts EXCEPT ![p] = 0]
    /\ UNCHANGED <<accepted, ran>>

\* The caller's ctx ends, or the elicitation handler fails: what was sent stays sent.
GiveUp(p) ==
    /\ phase[p] # "idle" /\ phase' = [phase EXCEPT ![p] = "idle"]
    /\ UNCHANGED <<params, requests, prompts, accepted, ran>>

\* The SDK's client middleware asks the user, stores the answer and retries.
Answer(p, answer) ==
    /\ phase[p] = "asking"
    /\ Send(p, [params[p] EXCEPT !.confirm = answer, !.state = ElicitationState(params[p].call)])
    /\ accepted' = IF answer = "accept" THEN accepted \cup {<<p, params[p].call>>} ELSE accepted
    /\ UNCHANGED <<prompts, ran>>
------------------------------------------------------------------------------
\* Bug: the answer is looked up under a key the client does not use.
AnsweredNever(contents) == contents.confirm = "malformed"

\* elicitAnswered && req.Params.RequestState == elicitState
Answered(contents) ==
    contents.confirm # Nothing /\ contents.state = ElicitationState(contents.call)

\* A result reaches the call that waits for it and nobody otherwise.
Deliver(r, newPhase) ==
    /\ requests' = requests \ {r}
    /\ phase' = IF phase[r[1]] = "waiting" /\ params[r[1]] = r[2]
                THEN [phase EXCEPT ![r[1]] = newPhase] ELSE phase

\* An input-required result, with the state of this very call (the history stops
\* counting at the second, which is one too many).
Prompt(r) ==
    /\ ~Answered(r[2]) /\ Deliver(r, "asking")
    /\ prompts' = [prompts EXCEPT ![r[1]] = IF phase' # phase /\ @ < 2 THEN @ + 1 ELSE @]
    /\ UNCHANGED <<params, accepted, ran>>

\* "User declined to proceed."
Decline(r) ==
    /\ Answered(r[2]) /\ r[2].confirm # "accept" /\ Deliver(r, "idle")
    /\ UNCHANGED <<params, prompts, accepted, ran>>

\* The chain runs.
Proceed(r) ==
    /\ Answered(r[2]) /\ r[2].confirm = "accept" /\ Deliver(r, "idle")
    /\ ran' = ran \cup {<<r[1], r[2].call>>}
    /\ UNCHANGED <<params, prompts, accepted>>

Handle == \E r \in requests : Prompt(r) \/ Decline(r) \/ Proceed(r)
Next ==
    \/ Handle
    \/ \E p \in Structs, call \in Calls : CallFresh(p, call) \/ CallReused(p, call)
    \/ \E p \in Structs : GiveUp(p) \/ \E answer \in Answers : Answer(p, answer)

Spec == Init /\ [][Next]_vars
\* The server handles what it receives, the user answers or walks away.
Fairness ==
    /\ \A r \in Structs \X Contents :
          WF_vars(r \in requests /\ (Prompt(r) \/ Decline(r) \/ Proceed(r)))
    /\ \A p \in Structs : WF_vars(\E answer \in Answers : Answer(p, answer))
FairSpec == Spec /\ Fairness
------------------------------------------------------------------------------
TypeOK ==
    /\ params \in [Structs -> Contents] /\ requests \subseteq Structs \X Contents
    /\ phase \in [Structs -> {"idle", "waiting", "asking"}]
    /\ prompts \in [Structs -> 0..2]
    /\ accepted \subseteq Structs \X Calls /\ ran \subseteq Structs \X Calls

\* "a stale or replayed answer therefore re-prompts instead of silently
\* confirming": whatever answers a struct has been through, the gRPC call runs
\* only for a tool and arguments the user said accept to.
RunsOnlyAccepted == ran \subseteq accepted

\* The gate asks at most once in a call, also when the struct comes with an old
\* answer or an old state: a retry that echoes both is never asked again.
AsksOnce == \A p \in Structs : prompts[p] <= 1

\* So a call ends once the user answers.
CallEnds == \A p \in Structs : phase[p] # "idle" ~> phase[p] = "idle"
==============================================================================
