------------------------------- MODULE Pipeline -------------------------------
(***************************************************************************)
(* One call through the machinery every primitive shares                   *)
(* (pkg/protomcp/pipeline.go): the middleware chain around a final         *)
(* handler, the error handler, the result processors, and the Finish       *)
(* wrap-up (server.go, prompt.go, resource.go).  Middleware, custom error  *)
(* handlers and processors are the user's: each may do whatever its type   *)
(* allows, including returning (nil, nil) or calling next again.           *)
(***************************************************************************)
EXTENDS Naturals, Sequences

CONSTANTS Surfaces,      \* the primitives whose handler this may be
          N,             \* registered middleware
          P,             \* registered result processors
          HandlerKinds,  \* error handlers there may be: "default" (the surface's), "custom"
          MaxFinals      \* bound: runs of the final handler in one call

Protocol == {"unauthenticated", "canceled"}   \* the four codes of DefaultToolErrorHandler
Errors == Protocol \cup {"status", "other"}   \* other gRPC codes, and plain errors

ASSUME PipelineOK ==
    /\ N \in Nat /\ P \in Nat /\ MaxFinals \in Nat
    /\ HandlerKinds \subseteq {"default", "custom"}
    /\ Surfaces \subseteq {"tool", "prompt", "read", "list"}

\* A result by its author, with its IsError flag; Nil is a nil pointer.
Authors == {"final", "gate", "middleware", "default", "custom", "processor"}
Nil == [by |-> "none", bad |-> FALSE]
Result == [by : Authors, bad : BOOLEAN]

VARIABLES surface,   \* "tool", "prompt", "read" (of a resource) or "list" (of resources)
          pc,        \* "idle", "down", "final", "up", "handler", "process", "answered", "panicked"
          stack,     \* middleware whose next is running, outermost first
          res, err,  \* what is being returned
          input,     \* g.Input: "typed", or "other" once a middleware swapped its type
          finals,    \* history: runs of the final handler
          chain,     \* history: what the chain returned
          ran,       \* processors that have run
          failed,    \* history: a processor returned an error
          answer     \* what the SDK gets

callVars == <<pc, stack, res, err, input, finals, chain, ran, failed, answer>>

\* Only a tool's result has an IsError flag.
Results(author) == {r \in Result : r.by = author /\ (r.bad => surface = "tool")}

NoAnswer == [kind |-> "none", by |-> "none", bad |-> FALSE, out |-> FALSE]
ErrorAnswer == [kind |-> "error", by |-> "none", bad |-> FALSE, out |-> FALSE]
NoChain == [res |-> Nil, err |-> "unset"]

PipelineInit ==
    /\ surface \in Surfaces
    /\ pc = "idle" /\ stack = <<>> /\ res = Nil /\ err = "none" /\ input = "typed"
    /\ finals = 0 /\ chain = NoChain /\ ran = <<>> /\ failed = FALSE /\ answer = NoAnswer
------------------------------------------------------------------------------
\* Bug: the loop in chain runs forwards.
BackwardChain == [level \in 1..N |-> N + 1 - level]

\* for i := len-1..0 { final = middleware[i](final) }: level 1 is the outermost.
Chain == [level \in 1..N |-> level]

\* ToolChain(final)(ctx, req, g)
EnterChain ==
    /\ pc = "idle" /\ pc' = "down"
    /\ UNCHANGED <<stack, res, err, input, finals, chain, ran, failed, answer>>

\* Finish called with no chain: undecodable arguments, a declined elicitation.
FinishWith(r, e) ==
    /\ pc = "idle"
    /\ chain' = [res |-> r, err |-> e] /\ res' = r /\ err' = e
    /\ pc' = IF e = "none" THEN "process" ELSE "handler"
    /\ UNCHANGED <<stack, input, finals, ran, failed, answer>>

\* The next middleware calls next, having perhaps replaced g.Input...
CallNext ==
    /\ pc = "down" /\ Len(stack) < N
    /\ stack' = Append(stack, Chain[Len(stack) + 1])
    /\ input' \in {input, "other"}
    /\ UNCHANGED <<pc, res, err, finals, chain, ran, failed, answer>>

\* ... or returns without calling it.
ShortCircuit(r, e) ==
    /\ pc = "down" /\ Len(stack) < N
    /\ pc' = "up" /\ res' = r /\ err' = e
    /\ UNCHANGED <<stack, input, finals, chain, ran, failed, answer>>

ReachFinal ==
    /\ pc = "down" /\ Len(stack) = N /\ finals < MaxFinals
    /\ pc' = "final" /\ finals' = finals + 1
    /\ UNCHANGED <<stack, res, err, input, chain, ran, failed, answer>>

FinalReturns(r, e) ==
    /\ pc = "final" /\ pc' = "up" /\ res' = r /\ err' = e
    /\ UNCHANGED <<stack, input, finals, chain, ran, failed, answer>>

Pop == stack' = SubSeq(stack, 1, Len(stack) - 1)

\* The innermost running middleware gets (res, err) from next and passes it on,
\* returns something else, or calls next again.
PassOn ==
    /\ pc = "up" /\ stack # <<>> /\ Pop
    /\ UNCHANGED <<pc, res, err, input, finals, chain, ran, failed, answer>>

ReturnOther(r, e) ==
    /\ pc = "up" /\ stack # <<>> /\ Pop /\ res' = r /\ err' = e
    /\ UNCHANGED <<pc, input, finals, chain, ran, failed, answer>>

CallNextAgain ==
    /\ pc = "up" /\ stack # <<>> /\ finals < MaxFinals
    /\ pc' = "down" /\ res' = Nil /\ err' = "none"
    /\ UNCHANGED <<stack, input, finals, chain, ran, failed, answer>>

\* Bug: the error handler runs only if there is no result.
FinishPreferringResult ==
    /\ pc = "up" /\ stack = <<>>
    /\ chain' = [res |-> res, err |-> err]
    /\ pc' = IF err = "none" \/ res # Nil THEN "process" ELSE "handler"
    /\ UNCHANGED <<stack, res, err, input, finals, ran, failed, answer>>

\* finish(ctx, req, g, result, err)
Finish ==
    /\ pc = "up" /\ stack = <<>>
    /\ chain' = [res |-> res, err |-> err]
    /\ pc' = IF err = "none" THEN "process" ELSE "handler"
    /\ UNCHANGED <<stack, res, err, input, finals, ran, failed, answer>>
------------------------------------------------------------------------------
AnswerError ==
    /\ answer' = ErrorAnswer /\ pc' = "answered"
    /\ UNCHANGED <<stack, res, err, input, finals, chain, ran>>

ProcessInstead(r) ==
    /\ res' = r /\ pc' = "process"
    /\ UNCHANGED <<stack, err, input, finals, chain, ran, failed, answer>>

\* DefaultToolErrorHandler: some codes are protocol errors, the rest IsError results.
DefaultToolErrorHandler ==
    /\ surface = "tool"
    /\ \/ err \in Protocol /\ AnswerError /\ UNCHANGED failed
       \/ err \notin Protocol /\ ProcessInstead([by |-> "default", bad |-> TRUE])

\* DefaultPromptErrorHandler, DefaultResourceReadErrorHandler and
\* DefaultResourceListErrorHandler: "no IsError result shape".
DefaultErrorHandler == surface # "tool" /\ AnswerError /\ UNCHANGED failed

\* A user's handler.  An error, also one beside a result, and (nil, nil), which
\* falls back to err, end in an error; a result replaces the call's.
CustomErrorHandler ==
    \/ AnswerError /\ UNCHANGED failed
    \/ \E r \in Results("custom") : ProcessInstead(r)

HandleError ==
    /\ pc = "handler"
    /\ \/ "default" \in HandlerKinds /\ (DefaultToolErrorHandler \/ DefaultErrorHandler)
       \/ "custom" \in HandlerKinds /\ CustomErrorHandler

\* Bug: a processor's error is reported through the error handler.
ProcessReentering ==
    /\ pc = "process" /\ Len(ran) < P
    /\ ran' = Append(ran, Len(ran) + 1)
    /\ \/ /\ failed' = TRUE /\ err' = "other" /\ pc' = "handler"
          /\ UNCHANGED <<stack, res, input, finals, chain, answer>>
       \/ /\ res' \in Results("processor") \cup {res}
          /\ UNCHANGED <<pc, stack, err, input, finals, chain, failed, answer>>

\* The next processor runs, on a nil Output too.  It replaces the result by returning
\* or by assigning one, takes it away by assigning nil to data.Output, or leaves it.
Process ==
    /\ pc = "process" /\ Len(ran) < P
    /\ ran' = Append(ran, Len(ran) + 1)
    /\ \/ /\ failed' = TRUE /\ answer' = ErrorAnswer /\ pc' = "answered"
          /\ UNCHANGED <<stack, res, err, input, finals, chain>>
       \/ /\ res' \in Results("processor") \cup {res, Nil}
          /\ UNCHANGED <<pc, stack, err, input, finals, chain, failed, answer>>

\* FinishToolCall, FinishPromptGet, FinishResourceRead, FinishResourceList: a tool's
\* Out is nil for an IsError result.
WrapUp ==
    /\ pc = "process" /\ Len(ran) = P /\ res # Nil /\ pc' = "answered"
    /\ answer' = [kind |-> "result", by |-> res.by, bad |-> res.bad, out |-> surface = "tool" /\ ~res.bad]
    /\ UNCHANGED <<stack, res, err, input, finals, chain, ran, failed>>

\* "reached with no result and no error"
Panic ==
    /\ pc = "process" /\ Len(ran) = P /\ res = Nil /\ pc' = "panicked"
    /\ UNCHANGED <<stack, res, err, input, finals, chain, ran, failed, answer>>

MiddlewareReturns == (Results("middleware") \cup {Nil}) \X (Errors \cup {"none"})

MiddlewareStep ==
    \/ CallNext \/ ReachFinal \/ PassOn \/ CallNextAgain
    \/ \E ret \in MiddlewareReturns : ShortCircuit(ret[1], ret[2]) \/ ReturnOther(ret[1], ret[2])
FinishStep == Finish \/ HandleError \/ Process \/ WrapUp \/ Panic

\* The final handler returns one of the two, never both nor neither.
SomeFinal ==
    \/ \E r \in Results("final") : FinalReturns(r, "none")
    \/ \E e \in Errors : FinalReturns(Nil, e)

\* What ends without the chain.  Arguments that cannot be decoded...
Undecodable == surface \in {"tool", "prompt"} /\ FinishWith(Nil, "other")

\* ... a confirmation that was not given, an IsError result...
Refused == surface = "tool" /\ FinishWith([by |-> "gate", bad |-> TRUE], "none")

\* ... one still to be asked for: an InputRequest, that no processor sees...
InputRequired ==
    /\ surface = "tool" /\ pc = "idle" /\ pc' = "answered"
    /\ UNCHANGED <<stack, res, err, input, finals, chain, ran, failed, answer>>

\* ... a URI that the SDK matched and the handler's own template does not: an error
\* that no error handler and no processor sees.
Unmatched == surface = "read" /\ pc = "idle" /\ AnswerError /\ UNCHANGED failed

PipelineNext ==
    /\ \/ EnterChain \/ Undecodable \/ Refused \/ InputRequired \/ Unmatched
       \/ MiddlewareStep \/ SomeFinal \/ FinishStep
    /\ UNCHANGED surface
PipelineSpec == PipelineInit /\ [][PipelineNext]_<<callVars, surface>>
------------------------------------------------------------------------------
PipelineTypeOK ==
    /\ surface \in Surfaces
    /\ pc \in {"idle", "down", "final", "up", "handler", "process", "answered", "panicked"}
    /\ stack \in Seq(1..N) /\ Len(stack) <= N
    /\ res \in Result \cup {Nil} /\ err \in Errors \cup {"none"}
    /\ input \in {"typed", "other"} /\ finals \in 0..MaxFinals
    /\ chain \in [res : Result \cup {Nil}, err : Errors \cup {"none", "unset"}]
    /\ ran \in Seq(1..P) /\ Len(ran) <= P /\ failed \in BOOLEAN
    /\ answer \in {NoAnswer, ErrorAnswer}
                  \cup [kind : {"result"}, by : Authors, bad : BOOLEAN, out : BOOLEAN]

\* The upstream is reached only inside every registered middleware, the first
\* registered outermost, also when a middleware calls next again or another one
\* short-circuited before.
EveryMiddlewareGuardsFinal ==
    pc = "final" => stack = [level \in 1..N |-> level]

\* An error the chain returned never disappears: the client gets an error, or a
\* result that the error handler or a processor decided on, never the one
\* returned beside the error.  What the first processor is handed is the error
\* handler's result, never a nil one.
ErrorNeverSwallowed ==
    chain.err \in Errors =>
        /\ answer.kind = "result" => answer.by \in {"default", "custom", "processor"}
        /\ pc = "process" /\ ran = <<>> => res.by \in {"default", "custom"}

\* The default handlers make no result of a prompt's or a resource's error, nor of a
\* tool's authentication, permission, cancellation and deadline errors; what they
\* do make into one reaches the client marked IsError.
DefaultHandlerKeepsErrors ==
    answer.kind = "result" /\ answer.by = "default" =>
        surface = "tool" /\ answer.bad /\ chain.err \in Errors \ Protocol

\* Every result that reaches the client has been through every processor once,
\* in order; after a processor's error nothing else decides the answer.
ProcessorsSeeEveryResult ==
    /\ answer.kind = "result" => ran = [i \in 1..P |-> i] /\ ~failed
    /\ failed => answer = ErrorAnswer

\* The SDK validates Out against the tool's output schema exactly for results
\* that are not errors, whoever turned them into one.
OutMatchesIsError ==
    surface = "tool" /\ answer.kind = "result" => (answer.out <=> ~answer.bad)
==============================================================================
