------------------------------- MODULE Handlers -------------------------------
(***************************************************************************)
(* The four generated handlers (internal/gen/templates: tool, prompt,      *)
(* resource_read, resource_list): decode the request, ask for a            *)
(* confirmation if a tool is annotated so, run the chain around the gRPC   *)
(* call, finish.  A tool's call may be server-streaming: its messages      *)
(* become progress notifications and the last of them the result.          *)
(* Middleware attaches metadata for the upstream on the context it hands   *)
(* to next or in g.Metadata.  The client may disconnect at any moment.     *)
(***************************************************************************)
EXTENDS Pipeline

CONSTANTS Streamings,  \* whether a tool's RPC is server-streaming: what there is to choose from
          Elicits,     \* tools have an elicitation annotation
          HasToken,    \* a tool's call carries a progress token
          MaxMessages  \* bound: messages of one stream

ASSUME HandlersOK == /\ MaxMessages \in Nat /\ Streamings \subseteq BOOLEAN
                     /\ {Elicits, HasToken} \subseteq BOOLEAN

Token == 0             \* the handler's own entry in g.Metadata, beside the middleware 1..N

VARIABLES streaming,   \* this RPC is server-streaming
          gone,        \* ctx is cancelled: the client has disconnected
          step,        \* in final: "enter", "recv", "notify", "out"
          count,       \* messages this run of final has marshaled
          output,      \* g.Output: which run of final, and which message of it, 0 for nil
          complete,    \* history: the latest run of final saw all the upstream sent
          progress,    \* history: the counters of the progress notifications sent
          inCtx,       \* running middleware whose metadata is on the context
          inData,      \* g.Metadata: the number of values under each one's key
          sent         \* history: the same of the latest gRPC call

request == <<surface, streaming>>
finalVars == <<step, count, output, complete, progress>>
metadata == <<inCtx, inData, sent>>
vars == <<callVars, request, gone, finalVars, metadata>>

Init ==
    /\ PipelineInit
    /\ streaming \in (IF surface = "tool" THEN Streamings ELSE {FALSE}) /\ gone = FALSE
    /\ step = "out" /\ count = 0 /\ output = <<0, 0>> /\ complete = FALSE /\ progress = <<>>
    /\ inCtx = {} /\ inData = [key \in 0..N |-> 0] /\ sent = inData
------------------------------------------------------------------------------
Disconnect ==
    /\ ~gone /\ gone' = TRUE
    /\ UNCHANGED <<callVars, request, finalVars, metadata>>

\* The request cannot be decoded: finish outside the chain, or no finish at all.
BadRequest ==
    /\ Undecodable \/ Unmatched
    /\ UNCHANGED <<request, gone, finalVars, metadata>>

\* No answer that belongs to this call.
Ask ==
    /\ Elicits /\ InputRequired
    /\ UNCHANGED <<request, gone, finalVars, metadata>>

\* Any answer but "accept".
Declined ==
    /\ Elicits /\ Refused
    /\ UNCHANGED <<request, gone, finalVars, metadata>>

\* g.SetMetadata, g.Metadata.Set: "Any existing values for key are replaced".
SetMetadata(data, key) == [data EXCEPT ![key] = 1]

\* No gate, or accepted.  A tool forwards the progress token.
Accepted ==
    /\ EnterChain
    /\ inData' = IF surface = "tool" /\ HasToken THEN SetMetadata(inData, Token) ELSE inData
    /\ UNCHANGED <<request, gone, finalVars, inCtx, sent>>

\* A middleware adds to the outgoing metadata of the context, to g.Metadata, or to
\* neither, before it calls next.
Attach(key) ==
    \/ UNCHANGED <<inCtx, inData>>
    \/ inCtx' = inCtx \cup {key} /\ UNCHANGED inData
    \/ inData' = SetMetadata(inData, key) /\ UNCHANGED inCtx

\* What it put on the context ends with its own run, what it put in g stays.
Around ==
    /\ \/ CallNext /\ Attach(Len(stack) + 1)
       \/ \E ret \in MiddlewareReturns : ShortCircuit(ret[1], ret[2]) /\ UNCHANGED <<inCtx, inData>>
       \/ CallNextAgain /\ UNCHANGED <<inCtx, inData>>
       \/ /\ PassOn \/ \E ret \in MiddlewareReturns : ReturnOther(ret[1], ret[2])
          /\ inCtx' = inCtx \ {Len(stack)} /\ UNCHANGED inData
    /\ UNCHANGED <<request, gone, finalVars, sent>>

After == FinishStep /\ UNCHANGED <<request, gone, finalVars, metadata>>
------------------------------------------------------------------------------
EnterFinal ==
    /\ ReachFinal /\ step' = "enter" /\ count' = 0 /\ complete' = FALSE
    /\ UNCHANGED <<request, gone, output, progress, metadata>>

\* return nil, err
FinalFails(e) == FinalReturns(Nil, e) /\ step' = "out"

FinalSucceeds == FinalReturns([by |-> "final", bad |-> FALSE], "none") /\ step' = "out"

\* g.Input is not the RPC's request type.
WrongInput ==
    /\ step = "enter" /\ input = "other" /\ FinalFails("other")
    /\ UNCHANGED <<request, gone, count, output, complete, progress, metadata>>

\* Bug: metadata.NewOutgoingContext(ctx, md), whatever the primitive.
ReplacingContext(data) == data

\* protomcp.OutgoingContext joins md with what the context has; the prompt template
\* calls metadata.NewOutgoingContext.
OutgoingContext(data) ==
    IF surface = "prompt" THEN data
    ELSE [key \in 0..N |-> data[key] + IF key \in inCtx THEN 1 ELSE 0]

\* The gRPC call goes out.
Call ==
    /\ pc = "final" /\ step = "enter" /\ input = "typed"
    /\ step' = "recv" /\ sent' = OutgoingContext(inData)
    /\ UNCHANGED <<callVars, request, gone, count, output, complete, progress, inCtx, inData>>

\* Bug: the call is made on a context detached from the request's.
UpstreamDetached ==
    /\ step = "recv" /\ ~gone /\ \E e \in Errors \ {"other"} : FinalFails(e)
    /\ UNCHANGED <<request, gone, count, output, complete, progress, metadata>>

\* The call or a Recv fails; it does once ctx is cancelled.
UpstreamFails ==
    /\ step = "recv" /\ \E e \in Errors \ {"other"} : FinalFails(e)
    /\ UNCHANGED <<request, gone, count, output, complete, progress, metadata>>

\* The response cannot be marshaled (an exclusion that cannot be applied), or its
\* template not be rendered, or an item's URI not be expanded.  g.Output is set
\* by then, except to a message of a stream.
RenderFails ==
    /\ step = "recv" /\ FinalFails("other")
    /\ output' = IF streaming THEN output ELSE <<finals, 1>>
    /\ UNCHANGED <<request, gone, count, complete, progress, metadata>>

Respond ==
    /\ ~streaming /\ step = "recv" /\ FinalSucceeds /\ complete' = TRUE
    /\ output' = <<finals, 1>>
    /\ UNCHANGED <<request, gone, count, progress, metadata>>

RecvMessage ==
    /\ streaming /\ step = "recv" /\ count < MaxMessages
    /\ count' = count + 1 /\ output' = <<finals, count + 1>>
    /\ step' = IF HasToken THEN "notify" ELSE "recv"
    /\ UNCHANGED <<callVars, request, gone, complete, progress, metadata>>

\* Bug: count := ... inside the loop.
NotifyShadowed ==
    /\ step = "notify" /\ step' = "recv" /\ progress' = Append(progress, <<finals, 1>>)
    /\ UNCHANGED <<callVars, request, gone, count, output, complete, metadata>>

\* req.Session.NotifyProgress
Notify ==
    /\ step = "notify" /\ step' = "recv" /\ progress' = Append(progress, <<finals, count>>)
    /\ UNCHANGED <<callVars, request, gone, count, output, complete, metadata>>

\* It fails: the call ends with ctx.Err(), no gRPC status, if ctx is cancelled, and
\* goes on otherwise.
NotifyFails ==
    /\ step = "notify"
    /\ \/ gone /\ FinalFails("other")
       \/ ~gone /\ step' = "recv" /\ UNCHANGED callVars
    /\ UNCHANGED <<request, gone, count, output, complete, progress, metadata>>

\* Bug: any error of Recv ends the stream as EOF does.
EndOnAnyError ==
    /\ streaming /\ step = "recv" /\ FinalSucceeds /\ complete' \in BOOLEAN
    /\ UNCHANGED <<request, gone, count, output, progress, metadata>>

\* io.EOF: the last message is the result, {} if there was none.
EndOfStream ==
    /\ streaming /\ step = "recv" /\ FinalSucceeds /\ complete' = TRUE
    /\ UNCHANGED <<request, gone, count, output, progress, metadata>>

FinalStep ==
    \/ WrongInput \/ Call \/ UpstreamFails \/ RenderFails \/ Respond
    \/ RecvMessage \/ Notify \/ NotifyFails \/ EndOfStream

Next ==
    \/ Disconnect \/ BadRequest \/ Ask \/ Declined \/ Accepted
    \/ Around \/ EnterFinal \/ FinalStep \/ After
Spec == Init /\ [][Next]_vars

\* gRPC fails the Recv of a cancelled call, however many messages are waiting.
Fairness ==
    /\ WF_vars(WrongInput \/ Call) /\ WF_vars(Notify \/ NotifyFails)
    /\ SF_vars(gone /\ UpstreamFails)
FairSpec == Spec /\ Fairness
------------------------------------------------------------------------------
TypeOK ==
    /\ PipelineTypeOK
    /\ step \in {"enter", "recv", "notify", "out"} /\ (pc = "final" <=> step # "out")
    /\ count \in 0..MaxMessages /\ output \in (0..MaxFinals) \X ((0..MaxMessages) \cup {1})
    /\ {gone, streaming, complete} \subseteq BOOLEAN /\ (streaming => surface = "tool")
    /\ progress \in Seq((1..MaxFinals) \X (1..MaxMessages))
    /\ inCtx \subseteq 1..Len(stack) /\ {inData, sent} \subseteq [0..N -> 0..2]

\* A result the final handler made is never that of a call, stream or list cut
\* short, and g.Output holds the message it was made of (an empty stream leaves it).
CompleteOrNothing ==
    answer.kind = "result" /\ answer.by = "final" =>
        /\ complete
        /\ IF streaming THEN count = 0 \/ output = <<finals, count>>
           ELSE output = <<finals, 1>>

\* "Progress counter is monotonic per MCP spec": within one run of the stream
\* the counters go up, with gaps where a notification failed, and count messages.
ProgressCountsMessages ==
    \A i, j \in DOMAIN progress : progress[i][1] = progress[j][1] =>
        /\ i < j => progress[i][2] < progress[j][2]
        /\ progress[i][1] = finals => progress[i][2] <= count

\* OutgoingContext "merges": on every gRPC call, those of a retrying middleware too,
\* the upstream gets what each running middleware has put on the context and what
\* any has put in g.Metadata, each value once and none of another run's.  A
\* prompt's call gets g.Metadata only.
MetadataArrives ==
    step \in {"recv", "notify"} => \A key \in 0..N :
        /\ surface # "prompt" /\ key \in inCtx => sent[key] > 0
        /\ inData[key] > 0 => sent[key] > 0
        /\ sent[key] <= (IF key \in inCtx THEN 1 ELSE 0) + (IF inData[key] > 0 THEN 1 ELSE 0)

\* A disconnected client's call does not hang on the upstream.
FinalLetsGo == step # "out" /\ gone ~> step = "out"
==============================================================================
