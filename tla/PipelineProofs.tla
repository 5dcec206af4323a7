---------------------------- MODULE PipelineProofs ----------------------------
(***************************************************************************)
(* For any number of middleware and processors, any error handler and any  *)
(* behaviour of the user's code: no final handler without all middleware,  *)
(* no error swallowed, no result past a processor.  The generated handlers *)
(* implement the pipeline, answer with complete results only and send the  *)
(* upstream the metadata attached for it.                                  *)
(***************************************************************************)
EXTENDS Handlers, SequenceTheorems, TLAPS

\* The running middleware are the outermost ones, in order.
StackInv == \A level \in 1..Len(stack) : stack[level] = level

\* Where the call stands, from what was recorded.
PhaseInv ==
    /\ pc = "final" => Len(stack) = N
    /\ pc \in {"idle", "down", "final", "up"} =>
          chain = NoChain /\ ran = <<>> /\ ~failed /\ answer = NoAnswer
    /\ pc = "handler" => chain.err \in Errors /\ err = chain.err
          /\ ran = <<>> /\ ~failed /\ answer = NoAnswer
    /\ pc = "process" =>
          /\ chain.err \in Errors => res = Nil \/ res.by \in {"default", "custom", "processor"}
          /\ chain.err \in Errors /\ ran = <<>> => res.by \in {"default", "custom"}
          /\ chain.err # "unset" /\ ~failed /\ answer = NoAnswer
    /\ pc = "panicked" => ~failed /\ answer = NoAnswer

RanInv == \A i \in 1..Len(ran) : ran[i] = i

AnswerInv ==
    /\ answer.kind = "result" => answer.out = (surface = "tool" /\ ~answer.bad) /\ Len(ran) = P /\ ~failed
    /\ failed => answer = ErrorAnswer
    /\ chain.err \in Errors /\ answer.kind = "result" => answer.by \in {"default", "custom", "processor"}

\* What the default handler made of an error, on its way and as the answer.
DefaultInv ==
    \A r \in {res, answer} : r.by = "default" => surface = "tool" /\ r.bad /\ chain.err \in Errors \ Protocol

IInv == PipelineTypeOK /\ StackInv /\ PhaseInv /\ RanInv /\ AnswerInv /\ DefaultInv
------------------------------------------------------------------------------
\* The next number appended to 1, 2, ..., and the last one dropped.
LEMMA AppendNext ==
  ASSUME NEW m \in Nat, NEW s \in Seq(1..m), Len(s) < m,
         \A i \in 1..Len(s) : s[i] = i
  PROVE  LET t == Append(s, Len(s) + 1) IN
           /\ t \in Seq(1..m) /\ Len(t) = Len(s) + 1
           /\ \A i \in 1..Len(t) : t[i] = i
<1>1. Len(s) + 1 \in 1..m
  BY LenProperties
<1> QED
  BY <1>1, AppendProperties

LEMMA DropLast ==
  ASSUME NEW m \in Nat, NEW s \in Seq(1..m), s # <<>>,
         \A i \in 1..Len(s) : s[i] = i
  PROVE  LET t == SubSeq(s, 1, Len(s) - 1) IN
           /\ t \in Seq(1..m) /\ Len(t) = Len(s) - 1
           /\ \A i \in 1..Len(t) : t[i] = i
<1> DEFINE n == Len(s) - 1
           t == SubSeq(s, 1, n)
<1>1. Len(s) \in Nat /\ Len(s) # 0
  BY LenProperties, EmptySeq
<1>2. n \in Nat /\ \A i \in 1..n : s[i] \in 1..m
  BY <1>1, ElementOfSeq
<1>3. /\ t \in Seq(1..m) /\ Len(t) = IF 1 <= n THEN n - 1 + 1 ELSE 0
      /\ \A i \in 1..(n - 1 + 1) : t[i] = s[1 + i - 1]
  <2> HIDE DEF n
  <2> QED
    BY <1>2, SubSeqProperties
<1>4. n - 1 + 1 = n /\ Len(t) = n /\ \A i \in 1..n : t[i] = s[i]
  <2> HIDE DEF n, t
  <2> QED
    BY <1>2, <1>3
<1> QED
  BY <1>1, <1>3, <1>4

LEMMA CountedUp ==
  ASSUME NEW m \in Nat, NEW s \in Seq(1..m), Len(s) = m,
         \A i \in 1..Len(s) : s[i] = i
  PROVE  s = [i \in 1..m |-> i]
  BY LenProperties

LEMMA Initially == PipelineInit => IInv
<1> SUFFICES ASSUME PipelineInit PROVE IInv
  OBVIOUS
<1>1. PipelineTypeOK
  <2>1. stack \in Seq(1..N) /\ Len(stack) <= N /\ ran \in Seq(1..P) /\ Len(ran) <= P
    BY PipelineOK, EmptySeq DEF PipelineInit
  <2>2. chain \in [res : Result \cup {Nil}, err : Errors \cup {"none", "unset"}]
    BY DEF PipelineInit, NoChain
  <2>3. finals \in 0..MaxFinals
    BY PipelineOK DEF PipelineInit
  <2> QED
    BY <2>1, <2>2, <2>3 DEF PipelineInit, PipelineTypeOK
<1>2. StackInv /\ RanInv
  BY DEF PipelineInit, StackInv, RanInv
<1>3. PhaseInv /\ AnswerInv /\ DefaultInv
  BY DEF PipelineInit, PhaseInv, AnswerInv, DefaultInv, Nil, NoAnswer, NoChain, Errors, Protocol
<1> QED
  BY <1>1, <1>2, <1>3 DEF IInv

------------------------------------------------------------------------------
\* The chain: what is stacked is the outermost middleware, nothing is decided yet.
LEMMA MiddlewareKeeps == IInv /\ MiddlewareStep /\ UNCHANGED surface => IInv'
<1> SUFFICES ASSUME IInv, MiddlewareStep, UNCHANGED surface PROVE IInv'
  OBVIOUS
<1> USE DEF IInv, PipelineTypeOK, StackInv, PhaseInv, RanInv, AnswerInv, DefaultInv
<1>1. CASE CallNext
  <2>1. Chain[Len(stack) + 1] = Len(stack) + 1
    BY <1>1, PipelineOK, LenProperties DEF CallNext, Chain
  <2>2. stack' = Append(stack, Len(stack) + 1) /\ Len(stack) < N
    BY <1>1, <2>1 DEF CallNext
  <2>3. stack' \in Seq(1..N) /\ Len(stack') <= N /\ StackInv'
    <3>1. stack \in Seq(1..N) /\ N \in Nat
      BY PipelineOK
    <3>2. stack' \in Seq(1..N) /\ Len(stack') = Len(stack) + 1 /\ StackInv'
      BY <3>1, <2>2, AppendNext
    <3> QED
      BY <3>1, <3>2, <2>2, LenProperties
  <2> QED
    BY <1>1, <2>3 DEF CallNext
<1>2. CASE ReachFinal
  <2>1. finals' \in 0..MaxFinals
    BY <1>2, PipelineOK DEF ReachFinal
  <2> QED
    BY <1>2, <2>1 DEF ReachFinal
<1>3. Pop /\ stack # <<>> => stack' \in Seq(1..N) /\ Len(stack') <= N /\ StackInv'
  <2> SUFFICES ASSUME Pop, stack # <<>>
               PROVE  stack' \in Seq(1..N) /\ Len(stack') <= N /\ StackInv'
    OBVIOUS
  <2>1. N \in Nat /\ stack \in Seq(1..N) /\ Len(stack) \in Nat /\ Len(stack) <= N
    BY PipelineOK, LenProperties
  <2>2. stack' \in Seq(1..N) /\ Len(stack') = Len(stack) - 1 /\ StackInv'
    BY <2>1, DropLast DEF Pop
  <2> QED
    BY <2>1, <2>2
<1>4. CASE PassOn
  BY <1>4, <1>3 DEF PassOn
<1>5. CASE CallNextAgain
  BY <1>5 DEF CallNextAgain, Nil
<1>6. ASSUME NEW ret \in MiddlewareReturns, ShortCircuit(ret[1], ret[2]) PROVE IInv'
  <2>1. /\ ret[1] \in Result \cup {Nil} /\ ret[2] \in Errors \cup {"none"}
        /\ ret[1].by # "default"
    BY DEF MiddlewareReturns, Results, Nil
  <2> QED
    BY <1>6, <2>1 DEF ShortCircuit
<1>7. ASSUME NEW ret \in MiddlewareReturns, ReturnOther(ret[1], ret[2]) PROVE IInv'
  <2>1. /\ ret[1] \in Result \cup {Nil} /\ ret[2] \in Errors \cup {"none"}
        /\ ret[1].by # "default"
    BY DEF MiddlewareReturns, Results, Nil
  <2> QED
    BY <1>7, <1>3, <2>1 DEF ReturnOther
<1> QED
  BY <1>1, <1>2, <1>4, <1>5, <1>6, <1>7 DEF MiddlewareStep

\* A final handler, whatever it returns.
LEMMA FinalKeeps ==
  ASSUME NEW r \in Result \cup {Nil}, NEW e \in Errors \cup {"none"}, r.by # "default",
         IInv, FinalReturns(r, e), UNCHANGED surface
  PROVE  IInv'
BY DEF FinalReturns, IInv, PipelineTypeOK, StackInv, PhaseInv, RanInv, AnswerInv, DefaultInv

\* Finish with or without the chain: the error handler gets every error.
LEMMA FinishKeeps ==
  ASSUME IInv, NEW r \in Result \cup {Nil}, NEW e \in Errors \cup {"none"}, r.by # "default",
         FinishWith(r, e) \/ (Finish /\ r = res /\ e = err), UNCHANGED surface
  PROVE  IInv'
<1> USE DEF IInv, PipelineTypeOK, StackInv, PhaseInv, RanInv, AnswerInv, DefaultInv
<1>1. chain' = [res |-> r, err |-> e] /\ res' = r /\ err' = e
      /\ pc' = (IF e = "none" THEN "process" ELSE "handler")
      /\ UNCHANGED <<stack, input, finals, ran, failed, answer>>
      /\ pc \in {"idle", "up"}
  BY DEF FinishWith, Finish
<1>2. chain' \in [res : Result \cup {Nil}, err : Errors \cup {"none", "unset"}]
  BY <1>1
<1>3. "none" \notin Errors /\ chain'.err = e
  BY <1>1 DEF Errors, Protocol
<1>4. answer.kind # "result" /\ ran = <<>>
  BY <1>1 DEF NoAnswer
<1>5. DefaultInv'
  BY <1>1 DEF NoAnswer
<1> HIDE DEF DefaultInv
<1> QED
  BY <1>1, <1>2, <1>3, <1>4, <1>5

\* The error handler is left with an error answer or with a result of its own.
LEMMA HandleErrorKeeps == IInv /\ HandleError /\ UNCHANGED surface => IInv'
<1> SUFFICES ASSUME IInv, HandleError, UNCHANGED surface PROVE IInv'
  OBVIOUS
<1> USE DEF IInv, PipelineTypeOK, StackInv, PhaseInv, RanInv, AnswerInv, DefaultInv
<1>1. pc = "handler"
  BY DEF HandleError
<1>2. CASE AnswerError /\ UNCHANGED failed
  BY <1>1, <1>2 DEF AnswerError, ErrorAnswer, NoAnswer
<1>3. ASSUME NEW r \in Result, ProcessInstead(r),
             r.by = "custom" \/ (r.by = "default" /\ r.bad /\ err \notin Protocol /\ surface = "tool")
      PROVE  IInv'
  <2>1. chain.err = err /\ err \in Errors /\ r.by \in {"default", "custom"}
    BY <1>1, <1>3
  <2> QED
    BY <1>1, <1>3, <2>1 DEF ProcessInstead, Errors, Protocol
<1>4. CASE DefaultToolErrorHandler
  <2>1. [by |-> "default", bad |-> TRUE] \in Result
    BY DEF Result, Authors
  <2> QED
    BY <1>4, <1>2, <1>3, <2>1 DEF DefaultToolErrorHandler
<1>5. CASE DefaultErrorHandler
  BY <1>5, <1>2 DEF DefaultErrorHandler
<1>6. CASE CustomErrorHandler
  BY <1>6, <1>2, <1>3 DEF CustomErrorHandler, Results
<1> QED
  BY <1>4, <1>5, <1>6 DEF HandleError

\* A processor passes, replaces, or ends the call with an error.
LEMMA ProcessKeeps == IInv /\ Process /\ UNCHANGED surface => IInv'
<1> SUFFICES ASSUME IInv, Process, UNCHANGED surface PROVE IInv'
  OBVIOUS
<1> USE DEF IInv, PipelineTypeOK, StackInv, PhaseInv, RanInv, AnswerInv, DefaultInv
<1>1. /\ ran' \in Seq(1..P) /\ Len(ran') <= P /\ RanInv'
  <2>1. P \in Nat /\ ran \in Seq(1..P) /\ Len(ran) \in Nat /\ Len(ran) < P
    BY PipelineOK, LenProperties DEF Process
  <2>2. ran' \in Seq(1..P) /\ Len(ran') = Len(ran) + 1 /\ RanInv'
    BY <2>1, AppendNext DEF Process
  <2> QED
    BY <2>1, <2>2
<1>2. CASE failed' = TRUE /\ answer' = ErrorAnswer /\ pc' = "answered"
           /\ UNCHANGED <<stack, res, err, input, finals, chain>>
  BY <1>1, <1>2 DEF Process, ErrorAnswer, NoAnswer
<1>3. CASE res' \in Results("processor") \cup {res, Nil}
           /\ UNCHANGED <<pc, stack, err, input, finals, chain, failed, answer>>
  <2>1. /\ res' \in Result \cup {Nil} /\ (res' = res \/ res' = Nil \/ res'.by = "processor")
        /\ Nil.by # "default" /\ ran' # <<>>
    BY <1>3, LenProperties, AppendProperties DEF Results, Nil, Process
  <2>2. pc = "process" /\ answer.kind # "result"
    BY DEF Process, NoAnswer
  <2> QED
    BY <1>1, <1>3, <2>1, <2>2
<1> QED
  BY <1>2, <1>3 DEF Process

\* The call ends.
LEMMA EndKeeps == IInv /\ (WrapUp \/ Panic) /\ UNCHANGED surface => IInv'
<1> SUFFICES ASSUME IInv, WrapUp \/ Panic, UNCHANGED surface PROVE IInv'
  OBVIOUS
<1> USE DEF IInv, PipelineTypeOK, StackInv, PhaseInv, RanInv, AnswerInv, DefaultInv
<1>1. CASE WrapUp
  <2>1. res \in Result /\ res.by \in Authors /\ res.bad \in BOOLEAN
    BY <1>1 DEF WrapUp, Result
  <2>2. answer' \in [kind : {"result"}, by : Authors, bad : BOOLEAN, out : BOOLEAN]
    BY <1>1, <2>1 DEF WrapUp
  <2>3. answer' # NoAnswer /\ answer'.by = res.by /\ answer'.out = (surface' = "tool" /\ ~answer'.bad)
    BY <1>1 DEF WrapUp, NoAnswer
  <2> QED
    BY <1>1, <2>2, <2>3 DEF WrapUp
<1>2. CASE Panic
  BY <1>2 DEF Panic, NoAnswer
<1> QED
  BY <1>1, <1>2

LEMMA Inductive == IInv /\ [PipelineNext]_<<callVars, surface>> => IInv'
<1> SUFFICES ASSUME IInv, [PipelineNext]_<<callVars, surface>> PROVE IInv'
  OBVIOUS
<1>1. CASE UNCHANGED <<callVars, surface>>
  BY <1>1 DEF callVars, IInv, PipelineTypeOK, StackInv, PhaseInv, RanInv, AnswerInv, DefaultInv
<1>2. CASE PipelineNext
  <2> USE <1>2 DEF PipelineNext
  <2>1. CASE EnterChain
    BY <2>1 DEF EnterChain, IInv, PipelineTypeOK, StackInv, PhaseInv, RanInv, AnswerInv, DefaultInv
  <2>2. CASE Undecodable
    BY <2>2, FinishKeeps DEF Undecodable, Errors, Nil
  <2>7. CASE Refused
    <3> DEFINE refusal == [by |-> "gate", bad |-> TRUE]
    <3>1. refusal \in Result \cup {Nil} /\ refusal.by # "default"
      BY DEF Result, Authors
    <3>2. FinishWith(refusal, "none") /\ UNCHANGED surface
      BY <2>7 DEF Refused
    <3> HIDE DEF refusal
    <3> QED
      BY <3>1, <3>2, FinishKeeps
  <2>8. CASE InputRequired
    BY <2>8 DEF InputRequired, IInv, PipelineTypeOK, StackInv, PhaseInv, RanInv, AnswerInv, DefaultInv
  <2>3. CASE Unmatched
    BY <2>3 DEF Unmatched, AnswerError, ErrorAnswer, NoAnswer,
                IInv, PipelineTypeOK, StackInv, PhaseInv, RanInv, AnswerInv, DefaultInv
  <2>4. CASE MiddlewareStep
    BY <2>4, MiddlewareKeeps
  <2>5. CASE SomeFinal
    BY <2>5, FinalKeeps DEF SomeFinal, Results, Nil
  <2>6. CASE FinishStep
    <3>1. res \in Result \cup {Nil} /\ err \in Errors \cup {"none"}
      BY DEF IInv, PipelineTypeOK
    <3>2. Finish => res.by # "default"
      BY DEF Finish, IInv, PhaseInv, DefaultInv, NoChain, Errors, Protocol
    <3> QED
      BY <2>6, <3>1, <3>2, FinishKeeps, HandleErrorKeeps, ProcessKeeps, EndKeeps DEF FinishStep
  <2> QED
    BY <2>1, <2>2, <2>3, <2>4, <2>5, <2>6, <2>7, <2>8
<1> QED
  BY <1>1, <1>2

LEMMA Invariance == PipelineSpec => []IInv
  BY Initially, Inductive, PTL DEF PipelineSpec
------------------------------------------------------------------------------
\* The final handler, and with it the gRPC call, runs only inside all N
\* middleware, the first registered outermost.
THEOREM FinalGuarded == PipelineSpec => []EveryMiddlewareGuardsFinal
<1>1. IInv => EveryMiddlewareGuardsFinal
  BY CountedUp, PipelineOK
  DEF IInv, PipelineTypeOK, StackInv, PhaseInv, EveryMiddlewareGuardsFinal
<1> QED
  BY Invariance, <1>1, PTL

\* No error of the chain is lost, whatever the handlers return.
THEOREM ErrorsReachClient == PipelineSpec => []ErrorNeverSwallowed
<1>1. IInv => ErrorNeverSwallowed
  BY DEF IInv, PhaseInv, AnswerInv, ErrorNeverSwallowed
<1> QED
  BY Invariance, <1>1, PTL

\* No result reaches the client past a processor, and a processor's error is final.
THEOREM ResultsProcessed == PipelineSpec => []ProcessorsSeeEveryResult
<1>1. IInv => ProcessorsSeeEveryResult
  BY CountedUp, PipelineOK
  DEF IInv, PipelineTypeOK, RanInv, AnswerInv, ProcessorsSeeEveryResult
<1> QED
  BY Invariance, <1>1, PTL

\* The default handler's errors stay errors.
THEOREM DefaultKeeps == PipelineSpec => []DefaultHandlerKeepsErrors
<1>1. IInv => DefaultHandlerKeepsErrors
  BY DEF IInv, DefaultInv, DefaultHandlerKeepsErrors
<1> QED
  BY Invariance, <1>1, PTL

\* The SDK validates exactly the results that are not errors.
THEOREM OutMatches == PipelineSpec => []OutMatchesIsError
<1>1. IInv => OutMatchesIsError
  BY DEF IInv, AnswerInv, OutMatchesIsError
<1> QED
  BY Invariance, <1>1, PTL
------------------------------------------------------------------------------
LEMMA StepsAreCalls == [Next]_vars => [PipelineNext]_<<callVars, surface>>
<1> SUFFICES ASSUME [Next]_vars PROVE [PipelineNext]_<<callVars, surface>>
  OBVIOUS
<1> USE DEF request
<1>1. ASSUME NEW e \in Errors, FinalFails(e), UNCHANGED surface PROVE PipelineNext
  BY <1>1 DEF FinalFails, SomeFinal, PipelineNext
<1>2. CASE FinalSucceeds /\ UNCHANGED surface
  <2>1. [by |-> "final", bad |-> FALSE] \in Results("final")
    BY DEF Results, Result, Authors
  <2> QED
    BY <1>2, <2>1 DEF FinalSucceeds, SomeFinal, PipelineNext
<1>3. CASE FinalStep
  <2>1. "other" \in Errors /\ Errors \ {"other"} \subseteq Errors
    BY DEF Errors
  <2> QED
    BY <1>1, <1>2, <1>3, <2>1 DEF FinalStep, WrongInput, Call, UpstreamFails, RenderFails, Respond,
       RecvMessage, Notify, NotifyFails, EndOfStream
<1>4. CASE Around
  BY <1>4 DEF Around, MiddlewareStep, PipelineNext
<1>5. CASE Disconnect \/ BadRequest \/ Ask \/ Declined \/ Accepted \/ EnterFinal \/ After
  BY <1>5 DEF Disconnect, BadRequest, Ask, Declined, Accepted, EnterFinal, After, PipelineNext, MiddlewareStep
<1>6. CASE UNCHANGED vars
  BY <1>6 DEF vars
<1> QED
  BY <1>3, <1>4, <1>5, <1>6 DEF Next

\* Every generated handler runs its call through the pipeline: what is shown of
\* PipelineSpec holds for all four.
THEOREM ImplementsPipeline == Spec => PipelineSpec
<1>1. Init => PipelineInit
  BY DEF Init
<1> QED
  BY <1>1, StepsAreCalls, PTL DEF Spec, PipelineSpec

LEMMA PipelineHolds == Spec => []IInv
  BY ImplementsPipeline, Invariance, PTL
------------------------------------------------------------------------------
\* What the final handler made a result of.
Delivered ==
    /\ complete
    /\ IF streaming THEN count = 0 \/ output = <<finals, count>> ELSE output = <<finals, 1>>

\* The result under way is the final handler's only after a run that delivered, and
\* none is under way when the next run begins.
DeliveryInv ==
    /\ step # "out" => pc = "final"
    /\ pc \in {"idle", "down", "final"} => res = Nil
    /\ step = "enter" => count = 0
    /\ streaming /\ step # "out" => count = 0 \/ output = <<finals, count>>
    /\ res.by = "final" /\ pc \in {"up", "handler", "process"} => Delivered
    /\ answer.kind = "result" => pc = "answered"
    /\ answer.kind = "result" /\ answer.by = "final" => Delivered

LEMMA DeliveryStep == DeliveryInv /\ [Next]_vars => DeliveryInv'
<1> SUFFICES ASSUME DeliveryInv, [Next]_vars PROVE DeliveryInv'
  OBVIOUS
<1> USE DEF DeliveryInv, Delivered, finalVars, request
<1>1. CASE Disconnect
  BY <1>1 DEF Disconnect, callVars
<1>2. CASE BadRequest
  BY <1>2 DEF BadRequest, Undecodable, Unmatched, FinishWith, AnswerError, ErrorAnswer, Nil
<1>3. CASE Ask \/ Declined \/ Accepted
  BY <1>3 DEF Ask, InputRequired, Declined, Refused, Accepted, EnterChain, FinishWith, Nil
<1>4. CASE Around
  <2>1. \A ret \in MiddlewareReturns : ret[1].by # "final"
    BY DEF MiddlewareReturns, Results, Nil
  <2>2. step' = step /\ count' = count /\ output' = output /\ complete' = complete /\ streaming' = streaming
    BY <1>4 DEF Around
  <2>3. CASE CallNext \/ CallNextAgain \/ PassOn
    BY <2>2, <2>3 DEF CallNext, CallNextAgain, PassOn, Nil
  <2>4. ASSUME NEW ret \in MiddlewareReturns, ShortCircuit(ret[1], ret[2]) \/ ReturnOther(ret[1], ret[2])
        PROVE  DeliveryInv'
    BY <2>1, <2>2, <2>4 DEF ShortCircuit, ReturnOther
  <2> QED
    BY <1>4, <2>3, <2>4 DEF Around
<1>5. CASE After
  <2> USE <1>5 DEF After
  <2>1. CASE Finish
    BY <2>1 DEF Finish
  <2>2. CASE HandleError
    BY <2>2 DEF HandleError, DefaultToolErrorHandler, DefaultErrorHandler, CustomErrorHandler,
       AnswerError, ErrorAnswer, ProcessInstead, Results
  <2>3. CASE Process
    BY <2>3 DEF Process, Results, ErrorAnswer, Nil
  <2>4. CASE WrapUp
    BY <2>4 DEF WrapUp
  <2>5. CASE Panic
    BY <2>5 DEF Panic
  <2> QED
    BY <2>1, <2>2, <2>3, <2>4, <2>5 DEF FinishStep
<1>6. CASE EnterFinal
  BY <1>6 DEF EnterFinal, ReachFinal, Nil
<1>7. CASE WrongInput \/ UpstreamFails \/ RenderFails
  BY <1>7 DEF WrongInput, UpstreamFails, RenderFails, FinalFails, FinalReturns, Nil
<1>8. CASE Call \/ RecvMessage \/ Notify
  BY <1>8 DEF Call, RecvMessage, Notify, callVars
<1>9. CASE NotifyFails
  BY <1>9 DEF NotifyFails, FinalFails, FinalReturns, callVars, Nil
<1>10. CASE Respond \/ EndOfStream
  BY <1>10 DEF Respond, EndOfStream, FinalSucceeds, FinalReturns
<1>11. CASE UNCHANGED vars
  BY <1>11 DEF vars, callVars
<1> QED
  BY <1>1, <1>2, <1>3, <1>4, <1>5, <1>6, <1>7, <1>8, <1>9, <1>10, <1>11 DEF Next, FinalStep

\* A result the final handler made is whole, and g.Output is what it was made of,
\* for any stream, any retries and any point of failure.
THEOREM ResultsComplete == Spec => []CompleteOrNothing
<1>1. Init => DeliveryInv
  BY DEF Init, PipelineInit, DeliveryInv, Delivered, Nil, NoAnswer
<1>2. DeliveryInv => CompleteOrNothing
  BY DEF DeliveryInv, Delivered, CompleteOrNothing
<1> QED
  BY <1>1, <1>2, DeliveryStep, PTL DEF Spec
------------------------------------------------------------------------------
\* What goes out is joined when the call is made, and nothing is attached before the
\* final handler is done with the call.
MetadataInv ==
    /\ inData \in [0..N -> {0, 1}]
    /\ step # "out" => pc = "final"
    /\ step \in {"recv", "notify"} => sent = OutgoingContext(inData)

LEMMA MetadataStep == IInv /\ MetadataInv /\ [Next]_vars => MetadataInv'
<1> SUFFICES ASSUME IInv, MetadataInv, [Next]_vars PROVE MetadataInv'
  OBVIOUS
<1> USE DEF MetadataInv, request
<1>0. ASSUME UNCHANGED <<metadata, surface>>, step' \in {"recv", "notify"} => step \in {"recv", "notify"},
             step' # "out" => pc' = "final"
      PROVE  MetadataInv'
  BY <1>0 DEF metadata, OutgoingContext
<1>1. ASSUME UNCHANGED surface, step' = step, pc # "final", inData' \in [0..N -> {0, 1}] PROVE MetadataInv'
  BY <1>1
<1>2. CASE Disconnect \/ BadRequest \/ Ask \/ Declined \/ After
  <2>1. step' = step /\ UNCHANGED <<metadata, surface>> /\ (pc = "final" => pc' = pc)
    BY <1>2 DEF Disconnect, BadRequest, Ask, Declined, After, finalVars, callVars, Undecodable, Unmatched,
       InputRequired, Refused, FinishWith, AnswerError, FinishStep, Finish, HandleError, Process, WrapUp, Panic
  <2> QED
    BY <1>0, <2>1
<1>3. CASE Accepted
  <2>1. 0 \in 0..N
    BY PipelineOK
  <2>2. inData' \in [0..N -> {0, 1}]
    BY <1>3, <2>1 DEF Accepted, SetMetadata, Token
  <2> QED
    BY <1>1, <1>3, <2>2 DEF Accepted, EnterChain, finalVars
<1>4. CASE Around
  <2>1. CallNext => Len(stack) + 1 \in 0..N
    BY PipelineOK, LenProperties DEF IInv, PipelineTypeOK, CallNext
  <2>2. inData' \in [0..N -> {0, 1}]
    BY <1>4, <2>1 DEF Around, Attach, SetMetadata
  <2>3. pc # "final"
    BY <1>4 DEF Around, CallNext, CallNextAgain, PassOn, ShortCircuit, ReturnOther
  <2> QED
    BY <1>1, <1>4, <2>2, <2>3 DEF Around, finalVars
<1>5. CASE EnterFinal
  BY <1>5, <1>0 DEF EnterFinal, ReachFinal
<1>6. CASE Call
  BY <1>6 DEF Call, callVars, OutgoingContext
<1>7. CASE WrongInput \/ UpstreamFails \/ RenderFails \/ Respond \/ EndOfStream
  BY <1>0, <1>7 DEF WrongInput, UpstreamFails, RenderFails, Respond, EndOfStream, FinalFails, FinalSucceeds
<1>8. CASE RecvMessage \/ Notify \/ NotifyFails
  BY <1>0, <1>8 DEF RecvMessage, Notify, NotifyFails, FinalFails, callVars
<1>9. CASE UNCHANGED vars
  BY <1>0, <1>9 DEF vars, finalVars, callVars
<1> QED
  BY <1>2, <1>3, <1>4, <1>5, <1>6, <1>7, <1>8, <1>9 DEF Next, FinalStep

\* The upstream gets what was attached, for any number of middleware and retries.
THEOREM MetadataSent == Spec => []MetadataArrives
<1>1. Init => MetadataInv
  BY DEF Init, MetadataInv
<1>2. MetadataInv => MetadataArrives
  <2> SUFFICES ASSUME MetadataInv, step \in {"recv", "notify"}, NEW key \in 0..N
               PROVE  /\ surface # "prompt" /\ key \in inCtx => sent[key] > 0
                      /\ inData[key] > 0 => sent[key] > 0
                      /\ sent[key] <= (IF key \in inCtx THEN 1 ELSE 0) + (IF inData[key] > 0 THEN 1 ELSE 0)
    BY DEF MetadataArrives
  <2>1. inData[key] \in {0, 1}
    BY DEF MetadataInv
  <2>2. sent[key] = IF surface = "prompt" THEN inData[key]
                    ELSE inData[key] + IF key \in inCtx THEN 1 ELSE 0
    BY DEF MetadataInv, OutgoingContext
  <2> QED
    BY <2>1, <2>2
<1> QED
  BY <1>1, <1>2, MetadataStep, PipelineHolds, PTL DEF Spec
------------------------------------------------------------------------------
\* The counters of earlier runs of the final handler are left alone, those of this one
\* are below the message about to be announced.
ProgressInv ==
    /\ progress \in Seq(Nat \X Nat) /\ count \in Nat
    /\ step # "out" => pc = "final"
    /\ \A i \in 1..Len(progress) :
        /\ progress[i][1] <= finals
        /\ progress[i][1] = finals => progress[i][2] <= count
        /\ progress[i][1] = finals /\ step = "notify" => progress[i][2] < count
    /\ \A i, j \in 1..Len(progress) :
        progress[i][1] = progress[j][1] /\ i < j => progress[i][2] < progress[j][2]

LEMMA ProgressStep == IInv /\ ProgressInv /\ [Next]_vars => ProgressInv'
<1> SUFFICES ASSUME IInv, ProgressInv, [Next]_vars PROVE ProgressInv'
  OBVIOUS
<1>0. finals \in Nat /\ \A i \in 1..Len(progress) : progress[i][1] \in Nat /\ progress[i][2] \in Nat
  <2>1. finals \in Nat
    BY PipelineOK DEF IInv, PipelineTypeOK
  <2>2. \A i \in 1..Len(progress) : progress[i] \in Nat \X Nat
    BY ElementOfSeq DEF ProgressInv
  <2> QED
    BY <2>1, <2>2
<1> USE DEF ProgressInv, request
<1>1. ASSUME UNCHANGED <<progress, count, finals>>, step' = "notify" => step = "notify",
             step' # "out" => pc' = "final"
      PROVE  ProgressInv'
  BY <1>1
<1>2. CASE Disconnect \/ BadRequest \/ Ask \/ Declined \/ Accepted \/ After
  <2>1. UNCHANGED <<step, progress, count, finals>> /\ (pc = "final" => pc' = pc)
    BY <1>2 DEF Disconnect, BadRequest, Ask, Declined, Accepted, EnterChain, After, finalVars,
       callVars, Undecodable, Unmatched, InputRequired, Refused, FinishWith, AnswerError,
       FinishStep, Finish, HandleError, DefaultToolErrorHandler, DefaultErrorHandler,
       CustomErrorHandler, ProcessInstead, Process, WrapUp, Panic
  <2> QED
    BY <1>1, <2>1
<1>3. CASE Around
  <2>1. UNCHANGED <<step, progress, count, finals>> /\ pc # "final"
    BY <1>3 DEF Around, finalVars, CallNext, CallNextAgain, PassOn, ShortCircuit, ReturnOther
  <2> QED
    BY <1>1, <2>1
<1>4. CASE EnterFinal
  <2>1. /\ finals' = finals + 1 /\ count' = 0 /\ progress' = progress
        /\ step' = "enter" /\ pc' = "final"
    BY <1>4 DEF EnterFinal, ReachFinal
  <2>2. \A i \in 1..Len(progress) : progress[i][1] <= finals' /\ progress[i][1] # finals'
    BY <1>0, <2>1
  <2>3. /\ progress' \in Seq(Nat \X Nat) /\ count' \in Nat
        /\ \A i, j \in 1..Len(progress') :
              progress'[i][1] = progress'[j][1] /\ i < j => progress'[i][2] < progress'[j][2]
    BY <2>1
  <2> QED
    BY <2>1, <2>2, <2>3
<1>5. CASE WrongInput \/ Call \/ UpstreamFails \/ RenderFails \/ Respond \/ EndOfStream \/ NotifyFails
  BY <1>1, <1>5 DEF WrongInput, Call, UpstreamFails, RenderFails, Respond, EndOfStream, NotifyFails,
     FinalFails, FinalSucceeds, FinalReturns, callVars
<1>6. CASE RecvMessage
  <2>1. UNCHANGED <<progress, finals, pc>> /\ count' = count + 1 /\ pc = "final"
    BY <1>6 DEF RecvMessage, callVars
  <2>2. count \in Nat /\ \A i \in 1..Len(progress) : progress[i][1] = finals => progress[i][2] < count'
    BY <1>0, <2>1
  <2>3. /\ progress' \in Seq(Nat \X Nat)
        /\ \A i, j \in 1..Len(progress') :
              progress'[i][1] = progress'[j][1] /\ i < j => progress'[i][2] < progress'[j][2]
    BY <2>1
  <2>4. \A i \in 1..Len(progress') :
            /\ progress'[i][1] <= finals'
            /\ progress'[i][1] = finals' => progress'[i][2] <= count' /\ progress'[i][2] < count'
    BY <1>0, <2>1, <2>2
  <2> QED
    BY <2>1, <2>2, <2>3, <2>4
<1>7. CASE Notify
  <2>1. /\ UNCHANGED <<count, finals, pc>> /\ pc = "final" /\ step = "notify" /\ step' = "recv"
        /\ progress' = Append(progress, <<finals, count>>)
    BY <1>7 DEF Notify, callVars
  <2>2. <<finals, count>> \in Nat \X Nat
    BY <1>0
  <2>3. /\ progress' \in Seq(Nat \X Nat) /\ Len(progress') = Len(progress) + 1
        /\ \A i \in 1..Len(progress) : progress'[i] = progress[i]
        /\ progress'[Len(progress) + 1] = <<finals, count>>
    BY <2>1, <2>2, AppendProperties
  <2>4. Len(progress) \in Nat
    BY LenProperties
  <2>5. \A i \in 1..Len(progress') :
            i \in 1..Len(progress) \/ (i = Len(progress) + 1 /\ progress'[i] = <<finals, count>>)
    BY <2>3, <2>4
  <2>6. \A i \in 1..Len(progress') :
            /\ progress'[i][1] <= finals
            /\ progress'[i][1] = finals => progress'[i][2] <= count
    BY <1>0, <2>1, <2>3, <2>5
  <2>7. ASSUME NEW i \in 1..Len(progress'), NEW j \in 1..Len(progress'),
               progress'[i][1] = progress'[j][1], i < j
        PROVE  progress'[i][2] < progress'[j][2]
    <3>1. i \in 1..Len(progress)
      BY <2>3, <2>4, <2>7
    <3>2. CASE j \in 1..Len(progress)
      BY <2>3, <2>7, <3>1, <3>2
    <3>3. CASE j = Len(progress) + 1
      BY <2>1, <2>3, <2>7, <3>1, <3>3
    <3> QED
      BY <2>5, <3>2, <3>3
  <2> QED
    BY <2>1, <2>3, <2>6, <2>7
<1>8. CASE UNCHANGED vars
  BY <1>1, <1>8 DEF vars, finalVars, callVars
<1> QED
  BY <1>2, <1>3, <1>4, <1>5, <1>6, <1>7, <1>8 DEF Next, FinalStep

\* Within one run of a stream the progress counters go up and count its messages,
\* whatever a retrying middleware and failing notifications did before.
THEOREM ProgressCounts == Spec => []ProgressCountsMessages
<1>1. Init => ProgressInv
  BY DEF Init, ProgressInv
<1>2. ProgressInv => ProgressCountsMessages
  <2> SUFFICES ASSUME ProgressInv PROVE ProgressCountsMessages
    OBVIOUS
  <2>1. DOMAIN progress = 1..Len(progress)
    BY LenProperties DEF ProgressInv
  <2> QED
    BY <2>1 DEF ProgressInv, ProgressCountsMessages
<1> QED
  BY <1>1, <1>2, ProgressStep, PipelineHolds, PTL DEF Spec
------------------------------------------------------------------------------
\* Type correctness of the pipeline (pipeline.go): every callback leaves a call whose
\* request, result and error are values the Go types allow, its stack no deeper than
\* the chain, whatever middleware and processors return.
THEOREM PipelineTypeCorrect == PipelineSpec => []PipelineTypeOK
<1>1. IInv => PipelineTypeOK
  BY DEF IInv
<1> QED
  BY <1>1, Invariance, PTL

\* What the handlers add to the pipeline's state.  A run of the final handler is
\* numbered from 1, and a message that is to be announced has been counted.
HandlerInv ==
    /\ step \in {"enter", "recv", "notify", "out"} /\ (pc = "final" <=> step # "out")
    /\ step # "out" => finals # 0
    /\ count \in 0..MaxMessages /\ (step = "notify" => count # 0)
    /\ output \in (0..MaxFinals) \X ((0..MaxMessages) \cup {1})
    /\ gone \in BOOLEAN /\ streaming \in BOOLEAN /\ complete \in BOOLEAN /\ (streaming => surface = "tool")
    /\ progress \in Seq((1..MaxFinals) \X (1..MaxMessages))
    /\ inCtx \subseteq 1..Len(stack) /\ inData \in [0..N -> {0, 1}] /\ sent \in [0..N -> 0..2]

LEMMA HandlerStep == IInv /\ IInv' /\ HandlerInv /\ [Next]_vars => HandlerInv'
<1> SUFFICES ASSUME IInv, IInv', HandlerInv, [Next]_vars PROVE HandlerInv'
  OBVIOUS
<1>0. finals \in 0..MaxFinals /\ MaxFinals \in Nat /\ N \in Nat /\ MaxMessages \in Nat /\ Len(stack) \in Nat /\ Len(stack) <= N
  BY PipelineOK, HandlersOK, LenProperties DEF IInv, PipelineTypeOK
<1> USE DEF HandlerInv, request
<1>1. ASSUME UNCHANGED <<request, gone, count, output, complete, progress, sent>>,
             inCtx' \subseteq 1..Len(stack'), inData' \in [0..N -> {0, 1}],
             step' \in {step, "out", "recv"}, pc' = "final" <=> step' # "out", step' = "recv" => step # "out",
             step' # "out" => finals' = finals
      PROVE  HandlerInv'
  BY <1>1
<1>2. CASE Disconnect
  BY <1>2 DEF Disconnect, callVars, finalVars, metadata
<1>3. CASE BadRequest \/ Ask \/ Declined \/ After
  <2>1. UNCHANGED <<step, gone, request, count, output, complete, progress, metadata, stack>>
    BY <1>3 DEF BadRequest, Ask, Declined, After, finalVars, Undecodable, Unmatched, InputRequired, Refused,
       FinishWith, AnswerError, FinishStep, Finish, HandleError, DefaultToolErrorHandler, DefaultErrorHandler,
       CustomErrorHandler, ProcessInstead, Process, WrapUp, Panic
  <2>2. pc # "final" /\ pc' # "final"
    BY <1>3 DEF BadRequest, Ask, Declined, After, Undecodable, Unmatched, InputRequired, Refused,
       FinishWith, AnswerError, FinishStep, Finish, HandleError, DefaultToolErrorHandler, DefaultErrorHandler,
       CustomErrorHandler, ProcessInstead, Process, WrapUp, Panic
  <2> QED
    BY <1>1, <2>1, <2>2 DEF metadata
<1>4. CASE Accepted
  <2>1. 0 \in 0..N
    BY <1>0
  <2>2. inData' \in [0..N -> {0, 1}]
    BY <1>4, <2>1 DEF Accepted, SetMetadata, Token
  <2> QED
    BY <1>1, <1>4, <2>2 DEF Accepted, EnterChain, finalVars
<1>5. CASE Around
  <2>1. UNCHANGED <<request, gone, step, count, output, complete, progress, sent>>
    BY <1>5 DEF Around, finalVars
  <2>2. pc # "final" /\ pc' # "final"
    BY <1>5 DEF Around, CallNext, CallNextAgain, PassOn, ShortCircuit, ReturnOther
  <2>3. CallNext => Len(stack') = Len(stack) + 1 /\ Len(stack) + 1 \in 0..N
    <3>1. CallNext => Chain[Len(stack) + 1] \in 1..N /\ stack \in Seq(1..N) /\ Len(stack) + 1 \in 0..N
      BY <1>0 DEF IInv, PipelineTypeOK, CallNext, Chain
    <3> QED
      BY <3>1, AppendProperties DEF CallNext
  <2>4. Pop /\ stack # <<>> => Len(stack') = Len(stack) - 1
    BY <1>0, DropLast DEF IInv, PipelineTypeOK, StackInv, Pop
  <2>5. inData' \in [0..N -> {0, 1}]
    BY <1>5, <2>3 DEF Around, Attach, SetMetadata
  <2>6. inCtx' \subseteq 1..Len(stack')
    <3>1. CASE CallNext /\ Attach(Len(stack) + 1)
      <4>1. inCtx' \subseteq inCtx \cup {Len(stack) + 1}
        BY <3>1 DEF Attach
      <4>2. Len(stack') = Len(stack) + 1
        BY <2>3, <3>1
      <4>3. inCtx \subseteq 1..Len(stack)
        OBVIOUS
      <4> HIDE DEF HandlerInv
      <4>4. inCtx \cup {Len(stack) + 1} \subseteq 1..(Len(stack) + 1)
        <5> DEFINE n == Len(stack)
        <5>1. n \in Nat /\ inCtx \subseteq 1..n
          BY <1>0, <4>3
        <5> HIDE DEF n
        <5>2. inCtx \cup {n + 1} \subseteq 1..(n + 1)
          BY <5>1
        <5> QED
          BY <5>2 DEF n
      <4> QED
        BY <4>1, <4>2, <4>4
    <3>2. CASE inCtx' = inCtx /\ stack' = stack
      BY <3>2
    <3>3. CASE Pop /\ stack # <<>> /\ inCtx' = inCtx \ {Len(stack)}
      <4>1. Len(stack') = Len(stack) - 1
        BY <2>4, <3>3
      <4>2. ASSUME NEW k \in 1..Len(stack), k # Len(stack) PROVE k \in 1..Len(stack')
        BY <1>0, <4>1, <4>2
      <4> QED
        BY <3>3, <4>2
    <3> QED
      BY <1>5, <3>1, <3>2, <3>3 DEF Around, CallNextAgain, PassOn, ShortCircuit, ReturnOther
  <2> QED
    BY <1>1, <2>1, <2>2, <2>5, <2>6
<1>6. CASE EnterFinal
  <2>1. finals' = finals + 1 /\ finals < MaxFinals /\ pc' = "final" /\ step' = "enter" /\ count' = 0
    BY <1>6 DEF EnterFinal, ReachFinal
  <2>2. UNCHANGED <<stack, request, gone, output, progress, metadata>>
    BY <1>6 DEF EnterFinal, ReachFinal
  <2>3. finals' # 0 /\ count' \in 0..MaxMessages
    <3> HIDE DEF HandlerInv
    <3> QED
      BY <1>0, <2>1
  <2>4. complete' \in BOOLEAN
    BY <1>6 DEF EnterFinal
  <2>5. inCtx' \subseteq 1..Len(stack') /\ inData' \in [0..N -> {0, 1}] /\ sent' \in [0..N -> 0..2]
    BY <2>2 DEF metadata
  <2> QED
    BY <2>1, <2>2, <2>3, <2>4, <2>5
<1>7. CASE Call
  <2>1. OutgoingContext(inData) \in [0..N -> 0..2]
    <3>1. \A key \in 0..N : inData[key] \in {0, 1}
      OBVIOUS
    <3> QED
      BY <3>1 DEF OutgoingContext
  <2> QED
    BY <1>7, <2>1 DEF Call, callVars
<1>8. CASE WrongInput \/ UpstreamFails \/ RenderFails \/ Respond \/ EndOfStream
  <2>1. pc = "final" /\ pc' = "up" /\ step' = "out" /\ UNCHANGED <<stack, finals>>
    BY <1>8 DEF WrongInput, UpstreamFails, RenderFails, Respond, EndOfStream, FinalFails, FinalSucceeds, FinalReturns
  <2>2. UNCHANGED <<request, gone, count, progress, metadata>> /\ complete' \in {complete, TRUE}
    BY <1>8 DEF WrongInput, UpstreamFails, RenderFails, Respond, EndOfStream
  <2>3. output' \in {output, <<finals, 1>>}
    BY <1>8 DEF WrongInput, UpstreamFails, RenderFails, Respond, EndOfStream
  <2>4. output' \in (0..MaxFinals) \X ((0..MaxMessages) \cup {1})
    BY <1>0, <2>3
  <2> QED
    BY <2>1, <2>2, <2>4 DEF metadata
<1>9. CASE RecvMessage
  BY <1>0, <1>9 DEF RecvMessage, callVars, metadata
<1>10. CASE Notify
  <2>1. <<finals, count>> \in (1..MaxFinals) \X (1..MaxMessages)
    BY <1>0, <1>10 DEF Notify
  <2>2. progress' \in Seq((1..MaxFinals) \X (1..MaxMessages))
    BY <1>10, <2>1, AppendProperties DEF Notify
  <2> QED
    BY <1>10, <2>2 DEF Notify, callVars, metadata
<1>11. CASE NotifyFails
  BY <1>11 DEF NotifyFails, FinalFails, FinalReturns, callVars, metadata
<1>12. CASE UNCHANGED vars
  BY <1>12 DEF vars, callVars, finalVars, metadata
<1> QED
  BY <1>2, <1>3, <1>4, <1>5, <1>6, <1>7, <1>8, <1>9, <1>10, <1>11, <1>12 DEF Next, FinalStep

\* Type correctness of the generated handlers over every chain: a handler is at a
\* step of its own exactly while the pipeline runs its final handler, only a tool
\* streams, and what is announced and counted stays within what upstream sent.
THEOREM HandlersTypeCorrect == Spec => []TypeOK
<1>1. Init => HandlerInv
  <2> SUFFICES ASSUME Init PROVE HandlerInv
    OBVIOUS
  <2>1. N \in Nat /\ MaxFinals \in Nat /\ MaxMessages \in Nat /\ Streamings \subseteq BOOLEAN
    BY PipelineOK, HandlersOK
  <2>2. pc = "idle" /\ stack = <<>> /\ finals = 0
    BY DEF Init, PipelineInit
  <2> QED
    BY <2>1, <2>2 DEF Init, HandlerInv
<1>2. IInv /\ HandlerInv => TypeOK
  BY DEF IInv, HandlerInv, TypeOK
<1> QED
  BY <1>1, <1>2, HandlerStep, PipelineHolds, PTL DEF Spec
==============================================================================
