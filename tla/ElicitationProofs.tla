-------------------------- MODULE ElicitationProofs --------------------------
(***************************************************************************)
(* The gate needs no memory of its own: the echoed RequestState is enough, *)
(* for any tools, arguments, structs and requests in flight.               *)
(***************************************************************************)
EXTENDS Elicitation, TLAPS

\* An "accept" is always kept with the state of the call it was given for.
BoundTo(p, contents) ==
    contents.confirm = "accept" => <<p, contents.state>> \in accepted
AnswersBound ==
    /\ \A p \in Structs : BoundTo(p, params[p])
    /\ \A r \in requests : BoundTo(r[1], r[2])

\* A call that was asked about carries its answer from then on.
AskedOnceInv ==
    \A p \in Structs :
        /\ prompts[p] \in {0, 1}
        /\ phase[p] = "asking" => prompts[p] = 1
        /\ phase[p] = "waiting" /\ prompts[p] = 1 => Answered(params[p])

IInv == TypeOK /\ AnswersBound /\ AskedOnceInv /\ RunsOnlyAccepted

LEMMA Distinct == /\ Nothing \notin Calls /\ Nothing \notin Answers /\ "accept" \in Answers
  BY ElicitationOK DEF Calls, Answers

LEMMA Initially == Init => IInv
<1> SUFFICES ASSUME Init PROVE IInv
  OBVIOUS
<1>1. TypeOK
  BY DEF Init, TypeOK, Contents
<1>2. AnswersBound
  BY Distinct DEF Init, AnswersBound, BoundTo
<1>3. AskedOnceInv /\ RunsOnlyAccepted
  BY DEF Init, AskedOnceInv, RunsOnlyAccepted
<1> QED
  BY <1>1, <1>2, <1>3 DEF IInv

\* Sending contents whose "accept", if there is one, is bound.
LEMMA SendKeeps ==
  ASSUME IInv, NEW p \in Structs, NEW contents \in Contents, Send(p, contents),
         accepted \subseteq accepted', accepted' \subseteq Structs \X Calls, ran' = ran,
         contents.confirm = "accept" => <<p, contents.state>> \in accepted',
         \/ prompts' = [prompts EXCEPT ![p] = 0]
         \/ prompts' = prompts /\ Answered(contents)
  PROVE  IInv'
<1> USE DEF IInv, TypeOK, AnswersBound, BoundTo, AskedOnceInv, RunsOnlyAccepted
<1>1. TypeOK'
  BY DEF Send
<1>2. AnswersBound'
  BY DEF Send
<1>3. AskedOnceInv'
  BY DEF Send, Answered
<1> QED
  BY <1>1, <1>2, <1>3

\* The client's side.
LEMMA ClientKeeps ==
  ASSUME IInv, NEW p \in Structs,
         \/ GiveUp(p)
         \/ \E call \in Calls : CallFresh(p, call) \/ CallReused(p, call)
         \/ \E answer \in Answers : Answer(p, answer)
  PROVE  IInv'
<1>1. params[p] \in Contents /\ accepted \subseteq Structs \X Calls
  BY DEF IInv, TypeOK
<1>2. CASE GiveUp(p)
  BY <1>2 DEF GiveUp, IInv, TypeOK, AnswersBound, BoundTo, AskedOnceInv, RunsOnlyAccepted, Answered
<1>3. ASSUME NEW call \in Calls, CallFresh(p, call) PROVE IInv'
  <2> DEFINE contents == [call |-> call, state |-> Nothing, confirm |-> Nothing]
  <2>1. contents \in Contents /\ contents.confirm # "accept"
    BY Distinct DEF Contents
  <2>2. /\ Send(p, contents) /\ accepted' = accepted /\ ran' = ran
        /\ prompts' = [prompts EXCEPT ![p] = 0]
    BY <1>3 DEF CallFresh
  <2> QED
    BY <1>1, <2>1, <2>2, SendKeeps
<1>4. ASSUME NEW call \in Calls, CallReused(p, call) PROVE IInv'
  <2> DEFINE contents == [params[p] EXCEPT !.call = call]
  <2>1. /\ contents \in Contents
        /\ contents.confirm = params[p].confirm /\ contents.state = params[p].state
    BY <1>1 DEF Contents
  <2>2. contents.confirm = "accept" => <<p, contents.state>> \in accepted
    BY <2>1 DEF IInv, AnswersBound, BoundTo
  <2>3. /\ Send(p, contents) /\ accepted' = accepted /\ ran' = ran
        /\ prompts' = [prompts EXCEPT ![p] = 0]
    BY <1>4 DEF CallReused
  <2> HIDE DEF contents
  <2> QED
    BY <1>1, <2>1, <2>2, <2>3, SendKeeps
<1>5. ASSUME NEW answer \in Answers, Answer(p, answer) PROVE IInv'
  <2> DEFINE contents == [params[p] EXCEPT !.confirm = answer,
                                           !.state = ElicitationState(params[p].call)]
  <2>1. /\ contents \in Contents /\ contents.confirm = answer
        /\ contents.state = params[p].call /\ contents.call = params[p].call
    BY <1>1 DEF Contents, ElicitationState
  <2>2. Answered(contents)
    BY <2>1, Distinct DEF Answered, ElicitationState
  <2>3. params[p].call \in Calls
    BY <1>1 DEF Contents
  <2>4. /\ accepted \subseteq accepted' /\ accepted' \subseteq Structs \X Calls
        /\ contents.confirm = "accept" => <<p, contents.state>> \in accepted'
    <3>1. CASE answer = "accept"
      <4>1. accepted' = accepted \cup {<<p, params[p].call>>}
        BY <1>5, <3>1 DEF Answer
      <4> QED
        BY <4>1, <1>1, <2>1, <2>3
    <3>2. CASE answer # "accept"
      <4>1. accepted' = accepted /\ contents.confirm # "accept"
        BY <1>5, <3>2, <2>1 DEF Answer
      <4> QED
        BY <4>1, <1>1
    <3> QED
      BY <3>1, <3>2
  <2>5. Send(p, contents) /\ ran' = ran /\ prompts' = prompts
    BY <1>5 DEF Answer
  <2> HIDE DEF contents
  <2> QED
    BY <2>1, <2>2, <2>4, <2>5, SendKeeps
<1> QED
  BY <1>2, <1>3, <1>4, <1>5

\* The server's side: the chain runs for an accepted call, and only a call that
\* was not asked about yet is asked about.
LEMMA HandleKeeps == IInv /\ Handle => IInv'
<1> SUFFICES ASSUME IInv, Handle PROVE IInv'
  OBVIOUS
<1> USE DEF IInv, TypeOK, AnswersBound, BoundTo, AskedOnceInv, RunsOnlyAccepted
<1> PICK r \in requests : Prompt(r) \/ Decline(r) \/ Proceed(r)
  BY DEF Handle
<1>1. r[1] \in Structs /\ r[2] \in Contents /\ r = <<r[1], r[2]>>
  OBVIOUS
<1>2. CASE Prompt(r)
  <2>1. CASE phase[r[1]] = "waiting" /\ params[r[1]] = r[2]
    <3>1. phase' = [phase EXCEPT ![r[1]] = "asking"] /\ phase' # phase
      BY <1>1, <1>2, <2>1 DEF Prompt, Deliver
    <3>2. prompts[r[1]] = 0
      BY <1>1, <1>2, <2>1 DEF Prompt
    <3>3. prompts' = [prompts EXCEPT ![r[1]] = 1]
      BY <1>1, <1>2, <3>1, <3>2 DEF Prompt
    <3>4. requests' \subseteq requests /\ UNCHANGED <<params, accepted, ran>>
      BY <1>2 DEF Prompt, Deliver
    <3>5. TypeOK' /\ AnswersBound' /\ RunsOnlyAccepted'
      BY <1>1, <3>1, <3>3, <3>4
    <3>6. AskedOnceInv'
      BY <1>1, <3>1, <3>3, <3>4 DEF Answered
    <3> QED
      BY <3>5, <3>6
  <2>2. CASE ~(phase[r[1]] = "waiting" /\ params[r[1]] = r[2])
    <3>1. phase' = phase /\ prompts' = prompts /\ requests' \subseteq requests
          /\ UNCHANGED <<params, accepted, ran>>
      BY <1>1, <1>2, <2>2 DEF Prompt, Deliver
    <3> QED
      BY <3>1 DEF Answered
  <2> QED
    BY <2>1, <2>2
<1>3. ASSUME Deliver(r, "idle"), UNCHANGED <<params, prompts, accepted>>
      PROVE  /\ params' \in [Structs -> Contents] /\ requests' \subseteq Structs \X Contents
             /\ phase' \in [Structs -> {"idle", "waiting", "asking"}]
             /\ AnswersBound' /\ AskedOnceInv'
  BY <1>1, <1>3 DEF Deliver, Answered
<1>4. CASE Decline(r)
  BY <1>4, <1>3 DEF Decline
<1>5. CASE Proceed(r)
  <2>1. <<r[1], r[2].call>> \in accepted
    BY <1>1, <1>5 DEF Proceed, Answered, ElicitationState
  <2> QED
    BY <1>5, <1>3, <2>1 DEF Proceed
<1> QED
  BY <1>2, <1>4, <1>5

LEMMA Inductive == IInv /\ [Next]_vars => IInv'
<1> SUFFICES ASSUME IInv, [Next]_vars PROVE IInv'
  OBVIOUS
<1>1. CASE Next
  BY <1>1, ClientKeeps, HandleKeeps DEF Next
<1>2. CASE UNCHANGED vars
  BY <1>2 DEF vars, IInv, TypeOK, AnswersBound, BoundTo, AskedOnceInv, RunsOnlyAccepted, Answered
<1> QED
  BY <1>1, <1>2

LEMMA Invariance == Spec => []IInv
  BY Initially, Inductive, PTL DEF Spec
------------------------------------------------------------------------------
\* Type correctness of the gate, its requests and answers.
THEOREM GateTypeCorrect == Spec => []TypeOK
<1>1. IInv => TypeOK
  BY DEF IInv
<1> QED
  BY Invariance, <1>1, PTL

\* The gRPC call of a gated tool runs only for a call the user said accept to.
THEOREM ConsentRequired == Spec => []RunsOnlyAccepted
<1>1. IInv => RunsOnlyAccepted
  BY DEF IInv
<1> QED
  BY Invariance, <1>1, PTL

\* No call is asked about twice.
THEOREM AskedAtMostOnce == Spec => []AsksOnce
<1>1. IInv => AsksOnce
  BY DEF IInv, AskedOnceInv, AsksOnce
<1> QED
  BY Invariance, <1>1, PTL
==============================================================================
