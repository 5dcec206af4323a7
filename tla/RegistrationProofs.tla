------------------------- MODULE RegistrationProofs -------------------------
(***************************************************************************)
(* Theorems about Registration and Completion for any sets of registrars,  *)
(* registries and keys and any number of calls.                            *)
(***************************************************************************)
EXTENDS Completion, TLAPS

\* registrationMu is held by the one goroutine between Lock and the unlock.
MutexInv ==
    \A r \in Registrars : pc[r] \in Critical \cup {"copying"} <=> mu = r

\* What a call under way knows of its own arguments.
RequestInv ==
    \A r \in Registrars :
        /\ pc[r] \in InCall => req[r] \in [kind : Kinds, key : Keys] /\ calls[r] > 0
        /\ pc[r] \in {"listing", "copying"} =>
               /\ req[r] \in Request /\ diff[r] = Nobody
               /\ before[r] # Nobody => before[r].kind = req[r].kind

\* A call inside its critical section has recorded its key and not yet
\* returned.
Recorded(kind, key) ==
    \E r \in Registrars : pc[r] = "returning" /\ req[r] = [kind |-> kind, key |-> key]

\* The claimed keys are those of returned calls plus the one just recorded.
ClaimInv ==
    /\ \A kind \in Kinds, key \in Keys :
           key \in claimed[kind] <=>
               \/ Recorded(kind, key)
               \/ \E b \in returned : b.kind = kind /\ b.key = key
    /\ \A r \in Registrars :
           /\ pc[r] \in {"registering", "recording"} => req[r].key \notin claimed[req[r].kind]
           /\ pc[r] = "duplicate" => req[r].key \in claimed[req[r].kind]

\* The SDK still holds the handler of every returned call, and of the call that
\* is about to be recorded.
ServedInv ==
    /\ \A b \in returned : b.key \notin BypassKeys => sdk[b.kind][b.key] = b.handler
    /\ \A r \in Registrars :
           pc[r] \in {"recording", "returning"} /\ req[r].key \notin BypassKeys =>
               sdk[req[r].kind][req[r].key] = Mine(r)

\* An open bracket: what was claimed since is what returned since, plus the key
\* just recorded.
BracketInv ==
    \A r \in Registrars :
        /\ before[r] = Nobody => since[r] = {} /\ diff[r] = Nobody
        /\ before[r] # Nobody /\ diff[r] = Nobody =>
               \A key \in Keys :
                   key \in claimed[before[r].kind] \ before[r].keys <=>
                       key \in since[r] \/ Recorded(before[r].kind, key)
        /\ before[r] # Nobody => before[r].keys \subseteq claimed[before[r].kind]
        /\ diff[r] # Nobody => diff[r] = since[r]

IInv == TypeOK /\ MutexInv /\ RequestInv /\ ClaimInv /\ ServedInv /\ BracketInv
------------------------------------------------------------------------------
LEMMA InitIInv == Init => IInv
<1> SUFFICES ASSUME Init PROVE IInv
  OBVIOUS
<1>1. TypeOK
  BY ConstantsOK DEF Init, TypeOK, Entry, PC
<1>2. MutexInv /\ RequestInv
  BY ConstantsOK DEF Init, MutexInv, RequestInv, Critical, InCall
<1>3. ClaimInv /\ ServedInv /\ BracketInv
  BY DEF Init, ClaimInv, ServedInv, BracketInv, Recorded
<1> QED
  BY <1>1, <1>2, <1>3 DEF IInv

\* Types: the key of a call that reached the lock is not empty.
LEMMA TypeStep == TypeOK /\ RequestInv /\ [Next]_vars => TypeOK'
<1> SUFFICES ASSUME TypeOK, RequestInv, [Next]_vars PROVE TypeOK'
  OBVIOUS
<1> USE ConstantsOK DEF TypeOK, RequestInv, PC, InCall
<1>1. ASSUME NEW r \in Registrars, NEW kind \in Kinds, NEW key \in Keys \cup {EmptyKey}, MustAdd(r, kind, key) PROVE TypeOK'
  BY <1>1 DEF MustAdd, Goto, Request
<1>2. ASSUME NEW r \in Registrars, NEW kind \in Kinds, Registered(r, kind) PROVE TypeOK'
  BY <1>2 DEF Registered, Goto, Request
<1>3. ASSUME NEW r \in Registrars, CloseBracket(r) PROVE TypeOK'
  <2>1. before' \in [Registrars -> Snapshot \cup {Nobody}]
    BY <1>3 DEF CloseBracket
  <2>2. diff' \in [Registrars -> (SUBSET Keys) \cup {Nobody}]
    BY <1>3 DEF CloseBracket
  <2> QED
    BY <1>3, <2>1, <2>2 DEF CloseBracket
<1>4. ASSUME NEW r \in Registrars, Lock(r) PROVE TypeOK'
  BY <1>4 DEF Lock, Goto
<1>5. ASSUME NEW r \in Registrars, LockToList(r) PROVE TypeOK'
  BY <1>5 DEF LockToList, Goto
<1>6. ASSUME NEW r \in Registrars, Check(r) PROVE TypeOK'
  BY <1>6 DEF Check, Goto
<1>7. ASSUME NEW r \in Registrars, SDKAccepts(r) PROVE TypeOK'
  BY <1>7 DEF SDKAccepts, Goto, Mine, Handler, Entry
<1>8. ASSUME NEW r \in Registrars, SDKPanics(r) PROVE TypeOK'
  BY <1>8 DEF SDKPanics, Goto
<1>9. ASSUME NEW r \in Registrars, Record(r) PROVE TypeOK'
  BY <1>9 DEF Record, Goto
<1>10. ASSUME NEW r \in Registrars, UnlockAndReturn(r) PROVE TypeOK'
  BY <1>10 DEF UnlockAndReturn, Goto, Mine, Handler, Binding
<1>11. ASSUME NEW r \in Registrars, UnlockAndPanic(r) PROVE TypeOK'
  BY <1>11 DEF UnlockAndPanic, Goto
<1>12. ASSUME NEW r \in Registrars, Recover(r) PROVE TypeOK'
  BY <1>12 DEF Recover, Goto
<1>13. ASSUME NEW r \in Registrars, CopyKeys(r) PROVE TypeOK'
  <2>1. claimed[req[r].kind] \in SUBSET Keys
    BY <1>13 DEF CopyKeys, Request
  <2>2. before' \in [Registrars -> Snapshot \cup {Nobody}]
    BY <1>13, <2>1 DEF CopyKeys, Request, Snapshot
  <2>3. diff' \in [Registrars -> (SUBSET Keys) \cup {Nobody}]
    BY <1>13, <2>1 DEF CopyKeys
  <2> QED
    BY <1>13, <2>2, <2>3 DEF CopyKeys, Goto
<1>14. ASSUME NEW kind \in Kinds, NEW key \in BypassKeys, Bypass(kind, key) PROVE TypeOK'
  BY <1>14 DEF Bypass, Entry
<1>15. CASE UNCHANGED vars
  BY <1>15 DEF vars
<1> QED
  BY <1>1, <1>2, <1>3, <1>4, <1>5, <1>6, <1>7, <1>8, <1>9, <1>10, <1>11, <1>12, <1>13, <1>14, <1>15
     DEF Next, Calls, LockSteps, BodySteps

\* Mutual exclusion.
LEMMA MutexStep == TypeOK /\ MutexInv /\ [Next]_vars => MutexInv'
<1> SUFFICES ASSUME TypeOK, MutexInv, [Next]_vars PROVE MutexInv'
  OBVIOUS
<1> USE ConstantsOK DEF TypeOK, MutexInv, Critical, InCall
<1>1. ASSUME NEW r \in Registrars, NEW kind \in Kinds, NEW key \in Keys \cup {EmptyKey}, MustAdd(r, kind, key) PROVE MutexInv'
  BY <1>1 DEF MustAdd, Goto
<1>2. ASSUME NEW r \in Registrars, NEW kind \in Kinds, Registered(r, kind) PROVE MutexInv'
  BY <1>2 DEF Registered, Goto
<1>3. ASSUME NEW r \in Registrars, CloseBracket(r) PROVE MutexInv'
  BY <1>3 DEF CloseBracket, Goto
<1>4. ASSUME NEW r \in Registrars, Lock(r) PROVE MutexInv'
  BY <1>4 DEF Lock, Goto
<1>5. ASSUME NEW r \in Registrars, LockToList(r) PROVE MutexInv'
  BY <1>5 DEF LockToList, Goto
<1>6. ASSUME NEW r \in Registrars, Check(r) PROVE MutexInv'
  BY <1>6 DEF Check, Goto
<1>7. ASSUME NEW r \in Registrars, SDKAccepts(r) PROVE MutexInv'
  BY <1>7 DEF SDKAccepts, Goto
<1>8. ASSUME NEW r \in Registrars, SDKPanics(r) PROVE MutexInv'
  BY <1>8 DEF SDKPanics, Goto
<1>9. ASSUME NEW r \in Registrars, Record(r) PROVE MutexInv'
  BY <1>9 DEF Record, Goto
<1>10. ASSUME NEW r \in Registrars, UnlockAndReturn(r) PROVE MutexInv'
  BY <1>10 DEF UnlockAndReturn, Goto
<1>11. ASSUME NEW r \in Registrars, UnlockAndPanic(r) PROVE MutexInv'
  BY <1>11 DEF UnlockAndPanic, Goto
<1>12. ASSUME NEW r \in Registrars, Recover(r) PROVE MutexInv'
  BY <1>12 DEF Recover, Goto
<1>13. ASSUME NEW r \in Registrars, CopyKeys(r) PROVE MutexInv'
  BY <1>13 DEF CopyKeys, Goto
<1>14. ASSUME NEW kind \in Kinds, NEW key \in BypassKeys, Bypass(kind, key) PROVE MutexInv'
  BY <1>14 DEF Bypass
<1>15. CASE UNCHANGED vars
  BY <1>15 DEF vars
<1> QED
  BY <1>1, <1>2, <1>3, <1>4, <1>5, <1>6, <1>7, <1>8, <1>9, <1>10, <1>11, <1>12, <1>13, <1>14, <1>15
     DEF Next, Calls, LockSteps, BodySteps

\* The arguments of a call stay put while it runs.
LEMMA RequestStep == TypeOK /\ RequestInv /\ [Next]_vars => RequestInv'
<1> SUFFICES ASSUME TypeOK, RequestInv, [Next]_vars PROVE RequestInv'
  OBVIOUS
<1> USE ConstantsOK DEF TypeOK, RequestInv, InCall
<1>1. ASSUME NEW r \in Registrars, NEW kind \in Kinds, NEW key \in Keys \cup {EmptyKey}, MustAdd(r, kind, key) PROVE RequestInv'
  BY <1>1 DEF MustAdd, Goto, Request
<1>2. ASSUME NEW r \in Registrars, NEW kind \in Kinds, Registered(r, kind) PROVE RequestInv'
  BY <1>2 DEF Registered, Goto, Request
<1>3. ASSUME NEW r \in Registrars, CloseBracket(r) PROVE RequestInv'
  BY <1>3 DEF CloseBracket, Goto
<1>4. ASSUME NEW r \in Registrars, Lock(r) PROVE RequestInv'
  BY <1>4 DEF Lock, Goto
<1>5. ASSUME NEW r \in Registrars, LockToList(r) PROVE RequestInv'
  BY <1>5 DEF LockToList, Goto
<1>6. ASSUME NEW r \in Registrars, Check(r) PROVE RequestInv'
  BY <1>6 DEF Check, Goto
<1>7. ASSUME NEW r \in Registrars, SDKAccepts(r) PROVE RequestInv'
  BY <1>7 DEF SDKAccepts, Goto
<1>8. ASSUME NEW r \in Registrars, SDKPanics(r) PROVE RequestInv'
  BY <1>8 DEF SDKPanics, Goto
<1>9. ASSUME NEW r \in Registrars, Record(r) PROVE RequestInv'
  BY <1>9 DEF Record, Goto
<1>10. ASSUME NEW r \in Registrars, UnlockAndReturn(r) PROVE RequestInv'
  BY <1>10 DEF UnlockAndReturn, Goto
<1>11. ASSUME NEW r \in Registrars, UnlockAndPanic(r) PROVE RequestInv'
  BY <1>11 DEF UnlockAndPanic, Goto
<1>12. ASSUME NEW r \in Registrars, Recover(r) PROVE RequestInv'
  BY <1>12 DEF Recover, Goto
<1>13. ASSUME NEW r \in Registrars, CopyKeys(r) PROVE RequestInv'
  BY <1>13 DEF CopyKeys, Goto
<1>14. ASSUME NEW kind \in Kinds, NEW key \in BypassKeys, Bypass(kind, key) PROVE RequestInv'
  BY <1>14 DEF Bypass
<1>15. CASE UNCHANGED vars
  BY <1>15 DEF vars
<1> QED
  BY <1>1, <1>2, <1>3, <1>4, <1>5, <1>6, <1>7, <1>8, <1>9, <1>10, <1>11, <1>12, <1>13, <1>14, <1>15
     DEF Next, Calls, LockSteps, BodySteps

\* Keys are recorded one at a time, under the mutex.
LEMMA ClaimStep == TypeOK /\ MutexInv /\ RequestInv /\ ClaimInv /\ [Next]_vars => ClaimInv'
<1> SUFFICES ASSUME TypeOK, MutexInv, RequestInv, ClaimInv, [Next]_vars PROVE ClaimInv'
  OBVIOUS
<1> USE ConstantsOK DEF TypeOK, MutexInv, RequestInv, ClaimInv, Recorded, Critical, InCall
<1>1. ASSUME NEW r \in Registrars, NEW kind \in Kinds, NEW key \in Keys \cup {EmptyKey}, MustAdd(r, kind, key) PROVE ClaimInv'
  BY <1>1 DEF MustAdd, Goto
<1>2. ASSUME NEW r \in Registrars, NEW kind \in Kinds, Registered(r, kind) PROVE ClaimInv'
  BY <1>2 DEF Registered, Goto
<1>3. ASSUME NEW r \in Registrars, CloseBracket(r) PROVE ClaimInv'
  BY <1>3 DEF CloseBracket, Goto
<1>4. ASSUME NEW r \in Registrars, Lock(r) PROVE ClaimInv'
  BY <1>4 DEF Lock, Goto
<1>5. ASSUME NEW r \in Registrars, LockToList(r) PROVE ClaimInv'
  BY <1>5 DEF LockToList, Goto
<1>6. ASSUME NEW r \in Registrars, Check(r) PROVE ClaimInv'
  BY <1>6 DEF Check, Goto
<1>7. ASSUME NEW r \in Registrars, SDKAccepts(r) PROVE ClaimInv'
  BY <1>7 DEF SDKAccepts, Goto
<1>8. ASSUME NEW r \in Registrars, SDKPanics(r) PROVE ClaimInv'
  <2>1. UNCHANGED <<claimed, returned, req>>
    BY <1>8 DEF SDKPanics
  <2>2. \A s \in Registrars : pc'[s] = "returning" <=> pc[s] = "returning"
    BY <1>8 DEF SDKPanics, Goto
  <2>3. \A s \in Registrars : s # r => pc'[s] = pc[s]
    BY <1>8 DEF SDKPanics, Goto
  <2>4. pc'[r] = "unwinding"
    BY <1>8 DEF SDKPanics, Goto
  <2> QED
    BY <2>1, <2>2, <2>3, <2>4
<1>9. ASSUME NEW r \in Registrars, Record(r) PROVE ClaimInv'
  BY <1>9 DEF Record, Goto
<1>10. ASSUME NEW r \in Registrars, UnlockAndReturn(r) PROVE ClaimInv'
  <2>1. /\ pc[r] = "returning" /\ pc'[r] = "idle" /\ claimed' = claimed
        /\ \A s \in Registrars \ {r} : pc'[s] = pc[s] /\ req'[s] = req[s]
    BY <1>10 DEF UnlockAndReturn, Goto
  <2>2. returned' = returned \cup {[kind |-> req[r].kind, key |-> req[r].key, handler |-> Mine(r)]}
    BY <1>10 DEF UnlockAndReturn
  <2>3. \A s \in Registrars \ {r} : pc[s] \notin Critical
    BY <2>1
  <2>4. ASSUME NEW kind \in Kinds, NEW key \in Keys
        PROVE  key \in claimed'[kind] <=>
                   \/ Recorded(kind, key)'
                   \/ \E b \in returned' : b.kind = kind /\ b.key = key
    <3>1. Recorded(kind, key) <=> req[r] = [kind |-> kind, key |-> key]
      BY <2>1, <2>3
    <3>2. ~Recorded(kind, key)'
      BY <2>1, <2>3
    <3>3. req[r] = [kind |-> kind, key |-> key] <=> req[r].kind = kind /\ req[r].key = key
      BY <2>1
    <3>4. (\E b \in returned' : b.kind = kind /\ b.key = key) <=>
              \/ \E b \in returned : b.kind = kind /\ b.key = key
              \/ req[r].kind = kind /\ req[r].key = key
      <4> DEFINE new == [kind |-> req[r].kind, key |-> req[r].key, handler |-> Mine(r)]
      <4>1. new.kind = req[r].kind /\ new.key = req[r].key
        OBVIOUS
      <4>2. returned' = returned \cup {new}
        BY <2>2
      <4> HIDE DEF new
      <4> QED
        BY <4>1, <4>2
    <3>5. key \in claimed[kind] <=>
              \/ Recorded(kind, key)
              \/ \E b \in returned : b.kind = kind /\ b.key = key
      OBVIOUS
    <3> QED
      BY <2>1, <3>1, <3>2, <3>3, <3>4, <3>5
  <2> QED
    BY <2>1, <2>3, <2>4
<1>11. ASSUME NEW r \in Registrars, UnlockAndPanic(r) PROVE ClaimInv'
  BY <1>11 DEF UnlockAndPanic, Goto
<1>12. ASSUME NEW r \in Registrars, Recover(r) PROVE ClaimInv'
  BY <1>12 DEF Recover, Goto
<1>13. ASSUME NEW r \in Registrars, CopyKeys(r) PROVE ClaimInv'
  BY <1>13 DEF CopyKeys, Goto
<1>14. ASSUME NEW kind \in Kinds, NEW key \in BypassKeys, Bypass(kind, key) PROVE ClaimInv'
  BY <1>14 DEF Bypass
<1>15. CASE UNCHANGED vars
  BY <1>15 DEF vars
<1> QED
  BY <1>1, <1>2, <1>3, <1>4, <1>5, <1>6, <1>7, <1>8, <1>9, <1>10, <1>11, <1>12, <1>13, <1>14, <1>15
     DEF Next, Calls, LockSteps, BodySteps

\* The SDK's entry of a claimed key is not replaced.
LEMMA ServedStep == TypeOK /\ MutexInv /\ RequestInv /\ ClaimInv /\ ServedInv /\ [Next]_vars => ServedInv'
<1> SUFFICES ASSUME TypeOK, MutexInv, RequestInv, ClaimInv, ServedInv, [Next]_vars PROVE ServedInv'
  OBVIOUS
<1> USE ConstantsOK DEF TypeOK, MutexInv, RequestInv, ClaimInv, ServedInv, Mine, Critical, InCall
<1>1. ASSUME NEW r \in Registrars, NEW kind \in Kinds, NEW key \in Keys \cup {EmptyKey}, MustAdd(r, kind, key) PROVE ServedInv'
  BY <1>1 DEF MustAdd, Goto
<1>2. ASSUME NEW r \in Registrars, NEW kind \in Kinds, Registered(r, kind) PROVE ServedInv'
  BY <1>2 DEF Registered, Goto
<1>3. ASSUME NEW r \in Registrars, CloseBracket(r) PROVE ServedInv'
  BY <1>3 DEF CloseBracket, Goto
<1>4. ASSUME NEW r \in Registrars, Lock(r) PROVE ServedInv'
  BY <1>4 DEF Lock, Goto
<1>5. ASSUME NEW r \in Registrars, LockToList(r) PROVE ServedInv'
  BY <1>5 DEF LockToList, Goto
<1>6. ASSUME NEW r \in Registrars, Check(r) PROVE ServedInv'
  BY <1>6 DEF Check, Goto
<1>7. ASSUME NEW r \in Registrars, SDKAccepts(r) PROVE ServedInv'
  BY <1>7 DEF SDKAccepts, Goto, Binding
<1>8. ASSUME NEW r \in Registrars, SDKPanics(r) PROVE ServedInv'
  BY <1>8 DEF SDKPanics, Goto
<1>9. ASSUME NEW r \in Registrars, Record(r) PROVE ServedInv'
  BY <1>9 DEF Record, Goto
<1>10. ASSUME NEW r \in Registrars, UnlockAndReturn(r) PROVE ServedInv'
  BY <1>10 DEF UnlockAndReturn, Goto, Binding
<1>11. ASSUME NEW r \in Registrars, UnlockAndPanic(r) PROVE ServedInv'
  BY <1>11 DEF UnlockAndPanic, Goto
<1>12. ASSUME NEW r \in Registrars, Recover(r) PROVE ServedInv'
  BY <1>12 DEF Recover, Goto
<1>13. ASSUME NEW r \in Registrars, CopyKeys(r) PROVE ServedInv'
  BY <1>13 DEF CopyKeys, Goto
<1>14. ASSUME NEW kind \in Kinds, NEW key \in BypassKeys, Bypass(kind, key) PROVE ServedInv'
  BY <1>14 DEF Bypass
<1>15. CASE UNCHANGED vars
  BY <1>15 DEF vars
<1> QED
  BY <1>1, <1>2, <1>3, <1>4, <1>5, <1>6, <1>7, <1>8, <1>9, <1>10, <1>11, <1>12, <1>13, <1>14, <1>15
     DEF Next, Calls, LockSteps, BodySteps

\* Between two snapshots, claimed keys and returned calls grow together.
LEMMA BracketStep == TypeOK /\ MutexInv /\ RequestInv /\ ClaimInv /\ BracketInv /\ [Next]_vars => BracketInv'
<1> SUFFICES ASSUME TypeOK, MutexInv, RequestInv, ClaimInv, BracketInv, [Next]_vars PROVE BracketInv'
  OBVIOUS
<1> USE ConstantsOK DEF TypeOK, MutexInv, RequestInv, ClaimInv, BracketInv, Recorded, Critical, InCall
<1>1. ASSUME NEW r \in Registrars, NEW kind \in Kinds, NEW key \in Keys \cup {EmptyKey}, MustAdd(r, kind, key) PROVE BracketInv'
  BY <1>1 DEF MustAdd, Goto
<1>2. ASSUME NEW r \in Registrars, NEW kind \in Kinds, Registered(r, kind) PROVE BracketInv'
  BY <1>2 DEF Registered, Goto
<1>3. ASSUME NEW r \in Registrars, CloseBracket(r) PROVE BracketInv'
  BY <1>3 DEF CloseBracket, Goto
<1>4. ASSUME NEW r \in Registrars, Lock(r) PROVE BracketInv'
  BY <1>4 DEF Lock, Goto
<1>5. ASSUME NEW r \in Registrars, LockToList(r) PROVE BracketInv'
  BY <1>5 DEF LockToList, Goto
<1>6. ASSUME NEW r \in Registrars, Check(r) PROVE BracketInv'
  BY <1>6 DEF Check, Goto
<1>7. ASSUME NEW r \in Registrars, SDKAccepts(r) PROVE BracketInv'
  BY <1>7 DEF SDKAccepts, Goto
<1>8. ASSUME NEW r \in Registrars, SDKPanics(r) PROVE BracketInv'
  BY <1>8 DEF SDKPanics, Goto
<1>9. ASSUME NEW r \in Registrars, Record(r) PROVE BracketInv'
  BY <1>9 DEF Record, Goto
<1>10. ASSUME NEW r \in Registrars, UnlockAndReturn(r) PROVE BracketInv'
  BY <1>10 DEF UnlockAndReturn, Goto, InBracket
<1>11. ASSUME NEW r \in Registrars, UnlockAndPanic(r) PROVE BracketInv'
  BY <1>11 DEF UnlockAndPanic, Goto
<1>12. ASSUME NEW r \in Registrars, Recover(r) PROVE BracketInv'
  BY <1>12 DEF Recover, Goto
<1>13. ASSUME NEW r \in Registrars, CopyKeys(r) PROVE BracketInv'
  <2>1. \A s \in Registrars : pc[s] # "returning" /\ pc'[s] # "returning"
    BY <1>13 DEF CopyKeys, Goto
  <2>2. /\ UNCHANGED <<claimed, since>> /\ req[r].kind \in Kinds
        /\ \A s \in Registrars \ {r} : before'[s] = before[s] /\ diff'[s] = diff[s]
    BY <1>13 DEF CopyKeys, Request
  <2>3. CASE before[r] = Nobody
    <3>1. before'[r] = [kind |-> req[r].kind, keys |-> claimed[req[r].kind]] /\ diff'[r] = Nobody
      BY <1>13, <2>3 DEF CopyKeys
    <3> QED
      BY <2>1, <2>2, <2>3, <3>1
  <2>4. CASE before[r] # Nobody
    <3>1. before'[r] = before[r] /\ diff'[r] = claimed[req[r].kind] \ before[r].keys
      BY <1>13, <2>4 DEF CopyKeys
    <3>2. before[r].kind = req[r].kind /\ diff[r] = Nobody
      BY <1>13, <2>4 DEF CopyKeys
    <3>3. \A key \in Keys :
              key \in claimed[req[r].kind] \ before[r].keys <=> key \in since[r]
      <4>1. \A key \in Keys : ~Recorded(req[r].kind, key)
        BY <2>1
      <4>2. \A key \in Keys :
                key \in claimed[before[r].kind] \ before[r].keys <=>
                    key \in since[r] \/ Recorded(before[r].kind, key)
        BY <2>4, <3>2
      <4> HIDE DEF Recorded
      <4> QED
        BY <4>1, <4>2, <3>2
    <3>4. claimed[req[r].kind] \subseteq Keys /\ since[r] \subseteq Keys
      BY <2>2
    <3>5. diff'[r] = since[r]
      BY <3>1, <3>3, <3>4
    <3>6. ASSUME NEW s \in Registrars PROVE BracketInv!(s)'
      <4>1. CASE s = r
        BY <2>1, <2>2, <2>4, <3>1, <3>2, <3>5, <4>1
      <4>2. CASE s # r
        BY <2>1, <2>2, <4>2
      <4> QED
        BY <4>1, <4>2
    <3> QED
      BY <3>6
  <2> QED
    BY <2>3, <2>4
<1>14. ASSUME NEW kind \in Kinds, NEW key \in BypassKeys, Bypass(kind, key) PROVE BracketInv'
  BY <1>14 DEF Bypass
<1>15. CASE UNCHANGED vars
  BY <1>15 DEF vars
<1> QED
  BY <1>1, <1>2, <1>3, <1>4, <1>5, <1>6, <1>7, <1>8, <1>9, <1>10, <1>11, <1>12, <1>13, <1>14, <1>15
     DEF Next, Calls, LockSteps, BodySteps

\* IInv is inductive.
THEOREM Invariance == Spec => []IInv
<1>1. IInv /\ [Next]_vars => IInv'
  BY TypeStep, MutexStep, RequestStep, ClaimStep, ServedStep, BracketStep DEF IInv
<1> QED
  BY InitIInv, <1>1, PTL DEF Spec

\* The state of the registries stays well-typed; in particular the empty key
\* is never claimed.
THEOREM TypeCorrectness == Spec => []TypeOK
  BY Invariance, PTL DEF IInv

\* With the mutex free, the claimed keys are those of the calls that returned
\* and the SDK serves each with that call's handler (claimAndRegister).
THEOREM RegisteredServed == Spec => []RegisteredIsServed
<1>1. IInv => RegisteredIsServed
  <2> SUFFICES ASSUME IInv, mu = Nobody PROVE RegisteredIsServed!2
    BY DEF RegisteredIsServed
  <2>1. \A r \in Registrars : pc[r] # "returning"
    BY ConstantsOK DEF IInv, MutexInv, Critical, InCall
  <2>2. ASSUME NEW kind \in Kinds
        PROVE  claimed[kind] = {b.key : b \in {c \in returned : c.kind = kind}}
    <3>1. claimed[kind] \subseteq Keys /\ \A b \in returned : b.key \in Keys
      BY DEF IInv, TypeOK, Binding
    <3>2. \A key \in Keys : key \in claimed[kind] <=>
              \E b \in returned : b.kind = kind /\ b.key = key
      <4>1. \A key \in Keys : ~Recorded(kind, key)
        BY <2>1 DEF Recorded
      <4> QED
        BY <4>1 DEF IInv, ClaimInv
    <3> QED
      BY <3>1, <3>2
  <2> QED
    BY <2>2 DEF IInv, ServedInv
<1> QED
  BY <1>1, Invariance, PTL

\* A call refused as a duplicate has a returned call for the same key behind it.
THEOREM RetryNotRefused == Spec => []NoFalseDuplicate
<1>1. IInv => NoFalseDuplicate
  <2> SUFFICES ASSUME IInv, NEW r \in Registrars, pc[r] = "duplicate"
               PROVE  \E b \in returned : b.kind = req[r].kind /\ b.key = req[r].key
    BY DEF NoFalseDuplicate
  <2>1. mu = r
    BY DEF IInv, MutexInv, Critical, InCall
  <2>2. req[r].kind \in Kinds /\ req[r].key \in Keys
    BY DEF IInv, RequestInv, InCall
  <2>3. ~Recorded(req[r].kind, req[r].key)
    BY <2>1 DEF IInv, MutexInv, Recorded, Critical, InCall
  <2> QED
    BY <2>2, <2>3 DEF IInv, ClaimInv
<1> QED
  BY <1>1, Invariance, PTL

\* The difference of two snapshots is what returned between them.
THEOREM SnapshotsExact == Spec => []SnapshotDiffExact
<1>1. IInv => SnapshotDiffExact
  BY DEF IInv, BracketInv, SnapshotDiffExact
<1> QED
  BY <1>1, Invariance, PTL

\* The registry a client is served from implements ClaimOnce.
THEOREM ImplementsClaimOnce == Spec => WriteOnce
<1>1. Init => Abstract!Init
  BY DEF Init, Abstract!Init, ServedRegistry
<1>2. IInv /\ [Next]_vars => [Abstract!Next]_ServedRegistry
  <2> SUFFICES ASSUME IInv, [Next]_vars
               PROVE  Abstract!Next \/ UNCHANGED ServedRegistry
    OBVIOUS
  <2>1. ASSUME UNCHANGED <<claimed, sdk>> PROVE UNCHANGED ServedRegistry
    BY <2>1 DEF ServedRegistry
  <2>2. ASSUME NEW r \in Registrars, SDKAccepts(r) PROVE UNCHANGED ServedRegistry
    <3>1. claimed' = claimed /\ req[r].key \notin claimed[req[r].kind]
      BY <2>2 DEF SDKAccepts, IInv, ClaimInv
    <3>2. \A kind \in Kinds, key \in Keys \ BypassKeys :
              key \in claimed[kind] => sdk'[kind][key] = sdk[kind][key]
      BY <2>2, <3>1 DEF SDKAccepts, IInv, TypeOK
    <3> QED
      BY <3>1, <3>2 DEF ServedRegistry
  <2>3. ASSUME NEW r \in Registrars, Record(r)
        PROVE  Abstract!Next \/ UNCHANGED ServedRegistry
    <3> DEFINE kind == req[r].kind
               key  == req[r].key
    <3>1. /\ kind \in Kinds /\ key \in Keys /\ Mine(r) \in Handler
          /\ key \notin claimed[kind]
          /\ key \notin BypassKeys => sdk[kind][key] = Mine(r)
      BY <2>3 DEF Record, IInv, RequestInv, ClaimInv, ServedInv, TypeOK, InCall, Mine, Handler
    <3>2. sdk' = sdk /\ claimed' = [claimed EXCEPT ![kind] = @ \cup {key}]
      BY <2>3 DEF Record
    <3>3. CASE key \in BypassKeys
      BY <3>1, <3>2, <3>3 DEF ServedRegistry, IInv, TypeOK
    <3>4. CASE key \notin BypassKeys
      <4>1. ServedRegistry[kind][key] = NoEntry
        BY <3>1, <3>4 DEF ServedRegistry
      <4>2. ASSUME NEW k \in Kinds, NEW x \in Keys \ BypassKeys
            PROVE  ServedRegistry'[k][x] =
                       IF k = kind /\ x = key THEN Mine(r) ELSE ServedRegistry[k][x]
        BY <3>1, <3>2, <3>4 DEF ServedRegistry, IInv, TypeOK
      <4>3. ServedRegistry' = [ServedRegistry EXCEPT ![kind][key] = Mine(r)]
        <5> DEFINE bind == [ServedRegistry EXCEPT ![kind][key] = Mine(r)]
        <5>1. \A k \in Kinds : ServedRegistry'[k] = [x \in Keys \ BypassKeys |->
                  IF k = kind /\ x = key THEN Mine(r) ELSE ServedRegistry[k][x]]
          BY <4>2 DEF ServedRegistry
        <5>2. \A k \in Kinds : bind[k] = [x \in Keys \ BypassKeys |->
                  IF k = kind /\ x = key THEN Mine(r) ELSE ServedRegistry[k][x]]
          BY <3>1 DEF ServedRegistry
        <5>3. bind = [k \in Kinds |-> bind[k]]
          BY DEF ServedRegistry
        <5>4. ServedRegistry' = [k \in Kinds |-> ServedRegistry'[k]]
          BY DEF ServedRegistry
        <5> QED
          BY <5>1, <5>2, <5>3, <5>4
      <4>4. Abstract!Bind(kind, key, Mine(r))
        BY <4>1, <4>3 DEF Abstract!Bind
      <4> QED
        BY <3>1, <3>4, <4>4 DEF Abstract!Next
    <3> QED
      BY <3>3, <3>4
  <2>4. ASSUME NEW kind \in Kinds, NEW key \in BypassKeys, Bypass(kind, key)
        PROVE  UNCHANGED ServedRegistry
    <3>1. claimed' = claimed
      BY <2>4 DEF Bypass
    <3>2. \A k \in Kinds, x \in Keys \ BypassKeys : sdk'[k][x] = sdk[k][x]
      BY <2>4 DEF Bypass, IInv, TypeOK
    <3> QED
      BY <3>1, <3>2 DEF ServedRegistry
  <2>5. ASSUME NEW r \in Registrars,
               \/ Calls(r) \/ LockSteps(r) \/ Check(r) \/ SDKPanics(r)
               \/ UnlockAndReturn(r) \/ UnlockAndPanic(r) \/ Recover(r) \/ CopyKeys(r)
        PROVE  UNCHANGED <<claimed, sdk>>
    BY <2>5 DEF Calls, MustAdd, Registered, CloseBracket, LockSteps, Lock, LockToList,
       Check, SDKPanics, UnlockAndReturn, UnlockAndPanic, Recover, CopyKeys
  <2>6. CASE UNCHANGED vars
    BY <2>1, <2>6 DEF vars
  <2> QED
    BY <2>1, <2>2, <2>3, <2>4, <2>5, <2>6 DEF Next, BodySteps
<1> QED
  BY <1>1, <1>2, Invariance, PTL DEF Spec, WriteOnce, Abstract!Spec
------------------------------------------------------------------------------
\* The values in the table, and those a registrar still has to put there, belong to a
\* prompt whose MustAddPrompt returned.
TableInv ==
    /\ table \in [Keys -> Entry] /\ pending \in [Registrars -> Keys \cup {Nobody}]
    /\ \A key \in Keys : table[key] # NoEntry =>
           [kind |-> Prompt, key |-> key, handler |-> table[key]] \in returned
    /\ \A r \in Registrars : pending[r] # Nobody =>
           /\ pc[r] = "idle"
           /\ [kind |-> Prompt, key |-> pending[r], handler |-> Mine(r)] \in returned

LEMMA CompletionStepsRegistration == CompletionNext => [Next]_vars
  BY DEF CompletionNext, Next, PromptAdded, RegisterPromptArgCompletions, BodySteps

LEMMA TableStep == IInv /\ TableInv /\ [CompletionNext]_allVars => TableInv'
<1> SUFFICES ASSUME IInv, TableInv, [CompletionNext]_allVars PROVE TableInv'
  OBVIOUS
<1>1. ASSUME NEW r \in Registrars, PromptAdded(r) PROVE TableInv'
  <2>1. /\ pc[r] = "returning" /\ pc' = [pc EXCEPT ![r] = "idle"] /\ calls' = calls
        /\ returned' = returned \cup {[kind |-> req[r].kind, key |-> req[r].key, handler |-> Mine(r)]}
        /\ table' = table /\ req[r].key \in Keys /\ Mine(r)' = Mine(r)
    BY <1>1 DEF PromptAdded, UnlockAndReturn, Goto, IInv, RequestInv, InCall, Mine
  <2>2. \/ pending' = pending
        \/ /\ req[r].kind = Prompt /\ pending' = [pending EXCEPT ![r] = req[r].key]
    BY <1>1 DEF PromptAdded
  <2>3. \A s \in Registrars : pending'[s] # Nobody =>
           /\ pc'[s] = "idle"
           /\ [kind |-> Prompt, key |-> pending'[s], handler |-> Mine(s)'] \in returned'
    BY <2>1, <2>2 DEF TableInv, IInv, TypeOK, Mine
  <2> QED
    BY <2>1, <2>2, <2>3 DEF TableInv
<1>2. ASSUME NEW r \in Registrars, RegisterPromptArgCompletions(r) PROVE TableInv'
  <2>1. /\ pending[r] # Nobody /\ pending' = [pending EXCEPT ![r] = Nobody]
        /\ table' = [table EXCEPT ![pending[r]] = Mine(r)]
        /\ returned' = returned /\ pc' = pc /\ calls' = calls
    BY <1>2 DEF RegisterPromptArgCompletions, vars
  <2>2. pending[r] \in Keys /\ Mine(r) \in Entry
    BY <2>1 DEF TableInv, IInv, TypeOK, Binding, Entry
  <2> QED
    BY <2>1, <2>2 DEF TableInv, Mine
<1>3. ASSUME NEW r \in Registrars, UNCHANGED completionVars, returned' = returned,
             pending[r] # Nobody => pc[r] # "idle",
             \A s \in Registrars \ {r} : pc'[s] = pc[s] /\ calls'[s] = calls[s]
      PROVE  TableInv'
  BY <1>3 DEF TableInv, completionVars, Mine
<1>4. ASSUME NEW r \in Registrars, UNCHANGED completionVars, pending[r] = Nobody, Calls(r)
      PROVE  TableInv'
  <2>1. returned' = returned
    BY <1>4 DEF Calls, MustAdd, Registered, CloseBracket
  <2>2. \A s \in Registrars \ {r} : pc'[s] = pc[s] /\ calls'[s] = calls[s]
    BY <1>4 DEF Calls, MustAdd, Registered, CloseBracket, Goto, IInv, TypeOK
  <2> QED
    BY <1>3, <1>4, <2>1, <2>2
<1>5. ASSUME NEW r \in Registrars, UNCHANGED completionVars,
             LockSteps(r) \/ (BodySteps(r) /\ pc[r] # "returning")
      PROVE  TableInv'
  <2>1. returned' = returned /\ pc[r] # "idle"
    BY <1>5 DEF LockSteps, Lock, LockToList, BodySteps, Check, SDKAccepts, SDKPanics, Record,
       UnlockAndReturn, UnlockAndPanic, Recover, CopyKeys
  <2>2. \A s \in Registrars \ {r} : pc'[s] = pc[s] /\ calls'[s] = calls[s]
    BY <1>5 DEF LockSteps, Lock, LockToList, BodySteps, Check, SDKAccepts, SDKPanics, Record,
       UnlockAndReturn, UnlockAndPanic, Recover, CopyKeys, Goto, IInv, TypeOK
  <2> QED
    BY <1>3, <1>5, <2>1, <2>2
<1>6. ASSUME NEW kind \in Kinds, NEW key \in BypassKeys, Bypass(kind, key), UNCHANGED completionVars
      PROVE  TableInv'
  BY <1>6 DEF Bypass, TableInv, completionVars, Mine
<1>7. CASE UNCHANGED allVars
  BY <1>7 DEF allVars, vars, completionVars, TableInv, Mine
<1> QED
  BY <1>1, <1>2, <1>4, <1>5, <1>6, <1>7 DEF CompletionNext

\* The values a client completes from belong to the prompt it would get.
THEOREM CompletionsBelong == CompletionSpec => []CompletesServedPrompt
<1>1. CompletionInit => IInv /\ TableInv
  <2>1. CompletionInit => IInv
    BY InitIInv DEF CompletionInit
  <2>2. CompletionInit => TableInv
    BY DEF CompletionInit, TableInv, Entry
  <2> QED
    BY <2>1, <2>2
<1>2. IInv /\ TableInv /\ [CompletionNext]_allVars => (IInv /\ TableInv)'
  <2>1. [CompletionNext]_allVars => [Next]_vars
    BY CompletionStepsRegistration DEF allVars
  <2> QED
    BY <2>1, TableStep, TypeStep, MutexStep, RequestStep, ClaimStep, ServedStep, BracketStep DEF IInv
<1>3. IInv /\ TableInv => CompletesServedPrompt
  <2> SUFFICES ASSUME IInv, TableInv, NEW key \in Keys \ BypassKeys, table[key] # NoEntry
               PROVE  table[key] = sdk[Prompt][key]
    BY DEF CompletesServedPrompt, Answer
  <2> DEFINE b == [kind |-> Prompt, key |-> key, handler |-> table[key]]
  <2>1. b \in returned
    BY DEF TableInv
  <2>2. b.key \notin BypassKeys => sdk[b.kind][b.key] = b.handler
    BY <2>1 DEF IInv, ServedInv
  <2> QED
    BY <2>2
<1> QED
  BY <1>1, <1>2, <1>3, PTL DEF CompletionSpec
=============================================================================
