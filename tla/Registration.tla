---------------------------- MODULE Registration ----------------------------
(***************************************************************************)
(* The write side of protomcp.Server's registries                          *)
(* (pkg/protomcp/registration.go): goroutines call the MustAdd functions   *)
(* and the Registered* snapshots; claimAndRegister makes the duplicate     *)
(* check, the SDK call and the recording of the key one critical section   *)
(* of registrationMu, left by a deferred unlock even when the SDK panics.  *)
(* A caller may recover the panic and call again.                          *)
(*                                                                         *)
(* The SDK's own registries replace silently; SDK() lets the application   *)
(* write them without a claim (only for BypassKeys here).                  *)
(***************************************************************************)
EXTENDS Naturals, FiniteSets

CONSTANTS Registrars,  \* goroutines that register primitives
          Kinds,       \* the registries: toolNames, resourceURIs, ...
          Keys,        \* non-empty keys
          EmptyKey,    \* ""
          BypassKeys,  \* keys the application also writes through SDK()
          MaxCalls,    \* bound: calls a registrar makes
          Nobody       \* no registrar; also "no entry" and "no snapshot"

ASSUME ConstantsOK ==
    /\ EmptyKey \notin Keys
    /\ BypassKeys \subseteq Keys
    /\ MaxCalls \in Nat
    /\ Nobody \notin Registrars

\* A handler is known by the call that registered it (the client captured in
\* its closure): two calls never register the same handler.
Handler == [by : Registrars, call : 1..MaxCalls]
Bypassed == [by |-> Nobody, call |-> 0]   \* any handler added through SDK()
NoEntry == [by |-> Nobody, call |-> MaxCalls + 1]
Entry == Handler \cup {Bypassed, NoEntry}

VARIABLES
    mu,        \* the holder of registrationMu, or Nobody
    claimed,   \* claimed[kind]: the keys recorded in that registry's map
    sdk,       \* sdk[kind][key]: the entry of the SDK's map
    pc,        \* pc[r]: where r's current call is
    calls,     \* calls[r]: number of MustAdd calls r has begun
    req,       \* req[r]: kind and key of r's current call, or Nobody
    returned,  \* history: the MustAdd calls that returned normally
    before,    \* before[r]: r's open snapshot of a registry, or Nobody
    since,     \* history: keys of calls that returned since before[r]
    diff       \* diff[r]: latest snapshot minus before[r], or Nobody

vars == <<mu, claimed, sdk, pc, calls, req, returned, before, since, diff>>

Request == [kind : Kinds, key : Keys \cup {EmptyKey}]
Binding == [kind : Kinds, key : Keys, handler : Handler]

\* "locking" .. "unwinding" are the body of claimAndRegister; "panicked" is a
\* panic on its way to the caller; "listing" is registered() awaiting the lock.
InCall == {"locking", "checking", "registering", "recording", "returning",
           "duplicate", "unwinding"}
Critical == InCall \ {"locking"}
PC == InCall \cup {"idle", "panicked", "listing", "copying"}

Mine(r) == [by |-> r, call |-> calls[r]]
Snapshot == [kind : Kinds, keys : SUBSET Keys]

Init ==
    /\ mu = Nobody
    /\ claimed = [k \in Kinds |-> {}]
    /\ sdk = [k \in Kinds |-> [x \in Keys |-> NoEntry]]
    /\ pc = [r \in Registrars |-> "idle"]
    /\ calls = [r \in Registrars |-> 0]
    /\ req = [r \in Registrars |-> Nobody]
    /\ returned = {}
    /\ before = [r \in Registrars |-> Nobody]
    /\ since = [r \in Registrars |-> {}]
    /\ diff = [r \in Registrars |-> Nobody]
------------------------------------------------------------------------------
Goto(r, label) == pc' = [pc EXCEPT ![r] = label]

\* MustAddTool, MustAddResource, MustAddResourceTemplate, MustAddPrompt: the
\* empty key panics before the lock is taken.
MustAdd(r, kind, key) ==
    /\ pc[r] = "idle" /\ calls[r] < MaxCalls
    /\ calls' = [calls EXCEPT ![r] = @ + 1]
    /\ req' = [req EXCEPT ![r] = [kind |-> kind, key |-> key]]
    /\ Goto(r, IF key = EmptyKey THEN "panicked" ELSE "locking")
    /\ UNCHANGED <<mu, claimed, sdk, returned, before, since, diff>>

Lock(r) ==
    /\ pc[r] = "locking" /\ mu = Nobody
    /\ mu' = r /\ Goto(r, "checking")
    /\ UNCHANGED <<claimed, sdk, calls, req, returned, before, since, diff>>

\* Bug: the key is recorded by the check, before the SDK has accepted it.
CheckAndRecord(r) ==
    /\ pc[r] = "checking"
    /\ Goto(r, IF req[r].key \in claimed[req[r].kind] THEN "duplicate"
                                                      ELSE "registering")
    /\ claimed' = [claimed EXCEPT ![req[r].kind] = @ \cup {req[r].key}]
    /\ UNCHANGED <<mu, sdk, calls, req, returned, before, since, diff>>

\* Bug: no duplicate check.
CheckNothing(r) ==
    /\ pc[r] = "checking" /\ Goto(r, "registering")
    /\ UNCHANGED <<mu, claimed, sdk, calls, req, returned, before, since, diff>>

\* if (*registry)[key] { panic(&DuplicateRegistrationError{...}) }
Check(r) ==
    /\ pc[r] = "checking"
    /\ Goto(r, IF req[r].key \in claimed[req[r].kind] THEN "duplicate"
                                                      ELSE "registering")
    /\ UNCHANGED <<mu, claimed, sdk, calls, req, returned, before, since, diff>>

\* register(): the SDK stores the primitive, replacing whatever the key held...
SDKAccepts(r) ==
    /\ pc[r] = "registering" /\ Goto(r, "recording")
    /\ sdk' = [sdk EXCEPT ![req[r].kind][req[r].key] = Mine(r)]
    /\ UNCHANGED <<mu, claimed, calls, req, returned, before, since, diff>>

\* ... or panics on a definition it rejects, storing nothing.
SDKPanics(r) ==
    /\ pc[r] = "registering" /\ Goto(r, "unwinding")
    /\ UNCHANGED <<mu, claimed, sdk, calls, req, returned, before, since, diff>>

\* (*registry)[key] = true
Record(r) ==
    /\ pc[r] = "recording" /\ Goto(r, "returning")
    /\ claimed' = [claimed EXCEPT ![req[r].kind] = @ \cup {req[r].key}]
    /\ UNCHANGED <<mu, sdk, calls, req, returned, before, since, diff>>

\* s has taken the first of two snapshots of that registry, and not yet the
\* second.
InBracket(s, kind) ==
    before[s] # Nobody /\ diff[s] = Nobody /\ before[s].kind = kind

\* The deferred unlock of a call that returns.
UnlockAndReturn(r) ==
    /\ pc[r] = "returning" /\ mu' = Nobody /\ Goto(r, "idle")
    /\ returned' = returned \cup {[kind |-> req[r].kind, key |-> req[r].key,
                                   handler |-> Mine(r)]}
    /\ since' = [s \in Registrars |->
                    IF InBracket(s, req[r].kind) THEN since[s] \cup {req[r].key}
                                                 ELSE since[s]]
    /\ req' = [req EXCEPT ![r] = Nobody]
    /\ UNCHANGED <<claimed, sdk, calls, before, diff>>

\* Bug: the unlock is not deferred, so a panic leaves the mutex held.
PanicHoldingMutex(r) ==
    /\ pc[r] \in {"duplicate", "unwinding"} /\ Goto(r, "panicked")
    /\ UNCHANGED <<mu, claimed, sdk, calls, req, returned, before, since, diff>>

\* The deferred unlock of a call that panics.
UnlockAndPanic(r) ==
    /\ pc[r] \in {"duplicate", "unwinding"} /\ mu' = Nobody
    /\ Goto(r, "panicked")
    /\ UNCHANGED <<claimed, sdk, calls, req, returned, before, since, diff>>

\* The caller recovers the panic and may call again.
Recover(r) ==
    /\ pc[r] = "panicked" /\ Goto(r, "idle")
    /\ req' = [req EXCEPT ![r] = Nobody]
    /\ UNCHANGED <<mu, claimed, sdk, calls, returned, before, since, diff>>
------------------------------------------------------------------------------
\* RegisteredToolNames and friends: a caller brackets a batch with two of them.
Registered(r, kind) ==
    /\ pc[r] = "idle" /\ diff[r] = Nobody
    /\ before[r] # Nobody => before[r].kind = kind
    /\ req' = [req EXCEPT ![r] = [kind |-> kind, key |-> EmptyKey]]
    /\ Goto(r, "listing")
    /\ UNCHANGED <<mu, claimed, sdk, calls, returned, before, since, diff>>

\* Bug: registered() copies the map without the mutex.
ListUnlocked(r) ==
    /\ pc[r] = "listing" /\ Goto(r, "copying")
    /\ UNCHANGED <<mu, claimed, sdk, calls, req, returned, before, since, diff>>

LockToList(r) ==
    /\ pc[r] = "listing" /\ mu = Nobody
    /\ mu' = r /\ Goto(r, "copying")
    /\ UNCHANGED <<claimed, sdk, calls, req, returned, before, since, diff>>

\* Copy the keys, unlock: the first snapshot opens the bracket, the second
\* one closes it with the difference.
CopyKeys(r) ==
    /\ pc[r] = "copying" /\ mu' = Nobody /\ Goto(r, "idle")
    /\ \/ /\ before[r] = Nobody
          /\ before' = [before EXCEPT ![r] = [kind |-> req[r].kind,
                                              keys |-> claimed[req[r].kind]]]
          /\ UNCHANGED diff
       \/ /\ before[r] # Nobody
          /\ diff' = [diff EXCEPT ![r] = claimed[req[r].kind] \ before[r].keys]
          /\ UNCHANGED before
    /\ req' = [req EXCEPT ![r] = Nobody]
    /\ UNCHANGED <<claimed, sdk, calls, returned, since>>

\* The caller is done with the difference; the next snapshot starts afresh.
CloseBracket(r) ==
    /\ pc[r] = "idle" /\ diff[r] # Nobody
    /\ diff' = [diff EXCEPT ![r] = Nobody]
    /\ before' = [before EXCEPT ![r] = Nobody]
    /\ since' = [since EXCEPT ![r] = {}]
    /\ UNCHANGED <<mu, claimed, sdk, pc, calls, req, returned>>

\* SDK().AddTool and the like: no claim, no registrationMu.
Bypass(kind, key) ==
    /\ sdk' = [sdk EXCEPT ![kind][key] = Bypassed]
    /\ UNCHANGED <<mu, claimed, pc, calls, req, returned, before, since, diff>>

LockSteps(r) == Lock(r) \/ LockToList(r)
BodySteps(r) ==
    \/ Check(r) \/ SDKAccepts(r) \/ SDKPanics(r) \/ Record(r)
    \/ UnlockAndReturn(r) \/ UnlockAndPanic(r) \/ Recover(r) \/ CopyKeys(r)
Calls(r) ==
    \/ \E kind \in Kinds, key \in Keys \cup {EmptyKey} : MustAdd(r, kind, key)
    \/ \E kind \in Kinds : Registered(r, kind)
    \/ CloseBracket(r)

Next ==
    \/ \E r \in Registrars : Calls(r) \/ LockSteps(r) \/ BodySteps(r)
    \/ \E kind \in Kinds, key \in BypassKeys : Bypass(kind, key)

Spec == Init /\ [][Next]_vars

\* A running goroutine keeps running, and a Go mutex hands itself to a waiter
\* that has waited long enough (sync.Mutex's starvation mode).
Fairness == \A r \in Registrars : WF_vars(BodySteps(r)) /\ SF_vars(LockSteps(r))
FairSpec == Spec /\ Fairness
------------------------------------------------------------------------------
TypeOK ==
    /\ mu \in Registrars \cup {Nobody}
    /\ claimed \in [Kinds -> SUBSET Keys]
    /\ sdk \in [Kinds -> [Keys -> Entry]]
    /\ pc \in [Registrars -> PC]
    /\ calls \in [Registrars -> 0..MaxCalls]
    /\ req \in [Registrars -> Request \cup {Nobody}]
    /\ returned \subseteq Binding
    /\ before \in [Registrars -> Snapshot \cup {Nobody}]
    /\ since \in [Registrars -> SUBSET Keys]
    /\ diff \in [Registrars -> (SUBSET Keys) \cup {Nobody}]

\* Whoever holds registrationMu sees the registry and the SDK agree: a key is
\* recorded exactly when a MustAdd call for it returned, and the SDK still
\* answers with that call's handler.  No phantom key after an SDK panic, no
\* rebinding by a second registrar (claimAndRegister is all-or-nothing).
RegisteredIsServed ==
    mu = Nobody =>
        /\ \A kind \in Kinds : claimed[kind] = {b.key : b \in {c \in returned : c.kind = kind}}
        /\ \A b \in returned : b.key \notin BypassKeys => sdk[b.kind][b.key] = b.handler

\* A MustAdd call is refused as a duplicate only when an earlier call for the
\* same key did return: a registration the SDK rejected can be retried.
NoFalseDuplicate ==
    \A r \in Registrars : pc[r] = "duplicate" =>
        \E b \in returned : b.kind = req[r].kind /\ b.key = req[r].key

\* "The difference of two snapshots is exactly what the batch registered":
\* the keys of the MustAdd calls that returned between the two, whoever made
\* them, and no key of a call that was refused or is still running.
SnapshotDiffExact ==
    \A r \in Registrars : diff[r] # Nobody => diff[r] = since[r]

\* A registry key that only MustAdd writes is bound once and never rebound.
ServedRegistry ==
    [kind \in Kinds |-> [key \in Keys \ BypassKeys |->
        IF key \in claimed[kind] THEN sdk[kind][key] ELSE NoEntry]]
Abstract == INSTANCE ClaimOnce WITH
    Keys <- Keys \ BypassKeys, Handlers <- Handler, Unbound <- NoEntry,
    bound <- ServedRegistry
WriteOnce == Abstract!Spec

\* Every MustAdd and Registered call comes back to its caller, returning or
\* panicking: no path leaves registrationMu held.
CallsEnd ==
    \A r \in Registrars : pc[r] # "idle" ~> pc[r] = "idle"
==============================================================================
