------------------------------ MODULE RetryLoop ------------------------------
(***************************************************************************)
(* protomcp.RetryLoop (pkg/protomcp/list_changed.go): run fn again and     *)
(* again, sleeping longer after every return that made no progress, until  *)
(* ctx is cancelled.  fn is the caller's: it may call reset() any number   *)
(* of times and return at any moment.  Times are in milliseconds.          *)
(***************************************************************************)
EXTENDS Integers

CONSTANTS InitialBackoff, MaxBackoff    \* 100 and 30000

ASSUME BackoffOK ==
    /\ InitialBackoff \in Nat /\ MaxBackoff \in Nat
    /\ 10 <= InitialBackoff /\ InitialBackoff <= MaxBackoff

VARIABLES loop,      \* "top": about to test ctx and call fn; "fn"; "sleep"; "done"
          backoff,   \* the next sleep before jitter
          sleep,     \* the duration given to time.After, 0 when awake
          cancelled  \* ctx.Err() # nil

loopVars == <<loop, backoff, sleep, cancelled>>

Init ==
    /\ loop = "top" /\ backoff = InitialBackoff /\ sleep = 0
    /\ cancelled = FALSE

Cancel ==
    /\ ~cancelled /\ cancelled' = TRUE
    /\ UNCHANGED <<loop, backoff, sleep>>

\* if ctx.Err() != nil { return }; fn(ctx, reset)
CallFn ==
    /\ loop = "top" /\ ~cancelled /\ loop' = "fn"
    /\ UNCHANGED <<backoff, sleep, cancelled>>

ExitAtTop ==
    /\ loop = "top" /\ cancelled /\ loop' = "done"
    /\ UNCHANGED <<backoff, sleep, cancelled>>

\* fn calls reset().
Reset ==
    /\ loop = "fn" /\ backoff' = InitialBackoff
    /\ UNCHANGED <<loop, sleep, cancelled>>

\* backoff - backoff/10 + rand.Int64N(backoff/5)
Sleeps(b) == {b - (b \div 10) + jitter : jitter \in 0..((b \div 5) - 1)}

\* fn returns, with or without an error.
FnReturns ==
    /\ loop = "fn"
    /\ \/ /\ cancelled /\ loop' = "done" /\ UNCHANGED sleep
       \/ /\ ~cancelled /\ loop' = "sleep" /\ sleep' \in Sleeps(backoff)
    /\ UNCHANGED <<backoff, cancelled>>

\* if backoff < maxBackoff { backoff *= 2; cap at maxBackoff }
Grown(b) ==
    IF b >= MaxBackoff THEN b
    ELSE IF 2 * b > MaxBackoff THEN MaxBackoff ELSE 2 * b

TimerFires ==
    /\ loop = "sleep" /\ loop' = "top" /\ sleep' = 0
    /\ backoff' = Grown(backoff)
    /\ UNCHANGED cancelled

\* The select takes either branch when both are ready.
WakeOnCancel ==
    /\ loop = "sleep" /\ cancelled /\ loop' = "done" /\ sleep' = 0
    /\ UNCHANGED <<backoff, cancelled>>

Next ==
    Cancel \/ CallFn \/ ExitAtTop \/ Reset \/ FnReturns \/ TimerFires \/ WakeOnCancel
Spec == Init /\ [][Next]_loopVars

------------------------------------------------------------------------------
TypeOK ==
    /\ loop \in {"top", "fn", "sleep", "done"}
    /\ backoff \in InitialBackoff..MaxBackoff
    /\ sleep \in 0..(2 * MaxBackoff)
    /\ cancelled \in BOOLEAN

\* "Starts at 100 ms, doubles per failure, caps at 30 s, +-10% jitter": every
\* sleep is within a tenth of the backoff it belongs to.
SleepWithinTenPercent ==
    loop = "sleep" => 9 * backoff <= 10 * sleep /\ 10 * sleep < 11 * backoff + 10
==============================================================================
