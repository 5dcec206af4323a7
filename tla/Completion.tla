------------------------------ MODULE Completion ------------------------------
(***************************************************************************)
(* Prompt argument completion (pkg/protomcp/completion.go) behind          *)
(* Registration: a generated prompt registrar calls MustAddPrompt and, when *)
(* that returned, RegisterPromptArgCompletions for the arguments whose     *)
(* values are known; completion/complete asks the caller's own handler     *)
(* first and then the table.  The table has a mutex of its own.            *)
(***************************************************************************)
EXTENDS Registration

CONSTANTS Prompt,      \* the registry of prompts, one of Kinds
          Enumerated   \* prompts with an argument of known values, one each

ASSUME CompletionOK == Prompt \in Kinds /\ Enumerated \subseteq Keys

VARIABLES table,       \* s.promptCompletions: whose values, by the call that added the prompt
          pending      \* pending[r]: the prompt r has added and not yet its values, or Nobody

completionVars == <<table, pending>>

CompletionInit ==
    /\ Init
    /\ table = [key \in Keys |-> NoEntry] /\ pending = [r \in Registrars |-> Nobody]
------------------------------------------------------------------------------
\* MustAddPrompt returns: the registrar goes on to the values.
PromptAdded(r) ==
    /\ UnlockAndReturn(r)
    /\ pending' = IF req[r].kind = Prompt /\ req[r].key \in Enumerated
                  THEN [pending EXCEPT ![r] = req[r].key] ELSE pending
    /\ UNCHANGED table

\* Bug: the values are registered before the prompt.
CompletionsFirst(r) ==
    /\ pc[r] = "locking" /\ req[r].kind = Prompt /\ req[r].key \in Enumerated
    /\ table' = [table EXCEPT ![req[r].key] = Mine(r)]
    /\ UNCHANGED <<vars, pending>>

\* Replaces what the table has, under promptCompletionsMu.
RegisterPromptArgCompletions(r) ==
    /\ pending[r] # Nobody /\ pending' = [pending EXCEPT ![r] = Nobody]
    /\ table' = [table EXCEPT ![pending[r]] = Mine(r)]
    /\ UNCHANGED vars

\* What the caller's own handler says.
CallersAnswer == [by |-> Nobody, call |-> MaxCalls + 2]

\* installCompletionHandler: the caller's handler, if there is one, wins with an error
\* or with values; else completePromptArg reads the table.
Answer(key, prev) ==
    IF prev \in {"error", "values"} THEN CallersAnswer ELSE table[key]

CompletionNext ==
    \/ \E r \in Registrars :
        \/ PromptAdded(r) \/ RegisterPromptArgCompletions(r)
        \/ pending[r] = Nobody /\ Calls(r) /\ UNCHANGED completionVars
        \/ LockSteps(r) /\ UNCHANGED completionVars
        \/ BodySteps(r) /\ pc[r] # "returning" /\ UNCHANGED completionVars
    \/ (\E kind \in Kinds, key \in BypassKeys : Bypass(kind, key)) /\ UNCHANGED completionVars

allVars == <<vars, completionVars>>
CompletionSpec == CompletionInit /\ [][CompletionNext]_allVars
CompletionFairSpec ==
    /\ CompletionSpec /\ Fairness
    /\ \A r \in Registrars : WF_allVars(RegisterPromptArgCompletions(r))
------------------------------------------------------------------------------
\* A client completes a prompt's argument from the values that belong to the prompt
\* it would get, or from the caller's handler: whoever is refused a prompt name, or
\* retries after the SDK's panic, leaves no values of its own behind.
CompletesServedPrompt ==
    \A key \in Keys \ BypassKeys, prev \in {"none", "empty", "values", "error"} :
        Answer(key, prev) \in {sdk[Prompt][key], NoEntry, CallersAnswer}
==============================================================================
