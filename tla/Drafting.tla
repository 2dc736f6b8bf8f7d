------------------------------ MODULE Drafting ------------------------------
(***************************************************************************)
(* The Groq provider behind every draft and classification: each call      *)
(* tries the primary model, waits and tries again on errors that pass,     *)
(* and goes on to the fallback model on any other, or after the last       *)
(* attempt.  Calls of several jobs run side by side under one limit.       *)
(***************************************************************************)
EXTENDS Naturals, FiniteSets

CONSTANTS
    Prompts,     \* calls in flight
    MaxRetries,  \* attempts with one model
    RateLimit    \* requests Groq takes in one window

ASSUME DraftingBounds == MaxRetries \in Nat \ {0} /\ RateLimit \in Nat

VARIABLES
    prompt,      \* call -> [at, model, attempt, error]
    window,      \* requests taken in this window
    made         \* <<call, model>> -> requests made (history)

draftingVars == <<prompt, window, made>>

-----------------------------------------------------------------------------

Models == {"primary", "fallback"}
Unasked == [at |-> "ask", model |-> "primary", attempt |-> 1, error |-> "none"]
Passing == {"rateLimit", "timeout", "unavailable"}
Errors == Passing \cup {"refused", "empty"}

DraftingTypeOK ==
    /\ prompt \in [Prompts -> [at : {"ask", "wait", "parse", "done", "failed"},
                               model : Models, attempt : 1 .. MaxRetries,
                               error : Errors \cup {"none", "invalid"}]]
    /\ window \in 0 .. RateLimit

DraftingInit ==
    /\ prompt = [p \in Prompts |-> Unasked]
    /\ window = 0
    /\ made = [x \in Prompts \X Models |-> 0]

-----------------------------------------------------------------------------
(* groq-ai.provider *)

Requested(p) == made' = [made EXCEPT ![<<p, prompt[p].model>>] = @ + 1]

Answered(p) ==
    /\ prompt[p].at = "ask"
    /\ window < RateLimit
    /\ window' = window + 1
    /\ Requested(p)
    /\ prompt' = [prompt EXCEPT ![p].at = "parse"]

\* Mutant: what ends the primary model ends the call.
AfterErrorNoFallback(p, error) ==
    IF error \in Passing /\ prompt[p].attempt < MaxRetries
    THEN [prompt[p] EXCEPT !.at = "wait", !.error = error]
    ELSE [prompt[p] EXCEPT !.at = "failed", !.error = error]

\* What the catch block makes of an error.
AfterError(p, error) ==
    IF error \in Passing /\ prompt[p].attempt < MaxRetries
    THEN [prompt[p] EXCEPT !.at = "wait", !.error = error]
    ELSE IF prompt[p].model = "primary"
    THEN [prompt[p] EXCEPT !.at = "ask", !.model = "fallback", !.attempt = 1, !.error = error]
    ELSE [prompt[p] EXCEPT !.at = "failed", !.error = error]

RequestFails(p, error) ==
    /\ prompt[p].at = "ask"
    /\ error = "rateLimit" <=> window = RateLimit
    /\ Requested(p)
    /\ prompt' = [prompt EXCEPT ![p] = AfterError(p, error)]
    /\ UNCHANGED window

\* The delay of the header, or of the doubling; a window may pass meanwhile.
WaitEnds(p) ==
    /\ prompt[p].at = "wait"
    /\ prompt' = [prompt EXCEPT ![p].at = "ask", ![p].attempt = @ + 1]
    /\ UNCHANGED <<window, made>>

NextWindow ==
    /\ window > 0
    /\ window' = 0
    /\ UNCHANGED <<prompt, made>>

\* JSON that does not parse or fits no schema fails the call at once, outside
\* the loop: no model is asked again.
ParseAnswer(p) ==
    /\ prompt[p].at = "parse"
    /\ \/ prompt' = [prompt EXCEPT ![p].at = "done"]
       \/ prompt' = [prompt EXCEPT ![p].at = "failed", ![p].error = "invalid"]
    /\ UNCHANGED <<window, made>>

DraftingNext ==
    \/ \E p \in Prompts : \/ Answered(p) \/ WaitEnds(p) \/ ParseAnswer(p)
                          \/ \E e \in Errors : RequestFails(p, e)
    \/ NextWindow

DraftingSpec == DraftingInit /\ [][DraftingNext]_draftingVars

-----------------------------------------------------------------------------
(* Properties *)

\* A call fails only after the fallback model was asked as well, unless an answer
\* came that was not valid; neither model is asked more than MaxRetries times, and
\* the primary one never after the fallback (groq-ai.provider:65-117).
GivesUpLast ==
    \A p \in Prompts :
        /\ prompt[p].at = "failed" /\ prompt[p].error # "invalid" =>
              /\ made[<<p, "primary">>] > 0 /\ made[<<p, "fallback">>] > 0
              /\ prompt[p].error \in Passing => made[<<p, "fallback">>] = MaxRetries
        /\ \A m \in Models : made[<<p, m>>] <= MaxRetries
        /\ prompt[p].model = "primary" => made[<<p, "fallback">>] = 0

=============================================================================
