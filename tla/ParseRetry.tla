---------------------------- MODULE ParseRetry ------------------------------
(***************************************************************************)
(* Structured output of the LLM (llm_surface/parser.py): the validation of *)
(* a raw output against a schema, which is all that POST /parse does, and  *)
(* parse_with_retry, which asks the LLM to correct an output that fails.   *)
(*                                                                         *)
(* An output is told apart by how it fails.  The function suspends while   *)
(* it awaits the LLM, and there its task may be cancelled.                 *)
(***************************************************************************)
EXTENDS Integers, Sequences

CONSTANT MaxRetries     \* bound on the parameter max_retries

ASSUME MaxRetriesAssumption == MaxRetries \in Nat

\* No JSON; JSON that is no object; an object that does not fit; one that does.
Outputs == {"malformed", "array", "misfit", "fit"}

\* A schema of another type than "object" makes create_model raise ValueError.
Schemas == {"object", "other"}

VARIABLES
    parsing,            \* the control point
    schema,
    max_retries,
    attempt,
    current_output,
    error,              \* of the last validation, "none" if it succeeded
    parsed,             \* what was answered
    validated,          \* history: the outputs validated
    prompts             \* history: the output and the error of each prompt

parseVars == <<parsing, schema, max_retries, attempt, current_output, error,
               parsed, validated, prompts>>

ParseInit ==
    /\ parsing = "idle"
    /\ schema \in Schemas
    /\ max_retries \in 0..MaxRetries
    /\ attempt = 0
    /\ current_output \in Outputs
    /\ error = "none"
    /\ parsed = "none"
    /\ validated = <<>> /\ prompts = <<>>

\* The handlers in their order: JSON, then the schema, then the model.  A list
\* cannot be the keywords of the model, an exception like any other.
ErrorOf(output) ==
    CASE output = "malformed" -> "Invalid JSON"
      [] output # "malformed" /\ schema = "other" -> "Invalid schema"
      [] output = "array" /\ schema = "object" -> "Parsing error"
      [] output = "misfit" /\ schema = "object" -> "Schema validation failed"
      [] OTHER -> "none"

Answer(a) == parsing' = "returned" /\ parsed' = a

\* validate_against_schema of the current output.
Validates ==
    /\ error' = ErrorOf(current_output)
    /\ validated' = Append(validated, current_output)
    /\ UNCHANGED <<schema, max_retries, current_output>>

\* POST /parse: one validation, as with a max_retries of 1.  The attempt in its
\* request is not used.
ParseOnce ==
    /\ parsing = "idle" /\ max_retries = 1
    /\ attempt' = 1
    /\ Validates
    /\ Answer(IF error' = "none" THEN "success" ELSE error')
    /\ UNCHANGED prompts

\* range(1, max_retries + 1).  Without an attempt result is never bound, and
\* the return raises UnboundLocalError.
NextAttempt ==
    /\ parsing \in {"idle", "corrected"}
    /\ attempt' = attempt + 1
    /\ IF attempt < max_retries
       THEN parsing' = "validate" /\ UNCHANGED parsed
       ELSE IF attempt = 0 THEN parsing' = "raised" /\ UNCHANGED parsed
       ELSE Answer(error)
    /\ UNCHANGED <<schema, max_retries, current_output, error, validated, prompts>>

\* Mutant: the last failure is corrected as well, and the answer ignored.
AttemptAsksAgain ==
    /\ parsing = "validate"
    /\ Validates
    /\ IF error' = "none" THEN Answer("success") /\ UNCHANGED prompts
       ELSE /\ parsing' = "asking"
            /\ prompts' = Append(prompts, <<current_output, error'>>)
            /\ UNCHANGED parsed
    /\ UNCHANGED attempt

Attempt ==
    /\ parsing = "validate"
    /\ Validates
    /\ IF error' = "none" THEN Answer("success") /\ UNCHANGED prompts
       ELSE IF attempt < max_retries
       THEN /\ parsing' = "asking"
            /\ prompts' = Append(prompts, <<current_output, error'>>)
            /\ UNCHANGED parsed
       ELSE parsing' = "corrected" /\ UNCHANGED <<parsed, prompts>>
    /\ UNCHANGED attempt

\* A message without content counts as "".
LlmCorrects ==
    /\ parsing = "asking"
    /\ current_output' \in Outputs
    /\ parsing' = "corrected"
    /\ UNCHANGED <<schema, max_retries, attempt, error, parsed, validated, prompts>>

\* The call raises, or its answer has no choices.
LlmFails ==
    /\ parsing = "asking"
    /\ Answer("Retry failed")
    /\ UNCHANGED <<schema, max_retries, attempt, current_output, error,
                   validated, prompts>>

\* CancelledError is no Exception, so that it is not taken for an answer.
CancelParse ==
    /\ parsing = "asking"
    /\ parsing' = "raised"
    /\ UNCHANGED <<schema, max_retries, attempt, current_output, error, parsed,
                   validated, prompts>>

ParseNext ==
    \/ ParseOnce \/ NextAttempt \/ Attempt
    \/ LlmCorrects \/ LlmFails \/ CancelParse

ParseSpec == ParseInit /\ [][ParseNext]_parseVars

-----------------------------------------------------------------------------

ParseTypeOK ==
    /\ parsing \in {"idle", "validate", "asking", "corrected", "returned", "raised"}
    /\ schema \in Schemas /\ max_retries \in 0..MaxRetries
    /\ attempt \in 0..(max_retries + 1)
    /\ current_output \in Outputs
    /\ Len(validated) =< max_retries /\ Len(prompts) =< max_retries

\* parse_with_retry answers for the outputs it has seen (parser.py:253-287): a
\* success is that of the last output and of no earlier one; a failure comes
\* after all the attempts and is the error of the last output, unless the LLM
\* failed; and the LLM is asked once for each output that another attempt may
\* replace, about that output and its own error.
AnswerOfAttempts ==
    LET last == Len(validated)
    IN  /\ \A i \in 1..Len(prompts) :
              prompts[i] = <<validated[i], ErrorOf(validated[i])>>
        /\ parsing = "returned" =>
              /\ \A i \in 1..(last - 1) : ErrorOf(validated[i]) # "none"
              /\ parsed = "Retry failed" => Len(prompts) = last /\ last < max_retries
              /\ parsed # "Retry failed" =>
                    /\ Len(prompts) = last - 1
                    /\ parsed = (IF ErrorOf(validated[last]) = "none" THEN "success"
                                 ELSE ErrorOf(validated[last]))
                    /\ parsed # "success" => last = max_retries
=============================================================================
