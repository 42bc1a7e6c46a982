--------------------------- MODULE GreedyDecoding ---------------------------
(***************************************************************************)
(* What greedy generation promises, whichever loop does it: a job is a     *)
(* model, a prompt and a number of new tokens, and every token added to    *)
(* the prompt is the model's choice after the tokens before it.            *)
(* PrefixReuse and SpeculativeDecoding implement this specification.       *)
(***************************************************************************)
EXTENDS Naturals, Sequences

CONSTANTS
  Tokens,        \* the vocabulary
  Models,        \* the target models
  Predict(_, _)  \* Predict(m, s): greedy_sample of the logits of model m
                 \* after it consumed the tokens s

VARIABLES
  job,  \* [model, prompt, limit], or <<>> between two jobs
  ids   \* the prompt and what was generated so far

Prompt == Seq(Tokens) \ {<<>>}

Job == [model : Models, prompt : Prompt, limit : Nat]

(* The tokens of s after the first n are greedy choices of model m.        *)
GreedyAfter(m, s, n) == \A i \in n+1..Len(s) : s[i] = Predict(m, SubSeq(s, 1, i-1))

Init == job = <<>> /\ ids = <<>>

Begin ==
  /\ job = <<>>
  /\ job' \in Job
  /\ ids' = job'.prompt

Extend ==
  /\ job # <<>>
  /\ ids' \in Prompt
  /\ Len(ids) <= Len(ids') /\ Len(ids') <= Len(job.prompt) + job.limit
  /\ ids = SubSeq(ids', 1, Len(ids))
  /\ GreedyAfter(job.model, ids', Len(ids))
  /\ job' = job

End ==
  /\ job # <<>>
  /\ job' = <<>> /\ ids' = <<>>

Next == Begin \/ Extend \/ End

Spec == Init /\ [][Next]_<<job, ids>>
=============================================================================
