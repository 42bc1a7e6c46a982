------------------------ MODULE SpeculativeDecoding ------------------------
(***************************************************************************)
(* models/speculative_decoding.py: a drafter proposes a few tokens, the    *)
(* target model says what it would have generated in their place, and the  *)
(* tokens up to the first disagreement, with the target's token there, are *)
(* committed.                                                              *)
(*                                                                         *)
(* The two verifiers are modelled: PipelineTargetVerifier generates the    *)
(* target's tokens one after the other from the committed ones;            *)
(* ParallelTargetVerifier feeds the draft tokens to a clone of the cache   *)
(* that the pipeline has kept, and takes the choices after each of them.   *)
(* The greedy self-draft is the pipeline's own generation, the fixed one   *)
(* the start of its list, and the random one any tokens.                   *)
(*                                                                         *)
(* One pipeline serves a sequence of calls and keeps its state from one to *)
(* the next.  It runs with prefill and without the prefix cache            *)
(* (PrefixReuse shows that the cache would change nothing it generates),   *)
(* and its KV cache is large enough for every call.                        *)
(***************************************************************************)
EXTENDS Naturals, Sequences, FiniteSets

CONSTANTS
  Tokens, Models, Predict(_, _),  \* as in GreedyDecoding
  EOS,          \* the tokenizer's end-of-sequence token
  Prompts,      \* the prompts of a run
  Limits,       \* max_new_tokens
  DraftLength,  \* draft_length
  Drafters,     \* "self", "fixed", "random"
  FixedIds,     \* the lists a fixed drafter is built with
  Verifiers,    \* "sequential", "parallel"
  ExactModes,   \* require_exact_match
  NoState       \* pipeline._state is None

ASSUME SpeculativeAssumption ==
  /\ EOS \in Tokens
  /\ Prompts \subseteq Seq(Tokens) \ {<<>>}
  /\ Limits \subseteq Nat \ {0}
  /\ DraftLength \in Nat \ {0}
  /\ Drafters \subseteq {"self", "fixed", "random"}
  /\ FixedIds \subseteq Seq(Tokens)
  /\ Verifiers \subseteq {"sequential", "parallel"}
  /\ ExactModes \subseteq BOOLEAN
  /\ NoState \notin Seq(Tokens)

(* greedy_sample: the model chooses a token of the vocabulary.              *)
PredictTotal == \A m \in Models : \A s \in Seq(Tokens) : s # <<>> => Predict(m, s) \in Tokens

VARIABLES
  model,     \* the pipeline's model
  config,    \* the drafter, verifier and mode of the running call
  job,       \* the call's model, prompt and max_new_tokens; <<>> between calls
  ids,       \* all_ids
  proposal,  \* the draft tokens
  target,    \* the target's tokens
  held,      \* what the cache in pipeline._state holds
  pc

vars == <<model, config, job, ids, proposal, target, held, pc>>

Config == [drafter : Drafters, fixed : FixedIds, verifier : Verifiers, exact : ExactModes]
Job == [model : Models, prompt : Prompts, limit : Limits]

TypeOK ==
  /\ model \in Models
  /\ config \in Config
  /\ job \in Job \cup {<<>>} /\ (job # <<>> => job.model = model)
  /\ ids \in Seq(Tokens)
  /\ proposal \in Seq(Tokens) /\ Len(proposal) <= DraftLength
  /\ target \in Seq(Tokens) /\ Len(target) <= Len(proposal)
  /\ held \in Seq(Tokens) \cup {NoState}
  /\ pc \in {"idle", "draft", "verify", "commit", "done"}
  /\ job = <<>> <=> pc = "idle"

Init ==
  /\ model \in Models
  /\ config \in Config
  /\ job = <<>> /\ ids = <<>>
  /\ proposal = <<>> /\ target = <<>>
  /\ held = NoState
  /\ pc = "idle"

-----------------------------------------------------------------------------
(* Drafting.                                                               *)

Remaining == job.limit - (Len(ids) - Len(job.prompt))

DraftTokensUncapped == Remaining  \* mutant: draft_length is not a limit

(* draft_k of the step.                                                     *)
DraftTokens == IF DraftLength < Remaining THEN DraftLength ELSE Remaining

Start(p, n, c) ==
  /\ pc = "idle"
  /\ config' = c
  /\ job' = [model |-> model, prompt |-> p, limit |-> n]
  /\ ids' = p
  /\ pc' = "draft"
  /\ UNCHANGED <<model, proposal, target, held>>

(* generate_ids stops at the token it was asked for or at the first EOS.    *)
Generated(s, count) == Len(s) = count \/ (s # <<>> /\ s[Len(s)] = EOS)

DraftSelfStale ==  \* mutant: the draft continues the prompt, not what was committed
  /\ pc = "draft" /\ config.drafter = "self"
  /\ ~Generated(proposal, DraftTokens)
  /\ proposal' = Append(proposal, Predict(model, job.prompt \o proposal))
  /\ held' = ids
  /\ UNCHANGED <<model, config, job, ids, target, pc>>

(* The self-draft prefills the pipeline's state with the committed tokens.  *)
DraftSelf ==
  /\ pc = "draft" /\ config.drafter = "self"
  /\ ~Generated(proposal, DraftTokens)
  /\ proposal' = Append(proposal, Predict(model, ids \o proposal))
  /\ held' = ids
  /\ UNCHANGED <<model, config, job, ids, target, pc>>

DraftFixed ==
  /\ pc = "draft" /\ config.drafter = "fixed"
  /\ Len(proposal) < DraftTokens /\ Len(proposal) < Len(config.fixed)
  /\ proposal' = Append(proposal, config.fixed[Len(proposal) + 1])
  /\ UNCHANGED <<model, config, job, ids, target, held, pc>>

DraftRandom(t) ==
  /\ pc = "draft" /\ config.drafter = "random"
  /\ Len(proposal) < DraftTokens
  /\ proposal' = Append(proposal, t)
  /\ UNCHANGED <<model, config, job, ids, target, held, pc>>

Drafted ==
  CASE config.drafter = "self"   -> Generated(proposal, DraftTokens)
    [] config.drafter = "fixed"  -> Len(proposal) \in {DraftTokens, Len(config.fixed)}
    [] config.drafter = "random" -> Len(proposal) = DraftTokens

(* An empty proposal ends the generation.                                   *)
Propose ==
  /\ pc = "draft" /\ Drafted
  /\ pc' = IF proposal = <<>> THEN "done" ELSE "verify"
  /\ UNCHANGED <<model, config, job, ids, proposal, target, held>>

-----------------------------------------------------------------------------
(* Verification.                                                           *)

VerifySequential ==
  /\ pc = "verify" /\ config.verifier = "sequential"
  /\ ~Generated(target, Len(proposal))
  /\ target' = Append(target, Predict(model, ids \o target))
  /\ held' = ids
  /\ UNCHANGED <<model, config, job, ids, proposal, pc>>

(* A pipeline without a state is prefilled with the committed tokens; one   *)
(* that has a state is used as it is.  Each choice is the one after a draft *)
(* token was fed, so there are as many as draft tokens.                     *)
VerifyParallel ==
  /\ pc = "verify" /\ config.verifier = "parallel"
  /\ Len(target) < Len(proposal)
  /\ LET base == IF held = NoState THEN ids ELSE held
     IN  /\ target' = Append(target, Predict(model,
                                       base \o SubSeq(proposal, 1, Len(target) + 1)))
         /\ held' = base
  /\ UNCHANGED <<model, config, job, ids, proposal, pc>>

Verified ==
  /\ pc = "verify"
  /\ IF config.verifier = "sequential" THEN Generated(target, Len(proposal))
                                       ELSE Len(target) = Len(proposal)
  /\ pc' = "commit"
  /\ UNCHANGED <<model, config, job, ids, proposal, target, held>>

-----------------------------------------------------------------------------
(* Acceptance.                                                             *)

Matches(i) == i <= Len(target) /\ proposal[i] = target[i]

(* accepted_prefix_length of the mask, which is the same in both modes.     *)
AcceptedCount(a) ==
  /\ a \in 0..Len(proposal)
  /\ \A i \in 1..a : Matches(i)
  /\ a < Len(proposal) => ~Matches(a + 1)

(* The increasing enumeration of a set of positions, alone in a set.        *)
InOrder(S) ==
  {f \in [1..Cardinality(S) -> S] : \A i, j \in DOMAIN f : i < j => f[i] < f[j]}

(* accepted_tokens: the tokens the mask keeps; without require_exact_match, *)
(* which the parallel verifier always sets, a match after a mismatch is     *)
(* kept too.                                                                *)
Kept(a) ==
  IF config.exact \/ config.verifier = "parallel" THEN {SubSeq(proposal, 1, a)}
  ELSE {[k \in DOMAIN f |-> proposal[f[k]]] :
          f \in InOrder({i \in DOMAIN proposal : Matches(i)})}

ReplacementLast(a) ==  \* mutant: the choice after the whole draft
  IF a < Len(proposal) /\ a < Len(target) THEN <<target[Len(target)]>> ELSE <<>>

ReplacementDropped(a) == <<>>  \* mutant: only accepted tokens are committed

Replacement(a) ==
  IF a < Len(proposal) /\ a < Len(target) THEN <<target[a + 1]>> ELSE <<>>

AtMost(s, n) == SubSeq(s, 1, IF Len(s) < n THEN Len(s) ELSE n)

CommitCountsDraft(a) ==  \* mutant: total_new grows by the tokens proposed
  /\ pc = "commit"
  /\ AcceptedCount(a)
  /\ \E kept \in Kept(a) : ids' = ids \o AtMost(kept \o Replacement(a), Remaining)
  /\ proposal' = <<>> /\ target' = <<>>
  /\ pc' = IF Len(ids) + Len(proposal) - Len(job.prompt) < job.limit THEN "draft" ELSE "done"
  /\ UNCHANGED <<model, config, job, held>>

Commit(a) ==
  /\ pc = "commit"
  /\ AcceptedCount(a)
  /\ \E kept \in Kept(a) : ids' = ids \o AtMost(kept \o Replacement(a), Remaining)
  /\ proposal' = <<>> /\ target' = <<>>
  /\ pc' = IF Len(ids') - Len(job.prompt) < job.limit THEN "draft" ELSE "done"
  /\ UNCHANGED <<model, config, job, held>>

(* The pipeline, and the state it has kept, outlive the call.               *)
Return ==
  /\ pc = "done"
  /\ job' = <<>> /\ ids' = <<>>
  /\ pc' = "idle"
  /\ UNCHANGED <<model, config, proposal, target, held>>

Step ==
  \/ DraftSelf
  \/ DraftFixed
  \/ \E t \in Tokens : DraftRandom(t)
  \/ Propose
  \/ VerifySequential
  \/ VerifyParallel
  \/ Verified
  \/ \E a \in 0..DraftLength : Commit(a)
  \/ Return

Next == Step \/ \E p \in Prompts, n \in Limits, c \in Config : Start(p, n, c)

Spec == Init /\ [][Next]_vars

(* Fairness: a call that has begun is a plain loop and runs on.             *)
FairSpec == Spec /\ WF_vars(Step)

-----------------------------------------------------------------------------
(* Properties.                                                             *)

Exactly == config.exact /\ config.verifier = "sequential"

(* With the sequential verifier and require_exact_match, speculation is    *)
(* invisible: whatever was drafted, a call generates what greedy           *)
(* generation promises (docs/speculative_decoding.md, "committed:          *)
(* [A, B, X]  (accepted prefix + replacement)").  Other calls promise less *)
(* and count as none.                                                      *)
Promised == IF Exactly THEN job ELSE <<>>
PromisedIds == IF Exactly THEN ids ELSE <<>>
Greedy == INSTANCE GreedyDecoding WITH job <- Promised, ids <- PromisedIds
GreedySpec == Greedy!Spec

(* Where a call is, what it has committed and what it still may.           *)
CallShape ==
  /\ pc = "idle" => ids = <<>>
  /\ pc \in {"idle", "done"} => proposal = <<>>
  /\ pc \in {"idle", "draft", "done"} => target = <<>>
  /\ pc # "idle" => Len(job.prompt) <= Len(ids) /\ Remaining >= 0
  /\ pc \in {"draft", "verify", "commit"} => Remaining > 0
  /\ pc = "draft" => Len(proposal) <= DraftTokens
  /\ pc \in {"verify", "commit"} => proposal # <<>>
  /\ pc = "commit" => target # <<>>

(* What the sequential verifier has generated so far is greedy, over the   *)
(* committed tokens: with the commit rule it yields GreedySpec.            *)
TargetIsGreedy ==
  pc # "idle" /\ config.verifier = "sequential" =>
    \A i \in 1..Len(target) : target[i] = Predict(model, ids \o SubSeq(target, 1, i-1))

(* A step never commits nothing, and never more than was asked for, in     *)
(* either mode and with either verifier: the loop cannot spin.             *)
EveryStepCommits ==
  [][pc = "commit" /\ pc' # "commit" =>
       Len(ids) < Len(ids') /\ Len(ids') <= Len(job.prompt) + job.limit]_vars

(* Drafts of the target itself are accepted whole: the drafter's pass and  *)
(* the verifier's go through the same pipeline and stop at the same token. *)
SelfDraftAccepted ==
  pc = "commit" /\ config.drafter = "self" /\ config.verifier = "sequential" =>
    proposal = target

(* A call ends with all its new tokens, unless the drafter had nothing to  *)
(* propose, which only a fixed drafter with an empty list does.            *)
EndsComplete ==
  pc = "done" /\ ~(config.drafter = "fixed" /\ config.fixed = <<>>) =>
    Len(ids) = Len(job.prompt) + job.limit

(* Liveness: every call returns.                                           *)
CallsReturn == pc # "idle" ~> pc = "idle"

(* "The target token for d0 is sampled from logits produced after          *)
(* consuming context C", whichever verifier it is                          *)
(* (docs/parallel_speculative_verification.md:66).                         *)
FirstTargetFollowsContext ==
  pc = "commit" => target[1] = Predict(model, ids)
=============================================================================
