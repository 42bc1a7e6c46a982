---------------------------- MODULE PrefixReuse ----------------------------
(***************************************************************************)
(* models/prefix_cache.py and the generation loop of                       *)
(* models/tiny_generation_pipeline.py: a prompt that shares its first      *)
(* tokens with an earlier one starts from a clone of the earlier prompt's  *)
(* KV cache and decodes only the rest; then tokens are sampled one by one. *)
(*                                                                         *)
(* The K/V written at a position are a function of the model, of the token *)
(* there and of all the positions before it, so a cell of a cache is what  *)
(* it was computed from: a model and the tokens up to and including its    *)
(* own.  A cell computed over cells that do not belong together is Mixed.  *)
(* Prefill and decode write the same cells, as they do in an MLX build.    *)
(*                                                                         *)
(* A call runs on one thread and the cache is touched only at its start,   *)
(* so the lookup and the prefill are one action.  Access stamps are        *)
(* compared and never read otherwise: the entries are kept in the order of *)
(* their stamps, least recently used first.                                *)
(***************************************************************************)
EXTENDS Naturals, Sequences, FiniteSets

CONSTANTS
  Tokens, Models, Predict(_, _),  \* as in GreedyDecoding
  EOS,          \* the tokenizer's end-of-sequence token
  Fingerprint,  \* compute_fingerprint of a model, its config and tokenizer
  MaxSize,      \* max_size of the InMemoryPrefixCache
  Prompts,      \* the prompts of a run
  Limits,       \* max_new_tokens; 0 for a caller that only prefills
  Capacities,   \* max_seq_len of the states that calls allocate
  Zero,         \* a cell nothing was written to
  Mixed         \* a cell computed over cells of different prefixes or models

KV == [model : Models, ids : Seq(Tokens)]
Cell == KV \cup {Zero, Mixed}

ASSUME ReuseAssumption ==
  /\ EOS \in Tokens
  /\ Models = DOMAIN Fingerprint
  /\ MaxSize \in Nat \ {0}
  /\ Prompts \subseteq Seq(Tokens) \ {<<>>}
  /\ Limits \subseteq Nat
  /\ Capacities \subseteq Nat
  /\ \A p \in Prompts, c \in Capacities : Len(p) <= c
  /\ Zero \notin KV /\ Mixed \notin KV

(* greedy_sample: the model chooses a token of the vocabulary.              *)
PredictTotal == \A m \in Models : \A s \in Seq(Tokens) : s # <<>> => Predict(m, s) \in Tokens

VARIABLES
  entries,  \* _entries: fingerprint, token_ids and stack_cache of each
  job,      \* the running call's model, prompt and max_new_tokens
  pc,       \* where the call is; "done" and "full" are its two ends
  cells,    \* state.cache
  seen,     \* state.generated_ids; state.position is its length
  ids,      \* all_ids
  used      \* history: the last two entries a call stored or matched

vars == <<entries, job, pc, cells, seen, ids, used>>

Job == [model : Models, prompt : Prompts, limit : Limits]

Entry == [fingerprint : {Fingerprint[m] : m \in Models}, ids : Seq(Tokens),
          cells : Seq(Cell)]

TypeOK ==
  /\ entries \in Seq(Entry) /\ Len(entries) <= MaxSize
  /\ job \in Job \cup {<<>>}
  /\ pc \in {"idle", "suffix", "sample", "feed", "done", "full"}
  /\ job = <<>> <=> pc = "idle"
  /\ cells \in Seq(Cell)
  /\ seen \in Seq(Tokens)
  /\ ids \in Seq(Tokens)

Init ==
  /\ entries = <<>>
  /\ job = <<>>
  /\ pc = "idle"
  /\ cells = <<>>
  /\ seen = <<>>
  /\ ids = <<>>
  /\ used = <<>>

-----------------------------------------------------------------------------
(* KV caches.                                                              *)

(* The cells hold what a full prefill of s by model m leaves in them.      *)
Holds(c, m, s) ==
  /\ Len(s) <= Len(c)
  /\ \A i \in 1..Len(s) : c[i] = [model |-> m, ids |-> SubSeq(s, 1, i)]

Prefilled(m, s, size) ==
  [i \in 1..size |-> IF i <= Len(s) THEN [model |-> m, ids |-> SubSeq(s, 1, i)] ELSE Zero]

FullEarly == Len(seen) + 1 >= Len(cells)  \* mutant: the last position is not used

Full == Len(seen) >= Len(cells)

(* decode_step at position Len(seen), the first one not consumed.          *)
Decode(t) ==
  /\ ~Full
  /\ cells' = [cells EXCEPT ![Len(seen) + 1] =
                 IF Holds(cells, job.model, seen)
                 THEN [model |-> job.model, ids |-> Append(seen, t)] ELSE Mixed]
  /\ seen' = Append(seen, t)

-----------------------------------------------------------------------------
(* The prefix cache.                                                       *)

Agree(s, t, n) == n <= Len(s) /\ n <= Len(t) /\ \A i \in 1..n : s[i] = t[i]

CandidatesAnyModel(m) == DOMAIN entries  \* mutant: fingerprints are not compared

Candidates(m) == {i \in DOMAIN entries : entries[i].fingerprint = Fingerprint[m]}

(* lookup: entry i has the longest common prefix with p, n tokens.          *)
Match(i, n, m, p) ==
  /\ i \in Candidates(m)
  /\ Agree(entries[i].ids, p, n)
  /\ \A j \in Candidates(m) : ~Agree(entries[j].ids, p, n + 1)

MissesUnlessWhole(m, p) ==  \* mutant: only a whole prompt counts as found
  \A i \in Candidates(m) : ~Agree(entries[i].ids, p, Len(p))

Misses(m, p) == \A i \in Candidates(m) : ~Agree(entries[i].ids, p, 1)

TouchNothing(i) == entries  \* mutant: lookup leaves the access stamp alone

(* The matched entry gets the newest access stamp.                          *)
Touch(i) ==
  [j \in DOMAIN entries |-> IF j < i THEN entries[j]
                            ELSE IF j < Len(entries) THEN entries[j + 1]
                            ELSE entries[i]]

StoreUnbounded(e) == Append(entries, e)  \* mutant: no eviction

(* store, then _evict_one when there are more than max_size.                *)
Store(e) == IF Len(entries) < MaxSize THEN Append(entries, e)
                                      ELSE Append(Tail(entries), e)

Key(e) == <<e.fingerprint, e.ids>>
Use(e) == used' = IF used # <<>> /\ used[Len(used)] = Key(e) THEN used
                  ELSE IF Len(used) < 2 THEN Append(used, Key(e))
                  ELSE <<used[2], Key(e)>>

-----------------------------------------------------------------------------
(* A call of model m on prompt p for n new tokens, where a new state holds *)
(* c positions.  Each of the next four is a call that the cache answers in *)
(* one way.                                                                *)

Begin(m, p, n) ==
  /\ pc = "idle"
  /\ job' = [model |-> m, prompt |-> p, limit |-> n]
  /\ ids' = p

AfterPrefill(n) == IF n = 0 THEN "done" ELSE "sample"

FullPrefill(m, p, n, size) ==
  /\ cells' = Prefilled(m, p, size)
  /\ seen' = p
  /\ pc' = AfterPrefill(n)

(* No prefix cache, or ignore_prefix_cache.                                 *)
CallUncached(m, p, n, c) ==
  /\ Begin(m, p, n)
  /\ FullPrefill(m, p, n, c)
  /\ UNCHANGED <<entries, used>>

CallMiss(m, p, n, c) ==
  /\ Begin(m, p, n)
  /\ Misses(m, p)
  /\ FullPrefill(m, p, n, c)
  /\ LET e == [fingerprint |-> Fingerprint[m], ids |-> p, cells |-> Prefilled(m, p, c)]
     IN  entries' = Store(e) /\ Use(e)

(* The whole prompt is cached: prefilled again, in a state as large as the  *)
(* entry's (prefill_with_prefix_reuse) or the call's own (the pipeline).    *)
CallExact(m, p, n, c) ==
  /\ Begin(m, p, n)
  /\ \E i \in DOMAIN entries :
       /\ Match(i, Len(p), m, p)
       /\ \E size \in {c, Len(entries[i].cells)} : FullPrefill(m, p, n, size)
       /\ entries' = Touch(i)
       /\ Use(entries[i])

CallPrefixOneOver(m, p, n, c) ==  \* mutant: one position too many is taken over
  /\ Begin(m, p, n)
  /\ \E i \in DOMAIN entries, k \in 1..Len(p)-1 :
       /\ Match(i, k, m, p)
       /\ cells' = entries[i].cells
       /\ seen' = SubSeq(p, 1, k + 1)
       /\ entries' = Touch(i)
       /\ Use(entries[i])
       /\ pc' = IF k + 1 = Len(p) THEN AfterPrefill(n) ELSE "suffix"

CallPrefix(m, p, n, c) ==
  /\ Begin(m, p, n)
  /\ \E i \in DOMAIN entries, k \in 1..Len(p)-1 :
       /\ Match(i, k, m, p)
       /\ cells' = entries[i].cells
       /\ seen' = SubSeq(p, 1, k)
       /\ entries' = Touch(i)
       /\ Use(entries[i])
  /\ pc' = "suffix"

(* A state that is full raises ValueError, which ends the call.             *)
Raise ==
  /\ Full
  /\ pc' = "full"
  /\ UNCHANGED <<cells, seen>>

DecodeSuffix ==
  /\ pc = "suffix"
  /\ \/ /\ Decode(job.prompt[Len(seen) + 1])
        /\ pc' = IF Len(seen) + 1 < Len(job.prompt) THEN pc ELSE AfterPrefill(job.limit)
     \/ Raise
  /\ UNCHANGED <<entries, job, ids, used>>

(* The logits come from the last position written.                          *)
Choice == LET cell == cells[Len(seen)]
          IN  IF cell = Mixed THEN Tokens ELSE {Predict(cell.model, cell.ids)}

SamplePastEos ==  \* mutant: the end-of-sequence token does not stop the loop
  /\ pc = "sample"
  /\ \E t \in Choice : ids' = Append(ids, t)
  /\ pc' = "feed"
  /\ UNCHANGED <<entries, job, cells, seen, used>>

Sample ==
  /\ pc = "sample"
  /\ \E t \in Choice :
       /\ ids' = Append(ids, t)
       /\ pc' = IF t = EOS THEN "done" ELSE "feed"
  /\ UNCHANGED <<entries, job, cells, seen, used>>

FeedOneMore ==  \* mutant: the loop runs once too often
  /\ pc = "feed"
  /\ \/ /\ Decode(ids[Len(ids)])
        /\ pc' = IF Len(ids) <= Len(job.prompt) + job.limit THEN "sample" ELSE "done"
     \/ Raise
  /\ UNCHANGED <<entries, job, ids, used>>

(* The new token is decoded even when it was the last one asked for.        *)
Feed ==
  /\ pc = "feed"
  /\ \/ /\ Decode(ids[Len(ids)])
        /\ pc' = IF Len(ids) < Len(job.prompt) + job.limit THEN "sample" ELSE "done"
     \/ Raise
  /\ UNCHANGED <<entries, job, ids, used>>

(* The caller has the result; the state of the call is dropped.             *)
Return ==
  /\ pc \in {"done", "full"}
  /\ pc' = "idle" /\ job' = <<>>
  /\ cells' = <<>> /\ seen' = <<>> /\ ids' = <<>>
  /\ UNCHANGED <<entries, used>>

Clear ==
  /\ pc = "idle"
  /\ entries' = <<>>
  /\ used' = <<>>
  /\ UNCHANGED <<job, pc, cells, seen, ids>>

Next ==
  \/ \E m \in Models, p \in Prompts, n \in Limits, c \in Capacities :
       \/ CallUncached(m, p, n, c)
       \/ CallMiss(m, p, n, c)
       \/ CallExact(m, p, n, c)
       \/ CallPrefix(m, p, n, c)
  \/ DecodeSuffix
  \/ Sample
  \/ Feed
  \/ Return
  \/ Clear

Spec == Init /\ [][Next]_vars

-----------------------------------------------------------------------------
(* Properties.                                                             *)

(* Different models have different fingerprints.                            *)
FingerprintsDiffer == \A m, k \in Models : Fingerprint[m] = Fingerprint[k] => m = k

(* Whatever the cache answered, the state a call works on holds exactly    *)
(* the K/V that a full prefill of the tokens consumed so far would leave   *)
(* (docs/prefix_kv_cache_reuse.md).                                        *)
ReuseIsExact ==
  FingerprintsDiffer /\ pc # "idle" => Holds(cells, job.model, seen)

(* What a call has consumed is what it was asked to: the prompt, or while  *)
(* the suffix is decoded a prefix of it, and then every token sampled but  *)
(* the one about to be fed.                                                *)
Consumed ==
  /\ pc = "suffix" => /\ Len(seen) < Len(job.prompt)
                      /\ seen = SubSeq(job.prompt, 1, Len(seen))
                      /\ ids = job.prompt
  /\ pc = "sample" => seen = ids
  /\ pc = "feed"   => seen = SubSeq(ids, 1, Len(ids) - 1)

(* Every entry holds the K/V of its own tokens, computed by a model with   *)
(* its fingerprint, in a cache large enough for them.                      *)
EntriesSound ==
  \A i \in DOMAIN entries :
    \E m \in Models : /\ entries[i].fingerprint = Fingerprint[m]
                      /\ Holds(entries[i].cells, m, entries[i].ids)
                      /\ Len(entries[i].cells) \in Capacities

(* Where the loop is, and that it has not met an end-of-sequence token.    *)
CallShape ==
  /\ pc = "idle" => ids = <<>>
  /\ pc # "idle" => /\ Len(job.prompt) <= Len(ids)
                    /\ Len(ids) <= Len(job.prompt) + job.limit
                    /\ Len(cells) \in Capacities
  /\ pc = "sample" => Len(ids) < Len(job.prompt) + job.limit
  /\ pc \in {"suffix", "sample", "feed"} =>
       \A i \in Len(job.prompt)+1..Len(ids) : ids[i] # EOS

(* The cache has one entry per fingerprint and first token: a prompt that  *)
(* shares its first token with an entry hits, and what a hit computes is   *)
(* not stored.  So the order in which lookup breaks ties never matters.    *)
OneEntryPerStart ==
  \A i, j \in DOMAIN entries :
    /\ entries[i].fingerprint = entries[j].fingerprint
    /\ entries[i].ids[1] = entries[j].ids[1]
    => i = j

(* With room for two entries, the two used last are both still there,      *)
(* however many misses evicted others (least recently used eviction).      *)
RecentlyUsedKept ==
  MaxSize >= 2 =>
    \A k \in DOMAIN used : \E i \in DOMAIN entries : Key(entries[i]) = used[k]

(* A call only fails for want of room when its prompt and new tokens do    *)
(* not all fit the smallest state in use.                                  *)
FullOnlyWhenOver ==
  pc = "full" => \E c \in Capacities : Len(job.prompt) + job.limit > c

(* A call that ends well has its max_new_tokens, or fewer up to and        *)
(* including the first end-of-sequence token it sampled.                   *)
StopsOnTime ==
  pc = "done" =>
    /\ \/ Len(ids) = Len(job.prompt) + job.limit
       \/ ids[Len(ids)] = EOS /\ Len(ids) < Len(job.prompt) + job.limit
    /\ \A i \in Len(job.prompt)+1..Len(ids)-1 : ids[i] # EOS

(* Reuse is invisible: a call generates what greedy generation promises.   *)
Greedy == INSTANCE GreedyDecoding
GreedySpec == Greedy!Spec
=============================================================================
