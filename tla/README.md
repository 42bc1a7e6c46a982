# TLA+ specifications of mlx-metal-kernels

The repository is a Python library of LLM-inference building blocks for Apple
silicon: Metal kernels with Python wrappers (`kernels/`, `ops/`), and on top of
them the stateful parts of an inference runtime (`models/`): KV caches that are
paged, quantized, offloaded to a store and prefetched back, a prefix cache,
generation loops and speculative decoding.

Floating-point arithmetic is tested by the repository and cannot be decided by a
model checker. What tests hardly reach is what surrounds it: which block is
where, which request is pending, what a cached entry stands for, which tokens
are committed, which element of memory an index names, which operand goes where,
what is on the disk after a crash, which thread reads before which barrier. That
is what these modules model. A number is reduced to where it comes from.

## 1. The system

| Component | State it keeps | Operations | Interacts with |
|---|---|---|---|
| Prefetch scheduler, `models/kv_prefetch_scheduler.py` | queue, in-flight dict, dicts of finished requests, request ids, counters, step clock | `submit`, `advance_step`, `poll_ready`, `wait_for`, `cancel`, `clear_completed` | reads and flips flags of the residency map, reads the store, writes into the caller's list of layer caches |
| Prefetch callers, `ops/kv_prefetch_ops.py` | none | lookahead submit, `ensure_prefetched_before_attention` | scheduler |
| Offload tier, `models/kv_offload.py`, `models/kv_offload_store.py`, `ops/kv_offload_ops.py` | residency map (two flags per block), store (memory or files) | offload, prefetch, delete, `apply_offload_plan` | hot layer caches |
| Offload policy, `models/kv_offload_policy.py` | none | `plan_offload_blocks` | residency map |
| Long-context runtime, `models/long_context_runtime.py`, `ops/long_context_ops.py` | position, stack cache, map, store, scheduler | prefill, decode step, generate | all of the above |
| Prefix cache, `models/prefix_cache.py`, `ops/kv_cache_reuse_ops.py` | entries with access stamps | lookup, store, evict, clear, prefill with reuse | generation state |
| Generation, `models/generation.py`, `models/tiny_generation_pipeline.py`, `ops/llama_stack_ops.py`, `ops/llama_prefill_ops.py` | KV cache, position, generated ids | prefill, decode step, generate | prefix cache |
| Speculative decoding, `models/speculative_decoding.py`, `ops/speculative_verify_ops.py` | committed ids; the state the pipeline has kept | propose, verify, commit | pipeline |
| Staged cache, `ops/speculative_cache_ops.py`; MTP, `models/mtp.py` | none; a clone of the stack's cache | commit, discard | stack; the verifier of `ops/speculative_verify_ops.py` |
| Contiguous, paged and quantized KV caches, `ops/*kv*_ops.py` | pages, block table, scales | update, gather, attention | kernels |
| Layers and the stack, `ops/llama_layer_ops.py`, `ops/*_block_ops.py`, `ops/toy_transformer_ops.py`, `models/model_adapter.py` | none; the caller's layer caches | prefill, decode step, decode loop, with a backend preset | KV caches, kernels, `MLX_METAL_CI_SAFE_MODE` |
| Metal kernels, `kernels/*.metal` | threadgroup memory in 14 of them | one dispatch | none |
| Checkpoint and package pipeline, `models/checkpoint_*.py`, `models/quantized_package_*.py` | files | convert, quantize, write, read | the kernels' weights |
| Tokenizers, sampling, alignment, benchmarks, examples | none to speak of | pure functions, drivers | |

What is hard in it:

* There are no threads in the Python code. The scheduler is *step-driven*: a prefetch is simulated
  to take `simulated_latency_steps` calls of `advance_step`. So the hazards are
  not data races but orders of calls: a block is offloaded, fetched on demand,
  submitted, waited for and offloaded again by three callers that share the
  residency map.
* Every dict of the scheduler is keyed by block and every request has an id of
  its own; a request passes from one collection to the next.
* `wait_for` and `ensure_prefetched_before_attention` time out, and a
  completion may come without the layer caches it needs.
* The runtime fails in the middle: an exception out of a loop over blocks drops
  a cache whose flags were already flipped.
* Offload plans are made with block arithmetic (`position // block_size`, recent
  blocks, sink blocks, a budget) whose boundary cases decide whether the next
  token finds its window.
* A clone of a cached prefix must be what a prefill would have computed; an
  entry is found by a fingerprint and a common prefix and is evicted by age.
* Speculative decoding must not change what is generated.
* A cache has five layouts (contiguous, paged, quantized, paged and quantized,
  sparse reads of the first), each with a reference and several kernels that
  compute the same index in their own way, and conversions between them in the
  middle of a sequence.
* A backend preset is turned into backend names, which are turned into others at
  each level down, while every operation accepts its own list of names.
* Blocks and packages are files, written in place, several for one thing.
* Inside a kernel there *are* threads, with shared memory and barriers in nested
  loops.

For each component, what makes it correct:

* scheduler: capacity, no duplicate and no lost request, order within a
  priority, counters that agree with the collections, no starvation in
  submission order, a call that returns and tells the truth;
* tier: "resident" means that the K/V is in the hot cache, and the store never
  holds a cleared range;
* runtime: attention never begins without the blocks it reads, a plan spares
  the next window, no call loses a block;
* prefix cache and generation: reuse is invisible, eviction is by least recent
  use, a call stops where it should and only fails for want of room;
* speculative decoding: what is committed is what greedy generation gives, every
  step makes progress;
* KV caches: a query reads the rows last written below its length, of its own
  batch element and head, and a write changes one row, whatever the layout;
* stack and layers: an answer is that of a causal transformer over the tokens
  fed, and a call within the documented bounds returns;
* files: what is read back is one write's, or an error;
* threadgroup kernels: no race, and the result is the reference's.

## 2. The modules

| Module | What it is |
|---|---|
| `KVOffloadTier` | residency map, hot caches and store, and the two operations that move a block |
| `KVPrefetchScheduler` | the scheduler over the tier, with the callers around it |
| `LongContextRuntime` | prefill and decode step of the runtime over both; on maps without gaps it makes only steps of `KVPrefetchScheduler` |
| `GreedyDecoding` | abstract: what greedy generation promises |
| `PrefixReuse` | prefix cache and generation loop; refines `GreedyDecoding` |
| `SpeculativeDecoding` | drafters, verifiers and commit loop; refines `GreedyDecoding` |
| `KVCache` | abstract: what a key/value cache promises |
| `KVCacheOps` | every function and kernel that writes, reads or converts a cache, by index |
| `KVCacheLayouts` | the calls on them as actions; refines `KVCache` |
| `TransformerOps` | the operations of a layer on terms, with their dispatch; uses `KVCacheOps` |
| `LlamaStack` | stack, layer, toy layer and adapter over their caches, verification on a clone |
| `Disk` | what a file written in place may hold |
| `KVFileStore` | the file store, with crashes |
| `CheckpointPackage`, `PackageFiles` | from a checkpoint's tensors to kernel weights; the files of a package, with failed writes and crashes |
| `ThreadgroupKernels` | one threadgroup of each kind of kernel, thread by thread |
| `MC...` | small instances for TLC |
| `...Proofs` | theorems for TLAPS |

Operators marked `mutant` in the modules are broken variants of the definition
that follows them; no specification uses them. Each property is known to fail
when the variant named for it takes the definition's place.

### KVOffloadTier

`residency[b]` is the pair of flags of a block's metadata, or `"unknown"` when
the map has no entry. `hot[b]` and `stored[b]` say what the layer cache and the
store hold for it: its K/V, zeros, nothing. `TierInit` is every map a caller
builds: resident blocks with data, offloaded ones with data in the store, or
with metadata built by hand and an empty store (a path that `_do_prefetch` has a
branch for). `OffloadBlock` is `offload_kv_block`, `PrefetchBlocks` is
`prefetch_kv_block` for several blocks at once. The store is the in-memory one;
`Overwrite` tells it from a file store that refuses a second `put_block`, whose
files are the subject of `KVFileStore`.

### KVPrefetchScheduler

| Code | Model |
|---|---|
| `_queue` (appended in id order, never reordered) | `queue`, a set of requests ordered by id |
| `_in_flight`, `_completed`, `_failed` | functions from blocks to a request or `NoReq` |
| `_req_seq`, `stats` | `nextSeq`, `stats` |
| `current_step`, `ready_step` | `due`, their difference: the code compares them in no other way |
| `submit` and its three answers | `Submit`: `SubmitResident`, `SubmitDuplicate`, `SubmitQueued` |
| `_issue_queued` (slots, sort, slice) | `Slots`, `Precedes`, `IsIssueBatch`, `IssueInto` |
| `_complete_ready`, `_do_prefetch` | `CompleteReady`, `PrefetchOk`, `Loads` |
| `advance_step`, `poll_ready`, `cancel`, `clear_completed` | the actions of those names |
| `wait_for`, `ensure_prefetched_before_attention` | `call` holds the locals of the running loop; `WaitFor` or `EnsurePrefetched`, `EnsureSubmit`, `WaitStep`, `WaitReturn` |
| offload plan and demand fetch beside the scheduler | `Offload`, `DemandPrefetch` |

While a loop runs no other operation does (one thread). `call.stale` is a
history: the blocks that already had a finished record when the call began.

### LongContextRuntime

A decode step is one call of `long_context_decode_step`. It is split at the
loops it runs over layers and blocks, so that each step is one operation of the
scheduler or of the tier, or a failure in the middle: `StartDecode`,
`SubmitLookahead`, `StepScheduler`, `PollScheduler`, then per layer `FetchBlock`
or `PassBlock` or one of the failures and `LayerReady`, then `PlanOffload`,
`OffloadNext`, `LayerOffloaded`. Prefill goes straight to the offload loop.
`NeededBlocks`, `LookaheadBlocks`, `Keep` and `OffloadPlan` translate the block
arithmetic of `ops/long_context_ops.py`, `ops/kv_prefetch_ops.py` and
`models/kv_offload_policy.py`. A failing step restores `before`: the caller
keeps the layer cache it had, while the flags stay flipped.

`policy` is a `LongContextRuntimeConfig`, with the switch of the scheduler. One
field is not the code's: `gaps` bounds the blocks that neither tier holds at
first (`Gap`: no entry in the map, an entry with neither flag, or one offloaded
that the store does not hold). What is only promised of a map that describes all
it should is stated under `MapCoversPositions`.

The state is the one `tests/test_long_context_prefetch_scheduler.py` builds: the stack cache is a
list of pairs of arrays. The runtime's own `init_state` puts the
`LlamaStackCache` of `init_llama_stack_cache` there
(`models/long_context_runtime.py:288`), which cannot be indexed: with offload on,
a prefill that has blocks to move, and each decode step with a sparse pattern,
end in a `TypeError` at `state.stack_cache[layer_idx]` (`:422`, `:549`). That
state is not modelled, nor is the check `isinstance(layer_cache, tuple)` (`:550`), which every cache of the
modelled state passes.

### PrefixReuse

A cell of a KV cache is the model and the tokens it was computed from, so that
"the same K/V" is equality of cells; a cell computed over cells that do not
belong together is `Mixed`. `entries` is kept in the order of the access stamps.
`CallUncached`, `CallMiss`, `CallExact` and `CallPrefix` are the four ways a call
starts, in `prefill_with_prefix_reuse` and in the pipeline's
`_prefill_with_cache`; `DecodeSuffix`, `Sample` and `Feed` are its loops. A
decode step on a full state raises (`pc = "full"`).

### SpeculativeDecoding

`DraftSelf`, `DraftFixed` and `DraftRandom` build a proposal, `VerifySequential`
and `VerifyParallel` the target's tokens, one token a step; `Commit` is the
accept mask, the accepted prefix, the replacement and the cut to the budget in
one step. `held` is what the pipeline's kept state holds, which only the
parallel verifier reads. The configuration is chosen at each call, so calls of
different kinds follow each other on one pipeline.

### KVCache, KVCacheOps, KVCacheLayouts

`KVCache` is the promise: rows per batch element, a decode step that writes one
row and attends to all up to it, attention to any length under any sparse
pattern, and copies that keep a prefix. `KVCacheOps` has the code, line by line
down to the index: an array is its row-major memory, a lane of a row is the
identity of the number that is there (which step wrote it, for which position
its key was rotated, batch element, head, lane), so a wrong stride, page, nibble
or scale shows as a lane of something else. An attention returns, for each row
of its output, the positions it takes and what it read at each. K and V are
handled alike line by line in the code: one array stands for both. Quantizing is
the packing of lanes with the scale they belong to; the rounding error, softmax
weights and dtypes are left out.

`KVCacheLayouts` is the state (`layout`, `K` or `Q`, `table`, `lengths`) with one
action per function a caller has, for every backend and for every combination
the code dispatches on; `StoredRows`, `Room` and `Promised` are the refinement
mapping. `MCKVCache` keeps their values in variables of their own, because TLC
would otherwise compute them once for every part of the abstract step.

### TransformerOps and LlamaStack

A row of an activation is the expression that computes it. `TransformerOps`
translates the operations a layer is made of; what differs from backend to
backend is which names, environments and dtypes are accepted (`Raise`
otherwise), which cache kernels run and in which order caches are read and
written. The caches are memories of `KVCacheOps`. `LlamaStack` has one action per
entry point; `StagedVerify` is `parallel_verify_tokens` and the commit of its
clone, taken together: the caller commits before it calls anything else. It feeds new
inputs, may go back to a written position or prefill over a cache in use, and is
the one who knows `tokens`, and that a commit counts rows from 0; `Denotation` is
the causal transformer over them, defined without any of the operators above.
Elementwise kernels (norm, activation, residual) are one operation of the
expression whatever computes them.

### Disk, KVFileStore, PackageFiles

A file is absent, torn, or whole with what one write put there; writes are in
place and truncate first. The process dies between two file operations or within
one; the machine does not, so what was written before is there. `KVFileStore` is
`put_block` and `delete_block` as their file operations, `CutShort` is a death or
a full disk, after which the store may be built again with the other value of
`overwrite`. `PackageFiles` is `convert` and `write_tensors`: `SavePart`,
`FailPart` (the writer goes on), `FinishPackage`, `Die`. `CheckpointPackage` says
which tensor of the checkpoint ends up in which argument of the kernels. A
tensor is the checkpoint's version and its name; that the packed weights of two
checkpoints differ is a hypothesis of the checksum's part in
`ValidatedPackageIsWhole`. One module for TLC, `MCFiles`, runs either of the two.

### ThreadgroupKernels

`at[t]` is the phase a thread is to do next, `After` the control flow of five
families of kernels, `BarrierAfter` where the barriers are, `Reads` and `Writes`
the cells of threadgroup memory a thread touches in a phase, `Value` what it
writes: a partial sum counts the products in it, a softmax accumulator lists its
rows with score and maximum. A phase is one step, which is right if no two
threads race; `NoRace` is that. `Supported` is what the Python wrappers let
through, with their constants (128, 64, 256 threads) scaled.

### GreedyDecoding

Two variables: the job and the tokens. Every token added is the model's choice
after the tokens before it, and never more are added than were asked for. Both
generation modules have it as a property, `GreedySpec`: `PrefixReuse` as it is,
`SpeculativeDecoding` with calls that do not promise exactness mapped to no job.

## 3. The runs

| Run | Question | Bounds |
|---|---|---|
| `Scheduler` | all safety and liveness properties of scheduler and tier, under every interleaving of calls | 2 blocks of one layer, one slot, latency 2, 2 priorities, waits of 1 or 6 steps, 3 request ids |
| `RuntimeStep` | the runtime with the scheduler and without, over maps with and without a gap | 2 layers of 3 blocks of 2 tokens, 5 configurations (three scheduled, one of them with a gap; two on demand, both with one), positions to 6 |
| `RuntimeFailedFetch` | violation: a failed step leaves a flag without its data | 1 layer, 2 blocks of 1 token, both may be gaps |
| `RuntimeHardLimit` | violation: more blocks than `max_resident_blocks` stay resident | 1 layer, 2 blocks of 1 token, a limit of 1, 2 recent blocks kept |
| `PrefixReuse` | reuse is exact and invisible, eviction, ends of a call | 2 models, 7 prompts up to 3 tokens, vocabulary of 3 with EOS, 2 entries, states of 4 and 5 positions |
| `Speculative` | exactness, progress, completeness, termination | 2 models, 2 prompts, 1 or 4 new tokens, drafts of 3, three drafters, two verifiers, both modes |
| `SpeculativeParallel` | violation: the parallel verifier's first target is one position late | random drafter |
| `KVCaches` | every layout, backend, sparse pattern and conversion keeps the promise of `KVCache` | 2 batch elements, 3 positions in pages of 2, 4 query heads on 2 kv heads, heads of 2 and of 3 lanes in groups of 2, two block tables, 6 patterns, 2 decode steps |
| `LlamaStack` | answers are causal, valid calls return | 2 layers of 4 and 8 bits, caches of 3 positions, pages of 2, tables of 4 rows, 3 calls on a sequence, proposals of 1 and 2 tokens committed up to any row |
| `LlamaNumpyDecode` | violation: on numpy inputs decode does not go on from prefill | caches of 2 positions, 2 calls |
| `Files` | what the store and a package hold after any cut | one block, 2 payloads, 3 cuts; one layer of 3 tensors, 2 checkpoints, 2 failed writes or deaths |
| `Threadgroups` | no race, the row is the reference | 4 or 8 threads, simdgroups of 2, tiles of 2, heads up to 9, rows up to 5, with and without masked rows |

Why the bounds are enough for what they are used for. *Scheduler:* one slot and
two blocks make requests queue behind each other; latency 2 lets calls come
between issue and completion; three ids allow a block to be fetched, offloaded,
submitted again and waited for. *Runtime:* blocks of two tokens and windows of 2
and 3 put the window across block boundaries at some positions and not at
others; two layers let one layer fail or be planned after another was changed;
one gap among six blocks makes any block of any layer the one that is missing,
after the loop has passed others.
*Prefix cache:* two entries and seven prompts make lookups miss, match in part
and match whole, and evict; with states of 4 positions, prompts of 3 tokens and
2 new ones, calls run out of room. *Speculation:* a limit of 4 with drafts of 3
needs two or more steps and a last step with a shorter draft.
*KV caches:* three positions in pages of two leave a page half used, an odd head
pads a byte and leaves a group of one lane, the reversed table is the identity
nowhere, and the lengths contain 0, unequal ones, all of the cache and more than
the contiguous one holds; windows are shorter and longer than the sequences, and
a block mask may hide a query's own block. *Stack:* two layers with different
bit widths tell the layers' weights and caches apart; three calls are a prefill,
a step that goes back and one over what is left behind it. *Files:* two cuts are
a conversion that dies over one that died before. *Threads:* eight threads need
three halvings; heads of 1, 3, 7 and 9 do not divide, and 5 rows end in a tile
of one.

Bounds that are artificial: `gaps`, `MaxRequests` (request ids drawn; it ends
submissions, so runs never check a stream without end), `MaxPosition`,
`MaxSteps`, `MaxCalls`, `MaxStoreCuts`, `MaxWriteCuts`, the finite sets of
prompts and limits, and of positions, lengths and patterns in `MCKVCache`.
No symmetry is used.

### What the runs show

The passing runs show the properties named in their `.cfg`; the comment above
each property says what it means. The ones that took some thought:

* `EnsureSound`: a normal return of `ensure_prefetched_before_attention` means
  that its blocks are resident, *unless* they had an old record.
* `NoSpuriousTimeout`: with `max_steps` of at least
  `ceil(blocks / max_in_flight) * (latency + 1)` the call does not time out,
  whatever was queued before it.
* `PlanSparesNextStep`: needs `keep_recent_blocks >= 1 + ceil((window - 1) /
  block_size)`, because the policy counts back from a block that may be empty.
* `AttentionReady` and `SchedulerSteps` (`RuntimeStep`): the runtime's demand
  fetches and offloads compose with the scheduler whatever it has in flight, when
  the map has no gaps. `NoSilentFallback` is for maps with gaps too: a step fails, or
  has all blocks that it needs in the map and resident.
* `FullOnlyWhenOver`: the last sampled token is decoded too, so a call needs one
  position for each token of prompt and answer, and no more.
* `OneEntryPerStart`: hits store nothing, so the cache has one entry for each
  first token; ties in `lookup` never happen.
* `ImplementsKVCache`: nothing is promised of a length of 0, on which the
  backends disagree (the reference attends to all positions alike, the kernels
  give zeros, the quantized kernels write nothing), nor of a length past the
  storage. `reference_paged_quantized_kv_gqa_decode_attention` raises for every
  length below the capacity of the pages: it gathers the rows below the length and
  then masks and weighs as many as the pages hold, so the shapes disagree. `KVCache`
  lets any call refuse, and the run accepts it; of this reference it compares full
  caches alone.
* `EnsureSound` covers neither the old record that `wait_for` finds nor a step
  without layer caches; no property does, as the code does both and no document
  says otherwise. They are listed below.
* `OutputsAreCausal` takes the count of a commit as given: that a caller counts one
  too many is not its subject. It also covers the numpy forms, with RoPE where each call
  applies it; that decode and prefill apply it differently is `LlamaNumpyDecode`.
* `BlockOfOnePut`: K and V of two different puts are handed back without an
  error only after an overwrite was cut short, or after a put and a delete both
  were; the order of the writes, K first, is what keeps every other cut visible.
* `ValidatedPackageIsWhole`: only weights have checksums, so scales and zeros
  may be another conversion's only if the same checkpoint was converted again
  over the package and cut short.
* `RowIsReference`: holds for heads that do not divide the threads, tiles that do
  not divide the rows, and thread counts that are powers of two (the wrappers
  use no others; with another, the halving would lose a partial sum).

### What the violation runs show

* `RuntimeFailedFetch`: `ensure_blocks_ready_for_attention` flips flags as it
  goes and returns the cache at the end.
* `RuntimeHardLimit`: `docs/flash_kv_offload_tier.md:75` has "Hard limit on resident
  blocks"; `plan_offload_blocks` offloads from the oldest that are not kept, and
  cuts what is over the limit off at their number. A prefill of one token with a
  limit of 1 and two recent blocks kept leaves both. What does hold is
  `LimitOrKept`, a theorem: over the limit, only kept blocks are left.
* `SpeculativeParallel`: logits are taken after each draft token was fed.
* `LlamaNumpyDecode`: `_fallback_layer_decode` applies no RoPE; the prefill of
  the same file does.

### Met on the way, without a run of their own

In the scheduler and the tier:

* `wait_for` takes any finished record of the block for its answer: a block that
  was fetched, offloaded again and waited for is "complete" while it is away
  (`EnsureSound` excludes such blocks). A request that failed is found as a
  duplicate until `clear_completed`, so its block is never retried.
* A request that comes due in `advance_step()` without layer caches is recorded
  complete and says "metadata updated"; nothing is updated.
* `cancel` finds queued requests only: in flight it looks a request id up in a
  dict keyed by block.
* Without deduplication a second request for a block overwrites the first in
  `_in_flight`, and `stats.in_flight` never comes back down.
* With `prioritize_recent`, a stream of more urgent submits starves a request.

In generation and the caches:

* The prefix cache's fingerprint samples 256 + 64 elements of each weight.
* The speculative loop does not stop at a committed end-of-sequence token.
* A `sliding_window` pattern with `sink_tokens`, which `validate` accepts: the
  Metal kernels attend to the sinks, the reference does not. The patterns of
  `MCPatterns` have sinks only in `sliding_window_sink`.
* `contiguous_kv_to_pages` leaves -1 in the block table past a length, so a
  decode step there has no page: its row is dropped, and the reference attention
  raises.
* `kv_cache_update` takes no threadgroup backend name, so `decode_step` with one
  of `metal_threadgroup`, `metal_d64`, `metal_d128` for both raises.
* A prompt longer than the cache grows the cache in MLX and raises in numpy.
* `commit_accepted_cache` copies the first rows of the draft, not those from its
  start on, and `commit_parallel_verification_cache` hands it the accepted count
  unchanged, with `start_position` unused: on a cache in use it commits nothing
  new. `docs/parallel_speculative_verification.md` says both ("copies accepted
  positions", "copies positions `[0, accepted_count)`"). `StagedVerify` commits
  any count and takes it for what it is. No path of the library calls either.
* `out_matvec_backend` of a layer decides nothing unless all names are
  "reference"; paged multi-head layers with another preset raise; the toy layer
  with `matvec_backend="metal"` raises in its MLP block.
* `qkv_rope_cache_update` validates the rotation tables for position 0 alone. At a
  position past them its kernel copies the cache unchanged and writes no query
  (`kernels/qkv_split_rope_cache_update.metal:31`), so that the block attends with what the
  buffer held, where the reference raises. The model has that branch
  (`Unwritten`); `LlamaStackAssumption` says why no call takes it.

In the package pipeline:

* `convert` answers ok although the writer failed (it drops the writer's
  report).
* `data_file` is relative to `tensors/`, where
  `docs/quantized_package_tensor_data.md:99` has it relative to the package.
* `inspect_package_executability` takes a missing zeros file of a symmetric
  tensor for an error.

## 4. Fairness

`Scheduler` assumes strong fairness of `advance_step`, because the decode
loop calls it once per token, whatever is called in between (a running
`wait_for` disables it for a while), and weak fairness of the steps of a call
that has begun, because it is a plain loop on one thread. It assumes nothing of
submits, cancels and polls. With `prioritize_recent` on, a stream of
more urgent submits can starve a request: `EveryRequestLeaves` says that requests
leave once submits end, as `MaxRequests` makes them. `Speculative` assumes that a call that has
begun runs on, and nothing of new calls.

## 5. What is proved

All theorems hold for every value of the constants that the modules' `ASSUME`s
allow, and are checked by TLAPS to the last leaf.

| Module | Theorems |
|---|---|
| `KVPrefetchSchedulerProofs` | `TypeCorrect`, `OnePlace`, `Capacity`, `Deduplicated`, `FifoOrder`, `ResidentData`, `StoredData`, `CountersAgree`, `EnsureIsSound`, `NoTimeout` |
| `LongContextRuntimeProofs` | `RuntimeTypeCorrect`, `NoFallback`, `PlanSpares`, `Implements` (on maps without gaps, refinement of the scheduler's steps), `Succeed`, `Attention`, `Budget` |
| `PrefixReuseProofs` | `TypeCorrect`, `Exactness`, `RoomEnough`, `Stops`, `OneEntry`, `RecentKept`, `GreedyOutput` (refinement of `GreedyDecoding`) |
| `SpeculativeDecodingProofs` | `TypeCorrect`, `Progress`, `CallsEndComplete`, `SelfDraft`, `GreedyOutput` (refinement of `GreedyDecoding`) |
| `ThreadgroupKernelsProofs` | `RaceFree`, `RowCorrect` |
| `KVCacheProofs` | `CacheInvariant`, `LayoutsImplementCache` (refinement of `KVCache`) |
| `LlamaStackProofs` | `StackInvariant`, `OutputsStayCausal`, `ValidCallsAlwaysReturn` |
| `FilesProofs` | `OnePut` (file store); `ReportHonest`, `PackageWhole` (package) |

*Scheduler.* `IndInv == TypeOK /\ WellKeyed /\ RequestInOnePlace`.
`RequestInOnePlace` is not inductive alone: a completion pass moves a request
from the key of a block to another dict's key of the same block, so the proof
needs that a request sits under its own block, and that no id in use is still to
be drawn (`WellKeyed`). Every step is first put into one of six kinds
(`StepKinds`: a pass, one submit, a cancel, a clear, a return, nothing), and
each theorem has one case per kind. Capacity counts keys of `IssueInto`: a batch
of n requests adds at most n keys. Order within a priority uses that `Precedes`
is a strict total order (`PrecedesOrder`) and that what is issued is a prefix of
the sorted queue. `CountersAgree` (`StatsInv`) needs
`FreshFailures` beside the counters: with deduplication a block on its way has no
record of a failure, or a second failure of it would be counted under the same
key. `EnsureIsSound` (`EnsureInv`) follows a running ensure: a block of it
is resident or still waited for, and a finished record that is not older than the
call means resident.

`NoTimeout` is a bound on time. `DrainInv` divides the steps of a running ensure,
in which nothing is submitted, into rounds of `latency + 1`. `Late(i)` is, i steps
into a round, what will not be through at its end: the queue, and what is due
later. It never grows within a round, and in the first step of one all that was in
flight at its beginning is due, or will be by its end, so that what is issued fills every slot
(`SlotsFilled`): each round takes `max_in_flight` blocks off, or ends with none
left. Hence `|Late(i)| + j * max_in_flight <= |Blocks|` in round j, and after
`ceil(|Blocks| / max_in_flight)` rounds nothing is on its way. Which blocks were
queued first plays no part, only that a block is queued once (deduplication).

*Runtime.* `NoFallback` uses `FallbackInv`: what the ensure loop has passed in
the layers so far is resident, or in `todo`, or `missing` is set; it needs no
assumption on the map. `PlanSpares` uses `Planned` (what is left of a plan was in
it) and the block arithmetic of `KeepCovers` (`WindowReach`: the blocks of the
next window are among the last `1 + (w + B - 2) div B`). `SchedulerSteps`,
`StepsSucceed` and `AttentionReady` speak of `MapCoversPositions`, a map without
gaps that describes every position that is decoded; under it `MapInv` says
that no block is lost to both tiers (`MapKept`), and each runtime step is shown
to be a scheduler step or a stutter, so that what the scheduler keeps of the
data (`DataStep`) holds of the runtime's steps as well (`Implements`, `Succeed`, `Attention`).
`RuntimeTypeCorrect` and `Budget` are for every map. `Budget` is that each layer
keeps `LimitOrKept`: no more resident blocks than `max_resident_blocks`, or only
kept ones; the limit alone, which the documentation promises, is what
`RuntimeHardLimit` refutes. `BudgetInv` follows the
offload loop: in the layers it has been through, and in its own layer once the
rest of the plan has left, no more is resident than the budget or the kept blocks;
that rests on the plan being the oldest blocks over the budget.

*Prefix reuse.* `IndInv` joins `Sound(entries)` (each entry holds the K/V of its
own tokens, computed by a model with its fingerprint, in a cache of a size in
use), `Consumed` and `CallShape` (which tokens the call has fed, where its loop
is) and `Exact` (the cells hold what was consumed). Soundness of the entries is
what makes a hit exact; `HoldsPrefix` says that a clone serves every prompt that
agrees with the entry, `HoldsAppend` that decode extends it as a prefill would.
`CacheInv` is about the entries alone: no two with one
first token and fingerprint (a call whose first token matches is a hit and stores
nothing) and the keys used last at the end of the order (`UsedLast`).
Hypotheses: `PredictTotal` (the model's choice is a token of the vocabulary) and
`FingerprintsDiffer` (different models have different fingerprints); the second
is what the code's sampled hash promises and does not guarantee.

*Speculation.* `IndInv == TypeOK /\ CallShape /\ TargetIsGreedy`. The heart is
`CommitFacts`: with exact matching an accepted prefix with its replacement is a
prefix of the target's tokens, which are greedy choices after the committed
ones. `SelfInv` says that the sequential verifier of a self-draft has the same
tokens as the draft so far, and that no draft goes on after an end of sequence, so
the two end together. Hypothesis: `PredictTotal`.

*Threadgroups.* `IInv` says that the threads that are not at a barrier are all in
one phase (`InStep`): that is inductive because only the output is not followed
by a barrier. `DisjointAccess` then compares, phase by phase, what two threads
read and write. It holds for every number of threads, head size, row count, tile
and simdgroup width, powers of two or not. For `RowCorrect` the invariant says
what threadgroup memory holds: `Live(p)` are the cells still to be read when phase
p begins, `Expect(p, c)` what such a cell holds then, `AccAt(p)` what the
accumulators do. A cell is as phase p expects it until a thread that waits for the
others has written it, and as the next phase expects it from then on (`MemoryInv`);
that alone is inductive, and race freedom is why a late thread still reads what it
expects (`ReadsExpected`). What is particular to the kernels is one lemma per phase
that it takes `Expect(p, .)` to `Expect(After(p), .)`: a halving of the threads
joins two shares of the elements, which are disjoint for powers of two (`Halves`); a
tile adds to the maximum and the sum its rows that are not masked, rescaled
(`Rescale`, `CountTile`); the passes of `row_parallel` end where the next begins.
Hypothesis: `Supported`, what the wrappers let through.

*KV caches.* `LayoutsImplementCache` is that every call of `KVCacheLayouts`, on
every layout and by every backend, is a step of `KVCache`, for every batch size,
number of heads and query heads per kv head, head dimension (odd ones too), page
and group size, block table, position and length array and pattern. The argument
has three layers.

1. Memory. `RowMajorIndex` says that division gives the four coordinates of an
   index back, whatever the strides. From it, each update is shown to write the
   row it names and no other (`KernelUpdate`, `KernelPagedUpdate`: two batch
   elements never write one page, `TargetsApart`), each attention to collect the
   lanes of the positions below its length, of its own batch element and kv head
   (`LoopRead`, `PagedLoopRead`, `Q8Read`, `Q4PagedRead`, ...), the two loops of
   a sliding window to visit the positions of the mask (`WindowIsVisible`), and a
   lane that was quantized to come back whatever half of a byte and whatever group
   it is in (`Quantized8`, `Quantized4`).
2. The mapping. `LaneIn`, `RowsIn`, `RoomIn` and `PromisedIn` are the refinement
   mapping as functions of a state's values. `RoomIs` says that a batch element's
   storage has no gap, so that its number of positions says which they are.
3. Steps. `KVInv` says that the arrays have the shape of the layout, that the
   paged ones have a table in which no page occurs twice, and, in `Held`, that
   every position with storage holds one row in all its lanes, each in its place.
   `Held` is what the refinement needs and what no single call shows: a quantized
   read recovers a lane from the scale of another lane of its group, and the
   mapping names a row only if all lanes agree. There are four kinds of
   steps: `RefuseStep`, `AttendStep`, `WriteStep` and `ConvertStep` say for each
   what a call must do to be the abstract one, and one lemma per action shows that
   it does.

Hypotheses (`KVCacheLayoutsAssumption`): heads have a lane; a block table's
entries are -1 or a page, no page occurs twice, and the blocks of a batch element
have pages from the first block on; the patterns are those `validate` accepts,
except that sinks come with `sliding_window_sink` only (on the others kernels and
reference disagree, see above). The head dimensions with kernels of their own
are not restricted: their index arithmetic is right for all.

*Stack.* `OutputsStayCausal` is that no call answers anything but the causal
transformer of the whole sequence, for every number of layers, bits of a layer,
page size and length of cache; `ValidCallsAlwaysReturn` that a call within
the caches' bounds returns, but for the two combinations of section 3 that raise. Both come from `LInv`. The argument has five layers.

1. Operations. `Yields(s, e, ok)` says of a call of `TransformerOps` that its rows
   `s` are the expressions `e` of the specification, or all raised, and that only
   if `ok` does not hold. `ok` is what a lemma assumes of the names, dtypes and
   positions given, so one lemma per operation serves both theorems. It holds for all
   backends of the operation (`LinearYields`, `RopeYields`, `MlpYields`, ...).
2. Decode blocks. `Decoded` says that a block wrote its key and value at its position
   and attended up to it; each of the reference, fused, grouped and paged blocks does
   (`QkvDecoded`). `InCache(c, y, l, r, m)` says that the first m places of a cache are
   the keys and values of the rows `y` of layer `l`; from it the attention read back
   is `Attended` of the specification (`PutAttends`).
3. Layers. `Serves` joins the two: the block gives row p + 1 of the layer and leaves a
   cache that holds it (`LayerDecodeServes`, `ToyServes`, `AdapterServes`,
   `FallbackServes`). A prefill gives all rows at once and fills the cache
   (`LayerPrefilled`, `NumpyLayerPrefilled`); that a row of a prompt attends to no
   later row is `CausalYields`.
4. Stacks and loops. `Held(cs, depth, paged, xs, r, m)`: every layer's cache holds the first m
   tokens of `xs` as they arrive at that layer. Over layers and over tokens this is
   an induction (`DecodeLayersServes`, `PrefillLayersFill`, `LoopAnswers`), and
   `ThroughAgrees` is causality of the specification itself: what arrives at a layer
   for a token depends on no later one.
5. Calls. `LInv` says that `Held` is true of `tokens` at all times. The answers alone are not
   inductive: what a call returns depends on caches no earlier answer shows. A call may go back
   to an earlier position, where `HeldPrefix` says that caches hold every prefix of
   what they hold; a commit joins the first rows of a draft's caches with the rest of the
   old ones (`CommitHeld`, `CommitAnswers`).

Hypotheses: `LlamaStackAssumption` (positive sizes, 4 or 8 bits, and
`MAX_S <= RopeRows`: the tables `models/generation.py` builds are a row longer
than its caches, and those of the tests are no shorter). Without the last a call
within the cache may raise in `apply_rope`, or attend with an unwritten query (section 3).
It is in the invariant (`IsCache`) because a prompt may make a contiguous cache longer, but
never longer than the tables (`PromptReach`): a longer prompt raises while it is
rotated. The inductions are on sets of numbers with zero and
every successor (`Induction`), since the functions they are about recurse over a
number of layers or tokens, not over data.

*File store.* `StoreInv` says of a block that no operation is at work on what its
files are, by what was cut short since it was last put or deleted in full
(`Settled`): after nothing, both files are the last put's; after cut puts into an
empty directory, `v.npy` is there only beside a whole `k.npy` (`KFirst`); after
cut deletes, a whole K and a whole V are of one put (`SamePut`). `KFirst` is what
makes it inductive: a put that finds no `k.npy` then finds no `v.npy` either, so
it cannot leave its own K beside an older V. Of a block that is being put,
`Progress` says what each file left to write implies. Hypothesis: no payload is
the mark for "none" (`StoreAssumption`).

*Package files.* `IInv == FilesTyped /\ JsonInv /\ ConversionInv /\ ReportInv`.
`JsonInv`: as long as the version in `package.json` was neither cut short since nor
is being written again, each tensor's files are either all of that version, or its
weight is not (`DetectedOrSaved`), which the checksum finds out. That is inductive
because another conversion writes the weight of a tensor first (`AtInv`,
`ThroughInv`) and because versions differ in their weights. `PackageWhole` then joins it with `LoadedIsSaved` and
`KernelWeights`: what the loader reads back from whole files is what the kernels
would have been given without the files. `PackageAssumption` asks that a layer has
a linear tensor, as every layer of the code has, and that no key is listed twice.

### Only model-checked

Liveness (`EveryRequestLeaves`, `EveryCallReturns`, `CallsReturn`): out of the
prover's reach, as is anything with `ENABLED`. Every invariant and every refinement
a run checks is a theorem.

No module has a `RECURSIVE` operator.

## 6. What is not modelled

* Floating-point arithmetic: softmax weights, quantization error, the angles of
  RoPE, dtypes other than where a call refuses one. `PrefixReuse` models what an
  MLX build does, not the numpy fallback.
* `fast_attention_simdgroup_d64`, which shares nothing but `simd_sum`; autotuned
  choices of a backend (all choices are explored).
* Sampling other than greedy, repetition penalty, generation without prefill.
* Sparse attention that is not causal, `ensure_sparse_blocks_resident` (examples
  and tests call it).
* The runtime's prefix-cache branch (it passes no model to
  `prefill_with_prefix_reuse`), dense decode, quantized flags and reports.
* In speculative decoding: temperature, a KV cache that fills up, the rope table
  of 128 positions in the parallel verifier. `discard_suffix`, which only tests
  call: a cache it cut has less room than its `max_seq_len` says.
* Of packages: global tensors (embeddings, final norm, head), the dry-run plan,
  tensor stores, layouts other than the kernels'. Of the store: counters, URIs. A
  crash of the machine, which may lose or reorder what was written.
* Tokenizers, configuration, alignment and smoke-test reports, benchmarks: pure
  functions and drivers without state the rest depends on.

## 7. Plan

1. Done: tier and scheduler, checked and proved.
2. Done: runtime, as a refinement of the scheduler, checked and proved.
3. Done: `GreedyDecoding`; prefix reuse and speculation refine it, checked and proved.
4. Done: `KVCache` and its five layouts as refinements, checked and proved.
5. Done: stack, layers, toy layer and adapter on terms, checked and proved.
6. Done: file store and package files with crashes, checked.
7. Done: threadgroup kernels, checked; race freedom and the result proved.
8. Done: the staged speculative cache as an action of the stack, checked and
   proved; file store and package files proved.
9. Left: the scheduler's blocks composed with `KVCache`; prefill of a prompt in
   several calls, once the code has it (`start_position` above 0 raises today).

## 8. Running

    tlc -workers 2 -config Scheduler.cfg MCKVPrefetchScheduler.tla
    tlapm KVPrefetchSchedulerProofs.tla

`PROJECT.json` lists the components, the runs, which source lines each
definition models, the hazards of the code with the properties that cover them,
and the theorems.
