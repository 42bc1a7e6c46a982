----------------------------- MODULE LlamaStack -----------------------------
(***************************************************************************)
(* A Llama-like stack and the caches its caller keeps for it: prefill and  *)
(* decode, one step or a loop, through the stack, one layer, the toy layer *)
(* or the model adapter, with a backend preset and a process environment   *)
(* chosen call by call.  The caller feeds fresh inputs and names positions *)
(* as it likes: it may go back and write a position again, or prefill over *)
(* a cache in use, so rows of abandoned inputs stay behind in the caches.  *)
(* tokens is what the caller has fed for positions 0, 1, ... since; every  *)
(* answer is compared with what a causal transformer makes of it.          *)
(***************************************************************************)
EXTENDS TransformerOps

CONSTANTS
    MAX_S,      \* positions a cache is created with
    Layers,     \* layers of the stack
    Bits,       \* Bits[l]: quantization of layer l
    MaxCalls    \* bound on the calls

(* generation.py builds tables a row longer than its caches; a layer's own
   caches and tables are its caller's, who is taken to do as much. *)
ASSUME LlamaStackAssumption ==
    /\ {PAGE_SIZE, MAX_S, Layers} \subseteq Nat \ {0} /\ {RopeRows, MaxCalls} \subseteq Nat
    /\ MAX_S <= RopeRows
    /\ Bits \in [1..Layers -> {4, 8}]

VARIABLES
    model,      \* fixed: [stack, mlx, grouped, paged, lm_head]
    caches,     \* caches[l]: the cache of layer l
    tokens,     \* the inputs fed for positions 0, 1, ...
    rotated,    \* rotated[i]: whether the call that fed tokens[i] applies RoPE
    calls,      \* calls so far: they name the inputs
    out         \* the answer of the last call

vars == <<model, caches, tokens, rotated, calls, out>>

Nothing == [status |-> "idle", rows |-> <<>>, logits |-> FALSE, fits |-> FALSE]
Presets == {"reference", "metal", "tiled", "fused_experimental"}

W(l, name) == <<name, l, Bits[l]>>
Weights(l) == [name \in {"qkv", "o", "gate", "up", "down"} |-> W(l, name)]
Norm(l, name) == <<name, l>>

init_llama_layer_cache(paged) ==
    LET blocks == (MAX_S + PAGE_SIZE - 1) \div PAGE_SIZE
        zeros(n) == [e \in 0..(n - 1) |-> Mem(1)!Zero]
    IN  IF paged THEN [K |-> zeros(blocks * PAGE_SIZE), V |-> zeros(blocks * PAGE_SIZE),
                       table |-> Mem(MAX_S)!make_identity_block_table]
        ELSE [K |-> zeros(MAX_S), V |-> zeros(MAX_S), table |-> <<>>]
(* the stack has contiguous caches only *)
init_llama_stack_cache == [l \in 1..Layers |-> init_llama_layer_cache(FALSE)]

Init ==
    /\ \/ /\ model \in [stack : {TRUE}, mlx : BOOLEAN, grouped : BOOLEAN, paged : {FALSE},
                        lm_head : BOOLEAN]
          /\ caches = init_llama_stack_cache
       \/ /\ model \in [stack : {FALSE}, mlx : {TRUE}, grouped : BOOLEAN, paged : BOOLEAN,
                        lm_head : {FALSE}]
          /\ caches = <<init_llama_layer_cache(model.paged)>>
    /\ tokens = <<>> /\ rotated = <<>> /\ calls = 0 /\ out = Nothing

Calls == [ci_safe : BOOLEAN, dtype : {"float16"}, grouped : {model.grouped}]

---------------------------------------------------------------------------
(* Presets. *)

BackendConfig(norm, matvec, attention, mlp, cache) ==
    [norm |-> norm, qkv_matvec |-> matvec, attention |-> attention, out_matvec |-> matvec,
     mlp |-> mlp, cache |-> cache]
reference_backend_config ==
    BackendConfig("reference", "reference", "reference", "reference", "reference")
metal_backend_config == BackendConfig("metal", "metal", "metal_gqa", "metal", "metal")
tiled_backend_config ==
    BackendConfig("metal", "metal_tiled", "metal_gqa_threadgroup", "tiled", "metal")
fused_experimental_backend_config ==
    BackendConfig("metal", "metal_tiled", "metal_gqa_threadgroup", "fused_experimental", "metal")
_preset_to_backend_config(preset) ==
    CASE preset = "reference" -> reference_backend_config
      [] preset = "metal" -> metal_backend_config
      [] preset = "tiled" -> tiled_backend_config
      [] preset = "fused_experimental" -> fused_experimental_backend_config

(* prefill has a table of its own *)
reference_prefill_backend_config ==
    BackendConfig("reference", "reference", "reference", "reference", "reference")
metal_prefill_backend_config == BackendConfig("metal", "metal", "metal_gqa", "metal", "metal")
tiled_prefill_backend_config ==
    BackendConfig("metal", "metal_tiled", "metal_gqa_threadgroup", "tiled", "metal")
fused_experimental_prefill_backend_config ==
    BackendConfig("metal", "metal_tiled", "metal_gqa_threadgroup", "fused_experimental", "metal")
_prefill_backend_from_preset(preset) ==
    CASE preset = "reference" -> reference_prefill_backend_config
      [] preset = "metal" -> metal_prefill_backend_config
      [] preset = "tiled" -> tiled_prefill_backend_config
      [] preset = "fused_experimental" -> fused_experimental_prefill_backend_config

---------------------------------------------------------------------------
(* One layer. *)

InputNorm(x, l, b, call) ==
    IF b.norm = "reference" THEN reference_rms_norm(x, Norm(l, "input_layernorm"))
    ELSE rms_norm(x, Norm(l, "input_layernorm"), b.norm, call)
(* The feed-forward half, whose residual input is the zeros of h. *)
LayerMlp(h, l, b, call) ==
    IF b.mlp = "reference"
    THEN reference_quantized_mlp_block(h, _zero_like_hidden(h),
             Norm(l, "post_attention_layernorm"), Weights(l), Bits[l], call)
    ELSE quantized_mlp_block(h, _zero_like_hidden(h),
             Norm(l, "post_attention_layernorm"), Weights(l), Bits[l],
             _resolve_mlp_backends(b.mlp), call)

(* out_matvec only decides whether the whole attention block is the reference's;
   the output projection runs with qkv_matvec. *)
LayerDecodeBlock(x_norm, l, cache, position, b, call) ==
    LET all_reference == {b.qkv_matvec, b.attention, b.out_matvec} = {"reference"}
    IN  CASE cache.table = <<>> /\ all_reference ->
                reference_quantized_decode_block(x_norm, Weights(l), Bits[l], cache, position, call)
          [] cache.table = <<>> /\ ~all_reference ->
                quantized_decode_block(x_norm, Weights(l), Bits[l], cache, position,
                                       b.qkv_matvec, b.attention, call)
          [] cache.table # <<>> /\ all_reference ->
                reference_paged_quantized_decode_block(x_norm, Weights(l), Bits[l], cache, position, call)
          [] cache.table # <<>> /\ ~all_reference ->
                paged_quantized_decode_block(x_norm, Weights(l), Bits[l], cache, position,
                                             b.qkv_matvec, b.attention, call)
LayerResidual(x, attn, b, call) ==
    IF b.cache = "reference" THEN reference_residual_add(x, attn)
    ELSE residual_add(x, attn, "metal", call)
LayerOutput(x, l, block, b, call) ==
    Block(LayerMlp(LayerResidual(x, block.out, b, call), l, b, call), block.cache)
llama_layer_decode_step(x, l, cache, position, b, call) ==
    LayerOutput(x, l, LayerDecodeBlock(InputNorm(x, l, b, call), l, cache, position, b, call), b, call)
reference_llama_layer_decode_step(x, l, cache, position, call) ==
    llama_layer_decode_step(x, l, cache, position, reference_backend_config, call)

(* The prompt's rows in front of what the cache held behind them: the tail is
   kept, and a prompt longer than the cache leaves a longer cache. *)
_contiguous_cache_update_mlx(cache, k, v) ==
    LET over(rows, mem) ==
            [e \in 0..((IF Len(rows) > Slots(cache) THEN Len(rows) ELSE Slots(cache)) - 1) |->
                IF e < Len(rows) THEN rows[e + 1] ELSE mem[e]]
    IN  [cache EXCEPT !.K = over(k, @), !.V = over(v, @)]

PrefillParts(x_norm, l, b, start_position, call) ==
    reference_gqa_qkv_split_rope(
        quantized_linear(x_norm, W(l, "qkv"), Bits[l], b.qkv_matvec, call), start_position, call)
PrefillResidual(x, attn, l, b, call) ==
    reference_residual_add(x, quantized_linear(attn, W(l, "o"), Bits[l], b.out_matvec, call))
PrefillOutput(x, l, cache, parts, b, call) ==
    Block(LayerMlp(PrefillResidual(x, gqa_attention(parts.q, parts.k, parts.v, b.attention), l, b, call),
                   l, b, call),
          _contiguous_cache_update_mlx(cache, parts.k, parts.v))
llama_layer_prefill(x, l, cache, b, start_position, call) ==
    IF start_position > 0 THEN Failed(cache)
    ELSE PrefillOutput(x, l, cache,
             PrefillParts(InputNorm(x, l, b, call), l, b, start_position, call), b, call)
(* the same stages, the backends all "reference" *)
reference_llama_layer_prefill(x, l, cache, start_position, call) ==
    llama_layer_prefill(x, l, cache, reference_prefill_backend_config, start_position, call)

---------------------------------------------------------------------------
(* The numpy forms, which take no backend and know no dtype. *)

NumpyLinear(x, l, name) == Each(x, LAMBDA row : Op(<<"linear", W(l, name)>>, <<row>>))
NumpySwiglu(gate, up) == [i \in DOMAIN gate |-> Op(<<"swiglu">>, <<gate[i], up[i]>>)]
NumpyGated(normed, l) == NumpySwiglu(NumpyLinear(normed, l, "gate"), NumpyLinear(normed, l, "up"))
NumpyMlp(h, l) ==
    reference_residual_add(h, NumpyLinear(
        NumpyGated(reference_rms_norm(h, Norm(l, "post_attention_layernorm")), l), l, "down"))
NumpyQkv(x, l) == NumpyLinear(reference_rms_norm(x, Norm(l, "input_layernorm")), l, "qkv")
NumpyOutput(x, l, attn, cache) ==
    Block(NumpyMlp(reference_residual_add(x, NumpyLinear(attn, l, "o")), l), cache)

_apply_rope_numpy(x, call) ==
    Guarded(Len(x) <= RopeRows, [i \in DOMAIN x |-> Op(<<"rope", i - 1>>, <<x[i]>>)])
_numpy_qkv_split_rope(qkv, call) ==
    [q |-> _apply_rope_numpy(Part(qkv, "q"), call), k |-> _apply_rope_numpy(Part(qkv, "k"), call),
     v |-> Part(qkv, "v")]
(* assigning more rows than the cache has raises *)
_contiguous_cache_update_numpy(cache, k, v) ==
    LET over(rows, mem) == [e \in DOMAIN mem |-> IF e < Len(rows) THEN rows[e + 1] ELSE mem[e]]
    IN  [cache EXCEPT !.K = over(k, @), !.V = over(v, @)]
_causal_attention_numpy(q, seen_k, seen_v) == CausalAttention(q, seen_k, seen_v)
NumpyPrefill(x, l, q, updated) ==
    LET seen(mem) == [i \in DOMAIN x |-> mem[i - 1]]
    IN  NumpyOutput(x, l, _causal_attention_numpy(q, seen(updated.K), seen(updated.V)), updated)
NumpyPrefillOf(x, l, cache, parts) ==
    NumpyPrefill(x, l, parts.q, _contiguous_cache_update_numpy(cache, parts.k, parts.v))
_reference_llama_layer_prefill_numpy(x, l, cache, start_position, call) ==
    IF start_position > 0 \/ Len(x) > Slots(cache) THEN Failed(cache)
    ELSE NumpyPrefillOf(x, l, cache, _numpy_qkv_split_rope(NumpyQkv(x, l), call))

NumpyDecode(x, l, q, updated, position) ==
    LET seen(mem) == [i \in 1..(position + 1) |-> mem[i - 1]]
    IN  NumpyOutput(x, l, <<Op(<<"attention">>, q \o seen(updated.K) \o seen(updated.V))>>, updated)
NumpyDecodeOf(x, l, cache, parts, position) ==
    NumpyDecode(x, l, parts.q,
        [cache EXCEPT !.K[position] = parts.k[1], !.V[position] = parts.v[1]], position)
_fallback_layer_decode(x, l, cache, position) ==
    IF position >= Slots(cache) THEN Failed(cache)
    ELSE NumpyDecodeOf(x, l, cache, Parts(NumpyQkv(x, l)), position)

---------------------------------------------------------------------------
(* The stack: one layer after the other, then the final norm and the head.
   What raises ends the loop it is in. *)

Raised(rows) == \E i \in DOMAIN rows : rows[i] = Raise

Above(below, block) == [hidden |-> block.out, caches |-> Append(below, block.cache)]
InOrder(x, Layer(_, _)) ==
    LET run[l \in 0..Layers] ==
            IF l = 0 THEN [hidden |-> x, caches |-> <<>>]
            ELSE LET below == run[l - 1]
                 IN  IF Raised(below.hidden) THEN below
                     ELSE Above(below.caches, Layer(below.hidden, l))
    IN  run[Layers]

logits_from_hidden(hidden) == Each(hidden, LAMBDA row : Op(<<"lm_head">>, <<row>>))
FinalNorm(hidden, backend, call) ==
    IF model.mlx /\ backend # "reference" THEN rms_norm(hidden, <<"final_norm">>, backend, call)
    ELSE reference_rms_norm(hidden, <<"final_norm">>)
Answer(run, backend, return_logits, call) ==
    LET final(hidden) ==
            IF model.lm_head /\ return_logits THEN logits_from_hidden(hidden) ELSE hidden
    IN  [rows |-> final(FinalNorm(run.hidden, backend, call)), caches |-> run.caches]

DecodeLayers(x, cs, position, b, call) ==
    InOrder(x, LAMBDA hidden, l :
        IF model.mlx THEN llama_layer_decode_step(hidden, l, cs[l], position, b, call)
        ELSE _fallback_layer_decode(hidden, l, cs[l], position))
llama_stack_decode_step(x, cs, position, preset, return_logits, call) ==
    Answer(DecodeLayers(x, cs, position, _preset_to_backend_config(preset), call),
           "metal", return_logits, call)
reference_llama_stack_decode_step(x, cs, position, call) ==
    Answer(DecodeLayers(x, cs, position, reference_backend_config, call), "reference", TRUE, call)

PrefillLayers(x, cs, b, start_position, call) ==
    InOrder(x, LAMBDA hidden, l :
        IF model.mlx THEN llama_layer_prefill(hidden, l, cs[l], b, start_position, call)
        ELSE _reference_llama_layer_prefill_numpy(hidden, l, cs[l], start_position, call))
llama_stack_prefill(x, cs, preset, start_position, return_logits, call) ==
    LET b == _prefill_backend_from_preset(preset)
    IN  Answer(PrefillLayers(x, cs, b, start_position, call), b.norm, return_logits, call)
reference_llama_stack_prefill(x, cs, start_position, call) ==
    Answer(PrefillLayers(x, cs, reference_prefill_backend_config, start_position, call),
           "reference", TRUE, call)

(* A loop always counts positions from 0, whatever the cache holds. *)
Further(rows, step) == [rows |-> rows \o step.rows, caches |-> step.caches]
Loop(xs, cs, Step(_, _, _)) ==
    LET run[t \in 0..Len(xs)] ==
            IF t = 0 THEN [rows |-> <<>>, caches |-> cs]
            ELSE LET before == run[t - 1]
                 IN  IF Raised(before.rows) THEN before
                     ELSE Further(before.rows, Step(<<xs[t]>>, before.caches, t - 1))
    IN  run[Len(xs)]
DecodeFrom(position, xs, cs, preset, return_logits, call) ==
    Loop(xs, cs, LAMBDA x, c, t :
        llama_stack_decode_step(x, c, position + t, preset, return_logits, call))
llama_stack_decode_loop(xs, cs, preset, return_logits, call) ==
    DecodeFrom(0, xs, cs, preset, return_logits, call)
reference_llama_stack_decode_loop(xs, cs, return_logits, call) ==
    llama_stack_decode_loop(xs, cs, "reference", return_logits, call)
(* an answer of one layer *)
OneLayer(block) == [rows |-> block.out, caches |-> <<block.cache>>]
llama_layer_decode_loop(xs, cs, preset, call) ==
    Loop(xs, cs, LAMBDA x, c, t : OneLayer(
        llama_layer_decode_step(x, 1, c[1], t, _preset_to_backend_config(preset), call)))

prefill_token_ids(x, cs, preset, start_position, return_logits, call) ==
    llama_stack_prefill(x, cs, preset, start_position, return_logits, call)

---------------------------------------------------------------------------
(* Proposed tokens are fed to a clone of the caches.  The caller then commits
   rows of the clone to the caches it has. *)

parallel_verify_tokens(xs, cs, position, preset, call) ==
    DecodeFrom(position, xs, cs, preset, TRUE, call)
(* the rows from 0 on, wherever the proposal began *)
commit_accepted_cache(draft, committed, accepted_count) ==
    LET over(new, old) == [e \in DOMAIN old |-> IF e < accepted_count THEN new[e] ELSE old[e]]
    IN  [l \in DOMAIN committed |->
            [committed[l] EXCEPT !.K = over(draft[l].K, @), !.V = over(draft[l].V, @)]]
CopyCount(accepted_count, include_replacement, replacement_position) ==
    IF include_replacement THEN replacement_position + 1 ELSE accepted_count

---------------------------------------------------------------------------
(* The toy layer and the adapter, over the same one-layer caches.  They add
   the residual in the other order and name the backends of the feed-forward
   block one by one. *)

ToyNorm(x, other, call) ==
    IF other = "reference" THEN reference_rms_norm(x, Norm(1, "input_layernorm"))
    ELSE rms_norm(x, Norm(1, "input_layernorm"), other, call)
ToyResidual(attn, x, other, call) ==
    IF other = "reference" THEN reference_residual_add(attn, x) ELSE residual_add(attn, x, other, call)
ToyMlp(post_attn, matvec, other, call) ==
    quantized_mlp_block(post_attn, _zero_like_hidden(post_attn), Norm(1, "post_attention_layernorm"),
        Weights(1), Bits[1], MlpBackends(other, matvec, other, other, matvec), call)
ToyOutput(x, block, matvec, other, call) ==
    Block(ToyMlp(ToyResidual(block.out, x, other, call), matvec, other, call), block.cache)

ToyBlock(attn_in, cache, position, matvec, block_backend, call) ==
    IF {matvec, block_backend} = {"reference"}
    THEN reference_quantized_decode_block(attn_in, Weights(1), Bits[1], cache, position, call)
    ELSE quantized_decode_block(attn_in, Weights(1), Bits[1], cache, position,
                                matvec, block_backend, call)
toy_transformer_decode_layer(x, cache, position, matvec, block_backend, other, call) ==
    ToyOutput(x, ToyBlock(ToyNorm(x, other, call), cache, position, matvec, block_backend, call),
              matvec, other, call)
reference_toy_transformer_decode_layer(x, cache, position, call) ==
    toy_transformer_decode_layer(x, cache, position, "reference", "reference", "reference", call)

PagedToyBlock(attn_in, cache, position, matvec, block_backend, call) ==
    IF {matvec, block_backend} = {"reference"}
    THEN reference_paged_quantized_decode_block(attn_in, Weights(1), Bits[1], cache, position, call)
    ELSE paged_quantized_decode_block(attn_in, Weights(1), Bits[1], cache, position,
                                      matvec, block_backend, call)
paged_toy_transformer_decode_layer(x, cache, position, matvec, block_backend, other, call) ==
    ToyOutput(x, PagedToyBlock(ToyNorm(x, other, call), cache, position, matvec, block_backend, call),
              matvec, other, call)
reference_paged_toy_transformer_decode_layer(x, cache, position, call) ==
    paged_toy_transformer_decode_layer(x, cache, position, "reference", "reference", "reference", call)

(* The adapter's weights may be plain matrices; they are the same numbers. *)
_linear(x, w) == Each(x, LAMBDA row : Op(<<"linear", w>>, <<row>>))
FfnOf(ffn_in, call) ==
    swiglu(_linear(ffn_in, W(1, "gate")), _linear(ffn_in, W(1, "up")), "metal", call)
FusedMlp(post_attn, call) ==
    residual_add(_linear(FfnOf(rms_norm(post_attn, Norm(1, "post_attention_layernorm"), "metal", call),
                               call), W(1, "down")), post_attn, "auto", call)
FusedOutput(x, block, call) ==
    Block(FusedMlp(residual_add(_linear(block.out, W(1, "o")), x, "auto", call), call), block.cache)
decode_layer_from_fused_qkv(x, qkv, cache, position, call) ==
    FusedOutput(x, IF cache.table = <<>>
                   THEN decode_block_from_qkv(qkv, cache, position, "metal", call)
                   ELSE paged_decode_block_from_qkv(qkv, cache, position, "metal", call), call)

run_quantized_mlp_block(x, residual, matvec, call) ==
    quantized_mlp_block(x, residual, Norm(1, "post_attention_layernorm"), Weights(1), Bits[1],
                        MlpBackends("metal", matvec, "metal", "metal", matvec), call)
AdapterBlock(attn_in, cache, position, matvec, call) ==
    LET block_backend == IF call.grouped THEN "reference" ELSE "metal"
    IN  IF cache.table = <<>>
        THEN quantized_decode_block(attn_in, Weights(1), Bits[1], cache, position,
                                    matvec, block_backend, call)
        ELSE paged_quantized_decode_block(attn_in, Weights(1), Bits[1], cache, position,
                                          matvec, block_backend, call)
AdapterMlp(post_attn, matvec, call) ==
    run_quantized_mlp_block(post_attn, _zero_like_hidden(post_attn), matvec, call)
AdapterOutput(x, block, matvec, call) ==
    Block(AdapterMlp(residual_add(block.out, x, "auto", call), matvec, call), block.cache)
decode_layer_quantized_from_fused_qkv(x, cache, position, matvec, call) ==
    AdapterOutput(x, AdapterBlock(rms_norm(x, Norm(1, "input_layernorm"), "metal", call),
                                  cache, position, matvec, call), matvec, call)

---------------------------------------------------------------------------
(* Calls.  Inputs are new with every call. *)

Inputs(n) == [i \in 1..n |-> <<<<"input", calls + 1, i>>, <<>>>>]

(* A call that fed xs at the positions from p on: one that raises leaves the
   caller with the caches it had.  fits: the documentation lets the caller
   expect an answer. *)
Answered(answer, xs, p, rotates, logits, fits) ==
    LET raised == Raised(answer.rows)
    IN  /\ calls < MaxCalls /\ calls' = calls + 1
        /\ UNCHANGED model
        /\ out' = [status |-> IF raised THEN "raised" ELSE "returned",
                   rows |-> IF raised THEN <<>> ELSE answer.rows,
                   logits |-> logits, fits |-> fits]
        /\ caches' = IF raised THEN caches ELSE answer.caches
        /\ tokens' = IF raised THEN tokens ELSE SubSeq(tokens, 1, p) \o xs
        /\ rotated' = IF raised THEN rotated ELSE SubSeq(rotated, 1, p) \o [i \in DOMAIN xs |-> rotates]

(* The next position, or one already written. *)
Positions == 0..Len(tokens)
(* the one combination of a layout and a preset no document restricts that
   paged_decode_attention refuses *)
Served(preset) == preset = "reference" \/ ~model.paged \/ model.grouped

StackPrefill ==
    /\ model.stack
    /\ \E n \in 1..(MAX_S + 1), start_position \in {0, 1}, preset \in Presets,
          return_logits \in BOOLEAN, dtype \in {"float16", "float32"}, call \in Calls :
          LET xs == Inputs(n)
              of_dtype == [call EXCEPT !.dtype = dtype]
              fits == n <= MAX_S /\ start_position = 0 /\ dtype = "float16"
          IN  \/ Answered(prefill_token_ids(xs, caches, preset, start_position, return_logits, of_dtype),
                          xs, 0, TRUE, model.lm_head /\ return_logits, fits)
              \/ Answered(reference_llama_stack_prefill(xs, caches, start_position, of_dtype),
                          xs, 0, TRUE, model.lm_head, fits)

StackDecodeStep ==
    /\ model.stack
    /\ \E p \in Positions, preset \in Presets, call \in Calls :
          \/ Answered(llama_stack_decode_step(Inputs(1), caches, p, preset, TRUE, call),
                      Inputs(1), p, model.mlx, model.lm_head, p < MAX_S)
          \/ Answered(reference_llama_stack_decode_step(Inputs(1), caches, p, call),
                      Inputs(1), p, model.mlx, model.lm_head, p < MAX_S)

StackDecodeLoop ==
    /\ model.stack
    /\ \E n \in 1..MAX_S, preset \in Presets, return_logits \in BOOLEAN, call \in Calls :
          \/ Answered(llama_stack_decode_loop(Inputs(n), caches, preset, return_logits, call),
                      Inputs(n), 0, model.mlx, model.lm_head /\ return_logits, TRUE)
          \/ Answered(reference_llama_stack_decode_loop(Inputs(n), caches, return_logits, call),
                      Inputs(n), 0, model.mlx, model.lm_head /\ return_logits, TRUE)

(* A proposal is verified and its first rows are committed; what a row held
   before the call stays unless it is among them.  The verifier needs logits,
   and runs with its default preset unless it is given another. *)
Accepted(count, p, n) == IF count <= p THEN 0 ELSE IF count < p + n THEN count - p ELSE n
Committed(staged, count, k) ==
    IF Raised(staged.rows) \/ \E l \in DOMAIN caches : count > Slots(caches[l])
    THEN [rows |-> <<Raise>>, caches |-> caches]
    ELSE [rows |-> SubSeq(staged.rows, 1, k),
          caches |-> commit_accepted_cache(staged.caches, caches, count)]
StagedVerify ==
    /\ model.stack /\ model.lm_head
    /\ \E p \in Positions, n \in 1..2, preset \in {"reference", "fused_experimental"}, call \in Calls :
          \E staged \in {parallel_verify_tokens(Inputs(n), caches, p, preset, call)},
             count \in {CopyCount(c, FALSE, 0) : c \in 0..(MAX_S + 1)}
                       \cup {CopyCount(0, TRUE, c) : c \in 0..MAX_S} :
             LET k == Accepted(count, p, n)
             IN  Answered(Committed(staged, count, k), SubSeq(Inputs(n), 1, k),
                          IF k = 0 THEN Len(tokens) ELSE p, model.mlx, TRUE,
                          p + n <= MAX_S /\ count <= MAX_S)

LayerPrefill ==
    /\ ~model.stack /\ ~model.paged
    /\ \E n \in 1..(MAX_S + 1), preset \in Presets, call \in Calls :
          \/ Answered(OneLayer(llama_layer_prefill(Inputs(n), 1, caches[1],
                          _prefill_backend_from_preset(preset), 0, call)),
                      Inputs(n), 0, TRUE, FALSE, n <= MAX_S)
          \/ Answered(OneLayer(reference_llama_layer_prefill(Inputs(n), 1, caches[1], 0, call)),
                      Inputs(n), 0, TRUE, FALSE, n <= MAX_S)

LayerDecode ==
    /\ ~model.stack
    /\ \/ \E p \in Positions, preset \in Presets, call \in Calls :
             Answered(OneLayer(llama_layer_decode_step(Inputs(1), 1, caches[1], p,
                          _preset_to_backend_config(preset), call)),
                      Inputs(1), p, TRUE, FALSE, p < MAX_S /\ Served(preset))
       \/ \E p \in Positions, call \in Calls :
             Answered(OneLayer(reference_llama_layer_decode_step(Inputs(1), 1, caches[1], p, call)),
                      Inputs(1), p, TRUE, FALSE, p < MAX_S)
       \/ \E n \in 1..MAX_S, preset \in Presets, call \in Calls :
             Answered(llama_layer_decode_loop(Inputs(n), caches, preset, call),
                      Inputs(n), 0, TRUE, FALSE, Served(preset))

(* The toy layer has no kv heads to share.  Its feed-forward block knows no
   matvec "metal". *)
ToyDecode ==
    /\ ~model.stack /\ ~model.grouped
    /\ \E p \in Positions, matvec \in {"metal", "metal_parallel", "metal_tiled"},
          block_backend \in {"auto", "metal", "reference"}, call \in Calls :
          LET x == Inputs(1)
              fits == p < MAX_S /\ matvec # "metal"
          IN  \/ ~model.paged /\ Answered(OneLayer(toy_transformer_decode_layer(
                        x, caches[1], p, matvec, block_backend, "metal", call)), x, p, TRUE, FALSE, fits)
              \/ ~model.paged /\ Answered(OneLayer(reference_toy_transformer_decode_layer(
                        x, caches[1], p, call)), x, p, TRUE, FALSE, p < MAX_S)
              \/ model.paged /\ Answered(OneLayer(paged_toy_transformer_decode_layer(
                        x, caches[1], p, matvec, block_backend, "metal", call)), x, p, TRUE, FALSE, fits)
              \/ model.paged /\ Answered(OneLayer(reference_paged_toy_transformer_decode_layer(
                        x, caches[1], p, call)), x, p, TRUE, FALSE, p < MAX_S)

AdapterDecode ==
    /\ ~model.stack
    /\ \E p \in Positions, matvec \in {"metal_tiled", "metal_parallel"}, call \in Calls :
          LET x == Inputs(1)
              qkv == _linear(reference_rms_norm(x, Norm(1, "input_layernorm")), W(1, "qkv"))
          IN  \/ Answered(OneLayer(decode_layer_from_fused_qkv(x, qkv, caches[1], p, call)),
                          x, p, TRUE, FALSE, p < MAX_S)
              \/ Answered(OneLayer(decode_layer_quantized_from_fused_qkv(x, caches[1], p, matvec, call)),
                          x, p, TRUE, FALSE, p < MAX_S)

(* The next sequence gets caches of its own. *)
NewSequence ==
    /\ calls > 0 /\ calls' = 0
    /\ caches' = IF model.stack THEN init_llama_stack_cache ELSE <<init_llama_layer_cache(model.paged)>>
    /\ tokens' = <<>> /\ rotated' = <<>> /\ out' = Nothing
    /\ UNCHANGED model

Next ==
    \/ NewSequence
    \/ StackPrefill \/ StackDecodeStep \/ StackDecodeLoop \/ StagedVerify
    \/ LayerPrefill \/ LayerDecode \/ ToyDecode \/ AdapterDecode
Spec == Init /\ [][Next]_vars

---------------------------------------------------------------------------
(* What a causal pre-norm transformer makes of the tokens fed. *)

Term(label, args) == <<label, args>>
Linear(row, l, name) == Term(<<"linear", W(l, name)>>, <<row>>)
Normed(row, w) == Term(<<"rms_norm", w>>, <<row>>)
(* the query, the key or the value of a row x, and where it stands *)
QkvPart(x, l, name) == Term(<<"part", name>>, <<Linear(Normed(x, Norm(l, "input_layernorm")), l, "qkv")>>)
AtPosition(row, i, rotates) == IF rotates[i] THEN Term(<<"rope", i - 1>>, <<row>>) ELSE row
Attended(x, l, rotates, i) ==
    Term(<<"attention">>, <<AtPosition(QkvPart(x[i], l, "q"), i, rotates)>>
                          \o [j \in 1..i |-> AtPosition(QkvPart(x[j], l, "k"), j, rotates)]
                          \o [j \in 1..i |-> QkvPart(x[j], l, "v")])
FedForward(h, l) ==
    LET normed == Normed(h, Norm(l, "post_attention_layernorm"))
    IN  Sum(h, Linear(Term(<<"swiglu">>, <<Linear(normed, l, "gate"), Linear(normed, l, "up")>>), l, "down"))
Transformed(x, l, rotates) ==
    [i \in DOMAIN x |-> FedForward(Sum(x[i], Linear(Attended(x, l, rotates, i), l, "o")), l)]

Through(xs, rotates) ==
    LET through[l \in 0..Layers] == IF l = 0 THEN xs ELSE Transformed(through[l - 1], l, rotates)
    IN  through
Depth == IF model.stack THEN Layers ELSE 1
Denotation(xs, rotates, logits) ==
    LET final(row) == IF model.stack THEN Normed(row, <<"final_norm">>) ELSE row
        head(row) == IF logits THEN Term(<<"lm_head">>, <<row>>) ELSE row
    IN  [i \in DOMAIN xs |-> head(final(Through(xs, rotates)[Depth][i]))]

(* Whatever was fed before and is still in the caches, through whichever entry
   points, presets and environments: an answer is what a causal transformer
   makes of the tokens that stand at the positions up to it, every layer with
   its own weights and its own cache (ops/llama_stack_ops.py,
   ops/llama_prefill_ops.py, ops/llama_layer_ops.py, ops/toy_transformer_ops.py,
   models/model_adapter.py). *)
OutputsAreCausal ==
    out.status = "returned" =>
        LET expected == Denotation(tokens, rotated, out.logits)
        IN  out.rows = SubSeq(expected, Len(tokens) - Len(out.rows) + 1, Len(tokens))

(* A call inside the caches' bounds, with names its signature lists, returns:
   no preset resolves to a backend name that an operation further down refuses
   (_preset_to_backend_config in ops/llama_layer_ops.py, _resolve_mlp_backends
   in ops/mlp_block_ops.py). *)
ValidCallsReturn == out.fits => out.status = "returned"

(* Decode goes on from where a prefill ended: its answer is the one a prefill
   of the same tokens up to there gives (docs/optimized_prefill_stack.md). *)
DecodeContinuesPrefill ==
    out.status = "returned" /\ (\E i \in DOMAIN rotated : rotated[i]) =>
        LET expected == Denotation(tokens, [i \in DOMAIN tokens |-> TRUE], out.logits)
        IN  out.rows = SubSeq(expected, Len(tokens) - Len(out.rows) + 1, Len(tokens))
=============================================================================
