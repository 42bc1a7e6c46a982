--------------------------- MODULE TransformerOps ---------------------------
(***************************************************************************)
(* The functions of ops/ that one decode or prefill pass is built from, on *)
(* symbolic numbers: a row of an activation is the expression that         *)
(* computes it, <<operation, arguments>>, so a wrong weight, position,     *)
(* operand or cache row shows in the expression.  A tensor is the sequence *)
(* of its rows, one per position; heads and lanes belong to KVCacheOps and *)
(* the batch has one element.  A call that raises has the row Raise, and   *)
(* whatever is computed from it raises too.  A kernel computes the         *)
(* expression of its reference; what differs from backend to backend here  *)
(* is which of them accept a name, an environment or a dtype, which cache  *)
(* kernels run and in which order the caches are read and written.         *)
(*                                                                         *)
(* call is what every function of one call sees: the environment variable  *)
(* MLX_METAL_CI_SAFE_MODE, the dtype of the activations, and whether the   *)
(* layer shares kv heads between query heads (Hq # Hkv).                   *)
(***************************************************************************)
EXTENDS Integers, Sequences, FiniteSets

CONSTANTS
    PAGE_SIZE,
    RopeRows     \* rows of the cos and sin tables

Mem(n) == INSTANCE KVCacheOps WITH
    B <- 1, MAX_S <- n, Hq <- 1, Hkv <- 1, PAGE_SIZE <- PAGE_SIZE, group_size <- 1

Raise == <<<<"raise">>, <<>>>>
Op(label, args) ==
    IF \E i \in DOMAIN args : args[i] = Raise THEN Raise ELSE <<label, args>>
Each(x, Row(_)) == [i \in DOMAIN x |-> Row(x[i])]
Guarded(ok, x) == IF ok THEN x ELSE Each(x, LAMBDA row : Raise)

HalfPrecision(call) == call.dtype = "float16"
(* How rms_norm, residual_add, swiglu and the qkv functions read a name: with
   the environment variable set they never look at it. *)
Accepts(backend, call) == call.ci_safe \/ backend \in {"reference", "metal", "auto"}

---------------------------------------------------------------------------
(* Rows. *)

reference_rms_norm(x, w) == Each(x, LAMBDA row : Op(<<"rms_norm", w>>, <<row>>))
rms_norm(x, w, backend, call) == Guarded(Accepts(backend, call), reference_rms_norm(x, w))

(* adding the zeros of _zero_like_hidden changes nothing *)
ZeroRow == <<<<"zero">>, <<>>>>
_zero_like_hidden(x) == Each(x, LAMBDA row : IF row = Raise THEN Raise ELSE ZeroRow)
Sum(p, q) == IF p = Raise \/ q = Raise THEN Raise ELSE <<<<"add">>, <<{p, q}>>>>
reference_residual_add(x, residual) ==
    [i \in DOMAIN x |-> IF residual[i] = ZeroRow THEN x[i] ELSE Sum(x[i], residual[i])]
residual_add(x, residual, backend, call) ==
    Guarded(HalfPrecision(call) /\ Accepts(backend, call), reference_residual_add(x, residual))

reference_swiglu(gate, up, call) ==
    Guarded(HalfPrecision(call), [i \in DOMAIN gate |-> Op(<<"swiglu">>, <<gate[i], up[i]>>)])
swiglu(gate, up, backend, call) ==
    Guarded(Accepts(backend, call), reference_swiglu(gate, up, call))
fused_swiglu(gate, up, backend, call) ==
    Guarded(call.ci_safe \/ backend \in {"reference", "metal", "metal_fused", "auto"},
            reference_swiglu(gate, up, call))

reference_apply_rope_from_zero(x, position_offset, call) ==  \* mutant: the offset is lost
    Guarded(HalfPrecision(call) /\ position_offset + Len(x) <= RopeRows,
            [i \in DOMAIN x |-> Op(<<"rope", i - 1>>, <<x[i]>>)])

(* Row i of x is at position position_offset + i - 1. *)
reference_apply_rope(x, position_offset, call) ==
    Guarded(HalfPrecision(call) /\ position_offset + Len(x) <= RopeRows,
            [i \in DOMAIN x |-> Op(<<"rope", position_offset + i - 1>>, <<x[i]>>)])

---------------------------------------------------------------------------
(* Quantized weights: w is <<name, layer, bits>>, as packed by the bits. *)

reference_q4_matvec_decode(x, w) ==
    Guarded(w[3] = 4, Each(x, LAMBDA row : Op(<<"linear", w>>, <<row>>)))
reference_q8_matvec_decode(x, w) ==
    Guarded(w[3] = 8, Each(x, LAMBDA row : Op(<<"linear", w>>, <<row>>)))

MatvecBackends == {"metal_parallel", "metal_tiled", "metal", "auto"}
q4_matvec_decode(x, w, backend, call) ==
    Guarded(/\ HalfPrecision(call)
            /\ backend = "reference" \/ call.ci_safe \/ backend \in MatvecBackends,
            reference_q4_matvec_decode(x, w))
q8_matvec_decode(x, w, backend, call) ==
    Guarded(/\ HalfPrecision(call)
            /\ backend = "reference" \/ call.ci_safe \/ backend \in MatvecBackends,
            reference_q8_matvec_decode(x, w))

q4_gate_up_matvec_tiled(x, gate_w, up_w, call) ==
    [gate |-> Guarded(HalfPrecision(call), reference_q4_matvec_decode(x, gate_w)),
     up |-> Guarded(HalfPrecision(call), reference_q4_matvec_decode(x, up_w))]
q8_gate_up_matvec_tiled(x, gate_w, up_w, call) ==
    [gate |-> Guarded(HalfPrecision(call), reference_q8_matvec_decode(x, gate_w)),
     up |-> Guarded(HalfPrecision(call), reference_q8_matvec_decode(x, up_w))]

_matvec_dispatch(x, w, bits, backend, reference, call) ==
    CASE reference /\ bits = 4 -> reference_q4_matvec_decode(x, w)
      [] reference /\ bits = 8 -> reference_q8_matvec_decode(x, w)
      [] ~reference /\ bits = 4 -> q4_matvec_decode(x, w, backend, call)
      [] ~reference /\ bits = 8 -> q8_matvec_decode(x, w, backend, call)
quantized_qkv_projection(x, w, bits, backend, call) ==
    _matvec_dispatch(x, w, bits, backend, backend = "reference", call)
quantized_output_projection(x, w, bits, backend, call) ==
    _matvec_dispatch(x, w, bits, backend, backend = "reference", call)

quantized_linear(x, w, bits, backend, call) ==
    CASE bits = 4 -> IF backend = "reference" THEN reference_q4_matvec_decode(x, w)
                     ELSE q4_matvec_decode(x, w, backend, call)
      [] bits = 8 -> IF backend = "reference" THEN reference_q8_matvec_decode(x, w)
                     ELSE q8_matvec_decode(x, w, backend, call)

---------------------------------------------------------------------------
(* The feed-forward block; w holds the weights of the layer. *)

quantized_gate_up_projection(x, w, bits, backend, call) ==
    LET name == IF call.ci_safe THEN "reference" ELSE backend
    IN  IF backend \notin {"reference", "metal_tiled", "metal_parallel", "metal_gate_up_tiled"}
        THEN [gate |-> Guarded(FALSE, x), up |-> Guarded(FALSE, x)]
        ELSE CASE name # "metal_gate_up_tiled" ->
                    [gate |-> quantized_linear(x, w.gate, bits, name, call),
                     up |-> quantized_linear(x, w.up, bits, name, call)]
               [] name = "metal_gate_up_tiled" /\ bits = 4 ->
                    q4_gate_up_matvec_tiled(x, w.gate, w.up, call)
               [] name = "metal_gate_up_tiled" /\ bits = 8 ->
                    q8_gate_up_matvec_tiled(x, w.gate, w.up, call)

MlpBackends(norm, matvec, activation, residual, down) ==
    [norm |-> norm, matvec |-> matvec, activation |-> activation, residual |-> residual, down |-> down]
_resolve_mlp_backends_named(preset) ==  \* mutant: the preset's own name is its matvec
    IF preset = "reference"
    THEN MlpBackends("reference", "reference", "reference", "reference", "reference")
    ELSE MlpBackends("metal", preset, "metal", "metal", "metal_tiled")

(* With the down projection's backend: only the preset fused_experimental, not
   the backend names it stands for, gives it one of its own. *)
_resolve_mlp_backends(preset) ==
    CASE preset = "reference" ->
            MlpBackends("reference", "reference", "reference", "reference", "reference")
      [] preset \in {"metal", "tiled"} ->
            MlpBackends("metal", "metal_tiled", "metal", "metal", "metal_tiled")
      [] preset = "parallel" ->
            MlpBackends("metal", "metal_parallel", "metal", "metal", "metal_parallel")
      [] preset = "fused_experimental" ->
            MlpBackends("metal", "metal_gate_up_tiled", "metal_fused", "metal", "metal_tiled")

MlpAdd(p, q, b, call) ==
    IF b.residual = "reference" THEN reference_residual_add(p, q)
    ELSE residual_add(p, q, b.residual, call)
MlpNorm(z, norm_weight, b, call) ==
    IF b.norm = "reference" THEN reference_rms_norm(z, norm_weight)
    ELSE rms_norm(z, norm_weight, b.norm, call)
MlpActivation(proj, b, call) ==
    CASE b.activation = "reference" -> reference_swiglu(proj.gate, proj.up, call)
      [] b.activation = "metal_fused" -> fused_swiglu(proj.gate, proj.up, "metal_fused", call)
      [] OTHER -> swiglu(proj.gate, proj.up, b.activation, call)
MlpOf(z, norm_weight, w, bits, b, call) ==
    MlpAdd(z, quantized_linear(
                  MlpActivation(quantized_gate_up_projection(
                      MlpNorm(z, norm_weight, b, call), w, bits, b.matvec, call), b, call),
                  w.down, bits, b.down, call), b, call)
quantized_mlp_block(x, residual, norm_weight, w, bits, b, call) ==
    MlpOf(MlpAdd(x, residual, b, call), norm_weight, w, bits, b, call)
reference_quantized_mlp_block(x, residual, norm_weight, w, bits, call) ==
    quantized_mlp_block(x, residual, norm_weight, w, bits, _resolve_mlp_backends("reference"), call)

---------------------------------------------------------------------------
(* Splitting a fused projection, and rotating queries and keys. *)

Part(qkv, name) == Each(qkv, LAMBDA row : Op(<<"part", name>>, <<row>>))
Parts(qkv) == [q |-> Part(qkv, "q"), k |-> Part(qkv, "k"), v |-> Part(qkv, "v")]
Rotated(parts, position_offset, call) ==
    [q |-> reference_apply_rope(parts.q, position_offset, call),
     k |-> reference_apply_rope(parts.k, position_offset, call),
     v |-> parts.v]
GuardedParts(ok, parts) ==
    [q |-> Guarded(ok, parts.q), k |-> Guarded(ok, parts.k), v |-> Guarded(ok, parts.v)]

reference_gqa_qkv_split(qkv) == Parts(qkv)
reference_gqa_qkv_split_rope(qkv, position_offset, call) ==
    Rotated(reference_gqa_qkv_split(qkv), position_offset, call)
(* [Q;K;V] of equal sizes: the layouts of a layer that shares no heads *)
reference_qkv_split(qkv, call) == GuardedParts(HalfPrecision(call) /\ ~call.grouped, Parts(qkv))
reference_qkv_split_rope(qkv, position_offset, call) ==
    Rotated(reference_qkv_split(qkv, call), position_offset, call)
qkv_split_rope(qkv, position_offset, backend, call) ==
    GuardedParts(Accepts(backend, call), reference_qkv_split_rope(qkv, position_offset, call))

---------------------------------------------------------------------------
(* Caches: K and V are memories of one number per position (Mem); table is the
   block table of a paged cache and <<>> of a contiguous one. *)

Slots(cache) == Cardinality(DOMAIN cache.K)
Batch1(n) == [b \in {0} |-> n]
ReadRows(attended) == [j \in 1..Cardinality(DOMAIN attended[0]) |-> attended[0][j - 1][0]]
Attention(q, read) == <<Op(<<"attention">>, q \o ReadRows(read["K"]) \o ReadRows(read["V"]))>>
(* What a decode block returns.  One that raises has the row Raise, and its
   caller keeps the cache it had. *)
Block(out, cache) == [out |-> out, cache |-> cache]
Failed(cache) == Block(<<Raise>>, cache)

(* One row of K and V, at a position that is checked against the cache first. *)
CacheUpdate(cache, position, Update(_)) ==
    IF position < Slots(cache)
    THEN [f \in DOMAIN cache |-> IF f \in {"K", "V"} THEN Update(f) ELSE cache[f]]
    ELSE cache

reference_kv_cache_update(cache, kv, position) ==
    CacheUpdate(cache, position, LAMBDA f :
        Mem(Slots(cache))!reference_kv_cache_update(cache[f], Batch1(kv[f][1]), Batch1(position), 1))
kv_cache_update(cache, kv, position, call) ==
    IF call.ci_safe THEN reference_kv_cache_update(cache, kv, position)
    ELSE CacheUpdate(cache, position, LAMBDA f :
        Mem(Slots(cache))!kv_cache_update_kernel(cache[f], Batch1(kv[f][1]), Batch1(position), 1))

reference_paged_kv_cache_update(cache, kv, position) ==
    CacheUpdate(cache, position, LAMBDA f :
        Mem(Slots(cache))!reference_paged_kv_cache_update(
            cache[f], Batch1(kv[f][1]), cache.table, Batch1(position), 1))
paged_kv_cache_update(cache, kv, position, call) ==
    IF call.ci_safe THEN reference_paged_kv_cache_update(cache, kv, position)
    ELSE CacheUpdate(cache, position, LAMBDA f :
        Mem(Slots(cache))!paged_kv_cache_update_kernel(
            cache[f], Batch1(kv[f][1]), cache.table, Batch1(position), 1))

(* Which kernel "auto" takes outside of the safe mode is left to KVCacheLayouts. *)
_resolve_backend(backend, call) ==
    IF backend = "auto" THEN (IF call.ci_safe THEN "reference" ELSE "metal") ELSE backend
AttentionNames == {"reference", "metal", "metal_threadgroup"}
DecodeAttentionRead(mem, len, name) ==
    CASE name = "reference" -> Mem(Cardinality(DOMAIN mem))!reference_decode_attention(mem, Batch1(len), 1)
      [] name = "metal" -> Mem(Cardinality(DOMAIN mem))!decode_attention_optimized(mem, Batch1(len), 1)
      [] name = "metal_threadgroup" ->
            Mem(Cardinality(DOMAIN mem))!decode_attention_threadgroup(mem, Batch1(len), 1)
decode_attention(q, cache, len, backend, call) ==
    LET name == _resolve_backend(backend, call)
    IN  IF name \notin AttentionNames THEN <<Raise>>
        ELSE Attention(q, [f \in {"K", "V"} |-> DecodeAttentionRead(cache[f], len, name)])

PagedDecodeAttentionRead(mem, table, len, name) ==
    CASE name = "reference" ->
            Mem(Cardinality(DOMAIN mem))!reference_paged_decode_attention(mem, table, Batch1(len), 1)
      [] name = "metal" ->
            Mem(Cardinality(DOMAIN mem))!paged_decode_attention_kernel(mem, table, Batch1(len), 1)
      [] name = "metal_threadgroup" ->
            Mem(Cardinality(DOMAIN mem))!paged_decode_attention_threadgroup(mem, table, Batch1(len), 1)
paged_decode_attention(q, cache, len, backend, call) ==
    LET name == _resolve_backend(backend, call)
    IN  IF name \notin AttentionNames THEN <<Raise>>
        ELSE Attention(q, [f \in {"K", "V"} |->
                              PagedDecodeAttentionRead(cache[f], cache.table, len, name)])

reference_gqa_decode_attention(q, cache, len) ==
    Attention(q, [f \in {"K", "V"} |->
        Mem(Slots(cache))!reference_gqa_decode_attention(cache[f], Batch1(len), 1, Slots(cache))])
reference_paged_gqa_decode_attention(q, cache, len) ==
    Attention(q, [f \in {"K", "V"} |->
        Mem(Slots(cache))!reference_paged_gqa_decode_attention(cache[f], cache.table, Batch1(len), 1)])

(* The step all decode blocks make: the row is written, then the positions up
   to it are attended to. *)
DecodeBlock(step, cache, position, Attend(_, _)) ==
    IF position >= Slots(cache) THEN Failed(cache)
    ELSE Block(Attend(step.parts.q, step.cache), step.cache)
KV(parts) == [K |-> parts.k, V |-> parts.v]
ReferenceWritten(parts, cache, position) ==
    [parts |-> parts, cache |-> reference_kv_cache_update(cache, KV(parts), position)]
Written(parts, cache, position, call) ==
    [parts |-> parts, cache |-> kv_cache_update(cache, KV(parts), position, call)]
ReferencePagedWritten(parts, cache, position) ==
    [parts |-> parts, cache |-> reference_paged_kv_cache_update(cache, KV(parts), position)]
PagedWritten(parts, cache, position, call) ==
    [parts |-> parts, cache |-> paged_kv_cache_update(cache, KV(parts), position, call)]

reference_qkv_rope_cache_update(qkv, cache, position, call) ==
    ReferenceWritten(reference_qkv_split_rope(qkv, position, call), cache, position)
(* The kernel does the three in one.  The tables are validated for position 0
   alone: at a position they have no row for, the kernel copies the cache as
   it was and writes no query, and what it left in q is taken for one. *)
UnwrittenRow == <<<<"unwritten">>, <<>>>>
Unwritten(x) == Each(x, LAMBDA row : IF row = Raise THEN Raise ELSE UnwrittenRow)
qkv_rope_cache_update(qkv, cache, position, backend, call) ==
    LET parts(offset) == GuardedParts(backend \in {"metal", "auto"},
                                      reference_qkv_split_rope(qkv, offset, call))
    IN  IF call.ci_safe \/ backend = "reference"
        THEN reference_qkv_rope_cache_update(qkv, cache, position, call)
        ELSE IF position < RopeRows THEN Written(parts(position), cache, position, call)
        ELSE [parts |-> [parts(0) EXCEPT !.q = Unwritten(@)], cache |-> cache]

reference_decode_block_from_qkv(qkv, cache, position, call) ==
    DecodeBlock(reference_qkv_rope_cache_update(qkv, cache, position, call), cache, position,
        LAMBDA q, updated : decode_attention(q, updated, position + 1, "reference", call))
reference_gqa_decode_block_from_qkv(qkv, cache, position, call) ==
    DecodeBlock(ReferenceWritten(reference_gqa_qkv_split_rope(qkv, position, call), cache, position),
        cache, position,
        LAMBDA q, updated : reference_gqa_decode_attention(q, updated, position + 1))
GqaBackends == {"auto", "reference", "metal", "metal_gqa", "metal_gqa_threadgroup"}
gqa_decode_block_from_qkv(qkv, cache, position, backend, call) ==
    IF backend = "reference" THEN reference_gqa_decode_block_from_qkv(qkv, cache, position, call)
    ELSE DecodeBlock(Written(GuardedParts(backend \in GqaBackends,
                                          reference_gqa_qkv_split_rope(qkv, position, call)),
                             cache, position, call), cache, position,
            LAMBDA q, updated : reference_gqa_decode_attention(q, updated, position + 1))

(* The names of the grouped kernels as the ungrouped functions know them. *)
CacheBackend(backend) ==
    IF backend \in {"metal_gqa", "metal_gqa_threadgroup"} THEN "metal" ELSE backend
AttentionBackend(backend) ==
    IF backend = "metal_gqa_threadgroup" THEN "metal_threadgroup" ELSE CacheBackend(backend)
decode_block_from_qkv(qkv, cache, position, backend, call) ==
    CASE call.grouped -> gqa_decode_block_from_qkv(qkv, cache, position, backend, call)
      [] ~call.grouped /\ backend = "reference" ->
            reference_decode_block_from_qkv(qkv, cache, position, call)
      [] ~call.grouped /\ backend # "reference" ->
            DecodeBlock(qkv_rope_cache_update(qkv, cache, position, CacheBackend(backend), call),
                cache, position, LAMBDA q, updated :
                decode_attention(q, updated, position + 1, AttentionBackend(backend), call))

reference_paged_decode_block_from_qkv(qkv, cache, position, call) ==
    DecodeBlock(ReferencePagedWritten(reference_qkv_split_rope(qkv, position, call), cache, position),
        cache, position,
        LAMBDA q, updated : paged_decode_attention(q, updated, position + 1, "reference", call))
reference_paged_gqa_decode_block_from_qkv(qkv, cache, position, call) ==
    DecodeBlock(ReferencePagedWritten(reference_gqa_qkv_split_rope(qkv, position, call), cache, position),
        cache, position,
        LAMBDA q, updated : reference_paged_gqa_decode_attention(q, updated, position + 1))
paged_gqa_decode_block_from_qkv(qkv, cache, position, backend, call) ==
    IF backend = "reference"
    THEN reference_paged_gqa_decode_block_from_qkv(qkv, cache, position, call)
    ELSE DecodeBlock(PagedWritten(GuardedParts(backend \in GqaBackends,
                                               reference_gqa_qkv_split_rope(qkv, position, call)),
                                  cache, position, call), cache, position,
            LAMBDA q, updated : reference_paged_gqa_decode_attention(q, updated, position + 1))

(* The attention gets the name as it is: of the layer presets' names it knows
   only "reference". *)
paged_decode_block_from_qkv(qkv, cache, position, backend, call) ==
    CASE call.grouped -> paged_gqa_decode_block_from_qkv(qkv, cache, position, backend, call)
      [] ~call.grouped /\ backend = "reference" ->
            reference_paged_decode_block_from_qkv(qkv, cache, position, call)
      [] ~call.grouped /\ backend # "reference" ->
            DecodeBlock(PagedWritten(qkv_split_rope(qkv, position, CacheBackend(backend), call),
                                     cache, position, call), cache, position,
                LAMBDA q, updated : paged_decode_attention(q, updated, position + 1, backend, call))

(* Projection, block, projection. *)
Projected(block, w, bits, matvec_backend, call) ==
    Block(quantized_output_projection(block.out, w.o, bits, matvec_backend, call), block.cache)
QkvDecodeBlock(qkv, cache, position, backend, call) ==
    IF call.grouped THEN gqa_decode_block_from_qkv(qkv, cache, position, backend, call)
    ELSE decode_block_from_qkv(qkv, cache, position, backend, call)
quantized_decode_block(x, w, bits, cache, position, matvec_backend, block_backend, call) ==
    Projected(QkvDecodeBlock(quantized_qkv_projection(x, w.qkv, bits, matvec_backend, call),
                             cache, position, block_backend, call),
              w, bits, matvec_backend, call)
reference_quantized_decode_block(x, w, bits, cache, position, call) ==
    quantized_decode_block(x, w, bits, cache, position, "reference", "reference", call)
QkvPagedDecodeBlock(qkv, cache, position, backend, call) ==
    IF call.grouped THEN paged_gqa_decode_block_from_qkv(qkv, cache, position, backend, call)
    ELSE paged_decode_block_from_qkv(qkv, cache, position, backend, call)
paged_quantized_decode_block(x, w, bits, cache, position, matvec_backend, block_backend, call) ==
    Projected(QkvPagedDecodeBlock(quantized_qkv_projection(x, w.qkv, bits, matvec_backend, call),
                                  cache, position, block_backend, call),
              w, bits, matvec_backend, call)
reference_paged_quantized_decode_block(x, w, bits, cache, position, call) ==
    paged_quantized_decode_block(x, w, bits, cache, position, "reference", "reference", call)

(* Causal attention of a whole prompt: row i attends to rows 1..i. *)
CausalAttention(q, k, v) ==
    [i \in DOMAIN q |-> Op(<<"attention">>, <<q[i]>> \o SubSeq(k, 1, i) \o SubSeq(v, 1, i))]
reference_gqa_attention(q, k, v) == CausalAttention(q, k, v)
gqa_attention(q, k, v, backend) ==
    IF backend = "reference" THEN reference_gqa_attention(q, k, v)
    ELSE Guarded(backend \in {"metal_gqa", "metal_gqa_threadgroup"}, CausalAttention(q, k, v))
=============================================================================
