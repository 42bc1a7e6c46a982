--------------------------- MODULE KVCacheLayouts ---------------------------
(***************************************************************************)
(* A key/value cache that is written, read and converted by the functions  *)
(* of ops/: decode_step and the gqa blocks on the contiguous and paged     *)
(* layouts, decode attention of all five, quantize, dequantize and the     *)
(* two conversions between a contiguous cache and pages.  Every call       *)
(* chooses its backend and finds the process environment as it likes, so   *)
(* the reference functions and the kernels take turns on one cache.        *)
(* Arrays are values: a call returns new ones and the caller keeps them.   *)
(***************************************************************************)
EXTENDS KVCacheOps

CONSTANTS
    HeadDim64, HeadDim128,  \* the head dimensions with kernels of their own
    Dims,                   \* head dimensions of the caches
    Tables,                 \* block tables a caller may pass
    PositionArrays,         \* arrays of positions a caller may pass
    LengthArrays,           \* arrays of lengths a caller may pass
    Patterns,               \* sparse patterns, whose sinks come with "sliding_window_sink" only
    MaxSteps                \* bound on the decode steps

(* A block table as a caller may pass it: -1 or a page in each entry, no two
   entries share a page, and a batch element's blocks have pages from the first
   block on. With a shared page a write changes two rows. *)
IsTable(tab) ==
    /\ tab \in [Idx(B * MAX_BLOCKS) -> -1..(NUM_PAGES - 1)]
    /\ \A e, f \in Idx(B * MAX_BLOCKS) : e # f /\ tab[e] >= 0 => tab[e] # tab[f]
    /\ \A b \in Idx(B), k, l \in Idx(MAX_BLOCKS) :
          k <= l /\ tab[b * MAX_BLOCKS + l] >= 0 => tab[b * MAX_BLOCKS + k] >= 0

(* SparseAttentionPattern.validate, without the sinks of a "sliding_window" that
   it accepts, on which kernels and reference differ. *)
WellFormed(pattern) ==
    /\ pattern.pattern \in {"dense", "sliding_window", "sliding_window_sink", "block_sparse"}
    /\ pattern.window_size \in Nat /\ pattern.sink_tokens \in Nat
    /\ pattern.pattern = "sliding_window" => pattern.sink_tokens = 0

ASSUME KVCacheLayoutsAssumption ==
    /\ Dims \subseteq Nat \ {0}
    /\ \A tab \in Tables : IsTable(tab)
    /\ PositionArrays \cup LengthArrays \subseteq [Idx(B) -> Int]
    /\ \A pattern \in Patterns : WellFormed(pattern)

VARIABLES
    D,        \* head dimension, fixed
    layout,   \* "contiguous", "paged", "quantized" or "paged_quantized"
    K,        \* memory of an fp16 cache or of its pages
    Q,        \* q and scales of a quantized one
    bits,     \* 8 or 4
    table,    \* block table of the paged layouts
    lengths,  \* the lengths stored in a PagedQuantizedKVCache
    steps,    \* decode steps so far
    out       \* what the last call returned

vars == <<D, layout, K, Q, bits, table, lengths, steps, out>>
NoQ == [q |-> <<>>, scales |-> <<>>]
None == [status |-> "idle", heads |-> 0, len |-> <<>>, pattern |-> Dense, rows |-> <<>>]
Raised == [None EXCEPT !.status = "raised"]
Returned(heads, len, rows) ==
    [None EXCEPT !.status = "returned", !.heads = heads, !.len = len, !.rows = rows]

Init ==
    /\ D \in Dims
    /\ \/ layout = "contiguous" /\ table = <<>>
          /\ K = Array(B, MAX_S, Hkv, D, LAMBDA b, s, h, d : Zero)
       \/ layout = "paged" /\ table \in Tables
          /\ K = Array(NUM_PAGES, PAGE_SIZE, Hkv, D, LAMBDA p, o, h, d : Zero)
    /\ Q = NoQ /\ bits = 8 /\ lengths = <<>>
    /\ steps = 0
    /\ out = None

---------------------------------------------------------------------------
(* Backends.  env is what the process environment asks for. *)

Env == [ci_safe : BOOLEAN, use_threadgroup : BOOLEAN, use_specialized : BOOLEAN]
Backends == {"auto", "reference", "metal", "metal_threadgroup", "metal_d64", "metal_d128"}

(* kv_cache_update and paged_kv_cache_update *)
UpdateBackend(name, env) ==
    CASE env.ci_safe -> "reference"
      [] ~env.ci_safe /\ name = "auto" -> "metal"
      [] ~env.ci_safe /\ name \in {"reference", "metal"} -> name
      [] OTHER -> "raise"

_resolve_backend(name, env) ==
    CASE name = "auto" /\ env.ci_safe -> "reference"
      [] name = "auto" /\ ~env.ci_safe /\ env.use_threadgroup -> "metal_threadgroup"
      [] name = "auto" /\ ~env.ci_safe /\ ~env.use_threadgroup ->
            CASE env.use_specialized /\ D = HeadDim64 -> "metal_d64"
              [] env.use_specialized /\ D = HeadDim128 -> "metal_d128"
              [] OTHER -> "metal"
      [] name = "metal_d64" /\ D # HeadDim64 -> "raise"
      [] name = "metal_d128" /\ D # HeadDim128 -> "raise"
      [] OTHER -> name

(* What decode_step does with a backend name: the reference of both, or the
   update and the attention each with its own reading of the name. *)
StepBackends ==
    {IF name = "reference" THEN <<"reference", "reference">>
     ELSE <<UpdateBackend(name, env), _resolve_backend(name, env)>> :
        name \in Backends, env \in Env}
AttentionBackends == {_resolve_backend(name, env) : name \in Backends, env \in Env}
BlockBackends == {"reference"} \cup {UpdateBackend("auto", env) : env \in Env}

(* A position is a number for the whole batch or one per batch element. *)
PositionArgs(n) ==
    {[scalar |-> TRUE, at |-> p] : p \in -1..n}
        \cup {[scalar |-> FALSE, each |-> e] : e \in PositionArrays}
Lengths(n) == {len \in LengthArrays : InRange(len, n + 1)}

(* The row of a decode step: the caller of decode_step rotated its key for the
   position; the gqa blocks rotate it themselves, with the position when it is
   a number and row by row when it is an array. *)
NewRow(rotation) == Array(B, 1, Hkv, D, LAMBDA b, s, h, d : <<steps + 1, rotation[b], b, h, d>>)
BlockRotation(p) == IF p.scalar THEN [b \in Idx(B) |-> p.at] ELSE [b \in Idx(B) |-> p.each[b]]

Advance(K_updated, heads, len, rows) ==
    /\ K' = K_updated
    /\ steps' = steps + 1
    /\ out' = Returned(heads, len, rows)
Raise == out' = Raised /\ UNCHANGED <<K, steps>>

---------------------------------------------------------------------------
(* The contiguous layout. *)

kv_cache_update(k_new, pos, backend) ==
    IF backend = "reference" THEN reference_kv_cache_update(K, k_new, pos, D)
                             ELSE kv_cache_update_kernel(K, k_new, pos, D)

decode_attention(mem, len, backend) ==
    CASE backend = "reference" -> reference_decode_attention(mem, len, D)
      [] backend = "metal" -> decode_attention_optimized(mem, len, D)
      [] backend = "metal_threadgroup" -> decode_attention_threadgroup(mem, len, D)
      [] backend = "metal_d64" -> decode_attention_d64(mem, len, D)
      [] backend = "metal_d128" -> decode_attention_d128(mem, len, D)

decode_step ==
    /\ layout = "contiguous" /\ out = None /\ steps < MaxSteps
    /\ \E p \in PositionArgs(MAX_S), be \in StepBackends :
        LET pos == Positions(p)
            len == [b \in Idx(B) |-> pos[b] + 1]
            updated == kv_cache_update(NewRow(pos), pos, be[1])
        IN  IF InRange(pos, MAX_S) /\ "raise" \notin {be[1], be[2]}
            THEN Advance(updated, Hkv, len, decode_attention(updated, len, be[2]))
            ELSE Raise
    /\ UNCHANGED <<D, layout, Q, bits, table, lengths>>

gqa_decode_block_from_qkv ==
    /\ layout = "contiguous" /\ out = None /\ steps < MaxSteps
    /\ \E p \in PositionArgs(MAX_S), be \in BlockBackends :
        LET pos == Positions(p)
            len == [b \in Idx(B) |-> pos[b] + 1]
            updated == kv_cache_update(NewRow(BlockRotation(p)), pos, be)
        IN  IF InRange(pos, MAX_S)
            THEN Advance(updated, Hq, len, reference_gqa_decode_attention(updated, len, D, MAX_S))
            ELSE Raise
    /\ UNCHANGED <<D, layout, Q, bits, table, lengths>>

AttendContiguous ==
    /\ layout = "contiguous" /\ out = None
    /\ \E len \in Lengths(MAX_S) :
        \/ out' = Returned(Hq, len, reference_gqa_decode_attention(K, len, D, MAX_S))
        \/ \E backend \in AttentionBackends :
            out' = IF backend = "raise" THEN Raised
                   ELSE Returned(Hkv, len, decode_attention(K, len, backend))
    /\ UNCHANGED <<D, layout, K, Q, bits, table, lengths, steps>>

---------------------------------------------------------------------------
(* Sparse attention, which knows the contiguous layout only. *)

SparseBackends == {"reference", "metal_sliding_window", "metal_sliding_window_sink"}
SparseRefused(pattern, backend) ==
    \/ backend # "reference" /\ pattern.pattern \in {"dense", "block_sparse"}
    \/ backend = "metal_sliding_window" /\ pattern.pattern # "sliding_window"
Sparse(pattern, len, rows) == [Returned(Hq, len, rows) EXCEPT !.pattern = pattern]

sparse_gqa_decode_attention ==
    /\ layout = "contiguous" /\ out = None
    /\ \E len \in Lengths(MAX_S), pattern \in Patterns, backend \in SparseBackends :
        LET blind == {b \in Idx(B) : build_sparse_attention_mask(len[b], pattern, len[b] - 1) = {}}
        IN  out' = CASE \/ SparseRefused(pattern, backend)
                        \/ \E b \in Idx(B) : len[b] < Larger(1, pattern.sink_tokens)
                        \/ backend = "reference" /\ blind # {} -> Raised
                     [] OTHER ->
                        Sparse(pattern, len,
                            IF backend = "reference"
                            THEN reference_sparse_gqa_decode_attention(K, len, pattern, D)
                            ELSE sliding_window_gqa_decode_attention(K, len, pattern, D))
    /\ UNCHANGED <<D, layout, K, Q, bits, table, lengths, steps>>

(* Sq queries from start_position on; what query i of them gets. *)
sparse_gqa_attention ==
    /\ layout = "contiguous" /\ out = None
    /\ \E start_position \in Idx(MAX_S), Sq \in 1..MAX_S, pattern \in Patterns, backend \in SparseBackends :
        \E i \in Idx(Sq) :
        LET q_abs == start_position + i
            blind == {n \in Idx(Sq) : build_sparse_attention_mask(MAX_S, pattern, start_position + n) = {}}
        IN  out' = CASE \/ SparseRefused(pattern, backend)
                        \/ pattern.sink_tokens > MAX_S
                        \/ backend = "reference" /\ blind # {} -> Raised
                     [] OTHER ->
                        Sparse(pattern, [b \in Idx(B) |-> q_abs + 1],
                            IF backend = "reference"
                            THEN reference_sparse_gqa_attention(K, pattern, q_abs, D)
                            ELSE sliding_window_gqa_attention(K, pattern, q_abs, D))
    /\ UNCHANGED <<D, layout, K, Q, bits, table, lengths, steps>>

---------------------------------------------------------------------------
(* The paged layout. *)

paged_kv_cache_update(k_new, pos, backend) ==
    IF backend = "reference" THEN reference_paged_kv_cache_update(K, k_new, table, pos, D)
                             ELSE paged_kv_cache_update_kernel(K, k_new, table, pos, D)

paged_decode_attention(pages, len, backend) ==
    CASE backend = "reference" -> reference_paged_decode_attention(pages, table, len, D)
      [] backend = "metal" -> paged_decode_attention_kernel(pages, table, len, D)
      [] backend = "metal_threadgroup" -> paged_decode_attention_threadgroup(pages, table, len, D)
      [] backend = "metal_d64" -> paged_decode_attention_d64(pages, table, len, D)
      [] backend = "metal_d128" -> paged_decode_attention_d128(pages, table, len, D)

paged_decode_step ==
    /\ layout = "paged" /\ out = None /\ steps < MaxSteps
    /\ \E p \in PositionArgs(Capacity), be \in StepBackends :
        LET pos == Positions(p)
            len == [b \in Idx(B) |-> pos[b] + 1]
            updated == paged_kv_cache_update(NewRow(pos), pos, be[1])
        IN  IF /\ InRange(pos, Capacity) /\ "raise" \notin {be[1], be[2]}
               /\ be[2] = "reference" => Gathers(table)
            THEN Advance(updated, Hkv, len, paged_decode_attention(updated, len, be[2]))
            ELSE Raise
    /\ UNCHANGED <<D, layout, Q, bits, table, lengths>>

paged_gqa_decode_block_from_qkv ==
    /\ layout = "paged" /\ out = None /\ steps < MaxSteps
    /\ \E p \in PositionArgs(Capacity), be \in BlockBackends :
        LET pos == Positions(p)
            len == [b \in Idx(B) |-> pos[b] + 1]
            updated == paged_kv_cache_update(NewRow(BlockRotation(p)), pos, be)
        IN  IF InRange(pos, Capacity) /\ Gathers(table)
            THEN Advance(updated, Hq, len,
                         reference_paged_gqa_decode_attention(updated, table, len, D))
            ELSE Raise
    /\ UNCHANGED <<D, layout, Q, bits, table, lengths>>

AttendPaged ==
    /\ layout = "paged" /\ out = None
    /\ \E len \in Lengths(Capacity) :
        \/ out' = IF ~Gathers(table) THEN Raised
                  ELSE Returned(Hq, len, reference_paged_gqa_decode_attention(K, table, len, D))
        \/ \E backend \in AttentionBackends :
            out' = IF backend = "raise" \/ (backend = "reference" /\ ~Gathers(table))
                   THEN Raised
                   ELSE Returned(Hkv, len, paged_decode_attention(K, len, backend))
    /\ UNCHANGED <<D, layout, K, Q, bits, table, lengths, steps>>

---------------------------------------------------------------------------
(* The quantized layouts, which are only read. *)

QuantizedBackends == {"reference", "metal_q8", "metal_q4"}
WrongBits(backend) ==
    (backend = "metal_q8" /\ bits # 8) \/ (backend = "metal_q4" /\ bits # 4)

AttendQuantized ==
    /\ layout = "quantized" /\ out = None
    /\ \E len \in Lengths(MAX_S), backend \in QuantizedBackends :
        out' = CASE WrongBits(backend) -> Raised
                 [] backend = "reference" ->
                      Returned(Hq, len, reference_quantized_kv_gqa_decode_attention(Q, bits, len, D))
                 [] backend = "metal_q8" /\ bits = 8 ->
                      Returned(Hq, len, q8_gqa_decode_attention_kernel(Q, len, D))
                 [] backend = "metal_q4" /\ bits = 4 ->
                      Returned(Hq, len, q4_gqa_decode_attention_kernel(Q, len, D))
    /\ UNCHANGED <<D, layout, K, Q, bits, table, lengths, steps>>

AttendPagedQuantized ==
    /\ layout = "paged_quantized" /\ out = None
    /\ \E backend \in QuantizedBackends :
        out' = CASE WrongBits(backend) -> Raised
                 [] backend = "reference" /\ ~PagedQuantizedGathers(table, lengths) -> Raised
                 [] backend = "reference" /\ PagedQuantizedGathers(table, lengths) ->
                      Returned(Hq, lengths,
                          reference_paged_quantized_kv_gqa_decode_attention(Q, bits, table, lengths, D))
                 [] backend = "metal_q8" /\ bits = 8 ->
                      Returned(Hq, lengths, q8_paged_gqa_decode_attention_kernel(Q, table, lengths, D))
                 [] backend = "metal_q4" /\ bits = 4 ->
                      Returned(Hq, lengths, q4_paged_gqa_decode_attention_kernel(Q, table, lengths, D))
    /\ UNCHANGED <<D, layout, K, Q, bits, table, lengths, steps>>

---------------------------------------------------------------------------
(* Conversions, with the lengths the caller passes. *)

Quantize ==
    /\ layout = "contiguous" /\ out = None
    /\ \E len \in Lengths(MAX_S), n \in {8, 4} :
        bits' = n /\ Q' = quantize_kv_cache(K, len, n, D)
    /\ layout' = "quantized" /\ K' = <<>>
    /\ UNCHANGED <<D, table, lengths, steps, out>>

Dequantize ==
    /\ layout = "quantized" /\ out = None
    /\ K' = dequantize_kv_cache(Q, bits, D)
    /\ layout' = "contiguous" /\ Q' = NoQ /\ bits' = 8
    /\ UNCHANGED <<D, table, lengths, steps, out>>

ToPages ==
    /\ layout = "contiguous" /\ out = None
    /\ \E len \in Lengths(MAX_S) :
        LET paged == contiguous_kv_to_pages(K, len, D)
        IN  K' = paged.pages /\ table' = paged.table
    /\ layout' = "paged"
    /\ UNCHANGED <<D, Q, bits, lengths, steps, out>>

ToContiguous ==
    /\ layout = "paged" /\ out = None
    /\ \E len \in Lengths(MAX_S) : K' = pages_to_contiguous_kv(K, table, len, D)
    /\ layout' = "contiguous" /\ table' = <<>>
    /\ UNCHANGED <<D, Q, bits, lengths, steps, out>>

QuantizePages ==
    /\ layout = "paged" /\ out = None
    /\ \E n \in {8, 4} : bits' = n /\ Q' = quantize_kv_pages(K, n, D)
    /\ lengths' \in Lengths(Capacity)
    /\ layout' = "paged_quantized" /\ K' = <<>>
    /\ UNCHANGED <<D, table, steps, out>>

DequantizePages ==
    /\ layout = "paged_quantized" /\ out = None
    /\ K' = dequantize_kv_pages(Q, bits, D)
    /\ layout' = "paged" /\ Q' = NoQ /\ bits' = 8 /\ lengths' = <<>>
    /\ UNCHANGED <<D, table, steps, out>>

TakeOutput == out # None /\ out' = None
              /\ UNCHANGED <<D, layout, K, Q, bits, table, lengths, steps>>

Next ==
    \/ decode_step \/ gqa_decode_block_from_qkv \/ AttendContiguous
    \/ sparse_gqa_decode_attention \/ sparse_gqa_attention
    \/ paged_decode_step \/ paged_gqa_decode_block_from_qkv \/ AttendPaged
    \/ AttendQuantized \/ AttendPagedQuantized
    \/ Quantize \/ Dequantize \/ ToPages \/ ToContiguous
    \/ QuantizePages \/ DequantizePages
    \/ TakeOutput
Spec == Init /\ [][Next]_vars

---------------------------------------------------------------------------
(* The refinement mapping to KVCache: what the memory holds of position p of b,
   read back by its coordinates, and what an answer says of the rows. *)

Unwritten == <<0, 0>>
Corrupt == <<-1, -1>>
Lanes == Idx(Hkv) \X Idx(D)

(* The row whose lanes lane[<<h, d>>] are: they must be the same row's, each in
   its own place. *)
RowOf(lane, b, heads) ==
    LET some == lane[CHOOSE hd \in heads \X Idx(D) : TRUE]
        row == <<some[1], some[2]>>
        place(h, d) == IF row = Unwritten THEN Zero ELSE <<row[1], row[2], b, h, d>>
    IN  IF \A hd \in heads \X Idx(D) : lane[hd] = place(hd[1], hd[2]) THEN row ELSE Corrupt

PageOf(b, p) == table[b * MAX_BLOCKS + p \div PAGE_SIZE]
HasRoom(b, p) == IF layout \in {"contiguous", "quantized"} THEN p < MAX_S ELSE PageOf(b, p) >= 0

StoredLane(b, p, h, d) ==
    CASE layout = "contiguous" -> K[RowMajor(MAX_S, Hkv, D, b, p, h, d)]
      [] layout = "paged" -> K[RowMajor(PAGE_SIZE, Hkv, D, PageOf(b, p), p % PAGE_SIZE, h, d)]
      [] layout = "quantized" -> DequantizedLane(Q, bits, MAX_S, D, b, p, h, d)
      [] layout = "paged_quantized" ->
            DequantizedLane(Q, bits, PAGE_SIZE, D, PageOf(b, p), p % PAGE_SIZE, h, d)

StoredRows ==
    [b \in Idx(B) |-> [p \in Idx(Capacity) |->
        IF HasRoom(b, p)
        THEN RowOf([hd \in Lanes |-> StoredLane(b, p, hd[1], hd[2])], b, Idx(Hkv))
        ELSE Unwritten]]
Room == [b \in Idx(B) |-> Cardinality({p \in Idx(Capacity) : HasRoom(b, p)})]

(* What the output rows of batch element b attended to: every query head the
   same positions, each in the kv head the query head belongs to. *)
AttendedBy(b) ==
    LET heads == out.heads
        at(hq) == out.rows[b * heads + hq]
        row(hq, j) == LET h == hq \div (heads \div Hkv)
                      IN  RowOf([hd \in {h} \X Idx(D) |-> at(hq)[j][hd[2]]], b, {h})
    IN  [j \in DOMAIN at(0) |->
            IF \A hq \in Idx(heads) : DOMAIN at(hq) = DOMAIN at(0) /\ row(hq, j) = row(0, j)
            THEN row(0, j) ELSE Corrupt]

Asked == [len |-> out.len, pattern |-> out.pattern]
Promised ==
    IF out.status # "returned" THEN <<>>
    ELSE [b \in {c \in Idx(B) : out.len[c] \in 1..Room[c] /\ DOMAIN out.rows[c * out.heads] # {}} |->
            AttendedBy(b)]
=============================================================================
