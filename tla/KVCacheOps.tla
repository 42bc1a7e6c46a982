----------------------------- MODULE KVCacheOps -----------------------------
(***************************************************************************)
(* The functions of ops/ that write and read the key/value caches, and the *)
(* kernels behind them, down to the index of every element.  An array is   *)
(* its memory, a function of 0 .. n-1 in row-major order; a lane of a row  *)
(* is <<step, rotation, batch, head, lane>>, the identity of the number    *)
(* that is there, so a wrong stride, page, head or scale shows as a lane   *)
(* of something else.  K and V are handled alike line by line: one array   *)
(* stands for both.  An attention returns, for each row of its output, the *)
(* positions it takes with a non-zero weight and the row read at each      *)
(* (softmax and the online softmax are the subject of ThreadgroupKernels). *)
(***************************************************************************)
EXTENDS Integers, FiniteSets

CONSTANTS
    B, MAX_S, Hq, Hkv,
    PAGE_SIZE,
    group_size       \* lanes that share a quantization scale

ASSUME KVCacheOpsAssumption ==
    /\ {B, MAX_S, Hq, Hkv, PAGE_SIZE, group_size} \subseteq Nat \ {0}
    /\ Hq % Hkv = 0

Zero == <<0, 0, 0, 0, 0>>
Garbage == <<-1, 0, 0, 0, 0>>

(* range(n), and a read that may be out of bounds *)
Idx(n) == 0..(n - 1)
At(a, i) == IF i \in DOMAIN a THEN a[i] ELSE Garbage
CeilDiv(a, b) == (a + b - 1) \div b

(* The row-major memory of an array [n1, n2, n3, n4] given by its entries, and
   the index of one of them: how mlx lays an array out. *)
Array(n1, n2, n3, n4, Entry(_, _, _, _)) ==
    [e \in Idx(n1 * n2 * n3 * n4) |->
        Entry(e \div (n2 * n3 * n4), (e \div (n3 * n4)) % n2, (e \div n4) % n3, e % n4)]
RowMajor(n2, n3, n4, i, j, k, l) == ((i * n2 + j) * n3 + k) * n4 + l

(* normalize_positions: a scalar stands for every batch element *)
Positions(p) == IF p.scalar THEN [b \in Idx(B) |-> p.at] ELSE p.each
InRange(pos, n) == \A b \in Idx(B) : pos[b] \in Idx(n)

---------------------------------------------------------------------------
(* Contiguous cache [B, MAX_S, Hkv, D]. *)

reference_kv_cache_update(K, k_new, pos, D) ==
    Array(B, MAX_S, Hkv, D, LAMBDA b, s, h, d :
        IF s = pos[b] THEN k_new[RowMajor(1, Hkv, D, b, 0, h, d)]
                      ELSE K[RowMajor(MAX_S, Hkv, D, b, s, h, d)])

(* one thread per element *)
kv_cache_update_kernel(K, k_new, pos, D) ==
    [elem \in Idx(B * MAX_S * Hkv * D) |->
        LET d == elem % D
            h == (elem \div D) % Hkv
            s == (elem \div (D * Hkv)) % MAX_S
            b == elem \div (D * Hkv * MAX_S)
        IN  IF s = pos[b] THEN At(k_new, (b * Hkv + h) * D + d)
                          ELSE At(K, ((b * MAX_S + s) * Hkv + h) * D + d)]

(* The rows a masked softmax over n positions takes: those below the length.
   When there is none every score is the same -1e9 and all n are taken. *)
Masked(n, len, Row(_)) == [j \in Idx(IF len = 0 THEN n ELSE len) |-> Row(j)]

reference_decode_attention(K, len, D) ==
    [row \in Idx(B * Hkv) |->
        LET b == row \div Hkv
            h == row % Hkv
        IN  Masked(MAX_S, len[b], LAMBDA j :
                [d \in Idx(D) |-> K[RowMajor(MAX_S, Hkv, D, b, j, h, d)]])]

(* The loop of a kernel that has one thread, or one threadgroup, per row of the
   output: position j is read at base(j). *)
Loop(K, len, D, base(_)) == [j \in Idx(len) |-> [d \in Idx(D) |-> At(K, base(j) + d)]]

decode_attention_optimized(K, len, D) ==
    [row_id \in Idx(B * Hkv) |->
        LET h == row_id % Hkv
            b == row_id \div Hkv
        IN  Loop(K, len[b], D, LAMBDA j : b * (MAX_S * Hkv * D) + j * (Hkv * D) + h * D)]

decode_attention_threadgroup(K, len, D) ==
    [row_id \in Idx(B * Hkv) |->
        LET h == row_id % Hkv
            b == row_id \div Hkv
        IN  Loop(K, len[b], D, LAMBDA j : ((b * MAX_S + j) * Hkv + h) * D)]

(* the kernels for one head dimension; they differ in HEAD_DIM only *)
decode_attention_d64(K, len, D) ==
    [row_id \in Idx(B * Hkv) |->
        LET b == row_id \div Hkv
        IN  Loop(K, len[b], D, LAMBDA j : ((b * MAX_S + j) * Hkv + (row_id % Hkv)) * D)]
decode_attention_d128(K, len, D) ==
    [row_id \in Idx(B * Hkv) |->
        LET b == row_id \div Hkv
        IN  Loop(K, len[b], D, LAMBDA j : ((b * MAX_S + j) * Hkv + (row_id % Hkv)) * D)]

q_head_to_kv_head(hq) == hq \div (Hq \div Hkv)

reference_gqa_decode_attention(K, len, D, n) ==
    [row \in Idx(B * Hq) |->
        LET b == row \div Hq
            hkv == q_head_to_kv_head(row % Hq)
        IN  Masked(n, len[b], LAMBDA j :
                [d \in Idx(D) |-> K[RowMajor(n, Hkv, D, b, j, hkv, d)]])]

---------------------------------------------------------------------------
(* Sparse attention over a contiguous cache of n positions: the mask's row for
   the query at q_abs, the reference that reads what the mask shows, and the
   kernel of the sliding windows, which has no mask. *)

Dense == [pattern |-> "dense", window_size |-> 0, sink_tokens |-> 0, block_size |-> 1, block_mask |-> {}]
Larger(x, y) == IF x > y THEN x ELSE y

build_sparse_attention_mask(n, pattern, q_abs) ==
    LET local_start == Larger(0, q_abs - pattern.window_size + 1)
        local(j) == j \in local_start..q_abs
        sink(j) == j < pattern.sink_tokens /\ j <= q_abs
        block(j) == <<q_abs \div pattern.block_size, j \div pattern.block_size>> \in pattern.block_mask
    IN  {j \in Idx(n) : CASE pattern.pattern = "dense" -> j <= q_abs
                          [] pattern.pattern = "sliding_window" -> local(j)
                          [] pattern.pattern = "sliding_window_sink" -> sink(j) \/ local(j)
                          [] pattern.pattern = "block_sparse" -> block(j) /\ j <= q_abs}

_dense_masked_reference_attention(K, visible, D) ==
    [row \in Idx(B * Hq) |->
        LET b == row \div Hq
            hkv == q_head_to_kv_head(row % Hq)
        IN  [j \in visible[b] |-> [d \in Idx(D) |-> K[RowMajor(MAX_S, Hkv, D, b, j, hkv, d)]]]]

SlidingWindow(K, D, sink_tokens, local_start, local_end) ==
    [row_id \in Idx(B * Hq) |->
        LET hkv == (row_id % Hq) \div (Hq \div Hkv)
            b == row_id \div Hq
            kv_base(j) == b * (MAX_S * Hkv * D) + j * (Hkv * D) + hkv * D
            sinks == {j \in Idx(sink_tokens) : j < local_end[b]}
            window == {j \in local_start[b]..(local_end[b] - 1) : j >= sink_tokens}
        IN  [j \in sinks \cup window |-> [d \in Idx(D) |-> At(K, kv_base(j) + d)]]]

reference_sparse_gqa_decode_attention(K, len, pattern, D) ==
    _dense_masked_reference_attention(K,
        [b \in Idx(B) |-> build_sparse_attention_mask(len[b], pattern, len[b] - 1)], D)
sliding_window_gqa_decode_attention(K, len, pattern, D) ==
    SlidingWindow(K, D, pattern.sink_tokens,
        [b \in Idx(B) |-> Larger(0, len[b] - pattern.window_size)], len)

(* Prefill with sparse attention: the output of the query at q_abs, which is
   the same number for the whole batch. *)
reference_sparse_gqa_attention(K, pattern, q_abs, D) ==
    _dense_masked_reference_attention(K,
        [b \in Idx(B) |-> build_sparse_attention_mask(MAX_S, pattern, q_abs)], D)
sliding_window_gqa_attention(K, pattern, q_abs, D) ==
    SlidingWindow(K, D, pattern.sink_tokens,
        [b \in Idx(B) |-> Larger(0, q_abs - pattern.window_size + 1)],
        [b \in Idx(B) |-> IF q_abs + 1 < MAX_S THEN q_abs + 1 ELSE MAX_S])

---------------------------------------------------------------------------
(* Paged cache [NUM_PAGES, PAGE_SIZE, Hkv, D] behind a block table
   [B, MAX_BLOCKS]; an entry of -1 has no page. *)

MAX_BLOCKS == CeilDiv(MAX_S, PAGE_SIZE)
NUM_PAGES == B * MAX_BLOCKS
Capacity == MAX_BLOCKS * PAGE_SIZE

make_identity_block_table == [e \in Idx(B * MAX_BLOCKS) |-> e]

reference_block_table_lookup(table, pos) ==
    [b \in Idx(B) |-> [page |-> table[b * MAX_BLOCKS + pos[b] \div PAGE_SIZE],
                       offset |-> pos[b] % PAGE_SIZE]]

block_table_lookup_kernel(table, pos) ==
    [b \in Idx(B) |->
        LET block_id == pos[b] \div PAGE_SIZE
        IN  [page |-> table[b * MAX_BLOCKS + block_id], offset |-> pos[b] % PAGE_SIZE]]

(* Both updates go through the batch elements in order: of two that name the
   same slot the later one stays. *)
LastWriter(writers) == CHOOSE b \in writers : \A c \in writers : c <= b

reference_paged_kv_cache_update(K_pages, k_new, table, pos, D) ==
    LET target == reference_block_table_lookup(table, pos)
    IN  Array(NUM_PAGES, PAGE_SIZE, Hkv, D, LAMBDA p, o, h, d :
            LET writers == {b \in Idx(B) : target[b] = [page |-> p, offset |-> o]}
            IN  IF writers = {} THEN K_pages[RowMajor(PAGE_SIZE, Hkv, D, p, o, h, d)]
                ELSE k_new[RowMajor(1, Hkv, D, LastWriter(writers), 0, h, d)])

paged_kv_cache_update_kernel(K_pages, k_new, table, pos, D) ==
    [elem \in Idx(NUM_PAGES * PAGE_SIZE * Hkv * D) |->
        LET d == elem % D
            h == (elem \div D) % Hkv
            offset == (elem \div (D * Hkv)) % PAGE_SIZE
            page == elem \div (D * Hkv * PAGE_SIZE)
            writers == {b \in Idx(B) :
                /\ page = table[b * MAX_BLOCKS + pos[b] \div PAGE_SIZE]
                /\ offset = pos[b] % PAGE_SIZE}
        IN  IF writers = {} THEN At(K_pages, elem)
            ELSE At(k_new, (LastWriter(writers) * Hkv + h) * D + d)]

(* The reference gathers every position of the table first; a block without a
   page gathers nothing, and the shapes no longer agree: it raises. *)
Gathers(table) == \A e \in DOMAIN table : table[e] >= 0
Gathered(K_pages, table, D) ==
    Array(B, Capacity, Hkv, D, LAMBDA b, j, h, d :
        K_pages[RowMajor(PAGE_SIZE, Hkv, D,
                         table[b * MAX_BLOCKS + j \div PAGE_SIZE], j % PAGE_SIZE, h, d)])

reference_paged_decode_attention(K_pages, table, len, D) ==
    LET K == Gathered(K_pages, table, D)
    IN  [row \in Idx(B * Hkv) |->
            LET b == row \div Hkv
                h == row % Hkv
            IN  Masked(Capacity, len[b], LAMBDA j :
                    [d \in Idx(D) |-> K[RowMajor(Capacity, Hkv, D, b, j, h, d)]])]

(* where each of the paged kernels finds position j of its row *)
PagedBaseUntranslated(table, row_id, j, D) ==  \* mutant: the block stands for its page
    LET b == row_id \div Hkv
        page_id == b * MAX_BLOCKS + j \div PAGE_SIZE
    IN  ((page_id * PAGE_SIZE + (j % PAGE_SIZE)) * Hkv + (row_id % Hkv)) * D

PagedBase(table, row_id, j, D) ==
    LET b == row_id \div Hkv
        page_id == table[b * MAX_BLOCKS + j \div PAGE_SIZE]
    IN  ((page_id * PAGE_SIZE + (j % PAGE_SIZE)) * Hkv + (row_id % Hkv)) * D

paged_decode_attention_kernel(K_pages, table, len, D) ==
    [row_id \in Idx(B * Hkv) |->
        Loop(K_pages, len[row_id \div Hkv], D, LAMBDA j : PagedBase(table, row_id, j, D))]

paged_decode_attention_threadgroup(K_pages, table, len, D) ==
    [row_id \in Idx(B * Hkv) |->
        Loop(K_pages, len[row_id \div Hkv], D, LAMBDA j : PagedBase(table, row_id, j, D))]

paged_decode_attention_d64(K_pages, table, len, D) ==
    [row_id \in Idx(B * Hkv) |->
        Loop(K_pages, len[row_id \div Hkv], D, LAMBDA j : PagedBase(table, row_id, j, D))]

paged_decode_attention_d128(K_pages, table, len, D) ==
    [row_id \in Idx(B * Hkv) |->
        Loop(K_pages, len[row_id \div Hkv], D, LAMBDA j : PagedBase(table, row_id, j, D))]

reference_paged_gqa_decode_attention(K_pages, table, len, D) ==
    reference_gqa_decode_attention(Gathered(K_pages, table, D), len, D, Capacity)

---------------------------------------------------------------------------
(* Quantized rows.  A group of group_size lanes of a row shares one scale,
   named by the row and the group; a quantized lane only means something with
   the scale of its group.  A zero scale makes any byte zero. *)

groups_per_head(D) == CeilDiv(D, group_size)
D_packed(D) == (D + 1) \div 2
ScaleOf(lane) ==
    IF lane = Zero THEN Zero
    ELSE <<lane[1], lane[2], lane[3], lane[4], lane[5] \div group_size>>
Dequantized(q, scale) ==
    CASE scale = Zero -> Zero
      [] scale # Zero /\ q # Zero /\ scale = ScaleOf(q) -> q
      [] OTHER -> Garbage

(* A byte holds two lanes, the even one in its low half; an odd last lane is
   padded with 0. *)
pack_q4(row, i, D) == [low |-> row[2 * i], high |-> IF 2 * i + 1 < D THEN row[2 * i + 1] ELSE Zero]
unpack_q4(bytes, d) == IF d % 2 = 0 THEN bytes[d \div 2].low ELSE bytes[d \div 2].high

(* A cache quantized with n1 x n2 rows per head: quantize_kv_cache is given the
   batch elements and positions, quantize_kv_pages the pages and offsets.
   Rows that are not kept stay at the zeros the arrays were created with. *)
quantize_8(K, n1, n2, kept, D) ==
    [q |-> Array(n1, n2, Hkv, D, LAMBDA b, s, h, d :
               IF <<b, s>> \in kept THEN K[RowMajor(n2, Hkv, D, b, s, h, d)] ELSE Zero),
     scales |-> Array(n1, n2, Hkv, groups_per_head(D), LAMBDA b, s, h, g :
               IF <<b, s>> \in kept THEN ScaleOf(K[RowMajor(n2, Hkv, D, b, s, h, g * group_size)])
               ELSE Zero)]
quantize_4(K, n1, n2, kept, D) ==
    [q |-> Array(n1, n2, Hkv, D_packed(D), LAMBDA b, s, h, i :
               IF <<b, s>> \in kept
               THEN pack_q4([d \in Idx(D) |-> K[RowMajor(n2, Hkv, D, b, s, h, d)]], i, D)
               ELSE [low |-> Zero, high |-> Zero]),
     scales |-> quantize_8(K, n1, n2, kept, D).scales]

Below(len) == {x \in Idx(B) \X Idx(MAX_S) : x[2] < len[x[1]]}
quantize_kv_cache(K, len, bits, D) ==
    IF bits = 8 THEN quantize_8(K, B, MAX_S, Below(len), D)
                ELSE quantize_4(K, B, MAX_S, Below(len), D)
quantize_kv_pages(K_pages, bits, D) ==
    IF bits = 8 THEN quantize_8(K_pages, NUM_PAGES, PAGE_SIZE, Idx(NUM_PAGES) \X Idx(PAGE_SIZE), D)
                ELSE quantize_4(K_pages, NUM_PAGES, PAGE_SIZE, Idx(NUM_PAGES) \X Idx(PAGE_SIZE), D)

(* One lane of a quantized array of n2 rows per batch element or page. *)
DequantizedLane(Q, bits, n2, D, b, s, h, d) ==
    LET scale == Q.scales[RowMajor(n2, Hkv, groups_per_head(D), b, s, h, d \div group_size)]
        lane == IF bits = 8 THEN Q.q[RowMajor(n2, Hkv, D, b, s, h, d)]
                ELSE unpack_q4([i \in Idx(D_packed(D)) |-> Q.q[RowMajor(n2, Hkv, D_packed(D), b, s, h, i)]], d)
    IN  Dequantized(lane, scale)
dequantize_kv_cache(Q, bits, D) ==
    Array(B, MAX_S, Hkv, D, LAMBDA b, s, h, d : DequantizedLane(Q, bits, MAX_S, D, b, s, h, d))
dequantize_kv_pages(Q, bits, D) ==
    Array(NUM_PAGES, PAGE_SIZE, Hkv, D,
          LAMBDA p, s, h, d : DequantizedLane(Q, bits, PAGE_SIZE, D, p, s, h, d))

reference_quantized_kv_gqa_decode_attention(Q, bits, len, D) ==
    reference_gqa_decode_attention(dequantize_kv_cache(Q, bits, D), len, D, MAX_S)

q8_gqa_decode_attention_kernel(Q, len, D) ==
    LET gph == groups_per_head(D)
    IN  [row_id \in Idx(B * Hq) |->
            LET hkv == (row_id % Hq) \div (Hq \div Hkv)
                b == row_id \div Hq
                kv(j) == b * (MAX_S * Hkv * D) + j * (Hkv * D) + hkv * D
                sc(j) == b * (MAX_S * Hkv * gph) + j * (Hkv * gph) + hkv * gph
            IN  [j \in Idx(len[b]) |-> [d \in Idx(D) |->
                    Dequantized(At(Q.q, kv(j) + d), At(Q.scales, sc(j) + d \div group_size))]]]

q4_gqa_decode_attention_kernel(Q, len, D) ==
    LET gph == groups_per_head(D)
        Dp == D_packed(D)
    IN  [row_id \in Idx(B * Hq) |->
            LET hkv == (row_id % Hq) \div (Hq \div Hkv)
                b == row_id \div Hq
                kv(j) == b * (MAX_S * Hkv * Dp) + j * (Hkv * Dp) + hkv * Dp
                sc(j) == b * (MAX_S * Hkv * gph) + j * (Hkv * gph) + hkv * gph
            IN  [j \in Idx(len[b]) |-> [d \in Idx(D) |->
                    Dequantized(unpack_q4([i \in Idx(Dp) |-> Q.q[kv(j) + i]], d),
                                At(Q.scales, sc(j) + d \div group_size))]]]

---------------------------------------------------------------------------
(* Paged and quantized. *)

contiguous_kv_to_pages(K, len, D) ==
    LET page(b, j) == b * MAX_BLOCKS + j \div PAGE_SIZE
    IN  [pages |-> Array(NUM_PAGES, PAGE_SIZE, Hkv, D, LAMBDA p, o, h, d :
             LET b == p \div MAX_BLOCKS
                 j == (p % MAX_BLOCKS) * PAGE_SIZE + o
             IN  IF j < len[b] THEN K[RowMajor(MAX_S, Hkv, D, b, j, h, d)] ELSE Zero),
         table |-> [e \in Idx(B * MAX_BLOCKS) |->
             LET b == e \div MAX_BLOCKS
             IN  IF \E j \in Idx(len[b]) : page(b, j) = e THEN e ELSE -1]]

pages_to_contiguous_kv(K_pages, table, len, D) ==
    Array(B, MAX_S, Hkv, D, LAMBDA b, j, h, d :
        LET page_id == table[b * MAX_BLOCKS + j \div PAGE_SIZE]
        IN  IF j < len[b] /\ page_id >= 0
            THEN K_pages[RowMajor(PAGE_SIZE, Hkv, D, page_id, j % PAGE_SIZE, h, d)]
            ELSE Zero)

(* The reference gathers only the positions below each length but masks and
   weighs Capacity of them: with any other length the shapes disagree. *)
PagedQuantizedGathers(table, len) ==
    \A b \in Idx(B) : len[b] = Capacity /\ \A j \in Idx(len[b]) :
        table[b * MAX_BLOCKS + j \div PAGE_SIZE] >= 0
reference_paged_quantized_kv_gqa_decode_attention(Q, bits, table, len, D) ==
    LET K == dequantize_kv_pages(Q, bits, D)
    IN  [row \in Idx(B * Hq) |->
            LET b == row \div Hq
                hkv == q_head_to_kv_head(row % Hq)
            IN  [j \in Idx(len[b]) |-> [d \in Idx(D) |->
                    K[RowMajor(PAGE_SIZE, Hkv, D,
                               table[b * MAX_BLOCKS + j \div PAGE_SIZE], j % PAGE_SIZE, hkv, d)]]]]

(* The kernels skip a position whose block has no page. *)
Paged(table, b, len) == {j \in Idx(len) : table[b * MAX_BLOCKS + j \div PAGE_SIZE] >= 0}

q8_paged_gqa_decode_attention_kernel(Q, table, len, D) ==
    LET gph == groups_per_head(D)
    IN  [row_id \in Idx(B * Hq) |->
            LET hkv == (row_id % Hq) \div (Hq \div Hkv)
                b == row_id \div Hq
                page(j) == table[b * MAX_BLOCKS + j \div PAGE_SIZE]
                kv(j) == page(j) * (PAGE_SIZE * Hkv * D) + (j % PAGE_SIZE) * (Hkv * D) + hkv * D
                sc(j) == page(j) * (PAGE_SIZE * Hkv * gph) + (j % PAGE_SIZE) * (Hkv * gph) + hkv * gph
            IN  [j \in Paged(table, b, len[b]) |-> [d \in Idx(D) |->
                    Dequantized(At(Q.q, kv(j) + d), At(Q.scales, sc(j) + d \div group_size))]]]

q4_paged_gqa_decode_attention_kernel(Q, table, len, D) ==
    LET gph == groups_per_head(D)
        Dp == D_packed(D)
    IN  [row_id \in Idx(B * Hq) |->
            LET hkv == (row_id % Hq) \div (Hq \div Hkv)
                b == row_id \div Hq
                page(j) == table[b * MAX_BLOCKS + j \div PAGE_SIZE]
                kv(j) == page(j) * (PAGE_SIZE * Hkv * Dp) + (j % PAGE_SIZE) * (Hkv * Dp) + hkv * Dp
                sc(j) == page(j) * (PAGE_SIZE * Hkv * gph) + (j % PAGE_SIZE) * (Hkv * gph) + hkv * gph
            IN  [j \in Paged(table, b, len[b]) |-> [d \in Idx(D) |->
                    Dequantized(unpack_q4([i \in Idx(Dp) |-> Q.q[kv(j) + i]], d),
                                At(Q.scales, sc(j) + d \div group_size))]]]
=============================================================================
