------------------------- MODULE ThreadgroupKernels -------------------------
(***************************************************************************)
(* The Metal kernels that share threadgroup memory (kernels/*.metal): one  *)
(* threadgroup computes one row of attention, one row of a norm or a tile  *)
(* of a matrix-vector product, with its threads in step at the barriers    *)
(* only.  Threadgroups share nothing, so one of them is modelled, in each  *)
(* of its roles:                                                           *)
(*   "streaming"    fast_attention_threadgroup, gqa_attention_threadgroup, *)
(*                  decode_attention_threadgroup and its paged form        *)
(*   "row_parallel" fast_attention_row_parallel                            *)
(*   "tiled_kv"     fast_attention_tiled_kv                                *)
(*   "matvec"       q4/q8_matvec_decode_parallel and _tiled, the gate/up   *)
(*                  kernels (whose two halves are alike)                   *)
(*   "rms_norm"     rms_norm, rmsnorm_residual                             *)
(* A step is all that a thread, or a simdgroup where simd_sum makes its    *)
(* lanes one, does from one phase of the kernel to the next.  That it is   *)
(* one step is right if no two threads race, which NoRace says.            *)
(*                                                                         *)
(* Numbers are what went into them: a partial sum counts the products in   *)
(* it, a softmax accumulator lists its rows, each with its score and the   *)
(* maximum it is scaled to.                                                *)
(***************************************************************************)
EXTENDS Naturals, Sequences, FiniteSets

CONSTANTS
    Launches,   \* the launches explored: see Supported
    SimdWidth,  \* lanes of a simdgroup (32)
    KVTile      \* KV_TILE

VARIABLES
    launch,   \* what the threadgroup was launched for
    at,       \* at[t]: the phase thread t is to do next
    waiting,  \* the threads at a threadgroup_barrier
    memory,   \* threadgroup memory: the cells written so far
    acc,      \* acc[d]: the accumulator of dim d, a register of thread d % T
    out       \* what was written of the output row or tile
vars == <<launch, at, waiting, memory, acc, out>>

---------------------------------------------------------------------------
(* Launches.  dims is D, or K of a product; rows the key positions; query
   the last position that is not masked; first and tile the outputs of a
   threadgroup of a product with outputs of them. *)

PowersOfTwo == {1, 2, 4, 8, 16, 32, 64, 128, 256}
Simd(l) == l.kernel \in {"row_parallel", "rms_norm"}

Supported(l) ==
    /\ l.threads \in PowersOfTwo
    /\ l.dims >= 1 /\ l.tile >= 1
    /\ l.kernel # "matvec" => l.tile = 1  \* one scratch vector
    /\ l.kernel = "streaming" => l.dims <= l.threads
    /\ l.kernel \in {"row_parallel", "tiled_kv"} => l.rows >= 1 /\ l.dims <= 2 * l.threads
    /\ Simd(l) => l.threads % SimdWidth = 0 /\ l.threads \div SimdWidth <= SimdWidth

ASSUME LaunchAssumption ==
    /\ SimdWidth \in Nat \ {0} /\ KVTile \in Nat \ {0}
    /\ Launches \subseteq [kernel : {"streaming", "row_parallel", "tiled_kv", "matvec", "rms_norm"},
                           threads : Nat, dims : Nat, rows : Nat, query : Nat,
                           first : Nat, tile : Nat, outputs : Nat]

T == launch.threads
Threads == 0..T-1
Dims == 0..launch.dims-1
Mine(t) == {d \in Dims : d % T = t}  \* for (d = tid; d < D; d += tg_size)
Masked(k) == k > launch.query
SimdGroup(t) == {u \in Threads : u \div SimdWidth = t \div SimdWidth}
Unit(t) == IF Simd(launch) THEN SimdGroup(t) ELSE {t}
FirstLane(t) == t = SimdWidth * (t \div SimdWidth)
TileRows(start) == {tk \in 0..KVTile-1 : start + tk < launch.rows}  \* 0..tile_len-1

---------------------------------------------------------------------------
(* Phases: op, and what it is about, a row k (or the start of a tile) and
   the offset of a reduction or the number of a pass. *)

P(op, k, n) == [op |-> op, k |-> k, n |-> n]
Output == P("output", 0, 0)
Done == P("done", 0, 0)

Row(k) == IF k < launch.rows /\ ~Masked(k) THEN P("dot", k, 0) ELSE Output
HalveToTwo(k, n) ==  \* mutant: the loop ends one halving early
    IF n > 1 THEN P("reduce", k, n)
    ELSE IF launch.kernel = "matvec" THEN Output ELSE P("softmax", k, 0)
Halve(k, n) == IF n > 0 THEN P("reduce", k, n)
               ELSE IF launch.kernel = "matvec" THEN Output ELSE P("softmax", k, 0)
Pass(n, k) == IF k < launch.rows THEN P("simd_dot", k, n)
              ELSE CASE n = 1 -> P("zero_denom", 0, 0)
                     [] n = 2 -> P("simd_dot", 0, 3)
                     [] OTHER -> Output

Start ==
    CASE launch.kernel \in {"streaming", "tiled_kv"} -> P("load", 0, 0)
      [] launch.kernel = "row_parallel" -> P("zero_max", 0, 0)
      [] launch.kernel = "rms_norm" -> P("simd_squares", 0, 0)
      [] OTHER -> P("partial", 0, 0)

After(p) ==
    CASE p.op = "load" -> IF launch.kernel = "tiled_kv" THEN P("stage", 0, 0) ELSE Row(0)
      [] p.op \in {"dot", "partial"} -> Halve(p.k, T \div 2)
      [] p.op = "reduce" -> Halve(p.k, p.n \div 2)
      [] p.op = "softmax" -> P("accumulate", p.k, 0)
      [] p.op = "accumulate" -> IF launch.kernel = "streaming" THEN Row(p.k + 1) ELSE Pass(3, p.k + 1)
      [] p.op = "zero_max" -> Pass(1, 0)
      [] p.op = "zero_denom" -> Pass(2, 0)
      [] p.op = "simd_dot" -> P("simd_score", p.k, p.n)
      [] p.op = "simd_score" -> IF p.n = 3 THEN P("accumulate", p.k, 3) ELSE Pass(p.n, p.k + 1)
      [] p.op = "simd_squares" -> P("simd_total", 0, 0)
      [] p.op = "stage" -> P("tile_scores", p.k, 0)
      [] p.op = "tile_scores" -> P("tile_accumulate", p.k, 0)
      [] p.op = "tile_accumulate" -> P("tile_update", p.k, 0)
      [] p.op = "tile_update" -> IF p.k + KVTile < launch.rows THEN P("stage", p.k + KVTile, 0) ELSE Output
      [] p.op = "simd_total" -> Output
      [] OTHER -> Done

BarrierNotAfterSoftmax(p) == p # Output /\ p.op # "softmax"  \* mutant: a barrier is missing

BarrierAfter(p) == p # Output

---------------------------------------------------------------------------
(* Threadgroup memory: what a thread reads and writes in a phase.  A cell it
   writes before it reads it is not read.  "m" is shared_m or shared_row_max,
   "l" shared_l or shared_denom. *)

Q(d) == <<"q", d>>
Scratch(n, t) == <<"scratch", n, t>>
Partial(g) == <<"simd_partials", g>>
K(tk, d) == <<"k_tile", tk, d>>
V(tk, d) == <<"v_tile", tk, d>>
Score(tk) == <<"tile_scores", tk>>
Shared(names) == {<<name>> : name \in names}
ThreadZero(t, cells) == IF t = 0 THEN cells ELSE {}

Staged(start, t) ==  \* for (idx = tid; idx < tile_len * D; idx += tg_size)
    {x \in TileRows(start) \X Dims : (x[1] * launch.dims + x[2]) % T = t}

Reads(p, t) ==
    CASE p.op = "dot" -> {Q(d) : d \in Mine(t)}
      [] p.op = "reduce" -> IF t < p.n THEN {Scratch(n, u) : n \in 0..launch.tile-1, u \in {t, t + p.n}} ELSE {}
      [] p.op = "softmax" -> ThreadZero(t, {Scratch(0, 0)} \cup Shared({"m", "l"}))
      [] p.op = "accumulate" ->
            IF launch.kernel = "streaming"
            THEN IF t \in Dims THEN Shared({"alpha", "beta"}) ELSE {}
            ELSE IF Masked(p.k) THEN {} ELSE Shared({"score", "m", "l"})
      [] p.op \in {"simd_score", "simd_total"} ->
            (IF t < T \div SimdWidth THEN {Partial(t)} ELSE {})
            \cup ThreadZero(t, IF p.op = "simd_total" \/ p.n = 3 \/ Masked(p.k) THEN {}
                               ELSE IF p.n = 1 THEN Shared({"m"}) ELSE Shared({"m", "l"}))
      [] p.op = "tile_scores" ->
            ThreadZero(t, {Q(d) : d \in Dims} \cup {K(tk, d) : tk \in TileRows(p.k), d \in Dims} \cup Shared({"m"}))
      [] p.op = "tile_accumulate" ->
            {Score(tk) : tk \in TileRows(p.k)} \cup Shared({"alpha", "m_new"})
            \cup {V(tk, d) : tk \in TileRows(p.k), d \in Mine(t)}
      [] p.op = "tile_update" -> ThreadZero(t, Shared({"l", "alpha", "tile_sum", "m_new"}))
      [] p.op = "output" ->
            CASE launch.kernel = "matvec" -> ThreadZero(t, {Scratch(n, 0) : n \in 0..launch.tile-1})
              [] launch.kernel = "rms_norm" -> Shared({"inv_rms"})
              [] launch.kernel = "row_parallel" -> {}
              [] OTHER -> IF t \in Dims THEN Shared({"l"}) ELSE {}
      [] OTHER -> {}

Writes(p, t) ==
    CASE p.op = "load" -> {Q(d) : d \in Mine(t)} \cup ThreadZero(t, Shared({"m", "l"}))
      [] p.op = "dot" -> {Scratch(0, t)}
      [] p.op = "partial" -> {Scratch(n, t) : n \in 0..launch.tile-1}
      [] p.op = "reduce" -> IF t < p.n THEN {Scratch(n, t) : n \in 0..launch.tile-1} ELSE {}
      [] p.op = "softmax" -> ThreadZero(t, Shared({"score", "alpha", "beta", "m", "l"}))
      [] p.op = "zero_max" -> ThreadZero(t, Shared({"m"}))
      [] p.op = "zero_denom" -> ThreadZero(t, Shared({"l"}))
      [] p.op \in {"simd_dot", "simd_squares"} -> IF FirstLane(t) THEN {Partial(t \div SimdWidth)} ELSE {}
      [] p.op = "simd_score" ->
            ThreadZero(t, (IF p.n = 1 THEN {} ELSE Shared({"score"}))
                          \cup (IF Masked(p.k) \/ p.n = 3 THEN {} ELSE Shared({IF p.n = 1 THEN "m" ELSE "l"})))
      [] p.op = "simd_total" -> ThreadZero(t, Shared({"inv_rms"}))
      [] p.op = "stage" -> {K(x[1], x[2]) : x \in Staged(p.k, t)} \cup {V(x[1], x[2]) : x \in Staged(p.k, t)}
      [] p.op = "tile_scores" ->
            ThreadZero(t, {Score(tk) : tk \in TileRows(p.k)} \cup Shared({"m_new", "alpha", "tile_sum"}))
      [] p.op = "tile_update" -> ThreadZero(t, Shared({"l", "m"}))
      [] OTHER -> {}

---------------------------------------------------------------------------
(* What is written. *)

Items == CASE launch.kernel = "matvec" -> (0..launch.outputs-1) \X Dims
           [] launch.kernel = "rms_norm" -> {0} \X Dims
           [] OTHER -> (0..launch.rows-1) \X Dims
Of(k, dims) == [x \in Items |-> IF x[1] = k /\ x[2] \in dims THEN 1 ELSE 0]
Plus(f, g) == [x \in Items |-> f[x] + g[x]]
Total(values, S) ==  \* the size of the disjoint union, item by item
    [x \in Items |-> Cardinality(UNION {{i} \X (1..values[i][x]) : i \in S})]

(* exp(score - max) of a row, over the denominator. *)
Weight(k, score, max, over) == [row |-> k, score |-> score, max |-> max, over |-> over]

(* x * alpha: 0 as long as there is no maximum. *)
Rescaled(x, alpha) ==
    IF alpha.from = <<>> THEN <<>>
    ELSE [i \in DOMAIN x |-> IF x[i].max = alpha.from THEN [x[i] EXCEPT !.max = alpha.to] ELSE x[i]]

StreamingValue(p, c, t, s) ==
    CASE p.op = "load" -> IF c[1] = "q" THEN c[2] ELSE <<>>
      [] p.op = "dot" -> Of(p.k, {d \in Mine(t) : s[Q(d)] = d})
      [] p.op = "partial" ->
            IF launch.first + c[2] < launch.outputs THEN Of(launch.first + c[2], Mine(t)) ELSE Of(0, {})
      [] p.op = "reduce" -> Plus(s[c], s[Scratch(c[2], t + p.n)])
      [] p.op = "softmax" ->
            LET score == s[Scratch(0, 0)]
                m == s[<<"m">>]
                m_new == Append(m, score)
                alpha == [from |-> m, to |-> m_new]
                beta == Weight(p.k, score, m_new, <<>>)
            IN  CASE c = <<"score">> -> score
                  [] c = <<"m">> -> m_new
                  [] c = <<"alpha">> -> alpha
                  [] c = <<"beta">> -> beta
                  [] OTHER -> Append(Rescaled(s[<<"l">>], alpha), beta)

SimdValue(p, c, ts, s) ==
    LET total == Total([g \in 0..T \div SimdWidth - 1 |-> s[Partial(g)]], 0..T \div SimdWidth - 1)
    IN  IF p.op \in {"zero_max", "zero_denom"} THEN <<>>
        ELSE IF p.op \in {"simd_dot", "simd_squares"}
        THEN Of(p.k, IF p.op = "simd_dot" /\ Masked(p.k) THEN {} ELSE UNION {Mine(t) : t \in ts})
        ELSE CASE c = <<"m">> -> Append(s[c], total)
               [] c = <<"l">> -> Append(s[c], Weight(p.k, total, s[<<"m">>], <<>>))
               [] OTHER -> total

TiledValue(p, c, s) ==
    LET visible == {tk \in TileRows(p.k) : ~Masked(p.k + tk)}  \* the first rows of the tile
        dot(tk) == [x \in Items |-> Cardinality({d \in Dims : s[K(tk, d)] = x /\ s[Q(d)] = x[2]})]
        scores == [i \in 1..Cardinality(visible) |-> dot(i - 1)]
        m_new == s[<<"m">>] \o scores
    IN  CASE p.op = "stage" -> <<p.k + c[2], c[3]>>
          [] c = <<"m_new">> -> m_new
          [] c = <<"alpha">> -> [from |-> s[<<"m">>], to |-> m_new]
          [] c = <<"tile_sum">> -> [i \in DOMAIN scores |-> Weight(p.k + i - 1, scores[i], m_new, <<>>)]
          [] c = <<"m">> -> s[<<"m_new">>]
          [] c = <<"l">> -> Rescaled(s[c], s[<<"alpha">>]) \o s[<<"tile_sum">>]
          [] OTHER -> IF c[2] \in visible THEN <<dot(c[2])>> ELSE <<>>  \* -INFINITY

Value(p, c, ts, s) ==
    IF p.op \in {"stage", "tile_scores", "tile_update"} THEN TiledValue(p, c, s)
    ELSE IF Simd(launch) THEN SimdValue(p, c, ts, s)
    ELSE StreamingValue(p, c, CHOOSE t \in ts : TRUE, s)

Accumulated(p, d, s) ==
    CASE p.op = "tile_accumulate" ->
            LET finite == {tk \in TileRows(p.k) : s[Score(tk)] # <<>>}  \* the first rows of the tile
            IN  Rescaled(acc[d], s[<<"alpha">>])
                \o [i \in 1..Cardinality(finite) |->
                        Weight(s[V(i - 1, d)][1], s[Score(i - 1)][1], s[<<"m_new">>], <<>>)]
      [] p.op = "accumulate" /\ launch.kernel = "streaming" ->
            Append(Rescaled(acc[d], s[<<"alpha">>]), Weight(p.k, s[<<"beta">>].score, s[<<"beta">>].max, <<>>))
      [] p.op = "accumulate" /\ launch.kernel # "streaming" /\ ~Masked(p.k) ->
            Append(acc[d], Weight(p.k, s[<<"score">>], s[<<"m">>], s[<<"l">>]))
      [] OTHER -> acc[d]

Tile == {n \in launch.first..launch.first+launch.tile-1 : n < launch.outputs}
Outputs(t) == IF launch.kernel = "matvec" THEN ThreadZero(t, Tile) ELSE Mine(t)
Stored(n, s) ==
    CASE launch.kernel = "matvec" -> s[Scratch(n - launch.first, 0)]
      [] launch.kernel = "rms_norm" -> s[<<"inv_rms">>]
      [] launch.kernel = "row_parallel" -> <<acc[n], <<>>>>
      [] OTHER -> <<acc[n], s[<<"l">>]>>

---------------------------------------------------------------------------
Init ==
    /\ launch \in Launches
    /\ Supported(launch)
    /\ at = [t \in Threads |-> Start]
    /\ waiting = {}
    /\ memory = <<>>
    /\ acc = [d \in Dims |-> <<>>]
    /\ out = <<>>

Step(t) ==
    /\ t \notin waiting /\ at[t] # Done
    /\ LET p == at[t]
           ts == Unit(t)
           s == [c \in UNION {Reads(p, u) : u \in ts} |-> memory[c]]
           written == UNION {Writes(p, u) : u \in ts}
           stored == IF p = Output THEN UNION {Outputs(u) : u \in ts} ELSE {}
       IN  /\ memory' = [c \in written \cup DOMAIN memory |->
                            IF c \in written THEN Value(p, c, ts, s) ELSE memory[c]]
           /\ acc' = [d \in Dims |-> IF d % T \in ts THEN Accumulated(p, d, s) ELSE acc[d]]
           /\ out' = [n \in stored \cup DOMAIN out |-> IF n \in stored THEN Stored(n, s) ELSE out[n]]
           /\ at' = [u \in Threads |-> IF u \in ts THEN After(p) ELSE at[u]]
           /\ waiting' = IF ~BarrierAfter(p) THEN waiting
                         ELSE IF waiting \cup ts = Threads THEN {} ELSE waiting \cup ts
    /\ UNCHANGED launch

Finished == (\A t \in Threads : at[t] = Done) /\ UNCHANGED vars

Next == (\E t \in Threads : Step(t)) \/ Finished
Spec == Init /\ [][Next]_vars

---------------------------------------------------------------------------
(* No two threads of a threadgroup may touch a cell of threadgroup memory at
   the same time, one of them writing: the barriers of every kernel are where
   they must be, in every loop, for every shape the Python side lets through. *)
NoRace ==
    \A t, u \in Threads :
        t # u /\ t \notin waiting /\ u \notin waiting
        => Writes(at[t], t) \cap (Reads(at[u], u) \cup Writes(at[u], u)) = {}

(* When the threadgroup is done, in whatever order its threads ran: every
   output is there; an attention row is the softmax of all rows that are not
   masked, each with its whole dot product, scaled to the maximum of all and
   over the sum of all; a product or a norm sums every element once. *)
Whole(k) == Of(k, Dims)
Visible == {k \in 0..launch.rows-1 : ~Masked(k)}
Softmax(over) ==
    LET max == [i \in 1..Cardinality(Visible) |-> Whole(i - 1)]
    IN  [i \in DOMAIN max |-> Weight(i - 1, max[i], max, over)]
Reference ==
    CASE launch.kernel = "matvec" -> [n \in Tile |-> Whole(n)]
      [] launch.kernel = "rms_norm" -> [d \in Dims |-> Whole(0)]
      [] launch.kernel = "row_parallel" -> [d \in Dims |-> <<Softmax(Softmax(<<>>)), <<>>>>]
      [] OTHER -> [d \in Dims |-> <<Softmax(<<>>), Softmax(<<>>)>>]
RowIsReference == (\A t \in Threads : at[t] = Done) => out = Reference
=============================================================================
