---------------------- MODULE ThreadgroupKernelsProofs ----------------------
(***************************************************************************)
(* No two threads of a threadgroup race, for every shape, number of        *)
(* threads and simdgroup width.  Two facts make it: the threads that are   *)
(* not at a barrier are all in one phase (InStep), since only output is    *)
(* not followed by one; and within a phase no two threads touch a cell one *)
(* of them writes (DisjointAccess).                                        *)
(*                                                                         *)
(* So the row that is written does not depend on the order the threads ran *)
(* in, and it is the reference.  RowInv says what every cell that is still *)
(* to be read holds, phase by phase (Live, Expect), and what the           *)
(* accumulators do (AccAt).  That each phase takes it from what it finds   *)
(* to what the next one expects is a lemma per phase (... Advances); that  *)
(* the threads get from one phase to the next at a barrier, and keep       *)
(* RowInv at every step on the way, is one argument for all (StepRow).     *)
(***************************************************************************)
EXTENDS ThreadgroupKernels, FiniteSetTheorems, SequenceTheorems, TLAPS

IsPhase(p) == p.k \in Nat /\ p.n \in Nat
LastPhases == {Output, Done}

LaunchTyped == launch \in Launches /\ T \in Nat
PhaseTyped == (\A t \in Threads : IsPhase(at[t])) /\ waiting \subseteq Threads
InStep ==
    /\ \A t, u \in Threads \ waiting : at[t] = at[u] \/ {at[t], at[u]} \subseteq LastPhases
    /\ \A t \in waiting, u \in Threads \ waiting : at[t] = After(at[u]) /\ at[u] \notin LastPhases
IInv == LaunchTyped /\ PhaseTyped /\ InStep

(* The row and the offset of a phase are numbers, and so are those of the one
   that follows (control flow of the kernels). *)
LEMMA AfterTyped ==
  ASSUME LaunchTyped, NEW p, IsPhase(p)
  PROVE  IsPhase(After(p))
<1>1. KVTile \in Nat /\ launch.rows \in Nat /\ p.k \in Nat /\ p.n \in Nat
  BY LaunchAssumption DEF LaunchTyped, IsPhase
<1>2. \A o, k, n : k \in Nat /\ n \in Nat => IsPhase(P(o, k, n))
  BY DEF P, IsPhase
<1>3. IsPhase(Output) /\ IsPhase(Done)
  BY <1>2 DEF Output, Done
<1>4. \A k, n \in Nat : IsPhase(Halve(k, n))
  BY <1>2, <1>3 DEF Halve
<1>5. \A k \in Nat : IsPhase(Row(k))
  BY <1>2, <1>3 DEF Row
<1>6. \A k, n \in Nat : IsPhase(Pass(n, k))
  BY <1>2, <1>3 DEF Pass
<1>7. /\ T \div 2 \in Nat /\ p.n \div 2 \in Nat
      /\ p.k + 1 \in Nat /\ p.k + KVTile \in Nat
  BY <1>1 DEF LaunchTyped
<1> QED
  BY <1>1, <1>2, <1>3, <1>4, <1>5, <1>6, <1>7 DEF After

(* After the output a thread is done. *)
LEMMA AfterOutput == After(Output) = Done
BY DEF After, Output, P

(* The first phase of every kernel. *)
LEMMA StartTyped == IsPhase(Start)
<1>1. \A o : IsPhase(P(o, 0, 0))
  BY DEF P, IsPhase
<1> QED
  BY <1>1 DEF Start

(* Within one phase no thread writes a cell another one reads or writes. *)
LEMMA DisjointAccess ==
  ASSUME LaunchTyped, NEW p, IsPhase(p), NEW t \in Threads, NEW u \in Threads, t # u
  PROVE  Writes(p, t) \cap (Reads(p, u) \cup Writes(p, u)) = {}
<1>0. t \in Nat /\ u \in Nat /\ p.n \in Nat /\ p.k \in Nat
  BY DEF Threads, IsPhase, LaunchTyped
<1>1. CASE p.op = "load"
  BY <1>0, <1>1 DEF Reads, Writes, Q, Mine, ThreadZero, Shared
<1>2. CASE p.op \in {"dot", "partial"}
  BY <1>0, <1>2 DEF Reads, Writes, Q, Mine, Scratch
<1>3. CASE p.op = "reduce"
  BY <1>0, <1>3 DEF Reads, Writes, Scratch
<1>4. CASE p.op = "softmax"
  BY <1>0, <1>4 DEF Reads, Writes, ThreadZero, Shared
<1>5. CASE p.op \in {"zero_max", "zero_denom"}
  BY <1>0, <1>5 DEF Reads, Writes, ThreadZero, Shared
<1>6. CASE p.op \in {"simd_dot", "simd_squares"}
  BY <1>0, <1>6, LaunchAssumption DEF Reads, Writes, FirstLane, Partial
<1>7. CASE p.op = "simd_score"
  BY <1>0, <1>7 DEF Reads, Writes, ThreadZero, Shared, Partial
<1>8. CASE p.op = "simd_total"
  BY <1>0, <1>8 DEF Reads, Writes, ThreadZero, Shared, Partial
<1>9. CASE p.op = "stage"
  BY <1>0, <1>9 DEF Reads, Writes, Staged, K, V
<1>10. CASE p.op = "tile_scores"
  BY <1>0, <1>10 DEF Reads, Writes, ThreadZero, Shared, Score
<1>11. CASE p.op = "tile_update"
  BY <1>0, <1>11 DEF Reads, Writes, ThreadZero, Shared
<1>12. CASE p.op \notin {"load", "dot", "partial", "reduce", "softmax", "zero_max", "zero_denom", "simd_dot",
                         "simd_squares", "simd_score", "simd_total", "stage", "tile_scores", "tile_update"}
  BY <1>12 DEF Writes
<1> QED
  BY <1>1, <1>2, <1>3, <1>4, <1>5, <1>6, <1>7, <1>8, <1>9, <1>10, <1>11, <1>12

---------------------------------------------------------------------------
(* Before the first barrier every thread is at the first phase. *)
LEMMA InitInv == Init => IInv
<1> SUFFICES ASSUME Init PROVE IInv
  OBVIOUS
<1>1. LaunchTyped
  BY LaunchAssumption DEF Init, LaunchTyped, T
<1>2. \A t \in Threads : at[t] = Start
  BY DEF Init
<1> QED
  BY <1>1, <1>2, StartTyped DEF Init, IInv, PhaseTyped, InStep

(* A thread runs its phase, or the barrier opens when all of them wait. *)
LEMMA StepInv == IInv /\ [Next]_vars => IInv'
<1> SUFFICES ASSUME IInv, [Next]_vars PROVE IInv'
  OBVIOUS
<1>1. CASE UNCHANGED vars
  BY <1>1 DEF vars, IInv, LaunchTyped, PhaseTyped, InStep, T, Threads, IsPhase, After, Halve, Row, Pass, Masked
<1>2. ASSUME NEW t \in Threads, Step(t) PROVE IInv'
  <2> DEFINE p == at[t]
             ts == Unit(t)
  <2>1. t \notin waiting /\ p # Done /\ UNCHANGED launch
    BY <1>2 DEF Step
  <2>2. LaunchTyped' /\ Threads' = Threads /\ \A q : After(q)' = After(q)
    BY <2>1 DEF IInv, LaunchTyped, T, Threads, After, Halve, Row, Pass, Masked
  <2>3. \A u \in Threads : at'[u] = IF u \in ts THEN After(p) ELSE at[u]
    BY <1>2 DEF Step
  <2>4. waiting' = IF ~BarrierAfter(p) THEN waiting
                   ELSE IF waiting \cup ts = Threads THEN {} ELSE waiting \cup ts
    BY <1>2 DEF Step
  <2>5. ts \subseteq Threads /\ t \in ts
    BY DEF Unit, SimdGroup
  <2>6. IsPhase(p) /\ IsPhase(After(p)) /\ \A u \in Threads : IsPhase(at[u])
    BY AfterTyped DEF IInv, PhaseTyped
  <2>7. \A u \in Threads : IsPhase(at'[u])
    BY <2>3, <2>6
  <2>8. waiting' \subseteq Threads
    BY <2>4, <2>5 DEF IInv, PhaseTyped
  <2> HIDE DEF ts
  <2>9. InStep'
    <3>1. CASE p = Output
      <4>1. waiting = {} /\ waiting' = {}
        BY <3>1, <2>1, <2>4 DEF IInv, PhaseTyped, InStep, LastPhases, BarrierAfter
      <4>2. \A u \in Threads : at[u] \in LastPhases
        BY <3>1, <4>1, <2>1 DEF IInv, InStep, LastPhases
      <4>3. \A u \in Threads : at'[u] \in LastPhases
        BY <3>1, <4>2, <2>3, AfterOutput DEF LastPhases
      <4> QED
        BY <4>1, <4>3, <2>2 DEF InStep, LastPhases, Output, Done, P
    <3>2. CASE p # Output
      <4>1. p \notin LastPhases
        BY <3>2, <2>1 DEF LastPhases
      <4>2. \A u \in Threads \ waiting : at[u] = p
        BY <4>1, <2>1 DEF IInv, InStep
      <4>3. \A u \in waiting : at[u] = After(p)
        BY <2>1 DEF IInv, InStep
      <4>4. \A u \in waiting \cup ts : at'[u] = After(p)
        BY <4>3, <2>3, <2>5 DEF IInv, PhaseTyped
      <4>5. \A u \in Threads \ (waiting \cup ts) : at'[u] = p
        BY <4>2, <2>3
      <4>6. waiting' = IF waiting \cup ts = Threads THEN {} ELSE waiting \cup ts
        BY <3>2, <2>4 DEF BarrierAfter
      <4>7. CASE waiting \cup ts = Threads
        BY <4>7, <4>4, <4>6, <2>2 DEF InStep
      <4>8. CASE waiting \cup ts # Threads
        <5>1. \A u \in Threads \ waiting' : at'[u] = p
          BY <4>8, <4>5, <4>6
        <5>2. \A u \in waiting' : at'[u] = After(p)
          BY <4>8, <4>4, <4>6
        <5>3. LastPhases' = LastPhases
          BY DEF LastPhases, Output, Done, P
        <5>4. \A q : After(q)' = After(q)
          BY <2>2
        <5> QED
          BY <5>1, <5>2, <5>3, <2>2, <4>1 DEF InStep
      <4> QED
        BY <4>7, <4>8
    <3> QED
      BY <3>1, <3>2
  <2> QED
    BY <2>2, <2>7, <2>8, <2>9 DEF IInv, PhaseTyped, IsPhase
<1>3. CASE Finished
  BY <1>1, <1>3 DEF Finished
<1> QED
  BY <1>1, <1>2, <1>3 DEF Next

(* The inductive invariant is strong enough. *)
LEMMA InvNoRace == IInv => NoRace
<1> SUFFICES ASSUME IInv, NEW t \in Threads, NEW u \in Threads,
                    t # u, t \notin waiting, u \notin waiting
             PROVE  Writes(at[t], t) \cap (Reads(at[u], u) \cup Writes(at[u], u)) = {}
  BY DEF NoRace
<1>1. CASE at[t] = at[u]
  BY <1>1, DisjointAccess DEF IInv, PhaseTyped
<1>2. CASE {at[t], at[u]} \subseteq LastPhases
  BY <1>2 DEF LastPhases, Output, Done, P, Writes
<1> QED
  BY <1>1, <1>2 DEF IInv, InStep

(* No two threads of a threadgroup touch a cell of threadgroup memory at the
   same time, one of them writing, in any of the kernels. *)
THEOREM RaceFree == Spec => []NoRace
<1>1. IInv /\ [][Next]_vars => []IInv
  BY StepInv, PTL
<1> QED
  BY InitInv, InvNoRace, <1>1, PTL DEF Spec

---------------------------------------------------------------------------
(* The row that is written.  When phase p begins, a cell that is read later,
   without having been written again, is in Live(p) and holds Expect(p, c). *)

NumVisible == IF launch.rows <= launch.query THEN launch.rows ELSE launch.query + 1
Upto(k) == IF k <= NumVisible THEN k ELSE NumVisible  \* the visible rows below k

Maxima(n) == [i \in 1..n |-> Whole(i - 1)]
Weights(n, m, over) == [i \in 1..n |-> Weight(i - 1, Whole(i - 1), Maxima(m), over)]
Summed == Weights(NumVisible, NumVisible, <<>>)
TileWeights(k) ==
    [i \in 1..Upto(k + KVTile) - Upto(k) |->
        Weight(k + (i - 1), Whole(k + (i - 1)), Maxima(Upto(k + KVTile)), <<>>)]

Share(m, u) == {d \in Dims : d % m = u}                       \* of a thread, after halvings
Group(g) == {d \in Dims : (d % T) \div SimdWidth = g}           \* of a simdgroup
Groups == 0..T \div SimdWidth - 1
Product(n, dims) == IF launch.first + n < launch.outputs THEN Of(launch.first + n, dims) ELSE Of(0, {})

Queries == {Q(d) : d \in Dims}
Partials == {Partial(g) : g \in Groups}
Scratches(m) == {Scratch(n, u) : n \in 0..launch.tile-1, u \in 0..m-1}

Live(p) ==
    CASE p.op = "dot" -> Queries \cup Shared({"m", "l"})
      [] p.op = "reduce" -> Scratches(2 * p.n)
                            \cup IF launch.kernel = "matvec" THEN {} ELSE Queries \cup Shared({"m", "l"})
      [] p.op = "softmax" -> Scratches(1) \cup Queries \cup Shared({"m", "l"})
      [] p.op = "accumulate" ->
            IF launch.kernel = "streaming" THEN Queries \cup Shared({"m", "l", "alpha", "beta"})
            ELSE Shared({"m", "l"}) \cup IF Masked(p.k) THEN {} ELSE Shared({"score"})
      [] p.op = "zero_denom" -> Shared({"m"})
      [] p.op = "simd_dot" -> Shared({"m"}) \cup IF p.n = 1 THEN {} ELSE Shared({"l"})
      [] p.op = "simd_score" -> Partials \cup Shared({"m"}) \cup IF p.n = 1 THEN {} ELSE Shared({"l"})
      [] p.op = "simd_total" -> Partials
      [] p.op = "stage" -> Queries \cup Shared({"m", "l"})
      [] p.op = "tile_scores" ->
            Queries \cup Shared({"m", "l"}) \cup {K(tk, d) : tk \in TileRows(p.k), d \in Dims}
            \cup {V(tk, d) : tk \in TileRows(p.k), d \in Dims}
      [] p.op = "tile_accumulate" ->
            Queries \cup Shared({"l", "alpha", "m_new", "tile_sum"}) \cup {Score(tk) : tk \in TileRows(p.k)}
            \cup {V(tk, d) : tk \in TileRows(p.k), d \in Dims}
      [] p.op = "tile_update" -> Queries \cup Shared({"l", "alpha", "m_new", "tile_sum"})
      [] p.op = "output" ->
            CASE launch.kernel = "matvec" -> Scratches(1)
              [] launch.kernel = "rms_norm" -> Shared({"inv_rms"})
              [] launch.kernel = "row_parallel" -> {}
              [] OTHER -> Shared({"l"})
      [] OTHER -> {}

MaxRows(p) ==
    IF p.op = "output" THEN NumVisible
    ELSE IF launch.kernel = "row_parallel" THEN IF p.n = 1 THEN Upto(p.k) ELSE NumVisible
    ELSE IF p.op = "accumulate" THEN p.k + 1 ELSE Upto(p.k)
SumRows(p) == IF launch.kernel = "row_parallel" THEN IF p.n = 2 THEN Upto(p.k) ELSE NumVisible ELSE MaxRows(p)
SumMax(p) == IF launch.kernel = "row_parallel" THEN NumVisible ELSE SumRows(p)
NextRows(p) == IF launch.kernel = "streaming" THEN p.k + 1 ELSE Upto(p.k + KVTile)

Expect(p, c) ==
    CASE c[1] = "q" -> c[2]
      [] c[1] = "scratch" ->
            LET dims == Share(IF p.op = "reduce" THEN 2 * p.n ELSE 1, c[3])
            IN  IF launch.kernel = "matvec" THEN Product(c[2], dims) ELSE Of(p.k, dims)
      [] c[1] = "simd_partials" -> Of(p.k, IF p.op = "simd_score" /\ Masked(p.k) THEN {} ELSE Group(c[2]))
      [] c[1] \in {"k_tile", "v_tile"} -> <<p.k + c[2], c[3]>>
      [] c[1] = "tile_scores" -> IF Masked(p.k + c[2]) THEN <<>> ELSE <<Whole(p.k + c[2])>>
      [] c[1] = "m" -> Maxima(MaxRows(p))
      [] c[1] = "l" -> Weights(SumRows(p), SumMax(p), <<>>)
      [] c[1] = "alpha" -> [from |-> Maxima(Upto(p.k)), to |-> Maxima(NextRows(p))]
      [] c[1] = "beta" -> Weight(p.k, Whole(p.k), Maxima(p.k + 1), <<>>)
      [] c[1] = "m_new" -> Maxima(NextRows(p))
      [] c[1] = "tile_sum" -> TileWeights(p.k)
      [] OTHER -> Whole(p.k)  \* score, inv_rms

(* The accumulators of a thread that is to do p next. *)
AccRows(p) ==
    IF launch.kernel \in {"matvec", "rms_norm"} THEN 0
    ELSE IF p.op \in {"output", "done"} THEN NumVisible
    ELSE IF launch.kernel = "row_parallel" THEN IF p.n = 3 THEN Upto(p.k) ELSE 0
    ELSE IF p.op = "tile_update" THEN Upto(p.k + KVTile) ELSE Upto(p.k)
AccAt(p) ==
    IF launch.kernel = "row_parallel" THEN Weights(AccRows(p), NumVisible, Summed)
    ELSE Weights(AccRows(p), AccRows(p), <<>>)

(* The phases there are. *)
Visits(p, ops) == p.op \in ops /\ p.k \in Nat /\ p = P(p.op, p.k, p.n)
Reached(p) ==
    \/ p \in {Output, Done}
    \/ /\ launch.kernel = "streaming"
       /\ \/ p = P("load", 0, 0)
          \/ Visits(p, {"dot", "softmax", "accumulate"}) /\ p.n = 0 /\ p.k < NumVisible
          \/ Visits(p, {"reduce"}) /\ p.n \in PowersOfTwo /\ 2 * p.n <= T /\ p.k < NumVisible
    \/ /\ launch.kernel = "matvec"
       /\ \/ p = P("partial", 0, 0)
          \/ Visits(p, {"reduce"}) /\ p.n \in PowersOfTwo /\ 2 * p.n <= T /\ p.k = 0
    \/ launch.kernel = "rms_norm" /\ p \in {P("simd_squares", 0, 0), P("simd_total", 0, 0)}
    \/ /\ launch.kernel = "row_parallel"
       /\ \/ p \in {P("zero_max", 0, 0), P("zero_denom", 0, 0)}
          \/ Visits(p, {"simd_dot", "simd_score"}) /\ p.n \in 1..3 /\ p.k < launch.rows
          \/ Visits(p, {"accumulate"}) /\ p.n = 3 /\ p.k < launch.rows
    \/ /\ launch.kernel = "tiled_kv"
       /\ \/ p = P("load", 0, 0)
          \/ Visits(p, {"stage", "tile_scores", "tile_accumulate", "tile_update"}) /\ p.n = 0 /\ p.k < launch.rows

Has(c, v) == c \in DOMAIN memory /\ memory[c] = v

Owner(n) == IF launch.kernel = "matvec" THEN 0 ELSE n % T

UnitsWait == \A t \in waiting : Unit(t) \subseteq waiting
MemoryInv ==
    \A t \in Threads \ waiting :
       LET p == at[t]
       IN  p # Done =>
             /\ \A c \in Live(p) : (\A u \in waiting : c \notin Writes(p, u)) => Has(c, Expect(p, c))
             /\ \A u \in waiting : \A c \in Live(After(p)) \cap Writes(p, u) : Has(c, Expect(After(p), c))
AccInv == /\ DOMAIN acc = Dims
          /\ \A d \in Dims : acc[d] = AccAt(at[d % T])
OutInv == out = [n \in {x \in DOMAIN Reference : at[Owner(x)] = Done} |-> Reference[n]]
RowInv ==
    /\ Supported(launch)
    /\ \A t \in Threads : Reached(at[t])
    /\ UnitsWait
    /\ MemoryInv
    /\ AccInv
    /\ OutInv

---------------------------------------------------------------------------
(* Numbers and sums. *)

Typed == LaunchTyped /\ Supported(launch)

(* The launch is made of numbers, within what the wrappers let through. *)
LEMMA Numbers ==
  ASSUME Typed
  PROVE  /\ T \in PowersOfTwo /\ T \in Nat \ {0}
         /\ launch.dims \in Nat \ {0} /\ launch.tile \in Nat \ {0}
         /\ launch.rows \in Nat /\ launch.query \in Nat /\ launch.first \in Nat /\ launch.outputs \in Nat
         /\ SimdWidth \in Nat \ {0} /\ KVTile \in Nat \ {0}
<1>1. launch \in [kernel : {"streaming", "row_parallel", "tiled_kv", "matvec", "rms_norm"},
                  threads : Nat, dims : Nat, rows : Nat, query : Nat,
                  first : Nat, tile : Nat, outputs : Nat]
  BY LaunchAssumption DEF Typed, LaunchTyped
<1>2. T \in PowersOfTwo /\ launch.dims >= 1 /\ launch.tile >= 1
  BY DEF Typed, Supported, T
<1>3. T # 0
  BY <1>2 DEF PowersOfTwo
<1> QED BY <1>1, <1>2, <1>3, LaunchAssumption DEF T

(* The visible rows are the first ones. *)
LEMMA VisibleRows ==
  ASSUME Typed
  PROVE  /\ NumVisible \in Nat /\ NumVisible <= launch.rows
         /\ \A k \in Nat : k < NumVisible <=> k < launch.rows /\ ~Masked(k)
         /\ \A k \in Nat : Upto(k) \in Nat /\ Upto(k) <= NumVisible /\ Upto(k) <= k
BY Numbers DEF NumVisible, Masked, Upto

(* One more row, if it is visible. *)
LEMMA UptoNext ==
  ASSUME Typed, NEW k \in Nat, k < launch.rows
  PROVE  /\ ~Masked(k) => Upto(k) = k /\ Upto(k + 1) = k + 1 /\ k < NumVisible
         /\ Masked(k) => Upto(k) = NumVisible /\ Upto(k + 1) = NumVisible
BY Numbers DEF NumVisible, Masked, Upto

(* Past the rows all visible ones are done; before them none. *)
LEMMA UptoEnds ==
  ASSUME Typed
  PROVE  /\ Upto(0) = 0
         /\ \A k \in Nat : ~(k < launch.rows) => Upto(k) = NumVisible
         /\ \A k \in Nat : ~(k < NumVisible) => Upto(k) = NumVisible
         /\ \A k \in Nat : k < NumVisible => Upto(k) = k /\ Upto(k + 1) = k + 1
BY Numbers DEF NumVisible, Upto

(* The number of elements of an interval that begins at 0. *)
LEMMA Initial ==
  ASSUME NEW n \in Nat
  PROVE  IsFiniteSet(0..n-1) /\ Cardinality(0..n-1) = n
<1>1. IsFiniteSet(0..n-1) /\ Cardinality(0..n-1) = IF 0 > n-1 THEN 0 ELSE n-1 - 0 + 1
  BY FS_Interval
<1> QED BY <1>1

(* As many rows are visible as NumVisible says. *)
LEMMA CountVisible ==
  ASSUME Typed
  PROVE  Cardinality(Visible) = NumVisible
<1>1. Visible = 0..NumVisible-1
  BY Numbers, VisibleRows DEF Visible
<1> QED BY <1>1, Initial, VisibleRows

(* The visible rows of a tile are its first ones. *)
LEMMA CountTile ==
  ASSUME Typed, NEW k \in Nat
  PROVE  LET visible == {tk \in TileRows(k) : ~Masked(k + tk)}
         IN  /\ Cardinality(visible) = Upto(k + KVTile) - Upto(k)
             /\ \A tk \in Nat : tk \in visible <=> tk < Upto(k + KVTile) - Upto(k)
             /\ Upto(k + KVTile) - Upto(k) \in Nat
             /\ Upto(k + KVTile) # Upto(k) => Upto(k) = k
<1> DEFINE n == Upto(k + KVTile) - Upto(k)
           visible == {tk \in TileRows(k) : ~Masked(k + tk)}
<1>1. n \in Nat /\ (Upto(k + KVTile) # Upto(k) => Upto(k) = k)
  BY Numbers DEF Upto, NumVisible
<1>2. \A tk \in Nat : tk \in visible <=> tk < n
  BY Numbers DEF TileRows, Masked, Upto, NumVisible
<1>3. visible \subseteq Nat
  BY Numbers DEF TileRows
<1>4. visible = 0..n-1
  BY <1>1, <1>2, <1>3
<1> HIDE DEF n, visible
<1>5. Cardinality(visible) = n
  BY <1>1, <1>4, Initial
<1> QED BY <1>1, <1>2, <1>5 DEF n, visible

(* Halving: what threads u and u + n have is what u has afterwards. *)
LEMMA Halves ==
  ASSUME Typed, NEW n \in PowersOfTwo, NEW u \in 0..n-1
  PROVE  /\ Share(2 * n, u) \cup Share(2 * n, u + n) = Share(n, u)
         /\ Share(2 * n, u) \cap Share(2 * n, u + n) = {}
<1>1. Dims \subseteq Nat
  BY Numbers DEF Dims
<1>2. \A d \in Nat : /\ d % n = u <=> d % (2 * n) = u \/ d % (2 * n) = u + n
                     /\ ~(d % (2 * n) = u /\ d % (2 * n) = u + n)
  BY DEF PowersOfTwo
<1> QED BY <1>1, <1>2 DEF Share

(* A thread alone has everything. *)
LEMMA WholeShare == ASSUME Typed PROVE Share(1, 0) = Dims
BY Numbers DEF Share, Dims

(* The sum of two shares without common elements. *)
LEMMA PlusDisjoint ==
  ASSUME NEW k, NEW A, NEW B, A \cap B = {}
  PROVE  Plus(Of(k, A), Of(k, B)) = Of(k, A \cup B)
<1>1. \A x \in Items : Plus(Of(k, A), Of(k, B))[x] = Of(k, A \cup B)[x]
  BY DEF Plus, Of
<1> QED BY <1>1 DEF Plus, Of

(* Every dim is in one simdgroup's share. *)
LEMMA GroupOf ==
  ASSUME Typed, T % SimdWidth = 0, NEW d \in Dims
  PROVE  (d % T) \div SimdWidth \in Groups
<1>1. \A w, a, b \in Nat : w * a < w * b => a < b
  OBVIOUS
<1>2. \A m \in Nat : m \div SimdWidth \in Nat /\ SimdWidth * (m \div SimdWidth) <= m
  BY Numbers
<1>3. T = SimdWidth * (T \div SimdWidth)
  BY Numbers
<1>4. d % T \in Nat /\ d % T < T
  BY Numbers DEF Dims
<1>5. PICK a \in Nat : a = (d % T) \div SimdWidth /\ SimdWidth * a <= d % T
  BY <1>2, <1>4
<1>6. PICK b \in Nat : b = T \div SimdWidth /\ T = SimdWidth * b
  BY <1>2, <1>3, Numbers
<1>7. a < b
  <2>1. SimdWidth * a \in Nat /\ SimdWidth * b \in Nat
    BY Numbers
  <2>2. SimdWidth * a < SimdWidth * b
    BY <2>1, <1>4, <1>5, <1>6
  <2> QED BY <2>2, <1>1, Numbers
<1> QED BY <1>5, <1>6, <1>7 DEF Groups

(* simd_sum over the simdgroups' partial sums is the sum over all dims.   *)
LEMMA TotalOfGroups ==
  ASSUME Typed, T % SimdWidth = 0, NEW k, NEW values, \A g \in Groups : values[g] = Of(k, Group(g))
  PROVE  Total(values, Groups) = Of(k, Dims)
<1> SUFFICES ASSUME NEW x \in Items
             PROVE  Cardinality(UNION {{g} \X (1..values[g][x]) : g \in Groups}) = Of(k, Dims)[x]
  BY DEF Total, Of
<1> DEFINE union == UNION {{g} \X (1..values[g][x]) : g \in Groups}
<1>1. x[2] \in Dims
  BY DEF Items
<1>2. PICK h \in Groups : h = (x[2] % T) \div SimdWidth
  BY <1>1, GroupOf
<1>3. \A g \in Groups : values[g][x] = IF x[1] = k /\ g = h THEN 1 ELSE 0
  <2>1. \A g \in Groups : x[2] \in Group(g) <=> g = h
    BY <1>1, <1>2 DEF Group
  <2>2. \A g \in Groups : values[g][x] = IF x[1] = k /\ x[2] \in Group(g) THEN 1 ELSE 0
    BY DEF Of
  <2> QED BY <2>1, <2>2
<1>4. CASE x[1] = k
  <2>1. \A g \in Groups : {g} \X (1..values[g][x]) = IF g = h THEN {<<h, 1>>} ELSE {}
    BY <1>3, <1>4
  <2>2. union = {<<h, 1>>}
    BY <2>1
  <2>3. Cardinality(union) = 1
    BY <2>2, FS_Singleton
  <2> QED BY <2>3, <1>1, <1>4 DEF Of
<1>5. CASE x[1] # k
  <2>1. \A g \in Groups : {g} \X (1..values[g][x]) = {}
    BY <1>3, <1>5
  <2>2. union = {}
    BY <2>1
  <2>3. Cardinality(union) = 0
    BY <2>2, FS_EmptySet
  <2> QED BY <2>3, <1>5 DEF Of
<1> QED BY <1>4, <1>5

(* Appending to a sequence, and joining two, by index.                    *)
LEMMA AppendAt ==
  ASSUME NEW n \in Nat, NEW s, s = [i \in 1..n |-> s[i]], NEW e
  PROVE  Append(s, e) = [i \in 1..n+1 |-> IF i <= n THEN s[i] ELSE e]
<1> DEFINE S == {s[i] : i \in 1..n} \cup {e}
<1>1. s \in Seq(S) /\ Len(s) = n /\ e \in S
  OBVIOUS
<1> HIDE DEF S
<1>2. /\ Append(s, e) \in Seq(S) /\ Len(Append(s, e)) = n + 1
      /\ \A i \in 1..n : Append(s, e)[i] = s[i]
      /\ Append(s, e)[n + 1] = e
  BY <1>1, AppendProperties
<1>3. Append(s, e) = [i \in 1..n+1 |-> Append(s, e)[i]]
  BY <1>2
<1>4. \A i \in 1..n+1 : Append(s, e)[i] = IF i <= n THEN s[i] ELSE e
  BY <1>2
<1> QED BY <1>3, <1>4

(* Joining two sequences, by index. *)
LEMMA ConcatAt ==
  ASSUME NEW n \in Nat, NEW s, s = [i \in 1..n |-> s[i]],
         NEW m \in Nat, NEW t, t = [i \in 1..m |-> t[i]]
  PROVE  s \o t = [i \in 1..n+m |-> IF i <= n THEN s[i] ELSE t[i - n]]
<1> DEFINE S == {s[i] : i \in 1..n} \cup {t[i] : i \in 1..m}
<1>1. s \in Seq(S) /\ Len(s) = n
  OBVIOUS
<1>2. t \in Seq(S) /\ Len(t) = m
  OBVIOUS
<1> HIDE DEF S
<1>3. /\ s \o t \in Seq(S) /\ Len(s \o t) = n + m
      /\ \A i \in 1..n+m : (s \o t)[i] = IF i <= n THEN s[i] ELSE t[i - n]
  BY <1>1, <1>2, ConcatProperties
<1>4. s \o t = [i \in 1..n+m |-> (s \o t)[i]]
  BY <1>3
<1> QED BY <1>3, <1>4

(* A list of scores or weights grows by a row, or by a tile of rows.      *)
LEMMA NextMaximum ==
  ASSUME NEW n \in Nat
  PROVE  Append(Maxima(n), Whole(n)) = Maxima(n + 1)
<1>1. Maxima(n) = [i \in 1..n |-> Maxima(n)[i]] /\ \A i \in 1..n : Maxima(n)[i] = Whole(i - 1)
  BY DEF Maxima
<1>2. Append(Maxima(n), Whole(n)) = [i \in 1..n+1 |-> IF i <= n THEN Maxima(n)[i] ELSE Whole(n)]
  BY <1>1, AppendAt
<1>3. \A i \in 1..n+1 : (IF i <= n THEN Maxima(n)[i] ELSE Whole(n)) = Whole(i - 1)
  <2> SUFFICES ASSUME NEW i \in 1..n+1 PROVE (IF i <= n THEN Maxima(n)[i] ELSE Whole(n)) = Whole(i - 1)
    OBVIOUS
  <2>1. i <= n \/ i - 1 = n
    OBVIOUS
  <2> QED BY <2>1, <1>1
<1> QED BY <1>2, <1>3 DEF Maxima

(* Appending the weight of the next row to the weights so far. *)
LEMMA NextWeight ==
  ASSUME NEW n \in Nat, NEW m, NEW over
  PROVE  Append(Weights(n, m, over), Weight(n, Whole(n), Maxima(m), over)) = Weights(n + 1, m, over)
<1> DEFINE s == Weights(n, m, over)
           e == Weight(n, Whole(n), Maxima(m), over)
<1>1. s = [i \in 1..n |-> s[i]] /\ \A i \in 1..n : s[i] = Weight(i - 1, Whole(i - 1), Maxima(m), over)
  BY DEF Weights
<1> HIDE DEF s
<1>2. Append(s, e) = [i \in 1..n+1 |-> IF i <= n THEN s[i] ELSE e]
  BY <1>1, AppendAt
<1>3. \A i \in 1..n+1 : (IF i <= n THEN s[i] ELSE e) = Weight(i - 1, Whole(i - 1), Maxima(m), over)
  <2> SUFFICES ASSUME NEW i \in 1..n+1
               PROVE (IF i <= n THEN s[i] ELSE e) = Weight(i - 1, Whole(i - 1), Maxima(m), over)
    OBVIOUS
  <2>1. i <= n \/ i - 1 = n
    OBVIOUS
  <2> QED BY <2>1, <1>1
<1> QED BY <1>2, <1>3 DEF Weights, s

(* Joining the scores of a tile to the maxima so far. *)
LEMMA TileMaxima ==
  ASSUME NEW k \in Nat, NEW m \in Nat
  PROVE  Maxima(k) \o [i \in 1..m |-> Whole(k + (i - 1))] = Maxima(k + m)
<1> DEFINE s == Maxima(k)
           t == [i \in 1..m |-> Whole(k + (i - 1))]
<1>1. s = [i \in 1..k |-> s[i]] /\ \A i \in 1..k : s[i] = Whole(i - 1)
  BY DEF Maxima
<1>2. t = [i \in 1..m |-> t[i]] /\ \A i \in 1..m : t[i] = Whole(k + (i - 1))
  OBVIOUS
<1> HIDE DEF s, t
<1>3. s \o t = [i \in 1..k+m |-> IF i <= k THEN s[i] ELSE t[i - k]]
  BY <1>1, <1>2, ConcatAt
<1>4. \A i \in 1..k+m : (IF i <= k THEN s[i] ELSE t[i - k]) = Whole(i - 1)
  <2> SUFFICES ASSUME NEW i \in 1..k+m PROVE (IF i <= k THEN s[i] ELSE t[i - k]) = Whole(i - 1)
    OBVIOUS
  <2>1. CASE i <= k
    BY <2>1, <1>1
  <2>2. CASE ~(i <= k)
    <3>1. i - k \in 1..m /\ k + ((i - k) - 1) = i - 1
      BY <2>2
    <3> QED BY <3>1, <2>2, <1>2
  <2> QED BY <2>1, <2>2
<1> QED BY <1>3, <1>4 DEF Maxima, s, t

(* Joining the weights of a tile to the weights so far. *)
LEMMA TileWeightsAfter ==
  ASSUME NEW k \in Nat, NEW m \in Nat, NEW j
  PROVE  Weights(k, j, <<>>) \o [i \in 1..m |-> Weight(k + (i - 1), Whole(k + (i - 1)), Maxima(j), <<>>)]
         = Weights(k + m, j, <<>>)
<1> DEFINE s == Weights(k, j, <<>>)
           t == [i \in 1..m |-> Weight(k + (i - 1), Whole(k + (i - 1)), Maxima(j), <<>>)]
<1>1. s = [i \in 1..k |-> s[i]] /\ \A i \in 1..k : s[i] = Weight(i - 1, Whole(i - 1), Maxima(j), <<>>)
  BY DEF Weights
<1>2. t = [i \in 1..m |-> t[i]]
      /\ \A i \in 1..m : t[i] = Weight(k + (i - 1), Whole(k + (i - 1)), Maxima(j), <<>>)
  OBVIOUS
<1> HIDE DEF s, t
<1>3. s \o t = [i \in 1..k+m |-> IF i <= k THEN s[i] ELSE t[i - k]]
  BY <1>1, <1>2, ConcatAt
<1>4. \A i \in 1..k+m : (IF i <= k THEN s[i] ELSE t[i - k]) = Weight(i - 1, Whole(i - 1), Maxima(j), <<>>)
  <2> SUFFICES ASSUME NEW i \in 1..k+m
               PROVE (IF i <= k THEN s[i] ELSE t[i - k]) = Weight(i - 1, Whole(i - 1), Maxima(j), <<>>)
    OBVIOUS
  <2>1. CASE i <= k
    BY <2>1, <1>1
  <2>2. CASE ~(i <= k)
    <3>1. i - k \in 1..m /\ k + ((i - k) - 1) = i - 1
      BY <2>2
    <3> QED BY <3>1, <2>2, <1>2
  <2> QED BY <2>1, <2>2
<1> QED BY <1>3, <1>4 DEF Weights, s, t

(* Rescaling takes weights from one maximum to a later one.               *)
LEMMA Rescale ==
  ASSUME NEW n \in Nat, NEW m \in Nat
  PROVE  Rescaled(Weights(n, n, <<>>), [from |-> Maxima(n), to |-> Maxima(m)]) = Weights(n, m, <<>>)
<1> DEFINE x == Weights(n, n, <<>>)
           alpha == [from |-> Maxima(n), to |-> Maxima(m)]
<1>1. CASE n = 0
  <2>1. Maxima(n) = <<>> /\ Weights(n, m, <<>>) = <<>>
    BY <1>1 DEF Maxima, Weights
  <2> QED BY <2>1 DEF Rescaled
<1>2. CASE n # 0
  <2>1. Maxima(n) # <<>>
    <3>1. 1 \in DOMAIN Maxima(n)
      BY <1>2 DEF Maxima
    <3> QED BY <3>1
  <2>2. DOMAIN x = 1..n
    BY DEF Weights
  <2>3. \A i \in 1..n : x[i] = Weight(i - 1, Whole(i - 1), Maxima(n), <<>>)
    BY DEF Weights
  <2> HIDE DEF x
  <2>4. \A k, v, a, b, o : /\ Weight(k, v, a, o).max = a
                           /\ [Weight(k, v, a, o) EXCEPT !.max = b] = Weight(k, v, b, o)
    BY DEF Weight
  <2>5. \A i \in 1..n : /\ x[i].max = Maxima(n)
                        /\ [x[i] EXCEPT !.max = Maxima(m)] = Weight(i - 1, Whole(i - 1), Maxima(m), <<>>)
    BY <2>3, <2>4
  <2>6. \A i \in 1..n : (IF x[i].max = alpha.from THEN [x[i] EXCEPT !.max = alpha.to] ELSE x[i])
                        = Weight(i - 1, Whole(i - 1), Maxima(m), <<>>)
    BY <2>5
  <2>7. alpha.from # <<>>
    BY <2>1
  <2> HIDE DEF alpha
  <2>8. Rescaled(x, alpha) = [i \in 1..n |-> Weight(i - 1, Whole(i - 1), Maxima(m), <<>>)]
    BY <2>2, <2>6, <2>7 DEF Rescaled
  <2> QED BY <2>8 DEF Weights, x, alpha
<1> QED BY <1>1, <1>2

---------------------------------------------------------------------------
(* What each phase has to do: leave a phase that is known, read only what
   is live, and turn what is expected of it into what the next one expects,
   in threadgroup memory and in the accumulators. *)

Kept(p, c) == c \in Live(p) /\ Expect(After(p), c) = Expect(p, c)

Advances(p) ==
    /\ Reached(After(p))
    /\ \A u \in Threads : Reads(p, u) \subseteq Live(p)
    /\ \A c \in Live(After(p)) : (\E u \in Threads : c \in Writes(p, u)) \/ Kept(p, c)
    /\ \A t \in Threads : \A s :
          (\A u \in Unit(t) : \A c \in Reads(p, u) : s[c] = Expect(p, c))
          => /\ \A u \in Unit(t) : \A c \in Live(After(p)) \cap Writes(p, u) :
                   Value(p, c, Unit(t), s) = Expect(After(p), c)
             /\ \A d \in Dims :
                   d % T \in Unit(t) /\ acc[d] = AccAt(p) => Accumulated(p, d, s) = AccAt(After(p))

(* The fields of a phase. *)
LEMMA Fields == \A o, k, n : P(o, k, n).op = o /\ P(o, k, n).k = k /\ P(o, k, n).n = n
BY DEF P

(* A cell of the query holds its element. *)
LEMMA QueryCell == \A p, d : Expect(p, Q(d)) = d
BY DEF Expect, Q

(* A cell of the reduction holds the share of a dot product of its thread. *)
LEMMA ScratchCell ==
  ASSUME NEW p, NEW n, NEW u, NEW m, m = IF p.op = "reduce" THEN 2 * p.n ELSE 1
  PROVE  Expect(p, Scratch(n, u)) = IF launch.kernel = "matvec" THEN Product(n, Share(m, u)) ELSE Of(p.k, Share(m, u))
BY DEF Expect, Scratch

(* A partial sum of a simdgroup holds the terms of its lanes. *)
LEMMA PartialCell ==
  ASSUME NEW p, NEW g
  PROVE  Expect(p, Partial(g)) = Of(p.k, IF p.op = "simd_score" /\ Masked(p.k) THEN {} ELSE Group(g))
BY DEF Expect, Partial

(* The cells of a tile hold its rows, and the scores of those not masked. *)
LEMMA TileCells ==
  ASSUME NEW p, NEW tk, NEW d
  PROVE  /\ Expect(p, K(tk, d)) = <<p.k + tk, d>> /\ Expect(p, V(tk, d)) = <<p.k + tk, d>>
         /\ Expect(p, Score(tk)) = IF Masked(p.k + tk) THEN <<>> ELSE <<Whole(p.k + tk)>>
BY DEF Expect, K, V, Score

(* The maximum is that of the rows so far. *)
LEMMA MaxCell == \A p : Expect(p, <<"m">>) = Maxima(MaxRows(p))
BY DEF Expect

(* The sum is that of the weights so far. *)
LEMMA SumCell == \A p : Expect(p, <<"l">>) = Weights(SumRows(p), SumMax(p), <<>>)
BY DEF Expect

(* What thread 0 leaves of a softmax for the others. *)
LEMMA SoftmaxCells ==
  ASSUME NEW p
  PROVE  /\ Expect(p, <<"alpha">>) = [from |-> Maxima(Upto(p.k)), to |-> Maxima(NextRows(p))]
         /\ Expect(p, <<"beta">>) = Weight(p.k, Whole(p.k), Maxima(p.k + 1), <<>>)
         /\ Expect(p, <<"m_new">>) = Maxima(NextRows(p))
         /\ Expect(p, <<"tile_sum">>) = TileWeights(p.k)
BY DEF Expect

(* A score, or a norm, is a whole dot product. *)
LEMMA ScoreCell == \A p : Expect(p, <<"score">>) = Whole(p.k) /\ Expect(p, <<"inv_rms">>) = Whole(p.k)
BY DEF Expect

(* A thread of a kernel without simd_sum is a unit of its own. *)
LEMMA Alone ==
  ASSUME Typed, launch.kernel \in {"streaming", "tiled_kv", "matvec"}
  PROVE  /\ ~Simd(launch)
         /\ \A t \in Threads : /\ Unit(t) = {t}
                               /\ (CHOOSE x \in Unit(t) : TRUE) = t
BY DEF Simd, Unit

(* After m threads have a share each, the next halving has them live. *)
LEMMA Halving ==
  ASSUME Typed, launch.kernel \in {"streaming", "matvec"}, NEW k \in Nat, NEW m \in PowersOfTwo, m <= T,
         launch.kernel = "streaming" => k < NumVisible,
         launch.kernel = "matvec" => k = 0,
         NEW q, q = Halve(k, m \div 2)
  PROVE  /\ Reached(q)
         /\ q.op \in {"reduce", "softmax", "output"} /\ q.k = k
         /\ Live(q) = Scratches(m) \cup IF launch.kernel = "matvec" THEN {} ELSE Queries \cup Shared({"m", "l"})
         /\ \A n, u : Expect(q, Scratch(n, u)) = IF launch.kernel = "matvec" THEN Product(n, Share(m, u))
                                                 ELSE Of(k, Share(m, u))
         /\ launch.kernel = "streaming" => MaxRows(q) = k /\ SumRows(q) = k /\ SumMax(q) = k /\ AccRows(q) = k
         /\ launch.kernel = "matvec" => AccRows(q) = 0
<1>1. m = 1 \/ (m \div 2 \in PowersOfTwo /\ 2 * (m \div 2) = m /\ m \div 2 > 0)
  BY DEF PowersOfTwo
<1>2. m = 1 => ~(m \div 2 > 0)
  OBVIOUS
<1>3. Upto(k) = IF launch.kernel = "streaming" THEN k ELSE Upto(k)
  BY UptoEnds
<1>4. CASE m # 1
  <2>1. q = P("reduce", k, m \div 2)
    BY <1>1, <1>4 DEF Halve
  <2>2. q.op = "reduce" /\ q.k = k /\ 2 * q.n = m /\ q.n \in PowersOfTwo /\ q = P(q.op, q.k, q.n)
    BY <1>1, <1>4, <2>1, Fields
  <2>3. Reached(q)
    BY <2>2 DEF Reached, Visits
  <2>4. Live(q) = Scratches(m) \cup IF launch.kernel = "matvec" THEN {} ELSE Queries \cup Shared({"m", "l"})
    BY <2>2 DEF Live
  <2>5. \A n, u : Expect(q, Scratch(n, u)) = IF launch.kernel = "matvec" THEN Product(n, Share(m, u))
                                             ELSE Of(k, Share(m, u))
    <3>1. m = (IF q.op = "reduce" THEN 2 * q.n ELSE 1) /\ q.k = k
      BY <2>2
    <3> QED BY <3>1, ScratchCell
  <2>6. launch.kernel = "streaming" => MaxRows(q) = k /\ SumRows(q) = k /\ SumMax(q) = k /\ AccRows(q) = k
    BY <2>2, <1>3 DEF MaxRows, SumRows, SumMax, AccRows
  <2>7. launch.kernel = "matvec" => AccRows(q) = 0
    BY DEF AccRows
  <2> QED BY <2>2, <2>3, <2>4, <2>5, <2>6, <2>7
<1>5. CASE m = 1
  <2>1. q = IF launch.kernel = "matvec" THEN Output ELSE P("softmax", k, 0)
    BY <1>2, <1>5 DEF Halve
  <2>2. /\ q.k = k /\ q.n = 0 /\ q = P(q.op, q.k, q.n)
        /\ q.op = IF launch.kernel = "matvec" THEN "output" ELSE "softmax"
    BY <2>1, Fields DEF Output
  <2>3. Reached(q)
    BY <2>1, <2>2 DEF Reached, Visits
  <2>4. Live(q) = Scratches(m) \cup IF launch.kernel = "matvec" THEN {} ELSE Queries \cup Shared({"m", "l"})
    BY <2>2, <1>5 DEF Live
  <2>5. \A n, u : Expect(q, Scratch(n, u)) = IF launch.kernel = "matvec" THEN Product(n, Share(m, u))
                                             ELSE Of(k, Share(m, u))
    <3>1. m = (IF q.op = "reduce" THEN 2 * q.n ELSE 1) /\ q.k = k
      BY <2>2, <1>5
    <3> QED BY <3>1, ScratchCell
  <2>6. launch.kernel = "streaming" => MaxRows(q) = k /\ SumRows(q) = k /\ SumMax(q) = k /\ AccRows(q) = k
    BY <2>2, <1>3 DEF MaxRows, SumRows, SumMax, AccRows
  <2>7. launch.kernel = "matvec" => AccRows(q) = 0
    BY DEF AccRows
  <2> QED BY <2>2, <2>3, <2>4, <2>5, <2>6, <2>7
<1> QED BY <1>4, <1>5

(* Between two phases that are as far, the query and the running maximum  *)
(* and sum are as they were.                                              *)
LEMMA SameRunning ==
  ASSUME NEW p, NEW q, MaxRows(p) = MaxRows(q), SumRows(p) = SumRows(q), SumMax(p) = SumMax(q),
         NEW c \in Queries \cup Shared({"m", "l"})
  PROVE  Expect(p, c) = Expect(q, c)
<1>1. CASE c \in Queries
  BY <1>1, QueryCell DEF Queries
<1>2. CASE c \in Shared({"m", "l"})
  <2>1. c = <<"m">> \/ c = <<"l">>
    BY <1>2 DEF Shared
  <2> QED BY <2>1, MaxCell, SumCell
<1> QED BY <1>1, <1>2

(* A phase that does not accumulate leaves the accumulators.              *)
LEMMA SameAcc ==
  ASSUME NEW p, p.op \notin {"accumulate", "tile_accumulate"}, AccRows(After(p)) = AccRows(p),
         NEW d, acc[d] = AccAt(p), NEW s
  PROVE  Accumulated(p, d, s) = AccAt(After(p))
<1>1. Accumulated(p, d, s) = acc[d]
  BY DEF Accumulated
<1> QED BY <1>1 DEF AccAt

(* How far the phases of the streaming kernels are.                       *)
LEMMA StreamingRows ==
  ASSUME Typed, launch.kernel = "streaming", NEW p, p.k \in Nat, p.k < NumVisible,
         p.op \in {"dot", "reduce", "softmax"}
  PROVE  MaxRows(p) = p.k /\ SumRows(p) = p.k /\ SumMax(p) = p.k /\ AccRows(p) = p.k
BY UptoEnds DEF MaxRows, SumRows, SumMax, AccRows

(* The row after row k - 1, or the output, when k rows are done.          *)
LEMMA NextRow ==
  ASSUME Typed, launch.kernel = "streaming", NEW k \in Nat, k <= NumVisible, NEW q, q = Row(k)
  PROVE  /\ Reached(q) /\ q.op \in {"dot", "output"}
         /\ Live(q) \subseteq Queries \cup Shared({"m", "l"})
         /\ MaxRows(q) = k /\ SumRows(q) = k /\ SumMax(q) = k /\ AccRows(q) = k
<1>1. CASE k < NumVisible
  <2>1. q = P("dot", k, 0)
    BY <1>1, VisibleRows DEF Row
  <2>2. q.op = "dot" /\ q.k = k /\ q.n = 0 /\ q = P(q.op, q.k, q.n)
    BY <2>1, Fields
  <2>3. Reached(q)
    BY <2>2, <1>1 DEF Reached, Visits
  <2>4. Live(q) = Queries \cup Shared({"m", "l"})
    BY <2>2 DEF Live
  <2> QED BY <2>2, <2>3, <2>4, <1>1, StreamingRows
<1>2. CASE ~(k < NumVisible)
  <2>1. q = Output /\ NumVisible = k
    BY <1>2, VisibleRows DEF Row
  <2>2. q.op = "output" /\ Reached(q)
    BY <2>1, Fields DEF Output, Reached
  <2>3. Live(q) = Shared({"l"})
    BY <2>2 DEF Live
  <2>4. MaxRows(q) = k /\ SumRows(q) = k /\ SumMax(q) = k /\ AccRows(q) = k
    BY <2>1, <2>2 DEF MaxRows, SumRows, SumMax, AccRows
  <2>5. Live(q) \subseteq Queries \cup Shared({"m", "l"})
    BY <2>3 DEF Shared
  <2> QED BY <2>2, <2>4, <2>5
<1> QED BY <1>1, <1>2

(* Loading the query, for the kernels that keep it in threadgroup memory.  *)
LEMMA LoadAdvances ==
  ASSUME Typed, launch.kernel \in {"streaming", "tiled_kv"}
  PROVE  Advances(P("load", 0, 0))
<1> DEFINE p == P("load", 0, 0)
           q == After(p)
<1>1. p.op = "load" /\ p.k = 0 /\ p.n = 0
  BY Fields
<1>2. q = IF launch.kernel = "tiled_kv" THEN P("stage", 0, 0) ELSE Row(0)
  BY <1>1 DEF After
<1> HIDE DEF p, q
<1>3. 0 <= NumVisible /\ Upto(0) = 0
  BY VisibleRows, UptoEnds
<1>4. /\ Reached(q) /\ Live(q) \subseteq Queries \cup Shared({"m", "l"})
      /\ MaxRows(q) = 0 /\ SumRows(q) = 0 /\ SumMax(q) = 0 /\ AccRows(q) = 0
  <2>1. CASE launch.kernel = "streaming"
    BY <1>2, <1>3, <2>1, NextRow
  <2>2. CASE launch.kernel = "tiled_kv"
    <3>1. q.op = "stage" /\ q.k = 0 /\ q.n = 0 /\ q = P(q.op, q.k, q.n)
      BY <1>2, <2>2, Fields
    <3>2. 0 < launch.rows
      BY <2>2, Numbers DEF Typed, Supported
    <3>3. Reached(q)
      BY <2>2, <3>1, <3>2 DEF Reached, Visits
    <3>4. Live(q) = Queries \cup Shared({"m", "l"})
      BY <3>1 DEF Live
    <3>5. MaxRows(q) = 0 /\ SumRows(q) = 0 /\ SumMax(q) = 0 /\ AccRows(q) = 0
      BY <1>3, <2>2, <3>1 DEF MaxRows, SumRows, SumMax, AccRows
    <3> QED BY <3>3, <3>4, <3>5
  <2> QED BY <2>1, <2>2
<1>5. AccRows(p) = 0
  BY <1>1, UptoEnds DEF AccRows
<1>6. \A u : Reads(p, u) = {}
  BY <1>1 DEF Reads
<1>7. \A u : Writes(p, u) = {Q(d) : d \in Mine(u)} \cup ThreadZero(u, Shared({"m", "l"}))
  BY <1>1 DEF Writes
<1>8. ASSUME NEW c \in Live(q) PROVE \E u \in Threads : c \in Writes(p, u)
  <2>1. CASE c \in Queries
    <3>1. PICK d \in Dims : c = Q(d)
      BY <2>1 DEF Queries
    <3>2. d % T \in Threads /\ d \in Mine(d % T)
      BY Numbers DEF Threads, Dims, Mine
    <3> QED BY <3>1, <3>2, <1>7
  <2>2. CASE c \in Shared({"m", "l"})
    <3>1. 0 \in Threads /\ c \in Writes(p, 0)
      BY <2>2, <1>7, Numbers DEF Threads, ThreadZero
    <3> QED BY <3>1
  <2> QED BY <2>1, <2>2, <1>4
<1>9. ASSUME NEW t \in Threads, NEW s, NEW c \in Live(q) \cap Writes(p, t)
      PROVE  Value(p, c, {t}, s) = Expect(q, c)
  <2>1. Value(p, c, {t}, s) = IF c[1] = "q" THEN c[2] ELSE <<>>
    BY <1>1, Alone DEF Value, StreamingValue
  <2>2. CASE c \in Queries
    BY <2>1, <2>2, QueryCell DEF Queries, Q
  <2>3. CASE c \in Shared({"m", "l"})
    <3>1. Maxima(0) = <<>> /\ Weights(0, 0, <<>>) = <<>>
      BY DEF Maxima, Weights
    <3>2. Expect(q, c) = <<>>
      BY <2>3, <3>1, <1>4, MaxCell, SumCell DEF Shared
    <3>3. c[1] # "q"
      BY <2>3 DEF Shared
    <3> QED BY <2>1, <3>2, <3>3
  <2> QED BY <2>2, <2>3, <1>4
<1>10. ASSUME NEW d \in Dims, NEW s, acc[d] = AccAt(p) PROVE Accumulated(p, d, s) = AccAt(q)
  BY <1>1, <1>4, <1>5, <1>10, SameAcc DEF q
<1> QED BY <1>4, <1>6, <1>8, <1>9, <1>10, Alone DEF Advances, q, p

(* Each thread's part of a dot product.                                   *)
LEMMA DotAdvances ==
  ASSUME Typed, launch.kernel = "streaming", NEW k \in Nat, k < NumVisible
  PROVE  Advances(P("dot", k, 0))
<1> DEFINE p == P("dot", k, 0)
           q == After(p)
<1>1. p.op = "dot" /\ p.k = k /\ p.n = 0
  BY Fields
<1>2. q = Halve(k, T \div 2)
  BY <1>1 DEF After
<1> HIDE DEF p, q
<1>3. /\ Reached(q)
      /\ Live(q) = Scratches(T) \cup Queries \cup Shared({"m", "l"})
      /\ \A n, u : Expect(q, Scratch(n, u)) = Of(k, Share(T, u))
      /\ MaxRows(q) = k /\ SumRows(q) = k /\ SumMax(q) = k /\ AccRows(q) = k
  BY <1>2, Numbers, Halving
<1>4. MaxRows(p) = k /\ SumRows(p) = k /\ SumMax(p) = k /\ AccRows(p) = k
  BY <1>1, StreamingRows
<1>5. Live(p) = Queries \cup Shared({"m", "l"})
  BY <1>1 DEF Live
<1>6. \A u : Reads(p, u) = {Q(d) : d \in Mine(u)} /\ Writes(p, u) = {Scratch(0, u)}
  BY <1>1 DEF Reads, Writes
<1>7. ASSUME NEW u \in Threads PROVE Reads(p, u) \subseteq Live(p)
  BY <1>5, <1>6 DEF Queries, Mine
<1>8. ASSUME NEW c \in Live(q) PROVE (\E u \in Threads : c \in Writes(p, u)) \/ Kept(p, c)
  <2>1. CASE c \in Scratches(T)
    <3>1. launch.tile = 1
      BY DEF Typed, Supported
    <3>2. PICK u \in 0..T-1 : c = Scratch(0, u)
      BY <2>1, <3>1 DEF Scratches
    <3> QED BY <3>2, <1>6 DEF Threads
  <2>2. CASE c \in Queries \cup Shared({"m", "l"})
    BY <2>2, <1>3, <1>4, <1>5, SameRunning DEF Kept, q
  <2> QED BY <2>1, <2>2, <1>3
<1>9. ASSUME NEW t \in Threads, NEW s, \A c \in Reads(p, t) : s[c] = Expect(p, c),
             NEW c \in Live(q) \cap Writes(p, t)
      PROVE  Value(p, c, {t}, s) = Expect(q, c)
  <2>1. c = Scratch(0, t)
    BY <1>6
  <2>2. Value(p, c, {t}, s) = Of(k, {d \in Mine(t) : s[Q(d)] = d})
    BY <1>1, Alone DEF Value, StreamingValue
  <2>3. \A d \in Mine(t) : s[Q(d)] = d
    BY <1>6, <1>9, QueryCell
  <2>4. {d \in Mine(t) : s[Q(d)] = d} = Share(T, t)
    BY <2>3 DEF Mine, Share
  <2> QED BY <2>1, <2>2, <2>4, <1>3
<1>10. ASSUME NEW d \in Dims, NEW s, acc[d] = AccAt(p) PROVE Accumulated(p, d, s) = AccAt(q)
  BY <1>1, <1>3, <1>4, <1>10, SameAcc DEF q
<1> QED BY <1>3, <1>7, <1>8, <1>9, <1>10, Alone DEF Advances, q, p

(* A halving of the threads that hold a part.                             *)
LEMMA ReduceAdvances ==
  ASSUME Typed, launch.kernel \in {"streaming", "matvec"}, NEW k \in Nat, NEW n \in PowersOfTwo, 2 * n <= T,
         launch.kernel = "streaming" => k < NumVisible,
         launch.kernel = "matvec" => k = 0
  PROVE  Advances(P("reduce", k, n))
<1> DEFINE p == P("reduce", k, n)
           q == After(p)
           more == IF launch.kernel = "matvec" THEN {} ELSE Queries \cup Shared({"m", "l"})
           Part(j, m, u) == IF launch.kernel = "matvec" THEN Product(j, Share(m, u)) ELSE Of(k, Share(m, u))
<1>1. p.op = "reduce" /\ p.k = k /\ p.n = n
  BY Fields
<1>2. q = Halve(k, n \div 2)
  BY <1>1 DEF After
<1>3. n \in Nat /\ n >= 1 /\ n <= T
  BY Numbers DEF PowersOfTwo
<1> HIDE DEF p, q
<1>4. /\ Reached(q)
      /\ Live(q) = Scratches(n) \cup more
      /\ \A j, u : Expect(q, Scratch(j, u)) = Part(j, n, u)
      /\ launch.kernel = "streaming" => MaxRows(q) = k /\ SumRows(q) = k /\ SumMax(q) = k /\ AccRows(q) = k
      /\ launch.kernel = "matvec" => AccRows(q) = 0
  BY <1>2, <1>3, Halving
<1>5. /\ launch.kernel = "streaming" => MaxRows(p) = k /\ SumRows(p) = k /\ SumMax(p) = k /\ AccRows(p) = k
      /\ launch.kernel = "matvec" => AccRows(p) = 0
  BY <1>1, StreamingRows DEF AccRows
<1>6. Live(p) = Scratches(2 * n) \cup more
  BY <1>1 DEF Live
<1>7. \A j, u : Expect(p, Scratch(j, u)) = Part(j, 2 * n, u)
  BY <1>1, ScratchCell
<1>8. \A u : /\ Reads(p, u) = IF u < n THEN {Scratch(j, v) : j \in 0..launch.tile-1, v \in {u, u + n}} ELSE {}
             /\ Writes(p, u) = IF u < n THEN {Scratch(j, u) : j \in 0..launch.tile-1} ELSE {}
  BY <1>1 DEF Reads, Writes
<1>9. ASSUME NEW u \in Threads PROVE Reads(p, u) \subseteq Live(p)
  BY <1>3, <1>6, <1>8 DEF Scratches, Threads
<1>10. ASSUME NEW c \in Live(q) PROVE (\E u \in Threads : c \in Writes(p, u)) \/ Kept(p, c)
  <2>1. CASE c \in Scratches(n)
    <3>1. PICK j \in 0..launch.tile-1, u \in 0..n-1 : c = Scratch(j, u)
      BY <2>1 DEF Scratches
    <3>2. u \in Threads /\ u < n
      BY <1>3, Numbers DEF Threads
    <3> QED BY <3>1, <3>2, <1>8
  <2>2. CASE c \notin Scratches(n)
    <3>1. launch.kernel = "streaming" /\ c \in Queries \cup Shared({"m", "l"})
      BY <2>2, <1>4
    <3>2. Expect(q, c) = Expect(p, c)
      BY <3>1, <1>4, <1>5, SameRunning
    <3> QED BY <3>1, <3>2, <1>6 DEF Kept, q
  <2> QED BY <2>1, <2>2
<1>11. ASSUME NEW t \in Threads, NEW s, \A c \in Reads(p, t) : s[c] = Expect(p, c),
              NEW c \in Live(q) \cap Writes(p, t)
       PROVE  Value(p, c, {t}, s) = Expect(q, c)
  <2>1. PICK j \in 0..launch.tile-1 : c = Scratch(j, t) /\ t < n
    BY <1>8
  <2>2. t \in 0..n-1
    BY <2>1, <1>3, Numbers DEF Threads
  <2>3. c[2] = j
    BY <2>1 DEF Scratch
  <2>4. Value(p, c, {t}, s) = Plus(s[Scratch(j, t)], s[Scratch(j, t + n)])
    BY <1>1, <2>1, <2>3, Alone DEF Value, StreamingValue
  <2>5. s[Scratch(j, t)] = Part(j, 2 * n, t) /\ s[Scratch(j, t + n)] = Part(j, 2 * n, t + n)
    BY <1>7, <1>8, <1>11, <2>1
  <2>6. Plus(Part(j, 2 * n, t), Part(j, 2 * n, t + n)) = Part(j, n, t)
    <3>1. \A i : Plus(Of(i, Share(2 * n, t)), Of(i, Share(2 * n, t + n))) = Of(i, Share(n, t))
      BY <2>2, Halves, PlusDisjoint
    <3>2. Plus(Of(0, {}), Of(0, {})) = Of(0, {})
      BY PlusDisjoint
    <3> QED BY <3>1, <3>2 DEF Product
  <2> QED BY <2>1, <2>4, <2>5, <2>6, <1>4
<1>12. ASSUME NEW d \in Dims, NEW s, acc[d] = AccAt(p) PROVE Accumulated(p, d, s) = AccAt(q)
  BY <1>1, <1>4, <1>5, <1>12, SameAcc DEF q
<1> QED BY <1>4, <1>9, <1>10, <1>11, <1>12, Alone DEF Advances, q, p

(* Thread 0's online softmax of a row.                                    *)
LEMMA SoftmaxAdvances ==
  ASSUME Typed, launch.kernel = "streaming", NEW k \in Nat, k < NumVisible
  PROVE  Advances(P("softmax", k, 0))
<1> DEFINE p == P("softmax", k, 0)
           q == P("accumulate", k, 0)
<1>1. /\ p.op = "softmax" /\ p.k = k /\ p.n = 0
      /\ q.op = "accumulate" /\ q.k = k /\ q.n = 0 /\ q = P(q.op, q.k, q.n)
  BY Fields
<1>2. After(p) = q
  BY <1>1 DEF After
<1> HIDE DEF p, q
<1>3. Reached(q)
  BY <1>1 DEF Reached, Visits
<1>4. /\ Live(p) = Scratches(1) \cup Queries \cup Shared({"m", "l"})
      /\ Live(q) = Queries \cup Shared({"m", "l", "alpha", "beta"})
  BY <1>1 DEF Live
<1>5. Upto(k) = k
  BY UptoEnds
<1>6. /\ MaxRows(p) = k /\ SumRows(p) = k /\ SumMax(p) = k /\ AccRows(p) = k /\ NextRows(p) = k + 1
      /\ MaxRows(q) = k + 1 /\ SumRows(q) = k + 1 /\ SumMax(q) = k + 1 /\ AccRows(q) = k /\ NextRows(q) = k + 1
  BY <1>1, <1>5 DEF MaxRows, SumRows, SumMax, AccRows, NextRows
<1>7. \A u : /\ Reads(p, u) = ThreadZero(u, {Scratch(0, 0)} \cup Shared({"m", "l"}))
             /\ Writes(p, u) = ThreadZero(u, Shared({"score", "alpha", "beta", "m", "l"}))
  BY <1>1 DEF Reads, Writes
<1>8. Scratch(0, 0) \in Scratches(1) /\ 0 \in Threads
  BY Numbers DEF Scratches, Threads
<1>9. ASSUME NEW u \in Threads PROVE Reads(p, u) \subseteq Live(p)
  BY <1>4, <1>7, <1>8 DEF ThreadZero
<1>10. ASSUME NEW c \in Live(q) PROVE (\E u \in Threads : c \in Writes(p, u)) \/ Kept(p, c)
  <2>1. CASE c \in Queries
    BY <2>1, <1>2, <1>4, QueryCell DEF Kept, Queries
  <2>2. CASE c \in Shared({"m", "l", "alpha", "beta"})
    <3>1. c \in Writes(p, 0)
      BY <2>2, <1>7 DEF ThreadZero, Shared
    <3> QED BY <3>1, <1>8
  <2> QED BY <2>1, <2>2, <1>4
<1>11. ASSUME NEW t \in Threads, NEW s, \A c \in Reads(p, t) : s[c] = Expect(p, c),
              NEW c \in Live(q) \cap Writes(p, t)
       PROVE  Value(p, c, {t}, s) = Expect(q, c)
  <2>1. t = 0 /\ c \in Shared({"score", "alpha", "beta", "m", "l"})
    BY <1>7 DEF ThreadZero
  <2>2. c \in Shared({"alpha", "beta", "m", "l"})
    <3>1. <<"score">> \notin Queries
      BY DEF Queries, Q
    <3> QED BY <3>1, <2>1, <1>4 DEF Shared
  <2>3. /\ Scratch(0, 0) \in Reads(p, t) /\ <<"m">> \in Reads(p, t) /\ <<"l">> \in Reads(p, t)
    BY <2>1, <1>7 DEF ThreadZero, Shared
  <2>4. s[Scratch(0, 0)] = Whole(k)
    <3>1. Expect(p, Scratch(0, 0)) = Of(k, Share(1, 0))
      BY <1>1, ScratchCell
    <3> QED BY <3>1, <2>3, <1>11, WholeShare DEF Whole
  <2>5. s[<<"m">>] = Maxima(k) /\ s[<<"l">>] = Weights(k, k, <<>>)
    BY <2>3, <1>11, <1>6, MaxCell, SumCell
  <2>6. Append(s[<<"m">>], s[Scratch(0, 0)]) = Maxima(k + 1)
    BY <2>4, <2>5, NextMaximum
  <2>7. Append(Rescaled(s[<<"l">>], [from |-> s[<<"m">>], to |-> Maxima(k + 1)]),
               Weight(k, Whole(k), Maxima(k + 1), <<>>))
        = Weights(k + 1, k + 1, <<>>)
    <3>1. Rescaled(s[<<"l">>], [from |-> s[<<"m">>], to |-> Maxima(k + 1)]) = Weights(k, k + 1, <<>>)
      BY <2>5, Rescale
    <3> QED BY <3>1, NextWeight
  <2>8. CASE c = <<"m">>
    <3>1. Value(p, c, {t}, s) = Maxima(k + 1)
      BY <1>1, <2>6, <2>8, Alone DEF Value, StreamingValue
    <3> QED BY <3>1, <2>8, <1>6, MaxCell
  <2>9. CASE c = <<"alpha">>
    <3>1. Value(p, c, {t}, s) = [from |-> Maxima(k), to |-> Maxima(k + 1)]
      BY <1>1, <2>5, <2>6, <2>9, Alone DEF Value, StreamingValue
    <3> QED BY <3>1, <2>9, <1>1, <1>5, <1>6, SoftmaxCells
  <2>10. CASE c = <<"beta">>
    <3>1. Value(p, c, {t}, s) = Weight(k, Whole(k), Maxima(k + 1), <<>>)
      BY <1>1, <2>4, <2>6, <2>10, Alone DEF Value, StreamingValue
    <3> QED BY <3>1, <2>10, <1>1, SoftmaxCells
  <2>11. CASE c = <<"l">>
    <3>1. Value(p, c, {t}, s) = Weights(k + 1, k + 1, <<>>)
      BY <1>1, <2>4, <2>6, <2>7, <2>11, Alone DEF Value, StreamingValue
    <3> QED BY <3>1, <2>11, <1>6, SumCell
  <2> QED BY <2>2, <2>8, <2>9, <2>10, <2>11 DEF Shared
<1>12. ASSUME NEW d \in Dims, NEW s, acc[d] = AccAt(p) PROVE Accumulated(p, d, s) = AccAt(q)
  BY <1>1, <1>2, <1>6, <1>12, SameAcc
<1> QED BY <1>2, <1>3, <1>9, <1>10, <1>11, <1>12, Alone DEF Advances, p

(* The accumulators take in a row, with its weight.                       *)
LEMMA AccumulateAdvances ==
  ASSUME Typed, launch.kernel = "streaming", NEW k \in Nat, k < NumVisible
  PROVE  Advances(P("accumulate", k, 0))
<1> DEFINE p == P("accumulate", k, 0)
           q == After(p)
<1>1. p.op = "accumulate" /\ p.k = k /\ p.n = 0
  BY Fields
<1>2. q = Row(k + 1)
  BY <1>1 DEF After
<1> HIDE DEF p, q
<1>3. /\ Reached(q) /\ Live(q) \subseteq Queries \cup Shared({"m", "l"})
      /\ MaxRows(q) = k + 1 /\ SumRows(q) = k + 1 /\ SumMax(q) = k + 1 /\ AccRows(q) = k + 1
  BY <1>2, VisibleRows, NextRow
<1>4. /\ MaxRows(p) = k + 1 /\ SumRows(p) = k + 1 /\ SumMax(p) = k + 1 /\ AccRows(p) = k /\ Upto(k) = k
      /\ NextRows(p) = k + 1
  BY <1>1, UptoEnds DEF MaxRows, SumRows, SumMax, AccRows, NextRows
<1>5. Live(p) = Queries \cup Shared({"m", "l", "alpha", "beta"})
  BY <1>1 DEF Live
<1>6. \A u : /\ Reads(p, u) = IF u \in Dims THEN Shared({"alpha", "beta"}) ELSE {}
             /\ Writes(p, u) = {}
  BY <1>1 DEF Reads, Writes
<1>7. ASSUME NEW u \in Threads PROVE Reads(p, u) \subseteq Live(p)
  BY <1>5, <1>6 DEF Shared
<1>8. ASSUME NEW c \in Live(q) PROVE Kept(p, c)
  <2>1. c \in Queries \cup Shared({"m", "l"})
    BY <1>3
  <2>2. Expect(q, c) = Expect(p, c)
    BY <2>1, <1>3, <1>4, SameRunning
  <2>3. c \in Live(p)
    BY <2>1, <1>5 DEF Shared
  <2> QED BY <2>2, <2>3 DEF Kept, q
<1>9. ASSUME NEW t \in Threads, NEW s, \A c \in Reads(p, t) : s[c] = Expect(p, c),
             NEW d \in Dims, d % T = t, acc[d] = AccAt(p)
      PROVE  Accumulated(p, d, s) = AccAt(q)
  <2>1. launch.dims <= T
    BY DEF Typed, Supported, T
  <2>2. t = d
    BY <2>1, <1>9, Numbers DEF Dims
  <2>3. <<"alpha">> \in Reads(p, t) /\ <<"beta">> \in Reads(p, t)
    BY <2>2, <1>6 DEF Shared
  <2>4. /\ s[<<"alpha">>] = [from |-> Maxima(k), to |-> Maxima(k + 1)]
        /\ s[<<"beta">>] = Weight(k, Whole(k), Maxima(k + 1), <<>>)
    BY <2>3, <1>1, <1>4, <1>9, SoftmaxCells
  <2>5. Weight(k, s[<<"beta">>].score, s[<<"beta">>].max, <<>>) = Weight(k, Whole(k), Maxima(k + 1), <<>>)
    BY <2>4 DEF Weight
  <2>6. acc[d] = Weights(k, k, <<>>)
    BY <1>4, <1>9 DEF AccAt
  <2>7. Rescaled(acc[d], s[<<"alpha">>]) = Weights(k, k + 1, <<>>)
    BY <2>4, <2>6, Rescale
  <2>8. Accumulated(p, d, s) = Append(Rescaled(acc[d], s[<<"alpha">>]),
                                      Weight(k, s[<<"beta">>].score, s[<<"beta">>].max, <<>>))
    BY <1>1 DEF Accumulated
  <2>9. Accumulated(p, d, s) = Weights(k + 1, k + 1, <<>>)
    BY <2>5, <2>7, <2>8, NextWeight
  <2> QED BY <2>9, <1>3 DEF AccAt
<1> QED BY <1>3, <1>6, <1>7, <1>8, <1>9, Alone DEF Advances, q, p

(* Each thread's part of every product of a tile.                         *)
LEMMA PartialAdvances ==
  ASSUME Typed, launch.kernel = "matvec"
  PROVE  Advances(P("partial", 0, 0))
<1> DEFINE p == P("partial", 0, 0)
           q == After(p)
<1>1. p.op = "partial" /\ p.k = 0 /\ p.n = 0
  BY Fields
<1>2. q = Halve(0, T \div 2)
  BY <1>1 DEF After
<1> HIDE DEF p, q
<1>3. /\ Reached(q)
      /\ Live(q) = Scratches(T)
      /\ \A n, u : Expect(q, Scratch(n, u)) = Product(n, Share(T, u))
      /\ AccRows(q) = 0
  BY <1>2, Numbers, Halving
<1>4. AccRows(p) = 0
  BY DEF AccRows
<1>5. \A u : Reads(p, u) = {} /\ Writes(p, u) = {Scratch(n, u) : n \in 0..launch.tile-1}
  BY <1>1 DEF Reads, Writes
<1>6. ASSUME NEW c \in Live(q) PROVE \E u \in Threads : c \in Writes(p, u)
  BY <1>3, <1>5 DEF Scratches, Threads
<1>7. ASSUME NEW t \in Threads, NEW s, NEW c \in Live(q) \cap Writes(p, t)
      PROVE  Value(p, c, {t}, s) = Expect(q, c)
  <2>1. PICK n \in 0..launch.tile-1 : c = Scratch(n, t)
    BY <1>5
  <2>2. c[2] = n
    BY <2>1 DEF Scratch
  <2>3. Value(p, c, {t}, s) = IF launch.first + n < launch.outputs THEN Of(launch.first + n, Mine(t)) ELSE Of(0, {})
    BY <1>1, <2>2, Alone DEF Value, StreamingValue
  <2>4. Mine(t) = Share(T, t)
    BY DEF Mine, Share
  <2> QED BY <2>1, <2>3, <2>4, <1>3 DEF Product
<1>8. ASSUME NEW d \in Dims, NEW s, acc[d] = AccAt(p) PROVE Accumulated(p, d, s) = AccAt(q)
  BY <1>1, <1>3, <1>4, <1>8, SameAcc DEF q
<1> QED BY <1>3, <1>5, <1>6, <1>7, <1>8, Alone DEF Advances, q, p

---------------------------------------------------------------------------
(* Kernels with simd_sum. *)

(* A simdgroup is a unit; the dims of its threads are its share.          *)
LEMMA SimdUnit ==
  ASSUME Typed, Simd(launch), NEW t \in Threads
  PROVE  /\ Unit(t) = SimdGroup(t)
         /\ t \div SimdWidth \in Nat
         /\ UNION {Mine(u) : u \in SimdGroup(t)} = Group(t \div SimdWidth)
<1>1. t \div SimdWidth \in Nat
  BY Numbers DEF Threads
<1>2. \A d \in Dims : d % T \in Threads
  BY Numbers DEF Dims, Threads
<1>3. UNION {Mine(u) : u \in SimdGroup(t)} = Group(t \div SimdWidth)
  BY <1>2 DEF Mine, SimdGroup, Group
<1> QED BY <1>1, <1>3 DEF Unit

(* The threads are cut into whole simdgroups, no more than one has lanes. *)
LEMMA SimdShape ==
  ASSUME Typed, Simd(launch)
  PROVE  /\ T % SimdWidth = 0
         /\ \A g \in Groups : /\ SimdWidth * g \in Threads
                              /\ (SimdWidth * g) \div SimdWidth = g
                              /\ g \in Threads /\ g \div SimdWidth = 0
         /\ 0 \in Threads /\ 0 \div SimdWidth = 0
<1>1. T % SimdWidth = 0 /\ T \div SimdWidth <= SimdWidth
  BY DEF Typed, Supported, T
<1>2. PICK b \in Nat : b = T \div SimdWidth /\ T = SimdWidth * b /\ b <= SimdWidth
  BY <1>1, Numbers
<1>3. \A w \in Nat \ {0} : \A a, c \in Nat : a < c => w * a < w * c /\ a <= w * a
  OBVIOUS
<1>4. \A w \in Nat \ {0} : \A a \in Nat : (w * a) \div w = a /\ (a < w => a \div w = 0)
  OBVIOUS
<1>5. ASSUME NEW g \in Groups
      PROVE  /\ SimdWidth * g \in Threads
             /\ (SimdWidth * g) \div SimdWidth = g
             /\ g \in Threads /\ g \div SimdWidth = 0
  <2>1. g \in Nat /\ g < b
    BY <1>2 DEF Groups
  <2>2. SimdWidth * g < T /\ g <= SimdWidth * g /\ SimdWidth * g \in Nat
    BY <2>1, <1>2, <1>3, Numbers
  <2>3. (SimdWidth * g) \div SimdWidth = g /\ g \div SimdWidth = 0
    BY <2>1, <1>2, <1>4, Numbers
  <2>4. \A x \in Nat : x < T => x \in Threads
    BY Numbers DEF Threads
  <2>5. g < T
    BY <2>1, <2>2, Numbers
  <2> QED BY <2>1, <2>2, <2>3, <2>4, <2>5
<1>6. 0 \in Threads /\ 0 \div SimdWidth = 0
  BY <1>4, Numbers DEF Threads
<1> QED BY <1>1, <1>5, <1>6

(* The first lanes write the partial sums of all simdgroups.              *)
LEMMA PartialSums ==
  ASSUME Typed, Simd(launch), NEW p, p.op \in {"simd_dot", "simd_squares"}
  PROVE  /\ \A c \in Partials : \E u \in Threads : c \in Writes(p, u)
         /\ \A u : Reads(p, u) = {} /\ Writes(p, u) \subseteq {Partial(u \div SimdWidth)}
         /\ \A t \in Threads : \A u \in Unit(t) : \A s : \A c \in Writes(p, u) :
               /\ c = Partial(t \div SimdWidth)
               /\ Value(p, c, Unit(t), s)
                  = Of(p.k, IF p.op = "simd_dot" /\ Masked(p.k) THEN {} ELSE Group(t \div SimdWidth))
<1>1. \A u : /\ Reads(p, u) = {}
             /\ Writes(p, u) = IF FirstLane(u) THEN {Partial(u \div SimdWidth)} ELSE {}
  BY DEF Reads, Writes
<1>2. ASSUME NEW c \in Partials PROVE \E u \in Threads : c \in Writes(p, u)
  <2>1. PICK g \in Groups : c = Partial(g)
    BY DEF Partials
  <2>2. PICK u \in Threads : u = SimdWidth * g /\ u \div SimdWidth = g
    BY SimdShape
  <2>3. FirstLane(u)
    BY <2>2 DEF FirstLane
  <2> QED BY <1>1, <2>1, <2>2, <2>3
<1>3. ASSUME NEW t \in Threads, NEW u \in Unit(t), NEW s, NEW c \in Writes(p, u)
      PROVE  /\ c = Partial(t \div SimdWidth)
             /\ Value(p, c, Unit(t), s)
                = Of(p.k, IF p.op = "simd_dot" /\ Masked(p.k) THEN {} ELSE Group(t \div SimdWidth))
  <2>1. c = Partial(t \div SimdWidth)
    BY <1>1, SimdUnit DEF SimdGroup
  <2>2. UNION {Mine(v) : v \in Unit(t)} = Group(t \div SimdWidth)
    BY SimdUnit
  <2>3. Value(p, c, Unit(t), s) = SimdValue(p, c, Unit(t), s)
    BY DEF Value
  <2>4. SimdValue(p, c, Unit(t), s)
        = Of(p.k, IF p.op = "simd_dot" /\ Masked(p.k) THEN {} ELSE UNION {Mine(v) : v \in Unit(t)})
    BY DEF SimdValue
  <2> QED BY <2>1, <2>2, <2>3, <2>4
<1> QED BY <1>1, <1>2, <1>3

(* Squares of a row's elements.                                           *)
LEMMA SquaresAdvances ==
  ASSUME Typed, launch.kernel = "rms_norm"
  PROVE  Advances(P("simd_squares", 0, 0))
<1> DEFINE p == P("simd_squares", 0, 0)
           q == P("simd_total", 0, 0)
<1>1. /\ p.op = "simd_squares" /\ p.k = 0 /\ p.n = 0
      /\ q.op = "simd_total" /\ q.k = 0 /\ q.n = 0
  BY Fields
<1>2. After(p) = q /\ Simd(launch)
  BY <1>1 DEF After, Simd
<1>3. Reached(q)
  BY DEF Reached
<1> HIDE DEF p, q
<1>4. Live(q) = Partials
  BY <1>1 DEF Live
<1>5. /\ \A c \in Partials : \E u \in Threads : c \in Writes(p, u)
      /\ \A u : Reads(p, u) = {}
      /\ \A t \in Threads : \A u \in Unit(t) : \A s : \A c \in Writes(p, u) :
            /\ c = Partial(t \div SimdWidth)
            /\ Value(p, c, Unit(t), s) = Of(0, Group(t \div SimdWidth))
  BY <1>1, <1>2, PartialSums
<1>6. \A g : Expect(q, Partial(g)) = Of(0, Group(g))
  BY <1>1, PartialCell
<1>7. AccRows(p) = 0 /\ AccRows(q) = 0
  BY DEF AccRows
<1>8. ASSUME NEW d \in Dims, NEW s, acc[d] = AccAt(p) PROVE Accumulated(p, d, s) = AccAt(q)
  BY <1>1, <1>2, <1>7, <1>8, SameAcc
<1> QED BY <1>2, <1>3, <1>4, <1>5, <1>6, <1>8 DEF Advances, p

(* What thread 0 makes of all partial sums.                               *)
LEMMA TotalOfPartials ==
  ASSUME Typed, Simd(launch), NEW k, NEW s, \A g \in Groups : s[Partial(g)] = Of(k, Group(g))
  PROVE  Total([g \in 0..T \div SimdWidth - 1 |-> s[Partial(g)]], 0..T \div SimdWidth - 1) = Whole(k)
<1> DEFINE values == [g \in Groups |-> s[Partial(g)]]
<1>1. \A g \in Groups : values[g] = Of(k, Group(g))
  OBVIOUS
<1> HIDE DEF values
<1>2. Total(values, Groups) = Of(k, Dims)
  BY <1>1, SimdShape, TotalOfGroups
<1> QED BY <1>2 DEF values, Groups, Whole

(* The total of the squares.                                              *)
LEMMA TotalAdvances ==
  ASSUME Typed, launch.kernel = "rms_norm"
  PROVE  Advances(P("simd_total", 0, 0))
<1> DEFINE p == P("simd_total", 0, 0)
           q == Output
<1>1. /\ p.op = "simd_total" /\ p.k = 0 /\ p.n = 0
      /\ q.op = "output" /\ q.k = 0
  BY Fields DEF Output
<1>2. After(p) = q /\ Simd(launch)
  BY <1>1 DEF After, Simd
<1>3. Reached(q)
  BY DEF Reached
<1> HIDE DEF p, q
<1>4. Live(p) = Partials /\ Live(q) = Shared({"inv_rms"})
  BY <1>1 DEF Live
<1>5. \A u : /\ Reads(p, u) \subseteq IF u < T \div SimdWidth THEN {Partial(u)} ELSE {}
             /\ u < T \div SimdWidth => Partial(u) \in Reads(p, u)
             /\ Writes(p, u) = ThreadZero(u, Shared({"inv_rms"}))
  BY <1>1 DEF Reads, Writes, ThreadZero
<1>6. ASSUME NEW u \in Threads PROVE Reads(p, u) \subseteq Live(p)
  BY <1>4, <1>5, Numbers DEF Partials, Groups, Threads
<1>7. ASSUME NEW c \in Live(q) PROVE \E u \in Threads : c \in Writes(p, u)
  BY <1>2, <1>4, <1>5, SimdShape DEF ThreadZero
<1>8. ASSUME NEW t \in Threads, NEW s, \A u \in Unit(t) : \A c \in Reads(p, u) : s[c] = Expect(p, c),
             NEW u \in Unit(t), NEW c \in Live(q) \cap Writes(p, u)
      PROVE  Value(p, c, Unit(t), s) = Expect(q, c)
  <2>1. u = 0 /\ c = <<"inv_rms">>
    BY <1>5 DEF ThreadZero, Shared
  <2>2. t \div SimdWidth = 0 \div SimdWidth
    BY <2>1, <1>2, SimdUnit DEF SimdGroup
  <2>3. \A g \in Groups : g \in Unit(t) /\ g < T \div SimdWidth
    BY <2>2, <1>2, SimdUnit, SimdShape, Numbers DEF SimdGroup, Groups
  <2>4. \A g \in Groups : s[Partial(g)] = Of(0, Group(g))
    BY <2>3, <1>1, <1>5, <1>8, PartialCell
  <2>5. Value(p, c, Unit(t), s) = Whole(0)
    BY <1>1, <1>2, <2>1, <2>4, TotalOfPartials DEF Value, SimdValue
  <2> QED BY <2>1, <2>5, <1>1, ScoreCell
<1>9. AccRows(p) = 0 /\ AccRows(q) = 0
  BY DEF AccRows
<1>10. ASSUME NEW d \in Dims, NEW s, acc[d] = AccAt(p) PROVE Accumulated(p, d, s) = AccAt(q)
  BY <1>1, <1>2, <1>9, <1>10, SameAcc
<1> QED BY <1>2, <1>3, <1>6, <1>7, <1>8, <1>10 DEF Advances, p

(* Before the first pass of row_parallel thread 0 sets the maximum.       *)
LEMMA ZeroMaxAdvances ==
  ASSUME Typed, launch.kernel = "row_parallel"
  PROVE  Advances(P("zero_max", 0, 0))
<1> DEFINE p == P("zero_max", 0, 0)
           q == P("simd_dot", 0, 1)
<1>1. /\ p.op = "zero_max" /\ p.k = 0 /\ p.n = 0
      /\ q.op = "simd_dot" /\ q.k = 0 /\ q.n = 1 /\ q = P(q.op, q.k, q.n)
  BY Fields
<1>2. launch.rows >= 1
  BY DEF Typed, Supported
<1>3. After(p) = q /\ Simd(launch)
  BY <1>1, <1>2, Numbers DEF After, Pass, Simd
<1> HIDE DEF p, q
<1>4. Reached(q)
  BY <1>1, <1>2, Numbers DEF Reached, Visits
<1>5. Live(q) = Shared({"m"})
  BY <1>1 DEF Live
<1>6. \A u : Reads(p, u) = {} /\ Writes(p, u) = ThreadZero(u, Shared({"m"}))
  BY <1>1 DEF Reads, Writes
<1>7. Upto(0) = 0
  BY UptoEnds
<1>8. MaxRows(q) = 0 /\ AccRows(p) = 0 /\ AccRows(q) = 0
  BY <1>1, <1>7 DEF MaxRows, AccRows
<1>9. ASSUME NEW c \in Live(q) PROVE \E u \in Threads : c \in Writes(p, u)
  BY <1>3, <1>5, <1>6, SimdShape DEF ThreadZero
<1>10. ASSUME NEW t \in Threads, NEW s, NEW u \in Unit(t), NEW c \in Live(q) \cap Writes(p, u)
       PROVE  Value(p, c, Unit(t), s) = Expect(q, c)
  <2>1. c = <<"m">>
    BY <1>5 DEF Shared
  <2>2. Value(p, c, Unit(t), s) = <<>>
    BY <1>1, <1>3 DEF Value, SimdValue
  <2>3. Maxima(0) = <<>>
    BY DEF Maxima
  <2> QED BY <2>1, <2>2, <2>3, <1>8, MaxCell
<1>11. ASSUME NEW d \in Dims, NEW s, acc[d] = AccAt(p) PROVE Accumulated(p, d, s) = AccAt(q)
  BY <1>1, <1>3, <1>8, <1>11, SameAcc
<1> QED BY <1>3, <1>4, <1>6, <1>9, <1>10, <1>11 DEF Advances, p

(* After the first pass thread 0 sets the denominator to 0. *)
LEMMA ZeroDenomAdvances ==
  ASSUME Typed, launch.kernel = "row_parallel"
  PROVE  Advances(P("zero_denom", 0, 0))
<1> DEFINE p == P("zero_denom", 0, 0)
           q == P("simd_dot", 0, 2)
<1>1. /\ p.op = "zero_denom" /\ p.k = 0 /\ p.n = 0
      /\ q.op = "simd_dot" /\ q.k = 0 /\ q.n = 2 /\ q = P(q.op, q.k, q.n)
  BY Fields
<1>2. launch.rows >= 1
  BY DEF Typed, Supported
<1>3. After(p) = q /\ Simd(launch)
  BY <1>1, <1>2, Numbers DEF After, Pass, Simd
<1> HIDE DEF p, q
<1>4. Reached(q)
  BY <1>1, <1>2, Numbers DEF Reached, Visits
<1>5. Live(p) = Shared({"m"}) /\ Live(q) = Shared({"m"}) \cup Shared({"l"})
  BY <1>1 DEF Live
<1>6. \A u : Reads(p, u) = {} /\ Writes(p, u) = ThreadZero(u, Shared({"l"}))
  BY <1>1 DEF Reads, Writes
<1>7. Upto(0) = 0
  BY UptoEnds
<1>8. MaxRows(p) = NumVisible /\ MaxRows(q) = NumVisible /\ SumRows(q) = 0 /\ AccRows(p) = 0 /\ AccRows(q) = 0
  BY <1>1, <1>7 DEF MaxRows, SumRows, AccRows
<1>9. ASSUME NEW c \in Live(q) PROVE (\E u \in Threads : c \in Writes(p, u)) \/ Kept(p, c)
  <2>1. CASE c \in Shared({"m"})
    BY <2>1, <1>3, <1>5, <1>8, MaxCell DEF Kept, Shared
  <2>2. CASE c \in Shared({"l"})
    BY <2>2, <1>3, <1>6, SimdShape DEF ThreadZero
  <2> QED BY <2>1, <2>2, <1>5
<1>10. ASSUME NEW t \in Threads, NEW s, NEW u \in Unit(t), NEW c \in Live(q) \cap Writes(p, u)
       PROVE  Value(p, c, Unit(t), s) = Expect(q, c)
  <2>1. c = <<"l">>
    BY <1>6 DEF Shared, ThreadZero
  <2>2. Value(p, c, Unit(t), s) = <<>>
    BY <1>1, <1>3 DEF Value, SimdValue
  <2>3. \A m : Weights(0, m, <<>>) = <<>>
    BY DEF Weights
  <2> QED BY <2>1, <2>2, <2>3, <1>8, SumCell
<1>11. ASSUME NEW d \in Dims, NEW s, acc[d] = AccAt(p) PROVE Accumulated(p, d, s) = AccAt(q)
  BY <1>1, <1>3, <1>8, <1>11, SameAcc
<1> QED BY <1>3, <1>4, <1>6, <1>9, <1>10, <1>11 DEF Advances, p

(* Each simdgroup's part of a dot product, in any of the passes.          *)
LEMMA SimdDotAdvances ==
  ASSUME Typed, launch.kernel = "row_parallel", NEW k \in Nat, k < launch.rows, NEW n \in 1..3
  PROVE  Advances(P("simd_dot", k, n))
<1> DEFINE p == P("simd_dot", k, n)
           q == P("simd_score", k, n)
           running == Shared({"m"}) \cup IF n = 1 THEN {} ELSE Shared({"l"})
<1>1. /\ p.op = "simd_dot" /\ p.k = k /\ p.n = n
      /\ q.op = "simd_score" /\ q.k = k /\ q.n = n /\ q = P(q.op, q.k, q.n)
  BY Fields
<1>2. After(p) = q /\ Simd(launch)
  BY <1>1 DEF After, Simd
<1> HIDE DEF p, q
<1>3. Reached(q)
  BY <1>1 DEF Reached, Visits
<1>4. Live(p) = running /\ Live(q) = Partials \cup running
  BY <1>1 DEF Live
<1>5. /\ \A c \in Partials : \E u \in Threads : c \in Writes(p, u)
      /\ \A u : Reads(p, u) = {}
      /\ \A t \in Threads : \A u \in Unit(t) : \A s : \A c \in Writes(p, u) :
            /\ c = Partial(t \div SimdWidth)
            /\ Value(p, c, Unit(t), s) = Of(k, IF Masked(k) THEN {} ELSE Group(t \div SimdWidth))
  BY <1>1, <1>2, PartialSums
<1>6. \A g : Expect(q, Partial(g)) = Of(k, IF Masked(k) THEN {} ELSE Group(g))
  BY <1>1, PartialCell
<1>7. MaxRows(p) = MaxRows(q) /\ SumRows(p) = SumRows(q) /\ SumMax(p) = SumMax(q) /\ AccRows(p) = AccRows(q)
  BY <1>1 DEF MaxRows, SumRows, SumMax, AccRows
<1>8. ASSUME NEW c \in Live(q) PROVE (\E u \in Threads : c \in Writes(p, u)) \/ Kept(p, c)
  <2>1. CASE c \in Partials
    BY <2>1, <1>5
  <2>2. CASE c \in running
    <3>1. c \in Shared({"m", "l"})
      BY <2>2 DEF Shared
    <3>2. Expect(q, c) = Expect(p, c)
      BY <3>1, <1>7, SameRunning
    <3> QED BY <2>2, <3>2, <1>2, <1>4 DEF Kept
  <2> QED BY <2>1, <2>2, <1>4
<1>9. ASSUME NEW d \in Dims, NEW s, acc[d] = AccAt(p) PROVE Accumulated(p, d, s) = AccAt(q)
  BY <1>1, <1>2, <1>7, <1>9, SameAcc
<1> QED BY <1>2, <1>3, <1>5, <1>6, <1>8, <1>9 DEF Advances, p

(* Where a pass goes on after row k.                                      *)
LEMMA NextPass ==
  ASSUME Typed, launch.kernel = "row_parallel", NEW k \in Nat, k < launch.rows, NEW n \in 1..3,
         NEW q, q = Pass(n, k + 1)
  PROVE  /\ Reached(q)
         /\ Live(q) \subseteq Shared({"m"}) \cup IF n = 1 THEN {} ELSE Shared({"l"})
         /\ MaxRows(q) = IF n = 1 THEN Upto(k + 1) ELSE NumVisible
         /\ n = 2 => SumRows(q) = Upto(k + 1)
         /\ n = 3 => SumRows(q) = NumVisible
         /\ SumMax(q) = NumVisible
         /\ AccRows(q) = IF n = 3 THEN Upto(k + 1) ELSE 0
<1>1. 0 < launch.rows /\ k + 1 \in Nat
  BY Numbers DEF Typed, Supported
<1>2. Upto(0) = 0 /\ (~(k + 1 < launch.rows) => Upto(k + 1) = NumVisible)
  BY <1>1, UptoEnds
<1>3. SumMax(q) = NumVisible
  BY DEF SumMax
<1>4. CASE k + 1 < launch.rows
  <2>1. q = P("simd_dot", k + 1, n)
    BY <1>4 DEF Pass
  <2>2. q.op = "simd_dot" /\ q.k = k + 1 /\ q.n = n /\ q = P(q.op, q.k, q.n)
    BY <2>1, Fields
  <2>3. Reached(q)
    BY <2>2, <1>1, <1>4 DEF Reached, Visits
  <2>4. Live(q) = Shared({"m"}) \cup IF n = 1 THEN {} ELSE Shared({"l"})
    BY <2>2 DEF Live
  <2> QED BY <2>2, <2>3, <2>4, <1>3 DEF MaxRows, SumRows, AccRows
<1>5. CASE ~(k + 1 < launch.rows) /\ n = 1
  <2>1. q = P("zero_denom", 0, 0)
    BY <1>5 DEF Pass
  <2>2. q.op = "zero_denom" /\ q.k = 0 /\ q.n = 0
    BY <2>1, Fields
  <2>3. Reached(q)
    BY <2>1 DEF Reached
  <2>4. Live(q) = Shared({"m"})
    BY <2>2 DEF Live
  <2> QED BY <2>2, <2>3, <2>4, <1>2, <1>3, <1>5 DEF MaxRows, SumRows, AccRows
<1>6. CASE ~(k + 1 < launch.rows) /\ n = 2
  <2>1. q = P("simd_dot", 0, 3)
    BY <1>6 DEF Pass
  <2>2. q.op = "simd_dot" /\ q.k = 0 /\ q.n = 3 /\ q = P(q.op, q.k, q.n)
    BY <2>1, Fields
  <2>3. Reached(q)
    BY <2>2, <1>1 DEF Reached, Visits
  <2>4. Live(q) = Shared({"m"}) \cup Shared({"l"})
    BY <2>2 DEF Live
  <2> QED BY <2>2, <2>3, <2>4, <1>2, <1>3, <1>6 DEF MaxRows, SumRows, AccRows
<1>7. CASE ~(k + 1 < launch.rows) /\ n = 3
  <2>1. q = Output
    BY <1>7 DEF Pass
  <2>2. q.op = "output" /\ q.n = 0
    BY <2>1, Fields DEF Output
  <2>3. Reached(q)
    BY <2>1 DEF Reached
  <2>4. Live(q) = {}
    BY <2>2 DEF Live
  <2> QED BY <2>2, <2>3, <2>4, <1>2, <1>3, <1>7 DEF MaxRows, SumRows, AccRows
<1> QED BY <1>4, <1>5, <1>6, <1>7

(* What the phase of a score reads is alive.                               *)
LEMMA ScoreReads ==
  ASSUME Typed, launch.kernel = "row_parallel", NEW k \in Nat, NEW n \in 1..3,
         NEW p, p.op = "simd_score", p.k = k, p.n = n, NEW u \in Threads
  PROVE  Reads(p, u) \subseteq Live(p)
<1>1. Live(p) = Partials \cup Shared({"m"}) \cup IF n = 1 THEN {} ELSE Shared({"l"})
  BY DEF Live
<1>2. Reads(p, u) \subseteq (IF u < T \div SimdWidth THEN {Partial(u)} ELSE {})
                            \cup Shared({"m"}) \cup IF n = 1 THEN {} ELSE Shared({"l"})
  BY DEF Reads, ThreadZero, Shared
<1>3. u < T \div SimdWidth => Partial(u) \in Partials
  BY Numbers DEF Partials, Groups, Threads
<1> QED BY <1>1, <1>2, <1>3

(* What thread 0 makes of the score of a visible row.                      *)
LEMMA ScoreValue ==
  ASSUME Typed, launch.kernel = "row_parallel", NEW k \in Nat, k < launch.rows, NEW n \in 1..3, ~Masked(k),
         NEW p, p.op = "simd_score", p.k = k, p.n = n, NEW t \in Threads, 0 \in Unit(t), NEW c,
         NEW s, \A u \in Unit(t) : \A x \in Reads(p, u) : s[x] = Expect(p, x)
  PROVE  /\ c \notin {<<"m">>, <<"l">>} => Value(p, c, Unit(t), s) = Whole(k)
         /\ c = <<"m">> => Value(p, c, Unit(t), s) = Append(s[c], Whole(k))
         /\ c = <<"l">> => Value(p, c, Unit(t), s) = Append(s[c], Weight(k, Whole(k), s[<<"m">>], <<>>))
<1>1. \A u : Reads(p, u) = (IF u < T \div SimdWidth THEN {Partial(u)} ELSE {})
                          \cup ThreadZero(u, IF n = 3 THEN {} ELSE IF n = 1 THEN Shared({"m"}) ELSE Shared({"m", "l"}))
  BY DEF Reads
<1>2. Simd(launch)
  BY DEF Simd
<1>3. t \div SimdWidth = 0 \div SimdWidth
  BY <1>2, SimdUnit DEF SimdGroup
<1>4. \A g \in Groups : g \in Unit(t) /\ g < T \div SimdWidth
  BY <1>2, <1>3, SimdUnit, SimdShape, Numbers DEF SimdGroup, Groups
<1>5. \A g \in Groups : s[Partial(g)] = Of(k, Group(g))
  BY <1>4, <1>1, PartialCell
<1>6. Total([g \in 0..T \div SimdWidth - 1 |-> s[Partial(g)]], 0..T \div SimdWidth - 1) = Whole(k)
  BY <1>2, <1>5, TotalOfPartials
<1>7. /\ Value(p, c, Unit(t), s) = SimdValue(p, c, Unit(t), s)
      /\ p.op \notin {"zero_max", "zero_denom", "simd_dot", "simd_squares"}
  BY <1>2 DEF Value
<1>8. /\ c \notin {<<"m">>, <<"l">>} => Value(p, c, Unit(t), s) = Whole(k)
      /\ c = <<"m">> => Value(p, c, Unit(t), s) = Append(s[c], Whole(k))
      /\ c = <<"l">> => Value(p, c, Unit(t), s) = Append(s[c], Weight(k, Whole(k), s[<<"m">>], <<>>))
  BY <1>6, <1>7 DEF SimdValue
<1> QED BY <1>8

(* The first pass: the maximum of the visible rows so far.                *)
LEMMA MaxPassAdvances ==
  ASSUME Typed, launch.kernel = "row_parallel", NEW k \in Nat, k < launch.rows
  PROVE  Advances(P("simd_score", k, 1))
<1> DEFINE p == P("simd_score", k, 1)
           q == After(p)
<1>1. p.op = "simd_score" /\ p.k = k /\ p.n = 1
  BY Fields
<1>2. q = Pass(1, k + 1) /\ Simd(launch)
  BY <1>1 DEF After, Simd
<1> HIDE DEF q
<1>3. /\ Reached(q) /\ Live(q) \subseteq Shared({"m"})
      /\ MaxRows(q) = Upto(k + 1) /\ AccRows(q) = 0
  BY <1>2, NextPass
<1> HIDE DEF p
<1>4. /\ Live(p) = Partials \cup Shared({"m"})
      /\ MaxRows(p) = Upto(k) /\ AccRows(p) = 0
  BY <1>1 DEF Live, MaxRows, SumRows, SumMax, AccRows
<1>5. ASSUME NEW u \in Threads PROVE Reads(p, u) \subseteq Live(p)
  BY <1>1, ScoreReads
<1>6. \A u : Writes(p, u) = ThreadZero(u, IF Masked(k) THEN {} ELSE Shared({"m"}))
  BY <1>1 DEF Writes
<1>7. ASSUME NEW c \in Live(q) PROVE (\E u \in Threads : c \in Writes(p, u)) \/ Kept(p, c)
  <2>1. CASE Masked(k)
    <3>1. MaxRows(q) = MaxRows(p)
      BY <2>1, <1>3, <1>4, UptoNext
    <3>2. c = <<"m">>
      BY <1>3 DEF Shared
    <3> QED BY <3>1, <3>2, <1>3, <1>4, MaxCell DEF Kept, q
  <2>2. CASE ~Masked(k)
    BY <2>2, <1>2, <1>3, <1>4, <1>6, SimdShape DEF ThreadZero
  <2> QED BY <2>1, <2>2
<1>8. ASSUME NEW t \in Threads, NEW s, \A u \in Unit(t) : \A x \in Reads(p, u) : s[x] = Expect(p, x),
             NEW u \in Unit(t), NEW c \in Live(q) \cap Writes(p, u)
      PROVE  Value(p, c, Unit(t), s) = Expect(q, c)
  <2>1. u = 0 /\ c = <<"m">> /\ ~Masked(k)
    BY <1>3, <1>6 DEF ThreadZero, Shared
  <2>2. Value(p, c, Unit(t), s) = Append(Maxima(Upto(k)), Whole(k))
    <3>1. Value(p, c, Unit(t), s) = Append(s[c], Whole(k))
      BY <1>1, <2>1, <1>8, ScoreValue
    <3>2. <<"m">> \in Reads(p, 0)
      BY <1>1, <2>1 DEF Reads, ThreadZero, Shared
    <3>3. s[<<"m">>] = Maxima(MaxRows(p))
      BY <3>2, <2>1, <1>8, MaxCell
    <3> QED BY <3>1, <3>3, <2>1, <1>4
  <2>3. Upto(k) = k /\ Upto(k + 1) = k + 1
    BY <2>1, UptoNext
  <2>4. Value(p, c, Unit(t), s) = Maxima(k + 1)
    BY <2>2, <2>3, NextMaximum
  <2> QED BY <2>1, <2>3, <2>4, <1>3, MaxCell
<1>9. ASSUME NEW d \in Dims, NEW s, acc[d] = AccAt(p) PROVE Accumulated(p, d, s) = AccAt(q)
  BY <1>1, <1>3, <1>4, <1>9, SameAcc DEF q
<1> QED BY <1>3, <1>4, <1>5, <1>7, <1>8, <1>9 DEF Advances, q, p

(* The second pass: the sum of the weights of the visible rows so far.    *)
LEMMA SumPassAdvances ==
  ASSUME Typed, launch.kernel = "row_parallel", NEW k \in Nat, k < launch.rows
  PROVE  Advances(P("simd_score", k, 2))
<1> DEFINE p == P("simd_score", k, 2)
           q == After(p)
<1>1. p.op = "simd_score" /\ p.k = k /\ p.n = 2
  BY Fields
<1>2. q = Pass(2, k + 1) /\ Simd(launch)
  BY <1>1 DEF After, Simd
<1> HIDE DEF q
<1>3. /\ Reached(q) /\ Live(q) \subseteq Shared({"m"}) \cup Shared({"l"})
      /\ MaxRows(q) = NumVisible /\ SumRows(q) = Upto(k + 1) /\ SumMax(q) = NumVisible /\ AccRows(q) = 0
  BY <1>2, NextPass
<1> HIDE DEF p
<1>4. /\ Live(p) = Partials \cup Shared({"m"}) \cup Shared({"l"})
      /\ MaxRows(p) = NumVisible /\ SumRows(p) = Upto(k) /\ SumMax(p) = NumVisible /\ AccRows(p) = 0
  BY <1>1 DEF Live, MaxRows, SumRows, SumMax, AccRows
<1>5. ASSUME NEW u \in Threads PROVE Reads(p, u) \subseteq Live(p)
  BY <1>1, ScoreReads
<1>6. \A u : Writes(p, u) = ThreadZero(u, Shared({"score"}) \cup (IF Masked(k) THEN {} ELSE Shared({"l"})))
  BY <1>1 DEF Writes
<1>7. ASSUME NEW c \in Live(q) PROVE (\E u \in Threads : c \in Writes(p, u)) \/ Kept(p, c)
  <2>1. CASE c = <<"m">>
    BY <2>1, <1>3, <1>4, MaxCell DEF Kept, q, Shared
  <2>2. CASE c = <<"l">> /\ Masked(k)
    <3>1. SumRows(q) = SumRows(p)
      BY <2>2, <1>3, <1>4, UptoNext
    <3> QED BY <2>2, <3>1, <1>3, <1>4, SumCell DEF Kept, q, Shared
  <2>3. CASE c = <<"l">> /\ ~Masked(k)
    BY <2>3, <1>2, <1>4, <1>6, SimdShape DEF ThreadZero, Shared
  <2> QED BY <2>1, <2>2, <2>3, <1>3 DEF Shared
<1>8. ASSUME NEW t \in Threads, NEW s, \A u \in Unit(t) : \A x \in Reads(p, u) : s[x] = Expect(p, x),
             NEW u \in Unit(t), NEW c \in Live(q) \cap Writes(p, u)
      PROVE  Value(p, c, Unit(t), s) = Expect(q, c)
  <2>1. u = 0 /\ c = <<"l">> /\ ~Masked(k)
    BY <1>3, <1>6 DEF ThreadZero, Shared
  <2>2. /\ Value(p, c, Unit(t), s) = Append(s[<<"l">>], Weight(k, Whole(k), s[<<"m">>], <<>>))
        /\ s[<<"m">>] = Maxima(NumVisible) /\ s[<<"l">>] = Weights(Upto(k), NumVisible, <<>>)
    <3>1. Value(p, c, Unit(t), s) = Append(s[c], Weight(k, Whole(k), s[<<"m">>], <<>>))
      BY <1>1, <2>1, <1>8, ScoreValue
    <3>2. <<"m">> \in Reads(p, 0) /\ <<"l">> \in Reads(p, 0)
      BY <1>1, <2>1 DEF Reads, ThreadZero, Shared
    <3>3. s[<<"m">>] = Maxima(MaxRows(p)) /\ s[<<"l">>] = Weights(SumRows(p), SumMax(p), <<>>)
      BY <3>2, <2>1, <1>8, MaxCell, SumCell
    <3> QED BY <3>1, <3>3, <2>1, <1>4
  <2>3. Upto(k) = k /\ Upto(k + 1) = k + 1
    BY <2>1, UptoNext
  <2>4. Value(p, c, Unit(t), s) = Weights(k + 1, NumVisible, <<>>)
    BY <2>2, <2>3, NextWeight
  <2> QED BY <2>1, <2>3, <2>4, <1>3, SumCell
<1>9. ASSUME NEW d \in Dims, NEW s, acc[d] = AccAt(p) PROVE Accumulated(p, d, s) = AccAt(q)
  BY <1>1, <1>3, <1>4, <1>9, SameAcc DEF q
<1> QED BY <1>3, <1>4, <1>5, <1>7, <1>8, <1>9 DEF Advances, q, p

(* The third pass: the score once more, to weigh the row.                 *)
LEMMA ScorePassAdvances ==
  ASSUME Typed, launch.kernel = "row_parallel", NEW k \in Nat, k < launch.rows
  PROVE  Advances(P("simd_score", k, 3))
<1> DEFINE p == P("simd_score", k, 3)
           q == P("accumulate", k, 3)
<1>1. /\ p.op = "simd_score" /\ p.k = k /\ p.n = 3
      /\ q.op = "accumulate" /\ q.k = k /\ q.n = 3 /\ q = P(q.op, q.k, q.n)
  BY Fields
<1>2. After(p) = q /\ Simd(launch)
  BY <1>1 DEF After, Simd
<1> HIDE DEF q
<1>3. Reached(q)
  BY <1>1 DEF Reached, Visits
<1> HIDE DEF p
<1>4. /\ Live(p) = Partials \cup Shared({"m"}) \cup Shared({"l"})
      /\ MaxRows(p) = NumVisible /\ SumRows(p) = NumVisible /\ SumMax(p) = NumVisible /\ AccRows(p) = Upto(k)
  BY <1>1 DEF Live, MaxRows, SumRows, SumMax, AccRows
<1>5. ASSUME NEW u \in Threads PROVE Reads(p, u) \subseteq Live(p)
  BY <1>1, ScoreReads
<1>6. \A u : Writes(p, u) = ThreadZero(u, Shared({"score"}))
  BY <1>1 DEF Writes
<1>7. /\ Live(q) = Shared({"m", "l"}) \cup IF Masked(k) THEN {} ELSE Shared({"score"})
      /\ MaxRows(q) = NumVisible /\ SumRows(q) = NumVisible /\ SumMax(q) = NumVisible /\ AccRows(q) = Upto(k)
  BY <1>1 DEF Live, MaxRows, SumRows, SumMax, AccRows
<1> HIDE DEF p
<1>8. ASSUME NEW c \in Live(q) PROVE (\E u \in Threads : c \in Writes(p, u)) \/ Kept(p, c)
  <2>1. CASE c \in Shared({"m", "l"})
    <3>1. Expect(q, c) = Expect(p, c)
      BY <2>1, <1>4, <1>7, SameRunning
    <3>2. c \in Live(p)
      BY <2>1, <1>4 DEF Shared
    <3> QED BY <3>1, <3>2, <1>2 DEF Kept
  <2>2. CASE c \in Shared({"score"})
    BY <2>2, <1>2, <1>4, <1>6, SimdShape DEF ThreadZero
  <2> QED BY <2>1, <2>2, <1>7
<1>9. ASSUME NEW t \in Threads, NEW s, \A u \in Unit(t) : \A x \in Reads(p, u) : s[x] = Expect(p, x),
             NEW u \in Unit(t), NEW c \in Live(q) \cap Writes(p, u)
      PROVE  Value(p, c, Unit(t), s) = Expect(q, c)
  <2>1. u = 0 /\ c = <<"score">>
    BY <1>6 DEF ThreadZero, Shared
  <2>2. ~Masked(k)
    BY <2>1, <1>7 DEF Shared
  <2>3. Value(p, c, Unit(t), s) = Whole(k)
    <3>1. c \notin {<<"m">>, <<"l">>} /\ 3 \in 1..3
      BY <2>1
    <3> QED BY <3>1, <1>1, <2>1, <2>2, <1>9, ScoreValue
  <2> QED BY <2>1, <2>3, <1>1, ScoreCell
<1>10. ASSUME NEW d \in Dims, NEW s, acc[d] = AccAt(p) PROVE Accumulated(p, d, s) = AccAt(q)
  BY <1>1, <1>2, <1>4, <1>7, <1>10, SameAcc
<1> QED BY <1>2, <1>3, <1>5, <1>8, <1>9, <1>10 DEF Advances, p

(* The row goes into the accumulators.                                    *)
LEMMA WeighAdvances ==
  ASSUME Typed, launch.kernel = "row_parallel", NEW k \in Nat, k < launch.rows
  PROVE  Advances(P("accumulate", k, 3))
<1> DEFINE p == P("accumulate", k, 3)
           q == After(p)
<1>1. p.op = "accumulate" /\ p.k = k /\ p.n = 3
  BY Fields
<1>2. q = Pass(3, k + 1)
  BY <1>1 DEF After
<1> HIDE DEF p, q
<1>3. /\ Reached(q) /\ Live(q) \subseteq Shared({"m", "l"})
      /\ MaxRows(q) = NumVisible /\ SumRows(q) = NumVisible /\ SumMax(q) = NumVisible /\ AccRows(q) = Upto(k + 1)
  <2>1. Shared({"m"}) \cup Shared({"l"}) = Shared({"m", "l"})
    BY DEF Shared
  <2> QED BY <2>1, <1>2, NextPass
<1>4. /\ Live(p) = Shared({"m", "l"}) \cup IF Masked(k) THEN {} ELSE Shared({"score"})
      /\ MaxRows(p) = NumVisible /\ SumRows(p) = NumVisible /\ SumMax(p) = NumVisible /\ AccRows(p) = Upto(k)
  BY <1>1 DEF Live, MaxRows, SumRows, SumMax, AccRows
<1>5. \A u : /\ Reads(p, u) = IF Masked(k) THEN {} ELSE Shared({"score", "m", "l"})
             /\ Writes(p, u) = {}
  BY <1>1 DEF Reads, Writes
<1>6. ASSUME NEW u \in Threads PROVE Reads(p, u) \subseteq Live(p)
  BY <1>4, <1>5 DEF Shared
<1>7. ASSUME NEW c \in Live(q) PROVE Kept(p, c)
  <2>1. c \in Shared({"m", "l"})
    BY <1>3
  <2>2. Expect(q, c) = Expect(p, c)
    BY <2>1, <1>3, <1>4, SameRunning
  <2> QED BY <2>1, <2>2, <1>4 DEF Kept, q
<1>8. ASSUME NEW t \in Threads, NEW s, \A u \in Unit(t) : \A c \in Reads(p, u) : s[c] = Expect(p, c),
             NEW d \in Dims, acc[d] = AccAt(p)
      PROVE  Accumulated(p, d, s) = AccAt(q)
  <2>1. acc[d] = Weights(Upto(k), NumVisible, Summed)
    BY <1>4, <1>8 DEF AccAt
  <2>2. AccAt(q) = Weights(Upto(k + 1), NumVisible, Summed)
    BY <1>3 DEF AccAt
  <2>3. CASE Masked(k)
    <3>1. Accumulated(p, d, s) = acc[d]
      BY <1>1, <2>3 DEF Accumulated
    <3> QED BY <3>1, <2>1, <2>2, <2>3, UptoNext
  <2>4. CASE ~Masked(k)
    <3>1. Accumulated(p, d, s) = Append(acc[d], Weight(k, s[<<"score">>], s[<<"m">>], s[<<"l">>]))
      BY <1>1, <2>4 DEF Accumulated
    <3>2. t \in Unit(t)
      BY DEF Unit, SimdGroup
    <3>3. /\ <<"score">> \in Reads(p, t) /\ <<"m">> \in Reads(p, t) /\ <<"l">> \in Reads(p, t)
      BY <2>4, <1>5 DEF Shared
    <3>4. /\ s[<<"score">>] = Whole(k) /\ s[<<"m">>] = Maxima(NumVisible) /\ s[<<"l">>] = Summed
      BY <3>2, <3>3, <1>1, <1>4, <1>8, ScoreCell, MaxCell, SumCell DEF Summed
    <3>5. Upto(k) = k /\ Upto(k + 1) = k + 1
      BY <2>4, UptoNext
    <3> QED BY <3>1, <3>4, <3>5, <2>1, <2>2, NextWeight
  <2> QED BY <2>3, <2>4
<1> QED BY <1>3, <1>5, <1>6, <1>7, <1>8 DEF Advances, q, p

(* A tile of keys and values comes into threadgroup memory.               *)
LEMMA StageAdvances ==
  ASSUME Typed, launch.kernel = "tiled_kv", NEW k \in Nat, k < launch.rows
  PROVE  Advances(P("stage", k, 0))
<1> DEFINE p == P("stage", k, 0)
           q == P("tile_scores", k, 0)
           Ks == {K(tk, d) : tk \in TileRows(k), d \in Dims}
           Vs == {V(tk, d) : tk \in TileRows(k), d \in Dims}
<1>1. /\ p.op = "stage" /\ p.k = k /\ p.n = 0
      /\ q.op = "tile_scores" /\ q.k = k /\ q.n = 0 /\ q = P(q.op, q.k, q.n)
  BY Fields
<1>2. After(p) = q
  BY <1>1 DEF After
<1> HIDE DEF p, q
<1>3. Reached(q)
  BY <1>1 DEF Reached, Visits
<1>4. Live(p) = Queries \cup Shared({"m", "l"}) /\ Live(q) = Queries \cup Shared({"m", "l"}) \cup Ks \cup Vs
  BY <1>1 DEF Live
<1>5. MaxRows(p) = MaxRows(q) /\ SumRows(p) = SumRows(q) /\ SumMax(p) = SumMax(q) /\ AccRows(p) = AccRows(q)
  BY <1>1 DEF MaxRows, SumRows, SumMax, AccRows
<1>6. \A u : /\ Reads(p, u) = {}
             /\ Writes(p, u) = {K(x[1], x[2]) : x \in Staged(k, u)} \cup {V(x[1], x[2]) : x \in Staged(k, u)}
  BY <1>1 DEF Reads, Writes
<1>7. ASSUME NEW c \in Live(q) PROVE (\E u \in Threads : c \in Writes(p, u)) \/ Kept(p, c)
  <2>1. CASE c \in Queries \cup Shared({"m", "l"})
    <3>1. Expect(q, c) = Expect(p, c)
      BY <2>1, <1>5, SameRunning
    <3> QED BY <2>1, <3>1, <1>2, <1>4 DEF Kept
  <2>2. CASE c \in Ks \cup Vs
    <3>1. PICK tk \in TileRows(k), d \in Dims : c = K(tk, d) \/ c = V(tk, d)
      BY <2>2
    <3> DEFINE x == <<tk, d>>
               u == (tk * launch.dims + d) % T
    <3>2. tk * launch.dims + d \in Nat
      BY Numbers DEF TileRows, Dims
    <3>3. u \in Threads
      BY <3>2, Numbers DEF Threads
    <3>4. x \in Staged(k, u) /\ x[1] = tk /\ x[2] = d
      BY DEF Staged
    <3> QED BY <3>1, <3>3, <3>4, <1>6
  <2> QED BY <2>1, <2>2, <1>4
<1>8. ASSUME NEW t \in Threads, NEW s, NEW c \in Live(q) \cap Writes(p, t)
      PROVE  Value(p, c, {t}, s) = Expect(q, c)
  <2>1. PICK x \in Staged(k, t) : c = K(x[1], x[2]) \/ c = V(x[1], x[2])
    BY <1>6
  <2>2. c[2] = x[1] /\ c[3] = x[2] /\ c[1] \in {"k_tile", "v_tile"}
    BY <2>1 DEF K, V
  <2>3. c \notin {<<"m_new">>, <<"alpha">>, <<"tile_sum">>, <<"m">>, <<"l">>}
    BY <2>2
  <2>4. Value(p, c, {t}, s) = <<k + x[1], x[2]>>
    BY <1>1, <2>2, <2>3 DEF Value, TiledValue
  <2>5. Expect(q, c) = <<k + x[1], x[2]>>
    BY <1>1, <2>1, TileCells
  <2> QED BY <2>4, <2>5
<1>9. ASSUME NEW d \in Dims, NEW s, acc[d] = AccAt(p) PROVE Accumulated(p, d, s) = AccAt(q)
  BY <1>1, <1>2, <1>5, <1>9, SameAcc
<1> QED BY <1>2, <1>3, <1>6, <1>7, <1>8, <1>9, Alone DEF Advances, p

(* The visible rows of a tile, and what thread 0 makes of them.           *)
LEMMA TileScoresValues ==
  ASSUME Typed, NEW k \in Nat, NEW p, p.op = "tile_scores", p.k = k, NEW s,
         \A d \in Dims : s[Q(d)] = d,
         \A tk \in TileRows(k) : \A d \in Dims : s[K(tk, d)] = <<k + tk, d>>,
         s[<<"m">>] = Maxima(Upto(k))
  PROVE  /\ TiledValue(p, <<"m_new">>, s) = Maxima(Upto(k + KVTile))
         /\ TiledValue(p, <<"alpha">>, s) = [from |-> Maxima(Upto(k)), to |-> Maxima(Upto(k + KVTile))]
         /\ TiledValue(p, <<"tile_sum">>, s) = TileWeights(k)
         /\ \A tk \in TileRows(k) :
               TiledValue(p, Score(tk), s) = IF Masked(k + tk) THEN <<>> ELSE <<Whole(k + tk)>>
<1> DEFINE visible == {tk \in TileRows(k) : ~Masked(k + tk)}
           dot(tk) == [x \in Items |-> Cardinality({d \in Dims : s[K(tk, d)] = x /\ s[Q(d)] = x[2]})]
           n == Upto(k + KVTile) - Upto(k)
           scores == [i \in 1..Cardinality(visible) |-> dot(i - 1)]
           m_new == s[<<"m">>] \o scores
<1>1. /\ Cardinality(visible) = n
      /\ \A tk \in Nat : tk \in visible <=> tk < n
      /\ n \in Nat /\ (n # 0 => Upto(k) = k)
  <2>1. Upto(k) \in Nat /\ Upto(k + KVTile) \in Nat
    BY Numbers, VisibleRows
  <2>2. LET shown == {tk \in TileRows(k) : ~Masked(k + tk)}
        IN  /\ Cardinality(shown) = n
            /\ \A tk \in Nat : tk \in shown <=> tk < n
            /\ n \in Nat
            /\ Upto(k + KVTile) # Upto(k) => Upto(k) = k
    BY CountTile
  <2> QED BY <2>1, <2>2
<1>2. ASSUME NEW tk \in TileRows(k) PROVE dot(tk) = Whole(k + tk)
  <2> SUFFICES ASSUME NEW x \in Items
               PROVE  Cardinality({d \in Dims : s[K(tk, d)] = x /\ s[Q(d)] = x[2]}) = Of(k + tk, Dims)[x]
    BY DEF Whole, Of
  <2>1. x[2] \in Dims /\ x = <<x[1], x[2]>>
    BY DEF Items
  <2>2. CASE x[1] = k + tk
    <3>1. {d \in Dims : s[K(tk, d)] = x /\ s[Q(d)] = x[2]} = {x[2]}
      BY <2>1, <2>2
    <3> QED BY <3>1, <2>1, <2>2, FS_Singleton DEF Of
  <2>3. CASE x[1] # k + tk
    <3>1. {d \in Dims : s[K(tk, d)] = x /\ s[Q(d)] = x[2]} = {}
      BY <2>1, <2>3
    <3> QED BY <3>1, <2>3, FS_EmptySet DEF Of
  <2> QED BY <2>2, <2>3
<1>3. \A i \in 1..n : i - 1 \in TileRows(k) /\ i - 1 \in visible
  BY <1>1
<1>4. scores = [i \in 1..n |-> Whole(k + (i - 1))]
  BY <1>1, <1>2, <1>3
<1>5. m_new = Maxima(Upto(k + KVTile))
  <2>1. Upto(k) \in Nat /\ Upto(k) + n = Upto(k + KVTile)
    BY Numbers, VisibleRows
  <2>2. [i \in 1..n |-> Whole(k + (i - 1))] = [i \in 1..n |-> Whole(Upto(k) + (i - 1))]
    BY <1>1
  <2> HIDE DEF n, scores
  <2>3. Maxima(Upto(k)) \o [i \in 1..n |-> Whole(Upto(k) + (i - 1))] = Maxima(Upto(k) + n)
    BY <2>1, <1>1, TileMaxima
  <2> QED BY <2>1, <2>2, <2>3, <1>4
<1>6. TiledValue(p, <<"m_new">>, s) = m_new
  BY DEF TiledValue
<1>7. TiledValue(p, <<"alpha">>, s) = [from |-> s[<<"m">>], to |-> m_new]
  BY DEF TiledValue
<1>8. TiledValue(p, <<"tile_sum">>, s) = [i \in DOMAIN scores |-> Weight(k + i - 1, scores[i], m_new, <<>>)]
  BY DEF TiledValue
<1>9. \A tk : TiledValue(p, Score(tk), s) = IF tk \in visible THEN <<dot(tk)>> ELSE <<>>
  <2> SUFFICES ASSUME NEW tk PROVE TiledValue(p, Score(tk), s) = IF tk \in visible THEN <<dot(tk)>> ELSE <<>>
    OBVIOUS
  <2>1. Score(tk)[1] = "tile_scores" /\ Score(tk)[2] = tk
    BY DEF Score
  <2>2. Score(tk) \notin {<<"m_new">>, <<"alpha">>, <<"tile_sum">>, <<"m">>, <<"l">>}
    BY <2>1
  <2> QED BY <2>1, <2>2 DEF TiledValue
<1>10. TiledValue(p, <<"tile_sum">>, s) = TileWeights(k)
  <2> HIDE DEF scores, m_new, n
  <2>1. DOMAIN scores = 1..n /\ \A i \in 1..n : scores[i] = Whole(k + (i - 1))
    BY <1>4
  <2>2. \A i \in 1..n : k + i - 1 = k + (i - 1)
    BY <1>1
  <2>3. [i \in DOMAIN scores |-> Weight(k + i - 1, scores[i], m_new, <<>>)]
        = [i \in 1..n |-> Weight(k + (i - 1), Whole(k + (i - 1)), Maxima(Upto(k + KVTile)), <<>>)]
    BY <2>1, <2>2, <1>5
  <2> QED BY <2>3, <1>8 DEF TileWeights, n
<1>11. ASSUME NEW tk \in TileRows(k)
       PROVE  TiledValue(p, Score(tk), s) = IF Masked(k + tk) THEN <<>> ELSE <<Whole(k + tk)>>
  BY <1>2, <1>9
<1> QED BY <1>5, <1>6, <1>7, <1>10, <1>11

(* Thread 0's online softmax of a tile.                                   *)
LEMMA TileScoresAdvances ==
  ASSUME Typed, launch.kernel = "tiled_kv", NEW k \in Nat, k < launch.rows
  PROVE  Advances(P("tile_scores", k, 0))
<1> DEFINE p == P("tile_scores", k, 0)
           q == P("tile_accumulate", k, 0)
           Ks == {K(tk, d) : tk \in TileRows(k), d \in Dims}
           Vs == {V(tk, d) : tk \in TileRows(k), d \in Dims}
           Ss == {Score(tk) : tk \in TileRows(k)}
<1>1. /\ p.op = "tile_scores" /\ p.k = k /\ p.n = 0
      /\ q.op = "tile_accumulate" /\ q.k = k /\ q.n = 0 /\ q = P(q.op, q.k, q.n)
  BY Fields
<1>2. After(p) = q
  BY <1>1 DEF After
<1> HIDE DEF p, q
<1>3. Reached(q)
  BY <1>1 DEF Reached, Visits
<1>4. /\ Live(p) = Queries \cup Shared({"m", "l"}) \cup Ks \cup Vs
      /\ Live(q) = Queries \cup Shared({"l", "alpha", "m_new", "tile_sum"}) \cup Ss \cup Vs
  BY <1>1 DEF Live
<1>5. /\ MaxRows(p) = Upto(k)
      /\ MaxRows(p) = MaxRows(q) /\ SumRows(p) = SumRows(q) /\ SumMax(p) = SumMax(q) /\ AccRows(p) = AccRows(q)
      /\ NextRows(q) = Upto(k + KVTile)
  BY <1>1 DEF MaxRows, SumRows, SumMax, AccRows, NextRows
<1>6. \A u : Reads(p, u) = ThreadZero(u, Queries \cup Ks \cup Shared({"m"}))
  BY <1>1 DEF Reads, Queries
<1>7. \A u : Writes(p, u) = ThreadZero(u, Ss \cup Shared({"m_new", "alpha", "tile_sum"}))
  BY <1>1 DEF Writes
<1>8. ASSUME NEW u \in Threads PROVE Reads(p, u) \subseteq Live(p)
  <2>1. Shared({"m"}) \subseteq Shared({"m", "l"})
    BY DEF Shared
  <2> QED BY <2>1, <1>4, <1>6 DEF ThreadZero
<1>9. 0 \in Threads
  BY Numbers DEF Threads
<1>10. ASSUME NEW c \in Live(q) PROVE (\E u \in Threads : c \in Writes(p, u)) \/ Kept(p, c)
  <2>1. CASE c \in Queries \cup Shared({"m", "l"})
    <3>1. Expect(q, c) = Expect(p, c)
      BY <2>1, <1>5, SameRunning
    <3> QED BY <2>1, <3>1, <1>2, <1>4 DEF Kept
  <2>2. CASE c \in Vs
    BY <2>2, <1>1, <1>2, <1>4, TileCells DEF Kept
  <2>3. CASE c \in Ss \cup Shared({"m_new", "alpha", "tile_sum"})
    BY <2>3, <1>7, <1>9 DEF ThreadZero
  <2>4. Shared({"l", "alpha", "m_new", "tile_sum"})
        \subseteq Shared({"m", "l"}) \cup Shared({"m_new", "alpha", "tile_sum"})
    BY DEF Shared
  <2> QED BY <2>1, <2>2, <2>3, <2>4, <1>4
<1>11. ASSUME NEW t \in Threads, NEW s, \A c \in Reads(p, t) : s[c] = Expect(p, c),
              NEW c \in Live(q) \cap Writes(p, t)
       PROVE  Value(p, c, {t}, s) = Expect(q, c)
  <2>1. t = 0 /\ c \in Ss \cup Shared({"m_new", "alpha", "tile_sum"})
    BY <1>7 DEF ThreadZero
  <2>2. Queries \cup Ks \cup Shared({"m"}) = Reads(p, t)
    BY <2>1, <1>6 DEF ThreadZero
  <2>3. \A d \in Dims : s[Q(d)] = d
    BY <2>2, <1>11, QueryCell DEF Queries
  <2>4. \A tk \in TileRows(k) : \A d \in Dims : s[K(tk, d)] = <<k + tk, d>>
    <3> SUFFICES ASSUME NEW tk \in TileRows(k), NEW d \in Dims PROVE s[K(tk, d)] = <<k + tk, d>>
      OBVIOUS
    <3>1. K(tk, d) \in Reads(p, t)
      BY <2>2
    <3> QED BY <3>1, <1>11, <1>1, TileCells
  <2>5. s[<<"m">>] = Maxima(Upto(k))
    <3>1. <<"m">> \in Reads(p, t)
      BY <2>2 DEF Shared
    <3> QED BY <3>1, <1>11, <1>5, MaxCell
  <2>6. Value(p, c, {t}, s) = TiledValue(p, c, s)
    BY <1>1 DEF Value
  <2>7. /\ TiledValue(p, <<"m_new">>, s) = Maxima(Upto(k + KVTile))
        /\ TiledValue(p, <<"alpha">>, s) = [from |-> Maxima(Upto(k)), to |-> Maxima(Upto(k + KVTile))]
        /\ TiledValue(p, <<"tile_sum">>, s) = TileWeights(k)
        /\ \A tk \in TileRows(k) :
              TiledValue(p, Score(tk), s) = IF Masked(k + tk) THEN <<>> ELSE <<Whole(k + tk)>>
    BY <2>3, <2>4, <2>5, <1>1, TileScoresValues
  <2>8. CASE c \in Ss
    <3>1. PICK tk \in TileRows(k) : c = Score(tk)
      BY <2>8
    <3>2. Expect(q, Score(tk)) = IF Masked(k + tk) THEN <<>> ELSE <<Whole(k + tk)>>
      BY <1>1, TileCells
    <3> QED BY <3>1, <3>2, <2>6, <2>7
  <2>9. CASE c \in Shared({"m_new", "alpha", "tile_sum"})
    <3>1. c \in {<<"m_new">>, <<"alpha">>, <<"tile_sum">>}
      BY <2>9 DEF Shared
    <3> QED BY <3>1, <2>6, <2>7, <1>1, <1>5, SoftmaxCells
  <2> QED BY <2>1, <2>8, <2>9
<1>12. ASSUME NEW d \in Dims, NEW s, acc[d] = AccAt(p) PROVE Accumulated(p, d, s) = AccAt(q)
  BY <1>1, <1>2, <1>5, <1>12, SameAcc
<1> QED BY <1>2, <1>3, <1>8, <1>10, <1>11, <1>12, Alone DEF Advances, p

(* The accumulators take in a tile: rescaled to the maximum of its rows,  *)
(* with a weight for each of them that is not masked.                     *)
LEMMA TileAccumulateAdvances ==
  ASSUME Typed, launch.kernel = "tiled_kv", NEW k \in Nat, k < launch.rows
  PROVE  Advances(P("tile_accumulate", k, 0))
<1> DEFINE p == P("tile_accumulate", k, 0)
           q == P("tile_update", k, 0)
           Vs == {V(tk, d) : tk \in TileRows(k), d \in Dims}
           Ss == {Score(tk) : tk \in TileRows(k)}
           next == Upto(k + KVTile)
           n == next - Upto(k)
<1>1. /\ p.op = "tile_accumulate" /\ p.k = k /\ p.n = 0
      /\ q.op = "tile_update" /\ q.k = k /\ q.n = 0 /\ q = P(q.op, q.k, q.n)
  BY Fields
<1>2. After(p) = q
  BY <1>1 DEF After
<1> HIDE DEF p, q
<1>3. Reached(q)
  BY <1>1 DEF Reached, Visits
<1>4. /\ Live(p) = Queries \cup Shared({"l", "alpha", "m_new", "tile_sum"}) \cup Ss \cup Vs
      /\ Live(q) = Queries \cup Shared({"l", "alpha", "m_new", "tile_sum"})
  BY <1>1 DEF Live
<1>5. /\ MaxRows(p) = MaxRows(q) /\ SumRows(p) = SumRows(q) /\ SumMax(p) = SumMax(q) /\ NextRows(p) = NextRows(q)
      /\ NextRows(p) = next /\ AccRows(p) = Upto(k) /\ AccRows(q) = next
  BY <1>1 DEF MaxRows, SumRows, SumMax, AccRows, NextRows
<1>6. \A u : /\ Reads(p, u) = Ss \cup Shared({"alpha", "m_new"}) \cup {V(tk, d) : tk \in TileRows(k), d \in Mine(u)}
             /\ Writes(p, u) = {}
  BY <1>1 DEF Reads, Writes
<1>7. ASSUME NEW u \in Threads PROVE Reads(p, u) \subseteq Live(p)
  <2>1. {V(tk, d) : tk \in TileRows(k), d \in Mine(u)} \subseteq Vs
    BY DEF Mine
  <2>2. Shared({"alpha", "m_new"}) \subseteq Shared({"l", "alpha", "m_new", "tile_sum"})
    BY DEF Shared
  <2> QED BY <2>1, <2>2, <1>4, <1>6
<1>8. ASSUME NEW c \in Live(q) PROVE Kept(p, c)
  <2>1. CASE c \in Queries
    BY <2>1, <1>2, <1>4, QueryCell DEF Kept, Queries
  <2>2. CASE c \in Shared({"l", "alpha", "m_new", "tile_sum"})
    <3>1. c \in {<<"l">>, <<"alpha">>, <<"m_new">>, <<"tile_sum">>}
      BY <2>2 DEF Shared
    <3>2. Expect(q, <<"l">>) = Expect(p, <<"l">>)
      BY <1>5, SumCell
    <3>3. /\ Expect(q, <<"alpha">>) = Expect(p, <<"alpha">>) /\ Expect(q, <<"m_new">>) = Expect(p, <<"m_new">>)
          /\ Expect(q, <<"tile_sum">>) = Expect(p, <<"tile_sum">>)
      BY <1>1, <1>5, SoftmaxCells
    <3> QED BY <3>1, <3>2, <3>3, <2>2, <1>2, <1>4 DEF Kept
  <2> QED BY <2>1, <2>2, <1>4
<1> DEFINE shown == {tk \in TileRows(k) : ~Masked(k + tk)}
<1>9. /\ Cardinality(shown) = n
      /\ \A tk \in Nat : tk \in shown <=> tk < n
      /\ n \in Nat
      /\ Upto(k + KVTile) # Upto(k) => Upto(k) = k
  BY CountTile
<1>10. Upto(k) \in Nat /\ next \in Nat
  BY Numbers, VisibleRows
<1>11. Upto(k) + n = next /\ (n # 0 => Upto(k) = k)
  BY <1>9, <1>10
<1>12. \A i \in 1..n : i - 1 \in shown /\ i - 1 \in TileRows(k) /\ ~Masked(k + (i - 1))
  BY <1>9
<1> HIDE DEF next, n
<1>13. ASSUME NEW t \in Threads, NEW s, \A c \in Reads(p, t) : s[c] = Expect(p, c),
              NEW d \in Dims, d % T = t, acc[d] = AccAt(p)
       PROVE  Accumulated(p, d, s) = AccAt(q)
  <2> DEFINE finite == {tk \in TileRows(k) : s[Score(tk)] # <<>>}
  <2>1. \A tk \in TileRows(k) : s[Score(tk)] = IF Masked(k + tk) THEN <<>> ELSE <<Whole(k + tk)>>
    <3> SUFFICES ASSUME NEW tk \in TileRows(k)
                 PROVE  s[Score(tk)] = IF Masked(k + tk) THEN <<>> ELSE <<Whole(k + tk)>>
      OBVIOUS
    <3>1. Score(tk) \in Reads(p, t)
      BY <1>6
    <3> QED BY <3>1, <1>13, <1>1, TileCells
  <2>2. \A tk \in TileRows(k) : s[V(tk, d)] = <<k + tk, d>>
    <3> SUFFICES ASSUME NEW tk \in TileRows(k) PROVE s[V(tk, d)] = <<k + tk, d>>
      OBVIOUS
    <3>1. d \in Mine(t)
      BY <1>13 DEF Mine
    <3>2. V(tk, d) \in Reads(p, t)
      BY <3>1, <1>6
    <3> QED BY <3>2, <1>13, <1>1, TileCells
  <2>3. s[<<"alpha">>] = [from |-> Maxima(Upto(k)), to |-> Maxima(next)] /\ s[<<"m_new">>] = Maxima(next)
    <3>1. <<"alpha">> \in Reads(p, t) /\ <<"m_new">> \in Reads(p, t)
      BY <1>6 DEF Shared
    <3> QED BY <3>1, <1>13, <1>1, <1>5, SoftmaxCells
  <2>4. acc[d] = Weights(Upto(k), Upto(k), <<>>)
    BY <1>5, <1>13 DEF AccAt
  <2>5. Rescaled(acc[d], s[<<"alpha">>]) = Weights(Upto(k), next, <<>>)
    BY <2>3, <2>4, <1>10, Rescale
  <2>6. \A v : <<v>> # <<>> /\ <<v>>[1] = v
    OBVIOUS
  <2>7. Cardinality(finite) = n
    <3>1. \A tk \in TileRows(k) : s[Score(tk)] # <<>> <=> ~Masked(k + tk)
      BY <2>1, <2>6
    <3>2. finite = shown
      BY <3>1
    <3> QED BY <3>2, <1>9
  <2>8. \A i \in 1..n : Weight(s[V(i - 1, d)][1], s[Score(i - 1)][1], s[<<"m_new">>], <<>>)
                        = Weight(Upto(k) + (i - 1), Whole(Upto(k) + (i - 1)), Maxima(next), <<>>)
    <3> SUFFICES ASSUME NEW i \in 1..n
                 PROVE  Weight(s[V(i - 1, d)][1], s[Score(i - 1)][1], s[<<"m_new">>], <<>>)
                        = Weight(Upto(k) + (i - 1), Whole(Upto(k) + (i - 1)), Maxima(next), <<>>)
      OBVIOUS
    <3>1. i - 1 \in TileRows(k) /\ ~Masked(k + (i - 1)) /\ Upto(k) = k
      BY <1>11, <1>12
    <3>2. s[V(i - 1, d)][1] = k + (i - 1)
      BY <3>1, <2>2
    <3>3. s[Score(i - 1)] = <<Whole(k + (i - 1))>>
      BY <3>1, <2>1
    <3>4. s[Score(i - 1)][1] = Whole(k + (i - 1))
      BY <3>3, <2>6
    <3> QED BY <3>1, <3>2, <3>4, <2>3
  <2>9. Accumulated(p, d, s)
        = Rescaled(acc[d], s[<<"alpha">>])
          \o [i \in 1..Cardinality(finite) |->
                 Weight(s[V(i - 1, d)][1], s[Score(i - 1)][1], s[<<"m_new">>], <<>>)]
    BY <1>1 DEF Accumulated
  <2> HIDE DEF finite
  <2>10. [i \in 1..Cardinality(finite) |-> Weight(s[V(i - 1, d)][1], s[Score(i - 1)][1], s[<<"m_new">>], <<>>)]
         = [i \in 1..n |-> Weight(Upto(k) + (i - 1), Whole(Upto(k) + (i - 1)), Maxima(next), <<>>)]
    BY <2>7, <2>8
  <2>11. Accumulated(p, d, s) = Weights(next, next, <<>>)
    <3>1. Weights(Upto(k), next, <<>>)
          \o [i \in 1..n |-> Weight(Upto(k) + (i - 1), Whole(Upto(k) + (i - 1)), Maxima(next), <<>>)]
          = Weights(Upto(k) + n, next, <<>>)
      BY <1>9, <1>10, TileWeightsAfter
    <3> QED BY <3>1, <2>5, <2>9, <2>10, <1>11
  <2> QED BY <2>11, <1>5 DEF AccAt
<1> QED BY <1>2, <1>3, <1>6, <1>7, <1>8, <1>13, Alone DEF Advances, p

(* Thread 0 takes in the tile: the maximum, and the sum rescaled to it.   *)
LEMMA TileUpdateAdvances ==
  ASSUME Typed, launch.kernel = "tiled_kv", NEW k \in Nat, k < launch.rows
  PROVE  Advances(P("tile_update", k, 0))
<1> DEFINE p == P("tile_update", k, 0)
           q == After(p)
           next == Upto(k + KVTile)
           n == next - Upto(k)
<1>1. p.op = "tile_update" /\ p.k = k /\ p.n = 0
  BY Fields
<1>2. q = IF k + KVTile < launch.rows THEN P("stage", k + KVTile, 0) ELSE Output
  BY <1>1 DEF After
<1> HIDE DEF p, q
<1>3. k + KVTile \in Nat
  BY Numbers
<1>4. /\ Reached(q) /\ Live(q) \subseteq Queries \cup Shared({"m", "l"})
      /\ MaxRows(q) = next /\ SumRows(q) = next /\ SumMax(q) = next /\ AccRows(q) = next
  <2>1. CASE k + KVTile < launch.rows
    <3>1. q.op = "stage" /\ q.k = k + KVTile /\ q.n = 0 /\ q = P(q.op, q.k, q.n)
      BY <1>2, <2>1, Fields
    <3>2. Reached(q)
      BY <2>1, <1>3, <3>1 DEF Reached, Visits
    <3>3. Live(q) = Queries \cup Shared({"m", "l"})
      BY <3>1 DEF Live
    <3>4. MaxRows(q) = next /\ SumRows(q) = next /\ SumMax(q) = next /\ AccRows(q) = next
      BY <3>1 DEF MaxRows, SumRows, SumMax, AccRows
    <3> QED BY <3>2, <3>3, <3>4
  <2>2. CASE ~(k + KVTile < launch.rows)
    <3>1. q = Output /\ next = NumVisible
      BY <1>2, <1>3, <2>2, UptoEnds
    <3>2. q.op = "output" /\ Reached(q)
      BY <3>1, Fields DEF Output, Reached
    <3>3. Live(q) = Shared({"l"})
      BY <3>2 DEF Live
    <3>4. Shared({"l"}) \subseteq Shared({"m", "l"})
      BY DEF Shared
    <3>5. MaxRows(q) = next /\ SumRows(q) = next /\ SumMax(q) = next /\ AccRows(q) = next
      BY <3>1, <3>2 DEF MaxRows, SumRows, SumMax, AccRows
    <3> QED BY <3>2, <3>3, <3>4, <3>5
  <2> QED BY <2>1, <2>2
<1>5. /\ SumRows(p) = Upto(k) /\ SumMax(p) = Upto(k) /\ AccRows(p) = next /\ NextRows(p) = next
  BY <1>1 DEF MaxRows, SumRows, SumMax, AccRows, NextRows
<1>6. Live(p) = Queries \cup Shared({"l", "alpha", "m_new", "tile_sum"})
  BY <1>1 DEF Live
<1>7. \A u : /\ Reads(p, u) = ThreadZero(u, Shared({"l", "alpha", "tile_sum", "m_new"}))
             /\ Writes(p, u) = ThreadZero(u, Shared({"l", "m"}))
  BY <1>1 DEF Reads, Writes
<1>8. ASSUME NEW u \in Threads PROVE Reads(p, u) \subseteq Live(p)
  BY <1>6, <1>7 DEF ThreadZero, Shared
<1>9. 0 \in Threads
  BY Numbers DEF Threads
<1>10. ASSUME NEW c \in Live(q) PROVE (\E u \in Threads : c \in Writes(p, u)) \/ Kept(p, c)
  <2>1. CASE c \in Queries
    BY <2>1, <1>6, QueryCell DEF Kept, Queries
  <2>2. CASE c \in Shared({"m", "l"})
    BY <2>2, <1>7, <1>9 DEF ThreadZero, Shared
  <2> QED BY <2>1, <2>2, <1>4
<1>11. /\ n \in Nat /\ Upto(k) \in Nat /\ next \in Nat /\ Upto(k) + n = next
       /\ n # 0 => Upto(k) = k
  <2>1. Upto(k) \in Nat /\ next \in Nat
    BY Numbers, VisibleRows
  <2>2. LET shown == {tk \in TileRows(k) : ~Masked(k + tk)}
        IN  n \in Nat /\ (Upto(k + KVTile) # Upto(k) => Upto(k) = k)
    BY CountTile
  <2> QED BY <2>1, <2>2
<1>12. TileWeights(k) = [i \in 1..n |-> Weight(Upto(k) + (i - 1), Whole(Upto(k) + (i - 1)), Maxima(next), <<>>)]
  BY <1>11 DEF TileWeights
<1> HIDE DEF next, n
<1>13. ASSUME NEW t \in Threads, NEW s, \A c \in Reads(p, t) : s[c] = Expect(p, c),
              NEW c \in Live(q) \cap Writes(p, t)
       PROVE  Value(p, c, {t}, s) = Expect(q, c)
  <2>1. t = 0 /\ c \in {<<"m">>, <<"l">>}
    BY <1>7 DEF ThreadZero, Shared
  <2>2. /\ <<"l">> \in Reads(p, t) /\ <<"alpha">> \in Reads(p, t)
        /\ <<"tile_sum">> \in Reads(p, t) /\ <<"m_new">> \in Reads(p, t)
    BY <2>1, <1>7 DEF ThreadZero, Shared
  <2>3. s[<<"l">>] = Weights(Upto(k), Upto(k), <<>>)
    BY <2>2, <1>13, <1>5, SumCell
  <2>4. /\ s[<<"alpha">>] = [from |-> Maxima(Upto(k)), to |-> Maxima(next)]
        /\ s[<<"m_new">>] = Maxima(next) /\ s[<<"tile_sum">>] = TileWeights(k)
    BY <2>2, <1>13, <1>1, <1>5, SoftmaxCells
  <2>5. Value(p, c, {t}, s) = TiledValue(p, c, s)
    BY <1>1 DEF Value
  <2>6. CASE c = <<"m">>
    <3>1. TiledValue(p, c, s) = s[<<"m_new">>]
      BY <1>1, <2>6 DEF TiledValue
    <3> QED BY <3>1, <2>4, <2>5, <2>6, <1>4, MaxCell
  <2>7. CASE c = <<"l">>
    <3>1. TiledValue(p, c, s) = Rescaled(s[c], s[<<"alpha">>]) \o s[<<"tile_sum">>]
      BY <1>1, <2>7 DEF TiledValue
    <3>2. Rescaled(s[c], s[<<"alpha">>]) = Weights(Upto(k), next, <<>>)
      BY <2>3, <2>4, <2>7, <1>11, Rescale
    <3>3. Weights(Upto(k), next, <<>>)
          \o [i \in 1..n |-> Weight(Upto(k) + (i - 1), Whole(Upto(k) + (i - 1)), Maxima(next), <<>>)]
          = Weights(Upto(k) + n, next, <<>>)
      BY <1>11, TileWeightsAfter
    <3>4. TiledValue(p, c, s) = Weights(next, next, <<>>)
      BY <3>1, <3>2, <3>3, <2>4, <1>11, <1>12
    <3> QED BY <3>4, <2>5, <2>7, <1>4, SumCell
  <2> QED BY <2>1, <2>6, <2>7
<1>14. ASSUME NEW d \in Dims, NEW s, acc[d] = AccAt(p) PROVE Accumulated(p, d, s) = AccAt(q)
  BY <1>1, <1>4, <1>5, <1>14, SameAcc DEF q
<1> QED BY <1>4, <1>8, <1>10, <1>13, <1>14, Alone DEF Advances, q, p

(* Every phase but the last does what it has to.                          *)
LEMMA EveryPhaseAdvances ==
  ASSUME Typed, NEW p, Reached(p), p \notin {Output, Done}
  PROVE  Advances(p)
<1>1. CASE launch.kernel = "streaming" /\ p = P("load", 0, 0)
  BY <1>1, LoadAdvances
<1>2. CASE /\ launch.kernel = "streaming"
           /\ Visits(p, {"dot", "softmax", "accumulate"}) /\ p.n = 0 /\ p.k < NumVisible
  <2>1. p.k \in Nat /\ p \in {P("dot", p.k, 0), P("softmax", p.k, 0), P("accumulate", p.k, 0)}
    BY <1>2 DEF Visits
  <2>2. CASE p = P("dot", p.k, 0)
    BY <2>1, <2>2, <1>2, DotAdvances
  <2>3. CASE p = P("softmax", p.k, 0)
    BY <2>1, <2>3, <1>2, SoftmaxAdvances
  <2>4. CASE p = P("accumulate", p.k, 0)
    BY <2>1, <2>4, <1>2, AccumulateAdvances
  <2> QED BY <2>1, <2>2, <2>3, <2>4
<1>3. CASE /\ launch.kernel = "streaming"
           /\ Visits(p, {"reduce"}) /\ p.n \in PowersOfTwo /\ 2 * p.n <= T /\ p.k < NumVisible
  <2>1. p.k \in Nat /\ p = P("reduce", p.k, p.n)
    BY <1>3 DEF Visits
  <2> QED BY <2>1, <1>3, ReduceAdvances
<1>4. CASE launch.kernel = "matvec" /\ p = P("partial", 0, 0)
  BY <1>4, PartialAdvances
<1>5. CASE /\ launch.kernel = "matvec"
           /\ Visits(p, {"reduce"}) /\ p.n \in PowersOfTwo /\ 2 * p.n <= T /\ p.k = 0
  <2>1. p = P("reduce", 0, p.n)
    BY <1>5 DEF Visits
  <2> QED BY <2>1, <1>5, ReduceAdvances
<1>6. CASE launch.kernel = "rms_norm" /\ p \in {P("simd_squares", 0, 0), P("simd_total", 0, 0)}
  BY <1>6, SquaresAdvances, TotalAdvances
<1>7. CASE launch.kernel = "row_parallel" /\ p \in {P("zero_max", 0, 0), P("zero_denom", 0, 0)}
  BY <1>7, ZeroMaxAdvances, ZeroDenomAdvances
<1>8. CASE /\ launch.kernel = "row_parallel"
           /\ Visits(p, {"simd_dot", "simd_score"}) /\ p.n \in 1..3 /\ p.k < launch.rows
  <2>1. p.k \in Nat /\ p \in {P("simd_dot", p.k, p.n), P("simd_score", p.k, p.n)}
    BY <1>8 DEF Visits
  <2>2. CASE p = P("simd_dot", p.k, p.n)
    BY <2>1, <2>2, <1>8, SimdDotAdvances
  <2>3. CASE p = P("simd_score", p.k, p.n)
    <3>1. CASE p.n = 1
      BY <2>1, <2>3, <3>1, <1>8, MaxPassAdvances
    <3>2. CASE p.n = 2
      BY <2>1, <2>3, <3>2, <1>8, SumPassAdvances
    <3>3. CASE p.n = 3
      BY <2>1, <2>3, <3>3, <1>8, ScorePassAdvances
    <3> QED BY <3>1, <3>2, <3>3, <1>8
  <2> QED BY <2>1, <2>2, <2>3
<1>9. CASE launch.kernel = "row_parallel" /\ Visits(p, {"accumulate"}) /\ p.n = 3 /\ p.k < launch.rows
  <2>1. p.k \in Nat /\ p = P("accumulate", p.k, 3)
    BY <1>9 DEF Visits
  <2> QED BY <2>1, <1>9, WeighAdvances
<1>10. CASE launch.kernel = "tiled_kv" /\ p = P("load", 0, 0)
  BY <1>10, LoadAdvances
<1>11. CASE /\ launch.kernel = "tiled_kv"
            /\ Visits(p, {"stage", "tile_scores", "tile_accumulate", "tile_update"})
            /\ p.n = 0 /\ p.k < launch.rows
  <2>1. /\ p.k \in Nat
        /\ p \in {P("stage", p.k, 0), P("tile_scores", p.k, 0), P("tile_accumulate", p.k, 0), P("tile_update", p.k, 0)}
    BY <1>11 DEF Visits
  <2>2. CASE p = P("stage", p.k, 0)
    BY <2>1, <2>2, <1>11, StageAdvances
  <2>3. CASE p = P("tile_scores", p.k, 0)
    BY <2>1, <2>3, <1>11, TileScoresAdvances
  <2>4. CASE p = P("tile_accumulate", p.k, 0)
    BY <2>1, <2>4, <1>11, TileAccumulateAdvances
  <2>5. CASE p = P("tile_update", p.k, 0)
    BY <2>1, <2>5, <1>11, TileUpdateAdvances
  <2> QED BY <2>1, <2>2, <2>3, <2>4, <2>5
<1> QED BY <1>1, <1>2, <1>3, <1>4, <1>5, <1>6, <1>7, <1>8, <1>9, <1>10, <1>11 DEF Reached

---------------------------------------------------------------------------
(* What is said of a launch stays so: nothing of it depends on the rest.  *)
LEMMA SameShape ==
  ASSUME launch' = launch
  PROVE  /\ T' = T /\ Threads' = Threads /\ Dims' = Dims /\ Items' = Items
         /\ Supported(launch)' = Supported(launch)
         /\ NumVisible' = NumVisible
         /\ \A k : Masked(k)' = Masked(k) /\ TileRows(k)' = TileRows(k) /\ Upto(k)' = Upto(k)
         /\ \A t : Unit(t)' = Unit(t) /\ Mine(t)' = Mine(t)
         /\ \A p : After(p)' = After(p) /\ Reached(p)' = Reached(p)
<1>1. T' = T /\ Threads' = Threads /\ Dims' = Dims /\ Items' = Items /\ NumVisible' = NumVisible
  BY DEF T, Threads, Dims, Items, NumVisible
<1>2. Supported(launch)' = Supported(launch)
  BY DEF Supported, Simd
<1>3. \A k : Masked(k)' = Masked(k) /\ TileRows(k)' = TileRows(k) /\ Upto(k)' = Upto(k)
  BY <1>1 DEF Masked, TileRows, Upto
<1>4. \A t : Unit(t)' = Unit(t) /\ Mine(t)' = Mine(t)
  BY <1>1 DEF Unit, SimdGroup, Simd, Mine
<1>5. \A p : After(p)' = After(p)
  BY <1>1, <1>3 DEF After, Halve, Row, Pass
<1>6. \A p : Reached(p)' = Reached(p)
  BY <1>1 DEF Reached, Visits
<1> QED BY <1>1, <1>2, <1>3, <1>4, <1>5, <1>6

(* So do the cells that are live or written, and what they should hold.   *)
LEMMA SameCells ==
  ASSUME launch' = launch
  PROVE  /\ \A p : Live(p)' = Live(p)
         /\ \A p, t : Writes(p, t)' = Writes(p, t)
<1>1. /\ T' = T /\ Dims' = Dims
      /\ \A k : Masked(k)' = Masked(k) /\ TileRows(k)' = TileRows(k)
      /\ \A t : Mine(t)' = Mine(t)
  BY SameShape
<1>2. Queries' = Queries /\ Partials' = Partials /\ \A m : Scratches(m)' = Scratches(m)
  BY <1>1 DEF Queries, Partials, Groups, Scratches
<1>3. \A k, t : Staged(k, t)' = Staged(k, t)
  BY <1>1 DEF Staged
<1>4. \A p : Live(p)' = Live(p)
  BY <1>1, <1>2 DEF Live
<1>5. \A p, t : Writes(p, t)' = Writes(p, t)
  <2> SUFFICES ASSUME NEW p, NEW t PROVE Writes(p, t)' = Writes(p, t)
    OBVIOUS
  <2>2. CASE p.op = "stage"
    BY <2>2, <1>3 DEF Writes
  <2>3. CASE p.op = "tile_scores"
    BY <2>3, <1>1 DEF Writes, ThreadZero
  <2>4. CASE p.op = "load"
    BY <2>4, <1>1 DEF Writes, ThreadZero
  <2>5. CASE p.op \in {"partial", "reduce"}
    BY <2>5 DEF Writes
  <2>6. CASE p.op = "simd_score"
    BY <2>6, <1>1 DEF Writes, ThreadZero
  <2>7. CASE p.op \notin {"stage", "tile_scores", "load", "partial", "reduce", "simd_score"}
    BY <2>7, <1>1 DEF Writes, ThreadZero
  <2> QED BY <2>2, <2>3, <2>4, <2>5, <2>6, <2>7
<1> QED BY <1>4, <1>5

(* What cells, accumulators and outputs should hold stays so too. *)
LEMMA SameValues ==
  ASSUME launch' = launch
  PROVE  /\ \A p, c : Expect(p, c)' = Expect(p, c)
         /\ \A p : AccAt(p)' = AccAt(p)
         /\ Reference' = Reference
         /\ \A n : Owner(n)' = Owner(n)
<1>1. /\ T' = T /\ Dims' = Dims /\ Items' = Items /\ NumVisible' = NumVisible
      /\ \A k : Masked(k)' = Masked(k) /\ Upto(k)' = Upto(k)
  BY SameShape
<1>2. \A k, dims : Of(k, dims)' = Of(k, dims)
  BY <1>1 DEF Of
<1>3. \A k : Whole(k)' = Whole(k)
  BY <1>1, <1>2 DEF Whole
<1>4. \A n : Maxima(n)' = Maxima(n)
  BY <1>3 DEF Maxima
<1>5. \A n, m, over : Weights(n, m, over)' = Weights(n, m, over)
  BY <1>3, <1>4 DEF Weights
<1>6. Summed' = Summed /\ \A k : TileWeights(k)' = TileWeights(k)
  BY <1>1, <1>3, <1>4, <1>5 DEF Summed, TileWeights
<1>7. /\ \A m, u : Share(m, u)' = Share(m, u)
      /\ \A g : Group(g)' = Group(g)
      /\ \A n, dims : Product(n, dims)' = Product(n, dims)
  BY <1>1, <1>2 DEF Share, Group, Product
<1>8. \A p : /\ MaxRows(p)' = MaxRows(p) /\ SumRows(p)' = SumRows(p) /\ SumMax(p)' = SumMax(p)
             /\ NextRows(p)' = NextRows(p) /\ AccRows(p)' = AccRows(p)
  BY <1>1 DEF MaxRows, SumRows, SumMax, NextRows, AccRows
<1>9. \A p, c : Expect(p, c)' = Expect(p, c)
  BY <1>1, <1>2, <1>3, <1>4, <1>5, <1>6, <1>7, <1>8 DEF Expect
<1>10. \A p : AccAt(p)' = AccAt(p)
  BY <1>1, <1>5, <1>6, <1>8 DEF AccAt
<1>11. Visible' = Visible /\ Tile' = Tile
  BY <1>1 DEF Visible, Tile
<1>12. \A over : Softmax(over)' = Softmax(over)
  BY <1>3, <1>11 DEF Softmax
<1>13. Reference' = Reference
  BY <1>1, <1>3, <1>11, <1>12 DEF Reference
<1>14. \A n : Owner(n)' = Owner(n)
  BY <1>1 DEF Owner
<1> QED BY <1>9, <1>10, <1>13, <1>14

(* The threads of a unit have one unit.                                   *)
LEMMA OneUnit ==
  ASSUME Typed, NEW t \in Threads
  PROVE  /\ t \in Unit(t) /\ Unit(t) \subseteq Threads
         /\ \A u \in Unit(t) : Unit(u) = Unit(t)
BY DEF Unit, SimdGroup

(* No phase but the output is the last.                                   *)
LEMMA NotDone ==
  ASSUME Typed, NEW p, Reached(p), p \notin {Output, Done}
  PROVE  After(p) # Done
<1>1. /\ \A o, k, n : P(o, k, n).op = o
      /\ Done.op = "done" /\ Output.op = "output"
  BY Fields DEF Done, Output
<1>2. p.op \in {"load", "dot", "softmax", "accumulate", "reduce", "partial", "simd_squares", "simd_total", "zero_max",
                "zero_denom", "simd_dot", "simd_score", "stage", "tile_scores", "tile_accumulate", "tile_update"}
  BY <1>1 DEF Reached, Visits
<1>3. \A k, n : Halve(k, n) # Done /\ Row(k) # Done /\ Pass(n, k) # Done
  BY <1>1 DEF Halve, Row, Pass
<1> QED BY <1>1, <1>2, <1>3 DEF After

(* The softmax of the visible rows, as the accumulators list it.          *)
LEMMA SoftmaxIs ==
  ASSUME Typed, NEW over
  PROVE  Softmax(over) = Weights(NumVisible, NumVisible, over)
<1> DEFINE max == [i \in 1..Cardinality(Visible) |-> Whole(i - 1)]
<1>1. Cardinality(Visible) = NumVisible
  BY CountVisible
<1>2. max = Maxima(NumVisible)
  BY <1>1 DEF Maxima
<1>3. DOMAIN max = 1..NumVisible /\ \A i \in 1..NumVisible : max[i] = Whole(i - 1)
  BY <1>1
<1>4. Softmax(over) = [i \in DOMAIN max |-> Weight(i - 1, max[i], max, over)]
  BY DEF Softmax
<1> HIDE DEF max
<1> QED BY <1>2, <1>3, <1>4 DEF Weights

(* Each output is written by one thread, which has it in the end.         *)
LEMMA OwnerOutputs ==
  ASSUME Typed
  PROVE  /\ \A n \in DOMAIN Reference : Owner(n) \in Threads
         /\ \A t \in Threads : Outputs(t) = {n \in DOMAIN Reference : Owner(n) = t}
<1>1. CASE launch.kernel = "matvec"
  <2>1. DOMAIN Reference = Tile
    BY <1>1 DEF Reference
  <2> QED BY <2>1, <1>1, Numbers DEF Owner, Outputs, ThreadZero, Threads
<1>2. CASE launch.kernel # "matvec"
  <2>1. DOMAIN Reference = Dims
    BY <1>2 DEF Reference
  <2>2. \A n \in Dims : n % T \in Threads
    BY Numbers DEF Dims, Threads
  <2> QED BY <2>1, <2>2, <1>2 DEF Owner, Outputs, Mine
<1> QED BY <1>1, <1>2

(* What a thread reads to write its outputs, and what it writes.          *)
LEMMA OutputReads ==
  ASSUME Typed, NEW u \in Threads
  PROVE  Reads(Output, u) \subseteq Live(Output) /\ Writes(Output, u) = {}
<1>1. Output.op = "output"
  BY Fields DEF Output
<1>2. Writes(Output, u) = {}
  BY <1>1 DEF Writes
<1>3. CASE launch.kernel = "matvec"
  <2>1. Reads(Output, u) = ThreadZero(u, {Scratch(n, 0) : n \in 0..launch.tile-1}) /\ Live(Output) = Scratches(1)
    BY <1>1, <1>3 DEF Reads, Live
  <2>2. {Scratch(n, 0) : n \in 0..launch.tile-1} \subseteq Scratches(1)
    BY DEF Scratches
  <2> QED BY <2>1, <2>2, <1>2 DEF ThreadZero
<1>4. CASE launch.kernel # "matvec"
  BY <1>1, <1>2, <1>4 DEF Reads, Live
<1> QED BY <1>3, <1>4

(* What a thread writes of the output is the reference. *)
LEMMA OutputStored ==
  ASSUME Typed, NEW u \in Threads, NEW s, \A c \in Reads(Output, u) : s[c] = Expect(Output, c),
         NEW n \in Outputs(u), launch.kernel # "matvec" => acc[n] = AccAt(Output)
  PROVE  Stored(n, s) = Reference[n]
<1>1. Output.op = "output" /\ Output.k = 0
  BY Fields DEF Output
<1>2. CASE launch.kernel = "matvec"
  <2>1. u = 0 /\ n \in Tile
    BY <1>2 DEF Outputs, ThreadZero
  <2>2. n - launch.first \in 0..launch.tile-1 /\ launch.first + (n - launch.first) = n /\ n < launch.outputs
    BY <2>1, Numbers DEF Tile
  <2>3. Scratch(n - launch.first, 0) \in Reads(Output, u)
    BY <1>1, <1>2, <2>1, <2>2 DEF Reads, ThreadZero
  <2>4. Expect(Output, Scratch(n - launch.first, 0)) = Product(n - launch.first, Share(1, 0))
    BY <1>1, <1>2, ScratchCell
  <2>5. Product(n - launch.first, Share(1, 0)) = Whole(n)
    BY <2>2, WholeShare DEF Product, Whole
  <2>6. Reference[n] = Whole(n)
    BY <1>2, <2>1 DEF Reference
  <2>7. Stored(n, s) = s[Scratch(n - launch.first, 0)]
    BY <1>2 DEF Stored
  <2> QED BY <2>3, <2>4, <2>5, <2>6, <2>7
<1>3. CASE launch.kernel = "rms_norm"
  <2>1. n \in Dims
    BY <1>3 DEF Outputs, Mine
  <2>2. <<"inv_rms">> \in Reads(Output, u)
    BY <1>1, <1>3 DEF Reads, Shared
  <2>3. Stored(n, s) = s[<<"inv_rms">>] /\ Reference[n] = Whole(0)
    BY <1>3, <2>1 DEF Stored, Reference
  <2> QED BY <2>2, <2>3, <1>1, ScoreCell
<1>4. CASE launch.kernel = "row_parallel"
  <2>1. n \in Dims
    BY <1>4 DEF Outputs, Mine
  <2>2. AccRows(Output) = NumVisible
    BY <1>1, <1>4 DEF AccRows
  <2>3. acc[n] = Weights(NumVisible, NumVisible, Summed)
    BY <1>4, <2>2 DEF AccAt
  <2>4. Stored(n, s) = <<acc[n], <<>>>> /\ Reference[n] = <<Softmax(Softmax(<<>>)), <<>>>>
    BY <1>4, <2>1 DEF Stored, Reference
  <2>5. Softmax(<<>>) = Summed
    BY SoftmaxIs DEF Summed
  <2>6. Softmax(Summed) = Weights(NumVisible, NumVisible, Summed)
    BY SoftmaxIs
  <2> QED BY <2>3, <2>4, <2>5, <2>6
<1>5. CASE launch.kernel \in {"streaming", "tiled_kv"}
  <2>1. n \in Dims /\ n % T = u
    BY <1>5 DEF Outputs, Mine
  <2>2. u \in Dims
    BY <2>1, Numbers DEF Dims
  <2>3. <<"l">> \in Reads(Output, u)
    BY <1>1, <1>5, <2>2 DEF Reads, Shared
  <2>4. AccRows(Output) = NumVisible /\ SumRows(Output) = NumVisible /\ SumMax(Output) = NumVisible
    BY <1>1, <1>5 DEF AccRows, SumRows, SumMax, MaxRows
  <2>5. s[<<"l">>] = Summed /\ acc[n] = Summed
    BY <1>5, <2>3, <2>4, SumCell DEF Summed, AccAt
  <2>6. Stored(n, s) = <<acc[n], s[<<"l">>]>> /\ Reference[n] = <<Softmax(<<>>), Softmax(<<>>)>>
    BY <1>5, <2>1 DEF Stored, Reference
  <2>7. Softmax(<<>>) = Summed
    BY SoftmaxIs DEF Summed
  <2> QED BY <2>5, <2>6, <2>7
<1> QED BY <1>2, <1>3, <1>4, <1>5, LaunchAssumption DEF Typed, LaunchTyped

---------------------------------------------------------------------------
(* Nothing is known of a cell before the kernel begins, and it needs none. *)
LEMMA InitRow == Init => RowInv
<1> SUFFICES ASSUME Init PROVE RowInv
  OBVIOUS
<1>1. Typed
  BY LaunchAssumption DEF Init, Typed, LaunchTyped, T
<1>2. launch.kernel \in {"streaming", "row_parallel", "tiled_kv", "matvec", "rms_norm"}
  BY <1>1, LaunchAssumption DEF Typed, LaunchTyped
<1>3. /\ Start.op \in {"load", "zero_max", "simd_squares", "partial"} /\ Start.k = 0 /\ Start.n = 0
      /\ launch.kernel = "row_parallel" => Start.op = "zero_max"
  BY <1>2, Fields DEF Start
<1>4. Reached(Start)
  BY <1>2 DEF Start, Reached
<1>5. Live(Start) = {}
  BY <1>3 DEF Live
<1>6. AccRows(Start) = 0
  BY <1>1, <1>3, UptoEnds DEF AccRows
<1>7. AccAt(Start) = <<>>
  BY <1>6 DEF AccAt, Weights
<1>8. Start # Done
  BY <1>3, Fields DEF Done
<1>9. /\ \A t \in Threads : at[t] = Start
      /\ waiting = {} /\ out = <<>> /\ acc = [d \in Dims |-> <<>>] /\ Supported(launch)
  BY DEF Init
<1>10. \A d \in Dims : d % T \in Threads
  BY <1>1, Numbers DEF Dims, Threads
<1>11. MemoryInv
  BY <1>5, <1>9 DEF MemoryInv
<1>12. AccInv
  BY <1>7, <1>9, <1>10 DEF AccInv
<1>13. OutInv
  <2>1. {x \in DOMAIN Reference : at[Owner(x)] = Done} = {}
    BY <1>1, <1>8, <1>9, OwnerOutputs
  <2> QED BY <2>1, <1>9 DEF OutInv
<1> QED BY <1>4, <1>9, <1>11, <1>12, <1>13 DEF RowInv, UnitsWait

(* A phase reads what it expects: nothing it reads has been written since,
   by the threads that wait for it at the barrier. *)
LEMMA ReadsExpected ==
  ASSUME IInv, RowInv, NEW t \in Threads \ waiting, NEW u \in Unit(t), NEW p, p = at[t], p # Done,
         NEW c \in Reads(p, u)
  PROVE  Has(c, Expect(p, c))
<1>1. Typed
  BY DEF IInv, RowInv, Typed
<1>2. u \in Threads /\ u \notin waiting
  BY <1>1, OneUnit DEF RowInv, UnitsWait
<1>3. Reached(p)
  BY DEF RowInv
<1>4. Reads(p, u) \subseteq Live(p)
  BY <1>1, <1>2, <1>3, OutputReads, EveryPhaseAdvances DEF Advances
<1>5. IsPhase(p) /\ waiting \subseteq Threads /\ LaunchTyped
  BY DEF IInv, PhaseTyped
<1>6. \A w \in waiting : c \notin Writes(p, w)
  BY <1>2, <1>5, DisjointAccess
<1> QED BY <1>4, <1>6 DEF RowInv, MemoryInv

HasNext(c, v) == c \in DOMAIN memory' /\ memory'[c] = v

(* After a phase that is not the output, a cell that is live next and was
   written for it holds what is expected next; one that was not is as it was. *)
LEMMA CellsAfter ==
  ASSUME IInv, RowInv, NEW t \in Threads, Step(t), NEW p, p = at[t], p # Output, NEW c
  PROVE  /\ c \in Live(After(p)) /\ (\E u \in waiting \cup Unit(t) : c \in Writes(p, u))
            => HasNext(c, Expect(After(p), c))
         /\ c \in Live(p) /\ (\A u \in waiting \cup Unit(t) : c \notin Writes(p, u)) => HasNext(c, Expect(p, c))
<1> DEFINE q == After(p)
           ts == Unit(t)
           s == [x \in UNION {Reads(p, u) : u \in ts} |-> memory[x]]
           written == UNION {Writes(p, u) : u \in ts}
<1>1. Typed
  BY DEF IInv, RowInv, Typed
<1>2. t \in Threads \ waiting /\ p # Done /\ launch' = launch
  BY DEF Step
<1>3. Reached(p) /\ Advances(p)
  BY <1>1, <1>2, EveryPhaseAdvances DEF RowInv
<1>4. memory' = [x \in written \cup DOMAIN memory |-> IF x \in written THEN Value(p, x, ts, s) ELSE memory[x]]
  BY DEF Step
<1>5. \A u \in ts : \A x \in Reads(p, u) : s[x] = Expect(p, x)
  <2> SUFFICES ASSUME NEW u \in ts, NEW x \in Reads(p, u) PROVE s[x] = Expect(p, x)
    OBVIOUS
  <2>1. Has(x, Expect(p, x))
    BY <1>2, ReadsExpected
  <2>2. x \in UNION {Reads(p, v) : v \in ts}
    OBVIOUS
  <2> QED BY <2>1, <2>2 DEF Has
<1> HIDE DEF s
<1>6. \A u \in ts : \A x \in Live(q) \cap Writes(p, u) : Value(p, x, ts, s) = Expect(q, x)
  BY <1>2, <1>3, <1>5 DEF Advances
<1> HIDE DEF ts, written
<1>7. ASSUME c \in Live(q), NEW u \in waiting \cup ts, c \in Writes(p, u) PROVE HasNext(c, Expect(q, c))
  <2>1. CASE c \in written
    <3>1. Value(p, c, ts, s) = Expect(q, c)
      BY <2>1, <1>6, <1>7 DEF written
    <3>2. c \in DOMAIN memory' /\ memory'[c] = Expect(q, c)
      BY <2>1, <3>1, <1>4
    <3> QED BY <3>2 DEF HasNext
  <2>2. CASE c \notin written
    <3>1. u \in waiting
      BY <2>2, <1>7 DEF written
    <3>2. Has(c, Expect(q, c))
      BY <3>1, <1>2, <1>7 DEF RowInv, MemoryInv
    <3>3. c \in DOMAIN memory' /\ memory'[c] = memory[c]
      BY <2>2, <3>2, <1>4 DEF Has
    <3> QED BY <3>2, <3>3 DEF Has, HasNext
  <2> QED BY <2>1, <2>2
<1>8. ASSUME c \in Live(p), \A u \in waiting \cup ts : c \notin Writes(p, u) PROVE HasNext(c, Expect(p, c))
  <2>1. Has(c, Expect(p, c))
    BY <1>2, <1>8 DEF RowInv, MemoryInv
  <2>2. c \notin written
    BY <1>8 DEF written
  <2>3. c \in DOMAIN memory' /\ memory'[c] = memory[c]
    BY <2>1, <2>2, <1>4 DEF Has
  <2> QED BY <2>1, <2>3 DEF Has, HasNext
<1> QED BY <1>7, <1>8 DEF ts

(* A phase that is not the output: the threads that did it wait, or the
   barrier opens because it was the last unit. *)
LEMMA PhaseRow ==
  ASSUME IInv, RowInv, NEW t \in Threads, Step(t), at[t] # Output
  PROVE  RowInv'
<1> DEFINE p == at[t]
           q == After(p)
           ts == Unit(t)
           s == [x \in UNION {Reads(p, u) : u \in ts} |-> memory[x]]
           opens == waiting \cup ts = Threads
<1>1. Typed
  BY DEF IInv, RowInv, Typed
<1>2. t \in Threads \ waiting /\ p # Done /\ launch' = launch
  BY DEF Step
<1>3. Reached(p) /\ Advances(p) /\ q # Done
  BY <1>1, <1>2, EveryPhaseAdvances, NotDone DEF RowInv
<1>4. /\ \A u \in Threads \ waiting : at[u] = p
      /\ \A u \in waiting : at[u] = q
      /\ waiting \subseteq Threads
  BY <1>2 DEF IInv, InStep, PhaseTyped, LastPhases
<1>5. /\ ts \subseteq Threads /\ t \in ts
      /\ \A u \in ts : Unit(u) = ts
  BY <1>1, OneUnit
<1>6. ts \cap waiting = {}
  BY <1>2, <1>5 DEF RowInv, UnitsWait
<1>7. /\ waiting' = IF opens THEN {} ELSE waiting \cup ts
      /\ at' = [u \in Threads |-> IF u \in ts THEN q ELSE at[u]]
      /\ acc' = [d \in Dims |-> IF d % T \in ts THEN Accumulated(p, d, s) ELSE acc[d]]
  BY DEF Step, BarrierAfter
<1>8. /\ \A u \in waiting \cup ts : at'[u] = q
      /\ \A u \in Threads \ (waiting \cup ts) : at'[u] = p
  BY <1>4, <1>5, <1>7
<1>9. \A u \in ts : \A x \in Reads(p, u) : s[x] = Expect(p, x)
  <2> SUFFICES ASSUME NEW u \in ts, NEW x \in Reads(p, u) PROVE s[x] = Expect(p, x)
    OBVIOUS
  <2>1. Has(x, Expect(p, x))
    BY <1>2, ReadsExpected
  <2>2. x \in UNION {Reads(p, v) : v \in ts}
    OBVIOUS
  <2> QED BY <2>1, <2>2 DEF Has
<1>10. /\ Threads' = Threads /\ Dims' = Dims /\ T' = T
       /\ \A u : Unit(u)' = Unit(u)
       /\ \A r : After(r)' = After(r) /\ Reached(r)' = Reached(r)
       /\ Supported(launch)' = Supported(launch)
  BY <1>2, SameShape
<1>11. (\A r : Live(r)' = Live(r)) /\ \A r, u : Writes(r, u)' = Writes(r, u)
  BY <1>2, SameCells
<1>12. /\ (\A r, c : Expect(r, c)' = Expect(r, c)) /\ (\A r : AccAt(r)' = AccAt(r))
       /\ Reference' = Reference /\ \A n : Owner(n)' = Owner(n)
  BY <1>2, SameValues
<1>13. \A c : /\ c \in Live(q) /\ (\E u \in waiting \cup ts : c \in Writes(p, u)) => HasNext(c, Expect(q, c))
              /\ c \in Live(p) /\ (\A u \in waiting \cup ts : c \notin Writes(p, u)) => HasNext(c, Expect(p, c))
  BY CellsAfter
<1> HIDE DEF p, q, ts, s
<1>14. UnitsWait'
  BY <1>5, <1>7, <1>10 DEF RowInv, UnitsWait
<1>15. MemoryInv'
  <2>1. CASE opens
    <3>1. waiting' = {} /\ \A u \in Threads : at'[u] = q
      BY <2>1, <1>7, <1>8
    <3>2. ASSUME NEW c \in Live(q) PROVE HasNext(c, Expect(q, c))
      <4>1. CASE \E u \in waiting \cup ts : c \in Writes(p, u)
        BY <4>1, <1>13
      <4>2. CASE \A u \in waiting \cup ts : c \notin Writes(p, u)
        <5>1. c \in Live(p) /\ Expect(q, c) = Expect(p, c)
          BY <4>2, <2>1, <1>3 DEF Advances, Kept, q
        <5> QED BY <5>1, <4>2, <1>13
      <4> QED BY <4>1, <4>2
    <3> QED BY <3>1, <3>2, <1>10, <1>11, <1>12 DEF MemoryInv, Has, HasNext
  <2>2. CASE ~opens
    <3>1. waiting' = waiting \cup ts /\ \A u \in Threads \ waiting' : at'[u] = p
      BY <2>2, <1>7, <1>8
    <3>2. \A c \in Live(p) : (\A u \in waiting' : c \notin Writes(p, u)) => HasNext(c, Expect(p, c))
      BY <3>1, <1>13
    <3>3. \A u \in waiting' : \A c \in Live(q) \cap Writes(p, u) : HasNext(c, Expect(q, c))
      BY <3>1, <1>13
    <3> QED BY <3>1, <3>2, <3>3, <1>10, <1>11, <1>12 DEF MemoryInv, Has, HasNext, q
  <2> QED BY <2>1, <2>2
<1>16. AccInv'
  <2>1. \A d \in Dims : d % T \in Threads
    BY <1>1, Numbers DEF Dims, Threads
  <2>2. ASSUME NEW d \in Dims PROVE acc'[d] = AccAt(at'[d % T])
    <3>1. acc[d] = AccAt(at[d % T])
      BY DEF RowInv, AccInv
    <3>2. CASE d % T \in ts
      <4>1. at[d % T] = p /\ at'[d % T] = q
        BY <2>1, <3>2, <1>4, <1>6, <1>8
      <4>2. acc'[d] = Accumulated(p, d, s)
        BY <3>2, <1>7
      <4>3. Accumulated(p, d, s) = AccAt(q)
        BY <3>1, <3>2, <4>1, <1>2, <1>3, <1>9 DEF Advances, q, ts
      <4> QED BY <4>1, <4>2, <4>3
    <3>3. CASE d % T \notin ts
      BY <3>1, <3>3, <2>1, <1>7
    <3> QED BY <3>2, <3>3
  <2>3. DOMAIN acc' = Dims
    BY <1>7
  <2> QED BY <2>2, <2>3, <1>10, <1>12 DEF AccInv
<1>17. OutInv'
  <2>1. out' = [n \in DOMAIN out |-> out[n]]
    <3>1. out' = [n \in {} \cup DOMAIN out |-> IF n \in {} THEN Stored(n, s) ELSE out[n]]
      BY DEF Step, p, s, ts
    <3> QED BY <3>1
  <2>2. out = [n \in {x \in DOMAIN Reference : at[Owner(x)] = Done} |-> Reference[n]]
    BY DEF RowInv, OutInv
  <2>3. \A x \in DOMAIN Reference : at[Owner(x)] = Done <=> at'[Owner(x)] = Done
    <3>1. \A u \in Threads : at[u] # Done /\ at'[u] # Done
      BY <1>2, <1>3, <1>4, <1>7
    <3> QED BY <3>1, <1>1, OwnerOutputs
  <2>4. out' = [n \in {x \in DOMAIN Reference : at'[Owner(x)] = Done} |-> Reference[n]]
    <3>1. {x \in DOMAIN Reference : at[Owner(x)] = Done} = {x \in DOMAIN Reference : at'[Owner(x)] = Done}
      BY <2>3
    <3>2. out' = [n \in {x \in DOMAIN Reference : at[Owner(x)] = Done} |-> Reference[n]]
      BY <2>1, <2>2
    <3> QED BY <3>1, <3>2
  <2> QED BY <2>4, <1>12 DEF OutInv
<1>18. \A u \in Threads : Reached(at'[u])
  BY <1>3, <1>4, <1>7 DEF Advances, RowInv, q
<1> QED BY <1>10, <1>14, <1>15, <1>16, <1>17, <1>18 DEF RowInv

(* The output: a thread that has done it is done, and its outputs are the
   reference; nothing else changes. *)
LEMMA OutputRow ==
  ASSUME IInv, RowInv, NEW t \in Threads, Step(t), at[t] = Output
  PROVE  RowInv'
<1> DEFINE ts == Unit(t)
           s == [x \in UNION {Reads(Output, u) : u \in ts} |-> memory[x]]
           stored == UNION {Outputs(u) : u \in ts}
           written == UNION {Writes(Output, u) : u \in ts}
<1>1. Typed
  BY DEF IInv, RowInv, Typed
<1>2. t \in Threads \ waiting /\ launch' = launch
  BY DEF Step
<1>3. waiting = {} /\ \A u \in Threads : at[u] \in {Output, Done}
  BY <1>2 DEF IInv, InStep, PhaseTyped, LastPhases
<1>4. /\ ts \subseteq Threads /\ t \in ts
      /\ \A u \in ts : Unit(u) = ts
  BY <1>1, OneUnit
<1>5. /\ Output.op = "output" /\ Done.op = "done" /\ Output # Done
  BY Fields DEF Output, Done
<1>6. /\ waiting' = waiting
      /\ at' = [u \in Threads |-> IF u \in ts THEN Done ELSE at[u]]
  BY AfterOutput DEF Step, BarrierAfter
<1>7. acc' = [d \in Dims |-> acc[d]]
  <2>1. \A d : Accumulated(Output, d, s) = acc[d]
    BY <1>5 DEF Accumulated
  <2>2. acc' = [d \in Dims |-> IF d % T \in ts THEN Accumulated(Output, d, s) ELSE acc[d]]
    BY DEF Step
  <2> QED BY <2>1, <2>2
<1>8. \A c, v : Has(c, v) => HasNext(c, v)
  <2>1. written = {}
    BY <1>1, <1>4, OutputReads
  <2>2. memory' = [c \in written \cup DOMAIN memory |->
                      IF c \in written THEN Value(Output, c, ts, s) ELSE memory[c]]
    BY DEF Step
  <2> HIDE DEF written
  <2> QED BY <2>1, <2>2 DEF Has, HasNext
<1>9. /\ Threads' = Threads /\ Dims' = Dims /\ T' = T
      /\ \A u : Unit(u)' = Unit(u)
      /\ \A r : After(r)' = After(r) /\ Reached(r)' = Reached(r)
      /\ Supported(launch)' = Supported(launch)
  BY <1>2, SameShape
<1>10. (\A r : Live(r)' = Live(r)) /\ \A r, u : Writes(r, u)' = Writes(r, u)
  BY <1>2, SameCells
<1>11. /\ (\A r, c : Expect(r, c)' = Expect(r, c)) /\ (\A r : AccAt(r)' = AccAt(r))
       /\ Reference' = Reference /\ \A n : Owner(n)' = Owner(n)
  BY <1>2, SameValues
<1>12. MemoryInv'
  <2>1. \A u \in Threads : at'[u] = Done \/ at'[u] = at[u]
    BY <1>6
  <2>2. \A u \in Threads : at[u] # Done => \A c \in Live(at[u]) : Has(c, Expect(at[u], c))
    BY <1>3 DEF RowInv, MemoryInv
  <2>3. \A u \in Threads : at'[u] # Done => \A c \in Live(at'[u]) : HasNext(c, Expect(at'[u], c))
    BY <2>1, <2>2, <1>8
  <2> QED BY <2>3, <1>3, <1>6, <1>9, <1>10, <1>11 DEF MemoryInv, Has, HasNext
<1>13. AccAt(Done) = AccAt(Output)
  <2>1. AccRows(Done) = AccRows(Output)
    BY <1>5 DEF AccRows
  <2> QED BY <2>1 DEF AccAt
<1>14. AccInv'
  <2>1. \A d \in Dims : d % T \in Threads
    BY <1>1, Numbers DEF Dims, Threads
  <2>2. \A d \in Dims : AccAt(at'[d % T]) = AccAt(at[d % T])
    BY <2>1, <1>13, <1>3, <1>6
  <2>3. \A d \in Dims : acc'[d] = AccAt(at'[d % T])
    BY <2>2, <1>7 DEF RowInv, AccInv
  <2> QED BY <2>3, <1>7, <1>9, <1>11 DEF AccInv
<1>15. OutInv'
  <2> DEFINE before == {x \in DOMAIN Reference : at[Owner(x)] = Done}
             after == {x \in DOMAIN Reference : at'[Owner(x)] = Done}
  <2>1. out = [n \in before |-> Reference[n]]
    BY DEF RowInv, OutInv
  <2>2. out' = [n \in stored \cup DOMAIN out |-> IF n \in stored THEN Stored(n, s) ELSE out[n]]
    BY DEF Step
  <2>3. stored \cup before = after
    <3>1. \A x \in DOMAIN Reference : Owner(x) \in Threads
      BY <1>1, OwnerOutputs
    <3>2. stored = {x \in DOMAIN Reference : Owner(x) \in ts}
      BY <1>1, <1>4, OwnerOutputs
    <3> HIDE DEF stored
    <3> QED BY <3>1, <3>2, <1>6
  <2>4. ASSUME NEW n \in stored PROVE Stored(n, s) = Reference[n]
    <3>1. PICK u \in ts : n \in Outputs(u)
      OBVIOUS
    <3>2. \A c \in Reads(Output, u) : s[c] = Expect(Output, c)
      <4> SUFFICES ASSUME NEW c \in Reads(Output, u) PROVE s[c] = Expect(Output, c)
        OBVIOUS
      <4>1. Has(c, Expect(Output, c))
        BY <1>2, <1>5, ReadsExpected
      <4>2. c \in UNION {Reads(Output, v) : v \in ts}
        OBVIOUS
      <4> QED BY <4>1, <4>2 DEF Has
    <3>3. launch.kernel # "matvec" => acc[n] = AccAt(Output)
      <4> SUFFICES ASSUME launch.kernel # "matvec" PROVE acc[n] = AccAt(Output)
        OBVIOUS
      <4>1. n \in Dims /\ n % T = u
        BY <3>1 DEF Outputs, Mine
      <4>2. AccAt(at[u]) = AccAt(Output)
        BY <1>3, <1>4, <1>13
      <4> QED BY <4>1, <4>2 DEF RowInv, AccInv
    <3> HIDE DEF s
    <3> QED BY <3>1, <3>2, <3>3, <1>1, <1>4, OutputStored
  <2> HIDE DEF s, stored, before, after
  <2>5. out' = [n \in after |-> Reference[n]]
    BY <2>1, <2>2, <2>3, <2>4
  <2> QED BY <2>5, <1>11 DEF OutInv, after
<1>16. \A u \in Threads : Reached(at'[u])
  BY <1>6 DEF RowInv, Reached
<1>17. UnitsWait'
  BY <1>3, <1>6 DEF UnitsWait
<1> QED BY <1>9, <1>12, <1>14, <1>15, <1>16, <1>17 DEF RowInv

(* Every step keeps what is known of the row.                              *)
LEMMA StepRow == IInv /\ RowInv /\ [Next]_vars => RowInv'
<1> SUFFICES ASSUME IInv, RowInv, [Next]_vars PROVE RowInv'
  OBVIOUS
<1>1. CASE UNCHANGED vars
  <2>1. launch' = launch /\ at' = at /\ waiting' = waiting /\ memory' = memory /\ acc' = acc /\ out' = out
    BY <1>1 DEF vars
  <2>2. /\ Threads' = Threads /\ Dims' = Dims /\ T' = T
        /\ \A u : Unit(u)' = Unit(u)
        /\ \A r : After(r)' = After(r) /\ Reached(r)' = Reached(r)
        /\ Supported(launch)' = Supported(launch)
    BY <2>1, SameShape
  <2>3. (\A r : Live(r)' = Live(r)) /\ \A r, u : Writes(r, u)' = Writes(r, u)
    BY <2>1, SameCells
  <2>4. /\ (\A r, c : Expect(r, c)' = Expect(r, c)) /\ (\A r : AccAt(r)' = AccAt(r))
        /\ Reference' = Reference /\ \A n : Owner(n)' = Owner(n)
    BY <2>1, SameValues
  <2>5. UnitsWait' /\ \A u \in Threads' : Reached(at[u])'
    BY <2>1, <2>2 DEF RowInv, UnitsWait
  <2>6. MemoryInv'
    BY <2>1, <2>2, <2>3, <2>4 DEF RowInv, MemoryInv, Has
  <2>7. AccInv'
    BY <2>1, <2>2, <2>4 DEF RowInv, AccInv
  <2>8. OutInv'
    BY <2>1, <2>4 DEF RowInv, OutInv
  <2> QED BY <2>2, <2>5, <2>6, <2>7, <2>8 DEF RowInv
<1>2. ASSUME NEW t \in Threads, Step(t) PROVE RowInv'
  BY <1>2, PhaseRow, OutputRow
<1> QED BY <1>1, <1>2 DEF Next, Finished

(* What is known of the row when all threads are done is that it is right. *)
LEMMA RowDone == IInv /\ RowInv => RowIsReference
<1> SUFFICES ASSUME IInv, RowInv, \A t \in Threads : at[t] = Done PROVE out = Reference
  BY DEF RowIsReference
<1>1. Typed
  BY DEF IInv, RowInv, Typed
<1>2. {x \in DOMAIN Reference : at[Owner(x)] = Done} = DOMAIN Reference
  BY <1>1, OwnerOutputs
<1>3. out = [n \in DOMAIN Reference |-> Reference[n]]
  BY <1>2 DEF RowInv, OutInv
<1>4. Reference = [n \in DOMAIN Reference |-> Reference[n]]
  BY <1>1, LaunchAssumption DEF Reference, Typed, LaunchTyped
<1> QED BY <1>3, <1>4

(* In whatever order the threads run between the barriers, the threadgroup
   of every kernel writes the reference: every output, each row of keys that
   is not masked in it once, scaled to the maximum of all. *)
THEOREM RowCorrect == Spec => []RowIsReference
<1>1. IInv /\ RowInv /\ [][Next]_vars => [](IInv /\ RowInv)
  BY StepInv, StepRow, PTL
<1> QED
  BY InitInv, InitRow, RowDone, <1>1, PTL DEF Spec
=============================================================================
