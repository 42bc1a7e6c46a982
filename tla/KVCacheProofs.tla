---------------------------- MODULE KVCacheProofs ----------------------------
(* That every layout of a KV cache implements the abstract cache of KVCache, for
   every batch size, number of heads, head dimension, page size, block table,
   position array and pattern that KVCacheLayoutsAssumption admits. The array
   operators of KVCacheOps are shown to store and read the lanes of rows, each
   call is then one step of the abstract cache, and KVInv carries the argument
   from call to call. *)
EXTENDS MCKVCache, FiniteSetTheorems, TLAPS

------------------------------------------------------------------------------
(* Indices of row-major arrays, and writes                                  *)

(* An element and its place in a run of n split an index in one way. *)
LEMMA DivMod ==
  ASSUME NEW q \in Int, NEW n \in Nat \ {0}, NEW r \in Idx(n)
  PROVE  (q * n + r) \div n = q /\ (q * n + r) % n = r
  BY DEF Idx

(* ... and the index is within m runs. *)
LEMMA InProduct ==
  ASSUME NEW m \in Nat, NEW q \in Idx(m), NEW n \in Nat \ {0}, NEW r \in Idx(n)
  PROVE  q * n + r \in Idx(m * n)
  BY DEF Idx

(* Leaving out two dimensions is leaving out one and then the other. *)
LEMMA DivMany ==
  ASSUME NEW e \in Nat, NEW m \in Nat \ {0}, NEW n \in Nat \ {0}
  PROVE  e \div (m * n) = (e \div n) \div m
  OBVIOUS

(* An index of a row-major array of four dimensions is in range, and
   division gives its coordinates back: what _index and the kernels' index
   arithmetic rely on. *)
LEMMA RowMajorIndex ==
  ASSUME NEW n1 \in Nat \ {0}, NEW n2 \in Nat \ {0}, NEW n3 \in Nat \ {0}, NEW n4 \in Nat \ {0},
         NEW i \in Idx(n1), NEW j \in Idx(n2), NEW k \in Idx(n3), NEW l \in Idx(n4),
         NEW e, e = RowMajor(n2, n3, n4, i, j, k, l)
  PROVE  /\ e \in Idx(n1 * n2 * n3 * n4)
         /\ e \div (n2 * n3 * n4) = i
         /\ (e \div (n3 * n4)) % n2 = j
         /\ (e \div n4) % n3 = k
         /\ e % n4 = l
<1> DEFINE a == i * n2 + j
           b == a * n3 + k
<1>0. n1 * n2 \in Nat /\ n1 * n2 * n3 \in Nat /\ n3 * n4 \in Nat \ {0} /\ n2 * n3 * n4 = n2 * (n3 * n4)
      /\ n1 * n2 * n3 * n4 = (n1 * n2 * n3) * n4 /\ n1 * n2 * n3 = (n1 * n2) * n3
  OBVIOUS
<1>1. a \in Idx(n1 * n2) /\ a \div n2 = i /\ a % n2 = j
  <2>1. i \in Int
    BY DEF Idx
  <2>2. i * n2 + j \in Idx(n1 * n2)
    BY InProduct
  <2>3. (i * n2 + j) \div n2 = i /\ (i * n2 + j) % n2 = j
    BY <2>1, DivMod
  <2> QED BY <2>2, <2>3
<1>2. b \in Idx(n1 * n2 * n3) /\ b \div n3 = a /\ b % n3 = k
  <2>1. a \in Int
    BY <1>1 DEF Idx
  <2> HIDE DEF a
  <2>2. a * n3 + k \in Idx((n1 * n2) * n3)
    BY <1>0, <1>1, InProduct
  <2>3. (a * n3 + k) \div n3 = a /\ (a * n3 + k) % n3 = k
    BY <2>1, DivMod
  <2> QED BY <1>0, <2>2, <2>3
<1>3. e = b * n4 + l
  BY DEF RowMajor
<1>4. e \in Idx(n1 * n2 * n3 * n4) /\ e \div n4 = b /\ e % n4 = l
  <2>1. b \in Int
    BY <1>2 DEF Idx
  <2> HIDE DEF a, b
  <2>2. b * n4 + l \in Idx((n1 * n2 * n3) * n4)
    BY <1>0, <1>2, InProduct
  <2>3. (b * n4 + l) \div n4 = b /\ (b * n4 + l) % n4 = l
    BY <2>1, DivMod
  <2> QED BY <1>0, <1>3, <2>2, <2>3
<1>5. e \in Nat
  BY <1>0, <1>4 DEF Idx
<1> HIDE DEF a, b
<1>6. e \div (n3 * n4) = a
  <2>1. e \div (n3 * n4) = (e \div n4) \div n3
    BY <1>5, DivMany
  <2> QED BY <1>2, <1>4, <2>1
<1>7. e \div (n2 * n3 * n4) = i
  <2>1. e \div (n2 * (n3 * n4)) = (e \div (n3 * n4)) \div n2
    BY <1>0, <1>5, DivMany
  <2> QED BY <1>0, <1>1, <1>6, <2>1
<1> QED BY <1>1, <1>2, <1>4, <1>6, <1>7

(* The same index as a sum of strides. *)
LEMMA RowMajorSum ==
  ASSUME NEW n2 \in Nat, NEW n3 \in Nat, NEW n4 \in Nat,
         NEW i \in Nat, NEW j \in Nat, NEW k \in Nat, NEW l \in Nat
  PROVE  RowMajor(n2, n3, n4, i, j, k, l) = i * (n2 * n3 * n4) + j * (n3 * n4) + k * n4 + l
  BY DEF RowMajor

(* The sizes of a cache are positive. *)
LEMMA Sizes ==
  /\ B \in Nat \ {0} /\ MAX_S \in Nat \ {0} /\ Hq \in Nat \ {0} /\ Hkv \in Nat \ {0}
  /\ PAGE_SIZE \in Nat \ {0} /\ group_size \in Nat \ {0}
  BY KVCacheOpsAssumption

(* The reference update writes one row of each batch element. *)
LEMMA ReferenceUpdate ==
  ASSUME NEW m, NEW new, NEW pos, NEW n \in Nat \ {0},
         NEW b \in Idx(B), NEW s \in Idx(MAX_S), NEW h \in Idx(Hkv), NEW d \in Idx(n)
  PROVE  reference_kv_cache_update(m, new, pos, n)[RowMajor(MAX_S, Hkv, n, b, s, h, d)] =
             IF s = pos[b] THEN new[RowMajor(1, Hkv, n, b, 0, h, d)]
                           ELSE m[RowMajor(MAX_S, Hkv, n, b, s, h, d)]
<1> DEFINE e == RowMajor(MAX_S, Hkv, n, b, s, h, d)
<1>1. /\ e \in Idx(B * MAX_S * Hkv * n) /\ e \div (MAX_S * Hkv * n) = b
      /\ (e \div (Hkv * n)) % MAX_S = s /\ (e \div n) % Hkv = h /\ e % n = d
  BY RowMajorIndex, Sizes
<1>2. reference_kv_cache_update(m, new, pos, n)[e] =
          IF s = pos[b] THEN new[RowMajor(1, Hkv, n, b, 0, h, d)]
                        ELSE m[RowMajor(MAX_S, Hkv, n, b, s, h, d)]
  <2> HIDE DEF e
  <2> QED BY <1>1 DEF reference_kv_cache_update, Array
<1> QED BY <1>2

(* kv_cache_update_kernel, which goes over the elements of the array,
   writes the same row. *)
LEMMA KernelUpdate ==
  ASSUME NEW m, NEW new, NEW pos, NEW n \in Nat \ {0},
         DOMAIN m = Idx(B * MAX_S * Hkv * n), DOMAIN new = Idx(B * 1 * Hkv * n),
         NEW b \in Idx(B), NEW s \in Idx(MAX_S), NEW h \in Idx(Hkv), NEW d \in Idx(n)
  PROVE  kv_cache_update_kernel(m, new, pos, n)[RowMajor(MAX_S, Hkv, n, b, s, h, d)] =
             IF s = pos[b] THEN new[RowMajor(1, Hkv, n, b, 0, h, d)]
                           ELSE m[RowMajor(MAX_S, Hkv, n, b, s, h, d)]
<1> DEFINE e == RowMajor(MAX_S, Hkv, n, b, s, h, d)
           f == RowMajor(1, Hkv, n, b, 0, h, d)
<1>1. /\ e \in Idx(B * MAX_S * Hkv * n) /\ e \div (MAX_S * Hkv * n) = b
      /\ (e \div (Hkv * n)) % MAX_S = s /\ (e \div n) % Hkv = h /\ e % n = d
  BY RowMajorIndex, Sizes
<1>2. e = ((b * MAX_S + s) * Hkv + h) * n + d /\ f = (b * Hkv + h) * n + d
  BY Sizes DEF RowMajor, Idx
<1>3. f \in Idx(B * 1 * Hkv * n)
  <2>1. 0 \in Idx(1) /\ 1 \in Nat \ {0}
    BY DEF Idx
  <2> QED BY <2>1, RowMajorIndex, Sizes
<1>4. MAX_S * Hkv * n = n * Hkv * MAX_S /\ Hkv * n = n * Hkv
  BY Sizes
<1>5. kv_cache_update_kernel(m, new, pos, n)[e] = IF s = pos[b] THEN new[f] ELSE m[e]
  <2> HIDE DEF e, f
  <2> QED BY <1>1, <1>2, <1>3, <1>4 DEF kv_cache_update_kernel, At
<1> QED BY <1>5

(* A place one batch element writes has that one as its last writer. *)
LEMMA LastOfOne ==
  ASSUME NEW b \in Idx(B)
  PROVE  LastWriter({b}) = b
  BY DEF LastWriter, Idx

(* The page and the place there that batch element b writes. *)
Target(tab, pos, b) == <<tab[b * MAX_BLOCKS + pos[b] \div PAGE_SIZE], pos[b] % PAGE_SIZE>>

(* No two batch elements write the same page. *)
Apart(tab, pos) == \A b, c \in Idx(B) :
    b # c => \/ tab[b * MAX_BLOCKS + pos[b] \div PAGE_SIZE] # tab[c * MAX_BLOCKS + pos[c] \div PAGE_SIZE]
             \/ tab[b * MAX_BLOCKS + pos[b] \div PAGE_SIZE] = -1

(* The sizes of a paged cache are positive, and it holds what a contiguous
   one does. *)
LEMMA BlockSizes == MAX_BLOCKS \in Nat \ {0} /\ NUM_PAGES \in Nat \ {0} /\ Capacity \in Nat \ {0} /\ MAX_S <= Capacity
<1>1. MAX_BLOCKS = (MAX_S + PAGE_SIZE - 1) \div PAGE_SIZE
  BY DEF MAX_BLOCKS, CeilDiv
<1> DEFINE x == MAX_S + PAGE_SIZE - 1
<1>2. x \in Nat \ {0} /\ x >= PAGE_SIZE
  BY Sizes
<1>3. x = PAGE_SIZE * (x \div PAGE_SIZE) + (x % PAGE_SIZE) /\ x % PAGE_SIZE \in 0..PAGE_SIZE-1 /\ x \div PAGE_SIZE \in Nat
  BY Sizes, <1>2
<1>4. MAX_BLOCKS \in Nat /\ MAX_BLOCKS * PAGE_SIZE >= MAX_S
  BY Sizes, <1>1, <1>3
<1>5. MAX_BLOCKS # 0
  BY Sizes, <1>4
<1> QED BY Sizes, <1>4, <1>5 DEF NUM_PAGES, Capacity

(* With the targets apart, the reference update writes the row each batch
   element names and no other. *)
LEMMA ReferencePagedUpdate ==
  ASSUME NEW m, NEW new, NEW tab, NEW pos, NEW n \in Nat \ {0}, Apart(tab, pos),
         NEW p \in Idx(NUM_PAGES), NEW o \in Idx(PAGE_SIZE), NEW h \in Idx(Hkv), NEW d \in Idx(n)
  PROVE  LET e == RowMajor(PAGE_SIZE, Hkv, n, p, o, h, d)
             after == reference_paged_kv_cache_update(m, new, tab, pos, n)[e]
         IN  /\ \A b \in Idx(B) : Target(tab, pos, b) = <<p, o>> =>
                    after = new[RowMajor(1, Hkv, n, b, 0, h, d)]
             /\ (\A b \in Idx(B) : Target(tab, pos, b) # <<p, o>>) => after = m[e]
<1> DEFINE e == RowMajor(PAGE_SIZE, Hkv, n, p, o, h, d)
           target == reference_block_table_lookup(tab, pos)
           writers == {b \in Idx(B) : target[b] = [page |-> p, offset |-> o]}
<1>1. /\ e \in Idx(NUM_PAGES * PAGE_SIZE * Hkv * n) /\ e \div (PAGE_SIZE * Hkv * n) = p
      /\ (e \div (Hkv * n)) % PAGE_SIZE = o /\ (e \div n) % Hkv = h /\ e % n = d
  BY RowMajorIndex, Sizes, BlockSizes
<1>2. reference_paged_kv_cache_update(m, new, tab, pos, n)[e] =
         IF writers = {} THEN m[e] ELSE new[RowMajor(1, Hkv, n, LastWriter(writers), 0, h, d)]
  <2> HIDE DEF e
  <2>1. e = RowMajor(PAGE_SIZE, Hkv, n, p, o, h, d)
    BY DEF e
  <2> QED BY <1>1, <2>1 DEF reference_paged_kv_cache_update, Array
<1>3. \A b \in Idx(B) : b \in writers <=> Target(tab, pos, b) = <<p, o>>
  BY DEF reference_block_table_lookup, Target
<1>4. \A b \in Idx(B) : Target(tab, pos, b) = <<p, o>> => writers = {b}
  BY <1>3 DEF Apart, Target, Idx
<1> HIDE DEF e, writers
<1>5. \A b \in Idx(B) : Target(tab, pos, b) = <<p, o>> => LastWriter(writers) = b
  BY <1>4, LastOfOne
<1>6. writers \subseteq Idx(B)
  BY DEF writers
<1> QED BY <1>2, <1>3, <1>4, <1>5, <1>6 DEF e

(* ... and so does paged_kv_cache_update_kernel. *)
LEMMA KernelPagedUpdate ==
  ASSUME NEW m, NEW new, NEW tab, NEW pos, NEW n \in Nat \ {0}, Apart(tab, pos),
         DOMAIN m = Idx(NUM_PAGES * PAGE_SIZE * Hkv * n), DOMAIN new = Idx(B * 1 * Hkv * n),
         NEW p \in Idx(NUM_PAGES), NEW o \in Idx(PAGE_SIZE), NEW h \in Idx(Hkv), NEW d \in Idx(n)
  PROVE  LET e == RowMajor(PAGE_SIZE, Hkv, n, p, o, h, d)
             after == paged_kv_cache_update_kernel(m, new, tab, pos, n)[e]
         IN  /\ \A b \in Idx(B) : Target(tab, pos, b) = <<p, o>> =>
                    after = new[RowMajor(1, Hkv, n, b, 0, h, d)]
             /\ (\A b \in Idx(B) : Target(tab, pos, b) # <<p, o>>) => after = m[e]
<1> DEFINE e == RowMajor(PAGE_SIZE, Hkv, n, p, o, h, d)
           writers == {b \in Idx(B) :
                /\ p = tab[b * MAX_BLOCKS + pos[b] \div PAGE_SIZE]
                /\ o = pos[b] % PAGE_SIZE}
<1>1. /\ e \in Idx(NUM_PAGES * PAGE_SIZE * Hkv * n) /\ e \div (PAGE_SIZE * Hkv * n) = p
      /\ (e \div (Hkv * n)) % PAGE_SIZE = o /\ (e \div n) % Hkv = h /\ e % n = d
  BY RowMajorIndex, Sizes, BlockSizes
<1>2. PAGE_SIZE * Hkv * n = n * Hkv * PAGE_SIZE /\ Hkv * n = n * Hkv
  BY Sizes
<1>3. paged_kv_cache_update_kernel(m, new, tab, pos, n)[e] =
         IF writers = {} THEN m[e] ELSE At(new, (LastWriter(writers) * Hkv + h) * n + d)
  <2> HIDE DEF e
  <2>1. m[e] = At(m, e)
    BY <1>1 DEF At
  <2> QED BY <1>1, <1>2, <2>1 DEF paged_kv_cache_update_kernel
<1>4. \A b \in Idx(B) : b \in writers <=> Target(tab, pos, b) = <<p, o>>
  BY DEF Target
<1>5. \A b \in Idx(B) : Target(tab, pos, b) = <<p, o>> => writers = {b}
  BY <1>4 DEF Apart, Target, Idx
<1>6. \A b \in Idx(B) : /\ RowMajor(1, Hkv, n, b, 0, h, d) = (b * Hkv + h) * n + d
                        /\ RowMajor(1, Hkv, n, b, 0, h, d) \in Idx(B * 1 * Hkv * n)
  <2> TAKE b \in Idx(B)
  <2>1. RowMajor(1, Hkv, n, b, 0, h, d) = (b * Hkv + h) * n + d
    BY Sizes DEF RowMajor, Idx
  <2>2. RowMajor(1, Hkv, n, b, 0, h, d) \in Idx(B * 1 * Hkv * n)
    <3>1. 0 \in Idx(1) /\ 1 \in Nat \ {0}
      BY DEF Idx
    <3> QED BY <3>1, RowMajorIndex, Sizes
  <2> QED BY <2>1, <2>2
<1> HIDE DEF e, writers
<1>7. \A b \in Idx(B) : Target(tab, pos, b) = <<p, o>> => LastWriter(writers) = b
  BY <1>5, LastOfOne
<1>8. writers \subseteq Idx(B)
  BY DEF writers
<1>9. \A b \in Idx(B) : At(new, (b * Hkv + h) * n + d) = new[RowMajor(1, Hkv, n, b, 0, h, d)]
  BY <1>6 DEF At
<1> QED BY <1>3, <1>4, <1>5, <1>7, <1>8, <1>9 DEF e

------------------------------------------------------------------------------
(* Reads of a contiguous cache and of pages                                 *)

(* The kv head that query head hq reads. *)
HeadOf(hq, heads) == hq \div (heads \div Hkv)

(* The lanes a read of position j collects: contiguous. *)
ContiguousRow(m, n, b, j, h) == [d \in Idx(n) |-> m[RowMajor(MAX_S, Hkv, n, b, j, h, d)]]

(* ... and of pages. *)
PagedRow(m, tab, n, b, j, h) ==
    [d \in Idx(n) |-> m[RowMajor(PAGE_SIZE, Hkv, n, tab[b * MAX_BLOCKS + j \div PAGE_SIZE], j % PAGE_SIZE, h, d)]]

(* A query row names one batch element and one head. *)
LEMMA RowIndex ==
  ASSUME NEW heads \in Nat \ {0}, NEW b \in Idx(B), NEW hq \in Idx(heads)
  PROVE  /\ b * heads + hq \in Idx(B * heads)
         /\ (b * heads + hq) \div heads = b /\ (b * heads + hq) % heads = hq
<1>1. b \in Int /\ B \in Nat
  BY Sizes DEF Idx
<1> QED BY <1>1, DivMod, InProduct

(* Every query head has a kv head. *)
LEMMA HeadInRange ==
  /\ \A hq \in Idx(Hkv) : HeadOf(hq, Hkv) = hq
  /\ \A hq \in Idx(Hq) : HeadOf(hq, Hq) \in Idx(Hkv)
<1>1. ASSUME NEW hq \in Idx(Hkv)
      PROVE  HeadOf(hq, Hkv) = hq
  <2>1. Hkv \div Hkv = 1
    BY Sizes
  <2> QED BY <2>1 DEF HeadOf, Idx
<1>2. ASSUME NEW hq \in Idx(Hq)
      PROVE  HeadOf(hq, Hq) \in Idx(Hkv)
  <2> DEFINE g == Hq \div Hkv
  <2>1. Hq = Hkv * g + (Hq % Hkv) /\ g \in Nat /\ Hq % Hkv = 0
    BY Sizes, KVCacheOpsAssumption
  <2>2. hq \in Nat /\ hq < Hkv * g /\ g \in Nat \ {0}
    BY <2>1, Sizes DEF Idx
  <2> HIDE DEF g
  <2>3. hq = g * (hq \div g) + (hq % g) /\ hq \div g \in Nat /\ hq % g \in Nat
    BY <2>2
  <2>4. hq \div g < Hkv
    BY <2>2, <2>3, Sizes
  <2> QED BY <2>3, <2>4, Sizes DEF HeadOf, Idx, g
<1> QED BY <1>1, <1>2

(* Three ways the code computes one index: of _index, of strides and
   nested. *)
LEMMA ContiguousElement ==
  ASSUME NEW n \in Nat \ {0}, NEW b \in Idx(B), NEW j \in Idx(MAX_S), NEW h \in Idx(Hkv), NEW d \in Idx(n)
  PROVE  LET e == RowMajor(MAX_S, Hkv, n, b, j, h, d)
         IN  /\ e \in Idx(B * MAX_S * Hkv * n)
             /\ e = b * (MAX_S * Hkv * n) + j * (Hkv * n) + h * n + d
             /\ e = ((b * MAX_S + j) * Hkv + h) * n + d
<1>1. RowMajor(MAX_S, Hkv, n, b, j, h, d) \in Idx(B * MAX_S * Hkv * n)
  BY RowMajorIndex, Sizes
<1>2. b \in Nat /\ j \in Nat /\ h \in Nat /\ d \in Nat /\ n \in Nat /\ MAX_S \in Nat /\ Hkv \in Nat
  BY Sizes DEF Idx
<1>3. RowMajor(MAX_S, Hkv, n, b, j, h, d) = b * (MAX_S * Hkv * n) + j * (Hkv * n) + h * n + d
  BY <1>2 DEF RowMajor
<1> QED BY <1>1, <1>3 DEF RowMajor

(* decode_attention reads the rows below the length: the reference. *)
LEMMA ReferenceRead ==
  ASSUME NEW m, NEW len, NEW n \in Nat \ {0}, NEW b \in Idx(B), len[b] \in 1..MAX_S, NEW hq \in Idx(Hkv)
  PROVE  reference_decode_attention(m, len, n)[b * Hkv + hq] =
             [j \in Idx(len[b]) |-> ContiguousRow(m, n, b, j, hq)]
  BY RowIndex, Sizes DEF reference_decode_attention, Masked, ContiguousRow

(* ... and the four kernels, each with its own index arithmetic. *)
LEMMA LoopRead ==
  ASSUME NEW m, NEW len, NEW n \in Nat \ {0}, DOMAIN m = Idx(B * MAX_S * Hkv * n),
         NEW b \in Idx(B), len[b] \in 1..MAX_S, NEW hq \in Idx(Hkv)
  PROVE  LET read == [j \in Idx(len[b]) |-> ContiguousRow(m, n, b, j, hq)]
             row == b * Hkv + hq
         IN  /\ decode_attention_optimized(m, len, n)[row] = read
             /\ decode_attention_threadgroup(m, len, n)[row] = read
             /\ decode_attention_d64(m, len, n)[row] = read
             /\ decode_attention_d128(m, len, n)[row] = read
<1> DEFINE row == b * Hkv + hq
           read == [j \in Idx(len[b]) |-> ContiguousRow(m, n, b, j, hq)]
<1>1. row \in Idx(B * Hkv) /\ row \div Hkv = b /\ row % Hkv = hq
  BY RowIndex, Sizes
<1>2. \A j \in Idx(len[b]), d \in Idx(n) :
        /\ m[RowMajor(MAX_S, Hkv, n, b, j, hq, d)] = At(m, b * (MAX_S * Hkv * n) + j * (Hkv * n) + hq * n + d)
        /\ m[RowMajor(MAX_S, Hkv, n, b, j, hq, d)] = At(m, ((b * MAX_S + j) * Hkv + hq) * n + d)
  <2> TAKE j \in Idx(len[b]), d \in Idx(n)
  <2>1. j \in Idx(MAX_S)
    BY Sizes DEF Idx
  <2> QED BY <2>1, ContiguousElement DEF At
<1> HIDE DEF row
<1>3. decode_attention_optimized(m, len, n)[row] = read
  BY <1>1, <1>2 DEF decode_attention_optimized, Loop, ContiguousRow
<1>4. decode_attention_threadgroup(m, len, n)[row] = read
  BY <1>1, <1>2 DEF decode_attention_threadgroup, Loop, ContiguousRow
<1>5. decode_attention_d64(m, len, n)[row] = read
  BY <1>1, <1>2 DEF decode_attention_d64, Loop, ContiguousRow
<1>6. decode_attention_d128(m, len, n)[row] = read
  BY <1>1, <1>2 DEF decode_attention_d128, Loop, ContiguousRow
<1> QED BY <1>3, <1>4, <1>5, <1>6 DEF row

(* ... and the grouped-query reference, through the group of its head. *)
LEMMA GroupedRead ==
  ASSUME NEW m, NEW len, NEW n \in Nat \ {0}, NEW b \in Idx(B), len[b] \in 1..MAX_S, NEW hq \in Idx(Hq)
  PROVE  reference_gqa_decode_attention(m, len, n, MAX_S)[b * Hq + hq] =
             [j \in Idx(len[b]) |-> ContiguousRow(m, n, b, j, HeadOf(hq, Hq))]
  BY RowIndex, Sizes DEF reference_gqa_decode_attention, Masked, ContiguousRow, q_head_to_kv_head, HeadOf

(* The same three indices for pages: p is the page of a position, o its
   place there. *)
LEMMA PagedElement ==
  ASSUME NEW n \in Nat \ {0}, NEW p \in Idx(NUM_PAGES), NEW o \in Idx(PAGE_SIZE), NEW h \in Idx(Hkv), NEW d \in Idx(n)
  PROVE  LET e == RowMajor(PAGE_SIZE, Hkv, n, p, o, h, d)
         IN  /\ e \in Idx(NUM_PAGES * PAGE_SIZE * Hkv * n)
             /\ e = p * (PAGE_SIZE * Hkv * n) + o * (Hkv * n) + h * n + d
             /\ e = ((p * PAGE_SIZE + o) * Hkv + h) * n + d
<1>1. RowMajor(PAGE_SIZE, Hkv, n, p, o, h, d) \in Idx(NUM_PAGES * PAGE_SIZE * Hkv * n)
  BY RowMajorIndex, Sizes, BlockSizes
<1>2. p \in Nat /\ o \in Nat /\ h \in Nat /\ d \in Nat /\ n \in Nat /\ PAGE_SIZE \in Nat /\ Hkv \in Nat
  BY Sizes, BlockSizes DEF Idx
<1>3. RowMajor(PAGE_SIZE, Hkv, n, p, o, h, d) = p * (PAGE_SIZE * Hkv * n) + o * (Hkv * n) + h * n + d
  BY <1>2 DEF RowMajor
<1> QED BY <1>1, <1>3 DEF RowMajor

(* The page of position j of b, -1 when it has none. *)
PageAt(tab, b, j) == tab[b * MAX_BLOCKS + j \div PAGE_SIZE]

(* The positions below n all have a page. *)
HasPages(tab, b, n) == \A j \in Idx(n) : PageAt(tab, b, j) \in Idx(NUM_PAGES)

(* A position has a place in its page. *)
LEMMA OffsetInRange ==
  \A j \in Int : j % PAGE_SIZE \in Idx(PAGE_SIZE)
  BY Sizes DEF Idx

(* What the paged reference gathers from the pages is what is stored there. *)
LEMMA GatheredElement ==
  ASSUME NEW m, NEW tab, NEW n \in Nat \ {0}, NEW b \in Idx(B), NEW j \in Idx(Capacity), NEW h \in Idx(Hkv),
         NEW d \in Idx(n)
  PROVE  Gathered(m, tab, n)[RowMajor(Capacity, Hkv, n, b, j, h, d)] =
             m[RowMajor(PAGE_SIZE, Hkv, n, tab[b * MAX_BLOCKS + j \div PAGE_SIZE], j % PAGE_SIZE, h, d)]
<1> DEFINE e == RowMajor(Capacity, Hkv, n, b, j, h, d)
<1>1. /\ e \in Idx(B * Capacity * Hkv * n) /\ e \div (Capacity * Hkv * n) = b
      /\ (e \div (Hkv * n)) % Capacity = j /\ (e \div n) % Hkv = h /\ e % n = d
  BY RowMajorIndex, Sizes, BlockSizes
<1> HIDE DEF e
<1>2. Gathered(m, tab, n)[e] =
        m[RowMajor(PAGE_SIZE, Hkv, n, tab[b * MAX_BLOCKS + j \div PAGE_SIZE], j % PAGE_SIZE, h, d)]
  BY <1>1 DEF Gathered, Array
<1> QED BY <1>2 DEF e

(* The paged reference reads the rows below the length. *)
LEMMA ReferencePagedRead ==
  ASSUME NEW m, NEW tab, NEW len, NEW n \in Nat \ {0}, NEW b \in Idx(B), len[b] \in 1..Capacity, NEW hq \in Idx(Hkv)
  PROVE  reference_paged_decode_attention(m, tab, len, n)[b * Hkv + hq] =
             [j \in Idx(len[b]) |-> PagedRow(m, tab, n, b, j, hq)]
<1> DEFINE G == Gathered(m, tab, n)
<1>1. Idx(len[b]) \subseteq Idx(Capacity)
  BY BlockSizes DEF Idx
<1>2. \A j \in Idx(len[b]), d \in Idx(n) : G[RowMajor(Capacity, Hkv, n, b, j, hq, d)] =
          m[RowMajor(PAGE_SIZE, Hkv, n, tab[b * MAX_BLOCKS + j \div PAGE_SIZE], j % PAGE_SIZE, hq, d)]
  BY <1>1, GatheredElement
<1> HIDE DEF G
<1>3. reference_paged_decode_attention(m, tab, len, n)[b * Hkv + hq] =
         [j \in Idx(len[b]) |-> [d \in Idx(n) |-> G[RowMajor(Capacity, Hkv, n, b, j, hq, d)]]]
  BY RowIndex, Sizes DEF reference_paged_decode_attention, Masked, G
<1> QED BY <1>2, <1>3 DEF PagedRow

(* ... the grouped-query one too. *)
LEMMA GroupedPagedRead ==
  ASSUME NEW m, NEW tab, NEW len, NEW n \in Nat \ {0}, NEW b \in Idx(B), len[b] \in 1..Capacity, NEW hq \in Idx(Hq)
  PROVE  reference_paged_gqa_decode_attention(m, tab, len, n)[b * Hq + hq] =
             [j \in Idx(len[b]) |-> PagedRow(m, tab, n, b, j, HeadOf(hq, Hq))]
<1> DEFINE G == Gathered(m, tab, n)
           h == HeadOf(hq, Hq)
<1>1. Idx(len[b]) \subseteq Idx(Capacity) /\ h \in Idx(Hkv)
  BY BlockSizes, HeadInRange DEF Idx
<1>2. \A j \in Idx(len[b]), d \in Idx(n) : G[RowMajor(Capacity, Hkv, n, b, j, h, d)] =
          m[RowMajor(PAGE_SIZE, Hkv, n, tab[b * MAX_BLOCKS + j \div PAGE_SIZE], j % PAGE_SIZE, h, d)]
  <2> HIDE DEF h
  <2> QED BY <1>1, GatheredElement
<1> HIDE DEF G
<1>3. reference_paged_gqa_decode_attention(m, tab, len, n)[b * Hq + hq] =
         [j \in Idx(len[b]) |-> [d \in Idx(n) |-> G[RowMajor(Capacity, Hkv, n, b, j, h, d)]]]
  BY RowIndex, Sizes DEF reference_paged_gqa_decode_attention, reference_gqa_decode_attention,
                         Masked, q_head_to_kv_head, HeadOf, G
<1> HIDE DEF h
<1>4. reference_paged_gqa_decode_attention(m, tab, len, n)[b * Hq + hq] =
         [j \in Idx(len[b]) |-> PagedRow(m, tab, n, b, j, h)]
  BY <1>2, <1>3 DEF PagedRow
<1> QED BY <1>4 DEF h

(* ... and the four paged kernels, when the positions have pages. *)
LEMMA PagedLoopRead ==
  ASSUME NEW m, NEW tab, NEW len, NEW n \in Nat \ {0}, DOMAIN m = Idx(NUM_PAGES * PAGE_SIZE * Hkv * n),
         NEW b \in Idx(B), len[b] \in Nat, HasPages(tab, b, len[b]), NEW hq \in Idx(Hkv)
  PROVE  LET read == [j \in Idx(len[b]) |-> PagedRow(m, tab, n, b, j, hq)]
             row == b * Hkv + hq
         IN  /\ paged_decode_attention_kernel(m, tab, len, n)[row] = read
             /\ paged_decode_attention_threadgroup(m, tab, len, n)[row] = read
             /\ paged_decode_attention_d64(m, tab, len, n)[row] = read
             /\ paged_decode_attention_d128(m, tab, len, n)[row] = read
<1> DEFINE row == b * Hkv + hq
           read == [j \in Idx(len[b]) |-> PagedRow(m, tab, n, b, j, hq)]
<1>1. row \in Idx(B * Hkv) /\ row \div Hkv = b /\ row % Hkv = hq
  BY RowIndex, Sizes
<1> HIDE DEF row
<1>2. \A j \in Idx(len[b]), d \in Idx(n) : At(m, PagedBase(tab, row, j, n) + d) =
          m[RowMajor(PAGE_SIZE, Hkv, n, tab[b * MAX_BLOCKS + j \div PAGE_SIZE], j % PAGE_SIZE, hq, d)]
  <2> TAKE j \in Idx(len[b]), d \in Idx(n)
  <2> DEFINE p == tab[b * MAX_BLOCKS + j \div PAGE_SIZE]
             o == j % PAGE_SIZE
  <2>1. p \in Idx(NUM_PAGES) /\ o \in Idx(PAGE_SIZE)
    <3>1. j \in Int
      BY DEF Idx
    <3> QED BY <3>1, OffsetInRange DEF HasPages, PageAt
  <2>2. PagedBase(tab, row, j, n) = ((p * PAGE_SIZE + o) * Hkv + hq) * n
    BY <1>1 DEF PagedBase
  <2> HIDE DEF p, o
  <2>3. /\ RowMajor(PAGE_SIZE, Hkv, n, p, o, hq, d) \in Idx(NUM_PAGES * PAGE_SIZE * Hkv * n)
        /\ RowMajor(PAGE_SIZE, Hkv, n, p, o, hq, d) = ((p * PAGE_SIZE + o) * Hkv + hq) * n + d
    BY <2>1, PagedElement
  <2>4. At(m, PagedBase(tab, row, j, n) + d) = m[RowMajor(PAGE_SIZE, Hkv, n, p, o, hq, d)]
    BY <2>2, <2>3 DEF At
  <2> QED BY <2>4 DEF p, o
<1>3. Loop(m, len[b], n, LAMBDA j : PagedBase(tab, row, j, n)) = read
  BY <1>2 DEF Loop, PagedRow
<1>4. paged_decode_attention_kernel(m, tab, len, n)[row] = read
  BY <1>1, <1>2 DEF paged_decode_attention_kernel, Loop, PagedRow
<1>5. paged_decode_attention_threadgroup(m, tab, len, n)[row] = read
  BY <1>1, <1>2 DEF paged_decode_attention_threadgroup, Loop, PagedRow
<1>6. paged_decode_attention_d64(m, tab, len, n)[row] = read
  BY <1>1, <1>2 DEF paged_decode_attention_d64, Loop, PagedRow
<1>7. paged_decode_attention_d128(m, tab, len, n)[row] = read
  BY <1>1, <1>2 DEF paged_decode_attention_d128, Loop, PagedRow
<1> QED BY <1>4, <1>5, <1>6, <1>7 DEF row

------------------------------------------------------------------------------
(* Quantization: eight bits                                                 *)

(* The row of a position nothing was written to. *)
NoRow == <<0, 0>>

(* A row: none, or the step that wrote it and its rotation. *)
IsRow(row) == row = NoRow \/ row \in (Nat \ {0}) \X Nat

(* What lane d of head h of batch element b holds of a row. *)
Place(row, b, h, d) == IF row = NoRow THEN Zero ELSE <<row[1], row[2], b, h, d>>

(* A lane is in a group, and the group's first lane is in the head. *)
LEMMA Groups ==
  ASSUME NEW n \in Nat \ {0}, NEW d \in Idx(n)
  PROVE  /\ groups_per_head(n) \in Nat \ {0} /\ d \div group_size \in Idx(groups_per_head(n))
         /\ (d \div group_size) * group_size \in Idx(n)
         /\ ((d \div group_size) * group_size) \div group_size = d \div group_size
<1> DEFINE x == n + group_size - 1
           q == x \div group_size
           g == d \div group_size
<1>1. d \in Nat /\ d < n /\ group_size \in Nat \ {0}
  BY Sizes DEF Idx
<1>2. d = group_size * g + (d % group_size) /\ g \in Nat /\ d % group_size \in 0..group_size - 1
  BY <1>1
<1>3. x \in Nat /\ x = group_size * q + (x % group_size) /\ q \in Nat /\ x % group_size \in 0..group_size - 1
  BY <1>1
<1>4. groups_per_head(n) = q
  BY DEF groups_per_head, CeilDiv
<1> HIDE DEF g, q
<1>5. group_size * q >= n
  BY <1>1, <1>3
<1>6. g < q
  BY <1>1, <1>2, <1>3, <1>5
<1>7. g * group_size \in Idx(n)
  BY <1>1, <1>2 DEF Idx
<1>8. (g * group_size) \div group_size = g
  <2>1. 0 \in Idx(group_size)
    BY <1>1 DEF Idx
  <2>2. (g * group_size + 0) \div group_size = g
    BY <1>1, <1>2, <2>1, DivMod
  <2> QED BY <1>1, <1>2, <2>2
<1> QED BY <1>2, <1>3, <1>4, <1>6, <1>7, <1>8 DEF Idx, g

(* A lane quantized with the scale of its group comes back. *)
LEMMA DequantizedPlace ==
  ASSUME NEW row, IsRow(row), NEW b, NEW h, NEW d \in Nat, NEW c \in Nat, c \div group_size = d \div group_size
  PROVE  Dequantized(Place(row, b, h, d), ScaleOf(Place(row, b, h, c))) = Place(row, b, h, d)
<1>1. CASE row = NoRow
  BY <1>1 DEF Dequantized, Place, ScaleOf
<1>2. CASE row # NoRow
  <2>1. row[1] \in Nat \ {0}
    BY <1>2 DEF IsRow
  <2>2. Place(row, b, h, d) # Zero /\ Place(row, b, h, c) # Zero
    BY <1>2, <2>1 DEF Place, Zero
  <2>3. /\ ScaleOf(Place(row, b, h, c)) = <<row[1], row[2], b, h, c \div group_size>>
        /\ ScaleOf(Place(row, b, h, d)) = <<row[1], row[2], b, h, d \div group_size>>
    BY <1>2, <2>2 DEF ScaleOf, Place
  <2>4. ScaleOf(Place(row, b, h, c)) # Zero
    BY <2>1, <2>3 DEF Zero
  <2> QED BY <2>2, <2>3, <2>4 DEF Dequantized
<1> QED BY <1>1, <1>2

(* So does an unwritten one. *)
LEMMA DequantizedZero == Dequantized(Zero, Zero) = Zero
  BY DEF Dequantized

(* The scale quantize_8 stores for a group is that of its lanes. *)
LEMMA QuantizedScale ==
  ASSUME NEW m, NEW kept, NEW n1 \in Nat \ {0}, NEW n2 \in Nat \ {0}, NEW n \in Nat \ {0},
         NEW i \in Idx(n1), NEW s \in Idx(n2), NEW h \in Idx(Hkv), NEW d \in Idx(n)
  PROVE  quantize_8(m, n1, n2, kept, n).scales[RowMajor(n2, Hkv, groups_per_head(n), i, s, h, d \div group_size)] =
            IF <<i, s>> \in kept
            THEN ScaleOf(m[RowMajor(n2, Hkv, n, i, s, h, (d \div group_size) * group_size)]) ELSE Zero
<1> DEFINE gph == groups_per_head(n)
           g == d \div group_size
           e == RowMajor(n2, Hkv, gph, i, s, h, g)
<1>1. gph \in Nat \ {0} /\ g \in Idx(gph)
  BY Groups
<1> HIDE DEF gph, g
<1>2. /\ e \in Idx(n1 * n2 * Hkv * gph) /\ e \div (n2 * Hkv * gph) = i
      /\ (e \div (Hkv * gph)) % n2 = s /\ (e \div gph) % Hkv = h /\ e % gph = g
  BY <1>1, RowMajorIndex, Sizes
<1> HIDE DEF e
<1>3. quantize_8(m, n1, n2, kept, n).scales[e] =
            IF <<i, s>> \in kept THEN ScaleOf(m[RowMajor(n2, Hkv, n, i, s, h, g * group_size)]) ELSE Zero
  BY <1>2 DEF quantize_8, Array, gph
<1> QED BY <1>3 DEF e, gph, g

(* Reading back what quantize_8 stored gives the lane of every row kept. *)
LEMMA Quantized8 ==
  ASSUME NEW m, NEW kept, NEW n1 \in Nat \ {0}, NEW n2 \in Nat \ {0}, NEW n \in Nat \ {0},
         NEW i \in Idx(n1), NEW s \in Idx(n2), NEW h \in Idx(Hkv), NEW d \in Idx(n),
         NEW row, IsRow(row), NEW b,
         \A x \in Idx(n) : m[RowMajor(n2, Hkv, n, i, s, h, x)] = Place(row, b, h, x)
  PROVE  DequantizedLane(quantize_8(m, n1, n2, kept, n), 8, n2, n, i, s, h, d) =
            IF <<i, s>> \in kept THEN Place(row, b, h, d) ELSE Zero
<1> DEFINE e == RowMajor(n2, Hkv, n, i, s, h, d)
           Q8 == quantize_8(m, n1, n2, kept, n)
           c == (d \div group_size) * group_size
           scale == Q8.scales[RowMajor(n2, Hkv, groups_per_head(n), i, s, h, d \div group_size)]
<1>1. /\ e \in Idx(n1 * n2 * Hkv * n) /\ e \div (n2 * Hkv * n) = i
      /\ (e \div (Hkv * n)) % n2 = s /\ (e \div n) % Hkv = h /\ e % n = d
  BY RowMajorIndex, Sizes
<1>2. Q8.q[e] = IF <<i, s>> \in kept THEN m[e] ELSE Zero
  <2>1. e = RowMajor(n2, Hkv, n, i, s, h, d)
    OBVIOUS
  <2> HIDE DEF e
  <2> QED BY <1>1, <2>1 DEF quantize_8, Array
<1>3. scale = IF <<i, s>> \in kept THEN ScaleOf(m[RowMajor(n2, Hkv, n, i, s, h, c)]) ELSE Zero
  BY QuantizedScale
<1>4. c \in Idx(n) /\ c \div group_size = d \div group_size /\ c \in Nat /\ d \in Nat
  <2>1. c \in Idx(n) /\ c \div group_size = d \div group_size
    BY Groups
  <2> QED BY <2>1 DEF Idx
<1> HIDE DEF c, scale, e, Q8
<1>5. DequantizedLane(Q8, 8, n2, n, i, s, h, d) = Dequantized(Q8.q[e], scale)
  BY DEF DequantizedLane, scale, e
<1>6. m[e] = Place(row, b, h, d) /\ m[RowMajor(n2, Hkv, n, i, s, h, c)] = Place(row, b, h, c)
  BY <1>4 DEF e
<1> QED BY <1>2, <1>3, <1>4, <1>5, <1>6, DequantizedPlace, DequantizedZero DEF Q8

------------------------------------------------------------------------------
(* Quantization: four bits, and quantized reads                             *)

(* A lane is in one of the two halves of a byte. *)
LEMMA Bytes ==
  ASSUME NEW n \in Nat \ {0}, NEW d \in Idx(n)
  PROVE  /\ D_packed(n) \in Nat \ {0} /\ d \div 2 \in Idx(D_packed(n))
         /\ d % 2 = 0 => 2 * (d \div 2) = d
         /\ d % 2 # 0 => 2 * (d \div 2) + 1 = d /\ 2 * (d \div 2) + 1 < n
  BY DEF Idx, D_packed

(* Lane d of the packed bytes of a row. *)
Unpacked(q, n2, n, i, s, h, d) ==
    unpack_q4([x \in Idx(D_packed(n)) |-> q[RowMajor(n2, Hkv, D_packed(n), i, s, h, x)]], d)

(* Packing two lanes in a byte loses neither: reading back what quantize_4
   stored gives the lane of every row kept. *)
LEMMA Quantized4 ==
  ASSUME NEW m, NEW kept, NEW n1 \in Nat \ {0}, NEW n2 \in Nat \ {0}, NEW n \in Nat \ {0},
         NEW i \in Idx(n1), NEW s \in Idx(n2), NEW h \in Idx(Hkv), NEW d \in Idx(n),
         NEW row, IsRow(row), NEW b,
         \A x \in Idx(n) : m[RowMajor(n2, Hkv, n, i, s, h, x)] = Place(row, b, h, x)
  PROVE  DequantizedLane(quantize_4(m, n1, n2, kept, n), 4, n2, n, i, s, h, d) =
            IF <<i, s>> \in kept THEN Place(row, b, h, d) ELSE Zero
<1> DEFINE Q4 == quantize_4(m, n1, n2, kept, n)
           c == (d \div group_size) * group_size
           scale == Q4.scales[RowMajor(n2, Hkv, groups_per_head(n), i, s, h, d \div group_size)]
           lane == Unpacked(Q4.q, n2, n, i, s, h, d)
           lanes == [x \in Idx(n) |-> m[RowMajor(n2, Hkv, n, i, s, h, x)]]
<1>1. lane = IF <<i, s>> \in kept THEN m[RowMajor(n2, Hkv, n, i, s, h, d)] ELSE Zero
  <2> DEFINE Dp == D_packed(n)
             y == d \div 2
             e == RowMajor(n2, Hkv, Dp, i, s, h, y)
             byte == Q4.q[e]
  <2>1. /\ Dp \in Nat \ {0} /\ y \in Idx(Dp)
        /\ d % 2 = 0 => 2 * y = d
        /\ d % 2 # 0 => 2 * y + 1 = d /\ 2 * y + 1 < n
    BY Bytes
  <2> HIDE DEF Dp, y
  <2>2. /\ e \in Idx(n1 * n2 * Hkv * Dp) /\ e \div (n2 * Hkv * Dp) = i
        /\ (e \div (Hkv * Dp)) % n2 = s /\ (e \div Dp) % Hkv = h /\ e % Dp = y
    BY <2>1, RowMajorIndex, Sizes
  <2>3. byte = IF <<i, s>> \in kept THEN pack_q4(lanes, y, n) ELSE [low |-> Zero, high |-> Zero]
    <3> HIDE DEF e
    <3> QED BY <2>2 DEF quantize_4, Array, Dp
  <2>4. lane = IF d % 2 = 0 THEN byte.low ELSE byte.high
    <3> HIDE DEF Q4
    <3> QED BY <2>1 DEF unpack_q4, Unpacked, Dp, y
  <2>5. lanes[d] = m[RowMajor(n2, Hkv, n, i, s, h, d)]
    OBVIOUS
  <2> HIDE DEF lanes, lane, byte, e, Q4
  <2>6. (IF d % 2 = 0 THEN byte.low ELSE byte.high) = IF <<i, s>> \in kept THEN lanes[d] ELSE Zero
    BY <2>1, <2>3 DEF pack_q4
  <2> QED BY <2>4, <2>5, <2>6
<1>2. Q4.scales = quantize_8(m, n1, n2, kept, n).scales
  BY DEF quantize_4
<1>3. scale = IF <<i, s>> \in kept THEN ScaleOf(m[RowMajor(n2, Hkv, n, i, s, h, c)]) ELSE Zero
  <2>1. scale = quantize_8(m, n1, n2, kept, n).scales[RowMajor(n2, Hkv, groups_per_head(n), i, s, h, d \div group_size)]
    BY <1>2
  <2> HIDE DEF scale
  <2> QED BY <2>1, QuantizedScale
<1>4. c \in Idx(n) /\ c \div group_size = d \div group_size /\ c \in Nat /\ d \in Nat
  <2>1. c \in Idx(n) /\ c \div group_size = d \div group_size
    BY Groups
  <2> QED BY <2>1 DEF Idx
<1> HIDE DEF c, scale, lane, Q4
<1>5. DequantizedLane(Q4, 4, n2, n, i, s, h, d) = Dequantized(lane, scale)
  BY DEF DequantizedLane, Unpacked, scale, lane
<1>6. m[RowMajor(n2, Hkv, n, i, s, h, d)] = Place(row, b, h, d) /\ m[RowMajor(n2, Hkv, n, i, s, h, c)] = Place(row, b, h, c)
  BY <1>4
<1> QED BY <1>1, <1>3, <1>4, <1>5, <1>6, DequantizedPlace, DequantizedZero DEF Q4

(* What a quantized array of n1 * n2 rows is, as far as reads need it. *)
IsQuantized(q, w, n1, n2, n) ==
  /\ DOMAIN q.q = Idx(n1 * n2 * Hkv * (IF w = 8 THEN n ELSE D_packed(n)))
  /\ DOMAIN q.scales = Idx(n1 * n2 * Hkv * groups_per_head(n))

(* Quantizing gives such arrays. *)
LEMMA QuantizedDomains ==
  ASSUME NEW m, NEW kept, NEW n1, NEW n2, NEW n
  PROVE  /\ IsQuantized(quantize_8(m, n1, n2, kept, n), 8, n1, n2, n)
         /\ IsQuantized(quantize_4(m, n1, n2, kept, n), 4, n1, n2, n)
  BY DEF quantize_8, quantize_4, Array, IsQuantized

(* Dequantizing an array reads every lane of it. *)
LEMMA DequantizedElement ==
  ASSUME NEW q, NEW w, NEW n \in Nat \ {0}, NEW h \in Idx(Hkv), NEW d \in Idx(n)
  PROVE  /\ \A b \in Idx(B), s \in Idx(MAX_S) :
              dequantize_kv_cache(q, w, n)[RowMajor(MAX_S, Hkv, n, b, s, h, d)] =
                  DequantizedLane(q, w, MAX_S, n, b, s, h, d)
         /\ \A p \in Idx(NUM_PAGES), o \in Idx(PAGE_SIZE) :
              dequantize_kv_pages(q, w, n)[RowMajor(PAGE_SIZE, Hkv, n, p, o, h, d)] =
                  DequantizedLane(q, w, PAGE_SIZE, n, p, o, h, d)
<1>1. ASSUME NEW b \in Idx(B), NEW s \in Idx(MAX_S)
      PROVE  dequantize_kv_cache(q, w, n)[RowMajor(MAX_S, Hkv, n, b, s, h, d)] =
                  DequantizedLane(q, w, MAX_S, n, b, s, h, d)
  <2> DEFINE e == RowMajor(MAX_S, Hkv, n, b, s, h, d)
  <2>1. /\ e \in Idx(B * MAX_S * Hkv * n) /\ e \div (MAX_S * Hkv * n) = b
        /\ (e \div (Hkv * n)) % MAX_S = s /\ (e \div n) % Hkv = h /\ e % n = d
    BY RowMajorIndex, Sizes
  <2> HIDE DEF e
  <2>2. dequantize_kv_cache(q, w, n)[e] = DequantizedLane(q, w, MAX_S, n, b, s, h, d)
    BY <2>1 DEF dequantize_kv_cache, Array
  <2> QED BY <2>2 DEF e
<1>2. ASSUME NEW p \in Idx(NUM_PAGES), NEW o \in Idx(PAGE_SIZE)
      PROVE  dequantize_kv_pages(q, w, n)[RowMajor(PAGE_SIZE, Hkv, n, p, o, h, d)] =
                  DequantizedLane(q, w, PAGE_SIZE, n, p, o, h, d)
  <2> DEFINE e == RowMajor(PAGE_SIZE, Hkv, n, p, o, h, d)
  <2>1. /\ e \in Idx(NUM_PAGES * PAGE_SIZE * Hkv * n) /\ e \div (PAGE_SIZE * Hkv * n) = p
        /\ (e \div (Hkv * n)) % PAGE_SIZE = o /\ (e \div n) % Hkv = h /\ e % n = d
    BY RowMajorIndex, Sizes, BlockSizes
  <2> HIDE DEF e
  <2>2. dequantize_kv_pages(q, w, n)[e] = DequantizedLane(q, w, PAGE_SIZE, n, p, o, h, d)
    BY <2>1 DEF dequantize_kv_pages, Array
  <2> QED BY <2>2 DEF e
<1> QED BY <1>1, <1>2

(* The lanes a read of a quantized position collects. *)
QuantizedRow(q, w, n, b, j, h) == [d \in Idx(n) |-> DequantizedLane(q, w, MAX_S, n, b, j, h, d)]

(* ... and of quantized pages. *)
PagedQuantizedRow(q, w, tab, n, b, j, h) ==
    [d \in Idx(n) |-> DequantizedLane(q, w, PAGE_SIZE, n, PageAt(tab, b, j), j % PAGE_SIZE, h, d)]

(* The quantized reference reads the rows below the length. *)
LEMMA ReferenceQuantizedRead ==
  ASSUME NEW q, NEW w, NEW len, NEW n \in Nat \ {0}, NEW b \in Idx(B), len[b] \in 1..MAX_S, NEW hq \in Idx(Hq)
  PROVE  reference_quantized_kv_gqa_decode_attention(q, w, len, n)[b * Hq + hq] =
             [j \in Idx(len[b]) |-> QuantizedRow(q, w, n, b, j, HeadOf(hq, Hq))]
<1> DEFINE h == HeadOf(hq, Hq)
<1>1. Idx(len[b]) \subseteq Idx(MAX_S) /\ h \in Idx(Hkv)
  BY Sizes, HeadInRange DEF Idx
<1>2. reference_quantized_kv_gqa_decode_attention(q, w, len, n)[b * Hq + hq] =
         [j \in Idx(len[b]) |-> ContiguousRow(dequantize_kv_cache(q, w, n), n, b, j, h)]
  BY GroupedRead DEF reference_quantized_kv_gqa_decode_attention
<1> HIDE DEF h
<1>3. \A j \in Idx(len[b]) : ContiguousRow(dequantize_kv_cache(q, w, n), n, b, j, h) = QuantizedRow(q, w, n, b, j, h)
  BY <1>1, DequantizedElement DEF ContiguousRow, QuantizedRow
<1> QED BY <1>2, <1>3 DEF h

(* ... and the kernel of eight bits. *)
LEMMA Q8Read ==
  ASSUME NEW q, NEW len, NEW n \in Nat \ {0}, NEW b \in Idx(B), len[b] \in 1..MAX_S, NEW hq \in Idx(Hq),
         IsQuantized(q, 8, B, MAX_S, n)
  PROVE  q8_gqa_decode_attention_kernel(q, len, n)[b * Hq + hq] =
             [j \in Idx(len[b]) |-> QuantizedRow(q, 8, n, b, j, HeadOf(hq, Hq))]
<1> DEFINE h == HeadOf(hq, Hq)
           row == b * Hq + hq
           gph == groups_per_head(n)
           kv(j) == b * (MAX_S * Hkv * n) + j * (Hkv * n) + h * n
           sc(j) == b * (MAX_S * Hkv * gph) + j * (Hkv * gph) + h * gph
<1>1. Idx(len[b]) \subseteq Idx(MAX_S) /\ h \in Idx(Hkv)
  BY Sizes, HeadInRange DEF Idx
<1>2. row \in Idx(B * Hq) /\ row \div Hq = b /\ row % Hq = hq
  BY RowIndex, Sizes
<1> HIDE DEF row
<1>3. q8_gqa_decode_attention_kernel(q, len, n)[row] =
        [j \in Idx(len[b]) |-> [d \in Idx(n) |->
            Dequantized(At(q.q, kv(j) + d), At(q.scales, sc(j) + d \div group_size))]]
  BY <1>2 DEF q8_gqa_decode_attention_kernel, HeadOf
<1> HIDE DEF h
<1>4. ASSUME NEW j \in Idx(len[b]), NEW d \in Idx(n)
      PROVE  Dequantized(At(q.q, kv(j) + d), At(q.scales, sc(j) + d \div group_size)) =
             DequantizedLane(q, 8, MAX_S, n, b, j, h, d)
  <2> DEFINE g == d \div group_size
  <2>1. gph \in Nat \ {0} /\ g \in Idx(gph)
    BY Groups
  <2> HIDE DEF gph, g
  <2>2. /\ RowMajor(MAX_S, Hkv, n, b, j, h, d) \in Idx(B * MAX_S * Hkv * n)
        /\ RowMajor(MAX_S, Hkv, n, b, j, h, d) = kv(j) + d
    BY <1>1, ContiguousElement
  <2>3. /\ RowMajor(MAX_S, Hkv, gph, b, j, h, g) \in Idx(B * MAX_S * Hkv * gph)
        /\ RowMajor(MAX_S, Hkv, gph, b, j, h, g) = sc(j) + g
    BY <1>1, <2>1, ContiguousElement
  <2>4. DequantizedLane(q, 8, MAX_S, n, b, j, h, d) =
           Dequantized(q.q[RowMajor(MAX_S, Hkv, n, b, j, h, d)], q.scales[RowMajor(MAX_S, Hkv, gph, b, j, h, g)])
    BY DEF DequantizedLane, gph, g
  <2> HIDE DEF kv, sc
  <2>5. At(q.q, kv(j) + d) = q.q[RowMajor(MAX_S, Hkv, n, b, j, h, d)]
    BY <2>2 DEF At, IsQuantized
  <2>6. At(q.scales, sc(j) + g) = q.scales[RowMajor(MAX_S, Hkv, gph, b, j, h, g)]
    BY <2>3 DEF At, IsQuantized, gph
  <2> QED BY <2>4, <2>5, <2>6 DEF g
<1> HIDE DEF kv, sc
<1> QED BY <1>3, <1>4 DEF QuantizedRow, h, row

(* ... and of four. *)
LEMMA Q4Read ==
  ASSUME NEW q, NEW len, NEW n \in Nat \ {0}, NEW b \in Idx(B), len[b] \in 1..MAX_S, NEW hq \in Idx(Hq),
         IsQuantized(q, 4, B, MAX_S, n)
  PROVE  q4_gqa_decode_attention_kernel(q, len, n)[b * Hq + hq] =
             [j \in Idx(len[b]) |-> QuantizedRow(q, 4, n, b, j, HeadOf(hq, Hq))]
<1> DEFINE h == HeadOf(hq, Hq)
           row == b * Hq + hq
           gph == groups_per_head(n)
           Dp == D_packed(n)
           kv(j) == b * (MAX_S * Hkv * Dp) + j * (Hkv * Dp) + h * Dp
           sc(j) == b * (MAX_S * Hkv * gph) + j * (Hkv * gph) + h * gph
           byte(j) == [i \in Idx(Dp) |-> q.q[kv(j) + i]]
<1>1. Idx(len[b]) \subseteq Idx(MAX_S) /\ h \in Idx(Hkv) /\ Dp \in Nat \ {0}
  <2>1. 0 \in Idx(n)
    BY DEF Idx
  <2> QED BY Sizes, HeadInRange, <2>1, Bytes DEF Idx
<1>2. row \in Idx(B * Hq) /\ row \div Hq = b /\ row % Hq = hq
  BY RowIndex, Sizes
<1> HIDE DEF row
<1>3. q4_gqa_decode_attention_kernel(q, len, n)[row] =
        [j \in Idx(len[b]) |-> [d \in Idx(n) |->
            Dequantized(unpack_q4(byte(j), d), At(q.scales, sc(j) + d \div group_size))]]
  BY <1>2 DEF q4_gqa_decode_attention_kernel, HeadOf
<1> HIDE DEF h
<1>4. ASSUME NEW j \in Idx(len[b]), NEW d \in Idx(n)
      PROVE  Dequantized(unpack_q4(byte(j), d), At(q.scales, sc(j) + d \div group_size)) =
             DequantizedLane(q, 4, MAX_S, n, b, j, h, d)
  <2> DEFINE g == d \div group_size
  <2>1. gph \in Nat \ {0} /\ g \in Idx(gph)
    BY Groups
  <2>2. byte(j) = [i \in Idx(Dp) |-> q.q[RowMajor(MAX_S, Hkv, Dp, b, j, h, i)]]
    <3> HIDE DEF Dp
    <3>1. \A i \in Idx(Dp) : RowMajor(MAX_S, Hkv, Dp, b, j, h, i) = kv(j) + i
      BY <1>1, ContiguousElement
    <3> QED BY <3>1
  <2> HIDE DEF gph, g
  <2>3. /\ RowMajor(MAX_S, Hkv, gph, b, j, h, g) \in Idx(B * MAX_S * Hkv * gph)
        /\ RowMajor(MAX_S, Hkv, gph, b, j, h, g) = sc(j) + g
    BY <1>1, <2>1, ContiguousElement
  <2> HIDE DEF byte, sc
  <2>4. DequantizedLane(q, 4, MAX_S, n, b, j, h, d) =
           Dequantized(unpack_q4(byte(j), d), q.scales[RowMajor(MAX_S, Hkv, gph, b, j, h, g)])
    BY <2>2 DEF DequantizedLane, gph, g, Dp
  <2>5. At(q.scales, sc(j) + g) = q.scales[RowMajor(MAX_S, Hkv, gph, b, j, h, g)]
    BY <2>3 DEF At, IsQuantized, gph
  <2> QED BY <2>4, <2>5 DEF g
<1> HIDE DEF byte, sc
<1> QED BY <1>3, <1>4 DEF QuantizedRow, h, row

(* The reference for quantized pages reads the rows below the length. *)
LEMMA ReferencePagedQuantizedRead ==
  ASSUME NEW q, NEW w, NEW tab, NEW len, NEW n \in Nat \ {0}, NEW b \in Idx(B), len[b] \in Nat,
         HasPages(tab, b, len[b]), NEW hq \in Idx(Hq)
  PROVE  reference_paged_quantized_kv_gqa_decode_attention(q, w, tab, len, n)[b * Hq + hq] =
             [j \in Idx(len[b]) |-> PagedQuantizedRow(q, w, tab, n, b, j, HeadOf(hq, Hq))]
<1> DEFINE h == HeadOf(hq, Hq)
           row == b * Hq + hq
           mem == dequantize_kv_pages(q, w, n)
<1>1. h \in Idx(Hkv)
  BY HeadInRange
<1>2. row \in Idx(B * Hq) /\ row \div Hq = b /\ row % Hq = hq
  BY RowIndex, Sizes
<1> HIDE DEF row, mem
<1>3. reference_paged_quantized_kv_gqa_decode_attention(q, w, tab, len, n)[row] =
        [j \in Idx(len[b]) |-> [d \in Idx(n) |->
            mem[RowMajor(PAGE_SIZE, Hkv, n, PageAt(tab, b, j), j % PAGE_SIZE, h, d)]]]
  BY <1>2 DEF reference_paged_quantized_kv_gqa_decode_attention, q_head_to_kv_head, HeadOf, mem, PageAt
<1> HIDE DEF h
<1>4. \A j \in Idx(len[b]), d \in Idx(n) :
         mem[RowMajor(PAGE_SIZE, Hkv, n, PageAt(tab, b, j), j % PAGE_SIZE, h, d)] =
         DequantizedLane(q, w, PAGE_SIZE, n, PageAt(tab, b, j), j % PAGE_SIZE, h, d)
  <2> TAKE j \in Idx(len[b]), d \in Idx(n)
  <2>1. PageAt(tab, b, j) \in Idx(NUM_PAGES) /\ j % PAGE_SIZE \in Idx(PAGE_SIZE)
    <3>1. j \in Int
      BY DEF Idx
    <3> QED BY <3>1, OffsetInRange DEF HasPages
  <2> QED BY <1>1, <2>1, DequantizedElement DEF mem
<1> QED BY <1>3, <1>4 DEF PagedQuantizedRow, h, row

(* The kernels skip no position when all have pages. *)
LEMMA AllPaged ==
  ASSUME NEW tab, NEW b, NEW len \in Nat, HasPages(tab, b, len)
  PROVE  Paged(tab, b, len) = Idx(len)
<1>1. \A j \in Idx(len) : tab[b * MAX_BLOCKS + j \div PAGE_SIZE] >= 0
  BY DEF HasPages, PageAt, Idx
<1> QED BY <1>1 DEF Paged

(* So the kernel of eight bits reads the same from pages. *)
LEMMA Q8PagedRead ==
  ASSUME NEW q, NEW tab, NEW len, NEW n \in Nat \ {0}, NEW b \in Idx(B), len[b] \in Nat,
         HasPages(tab, b, len[b]), NEW hq \in Idx(Hq), IsQuantized(q, 8, NUM_PAGES, PAGE_SIZE, n)
  PROVE  q8_paged_gqa_decode_attention_kernel(q, tab, len, n)[b * Hq + hq] =
             [j \in Idx(len[b]) |-> PagedQuantizedRow(q, 8, tab, n, b, j, HeadOf(hq, Hq))]
<1> DEFINE h == HeadOf(hq, Hq)
           row == b * Hq + hq
           gph == groups_per_head(n)
           page(j) == tab[b * MAX_BLOCKS + j \div PAGE_SIZE]
           kv(j) == page(j) * (PAGE_SIZE * Hkv * n) + (j % PAGE_SIZE) * (Hkv * n) + h * n
           sc(j) == page(j) * (PAGE_SIZE * Hkv * gph) + (j % PAGE_SIZE) * (Hkv * gph) + h * gph
<1>1. h \in Idx(Hkv)
  BY HeadInRange
<1>2. row \in Idx(B * Hq) /\ row \div Hq = b /\ row % Hq = hq
  BY RowIndex, Sizes
<1> HIDE DEF row
<1>3. q8_paged_gqa_decode_attention_kernel(q, tab, len, n)[row] =
        [j \in Paged(tab, b, len[b]) |-> [d \in Idx(n) |->
            Dequantized(At(q.q, kv(j) + d), At(q.scales, sc(j) + d \div group_size))]]
  BY <1>2 DEF q8_paged_gqa_decode_attention_kernel, HeadOf
<1> HIDE DEF h
<1>4. ASSUME NEW j \in Idx(len[b]), NEW d \in Idx(n)
      PROVE  Dequantized(At(q.q, kv(j) + d), At(q.scales, sc(j) + d \div group_size)) =
             DequantizedLane(q, 8, PAGE_SIZE, n, PageAt(tab, b, j), j % PAGE_SIZE, h, d)
  <2> DEFINE g == d \div group_size
             p == PageAt(tab, b, j)
             o == j % PAGE_SIZE
  <2>1. gph \in Nat \ {0} /\ g \in Idx(gph)
    BY Groups
  <2>2. p \in Idx(NUM_PAGES) /\ o \in Idx(PAGE_SIZE) /\ page(j) = p
    <3>1. j \in Int
      BY DEF Idx
    <3> QED BY <3>1, OffsetInRange DEF HasPages, PageAt
  <2>3. kv(j) = p * (PAGE_SIZE * Hkv * n) + o * (Hkv * n) + h * n
    BY <2>2
  <2>4. sc(j) = p * (PAGE_SIZE * Hkv * gph) + o * (Hkv * gph) + h * gph
    BY <2>2
  <2> HIDE DEF gph, g, p, o, kv, sc
  <2>5. /\ RowMajor(PAGE_SIZE, Hkv, n, p, o, h, d) \in Idx(NUM_PAGES * PAGE_SIZE * Hkv * n)
        /\ RowMajor(PAGE_SIZE, Hkv, n, p, o, h, d) = kv(j) + d
    BY <1>1, <2>2, <2>3, PagedElement
  <2>6. /\ RowMajor(PAGE_SIZE, Hkv, gph, p, o, h, g) \in Idx(NUM_PAGES * PAGE_SIZE * Hkv * gph)
        /\ RowMajor(PAGE_SIZE, Hkv, gph, p, o, h, g) = sc(j) + g
    BY <1>1, <2>1, <2>2, <2>4, PagedElement
  <2>7. DequantizedLane(q, 8, PAGE_SIZE, n, p, o, h, d) =
           Dequantized(q.q[RowMajor(PAGE_SIZE, Hkv, n, p, o, h, d)], q.scales[RowMajor(PAGE_SIZE, Hkv, gph, p, o, h, g)])
    BY DEF DequantizedLane, gph, g
  <2>8. At(q.q, kv(j) + d) = q.q[RowMajor(PAGE_SIZE, Hkv, n, p, o, h, d)]
    BY <2>5 DEF At, IsQuantized
  <2>9. At(q.scales, sc(j) + g) = q.scales[RowMajor(PAGE_SIZE, Hkv, gph, p, o, h, g)]
    BY <2>6 DEF At, IsQuantized, gph
  <2> QED BY <2>7, <2>8, <2>9 DEF g, p, o
<1>5. Paged(tab, b, len[b]) = Idx(len[b])
  BY AllPaged
<1> HIDE DEF kv, sc
<1> QED BY <1>3, <1>4, <1>5 DEF PagedQuantizedRow, h, row

(* ... and of four. *)
LEMMA Q4PagedRead ==
  ASSUME NEW q, NEW tab, NEW len, NEW n \in Nat \ {0}, NEW b \in Idx(B), len[b] \in Nat,
         HasPages(tab, b, len[b]), NEW hq \in Idx(Hq), IsQuantized(q, 4, NUM_PAGES, PAGE_SIZE, n)
  PROVE  q4_paged_gqa_decode_attention_kernel(q, tab, len, n)[b * Hq + hq] =
             [j \in Idx(len[b]) |-> PagedQuantizedRow(q, 4, tab, n, b, j, HeadOf(hq, Hq))]
<1> DEFINE h == HeadOf(hq, Hq)
           row == b * Hq + hq
           gph == groups_per_head(n)
           Dp == D_packed(n)
           page(j) == tab[b * MAX_BLOCKS + j \div PAGE_SIZE]
           kv(j) == page(j) * (PAGE_SIZE * Hkv * Dp) + (j % PAGE_SIZE) * (Hkv * Dp) + h * Dp
           sc(j) == page(j) * (PAGE_SIZE * Hkv * gph) + (j % PAGE_SIZE) * (Hkv * gph) + h * gph
           byte(j) == [i \in Idx(Dp) |-> q.q[kv(j) + i]]
<1>1. h \in Idx(Hkv) /\ Dp \in Nat \ {0}
  <2>1. 0 \in Idx(n)
    BY DEF Idx
  <2> QED BY HeadInRange, <2>1, Bytes
<1>2. row \in Idx(B * Hq) /\ row \div Hq = b /\ row % Hq = hq
  BY RowIndex, Sizes
<1> HIDE DEF row
<1>3. q4_paged_gqa_decode_attention_kernel(q, tab, len, n)[row] =
        [j \in Paged(tab, b, len[b]) |-> [d \in Idx(n) |->
            Dequantized(unpack_q4(byte(j), d), At(q.scales, sc(j) + d \div group_size))]]
  BY <1>2 DEF q4_paged_gqa_decode_attention_kernel, HeadOf
<1> HIDE DEF h
<1>4. ASSUME NEW j \in Idx(len[b]), NEW d \in Idx(n)
      PROVE  Dequantized(unpack_q4(byte(j), d), At(q.scales, sc(j) + d \div group_size)) =
             DequantizedLane(q, 4, PAGE_SIZE, n, PageAt(tab, b, j), j % PAGE_SIZE, h, d)
  <2> DEFINE g == d \div group_size
             p == PageAt(tab, b, j)
             o == j % PAGE_SIZE
  <2>1. gph \in Nat \ {0} /\ g \in Idx(gph)
    BY Groups
  <2>2. p \in Idx(NUM_PAGES) /\ o \in Idx(PAGE_SIZE) /\ page(j) = p
    <3>1. j \in Int
      BY DEF Idx
    <3> QED BY <3>1, OffsetInRange DEF HasPages, PageAt
  <2>3. kv(j) = p * (PAGE_SIZE * Hkv * Dp) + o * (Hkv * Dp) + h * Dp
    BY <2>2
  <2>4. sc(j) = p * (PAGE_SIZE * Hkv * gph) + o * (Hkv * gph) + h * gph
    BY <2>2
  <2>5. byte(j) = [i \in Idx(Dp) |-> q.q[RowMajor(PAGE_SIZE, Hkv, Dp, p, o, h, i)]]
    <3> HIDE DEF Dp, p, o, kv
    <3>1. \A i \in Idx(Dp) : RowMajor(PAGE_SIZE, Hkv, Dp, p, o, h, i) = kv(j) + i
      BY <1>1, <2>2, <2>3, PagedElement
    <3> QED BY <3>1
  <2> HIDE DEF gph, g, p, o, sc, byte
  <2>6. /\ RowMajor(PAGE_SIZE, Hkv, gph, p, o, h, g) \in Idx(NUM_PAGES * PAGE_SIZE * Hkv * gph)
        /\ RowMajor(PAGE_SIZE, Hkv, gph, p, o, h, g) = sc(j) + g
    BY <1>1, <2>1, <2>2, <2>4, PagedElement
  <2>7. DequantizedLane(q, 4, PAGE_SIZE, n, p, o, h, d) =
           Dequantized(unpack_q4(byte(j), d), q.scales[RowMajor(PAGE_SIZE, Hkv, gph, p, o, h, g)])
    BY <2>5 DEF DequantizedLane, gph, g, Dp
  <2>8. At(q.scales, sc(j) + g) = q.scales[RowMajor(PAGE_SIZE, Hkv, gph, p, o, h, g)]
    BY <2>6 DEF At, IsQuantized, gph
  <2> QED BY <2>7, <2>8 DEF g, p, o
<1>5. Paged(tab, b, len[b]) = Idx(len[b])
  BY AllPaged
<1> HIDE DEF byte, sc
<1> QED BY <1>3, <1>4, <1>5 DEF PagedQuantizedRow, h, row

------------------------------------------------------------------------------
(* Sparse attention patterns                                                *)

(* The positions a pattern lets a query of this length see. *)
Sees(pattern, len) == Cache!Visible(pattern, len)

(* The mask build_sparse_attention_mask makes is the pattern's definition. *)
LEMMA MaskIsVisible ==
  ASSUME NEW pattern, WellFormed(pattern), NEW n \in Nat, NEW len \in 1..n
  PROVE  build_sparse_attention_mask(n, pattern, len - 1) = Sees(pattern, len)
<1> DEFINE mask == build_sparse_attention_mask(n, pattern, len - 1)
<1>1. CASE pattern.pattern = "dense"
  BY <1>1 DEF build_sparse_attention_mask, Sees, Cache!Visible, Idx
<1>2. CASE pattern.pattern = "sliding_window"
  BY <1>2 DEF build_sparse_attention_mask, Sees, Cache!Visible, Idx, Larger, WellFormed
<1>3. CASE pattern.pattern = "sliding_window_sink"
  BY <1>3 DEF build_sparse_attention_mask, Sees, Cache!Visible, Idx, Larger, WellFormed
<1>4. CASE pattern.pattern = "block_sparse"
  BY <1>4 DEF build_sparse_attention_mask, Sees, Cache!Visible, Idx, Larger, WellFormed
<1> QED BY <1>1, <1>2, <1>3, <1>4 DEF WellFormed

(* The sinks and the window a kernel loops over are the same positions,
   none of them twice. *)
LEMMA WindowIsVisible ==
  ASSUME NEW pattern, WellFormed(pattern), pattern.pattern \in {"sliding_window", "sliding_window_sink"},
         NEW len \in Nat \ {0},
         NEW start, start = Larger(0, len - pattern.window_size)
  PROVE  {j \in Idx(pattern.sink_tokens) : j < len} \cup {j \in start..(len - 1) : j >= pattern.sink_tokens}
            = Sees(pattern, len)
<1>1. CASE pattern.pattern = "sliding_window"
  BY <1>1 DEF Sees, Cache!Visible, Idx, Larger, WellFormed
<1>2. CASE pattern.pattern = "sliding_window_sink"
  BY <1>2 DEF Sees, Cache!Visible, Idx, Larger, WellFormed
<1> QED BY <1>1, <1>2

(* A query sees no position past its length. *)
LEMMA VisibleBelow ==
  ASSUME NEW pattern, NEW len \in Nat
  PROVE  Sees(pattern, len) \subseteq Idx(len)
  BY DEF Sees, Cache!Visible, Idx

(* Without a pattern it sees all below. *)
LEMMA DenseVisible ==
  ASSUME NEW len
  PROVE  Sees(Dense, len) = Idx(len)
  BY DEF Sees, Cache!Visible, Idx, Dense

(* The masked reference reads the positions of its mask. *)
LEMMA MaskedRead ==
  ASSUME NEW m, NEW visible, NEW n \in Nat \ {0}, NEW b \in Idx(B), NEW hq \in Idx(Hq)
  PROVE  _dense_masked_reference_attention(m, visible, n)[b * Hq + hq] =
             [j \in visible[b] |-> ContiguousRow(m, n, b, j, HeadOf(hq, Hq))]
  BY RowIndex, Sizes DEF _dense_masked_reference_attention, ContiguousRow, q_head_to_kv_head, HeadOf

(* SlidingWindow reads the positions of its two loops. *)
LEMMA WindowRead ==
  ASSUME NEW m, NEW n \in Nat \ {0}, DOMAIN m = Idx(B * MAX_S * Hkv * n),
         NEW b \in Idx(B), NEW hq \in Idx(Hq), NEW sinks, NEW start, NEW end, NEW seen,
         seen = {j \in Idx(sinks) : j < end[b]} \cup {j \in start[b]..(end[b] - 1) : j >= sinks},
         seen \subseteq Idx(MAX_S)
  PROVE  SlidingWindow(m, n, sinks, start, end)[b * Hq + hq] =
             [j \in seen |-> ContiguousRow(m, n, b, j, HeadOf(hq, Hq))]
<1> DEFINE row == b * Hq + hq
           h == HeadOf(hq, Hq)
<1>1. row \in Idx(B * Hq) /\ row \div Hq = b /\ row % Hq = hq
  BY RowIndex, Sizes
<1> HIDE DEF row
<1>2. h \in Idx(Hkv)
  BY HeadInRange
<1>3. SlidingWindow(m, n, sinks, start, end)[row] =
         [j \in seen |-> [d \in Idx(n) |-> At(m, b * (MAX_S * Hkv * n) + j * (Hkv * n) + h * n + d)]]
  BY <1>1 DEF SlidingWindow, HeadOf
<1> HIDE DEF h
<1>4. \A j \in seen, d \in Idx(n) :
        m[RowMajor(MAX_S, Hkv, n, b, j, h, d)] = At(m, b * (MAX_S * Hkv * n) + j * (Hkv * n) + h * n + d)
  BY <1>2, ContiguousElement DEF At
<1> QED BY <1>3, <1>4 DEF ContiguousRow, row, h

(* Both sparse decode calls read what the pattern shows. *)
LEMMA SparseDecodeRead ==
  ASSUME NEW m, NEW len, NEW n \in Nat \ {0}, DOMAIN m = Idx(B * MAX_S * Hkv * n),
         NEW b \in Idx(B), len[b] \in 1..MAX_S, NEW hq \in Idx(Hq),
         NEW pattern, WellFormed(pattern)
  PROVE  LET read == [j \in Sees(pattern, len[b]) |-> ContiguousRow(m, n, b, j, HeadOf(hq, Hq))]
             row == b * Hq + hq
         IN  /\ reference_sparse_gqa_decode_attention(m, len, pattern, n)[row] = read
             /\ pattern.pattern \in {"sliding_window", "sliding_window_sink"} =>
                    sliding_window_gqa_decode_attention(m, len, pattern, n)[row] = read
<1> DEFINE row == b * Hq + hq
           read == [j \in Sees(pattern, len[b]) |-> ContiguousRow(m, n, b, j, HeadOf(hq, Hq))]
<1>1. reference_sparse_gqa_decode_attention(m, len, pattern, n)[row] = read
  <2> DEFINE visible == [c \in Idx(B) |-> build_sparse_attention_mask(len[c], pattern, len[c] - 1)]
  <2>1. visible[b] = Sees(pattern, len[b])
    <3>1. len[b] \in Nat /\ len[b] \in 1..len[b]
      OBVIOUS
    <3> QED BY <3>1, MaskIsVisible
  <2> HIDE DEF visible
  <2>2. _dense_masked_reference_attention(m, visible, n)[row] = read
    BY <2>1, MaskedRead
  <2> QED BY <2>2 DEF reference_sparse_gqa_decode_attention, visible
<1>2. ASSUME pattern.pattern \in {"sliding_window", "sliding_window_sink"}
      PROVE  sliding_window_gqa_decode_attention(m, len, pattern, n)[row] = read
  <2> DEFINE start == [c \in Idx(B) |-> Larger(0, len[c] - pattern.window_size)]
             seen == Sees(pattern, len[b])
  <2>1. start[b] = Larger(0, len[b] - pattern.window_size)
    OBVIOUS
  <2> HIDE DEF start
  <2>2. seen = {j \in Idx(pattern.sink_tokens) : j < len[b]} \cup {j \in start[b]..(len[b] - 1) : j >= pattern.sink_tokens}
    BY <1>2, <2>1, WindowIsVisible
  <2>3. seen \subseteq Idx(MAX_S)
    BY Sizes, VisibleBelow DEF Idx
  <2> HIDE DEF seen
  <2>4. SlidingWindow(m, n, pattern.sink_tokens, start, len)[row] =
             [j \in seen |-> ContiguousRow(m, n, b, j, HeadOf(hq, Hq))]
    BY <2>2, <2>3, WindowRead
  <2> QED BY <2>4 DEF sliding_window_gqa_decode_attention, start, seen
<1> QED BY <1>1, <1>2

(* ... and both sparse prefill calls. *)
LEMMA SparsePrefillRead ==
  ASSUME NEW m, NEW q_abs \in Idx(MAX_S), NEW n \in Nat \ {0}, DOMAIN m = Idx(B * MAX_S * Hkv * n),
         NEW b \in Idx(B), NEW hq \in Idx(Hq),
         NEW pattern, WellFormed(pattern)
  PROVE  LET read == [j \in Sees(pattern, q_abs + 1) |-> ContiguousRow(m, n, b, j, HeadOf(hq, Hq))]
             row == b * Hq + hq
         IN  /\ reference_sparse_gqa_attention(m, pattern, q_abs, n)[row] = read
             /\ pattern.pattern \in {"sliding_window", "sliding_window_sink"} =>
                    sliding_window_gqa_attention(m, pattern, q_abs, n)[row] = read
<1> DEFINE row == b * Hq + hq
           read == [j \in Sees(pattern, q_abs + 1) |-> ContiguousRow(m, n, b, j, HeadOf(hq, Hq))]
<1>0. q_abs + 1 \in 1..MAX_S /\ MAX_S \in Nat /\ q_abs \in Nat /\ (q_abs + 1) - 1 = q_abs
  BY Sizes DEF Idx
<1>1. reference_sparse_gqa_attention(m, pattern, q_abs, n)[row] = read
  <2> DEFINE visible == [c \in Idx(B) |-> build_sparse_attention_mask(MAX_S, pattern, q_abs)]
  <2>1. build_sparse_attention_mask(MAX_S, pattern, (q_abs + 1) - 1) = Sees(pattern, q_abs + 1)
    BY <1>0, MaskIsVisible
  <2>2. visible[b] = Sees(pattern, q_abs + 1)
    BY <1>0, <2>1
  <2> HIDE DEF visible
  <2>3. _dense_masked_reference_attention(m, visible, n)[row] = read
    BY <2>2, MaskedRead
  <2> QED BY <2>3 DEF reference_sparse_gqa_attention, visible
<1>2. ASSUME pattern.pattern \in {"sliding_window", "sliding_window_sink"}
      PROVE  sliding_window_gqa_attention(m, pattern, q_abs, n)[row] = read
  <2> DEFINE start == [c \in Idx(B) |-> Larger(0, q_abs - pattern.window_size + 1)]
             end == [c \in Idx(B) |-> IF q_abs + 1 < MAX_S THEN q_abs + 1 ELSE MAX_S]
             seen == Sees(pattern, q_abs + 1)
  <2>1. start[b] = Larger(0, (q_abs + 1) - pattern.window_size) /\ end[b] = q_abs + 1
    <3>1. q_abs - pattern.window_size + 1 = (q_abs + 1) - pattern.window_size
      BY <1>0 DEF WellFormed
    <3>2. (IF q_abs + 1 < MAX_S THEN q_abs + 1 ELSE MAX_S) = q_abs + 1
      BY <1>0
    <3> QED BY <3>1, <3>2
  <2> HIDE DEF start, end
  <2>2. seen = {j \in Idx(pattern.sink_tokens) : j < end[b]} \cup {j \in start[b]..(end[b] - 1) : j >= pattern.sink_tokens}
    <3>1. q_abs + 1 \in Nat \ {0}
      BY <1>0
    <3> QED BY <1>2, <2>1, <3>1, WindowIsVisible
  <2>3. seen \subseteq Idx(MAX_S)
    <3>1. Idx(q_abs + 1) \subseteq Idx(MAX_S) /\ q_abs + 1 \in Nat
      BY <1>0 DEF Idx
    <3> QED BY <3>1, VisibleBelow
  <2> HIDE DEF seen
  <2>4. SlidingWindow(m, n, pattern.sink_tokens, start, end)[row] =
             [j \in seen |-> ContiguousRow(m, n, b, j, HeadOf(hq, Hq))]
    BY <2>2, <2>3, WindowRead
  <2> QED BY <2>4 DEF sliding_window_gqa_attention, start, end, seen
<1> QED BY <1>1, <1>2

------------------------------------------------------------------------------
(* Block tables and page conversions                                        *)

(* A set of positions with no gap is those below its size. *)
LEMMA PrefixCardinality ==
  ASSUME NEW n \in Nat, NEW S \in SUBSET Idx(n), \A p \in S, q \in Idx(n) : q <= p => q \in S
  PROVE  Cardinality(S) \in 0..n /\ \A p \in Idx(n) : p \in S <=> p < Cardinality(S)
<1>1. IsFiniteSet(Idx(n)) /\ Cardinality(Idx(n)) = n
  BY FS_Interval DEF Idx
<1>2. IsFiniteSet(S) /\ Cardinality(S) \in Nat /\ Cardinality(S) <= n
  BY <1>1, FS_Subset, FS_CardinalityType
<1>3. ASSUME NEW p \in Idx(n), p \in S
      PROVE  p < Cardinality(S)
  <2>1. Idx(p + 1) \subseteq S /\ p \in Nat
    BY <1>3 DEF Idx
  <2>2. Cardinality(Idx(p + 1)) = p + 1
    BY <2>1, FS_Interval DEF Idx
  <2>3. Cardinality(Idx(p + 1)) <= Cardinality(S)
    BY <1>2, <2>1, FS_Subset
  <2> QED BY <1>2, <2>1, <2>2, <2>3
<1>4. ASSUME NEW p \in Idx(n), p \notin S
      PROVE  Cardinality(S) <= p
  <2>1. S \subseteq Idx(p) /\ p \in Nat
    BY <1>4 DEF Idx
  <2>2. IsFiniteSet(Idx(p)) /\ Cardinality(Idx(p)) = p
    BY <2>1, FS_Interval DEF Idx
  <2> QED BY <2>1, <2>2, FS_Subset
<1> QED BY <1>2, <1>3, <1>4 DEF Idx

(* A position is in one block, at one place. *)
LEMMA BlockOf ==
  ASSUME NEW p \in Idx(Capacity)
  PROVE  /\ p \div PAGE_SIZE \in Idx(MAX_BLOCKS) /\ p % PAGE_SIZE \in Idx(PAGE_SIZE)
         /\ (p \div PAGE_SIZE) * PAGE_SIZE + (p % PAGE_SIZE) = p
<1> DEFINE k == p \div PAGE_SIZE
<1>1. p \in Nat /\ p < MAX_BLOCKS * PAGE_SIZE
  BY Sizes, BlockSizes DEF Idx, Capacity
<1>2. p = PAGE_SIZE * k + (p % PAGE_SIZE) /\ k \in Nat /\ p % PAGE_SIZE \in 0..PAGE_SIZE - 1
  BY Sizes, <1>1
<1> HIDE DEF k
<1>3. k < MAX_BLOCKS
  BY Sizes, BlockSizes, <1>1, <1>2
<1> QED BY Sizes, BlockSizes, <1>2, <1>3 DEF Idx, k

(* A batch element and a block name one entry of the table. *)
LEMMA EntryOf ==
  ASSUME NEW b \in Idx(B), NEW k \in Idx(MAX_BLOCKS)
  PROVE  /\ b * MAX_BLOCKS + k \in Idx(B * MAX_BLOCKS) /\ Idx(B * MAX_BLOCKS) = Idx(NUM_PAGES)
         /\ (b * MAX_BLOCKS + k) \div MAX_BLOCKS = b /\ (b * MAX_BLOCKS + k) % MAX_BLOCKS = k
<1>1. b \in Int
  BY DEF Idx
<1> QED BY <1>1, Sizes, BlockSizes, InProduct, DivMod DEF NUM_PAGES

(* Two positions with the same page and place are the same position. *)
LEMMA TableApart ==
  ASSUME NEW tab, IsTable(tab), NEW b \in Idx(B), NEW c \in Idx(B), NEW p \in Idx(Capacity), NEW q \in Idx(Capacity),
         PageAt(tab, b, p) >= 0, PageAt(tab, b, p) = PageAt(tab, c, q), p % PAGE_SIZE = q % PAGE_SIZE
  PROVE  b = c /\ p = q
<1> DEFINE k == p \div PAGE_SIZE
           l == q \div PAGE_SIZE
<1>1. k \in Idx(MAX_BLOCKS) /\ l \in Idx(MAX_BLOCKS)
  BY BlockOf
<1>2. b * MAX_BLOCKS + k = c * MAX_BLOCKS + l
  BY <1>1, EntryOf DEF IsTable, PageAt
<1> HIDE DEF k, l
<1>3. b = c /\ k = l
  BY <1>1, <1>2, EntryOf
<1> QED BY <1>3, BlockOf DEF k, l

(* A page the table names exists. *)
LEMMA PageInRange ==
  ASSUME NEW tab, IsTable(tab), NEW b \in Idx(B), NEW p \in Idx(Capacity), PageAt(tab, b, p) >= 0
  PROVE  PageAt(tab, b, p) \in Idx(NUM_PAGES)
<1>1. b * MAX_BLOCKS + p \div PAGE_SIZE \in Idx(B * MAX_BLOCKS)
  BY EntryOf, BlockOf
<1> QED BY <1>1, BlockSizes DEF IsTable, PageAt, Idx

(* The positions with pages have no gap. *)
LEMMA PagedRoom ==
  ASSUME NEW tab, IsTable(tab), NEW b \in Idx(B), NEW p \in Idx(Capacity), NEW q \in Idx(Capacity),
         q <= p, PageAt(tab, b, p) >= 0
  PROVE  PageAt(tab, b, q) >= 0
<1> DEFINE k == p \div PAGE_SIZE
           l == q \div PAGE_SIZE
<1>1. k \in Idx(MAX_BLOCKS) /\ l \in Idx(MAX_BLOCKS) /\ l <= k
  <2>1. q \div PAGE_SIZE <= p \div PAGE_SIZE
    BY Sizes, BlockSizes DEF Idx
  <2> QED BY <2>1, BlockOf
<1> HIDE DEF k, l
<1>2. tab[b * MAX_BLOCKS + k] >= 0
  BY DEF PageAt, k
<1>3. tab[b * MAX_BLOCKS + l] >= 0
  BY <1>1, <1>2 DEF IsTable
<1> QED BY <1>3 DEF PageAt, l

(* contiguous_kv_to_pages moves every row below the length. *)
LEMMA PagesElement ==
  ASSUME NEW m, NEW len, NEW n \in Nat \ {0}, NEW b \in Idx(B), NEW j \in Idx(Capacity),
         NEW h \in Idx(Hkv), NEW d \in Idx(n)
  PROVE  contiguous_kv_to_pages(m, len, n).pages[
             RowMajor(PAGE_SIZE, Hkv, n, b * MAX_BLOCKS + j \div PAGE_SIZE, j % PAGE_SIZE, h, d)] =
             IF j < len[b] THEN m[RowMajor(MAX_S, Hkv, n, b, j, h, d)] ELSE Zero
<1> DEFINE p == b * MAX_BLOCKS + j \div PAGE_SIZE
           o == j % PAGE_SIZE
           e == RowMajor(PAGE_SIZE, Hkv, n, p, o, h, d)
<1>0. p \in Idx(NUM_PAGES) /\ o \in Idx(PAGE_SIZE)
  BY EntryOf, BlockOf
<1>1. p \div MAX_BLOCKS = b /\ (p % MAX_BLOCKS) * PAGE_SIZE + o = j
  BY EntryOf, BlockOf
<1> HIDE DEF o, p
<1>2. /\ e \in Idx(NUM_PAGES * PAGE_SIZE * Hkv * n) /\ e \div (PAGE_SIZE * Hkv * n) = p
      /\ (e \div (Hkv * n)) % PAGE_SIZE = o /\ (e \div n) % Hkv = h /\ e % n = d
  <2>1. e = RowMajor(PAGE_SIZE, Hkv, n, p, o, h, d)
    OBVIOUS
  <2>2. NUM_PAGES \in Nat \ {0} /\ PAGE_SIZE \in Nat \ {0} /\ Hkv \in Nat \ {0}
    BY Sizes, BlockSizes
  <2> HIDE DEF e
  <2> QED BY <1>0, <2>1, <2>2, RowMajorIndex
<1> HIDE DEF e
<1>3. contiguous_kv_to_pages(m, len, n).pages[e] =
        IF j < len[b] THEN m[RowMajor(MAX_S, Hkv, n, b, j, h, d)] ELSE Zero
  BY <1>0, <1>1, <1>2 DEF contiguous_kv_to_pages, Array
<1> QED BY <1>3 DEF e, o, p

(* ... and gives pages to the blocks below the length. *)
LEMMA TableEntry ==
  ASSUME NEW m, NEW len, NEW n, NEW b \in Idx(B), NEW k \in Idx(MAX_BLOCKS), len[b] \in 0..Capacity
  PROVE  contiguous_kv_to_pages(m, len, n).table[b * MAX_BLOCKS + k] =
            IF \E j \in Idx(len[b]) : j \div PAGE_SIZE = k THEN b * MAX_BLOCKS + k ELSE -1
<1> DEFINE e == b * MAX_BLOCKS + k
           E == \E j \in Idx(len[b]) : b * MAX_BLOCKS + j \div PAGE_SIZE = e
<1>1. e \in Idx(B * MAX_BLOCKS) /\ e \div MAX_BLOCKS = b
  BY EntryOf
<1>2. E <=> \E j \in Idx(len[b]) : j \div PAGE_SIZE = k
  <2>1. \A j \in Idx(len[b]) : j \div PAGE_SIZE \in Idx(MAX_BLOCKS)
    <3>1. Idx(len[b]) \subseteq Idx(Capacity)
      BY BlockSizes DEF Idx
    <3> QED BY <3>1, BlockOf
  <2>2. \A j \in Idx(len[b]) : b * MAX_BLOCKS + j \div PAGE_SIZE = e <=> j \div PAGE_SIZE = k
    BY <2>1, EntryOf
  <2> QED BY <2>2
<1> HIDE DEF e
<1>3. contiguous_kv_to_pages(m, len, n).table[e] = IF E THEN e ELSE -1
  BY <1>1 DEF contiguous_kv_to_pages
<1> QED BY <1>2, <1>3 DEF e

(* pages_to_contiguous_kv moves every row with a page back. *)
LEMMA ContiguousFromPages ==
  ASSUME NEW m, NEW tab, NEW len, NEW n \in Nat \ {0}, NEW b \in Idx(B), NEW j \in Idx(MAX_S),
         NEW h \in Idx(Hkv), NEW d \in Idx(n)
  PROVE  pages_to_contiguous_kv(m, tab, len, n)[RowMajor(MAX_S, Hkv, n, b, j, h, d)] =
             IF j < len[b] /\ PageAt(tab, b, j) >= 0
             THEN m[RowMajor(PAGE_SIZE, Hkv, n, PageAt(tab, b, j), j % PAGE_SIZE, h, d)] ELSE Zero
<1> DEFINE e == RowMajor(MAX_S, Hkv, n, b, j, h, d)
<1>1. /\ e \in Idx(B * MAX_S * Hkv * n) /\ e \div (MAX_S * Hkv * n) = b
      /\ (e \div (Hkv * n)) % MAX_S = j /\ (e \div n) % Hkv = h /\ e % n = d
  BY RowMajorIndex, Sizes
<1> HIDE DEF e
<1>2. pages_to_contiguous_kv(m, tab, len, n)[e] =
             IF j < len[b] /\ PageAt(tab, b, j) >= 0
             THEN m[RowMajor(PAGE_SIZE, Hkv, n, PageAt(tab, b, j), j % PAGE_SIZE, h, d)] ELSE Zero
  BY <1>1 DEF pages_to_contiguous_kv, Array, PageAt
<1> QED BY <1>2 DEF e

(* The table contiguous_kv_to_pages makes is a table. *)
LEMMA NewTable ==
  ASSUME NEW m, NEW len, NEW n, \A b \in Idx(B) : len[b] \in 0..Capacity
  PROVE  IsTable(contiguous_kv_to_pages(m, len, n).table)
<1> DEFINE tab == contiguous_kv_to_pages(m, len, n).table
<1>1. tab = [e \in Idx(B * MAX_BLOCKS) |-> tab[e]] /\ \A e \in Idx(B * MAX_BLOCKS) : tab[e] \in {e, -1}
  BY DEF contiguous_kv_to_pages
<1>2. ASSUME NEW b \in Idx(B), NEW k \in Idx(MAX_BLOCKS), NEW l \in Idx(MAX_BLOCKS), k <= l,
             tab[b * MAX_BLOCKS + l] >= 0
      PROVE  tab[b * MAX_BLOCKS + k] >= 0
  <2>0. tab[b * MAX_BLOCKS + l] = IF \E j \in Idx(len[b]) : j \div PAGE_SIZE = l THEN b * MAX_BLOCKS + l ELSE -1
    BY TableEntry
  <2> HIDE DEF tab
  <2>1. PICK j \in Idx(len[b]) : j \div PAGE_SIZE = l
    BY <1>2, <2>0
  <2> USE DEF tab
  <2> DEFINE i == k * PAGE_SIZE
  <2>2. i \div PAGE_SIZE = k
    <3>1. k \in Int /\ 0 \in Idx(PAGE_SIZE) /\ i = k * PAGE_SIZE + 0
      BY Sizes, BlockSizes DEF Idx
    <3> QED BY <3>1, Sizes, DivMod
  <2>3. i <= j /\ i \in Nat
    <3>1. j \in Nat /\ k \in Nat /\ l \in Nat
      BY BlockSizes DEF Idx
    <3>2. j = PAGE_SIZE * l + (j % PAGE_SIZE) /\ j % PAGE_SIZE \in Nat
      BY <2>1, <3>1, Sizes
    <3>3. k * PAGE_SIZE <= PAGE_SIZE * l
      BY <1>2, <3>1, Sizes
    <3> QED BY <3>1, <3>2, <3>3, Sizes
  <2>4. i \in Idx(len[b])
    BY <2>3, BlockSizes DEF Idx
  <2> HIDE DEF i
  <2>5. tab[b * MAX_BLOCKS + k] = b * MAX_BLOCKS + k
    BY <2>2, <2>4, TableEntry
  <2>6. b * MAX_BLOCKS + k >= 0
    BY BlockSizes, Sizes, EntryOf DEF Idx
  <2> QED BY <2>5, <2>6
<1> HIDE DEF tab
<1>3. \A e \in Idx(B * MAX_BLOCKS) : e \in 0..(NUM_PAGES - 1)
  BY DEF NUM_PAGES, Idx
<1>4. tab \in [Idx(B * MAX_BLOCKS) -> -1..(NUM_PAGES - 1)]
  <2>1. \A e \in Idx(B * MAX_BLOCKS) : tab[e] \in -1..(NUM_PAGES - 1)
    BY <1>1, <1>3, BlockSizes
  <2> QED BY <1>1, <2>1
<1>5. \A e, f \in Idx(B * MAX_BLOCKS) : e # f /\ tab[e] >= 0 => tab[e] # tab[f]
  BY <1>1, <1>3
<1> QED BY <1>2, <1>4, <1>5 DEF IsTable, tab

(* A paged update writes a page of its own for each batch element. *)
LEMMA TargetsApart ==
  ASSUME NEW tab, IsTable(tab), NEW pos, InRange(pos, Capacity)
  PROVE  Apart(tab, pos)
<1> SUFFICES ASSUME NEW b \in Idx(B), NEW c \in Idx(B), b # c
             PROVE  LET f == b * MAX_BLOCKS + pos[b] \div PAGE_SIZE
                        g == c * MAX_BLOCKS + pos[c] \div PAGE_SIZE
                    IN  tab[f] # tab[g] \/ tab[f] = -1
  BY DEF Apart
<1> DEFINE f == b * MAX_BLOCKS + pos[b] \div PAGE_SIZE
           g == c * MAX_BLOCKS + pos[c] \div PAGE_SIZE
<1>1. pos[b] \in Idx(Capacity) /\ pos[c] \in Idx(Capacity)
  BY DEF InRange
<1>2. f \in Idx(B * MAX_BLOCKS) /\ g \in Idx(B * MAX_BLOCKS) /\ f \div MAX_BLOCKS = b /\ g \div MAX_BLOCKS = c
  BY <1>1, EntryOf, BlockOf
<1> HIDE DEF f, g
<1>3. tab[f] \in -1..(NUM_PAGES - 1) /\ (tab[f] >= 0 => tab[f] # tab[g])
  BY <1>2 DEF IsTable
<1>4. tab[f] # tab[g] \/ tab[f] = -1
  BY <1>3, BlockSizes
<1> QED BY <1>4 DEF f, g

------------------------------------------------------------------------------
(* The refinement mapping                                                   *)

(* The refinement mapping as functions of a state's values, so that lemmas
   about it need not be said again for the next state. Position p of b has
   storage. *)
HasRoomIn(l, tab, b, p) == IF l \in {"contiguous", "quantized"} THEN p < MAX_S ELSE PageAt(tab, b, p) >= 0

(* The lane stored for it. *)
LaneIn(l, n, k, q, w, tab, b, p, h, d) ==
    CASE l = "contiguous" -> k[RowMajor(MAX_S, Hkv, n, b, p, h, d)]
      [] l = "paged" -> k[RowMajor(PAGE_SIZE, Hkv, n, PageAt(tab, b, p), p % PAGE_SIZE, h, d)]
      [] l = "quantized" -> DequantizedLane(q, w, MAX_S, n, b, p, h, d)
      [] l = "paged_quantized" -> DequantizedLane(q, w, PAGE_SIZE, n, PageAt(tab, b, p), p % PAGE_SIZE, h, d)

(* The row that lanes are of, if they are of one. *)
RowOfIn(n, lane, b, heads) ==
    LET some == lane[CHOOSE hd \in heads \X Idx(n) : TRUE]
        row == <<some[1], some[2]>>
        place(h, d) == IF row = Unwritten THEN Zero ELSE <<row[1], row[2], b, h, d>>
    IN  IF \A hd \in heads \X Idx(n) : lane[hd] = place(hd[1], hd[2]) THEN row ELSE Corrupt

(* The rows of all positions. *)
RowsIn(l, n, k, q, w, tab) ==
    [b \in Idx(B) |-> [p \in Idx(Capacity) |->
        IF HasRoomIn(l, tab, b, p)
        THEN RowOfIn(n, [hd \in Idx(Hkv) \X Idx(n) |-> LaneIn(l, n, k, q, w, tab, b, p, hd[1], hd[2])], b, Idx(Hkv))
        ELSE Unwritten]]

(* How many positions have storage. *)
RoomIn(l, tab) == [b \in Idx(B) |-> Cardinality({p \in Idx(Capacity) : HasRoomIn(l, tab, b, p)})]

(* The rows a call's answer for b is of. *)
AttendedIn(n, o, b) ==
    LET heads == o.heads
        at(hq) == o.rows[b * heads + hq]
        row(hq, j) == LET h == hq \div (heads \div Hkv)
                      IN  RowOfIn(n, [hd \in {h} \X Idx(n) |-> at(hq)[j][hd[2]]], b, {h})
    IN  [j \in DOMAIN at(0) |->
            IF \A hq \in Idx(heads) : DOMAIN at(hq) = DOMAIN at(0) /\ row(hq, j) = row(0, j)
            THEN row(0, j) ELSE Corrupt]

(* ... for the batch elements it promises one. *)
PromisedIn(n, o, rm) ==
    IF o.status # "returned" THEN <<>>
    ELSE [b \in {c \in Idx(B) : o.len[c] \in 1..rm[c] /\ DOMAIN o.rows[c * o.heads] # {}} |->
            AttendedIn(n, o, b)]

(* The mapping of the model is these functions of its variables. *)
LEMMA StoredIs ==
  /\ StoredRows = RowsIn(layout, D, K, Q, bits, table)
  /\ Room = RoomIn(layout, table)
  /\ Promised = PromisedIn(D, out, Room)
<1>1. StoredRows = RowsIn(layout, D, K, Q, bits, table)
  BY DEF StoredRows, RowsIn, HasRoom, HasRoomIn, StoredLane, LaneIn, PageOf, PageAt, RowOf, RowOfIn, Lanes
<1>2. Room = RoomIn(layout, table)
  BY DEF Room, RoomIn, HasRoom, HasRoomIn, PageOf, PageAt
<1>3. Promised = PromisedIn(D, out, Room)
  BY DEF Promised, PromisedIn, AttendedBy, AttendedIn, RowOf, RowOfIn
<1> QED BY <1>1, <1>2, <1>3

(* ... in the next state too. *)
LEMMA StoredBecomes ==
  /\ StoredRows' = RowsIn(layout', D', K', Q', bits', table')
  /\ Room' = RoomIn(layout', table')
  /\ Promised' = PromisedIn(D', out', Room')
<1>1. StoredRows' = RowsIn(layout', D', K', Q', bits', table')
  BY DEF StoredRows, RowsIn, HasRoom, HasRoomIn, StoredLane, LaneIn, PageOf, PageAt, RowOf, RowOfIn, Lanes
<1>2. Room' = RoomIn(layout', table')
  BY DEF Room, RoomIn, HasRoom, HasRoomIn, PageOf, PageAt
<1>3. Promised' = PromisedIn(D', out', Room')
  BY DEF Promised, PromisedIn, AttendedBy, AttendedIn, RowOf, RowOfIn
<1> QED BY <1>1, <1>2, <1>3

(* Lanes that are all in place are of their row. *)
LEMMA RowOfPlaced ==
  ASSUME NEW n \in Nat \ {0}, NEW b, NEW heads, heads # {}, NEW lane, NEW row, IsRow(row),
         \A h \in heads, d \in Idx(n) : lane[<<h, d>>] = Place(row, b, h, d)
  PROVE  RowOfIn(n, lane, b, heads) = row
<1> DEFINE hd == CHOOSE x \in heads \X Idx(n) : TRUE
           some == lane[hd]
<1>1. hd \in heads \X Idx(n)
  <2>1. 0 \in Idx(n)
    BY DEF Idx
  <2>2. PICK h \in heads : TRUE
    OBVIOUS
  <2>3. <<h, 0>> \in heads \X Idx(n)
    BY <2>1
  <2> QED BY <2>3
<1> HIDE DEF hd
<1>2. some = Place(row, b, hd[1], hd[2])
  BY <1>1
<1>3. <<some[1], some[2]>> = row /\ row[1] \in Nat /\ row[2] \in Nat
  <2>1. CASE row = NoRow
    BY <1>2, <2>1 DEF Place, NoRow, Zero
  <2>2. CASE row # NoRow
    <3>1. row \in (Nat \ {0}) \X Nat /\ row = <<row[1], row[2]>>
      BY <2>2 DEF IsRow
    <3>2. some = <<row[1], row[2], b, hd[1], hd[2]>>
      BY <1>2, <2>2 DEF Place
    <3> QED BY <3>1, <3>2
  <2> QED BY <2>1, <2>2
<1>4. \A x \in heads \X Idx(n) : lane[x] = Place(row, b, x[1], x[2])
  OBVIOUS
<1> HIDE DEF some
<1>5. RowOfIn(n, lane, b, heads) =
        IF \A x \in heads \X Idx(n) : lane[x] = Place(<<some[1], some[2]>>, b, x[1], x[2])
        THEN <<some[1], some[2]>> ELSE Corrupt
  BY DEF RowOfIn, Place, NoRow, Unwritten, some, hd
<1> QED BY <1>3, <1>4, <1>5

(* Every position with storage holds one row in all its lanes, each in its
   place. *)
Held(l, n, k, q, w, tab, rws) ==
    \A b \in Idx(B), p \in Idx(Capacity) :
        HasRoomIn(l, tab, b, p) =>
            /\ IsRow(rws[b][p])
            /\ \A h \in Idx(Hkv), d \in Idx(n) : LaneIn(l, n, k, q, w, tab, b, p, h, d) = Place(rws[b][p], b, h, d)

(* Then the mapping gives these rows. *)
LEMMA RowsAre ==
  ASSUME NEW n \in Nat \ {0}, NEW l, NEW k, NEW q, NEW w, NEW tab, NEW rws, Held(l, n, k, q, w, tab, rws)
  PROVE  RowsIn(l, n, k, q, w, tab) =
            [b \in Idx(B) |-> [p \in Idx(Capacity) |-> IF HasRoomIn(l, tab, b, p) THEN rws[b][p] ELSE Unwritten]]
<1>1. \A b \in Idx(B), p \in Idx(Capacity) : HasRoomIn(l, tab, b, p) =>
         RowOfIn(n, [hd \in Idx(Hkv) \X Idx(n) |-> LaneIn(l, n, k, q, w, tab, b, p, hd[1], hd[2])], b, Idx(Hkv))
           = rws[b][p]
  <2> SUFFICES ASSUME NEW b \in Idx(B), NEW p \in Idx(Capacity), HasRoomIn(l, tab, b, p)
               PROVE  RowOfIn(n, [hd \in Idx(Hkv) \X Idx(n) |-> LaneIn(l, n, k, q, w, tab, b, p, hd[1], hd[2])], b, Idx(Hkv))
                        = rws[b][p]
    OBVIOUS
  <2> DEFINE lane == [hd \in Idx(Hkv) \X Idx(n) |-> LaneIn(l, n, k, q, w, tab, b, p, hd[1], hd[2])]
  <2>1. \A h \in Idx(Hkv), d \in Idx(n) : lane[<<h, d>>] = LaneIn(l, n, k, q, w, tab, b, p, h, d)
    OBVIOUS
  <2>2. IsRow(rws[b][p]) /\ \A h \in Idx(Hkv), d \in Idx(n) : LaneIn(l, n, k, q, w, tab, b, p, h, d) = Place(rws[b][p], b, h, d)
    BY DEF Held
  <2>3. Idx(Hkv) # {}
    BY Sizes DEF Idx
  <2> HIDE DEF lane
  <2>4. RowOfIn(n, lane, b, Idx(Hkv)) = rws[b][p]
    BY <2>1, <2>2, <2>3, RowOfPlaced
  <2> QED BY <2>4 DEF lane
<1> QED BY <1>1 DEF RowsIn

(* A batch element's storage is the positions below its room. *)
LEMMA RoomIs ==
  ASSUME NEW l \in {"contiguous", "quantized", "paged", "paged_quantized"}, NEW tab,
         l \in {"paged", "paged_quantized"} => IsTable(tab)
  PROVE  /\ RoomIn(l, tab) \in [Idx(B) -> 0..Capacity]
         /\ \A b \in Idx(B), p \in Idx(Capacity) : HasRoomIn(l, tab, b, p) <=> p < RoomIn(l, tab)[b]
         /\ l \in {"contiguous", "quantized"} => \A b \in Idx(B) : RoomIn(l, tab)[b] = MAX_S
<1>1. ASSUME NEW b \in Idx(B)
      PROVE  /\ RoomIn(l, tab)[b] \in 0..Capacity
             /\ \A p \in Idx(Capacity) : HasRoomIn(l, tab, b, p) <=> p < RoomIn(l, tab)[b]
             /\ l \in {"contiguous", "quantized"} => RoomIn(l, tab)[b] = MAX_S
  <2> DEFINE S == {p \in Idx(Capacity) : HasRoomIn(l, tab, b, p)}
  <2>1. \A p \in S, q \in Idx(Capacity) : q <= p => q \in S
    <3>1. CASE l \in {"contiguous", "quantized"}
      BY <3>1, Sizes DEF HasRoomIn, Idx
    <3>2. CASE l \in {"paged", "paged_quantized"}
      BY <3>2, PagedRoom DEF HasRoomIn
    <3> QED BY <3>1, <3>2
  <2>2. RoomIn(l, tab)[b] = Cardinality(S)
    BY DEF RoomIn
  <2>3. Cardinality(S) \in 0..Capacity /\ \A p \in Idx(Capacity) : p \in S <=> p < Cardinality(S)
    <3> HIDE DEF S
    <3>1. S \in SUBSET Idx(Capacity) /\ Capacity \in Nat
      BY BlockSizes DEF S
    <3> QED BY <2>1, <3>1, PrefixCardinality
  <2>4. ASSUME l \in {"contiguous", "quantized"} PROVE Cardinality(S) = MAX_S
    <3>1. S = Idx(MAX_S)
      BY <2>4, Sizes, BlockSizes DEF HasRoomIn, Idx
    <3>2. Cardinality(Idx(MAX_S)) = MAX_S
      BY Sizes, FS_Interval DEF Idx
    <3> QED BY <3>1, <3>2
  <2> QED BY <2>2, <2>3, <2>4
<1>2. RoomIn(l, tab) = [b \in Idx(B) |-> RoomIn(l, tab)[b]]
  BY DEF RoomIn
<1> QED BY <1>1, <1>2

------------------------------------------------------------------------------
(* What calls promise                                                       *)

(* The lanes of a row, in place. *)
PlacedRow(row, n, b, h) == [d \in Idx(n) |-> Place(row, b, h, d)]

(* For batch element b every query head reads the rows of now at the
   positions seen, in its own kv head. *)
ReadsOne(n, now, o, b, seen) ==
    /\ \A j \in seen : IsRow(now[b][j])
    /\ \A hq \in Idx(o.heads) : o.rows[b * o.heads + hq] =
             [j \in seen |-> PlacedRow(now[b][j], n, b, HeadOf(hq, o.heads))]

(* Then the mapping of the answer gives these rows. *)
LEMMA AttendedIs ==
  ASSUME NEW n \in Nat \ {0}, NEW o, o.heads \in {Hq, Hkv}, NEW b \in Idx(B), NEW seen, NEW now,
         ReadsOne(n, now, o, b, seen)
  PROVE  AttendedIn(n, o, b) = [j \in seen |-> now[b][j]]
<1> DEFINE heads == o.heads
           at(hq) == o.rows[b * heads + hq]
           row(hq, j) == RowOfIn(n, [hd \in {HeadOf(hq, heads)} \X Idx(n) |-> at(hq)[j][hd[2]]], b, {HeadOf(hq, heads)})
<1>1. ASSUME NEW hq \in Idx(heads), NEW j \in seen
      PROVE  row(hq, j) = now[b][j]
  <2> DEFINE h == HeadOf(hq, heads)
             lane == [hd \in {h} \X Idx(n) |-> at(hq)[j][hd[2]]]
  <2>1. at(hq)[j] = PlacedRow(now[b][j], n, b, h) /\ IsRow(now[b][j])
    BY DEF ReadsOne
  <2> HIDE DEF h, at
  <2>2. \A g \in {h}, d \in Idx(n) : lane[<<g, d>>] = Place(now[b][j], b, g, d)
    BY <2>1 DEF PlacedRow
  <2> HIDE DEF lane
  <2>3. RowOfIn(n, lane, b, {h}) = now[b][j]
    BY <2>1, <2>2, RowOfPlaced
  <2> QED BY <2>3 DEF lane, h
<1>2. \A hq \in Idx(heads) : DOMAIN at(hq) = seen
  BY DEF ReadsOne
<1>3. 0 \in Idx(heads)
  BY Sizes DEF Idx
<1>4. AttendedIn(n, o, b) =
        [j \in DOMAIN at(0) |->
            IF \A hq \in Idx(heads) : DOMAIN at(hq) = DOMAIN at(0) /\ row(hq, j) = row(0, j)
            THEN row(0, j) ELSE Corrupt]
  BY DEF AttendedIn, HeadOf
<1> HIDE DEF row, at, heads
<1> QED BY <1>1, <1>2, <1>3, <1>4

(* A call's answer is right: for a length with storage it has the rows the
   pattern shows. *)
Reads(n, rm, now, heads, len, pattern, read) ==
    \A b \in Idx(B), hq \in Idx(heads) : len[b] \in 1..rm[b] =>
        read[b * heads + hq] =
            [j \in Sees(pattern, len[b]) |-> PlacedRow(now[b][j], n, b, HeadOf(hq, heads))]

(* Then what the call promises is what the abstract cache answers. *)
LEMMA PromisedIs ==
  ASSUME NEW n \in Nat \ {0}, NEW rm \in [Idx(B) -> 0..Capacity], NEW now,
         \A b \in Idx(B), p \in Idx(Capacity) : p < rm[b] => IsRow(now[b][p]),
         NEW o, o.status = "returned", o.heads \in {Hq, Hkv},
         Reads(n, rm, now, o.heads, o.len, o.pattern, o.rows)
  PROVE  PromisedIn(n, o, rm) = Cache!Answer(now, rm, [len |-> o.len, pattern |-> o.pattern])
<1> DEFINE seen(b) == Sees(o.pattern, o.len[b])
           Told == {b \in Idx(B) : o.len[b] \in 1..rm[b]}
<1>1. ASSUME NEW b \in Told
      PROVE  /\ DOMAIN o.rows[b * o.heads] = seen(b)
             /\ AttendedIn(n, o, b) = [j \in seen(b) |-> now[b][j]]
  <2>1. o.len[b] \in Nat /\ o.len[b] <= rm[b] /\ rm[b] \in 0..Capacity /\ b \in Idx(B)
    OBVIOUS
  <2> DEFINE S == seen(b)
  <2>2. \A j \in S : IsRow(now[b][j])
    <3>1. S \subseteq Idx(o.len[b])
      BY <2>1, VisibleBelow
    <3>2. Idx(o.len[b]) \subseteq Idx(Capacity) /\ \A j \in Idx(o.len[b]) : j < rm[b]
      BY <2>1, BlockSizes DEF Idx
    <3> QED BY <2>1, <3>1, <3>2
  <2>3. \A hq \in Idx(o.heads) : o.rows[b * o.heads + hq] = [j \in S |-> PlacedRow(now[b][j], n, b, HeadOf(hq, o.heads))]
    BY <2>1 DEF Reads
  <2>4. 0 \in Idx(o.heads) /\ b * o.heads + 0 = b * o.heads
    BY Sizes DEF Idx
  <2> HIDE DEF S
  <2>5. AttendedIn(n, o, b) = [j \in S |-> now[b][j]]
    <3>1. ReadsOne(n, now, o, b, S)
      BY <2>2, <2>3 DEF ReadsOne
    <3> QED BY <2>1, <3>1, AttendedIs
  <2>6. o.rows[b * o.heads + 0] = [j \in S |-> PlacedRow(now[b][j], n, b, HeadOf(0, o.heads))]
    BY <2>3, <2>4
  <2>7. DOMAIN o.rows[b * o.heads] = S
    BY <2>4, <2>6
  <2> QED BY <2>5, <2>7 DEF S
<1> DEFINE Answered == {b \in Idx(B) : o.len[b] \in 1..rm[b] /\ seen(b) # {}}
<1>2. PromisedIn(n, o, rm) = [b \in Answered |-> [j \in seen(b) |-> now[b][j]]]
  <2> HIDE DEF seen
  <2>1. {c \in Idx(B) : o.len[c] \in 1..rm[c] /\ DOMAIN o.rows[c * o.heads] # {}} = Answered
    BY <1>1
  <2>2. \A b \in Answered : AttendedIn(n, o, b) = [j \in seen(b) |-> now[b][j]]
    BY <1>1
  <2> HIDE DEF Answered
  <2> QED BY <2>1, <2>2 DEF PromisedIn
<1>3. Cache!Answer(now, rm, [len |-> o.len, pattern |-> o.pattern]) = [b \in Answered |-> [j \in seen(b) |-> now[b][j]]]
  BY DEF Cache!Answer, Cache!Batch, Idx, Sees
<1> QED BY <1>2, <1>3

(* In each layout a read of a held position collects its row. *)
LEMMA HeldRow ==
  ASSUME NEW n, NEW l, NEW k, NEW q, NEW w, NEW tab, NEW rws, Held(l, n, k, q, w, tab, rws),
         NEW b \in Idx(B), NEW j \in Idx(Capacity), HasRoomIn(l, tab, b, j), NEW h \in Idx(Hkv)
  PROVE  /\ l = "contiguous" => ContiguousRow(k, n, b, j, h) = PlacedRow(rws[b][j], n, b, h)
         /\ l = "paged" => PagedRow(k, tab, n, b, j, h) = PlacedRow(rws[b][j], n, b, h)
         /\ l = "quantized" => QuantizedRow(q, w, n, b, j, h) = PlacedRow(rws[b][j], n, b, h)
         /\ l = "paged_quantized" => PagedQuantizedRow(q, w, tab, n, b, j, h) = PlacedRow(rws[b][j], n, b, h)
<1>1. \A d \in Idx(n) : LaneIn(l, n, k, q, w, tab, b, j, h, d) = Place(rws[b][j], b, h, d)
  BY DEF Held
<1> HIDE DEF Held
<1>2. CASE l = "contiguous"
  BY <1>1, <1>2 DEF LaneIn, ContiguousRow, PlacedRow
<1>3. CASE l = "paged"
  BY <1>1, <1>3 DEF LaneIn, PagedRow, PlacedRow, PageAt
<1>4. CASE l = "quantized"
  BY <1>1, <1>4 DEF LaneIn, QuantizedRow, PlacedRow
<1>5. CASE l = "paged_quantized"
  BY <1>1, <1>5 DEF LaneIn, PagedQuantizedRow, PlacedRow, PageAt
<1> QED BY <1>2, <1>3, <1>4, <1>5

------------------------------------------------------------------------------
(* The invariant, and calls that write nothing                              *)

(* The layouts of a cache. *)
Layouts == {"contiguous", "paged", "quantized", "paged_quantized"}

(* A paged cache has a table. *)
HasTable(l, tab) == l \in {"paged", "paged_quantized"} => IsTable(tab)

(* Its arrays have the shape its layout says. *)
Shaped(l, n, k, q, w) ==
    /\ l = "contiguous" => DOMAIN k = Idx(B * MAX_S * Hkv * n)
    /\ l = "paged" => DOMAIN k = Idx(NUM_PAGES * PAGE_SIZE * Hkv * n)
    /\ l = "quantized" => w \in {8, 4} /\ IsQuantized(q, w, B, MAX_S, n)
    /\ l = "paged_quantized" => w \in {8, 4} /\ IsQuantized(q, w, NUM_PAGES, PAGE_SIZE, n)

(* The inductive invariant: the shapes, the table, and that every position
   with storage holds, in all the lanes of all its heads, one row in its
   place. Without the last, reads and conversions of what is stored say
   nothing of rows. *)
KVInv ==
    /\ D \in Dims /\ layout \in Layouts /\ steps \in Nat
    /\ HasTable(layout, table) /\ Shaped(layout, D, K, Q, bits)
    /\ layout = "paged_quantized" => DOMAIN lengths = Idx(B)
    /\ out = None \/ out.status \in {"returned", "raised"}
    /\ Held(layout, D, K, Q, bits, table, StoredRows)

(* What the mapping gives of rows that are held. *)
LEMMA Viewed ==
  ASSUME NEW l \in Layouts, NEW n \in Nat \ {0}, NEW k, NEW q, NEW w, NEW tab, HasTable(l, tab),
         NEW rws, Held(l, n, k, q, w, tab, rws),
         NEW rm, rm = RoomIn(l, tab), NEW now, now = RowsIn(l, n, k, q, w, tab)
  PROVE  /\ rm \in [Idx(B) -> 0..Capacity]
         /\ \A b \in Idx(B), p \in Idx(Capacity) : HasRoomIn(l, tab, b, p) <=> p < rm[b]
         /\ l \in {"contiguous", "quantized"} => \A b \in Idx(B) : rm[b] = MAX_S
         /\ now = [b \in Idx(B) |-> [p \in Idx(Capacity) |-> IF p < rm[b] THEN rws[b][p] ELSE Unwritten]]
         /\ \A b \in Idx(B), p \in Idx(Capacity) : p < rm[b] => IsRow(now[b][p])
         /\ Held(l, n, k, q, w, tab, now)
<1>1. /\ rm \in [Idx(B) -> 0..Capacity]
      /\ \A b \in Idx(B), p \in Idx(Capacity) : HasRoomIn(l, tab, b, p) <=> p < rm[b]
      /\ l \in {"contiguous", "quantized"} => \A b \in Idx(B) : rm[b] = MAX_S
  BY RoomIs DEF Layouts, HasTable
<1>2. now = [b \in Idx(B) |-> [p \in Idx(Capacity) |-> IF HasRoomIn(l, tab, b, p) THEN rws[b][p] ELSE Unwritten]]
  BY RowsAre
<1>3. now = [b \in Idx(B) |-> [p \in Idx(Capacity) |-> IF p < rm[b] THEN rws[b][p] ELSE Unwritten]]
  BY <1>1, <1>2
<1>4. \A b \in Idx(B), p \in Idx(Capacity) : HasRoomIn(l, tab, b, p) => now[b][p] = rws[b][p] /\ IsRow(rws[b][p])
  BY <1>2 DEF Held
<1>5. Held(l, n, k, q, w, tab, now)
  BY <1>4 DEF Held
<1> QED BY <1>1, <1>3, <1>4, <1>5

(* A head has lanes. *)
LEMMA Dimension == KVInv => D \in Nat \ {0}
  BY KVCacheLayoutsAssumption DEF KVInv

(* What the invariant and the mapping say of a state. *)
LEMMA View ==
  ASSUME KVInv, Mapped
  PROVE  /\ room \in [Idx(B) -> 0..Capacity]
         /\ \A b \in Idx(B), p \in Idx(Capacity) : HasRoomIn(layout, table, b, p) <=> p < room[b]
         /\ layout \in {"contiguous", "quantized"} => \A b \in Idx(B) : room[b] = MAX_S
         /\ \A b \in Idx(B), p \in Idx(Capacity) : p < room[b] => IsRow(rows[b][p])
         /\ rows = [b \in Idx(B) |-> [p \in Idx(Capacity) |-> IF p < room[b] THEN rows[b][p] ELSE Unwritten]]
         /\ Held(layout, D, K, Q, bits, table, rows)
<1>1. room = RoomIn(layout, table) /\ rows = RowsIn(layout, D, K, Q, bits, table)
  BY StoredIs DEF Mapped
<1>2. Held(layout, D, K, Q, bits, table, rows) /\ layout \in Layouts /\ HasTable(layout, table)
  BY DEF KVInv, Mapped
<1> QED BY <1>1, <1>2, Dimension, Viewed

(* ... and of the next one, once its rows are known. *)
LEMMA ViewNext ==
  ASSUME Mapped', layout' \in Layouts, D' \in Nat \ {0}, HasTable(layout', table'),
         NEW rws, Held(layout', D', K', Q', bits', table', rws)
  PROVE  /\ room' \in [Idx(B) -> 0..Capacity]
         /\ \A b \in Idx(B), p \in Idx(Capacity) : HasRoomIn(layout', table', b, p) <=> p < room'[b]
         /\ rows' = [b \in Idx(B) |-> [p \in Idx(Capacity) |-> IF p < room'[b] THEN rws[b][p] ELSE Unwritten]]
         /\ \A b \in Idx(B), p \in Idx(Capacity) : p < room'[b] => IsRow(rows'[b][p])
         /\ Held(layout', D', K', Q', bits', table', StoredRows')
         /\ room' = RoomIn(layout', table') /\ attended' = PromisedIn(D', out', room')
<1>1. /\ room' = RoomIn(layout', table') /\ rows' = RowsIn(layout', D', K', Q', bits', table')
      /\ attended' = PromisedIn(D', out', room') /\ StoredRows' = rows'
  BY StoredBecomes DEF Mapped
<1>2. Held(layout', D', K', Q', bits', table', rows')
  BY <1>1, Viewed
<1> QED BY <1>1, <1>2, Viewed

(* A call that leaves the cache as it is. *)
Kept == UNCHANGED <<D, layout, K, Q, bits, table, lengths, steps>>

(* It keeps the invariant and the rows. *)
LEMMA KeptRows ==
  ASSUME KVInv, Mapped, Mapped', Kept, out' = None \/ out'.status \in {"returned", "raised"}
  PROVE  KVInv' /\ rows' = rows /\ room' = room
<1>1. rows' = rows /\ room' = room /\ StoredRows' = StoredRows
  BY StoredIs, StoredBecomes DEF Mapped, Kept
<1>2. Held(layout', D', K', Q', bits', table', StoredRows')
  BY <1>1 DEF KVInv, Kept
<1>3. KVInv'
  BY <1>2 DEF KVInv, Kept, None
<1> QED BY <1>1, <1>3

(* A call that raises without a write is Refuse of the abstract cache. *)
LEMMA RefuseStep ==
  ASSUME KVInv, Mapped, Mapped', Kept, out = None, out' = Raised
  PROVE  KVInv' /\ Cache!Refuse
<1>1. out'.status = "raised" /\ out.status = "idle" /\ Asked' = Asked
  BY DEF Raised, None, Asked
<1>2. KVInv' /\ rows' = rows /\ room' = room
  BY <1>1, KeptRows
<1>3. attended = <<>> /\ attended' = <<>>
  BY <1>1, StoredIs, StoredBecomes DEF Mapped, PromisedIn
<1> QED BY <1>1, <1>2, <1>3 DEF Cache!Refuse, Cache!Raises, Kept

(* A read with a right answer is Attend. *)
LEMMA AttendStep ==
  ASSUME KVInv, Mapped, Mapped', Kept, out = None, out'.status = "returned",
         out'.heads \in {Hq, Hkv}, out'.pattern \in Patterns \cup {Dense}, DOMAIN out'.len = Idx(B),
         Reads(D, room, rows, out'.heads, out'.len, out'.pattern, out'.rows)
  PROVE  KVInv' /\ Cache!Attend
<1>1. KVInv' /\ rows' = rows /\ room' = room
  BY KeptRows
<1>2. attended' = PromisedIn(D, out', room)
  BY <1>1, StoredBecomes DEF Mapped, Kept
<1>3. PromisedIn(D, out', room) = Cache!Answer(rows, room, [len |-> out'.len, pattern |-> out'.pattern])
  BY View, Dimension, PromisedIs
<1>4. out.status = "idle" /\ Asked' = [len |-> out'.len, pattern |-> out'.pattern]
  BY DEF None, Asked
<1> QED BY <1>1, <1>2, <1>3, <1>4 DEF Cache!Attend, Cache!Returns, Cache!Batch, Cache!Dense, Dense, Idx, Kept

(* Taking the answer is TakeOutput. *)
LEMMA TakeOutputStep ==
  ASSUME KVInv, Mapped, Mapped', TakeOutput
  PROVE  KVInv' /\ Cache!TakeOutput
<1>1. Kept /\ out' = None /\ out.status # "idle" /\ out'.status = "idle"
  BY DEF TakeOutput, Kept, None, KVInv
<1>2. KVInv' /\ rows' = rows /\ room' = room
  BY <1>1, KeptRows
<1>3. attended' = <<>> /\ Asked' = Cache!NotAsked
  BY <1>1, StoredBecomes DEF Mapped, PromisedIn, Asked, None, Cache!NotAsked, Cache!Dense, Dense
<1> QED BY <1>1, <1>2, <1>3 DEF Cache!TakeOutput, Kept

------------------------------------------------------------------------------
(* Calls that write a row                                                   *)

(* The rows after a decode step that writes at pos. *)
Wrote(rws, pos, step) ==
    [b \in Idx(B) |-> [p \in Idx(Capacity) |-> IF p = pos[b] THEN <<step, pos[b]>> ELSE rws[b][p]]]

(* A call that writes its row, keeps the others and answers from the rows
   after the write is DecodeStep. *)
LEMMA WriteStep ==
  ASSUME KVInv, Mapped, Mapped', layout \in {"contiguous", "paged"}, out = None, steps < MaxSteps, steps' = steps + 1,
         UNCHANGED <<D, layout, Q, bits, table, lengths>>, Shaped(layout, D, K', Q, bits),
         NEW pos \in [Idx(B) -> Idx(Capacity)],
         Held(layout, D, K', Q, bits, table, Wrote(rows, pos, steps + 1)),
         out'.status = "returned", out'.heads \in {Hq, Hkv}, out'.pattern = Dense,
         out'.len = [b \in Idx(B) |-> pos[b] + 1],
         Reads(D, room, Wrote(rows, pos, steps + 1), out'.heads, out'.len, out'.pattern, out'.rows)
  PROVE  KVInv' /\ Cache!DecodeStep
<1> DEFINE after == Wrote(rows, pos, steps + 1)
<1>0. D' = D /\ D \in Nat \ {0} /\ D \in Dims /\ layout \in Layouts /\ HasTable(layout, table) /\ steps \in Nat
  BY Dimension DEF KVInv
<1>1. /\ room' \in [Idx(B) -> 0..Capacity]
      /\ rows' = [b \in Idx(B) |-> [p \in Idx(Capacity) |-> IF p < room'[b] THEN after[b][p] ELSE Unwritten]]
      /\ \A b \in Idx(B), p \in Idx(Capacity) : p < room'[b] => IsRow(rows'[b][p])
      /\ Held(layout', D', K', Q', bits', table', StoredRows')
      /\ attended' = PromisedIn(D', out', room')
  <2>1. Held(layout', D', K', Q', bits', table', after)
    OBVIOUS
  <2> HIDE DEF after
  <2> QED BY <1>0, <2>1, ViewNext
<1>2. room' = room
  BY StoredIs, StoredBecomes DEF Mapped
<1>3. KVInv'
  <2>1. HasTable(layout', table') /\ Shaped(layout', D', K', Q', bits')
    BY <1>0
  <2>2. steps' \in Nat
    BY <1>0
  <2> QED BY <1>0, <1>1, <2>1, <2>2 DEF KVInv
<1>4. Reads(D, room, rows', out'.heads, out'.len, out'.pattern, out'.rows)
  <2>1. ASSUME NEW b \in Idx(B), out'.len[b] \in 1..room[b], NEW j \in Sees(out'.pattern, out'.len[b])
        PROVE  rows'[b][j] = after[b][j]
    <3>1. out'.len[b] = pos[b] + 1 /\ pos[b] \in Idx(Capacity) /\ Sees(out'.pattern, out'.len[b]) = Idx(out'.len[b])
      BY DenseVisible
    <3>2. room[b] \in 0..Capacity
      BY <1>1, <1>2
    <3>3. j \in Idx(Capacity) /\ j < room[b]
      BY <2>1, <3>1, <3>2, BlockSizes DEF Idx
    <3> HIDE DEF after
    <3> QED BY <1>1, <1>2, <3>3
  <2>2. \A b \in Idx(B) : out'.len[b] \in 1..room[b] =>
           \A hq : [j \in Sees(out'.pattern, out'.len[b]) |-> PlacedRow(rows'[b][j], D, b, HeadOf(hq, out'.heads))] =
                   [j \in Sees(out'.pattern, out'.len[b]) |-> PlacedRow(after[b][j], D, b, HeadOf(hq, out'.heads))]
    <3> HIDE DEF after
    <3> QED BY <2>1
  <2>3. Reads(D, room, after, out'.heads, out'.len, out'.pattern, out'.rows)
    OBVIOUS
  <2> HIDE DEF after
  <2> SUFFICES ASSUME NEW b \in Idx(B), NEW hq \in Idx(out'.heads), out'.len[b] \in 1..room[b]
               PROVE  out'.rows[b * out'.heads + hq] =
                        [j \in Sees(out'.pattern, out'.len[b]) |-> PlacedRow(rows'[b][j], D, b, HeadOf(hq, out'.heads))]
    BY DEF Reads
  <2>4. out'.rows[b * out'.heads + hq] =
          [j \in Sees(out'.pattern, out'.len[b]) |-> PlacedRow(after[b][j], D, b, HeadOf(hq, out'.heads))]
    BY <2>3 DEF Reads
  <2> QED BY <2>2, <2>4
<1>5. attended' = Cache!Answer(rows', room, [len |-> out'.len, pattern |-> out'.pattern])
  <2>1. room \in [Idx(B) -> 0..Capacity] /\ attended' = PromisedIn(D, out', room)
    BY <1>0, <1>1, <1>2
  <2>2. \A b \in Idx(B), p \in Idx(Capacity) : p < room[b] => IsRow(rows'[b][p])
    BY <1>1, <1>2
  <2>3. PromisedIn(D, out', room) = Cache!Answer(rows', room, [len |-> out'.len, pattern |-> out'.pattern])
    BY <1>0, <1>4, <2>1, <2>2, PromisedIs
  <2> QED BY <2>1, <2>3
<1>6. rows' = Cache!Written(rows, room, pos)
  <2>1. rows = [b \in Idx(B) |-> [p \in Idx(Capacity) |-> IF p < room[b] THEN rows[b][p] ELSE Unwritten]]
    BY View
  <2>2. ASSUME NEW b \in Idx(B)
        PROVE  rows'[b] = [rows[b] EXCEPT ![pos[b]] = IF pos[b] < room[b] THEN <<steps + 1, pos[b]>> ELSE @]
    <3>1. DOMAIN rows[b] = Idx(Capacity) /\ \A p \in Idx(Capacity) : p >= room[b] => rows[b][p] = Unwritten
      <4>1. rows[b] = [p \in Idx(Capacity) |-> IF p < room[b] THEN rows[b][p] ELSE Unwritten]
        BY <2>1
      <4>2. \A p \in Idx(Capacity) : rows[b][p] = IF p < room[b] THEN rows[b][p] ELSE Unwritten
        BY <4>1
      <4>3. \A p \in Idx(Capacity) : p >= room[b] => ~(p < room[b])
        BY <1>1, <1>2 DEF Idx
      <4> QED BY <4>1, <4>2, <4>3
    <3>2. rows[b] = [p \in Idx(Capacity) |-> rows[b][p]]
      BY <2>1
    <3>3. rows'[b] = [p \in Idx(Capacity) |-> IF p < room[b] THEN after[b][p] ELSE Unwritten]
      <4> HIDE DEF after
      <4> QED BY <1>1, <1>2
    <3>4. \A p \in Idx(Capacity) : p < room[b] \/ p >= room[b]
      BY <1>1, <1>2 DEF Idx
    <3>5. \A p \in Idx(Capacity) : rows'[b][p] = IF p = pos[b] THEN (IF p < room[b] THEN <<steps + 1, pos[b]>> ELSE rows[b][p]) ELSE rows[b][p]
      <4>1. \A p \in Idx(Capacity) : after[b][p] = IF p = pos[b] THEN <<steps + 1, pos[b]>> ELSE rows[b][p]
        BY DEF Wrote
      <4> HIDE DEF after
      <4> QED BY <3>1, <3>3, <3>4, <4>1
    <3> QED BY <3>2, <3>3, <3>5
  <2>3. rows' = [b \in Idx(B) |-> rows'[b]]
    <3> HIDE DEF after
    <3> QED BY <1>1
  <2> QED BY <2>2, <2>3 DEF Cache!Written, Cache!Batch, Idx
<1>7. /\ out.status = "idle" /\ Asked' = [len |-> out'.len, pattern |-> out'.pattern]
      /\ Asked' = [len |-> [b \in Cache!Batch |-> pos[b] + 1], pattern |-> Cache!Dense]
      /\ pos \in [Cache!Batch -> Cache!Positions]
  BY DEF None, Asked, Cache!Batch, Cache!Positions, Cache!Dense, Dense, Idx
<1> QED BY <1>2, <1>3, <1>5, <1>6, <1>7 DEF Cache!DecodeStep, Cache!Returns

------------------------------------------------------------------------------
(* Conversions                                                              *)

(* The rows below a length. *)
Keeping(rws, keep) ==
    [b \in Idx(B) |-> [p \in Idx(Capacity) |-> IF p < keep[b] THEN rws[b][p] ELSE Unwritten]]

(* A conversion that keeps the rows below a length, with storage for them,
   is Convert. *)
LEMMA ConvertStep ==
  ASSUME KVInv, Mapped, Mapped', out = None, UNCHANGED <<D, steps, out>>, layout' \in Layouts,
         HasTable(layout', table'), Shaped(layout', D, K', Q', bits'),
         layout' = "paged_quantized" => DOMAIN lengths' = Idx(B),
         NEW keep \in [Idx(B) -> 0..Capacity],
         Held(layout', D, K', Q', bits', table', Keeping(rows, keep)),
         \A b \in Idx(B), p \in Idx(Capacity) : p < keep[b] /\ p < room[b] => HasRoomIn(layout', table', b, p)
  PROVE  KVInv' /\ Cache!Convert
<1> DEFINE after == Keeping(rows, keep)
<1>0. D' = D /\ D \in Nat \ {0} /\ D \in Dims /\ steps' \in Nat
  BY Dimension DEF KVInv
<1>1. /\ room' \in [Idx(B) -> 0..Capacity]
      /\ \A b \in Idx(B), p \in Idx(Capacity) : HasRoomIn(layout', table', b, p) <=> p < room'[b]
      /\ rows' = [b \in Idx(B) |-> [p \in Idx(Capacity) |-> IF p < room'[b] THEN after[b][p] ELSE Unwritten]]
      /\ Held(layout', D', K', Q', bits', table', StoredRows')
      /\ attended' = PromisedIn(D', out', room')
  <2>1. Held(layout', D', K', Q', bits', table', after)
    BY <1>0
  <2> HIDE DEF after
  <2> QED BY <1>0, <2>1, ViewNext
<1>2. KVInv'
  <2>1. Shaped(layout', D', K', Q', bits')
    BY <1>0
  <2> QED BY <1>0, <1>1, <2>1 DEF KVInv, None
<1>3. rows' = after
  <2>1. rows = [b \in Idx(B) |-> [p \in Idx(Capacity) |-> IF p < room[b] THEN rows[b][p] ELSE Unwritten]]
    BY View
  <2>2. \A b \in Idx(B), p \in Idx(Capacity) : rows[b][p] = IF p < room[b] THEN rows[b][p] ELSE Unwritten
    BY <2>1
  <2>3. \A b \in Idx(B), p \in Idx(Capacity) : after[b][p] = IF p < keep[b] THEN rows[b][p] ELSE Unwritten
    BY DEF Keeping
  <2>4. after = [b \in Idx(B) |-> [p \in Idx(Capacity) |-> after[b][p]]]
    BY DEF Keeping
  <2> HIDE DEF after
  <2>5. \A b \in Idx(B), p \in Idx(Capacity) : (IF p < room'[b] THEN after[b][p] ELSE Unwritten) = after[b][p]
    BY <1>1, <2>2, <2>3
  <2> QED BY <1>1, <2>4, <2>5
<1>4. attended = <<>> /\ attended' = <<>> /\ Asked' = Asked /\ out.status = "idle" /\ out'.status = out.status
  BY <1>1, StoredIs DEF Mapped, PromisedIn, None, Asked
<1>5. rows' = [b \in Cache!Batch |-> [p \in Cache!Positions |-> IF p < keep[b] THEN rows[b][p] ELSE Cache!Unwritten]]
  BY <1>3 DEF Keeping, Cache!Batch, Cache!Positions, Cache!Unwritten, Unwritten, Idx
<1>6. keep \in [Cache!Batch -> 0..Capacity] /\ room' \in [Cache!Batch -> 0..Capacity]
  BY <1>1 DEF Cache!Batch, Idx
<1> QED BY <1>2, <1>4, <1>5, <1>6 DEF Cache!Convert

(* The row a step brings holds its step, its rotation and its place. *)
LEMMA NewRowElement ==
  ASSUME D \in Nat \ {0}, NEW rot
  PROVE  /\ DOMAIN NewRow(rot) = Idx(B * 1 * Hkv * D)
         /\ \A b \in Idx(B), h \in Idx(Hkv), d \in Idx(D) :
              NewRow(rot)[RowMajor(1, Hkv, D, b, 0, h, d)] = <<steps + 1, rot[b], b, h, d>>
<1>1. ASSUME NEW b \in Idx(B), NEW h \in Idx(Hkv), NEW d \in Idx(D)
      PROVE  NewRow(rot)[RowMajor(1, Hkv, D, b, 0, h, d)] = <<steps + 1, rot[b], b, h, d>>
  <2> DEFINE e == RowMajor(1, Hkv, D, b, 0, h, d)
  <2>1. e \in Idx(B * 1 * Hkv * D) /\ e \div (1 * Hkv * D) = b /\ (e \div D) % Hkv = h /\ e % D = d
    <3>1. 0 \in Idx(1) /\ 1 \in Nat \ {0}
      BY DEF Idx
    <3>2. e = RowMajor(1, Hkv, D, b, 0, h, d)
      OBVIOUS
    <3> HIDE DEF e
    <3> QED BY <3>1, <3>2, Sizes, RowMajorIndex
  <2> HIDE DEF e
  <2>2. NewRow(rot)[e] = <<steps + 1, rot[b], b, h, d>>
    BY <2>1 DEF NewRow, Array
  <2> QED BY <2>2 DEF e
<1>2. DOMAIN NewRow(rot) = Idx(B * 1 * Hkv * D)
  BY DEF NewRow, Array
<1> QED BY <1>1, <1>2

(* Either backend of kv_cache_update writes that row. *)
LEMMA ContiguousWritten ==
  ASSUME KVInv, Mapped, layout = "contiguous", NEW pos, pos \in [Idx(B) -> Idx(MAX_S)],
         NEW rot, \A b \in Idx(B) : rot[b] = pos[b], NEW backend
  PROVE  LET m == kv_cache_update(NewRow(rot), pos, backend)
         IN  /\ DOMAIN m = Idx(B * MAX_S * Hkv * D)
             /\ Held("contiguous", D, m, Q, bits, table, Wrote(rows, pos, steps + 1))
<1> DEFINE m == kv_cache_update(NewRow(rot), pos, backend)
           new == NewRow(rot)
           after == Wrote(rows, pos, steps + 1)
<1>0. D \in Nat \ {0} /\ DOMAIN K = Idx(B * MAX_S * Hkv * D) /\ steps \in Nat
  BY Dimension DEF KVInv, Shaped
<1>1. /\ DOMAIN new = Idx(B * 1 * Hkv * D)
      /\ \A b \in Idx(B), h \in Idx(Hkv), d \in Idx(D) :
              new[RowMajor(1, Hkv, D, b, 0, h, d)] = <<steps + 1, pos[b], b, h, d>>
  BY <1>0, NewRowElement
<1> HIDE DEF new
<1>2. DOMAIN m = Idx(B * MAX_S * Hkv * D)
  <2>1. CASE backend = "reference"
    BY <2>1 DEF kv_cache_update, reference_kv_cache_update, Array
  <2>2. CASE backend # "reference"
    BY <2>2 DEF kv_cache_update, kv_cache_update_kernel
  <2> QED BY <2>1, <2>2
<1>3. ASSUME NEW b \in Idx(B), NEW s \in Idx(MAX_S), NEW h \in Idx(Hkv), NEW d \in Idx(D)
      PROVE  m[RowMajor(MAX_S, Hkv, D, b, s, h, d)] =
             IF s = pos[b] THEN new[RowMajor(1, Hkv, D, b, 0, h, d)] ELSE K[RowMajor(MAX_S, Hkv, D, b, s, h, d)]
  <2>1. CASE backend = "reference"
    <3>1. m = reference_kv_cache_update(K, new, pos, D)
      BY <2>1 DEF kv_cache_update, new
    <3> HIDE DEF m
    <3> QED BY <1>0, <3>1, ReferenceUpdate
  <2>2. CASE backend # "reference"
    <3>1. m = kv_cache_update_kernel(K, new, pos, D)
      BY <2>2 DEF kv_cache_update, new
    <3> HIDE DEF m
    <3> QED BY <1>0, <1>1, <3>1, KernelUpdate
  <2> QED BY <2>1, <2>2
<1> HIDE DEF m
<1>4. Held("contiguous", D, m, Q, bits, table, after)
  <2> SUFFICES ASSUME NEW b \in Idx(B), NEW p \in Idx(Capacity), HasRoomIn("contiguous", table, b, p)
               PROVE  /\ IsRow(after[b][p])
                      /\ \A h \in Idx(Hkv), d \in Idx(D) :
                            LaneIn("contiguous", D, m, Q, bits, table, b, p, h, d) = Place(after[b][p], b, h, d)
    BY DEF Held
  <2>1. p \in Idx(MAX_S) /\ p \in Nat
    BY Sizes DEF HasRoomIn, Idx
  <2>2. /\ IsRow(rows[b][p])
        /\ \A h \in Idx(Hkv), d \in Idx(D) : K[RowMajor(MAX_S, Hkv, D, b, p, h, d)] = Place(rows[b][p], b, h, d)
    BY View DEF Held, LaneIn
  <2>3. after[b][p] = IF p = pos[b] THEN <<steps + 1, pos[b]>> ELSE rows[b][p]
    BY DEF Wrote
  <2> HIDE DEF after
  <2>4. CASE p = pos[b]
    <3>1. after[b][p] = <<steps + 1, p>> /\ <<steps + 1, p>> # NoRow /\ IsRow(<<steps + 1, p>>)
      BY <1>0, <2>1, <2>3, <2>4 DEF NoRow, IsRow
    <3>2. \A h \in Idx(Hkv), d \in Idx(D) : m[RowMajor(MAX_S, Hkv, D, b, p, h, d)] = <<steps + 1, p, b, h, d>>
      BY <1>1, <1>3, <2>1, <2>4
    <3> QED BY <3>1, <3>2 DEF LaneIn, Place
  <2>5. CASE p # pos[b]
    <3>1. \A h \in Idx(Hkv), d \in Idx(D) : m[RowMajor(MAX_S, Hkv, D, b, p, h, d)] = Place(after[b][p], b, h, d)
      BY <1>3, <2>1, <2>2, <2>3, <2>5
    <3> QED BY <2>2, <2>3, <2>5, <3>1 DEF LaneIn
  <2> QED BY <2>4, <2>5
<1> QED BY <1>2, <1>4 DEF m, new

(* ... and of paged_kv_cache_update. *)
LEMMA PagedWritten ==
  ASSUME KVInv, Mapped, layout = "paged", NEW pos, pos \in [Idx(B) -> Idx(Capacity)],
         NEW rot, \A b \in Idx(B) : rot[b] = pos[b], NEW backend
  PROVE  LET m == paged_kv_cache_update(NewRow(rot), pos, backend)
         IN  /\ DOMAIN m = Idx(NUM_PAGES * PAGE_SIZE * Hkv * D)
             /\ Held("paged", D, m, Q, bits, table, Wrote(rows, pos, steps + 1))
<1> DEFINE m == paged_kv_cache_update(NewRow(rot), pos, backend)
           new == NewRow(rot)
           after == Wrote(rows, pos, steps + 1)
<1>0. D \in Nat \ {0} /\ DOMAIN K = Idx(NUM_PAGES * PAGE_SIZE * Hkv * D) /\ steps \in Nat /\ IsTable(table)
  BY Dimension DEF KVInv, Shaped, HasTable
<1>1. /\ DOMAIN new = Idx(B * 1 * Hkv * D)
      /\ \A b \in Idx(B), h \in Idx(Hkv), d \in Idx(D) :
              new[RowMajor(1, Hkv, D, b, 0, h, d)] = <<steps + 1, pos[b], b, h, d>>
  BY <1>0, NewRowElement
<1> HIDE DEF new
<1>2. DOMAIN m = Idx(NUM_PAGES * PAGE_SIZE * Hkv * D)
  <2>1. CASE backend = "reference"
    BY <2>1 DEF paged_kv_cache_update, reference_paged_kv_cache_update, Array
  <2>2. CASE backend # "reference"
    BY <2>2 DEF paged_kv_cache_update, paged_kv_cache_update_kernel
  <2> QED BY <2>1, <2>2
<1>3. Apart(table, pos)
  BY <1>0, TargetsApart DEF InRange
<1>4. ASSUME NEW g \in Idx(NUM_PAGES), NEW o \in Idx(PAGE_SIZE), NEW h \in Idx(Hkv), NEW d \in Idx(D)
      PROVE  /\ \A b \in Idx(B) : Target(table, pos, b) = <<g, o>> =>
                    m[RowMajor(PAGE_SIZE, Hkv, D, g, o, h, d)] = new[RowMajor(1, Hkv, D, b, 0, h, d)]
             /\ (\A b \in Idx(B) : Target(table, pos, b) # <<g, o>>) =>
                    m[RowMajor(PAGE_SIZE, Hkv, D, g, o, h, d)] = K[RowMajor(PAGE_SIZE, Hkv, D, g, o, h, d)]
  <2>1. CASE backend = "reference"
    <3>1. m = reference_paged_kv_cache_update(K, new, table, pos, D)
      BY <2>1 DEF paged_kv_cache_update, new
    <3> HIDE DEF m
    <3> QED BY <1>0, <1>3, <3>1, ReferencePagedUpdate
  <2>2. CASE backend # "reference"
    <3>1. m = paged_kv_cache_update_kernel(K, new, table, pos, D)
      BY <2>2 DEF paged_kv_cache_update, new
    <3> HIDE DEF m
    <3> QED BY <1>0, <1>1, <1>3, <3>1, KernelPagedUpdate
  <2> QED BY <2>1, <2>2
<1> HIDE DEF m
<1>5. Held("paged", D, m, Q, bits, table, after)
  <2> SUFFICES ASSUME NEW b \in Idx(B), NEW p \in Idx(Capacity), HasRoomIn("paged", table, b, p)
               PROVE  /\ IsRow(after[b][p])
                      /\ \A h \in Idx(Hkv), d \in Idx(D) :
                            LaneIn("paged", D, m, Q, bits, table, b, p, h, d) = Place(after[b][p], b, h, d)
    BY DEF Held
  <2> DEFINE g == PageAt(table, b, p)
             o == p % PAGE_SIZE
  <2>1. g \in Idx(NUM_PAGES) /\ o \in Idx(PAGE_SIZE) /\ p \in Nat /\ g >= 0
    BY <1>0, PageInRange, BlockOf DEF HasRoomIn, Idx
  <2>2. /\ IsRow(rows[b][p])
        /\ \A h \in Idx(Hkv), d \in Idx(D) : K[RowMajor(PAGE_SIZE, Hkv, D, g, o, h, d)] = Place(rows[b][p], b, h, d)
    BY View DEF Held, LaneIn
  <2>3. after[b][p] = IF p = pos[b] THEN <<steps + 1, pos[b]>> ELSE rows[b][p]
    BY DEF Wrote
  <2>4. \A h \in Idx(Hkv), d \in Idx(D) :
           LaneIn("paged", D, m, Q, bits, table, b, p, h, d) = m[RowMajor(PAGE_SIZE, Hkv, D, g, o, h, d)]
    BY DEF LaneIn
  <2>5. \A c \in Idx(B) : Target(table, pos, c) = <<g, o>> => c = b /\ p = pos[b]
    <3> SUFFICES ASSUME NEW c \in Idx(B), Target(table, pos, c) = <<g, o>>
                 PROVE  c = b /\ p = pos[b]
      OBVIOUS
    <3>1. PageAt(table, c, pos[c]) = g /\ pos[c] % PAGE_SIZE = o /\ pos[c] \in Idx(Capacity)
      BY DEF Target, PageAt
    <3>2. PageAt(table, b, p) = PageAt(table, c, pos[c]) /\ p % PAGE_SIZE = pos[c] % PAGE_SIZE /\ PageAt(table, b, p) >= 0
      BY <2>1, <3>1
    <3> HIDE DEF g, o
    <3>3. b = c /\ p = pos[c]
      BY <1>0, <3>1, <3>2, TableApart
    <3> QED BY <3>3
  <2>6. p = pos[b] => Target(table, pos, b) = <<g, o>>
    BY DEF Target, PageAt
  <2> HIDE DEF after, g, o
  <2>7. CASE p = pos[b]
    <3>1. after[b][p] = <<steps + 1, p>> /\ <<steps + 1, p>> # NoRow /\ IsRow(<<steps + 1, p>>)
      BY <1>0, <2>1, <2>3, <2>7 DEF NoRow, IsRow
    <3>2. \A h \in Idx(Hkv), d \in Idx(D) : m[RowMajor(PAGE_SIZE, Hkv, D, g, o, h, d)] = <<steps + 1, p, b, h, d>>
      BY <1>1, <1>4, <2>1, <2>6, <2>7
    <3>3. \A h \in Idx(Hkv), d \in Idx(D) : Place(after[b][p], b, h, d) = <<steps + 1, p, b, h, d>>
      BY <3>1 DEF Place
    <3> QED BY <2>4, <3>1, <3>2, <3>3
  <2>8. CASE p # pos[b]
    <3>1. \A h \in Idx(Hkv), d \in Idx(D) : m[RowMajor(PAGE_SIZE, Hkv, D, g, o, h, d)] = Place(after[b][p], b, h, d)
      BY <1>4, <2>1, <2>2, <2>3, <2>5, <2>8
    <3> QED BY <2>2, <2>3, <2>4, <2>8, <3>1
  <2> QED BY <2>7, <2>8
<1> QED BY <1>2, <1>5 DEF m, new

------------------------------------------------------------------------------
(* The steps of a contiguous cache                                          *)

(* _resolve_backend gives one of the implementations or raises. *)
LEMMA Resolved ==
  ASSUME NEW name \in Backends, NEW env \in Env
  PROVE  _resolve_backend(name, env) \in {"raise", "reference", "metal", "metal_threadgroup", "metal_d64", "metal_d128"}
  BY DEF _resolve_backend, Backends, Env

(* A backend a decode step goes on with is one of these. *)
LEMMA StepBackend ==
  ASSUME NEW be \in StepBackends, be[2] # "raise"
  PROVE  be[2] \in {"reference", "metal", "metal_threadgroup", "metal_d64", "metal_d128"}
<1>1. PICK name \in Backends, env \in Env :
        be = IF name = "reference" THEN <<"reference", "reference">>
             ELSE <<UpdateBackend(name, env), _resolve_backend(name, env)>>
  BY DEF StepBackends
<1>2. be[2] = "reference" \/ be[2] = _resolve_backend(name, env)
  BY <1>1
<1> QED BY <1>2, Resolved

(* Positions in range, and the block call rotates each row by its own. *)
LEMMA PositionsOf ==
  ASSUME NEW n, NEW p \in PositionArgs(n), InRange(Positions(p), n)
  PROVE  /\ Positions(p) \in [Idx(B) -> Idx(n)]
         /\ \A b \in Idx(B) : BlockRotation(p)[b] = Positions(p)[b]
<1>1. CASE p.scalar
  BY <1>1 DEF Positions, BlockRotation, InRange
<1>2. CASE ~p.scalar
  <2>1. p.each \in [Idx(B) -> Int]
    BY <1>2, KVCacheLayoutsAssumption DEF PositionArgs
  <2> QED BY <1>2, <2>1 DEF Positions, BlockRotation, InRange
<1> QED BY <1>1, <1>2

(* An answer read from a contiguous array. *)
ReadsLanes(n, m, heads, len, pattern, read) ==
    \A b \in Idx(B), hq \in Idx(heads) : len[b] \in 1..MAX_S =>
        read[b * heads + hq] = [j \in Sees(pattern, len[b]) |-> ContiguousRow(m, n, b, j, HeadOf(hq, heads))]

(* When the array holds the rows it is right. *)
LEMMA ContiguousReads ==
  ASSUME NEW n \in Nat \ {0}, NEW m, NEW q, NEW w, NEW tab, NEW rws, Held("contiguous", n, m, q, w, tab, rws),
         NEW rm, \A b \in Idx(B) : rm[b] = MAX_S, NEW heads \in {Hq, Hkv}, NEW len, NEW pattern, NEW read,
         ReadsLanes(n, m, heads, len, pattern, read)
  PROVE  Reads(n, rm, rws, heads, len, pattern, read)
<1> SUFFICES ASSUME NEW b \in Idx(B), NEW hq \in Idx(heads), len[b] \in 1..MAX_S
             PROVE  read[b * heads + hq] =
                      [j \in Sees(pattern, len[b]) |-> PlacedRow(rws[b][j], n, b, HeadOf(hq, heads))]
  BY DEF Reads
<1>0. read[b * heads + hq] = [j \in Sees(pattern, len[b]) |-> ContiguousRow(m, n, b, j, HeadOf(hq, heads))]
  BY DEF ReadsLanes
<1> DEFINE h == HeadOf(hq, heads)
<1>1. h \in Idx(Hkv)
  BY HeadInRange
<1>2. ASSUME NEW j \in Sees(pattern, len[b])
      PROVE  ContiguousRow(m, n, b, j, h) = PlacedRow(rws[b][j], n, b, h)
  <2>1. j \in Idx(len[b])
    BY Sizes, VisibleBelow
  <2>2. j \in Idx(Capacity) /\ HasRoomIn("contiguous", tab, b, j)
    BY <2>1, Sizes, BlockSizes DEF Idx, HasRoomIn
  <2> HIDE DEF h
  <2> QED BY <1>1, <2>2, HeldRow
<1>3. read[b * heads + hq] = [j \in Sees(pattern, len[b]) |-> ContiguousRow(m, n, b, j, h)]
  BY <1>0
<1> HIDE DEF h
<1>4. read[b * heads + hq] = [j \in Sees(pattern, len[b]) |-> PlacedRow(rws[b][j], n, b, h)]
  BY <1>2, <1>3
<1> QED BY <1>4 DEF h

(* Every backend of decode_attention reads the lanes. *)
LEMMA ContiguousDecode ==
  ASSUME D \in Nat \ {0}, NEW m, DOMAIN m = Idx(B * MAX_S * Hkv * D), NEW len,
         NEW b \in Idx(B), len[b] \in 1..MAX_S
  PROVE  /\ \A hq \in Idx(Hkv),
               backend \in {"reference", "metal", "metal_threadgroup", "metal_d64", "metal_d128"} :
              decode_attention(m, len, backend)[b * Hkv + hq] =
                [j \in Sees(Dense, len[b]) |-> ContiguousRow(m, D, b, j, HeadOf(hq, Hkv))]
         /\ \A hq \in Idx(Hq) : reference_gqa_decode_attention(m, len, D, MAX_S)[b * Hq + hq] =
                [j \in Sees(Dense, len[b]) |-> ContiguousRow(m, D, b, j, HeadOf(hq, Hq))]
<1>1. Sees(Dense, len[b]) = Idx(len[b])
  BY DenseVisible
<1>2. ASSUME NEW hq \in Idx(Hkv), NEW backend \in {"reference", "metal", "metal_threadgroup", "metal_d64", "metal_d128"}
      PROVE  decode_attention(m, len, backend)[b * Hkv + hq] =
                [j \in Idx(len[b]) |-> ContiguousRow(m, D, b, j, HeadOf(hq, Hkv))]
  <2>1. HeadOf(hq, Hkv) = hq
    BY HeadInRange
  <2>2. /\ reference_decode_attention(m, len, D)[b * Hkv + hq] = [j \in Idx(len[b]) |-> ContiguousRow(m, D, b, j, hq)]
        /\ decode_attention_optimized(m, len, D)[b * Hkv + hq] = [j \in Idx(len[b]) |-> ContiguousRow(m, D, b, j, hq)]
        /\ decode_attention_threadgroup(m, len, D)[b * Hkv + hq] = [j \in Idx(len[b]) |-> ContiguousRow(m, D, b, j, hq)]
        /\ decode_attention_d64(m, len, D)[b * Hkv + hq] = [j \in Idx(len[b]) |-> ContiguousRow(m, D, b, j, hq)]
        /\ decode_attention_d128(m, len, D)[b * Hkv + hq] = [j \in Idx(len[b]) |-> ContiguousRow(m, D, b, j, hq)]
    BY ReferenceRead, LoopRead
  <2> QED BY <2>1, <2>2 DEF decode_attention
<1>3. \A hq \in Idx(Hq) : reference_gqa_decode_attention(m, len, D, MAX_S)[b * Hq + hq] =
                [j \in Idx(len[b]) |-> ContiguousRow(m, D, b, j, HeadOf(hq, Hq))]
  BY GroupedRead
<1> QED BY <1>1, <1>2, <1>3

(* A call that raises keeps the cache. *)
LEMMA KeptByRaise ==
  ASSUME Raise, UNCHANGED <<D, layout, Q, bits, table, lengths>>
  PROVE  Kept /\ out' = Raised
  BY DEF Raise, Kept

(* decode_step writes its row and reads it back with those before, or
   refuses. *)
LEMMA DecodeStepStep ==
  ASSUME KVInv, Mapped, Mapped', decode_step
  PROVE  KVInv' /\ (Cache!DecodeStep \/ Cache!Refuse)
<1>1. PICK p \in PositionArgs(MAX_S), be \in StepBackends :
        LET pos == Positions(p)
            len == [b \in Idx(B) |-> pos[b] + 1]
            updated == kv_cache_update(NewRow(pos), pos, be[1])
        IN  IF InRange(pos, MAX_S) /\ "raise" \notin {be[1], be[2]}
            THEN Advance(updated, Hkv, len, decode_attention(updated, len, be[2]))
            ELSE Raise
  BY DEF decode_step
<1> DEFINE pos == Positions(p)
           len == [b \in Idx(B) |-> pos[b] + 1]
           updated == kv_cache_update(NewRow(pos), pos, be[1])
           read == decode_attention(updated, len, be[2])
<1>2. CASE ~(InRange(pos, MAX_S) /\ "raise" \notin {be[1], be[2]})
  BY <1>1, <1>2, KeptByRaise, RefuseStep DEF decode_step
<1>3. CASE InRange(pos, MAX_S) /\ "raise" \notin {be[1], be[2]}
  <2>1. pos \in [Idx(B) -> Idx(MAX_S)]
    BY <1>3, PositionsOf
  <2>2. Advance(updated, Hkv, len, read) /\ layout = "contiguous" /\ out = None /\ steps < MaxSteps
        /\ UNCHANGED <<D, layout, Q, bits, table, lengths>>
    BY <1>1, <1>3 DEF decode_step
  <2>3. be[2] \in {"reference", "metal", "metal_threadgroup", "metal_d64", "metal_d128"}
    BY <1>3, StepBackend
  <2> HIDE DEF pos
  <2>4. DOMAIN updated = Idx(B * MAX_S * Hkv * D) /\ Held("contiguous", D, updated, Q, bits, table, Wrote(rows, pos, steps + 1))
    BY <2>1, <2>2, ContiguousWritten
  <2> HIDE DEF updated
  <2>5. ReadsLanes(D, updated, Hkv, len, Dense, read)
    <3> HIDE DEF len
    <3> QED BY <2>3, <2>4, Dimension, ContiguousDecode DEF ReadsLanes
  <2>6. Reads(D, room, Wrote(rows, pos, steps + 1), Hkv, len, Dense, read)
    <3>1. \A b \in Idx(B) : room[b] = MAX_S
      BY <2>2, View
    <3> HIDE DEF len, read
    <3> QED BY <2>4, <2>5, <3>1, Dimension, ContiguousReads
  <2>7. /\ K' = updated /\ steps' = steps + 1
        /\ out'.status = "returned" /\ out'.heads = Hkv /\ out'.len = len /\ out'.pattern = Dense /\ out'.rows = read
    BY <2>2 DEF Advance, Returned, None
  <2>8. pos \in [Idx(B) -> Idx(Capacity)]
    BY <2>1, Sizes, BlockSizes DEF Idx
  <2>9. Shaped(layout, D, K', Q, bits) /\ layout \in {"contiguous", "paged"}
    BY <2>2, <2>4, <2>7 DEF Shaped
  <2>10. Reads(D, room, Wrote(rows, pos, steps + 1), out'.heads, out'.len, out'.pattern, out'.rows)
    BY <2>6, <2>7
  <2>11. Held(layout, D, K', Q, bits, table, Wrote(rows, pos, steps + 1))
    BY <2>2, <2>4, <2>7
  <2> HIDE DEF read
  <2> QED BY <2>2, <2>7, <2>8, <2>9, <2>10, <2>11, WriteStep
<1> QED BY <1>2, <1>3

(* So does gqa_decode_block_from_qkv. *)
LEMMA DecodeBlockStep ==
  ASSUME KVInv, Mapped, Mapped', gqa_decode_block_from_qkv
  PROVE  KVInv' /\ (Cache!DecodeStep \/ Cache!Refuse)
<1>1. PICK p \in PositionArgs(MAX_S), be \in BlockBackends :
        LET pos == Positions(p)
            len == [b \in Idx(B) |-> pos[b] + 1]
            updated == kv_cache_update(NewRow(BlockRotation(p)), pos, be)
        IN  IF InRange(pos, MAX_S)
            THEN Advance(updated, Hq, len, reference_gqa_decode_attention(updated, len, D, MAX_S))
            ELSE Raise
  BY DEF gqa_decode_block_from_qkv
<1> DEFINE pos == Positions(p)
           rot == BlockRotation(p)
           len == [b \in Idx(B) |-> pos[b] + 1]
           updated == kv_cache_update(NewRow(rot), pos, be)
           read == reference_gqa_decode_attention(updated, len, D, MAX_S)
<1>2. CASE ~InRange(pos, MAX_S)
  BY <1>1, <1>2, KeptByRaise, RefuseStep DEF gqa_decode_block_from_qkv
<1>3. CASE InRange(pos, MAX_S)
  <2>1. pos \in [Idx(B) -> Idx(MAX_S)] /\ \A b \in Idx(B) : rot[b] = pos[b]
    BY <1>3, PositionsOf
  <2>2. Advance(updated, Hq, len, read) /\ layout = "contiguous" /\ out = None /\ steps < MaxSteps
        /\ UNCHANGED <<D, layout, Q, bits, table, lengths>>
    BY <1>1, <1>3 DEF gqa_decode_block_from_qkv
  <2> HIDE DEF pos, rot
  <2>4. DOMAIN updated = Idx(B * MAX_S * Hkv * D) /\ Held("contiguous", D, updated, Q, bits, table, Wrote(rows, pos, steps + 1))
    BY <2>1, <2>2, ContiguousWritten
  <2> HIDE DEF updated
  <2>5. ReadsLanes(D, updated, Hq, len, Dense, read)
    <3> HIDE DEF len
    <3> QED BY <2>4, Dimension, ContiguousDecode DEF ReadsLanes
  <2>6. Reads(D, room, Wrote(rows, pos, steps + 1), Hq, len, Dense, read)
    <3>1. \A b \in Idx(B) : room[b] = MAX_S
      BY <2>2, View
    <3> HIDE DEF len, read
    <3> QED BY <2>4, <2>5, <3>1, Dimension, ContiguousReads
  <2>7. /\ K' = updated /\ steps' = steps + 1
        /\ out'.status = "returned" /\ out'.heads = Hq /\ out'.len = len /\ out'.pattern = Dense /\ out'.rows = read
    BY <2>2 DEF Advance, Returned, None
  <2>8. pos \in [Idx(B) -> Idx(Capacity)]
    BY <2>1, Sizes, BlockSizes DEF Idx
  <2>9. Shaped(layout, D, K', Q, bits) /\ layout \in {"contiguous", "paged"}
    BY <2>2, <2>4, <2>7 DEF Shaped
  <2>10. Reads(D, room, Wrote(rows, pos, steps + 1), out'.heads, out'.len, out'.pattern, out'.rows)
    BY <2>6, <2>7
  <2>11. Held(layout, D, K', Q, bits, table, Wrote(rows, pos, steps + 1))
    BY <2>2, <2>4, <2>7
  <2> HIDE DEF read
  <2> QED BY <2>2, <2>7, <2>8, <2>9, <2>10, <2>11, WriteStep
<1> QED BY <1>2, <1>3

(* The lengths a call takes. *)
LEMMA LengthsAre ==
  ASSUME NEW n \in Nat, NEW len \in Lengths(n)
  PROVE  len \in [Idx(B) -> 0..n]
<1>1. len \in [Idx(B) -> Int] /\ InRange(len, n + 1)
  BY KVCacheLayoutsAssumption DEF Lengths
<1> QED BY <1>1 DEF InRange, Idx

(* What the invariant and the mapping say of a contiguous cache. *)
LEMMA ContiguousView ==
  ASSUME KVInv, Mapped, layout = "contiguous"
  PROVE  /\ D \in Nat \ {0} /\ DOMAIN K = Idx(B * MAX_S * Hkv * D)
         /\ Held("contiguous", D, K, Q, bits, table, rows) /\ \A b \in Idx(B) : room[b] = MAX_S
  BY Dimension, View DEF KVInv, Shaped

(* A read of lanes of a contiguous cache is Attend. *)
LEMMA ContiguousAttends ==
  ASSUME KVInv, Mapped, Mapped', layout = "contiguous", out = None, Kept,
         NEW heads \in {Hq, Hkv}, NEW len, DOMAIN len = Idx(B), NEW pattern \in Patterns \cup {Dense}, NEW read,
         out'.status = "returned", out'.heads = heads, out'.len = len, out'.pattern = pattern, out'.rows = read,
         ReadsLanes(D, K, heads, len, pattern, read)
  PROVE  KVInv' /\ Cache!Attend
<1>1. Reads(D, room, rows, heads, len, pattern, read)
  <2>1. /\ D \in Nat \ {0} /\ Held("contiguous", D, K, Q, bits, table, rows)
        /\ \A b \in Idx(B) : room[b] = MAX_S
    BY ContiguousView
  <2> QED BY <2>1, ContiguousReads
<1> QED BY <1>1, AttendStep

(* decode_attention and gqa_decode_attention attend or refuse. *)
LEMMA AttendContiguousStep ==
  ASSUME KVInv, Mapped, Mapped', AttendContiguous
  PROVE  KVInv' /\ (Cache!Attend \/ Cache!Refuse)
<1>0. layout = "contiguous" /\ out = None /\ Kept
  BY DEF AttendContiguous, Kept
<1>1. PICK len \in Lengths(MAX_S) :
        \/ out' = Returned(Hq, len, reference_gqa_decode_attention(K, len, D, MAX_S))
        \/ \E backend \in AttentionBackends :
            out' = IF backend = "raise" THEN Raised ELSE Returned(Hkv, len, decode_attention(K, len, backend))
  BY DEF AttendContiguous
<1>2. DOMAIN len = Idx(B)
  BY LengthsAre, Sizes
<1>3. ASSUME NEW heads \in {Hq, Hkv}, NEW read, out' = Returned(heads, len, read),
             ReadsLanes(D, K, heads, len, Dense, read)
      PROVE  KVInv' /\ Cache!Attend
  <2>1. out'.status = "returned" /\ out'.heads = heads /\ out'.len = len /\ out'.pattern = Dense /\ out'.rows = read
    BY <1>3 DEF Returned, None
  <2> QED BY <1>0, <1>2, <1>3, <2>1, ContiguousAttends
<1>4. CASE out' = Returned(Hq, len, reference_gqa_decode_attention(K, len, D, MAX_S))
  <2> DEFINE read == reference_gqa_decode_attention(K, len, D, MAX_S)
  <2>1. ReadsLanes(D, K, Hq, len, Dense, read)
    BY <1>0, ContiguousView, ContiguousDecode DEF ReadsLanes
  <2> HIDE DEF read
  <2>2. out' = Returned(Hq, len, read)
    BY <1>4 DEF read
  <2> QED BY <1>3, <2>1, <2>2
<1>5. ASSUME NEW backend \in AttentionBackends,
             out' = IF backend = "raise" THEN Raised ELSE Returned(Hkv, len, decode_attention(K, len, backend))
      PROVE  KVInv' /\ (Cache!Attend \/ Cache!Refuse)
  <2>1. CASE backend = "raise"
    BY <1>0, <1>5, <2>1, RefuseStep
  <2>2. CASE backend # "raise"
    <3> DEFINE read == decode_attention(K, len, backend)
    <3>1. backend \in {"reference", "metal", "metal_threadgroup", "metal_d64", "metal_d128"}
      BY <2>2, Resolved DEF AttentionBackends
    <3>2. ReadsLanes(D, K, Hkv, len, Dense, read)
      BY <1>0, <3>1, ContiguousView, ContiguousDecode DEF ReadsLanes
    <3>3. out' = Returned(Hkv, len, read)
      BY <1>5, <2>2
    <3> HIDE DEF read
    <3> QED BY <1>3, <3>2, <3>3
  <2> QED BY <2>1, <2>2
<1> QED BY <1>1, <1>4, <1>5

(* Only the window patterns reach the sparse kernel. *)
LEMMA SparseBackend ==
  ASSUME NEW pattern \in Patterns, NEW backend \in SparseBackends, ~SparseRefused(pattern, backend), backend # "reference"
  PROVE  pattern.pattern \in {"sliding_window", "sliding_window_sink"}
  BY KVCacheLayoutsAssumption DEF SparseBackends, SparseRefused, WellFormed

(* sparse_gqa_decode_attention attends or refuses. *)
LEMMA SparseDecodeStep ==
  ASSUME KVInv, Mapped, Mapped', sparse_gqa_decode_attention
  PROVE  KVInv' /\ (Cache!Attend \/ Cache!Refuse)
<1>0. layout = "contiguous" /\ out = None /\ Kept
  BY DEF sparse_gqa_decode_attention, Kept
<1>1. PICK len \in Lengths(MAX_S), pattern \in Patterns, backend \in SparseBackends :
        \/ out' = Raised
        \/ /\ ~SparseRefused(pattern, backend)
           /\ out' = Sparse(pattern, len,
                            IF backend = "reference"
                            THEN reference_sparse_gqa_decode_attention(K, len, pattern, D)
                            ELSE sliding_window_gqa_decode_attention(K, len, pattern, D))
  BY DEF sparse_gqa_decode_attention
<1>2. CASE out' = Raised
  BY <1>0, <1>2, RefuseStep
<1>3. CASE /\ ~SparseRefused(pattern, backend)
           /\ out' = Sparse(pattern, len,
                            IF backend = "reference"
                            THEN reference_sparse_gqa_decode_attention(K, len, pattern, D)
                            ELSE sliding_window_gqa_decode_attention(K, len, pattern, D))
  <2> DEFINE read == IF backend = "reference"
                     THEN reference_sparse_gqa_decode_attention(K, len, pattern, D)
                     ELSE sliding_window_gqa_decode_attention(K, len, pattern, D)
  <2>1. DOMAIN len = Idx(B)
    BY LengthsAre, Sizes
  <2>2. WellFormed(pattern) /\ (backend # "reference" => pattern.pattern \in {"sliding_window", "sliding_window_sink"})
    BY <1>3, SparseBackend, KVCacheLayoutsAssumption
  <2>3. ASSUME NEW b \in Idx(B), NEW hq \in Idx(Hq), len[b] \in 1..MAX_S
        PROVE  read[b * Hq + hq] = [j \in Sees(pattern, len[b]) |-> ContiguousRow(K, D, b, j, HeadOf(hq, Hq))]
    BY <1>0, <2>2, <2>3, ContiguousView, SparseDecodeRead
  <2>4. out' = Sparse(pattern, len, read)
    BY <1>3
  <2> HIDE DEF read
  <2>6. ReadsLanes(D, K, Hq, len, pattern, read)
    BY <2>3 DEF ReadsLanes
  <2>5. out'.status = "returned" /\ out'.heads = Hq /\ out'.len = len /\ out'.pattern = pattern /\ out'.rows = read
    BY <2>4 DEF Sparse, Returned, None
  <2> QED BY <1>0, <2>1, <2>5, <2>6, ContiguousAttends
<1> QED BY <1>1, <1>2, <1>3

(* So does sparse_gqa_attention. *)
LEMMA SparsePrefillStep ==
  ASSUME KVInv, Mapped, Mapped', sparse_gqa_attention
  PROVE  KVInv' /\ (Cache!Attend \/ Cache!Refuse)
<1>0. layout = "contiguous" /\ out = None /\ Kept
  BY DEF sparse_gqa_attention, Kept
<1>4. PICK start_position \in Idx(MAX_S), Sq \in 1..MAX_S, pattern \in Patterns, backend \in SparseBackends :
        \E i \in Idx(Sq) :
        \/ out' = Raised
        \/ /\ ~SparseRefused(pattern, backend)
           /\ out' = Sparse(pattern, [b \in Idx(B) |-> start_position + i + 1],
                            IF backend = "reference"
                            THEN reference_sparse_gqa_attention(K, pattern, start_position + i, D)
                            ELSE sliding_window_gqa_attention(K, pattern, start_position + i, D))
  BY DEF sparse_gqa_attention
<1>1. PICK i \in Idx(Sq) :
        \/ out' = Raised
        \/ /\ ~SparseRefused(pattern, backend)
           /\ out' = Sparse(pattern, [b \in Idx(B) |-> start_position + i + 1],
                            IF backend = "reference"
                            THEN reference_sparse_gqa_attention(K, pattern, start_position + i, D)
                            ELSE sliding_window_gqa_attention(K, pattern, start_position + i, D))
  BY <1>4
<1>2. CASE out' = Raised
  BY <1>0, <1>2, RefuseStep
<1>3. CASE /\ ~SparseRefused(pattern, backend)
           /\ out' = Sparse(pattern, [b \in Idx(B) |-> start_position + i + 1],
                            IF backend = "reference"
                            THEN reference_sparse_gqa_attention(K, pattern, start_position + i, D)
                            ELSE sliding_window_gqa_attention(K, pattern, start_position + i, D))
  <2> DEFINE q_abs == start_position + i
             len == [b \in Idx(B) |-> q_abs + 1]
             read == IF backend = "reference"
                     THEN reference_sparse_gqa_attention(K, pattern, q_abs, D)
                     ELSE sliding_window_gqa_attention(K, pattern, q_abs, D)
  <2>1. q_abs \in Nat
    BY Sizes DEF Idx
  <2>2. WellFormed(pattern) /\ (backend # "reference" => pattern.pattern \in {"sliding_window", "sliding_window_sink"})
    BY <1>3, SparseBackend, KVCacheLayoutsAssumption
  <2>3. out' = Sparse(pattern, len, read)
    BY <1>3
  <2> HIDE DEF q_abs
  <2>4. ASSUME NEW b \in Idx(B), NEW hq \in Idx(Hq), len[b] \in 1..MAX_S
        PROVE  read[b * Hq + hq] = [j \in Sees(pattern, len[b]) |-> ContiguousRow(K, D, b, j, HeadOf(hq, Hq))]
    <3>1. len[b] = q_abs + 1 /\ q_abs \in Idx(MAX_S)
      BY <2>1, <2>4, Sizes DEF Idx
    <3> QED BY <1>0, <2>2, <3>1, ContiguousView, SparsePrefillRead
  <2>5. DOMAIN len = Idx(B)
    OBVIOUS
  <2> HIDE DEF read, len
  <2>7. ReadsLanes(D, K, Hq, len, pattern, read)
    BY <2>4 DEF ReadsLanes
  <2>6. out'.status = "returned" /\ out'.heads = Hq /\ out'.len = len /\ out'.pattern = pattern /\ out'.rows = read
    BY <2>3 DEF Sparse, Returned, None
  <2> QED BY <1>0, <2>5, <2>6, <2>7, ContiguousAttends
<1> QED BY <1>1, <1>2, <1>3

------------------------------------------------------------------------------
(* The steps of a paged cache                                               *)

(* An answer read from pages. *)
ReadsPages(n, m, tab, rm, heads, len, read) ==
    \A b \in Idx(B), hq \in Idx(heads) : len[b] \in 1..rm[b] =>
        read[b * heads + hq] = [j \in Sees(Dense, len[b]) |-> PagedRow(m, tab, n, b, j, HeadOf(hq, heads))]

(* When the pages hold the rows it is right. *)
LEMMA PagedReads ==
  ASSUME NEW n \in Nat \ {0}, NEW m, NEW q, NEW w, NEW tab, NEW rws, Held("paged", n, m, q, w, tab, rws),
         NEW rm \in [Idx(B) -> 0..Capacity],
         \A b \in Idx(B), p \in Idx(Capacity) : HasRoomIn("paged", tab, b, p) <=> p < rm[b],
         NEW heads \in {Hq, Hkv}, NEW len, NEW read, ReadsPages(n, m, tab, rm, heads, len, read)
  PROVE  Reads(n, rm, rws, heads, len, Dense, read)
<1> SUFFICES ASSUME NEW b \in Idx(B), NEW hq \in Idx(heads), len[b] \in 1..rm[b]
             PROVE  read[b * heads + hq] =
                      [j \in Sees(Dense, len[b]) |-> PlacedRow(rws[b][j], n, b, HeadOf(hq, heads))]
  BY DEF Reads
<1> DEFINE h == HeadOf(hq, heads)
<1>1. h \in Idx(Hkv)
  BY HeadInRange
<1>2. ASSUME NEW j \in Sees(Dense, len[b])
      PROVE  PagedRow(m, tab, n, b, j, h) = PlacedRow(rws[b][j], n, b, h)
  <2>1. rm[b] \in 0..Capacity /\ j \in Idx(len[b])
    BY DenseVisible
  <2>2. j \in Idx(Capacity) /\ j < rm[b]
    BY <2>1, BlockSizes DEF Idx
  <2> HIDE DEF h
  <2> QED BY <1>1, <2>2, HeldRow
<1>3. read[b * heads + hq] = [j \in Sees(Dense, len[b]) |-> PagedRow(m, tab, n, b, j, h)]
  BY DEF ReadsPages
<1> HIDE DEF h
<1>4. read[b * heads + hq] = [j \in Sees(Dense, len[b]) |-> PlacedRow(rws[b][j], n, b, h)]
  BY <1>2, <1>3
<1> QED BY <1>4 DEF h

(* Positions below the room have pages. *)
LEMMA RoomPages ==
  ASSUME NEW l \in {"paged", "paged_quantized"}, NEW tab, IsTable(tab), NEW rm \in [Idx(B) -> 0..Capacity],
         \A b \in Idx(B), p \in Idx(Capacity) : HasRoomIn(l, tab, b, p) <=> p < rm[b],
         NEW b \in Idx(B), NEW n \in 1..rm[b]
  PROVE  HasPages(tab, b, n) /\ n \in 1..Capacity
<1>1. rm[b] \in 0..Capacity /\ n \in 1..Capacity
  BY BlockSizes
<1>2. \A j \in Idx(n) : j \in Idx(Capacity) /\ PageAt(tab, b, j) >= 0
  BY <1>1, BlockSizes DEF HasRoomIn, Idx
<1> QED BY <1>1, <1>2, PageInRange DEF HasPages

(* Every backend of paged_decode_attention reads the lanes. *)
LEMMA PagedDecode ==
  ASSUME D \in Nat \ {0}, NEW m, DOMAIN m = Idx(NUM_PAGES * PAGE_SIZE * Hkv * D), NEW len,
         NEW b \in Idx(B), len[b] \in 1..Capacity, HasPages(table, b, len[b])
  PROVE  /\ \A hq \in Idx(Hkv),
               backend \in {"reference", "metal", "metal_threadgroup", "metal_d64", "metal_d128"} :
              paged_decode_attention(m, len, backend)[b * Hkv + hq] =
                [j \in Sees(Dense, len[b]) |-> PagedRow(m, table, D, b, j, HeadOf(hq, Hkv))]
         /\ \A hq \in Idx(Hq) : reference_paged_gqa_decode_attention(m, table, len, D)[b * Hq + hq] =
                [j \in Sees(Dense, len[b]) |-> PagedRow(m, table, D, b, j, HeadOf(hq, Hq))]
<1>1. Sees(Dense, len[b]) = Idx(len[b]) /\ len[b] \in Nat
  BY DenseVisible, BlockSizes
<1>2. ASSUME NEW hq \in Idx(Hkv), NEW backend \in {"reference", "metal", "metal_threadgroup", "metal_d64", "metal_d128"}
      PROVE  paged_decode_attention(m, len, backend)[b * Hkv + hq] =
                [j \in Idx(len[b]) |-> PagedRow(m, table, D, b, j, HeadOf(hq, Hkv))]
  <2>1. HeadOf(hq, Hkv) = hq
    BY HeadInRange
  <2> DEFINE read == [j \in Idx(len[b]) |-> PagedRow(m, table, D, b, j, hq)]
  <2>2. /\ reference_paged_decode_attention(m, table, len, D)[b * Hkv + hq] = read
        /\ paged_decode_attention_kernel(m, table, len, D)[b * Hkv + hq] = read
        /\ paged_decode_attention_threadgroup(m, table, len, D)[b * Hkv + hq] = read
        /\ paged_decode_attention_d64(m, table, len, D)[b * Hkv + hq] = read
        /\ paged_decode_attention_d128(m, table, len, D)[b * Hkv + hq] = read
    BY <1>1, ReferencePagedRead, PagedLoopRead
  <2> HIDE DEF read
  <2>3. paged_decode_attention(m, len, backend)[b * Hkv + hq] = read
    BY <2>2 DEF paged_decode_attention
  <2> QED BY <2>1, <2>3 DEF read
<1>3. \A hq \in Idx(Hq) : reference_paged_gqa_decode_attention(m, table, len, D)[b * Hq + hq] =
                [j \in Idx(len[b]) |-> PagedRow(m, table, D, b, j, HeadOf(hq, Hq))]
  BY GroupedPagedRead
<1> QED BY <1>1, <1>2, <1>3

(* What the invariant and the mapping say of a paged cache. *)
LEMMA PagedView ==
  ASSUME KVInv, Mapped, layout = "paged"
  PROVE  /\ D \in Nat \ {0} /\ DOMAIN K = Idx(NUM_PAGES * PAGE_SIZE * Hkv * D) /\ IsTable(table)
         /\ Held("paged", D, K, Q, bits, table, rows)
         /\ room \in [Idx(B) -> 0..Capacity]
         /\ \A b \in Idx(B), p \in Idx(Capacity) : HasRoomIn("paged", table, b, p) <=> p < room[b]
  BY Dimension, View DEF KVInv, Shaped, HasTable

(* All reads of it are reads from pages. *)
LEMMA PagedReadsAre ==
  ASSUME KVInv, Mapped, layout = "paged", NEW m, DOMAIN m = Idx(NUM_PAGES * PAGE_SIZE * Hkv * D), NEW len
  PROVE  /\ \A backend \in {"reference", "metal", "metal_threadgroup", "metal_d64", "metal_d128"} :
              ReadsPages(D, m, table, room, Hkv, len, paged_decode_attention(m, len, backend))
         /\ ReadsPages(D, m, table, room, Hq, len, reference_paged_gqa_decode_attention(m, table, len, D))
<1>1. D \in Nat \ {0} /\ \A b \in Idx(B) : len[b] \in 1..room[b] => HasPages(table, b, len[b]) /\ len[b] \in 1..Capacity
  BY PagedView, RoomPages
<1>2. ASSUME NEW b \in Idx(B), len[b] \in 1..room[b]
      PROVE  /\ \A hq \in Idx(Hkv),
                   backend \in {"reference", "metal", "metal_threadgroup", "metal_d64", "metal_d128"} :
                  paged_decode_attention(m, len, backend)[b * Hkv + hq] =
                    [j \in Sees(Dense, len[b]) |-> PagedRow(m, table, D, b, j, HeadOf(hq, Hkv))]
             /\ \A hq \in Idx(Hq) : reference_paged_gqa_decode_attention(m, table, len, D)[b * Hq + hq] =
                    [j \in Sees(Dense, len[b]) |-> PagedRow(m, table, D, b, j, HeadOf(hq, Hq))]
  BY <1>1, <1>2, PagedDecode
<1> QED BY <1>2 DEF ReadsPages

(* paged_decode_step writes its row and reads it back with those before, or
   refuses. *)
LEMMA PagedDecodeStep ==
  ASSUME KVInv, Mapped, Mapped', paged_decode_step
  PROVE  KVInv' /\ (Cache!DecodeStep \/ Cache!Refuse)
<1>1. PICK p \in PositionArgs(Capacity), be \in StepBackends :
        LET pos == Positions(p)
            len == [b \in Idx(B) |-> pos[b] + 1]
            updated == paged_kv_cache_update(NewRow(pos), pos, be[1])
        IN  \/ Raise
            \/ /\ InRange(pos, Capacity) /\ be[2] # "raise"
               /\ Advance(updated, Hkv, len, paged_decode_attention(updated, len, be[2]))
  BY DEF paged_decode_step
<1> DEFINE pos == Positions(p)
           len == [b \in Idx(B) |-> pos[b] + 1]
           updated == paged_kv_cache_update(NewRow(pos), pos, be[1])
           read == paged_decode_attention(updated, len, be[2])
<1>2. CASE Raise
  BY <1>2, KeptByRaise, RefuseStep DEF paged_decode_step
<1>3. CASE InRange(pos, Capacity) /\ be[2] # "raise" /\ Advance(updated, Hkv, len, read)
  <2>1. pos \in [Idx(B) -> Idx(Capacity)]
    BY <1>3, PositionsOf
  <2>2. Advance(updated, Hkv, len, read) /\ layout = "paged" /\ out = None /\ steps < MaxSteps
        /\ UNCHANGED <<D, layout, Q, bits, table, lengths>>
    BY <1>3 DEF paged_decode_step
  <2>3. be[2] \in {"reference", "metal", "metal_threadgroup", "metal_d64", "metal_d128"}
    BY <1>3, StepBackend
  <2> HIDE DEF pos
  <2>4. DOMAIN updated = Idx(NUM_PAGES * PAGE_SIZE * Hkv * D) /\ Held("paged", D, updated, Q, bits, table, Wrote(rows, pos, steps + 1))
    BY <2>1, <2>2, PagedWritten
  <2> HIDE DEF updated
  <2>5. ReadsPages(D, updated, table, room, Hkv, len, read)
    <3> HIDE DEF len
    <3> QED BY <2>2, <2>3, <2>4, PagedReadsAre
  <2>6. Reads(D, room, Wrote(rows, pos, steps + 1), Hkv, len, Dense, read)
    <3>1. /\ D \in Nat \ {0} /\ room \in [Idx(B) -> 0..Capacity]
          /\ \A b \in Idx(B), i \in Idx(Capacity) : HasRoomIn("paged", table, b, i) <=> i < room[b]
      BY <2>2, PagedView
    <3> HIDE DEF len, read
    <3> QED BY <2>4, <2>5, <3>1, PagedReads
  <2>7. /\ K' = updated /\ steps' = steps + 1
        /\ out'.status = "returned" /\ out'.heads = Hkv /\ out'.len = len /\ out'.pattern = Dense /\ out'.rows = read
    BY <2>2 DEF Advance, Returned, None
  <2>9. Shaped(layout, D, K', Q, bits) /\ layout \in {"contiguous", "paged"}
    BY <2>2, <2>4, <2>7 DEF Shaped
  <2>10. Reads(D, room, Wrote(rows, pos, steps + 1), out'.heads, out'.len, out'.pattern, out'.rows)
    BY <2>6, <2>7
  <2>11. Held(layout, D, K', Q, bits, table, Wrote(rows, pos, steps + 1))
    BY <2>2, <2>4, <2>7
  <2> HIDE DEF read
  <2> QED BY <2>1, <2>2, <2>7, <2>9, <2>10, <2>11, WriteStep
<1> QED BY <1>1, <1>2, <1>3

(* So does paged_gqa_decode_block_from_qkv. *)
LEMMA PagedBlockStep ==
  ASSUME KVInv, Mapped, Mapped', paged_gqa_decode_block_from_qkv
  PROVE  KVInv' /\ (Cache!DecodeStep \/ Cache!Refuse)
<1>1. PICK p \in PositionArgs(Capacity), be \in BlockBackends :
        LET pos == Positions(p)
            len == [b \in Idx(B) |-> pos[b] + 1]
            updated == paged_kv_cache_update(NewRow(BlockRotation(p)), pos, be)
        IN  \/ Raise
            \/ /\ InRange(pos, Capacity)
               /\ Advance(updated, Hq, len, reference_paged_gqa_decode_attention(updated, table, len, D))
  BY DEF paged_gqa_decode_block_from_qkv
<1> DEFINE pos == Positions(p)
           rot == BlockRotation(p)
           len == [b \in Idx(B) |-> pos[b] + 1]
           updated == paged_kv_cache_update(NewRow(rot), pos, be)
           read == reference_paged_gqa_decode_attention(updated, table, len, D)
<1>2. CASE Raise
  BY <1>2, KeptByRaise, RefuseStep DEF paged_gqa_decode_block_from_qkv
<1>3. CASE InRange(pos, Capacity) /\ Advance(updated, Hq, len, read)
  <2>1. pos \in [Idx(B) -> Idx(Capacity)] /\ \A b \in Idx(B) : rot[b] = pos[b]
    BY <1>3, PositionsOf
  <2>2. Advance(updated, Hq, len, read) /\ layout = "paged" /\ out = None /\ steps < MaxSteps
        /\ UNCHANGED <<D, layout, Q, bits, table, lengths>>
    BY <1>3 DEF paged_gqa_decode_block_from_qkv
  <2> HIDE DEF pos, rot
  <2>4. DOMAIN updated = Idx(NUM_PAGES * PAGE_SIZE * Hkv * D) /\ Held("paged", D, updated, Q, bits, table, Wrote(rows, pos, steps + 1))
    BY <2>1, <2>2, PagedWritten
  <2> HIDE DEF updated
  <2>5. ReadsPages(D, updated, table, room, Hq, len, read)
    <3> HIDE DEF len
    <3> QED BY <2>2, <2>4, PagedReadsAre
  <2>6. Reads(D, room, Wrote(rows, pos, steps + 1), Hq, len, Dense, read)
    <3>1. /\ D \in Nat \ {0} /\ room \in [Idx(B) -> 0..Capacity]
          /\ \A b \in Idx(B), i \in Idx(Capacity) : HasRoomIn("paged", table, b, i) <=> i < room[b]
      BY <2>2, PagedView
    <3> HIDE DEF len, read
    <3> QED BY <2>4, <2>5, <3>1, PagedReads
  <2>7. /\ K' = updated /\ steps' = steps + 1
        /\ out'.status = "returned" /\ out'.heads = Hq /\ out'.len = len /\ out'.pattern = Dense /\ out'.rows = read
    BY <2>2 DEF Advance, Returned, None
  <2>9. Shaped(layout, D, K', Q, bits) /\ layout \in {"contiguous", "paged"}
    BY <2>2, <2>4, <2>7 DEF Shaped
  <2>10. Reads(D, room, Wrote(rows, pos, steps + 1), out'.heads, out'.len, out'.pattern, out'.rows)
    BY <2>6, <2>7
  <2>11. Held(layout, D, K', Q, bits, table, Wrote(rows, pos, steps + 1))
    BY <2>2, <2>4, <2>7
  <2> HIDE DEF read
  <2> QED BY <2>1, <2>2, <2>7, <2>9, <2>10, <2>11, WriteStep
<1> QED BY <1>1, <1>2, <1>3

(* A read from pages is Attend. *)
LEMMA PagedAttends ==
  ASSUME KVInv, Mapped, Mapped', layout = "paged", out = None, Kept,
         NEW heads \in {Hq, Hkv}, NEW len \in Lengths(Capacity), NEW read, out' = Returned(heads, len, read),
         ReadsPages(D, K, table, room, heads, len, read)
  PROVE  KVInv' /\ Cache!Attend
<1>1. Reads(D, room, rows, heads, len, Dense, read)
  <2>1. /\ D \in Nat \ {0} /\ Held("paged", D, K, Q, bits, table, rows) /\ room \in [Idx(B) -> 0..Capacity]
        /\ \A b \in Idx(B), p \in Idx(Capacity) : HasRoomIn("paged", table, b, p) <=> p < room[b]
    BY PagedView
  <2> QED BY <2>1, PagedReads
<1>2. out'.status = "returned" /\ out'.heads = heads /\ out'.len = len /\ out'.pattern = Dense /\ out'.rows = read
  BY DEF Returned, None
<1>3. DOMAIN len = Idx(B)
  BY LengthsAre, BlockSizes
<1> QED BY <1>1, <1>2, <1>3, AttendStep

(* paged_decode_attention and paged_gqa_decode_attention attend or refuse. *)
LEMMA AttendPagedStep ==
  ASSUME KVInv, Mapped, Mapped', AttendPaged
  PROVE  KVInv' /\ (Cache!Attend \/ Cache!Refuse)
<1>0. layout = "paged" /\ out = None /\ Kept
  BY DEF AttendPaged, Kept
<1>1. PICK len \in Lengths(Capacity) :
        \/ out' = Raised
        \/ out' = Returned(Hq, len, reference_paged_gqa_decode_attention(K, table, len, D))
        \/ \E backend \in AttentionBackends :
            backend # "raise" /\ out' = Returned(Hkv, len, paged_decode_attention(K, len, backend))
  BY DEF AttendPaged
<1>2. CASE out' = Raised
  BY <1>0, <1>2, RefuseStep
<1>3. CASE out' = Returned(Hq, len, reference_paged_gqa_decode_attention(K, table, len, D))
  <2> DEFINE read == reference_paged_gqa_decode_attention(K, table, len, D)
  <2>1. ReadsPages(D, K, table, room, Hq, len, read)
    BY <1>0, PagedView, PagedReadsAre
  <2> HIDE DEF read
  <2>2. out' = Returned(Hq, len, read)
    BY <1>3 DEF read
  <2> QED BY <1>0, <2>1, <2>2, PagedAttends
<1>4. ASSUME NEW backend \in AttentionBackends, backend # "raise",
             out' = Returned(Hkv, len, paged_decode_attention(K, len, backend))
      PROVE  KVInv' /\ Cache!Attend
  <2> DEFINE read == paged_decode_attention(K, len, backend)
  <2>1. backend \in {"reference", "metal", "metal_threadgroup", "metal_d64", "metal_d128"}
    BY <1>4, Resolved DEF AttentionBackends
  <2>2. ReadsPages(D, K, table, room, Hkv, len, read)
    BY <1>0, <2>1, PagedView, PagedReadsAre
  <2>3. out' = Returned(Hkv, len, read)
    BY <1>4
  <2> HIDE DEF read
  <2> QED BY <1>0, <2>2, <2>3, PagedAttends
<1> QED BY <1>1, <1>2, <1>3, <1>4

------------------------------------------------------------------------------
(* The steps of quantized caches                                            *)

(* An answer read from a quantized cache. *)
ReadsQuantized(n, q, w, heads, len, read) ==
    \A b \in Idx(B), hq \in Idx(heads) : len[b] \in 1..MAX_S =>
        read[b * heads + hq] = [j \in Sees(Dense, len[b]) |-> QuantizedRow(q, w, n, b, j, HeadOf(hq, heads))]

(* When the cache holds the rows it is right. *)
LEMMA QuantizedReads ==
  ASSUME NEW n \in Nat \ {0}, NEW m, NEW q, NEW w, NEW tab, NEW rws, Held("quantized", n, m, q, w, tab, rws),
         NEW rm, \A b \in Idx(B) : rm[b] = MAX_S, NEW heads \in {Hq, Hkv}, NEW len, NEW read,
         ReadsQuantized(n, q, w, heads, len, read)
  PROVE  Reads(n, rm, rws, heads, len, Dense, read)
<1> SUFFICES ASSUME NEW b \in Idx(B), NEW hq \in Idx(heads), len[b] \in 1..MAX_S
             PROVE  read[b * heads + hq] =
                      [j \in Sees(Dense, len[b]) |-> PlacedRow(rws[b][j], n, b, HeadOf(hq, heads))]
  BY DEF Reads
<1> DEFINE h == HeadOf(hq, heads)
<1>1. h \in Idx(Hkv)
  BY HeadInRange
<1>2. ASSUME NEW j \in Sees(Dense, len[b])
      PROVE  QuantizedRow(q, w, n, b, j, h) = PlacedRow(rws[b][j], n, b, h)
  <2>1. j \in Idx(len[b])
    BY DenseVisible
  <2>2. j \in Idx(Capacity) /\ HasRoomIn("quantized", tab, b, j)
    BY <2>1, Sizes, BlockSizes DEF Idx, HasRoomIn
  <2> HIDE DEF h
  <2> QED BY <1>1, <2>2, HeldRow
<1>3. read[b * heads + hq] = [j \in Sees(Dense, len[b]) |-> QuantizedRow(q, w, n, b, j, h)]
  BY DEF ReadsQuantized
<1> HIDE DEF h
<1>4. read[b * heads + hq] = [j \in Sees(Dense, len[b]) |-> PlacedRow(rws[b][j], n, b, h)]
  BY <1>2, <1>3
<1> QED BY <1>4 DEF h

(* An answer read from quantized pages. *)
ReadsQuantizedPages(n, q, w, tab, rm, heads, len, read) ==
    \A b \in Idx(B), hq \in Idx(heads) : len[b] \in 1..rm[b] =>
        read[b * heads + hq] = [j \in Sees(Dense, len[b]) |-> PagedQuantizedRow(q, w, tab, n, b, j, HeadOf(hq, heads))]

(* When they hold the rows it is right. *)
LEMMA PagedQuantizedReads ==
  ASSUME NEW n \in Nat \ {0}, NEW m, NEW q, NEW w, NEW tab, NEW rws, Held("paged_quantized", n, m, q, w, tab, rws),
         NEW rm \in [Idx(B) -> 0..Capacity],
         \A b \in Idx(B), p \in Idx(Capacity) : HasRoomIn("paged_quantized", tab, b, p) <=> p < rm[b],
         NEW heads \in {Hq, Hkv}, NEW len, NEW read, ReadsQuantizedPages(n, q, w, tab, rm, heads, len, read)
  PROVE  Reads(n, rm, rws, heads, len, Dense, read)
<1> SUFFICES ASSUME NEW b \in Idx(B), NEW hq \in Idx(heads), len[b] \in 1..rm[b]
             PROVE  read[b * heads + hq] =
                      [j \in Sees(Dense, len[b]) |-> PlacedRow(rws[b][j], n, b, HeadOf(hq, heads))]
  BY DEF Reads
<1> DEFINE h == HeadOf(hq, heads)
<1>1. h \in Idx(Hkv)
  BY HeadInRange
<1>2. ASSUME NEW j \in Sees(Dense, len[b])
      PROVE  PagedQuantizedRow(q, w, tab, n, b, j, h) = PlacedRow(rws[b][j], n, b, h)
  <2>1. rm[b] \in 0..Capacity /\ j \in Idx(len[b])
    BY DenseVisible
  <2>2. j \in Idx(Capacity) /\ j < rm[b]
    BY <2>1, BlockSizes DEF Idx
  <2> HIDE DEF h
  <2> QED BY <1>1, <2>2, HeldRow
<1>3. read[b * heads + hq] = [j \in Sees(Dense, len[b]) |-> PagedQuantizedRow(q, w, tab, n, b, j, h)]
  BY DEF ReadsQuantizedPages
<1> HIDE DEF h
<1>4. read[b * heads + hq] = [j \in Sees(Dense, len[b]) |-> PlacedRow(rws[b][j], n, b, h)]
  BY <1>2, <1>3
<1> QED BY <1>4 DEF h

(* quantized_kv_gqa_decode_attention attends or refuses. *)
LEMMA AttendQuantizedStep ==
  ASSUME KVInv, Mapped, Mapped', AttendQuantized
  PROVE  KVInv' /\ (Cache!Attend \/ Cache!Refuse)
<1>0. layout = "quantized" /\ out = None /\ Kept
  BY DEF AttendQuantized, Kept
<1>1. /\ D \in Nat \ {0} /\ bits \in {8, 4} /\ IsQuantized(Q, bits, B, MAX_S, D)
      /\ Held("quantized", D, K, Q, bits, table, rows) /\ \A b \in Idx(B) : room[b] = MAX_S
  BY <1>0, Dimension, View DEF KVInv, Shaped
<1>2. PICK len \in Lengths(MAX_S), backend \in QuantizedBackends :
        \/ out' = Raised
        \/ out' = Returned(Hq, len, reference_quantized_kv_gqa_decode_attention(Q, bits, len, D))
        \/ bits = 8 /\ out' = Returned(Hq, len, q8_gqa_decode_attention_kernel(Q, len, D))
        \/ bits = 4 /\ out' = Returned(Hq, len, q4_gqa_decode_attention_kernel(Q, len, D))
  BY DEF AttendQuantized, WrongBits, QuantizedBackends
<1>3. ASSUME NEW read, out' = Returned(Hq, len, read), ReadsQuantized(D, Q, bits, Hq, len, read)
      PROVE  KVInv' /\ Cache!Attend
  <2>1. Reads(D, room, rows, Hq, len, Dense, read)
    BY <1>1, <1>3, QuantizedReads
  <2>2. out'.status = "returned" /\ out'.heads = Hq /\ out'.len = len /\ out'.pattern = Dense /\ out'.rows = read
    BY <1>3 DEF Returned, None
  <2>3. DOMAIN len = Idx(B)
    BY LengthsAre, Sizes
  <2> QED BY <1>0, <2>1, <2>2, <2>3, AttendStep
<1>4. ReadsQuantized(D, Q, bits, Hq, len, reference_quantized_kv_gqa_decode_attention(Q, bits, len, D))
  BY <1>1, DenseVisible, ReferenceQuantizedRead DEF ReadsQuantized
<1>5. bits = 8 => ReadsQuantized(D, Q, bits, Hq, len, q8_gqa_decode_attention_kernel(Q, len, D))
  BY <1>1, DenseVisible, Q8Read DEF ReadsQuantized
<1>6. bits = 4 => ReadsQuantized(D, Q, bits, Hq, len, q4_gqa_decode_attention_kernel(Q, len, D))
  BY <1>1, DenseVisible, Q4Read DEF ReadsQuantized
<1>7. CASE out' = Raised
  BY <1>0, <1>7, RefuseStep
<1> QED BY <1>2, <1>3, <1>4, <1>5, <1>6, <1>7

(* So does paged_quantized_kv_gqa_decode_attention. *)
LEMMA AttendPagedQuantizedStep ==
  ASSUME KVInv, Mapped, Mapped', AttendPagedQuantized
  PROVE  KVInv' /\ (Cache!Attend \/ Cache!Refuse)
<1>0. layout = "paged_quantized" /\ out = None /\ Kept
  BY DEF AttendPagedQuantized, Kept
<1>1. /\ D \in Nat \ {0} /\ bits \in {8, 4} /\ IsQuantized(Q, bits, NUM_PAGES, PAGE_SIZE, D)
      /\ Held("paged_quantized", D, K, Q, bits, table, rows) /\ IsTable(table) /\ DOMAIN lengths = Idx(B)
      /\ room \in [Idx(B) -> 0..Capacity]
      /\ \A b \in Idx(B), p \in Idx(Capacity) : HasRoomIn("paged_quantized", table, b, p) <=> p < room[b]
  BY <1>0, Dimension, View DEF KVInv, Shaped, HasTable
<1>2. PICK backend \in QuantizedBackends :
        \/ out' = Raised
        \/ out' = Returned(Hq, lengths, reference_paged_quantized_kv_gqa_decode_attention(Q, bits, table, lengths, D))
        \/ bits = 8 /\ out' = Returned(Hq, lengths, q8_paged_gqa_decode_attention_kernel(Q, table, lengths, D))
        \/ bits = 4 /\ out' = Returned(Hq, lengths, q4_paged_gqa_decode_attention_kernel(Q, table, lengths, D))
  BY DEF AttendPagedQuantized, WrongBits, QuantizedBackends
<1>3. ASSUME NEW read, out' = Returned(Hq, lengths, read),
             ReadsQuantizedPages(D, Q, bits, table, room, Hq, lengths, read)
      PROVE  KVInv' /\ Cache!Attend
  <2>1. Reads(D, room, rows, Hq, lengths, Dense, read)
    BY <1>1, <1>3, PagedQuantizedReads
  <2>2. out'.status = "returned" /\ out'.heads = Hq /\ out'.len = lengths /\ out'.pattern = Dense /\ out'.rows = read
    BY <1>3 DEF Returned, None
  <2> QED BY <1>0, <1>1, <2>1, <2>2, AttendStep
<1>4. \A b \in Idx(B) : lengths[b] \in 1..room[b] =>
         HasPages(table, b, lengths[b]) /\ lengths[b] \in Nat /\ Sees(Dense, lengths[b]) = Idx(lengths[b])
  <2>1. ASSUME NEW b \in Idx(B), lengths[b] \in 1..room[b]
        PROVE  HasPages(table, b, lengths[b]) /\ lengths[b] \in 1..Capacity
    BY <1>1, <2>1, RoomPages
  <2> QED BY <2>1, BlockSizes, DenseVisible
<1>5. ReadsQuantizedPages(D, Q, bits, table, room, Hq, lengths,
          reference_paged_quantized_kv_gqa_decode_attention(Q, bits, table, lengths, D))
  BY <1>1, <1>4, ReferencePagedQuantizedRead DEF ReadsQuantizedPages
<1>6. bits = 8 => ReadsQuantizedPages(D, Q, bits, table, room, Hq, lengths, q8_paged_gqa_decode_attention_kernel(Q, table, lengths, D))
  BY <1>1, <1>4, Q8PagedRead DEF ReadsQuantizedPages
<1>7. bits = 4 => ReadsQuantizedPages(D, Q, bits, table, room, Hq, lengths, q4_paged_gqa_decode_attention_kernel(Q, table, lengths, D))
  BY <1>1, <1>4, Q4PagedRead DEF ReadsQuantizedPages
<1>8. CASE out' = Raised
  BY <1>0, <1>8, RefuseStep
<1> QED BY <1>2, <1>3, <1>5, <1>6, <1>7, <1>8

------------------------------------------------------------------------------
(* The steps that convert                                                   *)

(* A conversion that forgets nothing keeps all. *)
Whole == [b \in Idx(B) |-> Capacity]

(* What Keeping keeps, and what it forgets reads as unwritten. *)
LEMMA PlacedKept ==
  ASSUME NEW rws, NEW keep, NEW b \in Idx(B), NEW p \in Idx(Capacity)
  PROVE  /\ Keeping(rws, keep)[b][p] = IF p < keep[b] THEN rws[b][p] ELSE NoRow
         /\ keep = Whole => Keeping(rws, keep)[b][p] = rws[b][p]
         /\ IsRow(NoRow) /\ \A h, d : Place(NoRow, b, h, d) = Zero
<1>1. Keeping(rws, keep)[b][p] = IF p < keep[b] THEN rws[b][p] ELSE NoRow
  BY DEF Keeping, NoRow, Unwritten
<1>2. keep = Whole => p < keep[b]
  BY BlockSizes DEF Whole, Idx
<1> QED BY <1>1, <1>2 DEF IsRow, Place

(* All of them is a length to keep. *)
LEMMA WholeIsKeep == Whole \in [Idx(B) -> 0..Capacity]
  BY BlockSizes DEF Whole

(* quantize_kv_cache converts. *)
LEMMA QuantizeStep ==
  ASSUME KVInv, Mapped, Mapped', Quantize
  PROVE  KVInv' /\ Cache!Convert
<1>0. layout = "contiguous" /\ out = None /\ layout' = "quantized" /\ UNCHANGED <<D, table, lengths, steps, out>>
  BY DEF Quantize
<1>1. PICK len \in Lengths(MAX_S), n \in {8, 4} : bits' = n /\ Q' = quantize_kv_cache(K, len, n, D)
  BY DEF Quantize
<1>2. len \in [Idx(B) -> 0..MAX_S] /\ len \in [Idx(B) -> 0..Capacity]
  <2>1. len \in [Idx(B) -> 0..MAX_S]
    BY LengthsAre, Sizes
  <2> QED BY <2>1, Sizes, BlockSizes
<1>3. D \in Nat \ {0} /\ Held("contiguous", D, K, Q, bits, table, rows)
  BY <1>0, ContiguousView
<1>4. Shaped("quantized", D, K', Q', bits')
  BY <1>1, QuantizedDomains DEF Shaped, quantize_kv_cache
<1>5. Held("quantized", D, K', Q', bits', table, Keeping(rows, len))
  <2> SUFFICES ASSUME NEW b \in Idx(B), NEW p \in Idx(Capacity), HasRoomIn("quantized", table, b, p)
               PROVE  /\ IsRow(Keeping(rows, len)[b][p])
                      /\ \A h \in Idx(Hkv), d \in Idx(D) :
                           LaneIn("quantized", D, K', Q', bits', table, b, p, h, d) = Place(Keeping(rows, len)[b][p], b, h, d)
    BY DEF Held
  <2>1. p \in Idx(MAX_S) /\ HasRoomIn("contiguous", table, b, p)
    BY Sizes DEF HasRoomIn, Idx
  <2>2. /\ IsRow(rows[b][p])
        /\ \A h \in Idx(Hkv), d \in Idx(D) : K[RowMajor(MAX_S, Hkv, D, b, p, h, d)] = Place(rows[b][p], b, h, d)
    BY <1>3, <2>1 DEF Held, LaneIn
  <2>3. <<b, p>> \in Below(len) <=> p < len[b]
    BY <2>1 DEF Below
  <2>4. ASSUME NEW h \in Idx(Hkv), NEW d \in Idx(D)
        PROVE  DequantizedLane(Q', bits', MAX_S, D, b, p, h, d) = IF p < len[b] THEN Place(rows[b][p], b, h, d) ELSE Zero
    <3>1. CASE n = 8
      <4>1. Q' = quantize_8(K, B, MAX_S, Below(len), D) /\ bits' = 8
        BY <1>1, <3>1 DEF quantize_kv_cache
      <4>2. DequantizedLane(quantize_8(K, B, MAX_S, Below(len), D), 8, MAX_S, D, b, p, h, d) =
               IF <<b, p>> \in Below(len) THEN Place(rows[b][p], b, h, d) ELSE Zero
        BY <1>3, <2>1, <2>2, Sizes, Quantized8
      <4> QED BY <2>3, <4>1, <4>2
    <3>2. CASE n = 4
      <4>1. Q' = quantize_4(K, B, MAX_S, Below(len), D) /\ bits' = 4
        BY <1>1, <3>2 DEF quantize_kv_cache
      <4>2. DequantizedLane(quantize_4(K, B, MAX_S, Below(len), D), 4, MAX_S, D, b, p, h, d) =
               IF <<b, p>> \in Below(len) THEN Place(rows[b][p], b, h, d) ELSE Zero
        BY <1>3, <2>1, <2>2, Sizes, Quantized4
      <4> QED BY <2>3, <4>1, <4>2
    <3> QED BY <3>1, <3>2
  <2>5. \A h \in Idx(Hkv), d \in Idx(D) : LaneIn("quantized", D, K', Q', bits', table, b, p, h, d) =
             DequantizedLane(Q', bits', MAX_S, D, b, p, h, d)
    BY DEF LaneIn
  <2> QED BY <2>2, <2>4, <2>5, PlacedKept
<1>6. \A b \in Idx(B), p \in Idx(Capacity) : p < room[b] => HasRoomIn("quantized", table, b, p)
  BY <1>0, ContiguousView DEF HasRoomIn
<1> QED BY <1>0, <1>2, <1>4, <1>5, <1>6, ConvertStep DEF Layouts, HasTable

(* So does dequantize_kv_cache. *)
LEMMA DequantizeStep ==
  ASSUME KVInv, Mapped, Mapped', Dequantize
  PROVE  KVInv' /\ Cache!Convert
<1>0. /\ layout = "quantized" /\ out = None /\ layout' = "contiguous" /\ UNCHANGED <<D, table, lengths, steps, out>>
      /\ K' = dequantize_kv_cache(Q, bits, D)
  BY DEF Dequantize
<1>1. D \in Nat \ {0} /\ Held("quantized", D, K, Q, bits, table, rows) /\ \A b \in Idx(B) : room[b] = MAX_S
  BY <1>0, Dimension, View
<1>2. Shaped("contiguous", D, K', Q', bits')
  BY <1>0 DEF Shaped, dequantize_kv_cache, Array
<1>3. Held("contiguous", D, K', Q', bits', table, Keeping(rows, Whole))
  <2> SUFFICES ASSUME NEW b \in Idx(B), NEW p \in Idx(Capacity), HasRoomIn("contiguous", table, b, p)
               PROVE  /\ IsRow(Keeping(rows, Whole)[b][p])
                      /\ \A h \in Idx(Hkv), d \in Idx(D) :
                           LaneIn("contiguous", D, K', Q', bits', table, b, p, h, d) = Place(Keeping(rows, Whole)[b][p], b, h, d)
    BY DEF Held
  <2>1. p \in Idx(MAX_S) /\ HasRoomIn("quantized", table, b, p)
    BY Sizes DEF HasRoomIn, Idx
  <2>2. /\ IsRow(rows[b][p])
        /\ \A h \in Idx(Hkv), d \in Idx(D) : DequantizedLane(Q, bits, MAX_S, D, b, p, h, d) = Place(rows[b][p], b, h, d)
    BY <1>1, <2>1 DEF Held, LaneIn
  <2>3. \A h \in Idx(Hkv), d \in Idx(D) : K'[RowMajor(MAX_S, Hkv, D, b, p, h, d)] = DequantizedLane(Q, bits, MAX_S, D, b, p, h, d)
    BY <1>0, <1>1, <2>1, DequantizedElement
  <2>4. \A h \in Idx(Hkv), d \in Idx(D) : LaneIn("contiguous", D, K', Q', bits', table, b, p, h, d) = K'[RowMajor(MAX_S, Hkv, D, b, p, h, d)]
    BY DEF LaneIn
  <2> QED BY <2>2, <2>3, <2>4, PlacedKept
<1>4. \A b \in Idx(B), p \in Idx(Capacity) : p < room[b] => HasRoomIn("contiguous", table, b, p)
  BY <1>1 DEF HasRoomIn
<1> QED BY <1>0, <1>2, <1>3, <1>4, WholeIsKeep, ConvertStep DEF Layouts, HasTable

(* So does quantize_kv_pages, up to the lengths it is given. *)
LEMMA QuantizePagesStep ==
  ASSUME KVInv, Mapped, Mapped', QuantizePages
  PROVE  KVInv' /\ Cache!Convert
<1>0. /\ layout = "paged" /\ out = None /\ layout' = "paged_quantized" /\ UNCHANGED <<D, table, steps, out>>
      /\ lengths' \in Lengths(Capacity)
  BY DEF QuantizePages
<1>1. PICK n \in {8, 4} : bits' = n /\ Q' = quantize_kv_pages(K, n, D)
  BY DEF QuantizePages
<1>2. /\ D \in Nat \ {0} /\ Held("paged", D, K, Q, bits, table, rows) /\ IsTable(table)
      /\ \A b \in Idx(B), p \in Idx(Capacity) : HasRoomIn("paged", table, b, p) <=> p < room[b]
  BY <1>0, PagedView
<1> DEFINE kept == Idx(NUM_PAGES) \X Idx(PAGE_SIZE)
<1>3. Shaped("paged_quantized", D, K', Q', bits')
  BY <1>1, QuantizedDomains DEF Shaped, quantize_kv_pages
<1>4. Held("paged_quantized", D, K', Q', bits', table, Keeping(rows, Whole))
  <2> SUFFICES ASSUME NEW b \in Idx(B), NEW p \in Idx(Capacity), HasRoomIn("paged_quantized", table, b, p)
               PROVE  /\ IsRow(Keeping(rows, Whole)[b][p])
                      /\ \A h \in Idx(Hkv), d \in Idx(D) :
                           LaneIn("paged_quantized", D, K', Q', bits', table, b, p, h, d) = Place(Keeping(rows, Whole)[b][p], b, h, d)
    BY DEF Held
  <2> DEFINE g == PageAt(table, b, p)
             o == p % PAGE_SIZE
  <2>1. g \in Idx(NUM_PAGES) /\ o \in Idx(PAGE_SIZE)
    BY <1>2, PageInRange, BlockOf DEF HasRoomIn
  <2>2. /\ IsRow(rows[b][p])
        /\ \A h \in Idx(Hkv), d \in Idx(D) : K[RowMajor(PAGE_SIZE, Hkv, D, g, o, h, d)] = Place(rows[b][p], b, h, d)
    <3>1. HasRoomIn("paged", table, b, p)
      BY DEF HasRoomIn
    <3> QED BY <1>2, <3>1 DEF Held, LaneIn
  <2>3. \A h \in Idx(Hkv), d \in Idx(D) : LaneIn("paged_quantized", D, K', Q', bits', table, b, p, h, d) =
             DequantizedLane(Q', bits', PAGE_SIZE, D, g, o, h, d)
    BY DEF LaneIn
  <2> HIDE DEF g, o
  <2>4. ASSUME NEW h \in Idx(Hkv), NEW d \in Idx(D)
        PROVE  DequantizedLane(Q', bits', PAGE_SIZE, D, g, o, h, d) = Place(rows[b][p], b, h, d)
    <3>0. <<g, o>> \in kept
      BY <2>1
    <3> HIDE DEF kept
    <3>1. CASE n = 8
      <4>1. Q' = quantize_8(K, NUM_PAGES, PAGE_SIZE, kept, D) /\ bits' = 8
        BY <1>1, <3>1 DEF quantize_kv_pages, kept
      <4>2. DequantizedLane(quantize_8(K, NUM_PAGES, PAGE_SIZE, kept, D), 8, PAGE_SIZE, D, g, o, h, d) =
               IF <<g, o>> \in kept THEN Place(rows[b][p], b, h, d) ELSE Zero
        BY <1>2, <2>1, <2>2, Sizes, BlockSizes, Quantized8
      <4> QED BY <3>0, <4>1, <4>2
    <3>2. CASE n = 4
      <4>1. Q' = quantize_4(K, NUM_PAGES, PAGE_SIZE, kept, D) /\ bits' = 4
        BY <1>1, <3>2 DEF quantize_kv_pages, kept
      <4>2. DequantizedLane(quantize_4(K, NUM_PAGES, PAGE_SIZE, kept, D), 4, PAGE_SIZE, D, g, o, h, d) =
               IF <<g, o>> \in kept THEN Place(rows[b][p], b, h, d) ELSE Zero
        BY <1>2, <2>1, <2>2, Sizes, BlockSizes, Quantized4
      <4> QED BY <3>0, <4>1, <4>2
    <3> QED BY <3>1, <3>2
  <2> QED BY <2>2, <2>3, <2>4, PlacedKept
<1>5. DOMAIN lengths' = Idx(B)
  BY <1>0, LengthsAre, BlockSizes
<1>6. \A b \in Idx(B), p \in Idx(Capacity) : p < room[b] => HasRoomIn("paged_quantized", table, b, p)
  BY <1>2 DEF HasRoomIn
<1> QED BY <1>0, <1>2, <1>3, <1>4, <1>5, <1>6, WholeIsKeep, ConvertStep DEF Layouts, HasTable

(* So does dequantize_kv_pages. *)
LEMMA DequantizePagesStep ==
  ASSUME KVInv, Mapped, Mapped', DequantizePages
  PROVE  KVInv' /\ Cache!Convert
<1>0. /\ layout = "paged_quantized" /\ out = None /\ layout' = "paged" /\ UNCHANGED <<D, table, steps, out>>
      /\ K' = dequantize_kv_pages(Q, bits, D)
  BY DEF DequantizePages
<1>1. /\ D \in Nat \ {0} /\ Held("paged_quantized", D, K, Q, bits, table, rows) /\ IsTable(table)
      /\ \A b \in Idx(B), p \in Idx(Capacity) : HasRoomIn("paged_quantized", table, b, p) <=> p < room[b]
  BY <1>0, Dimension, View DEF KVInv, HasTable
<1>2. Shaped("paged", D, K', Q', bits')
  BY <1>0 DEF Shaped, dequantize_kv_pages, Array
<1>3. Held("paged", D, K', Q', bits', table, Keeping(rows, Whole))
  <2> SUFFICES ASSUME NEW b \in Idx(B), NEW p \in Idx(Capacity), HasRoomIn("paged", table, b, p)
               PROVE  /\ IsRow(Keeping(rows, Whole)[b][p])
                      /\ \A h \in Idx(Hkv), d \in Idx(D) :
                           LaneIn("paged", D, K', Q', bits', table, b, p, h, d) = Place(Keeping(rows, Whole)[b][p], b, h, d)
    BY DEF Held
  <2> DEFINE g == PageAt(table, b, p)
             o == p % PAGE_SIZE
  <2>1. g \in Idx(NUM_PAGES) /\ o \in Idx(PAGE_SIZE) /\ HasRoomIn("paged_quantized", table, b, p)
    BY <1>1, PageInRange, BlockOf DEF HasRoomIn
  <2>2. /\ IsRow(rows[b][p])
        /\ \A h \in Idx(Hkv), d \in Idx(D) : DequantizedLane(Q, bits, PAGE_SIZE, D, g, o, h, d) = Place(rows[b][p], b, h, d)
    BY <1>1, <2>1 DEF Held, LaneIn
  <2>3. \A h \in Idx(Hkv), d \in Idx(D) : LaneIn("paged", D, K', Q', bits', table, b, p, h, d) = K'[RowMajor(PAGE_SIZE, Hkv, D, g, o, h, d)]
    BY DEF LaneIn
  <2> HIDE DEF g, o
  <2>4. \A h \in Idx(Hkv), d \in Idx(D) : K'[RowMajor(PAGE_SIZE, Hkv, D, g, o, h, d)] = DequantizedLane(Q, bits, PAGE_SIZE, D, g, o, h, d)
    BY <1>0, <1>1, <2>1, DequantizedElement
  <2> QED BY <2>2, <2>3, <2>4, PlacedKept
<1>4. \A b \in Idx(B), p \in Idx(Capacity) : p < room[b] => HasRoomIn("paged", table, b, p)
  BY <1>1 DEF HasRoomIn
<1> QED BY <1>0, <1>1, <1>2, <1>3, <1>4, WholeIsKeep, ConvertStep DEF Layouts, HasTable

(* So does contiguous_kv_to_pages. *)
LEMMA ToPagesStep ==
  ASSUME KVInv, Mapped, Mapped', ToPages
  PROVE  KVInv' /\ Cache!Convert
<1>0. layout = "contiguous" /\ out = None /\ layout' = "paged" /\ UNCHANGED <<D, Q, bits, lengths, steps, out>>
  BY DEF ToPages
<1>1. PICK len \in Lengths(MAX_S) :
        K' = contiguous_kv_to_pages(K, len, D).pages /\ table' = contiguous_kv_to_pages(K, len, D).table
  BY DEF ToPages
<1>2. len \in [Idx(B) -> 0..MAX_S] /\ len \in [Idx(B) -> 0..Capacity]
  <2>1. len \in [Idx(B) -> 0..MAX_S]
    BY LengthsAre, Sizes
  <2> QED BY <2>1, Sizes, BlockSizes
<1>3. D \in Nat \ {0} /\ Held("contiguous", D, K, Q, bits, table, rows)
  BY <1>0, ContiguousView
<1>4. IsTable(table')
  BY <1>1, <1>2, NewTable
<1>5. Shaped("paged", D, K', Q', bits')
  BY <1>1 DEF Shaped, contiguous_kv_to_pages, Array
<1>6. ASSUME NEW b \in Idx(B), NEW p \in Idx(Capacity)
      PROVE  /\ PageAt(table', b, p) >= 0 => PageAt(table', b, p) = b * MAX_BLOCKS + p \div PAGE_SIZE
             /\ p < len[b] => PageAt(table', b, p) >= 0
  <2> DEFINE k == p \div PAGE_SIZE
  <2>1. k \in Idx(MAX_BLOCKS) /\ len[b] \in 0..Capacity
    BY <1>2, BlockOf
  <2>2. k = p \div PAGE_SIZE
    OBVIOUS
  <2> HIDE DEF k
  <2>3. table'[b * MAX_BLOCKS + k] = IF \E j \in Idx(len[b]) : j \div PAGE_SIZE = k THEN b * MAX_BLOCKS + k ELSE -1
    <3>1. contiguous_kv_to_pages(K, len, D).table[b * MAX_BLOCKS + k] =
            IF \E j \in Idx(len[b]) : j \div PAGE_SIZE = k THEN b * MAX_BLOCKS + k ELSE -1
      BY <2>1, TableEntry
    <3> QED BY <1>1, <3>1
  <2>4. PageAt(table', b, p) = table'[b * MAX_BLOCKS + k]
    BY <2>2 DEF PageAt
  <2>5. b * MAX_BLOCKS + k >= 0
    BY <2>1, EntryOf, BlockSizes, Sizes DEF Idx
  <2>6. p < len[b] => p \in Idx(len[b])
    BY <2>1, BlockSizes DEF Idx
  <2> QED BY <2>2, <2>3, <2>4, <2>5, <2>6
<1>7. Held("paged", D, K', Q', bits', table', Keeping(rows, len))
  <2> SUFFICES ASSUME NEW b \in Idx(B), NEW p \in Idx(Capacity), HasRoomIn("paged", table', b, p)
               PROVE  /\ IsRow(Keeping(rows, len)[b][p])
                      /\ \A h \in Idx(Hkv), d \in Idx(D) :
                           LaneIn("paged", D, K', Q', bits', table', b, p, h, d) = Place(Keeping(rows, len)[b][p], b, h, d)
    BY DEF Held
  <2>1. PageAt(table', b, p) = b * MAX_BLOCKS + p \div PAGE_SIZE
    BY <1>6 DEF HasRoomIn
  <2>2. ASSUME NEW h \in Idx(Hkv), NEW d \in Idx(D)
        PROVE  LaneIn("paged", D, K', Q', bits', table', b, p, h, d) =
                  IF p < len[b] THEN K[RowMajor(MAX_S, Hkv, D, b, p, h, d)] ELSE Zero
    <3>1. LaneIn("paged", D, K', Q', bits', table', b, p, h, d) =
             K'[RowMajor(PAGE_SIZE, Hkv, D, b * MAX_BLOCKS + p \div PAGE_SIZE, p % PAGE_SIZE, h, d)]
      BY <2>1 DEF LaneIn
    <3> QED BY <1>1, <1>3, <3>1, PagesElement
  <2>3. CASE p < len[b]
    <3>1. HasRoomIn("contiguous", table, b, p)
      <4>1. len[b] \in 0..MAX_S /\ p \in Int /\ MAX_S \in Int
        BY <1>2, Sizes DEF Idx
      <4> QED BY <2>3, <4>1 DEF HasRoomIn
    <3>2. /\ IsRow(rows[b][p])
          /\ \A h \in Idx(Hkv), d \in Idx(D) : K[RowMajor(MAX_S, Hkv, D, b, p, h, d)] = Place(rows[b][p], b, h, d)
      BY <1>3, <3>1 DEF Held, LaneIn
    <3> QED BY <2>2, <2>3, <3>2, PlacedKept
  <2>4. CASE ~(p < len[b])
    BY <2>2, <2>4, PlacedKept
  <2> QED BY <2>3, <2>4
<1>8. \A b \in Idx(B), p \in Idx(Capacity) : p < len[b] => HasRoomIn("paged", table', b, p)
  BY <1>6 DEF HasRoomIn
<1> QED BY <1>0, <1>2, <1>4, <1>5, <1>7, <1>8, ConvertStep DEF Layouts, HasTable

(* So does pages_to_contiguous_kv. *)
LEMMA ToContiguousStep ==
  ASSUME KVInv, Mapped, Mapped', ToContiguous
  PROVE  KVInv' /\ Cache!Convert
<1>0. layout = "paged" /\ out = None /\ layout' = "contiguous" /\ UNCHANGED <<D, Q, bits, lengths, steps, out>>
  BY DEF ToContiguous
<1>1. PICK len \in Lengths(MAX_S) : K' = pages_to_contiguous_kv(K, table, len, D)
  BY DEF ToContiguous
<1>2. len \in [Idx(B) -> 0..MAX_S] /\ len \in [Idx(B) -> 0..Capacity]
  <2>1. len \in [Idx(B) -> 0..MAX_S]
    BY LengthsAre, Sizes
  <2> QED BY <2>1, Sizes, BlockSizes
<1>3. /\ D \in Nat \ {0} /\ Held("paged", D, K, Q, bits, table, rows) /\ room \in [Idx(B) -> 0..Capacity]
      /\ \A b \in Idx(B), p \in Idx(Capacity) : HasRoomIn("paged", table, b, p) <=> p < room[b]
      /\ rows = [b \in Idx(B) |-> [p \in Idx(Capacity) |-> IF p < room[b] THEN rows[b][p] ELSE Unwritten]]
  BY <1>0, PagedView, View
<1>4. Shaped("contiguous", D, K', Q', bits')
  BY <1>1 DEF Shaped, pages_to_contiguous_kv, Array
<1>5. Held("contiguous", D, K', Q', bits', table', Keeping(rows, len))
  <2> SUFFICES ASSUME NEW b \in Idx(B), NEW p \in Idx(Capacity), HasRoomIn("contiguous", table', b, p)
               PROVE  /\ IsRow(Keeping(rows, len)[b][p])
                      /\ \A h \in Idx(Hkv), d \in Idx(D) :
                           LaneIn("contiguous", D, K', Q', bits', table', b, p, h, d) = Place(Keeping(rows, len)[b][p], b, h, d)
    BY DEF Held
  <2>1. p \in Idx(MAX_S)
    BY Sizes DEF HasRoomIn, Idx
  <2>2. ASSUME NEW h \in Idx(Hkv), NEW d \in Idx(D)
        PROVE  LaneIn("contiguous", D, K', Q', bits', table', b, p, h, d) =
                  IF p < len[b] /\ PageAt(table, b, p) >= 0
                  THEN K[RowMajor(PAGE_SIZE, Hkv, D, PageAt(table, b, p), p % PAGE_SIZE, h, d)] ELSE Zero
    <3>1. LaneIn("contiguous", D, K', Q', bits', table', b, p, h, d) = K'[RowMajor(MAX_S, Hkv, D, b, p, h, d)]
      BY DEF LaneIn
    <3> QED BY <1>1, <1>3, <2>1, <3>1, ContiguousFromPages
  <2>3. CASE PageAt(table, b, p) >= 0
    <3>1. HasRoomIn("paged", table, b, p)
      BY <2>3 DEF HasRoomIn
    <3>2. /\ IsRow(rows[b][p])
          /\ \A h \in Idx(Hkv), d \in Idx(D) :
               K[RowMajor(PAGE_SIZE, Hkv, D, PageAt(table, b, p), p % PAGE_SIZE, h, d)] = Place(rows[b][p], b, h, d)
      BY <1>3, <3>1 DEF Held, LaneIn
    <3> QED BY <2>2, <2>3, <3>2, PlacedKept
  <2>4. CASE ~(PageAt(table, b, p) >= 0)
    <3>1. ~(p < room[b])
      BY <1>3, <2>4 DEF HasRoomIn
    <3>2. rows[b][p] = NoRow
      <4>1. rows[b][p] = IF p < room[b] THEN rows[b][p] ELSE Unwritten
        BY <1>3
      <4> QED BY <3>1, <4>1 DEF NoRow, Unwritten
    <3> QED BY <2>2, <2>4, <3>2, PlacedKept
  <2> QED BY <2>3, <2>4
<1>6. \A b \in Idx(B), p \in Idx(Capacity) : p < len[b] => HasRoomIn("contiguous", table', b, p)
  <2>1. \A b \in Idx(B) : len[b] \in 0..MAX_S
    BY <1>2
  <2> QED BY <2>1, Sizes DEF HasRoomIn, Idx
<1> QED BY <1>0, <1>2, <1>4, <1>5, <1>6, ConvertStep DEF Layouts, HasTable

------------------------------------------------------------------------------
(* The theorems                                                             *)

(* An empty cache of each layout has the invariant and is an empty abstract
   cache. *)
LEMMA InitInv ==
  ASSUME Init, Mapped
  PROVE  KVInv /\ Cache!Init
<1> DEFINE none == [b \in Idx(B) |-> [p \in Idx(Capacity) |-> Unwritten]]
<1>0. /\ D \in Dims /\ D \in Nat \ {0} /\ steps = 0 /\ out = None /\ layout \in {"contiguous", "paged"}
      /\ HasTable(layout, table)
  BY KVCacheLayoutsAssumption DEF Init, HasTable
<1>1. Shaped(layout, D, K, Q, bits)
  BY DEF Init, Shaped, Array
<1>2. Held(layout, D, K, Q, bits, table, none)
  <2> SUFFICES ASSUME NEW b \in Idx(B), NEW p \in Idx(Capacity), HasRoomIn(layout, table, b, p),
                      NEW h \in Idx(Hkv), NEW d \in Idx(D)
               PROVE  LaneIn(layout, D, K, Q, bits, table, b, p, h, d) = Zero
    BY DEF Held, IsRow, Place, NoRow, Unwritten
  <2>1. CASE layout = "contiguous"
    <3> DEFINE e == RowMajor(MAX_S, Hkv, D, b, p, h, d)
    <3>1. p \in Idx(MAX_S)
      BY <2>1, Sizes DEF HasRoomIn, Idx
    <3>2. e \in Idx(B * MAX_S * Hkv * D)
      BY <1>0, <3>1, ContiguousElement
    <3> HIDE DEF e
    <3>3. K[e] = Zero
      BY <2>1, <3>2 DEF Init, Array
    <3> QED BY <2>1, <3>3 DEF LaneIn, e
  <2>2. CASE layout = "paged"
    <3> DEFINE e == RowMajor(PAGE_SIZE, Hkv, D, PageAt(table, b, p), p % PAGE_SIZE, h, d)
    <3>1. PageAt(table, b, p) \in Idx(NUM_PAGES) /\ p % PAGE_SIZE \in Idx(PAGE_SIZE)
      BY <1>0, <2>2, PageInRange, BlockOf DEF HasRoomIn, HasTable
    <3>2. e \in Idx(NUM_PAGES * PAGE_SIZE * Hkv * D)
      BY <1>0, <3>1, PagedElement
    <3> HIDE DEF e
    <3>3. K[e] = Zero
      BY <2>2, <3>2 DEF Init, Array
    <3> QED BY <2>2, <3>3 DEF LaneIn, e
  <2> QED BY <1>0, <2>1, <2>2
<1>3. /\ room \in [Idx(B) -> 0..Capacity]
      /\ rows = [b \in Idx(B) |-> [p \in Idx(Capacity) |-> IF p < room[b] THEN none[b][p] ELSE Unwritten]]
      /\ Held(layout, D, K, Q, bits, table, rows)
  <2>1. room = RoomIn(layout, table) /\ rows = RowsIn(layout, D, K, Q, bits, table)
    BY StoredIs DEF Mapped
  <2> HIDE DEF none
  <2> QED BY <1>0, <1>2, <2>1, Viewed DEF Layouts
<1>4. KVInv
  <2>1. Held(layout, D, K, Q, bits, table, StoredRows)
    BY <1>3 DEF Mapped
  <2> QED BY <1>0, <1>1, <2>1 DEF KVInv, Layouts
<1>5. rows = none
  BY <1>3
<1>6. attended = <<>> /\ Asked = Cache!NotAsked /\ out.status = "idle"
  BY <1>0, StoredIs DEF Mapped, PromisedIn, None, Asked, Cache!NotAsked, Cache!Dense, Dense
<1> QED BY <1>0, <1>3, <1>4, <1>5, <1>6 DEF Cache!Init, Cache!Batch, Cache!Positions, Cache!Unwritten, Unwritten, Idx

(* Every step keeps the invariant and is a step of the abstract cache. *)
LEMMA StepInv ==
  ASSUME KVInv, Mapped, Mapped', Next
  PROVE  KVInv' /\ Cache!Next
<1>1. CASE decode_step
  BY <1>1, DecodeStepStep DEF Cache!Next
<1>2. CASE gqa_decode_block_from_qkv
  BY <1>2, DecodeBlockStep DEF Cache!Next
<1>3. CASE AttendContiguous
  BY <1>3, AttendContiguousStep DEF Cache!Next
<1>4. CASE sparse_gqa_decode_attention
  BY <1>4, SparseDecodeStep DEF Cache!Next
<1>5. CASE sparse_gqa_attention
  BY <1>5, SparsePrefillStep DEF Cache!Next
<1>6. CASE paged_decode_step
  BY <1>6, PagedDecodeStep DEF Cache!Next
<1>7. CASE paged_gqa_decode_block_from_qkv
  BY <1>7, PagedBlockStep DEF Cache!Next
<1>8. CASE AttendPaged
  BY <1>8, AttendPagedStep DEF Cache!Next
<1>9. CASE AttendQuantized
  BY <1>9, AttendQuantizedStep DEF Cache!Next
<1>10. CASE AttendPagedQuantized
  BY <1>10, AttendPagedQuantizedStep DEF Cache!Next
<1>11. CASE Quantize
  BY <1>11, QuantizeStep DEF Cache!Next
<1>12. CASE Dequantize
  BY <1>12, DequantizeStep DEF Cache!Next
<1>13. CASE ToPages
  BY <1>13, ToPagesStep DEF Cache!Next
<1>14. CASE ToContiguous
  BY <1>14, ToContiguousStep DEF Cache!Next
<1>15. CASE QuantizePages
  BY <1>15, QuantizePagesStep DEF Cache!Next
<1>16. CASE DequantizePages
  BY <1>16, DequantizePagesStep DEF Cache!Next
<1>17. CASE TakeOutput
  BY <1>17, TakeOutputStep DEF Cache!Next
<1> QED BY <1>1, <1>2, <1>3, <1>4, <1>5, <1>6, <1>7, <1>8, <1>9, <1>10, <1>11, <1>12, <1>13, <1>14, <1>15, <1>16,
           <1>17 DEF Next

(* So is no step. *)
LEMMA StutterInv ==
  ASSUME KVInv, Mapped, UNCHANGED <<vars, rows, room, attended>>
  PROVE  KVInv' /\ Mapped' /\ UNCHANGED Cache!vars
<1>1. Kept /\ out' = out /\ rows' = rows /\ room' = room /\ attended' = attended
  BY DEF vars, Kept
<1>2. StoredRows' = StoredRows /\ Room' = Room
  BY <1>1, StoredIs, StoredBecomes DEF Kept
<1>3. Promised' = Promised
  <2>1. Promised' = PromisedIn(D', out', Room') /\ Promised = PromisedIn(D, out, Room)
    BY StoredIs, StoredBecomes
  <2> QED BY <1>1, <1>2, <2>1 DEF Kept
<1>4. Mapped'
  BY <1>1, <1>2, <1>3 DEF Mapped
<1>5. KVInv'
  BY <1>1, <1>4, KeptRows DEF KVInv
<1>6. UNCHANGED Cache!vars
  BY <1>1 DEF Cache!vars, Kept, Asked
<1> QED BY <1>4, <1>5, <1>6

(* At all times every position with storage holds one row, in place in all
   lanes of all heads: in each of the four layouts, after any sequence of
   decode steps, reads and conversions. *)
THEOREM CacheInvariant == MCSpec => [](KVInv /\ Mapped)
<1>1. MCInit => KVInv /\ Mapped
  BY InitInv DEF MCInit
<1>2. KVInv /\ Mapped /\ [MCNext]_<<vars, rows, room, attended>> => (KVInv /\ Mapped)'
  <2> SUFFICES ASSUME KVInv, Mapped, [MCNext]_<<vars, rows, room, attended>>
               PROVE  (KVInv /\ Mapped)'
    OBVIOUS
  <2>1. CASE MCNext
    <3>1. Mapped' /\ Next
      BY <2>1 DEF MCNext, Mapped
    <3> QED BY <3>1, StepInv
  <2>2. CASE UNCHANGED <<vars, rows, room, attended>>
    BY <2>2, StutterInv
  <2> QED BY <2>1, <2>2
<1> QED BY <1>1, <1>2, PTL DEF MCSpec

(* All layouts, backends and conversions of src/ops implement the one
   cache: a read gives the rows last written below its length (or the ones
   its pattern shows), of its own batch element and kv head, a decode step
   writes one row and reads it, a conversion keeps the rows, and a refused
   call changes nothing. *)
THEOREM LayoutsImplementCache == MCSpec => ImplementsKVCache
<1>1. MCInit => Cache!Init
  BY InitInv DEF MCInit
<1>2. KVInv /\ Mapped /\ [MCNext]_<<vars, rows, room, attended>> => [Cache!Next]_Cache!vars
  <2> SUFFICES ASSUME KVInv, Mapped, [MCNext]_<<vars, rows, room, attended>>
               PROVE  [Cache!Next]_Cache!vars
    OBVIOUS
  <2>1. CASE MCNext
    <3>1. Mapped' /\ Next
      BY <2>1 DEF MCNext, Mapped
    <3> QED BY <3>1, StepInv
  <2>2. CASE UNCHANGED <<vars, rows, room, attended>>
    BY <2>2, StutterInv
  <2> QED BY <2>1, <2>2
<1> QED BY <1>1, <1>2, CacheInvariant, PTL DEF MCSpec, ImplementsKVCache, Cache!Spec
==============================================================================
