--------------------------- MODULE LlamaStackProofs ---------------------------
(* That what the stack, the single layer, the toy layer and the adapter answer is
   what the transformer gives for the whole sequence, and that valid calls return,
   for every number of layers, quantization, page size and length of cache.  Each
   call of src is shown to yield, row by row, the operations of the specification,
   or to raise where it may; a layer then serves its row and leaves it in its cache;
   the layers, and the tokens of a loop, follow by induction; and LInv, that all
   caches hold the tokens fed, carries this from call to call. *)
EXTENDS LlamaStack, FiniteSetTheorems, SequenceTheorems, TLAPS

-----------------------------------------------------------------------------
(* Rows, and the arrays of a cache. *)

(* A sequence of n rows, said of its elements so that a sequence built by a
   call need have no type. *)
IsRows(s, n) == n \in Nat /\ s = [i \in 1..n |-> s[i]]

(* Its length and domain. *)
LEMMA RowsLen ==
  ASSUME NEW n, NEW s, IsRows(s, n)
  PROVE  Len(s) = n /\ DOMAIN s = 1..n /\ s \in Seq({s[i] : i \in 1..n})
<1> DEFINE T == {s[i] : i \in 1..n}
<1>1. s \in [1..n -> T]
  BY DEF IsRows
<1>2. s \in Seq(T)
  BY <1>1, SeqDef DEF IsRows
<1>3. DOMAIN s = 1..n
  BY DEF IsRows
<1>4. Len(s) = n
  BY <1>2, <1>3, LenProperties DEF IsRows
<1> QED BY <1>2, <1>3, <1>4

(* u is the n rows of s and then the m rows of t. *)
Joined(u, s, n, t, m) ==
    /\ IsRows(u, n + m)
    /\ \A i \in 1..n : u[i] = s[i]
    /\ \A i \in 1..m : u[n + i] = t[i]

(* \o joins rows. *)
LEMMA CatRows ==
  ASSUME NEW n, NEW s, IsRows(s, n), NEW m, NEW t, IsRows(t, m)
  PROVE  Joined(s \o t, s, n, t, m)
<1> DEFINE S == {s[i] : i \in 1..n}
           T == {t[i] : i \in 1..m}
           U == S \cup T
           u == s \o t
<1>1. s \in Seq(S) /\ Len(s) = n /\ t \in Seq(T) /\ Len(t) = m
  BY RowsLen
<1>2. n \in Nat /\ m \in Nat
  BY DEF IsRows
<1>3. s \in Seq(U) /\ t \in Seq(U)
  <2>1. s \in [1..n -> U] /\ t \in [1..m -> U]
    BY DEF IsRows
  <2> QED BY <2>1, <1>2, SeqDef
<1> HIDE DEF S, T, U
<1>4. /\ u \in Seq(U) /\ Len(u) = n + m
      /\ \A i \in 1..n + m : u[i] = IF i <= n THEN s[i] ELSE t[i - n]
  BY <1>1, <1>3, ConcatProperties
<1> HIDE DEF u
<1>5. IsRows(u, n + m)
  BY <1>2, <1>4 DEF IsRows
<1>6. ASSUME NEW i \in 1..m
      PROVE  u[n + i] = t[i]
  <2>1. n + i \in 1..n + m /\ ~ (n + i <= n) /\ n + i - n = i
    BY <1>2
  <2> QED BY <1>2, <1>4, <2>1
<1>7. ASSUME NEW i \in 1..n
      PROVE  u[i] = s[i]
  BY <1>2, <1>4
<1> QED BY <1>5, <1>6, <1>7 DEF Joined, u

(* The first k rows. *)
LEMMA PrefixRows ==
  ASSUME NEW n, NEW s, IsRows(s, n), NEW k \in 0..n
  PROVE  /\ SubSeq(s, 1, k) = [i \in 1..k |-> s[i]] /\ IsRows(SubSeq(s, 1, k), k)
         /\ \A i \in 1..k : SubSeq(s, 1, k)[i] = s[i]
<1> DEFINE S == {s[i] : i \in 1..n}
<1>1. n \in Nat /\ k \in Nat /\ \A i \in 1..k : i \in 1..n
  BY DEF IsRows
<1>2. \A i \in 1..n : s[i] \in S
  OBVIOUS
<1> HIDE DEF S
<1>3. /\ SubSeq(s, 1, k) \in Seq(S) /\ Len(SubSeq(s, 1, k)) = k
      /\ \A i \in 1..k : SubSeq(s, 1, k)[i] = s[i]
  BY <1>1, <1>2, SubSeqProperties
<1>4. SubSeq(s, 1, k) = [i \in 1..k |-> SubSeq(s, 1, k)[i]]
  BY <1>3
<1> QED BY <1>1, <1>3, <1>4 DEF IsRows

(* The last k rows. *)
LEMMA SuffixRows ==
  ASSUME NEW n, NEW s, IsRows(s, n), NEW k \in 0..n
  PROVE  /\ IsRows(SubSeq(s, n - k + 1, n), k)
         /\ \A i \in 1..k : SubSeq(s, n - k + 1, n)[i] = s[n - k + i]
<1> DEFINE S == {s[i] : i \in 1..n}
           u == SubSeq(s, n - k + 1, n)
<1>1. n \in Nat /\ k \in Nat /\ \A i \in (n - k + 1)..n : i \in 1..n
  BY DEF IsRows
<1>2. \A i \in 1..n : s[i] \in S
  OBVIOUS
<1> HIDE DEF S
<1>3. /\ u \in Seq(S) /\ Len(u) = IF n - k + 1 <= n THEN n - (n - k + 1) + 1 ELSE 0
      /\ \A i \in 1..n - (n - k + 1) + 1 : u[i] = s[(n - k + 1) + i - 1]
  BY <1>1, <1>2, SubSeqProperties
<1>4. Len(u) = k /\ \A i \in 1..k : u[i] = s[n - k + i]
  BY <1>1, <1>3
<1>5. u = [i \in 1..k |-> u[i]]
  <2> HIDE DEF u
  <2>1. u = [i \in 1..Len(u) |-> u[i]]
    BY <1>3
  <2> QED BY <1>4, <2>1
<1> QED BY <1>1, <1>4, <1>5 DEF IsRows

(* A set of numbers with zero and every successor is all of them: what a loop
   of the code does is shown for every length with it. *)
LEMMA Induction ==
  ASSUME NEW S \in SUBSET Nat, 0 \in S, \A n \in S : n + 1 \in S
  PROVE  S = Nat
<1> SUFFICES ASSUME Nat \ S # {}
             PROVE  FALSE
  OBVIOUS
<1>1. PICK n \in Nat \ S : \A k \in Nat \ S : ~ (k < n)
  <2> DEFINE R == OpToRel(<, Nat)
  <2>1. IsWellFoundedOn(R, Nat)
    BY NatLessThanWellFounded
  <2>2. \A x, y \in Nat : x < y => <<x, y>> \in R
    BY DEF OpToRel
  <2> HIDE DEF R
  <2>3. PICK n \in Nat \ S : \A k \in Nat \ S : ~ (<<k, n>> \in R)
    BY <2>1, WFMin
  <2> QED BY <2>2, <2>3
<1>2. n # 0 /\ n - 1 \in Nat /\ n - 1 < n /\ n - 1 + 1 = n
  BY <1>1
<1> QED BY <1>1, <1>2

(* The array of a cache of n positions of one batch element and one head. *)
IsMem(m, n) == n \in Nat \ {0} /\ m = [e \in 0..(n - 1) |-> m[e]]

(* The table init_paged_kv_cache builds: block e is page e. *)
IdentityTable(n) == [e \in 0..(n - 1) |-> e]

(* Such an array has n places. *)
LEMMA SlotsOf ==
  ASSUME NEW m, NEW n, IsMem(m, n)
  PROVE  Cardinality(DOMAIN m) = n
<1>1. DOMAIN m = 0..(n - 1) /\ n \in Nat \ {0}
  BY DEF IsMem
<1>2. Cardinality(0..(n - 1)) = (n - 1) - 0 + 1
  BY <1>1, FS_Interval
<1> QED BY <1>1, <1>2

(* kv_cache_update_kernel writes the one row at its position. *)
LEMMA KernelWrite ==
  ASSUME NEW n, NEW m, IsMem(m, n), NEW x, NEW p \in 0..(n - 1)
  PROVE  Mem(n)!kv_cache_update_kernel(m, Batch1(x), Batch1(p), 1) = [m EXCEPT ![p] = x]
<1>1. ASSUME NEW e \in 0..(n-1)
      PROVE  /\ e \div 1 = e /\ e % 1 = 0 /\ (e \div (1 * 1)) % n = e
             /\ e \div (1 * 1 * n) = 0 /\ ((0 * n + e) * 1 + 0) * 1 + 0 = e
  BY DEF IsMem
<1>2. 1 * n * 1 * 1 = n /\ 0 % 1 = 0 /\ (0 * 1 + 0) * 1 + 0 = 0
  BY DEF IsMem
<1> QED
  BY <1>1, <1>2 DEF Mem!kv_cache_update_kernel, Mem!Idx, Mem!At, Batch1, IsMem

(* ... and so does its reference. *)
LEMMA ReferenceWrite ==
  ASSUME NEW n, NEW m, IsMem(m, n), NEW x, NEW p \in 0..(n - 1)
  PROVE  Mem(n)!reference_kv_cache_update(m, Batch1(x), Batch1(p), 1) = [m EXCEPT ![p] = x]
<1>1. ASSUME NEW e \in 0..(n-1)
      PROVE  /\ e \div 1 = e /\ e % 1 = 0 /\ (e \div (1 * 1)) % n = e
             /\ e \div (n * 1 * 1) = 0 /\ ((0 * n + e) * 1 + 0) * 1 + 0 = e
  BY DEF IsMem
<1>2. 1 * n * 1 * 1 = n /\ 0 % 1 = 0 /\ ((0 * 1 + 0) * 1 + 0) * 1 + 0 = 0
  BY DEF IsMem
<1> QED
  BY <1>1, <1>2 DEF Mem!reference_kv_cache_update, Mem!Array, Mem!RowMajor, Mem!Idx, Batch1, IsMem

(* Positions of k pages, and the page and place of each. *)
LEMMA Blocks ==
  ASSUME NEW k \in Nat \ {0}, NEW n, n = k * PAGE_SIZE
  PROVE  /\ n \in Nat \ {0} /\ (n + PAGE_SIZE - 1) \div PAGE_SIZE = k
         /\ \A e \in 0..(n - 1) : /\ e \div PAGE_SIZE \in 0..(k - 1) /\ e % PAGE_SIZE \in 0..(PAGE_SIZE - 1)
                                  /\ (e \div PAGE_SIZE) * PAGE_SIZE + (e % PAGE_SIZE) = e
         /\ Mem(n)!MAX_BLOCKS = k /\ Mem(n)!NUM_PAGES = k /\ Mem(n)!Capacity = n
<1>0. PAGE_SIZE \in Nat \ {0}
  BY LlamaStackAssumption
<1>1. n \in Nat \ {0}
  BY <1>0
<1>2. (n + PAGE_SIZE - 1) \div PAGE_SIZE = k
  <2> DEFINE q == (n + PAGE_SIZE - 1) \div PAGE_SIZE
             r == (n + PAGE_SIZE - 1) % PAGE_SIZE
  <2>1. n + PAGE_SIZE - 1 = q * PAGE_SIZE + r /\ q \in Int /\ r \in 0..(PAGE_SIZE - 1)
    BY <1>0, <1>1
  <2> HIDE DEF q, r
  <2>2. (k - q) * PAGE_SIZE = r - PAGE_SIZE + 1
    BY <1>0, <2>1
  <2>3. r - PAGE_SIZE + 1 \in (1 - PAGE_SIZE)..0
    BY <1>0, <2>1
  <2>4. ASSUME k - q >= 1 PROVE FALSE
    <3>1. (k - q) * PAGE_SIZE >= PAGE_SIZE
      BY <1>0, <2>1, <2>4
    <3> QED BY <1>0, <2>2, <2>3, <3>1
  <2>5. ASSUME k - q <= -1 PROVE FALSE
    <3>1. (k - q) * PAGE_SIZE <= - PAGE_SIZE
      BY <1>0, <2>1, <2>5
    <3> QED BY <1>0, <2>2, <2>3, <3>1
  <2>6. k = q
    BY <2>1, <2>4, <2>5
  <2> QED BY <2>6 DEF q
<1>3. ASSUME NEW e \in 0..(n - 1)
      PROVE  /\ e \div PAGE_SIZE \in 0..(k - 1) /\ e % PAGE_SIZE \in 0..(PAGE_SIZE - 1)
             /\ (e \div PAGE_SIZE) * PAGE_SIZE + (e % PAGE_SIZE) = e
  <2> DEFINE q == e \div PAGE_SIZE
             r == e % PAGE_SIZE
  <2>1. e = q * PAGE_SIZE + r /\ q \in Int /\ r \in 0..(PAGE_SIZE - 1)
    BY <1>0, <1>1
  <2> HIDE DEF q, r
  <2>2. ASSUME q >= k PROVE FALSE
    <3>1. q * PAGE_SIZE >= k * PAGE_SIZE
      BY <1>0, <2>1, <2>2
    <3> QED BY <1>0, <2>1, <3>1
  <2>3. ASSUME q <= -1 PROVE FALSE
    <3>1. q * PAGE_SIZE <= - PAGE_SIZE
      BY <1>0, <2>1, <2>3
    <3> QED BY <1>0, <2>1, <3>1
  <2>4. q \in 0..(k - 1)
    BY <2>1, <2>2, <2>3
  <2> QED BY <2>1, <2>4 DEF q, r
<1>4. Mem(n)!MAX_BLOCKS = k /\ Mem(n)!NUM_PAGES = k /\ Mem(n)!Capacity = n
  BY <1>0, <1>1, <1>2 DEF Mem!MAX_BLOCKS, Mem!NUM_PAGES, Mem!Capacity, Mem!CeilDiv
<1> QED BY <1>1, <1>2, <1>3, <1>4

(* Two positions of a cache in pages have the same page and place only if they are the same. *)
LEMMA SamePlace ==
  ASSUME NEW k \in Nat \ {0}, NEW n, n = k * PAGE_SIZE, NEW p \in 0..(n - 1), NEW e \in 0..(n - 1),
         e \div PAGE_SIZE = p \div PAGE_SIZE, e % PAGE_SIZE = p % PAGE_SIZE
  PROVE  e = p
<1>1. \A i \in 0..(n - 1) : (i \div PAGE_SIZE) * PAGE_SIZE + (i % PAGE_SIZE) = i
  BY Blocks
<1>2. (e \div PAGE_SIZE) * PAGE_SIZE + (e % PAGE_SIZE) = e /\ (p \div PAGE_SIZE) * PAGE_SIZE + (p % PAGE_SIZE) = p
  BY <1>1
<1> QED BY <1>2

(* paged_kv_cache_update_kernel writes, through that table, the row at its
   position. *)
LEMMA PagedKernelWrite ==
  ASSUME NEW k \in Nat \ {0}, NEW n, n = k * PAGE_SIZE, NEW m, IsMem(m, n), NEW x, NEW p \in 0..(n - 1)
  PROVE  Mem(n)!paged_kv_cache_update_kernel(m, Batch1(x), IdentityTable(k), Batch1(p), 1) = [m EXCEPT ![p] = x]
<1> DEFINE after == Mem(n)!paged_kv_cache_update_kernel(m, Batch1(x), IdentityTable(k), Batch1(p), 1)
<1>0. /\ Mem(n)!MAX_BLOCKS = k /\ Mem(n)!NUM_PAGES = k /\ PAGE_SIZE \in Nat \ {0} /\ n \in Nat \ {0}
      /\ k * PAGE_SIZE * 1 * 1 = n /\ 0..(1 - 1) = {0}
  BY Blocks, LlamaStackAssumption
<1>1. Mem(n)!LastWriter({0}) = 0
  BY DEF Mem!LastWriter
<1>2. DOMAIN after = 0..(n - 1) /\ after = [e \in 0..(n - 1) |-> after[e]]
  BY <1>0 DEF Mem!paged_kv_cache_update_kernel, Mem!Idx
<1>3. ASSUME NEW e \in 0..(n - 1)
      PROVE  after[e] = IF e = p THEN x ELSE m[e]
  <2> DEFINE writers == {b \in {0} : e \div PAGE_SIZE = IdentityTable(k)[0 * k + p \div PAGE_SIZE]
                                     /\ e % PAGE_SIZE = p % PAGE_SIZE}
  <2>1. p \div PAGE_SIZE \in 0..(k - 1)
    BY Blocks
  <2>2. IdentityTable(k)[0 * k + p \div PAGE_SIZE] = p \div PAGE_SIZE
    BY <2>1 DEF IdentityTable
  <2>3. (e = p => writers = {0}) /\ (e # p => writers = {})
    BY <2>2, SamePlace
  <2>4. e % 1 = 0 /\ (e \div 1) % 1 = 0 /\ e \div (1 * 1) = e /\ e \div (1 * 1 * PAGE_SIZE) = e \div PAGE_SIZE
    BY <1>0
  <2>5. Mem(n)!At(m, e) = m[e] /\ Mem(n)!At(Batch1(x), (0 * 1 + 0) * 1 + 0) = x
    BY DEF Mem!At, IsMem, Batch1
  <2>6. after[e] = IF writers = {} THEN Mem(n)!At(m, e)
                   ELSE Mem(n)!At(Batch1(x), (Mem(n)!LastWriter(writers) * 1 + 0) * 1 + 0)
    <3>1. \A b \in {0} : Batch1(p)[b] = p /\ b = 0
      BY DEF Batch1
    <3> QED BY <1>0, <2>4, <3>1 DEF Mem!paged_kv_cache_update_kernel, Mem!Idx
  <2> HIDE DEF after, writers
  <2> QED BY <1>1, <2>3, <2>5, <2>6
<1> HIDE DEF after
<1> QED BY <1>2, <1>3 DEF IsMem, after

(* ... and so does its reference. *)
LEMMA PagedReferenceWrite ==
  ASSUME NEW k \in Nat \ {0}, NEW n, n = k * PAGE_SIZE, NEW m, IsMem(m, n), NEW x, NEW p \in 0..(n - 1)
  PROVE  Mem(n)!reference_paged_kv_cache_update(m, Batch1(x), IdentityTable(k), Batch1(p), 1) = [m EXCEPT ![p] = x]
<1> DEFINE after == Mem(n)!reference_paged_kv_cache_update(m, Batch1(x), IdentityTable(k), Batch1(p), 1)
<1>0. /\ Mem(n)!MAX_BLOCKS = k /\ Mem(n)!NUM_PAGES = k /\ PAGE_SIZE \in Nat \ {0} /\ n \in Nat \ {0}
      /\ k * PAGE_SIZE * 1 * 1 = n /\ 0..(1 - 1) = {0}
  BY Blocks, LlamaStackAssumption
<1>1. Mem(n)!LastWriter({0}) = 0
  BY DEF Mem!LastWriter
<1>2. DOMAIN after = 0..(n - 1) /\ after = [e \in 0..(n - 1) |-> after[e]]
  BY <1>0 DEF Mem!reference_paged_kv_cache_update, Mem!Array, Mem!Idx
<1>3. ASSUME NEW e \in 0..(n - 1)
      PROVE  after[e] = IF e = p THEN x ELSE m[e]
  <2> DEFINE target == [b \in {0} |-> [page |-> IdentityTable(k)[b * k + p \div PAGE_SIZE], offset |-> p % PAGE_SIZE]]
             writers == {b \in {0} : target[b] = [page |-> e \div PAGE_SIZE, offset |-> e % PAGE_SIZE]}
  <2>1. p \div PAGE_SIZE \in 0..(k - 1)
    BY Blocks
  <2>2. target[0] = [page |-> p \div PAGE_SIZE, offset |-> p % PAGE_SIZE]
    BY <2>1 DEF IdentityTable
  <2>3. (e = p => writers = {0}) /\ (e # p => writers = {})
    BY <2>2, SamePlace
  <2>4. /\ e % 1 = 0 /\ (e \div 1) % 1 = 0 /\ e \div (1 * 1) = e /\ e \div (PAGE_SIZE * 1 * 1) = e \div PAGE_SIZE
        /\ (((e \div PAGE_SIZE) * PAGE_SIZE + (e % PAGE_SIZE)) * 1 + 0) * 1 + 0 = e
    BY <1>0, Blocks
  <2>5. Batch1(x)[((0 * 1 + 0) * 1 + 0) * 1 + 0] = x
    BY DEF Batch1
  <2>6. after[e] = IF writers = {} THEN m[(((e \div PAGE_SIZE) * PAGE_SIZE + (e % PAGE_SIZE)) * 1 + 0) * 1 + 0]
                   ELSE Batch1(x)[((Mem(n)!LastWriter(writers) * 1 + 0) * 1 + 0) * 1 + 0]
    <3>1. target = Mem(n)!reference_block_table_lookup(IdentityTable(k), Batch1(p))
      BY <1>0 DEF Mem!reference_block_table_lookup, Mem!Idx, Batch1
    <3> HIDE DEF target
    <3> QED BY <1>0, <2>4, <3>1 DEF Mem!reference_paged_kv_cache_update, Mem!Array, Mem!RowMajor, Mem!Idx
  <2> HIDE DEF after, writers
  <2> QED BY <1>1, <2>3, <2>4, <2>5, <2>6
<1> HIDE DEF after
<1> QED BY <1>2, <1>3 DEF IsMem, after

-----------------------------------------------------------------------------
(* Reads of a cache. *)

(* The rows of a read of the first len positions. *)
LEMMA RowsRead ==
  ASSUME NEW attended, NEW len \in Nat, DOMAIN attended[0] = 0..(len - 1)
  PROVE  ReadRows(attended) = [j \in 1..len |-> attended[0][j - 1][0]]
<1>1. Cardinality(0..(len - 1)) = len
  <2>1. Cardinality(0..(len - 1)) = IF 0 > len - 1 THEN 0 ELSE (len - 1) - 0 + 1
    BY FS_Interval
  <2> QED BY <2>1
<1> QED BY <1>1 DEF ReadRows

(* decode_attention reads the first len positions: the reference. *)
LEMMA ReferenceRead ==
  ASSUME NEW n, NEW m, IsMem(m, n), NEW len \in 1..n
  PROVE  ReadRows(Mem(n)!reference_decode_attention(m, Batch1(len), 1)) = [j \in 1..len |-> m[j - 1]]
<1>len. len \in Nat /\ n \in Nat \ {0}
  BY DEF IsMem
<1> DEFINE a == Mem(n)!reference_decode_attention(m, Batch1(len), 1)
<1>1. /\ 0..(1 * 1 - 1) = {0} /\ 0..(1 - 1) = {0} /\ 0 \div 1 = 0 /\ 0 % 1 = 0 /\ len # 0
      /\ \A j \in 0..(len - 1) : ((0 * n + j) * 1 + 0) * 1 + 0 = j
  BY DEF IsMem
<1>2. a[0] = [j \in 0..(len - 1) |-> [d \in {0} |-> m[((0 * n + j) * 1 + 0) * 1 + d]]]
  BY <1>1 DEF Mem!reference_decode_attention, Mem!Masked, Mem!RowMajor, Mem!Idx, Batch1
<1> HIDE DEF a
<1>3. DOMAIN a[0] = 0..(len - 1) /\ \A j \in 0..(len - 1) : a[0][j][0] = m[j]
  BY <1>1, <1>2
<1>4. ReadRows(a) = [j \in 1..len |-> m[j - 1]]
  <2>1. ReadRows(a) = [j \in 1..len |-> a[0][j - 1][0]]
    BY <1>3, <1>len, RowsRead
  <2>2. \A j \in 1..len : a[0][j - 1][0] = m[j - 1]
    BY <1>3, <1>len
  <2> QED BY <2>1, <2>2
<1> QED BY <1>4 DEF a

(* ... the optimized kernel. *)
LEMMA KernelRead ==
  ASSUME NEW n, NEW m, IsMem(m, n), NEW len \in 1..n
  PROVE  ReadRows(Mem(n)!decode_attention_optimized(m, Batch1(len), 1)) = [j \in 1..len |-> m[j - 1]]
<1>len. len \in Nat /\ n \in Nat \ {0}
  BY DEF IsMem
<1> DEFINE a == Mem(n)!decode_attention_optimized(m, Batch1(len), 1)
<1>1. /\ 0..(1 * 1 - 1) = {0} /\ 0..(1 - 1) = {0} /\ 0 \div 1 = 0 /\ 0 % 1 = 0
      /\ \A j \in 0..(len - 1) : 0 * (n * 1 * 1) + j * (1 * 1) + 0 * 1 + 0 = j /\ j \in 0..(n - 1)
  BY DEF IsMem
<1>2. a[0] = [j \in 0..(len - 1) |-> [d \in {0} |-> Mem(n)!At(m, 0 * (n * 1 * 1) + j * (1 * 1) + 0 * 1 + d)]]
  BY <1>1 DEF Mem!decode_attention_optimized, Mem!Loop, Mem!Idx, Batch1
<1> HIDE DEF a
<1>3. DOMAIN a[0] = 0..(len - 1) /\ \A j \in 0..(len - 1) : a[0][j][0] = m[j]
  BY <1>1, <1>2 DEF Mem!At, IsMem
<1>4. ReadRows(a) = [j \in 1..len |-> m[j - 1]]
  <2>1. ReadRows(a) = [j \in 1..len |-> a[0][j - 1][0]]
    BY <1>3, <1>len, RowsRead
  <2>2. \A j \in 1..len : a[0][j - 1][0] = m[j - 1]
    BY <1>3, <1>len
  <2> QED BY <2>1, <2>2
<1> QED BY <1>4 DEF a

(* ... the threadgroup kernel. *)
LEMMA ThreadgroupRead ==
  ASSUME NEW n, NEW m, IsMem(m, n), NEW len \in 1..n
  PROVE  ReadRows(Mem(n)!decode_attention_threadgroup(m, Batch1(len), 1)) = [j \in 1..len |-> m[j - 1]]
<1>len. len \in Nat /\ n \in Nat \ {0}
  BY DEF IsMem
<1> DEFINE a == Mem(n)!decode_attention_threadgroup(m, Batch1(len), 1)
<1>1. /\ 0..(1 * 1 - 1) = {0} /\ 0..(1 - 1) = {0} /\ 0 \div 1 = 0 /\ 0 % 1 = 0
      /\ \A j \in 0..(len - 1) : ((0 * n + j) * 1 + 0) * 1 + 0 = j /\ j \in 0..(n - 1)
  BY DEF IsMem
<1>2. a[0] = [j \in 0..(len - 1) |-> [d \in {0} |-> Mem(n)!At(m, ((0 * n + j) * 1 + 0) * 1 + d)]]
  BY <1>1 DEF Mem!decode_attention_threadgroup, Mem!Loop, Mem!Idx, Batch1
<1> HIDE DEF a
<1>3. DOMAIN a[0] = 0..(len - 1) /\ \A j \in 0..(len - 1) : a[0][j][0] = m[j]
  BY <1>1, <1>2 DEF Mem!At, IsMem
<1>4. ReadRows(a) = [j \in 1..len |-> m[j - 1]]
  <2>1. ReadRows(a) = [j \in 1..len |-> a[0][j - 1][0]]
    BY <1>3, <1>len, RowsRead
  <2>2. \A j \in 1..len : a[0][j - 1][0] = m[j - 1]
    BY <1>3, <1>len
  <2> QED BY <2>1, <2>2
<1> QED BY <1>4 DEF a

(* ... and the grouped-query reference. *)
LEMMA GroupedRead ==
  ASSUME NEW n, NEW m, NEW size \in Nat \ {0}, NEW len \in 1..size
  PROVE  ReadRows(Mem(n)!reference_gqa_decode_attention(m, Batch1(len), 1, size)) = [j \in 1..len |-> m[j - 1]]
<1> DEFINE a == Mem(n)!reference_gqa_decode_attention(m, Batch1(len), 1, size)
<1>1. /\ 0..(1 * 1 - 1) = {0} /\ 0..(1 - 1) = {0} /\ 0 \div 1 = 0 /\ 0 % 1 = 0 /\ len # 0
      /\ 1 \div 1 = 1 /\ \A j \in 0..(len - 1) : ((0 * size + j) * 1 + 0) * 1 + 0 = j
  OBVIOUS
<1>2. a[0] = [j \in 0..(len - 1) |-> [d \in {0} |-> m[((0 * size + j) * 1 + 0) * 1 + d]]]
  BY <1>1 DEF Mem!reference_gqa_decode_attention, Mem!q_head_to_kv_head, Mem!Masked, Mem!RowMajor, Mem!Idx, Batch1
<1> HIDE DEF a
<1>3. DOMAIN a[0] = 0..(len - 1) /\ \A j \in 0..(len - 1) : a[0][j][0] = m[j]
  BY <1>1, <1>2
<1>4. ReadRows(a) = [j \in 1..len |-> m[j - 1]]
  <2>1. ReadRows(a) = [j \in 1..len |-> a[0][j - 1][0]]
    BY <1>3, RowsRead
  <2>2. \A j \in 1..len : a[0][j - 1][0] = m[j - 1]
    BY <1>3
  <2> QED BY <2>1, <2>2
<1> QED BY <1>4 DEF a

(* What the paged reference gathers through the identity table. *)
LEMMA IdentityGathered ==
  ASSUME NEW k \in Nat \ {0}, NEW n, n = k * PAGE_SIZE, NEW m, IsMem(m, n)
  PROVE  Mem(n)!Gathered(m, IdentityTable(k), 1) = m
<1> DEFINE g == Mem(n)!Gathered(m, IdentityTable(k), 1)
<1>0. /\ Mem(n)!MAX_BLOCKS = k /\ Mem(n)!Capacity = n /\ PAGE_SIZE \in Nat \ {0} /\ n \in Nat \ {0}
      /\ 1 * n * 1 * 1 = n
  BY Blocks, LlamaStackAssumption
<1>1. g = [e \in 0..(n - 1) |-> g[e]]
  BY <1>0 DEF Mem!Gathered, Mem!Array, Mem!Idx
<1>2. ASSUME NEW e \in 0..(n - 1)
      PROVE  g[e] = m[e]
  <2>1. /\ e \div PAGE_SIZE \in 0..(k - 1)
        /\ (((e \div PAGE_SIZE) * PAGE_SIZE + (e % PAGE_SIZE)) * 1 + 0) * 1 + 0 = e
    <3>1. e \div PAGE_SIZE \in 0..(k - 1) /\ (e \div PAGE_SIZE) * PAGE_SIZE + (e % PAGE_SIZE) = e
      BY Blocks
    <3> QED BY <3>1
  <2>2. e % 1 = 0 /\ (e \div 1) % 1 = 0 /\ (e \div (1 * 1)) % n = e /\ e \div (n * 1 * 1) = 0
    BY <1>0
  <2>3. IdentityTable(k)[0 * k + e \div PAGE_SIZE] = e \div PAGE_SIZE
    BY <2>1 DEF IdentityTable
  <2>4. g[e] = m[((IdentityTable(k)[0 * k + e \div PAGE_SIZE] * PAGE_SIZE + (e % PAGE_SIZE)) * 1 + 0) * 1 + 0]
    BY <1>0, <2>2 DEF Mem!Gathered, Mem!Array, Mem!RowMajor, Mem!Idx
  <2> QED BY <2>1, <2>3, <2>4
<1> HIDE DEF g
<1> QED BY <1>1, <1>2 DEF g, IsMem

(* Both paged references read the first len positions. *)
LEMMA PagedReferenceRead ==
  ASSUME NEW k \in Nat \ {0}, NEW n, n = k * PAGE_SIZE, NEW m, IsMem(m, n), NEW len \in 1..n
  PROVE  /\ ReadRows(Mem(n)!reference_paged_decode_attention(m, IdentityTable(k), Batch1(len), 1)) = [j \in 1..len |-> m[j - 1]]
         /\ ReadRows(Mem(n)!reference_paged_gqa_decode_attention(m, IdentityTable(k), Batch1(len), 1)) = [j \in 1..len |-> m[j - 1]]
<1>len. len \in Nat /\ n \in Nat \ {0}
  BY DEF IsMem
<1>0. Mem(n)!Capacity = n /\ Mem(n)!Gathered(m, IdentityTable(k), 1) = m
  BY Blocks, IdentityGathered
<1>1. Mem(n)!reference_paged_gqa_decode_attention(m, IdentityTable(k), Batch1(len), 1)
      = Mem(n)!reference_gqa_decode_attention(m, Batch1(len), 1, n)
  BY <1>0 DEF Mem!reference_paged_gqa_decode_attention
<1> DEFINE a == Mem(n)!reference_paged_decode_attention(m, IdentityTable(k), Batch1(len), 1)
<1>2. /\ 0..(1 * 1 - 1) = {0} /\ 0..(1 - 1) = {0} /\ 0 \div 1 = 0 /\ 0 % 1 = 0 /\ len # 0
      /\ \A j \in 0..(len - 1) : ((0 * n + j) * 1 + 0) * 1 + 0 = j
  BY DEF IsMem
<1>3. a[0] = [j \in 0..(len - 1) |-> [d \in {0} |-> m[((0 * n + j) * 1 + 0) * 1 + d]]]
  BY <1>0, <1>2 DEF Mem!reference_paged_decode_attention, Mem!Masked, Mem!RowMajor, Mem!Idx, Batch1
<1> HIDE DEF a
<1>4. DOMAIN a[0] = 0..(len - 1) /\ \A j \in 0..(len - 1) : a[0][j][0] = m[j]
  BY <1>2, <1>3
<1>5. ReadRows(a) = [j \in 1..len |-> m[j - 1]]
  <2>1. ReadRows(a) = [j \in 1..len |-> a[0][j - 1][0]]
    BY <1>4, <1>len, RowsRead
  <2>2. \A j \in 1..len : a[0][j - 1][0] = m[j - 1]
    BY <1>4, <1>len
  <2> QED BY <2>1, <2>2
<1>6. ReadRows(Mem(n)!reference_gqa_decode_attention(m, Batch1(len), 1, n)) = [j \in 1..len |-> m[j - 1]]
  BY <1>len, GroupedRead
<1> QED BY <1>1, <1>5, <1>6 DEF a

(* ... and both paged kernels. *)
LEMMA PagedKernelRead ==
  ASSUME NEW k \in Nat \ {0}, NEW n, n = k * PAGE_SIZE, NEW m, IsMem(m, n), NEW len \in 1..n
  PROVE  /\ ReadRows(Mem(n)!paged_decode_attention_kernel(m, IdentityTable(k), Batch1(len), 1)) = [j \in 1..len |-> m[j - 1]]
         /\ ReadRows(Mem(n)!paged_decode_attention_threadgroup(m, IdentityTable(k), Batch1(len), 1)) = [j \in 1..len |-> m[j - 1]]
<1>len. len \in Nat /\ n \in Nat \ {0}
  BY DEF IsMem
<1> DEFINE read == [j \in 0..(len - 1) |-> [d \in {0} |-> Mem(n)!At(m, Mem(n)!PagedBase(IdentityTable(k), 0, j, 1) + d)]]
<1>0. Mem(n)!MAX_BLOCKS = k /\ PAGE_SIZE \in Nat \ {0}
  BY Blocks, LlamaStackAssumption
<1>1. 0..(1 * 1 - 1) = {0} /\ 0..(1 - 1) = {0} /\ 0 \div 1 = 0 /\ 0 % 1 = 0
  OBVIOUS
<1>2. ASSUME NEW j \in 0..(len - 1)
      PROVE  Mem(n)!PagedBase(IdentityTable(k), 0, j, 1) = j /\ j \in 0..(n - 1)
  <2>1. j \in 0..(n - 1)
    BY DEF IsMem
  <2>2. j \div PAGE_SIZE \in 0..(k - 1) /\ ((((j \div PAGE_SIZE) * PAGE_SIZE + (j % PAGE_SIZE)) * 1 + 0) * 1) = j
    <3>1. j \div PAGE_SIZE \in 0..(k - 1) /\ (j \div PAGE_SIZE) * PAGE_SIZE + (j % PAGE_SIZE) = j
      BY <2>1, Blocks
    <3> QED BY <3>1
  <2>3. IdentityTable(k)[0 * k + j \div PAGE_SIZE] = j \div PAGE_SIZE
    BY <2>2 DEF IdentityTable
  <2> QED BY <1>0, <1>1, <2>1, <2>2, <2>3 DEF Mem!PagedBase
<1>3. /\ Mem(n)!paged_decode_attention_kernel(m, IdentityTable(k), Batch1(len), 1)[0] = read
      /\ Mem(n)!paged_decode_attention_threadgroup(m, IdentityTable(k), Batch1(len), 1)[0] = read
  BY <1>1 DEF Mem!paged_decode_attention_kernel, Mem!paged_decode_attention_threadgroup, Mem!Loop, Mem!Idx, Batch1
<1>4. DOMAIN read = 0..(len - 1) /\ \A j \in 0..(len - 1) : read[j][0] = m[j]
  BY <1>2 DEF Mem!At, IsMem
<1> HIDE DEF read
<1>5. ASSUME NEW a, a[0] = read
      PROVE  ReadRows(a) = [j \in 1..len |-> m[j - 1]]
  <2>1. ReadRows(a) = [j \in 1..len |-> a[0][j - 1][0]]
    BY <1>4, <1>5, <1>len, RowsRead
  <2>2. \A j \in 1..len : a[0][j - 1][0] = m[j - 1]
    BY <1>4, <1>5, <1>len
  <2> QED BY <2>1, <2>2
<1> QED BY <1>3, <1>5

-----------------------------------------------------------------------------
(* Updates and attention of one layer's cache. *)

(* A cache of n positions, contiguous, with tables that reach as far, or in
   pages of its own in order. *)
IsCache(c, n) ==
    /\ c = [K |-> c.K, V |-> c.V, table |-> c.table]
    /\ IsMem(c.K, n) /\ IsMem(c.V, n)
    /\ \/ c.table = <<>> /\ n <= RopeRows
       \/ \E k \in Nat \ {0} : n = k * PAGE_SIZE /\ c.table = IdentityTable(k)

(* The cache with one key and value written at position p. *)
Put(c, p, k, v) ==
    [K |-> [c.K EXCEPT ![p] = k], V |-> [c.V EXCEPT ![p] = v], table |-> c.table]

(* The length of a cache. *)
LEMMA CacheSlots ==
  ASSUME NEW c, NEW n, IsCache(c, n)
  PROVE  Slots(c) = n /\ Cardinality(DOMAIN c.V) = n /\ n \in Nat \ {0}
  BY SlotsOf DEF IsCache, Slots, IsMem

(* The table of a cache in pages is not that of a contiguous one. *)
LEMMA TableOf ==
  ASSUME NEW k \in Nat \ {0}
  PROVE  IdentityTable(k) # <<>>
<1>1. DOMAIN IdentityTable(k) = 0..(k - 1) /\ 0 \in 0..(k - 1)
  BY DEF IdentityTable
<1>2. DOMAIN <<>> = {}
  OBVIOUS
<1> QED BY <1>1, <1>2

(* The rotation tables have a row for each position of a contiguous cache. *)
LEMMA TablesReach ==
  ASSUME NEW c, NEW n, IsCache(c, n), c.table = <<>>
  PROVE  n <= RopeRows
<1>1. \A k \in Nat \ {0} : IdentityTable(k) # <<>>
  BY TableOf
<1> QED BY <1>1 DEF IsCache

(* A write keeps the cache one of n positions. *)
LEMMA PutCache ==
  ASSUME NEW c, NEW n, IsCache(c, n), NEW p, NEW k, NEW v
  PROVE  IsCache(Put(c, p, k, v), n)
<1>1. IsMem([c.K EXCEPT ![p] = k], n) /\ IsMem([c.V EXCEPT ![p] = v], n)
  BY DEF IsCache, IsMem
<1> QED BY <1>1 DEF IsCache, Put

(* Both backends of kv_cache_update write the key and the value at p. *)
LEMMA ContiguousUpdate ==
  ASSUME NEW c, NEW n, IsCache(c, n), NEW kv, NEW p \in 0..(n - 1), NEW call
  PROVE  /\ reference_kv_cache_update(c, kv, p) = Put(c, p, kv["K"][1], kv["V"][1])
         /\ kv_cache_update(c, kv, p, call) = Put(c, p, kv["K"][1], kv["V"][1])
<1>1. Slots(c) = n /\ p < n /\ IsMem(c["K"], n) /\ IsMem(c["V"], n)
  BY CacheSlots DEF IsCache
<1>2. DOMAIN c = {"K", "V", "table"}
  BY DEF IsCache
<1>3. \A f \in {"K", "V"} :
        /\ Mem(n)!reference_kv_cache_update(c[f], Batch1(kv[f][1]), Batch1(p), 1) = [c[f] EXCEPT ![p] = kv[f][1]]
        /\ Mem(n)!kv_cache_update_kernel(c[f], Batch1(kv[f][1]), Batch1(p), 1) = [c[f] EXCEPT ![p] = kv[f][1]]
  BY <1>1, ReferenceWrite, KernelWrite
<1>4. [f \in {"K", "V", "table"} |-> IF f \in {"K", "V"} THEN [c[f] EXCEPT ![p] = kv[f][1]] ELSE c[f]]
      = Put(c, p, kv["K"][1], kv["V"][1])
  BY DEF Put
<1>5. reference_kv_cache_update(c, kv, p) = Put(c, p, kv["K"][1], kv["V"][1])
  <2>1. reference_kv_cache_update(c, kv, p)
        = [f \in {"K", "V", "table"} |-> IF f \in {"K", "V"}
             THEN Mem(n)!reference_kv_cache_update(c[f], Batch1(kv[f][1]), Batch1(p), 1) ELSE c[f]]
    BY <1>1, <1>2 DEF reference_kv_cache_update, CacheUpdate
  <2> QED BY <1>3, <1>4, <2>1
<1>6. kv_cache_update(c, kv, p, call) = Put(c, p, kv["K"][1], kv["V"][1])
  <2>1. ~ call.ci_safe => kv_cache_update(c, kv, p, call)
        = [f \in {"K", "V", "table"} |-> IF f \in {"K", "V"}
             THEN Mem(n)!kv_cache_update_kernel(c[f], Batch1(kv[f][1]), Batch1(p), 1) ELSE c[f]]
    BY <1>1, <1>2 DEF kv_cache_update, CacheUpdate
  <2>2. call.ci_safe => kv_cache_update(c, kv, p, call) = reference_kv_cache_update(c, kv, p)
    BY DEF kv_cache_update
  <2> QED BY <1>3, <1>4, <1>5, <2>1, <2>2
<1> QED BY <1>5, <1>6

(* ... and of paged_kv_cache_update. *)
LEMMA PagedUpdate ==
  ASSUME NEW c, NEW n, IsCache(c, n), c.table # <<>>, NEW kv, NEW p \in 0..(n - 1), NEW call
  PROVE  /\ reference_paged_kv_cache_update(c, kv, p) = Put(c, p, kv["K"][1], kv["V"][1])
         /\ paged_kv_cache_update(c, kv, p, call) = Put(c, p, kv["K"][1], kv["V"][1])
<1>1. Slots(c) = n /\ p < n /\ IsMem(c["K"], n) /\ IsMem(c["V"], n)
  BY CacheSlots DEF IsCache
<1>2. DOMAIN c = {"K", "V", "table"}
  BY DEF IsCache
<1>0. PICK k \in Nat \ {0} : n = k * PAGE_SIZE /\ c.table = IdentityTable(k)
  BY DEF IsCache
<1>3. \A f \in {"K", "V"} :
        /\ Mem(n)!reference_paged_kv_cache_update(c[f], Batch1(kv[f][1]), c.table, Batch1(p), 1) = [c[f] EXCEPT ![p] = kv[f][1]]
        /\ Mem(n)!paged_kv_cache_update_kernel(c[f], Batch1(kv[f][1]), c.table, Batch1(p), 1) = [c[f] EXCEPT ![p] = kv[f][1]]
  BY <1>0, <1>1, PagedReferenceWrite, PagedKernelWrite
<1>4. [f \in {"K", "V", "table"} |-> IF f \in {"K", "V"} THEN [c[f] EXCEPT ![p] = kv[f][1]] ELSE c[f]]
      = Put(c, p, kv["K"][1], kv["V"][1])
  BY DEF Put
<1>5. reference_paged_kv_cache_update(c, kv, p) = Put(c, p, kv["K"][1], kv["V"][1])
  <2>1. reference_paged_kv_cache_update(c, kv, p)
        = [f \in {"K", "V", "table"} |-> IF f \in {"K", "V"}
             THEN Mem(n)!reference_paged_kv_cache_update(c[f], Batch1(kv[f][1]), c.table, Batch1(p), 1) ELSE c[f]]
    BY <1>1, <1>2 DEF reference_paged_kv_cache_update, CacheUpdate
  <2> QED BY <1>3, <1>4, <2>1
<1>6. paged_kv_cache_update(c, kv, p, call) = Put(c, p, kv["K"][1], kv["V"][1])
  <2>1. ~ call.ci_safe => paged_kv_cache_update(c, kv, p, call)
        = [f \in {"K", "V", "table"} |-> IF f \in {"K", "V"}
             THEN Mem(n)!paged_kv_cache_update_kernel(c[f], Batch1(kv[f][1]), c.table, Batch1(p), 1) ELSE c[f]]
    BY <1>1, <1>2 DEF paged_kv_cache_update, CacheUpdate
  <2>2. call.ci_safe => paged_kv_cache_update(c, kv, p, call) = reference_paged_kv_cache_update(c, kv, p)
    BY DEF paged_kv_cache_update
  <2> QED BY <1>3, <1>4, <1>5, <2>1, <2>2
<1> QED BY <1>5, <1>6

(* What an attention over the first len positions of a cache gives. *)
FirstRows(m, len) == [j \in 1..len |-> m[j - 1]]

(* ... which is the operation of the query, the keys and the values. *)
AttentionOver(q, c, len) == <<Op(<<"attention">>, q \o FirstRows(c.K, len) \o FirstRows(c.V, len))>>

(* Every backend of decode_attention attends to the first len positions, or
   its name is unknown. *)
LEMMA ContiguousAttention ==
  ASSUME NEW c, NEW n, IsCache(c, n), NEW q, NEW len \in 1..n, NEW backend, NEW call
  PROVE  /\ reference_gqa_decode_attention(q, c, len) = AttentionOver(q, c, len)
         /\ \/ decode_attention(q, c, len, backend, call) = AttentionOver(q, c, len)
            \/ decode_attention(q, c, len, backend, call) = <<Raise>> /\ backend \notin AttentionNames \cup {"auto"}
<1>1. /\ Slots(c) = n /\ IsMem(c["K"], n) /\ IsMem(c["V"], n) /\ n \in Nat \ {0}
      /\ \A f \in {"K", "V"} : IsMem(c[f], n) /\ Cardinality(DOMAIN c[f]) = n
  BY CacheSlots, SlotsOf DEF IsCache
<1>2. reference_gqa_decode_attention(q, c, len) = AttentionOver(q, c, len)
  <2> DEFINE read == [f \in {"K", "V"} |-> Mem(n)!reference_gqa_decode_attention(c[f], Batch1(len), 1, n)]
  <2>1. reference_gqa_decode_attention(q, c, len) = Attention(q, read)
    BY <1>1 DEF reference_gqa_decode_attention
  <2>2. ReadRows(read["K"]) = FirstRows(c.K, len) /\ ReadRows(read["V"]) = FirstRows(c.V, len)
    <3>1. ASSUME NEW f \in {"K", "V"}
          PROVE  ReadRows(Mem(n)!reference_gqa_decode_attention(c[f], Batch1(len), 1, n)) = FirstRows(c[f], len)
      <4> DEFINE m == c[f]
      <4> HIDE DEF m
      <4>1. ReadRows(Mem(n)!reference_gqa_decode_attention(m, Batch1(len), 1, n)) = [j \in 1..len |-> m[j - 1]]
        BY <1>1, GroupedRead
      <4> QED BY <4>1 DEF FirstRows, m
    <3> QED BY <3>1
  <2> HIDE DEF read
  <2> QED BY <2>1, <2>2 DEF Attention, AttentionOver
<1>3. ASSUME NEW name \in AttentionNames
      PROVE  Attention(q, [f \in {"K", "V"} |-> DecodeAttentionRead(c[f], len, name)]) = AttentionOver(q, c, len)
  <2> DEFINE read == [f \in {"K", "V"} |-> DecodeAttentionRead(c[f], len, name)]
  <2>1. \A f \in {"K", "V"} : ReadRows(DecodeAttentionRead(c[f], len, name)) = FirstRows(c[f], len)
    <3> TAKE f \in {"K", "V"}
    <3>1. IsMem(c[f], n) /\ Cardinality(DOMAIN c[f]) = n
      BY <1>1
    <3>2. CASE name = "reference"
      BY <3>1, <3>2, ReferenceRead DEF FirstRows, DecodeAttentionRead
    <3>3. CASE name = "metal"
      BY <3>1, <3>3, KernelRead DEF FirstRows, DecodeAttentionRead
    <3>4. CASE name = "metal_threadgroup"
      BY <3>1, <3>4, ThreadgroupRead DEF FirstRows, DecodeAttentionRead
    <3> QED BY <3>2, <3>3, <3>4 DEF AttentionNames
  <2>2. ReadRows(read["K"]) = FirstRows(c.K, len) /\ ReadRows(read["V"]) = FirstRows(c.V, len)
    BY <2>1
  <2> HIDE DEF read
  <2>3. Attention(q, read) = AttentionOver(q, c, len)
    BY <2>2 DEF Attention, AttentionOver
  <2> QED BY <2>3 DEF read
<1>4. \/ decode_attention(q, c, len, backend, call) = AttentionOver(q, c, len)
      \/ decode_attention(q, c, len, backend, call) = <<Raise>> /\ backend \notin AttentionNames \cup {"auto"}
  <2>1. CASE _resolve_backend(backend, call) \in AttentionNames
    BY <1>3, <2>1 DEF decode_attention
  <2>2. CASE _resolve_backend(backend, call) \notin AttentionNames
    BY <2>2 DEF decode_attention, _resolve_backend, AttentionNames
  <2> QED BY <2>1, <2>2
<1> QED BY <1>2, <1>4

(* ... and of paged_decode_attention. *)
LEMMA PagedAttention ==
  ASSUME NEW c, NEW n, IsCache(c, n), c.table # <<>>, NEW q, NEW len \in 1..n, NEW backend, NEW call
  PROVE  /\ reference_paged_gqa_decode_attention(q, c, len) = AttentionOver(q, c, len)
         /\ \/ paged_decode_attention(q, c, len, backend, call) = AttentionOver(q, c, len)
            \/ paged_decode_attention(q, c, len, backend, call) = <<Raise>> /\ backend \notin AttentionNames \cup {"auto"}
<1>0. PICK k \in Nat \ {0} : n = k * PAGE_SIZE /\ c.table = IdentityTable(k)
  BY DEF IsCache
<1>1. /\ Slots(c) = n /\ n \in Nat \ {0}
      /\ \A f \in {"K", "V"} : IsMem(c[f], n) /\ Cardinality(DOMAIN c[f]) = n
  BY CacheSlots, SlotsOf DEF IsCache
<1>2. reference_paged_gqa_decode_attention(q, c, len) = AttentionOver(q, c, len)
  <2> DEFINE read == [f \in {"K", "V"} |-> Mem(n)!reference_paged_gqa_decode_attention(c[f], c.table, Batch1(len), 1)]
  <2>1. reference_paged_gqa_decode_attention(q, c, len) = Attention(q, read)
    BY <1>1 DEF reference_paged_gqa_decode_attention
  <2>2. ReadRows(read["K"]) = FirstRows(c.K, len) /\ ReadRows(read["V"]) = FirstRows(c.V, len)
    <3>1. ASSUME NEW f \in {"K", "V"}
          PROVE  ReadRows(read[f]) = FirstRows(c[f], len)
      <4>1. read[f] = Mem(n)!reference_paged_gqa_decode_attention(c[f], IdentityTable(k), Batch1(len), 1)
        BY <1>0
      <4>2. IsMem(c[f], n)
        BY <1>1
      <4>3. ReadRows(Mem(n)!reference_paged_gqa_decode_attention(c[f], IdentityTable(k), Batch1(len), 1))
            = [j \in 1..len |-> c[f][j - 1]]
        BY <1>0, <4>2, PagedReferenceRead
      <4> HIDE DEF read
      <4> QED BY <4>1, <4>3 DEF FirstRows
    <3> QED BY <3>1
  <2> HIDE DEF read
  <2> QED BY <2>1, <2>2 DEF Attention, AttentionOver
<1>3. ASSUME NEW name \in AttentionNames
      PROVE  Attention(q, [f \in {"K", "V"} |-> PagedDecodeAttentionRead(c[f], c.table, len, name)]) = AttentionOver(q, c, len)
  <2> DEFINE read == [f \in {"K", "V"} |-> PagedDecodeAttentionRead(c[f], c.table, len, name)]
  <2>1. \A f \in {"K", "V"} : ReadRows(PagedDecodeAttentionRead(c[f], c.table, len, name)) = FirstRows(c[f], len)
    <3> TAKE f \in {"K", "V"}
    <3>1. IsMem(c[f], n) /\ Cardinality(DOMAIN c[f]) = n
      BY <1>1
    <3>2. CASE name = "reference"
      BY <1>0, <3>1, <3>2, PagedReferenceRead DEF FirstRows, PagedDecodeAttentionRead
    <3>3. CASE name = "metal"
      BY <1>0, <3>1, <3>3, PagedKernelRead DEF FirstRows, PagedDecodeAttentionRead
    <3>4. CASE name = "metal_threadgroup"
      BY <1>0, <3>1, <3>4, PagedKernelRead DEF FirstRows, PagedDecodeAttentionRead
    <3> QED BY <3>2, <3>3, <3>4 DEF AttentionNames
  <2>2. ReadRows(read["K"]) = FirstRows(c.K, len) /\ ReadRows(read["V"]) = FirstRows(c.V, len)
    BY <2>1
  <2> HIDE DEF read
  <2>3. Attention(q, read) = AttentionOver(q, c, len)
    BY <2>2 DEF Attention, AttentionOver
  <2> QED BY <2>3 DEF read
<1>4. \/ paged_decode_attention(q, c, len, backend, call) = AttentionOver(q, c, len)
      \/ paged_decode_attention(q, c, len, backend, call) = <<Raise>> /\ backend \notin AttentionNames \cup {"auto"}
  <2>1. CASE _resolve_backend(backend, call) \in AttentionNames
    BY <1>3, <2>1 DEF paged_decode_attention
  <2>2. CASE _resolve_backend(backend, call) \notin AttentionNames
    BY <2>2 DEF paged_decode_attention, _resolve_backend, AttentionNames
  <2> QED BY <2>1, <2>2
<1> QED BY <1>2, <1>4

-----------------------------------------------------------------------------
(* What operations make of rows that may have raised. *)

(* An operation of one row raises when the row did. *)
LEMMA OpOne ==
  ASSUME NEW label, NEW a
  PROVE  Op(label, <<a>>) = IF a = Raise THEN Raise ELSE Term(label, <<a>>)
<1>1. DOMAIN <<a>> = {1} /\ <<a>>[1] = a
  OBVIOUS
<1> QED BY <1>1 DEF Op, Term

(* An operation of two rows raises when one of them did. *)
LEMMA OpTwo ==
  ASSUME NEW label, NEW a, NEW b
  PROVE  Op(label, <<a, b>>) = IF a = Raise \/ b = Raise THEN Raise ELSE Term(label, <<a, b>>)
<1>1. DOMAIN <<a, b>> = {1, 2} /\ <<a, b>>[1] = a /\ <<a, b>>[2] = b
  OBVIOUS
<1> QED BY <1>1 DEF Op, Term

(* A row that is an expression: neither raised nor the zeros. *)
Proper(row) == row # Raise /\ row # ZeroRow

(* Rows that are expressions. *)
Clean(e) == \A i \in DOMAIN e : Proper(e[i])

(* Every operation of the specification gives an expression. *)
LEMMA ProperTerms ==
  ASSUME NEW a, NEW b, NEW c, NEW l, NEW name
  PROVE  /\ Proper(Linear(a, l, name)) /\ Proper(Normed(a, b)) /\ Proper(Term(<<"part", a>>, b))
         /\ Proper(Term(<<"rope", a>>, b)) /\ Proper(Term(<<"attention">>, a)) /\ Proper(Term(<<"swiglu">>, a))
         /\ Proper(Term(<<"lm_head">>, a)) /\ Proper(<<<<"input", a, b>>, c>>)
         /\ (Proper(a) /\ Proper(b) => Proper(Sum(a, b)))
  BY DEF Proper, Raise, ZeroRow, Linear, Normed, Term, Sum

(* A residual is added in either order. *)
LEMMA SumSwap == ASSUME NEW a, NEW b PROVE Sum(a, b) = Sum(b, a)
<1>1. {a, b} = {b, a}
  OBVIOUS
<1> QED BY <1>1 DEF Sum

(* s is e, or when ok does not hold it may have raised. *)
Yields(s, e, ok) ==
    /\ s = [i \in DOMAIN e |-> s[i]]
    /\ s = e \/ (~ok /\ \A i \in DOMAIN e : s[i] = Raise)

(* A guard of the code that a fitting call passes. *)
LEMMA GuardYields ==
  ASSUME NEW s, NEW e, NEW ok, NEW guard, Yields(s, e, ok), ok => guard
  PROVE  Yields(Guarded(guard, s), e, ok)
<1>1. DOMAIN s = DOMAIN e
  BY DEF Yields
<1>2. CASE guard
  BY <1>2 DEF Guarded
<1>3. CASE ~guard
  <2>1. Guarded(guard, s) = [i \in DOMAIN e |-> Raise]
    BY <1>1, <1>3 DEF Guarded, Each
  <2> QED BY <1>3, <2>1 DEF Yields
<1> QED BY <1>2, <1>3

(* An operation applied to every row. *)
LEMMA EachYields ==
  ASSUME NEW s, NEW e, NEW ok, Yields(s, e, ok), Clean(e), NEW label
  PROVE  Yields([i \in DOMAIN s |-> Op(label, <<s[i]>>)], [i \in DOMAIN e |-> Term(label, <<e[i]>>)], ok)
<1> DEFINE t == [i \in DOMAIN s |-> Op(label, <<s[i]>>)]
           f == [i \in DOMAIN e |-> Term(label, <<e[i]>>)]
<1>1. DOMAIN s = DOMAIN e /\ DOMAIN t = DOMAIN e /\ DOMAIN f = DOMAIN e /\ t = [i \in DOMAIN e |-> t[i]]
  BY DEF Yields
<1>2. \A i \in DOMAIN e : t[i] = IF s[i] = Raise THEN Raise ELSE Term(label, <<s[i]>>)
  BY <1>1, OpOne
<1>3. ASSUME s = e PROVE Yields(t, f, ok)
  <2>1. \A i \in DOMAIN e : t[i] = f[i]
    BY <1>2, <1>3 DEF Clean, Proper
  <2>2. f = [i \in DOMAIN f |-> f[i]]
    OBVIOUS
  <2> HIDE DEF t, f
  <2>3. t = f
    BY <1>1, <2>1, <2>2
  <2> QED BY <1>1, <2>3 DEF Yields
<1>4. ASSUME ~ok, \A i \in DOMAIN e : s[i] = Raise PROVE Yields(t, f, ok)
  <2>1. \A i \in DOMAIN e : t[i] = Raise
    BY <1>2, <1>4
  <2> HIDE DEF t, f
  <2> QED BY <1>1, <1>4, <2>1 DEF Yields
<1> HIDE DEF t, f
<1>5. Yields(t, f, ok)
  BY <1>3, <1>4 DEF Yields
<1> QED BY <1>5 DEF t, f

(* The operations of the specification over rows: rms_norm, *)
NormedRows(e, w) == [i \in DOMAIN e |-> Normed(e[i], w)]

(* a projection, *)
LinearRows(e, l, name) == [i \in DOMAIN e |-> Linear(e[i], l, name)]

(* a part of a fused projection, *)
PartRows(e, name) == [i \in DOMAIN e |-> Term(<<"part", name>>, <<e[i]>>)]

(* the rotation of rows at positions p on, *)
RotatedRows(e, p) == [i \in DOMAIN e |-> Term(<<"rope", p + i - 1>>, <<e[i]>>)]

(* the gated activation *)
SwigluRows(e, f) == [i \in DOMAIN e |-> Term(<<"swiglu">>, <<e[i], f[i]>>)]

(* and the residual. *)
SumRows(e, f) == [i \in DOMAIN e |-> Sum(e[i], f[i])]

(* They give expressions. *)
LEMMA CleanRows ==
  ASSUME NEW e, NEW f, NEW w, NEW l, NEW name, NEW p
  PROVE  /\ DOMAIN NormedRows(e, w) = DOMAIN e /\ Clean(NormedRows(e, w))
         /\ DOMAIN LinearRows(e, l, name) = DOMAIN e /\ Clean(LinearRows(e, l, name))
         /\ DOMAIN PartRows(e, name) = DOMAIN e /\ Clean(PartRows(e, name))
         /\ DOMAIN RotatedRows(e, p) = DOMAIN e /\ Clean(RotatedRows(e, p))
         /\ DOMAIN SwigluRows(e, f) = DOMAIN e /\ Clean(SwigluRows(e, f))
         /\ DOMAIN SumRows(e, f) = DOMAIN e
         /\ (Clean(e) /\ Clean(f) /\ DOMAIN e = DOMAIN f => Clean(SumRows(e, f)))
  BY ProperTerms DEF Clean, NormedRows, LinearRows, PartRows, RotatedRows, SwigluRows, SumRows

(* rms_norm, whichever its backend, normalises the rows. *)
LEMMA NormYields ==
  ASSUME NEW s, NEW e, NEW ok, Yields(s, e, ok), Clean(e), NEW w, NEW backend, NEW call
  PROVE  /\ Yields(reference_rms_norm(s, w), NormedRows(e, w), ok)
         /\ (ok => Accepts(backend, call)) => Yields(rms_norm(s, w, backend, call), NormedRows(e, w), ok)
<1>1. Yields(reference_rms_norm(s, w), NormedRows(e, w), ok)
  BY EachYields DEF reference_rms_norm, NormedRows, Each, Normed
<1> QED BY <1>1, GuardYields DEF rms_norm

(* The bits of a layer's weights. *)
LEMMA BitsOf ==
  ASSUME NEW l \in 1..Layers, NEW name
  PROVE  Bits[l] \in {4, 8} /\ W(l, name)[3] = Bits[l]
  BY LlamaStackAssumption DEF W

(* The names of the matvec kernels and of their reference. *)
MatvecNames == MatvecBackends \cup {"reference"}

(* The three quantized projections, whichever their backend, project the
   rows. *)
LEMMA LinearYields ==
  ASSUME NEW s, NEW e, NEW ok, Yields(s, e, ok), Clean(e), NEW l \in 1..Layers, NEW name, NEW backend, NEW call,
         ok => (backend = "reference" \/ HalfPrecision(call)) /\ (call.ci_safe \/ backend \in MatvecNames)
  PROVE  /\ Yields(quantized_linear(s, W(l, name), Bits[l], backend, call), LinearRows(e, l, name), ok)
         /\ Yields(quantized_qkv_projection(s, W(l, name), Bits[l], backend, call), LinearRows(e, l, name), ok)
         /\ Yields(quantized_output_projection(s, W(l, name), Bits[l], backend, call), LinearRows(e, l, name), ok)
<1> DEFINE rows == [i \in DOMAIN s |-> Op(<<"linear", W(l, name)>>, <<s[i]>>)]
<1>1. Yields(rows, LinearRows(e, l, name), ok)
  BY EachYields DEF LinearRows, Linear
<1> HIDE DEF rows
<1>2. Bits[l] = 4 => Yields(reference_q4_matvec_decode(s, W(l, name)), LinearRows(e, l, name), ok)
  BY <1>1, BitsOf, GuardYields DEF reference_q4_matvec_decode, Each, rows
<1>3. Bits[l] = 8 => Yields(reference_q8_matvec_decode(s, W(l, name)), LinearRows(e, l, name), ok)
  BY <1>1, BitsOf, GuardYields DEF reference_q8_matvec_decode, Each, rows
<1>4. backend # "reference" =>
        /\ Bits[l] = 4 => Yields(q4_matvec_decode(s, W(l, name), backend, call), LinearRows(e, l, name), ok)
        /\ Bits[l] = 8 => Yields(q8_matvec_decode(s, W(l, name), backend, call), LinearRows(e, l, name), ok)
  BY <1>2, <1>3, GuardYields DEF q4_matvec_decode, q8_matvec_decode, MatvecNames
<1>5. Bits[l] = 4 \/ (Bits[l] = 8 /\ Bits[l] # 4)
  BY BitsOf
<1> QED BY <1>2, <1>3, <1>4, <1>5 DEF quantized_linear, quantized_qkv_projection, quantized_output_projection,
           _matvec_dispatch

-----------------------------------------------------------------------------
(* The feed-forward half. *)

(* residual_add, whichever its backend, adds rows. *)
LEMMA SumYields ==
  ASSUME NEW s, NEW e, NEW t, NEW f, NEW ok, Yields(s, e, ok), Yields(t, f, ok), Clean(e), Clean(f),
         DOMAIN e = DOMAIN f, NEW backend, NEW call
  PROVE  /\ Yields(reference_residual_add(s, t), SumRows(e, f), ok)
         /\ (ok => HalfPrecision(call) /\ Accepts(backend, call))
              => Yields(residual_add(s, t, backend, call), SumRows(e, f), ok)
<1> DEFINE r == reference_residual_add(s, t)
           g == SumRows(e, f)
<1>1. /\ DOMAIN s = DOMAIN e /\ DOMAIN g = DOMAIN e /\ r = [i \in DOMAIN e |-> r[i]] /\ g = [i \in DOMAIN e |-> g[i]]
      /\ \A i \in DOMAIN e : g[i] = Sum(e[i], f[i])
  BY DEF Yields, reference_residual_add, SumRows
<1>2. \A i \in DOMAIN e : r[i] = Sum(s[i], t[i])
  <2>1. \A i \in DOMAIN e : t[i] # ZeroRow
    <3>1. Raise # ZeroRow
      BY DEF Raise, ZeroRow
    <3> QED BY <3>1 DEF Yields, Clean, Proper
  <2> QED BY <1>1, <2>1 DEF reference_residual_add
<1> HIDE DEF r, g
<1>3. Yields(r, g, ok)
  <2>1. ASSUME s = e, t = f PROVE r = g
    BY <1>1, <1>2, <2>1
  <2>2. ASSUME ~(s = e /\ t = f) PROVE ~ok /\ \A i \in DOMAIN e : r[i] = Raise
    <3>1. ~ok /\ \A i \in DOMAIN e : s[i] = Raise \/ t[i] = Raise
      BY <2>2 DEF Yields
    <3> QED BY <1>2, <3>1 DEF Sum
  <2>3. DOMAIN g = DOMAIN e
    BY <1>1
  <2> QED BY <1>1, <2>1, <2>2, <2>3 DEF Yields
<1>4. Yields(reference_residual_add(s, t), SumRows(e, f), ok)
  BY <1>3 DEF r, g
<1> QED BY <1>4, GuardYields DEF residual_add

(* Adding the zeros quantized_mlp_block is given for a residual changes
   nothing. *)
LEMMA AddZeros ==
  ASSUME NEW s, NEW e, NEW ok, Yields(s, e, ok), Clean(e), NEW backend, NEW call
  PROVE  /\ Yields(reference_residual_add(s, _zero_like_hidden(s)), e, ok)
         /\ (ok => HalfPrecision(call) /\ Accepts(backend, call))
              => Yields(residual_add(s, _zero_like_hidden(s), backend, call), e, ok)
<1> DEFINE r == reference_residual_add(s, _zero_like_hidden(s))
<1>1. r = [i \in DOMAIN e |-> r[i]] /\ DOMAIN s = DOMAIN e
  BY DEF Yields, reference_residual_add
<1>2. \A i \in DOMAIN e : _zero_like_hidden(s)[i] = IF s[i] = Raise THEN Raise ELSE ZeroRow
  BY <1>1 DEF _zero_like_hidden, Each
<1>3. \A i \in DOMAIN e : r[i] = s[i]
  BY <1>1, <1>2 DEF reference_residual_add, Sum
<1> HIDE DEF r
<1>4. r = s
  BY <1>1, <1>3 DEF Yields
<1> QED BY <1>4, GuardYields DEF residual_add, r

(* So does swiglu, and fused_swiglu, gate rows. *)
LEMMA SwigluYields ==
  ASSUME NEW s, NEW e, NEW t, NEW f, NEW ok, Yields(s, e, ok), Yields(t, f, ok), Clean(e), Clean(f),
         DOMAIN e = DOMAIN f, NEW backend, NEW call, ok => HalfPrecision(call)
  PROVE  /\ Yields(reference_swiglu(s, t, call), SwigluRows(e, f), ok)
         /\ (ok => Accepts(backend, call)) => Yields(swiglu(s, t, backend, call), SwigluRows(e, f), ok)
         /\ Yields(fused_swiglu(s, t, "metal_fused", call), SwigluRows(e, f), ok)
<1> DEFINE r == [i \in DOMAIN s |-> Op(<<"swiglu">>, <<s[i], t[i]>>)]
           g == SwigluRows(e, f)
<1>1. /\ DOMAIN s = DOMAIN e /\ DOMAIN g = DOMAIN e /\ r = [i \in DOMAIN e |-> r[i]] /\ g = [i \in DOMAIN e |-> g[i]]
      /\ \A i \in DOMAIN e : g[i] = Term(<<"swiglu">>, <<e[i], f[i]>>)
  BY DEF Yields, SwigluRows
<1>2. \A i \in DOMAIN e : r[i] = IF s[i] = Raise \/ t[i] = Raise THEN Raise ELSE Term(<<"swiglu">>, <<s[i], t[i]>>)
  BY <1>1, OpTwo
<1>3. r = [i \in DOMAIN s |-> Op(<<"swiglu">>, <<s[i], t[i]>>)]
  OBVIOUS
<1> HIDE DEF r, g
<1>4. Yields(r, g, ok)
  <2>1. ASSUME s = e, t = f PROVE r = g
    <3>1. \A i \in DOMAIN e : r[i] = g[i]
      BY <1>1, <1>2, <2>1 DEF Clean, Proper
    <3> QED BY <1>1, <3>1
  <2>2. ASSUME ~(s = e /\ t = f) PROVE ~ok /\ \A i \in DOMAIN e : r[i] = Raise
    <3>1. ~ok /\ \A i \in DOMAIN e : s[i] = Raise \/ t[i] = Raise
      BY <2>2 DEF Yields
    <3> QED BY <1>2, <3>1
  <2>3. DOMAIN g = DOMAIN e
    BY <1>1
  <2> QED BY <1>1, <2>1, <2>2, <2>3 DEF Yields
<1>5. Yields(reference_swiglu(s, t, call), g, ok)
  BY <1>3, <1>4, GuardYields DEF reference_swiglu
<1> QED BY <1>5, GuardYields DEF swiglu, fused_swiglu, g

(* The backends of a feed-forward block that the functions it calls accept. *)
MlpFits(b) ==
    /\ b.norm \in {"reference", "metal"} /\ b.residual \in {"reference", "metal"}
    /\ b.activation \in {"reference", "metal", "metal_fused"}
    /\ b.matvec \in {"reference", "metal_tiled", "metal_parallel", "metal_gate_up_tiled"}
    /\ b.down \in MatvecNames

(* The feed-forward half over rows. *)
FedRows(e, l) == [i \in DOMAIN e |-> FedForward(e[i], l)]

(* The weights of a layer. *)
LEMMA WeightOf ==
  ASSUME NEW l
  PROVE  /\ Weights(l).qkv = W(l, "qkv") /\ Weights(l).o = W(l, "o") /\ Weights(l).gate = W(l, "gate")
         /\ Weights(l).up = W(l, "up") /\ Weights(l).down = W(l, "down")
  BY DEF Weights

(* quantized_gate_up_projection projects the rows to gate and up. *)
LEMMA GateUpYields ==
  ASSUME NEW s, NEW e, NEW ok, Yields(s, e, ok), Clean(e), NEW l \in 1..Layers, NEW backend, NEW call,
         ok => HalfPrecision(call),
         ok => backend \in {"reference", "metal_tiled", "metal_parallel", "metal_gate_up_tiled"}
  PROVE  LET proj == quantized_gate_up_projection(s, Weights(l), Bits[l], backend, call)
         IN  Yields(proj.gate, LinearRows(e, l, "gate"), ok) /\ Yields(proj.up, LinearRows(e, l, "up"), ok)
<1> DEFINE names == {"reference", "metal_tiled", "metal_parallel", "metal_gate_up_tiled"}
           name == IF call.ci_safe THEN "reference" ELSE backend
           proj == quantized_gate_up_projection(s, Weights(l), Bits[l], backend, call)
<1>1. CASE backend \notin names
  <2>1. ~ok /\ proj = [gate |-> Guarded(FALSE, s), up |-> Guarded(FALSE, s)]
    BY <1>1 DEF quantized_gate_up_projection
  <2>2. ASSUME NEW f, DOMAIN f = DOMAIN e
        PROVE  Yields(Guarded(FALSE, s), f, ok)
    BY <2>1, <2>2 DEF Guarded, Each, Yields
  <2>3. proj.gate = Guarded(FALSE, s) /\ proj.up = Guarded(FALSE, s)
    BY <2>1
  <2>4. Yields(Guarded(FALSE, s), LinearRows(e, l, "gate"), ok) /\ Yields(Guarded(FALSE, s), LinearRows(e, l, "up"), ok)
    <3>1. DOMAIN LinearRows(e, l, "gate") = DOMAIN e /\ DOMAIN LinearRows(e, l, "up") = DOMAIN e
      BY DEF LinearRows
    <3> QED BY <2>2, <3>1
  <2> QED BY <2>3, <2>4
<1>2. CASE backend \in names /\ name # "metal_gate_up_tiled"
  <2>1. /\ proj.gate = quantized_linear(s, W(l, "gate"), Bits[l], name, call)
        /\ proj.up = quantized_linear(s, W(l, "up"), Bits[l], name, call)
    BY <1>2, WeightOf DEF quantized_gate_up_projection
  <2>2. name \in MatvecNames
    BY <1>2 DEF MatvecNames, MatvecBackends
  <2> HIDE DEF name
  <2> QED BY <2>1, <2>2, LinearYields
<1>3. CASE backend \in names /\ name = "metal_gate_up_tiled"
  <2>1. ASSUME NEW part
        PROVE  /\ Bits[l] = 4 => Yields(reference_q4_matvec_decode(s, W(l, part)), LinearRows(e, l, part), ok)
               /\ Bits[l] = 8 => Yields(reference_q8_matvec_decode(s, W(l, part)), LinearRows(e, l, part), ok)
    <3>1. /\ Bits[l] = 4 => quantized_linear(s, W(l, part), Bits[l], "reference", call) = reference_q4_matvec_decode(s, W(l, part))
          /\ Bits[l] = 8 => quantized_linear(s, W(l, part), Bits[l], "reference", call) = reference_q8_matvec_decode(s, W(l, part))
      BY DEF quantized_linear
    <3>2. Yields(quantized_linear(s, W(l, part), Bits[l], "reference", call), LinearRows(e, l, part), ok)
      BY LinearYields DEF MatvecNames
    <3> QED BY <3>1, <3>2
  <2>2. CASE Bits[l] = 4
    <3>1. /\ proj.gate = Guarded(HalfPrecision(call), reference_q4_matvec_decode(s, W(l, "gate")))
          /\ proj.up = Guarded(HalfPrecision(call), reference_q4_matvec_decode(s, W(l, "up")))
      BY <1>3, <2>2, WeightOf DEF quantized_gate_up_projection, q4_gate_up_matvec_tiled
    <3> QED BY <2>1, <2>2, <3>1, GuardYields
  <2>3. CASE Bits[l] = 8
    <3>1. /\ proj.gate = Guarded(HalfPrecision(call), reference_q8_matvec_decode(s, W(l, "gate")))
          /\ proj.up = Guarded(HalfPrecision(call), reference_q8_matvec_decode(s, W(l, "up")))
      BY <1>3, <2>3, WeightOf DEF quantized_gate_up_projection, q8_gate_up_matvec_tiled
    <3> QED BY <2>1, <2>3, <3>1, GuardYields
  <2> QED BY <2>2, <2>3, BitsOf
<1> QED BY <1>1, <1>2, <1>3

(* quantized_mlp_block is the feed-forward half. *)
LEMMA MlpYields ==
  ASSUME NEW h, NEW e, NEW ok, Yields(h, e, ok), Clean(e), NEW l \in 1..Layers, NEW b, NEW call,
         ok => HalfPrecision(call) /\ MlpFits(b)
  PROVE  Yields(quantized_mlp_block(h, _zero_like_hidden(h), Norm(l, "post_attention_layernorm"), Weights(l),
                                    Bits[l], b, call), FedRows(e, l), ok)
<1> DEFINE w == Norm(l, "post_attention_layernorm")
           z == MlpAdd(h, _zero_like_hidden(h), b, call)
           n == NormedRows(e, w)
           normed == MlpNorm(z, w, b, call)
           proj == quantized_gate_up_projection(normed, Weights(l), Bits[l], b.matvec, call)
           g == LinearRows(n, l, "gate")
           u == LinearRows(n, l, "up")
           a == SwigluRows(g, u)
           act == MlpActivation(proj, b, call)
           d == LinearRows(a, l, "down")
           down == quantized_linear(act, Weights(l).down, Bits[l], b.down, call)
<1>1. Yields(z, e, ok)
  BY AddZeros DEF MlpAdd, MlpFits, Accepts
<1>2. Yields(normed, n, ok)
  <2> HIDE DEF z
  <2> QED BY <1>1, NormYields DEF MlpNorm, MlpFits, Accepts
<1>3. Clean(n) /\ DOMAIN n = DOMAIN e
  BY CleanRows
<1> HIDE DEF normed, n
<1>4. Yields(proj.gate, g, ok) /\ Yields(proj.up, u, ok)
  BY <1>2, <1>3, GateUpYields DEF MlpFits
<1>5. Clean(g) /\ Clean(u) /\ DOMAIN g = DOMAIN e /\ DOMAIN u = DOMAIN e
  BY <1>3, CleanRows
<1> HIDE DEF proj, g, u
<1>6. Yields(act, a, ok)
  BY <1>4, <1>5, SwigluYields DEF MlpActivation, MlpFits, Accepts
<1>7. Clean(a) /\ DOMAIN a = DOMAIN e
  BY <1>5, CleanRows
<1> HIDE DEF act, a
<1>8. Yields(down, d, ok)
  BY <1>6, <1>7, LinearYields, WeightOf DEF MlpFits
<1>9. Clean(d) /\ DOMAIN d = DOMAIN e
  BY <1>7, CleanRows
<1> HIDE DEF down, d, z
<1>10. Yields(MlpAdd(z, down, b, call), SumRows(e, d), ok)
  BY <1>1, <1>8, <1>9, SumYields DEF MlpAdd, MlpFits, Accepts
<1>11. quantized_mlp_block(h, _zero_like_hidden(h), w, Weights(l), Bits[l], b, call) = MlpAdd(z, down, b, call)
  BY DEF quantized_mlp_block, MlpOf, z, down, act, proj, normed
<1>12. SumRows(e, d) = FedRows(e, l)
  <2>1. \A i \in DOMAIN e : SumRows(e, d)[i] = FedForward(e[i], l)
    BY <1>3, <1>5, <1>7 DEF SumRows, FedForward, d, a, g, u, n, LinearRows, SwigluRows, NormedRows
  <2> QED BY <2>1 DEF SumRows, FedRows
<1> QED BY <1>10, <1>11, <1>12

-----------------------------------------------------------------------------
(* Rotation, and the parts of a projection. *)

(* apply_rope rotates row i by the table's row p + i, when the table has it. *)
LEMMA RopeYields ==
  ASSUME NEW s, NEW e, NEW ok, Yields(s, e, ok), Clean(e), NEW n \in Nat, DOMAIN e = 1..n, NEW p \in Nat, NEW call,
         ok => HalfPrecision(call) /\ p + n <= RopeRows
  PROVE  Yields(reference_apply_rope(s, p, call), RotatedRows(e, p), ok)
<1> DEFINE t == [i \in DOMAIN s |-> Op(<<"rope", p + i - 1>>, <<s[i]>>)]
           f == RotatedRows(e, p)
<1>1. /\ DOMAIN s = DOMAIN e /\ DOMAIN f = DOMAIN e /\ t = [i \in DOMAIN e |-> t[i]] /\ f = [i \in DOMAIN e |-> f[i]]
      /\ \A i \in DOMAIN e : f[i] = Term(<<"rope", p + i - 1>>, <<e[i]>>)
  BY DEF Yields, RotatedRows
<1>2. \A i \in DOMAIN e : t[i] = IF s[i] = Raise THEN Raise ELSE Term(<<"rope", p + i - 1>>, <<s[i]>>)
  BY <1>1, OpOne
<1>3. Len(s) = n
  BY <1>1, RowsLen DEF IsRows, Yields
<1>4. reference_apply_rope(s, p, call) = Guarded(HalfPrecision(call) /\ p + n <= RopeRows, t)
  BY <1>3 DEF reference_apply_rope
<1> HIDE DEF t, f
<1>5. Yields(t, f, ok)
  <2>1. ASSUME s = e PROVE t = f
    <3>1. \A i \in DOMAIN e : t[i] = f[i]
      BY <1>1, <1>2, <2>1 DEF Clean, Proper
    <3> QED BY <1>1, <3>1
  <2>2. ASSUME s # e PROVE ~ok /\ \A i \in DOMAIN e : t[i] = Raise
    BY <1>2, <2>2 DEF Yields
  <2> QED BY <1>1, <2>1, <2>2 DEF Yields
<1> QED BY <1>4, <1>5, GuardYields DEF f

(* The rotated query and key and the value of rows e at positions p on. *)
PartsYield(parts, e, p, ok) ==
    /\ Yields(parts.q, RotatedRows(PartRows(e, "q"), p), ok)
    /\ Yields(parts.k, RotatedRows(PartRows(e, "k"), p), ok)
    /\ Yields(parts.v, PartRows(e, "v"), ok)

(* A guard over the three parts. *)
LEMMA GuardParts ==
  ASSUME NEW parts, NEW e, NEW p, NEW ok, NEW guard, PartsYield(parts, e, p, ok), ok => guard
  PROVE  PartsYield(GuardedParts(guard, parts), e, p, ok)
  BY GuardYields DEF PartsYield, GuardedParts

(* Splitting a fused projection and rotating two of its parts. *)
LEMMA SplitYields ==
  ASSUME NEW qkv, NEW e, NEW ok, Yields(qkv, e, ok), Clean(e), NEW n \in Nat, DOMAIN e = 1..n, NEW p \in Nat, NEW call,
         ok => HalfPrecision(call) /\ p + n <= RopeRows
  PROVE  /\ PartsYield(reference_gqa_qkv_split_rope(qkv, p, call), e, p, ok)
         /\ ~call.grouped => PartsYield(reference_qkv_split_rope(qkv, p, call), e, p, ok)
<1>1. ASSUME NEW name
      PROVE  Yields(Part(qkv, name), PartRows(e, name), ok) /\ Clean(PartRows(e, name)) /\ DOMAIN PartRows(e, name) = 1..n
  BY EachYields, CleanRows DEF Part, PartRows, Each
<1>2. PartsYield(reference_gqa_qkv_split_rope(qkv, p, call), e, p, ok)
  BY <1>1, RopeYields DEF PartsYield, reference_gqa_qkv_split_rope, reference_gqa_qkv_split, Rotated, Parts
<1>3. ASSUME ~call.grouped
      PROVE  PartsYield(reference_qkv_split_rope(qkv, p, call), e, p, ok)
  <2>1. ASSUME NEW name
        PROVE  Yields(Guarded(HalfPrecision(call) /\ ~call.grouped, Part(qkv, name)), PartRows(e, name), ok)
    BY <1>1, <1>3, GuardYields
  <2> QED BY <1>1, <2>1, RopeYields DEF PartsYield, reference_qkv_split_rope, reference_qkv_split, Rotated, Parts, GuardedParts
<1> QED BY <1>2, <1>3

(* Attending to the positions up to p, where k and v have just been written. *)
LEMMA AttendPut ==
  ASSUME NEW c, NEW n, IsCache(c, n), NEW p \in 0..(n - 1), NEW q, q = <<q[1]>>, NEW k, NEW v,
         \A j \in 0..(p - 1) : c.K[j] # Raise /\ c.V[j] # Raise
  PROVE  LET new == Put(c, p, k, v)
         IN  AttentionOver(q, new, p + 1) =
                IF q[1] = Raise \/ k = Raise \/ v = Raise THEN <<Raise>>
                ELSE <<Term(<<"attention">>, q \o FirstRows(new.K, p + 1) \o FirstRows(new.V, p + 1))>>
<1> DEFINE new == Put(c, p, k, v)
           a == FirstRows(new.K, p + 1)
           b == FirstRows(new.V, p + 1)
           qa == q \o a
           args == qa \o b
<1>0. p \in Nat /\ n \in Nat \ {0}
  BY DEF IsCache, IsMem
<1>1. /\ \A j \in 0..(p - 1) : new.K[j] = c.K[j] /\ new.V[j] = c.V[j]
      /\ new.K[p] = k /\ new.V[p] = v
  BY <1>0 DEF Put, IsCache, IsMem
<1>2. IsRows(a, p + 1) /\ IsRows(b, p + 1) /\ IsRows(q, 1)
  <2>1. q = [i \in 1..1 |-> q[i]]
    OBVIOUS
  <2> QED BY <1>0, <2>1 DEF IsRows, FirstRows
<1>3. \A j \in 1..(p + 1) : a[j] = new.K[j - 1] /\ b[j] = new.V[j - 1]
  BY DEF FirstRows
<1> HIDE DEF new, a, b
<1>9. PICK len : len = p + 1
  OBVIOUS
<1>10. IsRows(a, len) /\ IsRows(b, len)
  BY <1>2, <1>9
<1>4. /\ IsRows(qa, 1 + len) /\ qa[1] = q[1]
      /\ \A i \in 1..len : qa[1 + i] = a[i]
  <2>1. /\ IsRows(qa, 1 + len)
        /\ \A i \in 1..1 : qa[i] = q[i]
        /\ \A i \in 1..len : qa[1 + i] = a[i]
    <3>1. Joined(qa, q, 1, a, len)
      BY <1>2, <1>10, CatRows
    <3> HIDE DEF qa
    <3> QED BY <3>1 DEF Joined
  <2> HIDE DEF qa
  <2>2. 1 \in 1..1
    OBVIOUS
  <2> QED BY <2>1, <2>2
<1> HIDE DEF qa
<1>5. /\ IsRows(args, (1 + len) + len)
      /\ \A i \in 1..(1 + len) : args[i] = qa[i]
      /\ \A i \in 1..len : args[(1 + len) + i] = b[i]
  <2>1. Joined(args, qa, 1 + len, b, len)
    BY <1>4, <1>10, CatRows
  <2> HIDE DEF args
  <2> QED BY <2>1 DEF Joined
<1> HIDE DEF args
<1>6. /\ DOMAIN args = 1..(p + 2 + p + 1) /\ args[1] = q[1]
      /\ \A j \in 0..p : args[j + 2] = new.K[j] /\ args[j + p + 3] = new.V[j]
  <2>1. DOMAIN args = 1..(p + 2 + p + 1)
    <3>1. DOMAIN args = 1..((1 + len) + len)
      BY <1>5, RowsLen
    <3> QED BY <1>0, <1>9, <3>1
  <2>2. args[1] = q[1]
    BY <1>0, <1>4, <1>5, <1>9
  <2>3. ASSUME NEW j \in 0..p
        PROVE  args[j + 2] = new.K[j] /\ args[j + p + 3] = new.V[j]
    <3>1. j + 1 \in 1..(p + 1) /\ j + 1 - 1 = j /\ 1 + (j + 1) = j + 2 /\ (1 + (p + 1)) + (j + 1) = j + p + 3
          /\ j + 2 \in 1..(1 + (p + 1))
      BY <1>0
    <3>2. args[j + 2] = qa[1 + (j + 1)] /\ qa[1 + (j + 1)] = a[j + 1]
      BY <1>4, <1>5, <1>9, <3>1
    <3>3. args[(1 + (p + 1)) + (j + 1)] = b[j + 1]
      BY <1>5, <1>9, <3>1
    <3>4. a[j + 1] = new.K[j + 1 - 1] /\ b[j + 1] = new.V[j + 1 - 1]
      BY <1>3, <3>1
    <3> QED BY <3>1, <3>2, <3>3, <3>4
  <2> QED BY <2>1, <2>2, <2>3
<1>7. CASE q[1] = Raise \/ k = Raise \/ v = Raise
  <2>1. 1 \in DOMAIN args /\ p + 2 \in DOMAIN args /\ p + p + 3 \in DOMAIN args /\ p \in 0..p
    BY <1>0, <1>6
  <2>2. \E i \in DOMAIN args : args[i] = Raise
    BY <1>1, <1>6, <1>7, <2>1
  <2> QED BY <1>7, <2>2 DEF AttentionOver, Op, args, qa, a, b, new
<1>8. CASE ~(q[1] = Raise \/ k = Raise \/ v = Raise)
  <2>1. ASSUME NEW i \in DOMAIN args
        PROVE  args[i] # Raise
    <3>1. CASE i = 1
      BY <1>6, <1>8, <3>1
    <3>2. CASE i \in 2..(p + 2)
      <4>1. i - 2 \in 0..p /\ i - 2 + 2 = i /\ (i - 2 = p \/ i - 2 \in 0..(p - 1))
        BY <1>0, <3>2
      <4>2. args[i] = new.K[i - 2]
        BY <1>6, <4>1
      <4> QED BY <1>1, <1>8, <4>1, <4>2
    <3>3. CASE i \in (p + 3)..(p + 2 + p + 1)
      <4>1. i - (p + 3) \in 0..p /\ i - (p + 3) + p + 3 = i /\ (i - (p + 3) = p \/ i - (p + 3) \in 0..(p - 1))
        BY <1>0, <3>3
      <4>2. args[i] = new.V[i - (p + 3)]
        BY <1>6, <4>1
      <4> QED BY <1>1, <1>8, <4>1, <4>2
    <3> QED BY <1>0, <1>6, <3>1, <3>2, <3>3
  <2> QED BY <1>8, <2>1 DEF AttentionOver, Op, Term, args, qa, a, b, new
<1> QED BY <1>7, <1>8

-----------------------------------------------------------------------------
(* Decode blocks. *)

(* What a decode block makes of the one row e of a projection at position p. *)
Decoded(block, c, n, e, p, ok) ==
    \/ ~ok /\ block.out = <<Raise>>
    \/ LET new == Put(c, p, RotatedRows(PartRows(e, "k"), p)[1], PartRows(e, "v")[1])
       IN  /\ p < n /\ block.cache = new
           /\ block.out = <<Term(<<"attention">>, RotatedRows(PartRows(e, "q"), p)
                                 \o FirstRows(new.K, p + 1) \o FirstRows(new.V, p + 1))>>

(* Positions that hold no exception. *)
Unraised(c, p) == \A j \in 0..(p - 1) : c.K[j] # Raise /\ c.V[j] # Raise

(* A block that wrote its key and value and attends up to them. *)
LEMMA StepDecoded ==
  ASSUME NEW c, NEW n, IsCache(c, n), NEW p \in Nat, Unraised(c, p), NEW e, DOMAIN e = 1..1, NEW ok,
         NEW parts, PartsYield(parts, e, p, ok), NEW block,
         \/ ~ok /\ block.out = <<Raise>>
         \/ /\ p < n /\ block.cache = Put(c, p, parts.k[1], parts.v[1])
            /\ block.out = AttentionOver(parts.q, Put(c, p, parts.k[1], parts.v[1]), p + 1)
  PROVE  Decoded(block, c, n, e, p, ok)
<1> DEFINE q1 == RotatedRows(PartRows(e, "q"), p)
           k1 == RotatedRows(PartRows(e, "k"), p)
           v1 == PartRows(e, "v")
<1>1. /\ Yields(parts.q, q1, ok) /\ Yields(parts.k, k1, ok) /\ Yields(parts.v, v1, ok)
      /\ Clean(q1) /\ Clean(k1) /\ Clean(v1) /\ DOMAIN q1 = 1..1 /\ DOMAIN k1 = 1..1 /\ DOMAIN v1 = 1..1
  <2>1. ASSUME NEW name
        PROVE  /\ Clean(PartRows(e, name)) /\ DOMAIN PartRows(e, name) = 1..1
               /\ Clean(RotatedRows(PartRows(e, name), p)) /\ DOMAIN RotatedRows(PartRows(e, name), p) = 1..1
    <3>1. Clean(PartRows(e, name)) /\ DOMAIN PartRows(e, name) = 1..1
      BY CleanRows
    <3>2. PICK f : f = PartRows(e, name)
      OBVIOUS
    <3>3. Clean(RotatedRows(f, p)) /\ DOMAIN RotatedRows(f, p) = 1..1
      BY <3>1, <3>2, CleanRows
    <3> QED BY <3>1, <3>2, <3>3
  <2> QED BY <2>1 DEF PartsYield
<1> HIDE DEF q1, k1, v1
<1>2. parts.q = <<parts.q[1]>>
  BY <1>1 DEF Yields
<1>3. SUFFICES ASSUME p < n, block.cache = Put(c, p, parts.k[1], parts.v[1]),
                      block.out = AttentionOver(parts.q, Put(c, p, parts.k[1], parts.v[1]), p + 1)
               PROVE  Decoded(block, c, n, e, p, ok)
  BY DEF Decoded
<1>4. LET new == Put(c, p, parts.k[1], parts.v[1])
      IN  AttentionOver(parts.q, new, p + 1) =
                IF parts.q[1] = Raise \/ parts.k[1] = Raise \/ parts.v[1] = Raise THEN <<Raise>>
                ELSE <<Term(<<"attention">>, parts.q \o FirstRows(new.K, p + 1) \o FirstRows(new.V, p + 1))>>
  <2>1. p \in 0..(n - 1)
    BY <1>3 DEF IsCache, IsMem
  <2> QED BY <1>2, <2>1, AttendPut DEF Unraised
<1>5. 1 \in 1..1
  OBVIOUS
<1>6. CASE parts.q[1] = Raise \/ parts.k[1] = Raise \/ parts.v[1] = Raise
  <2>1. ~ok
    BY <1>1, <1>5, <1>6 DEF Yields, Clean, Proper
  <2> QED BY <1>3, <1>4, <1>6, <2>1 DEF Decoded
<1>7. CASE ~(parts.q[1] = Raise \/ parts.k[1] = Raise \/ parts.v[1] = Raise)
  <2>1. parts.q = q1 /\ parts.k = k1 /\ parts.v = v1
    BY <1>1, <1>5, <1>7 DEF Yields
  <2> QED BY <1>3, <1>4, <1>7, <2>1 DEF Decoded, q1, k1, v1
<1> QED BY <1>6, <1>7

(* gqa_decode_block_from_qkv, whichever its backend, writes and attends. *)
LEMMA GqaDecoded ==
  ASSUME NEW c, NEW n, IsCache(c, n), c.table = <<>>, NEW p \in Nat, Unraised(c, p),
         NEW qkv, NEW e, NEW ok, Yields(qkv, e, ok), Clean(e), DOMAIN e = 1..1, NEW backend, NEW call,
         ok => HalfPrecision(call) /\ p < n /\ p + 1 <= RopeRows /\ backend \in GqaBackends
  PROVE  Decoded(gqa_decode_block_from_qkv(qkv, c, p, backend, call), c, n, e, p, ok)
<1> DEFINE parts == reference_gqa_qkv_split_rope(qkv, p, call)
           guarded == GuardedParts(backend \in GqaBackends, parts)
           block == gqa_decode_block_from_qkv(qkv, c, p, backend, call)
<1>1. PartsYield(parts, e, p, ok) /\ PartsYield(guarded, e, p, ok)
  BY SplitYields, GuardParts
<1> HIDE DEF parts
<1>2. Slots(c) = n /\ n \in Nat \ {0}
  BY CacheSlots
<1>3. CASE p >= n
  <2>1. ~ok /\ block.out = <<Raise>>
    BY <1>2, <1>3 DEF gqa_decode_block_from_qkv, reference_gqa_decode_block_from_qkv, DecodeBlock, Failed, Block
  <2> HIDE DEF block
  <2>2. Decoded(block, c, n, e, p, ok)
    BY <2>1 DEF Decoded
  <2> QED BY <2>2 DEF block
<1>4. CASE p < n
  <2>0. ASSUME NEW s
        PROVE  /\ reference_kv_cache_update(c, KV(s), p) = Put(c, p, s.k[1], s.v[1])
               /\ kv_cache_update(c, KV(s), p, call) = Put(c, p, s.k[1], s.v[1])
               /\ reference_gqa_decode_attention(s.q, Put(c, p, s.k[1], s.v[1]), p + 1)
                    = AttentionOver(s.q, Put(c, p, s.k[1], s.v[1]), p + 1)
    <3>1. p \in 0..(n - 1) /\ p + 1 \in 1..n
      BY <1>2, <1>4
    <3>2. KV(s)["K"] = s.k /\ KV(s)["V"] = s.v
      BY DEF KV
    <3> DEFINE new == Put(c, p, s.k[1], s.v[1])
    <3>3. IsCache(new, n)
      BY PutCache
    <3>4. /\ reference_kv_cache_update(c, KV(s), p) = new
          /\ kv_cache_update(c, KV(s), p, call) = new
      BY <3>1, <3>2, ContiguousUpdate
    <3> HIDE DEF new
    <3>5. reference_gqa_decode_attention(s.q, new, p + 1) = AttentionOver(s.q, new, p + 1)
      BY <3>1, <3>3, ContiguousAttention
    <3> QED BY <3>4, <3>5 DEF new
  <2>1. CASE backend = "reference"
    <3>1. /\ block.cache = Put(c, p, parts.k[1], parts.v[1])
          /\ block.out = AttentionOver(parts.q, Put(c, p, parts.k[1], parts.v[1]), p + 1)
      BY <1>2, <1>4, <2>0, <2>1 DEF gqa_decode_block_from_qkv, reference_gqa_decode_block_from_qkv, DecodeBlock,
         Block, ReferenceWritten, parts
    <3> HIDE DEF block
    <3>2. Decoded(block, c, n, e, p, ok)
      BY <1>1, <1>4, <3>1, StepDecoded
    <3> QED BY <3>2 DEF block
  <2>2. CASE backend # "reference"
    <3>1. /\ block.cache = Put(c, p, guarded.k[1], guarded.v[1])
          /\ block.out = AttentionOver(guarded.q, Put(c, p, guarded.k[1], guarded.v[1]), p + 1)
      BY <1>2, <1>4, <2>0, <2>2 DEF gqa_decode_block_from_qkv, DecodeBlock, Block, Written, parts
    <3> HIDE DEF block, guarded
    <3>2. Decoded(block, c, n, e, p, ok)
      BY <1>1, <1>4, <3>1, StepDecoded
    <3> QED BY <3>2 DEF block
  <2> QED BY <2>1, <2>2
<1> QED BY <1>2, <1>3, <1>4

(* What a decode block calls on a contiguous cache, one call after the other. *)
LEMMA ContiguousSteps ==
  ASSUME NEW c, NEW n, IsCache(c, n), NEW p \in 0..(n - 1), NEW s, NEW backend, NEW call
  PROVE  LET new == Put(c, p, s.k[1], s.v[1])
             attended == decode_attention(s.q, new, p + 1, backend, call)
         IN  /\ reference_kv_cache_update(c, KV(s), p) = new /\ kv_cache_update(c, KV(s), p, call) = new
             /\ reference_gqa_decode_attention(s.q, new, p + 1) = AttentionOver(s.q, new, p + 1)
             /\ \/ attended = AttentionOver(s.q, new, p + 1)
                \/ attended = <<Raise>> /\ backend \notin AttentionNames \cup {"auto"}
<1> DEFINE new == Put(c, p, s.k[1], s.v[1])
<1>1. IsCache(new, n) /\ p + 1 \in 1..n
  BY PutCache, CacheSlots
<1>2. KV(s)["K"] = s.k /\ KV(s)["V"] = s.v
  BY DEF KV
<1>3. reference_kv_cache_update(c, KV(s), p) = new /\ kv_cache_update(c, KV(s), p, call) = new
  BY <1>2, ContiguousUpdate
<1> HIDE DEF new
<1>4. /\ reference_gqa_decode_attention(s.q, new, p + 1) = AttentionOver(s.q, new, p + 1)
      /\ \/ decode_attention(s.q, new, p + 1, backend, call) = AttentionOver(s.q, new, p + 1)
         \/ decode_attention(s.q, new, p + 1, backend, call) = <<Raise>> /\ backend \notin AttentionNames \cup {"auto"}
  BY <1>1, ContiguousAttention
<1> QED BY <1>3, <1>4 DEF new

(* ... and on pages. *)
LEMMA PagedSteps ==
  ASSUME NEW c, NEW n, IsCache(c, n), c.table # <<>>, NEW p \in 0..(n - 1), NEW s, NEW backend, NEW call
  PROVE  LET new == Put(c, p, s.k[1], s.v[1])
             attended == paged_decode_attention(s.q, new, p + 1, backend, call)
         IN  /\ reference_paged_kv_cache_update(c, KV(s), p) = new /\ paged_kv_cache_update(c, KV(s), p, call) = new
             /\ reference_paged_gqa_decode_attention(s.q, new, p + 1) = AttentionOver(s.q, new, p + 1)
             /\ \/ attended = AttentionOver(s.q, new, p + 1)
                \/ attended = <<Raise>> /\ backend \notin AttentionNames \cup {"auto"}
<1> DEFINE new == Put(c, p, s.k[1], s.v[1])
<1>1. IsCache(new, n) /\ p + 1 \in 1..n /\ new.table # <<>>
  <2>1. IsCache(new, n)
    BY PutCache
  <2>2. p + 1 \in 1..n
    BY CacheSlots
  <2> QED BY <2>1, <2>2 DEF Put
<1>2. KV(s)["K"] = s.k /\ KV(s)["V"] = s.v
  BY DEF KV
<1>3. reference_paged_kv_cache_update(c, KV(s), p) = new /\ paged_kv_cache_update(c, KV(s), p, call) = new
  BY <1>2, PagedUpdate
<1> HIDE DEF new
<1>4. /\ reference_paged_gqa_decode_attention(s.q, new, p + 1) = AttentionOver(s.q, new, p + 1)
      /\ \/ paged_decode_attention(s.q, new, p + 1, backend, call) = AttentionOver(s.q, new, p + 1)
         \/ paged_decode_attention(s.q, new, p + 1, backend, call) = <<Raise>> /\ backend \notin AttentionNames \cup {"auto"}
  <2>1. PICK len : len = p + 1
    OBVIOUS
  <2>2. IsCache(new, n) /\ new.table # <<>> /\ len \in 1..n
    BY <1>1, <2>1
  <2>3. /\ reference_paged_gqa_decode_attention(s.q, new, len) = AttentionOver(s.q, new, len)
        /\ \/ paged_decode_attention(s.q, new, len, backend, call) = AttentionOver(s.q, new, len)
           \/ paged_decode_attention(s.q, new, len, backend, call) = <<Raise>> /\ backend \notin AttentionNames \cup {"auto"}
    BY <2>2, PagedAttention
  <2> QED BY <2>1, <2>3
<1> QED BY <1>3, <1>4 DEF new

(* A block that wrote s at p and attends up to it, or refused one of the two. *)
Attends(block, c, n, p, s, ok) ==
    \/ ~ok /\ block.out = <<Raise>>
    \/ /\ p < n /\ block.cache = Put(c, p, s.k[1], s.v[1])
       /\ block.out = AttentionOver(s.q, Put(c, p, s.k[1], s.v[1]), p + 1)

(* The ungrouped reference block. *)
LEMMA ReferenceDecoded ==
  ASSUME NEW c, NEW n, IsCache(c, n), c.table = <<>>, NEW p \in Nat, Unraised(c, p),
         NEW qkv, NEW e, NEW ok, Yields(qkv, e, ok), Clean(e), DOMAIN e = 1..1, NEW call, ~call.grouped,
         ok => HalfPrecision(call) /\ p < n /\ p + 1 <= RopeRows
  PROVE  Decoded(reference_decode_block_from_qkv(qkv, c, p, call), c, n, e, p, ok)
<1> DEFINE parts == reference_qkv_split_rope(qkv, p, call)
           block == reference_decode_block_from_qkv(qkv, c, p, call)
<1>1. PartsYield(parts, e, p, ok)
  BY SplitYields
<1>2. Slots(c) = n /\ n \in Nat \ {0}
  BY CacheSlots
<1>3. Attends(block, c, n, p, parts, ok)
  <2>1. CASE p >= n
    BY <1>2, <2>1 DEF reference_decode_block_from_qkv, DecodeBlock, Failed, Block, Attends
  <2>2. CASE p < n
    <3>1. p \in 0..(n - 1)
      BY <2>2, <1>2
    <3> HIDE DEF parts
    <3> DEFINE new == Put(c, p, parts.k[1], parts.v[1])
    <3>2. /\ reference_kv_cache_update(c, KV(parts), p) = new
          /\ decode_attention(parts.q, new, p + 1, "reference", call) = AttentionOver(parts.q, new, p + 1)
      BY <3>1, ContiguousSteps DEF AttentionNames
    <3> HIDE DEF new
    <3>3. block = Block(AttentionOver(parts.q, new, p + 1), new)
      BY <1>2, <2>2, <3>2 DEF reference_decode_block_from_qkv, DecodeBlock, ReferenceWritten,
         reference_qkv_rope_cache_update, parts
    <3> QED BY <2>2, <3>3 DEF Attends, Block, new
  <2> QED BY <1>2, <2>1, <2>2
<1> HIDE DEF block, parts
<1>4. Decoded(block, c, n, e, p, ok)
  BY <1>1, <1>3, StepDecoded DEF Attends
<1> QED BY <1>4 DEF block

(* decode_block_from_qkv, whichever its backend, writes and attends. *)
LEMMA UngroupedDecoded ==
  ASSUME NEW c, NEW n, IsCache(c, n), c.table = <<>>, NEW p \in Nat, Unraised(c, p),
         NEW qkv, NEW e, NEW ok, Yields(qkv, e, ok), Clean(e), DOMAIN e = 1..1, NEW backend, NEW call, ~call.grouped,
         ok => HalfPrecision(call) /\ p < n /\ p + 1 <= RopeRows /\ backend \in GqaBackends
  PROVE  Decoded(decode_block_from_qkv(qkv, c, p, backend, call), c, n, e, p, ok)
<1> DEFINE split == reference_qkv_split_rope(qkv, p, call)
           name == CacheBackend(backend)
           parts == IF call.ci_safe \/ name = "reference" THEN split ELSE GuardedParts(name \in {"metal", "auto"}, split)
           block == decode_block_from_qkv(qkv, c, p, backend, call)
<1>0. CASE backend = "reference"
  <2>1. block = reference_decode_block_from_qkv(qkv, c, p, call)
    BY <1>0 DEF decode_block_from_qkv
  <2> HIDE DEF block
  <2>2. Decoded(block, c, n, e, p, ok)
    BY <2>1, ReferenceDecoded
  <2> QED BY <2>2 DEF block
<1> SUFFICES ASSUME backend # "reference" PROVE Decoded(block, c, n, e, p, ok)
  BY <1>0
<1>1. PartsYield(parts, e, p, ok)
  <2>1. PartsYield(split, e, p, ok)
    BY SplitYields
  <2> HIDE DEF split
  <2>2. ok /\ name # "reference" => name \in {"metal", "auto"}
    BY DEF CacheBackend, GqaBackends
  <2> HIDE DEF name
  <2> QED BY <2>1, <2>2, GuardParts
<1>2. Slots(c) = n /\ n \in Nat \ {0}
  BY CacheSlots
<1>3. Attends(block, c, n, p, parts, ok)
  <2>1. CASE p >= n
    BY <1>2, <2>1 DEF decode_block_from_qkv, DecodeBlock, Failed, Block, Attends
  <2>2. CASE p < n
    <3>1. p \in 0..(n - 1) /\ p < RopeRows
      BY <2>2, <1>2, TablesReach, LlamaStackAssumption
    <3>0. LET step == qkv_rope_cache_update(qkv, c, p, name, call)
          IN  step.parts = parts /\ (step.cache = reference_kv_cache_update(c, KV(parts), p)
                                     \/ step.cache = kv_cache_update(c, KV(parts), p, call))
      BY <3>1 DEF qkv_rope_cache_update, reference_qkv_rope_cache_update, ReferenceWritten, Written
    <3> HIDE DEF parts
    <3> DEFINE new == Put(c, p, parts.k[1], parts.v[1])
               attended == decode_attention(parts.q, new, p + 1, AttentionBackend(backend), call)
    <3>2. /\ reference_kv_cache_update(c, KV(parts), p) = new /\ kv_cache_update(c, KV(parts), p, call) = new
          /\ \/ attended = AttentionOver(parts.q, new, p + 1)
             \/ attended = <<Raise>> /\ AttentionBackend(backend) \notin AttentionNames \cup {"auto"}
      BY <3>1, ContiguousSteps
    <3>3. AttentionBackend(backend) \notin AttentionNames \cup {"auto"} => ~ok
      BY DEF AttentionBackend, CacheBackend, GqaBackends, AttentionNames
    <3>4. qkv_rope_cache_update(qkv, c, p, name, call).parts = parts /\ qkv_rope_cache_update(qkv, c, p, name, call).cache = new
      BY <3>0, <3>2
    <3> HIDE DEF new
    <3>5. block = Block(attended, new)
      BY <1>2, <2>2, <3>4 DEF decode_block_from_qkv, DecodeBlock
    <3> HIDE DEF attended
    <3> QED BY <2>2, <3>2, <3>3, <3>5 DEF Attends, Block, new
  <2> QED BY <1>2, <2>1, <2>2
<1> HIDE DEF block, parts
<1>4. Decoded(block, c, n, e, p, ok)
  BY <1>1, <1>3, StepDecoded DEF Attends
<1> QED BY <1>4

(* So does paged_gqa_decode_block_from_qkv. *)
LEMMA PagedGqaDecoded ==
  ASSUME NEW c, NEW n, IsCache(c, n), c.table # <<>>, NEW p \in Nat, Unraised(c, p),
         NEW qkv, NEW e, NEW ok, Yields(qkv, e, ok), Clean(e), DOMAIN e = 1..1, NEW backend, NEW call,
         ok => HalfPrecision(call) /\ p < n /\ p + 1 <= RopeRows /\ backend \in GqaBackends
  PROVE  Decoded(paged_gqa_decode_block_from_qkv(qkv, c, p, backend, call), c, n, e, p, ok)
<1> DEFINE split == reference_gqa_qkv_split_rope(qkv, p, call)
           parts == IF backend = "reference" THEN split ELSE GuardedParts(backend \in GqaBackends, split)
           block == paged_gqa_decode_block_from_qkv(qkv, c, p, backend, call)
<1>1. PartsYield(parts, e, p, ok)
  <2>1. PartsYield(split, e, p, ok)
    BY SplitYields
  <2> HIDE DEF split
  <2> QED BY <2>1, GuardParts
<1>2. Slots(c) = n /\ n \in Nat \ {0}
  BY CacheSlots
<1>3. Attends(block, c, n, p, parts, ok)
  <2>1. CASE p >= n
    BY <1>2, <2>1 DEF paged_gqa_decode_block_from_qkv, reference_paged_gqa_decode_block_from_qkv, DecodeBlock,
       Failed, Block, Attends
  <2>2. CASE p < n
    <3>1. p \in 0..(n - 1)
      BY <2>2, <1>2
    <3>0. /\ backend = "reference" =>
               block = Block(reference_paged_gqa_decode_attention(parts.q, reference_paged_kv_cache_update(c, KV(parts), p), p + 1),
                             reference_paged_kv_cache_update(c, KV(parts), p))
          /\ backend # "reference" =>
               block = Block(reference_paged_gqa_decode_attention(parts.q, paged_kv_cache_update(c, KV(parts), p, call), p + 1),
                             paged_kv_cache_update(c, KV(parts), p, call))
      BY <1>2, <2>2 DEF paged_gqa_decode_block_from_qkv, reference_paged_gqa_decode_block_from_qkv, DecodeBlock,
         ReferencePagedWritten, PagedWritten
    <3> HIDE DEF parts, block
    <3> DEFINE new == Put(c, p, parts.k[1], parts.v[1])
    <3>2. /\ reference_paged_kv_cache_update(c, KV(parts), p) = new /\ paged_kv_cache_update(c, KV(parts), p, call) = new
          /\ reference_paged_gqa_decode_attention(parts.q, new, p + 1) = AttentionOver(parts.q, new, p + 1)
      BY <3>1, PagedSteps
    <3> HIDE DEF new
    <3>3. block = Block(AttentionOver(parts.q, new, p + 1), new)
      BY <3>0, <3>2
    <3> QED BY <2>2, <3>3 DEF Attends, Block, new
  <2> QED BY <1>2, <2>1, <2>2
<1> HIDE DEF block, parts
<1>4. Decoded(block, c, n, e, p, ok)
  BY <1>1, <1>3, StepDecoded DEF Attends
<1> QED BY <1>4 DEF block

(* So does paged_decode_block_from_qkv. *)
LEMMA PagedUngroupedDecoded ==
  ASSUME NEW c, NEW n, IsCache(c, n), c.table # <<>>, NEW p \in Nat, Unraised(c, p),
         NEW qkv, NEW e, NEW ok, Yields(qkv, e, ok), Clean(e), DOMAIN e = 1..1, NEW backend, NEW call, ~call.grouped,
         ok => HalfPrecision(call) /\ p < n /\ p + 1 <= RopeRows /\ backend \in {"reference", "metal", "auto"}
  PROVE  Decoded(paged_decode_block_from_qkv(qkv, c, p, backend, call), c, n, e, p, ok)
<1> DEFINE split == reference_qkv_split_rope(qkv, p, call)
           parts == IF backend = "reference" THEN split ELSE qkv_split_rope(qkv, p, CacheBackend(backend), call)
           block == paged_decode_block_from_qkv(qkv, c, p, backend, call)
<1>1. PartsYield(parts, e, p, ok)
  <2>1. PartsYield(split, e, p, ok)
    BY SplitYields
  <2>2. qkv_split_rope(qkv, p, CacheBackend(backend), call) = GuardedParts(Accepts(CacheBackend(backend), call), split)
    BY DEF qkv_split_rope
  <2> HIDE DEF split
  <2>3. ok => Accepts(CacheBackend(backend), call)
    BY DEF CacheBackend, Accepts
  <2>4. PartsYield(GuardedParts(Accepts(CacheBackend(backend), call), split), e, p, ok)
    BY <2>1, <2>3, GuardParts
  <2> QED BY <2>1, <2>2, <2>4
<1>2. Slots(c) = n /\ n \in Nat \ {0}
  BY CacheSlots
<1>3. Attends(block, c, n, p, parts, ok)
  <2>1. CASE p >= n
    BY <1>2, <2>1 DEF paged_decode_block_from_qkv, reference_paged_decode_block_from_qkv, DecodeBlock,
       Failed, Block, Attends
  <2>2. CASE p < n
    <3>1. p \in 0..(n - 1)
      BY <2>2, <1>2
    <3>0. \/ block = Block(paged_decode_attention(parts.q, reference_paged_kv_cache_update(c, KV(parts), p), p + 1, backend, call),
                           reference_paged_kv_cache_update(c, KV(parts), p))
          \/ block = Block(paged_decode_attention(parts.q, paged_kv_cache_update(c, KV(parts), p, call), p + 1, backend, call),
                           paged_kv_cache_update(c, KV(parts), p, call))
      BY <1>2, <2>2 DEF paged_decode_block_from_qkv, reference_paged_decode_block_from_qkv, DecodeBlock,
         ReferencePagedWritten, PagedWritten
    <3> HIDE DEF parts, block
    <3> DEFINE new == Put(c, p, parts.k[1], parts.v[1])
               attended == paged_decode_attention(parts.q, new, p + 1, backend, call)
    <3>2. /\ reference_paged_kv_cache_update(c, KV(parts), p) = new /\ paged_kv_cache_update(c, KV(parts), p, call) = new
          /\ \/ attended = AttentionOver(parts.q, new, p + 1)
             \/ attended = <<Raise>> /\ backend \notin AttentionNames \cup {"auto"}
      BY <3>1, PagedSteps
    <3>3. backend \notin AttentionNames \cup {"auto"} => ~ok
      BY DEF AttentionNames
    <3> HIDE DEF new
    <3>4. block = Block(attended, new)
      BY <3>0, <3>2
    <3> HIDE DEF attended
    <3> QED BY <2>2, <3>2, <3>3, <3>4 DEF Attends, Block, new
  <2> QED BY <1>2, <2>1, <2>2
<1> HIDE DEF block, parts
<1>4. Decoded(block, c, n, e, p, ok)
  BY <1>1, <1>3, StepDecoded DEF Attends
<1> QED BY <1>4 DEF block

(* The backends a decode block accepts. *)
BlockFits(c, backend, call) ==
    IF c.table = <<>> \/ call.grouped THEN backend \in GqaBackends ELSE backend \in {"reference", "metal", "auto"}

(* The blocks a layer chooses from by its heads and its layout. *)
LEMMA QkvDecoded ==
  ASSUME NEW c, NEW n, IsCache(c, n), NEW p \in Nat, Unraised(c, p),
         NEW qkv, NEW e, NEW ok, Yields(qkv, e, ok), Clean(e), DOMAIN e = 1..1, NEW backend, NEW call,
         call.grouped \in BOOLEAN,
         ok => HalfPrecision(call) /\ p < n /\ p + 1 <= RopeRows /\ BlockFits(c, backend, call)
  PROVE  /\ c.table = <<>> => /\ Decoded(QkvDecodeBlock(qkv, c, p, backend, call), c, n, e, p, ok)
                              /\ Decoded(decode_block_from_qkv(qkv, c, p, backend, call), c, n, e, p, ok)
         /\ c.table # <<>> => /\ Decoded(QkvPagedDecodeBlock(qkv, c, p, backend, call), c, n, e, p, ok)
                              /\ Decoded(paged_decode_block_from_qkv(qkv, c, p, backend, call), c, n, e, p, ok)
<1>1. CASE c.table = <<>> /\ call.grouped
  BY <1>1, GqaDecoded DEF QkvDecodeBlock, BlockFits, decode_block_from_qkv
<1>2. CASE c.table = <<>> /\ ~call.grouped
  BY <1>2, UngroupedDecoded DEF QkvDecodeBlock, BlockFits
<1>3. CASE c.table # <<>> /\ call.grouped
  BY <1>3, PagedGqaDecoded DEF QkvPagedDecodeBlock, BlockFits, paged_decode_block_from_qkv
<1>4. CASE c.table # <<>> /\ ~call.grouped
  BY <1>4, PagedUngroupedDecoded DEF QkvPagedDecodeBlock, BlockFits
<1> QED BY <1>1, <1>2, <1>3, <1>4

-----------------------------------------------------------------------------
(* What a cache holds. *)

(* The first m positions of a layer's cache hold the keys and values of the rows y. *)
InCache(c, y, l, r, m) ==
    \A j \in 0..(m - 1) : /\ c.K[j] = AtPosition(QkvPart(y[j + 1], l, "k"), j + 1, r)
                          /\ c.V[j] = QkvPart(y[j + 1], l, "v")

(* The fused projection of one row. *)
QkvRow(row, l) == LinearRows(NormedRows(<<row>>, Norm(l, "input_layernorm")), l, "qkv")

(* Its parts, rotated or not, are expressions. *)
LEMMA ProperParts ==
  ASSUME NEW row, NEW l, NEW name, NEW i, NEW r, NEW y
  PROVE  Proper(QkvPart(row, l, name)) /\ Proper(AtPosition(QkvPart(row, l, name), i, r)) /\ Proper(Attended(y, l, r, i))
<1>1. Proper(QkvPart(row, l, name))
  BY DEF QkvPart, Term, Proper, Raise, ZeroRow
<1>2. Proper(Attended(y, l, r, i))
  BY DEF Attended, Term, Proper, Raise, ZeroRow
<1>3. Proper(Term(<<"rope", i - 1>>, <<QkvPart(row, l, name)>>))
  BY DEF Term, Proper, Raise, ZeroRow
<1> QED BY <1>1, <1>2, <1>3 DEF AtPosition

(* What a cache holds did not raise. *)
LEMMA InCacheUnraised ==
  ASSUME NEW c, NEW y, NEW l, NEW r, NEW p, InCache(c, y, l, r, p)
  PROVE  Unraised(c, p)
  BY ProperParts DEF InCache, Unraised, Proper

(* The parts of the fused projection are those of the specification. *)
LEMMA QkvRowIs ==
  ASSUME NEW row, NEW l
  PROVE  /\ Clean(QkvRow(row, l)) /\ DOMAIN QkvRow(row, l) = 1..1
         /\ \A name : PartRows(QkvRow(row, l), name) = <<QkvPart(row, l, name)>>
<1> DEFINE e == NormedRows(<<row>>, Norm(l, "input_layernorm"))
<1>1. DOMAIN e = 1..1 /\ e[1] = Normed(row, Norm(l, "input_layernorm"))
  <2>1. DOMAIN <<row>> = 1..1 /\ <<row>>[1] = row /\ 1 \in 1..1
    OBVIOUS
  <2> QED BY <2>1 DEF NormedRows
<1>2. QkvRow(row, l) = LinearRows(e, l, "qkv")
  BY DEF QkvRow
<1> HIDE DEF e
<1>3. Clean(LinearRows(e, l, "qkv")) /\ DOMAIN LinearRows(e, l, "qkv") = 1..1
  BY <1>1, CleanRows
<1>4. LinearRows(e, l, "qkv")[1] = Linear(Normed(row, Norm(l, "input_layernorm")), l, "qkv")
  BY <1>1 DEF LinearRows
<1>5. PICK f : f = LinearRows(e, l, "qkv")
  OBVIOUS
<1>6. ASSUME NEW name
      PROVE  PartRows(f, name) = <<QkvPart(row, l, name)>>
  <2>1. PartRows(f, name) = [i \in 1..1 |-> Term(<<"part", name>>, <<f[i]>>)]
    BY <1>3, <1>5 DEF PartRows
  <2>2. [i \in 1..1 |-> Term(<<"part", name>>, <<f[i]>>)] = <<Term(<<"part", name>>, <<f[1]>>)>>
    OBVIOUS
  <2> QED BY <1>4, <1>5, <2>1, <2>2 DEF QkvPart
<1> QED BY <1>2, <1>3, <1>5, <1>6

(* ... and so is their rotation. *)
LEMMA RotatedRow ==
  ASSUME NEW a, NEW p \in Nat, NEW r, r[p + 1]
  PROVE  RotatedRows(<<a>>, p) = <<AtPosition(a, p + 1, r)>>
<1>1. RotatedRows(<<a>>, p) = [i \in 1..1 |-> Term(<<"rope", p + i - 1>>, <<<<a>>[i]>>)]
  BY DEF RotatedRows
<1>2. [i \in 1..1 |-> Term(<<"rope", p + i - 1>>, <<<<a>>[i]>>)] = <<Term(<<"rope", p + 1 - 1>>, <<a>>)>>
  OBVIOUS
<1> QED BY <1>1, <1>2 DEF AtPosition

(* Writing the key and the value of row p + 1 extends what the cache holds. *)
LEMMA PutRow ==
  ASSUME NEW c, NEW n, IsCache(c, n), NEW p \in 0..(n - 1), NEW y, NEW l, NEW r, InCache(c, y, l, r, p), NEW k, NEW v,
         k = AtPosition(QkvPart(y[p + 1], l, "k"), p + 1, r), v = QkvPart(y[p + 1], l, "v")
  PROVE  /\ IsCache(Put(c, p, k, v), n) /\ Put(c, p, k, v).table = c.table
         /\ InCache(Put(c, p, k, v), y, l, r, p + 1)
<1> DEFINE new == Put(c, p, k, v)
<1>1. IsCache(new, n) /\ new.table = c.table
  BY PutCache DEF Put
<1>2. n \in Nat \ {0} /\ p \in Nat
  BY CacheSlots
<1>3. new.K[p] = k /\ new.V[p] = v /\ \A j \in 0..(p - 1) : new.K[j] = c.K[j] /\ new.V[j] = c.V[j]
  BY <1>2 DEF Put, IsCache, IsMem
<1> HIDE DEF new
<1>4. ASSUME NEW j \in 0..(p + 1 - 1)
      PROVE  new.K[j] = AtPosition(QkvPart(y[j + 1], l, "k"), j + 1, r) /\ new.V[j] = QkvPart(y[j + 1], l, "v")
  <2>1. j = p \/ j \in 0..(p - 1)
    BY <1>2
  <2> QED BY <1>3, <2>1 DEF InCache
<1>5. InCache(new, y, l, r, p + 1)
  BY <1>4 DEF InCache
<1> QED BY <1>1, <1>5 DEF new

(* What the attention block, and the layer, give for row p + 1 of y. *)
CacheServed(cache, c, n, y, l, r, p) ==
    p < n /\ IsCache(cache, n) /\ cache.table = c.table /\ InCache(cache, y, l, r, p + 1)

(* Attending to what the cache then holds is the attention of the
   specification. *)
LEMMA PutAttends ==
  ASSUME NEW c, NEW n, IsCache(c, n), NEW p \in 0..(n - 1), NEW y, NEW l, NEW r, InCache(c, y, l, r, p), NEW q, NEW k, NEW v,
         q = AtPosition(QkvPart(y[p + 1], l, "q"), p + 1, r),
         k = AtPosition(QkvPart(y[p + 1], l, "k"), p + 1, r), v = QkvPart(y[p + 1], l, "v")
  PROVE  LET new == Put(c, p, k, v)
         IN  /\ CacheServed(new, c, n, y, l, r, p)
             /\ Term(<<"attention">>, <<q>> \o FirstRows(new.K, p + 1) \o FirstRows(new.V, p + 1)) = Attended(y, l, r, p + 1)
<1> DEFINE new == Put(c, p, k, v)
<1>2. p < n /\ p \in Nat
  BY CacheSlots
<1>3. IsCache(new, n) /\ new.table = c.table /\ InCache(new, y, l, r, p + 1)
  BY PutRow
<1> HIDE DEF new
<1>4. /\ FirstRows(new.K, p + 1) = [j \in 1..(p + 1) |-> AtPosition(QkvPart(y[j], l, "k"), j, r)]
      /\ FirstRows(new.V, p + 1) = [j \in 1..(p + 1) |-> QkvPart(y[j], l, "v")]
  <2>1. ASSUME NEW j \in 1..(p + 1)
        PROVE  new.K[j - 1] = AtPosition(QkvPart(y[j], l, "k"), j, r) /\ new.V[j - 1] = QkvPart(y[j], l, "v")
    <3>1. j - 1 \in 0..(p + 1 - 1) /\ j - 1 + 1 = j
      OBVIOUS
    <3> QED BY <1>3, <3>1 DEF InCache
  <2> QED BY <2>1 DEF FirstRows
<1>5. Attended(y, l, r, p + 1) = Term(<<"attention">>, <<q>> \o FirstRows(new.K, p + 1) \o FirstRows(new.V, p + 1))
  BY <1>4 DEF Attended
<1> QED BY <1>2, <1>3, <1>5 DEF CacheServed, new

(* So a decode block attends as specified, or raised. *)
LEMMA DecodedAttends ==
  ASSUME NEW c, NEW n, IsCache(c, n), NEW p \in Nat, NEW y, NEW l, NEW r, InCache(c, y, l, r, p), r[p + 1],
         NEW ok, NEW block, Decoded(block, c, n, QkvRow(y[p + 1], l), p, ok)
  PROVE  \/ ~ok /\ block.out = <<Raise>>
         \/ CacheServed(block.cache, c, n, y, l, r, p) /\ block.out = <<Attended(y, l, r, p + 1)>>
<1> DEFINE e == QkvRow(y[p + 1], l)
           q == AtPosition(QkvPart(y[p + 1], l, "q"), p + 1, r)
           k == AtPosition(QkvPart(y[p + 1], l, "k"), p + 1, r)
           v == QkvPart(y[p + 1], l, "v")
           new == Put(c, p, k, v)
<1>1. /\ RotatedRows(PartRows(e, "q"), p) = <<q>> /\ RotatedRows(PartRows(e, "k"), p) = <<k>>
      /\ PartRows(e, "v") = <<v>>
  BY QkvRowIs, RotatedRow
<1> SUFFICES ASSUME ~(~ok /\ block.out = <<Raise>>)
             PROVE  CacheServed(block.cache, c, n, y, l, r, p) /\ block.out = <<Attended(y, l, r, p + 1)>>
  OBVIOUS
<1> HIDE DEF e, q, k, v
<1>2. /\ p < n /\ block.cache = new
      /\ block.out = <<Term(<<"attention">>, <<q>> \o FirstRows(new.K, p + 1) \o FirstRows(new.V, p + 1))>>
  BY <1>1 DEF Decoded, e
<1>3. p \in 0..(n - 1)
  BY <1>2, CacheSlots
<1> QED BY <1>2, <1>3, PutAttends DEF q, k, v

-----------------------------------------------------------------------------
(* Exceptions. *)

(* Rows that all raised. *)
Raises(D) == [i \in D |-> Raise]

(* A residual of what raised raises. *)
LEMMA AddRaises ==
  ASSUME NEW s, NEW t, NEW D, DOMAIN s = D, s = Raises(D) \/ t = Raises(D), NEW backend, NEW call
  PROVE  reference_residual_add(s, t) = Raises(D) /\ residual_add(s, t, backend, call) = Raises(D)
<1>1. Raise # ZeroRow
  BY DEF Raise, ZeroRow
<1>2. \A i \in D : (IF t[i] = ZeroRow THEN s[i] ELSE Sum(s[i], t[i])) = Raise
  <2>1. ASSUME s = Raises(D), NEW i \in D PROVE s[i] = Raise
    BY <2>1 DEF Raises
  <2>2. ASSUME t = Raises(D), NEW i \in D PROVE t[i] = Raise
    BY <2>2 DEF Raises
  <2> QED BY <1>1, <2>1, <2>2 DEF Sum
<1>3. reference_residual_add(s, t) = Raises(D)
  BY <1>2 DEF reference_residual_add, Raises
<1>4. Guarded(HalfPrecision(call) /\ Accepts(backend, call), Raises(D)) = Raises(D)
  BY DEF Guarded, Each, Raises
<1> QED BY <1>3, <1>4 DEF residual_add

(* ... whichever the backend. *)
LEMMA NamedAddRaises ==
  ASSUME NEW s, NEW t, NEW D, DOMAIN s = D, s = Raises(D) \/ t = Raises(D)
  PROVE  \A backend, call : residual_add(s, t, backend, call) = Raises(D)
  BY AddRaises

(* Projected rows are expressions. *)
LEMMA LinearRowsClean ==
  ASSUME NEW e, NEW l, NEW name
  PROVE  Clean(LinearRows(e, l, name)) /\ DOMAIN LinearRows(e, l, name) = DOMAIN e
  BY CleanRows

(* The zeros made like what raised. *)
LEMMA ZerosOf ==
  ASSUME NEW D
  PROVE  DOMAIN Raises(D) = D /\ _zero_like_hidden(Raises(D)) = Raises(D)
  BY DEF Raises, _zero_like_hidden, Each

(* The feed-forward half of what raised raises. *)
LEMMA MlpRaises ==
  ASSUME NEW D, NEW w, NEW weights, NEW bits, NEW b, NEW call
  PROVE  quantized_mlp_block(Raises(D), _zero_like_hidden(Raises(D)), w, weights, bits, b, call) = Raises(D)
<1>1. DOMAIN Raises(D) = D
  BY DEF Raises
<1>2. ASSUME NEW t
      PROVE  MlpAdd(Raises(D), t, b, call) = Raises(D)
  <2>1. \A s, backend : s = Raises(D) => /\ reference_residual_add(s, t) = Raises(D)
                                        /\ residual_add(s, t, backend, call) = Raises(D)
    <3> TAKE s, backend
    <3> HAVE s = Raises(D)
    <3> QED BY <1>1, AddRaises
  <2> QED BY <2>1 DEF MlpAdd
<1> QED BY <1>2 DEF quantized_mlp_block, MlpOf

(* A projection of what raised raises. *)
LEMMA LinearRaises ==
  ASSUME NEW D, NEW l \in 1..Layers, NEW w, NEW backend, NEW call
  PROVE  /\ quantized_linear(Raises(D), w, Bits[l], backend, call) = Raises(D)
         /\ quantized_output_projection(Raises(D), w, Bits[l], backend, call) = Raises(D)
         /\ _linear(Raises(D), w) = Raises(D)
<1>1. [i \in DOMAIN Raises(D) |-> Op(<<"linear", w>>, <<Raises(D)[i]>>)] = Raises(D)
  BY OpOne DEF Raises
<1>2. _linear(Raises(D), w) = Raises(D)
  BY <1>1 DEF _linear, Each
<1>3. \A guard : Guarded(guard, Raises(D)) = Raises(D)
  BY DEF Guarded, Each, Raises
<1>4. /\ reference_q4_matvec_decode(Raises(D), w) = Raises(D)
      /\ reference_q8_matvec_decode(Raises(D), w) = Raises(D)
  BY <1>1, <1>3 DEF reference_q4_matvec_decode, reference_q8_matvec_decode, Each
<1>5. Bits[l] = 4 \/ (Bits[l] = 8 /\ Bits[l] # 4)
  BY BitsOf
<1> QED BY <1>2, <1>3, <1>4, <1>5 DEF quantized_linear, quantized_output_projection, _matvec_dispatch,
           q4_matvec_decode, q8_matvec_decode

(* The feed-forward half as the functions without names of backends compute it. *)
Gated(e, l) ==
    LET normed == NormedRows(e, Norm(l, "post_attention_layernorm"))
    IN  SwigluRows(LinearRows(normed, l, "gate"), LinearRows(normed, l, "up"))

(* ... which is the feed-forward half of the specification. *)
LEMMA FedIs ==
  ASSUME NEW e, NEW l, Clean(e)
  PROVE  /\ FedRows(e, l) = SumRows(e, LinearRows(Gated(e, l), l, "down")) /\ DOMAIN FedRows(e, l) = DOMAIN e
         /\ Clean(Gated(e, l)) /\ DOMAIN Gated(e, l) = DOMAIN e /\ Clean(FedRows(e, l))
<1> DEFINE n == NormedRows(e, Norm(l, "post_attention_layernorm"))
           g == LinearRows(n, l, "gate")
           u == LinearRows(n, l, "up")
           a == SwigluRows(g, u)
           d == LinearRows(a, l, "down")
<1>1. DOMAIN n = DOMAIN e
  BY CleanRows
<1>2. DOMAIN g = DOMAIN e /\ DOMAIN u = DOMAIN e
  BY <1>1 DEF LinearRows
<1>3. DOMAIN a = DOMAIN e /\ Clean(a)
  <2> HIDE DEF g, u
  <2> QED BY <1>2, CleanRows
<1>4. DOMAIN d = DOMAIN e /\ Clean(d)
  <2> HIDE DEF a
  <2> QED BY <1>3, CleanRows
<1>5. \A i \in DOMAIN e : Sum(e[i], d[i]) = FedForward(e[i], l)
  BY <1>1, <1>2, <1>3 DEF FedForward, LinearRows, SwigluRows, NormedRows
<1>6. FedRows(e, l) = SumRows(e, d) /\ DOMAIN FedRows(e, l) = DOMAIN e
  BY <1>5 DEF SumRows, FedRows
<1>7. Clean(SumRows(e, d))
  <2> HIDE DEF d
  <2> QED BY <1>4, CleanRows
<1>8. Gated(e, l) = a
  BY DEF Gated
<1> QED BY <1>3, <1>6, <1>7, <1>8

(* Residuals of rows, in either order. *)
LEMMA SumRowsSwap ==
  ASSUME NEW e, NEW f, DOMAIN e = DOMAIN f
  PROVE  SumRows(e, f) = SumRows(f, e)
  BY SumSwap DEF SumRows

-----------------------------------------------------------------------------
(* One layer, one token. *)

(* The operations over one row. *)
LEMMA OneRow ==
  ASSUME NEW a, NEW b, NEW l, NEW name, NEW w
  PROVE  /\ DOMAIN <<a>> = 1..1 /\ Raises(1..1) = <<Raise>> /\ (Clean(<<a>>) <=> Proper(a))
         /\ NormedRows(<<a>>, w) = <<Normed(a, w)>> /\ LinearRows(<<a>>, l, name) = <<Linear(a, l, name)>>
         /\ SumRows(<<a>>, <<b>>) = <<Sum(a, b)>> /\ FedRows(<<a>>, l) = <<FedForward(a, l)>>
<1>1. \A x : <<x>> = [i \in 1..1 |-> x]
  OBVIOUS
<1>2. \A i \in 1..1 : <<a>>[i] = a /\ <<b>>[i] = b
  OBVIOUS
<1>3. DOMAIN <<a>> = 1..1 /\ 1 \in 1..1
  OBVIOUS
<1>4. Raises(1..1) = <<Raise>>
  BY <1>1 DEF Raises
<1>5. NormedRows(<<a>>, w) = <<Normed(a, w)>>
  BY <1>1, <1>2, <1>3 DEF NormedRows
<1>6. LinearRows(<<a>>, l, name) = <<Linear(a, l, name)>>
  BY <1>1, <1>2, <1>3 DEF LinearRows
<1>7. SumRows(<<a>>, <<b>>) = <<Sum(a, b)>>
  BY <1>1, <1>2, <1>3 DEF SumRows
<1>8. FedRows(<<a>>, l) = <<FedForward(a, l)>>
  BY <1>1, <1>2, <1>3 DEF FedRows
<1>9. Clean(<<a>>) <=> Proper(a)
  BY <1>2, <1>3 DEF Clean
<1> QED BY <1>3, <1>4, <1>5, <1>6, <1>7, <1>8, <1>9

(* A call on one row. *)
LEMMA OneYields ==
  ASSUME NEW s, NEW a, NEW ok
  PROVE  Yields(s, <<a>>, ok) <=> s = <<a>> \/ (~ok /\ s = <<Raise>>)
<1>1. DOMAIN <<a>> = 1..1 /\ 1 \in 1..1 /\ <<a>> = [i \in 1..1 |-> a] /\ <<Raise>> = [i \in 1..1 |-> Raise]
  OBVIOUS
<1>2. \A i \in 1..1 : <<a>>[i] = a /\ <<Raise>>[i] = Raise
  OBVIOUS
<1>3. ASSUME Yields(s, <<a>>, ok), s # <<a>> PROVE ~ok /\ s = <<Raise>>
  BY <1>1, <1>3 DEF Yields
<1>4. ASSUME s = <<a>> PROVE Yields(s, <<a>>, ok)
  BY <1>1, <1>4 DEF Yields
<1>5. ASSUME s = <<Raise>>, ~ok PROVE Yields(s, <<a>>, ok)
  BY <1>1, <1>2, <1>5 DEF Yields
<1> QED BY <1>3, <1>4, <1>5

(* Where row p + 1 of y is fed to layer l, whose cache holds the rows before it. *)
Before(c, n, y, l, r, p) ==
    IsCache(c, n) /\ p \in Nat /\ l \in 1..Layers /\ InCache(c, y, l, r, p) /\ Proper(y[p + 1])
(* A block that raised, or gives the row and leaves the cache with its keys and values. *)
Serves(block, row, c, n, y, l, r, p, ok) ==
    \/ ~ok /\ block.out = <<Raise>>
    \/ CacheServed(block.cache, c, n, y, l, r, p) /\ block.out = <<row>>

(* The attention projected back. *)
Projection(y, l, r, i) == Linear(Attended(y, l, r, i), l, "o")

(* What the layer gives for row i. *)
Layered(y, l, r, i) == FedForward(Sum(y[i], Projection(y, l, r, i)), l)

(* A decode block serves the attention. *)
LEMMA DecodedServes ==
  ASSUME NEW c, NEW n, NEW y, NEW l, NEW r, NEW p, Before(c, n, y, l, r, p), r[p + 1],
         NEW ok, NEW block, Decoded(block, c, n, QkvRow(y[p + 1], l), p, ok)
  PROVE  Serves(block, Attended(y, l, r, p + 1), c, n, y, l, r, p, ok)
  BY DecodedAttends DEF Serves, Before

(* With the output projection it serves the projected attention. *)
LEMMA ProjectedServes ==
  ASSUME NEW c, NEW n, NEW y, NEW l, NEW r, NEW p, l \in 1..Layers, NEW ok, NEW block,
         Serves(block, Attended(y, l, r, p + 1), c, n, y, l, r, p, ok), NEW matvec, NEW call,
         ok => HalfPrecision(call) /\ matvec \in MatvecNames
  PROVE  Serves(Projected(block, Weights(l), Bits[l], matvec, call), Projection(y, l, r, p + 1), c, n, y, l, r, p, ok)
<1> DEFINE a == Attended(y, l, r, p + 1)
           result == quantized_output_projection(block.out, W(l, "o"), Bits[l], matvec, call)
           done == Projected(block, Weights(l), Bits[l], matvec, call)
<1>1. done.out = result /\ done.cache = block.cache
  BY WeightOf DEF Projected, Block
<1>2. ASSUME block.out = <<Raise>> PROVE result = <<Raise>>
  <2>1. Raises(1..1) = <<Raise>>
    BY OneRow
  <2> QED BY <1>2, <2>1, LinearRaises
<1>3. ASSUME block.out = <<a>>
      PROVE  result = <<Projection(y, l, r, p + 1)>> \/ (~ok /\ result = <<Raise>>)
  <2>1. Proper(a)
    BY ProperParts
  <2> HIDE DEF a
  <2>2. Yields(<<a>>, <<a>>, ok) /\ Clean(<<a>>)
    BY <2>1, OneRow, OneYields
  <2>3. Yields(quantized_output_projection(<<a>>, W(l, "o"), Bits[l], matvec, call), LinearRows(<<a>>, l, "o"), ok)
    BY <2>2, LinearYields
  <2>4. LinearRows(<<a>>, l, "o") = <<Linear(a, l, "o")>>
    BY OneRow
  <2> QED BY <1>3, <2>3, <2>4, OneYields DEF Projection, a
<1> HIDE DEF result, done
<1> QED BY <1>1, <1>2, <1>3 DEF Serves, done

(* The row a layer's attention is given. *)
NormedIn(y, l, p) == <<Normed(y[p + 1], Norm(l, "input_layernorm"))>>

(* The token at position p is rotated. *)
Rotates(r, p) == r[p + 1]

(* A block that serves the projected attention. *)
ServesProjection(block, c, n, y, l, r, p, ok) == Serves(block, Projection(y, l, r, p + 1), c, n, y, l, r, p, ok)

(* quantized_decode_block or, for pages, paged_quantized_decode_block. *)
LayoutBlock(x, l, c, p, matvec, backend, call) ==
    IF c.table = <<>> THEN quantized_decode_block(x, Weights(l), Bits[l], c, p, matvec, backend, call)
    ELSE paged_quantized_decode_block(x, Weights(l), Bits[l], c, p, matvec, backend, call)

(* A call either of them accepts. *)
BlockAccepts(c, n, p, matvec, backend, call) ==
    /\ HalfPrecision(call) /\ p < n /\ p + 1 <= RopeRows
    /\ matvec \in MatvecNames /\ BlockFits(c, backend, call)

(* It serves the projected attention. *)
LEMMA BlockServes ==
  ASSUME NEW c, NEW n, NEW y, NEW l, NEW r, NEW p, Before(c, n, y, l, r, p), Rotates(r, p),
         NEW ok, NEW x, Yields(x, NormedIn(y, l, p), ok),
         NEW matvec, NEW backend, NEW call, call.grouped \in BOOLEAN,
         ok => BlockAccepts(c, n, p, matvec, backend, call)
  PROVE  ServesProjection(LayoutBlock(x, l, c, p, matvec, backend, call), c, n, y, l, r, p, ok)
<1>0. ok => /\ HalfPrecision(call) /\ p < n /\ p + 1 <= RopeRows
            /\ matvec \in MatvecNames /\ BlockFits(c, backend, call)
  BY DEF BlockAccepts
<1> DEFINE e == QkvRow(y[p + 1], l)
           qkv == quantized_qkv_projection(x, W(l, "qkv"), Bits[l], matvec, call)
           flat == QkvDecodeBlock(qkv, c, p, backend, call)
           paged == QkvPagedDecodeBlock(qkv, c, p, backend, call)
<1>1. Clean(e) /\ DOMAIN e = 1..1
  BY QkvRowIs
<1>2. Yields(qkv, e, ok)
  <2> DEFINE normed == <<Normed(y[p + 1], Norm(l, "input_layernorm"))>>
  <2>1. normed = NormedRows(<<y[p + 1]>>, Norm(l, "input_layernorm"))
    BY OneRow
  <2>2. Clean(normed)
    BY ProperTerms, OneRow
  <2> HIDE DEF normed
  <2>3. Yields(x, normed, ok)
    BY DEF normed, NormedIn
  <2>4. Yields(qkv, LinearRows(normed, l, "qkv"), ok)
    BY <1>0, <2>2, <2>3, LinearYields DEF Before
  <2> QED BY <2>1, <2>4 DEF QkvRow
<1> HIDE DEF e, qkv
<1>3. IsCache(c, n) /\ p \in Nat /\ Unraised(c, p) /\ l \in 1..Layers
  BY InCacheUnraised DEF Before
<1>4. /\ c.table = <<>> => Decoded(flat, c, n, e, p, ok)
      /\ c.table # <<>> => Decoded(paged, c, n, e, p, ok)
  BY <1>0, <1>1, <1>2, <1>3, QkvDecoded
<1> HIDE DEF flat, paged
<1>5. /\ c.table = <<>> => Serves(flat, Attended(y, l, r, p + 1), c, n, y, l, r, p, ok)
      /\ c.table # <<>> => Serves(paged, Attended(y, l, r, p + 1), c, n, y, l, r, p, ok)
  BY <1>4, DecodedServes DEF e, Rotates
<1>6. /\ c.table = <<>> => Serves(Projected(flat, Weights(l), Bits[l], matvec, call), Projection(y, l, r, p + 1), c, n, y, l, r, p, ok)
      /\ c.table # <<>> => Serves(Projected(paged, Weights(l), Bits[l], matvec, call), Projection(y, l, r, p + 1), c, n, y, l, r, p, ok)
  BY <1>0, <1>3, <1>5, ProjectedServes
<1> QED BY <1>6, WeightOf DEF quantized_decode_block, paged_quantized_decode_block, ServesProjection, LayoutBlock, flat, paged, qkv

(* The residual of one row. *)
LEMMA AddServes ==
  ASSUME NEW a, NEW b, NEW s, NEW t, NEW ok, Proper(a), Proper(b), Yields(s, <<a>>, ok), Yields(t, <<b>>, ok),
         NEW backend, NEW call
  PROVE  /\ Yields(reference_residual_add(s, t), <<Sum(a, b)>>, ok)
         /\ (ok => HalfPrecision(call) /\ Accepts(backend, call)) => Yields(residual_add(s, t, backend, call), <<Sum(a, b)>>, ok)
         /\ s = <<Raise>> \/ t = <<Raise>> =>
                reference_residual_add(s, t) = <<Raise>> /\ residual_add(s, t, backend, call) = <<Raise>>
<1>1. SumRows(<<a>>, <<b>>) = <<Sum(a, b)>> /\ Clean(<<a>>) /\ Clean(<<b>>) /\ DOMAIN <<a>> = DOMAIN <<b>>
  BY OneRow
<1>2. /\ Yields(reference_residual_add(s, t), SumRows(<<a>>, <<b>>), ok)
      /\ (ok => HalfPrecision(call) /\ Accepts(backend, call))
              => Yields(residual_add(s, t, backend, call), SumRows(<<a>>, <<b>>), ok)
  <2> DEFINE e == <<a>>
             f == <<b>>
  <2>1. Yields(s, e, ok) /\ Yields(t, f, ok) /\ Clean(e) /\ Clean(f) /\ DOMAIN e = DOMAIN f
    BY <1>1
  <2> HIDE DEF e, f
  <2>2. /\ Yields(reference_residual_add(s, t), SumRows(e, f), ok)
        /\ (ok => HalfPrecision(call) /\ Accepts(backend, call))
              => Yields(residual_add(s, t, backend, call), SumRows(e, f), ok)
    BY <2>1, SumYields
  <2> QED BY <2>2 DEF e, f
<1>3. ASSUME s = <<Raise>> \/ t = <<Raise>>
      PROVE  reference_residual_add(s, t) = <<Raise>> /\ residual_add(s, t, backend, call) = <<Raise>>
  <2>1. s = <<s[1]>>
    BY OneYields
  <2>2. DOMAIN s = 1..1 /\ Raises(1..1) = <<Raise>>
    BY <2>1, OneRow
  <2>3. s = Raises(1..1) \/ t = Raises(1..1)
    BY <1>3, <2>2
  <2>4. reference_residual_add(s, t) = Raises(1..1) /\ residual_add(s, t, backend, call) = Raises(1..1)
    BY <2>2, <2>3, AddRaises
  <2> QED BY <2>2, <2>4
<1> QED BY <1>1, <1>2, <1>3

(* The sum of the row and its projection, in either order. *)
Halfway(y, l, r, i) == Sum(y[i], Projection(y, l, r, i))

(* Both orders of the residual, and what they make of an exception. *)
LEMMA ResidualServes ==
  ASSUME NEW y, NEW l, NEW r, NEW i, Proper(y[i]), NEW ok, NEW x, Yields(x, <<y[i]>>, ok),
         NEW attn, Yields(attn, <<Projection(y, l, r, i)>>, ok), NEW backend, NEW call
  PROVE  /\ Proper(Halfway(y, l, r, i))
         /\ Yields(reference_residual_add(x, attn), <<Halfway(y, l, r, i)>>, ok)
         /\ Yields(reference_residual_add(attn, x), <<Halfway(y, l, r, i)>>, ok)
         /\ (ok => HalfPrecision(call) /\ Accepts(backend, call)) =>
                /\ Yields(residual_add(x, attn, backend, call), <<Halfway(y, l, r, i)>>, ok)
                /\ Yields(residual_add(attn, x, backend, call), <<Halfway(y, l, r, i)>>, ok)
         /\ x = <<Raise>> \/ attn = <<Raise>> =>
                /\ reference_residual_add(x, attn) = <<Raise>> /\ residual_add(x, attn, backend, call) = <<Raise>>
                /\ reference_residual_add(attn, x) = <<Raise>> /\ residual_add(attn, x, backend, call) = <<Raise>>
<1> DEFINE o == Projection(y, l, r, i)
<1>1. Proper(o)
  BY ProperTerms DEF Projection
<1>2. Halfway(y, l, r, i) = Sum(y[i], o) /\ Halfway(y, l, r, i) = Sum(o, y[i])
  BY SumSwap DEF Halfway
<1> HIDE DEF o
<1>3. Proper(Halfway(y, l, r, i))
  BY <1>1, <1>2, ProperTerms
<1>4. /\ Yields(reference_residual_add(x, attn), <<Sum(y[i], o)>>, ok)
      /\ (ok => HalfPrecision(call) /\ Accepts(backend, call)) => Yields(residual_add(x, attn, backend, call), <<Sum(y[i], o)>>, ok)
      /\ x = <<Raise>> \/ attn = <<Raise>> =>
                reference_residual_add(x, attn) = <<Raise>> /\ residual_add(x, attn, backend, call) = <<Raise>>
  BY <1>1, AddServes DEF o
<1>5. /\ Yields(reference_residual_add(attn, x), <<Sum(o, y[i])>>, ok)
      /\ (ok => HalfPrecision(call) /\ Accepts(backend, call)) => Yields(residual_add(attn, x, backend, call), <<Sum(o, y[i])>>, ok)
      /\ x = <<Raise>> \/ attn = <<Raise>> =>
                reference_residual_add(attn, x) = <<Raise>> /\ residual_add(attn, x, backend, call) = <<Raise>>
  BY <1>1, AddServes DEF o
<1> QED BY <1>2, <1>3, <1>4, <1>5

(* quantized_mlp_block over one row, and what it makes of an exception. *)
LEMMA MlpServes ==
  ASSUME NEW l \in 1..Layers, NEW a, Proper(a), NEW ok, NEW h, Yields(h, <<a>>, ok), NEW b, NEW call,
         ok => HalfPrecision(call) /\ MlpFits(b)
  PROVE  LET mlp == quantized_mlp_block(h, _zero_like_hidden(h), Norm(l, "post_attention_layernorm"), Weights(l), Bits[l], b, call)
         IN  Yields(mlp, <<FedForward(a, l)>>, ok) /\ (h = <<Raise>> => mlp = <<Raise>>)
<1> DEFINE mlp == quantized_mlp_block(h, _zero_like_hidden(h), Norm(l, "post_attention_layernorm"), Weights(l), Bits[l], b, call)
<1>1. FedRows(<<a>>, l) = <<FedForward(a, l)>> /\ Clean(<<a>>) /\ Raises(1..1) = <<Raise>>
  BY OneRow
<1>2. Yields(mlp, FedRows(<<a>>, l), ok)
  <2> DEFINE e == <<a>>
  <2>1. Yields(h, e, ok) /\ Clean(e)
    BY <1>1
  <2> HIDE DEF e
  <2>2. Yields(mlp, FedRows(e, l), ok)
    BY <2>1, MlpYields
  <2> QED BY <2>2 DEF e
<1>3. h = <<Raise>> => mlp = <<Raise>>
  <2>1. h = Raises(1..1) => mlp = Raises(1..1)
    BY MlpRaises
  <2> HIDE DEF mlp
  <2> QED BY <1>1, <2>1
<1> QED BY <1>1, <1>2, <1>3

(* From the projected attention to the layer. *)
LEMMA LayeredServes ==
  ASSUME NEW c, NEW n, NEW y, NEW l \in 1..Layers, NEW r, NEW p, NEW ok, NEW block,
         Serves(block, Projection(y, l, r, p + 1), c, n, y, l, r, p, ok), NEW h, NEW result,
         Yields(h, <<Halfway(y, l, r, p + 1)>>, ok), block.out = <<Raise>> => h = <<Raise>>,
         Yields(result, <<FedForward(Halfway(y, l, r, p + 1), l)>>, ok), h = <<Raise>> => result = <<Raise>>
  PROVE  Serves(Block(result, block.cache), Layered(y, l, r, p + 1), c, n, y, l, r, p, ok)
<1>1. result = <<Layered(y, l, r, p + 1)>> \/ (~ok /\ result = <<Raise>>)
  BY OneYields DEF Layered, Halfway
<1> QED BY <1>1 DEF Serves, Block

(* The backends of a layer that the functions it calls accept. *)
LayerFits(b) ==
    /\ b.norm \in {"reference", "metal"} /\ b.qkv_matvec \in MatvecNames
    /\ b.mlp \in {"reference", "metal", "tiled", "fused_experimental"}

(* A layer's feed-forward half, whichever the backend it names. *)
LEMMA LayerMlpServes ==
  ASSUME NEW l \in 1..Layers, NEW a, Proper(a), NEW ok, NEW h, Yields(h, <<a>>, ok), NEW b, NEW call,
         ok => HalfPrecision(call) /\ LayerFits(b)
  PROVE  Yields(LayerMlp(h, l, b, call), <<FedForward(a, l)>>, ok) /\ (h = <<Raise>> => LayerMlp(h, l, b, call) = <<Raise>>)
<1>1. LayerMlp(h, l, b, call) = quantized_mlp_block(h, _zero_like_hidden(h), Norm(l, "post_attention_layernorm"),
                                                   Weights(l), Bits[l], _resolve_mlp_backends(b.mlp), call)
  BY DEF LayerMlp, reference_quantized_mlp_block
<1>2. LayerFits(b) => MlpFits(_resolve_mlp_backends(b.mlp))
  BY DEF LayerFits, MlpFits, _resolve_mlp_backends, MlpBackends, MatvecNames, MatvecBackends
<1> QED BY <1>1, <1>2, MlpServes

(* A layer's first norm. *)
LEMMA InputNormYields ==
  ASSUME NEW l, NEW a, Proper(a), NEW ok, NEW x, Yields(x, <<a>>, ok), NEW backend, NEW call
  PROVE  LET normed == <<Normed(a, Norm(l, "input_layernorm"))>>
         IN  /\ Yields(reference_rms_norm(x, Norm(l, "input_layernorm")), normed, ok)
             /\ (ok => Accepts(backend, call)) => Yields(rms_norm(x, Norm(l, "input_layernorm"), backend, call), normed, ok)
<1> DEFINE e == <<a>>
<1>1. Yields(x, e, ok) /\ Clean(e)
  BY OneRow
<1>2. NormedRows(e, Norm(l, "input_layernorm")) = <<Normed(a, Norm(l, "input_layernorm"))>>
  BY OneRow
<1> HIDE DEF e
<1>3. /\ Yields(reference_rms_norm(x, Norm(l, "input_layernorm")), NormedRows(e, Norm(l, "input_layernorm")), ok)
      /\ (ok => Accepts(backend, call)) =>
             Yields(rms_norm(x, Norm(l, "input_layernorm"), backend, call), NormedRows(e, Norm(l, "input_layernorm")), ok)
  BY <1>1, NormYields
<1> QED BY <1>2, <1>3

(* llama_layer_decode_step serves the layer. *)
LEMMA LayerDecodeServes ==
  ASSUME NEW c, NEW n, NEW y, NEW l, NEW r, NEW p, Before(c, n, y, l, r, p), Rotates(r, p),
         NEW ok, NEW x, Yields(x, <<y[p + 1]>>, ok), NEW b, NEW call, call.grouped \in BOOLEAN,
         ok => /\ HalfPrecision(call) /\ p < n /\ p + 1 <= RopeRows
               /\ LayerFits(b) /\ BlockFits(c, b.attention, call)
  PROVE  Serves(llama_layer_decode_step(x, l, c, p, b, call), Layered(y, l, r, p + 1), c, n, y, l, r, p, ok)
<1> DEFINE xn == InputNorm(x, l, b, call)
           block == LayerDecodeBlock(xn, l, c, p, b, call)
           h == LayerResidual(x, block.out, b, call)
           result == LayerMlp(h, l, b, call)
<1>1. Yields(xn, NormedIn(y, l, p), ok)
  BY InputNormYields DEF InputNorm, NormedIn, Before, LayerFits, Accepts
<1> HIDE DEF xn
<1>2. block = IF c.table = <<>> THEN quantized_decode_block(xn, Weights(l), Bits[l], c, p, b.qkv_matvec, b.attention, call)
              ELSE paged_quantized_decode_block(xn, Weights(l), Bits[l], c, p, b.qkv_matvec, b.attention, call)
  <2>1. {b.qkv_matvec, b.attention, b.out_matvec} = {"reference"} => b.qkv_matvec = "reference" /\ b.attention = "reference"
    OBVIOUS
  <2> QED BY <2>1 DEF LayerDecodeBlock, reference_quantized_decode_block, reference_paged_quantized_decode_block
<1>3. Serves(block, Projection(y, l, r, p + 1), c, n, y, l, r, p, ok)
  <2>1. PICK matvec, backend : matvec = b.qkv_matvec /\ backend = b.attention
    OBVIOUS
  <2>2. ok => BlockAccepts(c, n, p, matvec, backend, call)
    BY <2>1 DEF LayerFits, BlockAccepts
  <2>3. ServesProjection(LayoutBlock(xn, l, c, p, matvec, backend, call), c, n, y, l, r, p, ok)
    BY <1>1, <2>2, BlockServes
  <2> HIDE DEF block
  <2> QED BY <1>2, <2>1, <2>3 DEF ServesProjection, LayoutBlock
<1> HIDE DEF block
<1>4. l \in 1..Layers /\ Proper(y[p + 1])
  BY DEF Before
<1>5. Yields(block.out, <<Projection(y, l, r, p + 1)>>, ok)
  BY <1>3, OneYields DEF Serves
<1>6. /\ Proper(Halfway(y, l, r, p + 1)) /\ Yields(h, <<Halfway(y, l, r, p + 1)>>, ok)
      /\ block.out = <<Raise>> => h = <<Raise>>
  <2>1. PICK i : i = p + 1
    OBVIOUS
  <2>2. Proper(y[i]) /\ Yields(x, <<y[i]>>, ok) /\ Yields(block.out, <<Projection(y, l, r, i)>>, ok)
    BY <1>4, <1>5, <2>1
  <2>3. /\ Proper(Halfway(y, l, r, i))
        /\ Yields(reference_residual_add(x, block.out), <<Halfway(y, l, r, i)>>, ok)
        /\ ok => HalfPrecision(call) /\ Accepts("metal", call)
        /\ Yields(residual_add(x, block.out, "metal", call), <<Halfway(y, l, r, i)>>, ok)
        /\ block.out = <<Raise>> => reference_residual_add(x, block.out) = <<Raise>> /\ residual_add(x, block.out, "metal", call) = <<Raise>>
    BY <2>2, ResidualServes DEF Accepts
  <2> QED BY <2>1, <2>3 DEF LayerResidual
<1> HIDE DEF h
<1>7. /\ Yields(result, <<FedForward(Halfway(y, l, r, p + 1), l)>>, ok)
      /\ h = <<Raise>> => result = <<Raise>>
  BY <1>4, <1>6, LayerMlpServes
<1> HIDE DEF result
<1>8. Serves(Block(result, block.cache), Layered(y, l, r, p + 1), c, n, y, l, r, p, ok)
  BY <1>3, <1>4, <1>6, <1>7, LayeredServes
<1> QED BY <1>8 DEF llama_layer_decode_step, LayerOutput, result, h, block, xn

(* The toy layer. *)
LEMMA ToyServes ==
  ASSUME NEW c, NEW n, NEW y, NEW r, NEW p, Before(c, n, y, 1, r, p), Rotates(r, p),
         NEW ok, NEW x, Yields(x, <<y[p + 1]>>, ok), NEW matvec, NEW backend, NEW other, NEW call, call.grouped \in BOOLEAN,
         ok => /\ HalfPrecision(call) /\ p < n /\ p + 1 <= RopeRows /\ other \in {"reference", "metal"}
               /\ matvec \in {"reference", "metal_tiled", "metal_parallel"} /\ BlockFits(c, backend, call)
  PROVE  /\ c.table = <<>> =>
                Serves(toy_transformer_decode_layer(x, c, p, matvec, backend, other, call),
                       Layered(y, 1, r, p + 1), c, n, y, 1, r, p, ok)
         /\ c.table # <<>> =>
                Serves(paged_toy_transformer_decode_layer(x, c, p, matvec, backend, other, call),
                       Layered(y, 1, r, p + 1), c, n, y, 1, r, p, ok)
<1> DEFINE xn == ToyNorm(x, other, call)
           block == IF c.table = <<>> THEN quantized_decode_block(xn, Weights(1), Bits[1], c, p, matvec, backend, call)
                    ELSE paged_quantized_decode_block(xn, Weights(1), Bits[1], c, p, matvec, backend, call)
           h == ToyResidual(block.out, x, other, call)
           result == ToyMlp(h, matvec, other, call)
<1>0. 1 \in 1..Layers /\ Proper(y[p + 1])
  BY DEF Before
<1>1. Yields(xn, NormedIn(y, 1, p), ok)
  BY <1>0, InputNormYields DEF ToyNorm, NormedIn, Accepts
<1> HIDE DEF xn
<1>3. Serves(block, Projection(y, 1, r, p + 1), c, n, y, 1, r, p, ok)
  <2>2. ok => BlockAccepts(c, n, p, matvec, backend, call)
    BY DEF MatvecNames, MatvecBackends, BlockAccepts
  <2>3. ServesProjection(LayoutBlock(xn, 1, c, p, matvec, backend, call), c, n, y, 1, r, p, ok)
    BY <1>1, <2>2, BlockServes
  <2> QED BY <2>3 DEF ServesProjection, LayoutBlock
<1>2. /\ c.table = <<>> => toy_transformer_decode_layer(x, c, p, matvec, backend, other, call) = Block(result, block.cache)
      /\ c.table # <<>> => paged_toy_transformer_decode_layer(x, c, p, matvec, backend, other, call) = Block(result, block.cache)
  <2>1. {matvec, backend} = {"reference"} => matvec = "reference" /\ backend = "reference"
    OBVIOUS
  <2>2. /\ c.table = <<>> => ToyBlock(xn, c, p, matvec, backend, call) = block
        /\ c.table # <<>> => PagedToyBlock(xn, c, p, matvec, backend, call) = block
    BY <2>1 DEF ToyBlock, PagedToyBlock, reference_quantized_decode_block, reference_paged_quantized_decode_block
  <2> HIDE DEF block
  <2> QED BY <2>2 DEF toy_transformer_decode_layer, paged_toy_transformer_decode_layer, ToyOutput, xn
<1> HIDE DEF block
<1>5. Yields(block.out, <<Projection(y, 1, r, p + 1)>>, ok)
  BY <1>3, OneYields DEF Serves
<1>6. /\ Proper(Halfway(y, 1, r, p + 1)) /\ Yields(h, <<Halfway(y, 1, r, p + 1)>>, ok)
      /\ block.out = <<Raise>> => h = <<Raise>>
  <2>1. PICK i : i = p + 1
    OBVIOUS
  <2>2. Proper(y[i]) /\ Yields(x, <<y[i]>>, ok) /\ Yields(block.out, <<Projection(y, 1, r, i)>>, ok)
    BY <1>0, <1>5, <2>1
  <2>3. /\ Proper(Halfway(y, 1, r, i))
        /\ Yields(reference_residual_add(block.out, x), <<Halfway(y, 1, r, i)>>, ok)
        /\ ok => HalfPrecision(call) /\ Accepts(other, call)
        /\ Yields(residual_add(block.out, x, other, call), <<Halfway(y, 1, r, i)>>, ok)
        /\ block.out = <<Raise>> => reference_residual_add(block.out, x) = <<Raise>> /\ residual_add(block.out, x, other, call) = <<Raise>>
    BY <2>2, ResidualServes DEF Accepts
  <2> QED BY <2>1, <2>3 DEF ToyResidual
<1> HIDE DEF h
<1>7. /\ Yields(result, <<FedForward(Halfway(y, 1, r, p + 1), 1)>>, ok)
      /\ h = <<Raise>> => result = <<Raise>>
  <2>1. ok => MlpFits(MlpBackends(other, matvec, other, other, matvec))
    BY DEF MlpFits, MlpBackends, MatvecNames, MatvecBackends
  <2> QED BY <1>0, <1>6, <2>1, MlpServes DEF ToyMlp
<1> HIDE DEF result
<1>8. Serves(Block(result, block.cache), Layered(y, 1, r, p + 1), c, n, y, 1, r, p, ok)
  BY <1>0, <1>3, <1>6, <1>7, LayeredServes
<1> QED BY <1>2, <1>8

-----------------------------------------------------------------------------
(* The paths without backends: numpy and the adapter. *)

(* The projections that name no backend. *)
LEMMA PlainLinear ==
  ASSUME NEW s, NEW e, NEW ok, Yields(s, e, ok), Clean(e), NEW l, NEW name
  PROVE  /\ Yields(_linear(s, W(l, name)), LinearRows(e, l, name), ok)
         /\ Yields(NumpyLinear(s, l, name), LinearRows(e, l, name), ok)
  BY EachYields DEF _linear, NumpyLinear, LinearRows, Linear, Each

(* The two gated activations that name none. *)
LEMMA GatedYields ==
  ASSUME NEW s, NEW e, NEW ok, Clean(e), NEW l, Yields(s, NormedRows(e, Norm(l, "post_attention_layernorm")), ok)
  PROVE  /\ \A call : (ok => HalfPrecision(call)) =>
                Yields(swiglu(_linear(s, W(l, "gate")), _linear(s, W(l, "up")), "metal", call), Gated(e, l), ok)
         /\ Yields(NumpyGated(s, l), Gated(e, l), ok)
<1> DEFINE n == NormedRows(e, Norm(l, "post_attention_layernorm"))
           g == LinearRows(n, l, "gate")
           u == LinearRows(n, l, "up")
<1>1. Clean(n)
  BY CleanRows
<1>2. Clean(g) /\ Clean(u) /\ DOMAIN g = DOMAIN n /\ DOMAIN u = DOMAIN n
  <2> HIDE DEF n
  <2> QED BY CleanRows
<1> HIDE DEF n
<1>3. /\ Yields(_linear(s, W(l, "gate")), g, ok) /\ Yields(_linear(s, W(l, "up")), u, ok)
      /\ Yields(NumpyLinear(s, l, "gate"), g, ok) /\ Yields(NumpyLinear(s, l, "up"), u, ok)
  BY <1>1, PlainLinear DEF n
<1> HIDE DEF g, u
<1>4. SwigluRows(g, u) = Gated(e, l)
  BY DEF Gated, g, u, n
<1>5. ASSUME NEW call, ok => HalfPrecision(call)
      PROVE  Yields(swiglu(_linear(s, W(l, "gate")), _linear(s, W(l, "up")), "metal", call), Gated(e, l), ok)
  BY <1>2, <1>3, <1>4, <1>5, SwigluYields DEF Accepts
<1>6. Yields(NumpyGated(s, l), Gated(e, l), ok)
  <2> DEFINE call == [dtype |-> "float16"]
  <2>1. HalfPrecision(call)
    BY DEF HalfPrecision
  <2> HIDE DEF call
  <2>2. Yields(reference_swiglu(NumpyLinear(s, l, "gate"), NumpyLinear(s, l, "up"), call), SwigluRows(g, u), ok)
    BY <1>2, <1>3, <2>1, SwigluYields
  <2>3. reference_swiglu(NumpyLinear(s, l, "gate"), NumpyLinear(s, l, "up"), call) = NumpyGated(s, l)
    BY <2>1 DEF reference_swiglu, NumpyGated, NumpySwiglu, Guarded
  <2> QED BY <1>4, <2>2, <2>3
<1> QED BY <1>5, <1>6

(* The numpy feed-forward half. *)
LEMMA NumpyMlpYields ==
  ASSUME NEW h, NEW e, NEW ok, Yields(h, e, ok), Clean(e), NEW l
  PROVE  Yields(NumpyMlp(h, l), FedRows(e, l), ok)
<1> DEFINE s == reference_rms_norm(h, Norm(l, "post_attention_layernorm"))
           a == Gated(e, l)
           d == LinearRows(a, l, "down")
<1>1. Yields(s, NormedRows(e, Norm(l, "post_attention_layernorm")), ok)
  BY NormYields
<1> HIDE DEF s
<1>2. Yields(NumpyGated(s, l), a, ok)
  BY <1>1, GatedYields
<1>3. Clean(a) /\ DOMAIN a = DOMAIN e /\ FedRows(e, l) = SumRows(e, d)
  BY FedIs
<1> HIDE DEF a
<1>4. Yields(NumpyLinear(NumpyGated(s, l), l, "down"), d, ok)
  BY <1>2, <1>3, PlainLinear
<1>5. Clean(d) /\ DOMAIN d = DOMAIN e
  BY <1>3, LinearRowsClean
<1> HIDE DEF d
<1>6. Yields(reference_residual_add(h, NumpyLinear(NumpyGated(s, l), l, "down")), SumRows(e, d), ok)
  BY <1>4, <1>5, SumYields
<1> QED BY <1>3, <1>6 DEF NumpyMlp, s

(* What it makes of an exception. *)
LEMMA NumpyMlpRaises ==
  ASSUME NEW D, NEW l
  PROVE  NumpyMlp(Raises(D), l) = Raises(D)
  BY ZerosOf, AddRaises DEF NumpyMlp

(* The adapter's feed-forward half. *)
LEMMA FusedMlpServes ==
  ASSUME NEW a, Proper(a), NEW ok, NEW h, Yields(h, <<a>>, ok), NEW call, ok => HalfPrecision(call)
  PROVE  Yields(FusedMlp(h, call), <<FedForward(a, 1)>>, ok) /\ (h = <<Raise>> => FusedMlp(h, call) = <<Raise>>)
<1> DEFINE e == <<a>>
           s == rms_norm(h, Norm(1, "post_attention_layernorm"), "metal", call)
           g == Gated(e, 1)
           d == LinearRows(g, 1, "down")
           down == _linear(FfnOf(s, call), W(1, "down"))
<1>0. Yields(h, e, ok) /\ Clean(e) /\ DOMAIN e = 1..1 /\ FedRows(e, 1) = <<FedForward(a, 1)>> /\ Raises(1..1) = <<Raise>>
  BY OneRow
<1> HIDE DEF e
<1>1. Yields(s, NormedRows(e, Norm(1, "post_attention_layernorm")), ok)
  BY <1>0, NormYields DEF Accepts
<1> HIDE DEF s
<1>2. Yields(FfnOf(s, call), g, ok)
  BY <1>0, <1>1, GatedYields DEF FfnOf
<1>3. Clean(g) /\ DOMAIN g = DOMAIN e /\ FedRows(e, 1) = SumRows(e, d)
  BY <1>0, FedIs
<1> HIDE DEF g
<1>4. Yields(down, d, ok)
  BY <1>2, <1>3, PlainLinear
<1>5. Clean(d) /\ DOMAIN d = DOMAIN e
  BY <1>3, LinearRowsClean
<1> HIDE DEF d, down
<1>6. Yields(residual_add(down, h, "auto", call), SumRows(d, e), ok)
  BY <1>0, <1>4, <1>5, SumYields DEF Accepts
<1>7. SumRows(d, e) = SumRows(e, d)
  BY <1>5, SumRowsSwap
<1>8. ASSUME h = <<Raise>> PROVE residual_add(down, h, "auto", call) = <<Raise>>
  <2>1. h = Raises(1..1) /\ DOMAIN down = 1..1
    BY <1>0, <1>4, <1>5, <1>8 DEF Yields
  <2>2. residual_add(down, h, "auto", call) = Raises(1..1)
    BY <2>1, NamedAddRaises
  <2> QED BY <1>0, <2>2
<1> QED BY <1>0, <1>3, <1>6, <1>7, <1>8 DEF FusedMlp, s, down

(* A block that serves the layer. *)
ServesLayer(block, c, n, y, l, r, p, ok) == Serves(block, Layered(y, l, r, p + 1), c, n, y, l, r, p, ok)

(* decode_layer_from_fused_qkv serves the layer. *)
LEMMA FusedServes ==
  ASSUME NEW c, NEW n, NEW y, NEW r, NEW p, Before(c, n, y, 1, r, p), Rotates(r, p),
         NEW ok, NEW call, call.grouped \in BOOLEAN, ok => HalfPrecision(call) /\ p < n /\ p + 1 <= RopeRows
  PROVE  LET x == <<y[p + 1]>>
             qkv == _linear(reference_rms_norm(x, Norm(1, "input_layernorm")), W(1, "qkv"))
         IN  ServesLayer(decode_layer_from_fused_qkv(x, qkv, c, p, call), c, n, y, 1, r, p, ok)
<1> DEFINE x == <<y[p + 1]>>
           qkv == _linear(reference_rms_norm(x, Norm(1, "input_layernorm")), W(1, "qkv"))
           block == IF c.table = <<>> THEN decode_block_from_qkv(qkv, c, p, "metal", call)
                    ELSE paged_decode_block_from_qkv(qkv, c, p, "metal", call)
           o == _linear(block.out, W(1, "o"))
           h == residual_add(o, x, "auto", call)
           result == FusedMlp(h, call)
<1>0. IsCache(c, n) /\ p \in Nat /\ Unraised(c, p) /\ 1 \in 1..Layers /\ Proper(y[p + 1]) /\ Clean(x) /\ DOMAIN x = 1..1
  BY InCacheUnraised, OneRow DEF Before
<1>1. Yields(x, x, ok)
  BY OneYields
<1>2. /\ Yields(qkv, QkvRow(y[p + 1], 1), ok)
      /\ Clean(QkvRow(y[p + 1], 1)) /\ DOMAIN QkvRow(y[p + 1], 1) = 1..1
  <2> DEFINE e == NormedRows(x, Norm(1, "input_layernorm"))
             s == reference_rms_norm(x, Norm(1, "input_layernorm"))
  <2>1. QkvRow(y[p + 1], 1) = LinearRows(e, 1, "qkv")
    BY DEF QkvRow
  <2> HIDE DEF x
  <2>2. Yields(s, e, ok) /\ Clean(e)
    BY <1>0, <1>1, NormYields, CleanRows
  <2> HIDE DEF s, e
  <2>3. Yields(_linear(s, W(1, "qkv")), LinearRows(e, 1, "qkv"), ok)
    BY <2>2, PlainLinear
  <2> QED BY <2>1, <2>3, QkvRowIs DEF s
<1> HIDE DEF qkv
<1>3. Serves(block, Attended(y, 1, r, p + 1), c, n, y, 1, r, p, ok)
  <2>1. BlockFits(c, "metal", call)
    BY DEF BlockFits, GqaBackends
  <2>2. Decoded(block, c, n, QkvRow(y[p + 1], 1), p, ok)
    <3>1. ok => HalfPrecision(call) /\ p < n /\ p + 1 <= RopeRows /\ BlockFits(c, "metal", call)
      BY <2>1
    <3> QED BY <1>0, <1>2, <3>1, QkvDecoded
  <2> HIDE DEF block
  <2> QED BY <2>2, DecodedServes DEF Rotates
<1> HIDE DEF block
<1>4. Yields(o, <<Projection(y, 1, r, p + 1)>>, ok) /\ (block.out = <<Raise>> => o = <<Raise>>)
  <2> DEFINE a == Attended(y, 1, r, p + 1)
             e == <<a>>
  <2>1. Yields(block.out, e, ok)
    BY <1>3, OneYields DEF Serves
  <2>2. Clean(e) /\ Raises(1..1) = <<Raise>>
    BY ProperParts, OneRow
  <2>3. LinearRows(e, 1, "o") = <<Projection(y, 1, r, p + 1)>>
    BY OneRow DEF Projection
  <2> HIDE DEF e
  <2>4. Yields(o, LinearRows(e, 1, "o"), ok)
    BY <2>1, <2>2, PlainLinear
  <2>5. block.out = Raises(1..1) => o = Raises(1..1)
    BY <1>0, LinearRaises
  <2> HIDE DEF o
  <2> QED BY <2>2, <2>3, <2>4, <2>5
<1> HIDE DEF o
<1>5. /\ Proper(Halfway(y, 1, r, p + 1)) /\ Yields(h, <<Halfway(y, 1, r, p + 1)>>, ok)
      /\ o = <<Raise>> => h = <<Raise>>
  <2>1. PICK i : i = p + 1
    OBVIOUS
  <2>2. Proper(y[i]) /\ Yields(x, <<y[i]>>, ok) /\ Yields(o, <<Projection(y, 1, r, i)>>, ok)
    BY <1>0, <1>1, <1>4, <2>1
  <2> HIDE DEF x
  <2>3. ok => HalfPrecision(call) /\ Accepts("auto", call)
    BY DEF Accepts
  <2>4. /\ Proper(Halfway(y, 1, r, i)) /\ Yields(residual_add(o, x, "auto", call), <<Halfway(y, 1, r, i)>>, ok)
        /\ o = <<Raise>> => residual_add(o, x, "auto", call) = <<Raise>>
    BY <2>2, <2>3, ResidualServes
  <2> QED BY <2>1, <2>4
<1> HIDE DEF h
<1>6. /\ Yields(result, <<FedForward(Halfway(y, 1, r, p + 1), 1)>>, ok)
      /\ h = <<Raise>> => result = <<Raise>>
  BY <1>5, FusedMlpServes
<1> HIDE DEF result
<1>7. Serves(block, Projection(y, 1, r, p + 1), c, n, y, 1, r, p, ok) \/ (~ok /\ result = <<Raise>>)
         \/ CacheServed(block.cache, c, n, y, 1, r, p)
  BY <1>3, <1>4, <1>5, <1>6 DEF Serves
<1>8. result = <<Layered(y, 1, r, p + 1)>> \/ (~ok /\ result = <<Raise>>)
  BY <1>6, OneYields DEF Layered, Halfway
<1>9. ServesLayer(Block(result, block.cache), c, n, y, 1, r, p, ok)
  BY <1>3, <1>4, <1>5, <1>6, <1>8 DEF ServesLayer, Serves, Block
<1> QED BY <1>9 DEF decode_layer_from_fused_qkv, FusedOutput, result, h, o, block, qkv

(* So does decode_layer_quantized_from_fused_qkv. *)
LEMMA AdapterServes ==
  ASSUME NEW c, NEW n, NEW y, NEW r, NEW p, Before(c, n, y, 1, r, p), Rotates(r, p),
         NEW ok, NEW matvec, NEW call, call.grouped \in BOOLEAN,
         ok => HalfPrecision(call) /\ p < n /\ p + 1 <= RopeRows /\ matvec \in {"metal_tiled", "metal_parallel"}
  PROVE  ServesLayer(decode_layer_quantized_from_fused_qkv(<<y[p + 1]>>, c, p, matvec, call), c, n, y, 1, r, p, ok)
<1> DEFINE x == <<y[p + 1]>>
           xn == rms_norm(x, Norm(1, "input_layernorm"), "metal", call)
           backend == IF call.grouped THEN "reference" ELSE "metal"
           block == LayoutBlock(xn, 1, c, p, matvec, backend, call)
           h == residual_add(block.out, x, "auto", call)
           result == AdapterMlp(h, matvec, call)
<1>0. 1 \in 1..Layers /\ Proper(y[p + 1])
  BY DEF Before
<1>1. Yields(x, <<y[p + 1]>>, ok)
  BY OneYields
<1> HIDE DEF x
<1>2. Yields(xn, NormedIn(y, 1, p), ok)
  BY <1>0, <1>1, InputNormYields DEF NormedIn, Accepts
<1> HIDE DEF xn
<1>3. Serves(block, Projection(y, 1, r, p + 1), c, n, y, 1, r, p, ok)
  <2>1. ok => BlockAccepts(c, n, p, matvec, backend, call)
    BY DEF BlockAccepts, BlockFits, GqaBackends, MatvecNames, MatvecBackends
  <2> HIDE DEF backend
  <2>2. ServesProjection(block, c, n, y, 1, r, p, ok)
    BY <1>2, <2>1, BlockServes
  <2> QED BY <2>2 DEF ServesProjection
<1>4. decode_layer_quantized_from_fused_qkv(x, c, p, matvec, call) = Block(result, block.cache)
  BY DEF decode_layer_quantized_from_fused_qkv, AdapterOutput, AdapterBlock, LayoutBlock, xn
<1> HIDE DEF block
<1>5. Yields(block.out, <<Projection(y, 1, r, p + 1)>>, ok)
  BY <1>3, OneYields DEF Serves
<1>6. /\ Proper(Halfway(y, 1, r, p + 1)) /\ Yields(h, <<Halfway(y, 1, r, p + 1)>>, ok)
      /\ block.out = <<Raise>> => h = <<Raise>>
  <2>1. PICK i : i = p + 1
    OBVIOUS
  <2>2. Proper(y[i]) /\ Yields(x, <<y[i]>>, ok) /\ Yields(block.out, <<Projection(y, 1, r, i)>>, ok)
    BY <1>0, <1>1, <1>5, <2>1
  <2>3. ok => HalfPrecision(call) /\ Accepts("auto", call)
    BY DEF Accepts
  <2>4. /\ Proper(Halfway(y, 1, r, i)) /\ Yields(residual_add(block.out, x, "auto", call), <<Halfway(y, 1, r, i)>>, ok)
        /\ block.out = <<Raise>> => residual_add(block.out, x, "auto", call) = <<Raise>>
    BY <2>2, <2>3, ResidualServes
  <2> QED BY <2>1, <2>4
<1> HIDE DEF h
<1>7. /\ Yields(result, <<FedForward(Halfway(y, 1, r, p + 1), 1)>>, ok)
      /\ h = <<Raise>> => result = <<Raise>>
  <2>1. ok => MlpFits(MlpBackends("metal", matvec, "metal", "metal", matvec))
    BY DEF MlpFits, MlpBackends, MatvecNames, MatvecBackends
  <2> QED BY <1>0, <1>6, <2>1, MlpServes DEF AdapterMlp, run_quantized_mlp_block
<1> HIDE DEF result
<1>8. Serves(Block(result, block.cache), Layered(y, 1, r, p + 1), c, n, y, 1, r, p, ok)
  BY <1>0, <1>3, <1>6, <1>7, LayeredServes
<1> QED BY <1>4, <1>8 DEF ServesLayer, x

(* The numpy layer rotates nothing. *)
LEMMA FallbackServes ==
  ASSUME NEW c, NEW n, NEW y, NEW l, NEW r, NEW p, Before(c, n, y, l, r, p), ~Rotates(r, p), NEW ok, ok => p < n
  PROVE  /\ ServesLayer(_fallback_layer_decode(<<y[p + 1]>>, l, c, p), c, n, y, l, r, p, ok)
         /\ _fallback_layer_decode(<<Raise>>, l, c, p).out = <<Raise>>
<1> DEFINE x == <<y[p + 1]>>
           qkv == NumpyQkv(x, l)
           q == QkvPart(y[p + 1], l, "q")
           k == QkvPart(y[p + 1], l, "k")
           v == QkvPart(y[p + 1], l, "v")
           new == Put(c, p, k, v)
           layer == _fallback_layer_decode(x, l, c, p)
<1>0. /\ IsCache(c, n) /\ p \in Nat /\ Unraised(c, p) /\ InCache(c, y, l, r, p) /\ l \in 1..Layers /\ Proper(y[p + 1])
      /\ Slots(c) = n /\ n \in Nat \ {0}
  BY InCacheUnraised, CacheSlots DEF Before
<1>1. Clean(x) /\ DOMAIN x = 1..1 /\ Yields(x, x, TRUE)
  BY <1>0, OneRow, OneYields
<1>2. qkv = QkvRow(y[p + 1], l)
  <2> DEFINE e == NormedRows(x, Norm(l, "input_layernorm"))
             s == reference_rms_norm(x, Norm(l, "input_layernorm"))
  <2>1. QkvRow(y[p + 1], l) = LinearRows(e, l, "qkv")
    BY DEF QkvRow
  <2>0. qkv = NumpyLinear(s, l, "qkv")
    BY DEF NumpyQkv
  <2> HIDE DEF x, qkv
  <2>2. Yields(s, e, TRUE) /\ Clean(e)
    BY <1>1, NormYields, CleanRows
  <2> HIDE DEF s, e
  <2>3. Yields(NumpyLinear(s, l, "qkv"), LinearRows(e, l, "qkv"), TRUE)
    BY <2>2, PlainLinear
  <2> QED BY <2>0, <2>1, <2>3 DEF Yields
<1>3. \A name : Part(qkv, name) = <<QkvPart(y[p + 1], l, name)>>
  <2> TAKE name
  <2>1. PICK e : e = QkvRow(y[p + 1], l)
    OBVIOUS
  <2>2. Clean(e) /\ DOMAIN e = 1..1 /\ PartRows(e, name) = <<QkvPart(y[p + 1], l, name)>>
    BY <2>1, QkvRowIs
  <2>3. Yields(e, e, TRUE)
    <3>1. e = [i \in DOMAIN e |-> e[i]]
      BY <2>1 DEF QkvRow, LinearRows
    <3> QED BY <3>1 DEF Yields
  <2>4. Yields(Part(e, name), PartRows(e, name), TRUE)
    BY <2>2, <2>3, EachYields DEF Part, PartRows, Each
  <2> QED BY <1>2, <2>1, <2>2, <2>4 DEF Yields
<1> HIDE DEF qkv
<1>4. CASE p >= n
  <2>1. layer.out = <<Raise>> /\ ~ok /\ _fallback_layer_decode(<<Raise>>, l, c, p).out = <<Raise>>
    BY <1>0, <1>4 DEF _fallback_layer_decode, Failed, Block
  <2> HIDE DEF layer
  <2>2. ServesLayer(layer, c, n, y, l, r, p, ok)
    BY <2>1 DEF ServesLayer, Serves
  <2> QED BY <2>1, <2>2 DEF layer
<1>5. CASE p < n
  <2> DEFINE attn == <<Op(<<"attention">>, <<q>> \o FirstRows(new.K, p + 1) \o FirstRows(new.V, p + 1))>>
             h == reference_residual_add(x, NumpyLinear(attn, l, "o"))
  <2>0. p \in 0..(n - 1)
    BY <1>0, <1>5
  <2>1. layer = Block(NumpyMlp(h, l), new)
    <3>1. [c EXCEPT !.K[p] = k, !.V[p] = v] = new
      <4>0. PICK m, w, t : m = c.K /\ w = c.V /\ t = c.table
        OBVIOUS
      <4> HIDE DEF k, v
      <4>1. [[K |-> m, V |-> w, table |-> t] EXCEPT !.K[p] = k, !.V[p] = v]
                           = [K |-> [m EXCEPT ![p] = k], V |-> [w EXCEPT ![p] = v], table |-> t]
        <5>1. [[K |-> m, V |-> w, table |-> t] EXCEPT !.K[p] = k, !.V[p] = v]
                = [[[K |-> m, V |-> w, table |-> t] EXCEPT !.K[p] = k] EXCEPT !.V[p] = v]
          OBVIOUS
        <5>2. [[K |-> m, V |-> w, table |-> t] EXCEPT !.K[p] = k] = [K |-> [m EXCEPT ![p] = k], V |-> w, table |-> t]
          OBVIOUS
        <5>3. \A u : [[K |-> u, V |-> w, table |-> t] EXCEPT !.V[p] = v] = [K |-> u, V |-> [w EXCEPT ![p] = v], table |-> t]
          OBVIOUS
        <5> QED BY <5>1, <5>2, <5>3
      <4>2. c = [K |-> c.K, V |-> c.V, table |-> c.table]
        BY <1>0 DEF IsCache
      <4>3. [c EXCEPT !.K[p] = k, !.V[p] = v] = [[K |-> m, V |-> w, table |-> t] EXCEPT !.K[p] = k, !.V[p] = v]
        BY <4>0, <4>2
      <4> QED BY <4>0, <4>1, <4>3 DEF Put
    <3>2. /\ Parts(qkv).q = <<q>> /\ Parts(qkv).k[1] = k /\ Parts(qkv).v[1] = v
      BY <1>3 DEF Parts
    <3> HIDE DEF q, k, v, new
    <3>3. layer = NumpyDecode(x, l, <<q>>, new, p)
      <4>1. layer = NumpyDecodeOf(x, l, c, Parts(qkv), p)
        BY <1>0, <1>5 DEF _fallback_layer_decode, qkv
      <4>2. PICK parts : parts = Parts(qkv)
        OBVIOUS
      <4>3. NumpyDecodeOf(x, l, c, parts, p) =
              NumpyDecode(x, l, parts.q, [c EXCEPT !.K[p] = parts.k[1], !.V[p] = parts.v[1]], p)
        BY DEF NumpyDecodeOf
      <4> HIDE DEF layer
      <4> QED BY <3>1, <3>2, <4>1, <4>2, <4>3
    <3> QED BY <3>3 DEF NumpyDecode, NumpyOutput, FirstRows
  <2>2. CacheServed(new, c, n, y, l, r, p) /\ attn = <<Attended(y, l, r, p + 1)>>
    <3>1. q = AtPosition(q, p + 1, r) /\ k = AtPosition(k, p + 1, r)
      BY DEF AtPosition, Rotates
    <3>2. /\ CacheServed(new, c, n, y, l, r, p)
          /\ Term(<<"attention">>, <<q>> \o FirstRows(new.K, p + 1) \o FirstRows(new.V, p + 1)) = Attended(y, l, r, p + 1)
      BY <1>0, <2>0, <3>1, PutAttends
    <3>3. Proper(q) /\ Proper(k) /\ Proper(v)
      BY ProperParts
    <3> HIDE DEF q, k, v
    <3>4. attn = AttentionOver(<<q>>, new, p + 1)
      BY DEF AttentionOver
    <3> HIDE DEF attn
    <3>5. AttentionOver(<<q>>, new, p + 1) = <<Term(<<"attention">>, <<q>> \o FirstRows(new.K, p + 1) \o FirstRows(new.V, p + 1))>>
      <4>1. PICK u : u = <<q>>
        OBVIOUS
      <4>2. u = <<u[1]>> /\ u[1] = q
        BY <4>1
      <4>3. LET w == Put(c, p, k, v)
            IN  AttentionOver(u, w, p + 1) =
                   IF u[1] = Raise \/ k = Raise \/ v = Raise THEN <<Raise>>
                   ELSE <<Term(<<"attention">>, u \o FirstRows(w.K, p + 1) \o FirstRows(w.V, p + 1))>>
        BY <1>0, <2>0, <4>2, AttendPut DEF Unraised
      <4> QED BY <3>3, <4>1, <4>2, <4>3 DEF Proper
    <3> HIDE DEF new
    <3> QED BY <3>2, <3>4, <3>5
  <2> HIDE DEF attn, new
  <2>3. NumpyLinear(attn, l, "o") = <<Projection(y, l, r, p + 1)>>
    <3> DEFINE e == <<Attended(y, l, r, p + 1)>>
    <3>1. Yields(attn, e, TRUE) /\ Clean(e)
      BY <2>2, OneYields, OneRow, ProperParts
    <3>2. LinearRows(e, l, "o") = <<Projection(y, l, r, p + 1)>>
      BY OneRow DEF Projection
    <3> HIDE DEF e
    <3>3. Yields(NumpyLinear(attn, l, "o"), LinearRows(e, l, "o"), TRUE)
      BY <3>1, PlainLinear
    <3> QED BY <3>2, <3>3 DEF Yields
  <2>4. Proper(Halfway(y, l, r, p + 1)) /\ h = <<Halfway(y, l, r, p + 1)>>
    <3>1. PICK i, o : i = p + 1 /\ o = NumpyLinear(attn, l, "o")
      OBVIOUS
    <3>2. Yields(o, <<Projection(y, l, r, i)>>, TRUE) /\ Yields(x, <<y[i]>>, TRUE) /\ Proper(y[i])
      BY <1>0, <2>3, <3>1, OneYields
    <3>3. Yields(reference_residual_add(x, o), <<Halfway(y, l, r, i)>>, TRUE) /\ Proper(Halfway(y, l, r, i))
      <4> HIDE DEF x
      <4> QED BY <3>2, ResidualServes
    <3> QED BY <3>1, <3>3, OneYields
  <2> HIDE DEF h
  <2>5. NumpyMlp(h, l) = <<Layered(y, l, r, p + 1)>>
    <3> DEFINE e == <<Halfway(y, l, r, p + 1)>>
    <3>1. Yields(h, e, TRUE) /\ Clean(e) /\ FedRows(e, l) = <<Layered(y, l, r, p + 1)>>
      BY <2>4, OneYields, OneRow DEF Layered, Halfway
    <3> HIDE DEF e
    <3>2. Yields(NumpyMlp(h, l), FedRows(e, l), TRUE)
      BY <3>1, NumpyMlpYields
    <3> QED BY <3>1, <3>2 DEF Yields
  <2>6. ServesLayer(layer, c, n, y, l, r, p, ok)
    <3> HIDE DEF layer
    <3> QED BY <2>1, <2>2, <2>5 DEF ServesLayer, Serves, Block
  <2>7. _fallback_layer_decode(<<Raise>>, l, c, p).out = <<Raise>>
    <3>1. PICK a, u : _fallback_layer_decode(<<Raise>>, l, c, p) = NumpyOutput(<<Raise>>, l, a, u)
      <4>1. \A parts : \E a, u : NumpyDecodeOf(<<Raise>>, l, c, parts, p) = NumpyOutput(<<Raise>>, l, a, u)
        BY DEF NumpyDecodeOf, NumpyDecode
      <4>2. _fallback_layer_decode(<<Raise>>, l, c, p) = NumpyDecodeOf(<<Raise>>, l, c, Parts(NumpyQkv(<<Raise>>, l)), p)
        BY <1>0, <1>5 DEF _fallback_layer_decode
      <4> QED BY <4>1, <4>2
    <3> DEFINE D == 1..1
    <3>2. Raises(D) = <<Raise>> /\ DOMAIN Raises(D) = D
      BY OneRow DEF Raises
    <3> HIDE DEF D
    <3>3. \A t : reference_residual_add(Raises(D), t) = Raises(D)
      BY <3>2, AddRaises
    <3>4. NumpyMlp(Raises(D), l) = Raises(D)
      BY NumpyMlpRaises
    <3> QED BY <3>1, <3>2, <3>3, <3>4 DEF NumpyOutput, Block
  <2> QED BY <2>6, <2>7
<1> QED BY <1>0, <1>4, <1>5

-----------------------------------------------------------------------------
(* One layer, a prompt. *)

(* What row i of a prompt attends with and to. *)
CausalArgs(q, k, v, i) == <<q[i]>> \o [j \in 1..i |-> k[j]] \o [j \in 1..i |-> v[j]]

(* Its attention raises when one of these did. *)
LEMMA CausalRow ==
  ASSUME NEW q, NEW k, NEW v, NEW i \in Nat \ {0}
  PROVE  Op(<<"attention">>, CausalArgs(q, k, v, i)) =
            IF q[i] = Raise \/ \E j \in 1..i : k[j] = Raise \/ v[j] = Raise THEN Raise
            ELSE Term(<<"attention">>, CausalArgs(q, k, v, i))
<1> DEFINE h == <<q[i]>>
           s == [j \in 1..i |-> k[j]]
           t == [j \in 1..i |-> v[j]]
           hs == h \o s
           args == hs \o t
<1>1. IsRows(h, 1) /\ IsRows(s, i) /\ IsRows(t, i) /\ h[1] = q[i]
      /\ \A j \in 1..i : s[j] = k[j] /\ t[j] = v[j]
  <2>1. h = [j \in 1..1 |-> h[j]]
    OBVIOUS
  <2> QED BY <2>1 DEF IsRows
<1> HIDE DEF h, s, t
<1>2. Joined(hs, h, 1, s, i)
  BY <1>1, CatRows
<1>3. IsRows(hs, 1 + i)
  BY <1>2 DEF Joined
<1> HIDE DEF hs
<1>4. Joined(args, hs, 1 + i, t, i)
  BY <1>1, <1>3, CatRows
<1> HIDE DEF args
<1>5. DOMAIN args = 1..((1 + i) + i)
  BY <1>4, RowsLen DEF Joined
<1>6. args[1] = q[i] /\ \A j \in 1..i : args[1 + j] = k[j] /\ args[(1 + i) + j] = v[j]
  BY <1>1, <1>2, <1>4 DEF Joined
<1>7. CASE q[i] = Raise \/ \E j \in 1..i : k[j] = Raise \/ v[j] = Raise
  <2>1. \E a \in DOMAIN args : args[a] = Raise
    <3>1. CASE q[i] = Raise
      BY <1>5, <1>6, <3>1
    <3>2. CASE \E j \in 1..i : k[j] = Raise \/ v[j] = Raise
      <4>1. PICK j \in 1..i : k[j] = Raise \/ v[j] = Raise
        BY <3>2
      <4>2. 1 + j \in DOMAIN args /\ (1 + i) + j \in DOMAIN args
        BY <1>5
      <4> QED BY <1>6, <4>1, <4>2
    <3> QED BY <1>7, <3>1, <3>2
  <2> QED BY <1>7, <2>1 DEF Op, CausalArgs, args, hs, h, s, t
<1>8. CASE ~(q[i] = Raise \/ \E j \in 1..i : k[j] = Raise \/ v[j] = Raise)
  <2>1. ASSUME NEW a \in DOMAIN args
        PROVE  args[a] # Raise
    <3>1. a = 1 \/ (a - 1 \in 1..i /\ 1 + (a - 1) = a) \/ (a - (1 + i) \in 1..i /\ (1 + i) + (a - (1 + i)) = a)
      BY <1>5
    <3>2. CASE a = 1
      BY <1>6, <1>8, <3>2
    <3>3. CASE a - 1 \in 1..i /\ 1 + (a - 1) = a
      <4>1. args[1 + (a - 1)] = k[a - 1]
        BY <1>6, <3>3
      <4> QED BY <1>8, <3>3, <4>1
    <3>4. CASE a - (1 + i) \in 1..i /\ (1 + i) + (a - (1 + i)) = a
      <4>1. args[(1 + i) + (a - (1 + i))] = v[a - (1 + i)]
        BY <1>6, <3>4
      <4> QED BY <1>8, <3>4, <4>1
    <3> QED BY <3>1, <3>2, <3>3, <3>4
  <2> QED BY <1>8, <2>1 DEF Op, Term, CausalArgs, args, hs, h, s, t
<1> QED BY <1>7, <1>8

(* CausalAttention gives each row that. *)
LEMMA CausalIs ==
  ASSUME NEW m, NEW q, NEW k, NEW v, DOMAIN q = 1..m, IsRows(k, m), IsRows(v, m)
  PROVE  CausalAttention(q, k, v) = [i \in 1..m |-> Op(<<"attention">>, CausalArgs(q, k, v, i))]
<1>1. ASSUME NEW i \in 1..m
      PROVE  SubSeq(k, 1, i) = [j \in 1..i |-> k[j]] /\ SubSeq(v, 1, i) = [j \in 1..i |-> v[j]]
  <2>1. i \in 0..m
    BY DEF IsRows
  <2> QED BY <2>1, PrefixRows
<1> QED BY <1>1 DEF CausalAttention, CausalArgs

(* The keys and values of all rows of a prompt, and what attends to them. *)
KeyRows(y, l, r) == [i \in DOMAIN y |-> AtPosition(QkvPart(y[i], l, "k"), i, r)]

(* ... their values, *)
ValueRows(y, l) == [i \in DOMAIN y |-> QkvPart(y[i], l, "v")]

(* their queries, *)
QueryRows(y, l, r) == [i \in DOMAIN y |-> AtPosition(QkvPart(y[i], l, "q"), i, r)]

(* the attention of all rows *)
AttendedRows(y, l, r) == [i \in DOMAIN y |-> Attended(y, l, r, i)]

(* and the layer over all rows. *)
LayeredRows(y, l, r) == [i \in DOMAIN y |-> Layered(y, l, r, i)]

(* The three parts of a prompt. *)
PromptYields(parts, y, l, r, ok) ==
    /\ Yields(parts.q, QueryRows(y, l, r), ok) /\ Yields(parts.k, KeyRows(y, l, r), ok)
    /\ Yields(parts.v, ValueRows(y, l), ok)

(* Attending over them all at once is what attending one after the other
   would give. *)
LEMMA CausalYields ==
  ASSUME NEW m \in Nat \ {0}, NEW y, DOMAIN y = 1..m, NEW l, NEW r, NEW ok, NEW parts, PromptYields(parts, y, l, r, ok)
  PROVE  LET attn == CausalAttention(parts.q, parts.k, parts.v)
         IN  \/ ~ok /\ attn = Raises(1..m)
             \/ /\ attn = AttendedRows(y, l, r)
                /\ parts.k = KeyRows(y, l, r) /\ parts.v = ValueRows(y, l)
<1> DEFINE q == parts.q
           k == parts.k
           v == parts.v
           eq == QueryRows(y, l, r)
           ek == KeyRows(y, l, r)
           ev == ValueRows(y, l)
           attn == CausalAttention(q, k, v)
<1>1. DOMAIN eq = 1..m /\ DOMAIN ek = 1..m /\ DOMAIN ev = 1..m
  BY DEF QueryRows, KeyRows, ValueRows
<1>2. Yields(q, eq, ok) /\ Yields(k, ek, ok) /\ Yields(v, ev, ok)
  BY DEF PromptYields
<1>3. \A i \in 1..m : Proper(eq[i]) /\ Proper(ek[i]) /\ Proper(ev[i])
  BY ProperParts DEF QueryRows, KeyRows, ValueRows
<1>4. \A i \in 1..m : CausalArgs(eq, ek, ev, i)
         = <<AtPosition(QkvPart(y[i], l, "q"), i, r)>> \o [j \in 1..i |-> AtPosition(QkvPart(y[j], l, "k"), j, r)]
           \o [j \in 1..i |-> QkvPart(y[j], l, "v")]
  <2> TAKE i \in 1..m
  <2>1. \A j \in 1..i : j \in 1..m
    OBVIOUS
  <2>2. /\ [j \in 1..i |-> ek[j]] = [j \in 1..i |-> AtPosition(QkvPart(y[j], l, "k"), j, r)]
        /\ [j \in 1..i |-> ev[j]] = [j \in 1..i |-> QkvPart(y[j], l, "v")]
        /\ eq[i] = AtPosition(QkvPart(y[i], l, "q"), i, r)
    BY <2>1 DEF QueryRows, KeyRows, ValueRows
  <2> HIDE DEF eq, ek, ev
  <2> QED BY <2>2 DEF CausalArgs
<1> HIDE DEF q, k, v, eq, ek, ev
<1>5. attn = [i \in 1..m |-> Op(<<"attention">>, CausalArgs(q, k, v, i))]
  <2>1. DOMAIN q = 1..m /\ IsRows(k, m) /\ IsRows(v, m)
    BY <1>1, <1>2 DEF Yields, IsRows
  <2> QED BY <2>1, CausalIs
<1> HIDE DEF attn
<1>6. ASSUME q = eq, k = ek, v = ev
      PROVE  attn = AttendedRows(y, l, r)
  <2>1. ASSUME NEW i \in 1..m
        PROVE  Op(<<"attention">>, CausalArgs(q, k, v, i)) = Attended(y, l, r, i)
    <3>1. ~(q[i] = Raise \/ \E j \in 1..i : k[j] = Raise \/ v[j] = Raise)
      <4>1. \A j \in 1..i : j \in 1..m
        OBVIOUS
      <4> QED BY <1>3, <1>6, <4>1 DEF Proper
    <3>2. Op(<<"attention">>, CausalArgs(q, k, v, i)) = Term(<<"attention">>, CausalArgs(q, k, v, i))
      BY <3>1, CausalRow
    <3> QED BY <1>4, <1>6, <3>2 DEF Attended
  <2> QED BY <1>5, <2>1 DEF AttendedRows
<1>7. ASSUME ~(q = eq /\ k = ek /\ v = ev)
      PROVE  ~ok /\ attn = Raises(1..m)
  <2>1. ~ok /\ \A i \in 1..m : q[i] = Raise \/ k[1] = Raise \/ v[1] = Raise
    <3>1. 1 \in 1..m
      OBVIOUS
    <3> QED BY <1>1, <1>2, <1>7, <3>1 DEF Yields
  <2>2. ASSUME NEW i \in 1..m
        PROVE  Op(<<"attention">>, CausalArgs(q, k, v, i)) = Raise
    <3>1. 1 \in 1..i
      OBVIOUS
    <3> QED BY <2>1, <3>1, CausalRow
  <2> QED BY <1>5, <2>1, <2>2 DEF Raises
<1> QED BY <1>6, <1>7 DEF q, k, v, ek, ev, attn

(* The fused projection of a prompt. *)
QkvRows(y, l) == LinearRows(NormedRows(y, Norm(l, "input_layernorm")), l, "qkv")

(* Its rows. *)
LEMMA QkvRowsAre ==
  ASSUME NEW y, NEW l
  PROVE  /\ Clean(QkvRows(y, l)) /\ DOMAIN QkvRows(y, l) = DOMAIN y
         /\ \A i \in DOMAIN y : QkvRows(y, l)[i] = Linear(Normed(y[i], Norm(l, "input_layernorm")), l, "qkv")
<1> DEFINE e == NormedRows(y, Norm(l, "input_layernorm"))
<1>1. DOMAIN e = DOMAIN y /\ \A i \in DOMAIN y : e[i] = Normed(y[i], Norm(l, "input_layernorm"))
  BY DEF NormedRows
<1>2. Clean(LinearRows(e, l, "qkv")) /\ DOMAIN LinearRows(e, l, "qkv") = DOMAIN e
  BY LinearRowsClean
<1> QED BY <1>1, <1>2 DEF QkvRows, LinearRows

(* Its parts, rotated from position 0 on, are those of the specification. *)
LEMMA PromptParts ==
  ASSUME NEW m \in Nat, NEW y, DOMAIN y = 1..m, NEW l, NEW r, \A i \in 1..m : r[i], NEW ok, NEW parts,
         PartsYield(parts, QkvRows(y, l), 0, ok)
  PROVE  PromptYields(parts, y, l, r, ok)
<1> DEFINE e == QkvRows(y, l)
<1>1. DOMAIN e = 1..m /\ \A i \in 1..m : e[i] = Linear(Normed(y[i], Norm(l, "input_layernorm")), l, "qkv")
  BY QkvRowsAre
<1> HIDE DEF e
<1>2. ASSUME NEW name
      PROVE  /\ DOMAIN PartRows(e, name) = 1..m
             /\ \A i \in 1..m : PartRows(e, name)[i] = QkvPart(y[i], l, name)
  BY <1>1 DEF PartRows, QkvPart
<1>3. ASSUME NEW name
      PROVE  RotatedRows(PartRows(e, name), 0) = [i \in 1..m |-> AtPosition(QkvPart(y[i], l, name), i, r)]
  <2>1. \A i \in 1..m : 0 + i - 1 = i - 1
    OBVIOUS
  <2> QED BY <1>2, <2>1 DEF RotatedRows, AtPosition
<1>4. PartRows(e, "v") = ValueRows(y, l)
  <2>1. PartRows(e, "v") = [i \in 1..m |-> PartRows(e, "v")[i]]
    BY <1>1 DEF PartRows
  <2> QED BY <1>2, <2>1 DEF ValueRows
<1> QED BY <1>3, <1>4 DEF PromptYields, PartsYield, QueryRows, KeyRows, e

(* A cache filled with the prompt's rows from position 0 on, perhaps made longer by them. *)
CacheFilled(cache, c, n, y, l, r, m) ==
    \E n2 \in Nat : n2 >= n /\ n2 >= m /\ IsCache(cache, n2) /\ cache.table = c.table /\ InCache(cache, y, l, r, m)

(* A cache whose first m places are the prompt's keys and values holds the
   prompt. *)
LEMMA FilledRows ==
  ASSUME NEW c, NEW n, IsCache(c, n), c.table = <<>>, NEW m \in Nat \ {0}, NEW y, DOMAIN y = 1..m, NEW l, NEW r,
         NEW n2 \in Nat, n2 >= n, n2 >= m, n2 <= RopeRows, NEW cache, cache = [K |-> cache.K, V |-> cache.V, table |-> c.table],
         IsMem(cache.K, n2), IsMem(cache.V, n2),
         \A e \in 0..(m - 1) : cache.K[e] = KeyRows(y, l, r)[e + 1] /\ cache.V[e] = ValueRows(y, l)[e + 1]
  PROVE  CacheFilled(cache, c, n, y, l, r, m)
<1>1. IsCache(cache, n2) /\ cache.table = c.table
  BY DEF IsCache
<1>2. InCache(cache, y, l, r, m)
  <2>1. ASSUME NEW e \in 0..(m - 1)
        PROVE  cache.K[e] = AtPosition(QkvPart(y[e + 1], l, "k"), e + 1, r) /\ cache.V[e] = QkvPart(y[e + 1], l, "v")
    <3>1. e + 1 \in 1..m
      OBVIOUS
    <3> QED BY <3>1 DEF KeyRows, ValueRows
  <2> QED BY <2>1 DEF InCache
<1> QED BY <1>1, <1>2 DEF CacheFilled

(* _contiguous_cache_update leaves the prompt's keys and values in the cache,
   which it may make longer. *)
LEMMA MlxFilled ==
  ASSUME NEW c, NEW n, IsCache(c, n), c.table = <<>>, NEW m \in Nat \ {0}, m <= RopeRows, NEW y, DOMAIN y = 1..m, NEW l, NEW r
  PROVE  CacheFilled(_contiguous_cache_update_mlx(c, KeyRows(y, l, r), ValueRows(y, l)), c, n, y, l, r, m)
<1> DEFINE k == KeyRows(y, l, r)
           v == ValueRows(y, l)
           n2 == IF m > n THEN m ELSE n
           over(rows, mem) == [e \in 0..(n2 - 1) |-> IF e < m THEN rows[e + 1] ELSE mem[e]]
           cache == _contiguous_cache_update_mlx(c, k, v)
<1>1. Slots(c) = n /\ n \in Nat \ {0}
  BY CacheSlots
<1>2. Len(k) = m /\ Len(v) = m
  <2>1. IsRows(k, m) /\ IsRows(v, m)
    BY DEF IsRows, KeyRows, ValueRows
  <2> QED BY <2>1, RowsLen
<1> HIDE DEF k, v
<1>3. cache = [c EXCEPT !.K = over(k, c.K), !.V = over(v, c.V)]
  BY <1>1, <1>2 DEF _contiguous_cache_update_mlx
<1>0. n <= RopeRows
  BY TablesReach
<1>4. n2 \in Nat /\ n2 >= n /\ n2 >= m /\ n2 # 0 /\ n2 <= RopeRows
  BY <1>0, <1>1
<1>5. cache = [K |-> over(k, c.K), V |-> over(v, c.V), table |-> c.table]
  <2> HIDE DEF over, cache
  <2> QED BY <1>3 DEF IsCache
<1> HIDE DEF cache
<1>6. IsMem(over(k, c.K), n2) /\ IsMem(over(v, c.V), n2)
  BY <1>4 DEF IsMem
<1>7. \A e \in 0..(m - 1) : over(k, c.K)[e] = k[e + 1] /\ over(v, c.V)[e] = v[e + 1]
  <2>1. \A e \in 0..(m - 1) : e \in 0..(n2 - 1) /\ e < m
    BY <1>4
  <2> HIDE DEF n2
  <2> QED BY <2>1
<1> HIDE DEF over, n2
<1>8. CacheFilled(cache, c, n, y, l, r, m)
  BY <1>4, <1>5, <1>6, <1>7, FilledRows DEF k, v
<1> QED BY <1>8 DEF cache, k, v

(* The numpy update; x stands for the prompt's m rows. *)
LEMMA NumpyFilled ==
  ASSUME NEW c, NEW n, IsCache(c, n), c.table = <<>>, NEW m \in 1..n, NEW k, IsRows(k, m), NEW v, IsRows(v, m)
  PROVE  LET new == _contiguous_cache_update_numpy(c, k, v)
         IN  /\ [i \in 1..m |-> new.K[i - 1]] = k /\ [i \in 1..m |-> new.V[i - 1]] = v
             /\ \A y, l, r : DOMAIN y = 1..m /\ k = KeyRows(y, l, r) /\ v = ValueRows(y, l)
                                => CacheFilled(new, c, n, y, l, r, m)
<1> DEFINE over(rows, mem) == [e \in 0..(n - 1) |-> IF e < m THEN rows[e + 1] ELSE mem[e]]
           new == _contiguous_cache_update_numpy(c, k, v)
<1>1. DOMAIN c.K = 0..(n - 1) /\ DOMAIN c.V = 0..(n - 1) /\ n \in Nat \ {0} /\ m \in Nat \ {0}
  BY CacheSlots DEF IsCache, IsMem
<1>2. Len(k) = m /\ Len(v) = m
  BY RowsLen
<1>3. new = [c EXCEPT !.K = over(k, c.K), !.V = over(v, c.V)]
  BY <1>1, <1>2 DEF _contiguous_cache_update_numpy
<1>5. new = [K |-> over(k, c.K), V |-> over(v, c.V), table |-> c.table]
  <2> HIDE DEF over, new
  <2> QED BY <1>3 DEF IsCache
<1> HIDE DEF new
<1>6. IsMem(over(k, c.K), n) /\ IsMem(over(v, c.V), n)
  BY <1>1 DEF IsMem
<1>7. \A e \in 0..(m - 1) : over(k, c.K)[e] = k[e + 1] /\ over(v, c.V)[e] = v[e + 1]
  <2>1. \A e \in 0..(m - 1) : e \in 0..(n - 1) /\ e < m
    BY <1>1
  <2> QED BY <2>1
<1> HIDE DEF over
<1>8. /\ [i \in 1..m |-> new.K[i - 1]] = k /\ [i \in 1..m |-> new.V[i - 1]] = v
  <2>1. \A i \in 1..m : i - 1 \in 0..(m - 1) /\ i - 1 + 1 = i
    BY <1>1
  <2>2. \A i \in 1..m : new.K[i - 1] = k[i] /\ new.V[i - 1] = v[i]
    BY <1>5, <1>7, <2>1
  <2> QED BY <2>2 DEF IsRows
<1>9. ASSUME NEW y, NEW l, NEW r, DOMAIN y = 1..m, k = KeyRows(y, l, r), v = ValueRows(y, l)
      PROVE  CacheFilled(new, c, n, y, l, r, m)
  <2>1. n >= n /\ n >= m /\ n <= RopeRows
    BY <1>1, TablesReach
  <2>2. /\ new.K = over(k, c.K) /\ new.V = over(v, c.V) /\ new = [K |-> new.K, V |-> new.V, table |-> c.table]
    BY <1>5
  <2> QED BY <1>1, <1>6, <1>7, <1>9, <2>1, <2>2, FilledRows
<1> QED BY <1>8, <1>9 DEF new

(* Rows that all raised, raised. *)
LEMMA RaisedRows ==
  ASSUME NEW m \in Nat \ {0}
  PROVE  Raised(Raises(1..m)) /\ Raised(<<Raise>>)
<1>1. 1 \in 1..m /\ DOMAIN Raises(1..m) = 1..m /\ Raises(1..m)[1] = Raise
  BY DEF Raises
<1>2. 1 \in DOMAIN <<Raise>> /\ <<Raise>>[1] = Raise
  OBVIOUS
<1> QED BY <1>1, <1>2 DEF Raised

(* A call on rows that may have raised. *)
LEMMA YieldsOr ==
  ASSUME NEW s, NEW e, NEW ok, Yields(s, e, ok)
  PROVE  s = e \/ (~ok /\ s = Raises(DOMAIN e))
  BY DEF Yields, Raises

(* The layer over all rows, operation by operation. *)
LEMMA LayeredRowsAre ==
  ASSUME NEW y, NEW l, NEW r, Clean(y)
  PROVE  LET o == LinearRows(AttendedRows(y, l, r), l, "o")
         IN  /\ Clean(AttendedRows(y, l, r)) /\ DOMAIN AttendedRows(y, l, r) = DOMAIN y
             /\ Clean(o) /\ DOMAIN o = DOMAIN y /\ Clean(SumRows(y, o)) /\ DOMAIN SumRows(y, o) = DOMAIN y
             /\ FedRows(SumRows(y, o), l) = LayeredRows(y, l, r)
<1> DEFINE a == AttendedRows(y, l, r)
           o == LinearRows(a, l, "o")
           h == SumRows(y, o)
<1>1. DOMAIN a = DOMAIN y /\ Clean(a) /\ \A i \in DOMAIN y : a[i] = Attended(y, l, r, i)
  BY ProperParts DEF AttendedRows, Clean
<1> HIDE DEF a
<1>2. Clean(o) /\ DOMAIN o = DOMAIN y /\ \A i \in DOMAIN y : o[i] = Projection(y, l, r, i)
  BY <1>1, LinearRowsClean DEF LinearRows, Projection
<1> HIDE DEF o
<1>3. DOMAIN h = DOMAIN y /\ \A i \in DOMAIN y : h[i] = Sum(y[i], Projection(y, l, r, i))
  BY <1>2 DEF SumRows
<1>4. Clean(h)
  BY <1>2, CleanRows
<1> HIDE DEF h
<1>5. FedRows(h, l) = LayeredRows(y, l, r)
  BY <1>3 DEF FedRows, LayeredRows, Layered
<1> QED BY <1>1, <1>2, <1>3, <1>4, <1>5 DEF h, o, a

(* A prefill of a layer raised, or gives all rows and leaves the cache
   holding them. *)
Prefilled(block, c, n, y, l, r, m, ok) ==
    \/ ~ok /\ Raised(block.out)
    \/ block.out = LayeredRows(y, l, r) /\ CacheFilled(block.cache, c, n, y, l, r, m)
(* The prompt y, all of it rotated, and a contiguous cache for it. *)
Prompt(c, n, y, l, r, m) ==
    /\ IsCache(c, n) /\ c.table = <<>> /\ m \in Nat \ {0} /\ IsRows(y, m) /\ Clean(y) /\ l \in 1..Layers
    /\ \A i \in 1..m : r[i]

(* A prefill the functions of the layer accept. *)
PrefillFits(b, m, start_position, call) ==
    /\ HalfPrecision(call) /\ start_position = 0 /\ m <= RopeRows
    /\ LayerFits(b) /\ b.out_matvec \in MatvecNames
    /\ b.attention \in {"reference", "metal_gqa", "metal_gqa_threadgroup"}

(* A layer's feed-forward half of what raised raises. *)
LEMMA LayerMlpRaises ==
  ASSUME NEW D, NEW l, NEW b, NEW call
  PROVE  LayerMlp(Raises(D), l, b, call) = Raises(D)
  BY MlpRaises DEF LayerMlp, reference_quantized_mlp_block

(* The query, key and value of a prefill. *)
LEMMA PromptPartsYield ==
  ASSUME NEW c, NEW n, NEW y, NEW l, NEW r, NEW m, Prompt(c, n, y, l, r, m), NEW b, NEW call, NEW ok,
         ok => PrefillFits(b, m, 0, call)
  PROVE  PromptYields(PrefillParts(InputNorm(y, l, b, call), l, b, 0, call), y, l, r, ok)
<1> DEFINE xn == InputNorm(y, l, b, call)
           e == NormedRows(y, Norm(l, "input_layernorm"))
           qkv == quantized_linear(xn, W(l, "qkv"), Bits[l], b.qkv_matvec, call)
           f == QkvRows(y, l)
           parts == PrefillParts(xn, l, b, 0, call)
<1>0. /\ m \in Nat \ {0} /\ DOMAIN y = 1..m /\ Clean(y) /\ l \in 1..Layers /\ \A i \in 1..m : r[i]
      /\ ok => HalfPrecision(call) /\ m <= RopeRows /\ LayerFits(b)
  BY DEF Prompt, IsRows, PrefillFits
<1>1. Yields(y, y, ok)
  BY DEF Yields, Prompt, IsRows
<1>2. Yields(xn, e, ok) /\ Clean(e)
  BY <1>0, <1>1, NormYields, CleanRows DEF InputNorm, LayerFits, Accepts
<1> HIDE DEF xn, e
<1>3. Yields(qkv, f, ok)
  <2>1. Yields(qkv, LinearRows(e, l, "qkv"), ok)
    BY <1>0, <1>2, LinearYields DEF LayerFits
  <2> QED BY <2>1 DEF QkvRows, e
<1>4. Clean(f) /\ DOMAIN f = 1..m
  BY <1>0, QkvRowsAre
<1> HIDE DEF qkv
<1>5. PartsYield(parts, f, 0, ok)
  <2> HIDE DEF f
  <2>1. ok => HalfPrecision(call) /\ 0 + m <= RopeRows
    BY <1>0
  <2>2. PartsYield(reference_gqa_qkv_split_rope(qkv, 0, call), f, 0, ok)
    BY <1>0, <1>3, <1>4, <2>1, SplitYields
  <2> QED BY <2>2 DEF PrefillParts, qkv
<1> HIDE DEF parts
<1>6. PromptYields(parts, y, l, r, ok)
  BY <1>0, <1>5, PromptParts
<1> QED BY <1>6 DEF parts, xn

(* A prompt that was rotated is no longer than the tables. *)
LEMMA PromptReach ==
  ASSUME NEW x, NEW l, NEW b, NEW call, NEW m \in Nat \ {0}, NEW y, DOMAIN y = 1..m, NEW r,
         LET k == PrefillParts(x, l, b, 0, call).k IN k = KeyRows(y, l, r)
  PROVE  m <= RopeRows
<1> DEFINE k == PrefillParts(x, l, b, 0, call).k
           qkv == quantized_linear(x, W(l, "qkv"), Bits[l], b.qkv_matvec, call)
           keys == Part(qkv, "k")
<1>1. k = reference_apply_rope(keys, 0, call)
  BY DEF PrefillParts, reference_gqa_qkv_split_rope, reference_gqa_qkv_split, Rotated, Parts
<1>2. DOMAIN k = 1..m /\ Proper(k[1]) /\ 1 \in 1..m
  BY ProperParts DEF KeyRows
<1>0. keys = [i \in DOMAIN keys |-> keys[i]]
  BY DEF Part, Each
<1> HIDE DEF k, keys
<1>3. DOMAIN k = DOMAIN keys
  BY <1>1 DEF reference_apply_rope, Guarded, Each
<1>4. Len(keys) = m
  <2>1. IsRows(keys, m)
    BY <1>0, <1>2, <1>3 DEF IsRows
  <2> QED BY <2>1, RowsLen
<1>5. 0 + Len(keys) <= RopeRows
  <2>1. ~(0 + Len(keys) <= RopeRows) => k[1] = Raise
    BY <1>1, <1>2, <1>3 DEF reference_apply_rope, Guarded, Each
  <2> QED BY <1>2, <2>1 DEF Proper
<1> QED BY <1>4, <1>5

(* llama_layer_prefill gives the layer over the prompt and fills the cache. *)
LEMMA LayerPrefilled ==
  ASSUME NEW c, NEW n, NEW y, NEW l, NEW r, NEW m, Prompt(c, n, y, l, r, m), NEW b, NEW start_position \in Nat, NEW call, NEW ok,
         ok => PrefillFits(b, m, start_position, call)
  PROVE  Prefilled(llama_layer_prefill(y, l, c, b, start_position, call), c, n, y, l, r, m, ok)
<1> DEFINE parts == PrefillParts(InputNorm(y, l, b, call), l, b, 0, call)
           causal == CausalAttention(parts.q, parts.k, parts.v)
           attn == gqa_attention(parts.q, parts.k, parts.v, b.attention)
           o == quantized_linear(attn, W(l, "o"), Bits[l], b.out_matvec, call)
           h == reference_residual_add(y, o)
           result == LayerMlp(h, l, b, call)
           cache == _contiguous_cache_update_mlx(c, parts.k, parts.v)
           layer == llama_layer_prefill(y, l, c, b, start_position, call)
           a == AttendedRows(y, l, r)
           eo == LinearRows(a, l, "o")
           eh == SumRows(y, eo)
<1>0. /\ m \in Nat \ {0} /\ DOMAIN y = 1..m /\ Clean(y) /\ l \in 1..Layers /\ IsCache(c, n) /\ c.table = <<>>
      /\ y = [i \in DOMAIN y |-> y[i]]
  BY DEF Prompt, IsRows
<1>1. CASE start_position > 0
  <2>1. ~ok /\ layer.out = <<Raise>>
    BY <1>1 DEF PrefillFits, llama_layer_prefill, Failed, Block
  <2> HIDE DEF layer
  <2>2. Prefilled(layer, c, n, y, l, r, m, ok)
    BY <1>0, <2>1, RaisedRows DEF Prefilled
  <2> QED BY <2>2 DEF layer
<1>2. CASE start_position = 0
  <2>1. layer.out = result /\ layer.cache = cache
    BY <1>2 DEF llama_layer_prefill, PrefillOutput, PrefillResidual, Block
  <2>2. PromptYields(parts, y, l, r, ok)
    BY <1>2, PromptPartsYield
  <2> HIDE DEF parts, layer
  <2>3. \/ ~ok /\ causal = Raises(1..m)
        \/ causal = a /\ parts.k = KeyRows(y, l, r) /\ parts.v = ValueRows(y, l)
    BY <1>0, <2>2, CausalYields
  <2>4. attn = causal \/ (~ok /\ attn = Guarded(FALSE, causal))
    BY <1>2 DEF gqa_attention, reference_gqa_attention, PrefillFits, Guarded
  <2> HIDE DEF causal, attn, cache
  <2>5. CASE attn = Raises(1..m) /\ ~ok
    <3>1. o = Raises(1..m)
      BY <1>0, <2>5, LinearRaises
    <3>2. h = Raises(1..m)
      <4> HIDE DEF o
      <4> QED BY <1>0, <3>1, AddRaises
    <3>3. result = Raises(1..m)
      BY <3>2, LayerMlpRaises
    <3> HIDE DEF result
    <3> QED BY <1>0, <2>1, <2>5, <3>3, RaisedRows DEF Prefilled, layer
  <2>6. CASE ~(attn = Raises(1..m) /\ ~ok)
    <3>0. Guarded(FALSE, Raises(1..m)) = Raises(1..m) /\ (DOMAIN causal = 1..m => Guarded(FALSE, causal) = Raises(1..m))
      BY DEF Guarded, Each, Raises
    <3>1. causal = a /\ parts.k = KeyRows(y, l, r) /\ parts.v = ValueRows(y, l) /\ attn = a
      <4>1. DOMAIN a = 1..m
        BY <1>0 DEF AttendedRows
      <4> HIDE DEF a
      <4> QED BY <2>3, <2>4, <2>6, <3>0, <4>1
    <3>2. CacheFilled(cache, c, n, y, l, r, m)
      <4>1. m <= RopeRows
        BY <1>0, <3>1, PromptReach DEF parts
      <4> QED BY <1>0, <3>1, <4>1, MlxFilled DEF cache
    <3>3. /\ Clean(a) /\ DOMAIN a = DOMAIN y /\ Clean(eo) /\ DOMAIN eo = DOMAIN y /\ Clean(eh) /\ DOMAIN eh = DOMAIN y
          /\ FedRows(eh, l) = LayeredRows(y, l, r)
      BY <1>0, LayeredRowsAre
    <3>4. Yields(attn, a, ok) /\ Yields(y, y, ok)
      BY <1>0, <3>1 DEF Yields, AttendedRows
    <3> HIDE DEF a
    <3>5. Yields(o, eo, ok)
      <4>1. ok => b.out_matvec \in MatvecNames /\ HalfPrecision(call)
        BY DEF PrefillFits
      <4> QED BY <1>0, <3>3, <3>4, <4>1, LinearYields
    <3> HIDE DEF o, eo
    <3>6. Yields(h, eh, ok)
      BY <1>0, <3>3, <3>4, <3>5, SumYields
    <3> HIDE DEF h, eh
    <3>7. Yields(result, FedRows(eh, l), ok)
      <4>1. ok => MlpFits(_resolve_mlp_backends(b.mlp)) /\ HalfPrecision(call)
        BY DEF PrefillFits, LayerFits, MlpFits, _resolve_mlp_backends, MlpBackends, MatvecNames, MatvecBackends
      <4>2. result = quantized_mlp_block(h, _zero_like_hidden(h), Norm(l, "post_attention_layernorm"),
                                      Weights(l), Bits[l], _resolve_mlp_backends(b.mlp), call)
        BY DEF LayerMlp, reference_quantized_mlp_block
      <4> QED BY <1>0, <3>3, <3>6, <4>1, <4>2, MlpYields
    <3> HIDE DEF result, cache
    <3>8. result = LayeredRows(y, l, r) \/ (~ok /\ result = Raises(1..m))
      <4>1. DOMAIN FedRows(eh, l) = 1..m
        BY <1>0, <3>3 DEF LayeredRows
      <4> QED BY <3>3, <3>7, <4>1, YieldsOr
    <3> QED BY <1>0, <2>1, <3>2, <3>8, RaisedRows DEF Prefilled, layer
  <2> QED BY <2>5, <2>6
<1> QED BY <1>1, <1>2

(* The numpy path has no dtype of its own: its rotation is that of a half-
   precision call. *)
HalfCall == [dtype |-> "float16"]

(* _apply_rope_numpy rotates from position 0. *)
LEMMA NumpyRope ==
  ASSUME NEW m \in Nat, NEW x, IsRows(x, m), NEW call
  PROVE  _apply_rope_numpy(x, call) = reference_apply_rope(x, 0, HalfCall)
<1>1. DOMAIN x = 1..m /\ Len(x) = m
  BY RowsLen
<1>2. 0 + m = m /\ m \in Int /\ HalfPrecision(HalfCall)
  BY DEF HalfPrecision, HalfCall
<1>3. [i \in DOMAIN x |-> Op(<<"rope", i - 1>>, <<x[i]>>)] = [i \in DOMAIN x |-> Op(<<"rope", 0 + i - 1>>, <<x[i]>>)]
  <2>1. \A i \in DOMAIN x : i - 1 = 0 + i - 1
    BY <1>1
  <2> QED BY <2>1
<1> DEFINE A == [i \in DOMAIN x |-> Op(<<"rope", i - 1>>, <<x[i]>>)]
           C == [i \in DOMAIN x |-> Op(<<"rope", 0 + i - 1>>, <<x[i]>>)]
<1>4. _apply_rope_numpy(x, call) = Guarded(m <= RopeRows, A)
  BY <1>1 DEF _apply_rope_numpy
<1>5. reference_apply_rope(x, 0, HalfCall) = Guarded(HalfPrecision(HalfCall) /\ 0 + m <= RopeRows, C)
  BY <1>1 DEF reference_apply_rope
<1>6. A = C
  BY <1>3
<1> HIDE DEF A, C
<1>7. (HalfPrecision(HalfCall) /\ 0 + m <= RopeRows) <=> m <= RopeRows
  BY <1>2
<1> QED BY <1>4, <1>5, <1>6, <1>7 DEF Guarded

(* The numpy split is the reference's. *)
LEMMA NumpySplit ==
  ASSUME NEW m \in Nat, NEW qkv, DOMAIN qkv = 1..m, NEW call
  PROVE  _numpy_qkv_split_rope(qkv, call) = reference_gqa_qkv_split_rope(qkv, 0, HalfCall)
<1>1. ASSUME NEW name
      PROVE  _apply_rope_numpy(Part(qkv, name), call) = reference_apply_rope(Part(qkv, name), 0, HalfCall)
  <2>1. IsRows(Part(qkv, name), m)
    BY DEF IsRows, Part, Each
  <2> QED BY <2>1, NumpyRope
<1> QED BY <1>1 DEF _numpy_qkv_split_rope, reference_gqa_qkv_split_rope, reference_gqa_qkv_split, Rotated, Parts

(* So its parts are those of the specification. *)
LEMMA NumpyPartsYield ==
  ASSUME NEW c, NEW n, NEW y, NEW l, NEW r, NEW m, Prompt(c, n, y, l, r, m), NEW call, NEW ok, ok => m <= RopeRows
  PROVE  PromptYields(_numpy_qkv_split_rope(NumpyQkv(y, l), call), y, l, r, ok)
<1> DEFINE xn == reference_rms_norm(y, Norm(l, "input_layernorm"))
           e == NormedRows(y, Norm(l, "input_layernorm"))
           qkv == NumpyLinear(xn, l, "qkv")
           f == QkvRows(y, l)
           parts == _numpy_qkv_split_rope(qkv, call)
<1>0. m \in Nat \ {0} /\ m \in Nat /\ DOMAIN y = 1..m /\ Clean(y) /\ \A i \in 1..m : r[i]
  BY DEF Prompt, IsRows
<1>1. Yields(y, y, ok)
  BY DEF Yields, Prompt, IsRows
<1>2. Yields(xn, e, ok) /\ Clean(e) /\ DOMAIN e = 1..m
  BY <1>0, <1>1, NormYields, CleanRows
<1> HIDE DEF xn, e
<1>3. Yields(qkv, LinearRows(e, l, "qkv"), ok)
  BY <1>2, PlainLinear
<1>4. Yields(qkv, f, ok) /\ Clean(f) /\ DOMAIN f = 1..m
  BY <1>0, <1>3, QkvRowsAre DEF QkvRows, e
<1> HIDE DEF qkv, f
<1>5. DOMAIN qkv = 1..m
  BY <1>4 DEF Yields
<1>6. parts = reference_gqa_qkv_split_rope(qkv, 0, HalfCall)
  BY <1>0, <1>5, NumpySplit
<1>7. PartsYield(parts, f, 0, ok)
  <2>1. ok => HalfPrecision(HalfCall) /\ 0 + m <= RopeRows
    BY <1>0 DEF HalfPrecision, HalfCall
  <2>2. PartsYield(reference_gqa_qkv_split_rope(qkv, 0, HalfCall), f, 0, ok)
    BY <1>0, <1>4, <2>1, SplitYields
  <2> QED BY <1>6, <2>2
<1> HIDE DEF parts
<1>8. PromptYields(parts, y, l, r, ok)
  BY <1>0, <1>7, PromptParts DEF f
<1> QED BY <1>8 DEF parts, qkv, xn, NumpyQkv

(* The numpy prefill of a layer gives the layer over the prompt and fills the
   cache. *)
LEMMA NumpyLayerPrefilled ==
  ASSUME NEW c, NEW n, NEW y, NEW l, NEW r, NEW m, Prompt(c, n, y, l, r, m), NEW start_position \in Nat, NEW call, NEW ok,
         ok => start_position = 0 /\ m <= n /\ m <= RopeRows
  PROVE  Prefilled(_reference_llama_layer_prefill_numpy(y, l, c, start_position, call), c, n, y, l, r, m, ok)
<1> DEFINE parts == _numpy_qkv_split_rope(NumpyQkv(y, l), call)
           cache == _contiguous_cache_update_numpy(c, parts.k, parts.v)
           attn == CausalAttention(parts.q, parts.k, parts.v)
           o == NumpyLinear(attn, l, "o")
           h == reference_residual_add(y, o)
           result == NumpyMlp(h, l)
           layer == _reference_llama_layer_prefill_numpy(y, l, c, start_position, call)
           a == AttendedRows(y, l, r)
           eo == LinearRows(a, l, "o")
           eh == SumRows(y, eo)
<1>0. /\ m \in Nat \ {0} /\ DOMAIN y = 1..m /\ Clean(y) /\ l \in 1..Layers /\ IsCache(c, n) /\ c.table = <<>>
      /\ y = [i \in DOMAIN y |-> y[i]] /\ Slots(c) = n /\ n \in Nat /\ Len(y) = m
  BY CacheSlots, RowsLen DEF Prompt, IsRows
<1>1. CASE start_position > 0 \/ m > n
  <2>1. ~ok /\ layer.out = <<Raise>>
    BY <1>0, <1>1 DEF _reference_llama_layer_prefill_numpy, Failed, Block
  <2> HIDE DEF layer
  <2>2. Prefilled(layer, c, n, y, l, r, m, ok)
    BY <1>0, <2>1, RaisedRows DEF Prefilled
  <2> QED BY <2>2 DEF layer
<1>2. CASE ~(start_position > 0 \/ m > n)
  <2>1. PromptYields(parts, y, l, r, ok)
    BY <1>2, NumpyPartsYield
  <2>2. layer = NumpyPrefill(y, l, parts.q, cache)
    BY <1>0, <1>2 DEF _reference_llama_layer_prefill_numpy, NumpyPrefillOf
  <2> HIDE DEF parts, layer
  <2>3. IsRows(parts.k, m) /\ IsRows(parts.v, m)
    BY <1>0, <2>1 DEF PromptYields, Yields, KeyRows, ValueRows, IsRows
  <2>4. m \in 1..n
    BY <1>0, <1>2
  <2>5. /\ [i \in 1..m |-> cache.K[i - 1]] = parts.k /\ [i \in 1..m |-> cache.V[i - 1]] = parts.v
        /\ parts.k = KeyRows(y, l, r) /\ parts.v = ValueRows(y, l) => CacheFilled(cache, c, n, y, l, r, m)
    <3> DEFINE k == parts.k
               v == parts.v
               new == _contiguous_cache_update_numpy(c, k, v)
    <3>0. IsRows(k, m) /\ IsRows(v, m)
      BY <2>3
    <3> HIDE DEF k, v
    <3>1. /\ [i \in 1..m |-> new.K[i - 1]] = k /\ [i \in 1..m |-> new.V[i - 1]] = v
          /\ \A y1, l1, r1 : DOMAIN y1 = 1..m /\ k = KeyRows(y1, l1, r1) /\ v = ValueRows(y1, l1)
                                => CacheFilled(new, c, n, y1, l1, r1, m)
      BY <1>0, <3>0, <2>4, NumpyFilled
    <3> HIDE DEF new
    <3>2. k = KeyRows(y, l, r) /\ v = ValueRows(y, l) => CacheFilled(new, c, n, y, l, r, m)
      BY <1>0, <3>1
    <3> QED BY <3>1, <3>2 DEF new, k, v
  <2> HIDE DEF cache
  <2>6. layer.out = result /\ layer.cache = cache
    BY <1>0, <2>2, <2>5 DEF NumpyPrefill, NumpyOutput, _causal_attention_numpy, Block
  <2>7. \/ ~ok /\ attn = Raises(1..m)
        \/ attn = a /\ parts.k = KeyRows(y, l, r) /\ parts.v = ValueRows(y, l)
    BY <1>0, <2>1, CausalYields
  <2> HIDE DEF attn
  <2>8. CASE attn = Raises(1..m) /\ ~ok
    <3>1. o = Raises(1..m)
      <4>1. Op(<<"linear", W(l, "o")>>, <<Raise>>) = Raise
        BY OpOne
      <4> QED BY <2>8, <4>1 DEF NumpyLinear, Each, Raises
    <3>2. h = Raises(1..m)
      <4> HIDE DEF o
      <4> QED BY <1>0, <3>1, AddRaises
    <3>3. result = Raises(1..m)
      BY <3>2, NumpyMlpRaises
    <3> HIDE DEF result
    <3> QED BY <1>0, <2>6, <2>8, <3>3, RaisedRows DEF Prefilled, layer
  <2>9. CASE attn = a /\ parts.k = KeyRows(y, l, r) /\ parts.v = ValueRows(y, l)
    <3>1. CacheFilled(cache, c, n, y, l, r, m)
      BY <2>5, <2>9
    <3>2. /\ Clean(a) /\ DOMAIN a = DOMAIN y /\ Clean(eo) /\ DOMAIN eo = DOMAIN y /\ Clean(eh) /\ DOMAIN eh = DOMAIN y
          /\ FedRows(eh, l) = LayeredRows(y, l, r)
      BY <1>0, LayeredRowsAre
    <3>3. Yields(attn, a, ok) /\ Yields(y, y, ok)
      BY <1>0, <2>9 DEF Yields, AttendedRows
    <3> HIDE DEF a
    <3>4. Yields(o, eo, ok)
      BY <3>2, <3>3, PlainLinear
    <3> HIDE DEF o, eo
    <3>5. Yields(h, eh, ok)
      BY <1>0, <3>2, <3>3, <3>4, SumYields
    <3> HIDE DEF h, eh
    <3>6. Yields(result, FedRows(eh, l), ok)
      BY <3>2, <3>5, NumpyMlpYields
    <3> HIDE DEF result
    <3>7. result = LayeredRows(y, l, r) \/ (~ok /\ result = Raises(1..m))
      <4>1. DOMAIN FedRows(eh, l) = 1..m
        BY <1>0, <3>2 DEF LayeredRows
      <4> QED BY <3>2, <3>6, <4>1, YieldsOr
    <3> QED BY <1>0, <2>6, <3>1, <3>7, RaisedRows DEF Prefilled, layer
  <2> QED BY <2>7, <2>8, <2>9
<1> QED BY <1>0, <1>1, <1>2

-----------------------------------------------------------------------------
(* The specification: layer upon layer. *)

(* Through is the recursive function it is defined to be. *)
LEMMA ThroughIs ==
  ASSUME NEW xs, NEW r
  PROVE  LET Y == Through(xs, r)
         IN  Y = [l \in 0..Layers |-> IF l = 0 THEN xs ELSE Transformed(Y[l - 1], l, r)]
<1> DEFINE B(v, l) == Transformed(v, l, r)
           Is(f, k) == f = [l \in 0..k |-> IF l = 0 THEN xs ELSE B(f[l - 1], l)]
           S == {k \in Nat : \E f : Is(f, k)}
<1> HIDE DEF B
<1>1. 0 \in S
  <2>1. Is([l \in 0..0 |-> xs], 0)
    OBVIOUS
  <2> QED BY <2>1
<1>2. ASSUME NEW k \in S
      PROVE  k + 1 \in S
  <2>1. PICK f : Is(f, k)
    OBVIOUS
  <2> DEFINE g == [l \in 0..(k + 1) |-> IF l = k + 1 THEN B(f[k], k + 1) ELSE f[l]]
  <2>2. ASSUME NEW l \in 0..(k + 1)
        PROVE  g[l] = IF l = 0 THEN xs ELSE B(g[l - 1], l)
    <3>1. CASE l = k + 1
      BY <3>1
    <3>2. CASE l \in 0..k
      BY <2>1, <3>2
    <3> QED BY <3>1, <3>2
  <2>3. Is(g, k + 1)
    BY <2>2
  <2> HIDE DEF g
  <2> QED BY <2>3
<1>3. S = Nat
  BY <1>1, <1>2, Induction
<1>4. Layers \in S
  BY <1>3, LlamaStackAssumption
<1>5. \E f : Is(f, Layers)
  BY <1>4
<1>6. Is(Through(xs, r), Layers)
  BY <1>5 DEF Through, B
<1> QED BY <1>6 DEF B

(* Each layer takes what the layer below gives. *)
LEMMA ThroughStep ==
  ASSUME NEW xs, NEW r
  PROVE  /\ Through(xs, r)[0] = xs
         /\ \A l \in 1..Layers : Through(xs, r)[l] = Transformed(Through(xs, r)[l - 1], l, r)
<1> DEFINE Y == Through(xs, r)
<1>1. Y = [l \in 0..Layers |-> IF l = 0 THEN xs ELSE Transformed(Y[l - 1], l, r)]
  BY ThroughIs
<1> HIDE DEF Y
<1>2. Layers \in Nat
  BY LlamaStackAssumption
<1>3. Y[0] = xs
  <2>1. 0 \in 0..Layers
    BY <1>2
  <2> QED BY <1>1, <2>1
<1>4. ASSUME NEW l \in 1..Layers
      PROVE  Y[l] = Transformed(Y[l - 1], l, r)
  <2>1. l \in 0..Layers /\ l # 0
    BY <1>2
  <2> QED BY <1>1, <2>1
<1> QED BY <1>3, <1>4 DEF Y

(* A layer over a sequence is the layer at each of its rows. *)
LEMMA TransformedRows ==
  ASSUME NEW y, NEW l, NEW r
  PROVE  /\ Transformed(y, l, r) = LayeredRows(y, l, r) /\ DOMAIN Transformed(y, l, r) = DOMAIN y
         /\ \A i \in DOMAIN y : Transformed(y, l, r)[i] = Layered(y, l, r, i)
         /\ Clean(y) => Clean(Transformed(y, l, r))
<1>1. Transformed(y, l, r) = LayeredRows(y, l, r)
  BY DEF Transformed, LayeredRows, Layered, Projection
<1>2. DOMAIN LayeredRows(y, l, r) = DOMAIN y /\ \A i \in DOMAIN y : LayeredRows(y, l, r)[i] = Layered(y, l, r, i)
  BY DEF LayeredRows
<1>3. ASSUME NEW i \in DOMAIN y, Proper(y[i])
      PROVE  Proper(Layered(y, l, r, i))
  <2>1. Proper(Projection(y, l, r, i))
    BY ProperTerms DEF Projection
  <2>2. Proper(Sum(y[i], Projection(y, l, r, i)))
    BY <1>3, <2>1, ProperTerms
  <2> QED BY <2>2, ProperTerms DEF Layered, FedForward
<1>4. Clean(y) => Clean(LayeredRows(y, l, r))
  BY <1>2, <1>3 DEF Clean
<1> QED BY <1>1, <1>2, <1>4

(* What goes through the layers are expressions. *)
LEMMA ThroughClean ==
  ASSUME NEW xs, NEW r, Clean(xs)
  PROVE  \A l \in 0..Layers : Clean(Through(xs, r)[l]) /\ DOMAIN Through(xs, r)[l] = DOMAIN xs
<1> DEFINE Y == Through(xs, r)
           S == {l \in Nat : l \in 0..Layers => Clean(Y[l]) /\ DOMAIN Y[l] = DOMAIN xs}
<1>0. /\ Y[0] = xs /\ Layers \in Nat
      /\ \A l \in 1..Layers : Y[l] = Transformed(Y[l - 1], l, r)
  BY ThroughStep, LlamaStackAssumption
<1> HIDE DEF Y
<1>1. 0 \in S
  BY <1>0
<1>2. ASSUME NEW l \in S
      PROVE  l + 1 \in S
  <2>1. CASE l + 1 \in 0..Layers
    <3>1. l \in 0..Layers /\ l + 1 \in 1..Layers /\ l + 1 - 1 = l
      BY <1>0, <2>1
    <3>2. Clean(Y[l]) /\ DOMAIN Y[l] = DOMAIN xs /\ Y[l + 1] = Transformed(Y[l], l + 1, r)
      BY <1>0, <3>1
    <3>3. Clean(Y[l + 1]) /\ DOMAIN Y[l + 1] = DOMAIN xs
      BY <3>2, TransformedRows
    <3> QED BY <3>3
  <2> QED BY <2>1
<1>3. S = Nat
  <2> HIDE DEF S
  <2>1. S \in SUBSET Nat
    BY DEF S
  <2> QED BY <1>1, <1>2, <2>1, Induction
<1> QED BY <1>0, <1>3 DEF Y

(* Rows, and which of them are rotated, that agree up to position m. *)
Agree(x, r, y, s, m) == \A i \in 1..m : x[i] = y[i] /\ r[i] = s[i]

(* A row of a layer depends on no later row. *)
LEMMA LayeredAgrees ==
  ASSUME NEW x, NEW r, NEW y, NEW s, NEW m \in Nat, Agree(x, r, y, s, m), NEW l, NEW i \in 1..m
  PROVE  Layered(x, l, r, i) = Layered(y, l, s, i)
<1>1. \A j \in 1..i : x[j] = y[j] /\ r[j] = s[j]
  BY DEF Agree
<1>2. ASSUME NEW name
      PROVE  [j \in 1..i |-> AtPosition(QkvPart(x[j], l, name), j, r)] = [j \in 1..i |-> AtPosition(QkvPart(y[j], l, name), j, s)]
  BY <1>1 DEF AtPosition
<1>3. [j \in 1..i |-> QkvPart(x[j], l, "v")] = [j \in 1..i |-> QkvPart(y[j], l, "v")]
  BY <1>1
<1>4. i \in 1..i
  OBVIOUS
<1>5. x[i] = y[i] /\ AtPosition(QkvPart(x[i], l, "q"), i, r) = AtPosition(QkvPart(y[i], l, "q"), i, s)
  BY <1>1, <1>4 DEF AtPosition
<1>6. Attended(x, l, r, i) = Attended(y, l, s, i)
  BY <1>2, <1>3, <1>5 DEF Attended
<1> QED BY <1>5, <1>6 DEF Layered, Projection

(* So no layer's rows depend on a later token: causality of the
   specification, by induction on the layers. *)
LEMMA ThroughAgrees ==
  ASSUME NEW x, NEW r, NEW y, NEW s, NEW m \in Nat, Agree(x, r, y, s, m), 1..m \subseteq DOMAIN x, 1..m \subseteq DOMAIN y,
         Clean(x), Clean(y)
  PROVE  \A l \in 0..Layers : Agree(Through(x, r)[l], r, Through(y, s)[l], s, m)
<1> DEFINE X == Through(x, r)
           Y == Through(y, s)
           S == {l \in Nat : l \in 0..Layers => Agree(X[l], r, Y[l], s, m)}
<1>0. /\ X[0] = x /\ Y[0] = y /\ Layers \in Nat
      /\ \A l \in 1..Layers : X[l] = Transformed(X[l - 1], l, r) /\ Y[l] = Transformed(Y[l - 1], l, s)
      /\ \A l \in 0..Layers : DOMAIN X[l] = DOMAIN x /\ DOMAIN Y[l] = DOMAIN y
  BY ThroughStep, ThroughClean, LlamaStackAssumption
<1> HIDE DEF X, Y
<1>1. 0 \in S
  BY <1>0
<1>2. ASSUME NEW l \in S
      PROVE  l + 1 \in S
  <2>1. CASE l + 1 \in 0..Layers
    <3>1. l \in 0..Layers /\ l + 1 \in 1..Layers /\ l + 1 - 1 = l
      BY <1>0, <2>1
    <3>2. Agree(X[l], r, Y[l], s, m) /\ X[l + 1] = Transformed(X[l], l + 1, r) /\ Y[l + 1] = Transformed(Y[l], l + 1, s)
      BY <1>0, <3>1
    <3>3. ASSUME NEW i \in 1..m
          PROVE  X[l + 1][i] = Y[l + 1][i] /\ r[i] = s[i]
      <4>1. i \in DOMAIN X[l] /\ i \in DOMAIN Y[l]
        BY <1>0, <3>1
      <4>2. X[l + 1][i] = Layered(X[l], l + 1, r, i) /\ Y[l + 1][i] = Layered(Y[l], l + 1, s, i)
        BY <3>2, <4>1, TransformedRows
      <4>3. Layered(X[l], l + 1, r, i) = Layered(Y[l], l + 1, s, i)
        BY <3>2, LayeredAgrees
      <4> QED BY <4>2, <4>3 DEF Agree
    <3>4. Agree(X[l + 1], r, Y[l + 1], s, m)
      BY <3>3 DEF Agree
    <3> QED BY <3>4
  <2> QED BY <2>1
<1>3. S = Nat
  <2> HIDE DEF S
  <2>1. S \in SUBSET Nat
    BY DEF S
  <2> QED BY <1>1, <1>2, <2>1, Induction
<1> QED BY <1>0, <1>3 DEF X, Y

(* ... and neither does what a cache holds. *)
LEMMA CacheAgrees ==
  ASSUME NEW x, NEW r, NEW y, NEW s, NEW m \in Nat, Agree(x, r, y, s, m), NEW c, NEW l, InCache(c, x, l, r, m)
  PROVE  InCache(c, y, l, s, m)
<1>1. ASSUME NEW j \in 0..(m - 1)
      PROVE  /\ c.K[j] = AtPosition(QkvPart(y[j + 1], l, "k"), j + 1, s)
             /\ c.V[j] = QkvPart(y[j + 1], l, "v")
  <2>1. j + 1 \in 1..m
    OBVIOUS
  <2>2. x[j + 1] = y[j + 1] /\ r[j + 1] = s[j + 1]
    BY <2>1 DEF Agree
  <2> QED BY <2>2 DEF InCache, AtPosition
<1> QED BY <1>1 DEF InCache

-----------------------------------------------------------------------------
(* Runs of layers and of tokens. *)

(* One layer of the stack. *)
DecodeLayer(hidden, l, c, position, b, call) ==
    IF model.mlx THEN llama_layer_decode_step(hidden, l, c, position, b, call)
    ELSE _fallback_layer_decode(hidden, l, c, position)

(* ... in a prefill. *)
PrefillLayer(hidden, l, c, b, start_position, call) ==
    IF model.mlx THEN llama_layer_prefill(hidden, l, c, b, start_position, call)
    ELSE _reference_llama_layer_prefill_numpy(hidden, l, c, start_position, call)

(* The layers of a decode step as a run from layer to layer, which ends at an
   exception. *)
LEMMA DecodeRun ==
  ASSUME NEW x, NEW cs, NEW position, NEW b, NEW call
  PROVE  \E run : /\ DecodeLayers(x, cs, position, b, call) = run[Layers]
                  /\ run[0] = [hidden |-> x, caches |-> <<>>]
                  /\ \A l \in 1..Layers : run[l] = IF Raised(run[l - 1].hidden) THEN run[l - 1] ELSE Above(run[l - 1].caches,
                        DecodeLayer(run[l - 1].hidden, l, cs[l], position, b, call))
<1> DEFINE A == [hidden |-> x, caches |-> <<>>]
           B(v, l) == IF Raised(v.hidden) THEN v ELSE Above(v.caches, DecodeLayer(v.hidden, l, cs[l], position, b, call))
           Is(f, k) == f = [l \in 0..k |-> IF l = 0 THEN A ELSE B(f[l - 1], l)]
           S == {k \in Nat : \E f : Is(f, k)}
<1> HIDE DEF A, B
<1>1. 0 \in S
  <2>1. Is([l \in 0..0 |-> A], 0)
    OBVIOUS
  <2> QED BY <2>1
<1>2. ASSUME NEW k \in S
      PROVE  k + 1 \in S
  <2>1. PICK f : Is(f, k)
    OBVIOUS
  <2> DEFINE g == [l \in 0..(k + 1) |-> IF l = k + 1 THEN B(f[k], k + 1) ELSE f[l]]
  <2>2. ASSUME NEW l \in 0..(k + 1)
        PROVE  g[l] = IF l = 0 THEN A ELSE B(g[l - 1], l)
    <3>1. CASE l = k + 1
      BY <3>1
    <3>2. CASE l \in 0..k
      BY <2>1, <3>2
    <3> QED BY <3>1, <3>2
  <2>3. Is(g, k + 1)
    BY <2>2
  <2> HIDE DEF g, Is
  <2>4. k + 1 \in Nat /\ \E run : Is(run, k + 1)
    BY <2>3
  <2> QED BY <2>4
<1>3. S = Nat
  BY <1>1, <1>2, Induction
<1>4. Layers \in S
  BY <1>3, LlamaStackAssumption
<1>5. \E f : Is(f, Layers)
  BY <1>4
<1>6. \E run : Is(run, Layers) /\ DecodeLayers(x, cs, position, b, call) = run[Layers]
  BY <1>5 DEF DecodeLayers, InOrder, DecodeLayer, A, B
<1>7. PICK run : Is(run, Layers) /\ DecodeLayers(x, cs, position, b, call) = run[Layers]
  BY <1>6
<1>8. Layers \in Nat
  BY LlamaStackAssumption
<1>9. run[0] = A /\ \A l \in 1..Layers : run[l] = B(run[l - 1], l)
  BY <1>7, <1>8
<1> QED BY <1>7, <1>9 DEF A, B

(* The layers of a prefill as such a run. *)
LEMMA PrefillRun ==
  ASSUME NEW x, NEW cs, NEW b, NEW start_position, NEW call
  PROVE  \E run : /\ PrefillLayers(x, cs, b, start_position, call) = run[Layers]
                  /\ run[0] = [hidden |-> x, caches |-> <<>>]
                  /\ \A l \in 1..Layers : run[l] = IF Raised(run[l - 1].hidden) THEN run[l - 1] ELSE Above(run[l - 1].caches,
                        PrefillLayer(run[l - 1].hidden, l, cs[l], b, start_position, call))
<1> DEFINE A == [hidden |-> x, caches |-> <<>>]
           B(v, l) == IF Raised(v.hidden) THEN v ELSE Above(v.caches, PrefillLayer(v.hidden, l, cs[l], b, start_position, call))
           Is(f, k) == f = [l \in 0..k |-> IF l = 0 THEN A ELSE B(f[l - 1], l)]
           S == {k \in Nat : \E f : Is(f, k)}
<1> HIDE DEF A, B
<1>1. 0 \in S
  <2>1. Is([l \in 0..0 |-> A], 0)
    OBVIOUS
  <2> QED BY <2>1
<1>2. ASSUME NEW k \in S
      PROVE  k + 1 \in S
  <2>1. PICK f : Is(f, k)
    OBVIOUS
  <2> DEFINE g == [l \in 0..(k + 1) |-> IF l = k + 1 THEN B(f[k], k + 1) ELSE f[l]]
  <2>2. ASSUME NEW l \in 0..(k + 1)
        PROVE  g[l] = IF l = 0 THEN A ELSE B(g[l - 1], l)
    <3>1. CASE l = k + 1
      BY <3>1
    <3>2. CASE l \in 0..k
      BY <2>1, <3>2
    <3> QED BY <3>1, <3>2
  <2>3. Is(g, k + 1)
    BY <2>2
  <2> HIDE DEF g, Is
  <2>4. k + 1 \in Nat /\ \E run : Is(run, k + 1)
    BY <2>3
  <2> QED BY <2>4
<1>3. S = Nat
  BY <1>1, <1>2, Induction
<1>4. Layers \in S
  BY <1>3, LlamaStackAssumption
<1>5. \E f : Is(f, Layers)
  BY <1>4
<1>6. \E run : Is(run, Layers) /\ PrefillLayers(x, cs, b, start_position, call) = run[Layers]
  BY <1>5 DEF PrefillLayers, InOrder, PrefillLayer, A, B
<1>7. PICK run : Is(run, Layers) /\ PrefillLayers(x, cs, b, start_position, call) = run[Layers]
  BY <1>6
<1>8. Layers \in Nat
  BY LlamaStackAssumption
<1>9. run[0] = A /\ \A l \in 1..Layers : run[l] = B(run[l - 1], l)
  BY <1>7, <1>8
<1> QED BY <1>7, <1>9 DEF A, B

(* The steps of a loop that ended with last. *)
IsLoop(run, last, position, xs, cs, preset, return_logits, call) ==
    /\ last = run[Len(xs)] /\ run[0] = [rows |-> <<>>, caches |-> cs]
    /\ \A t \in 1..Len(xs) : run[t] = IF Raised(run[t - 1].rows) THEN run[t - 1] ELSE Further(run[t - 1].rows,
          llama_stack_decode_step(<<xs[t]>>, run[t - 1].caches, position + (t - 1), preset, return_logits, call))

(* The tokens of a loop as a run from token to token. *)
LEMMA DecodeFromRun ==
  ASSUME NEW position, NEW xs, Len(xs) \in Nat, NEW cs, NEW preset, NEW return_logits, NEW call
  PROVE  \E run : IsLoop(run, DecodeFrom(position, xs, cs, preset, return_logits, call), position, xs, cs, preset, return_logits, call)
<1> DEFINE N == Len(xs)
<1>0. N \in Nat
  OBVIOUS
<1> DEFINE A == [rows |-> <<>>, caches |-> cs]
           B(v, l) == IF Raised(v.rows) THEN v ELSE Further(v.rows, llama_stack_decode_step(<<xs[l]>>, v.caches, position + (l - 1), preset, return_logits, call))
           Is(f, k) == f = [l \in 0..k |-> IF l = 0 THEN A ELSE B(f[l - 1], l)]
           S == {k \in Nat : \E f : Is(f, k)}
<1> HIDE DEF A, B, N
<1>1. 0 \in S
  <2>1. Is([l \in 0..0 |-> A], 0)
    OBVIOUS
  <2> QED BY <2>1
<1>2. ASSUME NEW k \in S
      PROVE  k + 1 \in S
  <2>1. PICK f : Is(f, k)
    OBVIOUS
  <2> DEFINE g == [l \in 0..(k + 1) |-> IF l = k + 1 THEN B(f[k], k + 1) ELSE f[l]]
  <2>2. ASSUME NEW l \in 0..(k + 1)
        PROVE  g[l] = IF l = 0 THEN A ELSE B(g[l - 1], l)
    <3>1. CASE l = k + 1
      BY <3>1
    <3>2. CASE l \in 0..k
      BY <2>1, <3>2
    <3> QED BY <3>1, <3>2
  <2>3. Is(g, k + 1)
    BY <2>2
  <2> HIDE DEF g, Is
  <2>4. k + 1 \in Nat /\ \E run : Is(run, k + 1)
    BY <2>3
  <2> QED BY <2>4
<1>3. S = Nat
  BY <1>1, <1>2, Induction
<1>4. N \in S
  BY <1>3, <1>0
<1>5. \E f : Is(f, N)
  BY <1>4
<1>6. \E run : Is(run, N) /\ DecodeFrom(position, xs, cs, preset, return_logits, call) = run[N]
  BY <1>5 DEF DecodeFrom, Loop, A, B, N
<1>7. PICK run : Is(run, N) /\ DecodeFrom(position, xs, cs, preset, return_logits, call) = run[N]
  BY <1>6
<1>8. N \in Nat
  BY <1>0
<1>9. run[0] = A /\ \A l \in 1..N : run[l] = B(run[l - 1], l)
  BY <1>7, <1>8
<1> QED BY <1>7, <1>9 DEF A, B, N, IsLoop

(* The same for the loop over one layer. *)
IsLayerLoop(run, last, xs, cs, preset, call) ==
    /\ last = run[Len(xs)] /\ run[0] = [rows |-> <<>>, caches |-> cs]
    /\ \A t \in 1..Len(xs) : run[t] = IF Raised(run[t - 1].rows) THEN run[t - 1] ELSE Further(run[t - 1].rows, OneLayer(
          llama_layer_decode_step(<<xs[t]>>, 1, run[t - 1].caches[1], t - 1, _preset_to_backend_config(preset), call)))

(* llama_layer_decode_loop is such a run. *)
LEMMA LayerLoopRun ==
  ASSUME NEW xs, Len(xs) \in Nat, NEW cs, NEW preset, NEW call
  PROVE  \E run : IsLayerLoop(run, llama_layer_decode_loop(xs, cs, preset, call), xs, cs, preset, call)
<1> DEFINE N == Len(xs)
<1>0. N \in Nat
  OBVIOUS
<1> DEFINE A == [rows |-> <<>>, caches |-> cs]
           B(v, l) == IF Raised(v.rows) THEN v ELSE Further(v.rows, OneLayer(llama_layer_decode_step(<<xs[l]>>, 1, v.caches[1], l - 1, _preset_to_backend_config(preset), call)))
           Is(f, k) == f = [l \in 0..k |-> IF l = 0 THEN A ELSE B(f[l - 1], l)]
           S == {k \in Nat : \E f : Is(f, k)}
<1> HIDE DEF A, B, N
<1>1. 0 \in S
  <2>1. Is([l \in 0..0 |-> A], 0)
    OBVIOUS
  <2> QED BY <2>1
<1>2. ASSUME NEW k \in S
      PROVE  k + 1 \in S
  <2>1. PICK f : Is(f, k)
    OBVIOUS
  <2> DEFINE g == [l \in 0..(k + 1) |-> IF l = k + 1 THEN B(f[k], k + 1) ELSE f[l]]
  <2>2. ASSUME NEW l \in 0..(k + 1)
        PROVE  g[l] = IF l = 0 THEN A ELSE B(g[l - 1], l)
    <3>1. CASE l = k + 1
      BY <3>1
    <3>2. CASE l \in 0..k
      BY <2>1, <3>2
    <3> QED BY <3>1, <3>2
  <2>3. Is(g, k + 1)
    BY <2>2
  <2> HIDE DEF g, Is
  <2>4. k + 1 \in Nat /\ \E run : Is(run, k + 1)
    BY <2>3
  <2> QED BY <2>4
<1>3. S = Nat
  BY <1>1, <1>2, Induction
<1>4. N \in S
  BY <1>3, <1>0
<1>5. \E f : Is(f, N)
  BY <1>4
<1>6. \E run : Is(run, N) /\ llama_layer_decode_loop(xs, cs, preset, call) = run[N]
  BY <1>5 DEF llama_layer_decode_loop, Loop, A, B, N
<1>7. PICK run : Is(run, N) /\ llama_layer_decode_loop(xs, cs, preset, call) = run[N]
  BY <1>6
<1>8. N \in Nat
  BY <1>0
<1>9. run[0] = A /\ \A l \in 1..N : run[l] = B(run[l - 1], l)
  BY <1>7, <1>8
<1> QED BY <1>7, <1>9 DEF A, B, N, IsLayerLoop

-----------------------------------------------------------------------------
(* The stack, one token. *)

(* A layer of the stack, with mlx or without, serves the layer. *)
LEMMA DecodeLayerServes ==
  ASSUME NEW c, NEW n, NEW y, NEW l, NEW r, NEW p, Before(c, n, y, l, r, p), Rotates(r, p) <=> model.mlx,
         NEW ok, NEW b, NEW call, call.grouped \in BOOLEAN,
         ok => /\ HalfPrecision(call) /\ p < n /\ p + 1 <= RopeRows
               /\ LayerFits(b) /\ BlockFits(c, b.attention, call)
  PROVE  ServesLayer(DecodeLayer(<<y[p + 1]>>, l, c, p, b, call), c, n, y, l, r, p, ok)
<1>1. CASE model.mlx
  <2>1. Yields(<<y[p + 1]>>, <<y[p + 1]>>, ok) /\ Rotates(r, p)
    BY <1>1, OneYields
  <2>2. Serves(llama_layer_decode_step(<<y[p + 1]>>, l, c, p, b, call), Layered(y, l, r, p + 1), c, n, y, l, r, p, ok)
    BY <2>1, LayerDecodeServes
  <2> QED BY <1>1, <2>2 DEF DecodeLayer, ServesLayer
<1>2. CASE ~model.mlx
  <2>1. ServesLayer(_fallback_layer_decode(<<y[p + 1]>>, l, c, p), c, n, y, l, r, p, ok)
    BY <1>2, FallbackServes
  <2> QED BY <1>2, <2>1 DEF DecodeLayer
<1> QED BY <1>1, <1>2

(* A layer's cache with room for the positions of a sequence, which holds the
   keys and values of the first m rows of y. *)
Holds(c, paged, y, l, r, m) ==
    /\ IsCache(c, Slots(c)) /\ MAX_S <= Slots(c) /\ (c.table # <<>> <=> paged)
    /\ m \in 0..Slots(c) /\ InCache(c, y, l, r, m)
(* The caches of the layers up to depth hold the first m tokens of xs. *)
Held(cs, depth, paged, xs, r, m) ==
    IsRows(cs, depth) /\ \A l \in 1..depth : Holds(cs[l], paged, Through(xs, r)[l - 1], l, r, m)

(* A token fed at position p: the tokens up to it, and a call for it. *)
Fed(xs, r, p) == IsRows(xs, Len(xs)) /\ Clean(xs) /\ p \in Nat /\ p < Len(xs) /\ (Rotates(r, p) <=> model.mlx)

(* The backends and positions a decode step of the stack accepts. *)
StepFits(p, paged, b, call) ==
    /\ HalfPrecision(call) /\ p < MAX_S /\ p + 1 <= RopeRows /\ LayerFits(b)
    /\ IF paged /\ ~call.grouped THEN b.attention \in {"reference", "metal", "auto"} ELSE b.attention \in GqaBackends

(* Layer l at position p. *)
LayerAt(cs, xs, r, l, p, b, call) == DecodeLayer(<<Through(xs, r)[l - 1][p + 1]>>, l, cs[l], p, b, call)

(* It raised, or gives its row and leaves its cache holding one more. *)
LayerServed(layer, paged, xs, r, l, p, ok) ==
    \/ ~ok /\ layer.out = <<Raise>>
    \/ layer.out = <<Through(xs, r)[l][p + 1]>> /\ Holds(layer.cache, paged, Through(xs, r)[l - 1], l, r, p + 1)

(* With the caches holding what was fed, every layer serves its row. *)
LEMMA HeldServes ==
  ASSUME NEW cs, NEW paged \in BOOLEAN, NEW xs, NEW r, NEW p, Held(cs, Layers, paged, xs, r, p), Fed(xs, r, p),
         NEW ok, NEW b, NEW call, call.grouped \in BOOLEAN, ok => StepFits(p, paged, b, call), NEW l \in 1..Layers
  PROVE  LayerServed(LayerAt(cs, xs, r, l, p, b, call), paged, xs, r, l, p, ok)
<1> DEFINE y == Through(xs, r)[l - 1]
           c == cs[l]
           n == Slots(c)
           layer == DecodeLayer(<<y[p + 1]>>, l, c, p, b, call)
<1>0. l - 1 \in 0..Layers /\ l \in 1..Layers /\ Layers \in Nat /\ p \in Nat
  BY LlamaStackAssumption DEF Fed, Held, IsRows
<1>1. Clean(y) /\ DOMAIN y = DOMAIN xs /\ Through(xs, r)[l] = Transformed(y, l, r)
  BY <1>0, ThroughClean, ThroughStep DEF Fed
<1>2. p + 1 \in DOMAIN y
  <2>1. DOMAIN xs = 1..Len(xs) /\ Len(xs) \in Nat
    BY DEF Fed, IsRows
  <2> QED BY <1>0, <1>1, <2>1 DEF Fed
<1>3. Through(xs, r)[l][p + 1] = Layered(y, l, r, p + 1) /\ Proper(y[p + 1])
  BY <1>1, <1>2, TransformedRows DEF Clean
<1> HIDE DEF y
<1>4. Holds(c, paged, y, l, r, p)
  BY DEF Held, y
<1> HIDE DEF c
<1>5. Before(c, n, y, l, r, p) /\ (Rotates(r, p) <=> model.mlx)
  BY <1>0, <1>3, <1>4 DEF Holds, Before, Fed
<1>6. n \in Nat /\ MAX_S <= n /\ MAX_S \in Nat
  BY <1>4, LlamaStackAssumption, CacheSlots DEF Holds
<1>7. ok => /\ HalfPrecision(call) /\ p < n /\ p + 1 <= RopeRows
            /\ LayerFits(b) /\ BlockFits(c, b.attention, call)
  <2>1. c.table # <<>> <=> paged
    BY <1>4 DEF Holds
  <2>2. StepFits(p, paged, b, call) => BlockFits(c, b.attention, call)
    BY <2>1 DEF StepFits, BlockFits
  <2>3. StepFits(p, paged, b, call) => HalfPrecision(call) /\ p < n /\ p + 1 <= RopeRows /\ LayerFits(b)
    BY <1>0, <1>6 DEF StepFits
  <2> QED BY <2>2, <2>3
<1>8. ServesLayer(layer, c, n, y, l, r, p, ok)
  BY <1>5, <1>7, DecodeLayerServes
<1> HIDE DEF layer
<1>9. CacheServed(layer.cache, c, n, y, l, r, p) => Holds(layer.cache, paged, y, l, r, p + 1)
  <2> SUFFICES ASSUME CacheServed(layer.cache, c, n, y, l, r, p)
               PROVE  Holds(layer.cache, paged, y, l, r, p + 1)
    OBVIOUS
  <2>1. p < n /\ IsCache(layer.cache, n) /\ layer.cache.table = c.table /\ InCache(layer.cache, y, l, r, p + 1)
    BY DEF CacheServed
  <2>2. Slots(layer.cache) = n
    BY <2>1, CacheSlots
  <2>3. p + 1 \in 0..n
    BY <1>0, <1>6, <2>1
  <2> QED BY <1>4, <1>6, <2>1, <2>2, <2>3 DEF Holds
<1>10. \/ ~ok /\ layer.out = <<Raise>>
       \/ layer.out = <<Through(xs, r)[l][p + 1]>> /\ Holds(layer.cache, paged, y, l, r, p + 1)
  BY <1>3, <1>8, <1>9 DEF ServesLayer, Serves
<1> QED BY <1>10 DEF layer, c, y, LayerAt, LayerServed

(* u is the n rows of s and then e. *)
Extended(u, s, n, e) == IsRows(u, n + 1) /\ u[n + 1] = e /\ \A i \in 1..n : u[i] = s[i]

(* Append adds a row. *)
LEMMA AppendRows ==
  ASSUME NEW n, NEW s, IsRows(s, n), NEW e
  PROVE  Extended(Append(s, e), s, n, e)
<1> DEFINE T == {s[i] : i \in 1..n} \cup {e}
<1>0. n \in Nat /\ s = [i \in 1..n |-> s[i]] /\ Len(s) = n
  BY RowsLen DEF IsRows
<1>1. s \in Seq(T) /\ e \in T
  <2>1. s \in [1..n -> T]
    BY <1>0
  <2> QED BY <1>0, <2>1, SeqDef
<1> HIDE DEF T
<1>2. /\ Append(s, e) \in Seq(T) /\ Len(Append(s, e)) = n + 1 /\ Append(s, e)[n + 1] = e
      /\ \A i \in 1..n : Append(s, e)[i] = s[i]
  BY <1>0, <1>1, AppendProperties
<1> QED BY <1>0, <1>2 DEF IsRows, Extended

(* Caches that hold, one for each layer so far, and the next layer's. *)
LEMMA HeldAppend ==
  ASSUME NEW cs, NEW depth, NEW paged, NEW xs, NEW r, NEW m, Held(cs, depth, paged, xs, r, m), NEW c,
         NEW l, l = depth + 1, Holds(c, paged, Through(xs, r)[l - 1], l, r, m)
  PROVE  Held(Append(cs, c), l, paged, xs, r, m)
<1>1. IsRows(cs, depth) /\ depth \in Nat /\ l \in Nat
  BY DEF Held, IsRows
<1> DEFINE u == Append(cs, c)
<1>2. Extended(u, cs, depth, c)
  BY <1>1, AppendRows
<1> HIDE DEF u
<1>5. IsRows(u, l) /\ u[l] = c /\ \A i \in 1..depth : u[i] = cs[i]
  BY <1>2 DEF Extended
<1>3. ASSUME NEW k \in 1..l
      PROVE  Holds(u[k], paged, Through(xs, r)[k - 1], k, r, m)
  <2>1. CASE k = l
    BY <1>5, <2>1
  <2>2. CASE k \in 1..depth
    BY <1>5, <2>2 DEF Held
  <2>3. k = l \/ k \in 1..depth
    BY <1>1
  <2> QED BY <2>1, <2>2, <2>3
<1>4. Held(u, l, paged, xs, r, m)
  BY <1>5, <1>3 DEF Held
<1> QED BY <1>4 DEF u

(* No layer so far. *)
LEMMA NoCaches ==
  ASSUME NEW paged, NEW xs, NEW r, NEW m
  PROVE  Held(<<>>, 0, paged, xs, r, m)
  BY DEF Held, IsRows

(* A row of the specification did not raise. *)
LEMMA RowUnraised ==
  ASSUME NEW xs, NEW r, NEW p, Fed(xs, r, p)
  PROVE  \A l \in 0..Layers : Proper(Through(xs, r)[l][p + 1]) /\ ~Raised(<<Through(xs, r)[l][p + 1]>>)
<1>1. p + 1 \in DOMAIN xs
  <2>1. DOMAIN xs = 1..Len(xs) /\ Len(xs) \in Nat
    BY DEF Fed, IsRows
  <2> QED BY <2>1 DEF Fed
<1>2. ASSUME NEW l \in 0..Layers
      PROVE  Proper(Through(xs, r)[l][p + 1])
  <2>1. Clean(Through(xs, r)[l]) /\ DOMAIN Through(xs, r)[l] = DOMAIN xs
    BY ThroughClean DEF Fed
  <2> QED BY <1>1, <2>1 DEF Clean
<1>3. ASSUME NEW a, Proper(a)
      PROVE  ~Raised(<<a>>)
  BY <1>3 DEF Proper, Raised
<1> QED BY <1>2, <1>3

(* The run of the layers raised, or gives the row at position p and leaves caches that hold it. *)
StackServed(run, paged, xs, r, p, ok) ==
    \/ ~ok /\ run.hidden = <<Raise>>
    \/ run.hidden = <<Through(xs, r)[Layers][p + 1]>> /\ Held(run.caches, Layers, paged, xs, r, p + 1)

(* The layers of a decode step give the row of the last layer, and all their
   caches hold the token: by induction on the layers. *)
LEMMA DecodeLayersServes ==
  ASSUME NEW cs, NEW paged \in BOOLEAN, NEW xs, NEW r, NEW p, Held(cs, Layers, paged, xs, r, p), Fed(xs, r, p),
         NEW ok, NEW b, NEW call, call.grouped \in BOOLEAN, ok => StepFits(p, paged, b, call)
  PROVE  StackServed(DecodeLayers(<<xs[p + 1]>>, cs, p, b, call), paged, xs, r, p, ok)
<1> DEFINE Y == Through(xs, r)
           x == <<xs[p + 1]>>
<1>0. PICK D : D = DecodeLayers(x, cs, p, b, call)
  OBVIOUS
<1>1. PICK run : /\ D = run[Layers]
                 /\ run[0] = [hidden |-> x, caches |-> <<>>]
                 /\ \A l \in 1..Layers : run[l] = IF Raised(run[l - 1].hidden) THEN run[l - 1] ELSE Above(run[l - 1].caches,
                        DecodeLayer(run[l - 1].hidden, l, cs[l], p, b, call))
  BY <1>0, DecodeRun
<1> DEFINE P(l) == \/ ~ok /\ run[l].hidden = <<Raise>>
                   \/ run[l].hidden = <<Y[l][p + 1]>> /\ Held(run[l].caches, l, paged, xs, r, p + 1)
           S == {l \in Nat : l \in 0..Layers => P(l)}
<1>2. P(0)
  BY <1>1, NoCaches, ThroughStep
<1>3. ASSUME NEW l \in Nat, l + 1 \in 1..Layers, P(l)
      PROVE  P(l + 1)
  <2> DEFINE k == l + 1
             layer == LayerAt(cs, xs, r, k, p, b, call)
  <2>0. k - 1 = l /\ k \in 1..Layers /\ k <= Layers /\ l \in 0..Layers
    BY <1>3, LlamaStackAssumption
  <2>1. run[k] = IF Raised(run[l].hidden) THEN run[l] ELSE Above(run[l].caches, DecodeLayer(run[l].hidden, k, cs[k], p, b, call))
    BY <1>1, <2>0
  <2>2. CASE ~ok /\ run[l].hidden = <<Raise>>
    <3>1. Raised(<<Raise>>)
      BY DEF Raised
    <3> QED BY <2>1, <2>2, <3>1
  <2>3. CASE run[l].hidden = <<Y[l][p + 1]>> /\ Held(run[l].caches, l, paged, xs, r, p + 1)
    <3>1. ~Raised(run[l].hidden)
      BY <2>0, <2>3, RowUnraised
    <3> HIDE DEF k
    <3>2. run[k].hidden = layer.out /\ run[k].caches = Append(run[l].caches, layer.cache)
      BY <2>0, <2>1, <2>3, <3>1 DEF Above, LayerAt
    <3>3. \/ ~ok /\ layer.out = <<Raise>>
          \/ layer.out = <<Y[k][p + 1]>> /\ Holds(layer.cache, paged, Y[k - 1], k, r, p + 1)
      <4>1. LayerServed(layer, paged, xs, r, k, p, ok)
        BY <2>0, HeldServes
      <4> QED BY <4>1 DEF LayerServed
    <3> HIDE DEF layer
    <3>4. CASE ~ok /\ layer.out = <<Raise>>
      <4>1. P(k)
        BY <3>2, <3>4
      <4> QED BY <4>1 DEF k
    <3>5. CASE layer.out = <<Y[k][p + 1]>> /\ Holds(layer.cache, paged, Y[k - 1], k, r, p + 1)
      <4>1. Held(Append(run[l].caches, layer.cache), k, paged, xs, r, p + 1)
        <5>1. k = l + 1 /\ Holds(layer.cache, paged, Through(xs, r)[k - 1], k, r, p + 1)
          BY <2>0, <3>5 DEF k
        <5> QED BY <2>3, <5>1, HeldAppend
      <4>2. P(k)
        BY <3>2, <3>5, <4>1
      <4> QED BY <4>2 DEF k
    <3> QED BY <3>3, <3>4, <3>5
  <2> QED BY <1>3, <2>2, <2>3
<1> HIDE DEF P
<1>4. 0 \in S /\ \A l \in S : l + 1 \in S
  <2>1. ASSUME NEW l \in S
        PROVE  l + 1 \in S
    <3>1. l + 1 \in 0..Layers => l \in 0..Layers /\ l + 1 \in 1..Layers
      BY LlamaStackAssumption
    <3> QED BY <1>3, <3>1
  <2> QED BY <1>2, <2>1
<1>5. S = Nat
  <2> HIDE DEF S
  <2>1. S \in SUBSET Nat
    BY DEF S
  <2> QED BY <1>4, <2>1, Induction
<1>6. P(Layers)
  <2>1. Layers \in Nat /\ Layers \in 0..Layers
    BY LlamaStackAssumption
  <2> QED BY <1>5, <2>1
<1>7. \/ ~ok /\ run[Layers].hidden = <<Raise>>
      \/ run[Layers].hidden = <<Y[Layers][p + 1]>> /\ Held(run[Layers].caches, Layers, paged, xs, r, p + 1)
  BY <1>6 DEF P
<1> QED BY <1>0, <1>1, <1>7 DEF StackServed

-----------------------------------------------------------------------------
(* The stack, a prompt. *)

(* Caches a prompt may be written to. *)
Roomy(c) == IsCache(c, Slots(c)) /\ MAX_S <= Slots(c) /\ c.table = <<>>

(* A prompt of m tokens, all rotated. *)
PromptOf(xs, r, m) == m \in Nat \ {0} /\ IsRows(xs, m) /\ Clean(xs) /\ \A i \in 1..m : r[i]

(* Layer l over the prompt. *)
LayerPrompt(cs, xs, r, l, b, start_position, call) ==
    PrefillLayer(Through(xs, r)[l - 1], l, cs[l], b, start_position, call)

(* It raised, or gives the prompt's rows and leaves its cache holding them. *)
LayerFilled(layer, xs, r, l, m, ok) ==
    \/ ~ok /\ Raised(layer.out)
    \/ layer.out = Through(xs, r)[l] /\ Holds(layer.cache, FALSE, Through(xs, r)[l - 1], l, r, m)

(* A prefill of the stack that its functions accept. *)
PromptFits(b, m, start_position, call) == m <= MAX_S /\ PrefillFits(b, m, start_position, call)

(* Every layer fills its cache. *)
LEMMA LayersFill ==
  ASSUME NEW cs, \A l \in 1..Layers : Roomy(cs[l]), NEW xs, NEW r, NEW m, PromptOf(xs, r, m), NEW b,
         NEW start_position \in Nat, NEW call, NEW ok, ok => PromptFits(b, m, start_position, call), NEW l \in 1..Layers
  PROVE  LayerFilled(LayerPrompt(cs, xs, r, l, b, start_position, call), xs, r, l, m, ok)
<1> DEFINE y == Through(xs, r)[l - 1]
           c == cs[l]
           n == Slots(c)
           layer == PrefillLayer(y, l, c, b, start_position, call)
<1>0. l - 1 \in 0..Layers /\ Layers \in Nat /\ m \in Nat \ {0} /\ MAX_S \in Nat
  BY LlamaStackAssumption DEF PromptOf
<1>1. Clean(y) /\ DOMAIN y = 1..m /\ Through(xs, r)[l] = Transformed(y, l, r)
  BY <1>0, ThroughClean, ThroughStep DEF PromptOf, IsRows
<1>2. IsRows(y, m)
  <2>1. y = [i \in DOMAIN y |-> y[i]]
    <3>1. l - 1 = 0 \/ l - 1 \in 1..Layers
      BY <1>0
    <3>2. CASE l - 1 = 0
      <4>1. y = xs
        BY <3>2, ThroughStep
      <4> QED BY <4>1 DEF PromptOf, IsRows
    <3>3. CASE l - 1 \in 1..Layers
      <4>1. y = Transformed(Through(xs, r)[l - 1 - 1], l - 1, r)
        BY <3>3, ThroughStep
      <4> QED BY <4>1 DEF Transformed
    <3> QED BY <3>1, <3>2, <3>3
  <2> QED BY <1>0, <1>1, <2>1 DEF IsRows
<1>3. Through(xs, r)[l] = LayeredRows(y, l, r)
  BY <1>1, TransformedRows
<1> HIDE DEF y
<1>4. Roomy(c)
  OBVIOUS
<1> HIDE DEF c
<1>5. Prompt(c, n, y, l, r, m) /\ n \in Nat /\ MAX_S <= n
  BY <1>0, <1>1, <1>2, <1>4, CacheSlots DEF Roomy, Prompt, PromptOf
<1>6. Prefilled(layer, c, n, y, l, r, m, ok)
  <2>1. ok => PrefillFits(b, m, start_position, call)
    BY DEF PromptFits
  <2>2. ok => start_position = 0 /\ m <= n /\ m <= RopeRows
    BY <1>0, <1>5 DEF PromptFits, PrefillFits
  <2>3. Prefilled(llama_layer_prefill(y, l, c, b, start_position, call), c, n, y, l, r, m, ok)
    BY <1>5, <2>1, LayerPrefilled
  <2>4. Prefilled(_reference_llama_layer_prefill_numpy(y, l, c, start_position, call), c, n, y, l, r, m, ok)
    BY <1>5, <2>2, NumpyLayerPrefilled
  <2> QED BY <2>3, <2>4 DEF PrefillLayer
<1> HIDE DEF layer
<1>7. CacheFilled(layer.cache, c, n, y, l, r, m) => Holds(layer.cache, FALSE, y, l, r, m)
  <2> SUFFICES ASSUME CacheFilled(layer.cache, c, n, y, l, r, m)
               PROVE  Holds(layer.cache, FALSE, y, l, r, m)
    OBVIOUS
  <2>1. PICK n2 \in Nat : n2 >= n /\ n2 >= m /\ IsCache(layer.cache, n2) /\ layer.cache.table = c.table /\ InCache(layer.cache, y, l, r, m)
    BY DEF CacheFilled
  <2>2. Slots(layer.cache) = n2
    BY <2>1, CacheSlots
  <2>3. m \in 0..n2 /\ MAX_S <= n2
    BY <1>0, <1>5, <2>1
  <2> QED BY <1>4, <2>1, <2>2, <2>3 DEF Holds, Roomy
<1>8. LayerFilled(layer, xs, r, l, m, ok)
  BY <1>3, <1>6, <1>7 DEF Prefilled, LayerFilled, y
<1> QED BY <1>8 DEF layer, c, y, LayerPrompt

(* Expressions did not raise. *)
LEMMA CleanUnraised ==
  ASSUME NEW e, Clean(e)
  PROVE  ~Raised(e)
  BY DEF Clean, Proper, Raised

(* The run of the layers raised, or gives all rows of the last layer and
   leaves caches that hold the prompt. *)
StackFilled(run, xs, r, m, ok) ==
    \/ ~ok /\ Raised(run.hidden)
    \/ run.hidden = Through(xs, r)[Layers] /\ Held(run.caches, Layers, FALSE, xs, r, m)

(* The layers of a prefill do so: by induction on the layers. *)
LEMMA PrefillLayersFill ==
  ASSUME NEW cs, \A l \in 1..Layers : Roomy(cs[l]), NEW xs, NEW r, NEW m, PromptOf(xs, r, m), NEW b,
         NEW start_position \in Nat, NEW call, NEW ok, ok => PromptFits(b, m, start_position, call)
  PROVE  StackFilled(PrefillLayers(xs, cs, b, start_position, call), xs, r, m, ok)
<1> DEFINE Y == Through(xs, r)
<1>0. PICK D : D = PrefillLayers(xs, cs, b, start_position, call)
  OBVIOUS
<1>1. PICK run : /\ D = run[Layers]
                 /\ run[0] = [hidden |-> xs, caches |-> <<>>]
                 /\ \A l \in 1..Layers : run[l] = IF Raised(run[l - 1].hidden) THEN run[l - 1] ELSE Above(run[l - 1].caches,
                        PrefillLayer(run[l - 1].hidden, l, cs[l], b, start_position, call))
  BY <1>0, PrefillRun
<1> DEFINE P(l) == \/ ~ok /\ Raised(run[l].hidden)
                   \/ run[l].hidden = Y[l] /\ Held(run[l].caches, l, FALSE, xs, r, m)
           S == {l \in Nat : l \in 0..Layers => P(l)}
<1>2. P(0)
  <2>1. run[0].hidden = xs /\ run[0].caches = <<>> /\ Y[0] = xs
    BY <1>1, ThroughStep
  <2>2. Held(<<>>, 0, FALSE, xs, r, m)
    BY NoCaches
  <2> QED BY <2>1, <2>2
<1>3. ASSUME NEW l \in Nat, l + 1 \in 1..Layers, P(l)
      PROVE  P(l + 1)
  <2> DEFINE k == l + 1
             layer == LayerPrompt(cs, xs, r, k, b, start_position, call)
  <2>0. k - 1 = l /\ k \in 1..Layers /\ k <= Layers /\ l \in 0..Layers
    BY <1>3, LlamaStackAssumption
  <2>1. run[k] = IF Raised(run[l].hidden) THEN run[l] ELSE Above(run[l].caches, PrefillLayer(run[l].hidden, k, cs[k], b, start_position, call))
    BY <1>1, <2>0
  <2>2. CASE ~ok /\ Raised(run[l].hidden)
    BY <2>1, <2>2
  <2>3. CASE run[l].hidden = Y[l] /\ Held(run[l].caches, l, FALSE, xs, r, m)
    <3>1. ~Raised(run[l].hidden)
      BY <2>0, <2>3, ThroughClean, CleanUnraised DEF PromptOf
    <3> HIDE DEF k
    <3>2. run[k].hidden = layer.out /\ run[k].caches = Append(run[l].caches, layer.cache)
      BY <2>0, <2>1, <2>3, <3>1 DEF Above, LayerPrompt
    <3>3. \/ ~ok /\ Raised(layer.out)
          \/ layer.out = Y[k] /\ Holds(layer.cache, FALSE, Y[k - 1], k, r, m)
      <4>1. LayerFilled(layer, xs, r, k, m, ok)
        BY <2>0, LayersFill
      <4> QED BY <4>1 DEF LayerFilled
    <3> HIDE DEF layer
    <3>4. CASE ~ok /\ Raised(layer.out)
      <4>1. P(k)
        BY <3>2, <3>4
      <4> QED BY <4>1 DEF k
    <3>5. CASE layer.out = Y[k] /\ Holds(layer.cache, FALSE, Y[k - 1], k, r, m)
      <4>1. Held(Append(run[l].caches, layer.cache), k, FALSE, xs, r, m)
        <5>1. k = l + 1 /\ Holds(layer.cache, FALSE, Through(xs, r)[k - 1], k, r, m)
          BY <2>0, <3>5 DEF k
        <5> QED BY <2>3, <5>1, HeldAppend
      <4>2. P(k)
        BY <3>2, <3>5, <4>1
      <4> QED BY <4>2 DEF k
    <3> QED BY <3>3, <3>4, <3>5
  <2> QED BY <1>3, <2>2, <2>3
<1> HIDE DEF P
<1>4. 0 \in S /\ \A l \in S : l + 1 \in S
  <2>1. ASSUME NEW l \in S
        PROVE  l + 1 \in S
    <3>1. l + 1 \in 0..Layers => l \in 0..Layers /\ l + 1 \in 1..Layers
      BY LlamaStackAssumption
    <3> QED BY <1>3, <3>1
  <2> QED BY <1>2, <2>1
<1>5. S = Nat
  <2> HIDE DEF S
  <2>1. S \in SUBSET Nat
    BY DEF S
  <2> QED BY <1>4, <2>1, Induction
<1>6. P(Layers)
  <2>1. Layers \in Nat /\ Layers \in 0..Layers
    BY LlamaStackAssumption
  <2> QED BY <1>5, <2>1
<1>7. \/ ~ok /\ Raised(run[Layers].hidden)
      \/ run[Layers].hidden = Y[Layers] /\ Held(run[Layers].caches, Layers, FALSE, xs, r, m)
  BY <1>6 DEF P
<1> QED BY <1>0, <1>1, <1>7 DEF StackFilled

-----------------------------------------------------------------------------
(* Answers of the stack. *)

(* What the stack answers for a row of its last layer. *)
Headed(row, logits) ==
    LET final == IF model.stack THEN Normed(row, <<"final_norm">>) ELSE row
    IN  IF logits THEN Term(<<"lm_head">>, <<final>>) ELSE final

(* The specification row by row. *)
LEMMA DenotationIs ==
  ASSUME NEW xs, NEW r, NEW logits
  PROVE  /\ DOMAIN Denotation(xs, r, logits) = DOMAIN xs
         /\ \A i \in DOMAIN xs : Denotation(xs, r, logits)[i] = Headed(Through(xs, r)[Depth][i], logits)
  BY DEF Denotation, Headed

(* The final norm, whichever its backend. *)
LEMMA FinalNormIs ==
  ASSUME NEW hidden, NEW backend \in {"reference", "metal"}, NEW call
  PROVE  FinalNorm(hidden, backend, call) = reference_rms_norm(hidden, <<"final_norm">>)
  BY DEF FinalNorm, rms_norm, Accepts, Guarded

(* The answer of layers that raised raises. *)
LEMMA HeadRaises ==
  ASSUME NEW run, NEW backend \in {"reference", "metal"}, NEW return_logits, NEW call, Raised(run.hidden)
  PROVE  Raised(Answer(run, backend, return_logits, call).rows)
<1> DEFINE h == run.hidden
           f == reference_rms_norm(h, <<"final_norm">>)
<1>1. PICK i \in DOMAIN h : h[i] = Raise
  BY DEF Raised
<1>2. f[i] = Raise /\ i \in DOMAIN f
  BY <1>1, OpOne DEF reference_rms_norm, Each
<1> HIDE DEF f
<1>3. logits_from_hidden(f)[i] = Raise /\ i \in DOMAIN logits_from_hidden(f)
  BY <1>2, OpOne DEF logits_from_hidden, Each
<1>4. Raised(f) /\ Raised(logits_from_hidden(f))
  BY <1>2, <1>3 DEF Raised
<1>5. FinalNorm(run.hidden, backend, call) = f
  BY FinalNormIs DEF f
<1> QED BY <1>4, <1>5 DEF Answer

(* The final norm and the head give the answer of the specification. *)
LEMMA HeadYields ==
  ASSUME model.stack, NEW run, NEW backend \in {"reference", "metal"}, NEW return_logits, NEW call, Clean(run.hidden),
         NEW logits, logits <=> model.lm_head /\ return_logits
  PROVE  Answer(run, backend, return_logits, call).rows = [i \in DOMAIN run.hidden |-> Headed(run.hidden[i], logits)]
<1> DEFINE h == run.hidden
           f == reference_rms_norm(h, <<"final_norm">>)
           e == [i \in DOMAIN h |-> Normed(h[i], <<"final_norm">>)]
<1>1. f = e
  <2>1. \A i \in DOMAIN h : Op(<<"rms_norm", <<"final_norm">>>>, <<h[i]>>) = Normed(h[i], <<"final_norm">>)
    BY OpOne DEF Normed, Clean, Proper
  <2> QED BY <2>1 DEF reference_rms_norm, Each
<1>2. Clean(e) /\ DOMAIN e = DOMAIN h
  BY ProperTerms DEF Clean
<1>3. FinalNorm(h, backend, call) = f
  BY FinalNormIs
<1> HIDE DEF h, f
<1>4. CASE logits
  <2>1. logits_from_hidden(e) = [i \in DOMAIN h |-> Term(<<"lm_head">>, <<e[i]>>)]
    <3> HIDE DEF e
    <3>1. \A i \in DOMAIN h : Op(<<"lm_head">>, <<e[i]>>) = Term(<<"lm_head">>, <<e[i]>>)
      BY <1>2, OpOne DEF Clean, Proper
    <3> QED BY <1>2, <3>1 DEF logits_from_hidden, Each
  <2>2. [i \in DOMAIN h |-> Term(<<"lm_head">>, <<e[i]>>)] = [i \in DOMAIN h |-> Headed(h[i], logits)]
    BY <1>4 DEF Headed
  <2>3. Answer(run, backend, return_logits, call).rows = logits_from_hidden(e)
    BY <1>1, <1>3, <1>4 DEF Answer, h
  <2> QED BY <2>1, <2>2, <2>3 DEF h
<1>5. CASE ~logits
  <2>1. Answer(run, backend, return_logits, call).rows = e
    BY <1>1, <1>3, <1>5 DEF Answer, h
  <2>2. e = [i \in DOMAIN h |-> Headed(h[i], logits)]
    BY <1>5 DEF Headed
  <2> QED BY <2>1, <2>2 DEF h
<1> QED BY <1>4, <1>5

(* ... one row for each row. *)
LEMMA HeadRows ==
  ASSUME NEW run, NEW n, IsRows(run.hidden, n), NEW backend \in {"reference", "metal"}, NEW return_logits, NEW call
  PROVE  IsRows(Answer(run, backend, return_logits, call).rows, n)
<1> DEFINE f == reference_rms_norm(run.hidden, <<"final_norm">>)
<1>1. DOMAIN run.hidden = 1..n /\ n \in Nat
  BY DEF IsRows
<1>2. FinalNorm(run.hidden, backend, call) = f
  BY FinalNormIs
<1>3. IsRows(f, n)
  BY <1>1 DEF reference_rms_norm, Each, IsRows
<1> HIDE DEF f
<1>4. IsRows(logits_from_hidden(f), n)
  <2>1. DOMAIN f = 1..n
    BY <1>3 DEF IsRows
  <2> QED BY <1>1, <2>1 DEF logits_from_hidden, Each, IsRows
<1> QED BY <1>2, <1>3, <1>4 DEF Answer

(* An answer that raised, or that gives the k rows after position p and leaves
   caches that hold the tokens up to them. *)
Answers(answer, depth, paged, xs, r, logits, p, k, ok) ==
    \/ ~ok /\ Raised(answer.rows)
    \/ /\ IsRows(answer.rows, k) /\ \A i \in 1..k : answer.rows[i] = Denotation(xs, r, logits)[p + i]
       /\ ~Raised(answer.rows) /\ Held(answer.caches, depth, paged, xs, r, p + k)

(* It is an expression. *)
LEMMA HeadedProper ==
  ASSUME NEW row, Proper(row), NEW logits
  PROVE  Proper(Headed(row, logits))
  BY ProperTerms DEF Headed

(* From the layers to the answer. *)
LEMMA RunAnswers ==
  ASSUME model.stack, NEW run, NEW backend \in {"reference", "metal"}, NEW return_logits, NEW call,
         NEW logits, logits <=> model.lm_head /\ return_logits, NEW ok, NEW paged, NEW xs, NEW r,
         NEW p \in Nat, NEW k \in Nat, \A i \in 1..k : p + i \in DOMAIN xs /\ Proper(Through(xs, r)[Layers][p + i]),
         \/ ~ok /\ Raised(run.hidden)
         \/ /\ IsRows(run.hidden, k) /\ \A i \in 1..k : run.hidden[i] = Through(xs, r)[Layers][p + i]
            /\ Held(run.caches, Layers, paged, xs, r, p + k)
  PROVE  Answers(Answer(run, backend, return_logits, call), Layers, paged, xs, r, logits, p, k, ok)
<1> DEFINE answer == Answer(run, backend, return_logits, call)
<1>1. answer.caches = run.caches
  BY DEF Answer
<1>2. CASE ~ok /\ Raised(run.hidden)
  <2>1. Raised(answer.rows)
    BY <1>2, HeadRaises
  <2> HIDE DEF answer
  <2>2. Answers(answer, Layers, paged, xs, r, logits, p, k, ok)
    BY <1>2, <2>1 DEF Answers
  <2> QED BY <2>2 DEF answer
<1>3. CASE /\ IsRows(run.hidden, k) /\ \A i \in 1..k : run.hidden[i] = Through(xs, r)[Layers][p + i]
           /\ Held(run.caches, Layers, paged, xs, r, p + k)
  <2>1. Clean(run.hidden) /\ DOMAIN run.hidden = 1..k
    BY <1>3 DEF Clean, IsRows
  <2>2. answer.rows = [i \in DOMAIN run.hidden |-> Headed(run.hidden[i], logits)]
    BY <2>1, HeadYields
  <2> HIDE DEF answer
  <2>3. IsRows(answer.rows, k) /\ \A i \in 1..k : answer.rows[i] = Headed(run.hidden[i], logits) /\ Proper(answer.rows[i])
    BY <2>1, <2>2, HeadedProper DEF IsRows, Clean
  <2>4. \A i \in 1..k : Headed(run.hidden[i], logits) = Denotation(xs, r, logits)[p + i]
    BY <1>3, DenotationIs DEF Depth
  <2>5. ~Raised(answer.rows)
    BY <2>3 DEF Raised, Proper, IsRows
  <2>6. Answers(answer, Layers, paged, xs, r, logits, p, k, ok)
    BY <1>1, <1>3, <2>3, <2>4, <2>5 DEF Answers
  <2> QED BY <2>6 DEF answer
<1> QED BY <1>2, <1>3

(* A call that must not raise is one that fits: a decode step. *)
StepAllows(ok, p, paged, b, call) == ok => StepFits(p, paged, b, call)

(* A decode step of the stack. *)
StackStep(xs, cs, p, b, backend, return_logits, call) ==
    Answer(DecodeLayers(<<xs[p + 1]>>, cs, p, b, call), backend, return_logits, call)

(* An answer of one row. *)
AnswersRow(answer, depth, paged, xs, r, logits, p, ok) ==
    Answers(answer, depth, paged, xs, r, logits, p, 1, ok) /\ IsRows(answer.rows, 1)

(* A decode step of the stack answers as specified. *)
LEMMA StepAnswers ==
  ASSUME model.stack, NEW paged \in BOOLEAN, NEW cs, NEW xs, NEW r, NEW p, Held(cs, Layers, paged, xs, r, p), Fed(xs, r, p),
         NEW ok, NEW b, NEW call, call.grouped \in BOOLEAN, StepAllows(ok, p, paged, b, call),
         NEW backend \in {"reference", "metal"}, NEW return_logits, NEW logits, logits <=> model.lm_head /\ return_logits
  PROVE  AnswersRow(StackStep(xs, cs, p, b, backend, return_logits, call), Layers, paged, xs, r, logits, p, ok)
<1> DEFINE run == DecodeLayers(<<xs[p + 1]>>, cs, p, b, call)
<1>1. StackServed(run, paged, xs, r, p, ok)
  BY DecodeLayersServes DEF StepAllows
<1> HIDE DEF run
<1>2. p \in Nat /\ 1 \in Nat
  BY DEF Fed
<1>3. \A i \in 1..1 : p + i \in DOMAIN xs /\ Proper(Through(xs, r)[Layers][p + i])
  <2>1. DOMAIN xs = 1..Len(xs) /\ Len(xs) \in Nat
    BY DEF Fed, IsRows
  <2>2. Layers \in 0..Layers
    BY LlamaStackAssumption
  <2>3. Proper(Through(xs, r)[Layers][p + 1])
    BY <2>2, RowUnraised
  <2> QED BY <2>1, <2>3 DEF Fed
<1>4. \/ ~ok /\ Raised(run.hidden)
      \/ /\ IsRows(run.hidden, 1) /\ \A i \in 1..1 : run.hidden[i] = Through(xs, r)[Layers][p + i]
         /\ Held(run.caches, Layers, paged, xs, r, p + 1)
  <2>1. Raised(<<Raise>>)
    BY DEF Raised
  <2> QED BY <1>1, <2>1 DEF StackServed, IsRows
<1>5. Answers(Answer(run, backend, return_logits, call), Layers, paged, xs, r, logits, p, 1, ok)
  BY <1>2, <1>3, <1>4, RunAnswers
<1>6. IsRows(run.hidden, 1)
  BY <1>1 DEF StackServed, IsRows
<1>7. IsRows(Answer(run, backend, return_logits, call).rows, 1)
  BY <1>6, HeadRows
<1> QED BY <1>5, <1>7 DEF run, StackStep, AnswersRow

(* So does a prefill of the stack. *)
LEMMA PromptAnswers ==
  ASSUME model.stack, NEW paged \in BOOLEAN, ~paged, NEW cs, \A l \in 1..Layers : Roomy(cs[l]), NEW xs, NEW r, NEW m, PromptOf(xs, r, m), NEW b,
         NEW start_position \in Nat, NEW call, NEW ok, ok => PromptFits(b, m, start_position, call),
         NEW backend \in {"reference", "metal"}, NEW return_logits, NEW logits, logits <=> model.lm_head /\ return_logits
  PROVE  Answers(Answer(PrefillLayers(xs, cs, b, start_position, call), backend, return_logits, call),
                 Layers, paged, xs, r, logits, 0, m, ok)
<1> DEFINE run == PrefillLayers(xs, cs, b, start_position, call)
<1>0. m \in Nat /\ DOMAIN xs = 1..m /\ Clean(xs) /\ 0 \in Nat /\ paged = FALSE
  BY DEF PromptOf, IsRows
<1>1. StackFilled(run, xs, r, m, ok)
  BY PrefillLayersFill
<1> HIDE DEF run
<1>2. Clean(Through(xs, r)[Layers]) /\ DOMAIN Through(xs, r)[Layers] = 1..m
  <2>1. Layers \in 0..Layers
    BY LlamaStackAssumption
  <2> QED BY <1>0, <2>1, ThroughClean
<1>3. \A i \in 1..m : 0 + i \in DOMAIN xs /\ Proper(Through(xs, r)[Layers][0 + i])
  BY <1>0, <1>2 DEF Clean
<1>4. \/ ~ok /\ Raised(run.hidden)
      \/ /\ IsRows(run.hidden, m) /\ \A i \in 1..m : run.hidden[i] = Through(xs, r)[Layers][0 + i]
         /\ Held(run.caches, Layers, paged, xs, r, 0 + m)
  <2>1. IsRows(Through(xs, r)[Layers], m)
    <3>1. Layers \in 1..Layers
      BY LlamaStackAssumption
    <3>2. Through(xs, r)[Layers] = Transformed(Through(xs, r)[Layers - 1], Layers, r)
      BY <3>1, ThroughStep
    <3>3. Through(xs, r)[Layers] = [i \in DOMAIN Through(xs, r)[Layers] |-> Through(xs, r)[Layers][i]]
      BY <3>2 DEF Transformed
    <3> QED BY <1>0, <1>2, <3>3 DEF IsRows
  <2>2. 0 + m = m /\ \A i \in 1..m : 0 + i = i
    BY <1>0
  <2> QED BY <1>0, <1>1, <2>1, <2>2 DEF StackFilled
<1>5. Answers(Answer(run, backend, return_logits, call), Layers, paged, xs, r, logits, 0, m, ok)
  BY <1>0, <1>3, <1>4, RunAnswers
<1> QED BY <1>5 DEF run

(* The steps of the presets. *)
PresetFits(preset, position, paged, call) ==
    /\ HalfPrecision(call) /\ position < MAX_S /\ position + 1 <= RopeRows
    /\ preset = "reference" \/ ~paged \/ call.grouped

(* The presets name backends that the functions they reach accept. *)
LEMMA PresetSteps ==
  ASSUME NEW preset \in Presets, NEW paged \in BOOLEAN, NEW call, call.grouped \in BOOLEAN, NEW position
  PROVE  PresetFits(preset, position, paged, call) => StepFits(position, paged, _preset_to_backend_config(preset), call)
  BY DEF Presets, PresetFits, StepFits, _preset_to_backend_config, reference_backend_config, metal_backend_config,
         tiled_backend_config, fused_experimental_backend_config, BackendConfig, LayerFits, GqaBackends,
         MatvecNames, MatvecBackends

(* A call with a preset that must not raise is one that fits. *)
PresetAllows(ok, preset, p, paged, call) == ok => PresetFits(preset, p, paged, call)

(* A decode step with a preset. *)
PresetStep(xs, cs, p, preset, return_logits, call) ==
    llama_stack_decode_step(<<xs[p + 1]>>, cs, p, preset, return_logits, call)

(* llama_stack_decode_step answers as specified, whichever the preset. *)
LEMMA PresetStepAnswers ==
  ASSUME model.stack, NEW paged \in BOOLEAN, NEW cs, NEW xs, NEW r, NEW p, Held(cs, Layers, paged, xs, r, p), Fed(xs, r, p),
         NEW ok, NEW preset \in Presets, NEW call, call.grouped \in BOOLEAN, PresetAllows(ok, preset, p, paged, call),
         NEW return_logits, NEW logits, logits <=> model.lm_head /\ return_logits
  PROVE  AnswersRow(PresetStep(xs, cs, p, preset, return_logits, call), Layers, paged, xs, r, logits, p, ok)
<1> DEFINE b == _preset_to_backend_config(preset)
<1>1. StepAllows(ok, p, paged, b, call)
  BY PresetSteps DEF StepAllows, PresetAllows
<1>2. "metal" \in {"reference", "metal"}
  OBVIOUS
<1> HIDE DEF b
<1>3. AnswersRow(StackStep(xs, cs, p, b, "metal", return_logits, call), Layers, paged, xs, r, logits, p, ok)
  BY <1>1, <1>2, StepAnswers
<1> QED BY <1>3 DEF llama_stack_decode_step, PresetStep, StackStep, b

(* The reference's decode step. *)
ReferenceStep(xs, cs, p, call) == reference_llama_stack_decode_step(<<xs[p + 1]>>, cs, p, call)

(* So does reference_llama_stack_decode_step. *)
LEMMA ReferenceStepAnswers ==
  ASSUME model.stack, NEW paged \in BOOLEAN, NEW cs, NEW xs, NEW r, NEW p, Held(cs, Layers, paged, xs, r, p), Fed(xs, r, p),
         NEW ok, NEW call, call.grouped \in BOOLEAN, PresetAllows(ok, "reference", p, paged, call),
         NEW logits, logits <=> model.lm_head
  PROVE  AnswersRow(ReferenceStep(xs, cs, p, call), Layers, paged, xs, r, logits, p, ok)
<1> DEFINE b == reference_backend_config
<1>1. StepAllows(ok, p, paged, b, call)
  BY PresetSteps DEF Presets, _preset_to_backend_config, StepAllows, PresetAllows
<1>0. PICK always : always = TRUE
  OBVIOUS
<1>2. "reference" \in {"reference", "metal"} /\ (logits <=> model.lm_head /\ always)
  BY <1>0
<1> HIDE DEF b
<1>3. AnswersRow(StackStep(xs, cs, p, b, "reference", always, call), Layers, paged, xs, r, logits, p, ok)
  BY <1>1, <1>2, StepAnswers
<1> QED BY <1>0, <1>3 DEF reference_llama_stack_decode_step, ReferenceStep, StackStep, b

-----------------------------------------------------------------------------
(* Loops of tokens. *)

(* One token more in a loop. *)
LEMMA FurtherAnswers ==
  ASSUME NEW before, NEW step, NEW depth, NEW paged, NEW xs, NEW r, NEW logits, NEW p \in Nat, NEW t \in Nat, NEW ok,
         Answers(before, depth, paged, xs, r, logits, p, t, ok), ~Raised(before.rows),
         NEW q, q = p + t, AnswersRow(step, depth, paged, xs, r, logits, q, ok), NEW t1, t1 = t + 1
  PROVE  Answers(Further(before.rows, step), depth, paged, xs, r, logits, p, t1, ok)
<1> DEFINE d == Denotation(xs, r, logits)
           s == before.rows
           e == step.rows
           u == s \o e
           further == Further(s, step)
<1>1. IsRows(s, t) /\ \A i \in 1..t : s[i] = d[p + i]
  BY DEF Answers
<1>2. IsRows(e, 1) /\ Answers(step, depth, paged, xs, r, logits, q, 1, ok)
  BY DEF AnswersRow
<1>3. further.rows = u /\ further.caches = step.caches
  BY DEF Further
<1> HIDE DEF d, s, e
<1>4. Joined(u, s, t, e, 1)
  BY <1>1, <1>2, CatRows
<1> HIDE DEF u, further
<1>5. IsRows(u, t1) /\ u[t1] = e[1] /\ (\A i \in 1..t : u[i] = s[i]) /\ DOMAIN u = 1..t1 /\ t1 \in 1..t1
  <2>1. IsRows(u, t + 1) /\ (\A i \in 1..t : u[i] = s[i]) /\ u[t + 1] = e[1]
    BY <1>4 DEF Joined
  <2>2. DOMAIN u = 1..t1
    BY <2>1 DEF IsRows
  <2>3. t1 \in 1..t1
    OBVIOUS
  <2> QED BY <2>1, <2>2, <2>3
<1>6. CASE ~ok /\ Raised(e)
  <2>1. e[1] = Raise
    BY <1>2, <1>6 DEF Raised, IsRows
  <2>2. Raised(u)
    BY <1>5, <2>1 DEF Raised
  <2> QED BY <1>3, <1>6, <2>2 DEF Answers, further, s
<1>7. CASE e[1] = d[q + 1] /\ ~Raised(e) /\ Held(step.caches, depth, paged, xs, r, q + 1)
  <2>1. q + 1 = p + t1
    OBVIOUS
  <2>2. \A i \in 1..t1 : u[i] = d[p + i]
    <3>1. ASSUME NEW i \in 1..t1
          PROVE  u[i] = d[p + i]
      <4>1. CASE i = t1
        BY <1>5, <1>7, <2>1, <4>1
      <4>2. CASE i \in 1..t
        BY <1>1, <1>5, <4>2
      <4>3. i = t1 \/ i \in 1..t
        OBVIOUS
      <4> QED BY <4>1, <4>2, <4>3
    <3> QED BY <3>1
  <2>3. ~Raised(u)
    <3>1. \A i \in 1..t : s[i] # Raise
      BY <1>1 DEF Raised, s, IsRows
    <3>2. e[1] # Raise
      BY <1>2, <1>7 DEF Raised, IsRows
    <3>3. ASSUME NEW i \in 1..t1
          PROVE  u[i] # Raise
      <4>1. i = t1 \/ i \in 1..t
        OBVIOUS
      <4> QED BY <1>5, <3>1, <3>2, <4>1
    <3> QED BY <1>5, <3>3 DEF Raised
  <2>4. Held(further.caches, depth, paged, xs, r, p + t1)
    BY <1>3, <1>7, <2>1
  <2>5. Answers(further, depth, paged, xs, r, logits, p, t1, ok)
    BY <1>3, <1>5, <2>2, <2>3, <2>4 DEF Answers, d
  <2> QED BY <2>5 DEF further, s
<1>8. \/ ~ok /\ Raised(e)
      \/ e[1] = d[q + 1] /\ ~Raised(e) /\ Held(step.caches, depth, paged, xs, r, q + 1)
  BY <1>2 DEF Answers, d, e
<1> QED BY <1>6, <1>7, <1>8

(* Tokens ys that are those of xs from position p on. *)
FedRow(xs, r, p, ys, t) == Fed(xs, r, p + t) /\ ys[t + 1] = xs[p + t + 1]

(* A loop of decode steps answers as specified for every number of tokens: by
   induction on them. *)
LEMMA LoopAnswers ==
  ASSUME model.stack, NEW paged \in BOOLEAN, NEW cs, NEW xs, NEW r, NEW p \in Nat, Held(cs, Layers, paged, xs, r, p),
         NEW k, NEW ys, IsRows(ys, k), \A t \in 0..(k - 1) : FedRow(xs, r, p, ys, t),
         NEW ok, NEW preset \in Presets, NEW call, call.grouped \in BOOLEAN,
         \A t \in 0..(k - 1) : PresetAllows(ok, preset, p + t, paged, call),
         NEW return_logits, NEW logits, logits <=> model.lm_head /\ return_logits
  PROVE  Answers(DecodeFrom(p, ys, cs, preset, return_logits, call), Layers, paged, xs, r, logits, p, k, ok)
<1>0. Len(ys) = k /\ k \in Nat
  BY RowsLen DEF IsRows
<1>1. PICK run : IsLoop(run, DecodeFrom(p, ys, cs, preset, return_logits, call), p, ys, cs, preset, return_logits, call)
  BY <1>0, DecodeFromRun
<1> DEFINE D == DecodeFrom(p, ys, cs, preset, return_logits, call)
<1> HIDE DEF D
<1>2. /\ D = run[k]
      /\ run[0] = [rows |-> <<>>, caches |-> cs]
      /\ \A t \in 1..k : run[t] = IF Raised(run[t - 1].rows) THEN run[t - 1] ELSE Further(run[t - 1].rows,
            llama_stack_decode_step(<<ys[t]>>, run[t - 1].caches, p + (t - 1), preset, return_logits, call))
  BY <1>0, <1>1 DEF IsLoop, D
<1> DEFINE P(t) == Answers(run[t], Layers, paged, xs, r, logits, p, t, ok)
           S == {t \in Nat : t \in 0..k => P(t)}
<1>3. P(0)
  <2>1. run[0].rows = <<>> /\ run[0].caches = cs /\ p + 0 = p
    BY <1>2
  <2>2. IsRows(<<>>, 0) /\ ~Raised(<<>>)
    BY DEF IsRows, Raised
  <2> QED BY <2>1, <2>2 DEF Answers
<1>4. ASSUME NEW t \in Nat, t + 1 \in 1..k, P(t)
      PROVE  P(t + 1)
  <2> DEFINE t1 == t + 1
             q == p + t
             step == PresetStep(xs, run[t].caches, q, preset, return_logits, call)
  <2>0. t1 - 1 = t /\ t1 \in 1..k /\ t \in 0..(k - 1) /\ q \in Nat
    BY <1>0, <1>4
  <2>1. FedRow(xs, r, p, ys, t) /\ PresetAllows(ok, preset, q, paged, call)
    BY <2>0
  <2>2. Fed(xs, r, q) /\ ys[t1] = xs[q + 1]
    BY <2>1 DEF FedRow
  <2>3. run[t1] = IF Raised(run[t].rows) THEN run[t] ELSE Further(run[t].rows, step)
    <3>1. run[t1] = IF Raised(run[t].rows) THEN run[t] ELSE Further(run[t].rows,
                        llama_stack_decode_step(<<ys[t1]>>, run[t].caches, p + t, preset, return_logits, call))
      <4> HIDE DEF t1, q
      <4> QED BY <1>2, <2>0
    <3> QED BY <2>2, <3>1 DEF PresetStep
  <2>4. CASE Raised(run[t].rows)
    BY <1>4, <2>3, <2>4 DEF Answers
  <2>5. CASE ~Raised(run[t].rows)
    <3> HIDE DEF q
    <3>1. Held(run[t].caches, Layers, paged, xs, r, q)
      BY <1>4, <2>5 DEF Answers, q
    <3>2. AnswersRow(step, Layers, paged, xs, r, logits, q, ok)
      BY <2>1, <2>2, <3>1, PresetStepAnswers
    <3> HIDE DEF step
    <3>3. Answers(Further(run[t].rows, step), Layers, paged, xs, r, logits, p, t1, ok)
      <4>1. q = p + t /\ t1 = t + 1
        BY DEF q
      <4> HIDE DEF t1
      <4> QED BY <1>4, <2>5, <3>2, <4>1, FurtherAnswers
    <3> QED BY <2>3, <2>5, <3>3
  <2> QED BY <2>4, <2>5
<1> HIDE DEF P
<1>5. 0 \in S /\ \A t \in S : t + 1 \in S
  <2>1. ASSUME NEW t \in S
        PROVE  t + 1 \in S
    <3>1. t + 1 \in 0..k => t \in 0..k /\ t + 1 \in 1..k
      BY <1>0
    <3> QED BY <1>4, <3>1
  <2> QED BY <1>3, <2>1
<1>6. S = Nat
  <2> HIDE DEF S
  <2>1. S \in SUBSET Nat
    BY DEF S
  <2> QED BY <1>5, <2>1, Induction
<1>7. P(k)
  <2>1. k \in 0..k
    BY <1>0
  <2> QED BY <1>0, <1>6, <2>1
<1> QED BY <1>2, <1>7 DEF P, D

(* A prompt a call may bring. *)
PromptAllows(ok, m, start_position, call) ==
    ok => HalfPrecision(call) /\ start_position = 0 /\ m <= MAX_S /\ m <= RopeRows

(* The presets of a prefill name backends that it accepts. *)
LEMMA PrefillPresets ==
  ASSUME NEW preset \in Presets
  PROVE  LET b == _prefill_backend_from_preset(preset)
         IN  /\ b.norm \in {"reference", "metal"} /\ LayerFits(b) /\ b.out_matvec \in MatvecNames
             /\ b.attention \in {"reference", "metal_gqa", "metal_gqa_threadgroup"}
  BY DEF Presets, _prefill_backend_from_preset, reference_prefill_backend_config, metal_prefill_backend_config,
         tiled_prefill_backend_config, fused_experimental_prefill_backend_config, BackendConfig, LayerFits,
         MatvecNames, MatvecBackends

(* prefill_token_ids answers as specified, whichever the preset. *)
LEMMA PrefillTokenIdsAnswers ==
  ASSUME model.stack, NEW paged \in BOOLEAN, ~paged, NEW cs, \A l \in 1..Layers : Roomy(cs[l]), NEW xs, NEW r, NEW m, PromptOf(xs, r, m),
         NEW preset \in Presets, NEW start_position \in Nat, NEW call, NEW ok, PromptAllows(ok, m, start_position, call),
         NEW return_logits, NEW logits, logits <=> model.lm_head /\ return_logits
  PROVE  Answers(prefill_token_ids(xs, cs, preset, start_position, return_logits, call), Layers, paged, xs, r, logits, 0, m, ok)
<1> DEFINE b == _prefill_backend_from_preset(preset)
           backend == b.norm
<1>1. (ok => PromptFits(b, m, start_position, call)) /\ backend \in {"reference", "metal"}
  BY PrefillPresets DEF PromptAllows, PromptFits, PrefillFits
<1>2. prefill_token_ids(xs, cs, preset, start_position, return_logits, call)
        = Answer(PrefillLayers(xs, cs, b, start_position, call), backend, return_logits, call)
  BY DEF prefill_token_ids, llama_stack_prefill
<1> HIDE DEF backend
<1> HIDE DEF b
<1>3. Answers(Answer(PrefillLayers(xs, cs, b, start_position, call), backend, return_logits, call),
              Layers, paged, xs, r, logits, 0, m, ok)
  BY <1>1, PromptAnswers
<1> QED BY <1>2, <1>3

(* So does reference_llama_stack_prefill. *)
LEMMA ReferencePrefillAnswers ==
  ASSUME model.stack, NEW paged \in BOOLEAN, ~paged, NEW cs, \A l \in 1..Layers : Roomy(cs[l]), NEW xs, NEW r, NEW m, PromptOf(xs, r, m),
         NEW start_position \in Nat, NEW call, NEW ok, PromptAllows(ok, m, start_position, call),
         NEW logits, logits <=> model.lm_head
  PROVE  Answers(reference_llama_stack_prefill(xs, cs, start_position, call), Layers, paged, xs, r, logits, 0, m, ok)
<1> DEFINE b == reference_prefill_backend_config
<1>0. PICK always : always = TRUE
  OBVIOUS
<1>1. (ok => PromptFits(b, m, start_position, call)) /\ "reference" \in {"reference", "metal"}
      /\ (logits <=> model.lm_head /\ always)
  BY <1>0, PrefillPresets DEF PromptAllows, PromptFits, PrefillFits, Presets, _prefill_backend_from_preset
<1>2. reference_llama_stack_prefill(xs, cs, start_position, call)
        = Answer(PrefillLayers(xs, cs, b, start_position, call), "reference", always, call)
  BY <1>0 DEF reference_llama_stack_prefill
<1> HIDE DEF b
<1>3. Answers(Answer(PrefillLayers(xs, cs, b, start_position, call), "reference", always, call),
              Layers, paged, xs, r, logits, 0, m, ok)
  BY <1>1, PromptAnswers
<1> QED BY <1>2, <1>3

(* Tokens fed one by one from position p on. *)
FedFrom(xs, r, p, ys, k) == IsRows(ys, k) /\ \A t \in 0..(k - 1) : FedRow(xs, r, p, ys, t)

(* A loop that must not raise is one whose steps fit. *)
LoopAllows(ok, preset, p, k, paged, call) == \A t \in 0..(k - 1) : PresetAllows(ok, preset, p + t, paged, call)

(* parallel_verify_tokens answers as specified. *)
LEMMA VerifyAnswers ==
  ASSUME model.stack, NEW paged \in BOOLEAN, NEW cs, NEW xs, NEW r, NEW p \in Nat, Held(cs, Layers, paged, xs, r, p),
         NEW k, NEW ys, FedFrom(xs, r, p, ys, k), NEW ok, NEW preset \in Presets, NEW call, call.grouped \in BOOLEAN,
         LoopAllows(ok, preset, p, k, paged, call), NEW logits, logits <=> model.lm_head
  PROVE  Answers(parallel_verify_tokens(ys, cs, p, preset, call), Layers, paged, xs, r, logits, p, k, ok)
<1>0. PICK always : always = TRUE
  OBVIOUS
<1>1. logits <=> model.lm_head /\ always
  BY <1>0
<1>2. Answers(DecodeFrom(p, ys, cs, preset, always, call), Layers, paged, xs, r, logits, p, k, ok)
  BY <1>1, LoopAnswers DEF FedFrom, LoopAllows
<1> QED BY <1>0, <1>2 DEF parallel_verify_tokens

(* So does llama_stack_decode_loop. *)
LEMMA DecodeLoopAnswers ==
  ASSUME model.stack, NEW paged \in BOOLEAN, NEW cs, NEW xs, NEW r, Held(cs, Layers, paged, xs, r, 0),
         NEW k, NEW ys, FedFrom(xs, r, 0, ys, k), NEW ok, NEW preset \in Presets, NEW call, call.grouped \in BOOLEAN,
         LoopAllows(ok, preset, 0, k, paged, call), NEW return_logits, NEW logits, logits <=> model.lm_head /\ return_logits
  PROVE  Answers(llama_stack_decode_loop(ys, cs, preset, return_logits, call), Layers, paged, xs, r, logits, 0, k, ok)
<1>0. PICK zero \in Nat : zero = 0
  OBVIOUS
<1>1. /\ Held(cs, Layers, paged, xs, r, zero) /\ IsRows(ys, k)
      /\ \A t \in 0..(k - 1) : FedRow(xs, r, zero, ys, t) /\ PresetAllows(ok, preset, zero + t, paged, call)
  BY <1>0 DEF FedFrom, LoopAllows
<1>2. Answers(DecodeFrom(zero, ys, cs, preset, return_logits, call), Layers, paged, xs, r, logits, zero, k, ok)
  BY <1>1, LoopAnswers
<1> QED BY <1>0, <1>2 DEF llama_stack_decode_loop

-----------------------------------------------------------------------------
(* Answers of one layer. *)

(* A model of one layer, and its cache, which holds the tokens before position p. *)
SingleLayer == ~model.stack /\ model.mlx

(* Its answer is that of the first layer. *)
LEMMA FirstLayer ==
  ASSUME SingleLayer, NEW xs, NEW r, NEW logits, ~logits
  PROVE  /\ 1 \in 1..Layers /\ Through(xs, r)[0] = xs /\ DOMAIN Denotation(xs, r, logits) = DOMAIN xs
         /\ \A i \in DOMAIN xs : Denotation(xs, r, logits)[i] = Layered(xs, 1, r, i)
<1>1. 1 \in 1..Layers /\ Depth = 1
  BY LlamaStackAssumption DEF Depth, SingleLayer
<1>2. Through(xs, r)[0] = xs /\ Through(xs, r)[1] = Transformed(xs, 1, r)
  <2>1. PICK k : k = 1 /\ k \in 1..Layers /\ k - 1 = 0
    BY <1>1
  <2>2. Through(xs, r)[0] = xs /\ Through(xs, r)[k] = Transformed(Through(xs, r)[k - 1], k, r)
    BY <2>1, ThroughStep
  <2> QED BY <2>1, <2>2
<1>3. \A i \in DOMAIN xs : Transformed(xs, 1, r)[i] = Layered(xs, 1, r, i)
  BY TransformedRows
<1>4. \A i \in DOMAIN xs : Denotation(xs, r, logits)[i] = Headed(Through(xs, r)[Depth][i], logits)
  BY DenotationIs
<1>5. \A row : Headed(row, logits) = row
  BY DEF Headed, SingleLayer
<1>6. DOMAIN Denotation(xs, r, logits) = DOMAIN xs
  BY DenotationIs
<1> QED BY <1>1, <1>2, <1>3, <1>4, <1>5, <1>6

(* Its one cache as the caches of a stack of one layer. *)
LEMMA OneCache ==
  ASSUME SingleLayer, NEW c, NEW paged, NEW xs, NEW r, NEW m, Holds(c, paged, xs, 1, r, m)
  PROVE  Held(<<c>>, 1, paged, xs, r, m)
<1>0. PICK logits : logits = FALSE
  OBVIOUS
<1>1. Through(xs, r)[0] = xs
  BY <1>0, FirstLayer
<1>2. IsRows(<<c>>, 1)
  BY DEF IsRows
<1>3. ASSUME NEW l \in 1..1
      PROVE  Holds(<<c>>[l], paged, Through(xs, r)[l - 1], l, r, m)
  <2>1. l = 1 /\ l - 1 = 0 /\ <<c>>[l] = c
    OBVIOUS
  <2> QED BY <1>1, <2>1
<1> QED BY <1>2, <1>3 DEF Held

(* ... and back. *)
LEMMA CacheOfLayer ==
  ASSUME SingleLayer, NEW cs, NEW paged, NEW xs, NEW r, NEW m, Held(cs, 1, paged, xs, r, m)
  PROVE  Holds(cs[1], paged, xs, 1, r, m)
<1>0. PICK logits : logits = FALSE
  OBVIOUS
<1>1. Through(xs, r)[0] = xs
  BY <1>0, FirstLayer
<1>2. \A l \in 1..1 : Holds(cs[l], paged, Through(xs, r)[l - 1], l, r, m)
  BY DEF Held
<1>3. PICK k \in 1..1 : k = 1 /\ k - 1 = 0
  OBVIOUS
<1>4. Holds(cs[k], paged, Through(xs, r)[k - 1], k, r, m)
  BY <1>2
<1> QED BY <1>1, <1>3, <1>4

(* The cache holds what comes before the token fed. *)
LEMMA HoldsBefore ==
  ASSUME SingleLayer, NEW c, NEW paged, NEW xs, NEW r, NEW p, Holds(c, paged, xs, 1, r, p), Fed(xs, r, p)
  PROVE  Before(c, Slots(c), xs, 1, r, p) /\ Rotates(r, p)
<1>1. 1 \in 1..Layers
  BY LlamaStackAssumption
<1>2. Proper(xs[p + 1])
  <2>1. DOMAIN xs = 1..Len(xs) /\ Len(xs) \in Nat /\ p + 1 \in 1..Len(xs)
    BY DEF Fed, IsRows
  <2> QED BY <2>1 DEF Fed, Clean
<1> QED BY <1>1, <1>2 DEF Holds, Fed, Before, SingleLayer

(* From a served layer to an answer. *)
LEMMA LayerAnswers ==
  ASSUME SingleLayer, NEW c, NEW paged, NEW xs, NEW r, NEW p, Holds(c, paged, xs, 1, r, p), Fed(xs, r, p),
         NEW block, NEW ok, ServesLayer(block, c, Slots(c), xs, 1, r, p, ok), NEW logits, ~logits
  PROVE  AnswersRow(OneLayer(block), 1, paged, xs, r, logits, p, ok)
<1>1. OneLayer(block).rows = block.out /\ OneLayer(block).caches = <<block.cache>>
  BY DEF OneLayer
<1> DEFINE answer == OneLayer(block)
           d == Denotation(xs, r, logits)
<1> HIDE DEF answer
<1>2. CASE ~ok /\ block.out = <<Raise>>
  <2>1. IsRows(<<Raise>>, 1) /\ Raised(<<Raise>>)
    BY DEF IsRows, Raised
  <2> QED BY <1>1, <1>2, <2>1 DEF AnswersRow, Answers, answer
<1>3. CASE CacheServed(block.cache, c, Slots(c), xs, 1, r, p) /\ block.out = <<Layered(xs, 1, r, p + 1)>>
  <2> DEFINE row == Layered(xs, 1, r, p + 1)
             q == p + 1
  <2>1. q \in DOMAIN xs /\ p \in Nat
    BY DEF Fed, IsRows
  <2>2. d[q] = row
    BY <2>1, FirstLayer
  <2>3. Proper(row)
    <3>1. \A i \in DOMAIN xs : Transformed(xs, 1, r)[i] = Layered(xs, 1, r, i)
      BY TransformedRows
    <3>2. Clean(Transformed(xs, 1, r)) /\ DOMAIN Transformed(xs, 1, r) = DOMAIN xs
      BY TransformedRows DEF Fed
    <3> QED BY <2>1, <3>1, <3>2 DEF Clean
  <2> HIDE DEF row, d
  <2>4. answer.rows = <<row>>
    BY <1>1, <1>3 DEF answer, row
  <2>5. IsRows(<<row>>, 1) /\ ~Raised(<<row>>) /\ <<row>>[1] = row
    BY <2>3 DEF IsRows, Raised, Proper
  <2>6. Holds(block.cache, paged, xs, 1, r, q)
    <3>0. Slots(c) \in Nat /\ p < Slots(c) /\ Slots(block.cache) = Slots(c)
      <4>1. IsCache(block.cache, Slots(c)) /\ p < Slots(c) /\ IsCache(c, Slots(c))
        BY <1>3 DEF CacheServed, Holds
      <4>2. Slots(block.cache) = Slots(c) /\ Slots(c) \in Nat
        BY <4>1, CacheSlots
      <4> QED BY <4>1, <4>2
    <3>1. q \in 0..Slots(c)
      BY <2>1, <3>0
    <3> QED BY <1>3, <3>0, <3>1 DEF CacheServed, Holds
  <2>7. Held(<<block.cache>>, 1, paged, xs, r, q)
    BY <2>6, OneCache
  <2>8. \A i \in 1..1 : answer.rows[i] = d[p + i]
    BY <2>2, <2>4, <2>5
  <2>9. Answers(answer, 1, paged, xs, r, logits, p, 1, ok)
    BY <1>1, <2>4, <2>5, <2>7, <2>8 DEF Answers, d, answer
  <2> QED BY <2>4, <2>5, <2>9 DEF AnswersRow, answer
<1> QED BY <1>2, <1>3 DEF ServesLayer, Serves

(* From a prefilled layer to an answer. *)
LEMMA LayerPromptAnswers ==
  ASSUME SingleLayer, NEW paged \in BOOLEAN, ~paged, NEW c, Roomy(c), NEW xs, NEW r, NEW m, PromptOf(xs, r, m),
         NEW block, NEW ok, Prefilled(block, c, Slots(c), xs, 1, r, m, ok), NEW logits, ~logits
  PROVE  Answers(OneLayer(block), 1, paged, xs, r, logits, 0, m, ok)
<1>1. OneLayer(block).rows = block.out /\ OneLayer(block).caches = <<block.cache>>
  BY DEF OneLayer
<1> DEFINE answer == OneLayer(block)
           d == Denotation(xs, r, logits)
           e == LayeredRows(xs, 1, r)
<1> HIDE DEF answer
<1>0. m \in Nat /\ DOMAIN xs = 1..m /\ paged = FALSE
  BY DEF PromptOf, IsRows
<1>2. CASE ~ok /\ Raised(block.out)
  BY <1>1, <1>2 DEF Answers, answer
<1>3. CASE block.out = e /\ CacheFilled(block.cache, c, Slots(c), xs, 1, r, m)
  <2>1. Clean(e) /\ DOMAIN e = 1..m
    <3>1. Transformed(xs, 1, r) = e /\ Clean(Transformed(xs, 1, r)) /\ DOMAIN Transformed(xs, 1, r) = DOMAIN xs
      BY TransformedRows DEF PromptOf
    <3> QED BY <1>0, <3>1
  <2>2. IsRows(e, m) /\ \A i \in 1..m : e[i] = Layered(xs, 1, r, i)
    BY <1>0 DEF IsRows, LayeredRows
  <2>3. \A i \in 1..m : d[i] = Layered(xs, 1, r, i)
    BY <1>0, FirstLayer
  <2>4. ~Raised(e)
    BY <2>1, CleanUnraised
  <2>5. Holds(block.cache, paged, xs, 1, r, m)
    <3>1. PICK n2 \in Nat : /\ n2 >= Slots(c) /\ n2 >= m /\ IsCache(block.cache, n2) /\ block.cache.table = c.table
                            /\ InCache(block.cache, xs, 1, r, m)
      BY <1>3 DEF CacheFilled
    <3>2. Slots(block.cache) = n2
      BY <3>1, CacheSlots
    <3>3. Slots(c) \in Nat /\ MAX_S <= Slots(c) /\ c.table = <<>>
      BY CacheSlots DEF Roomy
    <3>4. MAX_S <= n2 /\ m \in 0..n2
      BY <1>0, <3>1, <3>3, LlamaStackAssumption
    <3> QED BY <1>0, <3>1, <3>2, <3>3, <3>4 DEF Holds
  <2>6. Held(<<block.cache>>, 1, paged, xs, r, m)
    BY <2>5, OneCache
  <2> HIDE DEF e, d
  <2>7. 0 + m = m /\ \A i \in 1..m : 0 + i = i
    BY <1>0
  <2>8. IsRows(answer.rows, m) /\ ~Raised(answer.rows) /\ (\A i \in 1..m : answer.rows[i] = d[0 + i])
    BY <1>1, <1>3, <2>2, <2>3, <2>4, <2>7 DEF answer
  <2> QED BY <1>1, <2>6, <2>7, <2>8 DEF Answers, d, answer
<1> QED BY <1>2, <1>3 DEF Prefilled

(* llama_layer_decode_step answers as specified, whichever the preset. *)
LEMMA LayerStepAnswers ==
  ASSUME SingleLayer, NEW c, NEW paged \in BOOLEAN, NEW xs, NEW r, NEW p, Holds(c, paged, xs, 1, r, p), Fed(xs, r, p),
         NEW ok, NEW preset \in Presets, NEW call, call.grouped \in BOOLEAN, PresetAllows(ok, preset, p, paged, call),
         NEW logits, ~logits
  PROVE  AnswersRow(OneLayer(llama_layer_decode_step(<<xs[p + 1]>>, 1, c, p, _preset_to_backend_config(preset), call)),
                    1, paged, xs, r, logits, p, ok)
<1> DEFINE b == _preset_to_backend_config(preset)
           n == Slots(c)
           block == llama_layer_decode_step(<<xs[p + 1]>>, 1, c, p, b, call)
<1>1. ok => StepFits(p, paged, b, call)
  BY PresetSteps DEF PresetAllows
<1>2. Before(c, n, xs, 1, r, p) /\ Rotates(r, p)
  BY HoldsBefore
<1>3. (c.table # <<>> <=> paged) /\ MAX_S <= n /\ n \in Nat /\ p \in Nat
  BY CacheSlots DEF Holds, Fed
<1> HIDE DEF b
<1>4. ok => /\ HalfPrecision(call) /\ p < n /\ p + 1 <= RopeRows
            /\ LayerFits(b) /\ BlockFits(c, b.attention, call)
  BY <1>1, <1>3, LlamaStackAssumption DEF StepFits, BlockFits
<1> HIDE DEF n
<1>5. Rotates(r, p) <=> model.mlx
  BY DEF Fed
<1>6. ServesLayer(DecodeLayer(<<xs[p + 1]>>, 1, c, p, b, call), c, n, xs, 1, r, p, ok)
  BY <1>2, <1>4, <1>5, DecodeLayerServes
<1>7. DecodeLayer(<<xs[p + 1]>>, 1, c, p, b, call) = block
  BY DEF DecodeLayer, SingleLayer
<1>8. ServesLayer(block, c, Slots(c), xs, 1, r, p, ok)
  BY <1>6, <1>7 DEF n
<1> HIDE DEF block
<1>9. AnswersRow(OneLayer(block), 1, paged, xs, r, logits, p, ok)
  BY <1>8, LayerAnswers
<1> QED BY <1>9 DEF block, b

(* So does its reference. *)
LEMMA ReferenceLayerStepAnswers ==
  ASSUME SingleLayer, NEW c, NEW paged \in BOOLEAN, NEW xs, NEW r, NEW p, Holds(c, paged, xs, 1, r, p), Fed(xs, r, p),
         NEW ok, NEW call, call.grouped \in BOOLEAN, PresetAllows(ok, "reference", p, paged, call), NEW logits, ~logits
  PROVE  AnswersRow(OneLayer(reference_llama_layer_decode_step(<<xs[p + 1]>>, 1, c, p, call)), 1, paged, xs, r, logits, p, ok)
<1>1. PICK preset \in Presets : preset = "reference"
  BY DEF Presets
<1>2. PresetAllows(ok, preset, p, paged, call)
  BY <1>1
<1>3. AnswersRow(OneLayer(llama_layer_decode_step(<<xs[p + 1]>>, 1, c, p, _preset_to_backend_config(preset), call)),
                 1, paged, xs, r, logits, p, ok)
  BY <1>2, LayerStepAnswers
<1>4. _preset_to_backend_config(preset) = reference_backend_config
  BY <1>1 DEF _preset_to_backend_config
<1> QED BY <1>3, <1>4 DEF reference_llama_layer_decode_step

(* So do llama_layer_prefill and its reference. *)
LEMMA LayerPrefillAnswers ==
  ASSUME SingleLayer, NEW paged \in BOOLEAN, ~paged, NEW c, Roomy(c), NEW xs, NEW r, NEW m, PromptOf(xs, r, m),
         NEW preset \in Presets, NEW call, NEW ok, PromptAllows(ok, m, 0, call), NEW logits, ~logits
  PROVE  /\ Answers(OneLayer(llama_layer_prefill(xs, 1, c, _prefill_backend_from_preset(preset), 0, call)),
                    1, paged, xs, r, logits, 0, m, ok)
         /\ Answers(OneLayer(reference_llama_layer_prefill(xs, 1, c, 0, call)), 1, paged, xs, r, logits, 0, m, ok)
<1>1. PICK start \in Nat : start = 0
  OBVIOUS
<1>2. Prompt(c, Slots(c), xs, 1, r, m)
  <2>1. 1 \in 1..Layers
    BY LlamaStackAssumption
  <2> QED BY <2>1 DEF Roomy, PromptOf, Prompt
<1>3. ASSUME NEW name \in Presets
      PROVE  Answers(OneLayer(llama_layer_prefill(xs, 1, c, _prefill_backend_from_preset(name), 0, call)),
                     1, paged, xs, r, logits, 0, m, ok)
  <2> DEFINE b == _prefill_backend_from_preset(name)
             block == llama_layer_prefill(xs, 1, c, b, start, call)
             n == Slots(c)
  <2>1. ok => PrefillFits(b, m, start, call)
    BY <1>1, PrefillPresets DEF PromptAllows, PrefillFits
  <2> HIDE DEF b, n
  <2>2. Prompt(c, n, xs, 1, r, m)
    BY <1>2 DEF n
  <2>3. Prefilled(block, c, n, xs, 1, r, m, ok)
    BY <2>1, <2>2, LayerPrefilled
  <2> HIDE DEF block
  <2>4. Answers(OneLayer(block), 1, paged, xs, r, logits, 0, m, ok)
    BY <2>3, LayerPromptAnswers DEF n
  <2> QED BY <1>1, <2>4 DEF block, b
<1>4. reference_prefill_backend_config = _prefill_backend_from_preset("reference") /\ "reference" \in Presets
  BY DEF _prefill_backend_from_preset, Presets
<1>5. Answers(OneLayer(llama_layer_prefill(xs, 1, c, _prefill_backend_from_preset("reference"), 0, call)),
              1, paged, xs, r, logits, 0, m, ok)
  BY <1>3, <1>4
<1> QED BY <1>3, <1>4, <1>5 DEF reference_llama_layer_prefill

(* The toy layer's backends and positions that the functions it calls accept. *)
ToyFits(p, paged, matvec, backend, other, call) ==
    /\ HalfPrecision(call) /\ p < MAX_S /\ p + 1 <= RopeRows /\ other \in {"reference", "metal"}
    /\ matvec \in {"reference", "metal_tiled", "metal_parallel"}
    /\ IF paged /\ ~call.grouped THEN backend \in {"reference", "metal", "auto"} ELSE backend \in GqaBackends

(* The toy layer, contiguous or in pages. *)
ToyStep(c, xs, p, matvec, backend, other, call) ==
    IF c.table = <<>> THEN toy_transformer_decode_layer(<<xs[p + 1]>>, c, p, matvec, backend, other, call)
    ELSE paged_toy_transformer_decode_layer(<<xs[p + 1]>>, c, p, matvec, backend, other, call)

(* It answers as specified. *)
LEMMA ToyAnswers ==
  ASSUME SingleLayer, NEW c, NEW paged \in BOOLEAN, NEW xs, NEW r, NEW p, Holds(c, paged, xs, 1, r, p), Fed(xs, r, p),
         NEW ok, NEW matvec, NEW backend, NEW other, NEW call, call.grouped \in BOOLEAN,
         ok => ToyFits(p, paged, matvec, backend, other, call), NEW logits, ~logits
  PROVE  AnswersRow(OneLayer(ToyStep(c, xs, p, matvec, backend, other, call)), 1, paged, xs, r, logits, p, ok)
<1> DEFINE n == Slots(c)
           block == ToyStep(c, xs, p, matvec, backend, other, call)
           x == <<xs[p + 1]>>
<1>2. Before(c, n, xs, 1, r, p) /\ Rotates(r, p)
  BY HoldsBefore
<1>3. (c.table # <<>> <=> paged) /\ MAX_S <= n /\ n \in Nat /\ p \in Nat
  BY CacheSlots DEF Holds, Fed
<1>4. ok => /\ HalfPrecision(call) /\ p < n /\ p + 1 <= RopeRows /\ other \in {"reference", "metal"}
            /\ matvec \in {"reference", "metal_tiled", "metal_parallel"} /\ BlockFits(c, backend, call)
  BY <1>3, LlamaStackAssumption DEF ToyFits, BlockFits
<1> HIDE DEF n
<1>5. Yields(x, <<xs[p + 1]>>, ok)
  BY OneYields
<1> HIDE DEF x
<1>6. /\ c.table = <<>> => Serves(toy_transformer_decode_layer(x, c, p, matvec, backend, other, call),
                                  Layered(xs, 1, r, p + 1), c, n, xs, 1, r, p, ok)
      /\ c.table # <<>> => Serves(paged_toy_transformer_decode_layer(x, c, p, matvec, backend, other, call),
                                  Layered(xs, 1, r, p + 1), c, n, xs, 1, r, p, ok)
  BY <1>2, <1>4, <1>5, ToyServes
<1>7. ServesLayer(block, c, Slots(c), xs, 1, r, p, ok)
  BY <1>6 DEF ServesLayer, ToyStep, n, x
<1> HIDE DEF block
<1>8. AnswersRow(OneLayer(block), 1, paged, xs, r, logits, p, ok)
  BY <1>7, LayerAnswers
<1> QED BY <1>8 DEF block

(* The adapter's calls that must not raise. *)
AdapterAllows(ok, p, call) == ok => HalfPrecision(call) /\ p < MAX_S /\ p + 1 <= RopeRows

(* decode_layer_from_fused_qkv answers as specified. *)
LEMMA FusedAnswers ==
  ASSUME SingleLayer, NEW c, NEW paged \in BOOLEAN, NEW xs, NEW r, NEW p, Holds(c, paged, xs, 1, r, p), Fed(xs, r, p),
         NEW ok, NEW call, call.grouped \in BOOLEAN, AdapterAllows(ok, p, call), NEW logits, ~logits
  PROVE  LET x == <<xs[p + 1]>>
             qkv == _linear(reference_rms_norm(x, Norm(1, "input_layernorm")), W(1, "qkv"))
         IN  AnswersRow(OneLayer(decode_layer_from_fused_qkv(x, qkv, c, p, call)), 1, paged, xs, r, logits, p, ok)
<1> DEFINE n == Slots(c)
           x == <<xs[p + 1]>>
           qkv == _linear(reference_rms_norm(x, Norm(1, "input_layernorm")), W(1, "qkv"))
           block == decode_layer_from_fused_qkv(x, qkv, c, p, call)
<1>2. Before(c, n, xs, 1, r, p) /\ Rotates(r, p)
  BY HoldsBefore
<1>4. ok => HalfPrecision(call) /\ p < n /\ p + 1 <= RopeRows
  BY CacheSlots, LlamaStackAssumption DEF Holds, Fed, AdapterAllows
<1> HIDE DEF n
<1>6. ServesLayer(block, c, n, xs, 1, r, p, ok)
  BY <1>2, <1>4, FusedServes
<1>7. ServesLayer(block, c, Slots(c), xs, 1, r, p, ok)
  BY <1>6 DEF n
<1> HIDE DEF block
<1>8. AnswersRow(OneLayer(block), 1, paged, xs, r, logits, p, ok)
  BY <1>7, LayerAnswers
<1> QED BY <1>8 DEF block

(* So does decode_layer_quantized_from_fused_qkv. *)
LEMMA AdapterAnswers ==
  ASSUME SingleLayer, NEW c, NEW paged \in BOOLEAN, NEW xs, NEW r, NEW p, Holds(c, paged, xs, 1, r, p), Fed(xs, r, p),
         NEW ok, NEW call, call.grouped \in BOOLEAN, AdapterAllows(ok, p, call), NEW logits, ~logits,
         NEW matvec \in {"metal_tiled", "metal_parallel"}
  PROVE  AnswersRow(OneLayer(decode_layer_quantized_from_fused_qkv(<<xs[p + 1]>>, c, p, matvec, call)), 1, paged, xs, r, logits, p, ok)
<1> DEFINE n == Slots(c)
           block == decode_layer_quantized_from_fused_qkv(<<xs[p + 1]>>, c, p, matvec, call)
<1>2. Before(c, n, xs, 1, r, p) /\ Rotates(r, p)
  BY HoldsBefore
<1>4. ok => HalfPrecision(call) /\ p < n /\ p + 1 <= RopeRows /\ matvec \in {"metal_tiled", "metal_parallel"}
  BY CacheSlots, LlamaStackAssumption DEF Holds, Fed, AdapterAllows
<1> HIDE DEF n
<1>6. ServesLayer(block, c, n, xs, 1, r, p, ok)
  BY <1>2, <1>4, AdapterServes
<1>7. ServesLayer(block, c, Slots(c), xs, 1, r, p, ok)
  BY <1>6 DEF n
<1> HIDE DEF block
<1>8. AnswersRow(OneLayer(block), 1, paged, xs, r, logits, p, ok)
  BY <1>7, LayerAnswers
<1> QED BY <1>8 DEF block

(* So does llama_layer_decode_loop, for every number of tokens. *)
LEMMA LayerLoopAnswers ==
  ASSUME SingleLayer, NEW paged \in BOOLEAN, NEW cs, NEW xs, NEW r, Held(cs, 1, paged, xs, r, 0),
         NEW k, NEW ys, FedFrom(xs, r, 0, ys, k), NEW ok, NEW preset \in Presets, NEW call, call.grouped \in BOOLEAN,
         LoopAllows(ok, preset, 0, k, paged, call), NEW logits, ~logits
  PROVE  Answers(llama_layer_decode_loop(ys, cs, preset, call), 1, paged, xs, r, logits, 0, k, ok)
<1>0. Len(ys) = k /\ k \in Nat
  BY RowsLen DEF IsRows, FedFrom
<1> DEFINE D == llama_layer_decode_loop(ys, cs, preset, call)
<1>1. PICK run : IsLayerLoop(run, D, ys, cs, preset, call)
  BY <1>0, LayerLoopRun
<1> HIDE DEF D
<1>2. /\ D = run[k]
      /\ run[0] = [rows |-> <<>>, caches |-> cs]
      /\ \A t \in 1..k : run[t] = IF Raised(run[t - 1].rows) THEN run[t - 1] ELSE Further(run[t - 1].rows, OneLayer(
            llama_layer_decode_step(<<ys[t]>>, 1, run[t - 1].caches[1], t - 1, _preset_to_backend_config(preset), call)))
  BY <1>0, <1>1 DEF IsLayerLoop
<1> DEFINE P(t) == Answers(run[t], 1, paged, xs, r, logits, 0, t, ok)
           S == {t \in Nat : t \in 0..k => P(t)}
<1>3. P(0)
  <2>1. run[0].rows = <<>> /\ run[0].caches = cs /\ 0 + 0 = 0
    BY <1>2
  <2>2. IsRows(<<>>, 0) /\ ~Raised(<<>>)
    BY DEF IsRows, Raised
  <2> QED BY <2>1, <2>2 DEF Answers
<1>4. ASSUME NEW t \in Nat, t + 1 \in 1..k, P(t)
      PROVE  P(t + 1)
  <2> DEFINE t1 == t + 1
             step == OneLayer(llama_layer_decode_step(<<xs[t + 1]>>, 1, run[t].caches[1], t, _preset_to_backend_config(preset), call))
  <2>0. t1 - 1 = t /\ t1 \in 1..k /\ t \in 0..(k - 1) /\ 0 + t = t
    BY <1>0, <1>4
  <2>1. FedRow(xs, r, 0, ys, t) /\ PresetAllows(ok, preset, t, paged, call)
    BY <2>0 DEF FedFrom, LoopAllows
  <2>2. Fed(xs, r, t) /\ ys[t1] = xs[t + 1]
    BY <2>0, <2>1 DEF FedRow
  <2>3. run[t1] = IF Raised(run[t].rows) THEN run[t] ELSE Further(run[t].rows, step)
    <3>1. run[t1] = IF Raised(run[t].rows) THEN run[t] ELSE Further(run[t].rows, OneLayer(
            llama_layer_decode_step(<<ys[t1]>>, 1, run[t].caches[1], t, _preset_to_backend_config(preset), call)))
      <4> HIDE DEF t1
      <4> QED BY <1>2, <2>0
    <3> QED BY <2>2, <3>1
  <2>4. CASE Raised(run[t].rows)
    BY <1>4, <2>3, <2>4 DEF Answers
  <2>5. CASE ~Raised(run[t].rows)
    <3>1. Held(run[t].caches, 1, paged, xs, r, t)
      BY <1>4, <2>0, <2>5 DEF Answers
    <3>2. AnswersRow(step, 1, paged, xs, r, logits, t, ok)
      <4> DEFINE c == run[t].caches[1]
      <4>1. Holds(c, paged, xs, 1, r, t)
        BY <3>1, CacheOfLayer
      <4> HIDE DEF c
      <4>2. AnswersRow(OneLayer(llama_layer_decode_step(<<xs[t + 1]>>, 1, c, t, _preset_to_backend_config(preset), call)),
                       1, paged, xs, r, logits, t, ok)
        BY <2>1, <2>2, <4>1, LayerStepAnswers
      <4> QED BY <4>2 DEF c
    <3> HIDE DEF step
    <3>3. Answers(Further(run[t].rows, step), 1, paged, xs, r, logits, 0, t1, ok)
      <4>1. t = 0 + t /\ t1 = t + 1 /\ 0 \in Nat
        BY <2>0
      <4> HIDE DEF t1
      <4> QED BY <1>4, <2>5, <3>2, <4>1, FurtherAnswers
    <3> QED BY <2>3, <2>5, <3>3
  <2> QED BY <2>4, <2>5
<1> HIDE DEF P
<1>5. 0 \in S /\ \A t \in S : t + 1 \in S
  <2>1. ASSUME NEW t \in S
        PROVE  t + 1 \in S
    <3>1. t + 1 \in 0..k => t \in 0..k /\ t + 1 \in 1..k
      BY <1>0
    <3> QED BY <1>4, <3>1
  <2> QED BY <1>3, <2>1
<1>6. S = Nat
  <2> HIDE DEF S
  <2>1. S \in SUBSET Nat
    BY DEF S
  <2> QED BY <1>5, <2>1, Induction
<1>7. P(k)
  <2>1. k \in 0..k
    BY <1>0
  <2> QED BY <1>0, <1>6, <2>1
<1> QED BY <1>2, <1>7 DEF P, D

-----------------------------------------------------------------------------
(* Sequences. *)

(* The tokens and the rotations of a sequence. *)
Sequence(xs, r) == IsRows(xs, Len(xs)) /\ IsRows(r, Len(xs)) /\ Clean(xs)

(* Caches hold every prefix of what they hold, and of any sequence that
   agrees with it. *)
LEMMA HeldPrefix ==
  ASSUME NEW cs, NEW depth \in 0..Layers, NEW paged, NEW x, NEW r, NEW m, Held(cs, depth, paged, x, r, m),
         NEW k \in 0..m, NEW y, NEW s, Agree(x, r, y, s, k), m \in Nat, 1..k \subseteq DOMAIN x, 1..k \subseteq DOMAIN y,
         Clean(x), Clean(y)
  PROVE  Held(cs, depth, paged, y, s, k)
<1>1. ASSUME NEW l \in 1..depth
      PROVE  Holds(cs[l], paged, Through(y, s)[l - 1], l, s, k)
  <2> DEFINE j == l - 1
             c == cs[l]
             u == Through(x, r)[j]
             v == Through(y, s)[j]
  <2>1. j \in 0..Layers
    BY LlamaStackAssumption
  <2>2. Holds(c, paged, u, l, r, m)
    BY DEF Held
  <2>3. k \in Nat
    OBVIOUS
  <2>4. Agree(u, r, v, s, k)
    BY <2>1, <2>3, ThroughAgrees
  <2> HIDE DEF u, v, c
  <2>5. IsCache(c, Slots(c)) /\ Slots(c) \in Nat
    BY <2>2, CacheSlots DEF Holds
  <2>6. k \in 0..Slots(c) /\ InCache(c, u, l, r, k)
    BY <2>2, <2>5 DEF Holds, InCache
  <2>7. InCache(c, v, l, s, k)
    BY <2>3, <2>4, <2>6, CacheAgrees
  <2>8. Holds(c, paged, v, l, s, k)
    BY <2>2, <2>5, <2>6, <2>7 DEF Holds
  <2> QED BY <2>8 DEF c, v
<1> QED BY <1>1 DEF Held

(* What stands at the positions once xs has been fed from position p on. *)
After(u, p, xs) == SubSeq(u, 1, p) \o xs

(* Whether each of these tokens is rotated. *)
Rotations(xs, rotates) == [i \in DOMAIN xs |-> rotates]

(* v is the first p of u and then the k of xs. *)
AfterIs(v, u, p, xs, k) ==
    /\ IsRows(v, p + k) /\ Len(v) = p + k
    /\ \A i \in 1..p : v[i] = u[i]
    /\ \A i \in 1..k : v[p + i] = xs[i]

(* After is. *)
LEMMA AfterRows ==
  ASSUME NEW u, NEW n, IsRows(u, n), NEW p \in 0..n, NEW xs, NEW k, IsRows(xs, k)
  PROVE  AfterIs(After(u, p, xs), u, p, xs, k)
<1> DEFINE s == SubSeq(u, 1, p)
           t == s \o xs
<1>1. IsRows(s, p) /\ \A i \in 1..p : s[i] = u[i]
  BY PrefixRows
<1> HIDE DEF s
<1>2. Joined(t, s, p, xs, k)
  BY <1>1, CatRows
<1> HIDE DEF t
<1>3. IsRows(t, p + k)
  BY <1>2 DEF Joined
<1>4. Len(t) = p + k
  <2>1. PICK q : q = p + k
    OBVIOUS
  <2>2. IsRows(t, q)
    BY <1>3, <2>1
  <2> QED BY <2>1, <2>2, RowsLen
<1> QED BY <1>1, <1>2, <1>3, <1>4 DEF Joined, After, AfterIs, t, s

(* The sequence T, with rotations R, is the first p tokens of u and then xs. *)
Continues(T, R, u, r, p, xs, k, rotates) ==
    /\ Sequence(T, R) /\ Len(T) = p + k /\ Agree(u, r, T, R, p)
    /\ \A i \in 1..k : T[p + i] = xs[i] /\ R[p + i] = rotates

(* After makes such a sequence. *)
LEMMA AfterSequence ==
  ASSUME NEW u, NEW r, Sequence(u, r), NEW p \in 0..Len(u), NEW xs, NEW k, IsRows(xs, k), Clean(xs), NEW rotates
  PROVE  Continues(After(u, p, xs), After(r, p, Rotations(xs, rotates)), u, r, p, xs, k, rotates)
<1> DEFINE T == After(u, p, xs)
           z == Rotations(xs, rotates)
           R == After(r, p, z)
           n == Len(u)
<1>1. IsRows(u, n) /\ IsRows(r, n) /\ Clean(u) /\ n \in Nat /\ DOMAIN u = 1..n /\ k \in Nat /\ p \in 0..n
  BY DEF Sequence, IsRows
<1>2. IsRows(z, k) /\ \A i \in 1..k : z[i] = rotates
  BY DEF IsRows, Rotations
<1> HIDE DEF z, n
<1>a. AfterIs(T, u, p, xs, k)
  BY <1>1, AfterRows
<1>b. AfterIs(R, r, p, z, k)
  BY <1>1, <1>2, AfterRows
<1>3. /\ IsRows(T, p + k) /\ Len(T) = p + k
      /\ \A i \in 1..p : T[i] = u[i]
      /\ \A i \in 1..k : T[p + i] = xs[i]
  BY <1>a DEF AfterIs
<1>4. /\ IsRows(R, p + k)
      /\ \A i \in 1..p : R[i] = r[i]
      /\ \A i \in 1..k : R[p + i] = z[i]
  BY <1>b DEF AfterIs
<1> HIDE DEF T, R
<1>5. Clean(T)
  <2>1. DOMAIN xs = 1..k /\ DOMAIN T = 1..(p + k) /\ p \in 0..n
    BY <1>1, <1>3 DEF IsRows, n
  <2>2. ASSUME NEW i \in 1..(p + k)
        PROVE  Proper(T[i])
    <3>1. CASE i \in 1..p
      <4>1. T[i] = u[i] /\ i \in DOMAIN u
        BY <1>1, <1>3, <2>1, <3>1
      <4> QED BY <1>1, <4>1 DEF Clean
    <3>2. CASE i \notin 1..p
      <4>1. PICK j \in 1..k : i = p + j
        <5>1. i - p \in 1..k /\ i = p + (i - p)
          BY <1>1, <2>1, <3>2
        <5> QED BY <5>1
      <4>2. T[i] = xs[j] /\ j \in DOMAIN xs
        BY <1>3, <2>1, <4>1
      <4> QED BY <4>2 DEF Clean
    <3> QED BY <3>1, <3>2
  <2> QED BY <2>1, <2>2 DEF Clean
<1>6. Sequence(T, R) /\ Agree(u, r, T, R, p)
  BY <1>3, <1>4, <1>5 DEF Sequence, Agree
<1>7. Continues(T, R, u, r, p, xs, k, rotates)
  BY <1>2, <1>3, <1>4, <1>6 DEF Continues
<1> QED BY <1>7 DEF T, R, z

-----------------------------------------------------------------------------
(* The invariant. *)

(* The invariant. *)
ModelInv ==
    /\ model \in [stack : BOOLEAN, mlx : BOOLEAN, grouped : BOOLEAN, paged : BOOLEAN, lm_head : BOOLEAN]
    /\ model.stack => ~model.paged
    /\ ~model.stack => model.mlx /\ ~model.lm_head

(* The tokens fed are expressions, and each was rotated or not. *)
SequenceInv == calls \in Nat /\ Sequence(tokens, rotated)

(* The caches of all layers hold the keys and values of every token fed:
   without it an answer says nothing of earlier tokens. *)
CacheInv == Held(caches, Depth, model.paged, tokens, rotated, Len(tokens))

(* The inductive invariant. *)
LInv == ModelInv /\ SequenceInv /\ CacheInv /\ OutputsAreCausal /\ ValidCallsReturn

(* The stack, or the layer, given whether it is a stack. *)
DepthOf(stack) == IF stack THEN Layers ELSE 1

(* ... and the specification of either. *)
Denoted(stack, xs, r, logits) ==
    LET final(row) == IF stack THEN Normed(row, <<"final_norm">>) ELSE row
        head(row) == IF logits THEN Term(<<"lm_head">>, <<row>>) ELSE row
    IN  [i \in DOMAIN xs |-> head(final(Through(xs, r)[DepthOf(stack)][i]))]

(* The rows answered are the last of the specification's. *)
CausalRows(stack, rows, xs, r, logits) ==
    rows = SubSeq(Denoted(stack, xs, r, logits), Len(xs) - Len(rows) + 1, Len(xs))

(* That is the model's specification. *)
LEMMA DenotedIs ==
  ASSUME NEW xs, NEW r, NEW logits
  PROVE  Denotation(xs, r, logits) = Denoted(model.stack, xs, r, logits) /\ Depth = DepthOf(model.stack)
BY DEF Denotation, Denoted, Depth, DepthOf

(* What the next state needs for the invariant. *)
LEMMA NextInv ==
  ASSUME model' = model, ModelInv, SequenceInv', Held(caches', DepthOf(model.stack), model.paged, tokens', rotated', Len(tokens')),
         out'.status = "returned" => CausalRows(model.stack, out'.rows, tokens', rotated', out'.logits),
         out'.fits => out'.status = "returned"
  PROVE  LInv'
<1>1. ModelInv'
  BY DEF ModelInv
<1>2. CacheInv'
  BY DEF CacheInv, Depth, DepthOf
<1>3. OutputsAreCausal'
  BY DEF OutputsAreCausal, Denotation, Depth, Denoted, DepthOf, CausalRows
<1>4. ValidCallsReturn'
  BY DEF ValidCallsReturn
<1> QED BY <1>1, <1>2, <1>3, <1>4 DEF LInv

(* Rows answered from position p on are the last of the specification's. *)
LEMMA CausalSuffix ==
  ASSUME NEW xs, NEW r, NEW logits, NEW p \in Nat, NEW k \in Nat, NEW n, n = p + k, IsRows(xs, n), NEW rows, IsRows(rows, k),
         \A i \in 1..k : rows[i] = Denotation(xs, r, logits)[p + i]
  PROVE  CausalRows(model.stack, rows, xs, r, logits)
<1> DEFINE d == Denotation(xs, r, logits)
           u == SubSeq(d, n - k + 1, n)
<1>1. IsRows(d, n)
  <2>1. DOMAIN xs = 1..n
    BY DEF IsRows
  <2>2. d = [i \in 1..n |-> d[i]]
    BY <2>1 DEF Denotation
  <2> QED BY <2>2 DEF IsRows
<1>2. d = Denoted(model.stack, xs, r, logits)
  BY DenotedIs
<1> HIDE DEF d
<1>3. k \in 0..n /\ n - k = p
  OBVIOUS
<1>4. IsRows(u, k) /\ \A i \in 1..k : u[i] = d[n - k + i]
  BY <1>1, <1>3, SuffixRows
<1> HIDE DEF u
<1>5. \A i \in 1..k : u[i] = rows[i]
  BY <1>3, <1>4 DEF d
<1>6. u = rows
  BY <1>4, <1>5 DEF IsRows
<1>7. Len(xs) = n /\ Len(rows) = k
  BY RowsLen
<1> QED BY <1>2, <1>6, <1>7 DEF CausalRows, u

(* A call that answered, or raised, keeps the invariant. *)
AnswersFor(answer, xs, p, rotates, logits, k, ok) ==
    Answers(answer, Depth, model.paged, After(tokens, p, xs), After(rotated, p, Rotations(xs, rotates)), logits, p, k, ok)

(* Answered keeps the invariant when its answer is the specification's, or
   raised and need not have returned. *)
LEMMA AnsweredKeeps ==
  ASSUME LInv, NEW answer, NEW xs, NEW p \in 0..Len(tokens), NEW rotates, NEW logits, NEW fits, NEW k, NEW ok,
         IsRows(xs, k), Clean(xs), AnswersFor(answer, xs, p, rotates, logits, k, ok), fits => ok,
         Answered(answer, xs, p, rotates, logits, fits)
  PROVE  LInv'
<1> DEFINE T == After(tokens, p, xs)
           R == After(rotated, p, Rotations(xs, rotates))
           raised == Raised(answer.rows)
<1>1. ModelInv /\ SequenceInv /\ CacheInv /\ model' = model /\ calls' \in Nat
  BY DEF LInv, Answered, SequenceInv
<1>2. Answers(answer, DepthOf(model.stack), model.paged, T, R, logits, p, k, ok)
  BY DEF AnswersFor, Depth, DepthOf
<1>3. CASE raised
  <2>1. caches' = caches /\ tokens' = tokens /\ rotated' = rotated /\ out'.status = "raised" /\ out'.fits = fits
    BY <1>3 DEF Answered
  <2>2. ~ok
    BY <1>2, <1>3 DEF Answers
  <2>3. SequenceInv'
    BY <1>1, <2>1 DEF SequenceInv
  <2>4. Held(caches', DepthOf(model.stack), model.paged, tokens', rotated', Len(tokens'))
    BY <1>1, <2>1 DEF CacheInv, Depth, DepthOf
  <2> QED BY <1>1, <2>1, <2>2, <2>3, <2>4, NextInv
<1>4. CASE ~raised
  <2>1. /\ caches' = answer.caches /\ tokens' = T /\ rotated' = R /\ out'.status = "returned" /\ out'.fits = fits
        /\ out'.rows = answer.rows /\ out'.logits = logits
    BY <1>4 DEF Answered, After, Rotations
  <2>2. /\ IsRows(answer.rows, k) /\ (\A i \in 1..k : answer.rows[i] = Denotation(T, R, logits)[p + i])
        /\ Held(answer.caches, DepthOf(model.stack), model.paged, T, R, p + k)
    BY <1>2, <1>4 DEF Answers
  <2>3. Sequence(T, R) /\ Len(T) = p + k
    <3>1. Continues(T, R, tokens, rotated, p, xs, k, rotates)
      BY <1>1, AfterSequence DEF SequenceInv
    <3> QED BY <3>1 DEF Continues
  <2> HIDE DEF T, R
  <2>4. SequenceInv'
    BY <1>1, <2>1, <2>3 DEF SequenceInv
  <2>5. p \in Nat /\ k \in Nat
    BY <1>1 DEF IsRows, SequenceInv, Sequence
  <2>6. CausalRows(model.stack, out'.rows, tokens', rotated', out'.logits)
    <3>1. PICK n : n = p + k
      OBVIOUS
    <3>2. IsRows(T, n)
      BY <2>3, <3>1 DEF Sequence
    <3>3. CausalRows(model.stack, answer.rows, T, R, logits)
      BY <2>2, <2>5, <3>1, <3>2, CausalSuffix
    <3> QED BY <2>1, <3>3
  <2>7. Held(caches', DepthOf(model.stack), model.paged, tokens', rotated', Len(tokens'))
    BY <2>1, <2>2, <2>3
  <2> QED BY <1>1, <2>1, <2>4, <2>6, <2>7, NextInv
<1> QED BY <1>3, <1>4

-----------------------------------------------------------------------------
(* What a call feeds. *)

(* New tokens are expressions. *)
LEMMA InputRows ==
  ASSUME NEW n \in Nat
  PROVE  IsRows(Inputs(n), n) /\ Clean(Inputs(n))
BY ProperTerms DEF Inputs, IsRows, Clean

(* What the calls of the model have in common. *)
LEMMA CallFacts ==
  ASSUME ModelInv, NEW call \in Calls
  PROVE  HalfPrecision(call) /\ call.grouped \in BOOLEAN /\ call.grouped = model.grouped
BY DEF Calls, HalfPrecision, ModelInv

(* The layers of a model. *)
LEMMA ModelDepth ==
  ASSUME ModelInv
  PROVE  /\ Depth \in 1..Layers /\ model.paged \in BOOLEAN
         /\ model.stack => Depth = Layers /\ model.paged = FALSE
         /\ ~model.stack => Depth = 1 /\ SingleLayer
BY LlamaStackAssumption DEF ModelInv, Depth, SingleLayer

(* The sequence once xs is fed from position p on, and the caches that hold what stands before. *)
Feeding(T, R, p, xs, k, rotates) ==
    /\ Sequence(T, R) /\ p \in Nat /\ Len(T) = p + k
    /\ \A i \in 1..k : T[p + i] = xs[i] /\ R[p + i] = rotates
    /\ Held(caches, Depth, model.paged, T, R, p)
    /\ p = 0 => IsRows(T, k) /\ T = xs

(* Every call feeds its tokens to such a sequence: the caches hold what
   stands before p, which may be less than they did. *)
LEMMA FeedingIs ==
  ASSUME LInv, NEW p \in 0..Len(tokens), NEW xs, NEW k, IsRows(xs, k), Clean(xs), NEW rotates
  PROVE  Feeding(After(tokens, p, xs), After(rotated, p, Rotations(xs, rotates)), p, xs, k, rotates)
<1> DEFINE T == After(tokens, p, xs)
           R == After(rotated, p, Rotations(xs, rotates))
           n == Len(tokens)
<1>1. Sequence(tokens, rotated) /\ Held(caches, Depth, model.paged, tokens, rotated, n) /\ Depth \in 1..Layers /\ k \in Nat
  BY ModelDepth DEF LInv, SequenceInv, CacheInv, IsRows
<1>c. Continues(T, R, tokens, rotated, p, xs, k, rotates)
  BY <1>1, AfterSequence
<1>2. /\ Sequence(T, R) /\ Len(T) = p + k /\ Agree(tokens, rotated, T, R, p)
      /\ \A i \in 1..k : T[p + i] = xs[i] /\ R[p + i] = rotates
  BY <1>c DEF Continues
<1> HIDE DEF T, R
<1>3. n \in Nat /\ DOMAIN tokens = 1..n /\ Clean(tokens) /\ Clean(T) /\ DOMAIN T = 1..(p + k) /\ IsRows(T, p + k)
  BY <1>1, <1>2 DEF Sequence, IsRows
<1> HIDE DEF n
<1>4. p \in 0..n /\ p \in Nat /\ 1..p \subseteq DOMAIN tokens /\ 1..p \subseteq DOMAIN T /\ Depth \in 0..Layers
  BY <1>1, <1>3, LlamaStackAssumption DEF n
<1>5. Held(caches, Depth, model.paged, T, R, p)
  BY <1>1, <1>2, <1>3, <1>4, HeldPrefix
<1>6. p = 0 => IsRows(T, k) /\ T = xs
  <2>1. SUFFICES ASSUME p = 0 PROVE IsRows(T, k) /\ T = xs
    OBVIOUS
  <2>2. p + k = k /\ \A i \in 1..k : p + i = i
    BY <1>1, <2>1
  <2>3. IsRows(T, k) /\ \A i \in 1..k : T[i] = xs[i]
    BY <1>2, <1>3, <2>2
  <2> QED BY <2>3 DEF IsRows
<1>7. Feeding(T, R, p, xs, k, rotates)
  BY <1>2, <1>4, <1>5, <1>6 DEF Feeding
<1> QED BY <1>7 DEF T, R

(* So a loop feeds its tokens one after the other. *)
LEMMA FeedingLoop ==
  ASSUME NEW T, NEW R, NEW p, NEW xs, NEW k \in Nat, NEW rotates, Feeding(T, R, p, xs, k, rotates), rotates <=> model.mlx,
         IsRows(xs, k)
  PROVE  FedFrom(T, R, p, xs, k)
<1>1. ASSUME NEW t \in 0..(k - 1)
      PROVE  FedRow(T, R, p, xs, t)
  <2> DEFINE q == p + t
             i == t + 1
  <2>1. i \in 1..k /\ q \in Nat /\ q < Len(T) /\ p + i = q + 1
    BY DEF Feeding
  <2>2. T[p + i] = xs[i] /\ R[p + i] = rotates
    BY <2>1 DEF Feeding
  <2>3. IsRows(T, Len(T)) /\ Clean(T)
    BY DEF Feeding, Sequence
  <2> HIDE DEF q, i
  <2>4. Fed(T, R, q)
    BY <2>1, <2>2, <2>3 DEF Fed, Rotates
  <2>5. xs[i] = T[q + 1]
    BY <2>1, <2>2
  <2> QED BY <2>4, <2>5 DEF FedRow, q, i
<1> QED BY <1>1 DEF FedFrom

(* ... or a step the one token. *)
LEMMA FeedingFed ==
  ASSUME NEW T, NEW R, NEW p, NEW xs, NEW k, k = 1, IsRows(xs, k), NEW rotates, Feeding(T, R, p, xs, k, rotates), rotates <=> model.mlx
  PROVE  Fed(T, R, p) /\ T[p + 1] = xs[1]
<1>1. FedFrom(T, R, p, xs, k)
  <2>1. k \in Nat
    OBVIOUS
  <2> QED BY <2>1, FeedingLoop
<1>2. 0 \in 0..(k - 1) /\ p + 0 = p /\ p + 0 + 1 = p + 1 /\ 0 + 1 = 1
  BY DEF Feeding
<1>3. FedRow(T, R, p, xs, 0)
  BY <1>1, <1>2 DEF FedFrom
<1> QED BY <1>2, <1>3 DEF FedRow

-----------------------------------------------------------------------------
(* Every call keeps the invariant. *)

(* A decode step of the stack keeps the invariant: from any position up to
   the number of tokens fed, with any preset. *)
LEMMA StackDecodeStepKeeps ==
  ASSUME LInv, StackDecodeStep
  PROVE  LInv'
<1>1. PICK p \in Positions, preset \in Presets, call \in Calls :
          \/ Answered(llama_stack_decode_step(Inputs(1), caches, p, preset, TRUE, call),
                      Inputs(1), p, model.mlx, model.lm_head, p < MAX_S)
          \/ Answered(reference_llama_stack_decode_step(Inputs(1), caches, p, call),
                      Inputs(1), p, model.mlx, model.lm_head, p < MAX_S)
  BY DEF StackDecodeStep
<1> DEFINE xs == Inputs(1)
           T == After(tokens, p, xs)
           R == After(rotated, p, Rotations(xs, model.mlx))
           fits == p < MAX_S
           ok == fits
           logits == model.lm_head
<1>0. PICK always : always = TRUE
  OBVIOUS
<1>2. IsRows(xs, 1) /\ Clean(xs) /\ p \in 0..Len(tokens) /\ xs = <<xs[1]>>
  <2>1. IsRows(xs, 1) /\ Clean(xs)
    <3>1. 1 \in Nat
      OBVIOUS
    <3> QED BY <3>1, InputRows
  <2>2. xs = <<xs[1]>>
    BY DEF Inputs
  <2> QED BY <2>1, <2>2 DEF Positions
<1>3. model.stack /\ model.paged = FALSE /\ Depth = Layers /\ ModelInv
  BY ModelDepth DEF StackDecodeStep, LInv
<1> HIDE DEF xs
<1>4. Feeding(T, R, p, xs, 1, model.mlx)
  BY <1>2, FeedingIs
<1> HIDE DEF T, R
<1>5. Fed(T, R, p) /\ T[p + 1] = xs[1] /\ Held(caches, Layers, model.paged, T, R, p) /\ p \in Nat
  <2>1. PICK k : k = 1
    OBVIOUS
  <2>2. Fed(T, R, p) /\ T[p + 1] = xs[1]
    <3>1. Feeding(T, R, p, xs, k, model.mlx) /\ IsRows(xs, k) /\ (model.mlx <=> model.mlx)
      BY <1>2, <1>4, <2>1
    <3> QED BY <2>1, <3>1, FeedingFed
  <2> QED BY <1>3, <1>4, <2>2 DEF Feeding
<1>6. HalfPrecision(call) /\ call.grouped \in BOOLEAN /\ model.paged \in BOOLEAN
  BY <1>3, CallFacts
<1>7. PresetAllows(ok, preset, p, model.paged, call) /\ PresetAllows(ok, "reference", p, model.paged, call)
  BY <1>3, <1>5, <1>6, LlamaStackAssumption DEF PresetAllows, PresetFits
<1> HIDE DEF ok
<1>8. logits <=> model.lm_head /\ always
  BY <1>0
<1>9. ASSUME Answered(llama_stack_decode_step(xs, caches, p, preset, TRUE, call), xs, p, model.mlx, logits, fits)
      PROVE  LInv'
  <2> DEFINE answer == llama_stack_decode_step(xs, caches, p, preset, TRUE, call)
  <2>1. AnswersRow(PresetStep(T, caches, p, preset, always, call), Layers, model.paged, T, R, logits, p, ok)
    BY <1>3, <1>5, <1>6, <1>7, <1>8, PresetStepAnswers
  <2>2. PresetStep(T, caches, p, preset, always, call) = answer
    BY <1>0, <1>2, <1>5 DEF PresetStep
  <2> HIDE DEF answer
  <2>3. AnswersFor(answer, xs, p, model.mlx, logits, 1, ok)
    BY <1>3, <2>1, <2>2 DEF AnswersRow, AnswersFor, T, R
  <2>4. fits => ok
    BY DEF ok
  <2>5. Answered(answer, xs, p, model.mlx, logits, fits)
    BY <1>9 DEF answer
  <2> HIDE DEF fits
  <2> QED BY <1>2, <2>3, <2>4, <2>5, AnsweredKeeps
<1>10. ASSUME Answered(reference_llama_stack_decode_step(xs, caches, p, call), xs, p, model.mlx, logits, fits)
       PROVE  LInv'
  <2> DEFINE answer == reference_llama_stack_decode_step(xs, caches, p, call)
  <2>1. AnswersRow(ReferenceStep(T, caches, p, call), Layers, model.paged, T, R, logits, p, ok)
    BY <1>3, <1>5, <1>6, <1>7, ReferenceStepAnswers
  <2>2. ReferenceStep(T, caches, p, call) = answer
    BY <1>2, <1>5 DEF ReferenceStep
  <2> HIDE DEF answer
  <2>3. AnswersFor(answer, xs, p, model.mlx, logits, 1, ok)
    BY <1>3, <2>1, <2>2 DEF AnswersRow, AnswersFor, T, R
  <2>4. fits => ok
    BY DEF ok
  <2>5. Answered(answer, xs, p, model.mlx, logits, fits)
    BY <1>10 DEF answer
  <2> HIDE DEF fits
  <2> QED BY <1>2, <2>3, <2>4, <2>5, AnsweredKeeps
<1> QED BY <1>1, <1>9, <1>10 DEF xs

(* So does a decode loop. *)
LEMMA StackDecodeLoopKeeps ==
  ASSUME LInv, StackDecodeLoop
  PROVE  LInv'
<1>1. PICK n \in 1..MAX_S, preset \in Presets, return_logits \in BOOLEAN, call \in Calls :
          \/ Answered(llama_stack_decode_loop(Inputs(n), caches, preset, return_logits, call),
                      Inputs(n), 0, model.mlx, model.lm_head /\ return_logits, TRUE)
          \/ Answered(reference_llama_stack_decode_loop(Inputs(n), caches, return_logits, call),
                      Inputs(n), 0, model.mlx, model.lm_head /\ return_logits, TRUE)
  BY DEF StackDecodeLoop
<1>0. PICK p, fits : p = 0 /\ fits = TRUE
  OBVIOUS
<1> DEFINE xs == Inputs(n)
           T == After(tokens, p, xs)
           R == After(rotated, p, Rotations(xs, model.mlx))
           ok == fits
           logits == model.lm_head /\ return_logits
<1>2. n \in Nat /\ n <= MAX_S /\ IsRows(xs, n) /\ Clean(xs) /\ p \in 0..Len(tokens)
  <2>1. n \in Nat /\ n <= MAX_S
    BY LlamaStackAssumption
  <2>2. Len(tokens) \in Nat
    BY DEF LInv, SequenceInv, Sequence, IsRows
  <2> QED BY <1>0, <2>1, <2>2, InputRows
<1>3. model.stack /\ model.paged = FALSE /\ Depth = Layers /\ ModelInv
  BY ModelDepth DEF StackDecodeLoop, LInv
<1> HIDE DEF xs
<1>4. Feeding(T, R, p, xs, n, model.mlx)
  BY <1>2, FeedingIs
<1> HIDE DEF T, R
<1>5. FedFrom(T, R, 0, xs, n) /\ Held(caches, Layers, model.paged, T, R, 0)
  <2>1. model.mlx <=> model.mlx
    OBVIOUS
  <2>2. FedFrom(T, R, p, xs, n)
    BY <1>2, <1>4, <2>1, FeedingLoop
  <2> QED BY <1>0, <1>3, <1>4, <2>2 DEF Feeding
<1>6. HalfPrecision(call) /\ call.grouped \in BOOLEAN /\ model.paged \in BOOLEAN
  BY <1>3, CallFacts
<1>7. ASSUME NEW name \in Presets
      PROVE  LoopAllows(ok, name, 0, n, model.paged, call)
  BY <1>2, <1>3, <1>6, LlamaStackAssumption DEF LoopAllows, PresetAllows, PresetFits
<1> HIDE DEF ok
<1>8. ASSUME NEW name \in Presets,
             Answered(llama_stack_decode_loop(xs, caches, name, return_logits, call), xs, p, model.mlx, logits, fits)
      PROVE  LInv'
  <2> DEFINE answer == llama_stack_decode_loop(xs, caches, name, return_logits, call)
  <2>0. logits <=> model.lm_head /\ return_logits
    OBVIOUS
  <2> HIDE DEF logits
  <2>1. LoopAllows(ok, name, 0, n, model.paged, call)
    BY <1>7
  <2>2. Answers(answer, Layers, model.paged, T, R, logits, 0, n, ok)
    BY <1>3, <1>5, <1>6, <2>0, <2>1, DecodeLoopAnswers
  <2> HIDE DEF answer
  <2>3. AnswersFor(answer, xs, p, model.mlx, logits, n, ok)
    BY <1>0, <1>3, <2>2 DEF AnswersFor, T, R
  <2>4. fits => ok
    BY DEF ok
  <2>5. Answered(answer, xs, p, model.mlx, logits, fits)
    BY <1>8 DEF answer
  <2> QED BY <1>2, <2>3, <2>4, <2>5, AnsweredKeeps
<1>9. "reference" \in Presets
  BY DEF Presets
<1>10. \/ Answered(llama_stack_decode_loop(xs, caches, preset, return_logits, call), xs, p, model.mlx, logits, fits)
       \/ Answered(llama_stack_decode_loop(xs, caches, "reference", return_logits, call), xs, p, model.mlx, logits, fits)
  BY <1>0, <1>1 DEF xs, reference_llama_stack_decode_loop
<1> QED BY <1>8, <1>9, <1>10

(* A prompt replaces what was fed. *)
LEMMA PromptFeeding ==
  ASSUME LInv, NEW p, p = 0, NEW xs, NEW n \in Nat \ {0}, IsRows(xs, n), Clean(xs), NEW rotates, rotates
  PROVE  /\ PromptOf(xs, After(rotated, p, Rotations(xs, rotates)), n) /\ After(tokens, p, xs) = xs
         /\ \A l \in 1..Depth : MAX_S <= Slots(caches[l]) /\ IsCache(caches[l], Slots(caches[l]))
                                /\ (caches[l].table # <<>> <=> model.paged)
<1> DEFINE T == After(tokens, p, xs)
           R == After(rotated, p, Rotations(xs, rotates))
<1>1. Len(tokens) \in Nat /\ n \in Nat
  BY DEF LInv, SequenceInv, Sequence, IsRows
<1>2. p \in 0..Len(tokens)
  BY <1>1
<1>3. Feeding(T, R, p, xs, n, rotates)
  BY <1>1, <1>2, FeedingIs
<1> HIDE DEF T, R
<1>4. T = xs /\ \A i \in 1..n : R[i] = rotates
  <2>1. T = xs /\ \A i \in 1..n : R[p + i] = rotates
    BY <1>3 DEF Feeding
  <2>2. \A i \in 1..n : p + i = i
    BY <1>1
  <2> QED BY <2>1, <2>2
<1>5. PromptOf(xs, R, n)
  BY <1>4 DEF PromptOf
<1>6. \A l \in 1..Depth : Holds(caches[l], model.paged, Through(tokens, rotated)[l - 1], l, rotated, Len(tokens))
  BY DEF LInv, CacheInv, Held
<1>7. \A l \in 1..Depth : MAX_S <= Slots(caches[l]) /\ IsCache(caches[l], Slots(caches[l])) /\ (caches[l].table # <<>> <=> model.paged)
  BY <1>6 DEF Holds
<1> QED BY <1>4, <1>5, <1>7 DEF T, R

(* So does a prefill. *)
LEMMA StackPrefillKeeps ==
  ASSUME LInv, StackPrefill
  PROVE  LInv'
<1>1. PICK n \in 1..(MAX_S + 1), start_position \in {0, 1}, preset \in Presets,
           return_logits \in BOOLEAN, dtype \in {"float16", "float32"}, call \in Calls :
         LET of_dtype == [call EXCEPT !.dtype = dtype]
             fits == n <= MAX_S /\ start_position = 0 /\ dtype = "float16"
         IN  \/ Answered(prefill_token_ids(Inputs(n), caches, preset, start_position, return_logits, of_dtype),
                         Inputs(n), 0, TRUE, model.lm_head /\ return_logits, fits)
             \/ Answered(reference_llama_stack_prefill(Inputs(n), caches, start_position, of_dtype),
                         Inputs(n), 0, TRUE, model.lm_head, fits)
  BY DEF StackPrefill
<1>0. PICK p, rotates : p = 0 /\ rotates = TRUE
  OBVIOUS
<1> DEFINE xs == Inputs(n)
           T == After(tokens, p, xs)
           R == After(rotated, p, Rotations(xs, rotates))
           of_dtype == [call EXCEPT !.dtype = dtype]
           fits == n <= MAX_S /\ start_position = 0 /\ dtype = "float16"
           ok == fits
<1>2. n \in Nat \ {0} /\ IsRows(xs, n) /\ Clean(xs) /\ start_position \in Nat /\ p \in 0..Len(tokens) /\ n \in Nat
  <2>1. n \in Nat \ {0} /\ start_position \in Nat
    BY LlamaStackAssumption
  <2>2. Len(tokens) \in Nat
    BY DEF LInv, SequenceInv, Sequence, IsRows
  <2> QED BY <1>0, <2>1, <2>2, InputRows
<1>3. model.stack /\ ~model.paged /\ model.paged \in BOOLEAN /\ Depth = Layers
  BY ModelDepth DEF StackPrefill, LInv
<1> HIDE DEF xs
<1>4. PromptOf(xs, R, n) /\ T = xs /\ \A l \in 1..Layers : Roomy(caches[l])
  BY <1>0, <1>2, <1>3, PromptFeeding DEF Roomy
<1>5. PromptAllows(ok, n, start_position, of_dtype)
  BY <1>2, LlamaStackAssumption DEF PromptAllows, HalfPrecision, Calls
<1>6. fits => ok
  OBVIOUS
<1> HIDE DEF T, R, ok, fits, of_dtype
<1>7. ASSUME NEW answer, NEW logits, Answers(answer, Layers, model.paged, xs, R, logits, 0, n, ok),
             Answered(answer, xs, p, rotates, logits, fits)
      PROVE  LInv'
  <2>1. AnswersFor(answer, xs, p, rotates, logits, n, ok)
    BY <1>0, <1>3, <1>4, <1>7 DEF AnswersFor, T, R
  <2> QED BY <1>2, <1>6, <1>7, <2>1, AnsweredKeeps
<1>8. ASSUME Answered(prefill_token_ids(xs, caches, preset, start_position, return_logits, of_dtype),
                      xs, p, rotates, model.lm_head /\ return_logits, fits)
      PROVE  LInv'
  <2>1. PICK logits : logits = (model.lm_head /\ return_logits)
    OBVIOUS
  <2>2. logits <=> model.lm_head /\ return_logits
    BY <2>1
  <2> DEFINE answer == prefill_token_ids(xs, caches, preset, start_position, return_logits, of_dtype)
  <2>3. Answers(answer, Layers, model.paged, xs, R, logits, 0, n, ok)
    BY <1>2, <1>3, <1>4, <1>5, <2>2, PrefillTokenIdsAnswers
  <2>4. Answered(answer, xs, p, rotates, logits, fits)
    BY <1>8, <2>1
  <2> HIDE DEF answer
  <2> QED BY <1>7, <2>3, <2>4
<1>9. ASSUME Answered(reference_llama_stack_prefill(xs, caches, start_position, of_dtype), xs, p, rotates, model.lm_head, fits)
      PROVE  LInv'
  <2> DEFINE answer == reference_llama_stack_prefill(xs, caches, start_position, of_dtype)
             logits == model.lm_head
  <2>2. logits <=> model.lm_head
    OBVIOUS
  <2> HIDE DEF logits
  <2>3. Answers(answer, Layers, model.paged, xs, R, logits, 0, n, ok)
    BY <1>2, <1>3, <1>4, <1>5, <2>2, ReferencePrefillAnswers
  <2>4. Answered(answer, xs, p, rotates, logits, fits)
    BY <1>9 DEF logits
  <2> HIDE DEF answer
  <2> QED BY <1>7, <2>3, <2>4
<1> QED BY <1>0, <1>1, <1>8, <1>9 DEF xs, of_dtype, fits

(* One token fed to a model of one layer. *)
FedTo(p) == After(tokens, p, Inputs(1))

(* ... rotated. *)
RotatedTo(p) == After(rotated, p, Rotations(Inputs(1), TRUE))

(* The layer's cache holds what stands before it. *)
LEMMA LayerFeeding ==
  ASSUME LInv, ~model.stack, NEW p \in Positions
  PROVE  /\ SingleLayer /\ Fed(FedTo(p), RotatedTo(p), p) /\ Holds(caches[1], model.paged, FedTo(p), 1, RotatedTo(p), p)
         /\ <<FedTo(p)[p + 1]>> = Inputs(1) /\ model.paged \in BOOLEAN /\ (caches[1].table # <<>> <=> model.paged)
<1> DEFINE xs == Inputs(1)
           T == FedTo(p)
           R == RotatedTo(p)
<1>0. PICK k, rotates : k = 1 /\ rotates = TRUE
  OBVIOUS
<1>1. IsRows(xs, k) /\ Clean(xs) /\ p \in 0..Len(tokens) /\ xs = <<xs[1]>>
  <2>1. 1 \in Nat
    OBVIOUS
  <2>2. IsRows(xs, 1) /\ Clean(xs)
    BY <2>1, InputRows
  <2>3. xs = <<xs[1]>>
    BY DEF Inputs
  <2> QED BY <1>0, <2>2, <2>3 DEF Positions
<1>2. Depth = 1 /\ SingleLayer /\ model.paged \in BOOLEAN
  BY ModelDepth DEF LInv
<1>3. T = After(tokens, p, xs) /\ R = After(rotated, p, Rotations(xs, rotates))
  BY <1>0 DEF FedTo, RotatedTo
<1> HIDE DEF xs, T, R
<1>4. Feeding(T, R, p, xs, k, rotates)
  BY <1>1, <1>3, FeedingIs
<1>5. Fed(T, R, p) /\ T[p + 1] = xs[1]
  <2>1. rotates <=> model.mlx
    BY <1>0, <1>2 DEF SingleLayer
  <2> QED BY <1>0, <1>1, <1>4, <2>1, FeedingFed
<1>6. Held(caches, 1, model.paged, T, R, p)
  BY <1>2, <1>4 DEF Feeding
<1>7. Holds(caches[1], model.paged, T, 1, R, p)
  BY <1>2, <1>6, CacheOfLayer
<1>8. caches[1].table # <<>> <=> model.paged
  BY <1>7 DEF Holds
<1> QED BY <1>1, <1>2, <1>5, <1>7, <1>8 DEF xs, T, R

(* A call that answers for it keeps the invariant. *)
LEMMA LayerKeeps ==
  ASSUME LInv, ~model.stack, NEW p \in Positions, NEW answer, NEW logits, NEW fits, NEW ok, logits = FALSE,
         AnswersRow(answer, 1, model.paged, FedTo(p), RotatedTo(p), logits, p, ok), fits => ok,
         Answered(answer, Inputs(1), p, TRUE, FALSE, fits)
  PROVE  LInv'
<1> DEFINE xs == Inputs(1)
<1>0. PICK k, rotates : k = 1 /\ rotates = TRUE
  OBVIOUS
<1>1. IsRows(xs, k) /\ Clean(xs) /\ p \in 0..Len(tokens)
  <2>1. 1 \in Nat
    OBVIOUS
  <2>2. IsRows(xs, 1) /\ Clean(xs)
    BY <2>1, InputRows
  <2> QED BY <1>0, <2>2 DEF Positions
<1>2. Depth = 1
  BY ModelDepth DEF LInv
<1>3. AnswersFor(answer, xs, p, rotates, logits, k, ok)
  BY <1>0, <1>2 DEF AnswersFor, AnswersRow, FedTo, RotatedTo
<1>4. Answered(answer, xs, p, rotates, logits, fits)
  BY <1>0
<1> HIDE DEF xs
<1> QED BY <1>1, <1>3, <1>4, AnsweredKeeps

(* Decode steps and loops of one layer keep the invariant. *)
LEMMA LayerDecodeKeeps ==
  ASSUME LInv, LayerDecode
  PROVE  LInv'
<1>0. PICK logits : logits = FALSE
  OBVIOUS
<1>1. ~model.stack /\ ModelInv
  BY DEF LayerDecode, LInv
<1>2. ASSUME NEW p \in Positions, NEW preset \in Presets, NEW call \in Calls,
             Answered(OneLayer(llama_layer_decode_step(Inputs(1), 1, caches[1], p, _preset_to_backend_config(preset), call)),
                      Inputs(1), p, TRUE, FALSE, p < MAX_S /\ Served(preset))
      PROVE  LInv'
  <2> DEFINE T == FedTo(p)
             R == RotatedTo(p)
             c == caches[1]
             fits == p < MAX_S /\ Served(preset)
             ok == fits
             answer == OneLayer(llama_layer_decode_step(Inputs(1), 1, c, p, _preset_to_backend_config(preset), call))
  <2>1. /\ SingleLayer /\ Fed(T, R, p) /\ Holds(c, model.paged, T, 1, R, p)
        /\ <<T[p + 1]>> = Inputs(1) /\ model.paged \in BOOLEAN /\ p \in Nat
    BY <1>1, LayerFeeding DEF Fed
  <2>2. HalfPrecision(call) /\ call.grouped \in BOOLEAN /\ call.grouped = model.grouped
    BY <1>1, CallFacts
  <2>3. PresetAllows(ok, preset, p, model.paged, call)
    BY <2>1, <2>2, LlamaStackAssumption DEF PresetAllows, PresetFits, Served
  <2>4. fits => ok
    OBVIOUS
  <2>5. Answered(answer, Inputs(1), p, TRUE, FALSE, fits)
    BY <1>2
  <2> HIDE DEF T, R, c, ok, fits
  <2>6. AnswersRow(OneLayer(llama_layer_decode_step(<<T[p + 1]>>, 1, c, p, _preset_to_backend_config(preset), call)),
                   1, model.paged, T, R, logits, p, ok)
    BY <1>0, <2>1, <2>2, <2>3, LayerStepAnswers
  <2>7. AnswersRow(answer, 1, model.paged, FedTo(p), RotatedTo(p), logits, p, ok)
    BY <2>1, <2>6 DEF T, R
  <2> HIDE DEF answer
  <2> QED BY <1>0, <1>1, <2>4, <2>5, <2>7, LayerKeeps
<1>3. ASSUME NEW p \in Positions, NEW call \in Calls,
             Answered(OneLayer(reference_llama_layer_decode_step(Inputs(1), 1, caches[1], p, call)),
                      Inputs(1), p, TRUE, FALSE, p < MAX_S)
      PROVE  LInv'
  <2> DEFINE T == FedTo(p)
             R == RotatedTo(p)
             c == caches[1]
             fits == p < MAX_S
             ok == fits
             answer == OneLayer(reference_llama_layer_decode_step(Inputs(1), 1, c, p, call))
  <2>1. /\ SingleLayer /\ Fed(T, R, p) /\ Holds(c, model.paged, T, 1, R, p)
        /\ <<T[p + 1]>> = Inputs(1) /\ model.paged \in BOOLEAN /\ p \in Nat
    BY <1>1, LayerFeeding DEF Fed
  <2>2. HalfPrecision(call) /\ call.grouped \in BOOLEAN
    BY <1>1, CallFacts
  <2>3. PresetAllows(ok, "reference", p, model.paged, call)
    BY <2>1, <2>2, LlamaStackAssumption DEF PresetAllows, PresetFits
  <2>4. fits => ok
    OBVIOUS
  <2>5. Answered(answer, Inputs(1), p, TRUE, FALSE, fits)
    BY <1>3
  <2> HIDE DEF T, R, c, ok, fits
  <2>6. AnswersRow(OneLayer(reference_llama_layer_decode_step(<<T[p + 1]>>, 1, c, p, call)), 1, model.paged, T, R, logits, p, ok)
    BY <1>0, <2>1, <2>2, <2>3, ReferenceLayerStepAnswers
  <2>7. AnswersRow(answer, 1, model.paged, FedTo(p), RotatedTo(p), logits, p, ok)
    BY <2>1, <2>6 DEF T, R
  <2> HIDE DEF answer
  <2> QED BY <1>0, <1>1, <2>4, <2>5, <2>7, LayerKeeps
<1>4. ASSUME NEW n \in 1..MAX_S, NEW preset \in Presets, NEW call \in Calls,
             Answered(llama_layer_decode_loop(Inputs(n), caches, preset, call), Inputs(n), 0, TRUE, FALSE, Served(preset))
      PROVE  LInv'
  <2>0. PICK p, rotates : p = 0 /\ rotates = TRUE
    OBVIOUS
  <2> DEFINE xs == Inputs(n)
             T == After(tokens, p, xs)
             R == After(rotated, p, Rotations(xs, rotates))
             fits == Served(preset)
             ok == fits
             answer == llama_layer_decode_loop(xs, caches, preset, call)
  <2>1. n \in Nat /\ n <= MAX_S /\ IsRows(xs, n) /\ Clean(xs) /\ p \in 0..Len(tokens)
    <3>1. n \in Nat /\ n <= MAX_S
      BY LlamaStackAssumption
    <3>2. Len(tokens) \in Nat
      BY DEF LInv, SequenceInv, Sequence, IsRows
    <3> QED BY <2>0, <3>1, <3>2, InputRows
  <2>2. SingleLayer /\ Depth = 1 /\ model.paged \in BOOLEAN
    BY <1>1, ModelDepth
  <2>3. HalfPrecision(call) /\ call.grouped \in BOOLEAN /\ call.grouped = model.grouped
    BY <1>1, CallFacts
  <2> HIDE DEF xs
  <2>4. Feeding(T, R, p, xs, n, rotates)
    BY <2>1, FeedingIs
  <2>5. LoopAllows(ok, preset, 0, n, model.paged, call)
    BY <2>1, <2>3, LlamaStackAssumption DEF LoopAllows, PresetAllows, PresetFits, Served
  <2>6. fits => ok
    OBVIOUS
  <2> HIDE DEF T, R, ok, fits
  <2>7. FedFrom(T, R, 0, xs, n) /\ Held(caches, 1, model.paged, T, R, 0)
    <3>1. rotates <=> model.mlx
      BY <2>0, <2>2 DEF SingleLayer
    <3>2. FedFrom(T, R, p, xs, n)
      BY <2>1, <2>4, <3>1, FeedingLoop
    <3> QED BY <2>0, <2>2, <2>4, <3>2 DEF Feeding
  <2>8. Answers(answer, 1, model.paged, T, R, logits, 0, n, ok)
    BY <1>0, <2>2, <2>3, <2>5, <2>7, LayerLoopAnswers
  <2>9. Answered(answer, xs, p, rotates, logits, fits)
    BY <1>0, <1>4, <2>0 DEF xs, fits
  <2> HIDE DEF answer
  <2>10. AnswersFor(answer, xs, p, rotates, logits, n, ok)
    BY <2>0, <2>2, <2>8 DEF AnswersFor, T, R
  <2> QED BY <2>1, <2>6, <2>9, <2>10, AnsweredKeeps
<1> QED BY <1>2, <1>3, <1>4 DEF LayerDecode

(* So does its prefill. *)
LEMMA LayerPrefillKeeps ==
  ASSUME LInv, LayerPrefill
  PROVE  LInv'
<1>1. PICK n \in 1..(MAX_S + 1), preset \in Presets, call \in Calls :
          \/ Answered(OneLayer(llama_layer_prefill(Inputs(n), 1, caches[1],
                          _prefill_backend_from_preset(preset), 0, call)),
                      Inputs(n), 0, TRUE, FALSE, n <= MAX_S)
          \/ Answered(OneLayer(reference_llama_layer_prefill(Inputs(n), 1, caches[1], 0, call)),
                      Inputs(n), 0, TRUE, FALSE, n <= MAX_S)
  BY DEF LayerPrefill
<1>0. PICK p, rotates, logits : p = 0 /\ rotates = TRUE /\ logits = FALSE
  OBVIOUS
<1> DEFINE xs == Inputs(n)
           T == After(tokens, p, xs)
           R == After(rotated, p, Rotations(xs, rotates))
           fits == n <= MAX_S
           ok == fits
           c == caches[1]
<1>2. n \in Nat \ {0} /\ IsRows(xs, n) /\ Clean(xs) /\ p \in 0..Len(tokens) /\ n \in Nat
  <2>1. n \in Nat \ {0}
    BY LlamaStackAssumption
  <2>2. Len(tokens) \in Nat
    BY DEF LInv, SequenceInv, Sequence, IsRows
  <2> QED BY <1>0, <2>1, <2>2, InputRows
<1>3. ~model.stack /\ ~model.paged /\ model.paged \in BOOLEAN /\ Depth = 1 /\ SingleLayer
  BY ModelDepth DEF LayerPrefill, LInv
<1> HIDE DEF xs
<1>4. PromptOf(xs, R, n) /\ T = xs /\ Roomy(c)
  <2>1. PromptOf(xs, R, n) /\ T = xs
        /\ \A l \in 1..Depth : MAX_S <= Slots(caches[l]) /\ IsCache(caches[l], Slots(caches[l]))
                               /\ (caches[l].table # <<>> <=> model.paged)
    BY <1>0, <1>2, PromptFeeding
  <2>2. 1 \in 1..Depth
    BY <1>3
  <2>3. MAX_S <= Slots(c) /\ IsCache(c, Slots(c)) /\ (c.table # <<>> <=> model.paged)
    BY <2>1, <2>2
  <2> QED BY <1>3, <2>1, <2>3 DEF Roomy
<1>5. PromptAllows(ok, n, 0, call)
  BY <1>2, LlamaStackAssumption DEF PromptAllows, HalfPrecision, Calls
<1>6. fits => ok
  OBVIOUS
<1> HIDE DEF T, R, ok, fits, c
<1>7. ASSUME NEW answer, Answers(answer, 1, model.paged, xs, R, logits, 0, n, ok),
             Answered(answer, xs, p, rotates, logits, fits)
      PROVE  LInv'
  <2>1. AnswersFor(answer, xs, p, rotates, logits, n, ok)
    BY <1>0, <1>3, <1>4, <1>7 DEF AnswersFor, T, R
  <2> QED BY <1>2, <1>6, <1>7, <2>1, AnsweredKeeps
<1> DEFINE optimized == OneLayer(llama_layer_prefill(xs, 1, c, _prefill_backend_from_preset(preset), 0, call))
           reference == OneLayer(reference_llama_layer_prefill(xs, 1, c, 0, call))
<1>8. Answers(optimized, 1, model.paged, xs, R, logits, 0, n, ok) /\ Answers(reference, 1, model.paged, xs, R, logits, 0, n, ok)
  BY <1>0, <1>2, <1>3, <1>4, <1>5, LayerPrefillAnswers
<1>9. Answered(optimized, xs, p, rotates, logits, fits) \/ Answered(reference, xs, p, rotates, logits, fits)
  BY <1>0, <1>1 DEF xs, c, fits
<1> HIDE DEF optimized, reference
<1> QED BY <1>7, <1>8, <1>9

(* So does the toy layer. *)
LEMMA ToyDecodeKeeps ==
  ASSUME LInv, ToyDecode
  PROVE  LInv'
<1>1. PICK p \in Positions, matvec \in {"metal", "metal_parallel", "metal_tiled"},
           block_backend \in {"auto", "metal", "reference"}, call \in Calls :
         LET x == Inputs(1)
             fits == p < MAX_S /\ matvec # "metal"
         IN  \/ ~model.paged /\ Answered(OneLayer(toy_transformer_decode_layer(
                       x, caches[1], p, matvec, block_backend, "metal", call)), x, p, TRUE, FALSE, fits)
             \/ ~model.paged /\ Answered(OneLayer(reference_toy_transformer_decode_layer(
                       x, caches[1], p, call)), x, p, TRUE, FALSE, p < MAX_S)
             \/ model.paged /\ Answered(OneLayer(paged_toy_transformer_decode_layer(
                       x, caches[1], p, matvec, block_backend, "metal", call)), x, p, TRUE, FALSE, fits)
             \/ model.paged /\ Answered(OneLayer(reference_paged_toy_transformer_decode_layer(
                       x, caches[1], p, call)), x, p, TRUE, FALSE, p < MAX_S)
  BY DEF ToyDecode
<1>0. PICK logits : logits = FALSE
  OBVIOUS
<1>2. ~model.stack /\ ModelInv
  BY DEF ToyDecode, LInv
<1> DEFINE T == FedTo(p)
           R == RotatedTo(p)
           c == caches[1]
<1>3. /\ SingleLayer /\ Fed(T, R, p) /\ Holds(c, model.paged, T, 1, R, p)
      /\ <<T[p + 1]>> = Inputs(1) /\ model.paged \in BOOLEAN /\ p \in Nat /\ (c.table # <<>> <=> model.paged)
  BY <1>2, LayerFeeding DEF Fed
<1>4. HalfPrecision(call) /\ call.grouped \in BOOLEAN
  BY <1>2, CallFacts
<1>5. ASSUME NEW fits, NEW name, NEW backend, NEW other,
             backend \in {"auto", "metal", "reference"} /\ other \in {"reference", "metal"},
             fits => p < MAX_S /\ name \in {"reference", "metal_tiled", "metal_parallel"},
             Answered(OneLayer(ToyStep(c, T, p, name, backend, other, call)), Inputs(1), p, TRUE, FALSE, fits)
      PROVE  LInv'
  <2> DEFINE ok == fits
             answer == OneLayer(ToyStep(c, T, p, name, backend, other, call))
  <2>1. ok => ToyFits(p, model.paged, name, backend, other, call)
    BY <1>3, <1>4, <1>5, LlamaStackAssumption DEF ToyFits, GqaBackends
  <2>2. fits => ok
    OBVIOUS
  <2> HIDE DEF T, R, c, ok
  <2>3. AnswersRow(answer, 1, model.paged, T, R, logits, p, ok)
    BY <1>0, <1>3, <1>4, <2>1, ToyAnswers
  <2>4. Answered(answer, Inputs(1), p, TRUE, FALSE, fits)
    BY <1>5
  <2> HIDE DEF answer
  <2> QED BY <1>0, <1>2, <2>2, <2>3, <2>4, LayerKeeps DEF T, R
<1>6. /\ ~model.paged => \A m, b, o : ToyStep(c, T, p, m, b, o, call) = toy_transformer_decode_layer(Inputs(1), c, p, m, b, o, call)
      /\ model.paged => \A m, b, o : ToyStep(c, T, p, m, b, o, call) = paged_toy_transformer_decode_layer(Inputs(1), c, p, m, b, o, call)
  <2> HIDE DEF T, c
  <2> QED BY <1>3 DEF ToyStep
<1> DEFINE fits == p < MAX_S /\ matvec # "metal"
           low == p < MAX_S
<1>7. \/ Answered(OneLayer(ToyStep(c, T, p, matvec, block_backend, "metal", call)), Inputs(1), p, TRUE, FALSE, fits)
      \/ Answered(OneLayer(ToyStep(c, T, p, "reference", "reference", "reference", call)), Inputs(1), p, TRUE, FALSE, low)
  <2>1. CASE ~model.paged
    <3>1. \/ Answered(OneLayer(toy_transformer_decode_layer(Inputs(1), c, p, matvec, block_backend, "metal", call)),
                      Inputs(1), p, TRUE, FALSE, fits)
          \/ Answered(OneLayer(toy_transformer_decode_layer(Inputs(1), c, p, "reference", "reference", "reference", call)),
                      Inputs(1), p, TRUE, FALSE, low)
      BY <1>1, <2>1 DEF reference_toy_transformer_decode_layer
    <3> HIDE DEF T, c, fits, low
    <3> QED BY <1>6, <2>1, <3>1
  <2>2. CASE model.paged
    <3>1. \/ Answered(OneLayer(paged_toy_transformer_decode_layer(Inputs(1), c, p, matvec, block_backend, "metal", call)),
                      Inputs(1), p, TRUE, FALSE, fits)
          \/ Answered(OneLayer(paged_toy_transformer_decode_layer(Inputs(1), c, p, "reference", "reference", "reference", call)),
                      Inputs(1), p, TRUE, FALSE, low)
      BY <1>1, <2>2 DEF reference_paged_toy_transformer_decode_layer
    <3> HIDE DEF T, c, fits, low
    <3> QED BY <1>6, <2>2, <3>1
  <2> QED BY <2>1, <2>2
<1>8. /\ fits => low /\ matvec \in {"reference", "metal_tiled", "metal_parallel"}
      /\ low => low /\ "reference" \in {"reference", "metal_tiled", "metal_parallel"}
      /\ block_backend \in {"auto", "metal", "reference"} /\ "metal" \in {"reference", "metal"}
      /\ "reference" \in {"auto", "metal", "reference"} /\ "reference" \in {"reference", "metal"}
  OBVIOUS
<1> HIDE DEF T, c, fits
<1>9. ASSUME Answered(OneLayer(ToyStep(c, T, p, matvec, block_backend, "metal", call)), Inputs(1), p, TRUE, FALSE, fits)
      PROVE  LInv'
  BY <1>5, <1>8, <1>9
<1>10. ASSUME Answered(OneLayer(ToyStep(c, T, p, "reference", "reference", "reference", call)), Inputs(1), p, TRUE, FALSE, low)
       PROVE  LInv'
  BY <1>5, <1>8, <1>10
<1> QED BY <1>7, <1>9, <1>10

(* So do the adapter's two calls. *)
LEMMA AdapterDecodeKeeps ==
  ASSUME LInv, AdapterDecode
  PROVE  LInv'
<1> DEFINE x == Inputs(1)
           qkv == _linear(reference_rms_norm(x, Norm(1, "input_layernorm")), W(1, "qkv"))
<1>1. PICK p \in Positions, matvec \in {"metal_tiled", "metal_parallel"}, call \in Calls :
         \/ Answered(OneLayer(decode_layer_from_fused_qkv(x, qkv, caches[1], p, call)), x, p, TRUE, FALSE, p < MAX_S)
         \/ Answered(OneLayer(decode_layer_quantized_from_fused_qkv(x, caches[1], p, matvec, call)), x, p, TRUE, FALSE, p < MAX_S)
  BY DEF AdapterDecode
<1>0. PICK logits : logits = FALSE
  OBVIOUS
<1>2. ~model.stack /\ ModelInv
  BY DEF AdapterDecode, LInv
<1> DEFINE T == FedTo(p)
           R == RotatedTo(p)
           c == caches[1]
           fits == p < MAX_S
           ok == fits
           fused == OneLayer(decode_layer_from_fused_qkv(x, qkv, c, p, call))
           quantized == OneLayer(decode_layer_quantized_from_fused_qkv(x, c, p, matvec, call))
<1>3. /\ SingleLayer /\ Fed(T, R, p) /\ Holds(c, model.paged, T, 1, R, p)
      /\ <<T[p + 1]>> = Inputs(1) /\ model.paged \in BOOLEAN /\ p \in Nat
  BY <1>2, LayerFeeding DEF Fed
<1>4. HalfPrecision(call) /\ call.grouped \in BOOLEAN
  BY <1>2, CallFacts
<1>5. AdapterAllows(ok, p, call) /\ (fits => ok)
  BY <1>3, <1>4, LlamaStackAssumption DEF AdapterAllows
<1> HIDE DEF T, R, c, ok
<1>6. AnswersRow(fused, 1, model.paged, T, R, logits, p, ok)
  <2> DEFINE y == <<T[p + 1]>>
             proj == _linear(reference_rms_norm(y, Norm(1, "input_layernorm")), W(1, "qkv"))
  <2>1. AnswersRow(OneLayer(decode_layer_from_fused_qkv(y, proj, c, p, call)), 1, model.paged, T, R, logits, p, ok)
    BY <1>0, <1>3, <1>4, <1>5, FusedAnswers
  <2>2. y = x
    BY <1>3
  <2> QED BY <2>1, <2>2
<1>7. AnswersRow(quantized, 1, model.paged, T, R, logits, p, ok)
  <2>1. AnswersRow(OneLayer(decode_layer_quantized_from_fused_qkv(<<T[p + 1]>>, c, p, matvec, call)), 1, model.paged, T, R, logits, p, ok)
    BY <1>0, <1>3, <1>4, <1>5, AdapterAnswers
  <2> QED BY <1>3, <2>1
<1>8. Answered(fused, x, p, TRUE, FALSE, fits) \/ Answered(quantized, x, p, TRUE, FALSE, fits)
  BY <1>1 DEF c
<1> HIDE DEF fused, quantized, fits
<1>9. ASSUME NEW answer, AnswersRow(answer, 1, model.paged, T, R, logits, p, ok), Answered(answer, x, p, TRUE, FALSE, fits)
      PROVE  LInv'
  BY <1>0, <1>2, <1>5, <1>9, LayerKeeps DEF T, R
<1> QED BY <1>6, <1>7, <1>8, <1>9

-----------------------------------------------------------------------------
(* Commits of a verified draft. *)

(* A layer's cache after a commit of the first count rows of the draft. *)
Merged(new, old, count) == [e \in DOMAIN old |-> IF e < count THEN new[e] ELSE old[e]]

(* ... keys and values. *)
Commit(draft, old, count) ==
    [K |-> Merged(draft.K, old.K, count), V |-> Merged(draft.V, old.V, count), table |-> old.table]

(* It is a cache like the old one. *)
LEMMA CommitCache ==
  ASSUME NEW draft, NEW old, NEW n, IsCache(old, n), NEW count
  PROVE  IsCache(Commit(draft, old, count), n) /\ Commit(draft, old, count).table = old.table
<1> DEFINE new == Commit(draft, old, count)
<1>1. IsMem(old.K, n) /\ IsMem(old.V, n)
  BY DEF IsCache
<1>2. IsMem(Merged(draft.K, old.K, count), n) /\ IsMem(Merged(draft.V, old.V, count), n)
  <2>1. ASSUME NEW mem, NEW rows, IsMem(mem, n)
        PROVE  IsMem(Merged(rows, mem, count), n)
    <3>1. DOMAIN mem = 0..(n - 1) /\ n \in Nat \ {0}
      BY <2>1 DEF IsMem
    <3> QED BY <3>1 DEF IsMem, Merged
  <2> QED BY <1>1, <2>1
<1>3. new = [K |-> new.K, V |-> new.V, table |-> new.table] /\ new.table = old.table
      /\ new.K = Merged(draft.K, old.K, count) /\ new.V = Merged(draft.V, old.V, count)
  BY DEF Commit
<1> HIDE DEF new
<1>4. IsCache(new, n) /\ new.table = old.table
  BY <1>2, <1>3 DEF IsCache
<1> QED BY <1>4 DEF new

(* The rows that the committed cache then holds: of the draft where count or m ends within them, else of both. *)
Covers(count, m, d, b) == (count <= d /\ m <= b) \/ (m <= d /\ m <= count)

(* What the committed cache holds: the draft's rows below count and the old
   ones above. *)
LEMMA CommitHolds ==
  ASSUME NEW draft, NEW paged, NEW u, NEW l, NEW r, NEW a, Holds(draft, paged, u, l, r, a), NEW old, NEW v, NEW s, NEW b,
         Holds(old, paged, v, l, s, b), NEW count \in Nat, NEW m \in 0..Slots(old), NEW w, NEW z, NEW d \in 0..a,
         Agree(u, r, w, z, d), NEW g \in 0..b, Agree(v, s, w, z, g), Covers(count, m, d, g)
  PROVE  Holds(Commit(draft, old, count), paged, w, l, z, m)
<1> DEFINE new == Commit(draft, old, count)
           n == Slots(old)
<1>1. IsCache(old, n) /\ n \in Nat \ {0} /\ a \in Nat /\ b \in Nat /\ d \in Nat /\ g \in Nat /\ b <= n
  <2>1. IsCache(old, n) /\ b \in 0..n /\ a \in Nat
    BY DEF Holds
  <2>2. n \in Nat \ {0}
    BY <2>1, CacheSlots
  <2> QED BY <2>1, <2>2
<1>2. IsCache(new, n) /\ new.table = old.table
  BY <1>1, CommitCache
<1>3. Slots(new) = n
  BY <1>2, CacheSlots
<1>4. InCache(draft, w, l, z, d)
  <2>1. InCache(draft, u, l, r, d)
    BY <1>1 DEF Holds, InCache
  <2> QED BY <1>1, <2>1, CacheAgrees
<1>5. InCache(old, w, l, z, g)
  <2>1. InCache(old, v, l, s, g)
    BY <1>1 DEF Holds, InCache
  <2> QED BY <1>1, <2>1, CacheAgrees
<1>6. InCache(new, w, l, z, m)
  <2>1. ASSUME NEW j \in 0..(m - 1)
        PROVE  \/ j \in 0..(d - 1) /\ new.K[j] = draft.K[j] /\ new.V[j] = draft.V[j]
               \/ j \in 0..(g - 1) /\ new.K[j] = old.K[j] /\ new.V[j] = old.V[j]
    <3>1. j \in 0..(n - 1) /\ j \in Nat /\ m \in Nat
      BY <1>1
    <3>2. DOMAIN old.K = 0..(n - 1) /\ DOMAIN old.V = 0..(n - 1)
      BY <1>1 DEF IsCache, IsMem
    <3>3. /\ new.K[j] = IF j < count THEN draft.K[j] ELSE old.K[j]
          /\ new.V[j] = IF j < count THEN draft.V[j] ELSE old.V[j]
      BY <3>1, <3>2 DEF Commit, Merged
    <3> HIDE DEF new, n
    <3>4. (j < count => j \in 0..(d - 1)) /\ (~(j < count) => j \in 0..(g - 1))
      BY <1>1, <3>1 DEF Covers
    <3> QED BY <3>3, <3>4
  <2> HIDE DEF new
  <2> QED BY <1>4, <1>5, <2>1 DEF InCache
<1> HIDE DEF new
<1>7. Holds(new, paged, w, l, z, m)
  BY <1>1, <1>2, <1>3, <1>6 DEF Holds
<1> QED BY <1>7 DEF new

(* The commit of all layers. *)
CommitAll(draft, old, depth, count) == [l \in 1..depth |-> Commit(draft[l], old[l], count)]

(* commit_accepted_cache is that. *)
LEMMA CommitIs ==
  ASSUME NEW draft, NEW old, NEW depth, IsRows(old, depth), NEW count, \A l \in 1..depth : IsCache(old[l], Slots(old[l]))
  PROVE  commit_accepted_cache(draft, old, count) = CommitAll(draft, old, depth, count)
<1>1. DOMAIN old = 1..depth
  BY DEF IsRows
<1>2. ASSUME NEW l \in 1..depth
      PROVE  [old[l] EXCEPT !.K = Merged(draft[l].K, @, count), !.V = Merged(draft[l].V, @, count)]
                = Commit(draft[l], old[l], count)
  <2> DEFINE c == old[l]
             k == Merged(draft[l].K, c.K, count)
             v == Merged(draft[l].V, c.V, count)
  <2>1. c = [K |-> c.K, V |-> c.V, table |-> c.table]
    BY DEF IsCache
  <2> HIDE DEF k, v, c
  <2>2. [c EXCEPT !.K = k, !.V = v] = [K |-> k, V |-> v, table |-> c.table]
    <3>1. PICK f, g, t : c = [K |-> f, V |-> g, table |-> t]
      BY <2>1
    <3>2. [[K |-> f, V |-> g, table |-> t] EXCEPT !.K = k, !.V = v] = [K |-> k, V |-> v, table |-> t]
      <4>1. [[K |-> f, V |-> g, table |-> t] EXCEPT !.K = k, !.V = v]
               = [[[K |-> f, V |-> g, table |-> t] EXCEPT !.K = k] EXCEPT !.V = v]
        BY Zenon
      <4>2. [[K |-> f, V |-> g, table |-> t] EXCEPT !.K = k] = [K |-> k, V |-> g, table |-> t]
        OBVIOUS
      <4>3. [[K |-> k, V |-> g, table |-> t] EXCEPT !.V = v] = [K |-> k, V |-> v, table |-> t]
        OBVIOUS
      <4> QED BY <4>1, <4>2, <4>3
    <3> QED BY <3>1, <3>2
  <2> QED BY <2>2 DEF Commit, c, k, v
<1> QED BY <1>1, <1>2 DEF commit_accepted_cache, Merged, CommitAll

(* So all committed caches hold the sequence that agrees with the draft below
   count and with the old one above. *)
LEMMA CommitHeld ==
  ASSUME NEW draft, NEW depth \in 0..Layers, NEW paged, NEW u, NEW r, NEW a \in Nat, Held(draft, depth, paged, u, r, a),
         NEW old, NEW v, NEW s, NEW b \in Nat, Held(old, depth, paged, v, s, b), NEW count \in Nat, NEW m \in Nat,
         \A l \in 1..depth : m <= Slots(old[l]), NEW w, NEW z, NEW d \in 0..a, NEW g \in 0..b, Covers(count, m, d, g),
         Agree(u, r, w, z, d), Agree(v, s, w, z, g), Clean(u), Clean(v), Clean(w),
         1..d \subseteq DOMAIN u, 1..d \subseteq DOMAIN w, 1..g \subseteq DOMAIN v, 1..g \subseteq DOMAIN w
  PROVE  Held(commit_accepted_cache(draft, old, count), depth, paged, w, z, m)
<1> DEFINE new == [l \in 1..depth |-> Commit(draft[l], old[l], count)]
<1>0. depth \in Nat /\ d \in Nat /\ g \in Nat
  BY LlamaStackAssumption
<1>1. IsRows(old, depth) /\ \A l \in 1..depth : Holds(old[l], paged, Through(v, s)[l - 1], l, s, b)
  BY DEF Held
<1>2. \A l \in 1..depth : IsCache(old[l], Slots(old[l]))
  BY <1>1 DEF Holds
<1>3. commit_accepted_cache(draft, old, count) = new
  <2>1. commit_accepted_cache(draft, old, count) = CommitAll(draft, old, depth, count)
    BY <1>1, <1>2, CommitIs
  <2> QED BY <2>1 DEF CommitAll
<1>4. ASSUME NEW l \in 1..depth
      PROVE  Holds(new[l], paged, Through(w, z)[l - 1], l, z, m)
  <2> DEFINE j == l - 1
             x == Through(u, r)[j]
             y == Through(v, s)[j]
             t == Through(w, z)[j]
             dl == draft[l]
             ol == old[l]
  <2>1. j \in 0..Layers
    BY <1>0, LlamaStackAssumption
  <2>2. Agree(x, r, t, z, d)
    BY <1>0, <2>1, ThroughAgrees
  <2>3. Agree(y, s, t, z, g)
    BY <1>0, <2>1, ThroughAgrees
  <2>4. Holds(dl, paged, x, l, r, a) /\ Holds(ol, paged, y, l, s, b)
    BY DEF Held
  <2>5. m \in 0..Slots(ol)
    <3>1. Slots(ol) \in Nat
      BY <1>2, CacheSlots
    <3> QED BY <3>1
  <2> HIDE DEF x, y, t, dl, ol
  <2>6. Holds(Commit(dl, ol, count), paged, t, l, z, m)
    BY <2>2, <2>3, <2>4, <2>5, CommitHolds
  <2> QED BY <2>6 DEF dl, ol, t
<1>5. IsRows(new, depth)
  BY <1>0 DEF IsRows
<1> HIDE DEF new
<1> QED BY <1>3, <1>4, <1>5 DEF Held

(* How many tokens of a proposal a count accepts. *)
LEMMA AcceptedIs ==
  ASSUME NEW count \in Nat, NEW p \in Nat, NEW n \in Nat
  PROVE  /\ Accepted(count, p, n) \in 0..n
         /\ Accepted(count, p, n) = 0 /\ n > 0 => count <= p
         /\ Accepted(count, p, n) # 0 => p + Accepted(count, p, n) <= count
BY DEF Accepted

(* Two sequences with one answer at position i. *)
SameAnswer(x, r, y, s, logits, i) == Denotation(x, r, logits)[i] = Denotation(y, s, logits)[i]

(* Sequences that agree up to a position have one answer there. *)
LEMMA DenotationAgrees ==
  ASSUME ModelInv, NEW x, NEW r, NEW y, NEW s, NEW m \in Nat, Agree(x, r, y, s, m), 1..m \subseteq DOMAIN x, 1..m \subseteq DOMAIN y,
         Clean(x), Clean(y), NEW logits, NEW i \in 1..m
  PROVE  SameAnswer(x, r, y, s, logits, i)
<1>1. Depth \in 0..Layers
  BY ModelDepth, LlamaStackAssumption
<1> DEFINE d == Depth
<1>2. Agree(Through(x, r)[d], r, Through(y, s)[d], s, m)
  BY <1>1, ThroughAgrees
<1>3. Through(x, r)[d][i] = Through(y, s)[d][i]
  BY <1>2 DEF Agree
<1>4. i \in DOMAIN x /\ i \in DOMAIN y
  OBVIOUS
<1>5. Denotation(x, r, logits)[i] = Headed(Through(x, r)[d][i], logits)
  BY <1>4, DenotationIs
<1>6. Denotation(y, s, logits)[i] = Headed(Through(y, s)[d][i], logits)
  BY <1>4, DenotationIs
<1> QED BY <1>3, <1>5, <1>6 DEF SameAnswer

(* What a commit of count leaves: the sequence T of the draft, the proposal xs
   from position p on, and the sequence v of the caches it is committed to. *)
LEMMA CommittedAgrees ==
  ASSUME NEW v, NEW s, Sequence(v, s), NEW p \in 0..Len(v), NEW n \in Nat \ {0}, NEW xs, IsRows(xs, n), Clean(xs), NEW rotates,
         NEW T, NEW R, Continues(T, R, v, s, p, xs, n, rotates), NEW k \in 0..n,
         NEW ys, IsRows(ys, k), Clean(ys), \A i \in 1..k : ys[i] = xs[i], NEW q, q = IF k = 0 THEN Len(v) ELSE p,
         NEW U, NEW Z, Continues(U, Z, v, s, q, ys, k, rotates)
  PROVE  /\ q \in Nat /\ p + k \in Nat /\ Agree(T, R, U, Z, p + k) /\ Agree(v, s, U, Z, q)
         /\ Len(U) = q + k /\ Clean(T) /\ Clean(U) /\ Clean(v)
         /\ DOMAIN T = 1..(p + n) /\ DOMAIN U = 1..(q + k) /\ DOMAIN v = 1..Len(v)
<1>1. Len(v) \in Nat /\ DOMAIN v = 1..Len(v) /\ Clean(v) /\ p \in Nat /\ k \in Nat /\ p <= Len(v)
  <2>1. Len(v) \in Nat /\ DOMAIN v = 1..Len(v) /\ Clean(v)
    BY DEF Sequence, IsRows
  <2> QED BY <2>1
<1>2. /\ Sequence(T, R) /\ Len(T) = p + n /\ Agree(v, s, T, R, p)
      /\ \A i \in 1..n : T[p + i] = xs[i] /\ R[p + i] = rotates
  BY DEF Continues
<1>3. /\ Sequence(U, Z) /\ Len(U) = q + k /\ Agree(v, s, U, Z, q)
      /\ \A i \in 1..k : U[q + i] = ys[i] /\ Z[q + i] = rotates
  BY DEF Continues
<1>4. DOMAIN T = 1..(p + n) /\ DOMAIN U = 1..(q + k) /\ Clean(T) /\ Clean(U)
  BY <1>2, <1>3 DEF Sequence, IsRows
<1>5. ASSUME NEW i \in 1..(p + k)
      PROVE  T[i] = U[i] /\ R[i] = Z[i]
  <2>1. CASE i \in 1..p
    <3>1. i \in 1..q
      BY <1>1, <2>1
    <3> QED BY <1>2, <1>3, <2>1, <3>1 DEF Agree
  <2>2. CASE i \notin 1..p
    <3>1. i \in Int /\ p < i /\ i <= p + k /\ k <= n
      <4>1. i \in Int /\ 1 <= i /\ i <= p + k
        BY <1>1
      <4>2. p < i
        BY <1>1, <2>2, <4>1
      <4> QED BY <4>1, <4>2
    <3>2. PICK j \in 1..k : i = p + j /\ j \in 1..n
      <4>1. i - p \in 1..k /\ i = p + (i - p) /\ i - p \in 1..n
        BY <1>1, <3>1
      <4> QED BY <4>1
    <3>3. q = p
      <4>1. k # 0
        BY <1>1, <3>1
      <4> QED BY <4>1
    <3>4. T[p + j] = xs[j] /\ R[p + j] = rotates
      BY <1>2, <3>2
    <3>5. U[q + j] = ys[j] /\ Z[q + j] = rotates
      BY <1>3
    <3>6. ys[j] = xs[j]
      OBVIOUS
    <3> QED BY <3>2, <3>3, <3>4, <3>5, <3>6
  <2> QED BY <2>1, <2>2
<1>6. Agree(T, R, U, Z, p + k)
  BY <1>5 DEF Agree
<1>7. q \in Nat /\ p + k \in Nat
  BY <1>1
<1> QED BY <1>1, <1>3, <1>4, <1>6, <1>7

(* The accepted tokens of a proposal. *)
LEMMA SubRowsClean ==
  ASSUME NEW xs, NEW n, IsRows(xs, n), Clean(xs), NEW k \in 0..n
  PROVE  IsRows(SubSeq(xs, 1, k), k) /\ Clean(SubSeq(xs, 1, k)) /\ \A i \in 1..k : SubSeq(xs, 1, k)[i] = xs[i]
<1> DEFINE ys == SubSeq(xs, 1, k)
<1>1. IsRows(ys, k) /\ \A i \in 1..k : ys[i] = xs[i]
  BY PrefixRows
<1> HIDE DEF ys
<1>2. n \in Nat /\ DOMAIN xs = 1..n /\ DOMAIN ys = 1..k
  BY <1>1 DEF IsRows
<1>3. Clean(ys)
  BY <1>1, <1>2 DEF Clean
<1> QED BY <1>1, <1>3 DEF ys

(* Verification on a clone and the commit of count rows answers for the
   accepted tokens, and leaves caches that hold them and nothing rejected. *)
LEMMA CommitAnswers ==
  ASSUME LInv, model.stack, NEW p \in 0..Len(tokens), NEW n \in Nat \ {0}, NEW xs, IsRows(xs, n), Clean(xs), NEW rotates,
         NEW staged, NEW logits, NEW ok, AnswersFor(staged, xs, p, rotates, logits, n, ok),
         NEW count \in Nat, NEW k, k = Accepted(count, p, n), NEW q, q = IF k = 0 THEN Len(tokens) ELSE p,
         NEW ok2, ok2 => ok /\ count <= MAX_S
  PROVE  AnswersFor(Committed(staged, count, k), SubSeq(xs, 1, k), q, rotates, logits, k, ok2)
<1> DEFINE v == tokens
           s == rotated
           N == Len(v)
           T == After(v, p, xs)
           R == After(s, p, Rotations(xs, rotates))
           ys == SubSeq(xs, 1, k)
           U == After(v, q, ys)
           Z == After(s, q, Rotations(ys, rotates))
           answer == Committed(staged, count, k)
           d == p + k
<1>1. Sequence(v, s) /\ N \in Nat /\ p \in Nat /\ n \in Nat
  BY DEF LInv, SequenceInv, Sequence, IsRows
<1>2. Depth = Layers /\ Depth \in 0..Layers /\ ModelInv /\ Held(caches, Depth, model.paged, v, s, N)
  BY ModelDepth, LlamaStackAssumption DEF LInv, CacheInv
<1>3. k \in 0..n /\ (k = 0 => count <= p) /\ (k # 0 => p + k <= count) /\ k \in Nat
  <2>1. k \in 0..n /\ (k = 0 => count <= p) /\ (k # 0 => p + k <= count)
    BY <1>1 DEF Accepted
  <2> QED BY <2>1
<1>4. IsRows(ys, k) /\ Clean(ys) /\ \A i \in 1..k : ys[i] = xs[i]
  BY <1>3, SubRowsClean
<1> HIDE DEF ys
<1>5. q \in 0..N
  BY <1>1
<1>6. Continues(T, R, v, s, p, xs, n, rotates)
  BY <1>1, AfterSequence
<1>7. Continues(U, Z, v, s, q, ys, k, rotates)
  BY <1>1, <1>4, <1>5, AfterSequence
<1> HIDE DEF T, R, U, Z
<1>8. /\ q \in Nat /\ d \in Nat /\ Agree(T, R, U, Z, d) /\ Agree(v, s, U, Z, q)
      /\ Clean(T) /\ Clean(U) /\ Clean(v)
      /\ DOMAIN T = 1..(p + n) /\ DOMAIN U = 1..(q + k) /\ DOMAIN v = 1..N
  <2>1. p \in 0..Len(v) /\ n \in Nat \ {0} /\ q = IF k = 0 THEN Len(v) ELSE p
    OBVIOUS
  <2> HIDE DEF v, s
  <2>2. /\ q \in Nat /\ p + k \in Nat /\ Agree(T, R, U, Z, p + k) /\ Agree(v, s, U, Z, q)
        /\ Len(U) = q + k /\ Clean(T) /\ Clean(U) /\ Clean(v)
        /\ DOMAIN T = 1..(p + n) /\ DOMAIN U = 1..(q + k) /\ DOMAIN v = 1..Len(v)
    BY <1>1, <1>3, <1>4, <1>6, <1>7, <2>1, CommittedAgrees
  <2> QED BY <2>2
<1>9. Answers(staged, Depth, model.paged, T, R, logits, p, n, ok)
  BY DEF AnswersFor, T, R
<1>10. \A l \in 1..Depth : IsCache(caches[l], Slots(caches[l])) /\ MAX_S <= Slots(caches[l]) /\ Slots(caches[l]) \in Nat
                           /\ N <= Slots(caches[l])
  <2>1. \A l \in 1..Depth : Holds(caches[l], model.paged, Through(v, s)[l - 1], l, s, N)
    BY <1>2 DEF Held
  <2>2. \A l \in 1..Depth : IsCache(caches[l], Slots(caches[l])) /\ MAX_S <= Slots(caches[l]) /\ N \in 0..Slots(caches[l])
    BY <2>1 DEF Holds
  <2>3. \A l \in 1..Depth : Slots(caches[l]) \in Nat
    BY <2>2, CacheSlots
  <2> QED BY <2>2, <2>3
<1>11. DOMAIN caches = 1..Depth
  BY <1>2 DEF Held, IsRows
<1>12. CASE Raised(staged.rows) \/ \E l \in DOMAIN caches : count > Slots(caches[l])
  <2>1. answer.rows = <<Raise>>
    BY <1>12 DEF Committed
  <2>2. Raised(answer.rows)
    BY <2>1 DEF Raised
  <2>3. ~ok2
    <3>1. CASE Raised(staged.rows)
      BY <1>9, <3>1 DEF Answers
    <3>2. CASE \E l \in DOMAIN caches : count > Slots(caches[l])
      <4>1. count > MAX_S
        BY <1>10, <1>11, <3>2, LlamaStackAssumption
      <4> QED BY <4>1, LlamaStackAssumption
    <3> QED BY <1>12, <3>1, <3>2
  <2> QED BY <2>2, <2>3 DEF AnswersFor, Answers, ys
<1>13. CASE ~(Raised(staged.rows) \/ \E l \in DOMAIN caches : count > Slots(caches[l]))
  <2>1. answer.rows = SubSeq(staged.rows, 1, k) /\ answer.caches = commit_accepted_cache(staged.caches, caches, count)
    BY <1>13 DEF Committed
  <2>2. /\ IsRows(staged.rows, n) /\ (\A i \in 1..n : staged.rows[i] = Denotation(T, R, logits)[p + i])
        /\ ~Raised(staged.rows) /\ Held(staged.caches, Depth, model.paged, T, R, p + n)
    BY <1>9, <1>13 DEF Answers
  <2>3. IsRows(answer.rows, k) /\ \A i \in 1..k : answer.rows[i] = staged.rows[i]
    BY <1>3, <2>1, <2>2, PrefixRows
  <2> HIDE DEF answer
  <2>4. ~Raised(answer.rows)
    <3>1. DOMAIN staged.rows = 1..n /\ DOMAIN answer.rows = 1..k /\ 1..k \subseteq 1..n
      BY <1>1, <1>3, <2>2, <2>3 DEF IsRows
    <3> QED BY <2>2, <2>3, <3>1 DEF Raised
  <2>5. \A i \in 1..k : answer.rows[i] = Denotation(U, Z, logits)[q + i]
    <3>1. ASSUME NEW i \in 1..k
          PROVE  answer.rows[i] = Denotation(U, Z, logits)[q + i]
      <4>1. q = p /\ i \in 1..n /\ k # 0
        BY <1>3
      <4>2. PICK j \in 1..d : j = p + i
        <5>1. p + i \in 1..d
          BY <1>1, <1>3
        <5> QED BY <5>1
      <4>3. 1..d \subseteq DOMAIN T /\ 1..d \subseteq DOMAIN U
        BY <1>1, <1>3, <1>8, <4>1
      <4> HIDE DEF d
      <4>4. SameAnswer(T, R, U, Z, logits, j)
        BY <1>2, <1>8, <4>3, DenotationAgrees
      <4> QED BY <2>2, <2>3, <4>1, <4>2, <4>4 DEF SameAnswer
    <3> QED BY <3>1
  <2>6. Held(answer.caches, Depth, model.paged, U, Z, q + k)
    <3> DEFINE m == q + k
               a == p + n
               g == q
    <3>1. m \in Nat /\ a \in Nat /\ d \in 0..a /\ g \in 0..N /\ Covers(count, m, d, g)
      <4>1. CASE k = 0
        <5>1. q = N /\ count <= p
          BY <1>3, <4>1
        <5> QED BY <1>1, <1>3, <4>1, <5>1 DEF Covers
      <4>2. CASE k # 0
        <5>1. q = p /\ p + k <= count /\ p <= N
          BY <1>1, <1>3, <4>2
        <5> QED BY <1>1, <1>3, <4>2, <5>1 DEF Covers
      <4> QED BY <4>1, <4>2
    <3>2. \A l \in 1..Depth : m <= Slots(caches[l])
      BY <1>1, <1>3, <1>10, <1>11, <1>13
    <3>3. 1..d \subseteq DOMAIN T /\ 1..d \subseteq DOMAIN U /\ 1..g \subseteq DOMAIN v /\ 1..g \subseteq DOMAIN U
      <4>1. 1..d \subseteq 1..(p + n)
        BY <1>1, <1>3
      <4>2. 1..d \subseteq 1..(q + k) /\ 1..g \subseteq 1..N /\ 1..g \subseteq 1..(q + k)
        BY <1>1, <1>3, <1>5
      <4> QED BY <1>8, <4>1, <4>2
    <3>4. Held(staged.caches, Depth, model.paged, T, R, a)
      BY <2>2
    <3>5. Agree(v, s, U, Z, g)
      BY <1>8
    <3> HIDE DEF m, a, d, g
    <3>6. Held(commit_accepted_cache(staged.caches, caches, count), Depth, model.paged, U, Z, m)
      BY <1>1, <1>2, <1>8, <3>1, <3>2, <3>3, <3>4, <3>5, CommitHeld
    <3> QED BY <2>1, <3>6 DEF m
  <2>7. Answers(answer, Depth, model.paged, U, Z, logits, q, k, ok2)
    BY <2>3, <2>4, <2>5, <2>6 DEF Answers
  <2> QED BY <2>7 DEF AnswersFor, answer, U, Z, ys
<1> QED BY <1>12, <1>13

(* Staged verification keeps the invariant. *)
LEMMA StagedVerifyKeeps ==
  ASSUME LInv, StagedVerify
  PROVE  LInv'
<1>1. PICK p \in Positions, n \in 1..2, preset \in {"reference", "fused_experimental"}, call \in Calls :
        \E staged \in {parallel_verify_tokens(Inputs(n), caches, p, preset, call)},
           count \in {CopyCount(c, FALSE, 0) : c \in 0..(MAX_S + 1)} \cup {CopyCount(0, TRUE, c) : c \in 0..MAX_S} :
           LET k == Accepted(count, p, n)
           IN  Answered(Committed(staged, count, k), SubSeq(Inputs(n), 1, k),
                        IF k = 0 THEN Len(tokens) ELSE p, model.mlx, TRUE, p + n <= MAX_S /\ count <= MAX_S)
  BY DEF StagedVerify
<1> DEFINE xs == Inputs(n)
           staged == parallel_verify_tokens(xs, caches, p, preset, call)
           counts == {CopyCount(c, FALSE, 0) : c \in 0..(MAX_S + 1)} \cup {CopyCount(0, TRUE, c) : c \in 0..MAX_S}
<1>2. PICK count \in counts :
        Answered(Committed(staged, count, Accepted(count, p, n)), SubSeq(xs, 1, Accepted(count, p, n)),
                 IF Accepted(count, p, n) = 0 THEN Len(tokens) ELSE p, model.mlx, TRUE, p + n <= MAX_S /\ count <= MAX_S)
  BY <1>1
<1>3. count \in Nat
  BY LlamaStackAssumption DEF CopyCount
<1> DEFINE k == Accepted(count, p, n)
           q == IF k = 0 THEN Len(tokens) ELSE p
           ys == SubSeq(xs, 1, k)
           fits == p + n <= MAX_S /\ count <= MAX_S
           ok == p + n <= MAX_S
           ok2 == fits
           logits == model.lm_head
           answer == Committed(staged, count, k)
           T == After(tokens, p, xs)
           R == After(rotated, p, Rotations(xs, model.mlx))
<1>4. n \in Nat \ {0} /\ n \in Nat /\ p \in 0..Len(tokens) /\ IsRows(xs, n) /\ Clean(xs)
  <2>1. n \in Nat
    OBVIOUS
  <2> QED BY <2>1, InputRows DEF Positions
<1>5. model.stack /\ model.paged = FALSE /\ model.paged \in BOOLEAN /\ Depth = Layers /\ ModelInv /\ model.lm_head = TRUE
  BY ModelDepth DEF StagedVerify, LInv, ModelInv
<1>6. Len(tokens) \in Nat /\ p \in Nat
  BY <1>4 DEF LInv, SequenceInv, Sequence, IsRows
<1>7. HalfPrecision(call) /\ call.grouped \in BOOLEAN /\ preset \in Presets
  BY <1>5, CallFacts DEF Presets
<1>8. LoopAllows(ok, preset, p, n, model.paged, call)
  BY <1>4, <1>5, <1>6, <1>7, LlamaStackAssumption DEF LoopAllows, PresetAllows, PresetFits
<1>9. (ok2 => ok /\ count <= MAX_S) /\ (fits => ok2)
  OBVIOUS
<1>10. Answered(answer, ys, q, model.mlx, logits, fits)
  BY <1>2, <1>5
<1>11. k \in 0..n
  BY <1>3, <1>4, <1>6, AcceptedIs
<1> HIDE DEF xs, ok, ok2, fits, k
<1>12. IsRows(ys, k) /\ Clean(ys) /\ q \in 0..Len(tokens)
  BY <1>4, <1>6, <1>11, SubRowsClean
<1>13. Feeding(T, R, p, xs, n, model.mlx)
  BY <1>4, FeedingIs
<1> HIDE DEF T, R
<1>14. FedFrom(T, R, p, xs, n) /\ Held(caches, Layers, model.paged, T, R, p)
  <2>1. model.mlx <=> model.mlx
    OBVIOUS
  <2>2. FedFrom(T, R, p, xs, n)
    BY <1>4, <1>13, <2>1, FeedingLoop
  <2> QED BY <1>5, <1>13, <2>2 DEF Feeding
<1>15. logits <=> model.lm_head
  OBVIOUS
<1> HIDE DEF logits
<1>16. AnswersFor(staged, xs, p, model.mlx, logits, n, ok)
  <2>1. Answers(staged, Layers, model.paged, T, R, logits, p, n, ok)
    BY <1>5, <1>6, <1>7, <1>8, <1>14, <1>15, VerifyAnswers
  <2> QED BY <1>5, <2>1 DEF AnswersFor, T, R
<1> HIDE DEF staged
<1>17. AnswersFor(answer, ys, q, model.mlx, logits, k, ok2)
  <2>1. k = Accepted(count, p, n) /\ q = IF k = 0 THEN Len(tokens) ELSE p
    BY DEF k
  <2> HIDE DEF q
  <2> QED BY <1>3, <1>4, <1>5, <1>9, <1>16, <2>1, CommitAnswers
<1> HIDE DEF answer, q, ys
<1> QED BY <1>9, <1>10, <1>12, <1>17, AnsweredKeeps

-----------------------------------------------------------------------------
(* The theorems. *)

(* The pages of a new cache cover its positions. *)
LEMMA BlocksCover ==
  ASSUME NEW blocks, blocks = (MAX_S + PAGE_SIZE - 1) \div PAGE_SIZE
  PROVE  blocks \in Nat \ {0} /\ MAX_S <= blocks * PAGE_SIZE /\ blocks * PAGE_SIZE \in Nat \ {0}
<1> DEFINE s == PAGE_SIZE
           x == MAX_S + s - 1
<1>1. s \in Nat \ {0} /\ MAX_S \in Nat \ {0} /\ x \in Nat /\ x >= s
  BY LlamaStackAssumption
<1> HIDE DEF s, x
<1>2. x \div s \in Nat /\ x = s * (x \div s) + (x % s) /\ x % s \in 0..(s - 1)
  BY <1>1
<1>3. blocks = x \div s /\ x = MAX_S + s - 1
  BY DEF x, s
<1>4. PICK w \in Nat : w = x % s
  BY <1>2
<1>5. PICK t \in Nat : t = s * blocks
  BY <1>1, <1>2, <1>3
<1>6. x = t + w /\ w <= s - 1
  BY <1>2, <1>3, <1>4, <1>5
<1>7. MAX_S <= t /\ t # 0
  BY <1>1, <1>3, <1>6
<1>8. blocks # 0
  BY <1>1, <1>5, <1>7
<1>9. blocks * s = t
  BY <1>1, <1>2, <1>3, <1>5
<1> QED BY <1>2, <1>3, <1>5, <1>7, <1>8, <1>9 DEF s

(* A new cache holds no token, in both layouts. *)
LEMMA FreshCache ==
  ASSUME NEW paged \in BOOLEAN, NEW y, NEW l, NEW r
  PROVE  Holds(init_llama_layer_cache(paged), paged, y, l, r, 0)
<1> DEFINE blocks == (MAX_S + PAGE_SIZE - 1) \div PAGE_SIZE
           zeros(n) == [e \in 0..(n - 1) |-> Mem(1)!Zero]
           c == init_llama_layer_cache(paged)
           n == IF paged THEN blocks * PAGE_SIZE ELSE MAX_S
<1>1. blocks \in Nat \ {0} /\ MAX_S <= blocks * PAGE_SIZE /\ blocks * PAGE_SIZE \in Nat \ {0}
  BY BlocksCover
<1>2. Mem(MAX_S)!make_identity_block_table = IdentityTable(blocks)
  <2>1. 1 * blocks = blocks
    BY <1>1
  <2>2. Mem(MAX_S)!MAX_BLOCKS = blocks
    BY DEF Mem!MAX_BLOCKS, Mem!CeilDiv
  <2> HIDE DEF blocks
  <2> QED BY <2>1, <2>2 DEF Mem!make_identity_block_table, Mem!Idx, IdentityTable
<1>3. c = [K |-> zeros(n), V |-> zeros(n), table |-> IF paged THEN IdentityTable(blocks) ELSE <<>>]
  BY <1>2 DEF init_llama_layer_cache
<1>4. n \in Nat \ {0} /\ MAX_S <= n
  BY <1>1, LlamaStackAssumption
<1>5. IsMem(zeros(n), n)
  BY <1>4 DEF IsMem
<1> DEFINE z == zeros(n)
<1> HIDE DEF c, z, zeros
<1>6. IdentityTable(blocks) # <<>>
  BY <1>1, TableOf
<1>7. c = [K |-> c.K, V |-> c.V, table |-> c.table] /\ c.K = z /\ c.V = z
      /\ c.table = IF paged THEN IdentityTable(blocks) ELSE <<>>
  BY <1>3 DEF z
<1>8. c.table # <<>> <=> paged
  BY <1>6, <1>7
<1>9. IsCache(c, n)
  <2>1. (c.table = <<>> /\ n <= RopeRows) \/ (n = blocks * PAGE_SIZE /\ c.table = IdentityTable(blocks))
    BY <1>7, LlamaStackAssumption
  <2> HIDE DEF blocks, n
  <2> QED BY <1>1, <1>5, <1>7, <2>1 DEF IsCache, z
<1>10. Slots(c) = n
  BY <1>9, CacheSlots
<1>11. InCache(c, y, l, r, 0)
  BY DEF InCache
<1>12. Holds(c, paged, y, l, r, 0)
  BY <1>4, <1>8, <1>9, <1>10, <1>11 DEF Holds
<1> QED BY <1>12 DEF c

(* The caches of a new stack or layer. *)
InitialCaches(stack, paged) ==
    IF stack THEN init_llama_stack_cache ELSE <<init_llama_layer_cache(paged)>>

(* They hold no token. *)
LEMMA FreshCaches ==
  ASSUME NEW stack \in BOOLEAN, NEW paged \in BOOLEAN, stack => ~paged
  PROVE  Held(InitialCaches(stack, paged), DepthOf(stack), paged, <<>>, <<>>, 0)
<1>1. CASE stack
  <2>1. \A l \in 1..Layers : Holds(init_llama_layer_cache(FALSE), FALSE, Through(<<>>, <<>>)[l - 1], l, <<>>, 0)
    BY FreshCache
  <2>2. Layers \in Nat /\ paged = FALSE
    BY <1>1, LlamaStackAssumption
  <2>3. IsRows(init_llama_stack_cache, Layers)
    BY <2>2 DEF IsRows, init_llama_stack_cache
  <2>4. \A l \in 1..Layers : init_llama_stack_cache[l] = init_llama_layer_cache(FALSE)
    BY DEF init_llama_stack_cache
  <2> QED BY <1>1, <2>1, <2>2, <2>3, <2>4 DEF Held, InitialCaches, DepthOf
<1>2. CASE ~stack
  <2> DEFINE c == init_llama_layer_cache(paged)
  <2>1. \A l \in 1..1 : Holds(c, paged, Through(<<>>, <<>>)[l - 1], l, <<>>, 0)
    BY FreshCache
  <2> HIDE DEF c
  <2>2. IsRows(<<c>>, 1) /\ \A l \in 1..1 : <<c>>[l] = c
    BY DEF IsRows
  <2> QED BY <1>2, <2>1, <2>2 DEF Held, InitialCaches, DepthOf, c
<1> QED BY <1>1, <1>2

(* No token has been fed. *)
LEMMA FreshSequence == Sequence(<<>>, <<>>) /\ Len(<<>>) = 0
<1>1. Len(<<>>) = 0 /\ DOMAIN <<>> = {}
  OBVIOUS
<1> QED BY <1>1 DEF Sequence, IsRows, Clean

(* The invariant holds at first. *)
LEMMA InitInv == Init => LInv
<1> SUFFICES ASSUME Init PROVE LInv
  OBVIOUS
<1>1. /\ ModelInv /\ caches = InitialCaches(model.stack, model.paged)
      /\ tokens = <<>> /\ rotated = <<>> /\ calls = 0 /\ out = Nothing
  BY DEF Init, ModelInv, InitialCaches
<1>2. SequenceInv
  BY <1>1, FreshSequence DEF SequenceInv
<1>3. CacheInv
  <2>1. Depth = DepthOf(model.stack)
    BY DEF Depth, DepthOf
  <2>2. model.stack \in BOOLEAN /\ model.paged \in BOOLEAN /\ (model.stack => ~model.paged)
    BY <1>1 DEF ModelInv
  <2> QED BY <1>1, <2>1, <2>2, FreshCaches, FreshSequence DEF CacheInv
<1>4. OutputsAreCausal /\ ValidCallsReturn
  BY <1>1 DEF OutputsAreCausal, ValidCallsReturn, Nothing
<1> QED BY <1>1, <1>2, <1>3, <1>4 DEF LInv

(* New caches for a new sequence keep it. *)
LEMMA NewSequenceKeeps ==
  ASSUME LInv, NewSequence
  PROVE  LInv'
<1>1. /\ ModelInv /\ model' = model /\ caches' = InitialCaches(model.stack, model.paged)
      /\ tokens' = <<>> /\ rotated' = <<>> /\ calls' = 0 /\ out' = Nothing
  BY DEF LInv, NewSequence, InitialCaches
<1>2. SequenceInv'
  BY <1>1, FreshSequence DEF SequenceInv
<1>3. Held(caches', DepthOf(model.stack), model.paged, tokens', rotated', Len(tokens'))
  <2>1. model.stack \in BOOLEAN /\ model.paged \in BOOLEAN /\ (model.stack => ~model.paged)
    BY <1>1 DEF ModelInv
  <2> QED BY <1>1, <2>1, FreshCaches, FreshSequence
<1>4. out'.status # "returned" /\ out'.fits = FALSE
  BY <1>1 DEF Nothing
<1> QED BY <1>1, <1>2, <1>3, <1>4, NextInv

(* So does no call. *)
LEMMA UnchangedKeeps ==
  ASSUME LInv, UNCHANGED vars
  PROVE  LInv'
BY DEF LInv, vars, ModelInv, SequenceInv, CacheInv, OutputsAreCausal, ValidCallsReturn, Depth, Denotation

(* So does every step. *)
LEMMA StepInv == LInv /\ [Next]_vars => LInv'
<1> SUFFICES ASSUME LInv, [Next]_vars PROVE LInv'
  OBVIOUS
<1>1. CASE NewSequence
  BY <1>1, NewSequenceKeeps
<1>2. CASE StackPrefill
  BY <1>2, StackPrefillKeeps
<1>3. CASE StackDecodeStep
  BY <1>3, StackDecodeStepKeeps
<1>4. CASE StackDecodeLoop
  BY <1>4, StackDecodeLoopKeeps
<1>5. CASE StagedVerify
  BY <1>5, StagedVerifyKeeps
<1>6. CASE LayerPrefill
  BY <1>6, LayerPrefillKeeps
<1>7. CASE LayerDecode
  BY <1>7, LayerDecodeKeeps
<1>8. CASE ToyDecode
  BY <1>8, ToyDecodeKeeps
<1>9. CASE AdapterDecode
  BY <1>9, AdapterDecodeKeeps
<1>10. CASE UNCHANGED vars
  BY <1>10, UnchangedKeeps
<1> QED BY <1>1, <1>2, <1>3, <1>4, <1>5, <1>6, <1>7, <1>8, <1>9, <1>10 DEF Next

(* At all times the cache of every layer holds, at their positions, the keys
   and values of the tokens fed, each as that layer computes and rotates it:
   after any sequence of decode steps, loops, prefills, rewinds, staged
   verifications and new sequences, with any preset and backend. *)
THEOREM StackInvariant == Spec => []LInv
BY InitInv, StepInv, PTL DEF Spec

(* Whatever llama_stack_ops, llama_prefill_ops, llama_layer_ops, the toy
   layer and the adapter return is what the transformer gives for the whole
   sequence up to each token, computed without a cache: for every number of
   layers, bits, page size and length of cache, with every preset, backend
   and layout, token by token or in one prefill, also after a commit of part
   of a verified draft. *)
THEOREM OutputsStayCausal == Spec => []OutputsAreCausal
<1>1. LInv => OutputsAreCausal
  BY DEF LInv
<1> QED BY <1>1, StackInvariant, PTL

(* A call within the caches' bounds returns: no preset resolves to a name
   that an operation further down refuses, on any layout and in any
   environment. Excepted are the two combinations `fits` leaves out: another
   preset than reference on pages of ungrouped heads, and the toy layer's
   matvec "metal". The rotation tables reach as far as the caches, as those of
   models/generation.py do (LlamaStackAssumption): with shorter ones apply_rope
   raises, and the fused kernel of qkv_rope_cache_update leaves its query
   unwritten. *)
THEOREM ValidCallsAlwaysReturn == Spec => []ValidCallsReturn
<1>1. LInv => ValidCallsReturn
  BY DEF LInv
<1> QED BY <1>1, StackInvariant, PTL
===============================================================================
