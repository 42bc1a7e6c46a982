-------------------------- MODULE PrefixReuseProofs --------------------------
(***************************************************************************)
(* Theorems about PrefixReuse.  Every entry of the cache is sound, so a    *)
(* call starts from the cells of a full prefill, each decode step keeps    *)
(* them so, and the tokens sampled are those of greedy generation.         *)
(***************************************************************************)
EXTENDS PrefixReuse, SequenceTheorems, TLAPS

-----------------------------------------------------------------------------
(* Prefixes of sequences.                                                  *)

(* A prefix has its length, its type and the elements of the whole.        *)
LEMMA PrefixTyped ==
  ASSUME NEW S, NEW s \in Seq(S), NEW n \in 0..Len(s)
  PROVE  /\ SubSeq(s, 1, n) \in Seq(S) /\ Len(SubSeq(s, 1, n)) = n
         /\ \A i \in 1..n : SubSeq(s, 1, n)[i] = s[i]
<1>1. Len(s) \in Nat /\ n \in Int /\ 1..n \subseteq 1..Len(s)
  OBVIOUS
<1>2. \A i \in 1..n : s[i] \in S
  BY <1>1, ElementOfSeq
<1>3. /\ SubSeq(s, 1, n) \in Seq(S)
      /\ Len(SubSeq(s, 1, n)) = IF 1 <= n THEN n - 1 + 1 ELSE 0
      /\ \A i \in 1..n - 1 + 1 : SubSeq(s, 1, n)[i] = s[1 + i - 1]
  BY <1>1, <1>2, SubSeqProperties
<1> QED BY <1>1, <1>3

(* What Append leaves of a sequence.                                       *)
LEMMA PrefixOfAppend ==
  ASSUME NEW S, NEW s \in Seq(S), NEW t \in S, NEW n \in 0..Len(s)
  PROVE  SubSeq(Append(s, t), 1, n) = SubSeq(s, 1, n)
<1> DEFINE u == Append(s, t)
<1>1. u \in Seq(S) /\ Len(u) = Len(s) + 1 /\ \A i \in 1..Len(s) : u[i] = s[i]
  BY AppendProperties
<1> HIDE DEF u
<1>2. n \in 0..Len(u) /\ \A i \in 1..n : i \in 1..Len(s)
  BY <1>1
<1>3. /\ SubSeq(u, 1, n) \in Seq(S) /\ Len(SubSeq(u, 1, n)) = n
      /\ \A i \in 1..n : SubSeq(u, 1, n)[i] = u[i]
  BY <1>1, <1>2, PrefixTyped
<1>4. /\ SubSeq(s, 1, n) \in Seq(S) /\ Len(SubSeq(s, 1, n)) = n
      /\ \A i \in 1..n : SubSeq(s, 1, n)[i] = s[i]
  BY PrefixTyped
<1>5. SubSeq(u, 1, n) = SubSeq(s, 1, n)
  BY <1>1, <1>2, <1>3, <1>4, SeqEqual
<1> QED BY <1>5 DEF u

(* Sequences that agree on their first n elements have the same prefixes.  *)
LEMMA PrefixOfAgreeing ==
  ASSUME NEW S, NEW s \in Seq(S), NEW t \in Seq(S), NEW n \in 0..Len(s), n <= Len(t),
         \A i \in 1..n : s[i] = t[i]
  PROVE  SubSeq(s, 1, n) = SubSeq(t, 1, n)
<1>1. n \in 0..Len(t)
  OBVIOUS
<1>2. /\ SubSeq(s, 1, n) \in Seq(S) /\ Len(SubSeq(s, 1, n)) = n
      /\ \A i \in 1..n : SubSeq(s, 1, n)[i] = s[i]
  BY PrefixTyped
<1>3. /\ SubSeq(t, 1, n) \in Seq(S) /\ Len(SubSeq(t, 1, n)) = n
      /\ \A i \in 1..n : SubSeq(t, 1, n)[i] = t[i]
  BY <1>1, PrefixTyped
<1> QED BY <1>2, <1>3, SeqEqual

-----------------------------------------------------------------------------
(* Cells.                                                                  *)

(* What a prefill leaves holds exactly the prompt's K/V.                   *)
LEMMA PrefilledHolds ==
  ASSUME NEW m \in Models, NEW s \in Seq(Tokens), NEW size \in Nat, Len(s) <= size
  PROVE  /\ Prefilled(m, s, size) \in Seq(Cell)
         /\ Len(Prefilled(m, s, size)) = size
         /\ Holds(Prefilled(m, s, size), m, s)
<1> DEFINE c == Prefilled(m, s, size)
<1>1. \A i \in 1..Len(s) : SubSeq(s, 1, i) \in Seq(Tokens)
  BY PrefixTyped
<1>2. \A i \in 1..size : (IF i <= Len(s) THEN [model |-> m, ids |-> SubSeq(s, 1, i)] ELSE Zero)
                          \in Cell
  BY <1>1 DEF Cell, KV
<1>3. /\ c \in [1..size -> Cell]
      /\ \A i \in 1..size : c[i] = IF i <= Len(s) THEN [model |-> m, ids |-> SubSeq(s, 1, i)]
                                                 ELSE Zero
  BY <1>2 DEF Prefilled
<1> HIDE DEF c
<1>4. c \in Seq(Cell) /\ Len(c) = size
  BY <1>3
<1>5. Holds(c, m, s)
  BY <1>3, <1>4 DEF Holds
<1> QED BY <1>4, <1>5 DEF c

(* A clone serves every prompt that agrees with the entry.                 *)
LEMMA HoldsPrefix ==
  ASSUME NEW c \in Seq(Cell), NEW m \in Models, NEW s \in Seq(Tokens), NEW p \in Seq(Tokens),
         NEW n \in Nat, Holds(c, m, s), Agree(s, p, n)
  PROVE  /\ SubSeq(p, 1, n) \in Seq(Tokens) /\ Len(SubSeq(p, 1, n)) = n
         /\ Holds(c, m, SubSeq(p, 1, n))
<1>1. n \in 0..Len(s) /\ n \in 0..Len(p) /\ \A i \in 1..n : s[i] = p[i]
  BY DEF Agree
<1> DEFINE q == SubSeq(p, 1, n)
<1>2. q \in Seq(Tokens) /\ Len(q) = n /\ \A i \in 1..n : q[i] = p[i]
  BY <1>1, PrefixTyped
<1> HIDE DEF q
<1>3. ASSUME NEW i \in 1..n PROVE SubSeq(q, 1, i) = SubSeq(s, 1, i)
  <2>1. i \in 0..Len(q) /\ i <= Len(s) /\ \A j \in 1..i : q[j] = s[j]
    BY <1>1, <1>2
  <2> QED BY <1>2, <2>1, PrefixOfAgreeing
<1>4. n <= Len(c) /\ \A i \in 1..n : c[i] = [model |-> m, ids |-> SubSeq(q, 1, i)]
  BY <1>1, <1>3 DEF Holds
<1>5. Holds(c, m, q)
  BY <1>2, <1>4 DEF Holds
<1> QED BY <1>2, <1>5 DEF q

(* A decode step writes the cell that a prefill would have written.        *)
LEMMA HoldsAppend ==
  ASSUME NEW c \in Seq(Cell), NEW m \in Models, NEW s \in Seq(Tokens), NEW t \in Tokens,
         Holds(c, m, s), Len(s) < Len(c)
  PROVE  LET d == [c EXCEPT ![Len(s) + 1] = [model |-> m, ids |-> Append(s, t)]]
         IN  d \in Seq(Cell) /\ Len(d) = Len(c) /\ Holds(d, m, Append(s, t))
<1> DEFINE kv == [model |-> m, ids |-> Append(s, t)]
           d == [c EXCEPT ![Len(s) + 1] = kv]
           u == Append(s, t)
<1>1. /\ u \in Seq(Tokens) /\ Len(u) = Len(s) + 1
      /\ \A i \in 1..Len(s) : SubSeq(u, 1, i) = SubSeq(s, 1, i)
      /\ SubSeq(u, 1, Len(s) + 1) = u
  <2>1. u \in Seq(Tokens) /\ Len(u) = Len(s) + 1
    BY AppendProperties
  <2>2. \A i \in 1..Len(s) : SubSeq(u, 1, i) = SubSeq(s, 1, i)
    BY PrefixOfAppend
  <2>3. SubSeq(u, 1, Len(u)) = u
    BY <2>1, SubSeqFull
  <2> QED BY <2>1, <2>2, <2>3
<1>2. kv \in Cell
  BY <1>1 DEF Cell, KV
<1>3. Len(s) + 1 \in 1..Len(c)
  OBVIOUS
<1>4. /\ d \in Seq(Cell) /\ Len(d) = Len(c)
      /\ \A j \in 1..Len(c) : d[j] = IF j = Len(s) + 1 THEN kv ELSE c[j]
  BY <1>2, <1>3, ExceptSeq
<1>5. kv = [model |-> m, ids |-> u]
  OBVIOUS
<1> HIDE DEF d, u, kv
<1>6. ASSUME NEW i \in 1..Len(u)
      PROVE  d[i] = [model |-> m, ids |-> SubSeq(u, 1, i)]
  <2>1. CASE i \in 1..Len(s)
    <3>1. d[i] = c[i]
      BY <1>3, <1>4, <2>1
    <3>2. c[i] = [model |-> m, ids |-> SubSeq(s, 1, i)]
      BY <2>1 DEF Holds
    <3> QED BY <1>1, <2>1, <3>1, <3>2
  <2>2. CASE i = Len(s) + 1
    BY <1>1, <1>3, <1>4, <1>5, <2>2
  <2> QED BY <1>1, <2>1, <2>2
<1>7. Holds(d, m, u)
  BY <1>1, <1>4, <1>6 DEF Holds
<1> QED BY <1>4, <1>7 DEF d, u, kv

-----------------------------------------------------------------------------
(* Entries.                                                                *)

SoundEntry(e) ==
  \E m \in Models : /\ e.fingerprint = Fingerprint[m]
                    /\ Holds(e.cells, m, e.ids)
                    /\ Len(e.cells) \in Capacities

Sound(s) == /\ s \in Seq(Entry) /\ Len(s) <= MaxSize
            /\ \A i \in 1..Len(s) : SoundEntry(s[i])

(* Storing a sound entry, with or without evicting another, leaves only    *)
(* sound entries.                                                          *)
LEMMA StoreSound ==
  ASSUME Sound(entries), NEW e \in Entry, SoundEntry(e)
  PROVE  Sound(Store(e))
<1>0. MaxSize \in Nat \ {0}
  BY ReuseAssumption DEF ReuseAssumption
<1>1. ASSUME NEW s \in Seq(Entry), Len(s) < MaxSize, \A i \in 1..Len(s) : SoundEntry(s[i])
      PROVE  Sound(Append(s, e))
  <2> DEFINE u == Append(s, e)
  <2>1. /\ u \in Seq(Entry) /\ Len(u) = Len(s) + 1
        /\ \A i \in 1..Len(s) : u[i] = s[i]
        /\ u[Len(s) + 1] = e
    BY AppendProperties
  <2> HIDE DEF u
  <2>2. ASSUME NEW i \in 1..Len(u) PROVE SoundEntry(u[i])
    <3>1. i \in 1..Len(s) \/ i = Len(s) + 1
      BY <2>1
    <3> QED BY <1>1, <2>1, <3>1
  <2>3. Len(u) <= MaxSize
    BY <1>0, <1>1, <2>1
  <2>4. Sound(u)
    BY <2>1, <2>2, <2>3 DEF Sound
  <2> QED BY <2>4 DEF u
<1>2. CASE Len(entries) < MaxSize
  BY <1>1, <1>2 DEF Store, Sound
<1>3. CASE ~(Len(entries) < MaxSize)
  <2>1. entries \in Seq(Entry) /\ entries # <<>> /\ Len(entries) = MaxSize
    <3>1. entries \in Seq(Entry) /\ Len(entries) = MaxSize
      BY <1>0, <1>3 DEF Sound
    <3> QED BY <1>0, <3>1, EmptySeq
  <2> DEFINE u == Tail(entries)
  <2>2. /\ u \in Seq(Entry) /\ Len(u) = Len(entries) - 1
        /\ \A i \in 1..Len(u) : u[i] = entries[i + 1]
    BY <2>1, HeadTailProperties
  <2>3. Store(e) = Append(u, e)
    BY <1>3 DEF Store
  <2> HIDE DEF u
  <2>4. \A i \in 1..Len(u) : SoundEntry(u[i])
    <3> TAKE i \in 1..Len(u)
    <3>1. i + 1 \in 1..Len(entries)
      BY <2>1, <2>2
    <3>2. SoundEntry(entries[i + 1])
      BY <3>1 DEF Sound
    <3> QED BY <2>2, <3>2
  <2>5. Len(u) < MaxSize
    BY <1>0, <2>1, <2>2
  <2> QED BY <1>1, <2>2, <2>3, <2>4, <2>5
<1> QED BY <1>2, <1>3

(* Renewing an access stamp leaves the entries what they are.              *)
LEMMA TouchSound ==
  ASSUME Sound(entries), NEW i \in DOMAIN entries
  PROVE  Sound(Touch(i))
<1>1. entries \in Seq(Entry) /\ Len(entries) \in Nat /\ DOMAIN entries = 1..Len(entries)
  BY LenProperties DEF Sound
<1> DEFINE f == [j \in DOMAIN entries |-> IF j < i THEN j ELSE IF j < Len(entries) THEN j + 1 ELSE i]
           u == Touch(i)
<1>2. f \in [1..Len(entries) -> 1..Len(entries)]
  BY <1>1
<1>3. \A j \in 1..Len(entries) : u[j] = entries[f[j]]
  BY <1>1 DEF Touch
<1>4. DOMAIN u = 1..Len(entries)
  BY <1>1 DEF Touch
<1>4a. u = [j \in 1..Len(entries) |-> u[j]]
  BY <1>1 DEF Touch
<1> HIDE DEF f, u
<1>5. ASSUME NEW j \in 1..Len(entries) PROVE u[j] \in Entry /\ SoundEntry(u[j])
  <2>1. f[j] \in 1..Len(entries)
    BY <1>2
  <2> QED BY <1>1, <1>3, <2>1, ElementOfSeq DEF Sound
<1>6. u \in [1..Len(entries) -> Entry]
  BY <1>4a, <1>5
<1>7. u \in Seq(Entry) /\ Len(u) = Len(entries)
  BY <1>1, <1>6
<1>8. Sound(u)
  BY <1>5, <1>7 DEF Sound
<1> QED BY <1>8 DEF u

-----------------------------------------------------------------------------
(* The invariant.                                                          *)

Exact == pc # "idle" => Holds(cells, job.model, seen)

IndInv == TypeOK /\ Sound(entries) /\ Consumed /\ CallShape /\ Exact

(* The invariant holds when the cache is built.                            *)
LEMMA Initial == Init => IndInv
<1> SUFFICES ASSUME Init PROVE IndInv
  OBVIOUS
<1>0. MaxSize \in Nat \ {0}
  BY ReuseAssumption DEF ReuseAssumption
<1>1. \A S : <<>> \in Seq(S) /\ Len(<<>>) = 0
  BY EmptySeq
<1>2. Sound(entries)
  BY <1>0, <1>1 DEF Init, Sound
<1>3. TypeOK
  BY <1>0, <1>1 DEF Init, TypeOK
<1>4. Consumed /\ CallShape /\ Exact
  BY DEF Init, Consumed, CallShape, Exact
<1> QED BY <1>2, <1>3, <1>4 DEF IndInv

Running == pc # "idle" /\ IndInv

(* What the invariant says of a call that is running, in the form the      *)
(* steps use.                                                              *)
LEMMA CallFacts ==
  ASSUME Running
  PROVE  /\ job \in Job /\ job.model \in Models
         /\ job.prompt \in Seq(Tokens) /\ Len(job.prompt) \in Nat \ {0}
         /\ job.limit \in Nat
         /\ ids \in Seq(Tokens) /\ Len(ids) \in Nat \ {0}
         /\ Len(job.prompt) <= Len(ids) /\ Len(ids) <= Len(job.prompt) + job.limit
         /\ cells \in Seq(Cell) /\ Len(cells) \in Nat /\ Len(cells) \in Capacities
         /\ seen \in Seq(Tokens) /\ Len(seen) \in Nat
         /\ Holds(cells, job.model, seen)
<1>1. job \in Job /\ ids \in Seq(Tokens) /\ cells \in Seq(Cell) /\ seen \in Seq(Tokens)
  BY DEF Running, IndInv, TypeOK
<1>2. job.model \in Models /\ job.prompt \in Prompts /\ job.limit \in Limits
  BY <1>1 DEF Job
<1>3. job.prompt \in Seq(Tokens) \ {<<>>} /\ job.limit \in Nat
  BY <1>2, ReuseAssumption DEF ReuseAssumption
<1>4. Len(job.prompt) \in Nat \ {0}
  BY <1>3, EmptySeq
<1>5. /\ Len(job.prompt) <= Len(ids) /\ Len(ids) <= Len(job.prompt) + job.limit
      /\ Len(cells) \in Capacities /\ Holds(cells, job.model, seen)
  BY DEF Running, IndInv, CallShape, Exact
<1>6. Len(ids) \in Nat \ {0} /\ Len(cells) \in Nat /\ Len(seen) \in Nat
  BY <1>1, <1>4, <1>5
<1> QED BY <1>1, <1>2, <1>3, <1>4, <1>5, <1>6

(* A call begins, however the cache answers it.                            *)
LEMMA BeginFacts ==
  ASSUME IndInv, NEW m \in Models, NEW p \in Prompts, NEW n \in Limits, Begin(m, p, n)
  PROVE  /\ job = <<>> /\ ids = <<>>
         /\ job' \in Job /\ job' # <<>> /\ job'.model = m /\ job'.prompt = p /\ job'.limit = n
         /\ p \in Seq(Tokens) /\ p # <<>> /\ Len(p) \in Nat \ {0} /\ n \in Nat
         /\ ids' = p
<1>1. job' = [model |-> m, prompt |-> p, limit |-> n] /\ ids' = p /\ pc = "idle"
  BY DEF Begin
<1>2. <<>> # [model |-> m, prompt |-> p, limit |-> n]
  BY SMT
<1>3. p \in Seq(Tokens) /\ p # <<>> /\ n \in Nat
  BY ReuseAssumption DEF ReuseAssumption
<1>4. Len(p) \in Nat \ {0}
  BY <1>3, EmptySeq
<1>5. job = <<>> /\ ids = <<>>
  BY <1>1 DEF IndInv, TypeOK, CallShape
<1> QED BY <1>1, <1>2, <1>3, <1>4, <1>5 DEF Job

(* A call that prefills in full starts well, whatever becomes of the       *)
(* entries.                                                                *)
LEMMA PrefillStep ==
  ASSUME IndInv, NEW m \in Models, NEW p \in Prompts, NEW n \in Limits,
         NEW size \in Capacities, Begin(m, p, n), FullPrefill(m, p, n, size), Sound(entries')
  PROVE  IndInv'
<1>1. /\ job' \in Job /\ job' # <<>> /\ job'.model = m /\ job'.prompt = p /\ job'.limit = n
      /\ p \in Seq(Tokens) /\ Len(p) \in Nat \ {0} /\ n \in Nat
      /\ ids' = p
  BY BeginFacts
<1>2. seen' = p /\ cells' = Prefilled(m, p, size) /\ pc' = AfterPrefill(n)
  BY DEF FullPrefill
<1>3. pc' = IF n = 0 THEN "done" ELSE "sample"
  BY <1>2 DEF AfterPrefill
<1>4. size \in Nat /\ Len(p) <= size
  BY ReuseAssumption DEF ReuseAssumption
<1>5. cells' \in Seq(Cell) /\ Len(cells') = size /\ Holds(cells', m, p)
  BY <1>1, <1>2, <1>4, PrefilledHolds
<1>6. TypeOK'
  BY <1>1, <1>2, <1>3, <1>5 DEF TypeOK, Sound
<1>7. CallShape'
  BY <1>1, <1>3, <1>5 DEF CallShape
<1>8. Consumed'
  BY <1>1, <1>2, <1>3 DEF Consumed
<1>9. Exact'
  BY <1>1, <1>2, <1>3, <1>5 DEF Exact
<1>10. Sound(entries)'
  OBVIOUS
<1> QED BY <1>6, <1>7, <1>8, <1>9, <1>10 DEF IndInv

(* What the cache finds was computed by the model that asks for it.        *)
LEMMA MatchFacts ==
  ASSUME FingerprintsDiffer, Sound(entries), NEW m \in Models,
         NEW i \in DOMAIN entries, i \in Candidates(m)
  PROVE  /\ entries[i].ids \in Seq(Tokens) /\ entries[i].cells \in Seq(Cell)
         /\ Len(entries[i].cells) \in Capacities
         /\ Holds(entries[i].cells, m, entries[i].ids)
<1>1. i \in 1..Len(entries) /\ entries \in Seq(Entry)
  BY LenProperties DEF Sound
<1>2. entries[i] \in Entry
  BY <1>1, ElementOfSeq
<1>3. PICK k \in Models : /\ entries[i].fingerprint = Fingerprint[k]
                          /\ Holds(entries[i].cells, k, entries[i].ids)
                          /\ Len(entries[i].cells) \in Capacities
  BY <1>1 DEF Sound, SoundEntry
<1>4. entries[i].fingerprint = Fingerprint[m]
  BY DEF Candidates
<1>5. k = m
  BY <1>3, <1>4 DEF FingerprintsDiffer
<1> QED BY <1>2, <1>3, <1>5 DEF Entry

(* Each of the four ways to start a call keeps the invariant: a clone      *)
(* holds what a prefill of the shared prefix would leave, because          *)
(* fingerprints differ.                                                    *)
LEMMA CallStep ==
  ASSUME FingerprintsDiffer, IndInv,
         NEW m \in Models, NEW p \in Prompts, NEW n \in Limits, NEW c \in Capacities,
         \/ CallUncached(m, p, n, c) \/ CallMiss(m, p, n, c)
         \/ CallExact(m, p, n, c) \/ CallPrefix(m, p, n, c)
  PROVE  IndInv'
<1>1. Begin(m, p, n) /\ Sound(entries)
  BY DEF CallUncached, CallMiss, CallExact, CallPrefix, IndInv
<1>2. /\ job' \in Job /\ job' # <<>> /\ job'.model = m /\ job'.prompt = p /\ job'.limit = n
      /\ p \in Seq(Tokens) /\ Len(p) \in Nat \ {0} /\ n \in Nat
      /\ ids' = p
  BY <1>1, BeginFacts
<1>3. CASE CallUncached(m, p, n, c)
  BY <1>1, <1>3, PrefillStep DEF CallUncached
<1>4. CASE CallMiss(m, p, n, c)
  <2> DEFINE e == [fingerprint |-> Fingerprint[m], ids |-> p, cells |-> Prefilled(m, p, c)]
  <2>1. entries' = Store(e) /\ FullPrefill(m, p, n, c)
    BY <1>4 DEF CallMiss
  <2>2. c \in Nat /\ Len(p) <= c
    BY ReuseAssumption DEF ReuseAssumption
  <2>3. /\ Prefilled(m, p, c) \in Seq(Cell) /\ Len(Prefilled(m, p, c)) = c
        /\ Holds(Prefilled(m, p, c), m, p)
    BY <1>2, <2>2, PrefilledHolds
  <2>4. e \in Entry /\ SoundEntry(e)
    BY <1>2, <2>3 DEF Entry, SoundEntry
  <2> HIDE DEF e
  <2>5. Sound(entries')
    BY <1>1, <2>1, <2>4, StoreSound
  <2> QED BY <1>1, <2>1, <2>5, PrefillStep
<1>5. CASE CallExact(m, p, n, c)
  <2>1. PICK i \in DOMAIN entries :
          /\ Match(i, Len(p), m, p)
          /\ \E size \in {c, Len(entries[i].cells)} : FullPrefill(m, p, n, size)
          /\ entries' = Touch(i)
    BY <1>5 DEF CallExact
  <2>2. Sound(entries')
    BY <1>1, <2>1, TouchSound
  <2>3. Len(entries[i].cells) \in Capacities
    BY <1>1, <2>1, MatchFacts DEF Match
  <2>4. PICK size \in Capacities : FullPrefill(m, p, n, size)
    BY <2>1, <2>3
  <2> QED BY <1>1, <2>2, <2>4, PrefillStep
<1>6. CASE CallPrefix(m, p, n, c)
  <2>1. PICK i \in DOMAIN entries, k \in 1..Len(p)-1 :
          /\ Match(i, k, m, p)
          /\ cells' = entries[i].cells
          /\ seen' = SubSeq(p, 1, k)
          /\ entries' = Touch(i)
    BY <1>6 DEF CallPrefix
  <2>2. Sound(entries') /\ pc' = "suffix"
    BY <1>1, <1>6, <2>1, TouchSound DEF CallPrefix
  <2>3. i \in Candidates(m) /\ Agree(entries[i].ids, p, k)
    BY <2>1 DEF Match
  <2>4. /\ entries[i].ids \in Seq(Tokens) /\ entries[i].cells \in Seq(Cell)
        /\ Len(entries[i].cells) \in Capacities
        /\ Holds(entries[i].cells, m, entries[i].ids)
    BY <1>1, <2>1, <2>3, MatchFacts
  <2>5. k \in Nat /\ k < Len(p) /\ k \in 1..Len(p)-1
    BY <1>2
  <2>6. seen' \in Seq(Tokens) /\ Len(seen') = k /\ Holds(cells', m, seen')
    BY <1>2, <2>1, <2>3, <2>4, <2>5, HoldsPrefix
  <2>7. TypeOK'
    BY <1>2, <2>1, <2>2, <2>4, <2>6 DEF TypeOK, Sound
  <2>8. CallShape'
    BY <1>2, <2>1, <2>2, <2>4 DEF CallShape
  <2>9. Consumed' /\ Exact'
    BY <1>2, <2>1, <2>2, <2>5, <2>6 DEF Consumed, Exact
  <2>10. Sound(entries)'
    BY <2>2
  <2> QED BY <2>7, <2>8, <2>9, <2>10 DEF IndInv
<1> QED BY <1>3, <1>4, <1>5, <1>6

(* A decode step extends what the cells hold by the token fed.             *)
LEMMA DecodeKeeps ==
  ASSUME Running, NEW t \in Tokens, Decode(t)
  PROVE  /\ seen' \in Seq(Tokens) /\ Len(seen') = Len(seen) + 1 /\ seen' = Append(seen, t)
         /\ cells' \in Seq(Cell) /\ Len(cells') = Len(cells)
         /\ Holds(cells', job.model, seen')
<1>1. /\ job.model \in Models /\ cells \in Seq(Cell) /\ seen \in Seq(Tokens)
      /\ Len(cells) \in Nat /\ Len(seen) \in Nat /\ Holds(cells, job.model, seen)
  BY CallFacts
<1>2. Len(seen) < Len(cells)
  BY <1>1 DEF Decode, Full
<1>3. /\ seen' = Append(seen, t)
      /\ cells' = [cells EXCEPT ![Len(seen) + 1] = [model |-> job.model, ids |-> Append(seen, t)]]
  BY <1>1 DEF Decode
<1>4. seen' \in Seq(Tokens) /\ Len(seen') = Len(seen) + 1
  BY <1>1, <1>3, AppendProperties
<1> QED BY <1>1, <1>2, <1>3, <1>4, HoldsAppend

(* A call that is out of room ends, and has not overstepped its job before. *)
LEMMA RaiseStep ==
  ASSUME Running, Raise, UNCHANGED <<entries, job, ids>>
  PROVE  IndInv'
<1>1. TypeOK'
  BY DEF Running, IndInv, TypeOK, Raise
<1>2. Consumed' /\ CallShape'
  BY DEF Running, IndInv, Consumed, CallShape, Raise
<1>3. Exact'
  BY DEF Running, IndInv, Exact, Raise
<1>4. Sound(entries)'
  BY DEF Running, IndInv
<1> QED BY <1>1, <1>2, <1>3, <1>4 DEF IndInv

(* Decoding the rest of the prompt keeps the invariant.                    *)
LEMMA SuffixStep ==
  ASSUME IndInv, DecodeSuffix
  PROVE  IndInv'
<1>1. pc = "suffix" /\ Running /\ UNCHANGED <<entries, job, ids>>
  BY DEF DecodeSuffix, Running
<1>2. CASE Raise
  BY <1>1, <1>2, RaiseStep
<1>3. CASE ~Raise
  <2> DEFINE p == job.prompt
             t == p[Len(seen) + 1]
  <2>1. /\ p \in Seq(Tokens) /\ Len(p) \in Nat \ {0} /\ job.limit \in Nat
        /\ seen \in Seq(Tokens) /\ Len(seen) \in Nat
        /\ Len(cells) \in Capacities
    BY <1>1, CallFacts
  <2>2. Len(seen) < Len(p) /\ seen = SubSeq(p, 1, Len(seen)) /\ ids = p
    BY <1>1 DEF IndInv, Consumed
  <2>3. t \in Tokens
    <3>1. Len(seen) + 1 \in 1..Len(p)
      BY <2>1, <2>2
    <3> QED BY <2>1, <3>1, ElementOfSeq
  <2>4. /\ Decode(t)
        /\ pc' = IF Len(seen) + 1 < Len(p) THEN pc ELSE AfterPrefill(job.limit)
    BY <1>3 DEF DecodeSuffix
  <2> HIDE DEF t
  <2>5. /\ seen' \in Seq(Tokens) /\ Len(seen') = Len(seen) + 1 /\ seen' = Append(seen, t)
        /\ cells' \in Seq(Cell) /\ Len(cells') = Len(cells)
        /\ Holds(cells', job.model, seen')
    BY <1>1, <2>3, <2>4, DecodeKeeps
  <2>6. seen' = SubSeq(p, 1, Len(seen'))
    <3>1. /\ SubSeq(p, 1, Len(seen) + 1) \in Seq(Tokens)
          /\ Len(SubSeq(p, 1, Len(seen) + 1)) = Len(seen) + 1
          /\ \A i \in 1..Len(seen) + 1 : SubSeq(p, 1, Len(seen) + 1)[i] = p[i]
      <4>1. Len(seen) + 1 \in 0..Len(p)
        BY <2>1, <2>2
      <4> QED BY <2>1, <4>1, PrefixTyped
    <3>2. \A i \in 1..Len(seen) : seen[i] = p[i]
      <4>1. Len(seen) \in 0..Len(p)
        BY <2>1, <2>2
      <4>2. \A i \in 1..Len(seen) : SubSeq(p, 1, Len(seen))[i] = p[i]
        BY <2>1, <4>1, PrefixTyped
      <4> QED BY <2>2, <4>2
    <3>3. \A i \in 1..Len(seen) + 1 : seen'[i] = p[i]
      <4>1. /\ \A i \in 1..Len(seen) : seen'[i] = seen[i]
            /\ seen'[Len(seen) + 1] = t
        BY <2>1, <2>3, <2>5, AppendProperties
      <4> QED BY <2>1, <3>2, <4>1 DEF t
    <3> QED BY <2>5, <3>1, <3>3, SeqEqual
  <2>7. \/ pc' = "suffix" /\ Len(seen') < Len(p)
        \/ pc' = "done" /\ Len(seen') = Len(p)
        \/ pc' = "sample" /\ Len(seen') = Len(p) /\ job.limit # 0
    BY <1>1, <2>1, <2>2, <2>4, <2>5 DEF AfterPrefill
  <2>8. Len(seen') = Len(p) => seen' = p
    BY <2>1, <2>6, SubSeqFull
  <2>9. TypeOK'
    BY <1>1, <2>5, <2>7 DEF IndInv, TypeOK
  <2>10. CallShape'
    BY <1>1, <2>1, <2>2, <2>5, <2>7 DEF CallShape
  <2>11. Consumed' /\ Exact'
    BY <1>1, <2>2, <2>5, <2>6, <2>7, <2>8 DEF Consumed, Exact
  <2>12. Sound(entries)'
    BY <1>1 DEF IndInv
  <2> QED BY <2>9, <2>10, <2>11, <2>12 DEF IndInv
<1> QED BY <1>2, <1>3

(* The token sampled is the model's choice after all the tokens so far.    *)
LEMMA SampleFacts ==
  ASSUME PredictTotal, Running, Sample
  PROVE  LET t == Predict(job.model, ids)
         IN  /\ t \in Tokens /\ ids' = Append(ids, t)
             /\ pc' = IF t = EOS THEN "done" ELSE "feed"
<1>1. /\ job.model \in Models /\ ids \in Seq(Tokens) /\ Len(ids) \in Nat \ {0}
      /\ Holds(cells, job.model, seen)
  BY CallFacts
<1>2. seen = ids
  BY DEF Running, IndInv, Consumed, Sample
<1>3. cells[Len(seen)] = [model |-> job.model, ids |-> ids]
  <2>1. Len(ids) \in 1..Len(ids)
    BY <1>1
  <2>2. cells[Len(ids)] = [model |-> job.model, ids |-> SubSeq(ids, 1, Len(ids))]
    BY <1>1, <1>2, <2>1 DEF Holds
  <2>3. SubSeq(ids, 1, Len(ids)) = ids
    BY <1>1, SubSeqFull
  <2> QED BY <1>2, <2>2, <2>3
<1>4. [model |-> job.model, ids |-> ids] # Mixed
  BY <1>1, ReuseAssumption DEF ReuseAssumption, KV
<1>5. Choice = {Predict(job.model, ids)}
  BY <1>3, <1>4 DEF Choice
<1>6. Predict(job.model, ids) \in Tokens
  <2>1. ids # <<>>
    BY <1>1, EmptySeq
  <2> QED BY <1>1, <2>1 DEF PredictTotal
<1> QED BY <1>5, <1>6 DEF Sample

(* Sampling a token keeps the invariant.                                   *)
LEMMA SampleStep ==
  ASSUME PredictTotal, IndInv, Sample
  PROVE  IndInv'
<1>1. Running /\ pc = "sample" /\ UNCHANGED <<entries, job, cells, seen>>
  BY DEF Sample, Running
<1> DEFINE t == Predict(job.model, ids)
<1>2. t \in Tokens /\ ids' = Append(ids, t) /\ pc' = IF t = EOS THEN "done" ELSE "feed"
  BY <1>1, SampleFacts
<1> HIDE DEF t
<1>3. /\ ids \in Seq(Tokens) /\ Len(ids) \in Nat \ {0} /\ Len(job.prompt) \in Nat \ {0}
      /\ job.limit \in Nat /\ Len(job.prompt) <= Len(ids) /\ Len(cells) \in Capacities
  BY <1>1, CallFacts
<1>4. /\ Len(ids) < Len(job.prompt) + job.limit /\ seen = ids
      /\ \A i \in Len(job.prompt)+1..Len(ids) : ids[i] # EOS
  BY <1>1 DEF IndInv, CallShape, Consumed
<1>5. /\ ids' \in Seq(Tokens) /\ Len(ids') = Len(ids) + 1
      /\ \A i \in 1..Len(ids) : ids'[i] = ids[i]
      /\ ids'[Len(ids) + 1] = t
  BY <1>2, <1>3, AppendProperties
<1>6. seen = SubSeq(ids', 1, Len(ids') - 1)
  <2>1. SubSeq(ids', 1, Len(ids)) = SubSeq(ids, 1, Len(ids))
    BY <1>2, <1>3, PrefixOfAppend
  <2>2. SubSeq(ids, 1, Len(ids)) = ids
    BY <1>3, SubSeqFull
  <2>3. Len(ids') - 1 = Len(ids)
    BY <1>3, <1>5
  <2> QED BY <1>4, <2>1, <2>2, <2>3
<1>7. TypeOK'
  BY <1>1, <1>2, <1>5 DEF IndInv, TypeOK
<1>8. pc' = "feed" => \A i \in Len(job.prompt)+1..Len(ids') : ids'[i] # EOS
  <2> SUFFICES ASSUME pc' = "feed", NEW i \in Len(job.prompt)+1..Len(ids') PROVE ids'[i] # EOS
    OBVIOUS
  <2>1. t # EOS
    BY <1>2
  <2>2. \/ i \in Len(job.prompt)+1..Len(ids) /\ i \in 1..Len(ids)
        \/ i = Len(ids) + 1
    BY <1>3, <1>5
  <2> QED BY <1>4, <1>5, <2>1, <2>2
<1>9. CallShape'
  BY <1>1, <1>2, <1>3, <1>4, <1>5, <1>8 DEF CallShape
<1>10. Consumed' /\ Exact'
  BY <1>1, <1>2, <1>6 DEF IndInv, Consumed, Exact
<1>11. Sound(entries)'
  BY <1>1 DEF IndInv
<1> QED BY <1>7, <1>9, <1>10, <1>11 DEF IndInv

(* Feeding the sampled token keeps the invariant.                          *)
LEMMA FeedStep ==
  ASSUME IndInv, Feed
  PROVE  IndInv'
<1>1. pc = "feed" /\ Running /\ UNCHANGED <<entries, job, ids>>
  BY DEF Feed, Running
<1>2. CASE Raise
  BY <1>1, <1>2, RaiseStep
<1>3. CASE ~Raise
  <2> DEFINE t == ids[Len(ids)]
  <2>1. /\ ids \in Seq(Tokens) /\ Len(ids) \in Nat \ {0} /\ Len(job.prompt) \in Nat \ {0}
        /\ job.limit \in Nat /\ Len(job.prompt) <= Len(ids)
        /\ Len(ids) <= Len(job.prompt) + job.limit
        /\ Len(cells) \in Capacities /\ seen \in Seq(Tokens)
    BY <1>1, CallFacts
  <2>2. /\ seen = SubSeq(ids, 1, Len(ids) - 1)
        /\ \A i \in Len(job.prompt)+1..Len(ids) : ids[i] # EOS
    BY <1>1 DEF IndInv, Consumed, CallShape
  <2>3. t \in Tokens
    <3>1. Len(ids) \in 1..Len(ids)
      BY <2>1
    <3> QED BY <2>1, <3>1, ElementOfSeq
  <2>4. /\ Decode(t)
        /\ pc' = IF Len(ids) < Len(job.prompt) + job.limit THEN "sample" ELSE "done"
    BY <1>3 DEF Feed
  <2> HIDE DEF t
  <2>5. /\ seen' \in Seq(Tokens) /\ Len(seen') = Len(seen) + 1 /\ seen' = Append(seen, t)
        /\ cells' \in Seq(Cell) /\ Len(cells') = Len(cells)
        /\ Holds(cells', job.model, seen')
    BY <1>1, <2>3, <2>4, DecodeKeeps
  <2>6. seen' = ids
    <3>1. /\ Len(seen) = Len(ids) - 1 /\ \A i \in 1..Len(ids) - 1 : seen[i] = ids[i]
      <4>1. Len(ids) - 1 \in 0..Len(ids)
        BY <2>1
      <4> QED BY <2>1, <2>2, <4>1, PrefixTyped
    <3>2. /\ \A i \in 1..Len(seen) : seen'[i] = seen[i]
          /\ seen'[Len(seen) + 1] = t
      BY <2>1, <2>3, <2>5, AppendProperties
    <3>3. \A i \in 1..Len(ids) : seen'[i] = ids[i]
      BY <2>1, <3>1, <3>2 DEF t
    <3>4. Len(seen') = Len(ids)
      BY <2>1, <2>5, <3>1
    <3> QED BY <2>1, <2>5, <3>3, <3>4, SeqEqual
  <2>7. TypeOK'
    BY <1>1, <2>4, <2>5 DEF IndInv, TypeOK
  <2>8. CallShape'
    BY <1>1, <2>1, <2>2, <2>4, <2>5 DEF CallShape
  <2>9. Consumed' /\ Exact'
    BY <1>1, <2>4, <2>5, <2>6 DEF Consumed, Exact
  <2>10. Sound(entries)'
    BY <1>1 DEF IndInv
  <2> QED BY <2>7, <2>8, <2>9, <2>10 DEF IndInv
<1> QED BY <1>2, <1>3

(* Returning and clearing the cache keep the invariant.                    *)
LEMMA IdleStep ==
  ASSUME IndInv, Return \/ Clear
  PROVE  IndInv'
<1>0. MaxSize \in Nat \ {0}
  BY ReuseAssumption DEF ReuseAssumption
<1>1. \A S : <<>> \in Seq(S) /\ Len(<<>>) = 0
  BY EmptySeq
<1>2. CASE Return
  <2>1. TypeOK'
    BY <1>1, <1>2 DEF IndInv, TypeOK, Return
  <2>2. Consumed' /\ CallShape' /\ Exact' /\ Sound(entries)'
    BY <1>2 DEF IndInv, Consumed, CallShape, Exact, Return
  <2> QED BY <2>1, <2>2 DEF IndInv
<1>3. CASE Clear
  <2>1. TypeOK'
    BY <1>0, <1>1, <1>3 DEF IndInv, TypeOK, Clear
  <2>2. Consumed' /\ CallShape' /\ Exact'
    BY <1>3 DEF IndInv, Consumed, CallShape, Exact, Clear
  <2>3. Sound(entries)'
    BY <1>0, <1>1, <1>3 DEF Sound, Clear
  <2> QED BY <2>1, <2>2, <2>3 DEF IndInv
<1> QED BY <1>2, <1>3

(* The invariant is inductive.                                             *)
LEMMA Invariance ==
  ASSUME PredictTotal, FingerprintsDiffer, IndInv, [Next]_vars
  PROVE  IndInv'
<1>1. CASE UNCHANGED vars
  <2>1. TypeOK' /\ Consumed' /\ CallShape'
    BY <1>1 DEF vars, IndInv, TypeOK, Consumed, CallShape
  <2>2. Exact' /\ Sound(entries)'
    BY <1>1 DEF vars, IndInv, Exact
  <2> QED BY <2>1, <2>2 DEF IndInv
<1>2. CASE Next
  BY <1>2, CallStep, SuffixStep, SampleStep, FeedStep, IdleStep DEF Next
<1> QED BY <1>1, <1>2

(* The invariant holds in every reachable state.                           *)
LEMMA Inductive == PredictTotal /\ FingerprintsDiffer => (Spec => []IndInv)
<1> SUFFICES ASSUME PredictTotal, FingerprintsDiffer PROVE Spec => []IndInv
  OBVIOUS
<1>1. Init => IndInv
  BY Initial
<1>2. IndInv /\ [Next]_vars => IndInv'
  BY Invariance
<1> QED BY <1>1, <1>2, PTL DEF Spec

-----------------------------------------------------------------------------
(* How a call ends.                                                        *)

Ends == FullOnlyWhenOver /\ StopsOnTime

(* A call that raises had no position left for what it was asked.          *)
LEMMA RaiseEnds ==
  ASSUME Running, pc \in {"suffix", "feed"}, Raise, UNCHANGED <<entries, job, ids>>
  PROVE  Ends'
<1>1. /\ Len(job.prompt) \in Nat \ {0} /\ job.limit \in Nat
      /\ ids \in Seq(Tokens) /\ Len(ids) \in Nat \ {0}
      /\ Len(ids) <= Len(job.prompt) + job.limit
      /\ Len(cells) \in Nat /\ Len(cells) \in Capacities
      /\ seen \in Seq(Tokens) /\ Len(seen) \in Nat
  BY CallFacts
<1>2. Len(seen) >= Len(cells) /\ pc' = "full" /\ job' = job
  BY DEF Raise, Full
<1>3. Len(job.prompt) + job.limit > Len(cells)
  <2>1. CASE pc = "suffix"
    <3>1. Len(seen) < Len(job.prompt)
      BY <2>1 DEF Running, IndInv, Consumed
    <3> QED BY <1>1, <1>2, <3>1
  <2>2. CASE pc = "feed"
    <3>1. seen = SubSeq(ids, 1, Len(ids) - 1)
      BY <2>2 DEF Running, IndInv, Consumed
    <3>2. Len(seen) = Len(ids) - 1
      <4>1. Len(ids) - 1 \in 0..Len(ids)
        BY <1>1
      <4> QED BY <1>1, <3>1, <4>1, PrefixTyped
    <3> QED BY <1>1, <1>2, <3>2
  <2> QED BY <2>1, <2>2
<1>4. FullOnlyWhenOver'
  BY <1>1, <1>2, <1>3 DEF FullOnlyWhenOver
<1>5. StopsOnTime'
  BY <1>2 DEF StopsOnTime
<1> QED BY <1>4, <1>5 DEF Ends

(* Every step keeps what is known of how calls end.                        *)
LEMMA StepEnds ==
  ASSUME PredictTotal, IndInv, IndInv', Ends, [Next]_vars
  PROVE  Ends'
<1>1. CASE UNCHANGED vars
  BY <1>1 DEF vars, Ends, FullOnlyWhenOver, StopsOnTime
<1>2. ASSUME NEW m \in Models, NEW p \in Prompts, NEW n \in Limits, NEW c \in Capacities,
             \/ CallUncached(m, p, n, c) \/ CallMiss(m, p, n, c)
             \/ CallExact(m, p, n, c) \/ CallPrefix(m, p, n, c)
      PROVE  Ends'
  <2>1. Begin(m, p, n)
    BY <1>2 DEF CallUncached, CallMiss, CallExact, CallPrefix
  <2>2. /\ job'.prompt = p /\ job'.limit = n /\ ids' = p
        /\ Len(p) \in Nat \ {0} /\ n \in Nat
    BY <2>1, BeginFacts
  <2>3. pc' = "suffix" \/ pc' = AfterPrefill(n)
    BY <1>2 DEF CallUncached, CallMiss, CallExact, CallPrefix, FullPrefill
  <2>4. pc' \in {"suffix", "sample", "done"} /\ (pc' = "done" => n = 0)
    BY <2>3 DEF AfterPrefill
  <2> QED BY <2>2, <2>4 DEF Ends, FullOnlyWhenOver, StopsOnTime
<1>3. CASE DecodeSuffix
  <2>1. pc = "suffix" /\ Running /\ UNCHANGED <<entries, job, ids>>
    BY <1>3 DEF DecodeSuffix, Running
  <2>2. CASE Raise
    BY <2>1, <2>2, RaiseEnds
  <2>3. CASE ~Raise
    <3>1. Len(job.prompt) \in Nat \ {0} /\ job.limit \in Nat
      BY <2>1, CallFacts
    <3>2. ids = job.prompt
      BY <2>1 DEF IndInv, Consumed
    <3>3. pc' \in {"suffix", "sample", "done"} /\ (pc' = "done" => job.limit = 0)
      BY <1>3, <2>1, <2>3 DEF DecodeSuffix, AfterPrefill
    <3> QED BY <2>1, <3>1, <3>2, <3>3 DEF Ends, FullOnlyWhenOver, StopsOnTime
  <2> QED BY <2>2, <2>3
<1>4. CASE Sample
  <2>1. Running /\ pc = "sample" /\ job' = job
    BY <1>4 DEF Sample, Running
  <2> DEFINE t == Predict(job.model, ids)
  <2>2. t \in Tokens /\ ids' = Append(ids, t) /\ pc' = IF t = EOS THEN "done" ELSE "feed"
    BY <1>4, <2>1, SampleFacts
  <2> HIDE DEF t
  <2>3. /\ ids \in Seq(Tokens) /\ Len(ids) \in Nat \ {0} /\ Len(job.prompt) \in Nat \ {0}
        /\ job.limit \in Nat
    BY <2>1, CallFacts
  <2>4. /\ Len(ids) < Len(job.prompt) + job.limit
        /\ \A i \in Len(job.prompt)+1..Len(ids) : ids[i] # EOS
    BY <2>1 DEF IndInv, CallShape
  <2>5. /\ Len(ids') = Len(ids) + 1
        /\ \A i \in 1..Len(ids) : ids'[i] = ids[i]
        /\ ids'[Len(ids) + 1] = t
    BY <2>2, <2>3, AppendProperties
  <2>6. \A i \in Len(job.prompt)+1..Len(ids')-1 : ids'[i] # EOS
    <3> TAKE i \in Len(job.prompt)+1..Len(ids')-1
    <3>1. i \in Len(job.prompt)+1..Len(ids) /\ i \in 1..Len(ids)
      BY <2>3, <2>5
    <3> QED BY <2>4, <2>5, <3>1
  <2>7. pc' = "done" => ids'[Len(ids')] = EOS
    BY <2>2, <2>3, <2>5
  <2>8. pc' # "full" /\ Len(ids') <= Len(job.prompt) + job.limit
    BY <2>2, <2>3, <2>4, <2>5
  <2>9. FullOnlyWhenOver'
    BY <2>8 DEF FullOnlyWhenOver
  <2>10. StopsOnTime'
    BY <2>1, <2>3, <2>5, <2>6, <2>7, <2>8 DEF StopsOnTime
  <2> QED BY <2>9, <2>10 DEF Ends
<1>5. CASE Feed
  <2>1. pc = "feed" /\ Running /\ UNCHANGED <<entries, job, ids>>
    BY <1>5 DEF Feed, Running
  <2>2. CASE Raise
    BY <2>1, <2>2, RaiseEnds
  <2>3. CASE ~Raise
    <3>1. /\ Len(ids) \in Nat \ {0} /\ Len(job.prompt) \in Nat \ {0} /\ job.limit \in Nat
          /\ Len(ids) <= Len(job.prompt) + job.limit
      BY <2>1, CallFacts
    <3>2. \A i \in Len(job.prompt)+1..Len(ids) : ids[i] # EOS
      BY <2>1 DEF IndInv, CallShape
    <3>3. pc' = IF Len(ids) < Len(job.prompt) + job.limit THEN "sample" ELSE "done"
      BY <1>5, <2>3 DEF Feed
    <3>4. FullOnlyWhenOver'
      BY <3>3 DEF FullOnlyWhenOver
    <3>5. \A i \in Len(job.prompt)+1..Len(ids)-1 : i \in Len(job.prompt)+1..Len(ids)
      BY <3>1
    <3>6. StopsOnTime'
      BY <2>1, <3>1, <3>2, <3>3, <3>5 DEF StopsOnTime
    <3> QED BY <3>4, <3>6 DEF Ends
  <2> QED BY <2>2, <2>3
<1>6. CASE Return \/ Clear
  BY <1>6 DEF Return, Clear, Ends, FullOnlyWhenOver, StopsOnTime
<1> QED BY <1>1, <1>2, <1>3, <1>4, <1>5, <1>6 DEF Next

-----------------------------------------------------------------------------
(* Theorems.                                                               *)

(* Type correctness: among others, the cache never outgrows max_size.      *)
THEOREM TypeCorrect == PredictTotal /\ FingerprintsDiffer => (Spec => []TypeOK)
<1> SUFFICES ASSUME PredictTotal, FingerprintsDiffer PROVE Spec => []TypeOK
  OBVIOUS
<1>1. IndInv => TypeOK
  BY DEF IndInv
<1> QED BY <1>1, Inductive, PTL

(* Reuse is exact, for every model, history of the cache and eviction.     *)
THEOREM Exactness == PredictTotal => (Spec => []ReuseIsExact)
<1> SUFFICES ASSUME PredictTotal PROVE Spec => []ReuseIsExact
  OBVIOUS
<1>1. CASE FingerprintsDiffer
  <2>1. IndInv => ReuseIsExact
    BY DEF IndInv, Exact, ReuseIsExact
  <2> QED BY <1>1, <2>1, Inductive, PTL
<1>2. CASE ~FingerprintsDiffer
  <2>1. ReuseIsExact
    BY <1>2 DEF ReuseIsExact
  <2> QED BY <2>1, PTL
<1> QED BY <1>1, <1>2

(* How calls end, in every reachable state.                                *)
LEMMA EndsInvariant == PredictTotal /\ FingerprintsDiffer => (Spec => []Ends)
<1> SUFFICES ASSUME PredictTotal, FingerprintsDiffer PROVE Spec => []Ends
  OBVIOUS
<1>1. Init => Ends
  BY DEF Init, Ends, FullOnlyWhenOver, StopsOnTime
<1>2. IndInv /\ IndInv' /\ Ends /\ [Next]_vars => Ends'
  BY StepEnds
<1> QED BY <1>1, <1>2, Inductive, PTL DEF Spec

(* Only a call that asks for more than some state holds runs out of room.  *)
THEOREM RoomEnough == PredictTotal /\ FingerprintsDiffer => (Spec => []FullOnlyWhenOver)
<1> SUFFICES ASSUME PredictTotal, FingerprintsDiffer PROVE Spec => []FullOnlyWhenOver
  OBVIOUS
<1>1. Ends => FullOnlyWhenOver
  BY DEF Ends
<1> QED BY <1>1, EndsInvariant, PTL

(* The loop stops at the first end-of-sequence token or at the last one.   *)
THEOREM Stops == PredictTotal /\ FingerprintsDiffer => (Spec => []StopsOnTime)
<1> SUFFICES ASSUME PredictTotal, FingerprintsDiffer PROVE Spec => []StopsOnTime
  OBVIOUS
<1>1. Ends => StopsOnTime
  BY DEF Ends
<1> QED BY <1>1, EndsInvariant, PTL

(* Every step is a step of greedy generation or leaves job and tokens      *)
(* alone.                                                                  *)
LEMMA StepRefines ==
  ASSUME PredictTotal, IndInv, [Next]_vars
  PROVE  [Greedy!Next]_<<job, ids>>
<1>1. CASE UNCHANGED vars
  BY <1>1 DEF vars
<1>2. ASSUME NEW m \in Models, NEW p \in Prompts, NEW n \in Limits, NEW c \in Capacities,
             \/ CallUncached(m, p, n, c) \/ CallMiss(m, p, n, c)
             \/ CallExact(m, p, n, c) \/ CallPrefix(m, p, n, c)
      PROVE  Greedy!Begin
  <2>1. Begin(m, p, n)
    BY <1>2 DEF CallUncached, CallMiss, CallExact, CallPrefix
  <2>2. /\ job = <<>> /\ job'.prompt = p /\ ids' = p
        /\ p \in Seq(Tokens) /\ p # <<>> /\ n \in Nat
    BY <2>1, BeginFacts
  <2>3. job' = [model |-> m, prompt |-> p, limit |-> n]
    BY <2>1 DEF Begin
  <2>4. job' \in Greedy!Job
    BY <2>2, <2>3 DEF Greedy!Job, Greedy!Prompt
  <2> QED BY <2>2, <2>4 DEF Greedy!Begin
<1>3. CASE Sample
  <2>1. Running /\ pc = "sample" /\ job' = job
    BY <1>3 DEF Sample, Running
  <2> DEFINE t == Predict(job.model, ids)
  <2>2. t \in Tokens /\ ids' = Append(ids, t)
    BY <1>3, <2>1, SampleFacts
  <2>3. t = Predict(job.model, ids)
    OBVIOUS
  <2> HIDE DEF t
  <2>4. /\ ids \in Seq(Tokens) /\ Len(ids) \in Nat \ {0} /\ Len(job.prompt) \in Nat \ {0}
        /\ job.limit \in Nat
    BY <2>1, CallFacts
  <2>5. Len(ids) < Len(job.prompt) + job.limit /\ job # <<>>
    BY <2>1 DEF IndInv, CallShape, TypeOK
  <2>6. /\ ids' \in Seq(Tokens) /\ Len(ids') = Len(ids) + 1 /\ ids' # <<>>
        /\ ids'[Len(ids) + 1] = t
    BY <2>2, <2>4, AppendProperties
  <2>7. ids = SubSeq(ids', 1, Len(ids))
    <3>1. SubSeq(ids', 1, Len(ids)) = SubSeq(ids, 1, Len(ids))
      BY <2>2, <2>4, PrefixOfAppend
    <3> QED BY <2>4, <3>1, SubSeqFull
  <2>8. Greedy!GreedyAfter(job.model, ids', Len(ids))
    <3> SUFFICES ASSUME NEW i \in Len(ids)+1..Len(ids')
                 PROVE  ids'[i] = Predict(job.model, SubSeq(ids', 1, i-1))
      BY DEF Greedy!GreedyAfter
    <3>1. i = Len(ids) + 1 /\ i - 1 = Len(ids)
      BY <2>4, <2>6
    <3> QED BY <2>3, <2>6, <2>7, <3>1
  <2>9. Greedy!Extend
    BY <2>1, <2>4, <2>5, <2>6, <2>7, <2>8 DEF Greedy!Extend, Greedy!Prompt
  <2> QED BY <2>9 DEF Greedy!Next
<1>4. CASE Return
  <2>1. job # <<>> /\ job' = <<>> /\ ids' = <<>>
    BY <1>4 DEF Return, IndInv, TypeOK
  <2> QED BY <2>1 DEF Greedy!Next, Greedy!End
<1>5. CASE DecodeSuffix \/ Feed \/ Clear
  BY <1>5 DEF DecodeSuffix, Feed, Clear
<1> QED BY <1>1, <1>2, <1>3, <1>4, <1>5 DEF Next, Greedy!Next

(* With and without reuse, a call generates greedily.                      *)
THEOREM GreedyOutput == PredictTotal /\ FingerprintsDiffer => (Spec => GreedySpec)
<1> SUFFICES ASSUME PredictTotal, FingerprintsDiffer PROVE Spec => GreedySpec
  OBVIOUS
<1>1. Init => Greedy!Init
  BY DEF Init, Greedy!Init
<1>2. IndInv /\ [Next]_vars => [Greedy!Next]_<<job, ids>>
  BY StepRefines
<1> QED BY <1>1, <1>2, Inductive, PTL DEF Spec, GreedySpec, Greedy!Spec

-----------------------------------------------------------------------------
(* Which entries the cache keeps.  Nothing here depends on what the cells  *)
(* hold, so nothing is assumed of the models or their fingerprints.        *)

UsedKeys == {Fingerprint[m] : m \in Models} \X Seq(Tokens)

(* What was used last is at the end of the entries, in the same order.     *)
UsedLast ==
  /\ used \in Seq(UsedKeys) /\ Len(used) <= 2
  /\ MaxSize >= 2 =>
       /\ Len(used) <= Len(entries)
       /\ used # <<>> => Key(entries[Len(entries)]) = used[Len(used)]
       /\ Len(used) = 2 => Key(entries[Len(entries) - 1]) = used[1]

CacheInv ==
  /\ entries \in Seq(Entry) /\ Len(entries) <= MaxSize
  /\ \A i \in 1..Len(entries) : entries[i].ids # <<>>
  /\ OneEntryPerStart
  /\ UsedLast

(* Storing puts the new entry last and drops at most the first one, which  *)
(* it does only when max_size entries are there.                           *)
LEMMA StoreEntries ==
  ASSUME entries \in Seq(Entry), Len(entries) <= MaxSize, NEW e \in Entry
  PROVE  \E d \in {0, 1} :
           /\ Store(e) \in Seq(Entry) /\ Len(Store(e)) = Len(entries) + 1 - d
           /\ Len(Store(e)) <= MaxSize
           /\ d = 1 => Len(entries) = MaxSize
           /\ \A j \in 1..Len(entries) - d : Store(e)[j] = entries[j + d]
           /\ Store(e)[Len(entries) + 1 - d] = e
<1>0. MaxSize \in Nat \ {0} /\ Len(entries) \in Nat
  BY ReuseAssumption DEF ReuseAssumption
<1>1. CASE Len(entries) < MaxSize
  <2>1. Store(e) = Append(entries, e)
    BY <1>1 DEF Store
  <2>2. /\ Append(entries, e) \in Seq(Entry) /\ Len(Append(entries, e)) = Len(entries) + 1
        /\ \A j \in 1..Len(entries) : Append(entries, e)[j] = entries[j]
        /\ Append(entries, e)[Len(entries) + 1] = e
    BY AppendProperties
  <2>3. \A j \in 1..Len(entries) - 0 : Store(e)[j] = entries[j + 0]
    BY <1>0, <2>1, <2>2
  <2> QED BY <1>0, <1>1, <2>1, <2>2, <2>3
<1>2. CASE ~(Len(entries) < MaxSize)
  <2>1. entries # <<>> /\ Len(entries) = MaxSize
    BY <1>0, <1>2, EmptySeq
  <2> DEFINE u == Tail(entries)
  <2>2. /\ u \in Seq(Entry) /\ Len(u) = Len(entries) - 1
        /\ \A i \in 1..Len(u) : u[i] = entries[i + 1]
    BY <2>1, HeadTailProperties
  <2>3. Store(e) = Append(u, e)
    BY <1>2 DEF Store
  <2> HIDE DEF u
  <2>4. /\ Append(u, e) \in Seq(Entry) /\ Len(Append(u, e)) = Len(u) + 1
        /\ \A j \in 1..Len(u) : Append(u, e)[j] = u[j]
        /\ Append(u, e)[Len(u) + 1] = e
    BY <2>2, AppendProperties
  <2>5. \A j \in 1..Len(entries) - 1 : Store(e)[j] = entries[j + 1]
    BY <2>2, <2>3, <2>4
  <2>6. Len(u) + 1 = Len(entries) /\ Len(entries) + 1 - 1 = Len(entries)
    BY <1>0, <2>2
  <2> QED BY <1>0, <2>1, <2>3, <2>4, <2>5, <2>6
<1> QED BY <1>1, <1>2

(* A matched entry moves to the end; the others keep their order.          *)
LEMMA TouchEntries ==
  ASSUME entries \in Seq(Entry), NEW i \in DOMAIN entries
  PROVE  /\ Touch(i) \in Seq(Entry) /\ Len(Touch(i)) = Len(entries)
         /\ \A j \in 1..Len(entries) :
              Touch(i)[j] = entries[IF j < i THEN j ELSE IF j < Len(entries) THEN j + 1 ELSE i]
<1>1. Len(entries) \in Nat /\ DOMAIN entries = 1..Len(entries)
  BY LenProperties
<1>2. Touch(i) = [j \in 1..Len(entries) |->
                    entries[IF j < i THEN j ELSE IF j < Len(entries) THEN j + 1 ELSE i]]
  BY <1>1 DEF Touch
<1>3. \A j \in 1..Len(entries) :
        entries[IF j < i THEN j ELSE IF j < Len(entries) THEN j + 1 ELSE i] \in Entry
  <2> TAKE j \in 1..Len(entries)
  <2>1. (IF j < i THEN j ELSE IF j < Len(entries) THEN j + 1 ELSE i) \in 1..Len(entries)
    BY <1>1
  <2> QED BY <2>1, ElementOfSeq
<1>4. Touch(i) \in [1..Len(entries) -> Entry]
  BY <1>2, <1>3
<1> QED BY <1>1, <1>2, <1>4

(* The history takes in what is used, unless it was used last anyway.      *)
LEMMA UseFacts ==
  ASSUME used \in Seq(UsedKeys), Len(used) <= 2, NEW e, Key(e) \in UsedKeys, Use(e)
  PROVE  /\ used' \in Seq(UsedKeys) /\ Len(used') <= 2
         /\ used' # <<>> /\ used'[Len(used')] = Key(e)
         /\ \/ used # <<>> /\ used[Len(used)] = Key(e) /\ used' = used
            \/ used = <<>> /\ Len(used') = 1
            \/ /\ used # <<>> /\ used[Len(used)] # Key(e)
               /\ Len(used') = 2 /\ used'[1] = used[Len(used)]
<1>1. Len(used) \in Nat /\ (used = <<>> <=> Len(used) = 0)
  BY EmptySeq
<1>1a. Len(used) = 0 \/ Len(used) = 1 \/ Len(used) = 2
  <2>1. \A n \in Nat : n <= 2 => n = 0 \/ n = 1 \/ n = 2
    OBVIOUS
  <2> QED BY <1>1, <2>1, Zenon
<1>2. CASE used # <<>> /\ used[Len(used)] = Key(e)
  BY <1>2 DEF Use
<1>3. CASE ~(used # <<>> /\ used[Len(used)] = Key(e)) /\ Len(used) < 2
  <2>1. used' = Append(used, Key(e))
    BY <1>3 DEF Use
  <2>2. /\ used' \in Seq(UsedKeys) /\ Len(used') = Len(used) + 1
        /\ \A j \in 1..Len(used) : used'[j] = used[j]
        /\ used'[Len(used) + 1] = Key(e)
    BY <2>1, AppendProperties
  <2>3. used' # <<>>
    BY <1>1, <2>2, EmptySeq
  <2>4. CASE Len(used) = 0
    BY <1>1, <2>2, <2>3, <2>4
  <2>5. CASE Len(used) = 1
    BY <1>1, <1>3, <2>2, <2>3, <2>5
  <2>6. Len(used) = 0 \/ Len(used) = 1
    <3>1. ~(2 < 2)
      OBVIOUS
    <3> QED BY <1>1a, <1>3, <3>1, Zenon
  <2> QED BY <2>4, <2>5, <2>6, Zenon
<1>4. CASE ~(used # <<>> /\ used[Len(used)] = Key(e)) /\ ~(Len(used) < 2)
  <2>1. Len(used) = 2 /\ used # <<>> /\ used[2] \in UsedKeys /\ used[2] # Key(e)
    BY <1>1, <1>4, ElementOfSeq
  <2>2. used' = <<used[2], Key(e)>>
    BY <1>4, <2>1 DEF Use
  <2>3. used' \in Seq(UsedKeys) /\ Len(used') = 2 /\ used'[1] = used[2] /\ used'[2] = Key(e)
    BY <2>1, <2>2
  <2> QED BY <2>1, <2>3, EmptySeq
<1> QED BY <1>2, <1>3, <1>4

(* A prompt that misses is stored as the only entry with its fingerprint   *)
(* and first token.                                                        *)
LEMMA MissKeeps ==
  ASSUME CacheInv, NEW m \in Models, NEW p \in Prompts, NEW n \in Limits, NEW c \in Capacities,
         CallMiss(m, p, n, c)
  PROVE  CacheInv'
<1> DEFINE e == [fingerprint |-> Fingerprint[m], ids |-> p, cells |-> Prefilled(m, p, c)]
<1>1. Misses(m, p) /\ entries' = Store(e) /\ Use(e)
  BY DEF CallMiss
<1>2. p \in Seq(Tokens) /\ p # <<>> /\ c \in Nat /\ Len(p) <= c /\ Len(p) \in Nat \ {0}
  BY ReuseAssumption, EmptySeq DEF ReuseAssumption
<1>3. e \in Entry /\ e.fingerprint = Fingerprint[m] /\ e.ids = p /\ Key(e) \in UsedKeys
  <2>1. Prefilled(m, p, c) \in Seq(Cell)
    BY <1>2, PrefilledHolds
  <2> QED BY <1>2, <2>1 DEF Entry, Key, UsedKeys
<1> HIDE DEF e
<1>4. PICK d \in {0, 1} :
           /\ Store(e) \in Seq(Entry) /\ Len(Store(e)) = Len(entries) + 1 - d
           /\ Len(Store(e)) <= MaxSize
           /\ d = 1 => Len(entries) = MaxSize
           /\ \A j \in 1..Len(entries) - d : Store(e)[j] = entries[j + d]
           /\ Store(e)[Len(entries) + 1 - d] = e
  BY <1>3, StoreEntries DEF CacheInv
<1>5. Len(entries) \in Nat /\ DOMAIN entries = 1..Len(entries) /\ DOMAIN entries' = 1..Len(entries')
  BY <1>1, <1>4, LenProperties DEF CacheInv
<1>6. ASSUME NEW j \in 1..Len(entries), entries[j].fingerprint = Fingerprint[m]
      PROVE  entries[j].ids[1] # p[1]
  <2>1. entries[j].ids \in Seq(Tokens) /\ entries[j].ids # <<>>
    <3>1. entries[j] \in Entry
      BY ElementOfSeq DEF CacheInv
    <3> QED BY <3>1 DEF Entry, CacheInv
  <2>2. 1 <= Len(entries[j].ids)
    BY <2>1, EmptySeq
  <2>3. ~Agree(entries[j].ids, p, 1)
    BY <1>1, <1>5, <1>6 DEF Misses, Candidates
  <2> QED BY <1>2, <2>2, <2>3 DEF Agree
<1>7. \A j \in 1..Len(entries') :
        \/ j \in 1..Len(entries) - d /\ entries'[j] = entries[j + d]
        \/ j = Len(entries) + 1 - d /\ entries'[j] = e
  BY <1>1, <1>4, <1>5
<1>8. \A i \in 1..Len(entries') : entries'[i].ids # <<>>
  BY <1>2, <1>3, <1>5, <1>7 DEF CacheInv
<1>9. OneEntryPerStart'
  <2> SUFFICES ASSUME NEW i \in 1..Len(entries'), NEW j \in 1..Len(entries'),
                      entries'[i].fingerprint = entries'[j].fingerprint,
                      entries'[i].ids[1] = entries'[j].ids[1]
               PROVE  i = j
    BY <1>5 DEF OneEntryPerStart
  <2>1. CASE entries'[i] = entries[i + d] /\ entries'[j] = entries[j + d]
             /\ i \in 1..Len(entries) - d /\ j \in 1..Len(entries) - d
    <3>1. i + d \in DOMAIN entries /\ j + d \in DOMAIN entries
      BY <1>5, <2>1
    <3>2. i + d = j + d
      BY <2>1, <3>1 DEF CacheInv, OneEntryPerStart
    <3> QED BY <1>5, <3>2
  <2>2. ASSUME NEW k \in 1..Len(entries) - d, entries[k + d].fingerprint = e.fingerprint
        PROVE  entries[k + d].ids[1] # e.ids[1]
    BY <1>3, <1>5, <1>6, <2>2
  <2> QED BY <1>7, <2>1, <2>2
<1>10. UsedLast'
  <2>1. UsedLast
    BY DEF CacheInv
  <2>2. /\ used' \in Seq(UsedKeys) /\ Len(used') <= 2
        /\ used' # <<>> /\ used'[Len(used')] = Key(e)
        /\ \/ used # <<>> /\ used[Len(used)] = Key(e) /\ used' = used
           \/ used = <<>> /\ Len(used') = 1
           \/ /\ used # <<>> /\ used[Len(used)] # Key(e)
              /\ Len(used') = 2 /\ used'[1] = used[Len(used)]
    BY <1>1, <1>3, <2>1, UseFacts DEF UsedLast
  <2>3. SUFFICES ASSUME MaxSize >= 2
                 PROVE  /\ Len(used') <= Len(entries')
                        /\ Key(entries'[Len(entries')]) = used'[Len(used')]
                        /\ Len(used') = 2 => Key(entries'[Len(entries') - 1]) = used'[1]
    BY <2>2 DEF UsedLast
  <2>4. Key(entries'[Len(entries')]) = used'[Len(used')]
    BY <1>1, <1>4, <2>2
  <2>5. MaxSize \in Nat /\ Len(used') \in Nat /\ Len(used) \in Nat
        /\ Len(used') # 0 /\ (used # <<>> => Len(used) # 0)
    BY <2>1, <2>2, ReuseAssumption, EmptySeq DEF ReuseAssumption, UsedLast
  <2>6. CASE used = <<>>
    <3>1. Len(used') = 1
      BY <2>2, <2>6
    <3>2. Len(entries') >= 1
      <4>1. Len(entries') = Len(entries) + 1 - d
        BY <1>1, <1>4
      <4>2. \A k \in Nat : k + 1 - 0 >= 1 /\ (k >= 2 => k + 1 - 1 >= 1)
        OBVIOUS
      <4> QED BY <1>4, <1>5, <2>3, <4>1, <4>2
    <3> QED BY <2>4, <3>1, <3>2
  <2>7. CASE used # <<>>
    <3>0. Key(entries[Len(entries)]) = used[Len(used)] /\ Len(used) <= Len(entries)
      BY <2>1, <2>3, <2>7 DEF UsedLast
    <3>1. Len(entries) >= 1 /\ Key(entries[Len(entries)]) = used[Len(used)]
      BY <1>5, <2>5, <2>7, <3>0
    <3>2. used[Len(used)] # Key(e)
      <4>1. Key(entries[Len(entries)]) = Key(e) =>
              entries[Len(entries)].fingerprint = Fingerprint[m] /\ entries[Len(entries)].ids = p
        BY <1>3 DEF Key
      <4>2. Len(entries) \in 1..Len(entries)
        BY <1>5, <3>1
      <4> QED BY <1>6, <3>1, <4>1, <4>2
    <3>3. Len(entries') >= 2 /\ Len(entries') - 1 \in 1..Len(entries) - d
          /\ Len(entries') - 1 + d = Len(entries)
      <4>1. Len(entries') = Len(entries) + 1 - d /\ (d = 1 => Len(entries) = MaxSize)
        BY <1>1, <1>4
      <4>2. PICK k \in Nat : k = Len(entries)
        BY <1>5
      <4>3. PICK l : l = Len(entries')
        OBVIOUS
      <4>4. k >= 1 /\ l = k + 1 - d /\ (d = 1 => k = MaxSize)
        BY <3>1, <4>1, <4>2, <4>3
      <4>5. l >= 2 /\ l - 1 \in 1..k - d /\ l - 1 + d = k
        BY ONLY <2>3, <2>5, <4>2, <4>4, d \in {0, 1}
      <4> QED BY <4>2, <4>3, <4>5
    <3>4. entries'[Len(entries') - 1] = entries[Len(entries)]
      BY <1>1, <1>4, <3>3
    <3> QED BY <2>2, <2>3, <2>4, <2>5, <2>7, <3>1, <3>2, <3>3, <3>4
  <2> QED BY <2>6, <2>7
<1> QED BY <1>1, <1>4, <1>8, <1>9, <1>10 DEF CacheInv

(* A hit moves the entry it matched to the end, where the history has it:  *)
(* the entry used last was there already, or is now the last but one.      *)
LEMMA HitKeeps ==
  ASSUME CacheInv, NEW i \in DOMAIN entries, entries' = Touch(i), Use(entries[i])
  PROVE  CacheInv'
<1> DEFINE g(j) == IF j < i THEN j ELSE IF j < Len(entries) THEN j + 1 ELSE i
<1>1. /\ entries' \in Seq(Entry) /\ Len(entries') = Len(entries)
      /\ \A j \in 1..Len(entries) : entries'[j] = entries[g(j)]
  BY TouchEntries DEF CacheInv
<1>2. Len(entries) \in Nat /\ DOMAIN entries = 1..Len(entries) /\ DOMAIN entries' = 1..Len(entries)
  BY <1>1, LenProperties DEF CacheInv
<1>3. i \in 1..Len(entries) /\ Len(entries) >= 1
  BY <1>2
<1>4. /\ \A j \in 1..Len(entries) : g(j) \in 1..Len(entries)
      /\ \A j, k \in 1..Len(entries) : g(j) = g(k) => j = k
      /\ g(Len(entries)) = i
      /\ i # Len(entries) => Len(entries) >= 2 /\ g(Len(entries) - 1) = Len(entries)
      /\ i = Len(entries) => \A j \in 1..Len(entries) : g(j) = j
  <2>1. PICK n \in Nat : n = Len(entries)
    BY <1>2
  <2>2. i \in 1..n /\ \A j : g(j) = IF j < i THEN j ELSE IF j < n THEN j + 1 ELSE i
    BY <1>3, <2>1
  <2> HIDE DEF g
  <2>3. \A j \in 1..n : g(j) \in 1..n
    BY <2>2
  <2>4. \A j, k \in 1..n : g(j) = g(k) => j = k
    BY <2>2
  <2>5. /\ g(n) = i
        /\ i # n => n >= 2 /\ g(n - 1) = n
        /\ i = n => \A j \in 1..n : g(j) = j
    BY <2>2
  <2> QED BY <2>1, <2>3, <2>4, <2>5
<1> HIDE DEF g
<1>5. \A j \in 1..Len(entries') : entries'[j].ids # <<>>
  BY <1>1, <1>4 DEF CacheInv
<1>6. OneEntryPerStart'
  <2> SUFFICES ASSUME NEW j \in 1..Len(entries), NEW k \in 1..Len(entries),
                      entries'[j].fingerprint = entries'[k].fingerprint,
                      entries'[j].ids[1] = entries'[k].ids[1]
               PROVE  j = k
    BY <1>2 DEF OneEntryPerStart
  <2>1. g(j) \in DOMAIN entries /\ g(k) \in DOMAIN entries
    BY <1>2, <1>4
  <2>2. g(j) = g(k)
    BY <1>1, <2>1 DEF CacheInv, OneEntryPerStart
  <2> QED BY <1>4, <2>2
<1>7. UsedLast'
  <2>1. UsedLast
    BY DEF CacheInv
  <2>2. Key(entries[i]) \in UsedKeys
    <3>1. entries[i] \in Entry
      BY <1>3, ElementOfSeq DEF CacheInv
    <3> QED BY <3>1 DEF Entry, Key, UsedKeys
  <2>3. /\ used' \in Seq(UsedKeys) /\ Len(used') <= 2
        /\ used' # <<>> /\ used'[Len(used')] = Key(entries[i])
        /\ \/ used # <<>> /\ used[Len(used)] = Key(entries[i]) /\ used' = used
           \/ used = <<>> /\ Len(used') = 1
           \/ /\ used # <<>> /\ used[Len(used)] # Key(entries[i])
              /\ Len(used') = 2 /\ used'[1] = used[Len(used)]
    BY <2>1, <2>2, UseFacts DEF UsedLast
  <2>4. SUFFICES ASSUME MaxSize >= 2
                 PROVE  /\ Len(used') <= Len(entries')
                        /\ Key(entries'[Len(entries')]) = used'[Len(used')]
                        /\ Len(used') = 2 => Key(entries'[Len(entries') - 1]) = used'[1]
    BY <2>3 DEF UsedLast
  <2>5. Len(entries) \in 1..Len(entries) /\ (i # Len(entries) => Len(entries) - 1 \in 1..Len(entries))
    <3>1. PICK n \in Nat : n = Len(entries)
      BY <1>2
    <3> QED BY <1>3, <1>4, <3>1
  <2>6. Key(entries'[Len(entries')]) = used'[Len(used')]
    BY <1>1, <1>4, <2>3, <2>5
  <2>7. CASE used = <<>>
    <3>1. Len(used') = 1
      BY <2>3, <2>7
    <3> QED BY <1>1, <1>3, <2>6, <3>1
  <2>8. ASSUME used # <<>>, used[Len(used)] = Key(entries[i])
        PROVE  i = Len(entries)
    <3>1. Key(entries[Len(entries)]) = Key(entries[i])
      BY <2>1, <2>4, <2>8 DEF UsedLast
    <3>2. /\ entries[Len(entries)].fingerprint = entries[i].fingerprint
          /\ entries[Len(entries)].ids[1] = entries[i].ids[1]
      BY <3>1 DEF Key
    <3> QED BY <1>2, <2>5, <3>2 DEF CacheInv, OneEntryPerStart
  <2>9. CASE used # <<>> /\ used[Len(used)] = Key(entries[i])
    <3>1. i = Len(entries) /\ used' = used
      BY <2>3, <2>8, <2>9
    <3>2. \A j \in 1..Len(entries) : entries'[j] = entries[j]
      BY <1>1, <1>4, <3>1
    <3>3. Len(used) <= Len(entries) /\ (Len(used) = 2 => Key(entries[Len(entries) - 1]) = used[1])
      BY <2>1, <2>4 DEF UsedLast
    <3>4. Len(used) = 2 => Len(entries) - 1 \in 1..Len(entries)
      <4>1. PICK n \in Nat : n = Len(entries)
        BY <1>2
      <4> QED BY <3>3, <4>1
    <3>5. Len(used') = 2 => Key(entries'[Len(entries') - 1]) = used'[1]
      BY <1>1, <3>1, <3>2, <3>3, <3>4
    <3> QED BY <1>1, <2>6, <3>1, <3>3, <3>5
  <2>10. CASE used # <<>> /\ used[Len(used)] # Key(entries[i])
    <3>1. Len(used') = 2 /\ used'[1] = used[Len(used)]
      BY <2>3, <2>10
    <3>2. Key(entries[Len(entries)]) = used[Len(used)]
      BY <2>1, <2>4, <2>10 DEF UsedLast
    <3>3. i # Len(entries)
      BY <2>10, <3>2
    <3>4. entries'[Len(entries) - 1] = entries[Len(entries)]
      BY <1>1, <1>4, <2>5, <3>3
    <3>5. 2 <= Len(entries')
      <4>1. PICK n \in Nat : n = Len(entries)
        BY <1>2
      <4> QED BY <1>1, <1>4, <3>3, <4>1
    <3> QED BY <1>1, <2>6, <3>1, <3>2, <3>4, <3>5
  <2> QED BY <2>7, <2>9, <2>10
<1> QED BY <1>1, <1>5, <1>6, <1>7 DEF CacheInv

(* The invariant of the entries holds in every reachable state.            *)
LEMMA CacheInvariant == Spec => []CacheInv
<1>1. Init => CacheInv
  <2> SUFFICES ASSUME Init PROVE CacheInv
    OBVIOUS
  <2>1. entries = <<>> /\ used = <<>>
    BY DEF Init
  <2>2. \A S : <<>> \in Seq(S) /\ Len(<<>>) = 0
    BY EmptySeq
  <2>3. OneEntryPerStart /\ UsedLast
    BY <2>1, <2>2 DEF OneEntryPerStart, UsedLast
  <2> QED BY <2>1, <2>2, <2>3, ReuseAssumption DEF CacheInv, ReuseAssumption
<1>2. CacheInv /\ [Next]_vars => CacheInv'
  <2> SUFFICES ASSUME CacheInv, [Next]_vars PROVE CacheInv'
    OBVIOUS
  <2>1. CASE UNCHANGED <<entries, used>>
    BY <2>1 DEF CacheInv, OneEntryPerStart, UsedLast
  <2>2. ASSUME NEW m \in Models, NEW p \in Prompts, NEW n \in Limits, NEW c \in Capacities,
               CallExact(m, p, n, c) \/ CallPrefix(m, p, n, c)
        PROVE  CacheInv'
    <3>1. PICK i \in DOMAIN entries : entries' = Touch(i) /\ Use(entries[i])
      BY <2>2 DEF CallExact, CallPrefix
    <3> QED BY <3>1, HitKeeps
  <2>3. CASE Clear
    <3>1. entries' = <<>> /\ used' = <<>>
      BY <2>3 DEF Clear
    <3>2. \A S : <<>> \in Seq(S) /\ Len(<<>>) = 0
      BY EmptySeq
    <3>3. OneEntryPerStart' /\ UsedLast'
      BY <3>1, <3>2 DEF OneEntryPerStart, UsedLast
    <3> QED BY <3>1, <3>2, <3>3, ReuseAssumption DEF CacheInv, ReuseAssumption
  <2> QED BY <2>1, <2>2, <2>3, MissKeeps
          DEF Next, vars, CallUncached, DecodeSuffix, Sample, Feed, Return
<1> QED BY <1>1, <1>2, PTL DEF Spec

(* The cache never has two entries of one fingerprint that start with the  *)
(* same token, so a lookup has one best match, in every history of calls   *)
(* and for colliding fingerprints too.                                     *)
THEOREM OneEntry == Spec => []OneEntryPerStart
<1>1. CacheInv => OneEntryPerStart
  BY DEF CacheInv
<1> QED BY <1>1, CacheInvariant, PTL

(* With room for two entries the two that were used last are never         *)
(* evicted, whatever is stored and looked up in between.                   *)
THEOREM RecentKept == Spec => []RecentlyUsedKept
<1>1. CacheInv => RecentlyUsedKept
  <2> SUFFICES ASSUME CacheInv, MaxSize >= 2, NEW k \in DOMAIN used
               PROVE  \E i \in DOMAIN entries : Key(entries[i]) = used[k]
    BY DEF RecentlyUsedKept
  <2>1. /\ used \in Seq(UsedKeys) /\ Len(used) <= 2 /\ Len(used) <= Len(entries)
        /\ used # <<>> => Key(entries[Len(entries)]) = used[Len(used)]
        /\ Len(used) = 2 => Key(entries[Len(entries) - 1]) = used[1]
    BY DEF CacheInv, UsedLast
  <2>2. PICK n \in Nat, u \in Nat : n = Len(entries) /\ u = Len(used)
    BY <2>1 DEF CacheInv
  <2>3. DOMAIN entries = 1..n /\ k \in 1..u /\ u <= 2 /\ u <= n
    BY <2>1, <2>2, LenProperties DEF CacheInv
  <2>4. n \in 1..n /\ (u = 2 => n - 1 \in 1..n) /\ (k = u \/ (k = 1 /\ u = 2))
    BY <2>3
  <2>5. used # <<>>
    BY <2>1, <2>2, <2>3, EmptySeq
  <2> QED BY <2>1, <2>2, <2>3, <2>4, <2>5
<1> QED BY <1>1, CacheInvariant, PTL
=============================================================================
