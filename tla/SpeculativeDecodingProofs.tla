---------------------- MODULE SpeculativeDecodingProofs ----------------------
(***************************************************************************)
(* Theorems about SpeculativeDecoding.  The committed tokens are a prefix  *)
(* of the verifier's, and those are greedy over what was committed before; *)
(* so a call with the sequential verifier and require_exact_match is a     *)
(* behavior of GreedyDecoding.                                             *)
(***************************************************************************)
EXTENDS SpeculativeDecoding, SequenceTheorems, FiniteSetTheorems, TLAPS

-----------------------------------------------------------------------------
(* Prefixes of sequences.                                                  *)

(* A prefix has its length, its type and the elements of the whole.        *)
LEMMA PrefixTyped ==
  ASSUME NEW S, NEW s \in Seq(S), NEW n \in 0..Len(s)
  PROVE  /\ SubSeq(s, 1, n) \in Seq(S) /\ Len(SubSeq(s, 1, n)) = n
         /\ \A i \in 1..n : SubSeq(s, 1, n)[i] = s[i]
<1>1. Len(s) \in Nat /\ n \in Int /\ 1..n \subseteq 1..Len(s)
  OBVIOUS
<1>2. \A i \in 1..n : s[i] \in S
  BY <1>1, ElementOfSeq
<1>3. /\ SubSeq(s, 1, n) \in Seq(S)
      /\ Len(SubSeq(s, 1, n)) = IF 1 <= n THEN n - 1 + 1 ELSE 0
      /\ \A i \in 1..n - 1 + 1 : SubSeq(s, 1, n)[i] = s[1 + i - 1]
  BY <1>1, <1>2, SubSeqProperties
<1> QED BY <1>1, <1>3

(* What Append leaves of a sequence.                                       *)
LEMMA PrefixOfAppend ==
  ASSUME NEW S, NEW s \in Seq(S), NEW t \in S, NEW n \in 0..Len(s)
  PROVE  SubSeq(Append(s, t), 1, n) = SubSeq(s, 1, n)
<1> DEFINE u == Append(s, t)
<1>1. u \in Seq(S) /\ Len(u) = Len(s) + 1 /\ \A i \in 1..Len(s) : u[i] = s[i]
  BY AppendProperties
<1> HIDE DEF u
<1>2. n \in 0..Len(u) /\ \A i \in 1..n : i \in 1..Len(s)
  BY <1>1
<1>3. /\ SubSeq(u, 1, n) \in Seq(S) /\ Len(SubSeq(u, 1, n)) = n
      /\ \A i \in 1..n : SubSeq(u, 1, n)[i] = u[i]
  BY <1>1, <1>2, PrefixTyped
<1>4. /\ SubSeq(s, 1, n) \in Seq(S) /\ Len(SubSeq(s, 1, n)) = n
      /\ \A i \in 1..n : SubSeq(s, 1, n)[i] = s[i]
  BY PrefixTyped
<1>5. SubSeq(u, 1, n) = SubSeq(s, 1, n)
  BY <1>1, <1>2, <1>3, <1>4, SeqEqual
<1> QED BY <1>5 DEF u

(* Appending to s a prefix of t makes a prefix of s \o t.                  *)
LEMMA PrefixOfConcat ==
  ASSUME NEW S, NEW s \in Seq(S), NEW t \in Seq(S), NEW c \in Seq(S),
         Len(c) <= Len(t), \A i \in 1..Len(c) : c[i] = t[i],
         NEW k \in 0..Len(c)
  PROVE  SubSeq(s \o c, 1, Len(s) + k) = s \o SubSeq(t, 1, k)
<1>1. /\ s \o c \in Seq(S) /\ Len(s \o c) = Len(s) + Len(c)
      /\ \A i \in 1..Len(s) + Len(c) :
           (s \o c)[i] = IF i <= Len(s) THEN s[i] ELSE c[i - Len(s)]
  BY ConcatProperties
<1>2. Len(s) \in Nat /\ Len(c) \in Nat /\ Len(t) \in Nat
  OBVIOUS
<1>3. /\ SubSeq(s \o c, 1, Len(s) + k) \in Seq(S)
      /\ Len(SubSeq(s \o c, 1, Len(s) + k)) = Len(s) + k
      /\ \A i \in 1..Len(s) + k : SubSeq(s \o c, 1, Len(s) + k)[i] = (s \o c)[i]
  <2>1. \A i \in 1..Len(s) + k : (s \o c)[i] \in S
    BY <1>1, <1>2, ElementOfSeq
  <2> QED BY <1>2, <2>1, SubSeqProperties
<1>4. /\ SubSeq(t, 1, k) \in Seq(S) /\ Len(SubSeq(t, 1, k)) = k
      /\ \A i \in 1..k : SubSeq(t, 1, k)[i] = t[i]
  <2>1. \A i \in 1..k : t[i] \in S
    BY <1>2, ElementOfSeq
  <2> QED BY <1>2, <2>1, SubSeqProperties
<1>5. /\ s \o SubSeq(t, 1, k) \in Seq(S) /\ Len(s \o SubSeq(t, 1, k)) = Len(s) + k
      /\ \A i \in 1..Len(s) + k : (s \o SubSeq(t, 1, k))[i] =
           IF i <= Len(s) THEN s[i] ELSE SubSeq(t, 1, k)[i - Len(s)]
  <2> DEFINE u == SubSeq(t, 1, k)
  <2>1. u \in Seq(S) /\ Len(u) = k
    BY <1>4
  <2> HIDE DEF u
  <2>2. /\ s \o u \in Seq(S) /\ Len(s \o u) = Len(s) + Len(u)
        /\ \A i \in 1..Len(s) + Len(u) : (s \o u)[i] =
             IF i <= Len(s) THEN s[i] ELSE u[i - Len(s)]
    BY <2>1, ConcatProperties
  <2> QED BY <2>1, <2>2 DEF u
<1>6. ASSUME NEW i \in 1..Len(s) + k
      PROVE  SubSeq(s \o c, 1, Len(s) + k)[i] = (s \o SubSeq(t, 1, k))[i]
  <2>1. CASE i <= Len(s)
    BY <1>1, <1>2, <1>3, <1>5, <2>1
  <2>2. CASE i > Len(s)
    <3>1. i - Len(s) \in 1..k /\ i - Len(s) \in 1..Len(c)
      BY <1>2, <2>2
    <3>2. c[i - Len(s)] = t[i - Len(s)]
      BY <3>1
    <3> QED BY <1>1, <1>2, <1>3, <1>4, <1>5, <2>2, <3>1, <3>2
  <2> QED BY <1>2, <2>1, <2>2
<1> QED BY <1>3, <1>5, <1>6, SeqEqual

-----------------------------------------------------------------------------
(* What a step commits.                                                    *)

(* Cutting a sequence to a budget keeps its type and its elements.         *)
LEMMA AtMostTyped ==
  ASSUME NEW S, NEW s \in Seq(S), NEW n \in Nat
  PROVE  /\ AtMost(s, n) \in Seq(S)
         /\ Len(AtMost(s, n)) = IF Len(s) < n THEN Len(s) ELSE n
         /\ \A i \in 1..Len(AtMost(s, n)) : AtMost(s, n)[i] = s[i]
<1> DEFINE k == IF Len(s) < n THEN Len(s) ELSE n
<1>1. k \in 0..Len(s)
  OBVIOUS
<1> HIDE DEF k
<1>2. /\ SubSeq(s, 1, k) \in Seq(S) /\ Len(SubSeq(s, 1, k)) = k
      /\ \A i \in 1..k : SubSeq(s, 1, k)[i] = s[i]
  BY <1>1, PrefixTyped
<1> QED BY <1>2 DEF AtMost, k

InCall == pc # "idle" /\ TypeOK /\ CallShape

(* What the invariant says of a call that is running, in the form the      *)
(* steps use.                                                              *)
LEMMA JobFacts ==
  ASSUME InCall
  PROVE  /\ job \in Job /\ job.model = model /\ model \in Models
         /\ job.prompt \in Seq(Tokens) /\ Len(job.prompt) \in Nat \ {0}
         /\ job.limit \in Nat \ {0}
         /\ ids \in Seq(Tokens) /\ Len(ids) \in Nat \ {0} /\ ids # <<>>
         /\ Remaining \in Nat
         /\ config \in Config
         /\ proposal \in Seq(Tokens) /\ Len(proposal) \in Nat
         /\ target \in Seq(Tokens) /\ Len(target) \in Nat
         /\ Len(target) <= Len(proposal)
<1>1. job \in Job /\ job.model = model /\ model \in Models
  BY DEF InCall, TypeOK
<1>2. job.prompt \in Prompts /\ job.limit \in Limits
  BY <1>1 DEF Job
<1>3. job.prompt \in Seq(Tokens) \ {<<>>} /\ job.limit \in Nat \ {0}
  BY <1>2, SpeculativeAssumption DEF SpeculativeAssumption
<1>4. Len(job.prompt) \in Nat \ {0}
  BY <1>3, EmptySeq
<1>5. ids \in Seq(Tokens) /\ Len(ids) \in Nat /\ Len(job.prompt) <= Len(ids) /\ Remaining >= 0
  BY DEF InCall, TypeOK, CallShape
<1>6. Remaining \in Nat
  BY <1>3, <1>4, <1>5 DEF Remaining
<1>7. Len(ids) \in Nat \ {0} /\ ids # <<>>
  BY <1>4, <1>5
<1> QED BY <1>1, <1>3, <1>4, <1>5, <1>6, <1>7 DEF InCall, TypeOK

(* The tokens a mask keeps form a sequence of tokens, not empty when the   *)
(* mask is not.                                                            *)
LEMMA MaskKept ==
  ASSUME NEW s \in Seq(Tokens), NEW mask \in SUBSET DOMAIN s, NEW f \in InOrder(mask)
  PROVE  /\ [k \in DOMAIN f |-> s[f[k]]] \in Seq(Tokens)
         /\ mask # {} => Len([k \in DOMAIN f |-> s[f[k]]]) >= 1
<1>1. DOMAIN s = 1..Len(s) /\ Len(s) \in Nat
  OBVIOUS
<1>2. IsFiniteSet(mask)
  <2>1. IsFiniteSet(1..Len(s))
    BY <1>1, FS_Interval
  <2> QED BY <1>1, <2>1, FS_Subset
<1> DEFINE n == Cardinality(mask)
<1>3. n \in Nat /\ (mask # {} => n # 0)
  BY <1>2, FS_CardinalityType, FS_EmptySet
<1>4. f \in [1..n -> mask]
  BY DEF InOrder
<1> HIDE DEF n
<1>5. \A k \in 1..n : s[f[k]] \in Tokens
  <2> TAKE k \in 1..n
  <2>1. f[k] \in 1..Len(s)
    BY <1>1, <1>4
  <2> QED BY <2>1, ElementOfSeq
<1>6. DOMAIN f = 1..n
  BY <1>4
<1>7. [k \in DOMAIN f |-> s[f[k]]] \in [1..n -> Tokens]
  BY <1>5, <1>6
<1> DEFINE g == [k \in DOMAIN f |-> s[f[k]]]
<1> HIDE DEF g
<1>8. g \in Seq(Tokens) /\ Len(g) = n
  BY <1>3, <1>7 DEF g
<1> QED BY <1>3, <1>8 DEF g

(* What is accepted are tokens; with exact matching they are the target's  *)
(* first a tokens.                                                         *)
LEMMA KeptTyped ==
  ASSUME InCall, NEW a, AcceptedCount(a), NEW kept \in Kept(a)
  PROVE  /\ a \in Nat /\ a <= Len(target) /\ a <= Len(proposal)
         /\ kept \in Seq(Tokens)
         /\ a >= 1 => Len(kept) >= 1
         /\ config.exact =>
              Len(kept) = a /\ \A i \in 1..a : kept[i] = target[i]
<1> USE JobFacts
<1>1. a \in Nat /\ a <= Len(proposal) /\ \A i \in 1..a : Matches(i)
  BY DEF AcceptedCount
<1>2. a <= Len(target) /\ \A i \in 1..a : proposal[i] = target[i]
  BY <1>1 DEF Matches
<1>3. CASE config.exact \/ config.verifier = "parallel"
  <2>1. kept = SubSeq(proposal, 1, a)
    BY <1>3 DEF Kept
  <2>2. /\ kept \in Seq(Tokens) /\ Len(kept) = a
        /\ \A i \in 1..a : kept[i] = proposal[i]
    <3>1. proposal \in Seq(Tokens) /\ a \in 0..Len(proposal)
      BY <1>1
    <3> QED BY <2>1, <3>1, PrefixTyped
  <2> QED BY <1>1, <1>2, <2>2
<1>4. CASE ~(config.exact \/ config.verifier = "parallel")
  <2> DEFINE mask == {i \in DOMAIN proposal : Matches(i)}
  <2>1. PICK f \in InOrder(mask) : kept = [k \in DOMAIN f |-> proposal[f[k]]]
    BY <1>4 DEF Kept
  <2>2. a >= 1 => mask # {}
    <3>1. a >= 1 => 1 \in DOMAIN proposal /\ Matches(1)
      BY <1>1
    <3> QED BY <3>1
  <2>3. mask \in SUBSET DOMAIN proposal
    OBVIOUS
  <2> HIDE DEF mask
  <2>4. kept \in Seq(Tokens) /\ (mask # {} => Len(kept) >= 1)
    BY <2>1, <2>3, MaskKept
  <2> QED BY <1>1, <1>2, <1>4, <2>2, <2>4
<1> QED BY <1>3, <1>4

(* A commit adds at least one token, never more than remain, and with      *)
(* exact matching only the target's, in order: an accepted prefix and its  *)
(* replacement are a prefix of the target's tokens.                        *)
LEMMA CommitFacts ==
  ASSUME InCall, pc = "commit", NEW a, AcceptedCount(a), NEW kept \in Kept(a)
  PROVE  LET c == AtMost(kept \o Replacement(a), Remaining)
         IN  /\ c \in Seq(Tokens)
             /\ Len(c) \in 1..Remaining
             /\ config.exact =>
                  Len(c) <= Len(target) /\ \A i \in 1..Len(c) : c[i] = target[i]
<1> USE JobFacts
<1> DEFINE r == Replacement(a)
           all == kept \o r
           c == AtMost(all, Remaining)
<1>1. /\ a \in Nat /\ a <= Len(target) /\ a <= Len(proposal)
      /\ kept \in Seq(Tokens)
      /\ a >= 1 => Len(kept) >= 1
      /\ config.exact => Len(kept) = a /\ \A i \in 1..a : kept[i] = target[i]
  BY KeptTyped
<1>2. Remaining >= 1 /\ Len(target) >= 1 /\ Len(proposal) >= 1
  <2>1. Remaining > 0 /\ target # <<>>
    BY DEF InCall, CallShape
  <2>2. Len(target) # 0
    BY <2>1, EmptySeq
  <2> QED BY <2>1, <2>2
<1>3. /\ r \in Seq(Tokens) /\ (Len(r) = 0 \/ Len(r) = 1)
      /\ a = 0 => Len(r) = 1
      /\ Len(r) = 1 => a < Len(target) /\ r[1] = target[a + 1]
  <2>1. CASE a < Len(proposal) /\ a < Len(target)
    <3>1. r = <<target[a + 1]>>
      BY <2>1 DEF Replacement
    <3>2. target[a + 1] \in Tokens
      <4>1. a + 1 \in 1..Len(target)
        BY <1>1, <2>1
      <4> QED BY <4>1, ElementOfSeq
    <3> HIDE DEF r
    <3> QED BY <2>1, <3>1, <3>2
  <2>2. CASE ~(a < Len(proposal) /\ a < Len(target))
    <3>1. r = <<>>
      BY <2>2 DEF Replacement
    <3> HIDE DEF r
    <3> QED BY <1>1, <1>2, <2>2, <3>1, EmptySeq
  <2> QED BY <2>1, <2>2
<1> HIDE DEF r
<1>4. /\ all \in Seq(Tokens) /\ Len(all) = Len(kept) + Len(r)
      /\ \A i \in 1..Len(kept) + Len(r) :
           all[i] = IF i <= Len(kept) THEN kept[i] ELSE r[i - Len(kept)]
  BY <1>1, <1>3, ConcatProperties
<1> HIDE DEF all
<1>5. /\ c \in Seq(Tokens)
      /\ Len(c) = IF Len(all) < Remaining THEN Len(all) ELSE Remaining
      /\ \A i \in 1..Len(c) : c[i] = all[i]
  BY <1>4, AtMostTyped
<1> HIDE DEF c
<1>6. Len(all) \in Nat /\ Len(all) >= 1
  BY <1>1, <1>3, <1>4
<1>7. Len(c) \in 1..Remaining /\ Len(c) <= Len(all)
  BY <1>2, <1>5, <1>6
<1>8. ASSUME config.exact
      PROVE  Len(c) <= Len(target) /\ \A i \in 1..Len(c) : c[i] = target[i]
  <2>1. Len(kept) = a /\ \A i \in 1..a : kept[i] = target[i]
    BY <1>1, <1>8
  <2>0. /\ a \in Nat /\ a <= Len(target) /\ Len(target) \in Nat
        /\ Len(all) = a + Len(r)
    BY <1>1, <1>4, <2>1
  <2>2. Len(all) <= Len(target)
    <3>1. CASE Len(r) = 0
      BY <2>0, <3>1
    <3>2. CASE Len(r) = 1
      BY <1>3, <2>0, <3>2
    <3> QED BY <1>3, <3>1, <3>2
  <2>3. ASSUME NEW i \in 1..Len(c) PROVE c[i] = target[i]
    <3>1. i \in 1..a + Len(r) /\ c[i] = all[i]
      BY <1>4, <1>5, <1>7, <2>1
    <3>0. i \in Nat \ {0} /\ i <= a + Len(r)
      BY <1>3, <2>0, <3>1
    <3>2. CASE i <= a
      <4>1. all[i] = kept[i] /\ i \in 1..a
        BY <1>4, <2>0, <2>1, <3>0, <3>1, <3>2
      <4> QED BY <2>1, <3>1, <4>1
    <3>3. CASE i > a
      <4>1. Len(r) = 1 /\ i = a + 1
        <5>1. CASE Len(r) = 0
          BY <2>0, <3>0, <3>3, <5>1
        <5>2. CASE Len(r) = 1
          BY <2>0, <3>0, <3>3, <5>2
        <5> QED BY <1>3, <5>1, <5>2
      <4>2. all[i] = r[1]
        BY <1>1, <1>4, <2>1, <3>1, <4>1
      <4> QED BY <1>3, <3>1, <4>1, <4>2
    <3> QED BY <2>0, <3>0, <3>2, <3>3
  <2> QED BY <1>6, <1>7, <2>2, <2>3
<1> QED BY <1>5, <1>7, <1>8 DEF c, all, r

-----------------------------------------------------------------------------
(* The invariant.                                                          *)

IndInv == TypeOK /\ CallShape /\ TargetIsGreedy

(* A choice of the model after the committed tokens and some more.         *)
LEMMA ChoiceTyped ==
  ASSUME PredictTotal, InCall, NEW s \in Seq(Tokens)
  PROVE  Predict(model, ids \o s) \in Tokens
<1>1. ids \in Seq(Tokens) /\ ids # <<>> /\ model \in Models
  BY JobFacts
<1>2. ids \o s \in Seq(Tokens) /\ ids \o s # <<>>
  BY <1>1, ConcatProperties, ConcatEqualIffEmpty
<1> QED BY <1>1, <1>2 DEF PredictTotal

(* The invariant holds before the first call.                              *)
LEMMA Initial == Init => IndInv
<1> SUFFICES ASSUME Init PROVE IndInv
  OBVIOUS
<1>1. <<>> \in Seq(Tokens) /\ Len(<<>>) = 0
  BY EmptySeq
<1>2. DraftLength \in Nat
  BY SpeculativeAssumption DEF SpeculativeAssumption
<1>3. TypeOK
  BY <1>1, <1>2 DEF Init, TypeOK
<1>4. CallShape /\ TargetIsGreedy
  BY <1>1 DEF Init, CallShape, TargetIsGreedy
<1> QED BY <1>3, <1>4 DEF IndInv

(* draft_k is positive and at most draft_length.                           *)
LEMMA DraftBounds ==
  ASSUME InCall, pc = "draft"
  PROVE  /\ DraftTokens \in Nat \ {0} /\ DraftTokens <= DraftLength
         /\ Len(proposal) <= DraftTokens /\ DraftLength \in Nat
<1>1. DraftLength \in Nat \ {0}
  BY SpeculativeAssumption DEF SpeculativeAssumption
<1>2. Remaining \in Nat /\ Remaining > 0 /\ Len(proposal) <= DraftTokens
  BY JobFacts DEF InCall, CallShape
<1> QED BY <1>1, <1>2 DEF DraftTokens

(* A token t is drafted.                                                   *)
LEMMA DraftToken ==
  ASSUME IndInv, pc = "draft", NEW t \in Tokens,
         Len(proposal) # DraftTokens,
         proposal' = Append(proposal, t),
         held' \in Seq(Tokens) \cup {NoState},
         UNCHANGED <<model, config, job, ids, target, pc>>
  PROVE  IndInv'
<1>1. InCall
  BY DEF InCall, IndInv
<1>2. /\ DraftTokens \in Nat /\ DraftTokens <= DraftLength
      /\ Len(proposal) <= DraftTokens /\ DraftLength \in Nat
  BY <1>1, DraftBounds
<1>3. proposal \in Seq(Tokens) /\ Len(proposal) \in Nat
  BY <1>1, JobFacts
<1>4. /\ proposal' \in Seq(Tokens) /\ proposal' # <<>>
      /\ Len(proposal') = Len(proposal) + 1
  BY <1>3, AppendProperties
<1>5. target = <<>> /\ Len(target) = 0
  BY EmptySeq DEF IndInv, CallShape
<1>6. TypeOK'
  BY <1>2, <1>3, <1>4, <1>5 DEF IndInv, TypeOK
<1>7. Remaining' = Remaining /\ DraftTokens' = DraftTokens
  BY DEF Remaining, DraftTokens
<1>8. CallShape'
  BY <1>2, <1>3, <1>4, <1>7 DEF IndInv, CallShape
<1>9. TargetIsGreedy'
  BY DEF IndInv, TargetIsGreedy
<1> QED BY <1>6, <1>8, <1>9 DEF IndInv

(* A drafter's step keeps the invariant.                                   *)
LEMMA DraftStep ==
  ASSUME PredictTotal, IndInv,
         DraftSelf \/ DraftFixed \/ (\E t \in Tokens : DraftRandom(t))
  PROVE  IndInv'
<1>1. pc = "draft" /\ InCall
  BY DEF InCall, IndInv, DraftSelf, DraftFixed, DraftRandom
<1>2. /\ ids \in Seq(Tokens) /\ proposal \in Seq(Tokens) /\ config \in Config
      /\ Len(proposal) \in Nat
  BY <1>1, JobFacts
<1>3. held \in Seq(Tokens) \cup {NoState}
  BY DEF IndInv, TypeOK
<1>4. DraftTokens \in Nat /\ Len(proposal) <= DraftTokens
  BY <1>1, DraftBounds
<1>5. CASE DraftSelf
  <2>1. Predict(model, ids \o proposal) \in Tokens
    BY <1>1, <1>2, ChoiceTyped
  <2> QED BY <1>1, <1>2, <1>5, <2>1, DraftToken DEF DraftSelf, Generated
<1>6. CASE DraftFixed
  <2>1. config.fixed \in Seq(Tokens)
    BY <1>2, SpeculativeAssumption DEF Config, SpeculativeAssumption
  <2>2. Len(proposal) + 1 \in 1..Len(config.fixed)
    BY <1>2, <1>6, <2>1 DEF DraftFixed
  <2>3. config.fixed[Len(proposal) + 1] \in Tokens
    BY <2>1, <2>2, ElementOfSeq
  <2> QED BY <1>1, <1>2, <1>3, <1>4, <1>6, <2>3, DraftToken DEF DraftFixed
<1>7. CASE \E t \in Tokens : DraftRandom(t)
  BY <1>1, <1>2, <1>3, <1>4, <1>7, DraftToken DEF DraftRandom
<1> QED BY <1>5, <1>6, <1>7

(* A token t of the target is found.                                       *)
LEMMA TargetToken ==
  ASSUME IndInv, pc = "verify", NEW t \in Tokens,
         Len(target) < Len(proposal),
         config.verifier = "sequential" => t = Predict(model, ids \o target),
         target' = Append(target, t),
         held' \in Seq(Tokens) \cup {NoState},
         UNCHANGED <<model, config, job, ids, proposal, pc>>
  PROVE  IndInv'
<1>1. InCall
  BY DEF InCall, IndInv
<1>2. /\ target \in Seq(Tokens) /\ Len(target) \in Nat
      /\ proposal \in Seq(Tokens) /\ Len(proposal) \in Nat
  BY <1>1, JobFacts
<1>3. /\ target' \in Seq(Tokens) /\ Len(target') = Len(target) + 1
      /\ \A i \in 1..Len(target) : target'[i] = target[i]
      /\ target'[Len(target) + 1] = t
  BY <1>2, AppendProperties
<1>4. TypeOK'
  BY <1>2, <1>3 DEF IndInv, TypeOK
<1>5. Remaining' = Remaining
  BY DEF Remaining
<1>6. CallShape'
  BY <1>5 DEF IndInv, CallShape
<1>7. ASSUME config.verifier = "sequential", NEW i \in 1..Len(target')
      PROVE  target'[i] = Predict(model, ids \o SubSeq(target', 1, i-1))
  <2>1. /\ SubSeq(target', 1, i-1) \in Seq(Tokens) /\ Len(SubSeq(target', 1, i-1)) = i-1
        /\ \A j \in 1..i-1 : SubSeq(target', 1, i-1)[j] = target'[j]
    <3>1. i-1 \in 0..Len(target')
      BY <1>2, <1>3
    <3> QED BY <1>3, <3>1, PrefixTyped
  <2>2. /\ SubSeq(target, 1, i-1) \in Seq(Tokens) /\ Len(SubSeq(target, 1, i-1)) = i-1
        /\ \A j \in 1..i-1 : SubSeq(target, 1, i-1)[j] = target[j]
    <3>1. i-1 \in 0..Len(target)
      BY <1>2, <1>3
    <3> QED BY <1>2, <3>1, PrefixTyped
  <2>3. i - 1 \in Nat /\ \A j \in 1..i-1 : j \in 1..Len(target)
    BY <1>2, <1>3
  <2>4. SubSeq(target', 1, i-1) = SubSeq(target, 1, i-1)
    <3>1. \A j \in 1..i-1 : SubSeq(target', 1, i-1)[j] = SubSeq(target, 1, i-1)[j]
      BY <1>3, <2>1, <2>2, <2>3
    <3> QED BY <2>1, <2>2, <3>1, SeqEqual
  <2>5. CASE i \in 1..Len(target)
    <3>1. target[i] = Predict(model, ids \o SubSeq(target, 1, i-1))
      BY <1>1, <1>7, <2>5 DEF IndInv, TargetIsGreedy, InCall
    <3> QED BY <1>3, <2>4, <2>5, <3>1
  <2>6. CASE i = Len(target) + 1
    <3>1. SubSeq(target, 1, i-1) = target
      BY <1>2, <2>6, SubSeqFull
    <3> QED BY <1>3, <1>7, <2>4, <2>6, <3>1
  <2> QED BY <1>2, <1>3, <2>5, <2>6
<1>8. TargetIsGreedy'
  BY <1>7 DEF TargetIsGreedy
<1> QED BY <1>4, <1>6, <1>8 DEF IndInv

(* A verifier's step keeps the invariant.                                  *)
LEMMA VerifyStep ==
  ASSUME PredictTotal, IndInv, VerifySequential \/ VerifyParallel
  PROVE  IndInv'
<1>1. pc = "verify" /\ InCall
  BY DEF InCall, IndInv, VerifySequential, VerifyParallel
<1>2. /\ ids \in Seq(Tokens) /\ target \in Seq(Tokens) /\ Len(target) \in Nat
      /\ proposal \in Seq(Tokens) /\ Len(proposal) \in Nat
      /\ Len(target) <= Len(proposal) /\ model \in Models
  BY <1>1, JobFacts
<1>3. CASE VerifySequential
  <2>1. Predict(model, ids \o target) \in Tokens
    BY <1>1, <1>2, ChoiceTyped
  <2>2. Len(target) < Len(proposal)
    BY <1>2, <1>3 DEF VerifySequential, Generated
  <2> QED BY <1>1, <1>2, <1>3, <2>1, <2>2, TargetToken DEF VerifySequential
<1>4. CASE VerifyParallel
  <2> DEFINE base == IF held = NoState THEN ids ELSE held
             fed == SubSeq(proposal, 1, Len(target) + 1)
  <2>1. base \in Seq(Tokens)
    BY <1>2 DEF IndInv, TypeOK
  <2>2. fed \in Seq(Tokens) /\ Len(fed) = Len(target) + 1
    <3>1. Len(target) + 1 \in 0..Len(proposal)
      BY <1>2, <1>4 DEF VerifyParallel
    <3> QED BY <1>2, <3>1, PrefixTyped
  <2>3. target' = Append(target, Predict(model, base \o fed)) /\ held' = base
    BY <1>4 DEF VerifyParallel
  <2> HIDE DEF base, fed
  <2>4. fed # <<>>
    <3>1. Len(fed) # 0
      BY <1>2, <2>2
    <3> QED BY <3>1, EmptySeq
  <2>5. base \o fed \in Seq(Tokens) /\ base \o fed # <<>>
    BY <2>1, <2>2, <2>4, ConcatProperties, ConcatEqualIffEmpty
  <2>6. Predict(model, base \o fed) \in Tokens
    BY <1>2, <2>5 DEF PredictTotal
  <2>7. config.verifier # "sequential"
    BY <1>4 DEF VerifyParallel
  <2> QED BY <1>1, <1>2, <1>4, <2>1, <2>3, <2>6, <2>7, TargetToken DEF VerifyParallel
<1> QED BY <1>3, <1>4

(* The start of a call establishes what holds of a running one.            *)
LEMMA StartStep ==
  ASSUME IndInv, NEW p \in Prompts, NEW n \in Limits, NEW c \in Config, Start(p, n, c)
  PROVE  IndInv' /\ job' \in Job /\ Remaining' = n
<1>1. /\ p \in Seq(Tokens) /\ Len(p) \in Nat /\ n \in Nat \ {0}
  BY SpeculativeAssumption DEF SpeculativeAssumption
<1>2. DraftLength \in Nat \ {0}
  BY SpeculativeAssumption DEF SpeculativeAssumption
<1>3. /\ job' = [model |-> model, prompt |-> p, limit |-> n] /\ ids' = p
      /\ proposal' = <<>> /\ target' = <<>> /\ pc' = "draft"
  BY DEF Start, IndInv, CallShape
<1>4. job' \in Job /\ job'.model = model /\ job'.prompt = p /\ job'.limit = n
  BY <1>3 DEF IndInv, TypeOK, Job
<1>5. job' # <<>>
  <2>1. <<>> # [model |-> model, prompt |-> p, limit |-> n]
    BY SMT
  <2> QED BY <1>3, <2>1
<1>6. TypeOK'
  BY <1>1, <1>3, <1>4, <1>5 DEF IndInv, TypeOK, Start
<1>7. Remaining' = n
  BY <1>1, <1>3, <1>4 DEF Remaining
<1>8. DraftTokens' \in Nat /\ Len(proposal') = 0
  BY <1>1, <1>2, <1>3, <1>7 DEF DraftTokens
<1>9. CallShape'
  BY <1>1, <1>3, <1>4, <1>7, <1>8 DEF CallShape
<1>10. TargetIsGreedy'
  BY <1>3, EmptySeq DEF TargetIsGreedy
<1> QED BY <1>4, <1>6, <1>7, <1>9, <1>10 DEF IndInv

(* A finished proposal keeps the invariant.                                *)
LEMMA ProposeStep ==
  ASSUME IndInv, Propose
  PROVE  IndInv'
<1>1. InCall /\ pc = "draft" /\ Remaining' = Remaining
  BY DEF InCall, IndInv, Propose, Remaining
<1>2. TypeOK' /\ TargetIsGreedy'
  BY DEF IndInv, TypeOK, TargetIsGreedy, Propose
<1>3. CallShape'
  BY <1>1, JobFacts DEF IndInv, CallShape, Propose
<1> QED BY <1>2, <1>3 DEF IndInv

(* A finished verification keeps the invariant.                            *)
LEMMA VerifiedStep ==
  ASSUME IndInv, Verified
  PROVE  IndInv'
<1>1. InCall /\ pc = "verify" /\ Remaining' = Remaining
  BY DEF InCall, IndInv, Verified, Remaining
<1>2. TypeOK' /\ TargetIsGreedy'
  BY DEF IndInv, TypeOK, TargetIsGreedy, Verified
<1>3. target # <<>>
  <2>1. proposal # <<>> /\ proposal \in Seq(Tokens)
    BY <1>1, JobFacts DEF InCall, CallShape
  <2>2. Len(proposal) # 0
    BY <2>1, EmptySeq
  <2>3. CASE Len(target) = Len(proposal)
    BY <2>2, <2>3, EmptySeq
  <2>4. CASE Len(target) # Len(proposal)
    BY <2>4 DEF Verified, Generated
  <2> QED BY <2>3, <2>4
<1>4. CallShape'
  BY <1>1, <1>3 DEF IndInv, CallShape, Verified
<1> QED BY <1>2, <1>4 DEF IndInv

(* What Commit appends, for every way of keeping tokens.                   *)
LEMMA CommitAppends ==
  ASSUME IndInv, NEW a \in 0..DraftLength, Commit(a)
  PROVE  \E c \in Seq(Tokens) :
           /\ ids' = ids \o c
           /\ ids' \in Seq(Tokens) /\ Len(ids') = Len(ids) + Len(c)
           /\ Len(c) \in 1..Remaining
           /\ config.exact =>
                Len(c) <= Len(target) /\ \A i \in 1..Len(c) : c[i] = target[i]
<1>1. InCall /\ pc = "commit" /\ AcceptedCount(a)
  BY DEF InCall, IndInv, Commit
<1>2. PICK kept \in Kept(a) : ids' = ids \o AtMost(kept \o Replacement(a), Remaining)
  BY DEF Commit
<1> DEFINE c == AtMost(kept \o Replacement(a), Remaining)
<1>3. /\ c \in Seq(Tokens) /\ Len(c) \in 1..Remaining
      /\ config.exact => Len(c) <= Len(target) /\ \A i \in 1..Len(c) : c[i] = target[i]
  BY <1>1, CommitFacts
<1>4. ids' = ids \o c
  BY <1>2
<1> HIDE DEF c
<1>5. ids \in Seq(Tokens)
  BY <1>1, JobFacts
<1>6. ids' \in Seq(Tokens) /\ Len(ids') = Len(ids) + Len(c)
  BY <1>3, <1>4, <1>5, ConcatProperties
<1> QED BY <1>3, <1>4, <1>6

(* A commit keeps the invariant and makes progress within max_new_tokens.  *)
LEMMA CommitStep ==
  ASSUME IndInv, NEW a \in 0..DraftLength, Commit(a)
  PROVE  /\ IndInv'
         /\ Len(ids) < Len(ids') /\ Len(ids') <= Len(job.prompt) + job.limit
<1>1. InCall /\ pc = "commit"
  BY DEF InCall, IndInv, Commit
<1>2. PICK c \in Seq(Tokens) : /\ ids' \in Seq(Tokens) /\ Len(ids') = Len(ids) + Len(c)
                              /\ Len(c) \in 1..Remaining
  BY CommitAppends
<1>3. /\ Len(job.prompt) \in Nat /\ job.limit \in Nat /\ Len(ids) \in Nat
      /\ Len(job.prompt) <= Len(ids)
      /\ Remaining \in Nat
  BY <1>1, JobFacts DEF InCall, CallShape
<1>4. /\ Len(ids') \in Nat /\ Len(ids) < Len(ids')
      /\ Len(ids') <= Len(job.prompt) + job.limit
  BY <1>2, <1>3 DEF Remaining
<1>5. /\ proposal' = <<>> /\ target' = <<>> /\ job' = job /\ model' = model
      /\ config' = config /\ held' = held
      /\ pc' = IF Len(ids') - Len(job.prompt) < job.limit THEN "draft" ELSE "done"
  BY DEF Commit
<1>6. DraftLength \in Nat \ {0}
  BY SpeculativeAssumption DEF SpeculativeAssumption
<1>7. <<>> \in Seq(Tokens) /\ Len(<<>>) = 0
  BY EmptySeq
<1>8. TypeOK'
  BY <1>1, <1>2, <1>5, <1>6, <1>7 DEF IndInv, TypeOK
<1>9. Remaining' = job.limit - (Len(ids') - Len(job.prompt))
  BY <1>5 DEF Remaining
<1>10. Remaining' \in Nat /\ (pc' = "draft" => Remaining' > 0)
  BY <1>3, <1>4, <1>5, <1>9
<1>11. pc' = "draft" => DraftTokens' \in Nat
  BY <1>6, <1>10 DEF DraftTokens
<1>12. CallShape'
  BY <1>3, <1>4, <1>5, <1>7, <1>10, <1>11 DEF CallShape
<1>13. TargetIsGreedy'
  BY <1>5, <1>7 DEF TargetIsGreedy
<1> QED BY <1>4, <1>8, <1>12, <1>13 DEF IndInv

(* The return of a call keeps the invariant.                               *)
LEMMA ReturnStep ==
  ASSUME IndInv, Return
  PROVE  IndInv'
<1>1. <<>> \in Seq(Tokens)
  BY EmptySeq
<1>2. TypeOK'
  BY <1>1 DEF IndInv, TypeOK, Return
<1>3. CallShape' /\ TargetIsGreedy'
  BY DEF IndInv, CallShape, TargetIsGreedy, Return
<1> QED BY <1>2, <1>3 DEF IndInv

(* The invariant is inductive.                                             *)
LEMMA Invariance ==
  ASSUME PredictTotal, IndInv, [Next]_vars
  PROVE  IndInv'
<1>1. CASE Step
  BY <1>1, DraftStep, ProposeStep, VerifyStep, VerifiedStep, CommitStep, ReturnStep DEF Step
<1>2. CASE \E p \in Prompts, n \in Limits, c \in Config : Start(p, n, c)
  BY <1>2, StartStep
<1>3. CASE UNCHANGED vars
  BY <1>3 DEF vars, IndInv, TypeOK, CallShape, TargetIsGreedy, Remaining, DraftTokens
<1> QED BY <1>1, <1>2, <1>3 DEF Next

(* The invariant holds in every reachable state.                           *)
LEMMA Inductive == PredictTotal => (Spec => []IndInv)
<1> SUFFICES ASSUME PredictTotal PROVE Spec => []IndInv
  OBVIOUS
<1>1. Init => IndInv
  BY Initial
<1>2. IndInv /\ [Next]_vars => IndInv'
  BY Invariance
<1> QED BY <1>1, <1>2, PTL DEF Spec

-----------------------------------------------------------------------------
(* Theorems.                                                               *)

(* Type correctness, whatever the drafter proposes.                        *)
THEOREM TypeCorrect == PredictTotal => (Spec => []TypeOK)
<1> SUFFICES ASSUME PredictTotal PROVE Spec => []TypeOK
  OBVIOUS
<1>1. IndInv => TypeOK
  BY DEF IndInv
<1> QED BY <1>1, Inductive, PTL

(* No verification ends without a token for the caller, or with too many.  *)
THEOREM Progress == PredictTotal => (Spec => EveryStepCommits)
<1> SUFFICES ASSUME PredictTotal PROVE Spec => EveryStepCommits
  OBVIOUS
<1> DEFINE Commits == pc = "commit" /\ pc' # "commit" =>
              Len(ids) < Len(ids') /\ Len(ids') <= Len(job.prompt) + job.limit
<1>1. IndInv /\ [Next]_vars => [Commits]_vars
  <2> SUFFICES ASSUME IndInv, Next, pc = "commit" PROVE Commits
    BY DEF vars
  <2>1. PICK a \in 0..DraftLength : Commit(a)
    BY DEF Next, Step, Start, DraftSelf, DraftFixed, DraftRandom, Propose, VerifySequential,
           VerifyParallel, Verified, Return
  <2> QED BY <2>1, CommitStep
<1>2. Spec => []IndInv
  BY Inductive
<1>3. Spec => [][Commits]_vars
  BY <1>1, <1>2, PTL DEF Spec
<1> QED BY <1>3 DEF EveryStepCommits

(* A commit of an exact call extends the ids by greedy choices.            *)
LEMMA CommitExtends ==
  ASSUME IndInv, NEW a \in 0..DraftLength, Commit(a), Exactly
  PROVE  Greedy!Extend
<1>1. InCall /\ pc = "commit"
  BY DEF InCall, IndInv, Commit
<1>2. /\ job \in Job /\ job.model = model /\ ids \in Seq(Tokens) /\ Len(ids) \in Nat \ {0}
      /\ target \in Seq(Tokens) /\ Len(target) \in Nat
  BY <1>1, JobFacts
<1>3. config' = config /\ job' = job
  BY DEF Commit
<1>4. /\ Promised = job /\ Promised' = job
      /\ PromisedIds = ids /\ PromisedIds' = ids'
  BY <1>3 DEF Promised, PromisedIds, Exactly
<1>5. config.exact /\ config.verifier = "sequential"
  BY DEF Exactly
<1>6. PICK c \in Seq(Tokens) :
        /\ ids' = ids \o c
        /\ ids' \in Seq(Tokens) /\ Len(ids') = Len(ids) + Len(c)
        /\ Len(c) \in 1..Remaining
        /\ Len(c) <= Len(target) /\ \A i \in 1..Len(c) : c[i] = target[i]
  BY <1>5, CommitAppends
<1>7. Len(ids) < Len(ids') /\ Len(ids') <= Len(job.prompt) + job.limit
  BY CommitStep
<1>8. ids = SubSeq(ids', 1, Len(ids))
  <2>1. /\ SubSeq(ids', 1, Len(ids)) \in Seq(Tokens)
        /\ Len(SubSeq(ids', 1, Len(ids))) = Len(ids)
        /\ \A i \in 1..Len(ids) : SubSeq(ids', 1, Len(ids))[i] = ids'[i]
    <3>1. Len(ids) \in 0..Len(ids')
      BY <1>2, <1>6, <1>7
    <3> QED BY <1>6, <3>1, PrefixTyped
  <2>2. \A i \in 1..Len(ids) : ids'[i] = ids[i]
    BY <1>2, <1>6, ConcatProperties
  <2> QED BY <1>2, <2>1, <2>2, SeqEqual
<1>9. ASSUME NEW i \in Len(ids)+1..Len(ids')
      PROVE  ids'[i] = Predict(model, SubSeq(ids', 1, i-1))
  <2> DEFINE k == i - Len(ids)
  <2>1. k \in 1..Len(c) /\ k - 1 \in 0..Len(c) /\ k \in 1..Len(target)
    BY <1>2, <1>6
  <2>2. ids'[i] = c[k]
    BY <1>2, <1>6, ConcatProperties
  <2>3. c[k] = target[k]
    BY <1>6, <2>1
  <2>4. target[k] = Predict(model, ids \o SubSeq(target, 1, k-1))
    BY <1>1, <1>5, <2>1 DEF IndInv, TargetIsGreedy
  <2>5. SubSeq(ids \o c, 1, Len(ids) + (k-1)) = ids \o SubSeq(target, 1, k-1)
    BY <1>2, <1>6, <2>1, PrefixOfConcat
  <2>6. Len(ids) + (k-1) = i-1
    BY <1>2
  <2> QED BY <1>6, <2>2, <2>3, <2>4, <2>5, <2>6
<1>10. ids' \in Greedy!Prompt
  <2>1. ids' # <<>>
    BY <1>2, <1>6, <1>7, EmptySeq
  <2> QED BY <1>6, <2>1 DEF Greedy!Prompt
<1>11. job # <<>>
  BY <1>1 DEF InCall, TypeOK
<1>12. Greedy!GreedyAfter(job.model, ids', Len(ids))
  BY <1>2, <1>9 DEF Greedy!GreedyAfter
<1> QED BY <1>2, <1>4, <1>7, <1>8, <1>10, <1>11, <1>12 DEF Greedy!Extend

(* Every step maps to a step of greedy generation or a stutter.            *)
LEMMA StepRefines ==
  ASSUME PredictTotal, IndInv, [Next]_vars
  PROVE  [Greedy!Next]_<<Promised, PromisedIds>>
<1>1. ASSUME UNCHANGED <<config, job, ids>>
      PROVE  UNCHANGED <<Promised, PromisedIds>>
  BY <1>1 DEF Promised, PromisedIds, Exactly
<1>2. CASE UNCHANGED vars
  BY <1>1, <1>2 DEF vars
<1>3. ASSUME NEW p \in Prompts, NEW n \in Limits, NEW c \in Config, Start(p, n, c)
      PROVE  [Greedy!Next]_<<Promised, PromisedIds>>
  <2>1. job = <<>> /\ ids = <<>>
    BY <1>3 DEF Start, IndInv, TypeOK, CallShape
  <2>2. Promised = <<>> /\ PromisedIds = <<>>
    BY <2>1 DEF Promised, PromisedIds
  <2>3. CASE ~Exactly'
    <3>1. Promised' = <<>> /\ PromisedIds' = <<>>
      BY <2>3 DEF Promised, PromisedIds
    <3> QED BY <2>2, <3>1
  <2>4. CASE Exactly'
    <3>1. /\ p \in Seq(Tokens) \ {<<>>} /\ n \in Nat /\ model \in Models
      BY SpeculativeAssumption DEF SpeculativeAssumption, IndInv, TypeOK
    <3>2. Promised' = job' /\ PromisedIds' = ids'
      BY <2>4 DEF Promised, PromisedIds
    <3>3. job' = [model |-> model, prompt |-> p, limit |-> n] /\ ids' = p
      BY <1>3 DEF Start
    <3>4. job' \in Greedy!Job /\ job'.prompt = p
      BY <3>1, <3>3 DEF Greedy!Job, Greedy!Prompt
    <3>5. Greedy!Begin
      BY <2>2, <3>2, <3>3, <3>4 DEF Greedy!Begin
    <3> QED BY <3>5 DEF Greedy!Next
  <2> QED BY <2>3, <2>4
<1>4. CASE Return
  <2>1. /\ job # <<>> /\ config' = config /\ job' = <<>> /\ ids' = <<>>
    BY <1>4 DEF Return, IndInv, TypeOK
  <2>2. CASE Exactly
    <3>1. Promised = job /\ Promised' = <<>> /\ PromisedIds' = <<>>
      BY <2>1, <2>2 DEF Promised, PromisedIds
    <3>2. Greedy!End
      BY <2>1, <3>1 DEF Greedy!End
    <3> QED BY <3>2 DEF Greedy!Next
  <2>3. CASE ~Exactly
    BY <2>1, <2>3 DEF Promised, PromisedIds, Exactly
  <2> QED BY <2>2, <2>3
<1>5. ASSUME NEW a \in 0..DraftLength, Commit(a)
      PROVE  [Greedy!Next]_<<Promised, PromisedIds>>
  <2>1. CASE Exactly
    BY <1>5, <2>1, CommitExtends DEF Greedy!Next
  <2>2. CASE ~Exactly
    <3>1. config' = config
      BY <1>5 DEF Commit
    <3> QED BY <2>2, <3>1 DEF Promised, PromisedIds, Exactly
  <2> QED BY <2>1, <2>2
<1>6. CASE \/ DraftSelf \/ DraftFixed \/ (\E t \in Tokens : DraftRandom(t)) \/ Propose
           \/ VerifySequential \/ VerifyParallel \/ Verified
  <2>1. UNCHANGED <<config, job, ids>>
    BY <1>6 DEF DraftSelf, DraftFixed, DraftRandom, Propose, VerifySequential, VerifyParallel,
                Verified
  <2> QED BY <1>1, <2>1
<1> QED BY <1>2, <1>3, <1>4, <1>5, <1>6 DEF Next, Step

(* Exact speculation is greedy generation, for every model, drafter,       *)
(* draft length and prompt.                                                *)
THEOREM GreedyOutput == PredictTotal => (Spec => GreedySpec)
<1> SUFFICES ASSUME PredictTotal PROVE Spec => GreedySpec
  OBVIOUS
<1>1. Init => Greedy!Init
  BY DEF Init, Greedy!Init, Promised, PromisedIds
<1>2. IndInv /\ [Next]_vars => [Greedy!Next]_<<Promised, PromisedIds>>
  BY StepRefines
<1>3. Spec => []IndInv
  BY Inductive
<1> QED BY <1>1, <1>2, <1>3, PTL DEF Spec, GreedySpec, Greedy!Spec

-----------------------------------------------------------------------------
(* How a call ends, and what becomes of a self-draft.                      *)

(* A call is done after a commit that used up its budget, or because the   *)
(* drafter proposed nothing; a drafter that has tokens always proposes.    *)
THEOREM CallsEndComplete == PredictTotal => (Spec => []EndsComplete)
<1> SUFFICES ASSUME PredictTotal PROVE Spec => []EndsComplete
  OBVIOUS
<1>1. Init => EndsComplete
  BY DEF Init, EndsComplete
<1>2. ASSUME IndInv, EndsComplete, [Next]_vars PROVE EndsComplete'
  <2>1. CASE UNCHANGED vars
    BY <1>2, <2>1 DEF vars, EndsComplete
  <2>2. CASE Propose
    <3>1. SUFFICES ASSUME proposal = <<>>, ~(config.drafter = "fixed" /\ config.fixed = <<>>)
                   PROVE  FALSE
      BY <2>2 DEF Propose, EndsComplete
    <3>2. InCall /\ pc = "draft" /\ Drafted
      BY <1>2, <2>2 DEF Propose, InCall, IndInv
    <3>3. DraftTokens \in Nat \ {0} /\ Len(proposal) = 0
      BY <3>1, <3>2, DraftBounds, EmptySeq
    <3>4. ~Generated(proposal, DraftTokens)
      BY <3>1, <3>3 DEF Generated
    <3>5. config \in Config
      BY <3>2, JobFacts
    <3>6. config.drafter \in {"self", "fixed", "random"} /\ config.fixed \in Seq(Tokens)
      BY <3>5, SpeculativeAssumption DEF Config, SpeculativeAssumption
    <3>7. config.drafter = "fixed" /\ Len(config.fixed) = 0
      BY <3>2, <3>3, <3>4, <3>6 DEF Drafted
    <3> QED BY <3>1, <3>6, <3>7, EmptySeq
  <2>3. ASSUME NEW a \in 0..DraftLength, Commit(a) PROVE EndsComplete'
    <3>1. InCall
      BY <1>2, <2>3 DEF InCall, IndInv, Commit
    <3>2. /\ Len(job.prompt) \in Nat /\ job.limit \in Nat
          /\ Len(ids') <= Len(job.prompt) + job.limit
      BY <1>2, <2>3, <3>1, CommitStep, JobFacts
    <3>3. ids' \in Seq(Tokens)
      BY <1>2, <2>3, CommitAppends
    <3>4. Len(ids') \in Nat
      BY <3>3
    <3>5. job' = job /\ (pc' = "done" => ~(Len(ids') - Len(job.prompt) < job.limit))
      BY <2>3 DEF Commit
    <3>6. pc' = "done" => Len(ids') = Len(job.prompt) + job.limit
      <4> PICK n \in Nat : n = Len(ids')
        BY <3>4
      <4> QED BY <3>2, <3>5
    <3> QED BY <3>5, <3>6 DEF EndsComplete
  <2>4. ASSUME pc' # "done" PROVE EndsComplete'
    BY <2>4 DEF EndsComplete
  <2>5. ASSUME NEW p \in Prompts, NEW n \in Limits, NEW c \in Config, Start(p, n, c)
        PROVE  pc' # "done"
    BY <2>5 DEF Start
  <2>6. CASE Return \/ Verified
    BY <2>6 DEF Return, Verified, EndsComplete
  <2>7. CASE DraftSelf \/ DraftFixed \/ (\E t \in Tokens : DraftRandom(t))
    BY <2>7 DEF DraftSelf, DraftFixed, DraftRandom, EndsComplete
  <2>8. CASE VerifySequential \/ VerifyParallel
    BY <2>8 DEF VerifySequential, VerifyParallel, EndsComplete
  <2> QED BY <1>2, <2>1, <2>2, <2>3, <2>4, <2>5, <2>6, <2>7, <2>8 DEF Next, Step
<1> QED BY <1>1, <1>2, Inductive, PTL DEF Spec

(* A self-draft is greedy over the committed tokens and stops at the first *)
(* EOS, and the sequential verifier finds the same tokens.                 *)
SelfInv ==
  config.drafter = "self" /\ config.verifier = "sequential" =>
    /\ \A i \in 1..Len(proposal) :
         proposal[i] = Predict(model, ids \o SubSeq(proposal, 1, i-1))
    /\ \A i \in 1..Len(proposal)-1 : proposal[i] # EOS
    /\ \A i \in 1..Len(target) : target[i] = proposal[i]
    /\ pc = "commit" => proposal = target

(* The drafter adds the model's next choice.                               *)
LEMMA SelfDraftStep ==
  ASSUME PredictTotal, IndInv, SelfInv, DraftSelf
  PROVE  SelfInv'
<1>1. InCall /\ pc = "draft" /\ target = <<>>
  BY DEF DraftSelf, InCall, IndInv, CallShape
<1>2. proposal \in Seq(Tokens) /\ ids \in Seq(Tokens)
  BY <1>1, JobFacts
<1>3. PICK t : t = Predict(model, ids \o proposal)
  OBVIOUS
<1>4. t \in Tokens
  BY <1>1, <1>2, <1>3, ChoiceTyped
<1>5. PICK n \in Nat : n = Len(proposal)
  BY <1>2
<1>6. proposal' = Append(proposal, t) /\ UNCHANGED <<model, config, ids, target, pc>>
  BY <1>3 DEF DraftSelf
<1>7. /\ Len(proposal') = n + 1 /\ proposal'[n + 1] = t
      /\ \A i \in 1..n : proposal'[i] = proposal[i]
  BY <1>2, <1>4, <1>5, <1>6, AppendProperties
<1>8. SUFFICES ASSUME config.drafter = "self", config.verifier = "sequential"
      PROVE  /\ \A i \in 1..n+1 :
                  proposal'[i] = Predict(model, ids \o SubSeq(proposal', 1, i-1))
             /\ \A i \in 1..n : proposal'[i] # EOS
  <2>1. Len(target) = 0 /\ n + 1 - 1 = n /\ pc' # "commit"
    BY <1>1, <1>6, EmptySeq
  <2> QED BY <1>6, <1>7, <2>1 DEF SelfInv
<1>9. /\ \A i \in 1..n : proposal[i] = Predict(model, ids \o SubSeq(proposal, 1, i-1))
      /\ \A i \in 1..n-1 : proposal[i] # EOS
  BY <1>5, <1>8 DEF SelfInv
<1>10. \A i \in 1..n+1 : SubSeq(proposal', 1, i-1) = SubSeq(proposal, 1, i-1)
  <2> TAKE i \in 1..n+1
  <2>1. i-1 \in 0..Len(proposal)
    BY <1>5
  <2> QED BY <1>2, <1>4, <1>6, <2>1, PrefixOfAppend
<1>11. ASSUME NEW i \in 1..n+1
       PROVE  proposal'[i] = Predict(model, ids \o SubSeq(proposal', 1, i-1))
  <2>1. CASE i \in 1..n
    BY <1>7, <1>9, <1>10, <2>1
  <2>2. CASE i = n + 1
    <3>1. SubSeq(proposal, 1, i-1) = proposal
      BY <1>2, <1>5, <2>2, SubSeqFull
    <3> QED BY <1>3, <1>7, <1>10, <2>2, <3>1
  <2> QED BY <2>1, <2>2
<1>12. ASSUME NEW i \in 1..n PROVE proposal'[i] # EOS
  <2>1. CASE i \in 1..n-1
    BY <1>7, <1>9, <2>1
  <2>2. CASE i = n
    <3>1. proposal # <<>>
      BY <1>5, <2>2, EmptySeq
    <3>2. proposal[Len(proposal)] # EOS
      BY <3>1 DEF DraftSelf, Generated
    <3> QED BY <1>5, <1>7, <2>2, <3>2
  <2> QED BY <2>1, <2>2
<1> QED BY <1>11, <1>12

(* The verifier finds the token that was drafted.                          *)
LEMMA SelfVerifyStep ==
  ASSUME PredictTotal, IndInv, SelfInv, VerifySequential
  PROVE  SelfInv'
<1>1. InCall /\ pc = "verify"
  BY DEF VerifySequential, InCall, IndInv
<1>2. /\ proposal \in Seq(Tokens) /\ ids \in Seq(Tokens) /\ target \in Seq(Tokens)
      /\ Len(target) <= Len(proposal)
  BY <1>1, JobFacts
<1>3. PICK t : t = Predict(model, ids \o target)
  OBVIOUS
<1>4. t \in Tokens
  BY <1>1, <1>2, <1>3, ChoiceTyped
<1>5. PICK n \in Nat, m \in Nat : n = Len(target) /\ m = Len(proposal)
  BY <1>2
<1>6. target' = Append(target, t) /\ UNCHANGED <<model, config, ids, proposal, pc>>
  BY <1>3 DEF VerifySequential
<1>7. /\ Len(target') = n + 1 /\ target'[n + 1] = t
      /\ \A i \in 1..n : target'[i] = target[i]
  BY <1>2, <1>4, <1>5, <1>6, AppendProperties
<1>8. n < m
  <2>1. n # m
    BY <1>5 DEF VerifySequential, Generated
  <2> QED BY <1>2, <1>5, <2>1
<1>9. SUFFICES ASSUME config.drafter = "self", config.verifier = "sequential"
      PROVE  \A i \in 1..n+1 : target'[i] = proposal[i]
  <2>1. pc' # "commit"
    BY <1>1, <1>6
  <2> QED BY <1>6, <1>7, <2>1 DEF SelfInv
<1>10. /\ \A i \in 1..n : target[i] = proposal[i]
       /\ \A i \in 1..m : proposal[i] = Predict(model, ids \o SubSeq(proposal, 1, i-1))
  BY <1>5, <1>9 DEF SelfInv
<1>11. SubSeq(proposal, 1, n) = target
  <2>1. n \in 0..Len(proposal)
    BY <1>5, <1>8
  <2>2. /\ SubSeq(proposal, 1, n) \in Seq(Tokens) /\ Len(SubSeq(proposal, 1, n)) = n
        /\ \A i \in 1..n : SubSeq(proposal, 1, n)[i] = proposal[i]
    BY <1>2, <2>1, PrefixTyped
  <2> QED BY <1>2, <1>5, <1>10, <2>2, SeqEqual
<1>12. proposal[n + 1] = t
  <2>1. n + 1 \in 1..m /\ (n + 1) - 1 = n
    BY <1>8
  <2> QED BY <1>3, <1>10, <1>11, <2>1
<1> QED BY <1>7, <1>10, <1>12

(* A verification that has stopped has found the whole draft: had it       *)
(* stopped earlier, at an EOS, the draft would have stopped there too.     *)
LEMMA SelfVerified ==
  ASSUME IndInv, SelfInv, Verified
  PROVE  SelfInv'
<1>1. InCall /\ pc = "verify"
  BY DEF Verified, InCall, IndInv
<1>2. /\ proposal \in Seq(Tokens) /\ target \in Seq(Tokens) /\ Len(target) <= Len(proposal)
  BY <1>1, JobFacts
<1>3. SUFFICES ASSUME config.drafter = "self", config.verifier = "sequential"
      PROVE  proposal = target
  BY DEF SelfInv, Verified
<1>4. /\ \A i \in 1..Len(proposal)-1 : proposal[i] # EOS
      /\ \A i \in 1..Len(target) : target[i] = proposal[i]
  BY <1>3 DEF SelfInv
<1>5. Generated(target, Len(proposal))
  BY <1>3 DEF Verified
<1>6. PICK n \in Nat, m \in Nat : n = Len(target) /\ m = Len(proposal)
  BY <1>2
<1>7. n = m
  <2> SUFFICES ASSUME n # m PROVE FALSE
    OBVIOUS
  <2>1. target # <<>> /\ target[n] = EOS
    BY <1>5, <1>6 DEF Generated
  <2>2. n # 0
    BY <1>2, <1>6, <2>1, EmptySeq
  <2>3. n \in 1..n /\ n \in 1..m-1
    BY <1>2, <1>6, <2>2
  <2> QED BY <1>4, <1>6, <2>1, <2>3
<1> QED BY <1>2, <1>4, <1>6, <1>7, SeqEqual

(* The draft of the target itself is accepted whole.                       *)
THEOREM SelfDraft == PredictTotal => (Spec => []SelfDraftAccepted)
<1> SUFFICES ASSUME PredictTotal PROVE Spec => []SelfDraftAccepted
  OBVIOUS
<1>1. Init => SelfInv
  BY EmptySeq DEF Init, SelfInv
<1>2. ASSUME IndInv, SelfInv, [Next]_vars PROVE SelfInv'
  <2>1. CASE UNCHANGED vars
    BY <1>2, <2>1 DEF vars, SelfInv
  <2>2. ASSUME proposal' = <<>>, target' = <<>> PROVE SelfInv'
    BY <2>2, EmptySeq DEF SelfInv
  <2>3. ASSUME NEW p \in Prompts, NEW n \in Limits, NEW c \in Config, Start(p, n, c)
        PROVE  SelfInv'
    BY <1>2, <2>2, <2>3 DEF Start, IndInv, CallShape
  <2>4. CASE \E a \in 0..DraftLength : Commit(a)
    BY <2>2, <2>4 DEF Commit
  <2>5. CASE Return
    BY <1>2, <2>2, <2>5 DEF Return, IndInv, CallShape
  <2>6. CASE Propose
    BY <1>2, <2>6 DEF Propose, SelfInv
  <2>7. CASE DraftFixed \/ (\E t \in Tokens : DraftRandom(t)) \/ VerifyParallel
    BY <2>7 DEF DraftFixed, DraftRandom, VerifyParallel, SelfInv
  <2> QED BY <1>2, <2>1, <2>3, <2>4, <2>5, <2>6, <2>7, SelfDraftStep, SelfVerifyStep,
             SelfVerified DEF Next, Step
<1>3. SelfInv => SelfDraftAccepted
  BY DEF SelfInv, SelfDraftAccepted
<1> QED BY <1>1, <1>2, <1>3, Inductive, PTL DEF Spec
=============================================================================
