---------------------- MODULE LongContextRuntimeProofs ----------------------
(***************************************************************************)
(* Theorems about LongContextRuntime.  The runtime is shown to implement   *)
(* the scheduler's specification, so what is proved of the scheduler holds *)
(* of the runtime; what a step may read is then an invariant of the loops. *)
(***************************************************************************)
EXTENDS LongContextRuntime, KVPrefetchSchedulerProofs

allVars == <<vars, runtimeVars>>

-----------------------------------------------------------------------------
(* Integer division by the block size.                                     *)

(* Position p lies in block p div B.                                       *)
LEMMA DivBounds ==
  ASSUME NEW p \in Nat, NEW B \in Nat \ {0}
  PROVE  /\ p \div B \in Nat
         /\ B * (p \div B) <= p
         /\ p < B * (p \div B) + B
  BY SMTT(30)

(* Positions below n * B lie in the first n blocks.                        *)
LEMMA DivBelow ==
  ASSUME NEW p \in Nat, NEW B \in Nat \ {0}, NEW n \in Nat, p < n * B
  PROVE  p \div B \in 0..n-1
<1>1. p \div B \in Nat /\ p \div B < n
  BY SMTT(30)
<1> QED BY <1>1

(* The blocks of a window of w positions ending at t reach at most         *)
(* (w + B - 2) div B blocks back from the block of t.                      *)
LEMMA WindowReach ==
  ASSUME NEW t \in Nat, NEW p \in 0..t, NEW w \in Nat, NEW B \in Nat \ {0},
         p >= t + 1 - w
  PROVE  /\ p \div B <= t \div B
         /\ t \div B - p \div B <= (w + B - 2) \div B
<1> DEFINE q == t \div B
           r == p \div B
           k == (w + B - 2) \div B
<1>1. w >= 1 /\ w + B - 2 \in Nat
  BY SMT
<1>2. q \in Nat /\ B * q <= t /\ t < B * q + B
  BY DivBounds
<1>3. r \in Nat /\ B * r <= p /\ p < B * r + B
  BY DivBounds
<1>4. k \in Nat /\ B * k <= w + B - 2 /\ w + B - 2 < B * k + B
  BY <1>1, DivBounds
<1> HIDE DEF q, r, k
<1>5. r <= q
  <2> SUFFICES ASSUME r >= q + 1 PROVE FALSE
    BY <1>2, <1>3
  <2>1. B * r >= B * (q + 1)
    BY <1>2, <1>3, SMTT(30)
  <2>2. B * (q + 1) = B * q + B
    BY <1>2, SMTT(30)
  <2>3. B * q \in Nat /\ B * r \in Nat
    BY <1>2, <1>3, SMTT(30)
  <2> QED BY <1>2, <1>3, <2>1, <2>2, <2>3
<1>6. q - r <= k
  <2> SUFFICES ASSUME q >= r + k + 1 PROVE FALSE
    BY <1>2, <1>3, <1>4
  <2>1. B * q >= B * (r + k + 1)
    BY <1>2, <1>3, <1>4, SMTT(30)
  <2>2. B * (r + k + 1) = B * r + B * k + B
    BY <1>3, <1>4, SMTT(30)
  <2>3. B * q \in Nat /\ B * r \in Nat /\ B * k \in Nat
    BY <1>2, <1>3, <1>4, SMTT(30)
  <2>4. t - p >= B * k + 1
    BY <1>2, <1>3, <2>1, <2>2, <2>3
  <2> QED BY <1>4, <2>3, <2>4
<1> QED BY <1>5, <1>6 DEF q, r, k

-----------------------------------------------------------------------------
(* What a decode step reads is resident, in every configuration.           *)

PolicyFixed ==
  /\ policy \in Policy
  /\ position \in Nat /\ target \in Nat
  /\ layer \in Nat

Ensured ==
  /\ pc = "ensure" =>
       \A l \in 0..layer : \A b \in NeededBlocks(l, target) :
         (l = layer /\ b \in todo) \/ missing \/ (b \in Blocks /\ Resident(b))
  /\ NoSilentFallback

FallbackInv == PolicyFixed /\ Ensured

(* The invariant behind NoSilentFallback holds initially.                  *)
LEMMA InitFallback == RuntimeInit => FallbackInv
  BY RuntimeAssumption
  DEF RuntimeAssumption, RuntimeInit, FallbackInv, PolicyFixed, Ensured, NoSilentFallback

(* Every step keeps the policy, the positions and the layer well-typed.    *)
LEMMA FixedStep == PolicyFixed /\ [RuntimeNext]_allVars => PolicyFixed'
<1> SUFFICES ASSUME PolicyFixed, [RuntimeNext]_allVars PROVE PolicyFixed'
  OBVIOUS
<1>1. CASE UNCHANGED allVars
  BY <1>1 DEF PolicyFixed, allVars, runtimeVars
<1>2. CASE StartDecode \/ StartDecodeOnDemand
  BY <1>2 DEF PolicyFixed, StartDecode, StartDecodeOnDemand, EnterEnsure
<1>3. ASSUME NEW b, SubmitLookahead(b) \/ FetchBlock(b) \/ PassBlock(b) \/ OffloadNext(b)
      PROVE  PolicyFixed'
  BY <1>3 DEF PolicyFixed, SubmitLookahead, FetchBlock, PassBlock, OffloadNext
<1>4. ASSUME NEW b, FailOnBlock(b) PROVE PolicyFixed'
  BY <1>4 DEF PolicyFixed, FailOnBlock, FailEnsure
<1>5. CASE StepScheduler \/ PollScheduler \/ FailOnUnknown \/ PlanOffload
  BY <1>5 DEF PolicyFixed, StepScheduler, PollScheduler, EnterEnsure, FailOnUnknown,
              FailEnsure, PlanOffload
<1>6. CASE LayerReady \/ LayerOffloaded
  BY <1>6 DEF PolicyFixed, LayerReady, LayerOffloaded
<1>7. ASSUME NEW n \in 1..MaxPosition, Prefill(n) PROVE PolicyFixed'
  BY <1>7, RuntimeAssumption DEF RuntimeAssumption, PolicyFixed, Prefill
<1> QED BY <1>1, <1>2, <1>3, <1>4, <1>5, <1>6, <1>7 DEF RuntimeNext, Step

(* What the ensure loops have passed stays resident until attention        *)
(* begins, and no block is passed unseen.                                  *)
LEMMA EnsuredStep == FallbackInv /\ [RuntimeNext]_allVars => Ensured'
<1> SUFFICES ASSUME FallbackInv, [RuntimeNext]_allVars PROVE Ensured'
  OBVIOUS
<1> USE DEF FallbackInv, PolicyFixed, Ensured, NoSilentFallback
<1>1. CASE UNCHANGED allVars
  BY <1>1 DEF allVars, runtimeVars, vars, tierVars, NeededBlocks, NeededPositions, Resident
<1>2. CASE StartDecode
  BY <1>2 DEF StartDecode
<1>3. CASE StartDecodeOnDemand
  BY <1>3 DEF StartDecodeOnDemand, EnterEnsure, NeededBlocks, NeededPositions
<1>4. ASSUME NEW b, SubmitLookahead(b) \/ OffloadNext(b) PROVE Ensured'
  BY <1>4 DEF SubmitLookahead, OffloadNext
<1>5. ASSUME NEW b, FetchBlock(b) PROVE Ensured'
  <2>1. /\ pc = "ensure" /\ pc' = pc /\ todo' = todo \ {b}
        /\ UNCHANGED <<policy, target, layer, missing>>
        /\ b \in Blocks
    BY <1>5 DEF FetchBlock, Unknown
  <2>2. residency' = [x \in Blocks |-> IF x \in {b} THEN "resident" ELSE residency[x]]
    BY <1>5 DEF FetchBlock, DemandPrefetch, PrefetchBlocks
  <2>3. \A x \in Blocks : Resident(x) \/ x = b => Resident(x)'
    BY <2>2 DEF Resident
  <2> QED BY <2>1, <2>3 DEF NeededBlocks, NeededPositions
<1>6. ASSUME NEW b, PassBlock(b) PROVE Ensured'
  <2>1. /\ pc = "ensure" /\ pc' = pc /\ todo' = todo \ {b}
        /\ missing' = (missing \/ Unknown(b))
        /\ UNCHANGED <<policy, target, layer, residency>>
    BY <1>6 DEF PassBlock, vars, tierVars
  <2>2. Unknown(b) \/ (b \in Blocks /\ Resident(b))
    BY <1>6 DEF PassBlock, Unknown
  <2> QED BY <2>1, <2>2 DEF NeededBlocks, NeededPositions, Resident
<1>7. ASSUME NEW b, FailOnBlock(b) PROVE Ensured'
  BY <1>7 DEF FailOnBlock, FailEnsure
<1>8. CASE StepScheduler
  BY <1>8 DEF StepScheduler
<1>9. CASE PollScheduler
  BY <1>9 DEF PollScheduler, EnterEnsure, NeededBlocks, NeededPositions
<1>10. CASE FailOnUnknown
  BY <1>10 DEF FailOnUnknown, FailEnsure
<1>11. CASE LayerReady
  <2>1. /\ pc = "ensure" /\ todo = {} /\ ~missing
        /\ UNCHANGED <<policy, target, missing, residency>>
    BY <1>11 DEF LayerReady, vars, tierVars
  <2>2. \A l \in 0..layer : \A b \in NeededBlocks(l, target) : b \in Blocks /\ Resident(b)
    BY <2>1
  <2>3. CASE layer + 1 < NumLayers
    <3>1. layer' = layer + 1 /\ todo' = NeededBlocks(layer + 1, target) /\ pc' = "ensure"
      BY <1>11, <2>1, <2>3 DEF LayerReady
    <3>2. \A l \in 0..layer' : l = layer' \/ l \in 0..layer
      BY <3>1
    <3> QED BY <2>1, <2>2, <3>1, <3>2 DEF NeededBlocks, NeededPositions, Resident
  <2>4. CASE ~(layer + 1 < NumLayers)
    <3>1. pc' = "attend"
      BY <1>11, <2>4 DEF LayerReady
    <3>2. \A l \in Layers : l \in 0..layer
      BY <2>4, RuntimeAssumption DEF RuntimeAssumption, Layers
    <3> QED BY <2>1, <2>2, <3>1, <3>2 DEF NeededBlocks, NeededPositions, Resident
  <2> QED BY <2>3, <2>4
<1>12. CASE PlanOffload
  BY <1>12 DEF PlanOffload
<1>13. CASE LayerOffloaded
  BY <1>13 DEF LayerOffloaded
<1>14. ASSUME NEW n \in 1..MaxPosition, Prefill(n) PROVE Ensured'
  BY <1>14 DEF Prefill
<1> QED BY <1>1, <1>2, <1>3, <1>4, <1>5, <1>6, <1>7, <1>8, <1>9, <1>10, <1>11, <1>12,
           <1>13, <1>14 DEF RuntimeNext, Step

(* A decode step reaches attention only with every block it needs in the   *)
(* map and resident, whatever the map, the policy and the scheduler's      *)
(* configuration: no missing block is passed over.                         *)
THEOREM NoFallback == RuntimeSpec => []NoSilentFallback
<1>1. FallbackInv => NoSilentFallback
  BY DEF FallbackInv, Ensured
<1>2. FallbackInv /\ [RuntimeNext]_allVars => FallbackInv'
  BY FixedStep, EnsuredStep DEF FallbackInv
<1> QED BY <1>1, <1>2, InitFallback, PTL DEF RuntimeSpec, allVars
-----------------------------------------------------------------------------
(* What a plan offloads, the next step does not read.                      *)

(* Under PolicyCovers, what the next query reads is among the blocks the   *)
(* plan keeps.                                                             *)
LEMMA KeepCovers ==
  ASSUME PolicyFixed, PolicyCovers, NEW l \in Nat,
         NEW b \in NeededBlocks(l, target + 1), b \in Blocks
  PROVE  b \in Keep(l, target)
<1>3. policy.window \in Nat /\ policy.sinkTokens \in Nat /\ policy.keepRecent \in Nat
      /\ policy.keepSink \in Nat
  BY DEF PolicyFixed, Policy
<1>1. PICK p \in 0..target :
        /\ b = <<l, p \div BlockSize>>
        /\ p >= target + 1 - policy.window \/ p < policy.sinkTokens
  <2>1. PICK p \in NeededPositions(target + 1) : b = <<l, p \div BlockSize>>
    BY DEF NeededBlocks
  <2>2. target + 1 - 1 = target /\ target \in Nat
    BY DEF PolicyFixed
  <2>3. p \in 0..target /\ (p >= target + 1 - policy.window \/ p < policy.sinkTokens)
    BY <2>1, <2>2, <1>3 DEF NeededPositions
  <2> QED BY <2>1, <2>3
<1>2. BlockSize \in Nat \ {0}
  BY RuntimeAssumption DEF RuntimeAssumption
<1>4. target \in Nat /\ p \in Nat
  BY DEF PolicyFixed
<1>5. b[1] = l /\ b[2] = p \div BlockSize
  BY <1>1
<1>6. CASE p >= target + 1 - policy.window
  <2>1. /\ p \div BlockSize <= target \div BlockSize
        /\ target \div BlockSize - p \div BlockSize
             <= (policy.window + BlockSize - 2) \div BlockSize
    BY <1>2, <1>3, <1>4, <1>6, WindowReach
  <2>2. policy.keepRecent >= 1 + (policy.window + BlockSize - 2) \div BlockSize
    BY DEF PolicyCovers
  <2>3. p \div BlockSize \in Nat /\ target \div BlockSize \in Nat
    BY <1>2, <1>4, DivBounds
  <2>4. (policy.window + BlockSize - 2) \div BlockSize \in Int
    BY <1>2, <1>3, SMTT(30)
  <2>5. p \div BlockSize > target \div BlockSize - policy.keepRecent
    BY <1>3, <2>1, <2>2, <2>3, <2>4
  <2> QED BY <1>5, <2>1, <2>5 DEF Keep, RecentBlocks
<1>7. CASE p < policy.sinkTokens
  <2>1. p < policy.keepSink * BlockSize
    BY <1>2, <1>3, <1>4, <1>7, SMTT(30) DEF PolicyCovers
  <2>2. p \div BlockSize < policy.keepSink
    BY <1>2, <1>3, <1>4, <2>1, DivBelow
  <2> QED BY <1>5, <2>2 DEF Keep, SinkBlocks
<1> QED BY <1>1, <1>6, <1>7

Planned ==
  pc = "offload" => todo \subseteq Blocks /\ todo \cap Keep(layer, target) = {}

(* What is left of a plan was in the plan of its layer.                    *)
LEMMA PlannedStep == Planned /\ [RuntimeNext]_allVars => Planned'
<1> SUFFICES ASSUME Planned, [RuntimeNext]_allVars PROVE Planned'
  OBVIOUS
<1> USE DEF Planned, Keep, SinkBlocks, RecentBlocks
<1>1. CASE UNCHANGED allVars
  BY <1>1 DEF allVars, runtimeVars
<1>2. CASE StartDecode \/ StartDecodeOnDemand
  BY <1>2 DEF StartDecode, StartDecodeOnDemand, EnterEnsure
<1>3. ASSUME NEW b, SubmitLookahead(b) \/ FetchBlock(b) \/ PassBlock(b)
      PROVE  Planned'
  BY <1>3 DEF SubmitLookahead, FetchBlock, PassBlock
<1>4. ASSUME NEW b, OffloadNext(b) PROVE Planned'
  BY <1>4 DEF OffloadNext
<1>5. ASSUME NEW b, FailOnBlock(b) PROVE Planned'
  BY <1>5 DEF FailOnBlock, FailEnsure
<1>6. CASE StepScheduler \/ PollScheduler \/ FailOnUnknown
  BY <1>6 DEF StepScheduler, PollScheduler, EnterEnsure, FailOnUnknown, FailEnsure
<1>7. CASE LayerReady
  BY <1>7 DEF LayerReady
<1>8. ASSUME NEW l, NEW n
      PROVE  OffloadPlan(l, n) \subseteq Blocks /\ OffloadPlan(l, n) \cap Keep(l, n) = {}
  BY DEF OffloadPlan
<1>9. CASE PlanOffload
  BY <1>8, <1>9 DEF PlanOffload
<1>10. CASE LayerOffloaded
  BY <1>8, <1>10 DEF LayerOffloaded
<1>11. ASSUME NEW n \in 1..MaxPosition, Prefill(n) PROVE Planned'
  BY <1>8, <1>11 DEF Prefill
<1> QED BY <1>1, <1>2, <1>3, <1>4, <1>5, <1>6, <1>7, <1>9, <1>10, <1>11 DEF RuntimeNext, Step

(* No plan, after a prefill or a decode step, offloads a block that the    *)
(* next decode step reads, for every block size, window, number of sinks   *)
(* and position, when the policy keeps ceil((window - 1) / block_size) + 1 *)
(* recent blocks and the blocks of the sink tokens.                        *)
THEOREM PlanSpares == RuntimeSpec => []PlanSparesNextStep
<1>1. RuntimeInit => Planned
  BY DEF RuntimeInit, Planned
<1>2. FallbackInv /\ Planned => PlanSparesNextStep
  BY KeepCovers DEF FallbackInv, PolicyFixed, Planned, PlanSparesNextStep
<1>3. FallbackInv /\ [RuntimeNext]_allVars => FallbackInv'
  BY FixedStep, EnsuredStep DEF FallbackInv
<1> QED BY <1>1, <1>2, <1>3, InitFallback, PlannedStep, PTL DEF RuntimeSpec, allVars
-----------------------------------------------------------------------------
(* Types, whatever the map describes.                                      *)

TypeInv ==
  /\ IndInv
  /\ RuntimeTypeOK
  /\ pc \in {"submit", "offload"} => todo \subseteq Blocks

(* The blocks a query reads are in its layer, at some block index.         *)
LEMMA NeededTyped ==
  ASSUME NEW l \in Layers, NEW n \in 0..MaxPosition
  PROVE  NeededBlocks(l, n) \subseteq Layers \X Nat
<1> SUFFICES ASSUME NEW p \in NeededPositions(n) PROVE p \div BlockSize \in Nat
  BY DEF NeededBlocks
<1>1. p \in Nat /\ BlockSize \in Nat \ {0}
  BY RuntimeAssumption DEF RuntimeAssumption, NeededPositions
<1> QED BY <1>1, DivBounds

(* Every runtime step keeps the scheduler's invariant: it is a step of the *)
(* scheduler, or a failure that takes back the cache it began with.        *)
LEMMA SchedulerKept == TypeInv /\ [RuntimeNext]_allVars => IndInv'
<1> SUFFICES ASSUME TypeInv, [RuntimeNext]_allVars PROVE IndInv'
  OBVIOUS
<1> USE DEF TypeInv
<1>1. SUFFICES ASSUME ~[Next]_vars PROVE IndInv'
  BY NextIndInv
<1>2. CASE UNCHANGED vars
  BY <1>1, <1>2
<1>3. ASSUME NEW how, FailEnsure(how) PROVE IndInv'
  <2>1. TierTypeOK'
    BY <1>3 DEF FailEnsure, RuntimeTypeOK, TypeOK, TierTypeOK
  <2> QED BY <1>3, <2>1, OtherIndInv DEF FailEnsure, RuntimeTypeOK, TypeOK
<1>4. CASE \/ StartDecode \/ StartDecodeOnDemand \/ LayerReady \/ PlanOffload \/ LayerOffloaded
           \/ \E b \in todo : PassBlock(b)
           \/ \E n \in 1..MaxPosition : Prefill(n)
  BY <1>2, <1>4 DEF StartDecode, StartDecodeOnDemand, LayerReady, PlanOffload, LayerOffloaded,
                    PassBlock, Prefill
<1>5. ASSUME NEW b \in todo, SubmitLookahead(b) PROVE Next
  <2>1. b \in Blocks /\ 0 \in Priorities
    BY <1>5, SchedulerAssumption DEF SubmitLookahead, SchedulerAssumption
  <2> QED BY <1>5, <2>1 DEF SubmitLookahead, Next
<1>6. ASSUME NEW b \in todo, FetchBlock(b) PROVE Next
  BY <1>6 DEF FetchBlock, Unknown, Next
<1>7. ASSUME NEW b \in todo, OffloadNext(b) PROVE Next
  BY <1>7 DEF OffloadNext, Next
<1>8. CASE StepScheduler \/ PollScheduler
  <2>1. NumLayers \in CacheArgs
    BY RuntimeAssumption DEF RuntimeAssumption
  <2>2. AdvanceStep(NumLayers) \/ PollReady(NumLayers)
    BY <1>8 DEF StepScheduler, PollScheduler
  <2> QED BY <1>1, <2>1, <2>2 DEF Next
<1>9. CASE FailOnUnknown \/ \E b \in todo : FailOnBlock(b)
  BY <1>3, <1>9 DEF FailOnUnknown, FailOnBlock
<1> QED BY <1>1, <1>2, <1>4, <1>5, <1>6, <1>7, <1>8, <1>9 DEF RuntimeNext, Step, allVars

(* Every runtime step keeps its own variables well-typed.                  *)
LEMMA RuntimeTypes == TypeInv /\ [RuntimeNext]_allVars => TypeInv'
<1> SUFFICES ASSUME TypeInv, [RuntimeNext]_allVars PROVE TypeInv'
  OBVIOUS
<1>1. IndInv'
  BY SchedulerKept
<1>2. TypeOK' /\ TypeOK
  BY <1>1 DEF IndInv, TypeInv
<1> USE DEF RuntimeTypeOK
<1>3. SUFFICES RuntimeTypeOK' /\ (pc \in {"submit", "offload"} => todo \subseteq Blocks)'
  BY <1>1 DEF TypeInv
<1>a. MaxPosition \in Nat /\ NumLayers \in Nat \ {0} /\ Blocks = Layers \X (0..NumBlocks-1) /\ NumBlocks \in Nat
  BY RuntimeAssumption DEF RuntimeAssumption, Layers
<1>b. \A l, n : LookaheadBlocks(n) \subseteq Blocks /\ OffloadPlan(l, n) \subseteq Blocks
  BY DEF LookaheadBlocks, OffloadPlan
<1>c. \A l \in Layers, n \in 0..MaxPosition : NeededBlocks(l, n) \subseteq Layers \X Nat
  BY NeededTyped
<1>d. 0 \in Layers /\ (layer + 1 < NumLayers /\ layer \in Layers => layer + 1 \in Layers)
  BY <1>a DEF Layers
<1>e. Blocks \subseteq Layers \X Nat
  BY <1>a
<1>f. hot \in [Blocks -> {"kv", "zero"}] /\ hot' \in [Blocks -> {"kv", "zero"}]
  BY <1>2 DEF TypeOK, TierTypeOK
<1>4. CASE UNCHANGED allVars
  BY <1>2, <1>4 DEF allVars, runtimeVars, TypeInv
<1>5. CASE StartDecode
  BY <1>2, <1>5, <1>a, <1>b, <1>e DEF StartDecode, TypeInv
<1>6. CASE StartDecodeOnDemand
  <2>1. position + 1 \in 0..MaxPosition
    BY <1>6, <1>a DEF StartDecodeOnDemand, TypeInv
  <2> QED BY <1>2, <1>6, <2>1, <1>c, <1>d, <1>f DEF StartDecodeOnDemand, EnterEnsure, TypeInv
<1>7. ASSUME NEW b \in todo, SubmitLookahead(b) \/ FetchBlock(b) \/ OffloadNext(b)
      PROVE  RuntimeTypeOK' /\ (pc \in {"submit", "offload"} => todo \subseteq Blocks)'
  <2>1. todo' = todo \ {b} /\ UNCHANGED <<policy, position, target, pc, layer, missing, before, last>>
    BY <1>7 DEF SubmitLookahead, FetchBlock, OffloadNext
  <2> QED BY <1>2, <2>1 DEF TypeInv
<1>8. ASSUME NEW b \in todo, PassBlock(b)
      PROVE  RuntimeTypeOK' /\ (pc \in {"submit", "offload"} => todo \subseteq Blocks)'
  <2>1. missing' \in BOOLEAN
    BY <1>8 DEF PassBlock, Unknown
  <2> QED BY <1>2, <1>8, <2>1 DEF PassBlock, TypeInv
<1>9. CASE StepScheduler
  BY <1>2, <1>9 DEF StepScheduler, TypeInv
<1>10. CASE PollScheduler
  BY <1>2, <1>10, <1>c, <1>d, <1>f DEF PollScheduler, EnterEnsure, TypeInv
<1>11. CASE LayerReady
  BY <1>2, <1>11, <1>c, <1>d, <1>f DEF LayerReady, TypeInv
<1>12. CASE PlanOffload
  BY <1>2, <1>12, <1>b, <1>d, <1>e DEF PlanOffload, TypeInv
<1>13. CASE LayerOffloaded
  BY <1>2, <1>13, <1>b, <1>d, <1>e DEF LayerOffloaded, TypeInv
<1>14. ASSUME NEW n \in 1..MaxPosition, Prefill(n)
      PROVE  RuntimeTypeOK' /\ (pc \in {"submit", "offload"} => todo \subseteq Blocks)'
  BY <1>2, <1>14, <1>a, <1>b, <1>d, <1>e DEF Prefill, TypeInv
<1>15. CASE FailOnUnknown \/ \E b \in todo : FailOnBlock(b)
  BY <1>2, <1>15 DEF FailOnUnknown, FailOnBlock, FailEnsure, TypeInv
<1> QED BY <1>4, <1>5, <1>6, <1>7, <1>8, <1>9, <1>10, <1>11, <1>12, <1>13, <1>14, <1>15
        DEF RuntimeNext, Step

(* The types hold in every reachable state.                                *)
LEMMA TypeInvariant == RuntimeSpec => []TypeInv
<1>1. RuntimeInit => TypeInv
  <2> SUFFICES ASSUME RuntimeInit PROVE TypeInv
    OBVIOUS
  <2>1. IndInv /\ TypeOK
    BY InitIndInv DEF RuntimeInit, IndInv
  <2>2. 0 \in Layers
    BY RuntimeAssumption DEF RuntimeAssumption, Layers
  <2> QED BY <2>1, <2>2 DEF RuntimeInit, TypeInv, RuntimeTypeOK, TypeOK, TierTypeOK
<1> QED BY <1>1, RuntimeTypes, PTL DEF RuntimeSpec, allVars

(* Type correctness of the runtime over the scheduler and the tier, for    *)
(* every map, complete or not, and every policy.                           *)
THEOREM RuntimeTypeCorrect == RuntimeSpec => []RuntimeTypeOK
<1>1. TypeInv => RuntimeTypeOK
  BY DEF TypeInv
<1> QED BY <1>1, TypeInvariant, PTL
-----------------------------------------------------------------------------
(* A runtime whose map describes every position it decodes implements the  *)
(* scheduler.                                                              *)

MapInv ==
  /\ MapCoversPositions
  /\ Reachable
  /\ position \in 0..MaxPosition /\ target \in 0..MaxPosition
  /\ layer \in Layers
  /\ todo \subseteq Blocks
  /\ ~missing
  /\ last \in {"none", "ok"}

(* A map that covers all positions has every block a query reads.          *)
LEMMA NeededInMap ==
  ASSUME MapCoversPositions, NEW l \in Layers, NEW n \in 0..MaxPosition
  PROVE  NeededBlocks(l, n) \subseteq Blocks
<1> SUFFICES ASSUME NEW p \in NeededPositions(n) PROVE <<l, p \div BlockSize>> \in Blocks
  BY DEF NeededBlocks
<1>1. /\ BlockSize \in Nat \ {0} /\ NumBlocks \in Nat /\ MaxPosition \in Nat
      /\ Blocks = (0..NumLayers-1) \X (0..NumBlocks-1)
  BY RuntimeAssumption DEF RuntimeAssumption
<1>2. p \in Nat /\ p < n
  BY <1>1 DEF NeededPositions
<1>3. NumBlocks * BlockSize \in Nat
  BY <1>1, SMTT(30)
<1>4. p < NumBlocks * BlockSize
  BY <1>1, <1>2, <1>3 DEF MapCoversPositions
<1>5. p \div BlockSize \in 0..NumBlocks-1
  BY <1>1, <1>2, <1>4, DivBelow
<1> QED BY <1>1, <1>5 DEF Layers

(* No step of the scheduler or the tier loses a block to both tiers.       *)
LEMMA ReachableStep == IndInv /\ Reachable /\ [Next]_vars => Reachable'
<1> SUFFICES ASSUME IndInv, Reachable, [Next]_vars PROVE Reachable'
  OBVIOUS
<1> USE DEF Reachable, Gap, Resident, Offloaded, HasBlock
<1>1. CASE UNCHANGED tierVars
  BY <1>1 DEF tierVars
<1>2. ASSUME NEW S, PrefetchBlocks(S) PROVE Reachable'
  BY <1>2 DEF PrefetchBlocks
<1>3. ASSUME NEW c, Advance(c) \/ AdvanceStep(c) \/ PollReady(c) PROVE Reachable'
  BY <1>2, <1>3 DEF Advance, AdvanceStep, PollReady, CompleteReady
<1>4. CASE WaitStep
  BY <1>3, <1>4 DEF WaitStep
<1>5. ASSUME NEW b \in Blocks, NEW z \in BOOLEAN, Offload(b, z) PROVE Reachable'
  BY <1>5 DEF Offload, OffloadBlock, IndInv, TypeOK, TierTypeOK
<1>6. ASSUME NEW b \in Blocks, DemandPrefetch(b) PROVE Reachable'
  BY <1>2, <1>6 DEF DemandPrefetch
<1>7. ASSUME \/ \E b \in Blocks : EnsureSubmit(b) \/ \E p \in Priorities : Submit(b, p)
             \/ \E r \in queue : Cancel(r)
             \/ \E S, c, n : WaitFor(S, c, n) \/ EnsurePrefetched(S, c, n)
             \/ ClearCompleted \/ WaitReturn \/ UNCHANGED vars
      PROVE  Reachable'
  <2>1. UNCHANGED tierVars
    BY <1>7 DEF EnsureSubmit, Submit, Cancel, WaitFor, EnsurePrefetched, ClearCompleted,
                WaitReturn, vars
  <2> QED BY <1>1, <2>1
<1> QED BY <1>3, <1>4, <1>5, <1>6, <1>7 DEF Next

(* A runtime step is a step of the scheduler's specification or leaves its *)
(* variables alone.                                                        *)
LEMMA StepIsScheduler == MapInv /\ [RuntimeNext]_allVars => [Next]_vars
<1> SUFFICES ASSUME MapInv, [RuntimeNext]_allVars PROVE [Next]_vars
  OBVIOUS
<1>1. CASE UNCHANGED allVars
  BY <1>1 DEF allVars
<1>2. CASE \/ StartDecode \/ StartDecodeOnDemand \/ LayerReady \/ PlanOffload \/ LayerOffloaded
           \/ \E b \in todo : PassBlock(b)
           \/ \E n \in 1..MaxPosition : Prefill(n)
  BY <1>2 DEF StartDecode, StartDecodeOnDemand, LayerReady, PlanOffload, LayerOffloaded,
              PassBlock, Prefill
<1>3. ASSUME NEW b \in todo, SubmitLookahead(b) PROVE Next
  <2>1. b \in Blocks /\ 0 \in Priorities
    BY SchedulerAssumption DEF MapInv, SchedulerAssumption
  <2> QED BY <1>3, <2>1 DEF SubmitLookahead, Next
<1>4. ASSUME NEW b \in todo, FetchBlock(b) PROVE Next
  BY <1>4 DEF MapInv, FetchBlock, Next
<1>5. ASSUME NEW b \in todo, OffloadNext(b) PROVE Next
  BY <1>5 DEF MapInv, OffloadNext, Next
<1>6. CASE StepScheduler \/ PollScheduler
  <2>1. NumLayers \in CacheArgs
    BY RuntimeAssumption DEF RuntimeAssumption
  <2>2. AdvanceStep(NumLayers) \/ PollReady(NumLayers)
    BY <1>6 DEF StepScheduler, PollScheduler
  <2> QED BY <2>1, <2>2 DEF Next
<1>7. ASSUME NEW b \in todo PROVE ~FailOnBlock(b)
  BY DEF MapInv, Reachable, Gap, Resident, Offloaded, FailOnBlock
<1>8. ~FailOnUnknown
  BY DEF MapInv, FailOnUnknown
<1> QED BY <1>1, <1>2, <1>3, <1>4, <1>5, <1>6, <1>7, <1>8 DEF RuntimeNext, Step

(* No step changes the configuration.                                      *)
LEMMA PolicyRigid == [RuntimeNext]_allVars => policy' = policy
<1> SUFFICES ASSUME [RuntimeNext]_allVars PROVE policy' = policy
  OBVIOUS
<1>1. ASSUME NEW b, SubmitLookahead(b) \/ FetchBlock(b) \/ PassBlock(b) \/ FailOnBlock(b) \/ OffloadNext(b)
      PROVE  policy' = policy
  BY <1>1 DEF SubmitLookahead, FetchBlock, PassBlock, FailOnBlock, FailEnsure, OffloadNext
<1>2. CASE \/ StartDecode \/ StartDecodeOnDemand \/ StepScheduler \/ PollScheduler
           \/ FailOnUnknown \/ LayerReady \/ PlanOffload \/ LayerOffloaded
           \/ \E n \in 1..MaxPosition : Prefill(n)
  BY <1>2 DEF StartDecode, StartDecodeOnDemand, StepScheduler, PollScheduler, FailOnUnknown,
              FailEnsure, LayerReady, PlanOffload, LayerOffloaded, Prefill
<1> QED BY <1>1, <1>2 DEF RuntimeNext, Step, allVars, runtimeVars

(* On a complete map every runtime step keeps the map's invariant.         *)
LEMMA MapStep == MapInv /\ Reachable' /\ [RuntimeNext]_allVars => MapInv'
<1> SUFFICES ASSUME MapInv, Reachable', [RuntimeNext]_allVars PROVE MapInv'
  OBVIOUS
<1>p. policy' = policy
  BY PolicyRigid
<1> USE <1>p DEF MapInv, MapCoversPositions
<1>a. MaxPosition \in Nat /\ NumLayers \in Nat \ {0}
  BY RuntimeAssumption DEF RuntimeAssumption
<1>b. \A l, n : LookaheadBlocks(n) \subseteq Blocks /\ OffloadPlan(l, n) \subseteq Blocks
  BY DEF LookaheadBlocks, OffloadPlan
<1>c. \A l \in Layers, n \in 0..MaxPosition : NeededBlocks(l, n) \subseteq Blocks
  BY NeededInMap
<1>d. 0 \in Layers /\ (layer + 1 < NumLayers => layer + 1 \in Layers)
  BY <1>a DEF Layers
<1>1. CASE UNCHANGED allVars
  BY <1>1 DEF allVars, runtimeVars
<1>2. CASE StartDecode
  BY <1>2, <1>a, <1>b DEF StartDecode
<1>3. CASE StartDecodeOnDemand
  <2>1. position + 1 \in 0..MaxPosition
    BY <1>3, <1>a DEF StartDecodeOnDemand
  <2> QED BY <1>3, <2>1, <1>c, <1>d DEF StartDecodeOnDemand, EnterEnsure
<1>4. ASSUME NEW b \in todo, SubmitLookahead(b) \/ FetchBlock(b) \/ OffloadNext(b)
      PROVE  MapInv'
  <2>1. todo' = todo \ {b} /\ UNCHANGED <<position, target, layer, missing, last>>
    BY <1>4 DEF SubmitLookahead, FetchBlock, OffloadNext
  <2> QED BY <2>1
<1>5. ASSUME NEW b \in todo, PassBlock(b) PROVE MapInv'
  <2>1. ~Unknown(b)
    BY DEF Unknown, Reachable, Gap, Resident, Offloaded
  <2> QED BY <1>5, <2>1 DEF PassBlock
<1>6. CASE StepScheduler
  BY <1>6 DEF StepScheduler
<1>7. CASE PollScheduler
  BY <1>7, <1>c, <1>d DEF PollScheduler, EnterEnsure
<1>8. CASE LayerReady
  BY <1>8, <1>c, <1>d DEF LayerReady
<1>9. CASE PlanOffload
  BY <1>9, <1>b, <1>d DEF PlanOffload
<1>10. CASE LayerOffloaded
  BY <1>10, <1>b, <1>d DEF LayerOffloaded
<1>11. ASSUME NEW n \in 1..MaxPosition, Prefill(n) PROVE MapInv'
  BY <1>11, <1>a, <1>b, <1>d DEF Prefill
<1>12. ASSUME NEW b \in todo PROVE ~FailOnBlock(b)
  BY DEF Reachable, Gap, Resident, Offloaded, FailOnBlock
<1>13. ~FailOnUnknown
  BY DEF FailOnUnknown
<1> QED BY <1>1, <1>2, <1>3, <1>4, <1>5, <1>6, <1>7, <1>8, <1>9, <1>10, <1>11, <1>12, <1>13
        DEF RuntimeNext, Step

(* A map that has no gap at first has every block in one tier or both.     *)
LEMMA InitReachable == RuntimeInit /\ policy.gaps = 0 => Reachable
<1> SUFFICES ASSUME RuntimeInit, policy.gaps = 0 PROVE {b \in Blocks : Gap(b)} = {}
  BY DEF Reachable
<1>1. IsFiniteSet({b \in Blocks : Gap(b)})
  BY TierAssumption, FS_Subset DEF TierAssumption
<1>2. Cardinality({b \in Blocks : Gap(b)}) \in Nat
  BY <1>1, FS_CardinalityType
<1>3. Cardinality({b \in Blocks : Gap(b)}) = 0
  BY <1>2 DEF RuntimeInit
<1> QED BY <1>1, <1>3, FS_EmptySet

MapKept == MapCoversPositions => MapInv /\ DataInv

(* On such a map every block stays within reach and where its flags say.   *)
LEMMA SpecMapInv == RuntimeSpec => []MapKept
<1>1. RuntimeInit => MapKept
  <2> SUFFICES ASSUME RuntimeInit, MapCoversPositions PROVE MapInv /\ DataInv
    BY DEF MapKept
  <2>1. DataInv
    BY DEF RuntimeInit, Init, TierInit, DataInv, ResidentHasData, StoreHoldsData, Resident,
           Offloaded, HasBlock
  <2>2. 0 \in Layers
    BY RuntimeAssumption DEF RuntimeAssumption, Layers
  <2>3. Reachable
    BY InitReachable DEF MapCoversPositions
  <2> QED BY <2>1, <2>2, <2>3 DEF RuntimeInit, MapInv
<1>2. TypeInv /\ MapKept /\ [RuntimeNext]_allVars => MapKept'
  <2> SUFFICES ASSUME TypeInv, MapKept, [RuntimeNext]_allVars, MapCoversPositions'
               PROVE  (MapInv /\ DataInv)'
    BY DEF MapKept
  <2>1. MapInv /\ DataInv
    BY PolicyRigid DEF MapKept, MapCoversPositions
  <2>2. [Next]_vars /\ IndInv
    BY <2>1, StepIsScheduler DEF TypeInv
  <2> QED BY <2>1, <2>2, ReachableStep, MapStep, DataStep DEF MapInv
<1> QED BY <1>1, <1>2, TypeInvariant, PTL DEF RuntimeSpec, allVars

(* When the map describes every position the runtime decodes, each of its  *)
(* steps is a step of the scheduler's specification or leaves it alone.    *)
THEOREM Implements == RuntimeSpec => SchedulerSteps
<1>1. RuntimeInit => Init
  BY DEF RuntimeInit
<1>2. MapKept /\ [RuntimeNext]_allVars => [MapCoversPositions => Next]_vars
  <2> SUFFICES ASSUME MapKept, [RuntimeNext]_allVars, MapCoversPositions PROVE [Next]_vars
    OBVIOUS
  <2> QED BY StepIsScheduler DEF MapKept
<1> QED BY <1>1, <1>2, SpecMapInv, PTL DEF RuntimeSpec, SchedulerSteps, allVars

(* On such a map no block is ever lost to both tiers and no call fails.    *)
THEOREM Succeed == RuntimeSpec => []StepsSucceed
<1>1. MapKept => StepsSucceed
  BY DEF MapKept, MapInv, StepsSucceed
<1> QED BY <1>1, SpecMapInv, PTL

(* On such a map the blocks a query reads are in the hot cache with their  *)
(* K/V in every layer when attention begins.                               *)
THEOREM Attention == RuntimeSpec => []AttentionReady
<1>1. NoSilentFallback /\ MapKept => AttentionReady
  BY DEF NoSilentFallback, MapKept, DataInv, ResidentHasData, AttentionReady
<1> QED BY <1>1, SpecMapInv, NoFallback, PTL
-----------------------------------------------------------------------------
(* What a plan leaves resident.                                            *)

(* Taking from a layer's blocks those with fewer than e blocks before them *)
(* takes at least e of them, or all.                                       *)
LEMMA LowestBlocks ==
  ASSUME NEW S \in SUBSET Blocks, NEW e \in Nat, e <= Cardinality(S)
  PROVE  LET low == {b \in S : Cardinality({c \in S : c[2] < b[2]}) < e}
         IN  Cardinality(S \ low) <= Cardinality(S) - e
<1> DEFINE Before(b) == {c \in S : c[2] < b[2]}
           high == {b \in S : ~(Cardinality(Before(b)) < e)}
           T == {Before(b) : b \in high}
<1>1. \A b \in S : b[2] \in Nat
  BY RuntimeAssumption DEF RuntimeAssumption
<1>2. IsFiniteSet(S) /\ Cardinality(S) \in Nat
  BY TierAssumption, FS_Subset, FS_CardinalityType DEF TierAssumption
<1>3. SUFFICES Cardinality(high) <= Cardinality(S) - e
  <2>1. S \ {b \in S : Cardinality({c \in S : c[2] < b[2]}) < e} = high
    OBVIOUS
  <2> HIDE DEF high
  <2> QED BY <2>1, Zenon
<1>4. high \subseteq S
  OBVIOUS
<1>5. CASE high = {}
  <2>1. Cardinality(high) = 0
    BY <1>5, FS_EmptySet
  <2> HIDE DEF high
  <2> QED BY <1>2, <2>1
<1>6. CASE high # {}
  <2>1. IsWellFoundedOn(StrictSubsetOrdering(S), FiniteSubsetsOf(S))
    BY FS_StrictSubsetOrderingWellFounded
  <2>2. T \subseteq FiniteSubsetsOf(S)
    <3> SUFFICES ASSUME NEW b \in high PROVE Before(b) \in FiniteSubsetsOf(S)
      OBVIOUS
    <3>1. Before(b) \in SUBSET S
      OBVIOUS
    <3>2. IsFiniteSet(Before(b))
      BY <1>2, <3>1, FS_Subset
    <3> QED BY <3>1, <3>2 DEF FiniteSubsetsOf
  <2>3. T # {}
    <3>1. PICK b \in high : TRUE
      BY <1>6
    <3>2. Before(b) \in T
      BY <3>1
    <3> QED BY <3>2
  <2>4. PICK x \in T : \A y \in T : ~(<<y, x>> \in StrictSubsetOrdering(S))
    <3> HIDE DEF T
    <3> QED BY <2>1, <2>2, <2>3, WFMin
  <2>5. PICK m \in high : x = Before(m)
    BY <2>4
  <2>6. ASSUME NEW b \in high PROVE b \notin Before(m)
    <3> SUFFICES ASSUME b \in Before(m) PROVE FALSE
      OBVIOUS
    <3>1. b[2] \in Nat /\ m[2] \in Nat /\ b[2] < m[2]
      BY <1>1
    <3>2. Before(b) \subseteq Before(m) /\ b \notin Before(b)
      BY <1>1, <3>1
    <3>3. <<Before(b), Before(m)>> \in StrictSubsetOrdering(S)
      BY <3>2 DEF StrictSubsetOrdering
    <3> QED BY <3>3, <2>4, <2>5
  <2>7. PICK B \in SUBSET S : B = Before(m)
    OBVIOUS
  <2>8. IsFiniteSet(B) /\ Cardinality(B) \in Nat /\ e <= Cardinality(B)
    <3>1. IsFiniteSet(B) /\ Cardinality(B) \in Nat
      BY <1>2, FS_Subset, FS_CardinalityType
    <3>2. ~(Cardinality(B) < e)
      BY <2>5, <2>7
    <3> QED BY <3>1, <3>2
  <2>9. high \in SUBSET (S \ B)
    BY <1>4, <2>6, <2>7
  <2> HIDE DEF high
  <2>10. IsFiniteSet(S \ B) /\ Cardinality(S \ B) = Cardinality(S) - Cardinality(S \cap B)
    BY <1>2, FS_Difference
  <2>11. Cardinality(S \ B) = Cardinality(S) - Cardinality(B)
    <3>1. S \cap B = B
      BY <2>7
    <3> QED BY <2>10, <3>1, Zenon
  <2>12. Cardinality(high) <= Cardinality(S \ B) /\ Cardinality(high) \in Nat
         /\ Cardinality(S \ B) \in Nat
    BY <2>9, <2>10, FS_Subset, FS_CardinalityType
  <2> QED BY <1>2, <2>8, <2>11, <2>12
<1> QED BY <1>5, <1>6

Within(R, l, n) == Cardinality(R) <= policy.limit \/ R \subseteq Keep(l, n)

(* What a plan does not take is within the limit, or is kept.              *)
LEMMA PlanWithin ==
  ASSUME policy \in Policy, policy.limit # 0, NEW l \in Layers, NEW n \in Nat
  PROVE  /\ OffloadPlan(l, n) \subseteq ResidentIn(l)
         /\ Within(ResidentIn(l) \ OffloadPlan(l, n), l, n)
<1> DEFINE kept == ResidentIn(l) \cap Keep(l, n)
           others == ResidentIn(l) \ Keep(l, n)
           room == policy.limit - Cardinality(kept)
           excess == Cardinality(others) - (IF room > 0 THEN room ELSE 0)
           low == {b \in others : Cardinality({c \in others : c[2] < b[2]}) < excess}
<1>1. OffloadPlan(l, n) = IF excess > 0 THEN low ELSE others
  BY DEF OffloadPlan, ResidentIn
<1>2. policy.limit \in Nat
  BY DEF Policy
<1>3. ResidentIn(l) \in SUBSET Blocks
  BY DEF ResidentIn
<1>4. /\ others \in SUBSET Blocks /\ kept \in SUBSET Blocks
      /\ IsFiniteSet(others) /\ Cardinality(others) \in Nat
      /\ IsFiniteSet(kept) /\ Cardinality(kept) \in Nat
  <2>1. others \in SUBSET Blocks /\ kept \in SUBSET Blocks
    BY <1>3
  <2> HIDE DEF others, kept
  <2> QED BY <2>1, TierAssumption, FS_Subset, FS_CardinalityType DEF TierAssumption
<1>5. CASE ~(excess > 0)
  <2>1. OffloadPlan(l, n) = others
    BY <1>1, <1>5
  <2> QED BY <2>1 DEF Within
<1>6. CASE excess > 0
  <2>1. OffloadPlan(l, n) = low
    BY <1>1, <1>6
  <2>2. excess \in Nat /\ excess <= Cardinality(others)
    <3> HIDE DEF others, kept
    <3> QED BY <1>2, <1>4, <1>6
  <2>3. Cardinality(others \ low) <= Cardinality(others) - excess
    <3> HIDE DEF others, excess
    <3> QED BY <1>4, <2>2, LowestBlocks
  <2>4. ResidentIn(l) \ low = kept \cup (others \ low) /\ kept \cap (others \ low) = {}
    OBVIOUS
  <2>5. PICK rest : rest = others \ low
    OBVIOUS
  <2>6. rest \subseteq others /\ IsFiniteSet(rest) /\ Cardinality(rest) \in Nat
    <3>1. rest \in SUBSET others
      BY <2>5
    <3> HIDE DEF others
    <3> QED BY <1>4, <3>1, FS_Subset, FS_CardinalityType
  <2>7. Cardinality(kept \cup rest) = Cardinality(kept) + Cardinality(rest)
    <3>1. kept \cap rest = {}
      BY <2>4, <2>5
    <3> HIDE DEF kept
    <3>2. Cardinality(kept \cup rest) = Cardinality(kept) + Cardinality(rest) - Cardinality(kept \cap rest)
      BY <1>4, <2>6, FS_Union
    <3>3. Cardinality(kept \cap rest) = 0
      BY <3>1, FS_EmptySet
    <3> QED BY <1>4, <2>6, <3>2, <3>3
  <2>8. low \subseteq ResidentIn(l)
    OBVIOUS
  <2>9. CASE room > 0
    <3>1. excess = Cardinality(others) - room
      BY <2>9
    <3>2. Cardinality(kept) + Cardinality(rest) <= policy.limit
      <4> HIDE DEF others, kept, low, excess
      <4> QED BY <1>2, <1>4, <2>3, <2>5, <2>6, <3>1
    <3>3. Cardinality(ResidentIn(l) \ low) <= policy.limit
      BY <2>4, <2>5, <2>7, <3>2
    <3> QED BY <2>1, <2>8, <3>3 DEF Within
  <2>10. CASE ~(room > 0)
    <3>1. excess = Cardinality(others)
      <4> HIDE DEF others, kept
      <4> QED BY <1>4, <2>10
    <3>2. Cardinality(rest) = 0
      <4> HIDE DEF others, kept, low, excess
      <4> QED BY <1>4, <2>3, <2>5, <2>6, <3>1
    <3>3. rest = {}
      BY <2>6, <3>2, FS_EmptySet
    <3>4. ResidentIn(l) \ low \subseteq Keep(l, n)
      <4>1. ResidentIn(l) \ low = kept
        BY <2>4, <2>5, <3>3
      <4> QED BY <4>1
    <3> QED BY <2>1, <2>8, <3>4 DEF Within
  <2> QED BY <2>9, <2>10
<1> QED BY <1>5, <1>6

(* What the code keeps of the limit that docs/flash_kv_offload_tier.md     *)
(* calls hard: a layer that has more resident blocks than                  *)
(* max_resident_blocks after a call that succeeded has only kept ones.     *)
LimitOrKept ==
  pc = "idle" /\ last = "ok" /\ policy.limit # 0 =>
    \A l \in Layers :
      \/ Cardinality(ResidentIn(l)) <= policy.limit
      \/ ResidentIn(l) \subseteq Keep(l, target)

(* The layers the loop has been through are within the limit, and so will  *)
(* the one it is at when the rest of its plan has left.                    *)
BudgetInv ==
  /\ LimitOrKept
  /\ pc = "offload" /\ policy.limit # 0 =>
       /\ todo \subseteq ResidentIn(layer)
       /\ Within(ResidentIn(layer) \ todo, layer, target)
       /\ \A l \in 0..layer-1 : Within(ResidentIn(l), l, target)

(* Every runtime step keeps the budget.                                    *)
LEMMA BudgetStep == TypeInv /\ BudgetInv /\ [RuntimeNext]_allVars => BudgetInv'
<1> SUFFICES ASSUME TypeInv, BudgetInv, [RuntimeNext]_allVars PROVE BudgetInv'
  OBVIOUS
<1>a. policy \in Policy /\ layer \in Layers /\ target \in Nat /\ target' \in Nat /\ 0 \in Layers
  BY RuntimeTypes, RuntimeAssumption DEF TypeInv, RuntimeTypeOK, RuntimeAssumption, Layers
<1>1. CASE UNCHANGED allVars
  BY <1>1 DEF allVars, runtimeVars, vars, tierVars, BudgetInv, LimitOrKept, Within, ResidentIn,
              Resident, Keep, SinkBlocks, RecentBlocks
<1>2. CASE pc' \notin {"idle", "offload"}
  BY <1>2 DEF BudgetInv, LimitOrKept
<1>3. CASE pc' = "idle" /\ last' # "ok"
  BY <1>3 DEF BudgetInv, LimitOrKept
<1>4. CASE PlanOffload \/ \E n \in 1..MaxPosition : Prefill(n)
  <2>1. /\ pc' = "offload" /\ layer' = 0 /\ todo' = OffloadPlan(0, target')
        /\ UNCHANGED <<policy, residency>>
    BY <1>4 DEF PlanOffload, Prefill, vars, tierVars
  <2>2. policy.limit # 0 => /\ OffloadPlan(0, target') \subseteq ResidentIn(0)
                            /\ Within(ResidentIn(0) \ OffloadPlan(0, target'), 0, target')
    BY <1>a, PlanWithin
  <2> QED BY <2>1, <2>2 DEF BudgetInv, LimitOrKept, Within, ResidentIn, Resident, Keep,
                            SinkBlocks, RecentBlocks
<1>5. ASSUME NEW b \in todo, OffloadNext(b) PROVE BudgetInv'
  <2>1. /\ pc = "offload" /\ pc' = pc /\ todo' = todo \ {b}
        /\ UNCHANGED <<policy, target, layer>>
        /\ residency' = [residency EXCEPT ![b] = "offloaded"]
    BY <1>5 DEF OffloadNext, Offload, OffloadBlock
  <2>2. PICK k \in Layers : k = layer
    BY <1>a
  <2>3. SUFFICES ASSUME policy.limit # 0
                 PROVE  /\ (todo \ {b}) \subseteq ResidentIn(k)'
                        /\ Within(ResidentIn(k)' \ (todo \ {b}), k, target)
                        /\ \A l \in 0..k-1 : Within(ResidentIn(l)', l, target)
    BY <2>1, <2>2 DEF BudgetInv, LimitOrKept, Within, Keep, SinkBlocks, RecentBlocks, ResidentIn, Resident
  <2>4. /\ todo \subseteq ResidentIn(k)
        /\ Within(ResidentIn(k) \ todo, k, target)
        /\ \A l \in 0..k-1 : Within(ResidentIn(l), l, target)
    BY <2>1, <2>2, <2>3 DEF BudgetInv
  <2>5. residency \in [Blocks -> Residency]
    BY DEF TypeInv, RuntimeTypeOK, TypeOK, TierTypeOK
  <2>6. \A l \in Layers : ResidentIn(l)' = ResidentIn(l) \ {b}
    BY <2>1, <2>5 DEF ResidentIn, Resident
  <2>7. b[1] = k
    BY <2>4 DEF ResidentIn
  <2>8. ResidentIn(k)' \ (todo \ {b}) = ResidentIn(k) \ todo
    <3>1. ResidentIn(k)' = ResidentIn(k) \ {b}
      BY <2>6
    <3> QED BY <3>1
  <2>9. \A l \in 0..k-1 : ResidentIn(l)' = ResidentIn(l)
    <3> SUFFICES ASSUME NEW l \in 0..k-1 PROVE ResidentIn(l)' = ResidentIn(l)
      OBVIOUS
    <3>1. l # k /\ l \in Layers
      BY RuntimeAssumption DEF RuntimeAssumption, Layers
    <3>2. b \notin ResidentIn(l) /\ ResidentIn(l)' = ResidentIn(l) \ {b}
      BY <2>6, <2>7, <3>1 DEF ResidentIn
    <3> QED BY <3>2
  <2>10. (todo \ {b}) \subseteq ResidentIn(k)'
    <3>1. ResidentIn(k)' = ResidentIn(k) \ {b}
      BY <2>6
    <3> QED BY <2>4, <3>1
  <2>11. \A l \in 0..k-1 : Within(ResidentIn(l)', l, target)
    BY <2>4, <2>9, Zenon
  <2>12. Within(ResidentIn(k)' \ (todo \ {b}), k, target)
    BY <2>4, <2>8, Zenon
  <2> QED BY <2>10, <2>11, <2>12
<1>6. CASE LayerOffloaded
  <2>1. pc = "offload" /\ todo = {} /\ UNCHANGED <<policy, residency, target>>
    BY <1>6 DEF LayerOffloaded, vars, tierVars
  <2>2. SUFFICES ASSUME policy.limit # 0 PROVE BudgetInv'
    BY <2>1 DEF BudgetInv, LimitOrKept
  <2>3. \A l \in 0..layer : Within(ResidentIn(l), l, target)
    <3>1. Within(ResidentIn(layer), layer, target)
      <4>1. ResidentIn(layer) \ todo = ResidentIn(layer)
        BY <2>1
      <4> QED BY <2>1, <2>2, <4>1 DEF BudgetInv
    <3>2. \A l \in 0..layer-1 : Within(ResidentIn(l), l, target)
      BY <2>1, <2>2 DEF BudgetInv
    <3>3. \A l \in 0..layer : l = layer \/ l \in 0..layer-1
      BY <1>a DEF Layers
    <3> QED BY <3>1, <3>2, <3>3
  <2>4. \A l : Within(ResidentIn(l), l, target) => Within(ResidentIn(l), l, target)'
    BY <2>1 DEF Within, ResidentIn, Resident, Keep, SinkBlocks, RecentBlocks
  <2>5. CASE layer + 1 < NumLayers
    <3>1. PICK k \in Layers : k = layer + 1 /\ 0..k-1 = 0..layer
      BY <1>a, <2>5, RuntimeAssumption DEF RuntimeAssumption, Layers
    <3>2. layer' = k /\ todo' = OffloadPlan(k, target) /\ pc' = "offload"
      BY <1>6, <2>1, <2>5, <3>1 DEF LayerOffloaded
    <3>3. /\ OffloadPlan(k, target) \subseteq ResidentIn(k)
          /\ Within(ResidentIn(k) \ OffloadPlan(k, target), k, target)
      BY <1>a, <2>2, PlanWithin
    <3>4. SUFFICES /\ OffloadPlan(k, target) \subseteq ResidentIn(k)'
                   /\ Within(ResidentIn(k)' \ OffloadPlan(k, target), k, target)
                   /\ \A l \in 0..k-1 : Within(ResidentIn(l), l, target)'
      BY <2>1, <3>2 DEF BudgetInv, LimitOrKept, Within, Keep, SinkBlocks, RecentBlocks,
                        ResidentIn, Resident
    <3>5. ResidentIn(k)' = ResidentIn(k)
      BY <2>1 DEF ResidentIn, Resident
    <3>6. /\ OffloadPlan(k, target) \subseteq ResidentIn(k)'
          /\ Within(ResidentIn(k)' \ OffloadPlan(k, target), k, target)
      BY <3>3, <3>5, Zenon
    <3>7. \A l \in 0..k-1 : Within(ResidentIn(l), l, target)'
      BY <2>3, <2>4, <3>1
    <3> QED BY <3>6, <3>7
  <2>6. CASE ~(layer + 1 < NumLayers)
    <3>1. pc' = "idle"
      BY <1>6, <2>6 DEF LayerOffloaded
    <3>2. Layers \subseteq 0..layer
      BY <1>a, <2>6, RuntimeAssumption DEF RuntimeAssumption, Layers
    <3> QED BY <2>3, <2>4, <3>1, <3>2 DEF BudgetInv, LimitOrKept, Within
  <2> QED BY <2>5, <2>6
<1>7. CASE StartDecode \/ StartDecodeOnDemand \/ StepScheduler \/ PollScheduler \/ LayerReady
  BY <1>2, <1>7 DEF StartDecode, StartDecodeOnDemand, StepScheduler, PollScheduler, LayerReady,
                    EnterEnsure
<1>8. ASSUME NEW b \in todo, SubmitLookahead(b) \/ FetchBlock(b) \/ PassBlock(b) PROVE BudgetInv'
  BY <1>2, <1>8 DEF SubmitLookahead, FetchBlock, PassBlock
<1>9. CASE FailOnUnknown \/ \E b \in todo : FailOnBlock(b)
  BY <1>3, <1>9 DEF FailOnUnknown, FailOnBlock, FailEnsure
<1> QED BY <1>1, <1>4, <1>5, <1>6, <1>7, <1>8, <1>9 DEF RuntimeNext, Step

(* After every successful prefill or decode step each layer has at most    *)
(* max_resident_blocks resident blocks or only those that are kept, for    *)
(* every map, policy and position.                                         *)
THEOREM Budget == RuntimeSpec => []LimitOrKept
<1>1. RuntimeInit => BudgetInv
  BY DEF RuntimeInit, BudgetInv, LimitOrKept
<1>2. BudgetInv => LimitOrKept
  BY DEF BudgetInv
<1> QED BY <1>1, <1>2, BudgetStep, TypeInvariant, PTL DEF RuntimeSpec, allVars
=============================================================================
