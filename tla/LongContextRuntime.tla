------------------------- MODULE LongContextRuntime -------------------------
(***************************************************************************)
(* models/long_context_runtime.py over the tier and the scheduler: prefill *)
(* plans which blocks leave, a decode step submits the blocks the next     *)
(* tokens will read, steps and polls the scheduler, fetches on demand what *)
(* this token reads and is still away, and plans again.                    *)
(*                                                                         *)
(* A decode step is one call; it is split here at the loops it runs over   *)
(* layers and blocks, so that each of its steps is one operation of the    *)
(* scheduler or of the tier, or a failure in the middle.  The state is the *)
(* one the tests build: a list of layer caches, no prefix cache.  The step *)
(* computes no logits and writes no K/V (the code is a scaffold there).    *)
(***************************************************************************)
EXTENDS KVPrefetchScheduler

CONSTANTS
  NumLayers,     \* num_hidden_layers
  NumBlocks,     \* blocks of a layer in the residency map
  BlockSize,     \* policy.block_size
  Policies,      \* the runtime configurations to run under
  MaxPosition    \* BOUND on state.position

Policy == [window : Nat, sinkTokens : Nat, keepRecent : Nat, keepSink : Nat,
           limit : Nat,          \* max_resident_blocks, 0 for None
           lookahead : Nat,
           scheduler : BOOLEAN,  \* use_prefetch_scheduler
           gaps : Nat]           \* BOUND on the blocks that neither tier holds at first

ASSUME RuntimeAssumption ==
  /\ NumLayers \in Nat \ {0} /\ NumBlocks \in Nat \ {0} /\ BlockSize \in Nat \ {0}
  /\ Blocks = (0..NumLayers-1) \X (0..NumBlocks-1)
  /\ LayerOf = [b \in Blocks |-> b[1]]
  /\ Overwrite = TRUE
  /\ NumLayers \in CacheArgs
  /\ Policies \subseteq Policy
  /\ MaxPosition \in Nat

VARIABLES
  policy,    \* runtime_config, fixed when the runtime is built
  position,  \* state.position
  target,    \* new_position in a decode step, the prompt's length in a prefill
  pc,        \* where the call is
  layer,     \* layer_idx of the running loop
  todo,      \* blocks the running loop has still to visit
  missing,   \* has the ensure loop met a block without metadata
  before,    \* the hot caches as they were when this layer's loop began
  last       \* how the last call ended

runtimeVars == <<policy, position, target, pc, layer, todo, missing, before, last>>

Layers == 0..NumLayers-1

(* A block that is in neither tier: the map has no entry for it, or an      *)
(* entry with neither flag, or one offloaded that the store does not hold.  *)
Gap(b) == ~Resident(b) /\ ~(Offloaded(b) /\ HasBlock(b))

RuntimeInit ==
  /\ Init
  /\ policy \in Policies
  /\ Cardinality({b \in Blocks : Gap(b)}) <= policy.gaps
  /\ position \in 0..MaxPosition
  /\ target = position
  /\ pc = "idle" /\ layer = 0 /\ todo = {} /\ missing = FALSE
  /\ before = hot
  /\ last = "none"

-----------------------------------------------------------------------------
(* Which blocks a query needs, and which the policy keeps.                 *)

(* The query at length - 1 reads its window and the sink tokens.           *)
NeededPositionsNext(length) ==  \* mutant: the window ends one position late
  {p \in 0..length : p >= length - policy.window \/ p < policy.sinkTokens}

NeededPositions(length) ==
  {p \in 0..length-1 : p >= length - policy.window \/ p < policy.sinkTokens}

NeededBlocks(l, length) == {<<l, p \div BlockSize>> : p \in NeededPositions(length)}

(* prefetch_blocks_for_sparse_decode is called with the length this step    *)
(* reads and looks at the lengths after it.                                 *)
LookaheadBlocks(length) ==
  LET tokens == IF policy.lookahead = 0 THEN 1 ELSE policy.lookahead
  IN  {b \in Blocks : /\ Offloaded(b)
                      /\ \E i \in 1..tokens : b \in NeededBlocks(b[1], length + i)}

SinkBlocks(l) == {b \in Blocks : b[1] = l /\ b[2] < policy.keepSink}

RecentBlocksLate(l, current) ==  \* mutant: one block too few
  {b \in Blocks : /\ b[1] = l
                  /\ b[2] <= current \div BlockSize
                  /\ b[2] > current \div BlockSize - policy.keepRecent + 1}

RecentBlocks(l, current) ==
  {b \in Blocks : /\ b[1] = l
                  /\ b[2] <= current \div BlockSize
                  /\ b[2] > current \div BlockSize - policy.keepRecent}

Keep(l, current) == SinkBlocks(l) \cup RecentBlocks(l, current)

(* plan_offload_blocks: the resident blocks that are not kept; with a limit *)
(* that they exceed, only the lowest ones, as many as exceed it.  The kept  *)
(* blocks use up the limit but are never cut: beyond it the room is 0.      *)
OffloadPlan(l, current) ==
  LET resident == {b \in Blocks : b[1] = l /\ Resident(b)}
      others   == resident \ Keep(l, current)
      room     == policy.limit - Cardinality(resident \cap Keep(l, current))
      excess   == Cardinality(others) - (IF room > 0 THEN room ELSE 0)
  IN  IF policy.limit # 0 /\ excess > 0
      THEN {b \in others : Cardinality({c \in others : c[2] < b[2]}) < excess}
      ELSE others

-----------------------------------------------------------------------------
(* A decode step.                                                          *)

(* The loops go by layer, and by block index within a layer.               *)
Earlier(b, c) == b[1] < c[1] \/ (b[1] = c[1] /\ b[2] < c[2])
NextBlock(b) == b \in todo /\ \A c \in todo \ {b} : Earlier(b, c)

EnterEnsure(length) ==
  /\ pc' = "ensure" /\ layer' = 0
  /\ todo' = NeededBlocks(0, length)
  /\ missing' = FALSE
  /\ before' = hot'

StartDecode ==
  /\ pc = "idle" /\ policy.scheduler
  /\ position < MaxPosition
  /\ nextSeq + Cardinality(LookaheadBlocks(position + 1)) <= MaxRequests
  /\ target' = position + 1
  /\ pc' = "submit"
  /\ todo' = LookaheadBlocks(position + 1)
  /\ UNCHANGED <<vars, policy, position, layer, missing, before, last>>

StartDecodeOnDemand ==
  /\ pc = "idle" /\ ~policy.scheduler
  /\ position < MaxPosition
  /\ target' = position + 1
  /\ UNCHANGED <<vars, policy, position, last>>
  /\ EnterEnsure(position + 1)

SubmitLookahead(b) ==
  /\ pc = "submit"
  /\ NextBlock(b)
  /\ Submit(b, 0)
  /\ todo' = todo \ {b}
  /\ UNCHANGED <<policy, position, target, pc, layer, missing, before, last>>

StepScheduler ==
  /\ pc = "submit" /\ todo = {}
  /\ AdvanceStep(NumLayers)
  /\ pc' = "poll"
  /\ UNCHANGED <<policy, position, target, layer, todo, missing, before, last>>

(* The results of the poll go into the report only.                         *)
PollScheduler ==
  /\ pc = "poll"
  /\ PollReady(NumLayers)
  /\ EnterEnsure(target)
  /\ UNCHANGED <<policy, position, target, last>>

(* ensure_blocks_ready_for_attention, one block at a time.                  *)
Unknown(b) == b \in Blocks => residency[b] = "unknown"

FetchBlockCacheDropped(b) ==  \* mutant: the returned cache is not kept
  /\ pc = "ensure" /\ NextBlock(b)
  /\ Offloaded(b) /\ HasBlock(b)
  /\ residency' = [residency EXCEPT ![b] = "resident"]
  /\ todo' = todo \ {b}
  /\ UNCHANGED <<hot, stored, schedVars, call, policy, position, target, pc, layer,
                 missing, before, last>>

FetchBlock(b) ==
  /\ pc = "ensure" /\ NextBlock(b)
  /\ ~Unknown(b)
  /\ DemandPrefetch(b)
  /\ todo' = todo \ {b}
  /\ UNCHANGED <<policy, position, target, pc, layer, missing, before, last>>

PassBlockUnseen(b) ==  \* mutant: a block that is away is passed over
  /\ pc = "ensure" /\ NextBlock(b)
  /\ ~Unknown(b) => residency[b] # "neither"
  /\ missing' = (missing \/ Unknown(b))
  /\ todo' = todo \ {b}
  /\ UNCHANGED <<vars, policy, position, target, pc, layer, before, last>>

PassBlock(b) ==
  /\ pc = "ensure" /\ NextBlock(b)
  /\ ~Unknown(b) => Resident(b)
  /\ missing' = (missing \/ Unknown(b))
  /\ todo' = todo \ {b}
  /\ UNCHANGED <<vars, policy, position, target, pc, layer, before, last>>

(* An exception leaves the flags this layer's fetches flipped and drops     *)
(* the cache they were inserted in.  RuntimeError is caught and reported;   *)
(* a store that lacks the block raises KeyError, which goes to the caller.  *)
FailEnsure(how) ==
  /\ hot' = before
  /\ pc' = "idle" /\ todo' = {} /\ last' = how
  /\ UNCHANGED <<residency, stored, schedVars, call, policy, position, target, layer,
                 missing, before>>

FailOnBlock(b) ==
  /\ pc = "ensure" /\ NextBlock(b)
  /\ ~Unknown(b)
  /\ \/ residency[b] = "neither" /\ FailEnsure("failed")
     \/ (Offloaded(b) /\ ~HasBlock(b)) /\ FailEnsure("raised")

FailOnUnknown ==
  /\ pc = "ensure" /\ todo = {} /\ missing
  /\ FailEnsure("failed")

LayerReadyAnyway ==  \* mutant: the blocks without metadata are not looked at
  /\ pc = "ensure" /\ todo = {}
  /\ IF layer + 1 < NumLayers
     THEN /\ layer' = layer + 1
          /\ todo' = NeededBlocks(layer + 1, target)
          /\ pc' = pc
     ELSE pc' = "attend" /\ UNCHANGED <<layer, todo>>
  /\ before' = hot
  /\ UNCHANGED <<vars, policy, position, target, missing, last>>

LayerReady ==
  /\ pc = "ensure" /\ todo = {} /\ ~missing
  /\ IF layer + 1 < NumLayers
     THEN /\ layer' = layer + 1
          /\ todo' = NeededBlocks(layer + 1, target)
          /\ pc' = pc
     ELSE pc' = "attend" /\ UNCHANGED <<layer, todo>>
  /\ before' = hot
  /\ UNCHANGED <<vars, policy, position, target, missing, last>>

-----------------------------------------------------------------------------
(* Offloading, after a decode step and after a prefill.                    *)

PlanOffload ==
  /\ pc = "attend"
  /\ pc' = "offload" /\ layer' = 0
  /\ todo' = OffloadPlan(0, target)
  /\ UNCHANGED <<vars, policy, position, target, missing, before, last>>

(* With the prefix cache off, prefill only sets the position.               *)
Prefill(n) ==
  /\ pc = "idle"
  /\ position' = n /\ target' = n
  /\ pc' = "offload" /\ layer' = 0
  /\ todo' = OffloadPlan(0, n)
  /\ UNCHANGED <<vars, policy, missing, before, last>>

OffloadNext(b) ==
  /\ pc = "offload" /\ NextBlock(b)
  /\ Offload(b, FALSE)
  /\ todo' = todo \ {b}
  /\ UNCHANGED <<policy, position, target, pc, layer, missing, before, last>>

LayerOffloaded ==
  /\ pc = "offload" /\ todo = {}
  /\ IF layer + 1 < NumLayers
     THEN /\ layer' = layer + 1
          /\ todo' = OffloadPlan(layer + 1, target)
          /\ UNCHANGED <<pc, position, last>>
     ELSE /\ pc' = "idle" /\ position' = target /\ last' = "ok"
          /\ UNCHANGED <<layer, todo>>
  /\ UNCHANGED <<vars, policy, target, missing, before>>

Step ==
  \/ StartDecode
  \/ StartDecodeOnDemand
  \/ \E b \in todo : SubmitLookahead(b) \/ FetchBlock(b) \/ PassBlock(b) \/ FailOnBlock(b)
  \/ StepScheduler
  \/ PollScheduler
  \/ FailOnUnknown
  \/ LayerReady
  \/ PlanOffload
  \/ \E b \in todo : OffloadNext(b)
  \/ LayerOffloaded

RuntimeNext == Step \/ \E n \in 1..MaxPosition : Prefill(n)

RuntimeSpec == RuntimeInit /\ [][RuntimeNext]_<<vars, runtimeVars>>

-----------------------------------------------------------------------------
(* Properties.                                                             *)

RuntimeTypeOK ==
  /\ TypeOK
  /\ policy \in Policies
  /\ position \in 0..MaxPosition /\ target \in 0..MaxPosition
  /\ pc \in {"idle", "submit", "poll", "ensure", "attend", "offload"}
  /\ layer \in Layers
  /\ todo \subseteq Layers \X Nat
  /\ missing \in BOOLEAN
  /\ before \in [Blocks -> {"kv", "zero"}]
  /\ last \in {"none", "ok", "failed", "raised"}

(* The map describes every position the runtime decodes, and has no gap.   *)
MapCoversPositions == policy.gaps = 0 /\ MaxPosition <= NumBlocks * BlockSize

(* On such a map no sequence of prefills, decode steps, vain submits and   *)
(* offloads loses a block to both tiers, and so no call ever fails.        *)
Reachable == \A b \in Blocks : ~Gap(b)

StepsSucceed == MapCoversPositions => Reachable /\ last \in {"none", "ok"}

(* On such a map each of the runtime's steps is a step of the scheduler's  *)
(* specification or leaves its variables alone.                            *)
SchedulerSteps == Init /\ [][MapCoversPositions => Next]_vars

(* A decode step goes on to attention only when every block it needs, in   *)
(* every layer, is in the map and flagged resident: blocks that no map     *)
(* entry describes, or that neither tier holds, end the step               *)
(* (docs/long_context_runtime_integration.md: "no silent fallback").       *)
NoSilentFallback ==
  pc = "attend" =>
    \A l \in Layers : \A b \in NeededBlocks(l, target) : b \in Blocks /\ Resident(b)

(* When a decode step gets past its ensure loops, every block the query    *)
(* reads is in the hot cache of its layer, in all layers at once, whatever *)
(* the scheduler delivered or still has in flight (on a map without gaps:  *)
(* what a failed step does to the data is ResidentHasData's business).     *)
AttentionReady ==
  MapCoversPositions /\ pc = "attend" =>
    \A l \in Layers : \A b \in NeededBlocks(l, target) :
      b \in Blocks /\ Resident(b) /\ hot[b] = "kv"

(* A plan never offloads a block that the next decode step reads, when     *)
(* keep_recent_blocks covers the window wherever it falls on the block     *)
(* grid and keep_sink_blocks covers the sink tokens.                       *)
PolicyCovers ==
  /\ policy.keepRecent >= 1 + (policy.window + BlockSize - 2) \div BlockSize
  /\ policy.keepSink * BlockSize >= policy.sinkTokens

PlanSparesNextStep ==
  pc = "offload" /\ PolicyCovers => todo \cap NeededBlocks(layer, target + 1) = {}

(* docs/flash_kv_offload_tier.md calls max_resident_blocks a "Hard limit   *)
(* on resident blocks": no layer has more of them after a call that        *)
(* succeeded.  The code never plans a kept block away, and so goes past    *)
(* the limit when the sink and recent blocks alone are more.               *)
ResidentIn(l) == {b \in Blocks : b[1] = l /\ Resident(b)}

HardLimit ==
  pc = "idle" /\ last = "ok" /\ policy.limit # 0 =>
    \A l \in Layers : Cardinality(ResidentIn(l)) <= policy.limit
=============================================================================
