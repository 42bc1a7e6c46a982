--------------------------- MODULE KVOffloadTier ---------------------------
(***************************************************************************)
(* The offload tier under the prefetch scheduler and the long-context      *)
(* runtime: the residency map, the hot layer caches and the offload store. *)
(*                                                                         *)
(* A block of a layer cache is a member of Blocks.  The K/V numbers are    *)
(* abstracted to what tells a correct cache from a broken one: a block     *)
(* holds its "kv", "zero" (it was cleared, or never written), or, in the   *)
(* store, "none" (no entry).                                               *)
(***************************************************************************)
EXTENDS Naturals, FiniteSets

CONSTANTS
  Blocks,     \* the KVBlockIds of a run
  LayerOf,    \* LayerOf[b]: the layer_idx of block b
  Overwrite   \* may put_block replace an entry: the in-memory store always,
              \* FileKVOffloadStore only when built with overwrite=True

ASSUME TierAssumption ==
  /\ IsFiniteSet(Blocks)
  /\ LayerOf \in [Blocks -> Nat]
  /\ Overwrite \in BOOLEAN

VARIABLES
  residency,  \* KVResidencyMap.blocks: the two flags of a block's metadata;
              \* "unknown" is a block the map has no entry for
  hot,        \* what the layer cache holds at the block's token range
  stored      \* what the offload store holds for the block

tierVars == <<residency, hot, stored>>

Residency == {"unknown", "resident", "offloaded", "neither"}

Resident(b)  == residency[b] = "resident"
Offloaded(b) == residency[b] = "offloaded"
HasBlock(b)  == stored[b] # "none"

TierTypeOK ==
  /\ residency \in [Blocks -> Residency]
  /\ hot \in [Blocks -> {"kv", "zero"}]
  /\ stored \in [Blocks -> {"none", "kv", "zero"}]

(***************************************************************************)
(* A map as the callers build it: a resident block is in the hot cache;    *)
(* an offloaded one was put in the store with its data, or its entry was   *)
(* built by hand and the store has nothing (a path _do_prefetch tests).    *)
(***************************************************************************)
TierInit ==
  /\ residency \in [Blocks -> Residency]
  /\ hot \in [Blocks -> {"kv", "zero"}]
  /\ stored \in [Blocks -> {"none", "kv"}]
  /\ \A b \in Blocks :
       /\ Resident(b) => hot[b] = "kv" /\ ~HasBlock(b)
       /\ residency[b] \in {"unknown", "neither"} => hot[b] = "zero" /\ ~HasBlock(b)
       /\ Offloaded(b) /\ ~HasBlock(b) => hot[b] = "zero"

(***************************************************************************)
(* offload_kv_block as every caller in the repository reaches it, for a    *)
(* block the plan found resident: copy the hot block to the store, flip    *)
(* the flags, and clear the hot copy when the caller asked for zero_hot.   *)
(* A store that refuses to overwrite raises before anything changed.       *)
(***************************************************************************)
OffloadBlockUnguarded(b, zeroHot) ==  \* mutant: the test of meta.resident is gone
  /\ residency[b] # "unknown"
  /\ Overwrite \/ ~HasBlock(b)
  /\ stored' = [stored EXCEPT ![b] = hot[b]]
  /\ residency' = [residency EXCEPT ![b] = "offloaded"]
  /\ hot' = IF zeroHot THEN [hot EXCEPT ![b] = "zero"] ELSE hot

OffloadBlock(b, zeroHot) ==
  /\ Resident(b)
  /\ Overwrite \/ ~HasBlock(b)
  /\ stored' = [stored EXCEPT ![b] = hot[b]]
  /\ residency' = [residency EXCEPT ![b] = "offloaded"]
  /\ hot' = IF zeroHot THEN [hot EXCEPT ![b] = "zero"] ELSE hot

(***************************************************************************)
(* prefetch_kv_block for every block of S at once: insert the stored copy  *)
(* in the hot cache and flip the flags.  The store keeps its copy.         *)
(***************************************************************************)
PrefetchBlocksNoInsert(S) ==  \* mutant: the updated cache is dropped
  /\ UNCHANGED <<hot, stored>>
  /\ residency' = [b \in Blocks |-> IF b \in S THEN "resident" ELSE residency[b]]

PrefetchBlocksKeepFlag(S) ==  \* mutant: the flags are not flipped
  /\ hot' = [b \in Blocks |-> IF b \in S THEN stored[b] ELSE hot[b]]
  /\ UNCHANGED <<residency, stored>>

PrefetchBlocks(S) ==
  /\ hot' = [b \in Blocks |-> IF b \in S THEN stored[b] ELSE hot[b]]
  /\ residency' = [b \in Blocks |-> IF b \in S THEN "resident" ELSE residency[b]]
  /\ stored' = stored

(***************************************************************************)
(* Safety: the flag "resident" is what attention trusts, so a block that   *)
(* carries it has its K/V in the hot cache (models/kv_offload.py, the      *)
(* resident flag; docs/flash_kv_offload_tier.md: "Can be attended to       *)
(* immediately").                                                          *)
(***************************************************************************)
ResidentHasData == \A b \in Blocks : Resident(b) => hot[b] = "kv"

(***************************************************************************)
(* Safety: what the store holds for a block is its K/V, never a cleared    *)
(* hot range that was offloaded a second time.                             *)
(***************************************************************************)
StoreHoldsData == \A b \in Blocks : HasBlock(b) => stored[b] = "kv"
=============================================================================
