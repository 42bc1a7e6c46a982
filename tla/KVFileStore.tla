---------------------------- MODULE KVFileStore ----------------------------
(***************************************************************************)
(* FileKVOffloadStore (models/kv_offload_store.py): one directory for each *)
(* offloaded block with k.npy, v.npy and meta.json, written one after the  *)
(* other, in place, by one process.  put_block and delete_block may be cut *)
(* short between two of their file operations or within one: the process   *)
(* dies and a new store is built on the same root, with either value of    *)
(* overwrite, or the disk is full and the caller gets an exception.        *)
(*                                                                         *)
(* get_block, has_block and stats change nothing but counters; they are    *)
(* operators that the properties evaluate in every state in which the      *)
(* caller may call them.                                                   *)
(***************************************************************************)
EXTENDS Naturals, Sequences, Disk

CONSTANTS
    FileBlocks,  \* block ids
    Payloads,    \* pairs of K and V arrays that are put
    MaxStoreCuts \* bound: operations cut short

NoPayload == "none"
ASSUME StoreAssumption == NoPayload \notin Payloads /\ MaxStoreCuts \in Nat

VARIABLES
    blockDirs,   \* the blocks whose directory exists
    blockFiles,  \* blockFiles[b][f]: the file f of the directory of b
    overwrite,   \* what the store was built with
    storeOp,     \* the operation under way
    lastPut,     \* history: what the last put_block that returned put there
    cut,         \* history: how operations on b were cut short since then
    storeCuts    \* bounded by MaxStoreCuts

storeVars == <<blockDirs, blockFiles, overwrite, storeOp, lastPut, cut, storeCuts>>

Files == {"k", "v", "meta"}
StoreIdle == [name |-> "idle"]
Ready == storeOp = StoreIdle

StoreInit ==
    /\ blockDirs = {}
    /\ blockFiles = [b \in FileBlocks |-> [f \in Files |-> Absent]]
    /\ overwrite \in BOOLEAN
    /\ storeOp = StoreIdle
    /\ lastPut = [b \in FileBlocks |-> NoPayload]
    /\ cut = [b \in FileBlocks |-> {}]
    /\ storeCuts = 0

---------------------------------------------------------------------------
(* put_block looks for k.npy only, then writes the three files.  meta.json *)
(* records the checksums of both arrays; nothing reads it.                 *)

WriteOrder == <<"k", "v", "meta">>

PutUnrefused(b) == FALSE  \* mutant: an existing block is written over
PutRefused(b) == Exists(blockFiles[b]["k"]) /\ ~overwrite

put_block(b, d) ==
    /\ Ready
    /\ ~PutRefused(b)
    /\ blockDirs' = blockDirs \cup {b}
    /\ storeOp' = [name |-> "put", block |-> b, payload |-> d, todo |-> WriteOrder,
                   as |-> IF overwrite /\ Exists(blockFiles[b]["k"]) THEN "overwrite" ELSE "put"]
    /\ UNCHANGED <<blockFiles, overwrite, lastPut, cut, storeCuts>>

WriteFile ==
    /\ storeOp.name = "put"
    /\ LET b == storeOp.block
           f == Head(storeOp.todo)
       IN  /\ blockFiles' = [blockFiles EXCEPT ![b][f] = Whole(<<f, storeOp.payload>>)]
           /\ IF Len(storeOp.todo) > 1
              THEN /\ storeOp' = [storeOp EXCEPT !.todo = Tail(@)]
                   /\ UNCHANGED <<lastPut, cut>>
              ELSE /\ storeOp' = StoreIdle
                   /\ lastPut' = [lastPut EXCEPT ![b] = storeOp.payload]
                   /\ cut' = [cut EXCEPT ![b] = {}]
    /\ UNCHANGED <<blockDirs, overwrite, storeCuts>>

(* shutil.rmtree removes the files in the order the directory lists them. *)
delete_block(b) ==
    /\ Ready
    /\ b \in blockDirs
    /\ storeOp' = [name |-> "delete", block |-> b, as |-> "delete"]
    /\ UNCHANGED <<blockDirs, blockFiles, overwrite, lastPut, cut, storeCuts>>

RemoveFile ==
    /\ storeOp.name = "delete"
    /\ \E f \in Files :
          /\ Exists(blockFiles[storeOp.block][f])
          /\ blockFiles' = [blockFiles EXCEPT ![storeOp.block][f] = Absent]
    /\ UNCHANGED <<blockDirs, overwrite, storeOp, lastPut, cut, storeCuts>>

RemoveDir ==
    /\ storeOp.name = "delete"
    /\ \A f \in Files : ~Exists(blockFiles[storeOp.block][f])
    /\ blockDirs' = blockDirs \ {storeOp.block}
    /\ storeOp' = StoreIdle
    /\ lastPut' = [lastPut EXCEPT ![storeOp.block] = NoPayload]
    /\ cut' = [cut EXCEPT ![storeOp.block] = {}]
    /\ UNCHANGED <<blockFiles, overwrite, storeCuts>>

CutShort ==
    /\ ~Ready
    /\ storeCuts < MaxStoreCuts /\ storeCuts' = storeCuts + 1
    /\ LET b == storeOp.block
       IN  /\ \/ UNCHANGED blockFiles
              \/ /\ storeOp.name = "put"
                 /\ blockFiles' = [blockFiles EXCEPT ![b][Head(storeOp.todo)] = Torn]
           /\ cut' = [cut EXCEPT ![b] = @ \cup {storeOp.as}]
    /\ storeOp' = StoreIdle
    /\ overwrite' \in BOOLEAN
    /\ UNCHANGED <<blockDirs, lastPut>>

StoreNext ==
    \/ \E b \in FileBlocks, d \in Payloads : put_block(b, d)
    \/ \E b \in FileBlocks : delete_block(b)
    \/ WriteFile \/ RemoveFile \/ RemoveDir \/ CutShort
StoreSpec == StoreInit /\ [][StoreNext]_storeVars

---------------------------------------------------------------------------
has_block(b) == Exists(blockFiles[b]["k"]) /\ Exists(blockFiles[b]["v"])
GetReturns(b) == has_block(b) /\ IsWhole(blockFiles[b]["k"]) /\ IsWhole(blockFiles[b]["v"])
get_block(b) == <<Content(blockFiles[b]["k"]), Content(blockFiles[b]["v"])>>

(* has_block and get_block, whenever they can be called, agree with the last
   put or delete that returned; K and V of two different puts come back, with
   no error, only after a put over an existing block was cut short, or a
   delete and later a put were (put_block, get_block, has_block and
   delete_block of FileKVOffloadStore).  Any put or delete that returns heals
   the block. *)
BlockOfOnePut ==
    Ready => \A b \in FileBlocks :
       /\ cut[b] = {} => /\ has_block(b) <=> lastPut[b] # NoPayload
                         /\ has_block(b) => /\ GetReturns(b)
                                            /\ get_block(b) = <<<<"k", lastPut[b]>>, <<"v", lastPut[b]>>>>
       /\ GetReturns(b) /\ get_block(b)[1][2] # get_block(b)[2][2] =>
             "overwrite" \in cut[b] \/ {"put", "delete"} \subseteq cut[b]
=============================================================================
