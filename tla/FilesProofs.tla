----------------------------- MODULE FilesProofs -----------------------------
(***************************************************************************)
(* What the files of the offload store and those of a package hold after   *)
(* operations that were cut short.                                         *)
(***************************************************************************)
EXTENDS PackageFiles, KVFileStore, TLAPS

------------------------------------------------------------------------------
(***************************************************************************)
(* What the offload store hands back after puts and deletes that were cut  *)
(* short anywhere, for every set of blocks and payloads and any number of  *)
(* cuts.  The order of the writes carries the proof: as long as nothing    *)
(* but puts into an empty directory was cut short, v.npy is there only     *)
(* beside a whole k.npy (KFirst).                                          *)
(***************************************************************************)

FileStates == {Absent, Torn} \cup {Whole(x) : x \in Files \X Payloads}
Cuts == {"put", "overwrite", "delete"}

StoreTyped ==
    /\ blockFiles \in [FileBlocks -> [Files -> FileStates]]
    /\ lastPut \in [FileBlocks -> Payloads \cup {NoPayload}]
    /\ cut \in [FileBlocks -> SUBSET Cuts]

(* K and V are of one put. *)
SamePut(b) ==
    LET k == blockFiles[b]["k"]  v == blockFiles[b]["v"]
    IN  IsWhole(k) /\ IsWhole(v) => Content(k)[2] = Content(v)[2]
KFirst(b) == Exists(blockFiles[b]["v"]) => IsWhole(blockFiles[b]["k"])
Holds(b, f, d) == blockFiles[b][f] = Whole(<<f, d>>)
Agrees(b) ==
    IF lastPut[b] = NoPayload THEN \A f \in {"k", "v"} : blockFiles[b][f] = Absent
    ELSE \A f \in {"k", "v"} : Holds(b, f, lastPut[b])

(* A block no operation is at work on. *)
Settled(b) ==
    /\ cut[b] = {} => Agrees(b)
    /\ cut[b] \subseteq {"put"} => SamePut(b) /\ KFirst(b)
    /\ cut[b] \subseteq {"delete"} => SamePut(b)

(* A block that is being put, by what is left to write. *)
Todos == {<<"k", "v", "meta">>, <<"v", "meta">>, <<"meta">>}
Puts == [name : {"put"}, block : FileBlocks, payload : Payloads, todo : Todos,
         as : {"put", "overwrite"}]
AllToWrite(b, as) == Settled(b) /\ (as = "put" => blockFiles[b]["k"] = Absent)
KWritten(b, d, as) ==
    Holds(b, "k", d) /\ (as = "put" /\ cut[b] \subseteq {"put"} => blockFiles[b]["v"] = Absent)
BothWritten(b, d) == Holds(b, "k", d) /\ Holds(b, "v", d)
Progress(b, d, todo, as) ==
    \/ todo = <<"k", "v", "meta">> /\ AllToWrite(b, as)
    \/ todo = <<"v", "meta">> /\ KWritten(b, d, as)
    \/ todo = <<"meta">> /\ BothWritten(b, d)
Putting(b) ==
    /\ storeOp \in Puts /\ storeOp.block = b
    /\ Progress(b, storeOp.payload, storeOp.todo, storeOp.as)

Deleting(b) ==
    /\ storeOp = [name |-> "delete", block |-> b, as |-> "delete"]
    /\ cut[b] \subseteq {"delete"} => SamePut(b)

(* One block at a time is at work on. *)
StoreInv ==
    /\ StoreTyped
    /\ Ready \/ \E b \in FileBlocks : Putting(b) \/ Deleting(b)
    /\ \A b \in FileBlocks : Ready \/ storeOp.block # b => Settled(b)

-----------------------------------------------------------------------------
(* A new store holds nothing. *)
LEMMA StoreInitInv == StoreInit => StoreInv
<1> SUFFICES ASSUME StoreInit PROVE StoreInv
  OBVIOUS
<1>1. StoreTyped
  BY DEF StoreInit, StoreTyped, FileStates
<1>2. \A b \in FileBlocks : Settled(b)
  BY DEF StoreInit, Settled, Agrees, SamePut, KFirst, Exists, IsWhole, Files
<1>3. Ready
  BY DEF StoreInit, Ready
<1> QED
  BY <1>1, <1>2, <1>3 DEF StoreInv

(* Whether a block is settled depends on its own files and histories. *)
LEMMA SettledElsewhere ==
  ASSUME NEW b \in FileBlocks, Settled(b), blockFiles'[b] = blockFiles[b],
         lastPut'[b] = lastPut[b], cut'[b] = cut[b]
  PROVE  Settled(b)'
BY DEF Settled, Agrees, Holds, SamePut, KFirst

(* A whole file is there, and is not torn. *)
LEMMA WholeFile ==
  \A x : /\ Exists(Whole(x)) /\ IsWhole(Whole(x)) /\ Content(Whole(x)) = x
         /\ Whole(x) # Torn /\ ~Exists(Absent) /\ ~IsWhole(Absent) /\ ~IsWhole(Torn)
BY DEF Exists, IsWhole, Content, Whole, Absent, Torn

(* A put under way after one more file. *)
LEMMA PutGoesOn ==
  ASSUME NEW op \in Puts, NEW rest \in Todos
  PROVE  /\ [op EXCEPT !.todo = rest] \in Puts
         /\ [op EXCEPT !.todo = rest].block = op.block
         /\ [op EXCEPT !.todo = rest].payload = op.payload
         /\ [op EXCEPT !.todo = rest].todo = rest
         /\ [op EXCEPT !.todo = rest].as = op.as
BY DEF Puts

(* The files a put still has to write, one by one. *)
LEMMA ToWrite ==
  /\ Head(<<"k", "v", "meta">>) = "k" /\ Len(<<"k", "v", "meta">>) = 3
  /\ Tail(<<"k", "v", "meta">>) = <<"v", "meta">>
  /\ Head(<<"v", "meta">>) = "v" /\ Len(<<"v", "meta">>) = 2
  /\ Tail(<<"v", "meta">>) = <<"meta">>
  /\ Head(<<"meta">>) = "meta" /\ Len(<<"meta">>) = 1
OBVIOUS

(* put_block begins: the block is as it was. *)
LEMMA BeginPut ==
  ASSUME StoreInv, NEW b \in FileBlocks, NEW d \in Payloads, put_block(b, d)
  PROVE  StoreInv'
<1>1. StoreTyped' /\ \A c \in FileBlocks : Settled(c)'
  BY SettledElsewhere DEF StoreInv, StoreTyped, put_block, Ready
<1>2. PICK as \in {"put", "overwrite"} :
        /\ storeOp' = [name |-> "put", block |-> b, payload |-> d,
                       todo |-> <<"k", "v", "meta">>, as |-> as]
        /\ as = "put" => ~overwrite \/ ~Exists(blockFiles[b]["k"])
  BY DEF put_block, WriteOrder
<1>3. as = "put" => blockFiles'[b]["k"] = Absent
  BY <1>2 DEF put_block, PutRefused, Exists
<1>4. /\ storeOp' \in Puts /\ storeOp'.block = b /\ storeOp'.todo = <<"k", "v", "meta">>
      /\ storeOp'.as = as
  BY <1>2 DEF Puts, Todos
<1>5. Putting(b)'
  BY <1>1, <1>3, <1>4 DEF Putting, Progress, AllToWrite
<1> QED
  BY <1>1, <1>5 DEF StoreInv

(* delete_block begins. *)
LEMMA BeginDelete ==
  ASSUME StoreInv, NEW b \in FileBlocks, delete_block(b)
  PROVE  StoreInv'
<1>1. StoreTyped' /\ \A c \in FileBlocks : Settled(c)'
  BY SettledElsewhere DEF StoreInv, StoreTyped, delete_block, Ready
<1>2. Deleting(b)'
  BY <1>1 DEF delete_block, Deleting, Settled
<1> QED
  BY <1>1, <1>2 DEF StoreInv

(* The block at work on, when there is one. *)
LEMMA AtWork ==
  ASSUME StoreInv
  PROVE  /\ storeOp.name = "put" => ~Ready /\ storeOp.block \in FileBlocks /\ Putting(storeOp.block)
         /\ storeOp.name = "delete" => ~Ready /\ storeOp.block \in FileBlocks /\ Deleting(storeOp.block)
         /\ ~Ready => storeOp.name \in {"put", "delete"}
<1>1. Ready => storeOp.name = "idle"
  BY DEF Ready, StoreIdle
<1>2. \A b \in FileBlocks : Putting(b) => storeOp.name = "put" /\ storeOp.block = b
  BY DEF Putting, Puts
<1>3. \A b \in FileBlocks : Deleting(b) => storeOp.name = "delete" /\ storeOp.block = b
  BY DEF Deleting
<1> QED
  BY <1>1, <1>2, <1>3 DEF StoreInv

(* A file of a put is written; after the last one the block is the put's. *)
LEMMA WriteFileInv ==
  ASSUME StoreInv, WriteFile
  PROVE  StoreInv'
<1>0. PICK b \in FileBlocks : b = storeOp.block
  BY AtWork DEF WriteFile
<1>1. ~Ready /\ Putting(b) /\ StoreTyped
  BY <1>0, AtWork DEF WriteFile, StoreInv
<1>2. PICK d \in Payloads, as \in {"put", "overwrite"}, f \in Files :
        d = storeOp.payload /\ as = storeOp.as /\ f = Head(storeOp.todo)
  BY <1>1, ToWrite DEF Putting, Puts, Todos, Files
<1>3. blockFiles' = [blockFiles EXCEPT ![b][f] = Whole(<<f, d>>)]
  BY <1>0, <1>2 DEF WriteFile
<1>4. blockFiles' \in [FileBlocks -> [Files -> FileStates]]
  BY <1>1, <1>3 DEF StoreTyped, FileStates
<1>5. \A c \in FileBlocks : c # b => Settled(c)'
  <2> SUFFICES ASSUME NEW c \in FileBlocks, c # b PROVE Settled(c)'
    OBVIOUS
  <2>1. blockFiles'[c] = blockFiles[c] /\ lastPut'[c] = lastPut[c] /\ cut'[c] = cut[c]
    BY <1>0, <1>1, <1>3 DEF WriteFile, StoreTyped
  <2>2. Settled(c)
    BY <1>0, <1>1 DEF StoreInv
  <2> QED
    BY <2>1, <2>2, SettledElsewhere
<1>6. /\ blockFiles'[b] = [blockFiles[b] EXCEPT ![f] = Whole(<<f, d>>)]
      /\ blockFiles[b] \in [Files -> FileStates]
  BY <1>1, <1>3 DEF StoreTyped
<1>7. ASSUME NEW rest \in Todos, storeOp' = [storeOp EXCEPT !.todo = rest],
             UNCHANGED <<lastPut, cut>>, Progress(b, d, rest, as)'
      PROVE  StoreInv'
  <2>1. /\ storeOp' \in Puts /\ storeOp'.block = b /\ storeOp'.payload = d
        /\ storeOp'.todo = rest /\ storeOp'.as = as
    BY <1>0, <1>1, <1>2, <1>7, PutGoesOn DEF Putting
  <2>2. Putting(b)'
    BY <1>7, <2>1 DEF Putting, Progress, AllToWrite, KWritten, BothWritten, Holds
  <2>3. StoreTyped'
    BY <1>1, <1>4, <1>7 DEF StoreTyped
  <2>4. ~Ready'
    BY <2>1 DEF Puts, Ready, StoreIdle
  <2> QED
    BY <1>5, <2>1, <2>2, <2>3, <2>4 DEF StoreInv
<1>8. CASE storeOp.todo = <<"k", "v", "meta">> /\ AllToWrite(b, as)
  <2>1. /\ f = "k" /\ storeOp' = [storeOp EXCEPT !.todo = <<"v", "meta">>]
        /\ UNCHANGED <<lastPut, cut>>
    BY <1>2, <1>8, ToWrite DEF WriteFile
  <2>2. blockFiles'[b]["k"] = Whole(<<"k", d>>) /\ blockFiles'[b]["v"] = blockFiles[b]["v"]
    BY <1>6, <2>1 DEF Files
  <2>3. as = "put" /\ cut[b] \subseteq {"put"} => blockFiles[b]["v"] = Absent
    BY <1>8, WholeFile DEF AllToWrite, Settled, KFirst, Exists
  <2>4. KWritten(b, d, as)'
    BY <2>1, <2>2, <2>3 DEF KWritten, Holds
  <2> QED
    BY <1>7, <2>1, <2>4 DEF Progress, Todos
<1>9. CASE storeOp.todo = <<"v", "meta">> /\ KWritten(b, d, as)
  <2>1. /\ f = "v" /\ storeOp' = [storeOp EXCEPT !.todo = <<"meta">>]
        /\ UNCHANGED <<lastPut, cut>>
    BY <1>2, <1>9, ToWrite DEF WriteFile
  <2>2. blockFiles'[b]["v"] = Whole(<<"v", d>>) /\ blockFiles'[b]["k"] = blockFiles[b]["k"]
    BY <1>6, <2>1 DEF Files
  <2>3. BothWritten(b, d)'
    BY <1>9, <2>2 DEF KWritten, BothWritten, Holds
  <2> QED
    BY <1>7, <2>1, <2>3 DEF Progress, Todos
<1>10. CASE storeOp.todo = <<"meta">> /\ BothWritten(b, d)
  <2>1. /\ f = "meta" /\ Ready'
        /\ lastPut' = [lastPut EXCEPT ![b] = d] /\ cut' = [cut EXCEPT ![b] = {}]
    BY <1>0, <1>2, <1>10, ToWrite DEF WriteFile, Ready
  <2>2. StoreTyped'
    BY <1>1, <1>4, <2>1 DEF StoreTyped
  <2>3. /\ blockFiles'[b]["k"] = Whole(<<"k", d>>) /\ blockFiles'[b]["v"] = Whole(<<"v", d>>)
        /\ lastPut'[b] = d /\ d # NoPayload
    BY <1>1, <1>6, <1>10, <2>1, StoreAssumption
       DEF BothWritten, Holds, StoreTyped, Files, StoreAssumption
  <2>4. Agrees(b)'
    BY <2>3 DEF Agrees, Holds
  <2>5. SamePut(b)' /\ KFirst(b)'
    BY <2>3, WholeFile DEF SamePut, KFirst
  <2> QED
    BY <1>5, <2>1, <2>2, <2>4, <2>5 DEF StoreInv, Settled
<1> QED
  BY <1>1, <1>2, <1>8, <1>9, <1>10 DEF Putting, Progress

(* A file is removed: the block has no more to give than before. *)
LEMMA RemoveFileInv ==
  ASSUME StoreInv, RemoveFile
  PROVE  StoreInv'
<1>0. PICK b \in FileBlocks : b = storeOp.block
  BY AtWork DEF RemoveFile
<1>1. ~Ready /\ Deleting(b) /\ StoreTyped
  BY <1>0, AtWork DEF RemoveFile, StoreInv
<1>2. PICK f \in Files : blockFiles' = [blockFiles EXCEPT ![b][f] = Absent]
  BY <1>0 DEF RemoveFile
<1>3. UNCHANGED <<storeOp, lastPut, cut>>
  BY DEF RemoveFile
<1>4. StoreTyped'
  BY <1>1, <1>2, <1>3 DEF StoreTyped, FileStates
<1>5. \A c \in FileBlocks : c # b => Settled(c)'
  <2> SUFFICES ASSUME NEW c \in FileBlocks, c # b PROVE Settled(c)'
    OBVIOUS
  <2>1. blockFiles'[c] = blockFiles[c] /\ lastPut'[c] = lastPut[c] /\ cut'[c] = cut[c]
    BY <1>1, <1>2, <1>3 DEF StoreTyped
  <2>2. Settled(c)
    BY <1>0, <1>1 DEF StoreInv
  <2> QED
    BY <2>1, <2>2, SettledElsewhere
<1>6. \A g \in {"k", "v"} : blockFiles'[b][g] \in {blockFiles[b][g], Absent}
  BY <1>1, <1>2 DEF StoreTyped, Files
<1>7. SamePut(b) => SamePut(b)'
  BY <1>6, WholeFile DEF SamePut
<1>8. Deleting(b)'
  BY <1>1, <1>3, <1>7 DEF Deleting
<1>9. ~Ready' /\ storeOp'.block = b
  BY <1>0, <1>1, <1>3 DEF Ready
<1> QED
  BY <1>4, <1>5, <1>8, <1>9 DEF StoreInv

(* The directory goes, and nothing of the block is left. *)
LEMMA RemoveDirInv ==
  ASSUME StoreInv, RemoveDir
  PROVE  StoreInv'
<1>0. PICK b \in FileBlocks : b = storeOp.block
  BY AtWork DEF RemoveDir
<1>1. ~Ready /\ StoreTyped
  BY AtWork DEF RemoveDir, StoreInv
<1>2. /\ Ready' /\ blockFiles' = blockFiles
      /\ lastPut' = [lastPut EXCEPT ![b] = NoPayload] /\ cut' = [cut EXCEPT ![b] = {}]
  BY <1>0 DEF RemoveDir, Ready
<1>3. StoreTyped'
  BY <1>1, <1>2 DEF StoreTyped
<1>4. \A c \in FileBlocks : c # b => Settled(c)'
  <2> SUFFICES ASSUME NEW c \in FileBlocks, c # b PROVE Settled(c)'
    OBVIOUS
  <2>1. blockFiles'[c] = blockFiles[c] /\ lastPut'[c] = lastPut[c] /\ cut'[c] = cut[c]
    BY <1>1, <1>2 DEF StoreTyped
  <2>2. Settled(c)
    BY <1>0, <1>1 DEF StoreInv
  <2> QED
    BY <2>1, <2>2, SettledElsewhere
<1>5. /\ \A f \in {"k", "v"} : blockFiles'[b][f] = Absent
      /\ lastPut'[b] = NoPayload
  BY <1>0, <1>1, <1>2 DEF RemoveDir, StoreTyped, Files, Exists
<1>6. Agrees(b)' /\ SamePut(b)' /\ KFirst(b)'
  BY <1>5, WholeFile DEF Agrees, SamePut, KFirst
<1> QED
  BY <1>2, <1>3, <1>4, <1>6 DEF StoreInv, Settled

(* An operation is cut short, perhaps within a file.  A put that found the
   directory empty leaves k.npy first; one over an old block, or a delete
   after a put, is on record in cut. *)
LEMMA CutShortInv ==
  ASSUME StoreInv, CutShort
  PROVE  StoreInv'
<1>0. ~Ready /\ StoreTyped /\ storeOp.name \in {"put", "delete"}
  BY AtWork DEF CutShort, StoreInv
<1>1. PICK b \in FileBlocks : b = storeOp.block
  BY <1>0, AtWork
<1>2. Ready' /\ cut' = [cut EXCEPT ![b] = @ \cup {storeOp.as}] /\ lastPut' = lastPut
  BY <1>1 DEF CutShort, Ready
<1>3. storeOp.as \in Cuts /\ (Head(storeOp.todo) \in {"k", "v", "meta"} \/ storeOp.as = "delete")
  BY <1>0, AtWork, ToWrite DEF Putting, Puts, Todos, Deleting, Cuts
<1>4. \/ blockFiles' = blockFiles
      \/ /\ storeOp.name = "put"
         /\ blockFiles' = [blockFiles EXCEPT ![b][Head(storeOp.todo)] = Torn]
  BY <1>1 DEF CutShort
<1>5. StoreTyped'
  BY <1>0, <1>2, <1>3, <1>4 DEF StoreTyped, FileStates, Files, Cuts
<1>6. \A c \in FileBlocks : c # b => Settled(c)'
  <2> SUFFICES ASSUME NEW c \in FileBlocks, c # b PROVE Settled(c)'
    OBVIOUS
  <2>1. blockFiles'[c] = blockFiles[c] /\ lastPut'[c] = lastPut[c] /\ cut'[c] = cut[c]
    BY <1>0, <1>2, <1>4 DEF StoreTyped
  <2>2. Settled(c)
    BY <1>0, <1>1 DEF StoreInv
  <2> QED
    BY <2>1, <2>2, SettledElsewhere
<1>7. cut'[b] = cut[b] \cup {storeOp.as}
  BY <1>0, <1>2 DEF StoreTyped
<1>8. CASE storeOp.name = "delete"
  <2>1. Deleting(b) /\ blockFiles' = blockFiles
    BY <1>1, <1>0, <1>4, <1>8, AtWork
  <2>2. storeOp.as = "delete"
    BY <2>1 DEF Deleting
  <2>3. cut'[b] \subseteq {"delete"} => SamePut(b)'
    BY <1>7, <2>1 DEF Deleting, SamePut
  <2> QED
    BY <1>2, <1>5, <1>6, <1>7, <2>2, <2>3 DEF StoreInv, Settled
<1>9. CASE storeOp.name = "put"
  <2>1. Putting(b)
    BY <1>1, <1>9, AtWork
  <2>2. PICK d \in Payloads, as \in {"put", "overwrite"}, f \in Files :
          /\ d = storeOp.payload /\ as = storeOp.as /\ f = Head(storeOp.todo)
          /\ Progress(b, d, storeOp.todo, as)
    BY <2>1, ToWrite DEF Putting, Puts, Todos, Files
  <2>3. \/ \A g \in {"k", "v"} : blockFiles'[b][g] = blockFiles[b][g]
        \/ f \in {"k", "v"} /\ blockFiles'[b][f] = Torn
             /\ \A g \in {"k", "v"} \ {f} : blockFiles'[b][g] = blockFiles[b][g]
    BY <1>0, <1>4, <2>2 DEF StoreTyped, Files
  <2>4. as = "put" /\ cut[b] \subseteq {"put"} => SamePut(b)' /\ KFirst(b)'
    <3> SUFFICES ASSUME as = "put", cut[b] \subseteq {"put"} PROVE SamePut(b)' /\ KFirst(b)'
      OBVIOUS
    <3>1. CASE storeOp.todo = <<"k", "v", "meta">> /\ AllToWrite(b, as)
      <4>1. f = "k" /\ blockFiles[b]["k"] = Absent /\ blockFiles[b]["v"] = Absent
        BY <2>2, <3>1, ToWrite, WholeFile DEF AllToWrite, Settled, KFirst, Exists
      <4>2. blockFiles'[b]["v"] = Absent
        BY <2>3, <4>1
      <4> QED
        BY <4>2, WholeFile DEF SamePut, KFirst
    <3>2. CASE storeOp.todo = <<"v", "meta">> /\ KWritten(b, d, as)
      <4>1. f = "v" /\ blockFiles[b]["k"] = Whole(<<"k", d>>) /\ blockFiles[b]["v"] = Absent
        BY <2>2, <3>2, ToWrite DEF KWritten, Holds
      <4>2. blockFiles'[b]["k"] = Whole(<<"k", d>>) /\ blockFiles'[b]["v"] \in {Absent, Torn}
        BY <2>3, <4>1
      <4> QED
        BY <4>2, WholeFile DEF SamePut, KFirst
    <3>3. CASE storeOp.todo = <<"meta">> /\ BothWritten(b, d)
      <4>1. f = "meta" /\ blockFiles[b]["k"] = Whole(<<"k", d>>) /\ blockFiles[b]["v"] = Whole(<<"v", d>>)
        BY <2>2, <3>3, ToWrite DEF BothWritten, Holds
      <4>2. blockFiles'[b]["k"] = Whole(<<"k", d>>) /\ blockFiles'[b]["v"] = Whole(<<"v", d>>)
        BY <2>3, <4>1
      <4> QED
        BY <4>2, WholeFile DEF SamePut, KFirst
    <3> QED
      BY <2>2, <3>1, <3>2, <3>3 DEF Progress
  <2>5. as \in cut'[b] /\ cut[b] \subseteq cut'[b]
    BY <1>7, <2>2
  <2>6. Settled(b)'
    BY <2>2, <2>4, <2>5 DEF Settled
  <2> QED
    BY <1>2, <1>5, <1>6, <2>6 DEF StoreInv
<1> QED
  BY <1>0, <1>8, <1>9

(* A stutter changes nothing. *)
LEMMA StoreStutterInv ==
  ASSUME StoreInv, UNCHANGED storeVars
  PROVE  StoreInv'
<1>1. StoreTyped'
  BY DEF StoreInv, StoreTyped, storeVars
<1>2. \A b \in FileBlocks : Settled(b) => Settled(b)'
  BY SettledElsewhere DEF storeVars
<1>3. \A b \in FileBlocks : Putting(b) => Putting(b)'
  BY <1>2 DEF Putting, Progress, AllToWrite, KWritten, BothWritten, Holds, storeVars
<1>4. \A b \in FileBlocks : Deleting(b) => Deleting(b)'
  BY DEF Deleting, SamePut, storeVars
<1> QED
  BY <1>1, <1>2, <1>3, <1>4 DEF StoreInv, Ready, storeVars

(* Every step keeps the invariant. *)
LEMMA StoreStepInv == StoreInv /\ [StoreNext]_storeVars => StoreInv'
BY BeginPut, BeginDelete, WriteFileInv, RemoveFileInv, RemoveDirInv, CutShortInv, StoreStutterInv
   DEF StoreNext

(* What a ready store hands back. *)
LEMMA InvBlockOfOnePut == StoreInv => BlockOfOnePut
<1> SUFFICES ASSUME StoreInv, Ready, NEW b \in FileBlocks
             PROVE  /\ cut[b] = {} => /\ has_block(b) <=> lastPut[b] # NoPayload
                                      /\ has_block(b) => /\ GetReturns(b)
                                                         /\ get_block(b) = <<<<"k", lastPut[b]>>, <<"v", lastPut[b]>>>>
                    /\ GetReturns(b) /\ get_block(b)[1][2] # get_block(b)[2][2] =>
                          "overwrite" \in cut[b] \/ {"put", "delete"} \subseteq cut[b]
  BY DEF BlockOfOnePut
<1>1. Settled(b) /\ StoreTyped
  BY DEF StoreInv
<1>2. ASSUME cut[b] = {}
      PROVE  /\ has_block(b) <=> lastPut[b] # NoPayload
             /\ has_block(b) => /\ GetReturns(b)
                                /\ get_block(b) = <<<<"k", lastPut[b]>>, <<"v", lastPut[b]>>>>
  <2>1. CASE lastPut[b] = NoPayload
    BY <1>1, <1>2, <2>1, WholeFile DEF Settled, Agrees, has_block
  <2>2. CASE lastPut[b] # NoPayload
    BY <1>1, <1>2, <2>2, WholeFile DEF Settled, Agrees, Holds, has_block, GetReturns, get_block
  <2> QED
    BY <2>1, <2>2
<1>3. ASSUME GetReturns(b), get_block(b)[1][2] # get_block(b)[2][2]
      PROVE  "overwrite" \in cut[b] \/ {"put", "delete"} \subseteq cut[b]
  <2>1. ~SamePut(b)
    BY <1>3 DEF GetReturns, get_block, SamePut
  <2>2. ~(cut[b] \subseteq {"put"}) /\ ~(cut[b] \subseteq {"delete"})
    BY <1>1, <2>1 DEF Settled
  <2> QED
    BY <1>1, <2>2 DEF StoreTyped, Cuts
<1> QED
  BY <1>2, <1>3

(* Whatever puts and deletes are cut short, and however often: has_block and
   get_block agree with the last operation that returned, and K and V of two
   puts come back only after one of the two histories that cut records
   (FileKVOffloadStore.put_block and get_block in models/kv_offload_store.py). *)
THEOREM OnePut == StoreSpec => []BlockOfOnePut
<1>1. StoreSpec => []StoreInv
  BY StoreInitInv, StoreStepInv, PTL DEF StoreSpec
<1> QED
  BY <1>1, InvBlockOfOnePut, PTL

------------------------------------------------------------------------------
(***************************************************************************)
(* What the files of a package hold after conversions that were cut short, *)
(* for every number of layers, every list of tensors and any number of     *)
(* cuts.  Two facts carry the proof.  Within a tensor the weight is saved  *)
(* first, so a file that belongs to another conversion is found out by the *)
(* weight's checksum, the only one there is; and between two versions of   *)
(* package.json a version that was cut short is remembered.                *)
(***************************************************************************)

(* Files.                                                                  *)
SavedIs(v, t, z, part) == packageFiles[t][part] = Whole(Saved(v, t, z, part))

AllSaved(v, t, z) ==
    /\ SavedIs(v, t, z, "weight")
    /\ ~IsNorm(t[2]) => SavedIs(v, t, z, "scales")
    /\ ~IsNorm(t[2]) /\ z => SavedIs(v, t, z, "zeros")

FilesTyped ==
    /\ packageFiles = [t \in Tensors |-> [part \in Parts |-> packageFiles[t][part]]]
    /\ \A t \in Tensors : \A part \in Parts :
          IsWhole(packageFiles[t][part]) =>
              packageFiles[t][part] = Whole(Content(packageFiles[t][part]))

(* Packages: what one is, and one that refers to the files of S.           *)
PackageTyped(p) ==
    /\ p = [version |-> p.version, layers |-> p.layers, checksum |-> p.checksum, zeros |-> p.zeros]
    /\ p.layers \subseteq Layers /\ p.layers # {}
    /\ p.checksum = [t \in TensorsOf(p.layers) |-> p.checksum[t]]

Bare(p) == \A t \in TensorsOf(p.layers) : p.checksum[t] = None

RefersTo(p, S, z) ==
    /\ \A t \in S : p.checksum[t] = Saved(p.version, t, z, "weight")
    /\ p.zeros = {t \in S : z /\ ~IsNorm(t[2])}

(* package.json, and the files as they are as long as its version was not  *)
(* written again: those of a tensor are all of this version, or the        *)
(* weight is not.                                                          *)
Untouched(v) == v \notin cutVersions /\ (Converting => conversion.package.version # v)

DetectedOrSaved(v, t, z) == SavedIs(v, t, z, "weight") => AllSaved(v, t, z)

JsonPackage(p) ==
    /\ PackageTyped(p)
    /\ \/ Bare(p)
       \/ \E z \in BOOLEAN :
             /\ RefersTo(p, TensorsOf(p.layers), z)
             /\ Untouched(p.version) =>
                   \A t \in TensorsOf(p.layers) : DetectedOrSaved(p.version, t, z)

JsonInv ==
    IsWhole(packageJson) =>
        packageJson = Whole(Content(packageJson)) /\ JsonPackage(Content(packageJson))

(* The conversion under way: the tensors it is through with, and the one   *)
(* it is at.                                                               *)
Writing(c, z, k, S, er, p) ==
    c = [name |-> "writing", zeros |-> z, part |-> k, todo |-> S, errors |-> er, package |-> p]

ConversionTyped(c) ==
    /\ Writing(c, c.zeros, c.part, c.todo, c.errors, c.package)
    /\ c.zeros \in BOOLEAN /\ c.errors \in BOOLEAN
    /\ PackageTyped(c.package)
    /\ c.todo \subseteq TensorsOf(c.package.layers)

Through(c) == TensorsOf(c.package.layers) \ c.todo

ThroughInv(c) ==
    ~c.errors =>
        /\ RefersTo(c.package, Through(c), c.zeros)
        /\ \A t \in Through(c) : AllSaved(c.package.version, t, c.zeros)

AtInv(c, t) ==
    /\ c.part \in 1..Len(PartsInOrder(t, c.zeros))
    /\ c.part > 1 => SavedIs(c.package.version, t, c.zeros, "weight")
    /\ c.part > 2 => /\ SavedIs(c.package.version, t, c.zeros, "scales")
                     /\ c.package.checksum[t] = Saved(c.package.version, t, c.zeros, "weight")

ConversionInv ==
    Converting =>
        /\ ConversionTyped(conversion)
        /\ ThroughInv(conversion)
        /\ \A t \in conversion.todo : AtTensor(t) => AtInv(conversion, t)

ReportInv ==
    /\ Converting => report = NoReport
    /\ WriterReportHonest

IInv == FilesTyped /\ JsonInv /\ ConversionInv /\ ReportInv

-----------------------------------------------------------------------------
(* What is saved.                                                          *)

(* The tensor of the checkpoint that is quantized as t, fused or not.      *)
Source(v, t) == fuse_qkv_for_layer(v, llama_layer_tensor_names(t[1], t[2]))

(* The quantized layer and what the zeros add to it, tensor by tensor.     *)
LEMMA LayerValue ==
  ASSUME NEW v, NEW t \in Tensors, NEW z \in BOOLEAN
  PROVE  WithZeros(quantize_layer(v, t[1]), z)[t[2]] =
           IF IsNorm(t[2])
           THEN [weight |-> <<"norm", Source(v, t)>>, scales |-> None, zeros |-> None]
           ELSE [weight |-> <<"packed", Source(v, t)>>, scales |-> <<"scales", Source(v, t)>>,
                 zeros |-> IF z THEN <<"zeros", <<"scales", Source(v, t)>>>> ELSE None]
<1>1. t[2] \in Keys
  BY DEF Tensors
<1>2. quantize_layer(v, t[1])[t[2]] =
        IF IsNorm(t[2])
        THEN [weight |-> <<"norm", Source(v, t)>>, scales |-> None, zeros |-> None]
        ELSE [weight |-> <<"packed", Source(v, t)>>, scales |-> <<"scales", Source(v, t)>>,
              zeros |-> None]
  BY <1>1 DEF quantize_layer, quantize_weight_groupwise, Source
<1>3. CASE ~z
  BY <1>2, <1>3 DEF WithZeros
<1>4. CASE z
  <2>1. PICK r : r = quantize_layer(v, t[1])[t[2]]
    OBVIOUS
  <2>2. WithZeros(quantize_layer(v, t[1]), z)[t[2]] =
          IF IsNorm(t[2]) THEN r ELSE [r EXCEPT !.zeros = <<"zeros", r.scales>>]
    BY <1>1, <1>4, <2>1 DEF WithZeros
  <2>3. ASSUME ~IsNorm(t[2])
        PROVE  [r EXCEPT !.zeros = <<"zeros", r.scales>>] =
                 [weight |-> <<"packed", Source(v, t)>>, scales |-> <<"scales", Source(v, t)>>,
                  zeros |-> <<"zeros", <<"scales", Source(v, t)>>>>]
    <3>1. r = [weight |-> <<"packed", Source(v, t)>>, scales |-> <<"scales", Source(v, t)>>,
               zeros |-> None]
      BY <1>2, <2>1, <2>3
    <3> QED BY <3>1
  <2> QED BY <1>2, <1>4, <2>1, <2>2, <2>3
<1> QED BY <1>3, <1>4

(* The arrays of a tensor.                                                 *)
LEMMA SavedValue ==
  ASSUME NEW v, NEW t \in Tensors, NEW z \in BOOLEAN
  PROVE  /\ Saved(v, t, z, "weight") = IF IsNorm(t[2]) THEN <<"norm", Source(v, t)>>
                                                       ELSE <<"packed", Source(v, t)>>
         /\ ~IsNorm(t[2]) => Saved(v, t, z, "scales") = <<"scales", Source(v, t)>>
         /\ ~IsNorm(t[2]) => Saved(v, t, z, "zeros") =
                               IF z THEN <<"zeros", <<"scales", Source(v, t)>>>> ELSE None
<1>1. PICK r : r = WithZeros(quantize_layer(v, t[1]), z)[t[2]]
  OBVIOUS
<1>2. \A part : Saved(v, t, z, part) = r[part]
  BY <1>1 DEF Saved
<1>3. CASE IsNorm(t[2])
  <2>1. r = [weight |-> <<"norm", Source(v, t)>>, scales |-> None, zeros |-> None]
    BY <1>1, <1>3, LayerValue
  <2>2. r["weight"] = <<"norm", Source(v, t)>>
    BY <2>1
  <2> QED BY <1>2, <1>3, <2>2
<1>4. CASE ~IsNorm(t[2])
  <2>1. r = [weight |-> <<"packed", Source(v, t)>>, scales |-> <<"scales", Source(v, t)>>,
             zeros |-> IF z THEN <<"zeros", <<"scales", Source(v, t)>>>> ELSE None]
    BY <1>1, <1>4, LayerValue
  <2>2. /\ r["weight"] = <<"packed", Source(v, t)>>
        /\ r["scales"] = <<"scales", Source(v, t)>>
        /\ r["zeros"] = IF z THEN <<"zeros", <<"scales", Source(v, t)>>>> ELSE None
    BY <2>1
  <2> QED BY <1>2, <1>4, <2>2
<1> QED BY <1>3, <1>4

(* The weights of two checkpoints are different files.                     *)
LEMMA WeightTellsVersion ==
  ASSUME NEW v, NEW w, v # w, NEW t \in Tensors, NEW y \in BOOLEAN, NEW z \in BOOLEAN
  PROVE  Saved(v, t, y, "weight") # Saved(w, t, z, "weight")
<1>1. 1 \in DOMAIN llama_layer_tensor_names(t[1], t[2])
  BY DEF llama_layer_tensor_names
<1>2. \A u : Source(u, t)[1] = <<u, llama_layer_tensor_names(t[1], t[2])[1]>>
  BY <1>1 DEF Source, fuse_qkv_for_layer, load_tensor
<1>3. Source(v, t) # Source(w, t)
  BY <1>2
<1> QED BY <1>3, SavedValue

(* A checksum is not the default of the metadata.                          *)
LEMMA WeightIsNotNone ==
  ASSUME NEW v, NEW t \in Tensors, NEW z \in BOOLEAN
  PROVE  Saved(v, t, z, "weight") # None
BY SavedValue DEF None

-----------------------------------------------------------------------------
(* How the writes of one file disturb the rest.                            *)

(* One file of one tensor changes.                                         *)
Written(t, part, f) == packageFiles' = [packageFiles EXCEPT ![t][part] = f]

(* All other files are as they were.                                       *)
LEMMA FileChanges ==
  ASSUME FilesTyped, NEW t \in Tensors, NEW part \in Parts, NEW f,
         IsWhole(f) => f = Whole(Content(f)), Written(t, part, f)
  PROVE  /\ FilesTyped'
         /\ packageFiles'[t][part] = f
         /\ \A u \in Tensors : \A q \in Parts :
              u # t \/ q # part => packageFiles'[u][q] = packageFiles[u][q]
<1>1. packageFiles = [u \in Tensors |-> [q \in Parts |-> packageFiles[u][q]]]
  BY DEF FilesTyped
<1>2. packageFiles' = [packageFiles EXCEPT ![t] = [packageFiles[t] EXCEPT ![part] = f]]
  BY DEF Written
<1>3. packageFiles[t] = [q \in Parts |-> packageFiles[t][q]]
  BY <1>1
<1>4. packageFiles'[t] = [q \in Parts |-> IF q = part THEN f ELSE packageFiles[t][q]]
  BY <1>1, <1>2, <1>3
<1>5. \A u \in Tensors : u # t => packageFiles'[u] = packageFiles[u]
  BY <1>1, <1>2
<1>7. \A u \in Tensors : packageFiles'[u] = [q \in Parts |-> packageFiles'[u][q]]
  BY <1>1, <1>4, <1>5
<1>8. packageFiles' = [u \in Tensors |-> [q \in Parts |-> packageFiles'[u][q]]]
  <2>1. packageFiles' = [u \in Tensors |-> packageFiles'[u]]
    BY <1>1, <1>2
  <2> QED BY <1>7, <2>1
<1>9. \A u \in Tensors : \A q \in Parts :
        u # t \/ q # part => packageFiles'[u][q] = packageFiles[u][q]
  BY <1>4, <1>5
<1>10. packageFiles'[t][part] = f
  BY <1>4
<1>11. \A u \in Tensors : \A q \in Parts :
         IsWhole(packageFiles'[u][q]) => packageFiles'[u][q] = Whole(Content(packageFiles'[u][q]))
  BY <1>9, <1>10 DEF FilesTyped
<1> QED BY <1>8, <1>9, <1>10, <1>11 DEF FilesTyped

(* A write for version w, whole or cut, to a tensor whose weight is that   *)
(* version's, or to the weight itself.                                     *)
WrittenFor(w, t, z, part, f) ==
    /\ Written(t, part, f)
    /\ f \in {packageFiles[t][part], Torn, Whole(Saved(w, t, z, part))}
    /\ part # "weight" => SavedIs(w, t, z, "weight")

(* It does not pass for another version v.                                 *)
LEMMA OtherVersionDetected ==
  ASSUME FilesTyped, NEW t \in Tensors, NEW part \in Parts, NEW f,
         NEW w, NEW y \in BOOLEAN, WrittenFor(w, t, y, part, f),
         NEW v, v # w, NEW z \in BOOLEAN, NEW u \in Tensors, DetectedOrSaved(v, u, z)
  PROVE  DetectedOrSaved(v, u, z)'
<1> USE DEF WrittenFor
<1>1. IsWhole(f) => f = Whole(Content(f))
  BY WholeFile DEF FilesTyped
<1>2. /\ packageFiles'[t][part] = f
      /\ \A x \in Tensors : \A q \in Parts :
           x # t \/ q # part => packageFiles'[x][q] = packageFiles[x][q]
  BY <1>1, FileChanges
<1>3. Parts = {"weight", "scales", "zeros"}
  BY DEF Parts
<1>4. CASE u # t \/ f = packageFiles[t][part]
  <2>1. \A q \in Parts : packageFiles'[u][q] = packageFiles[u][q]
    BY <1>2, <1>4
  <2> QED BY <1>3, <2>1 DEF DetectedOrSaved, AllSaved, SavedIs
<1>5. CASE u = t /\ f # packageFiles[t][part]
  <2>1. packageFiles'[t]["weight"] \in {Torn, Whole(Saved(w, t, y, "weight"))}
    <3>1. CASE part = "weight"
      BY <1>2, <1>5, <3>1
    <3>2. CASE part # "weight"
      <4>1. packageFiles'[t]["weight"] = packageFiles[t]["weight"]
        BY <1>2, <1>3, <3>2
      <4> QED BY <3>2, <4>1 DEF SavedIs
    <3> QED BY <3>1, <3>2
  <2>2. Saved(v, t, z, "weight") # Saved(w, t, y, "weight")
    BY WeightTellsVersion
  <2>3. packageFiles'[t]["weight"] # Whole(Saved(v, t, z, "weight"))
    BY <2>1, <2>2, WholeFile
  <2> QED BY <1>5, <2>3 DEF DetectedOrSaved, SavedIs
<1> QED BY <1>4, <1>5

(* package.json stays: its files are as good as they were.                 *)
LEMMA JsonStays ==
  ASSUME JsonInv, packageJson' = packageJson,
         NEW v, v = Content(packageJson).version,
         Untouched(v)' => Untouched(v),
         Untouched(v)' =>
            \A t \in Tensors : \A z \in BOOLEAN :
               DetectedOrSaved(v, t, z) => DetectedOrSaved(v, t, z)'
  PROVE  JsonInv'
<1> SUFFICES ASSUME IsWhole(packageJson) PROVE JsonPackage(Content(packageJson))'
  BY DEF JsonInv
<1>1. PICK p : p = Content(packageJson)
  OBVIOUS
<1>2. JsonPackage(p) /\ v = p.version /\ Content(packageJson') = p
  BY <1>1 DEF JsonInv
<1>3. TensorsOf(p.layers) \subseteq Tensors
  BY DEF TensorsOf
<1>4. ASSUME NEW z \in BOOLEAN,
             Untouched(v) => \A t \in TensorsOf(p.layers) : DetectedOrSaved(v, t, z)
      PROVE  Untouched(v)' => \A t \in TensorsOf(p.layers) : DetectedOrSaved(v, t, z)'
  BY <1>3, <1>4
<1>5. PackageTyped(p) /\ (Bare(p) \/ \E z \in BOOLEAN :
             /\ RefersTo(p, TensorsOf(p.layers), z)
             /\ Untouched(v)' => \A t \in TensorsOf(p.layers) : DetectedOrSaved(v, t, z)')
  BY <1>2, <1>4 DEF JsonPackage
<1>6. ASSUME NEW z \in BOOLEAN, NEW t
      PROVE  DetectedOrSaved(v, t, z)' = DetectedOrSaved(p.version, t, z)'
  BY <1>2
<1> QED BY <1>1, <1>2, <1>5, <1>6 DEF JsonPackage

-----------------------------------------------------------------------------
(* The steps that touch no tensor.                                         *)

(* What package_from_quantized_layers makes of some layers.                *)
LEMMA NewPackage ==
  ASSUME NEW v, NEW layers \in SUBSET Layers, validate(layers)
  PROVE  LET p == package_from_quantized_layers(v, layers)
         IN  /\ p.version = v /\ p.layers = layers /\ p.zeros = {}
             /\ PackageTyped(p) /\ Bare(p)
BY DEF package_from_quantized_layers, validate, PackageTyped, Bare

(* The files of a tensor, in order.                                        *)
LEMMA OrderFacts ==
  ASSUME NEW t, NEW z \in BOOLEAN
  PROVE  /\ IsNorm(t[2]) => /\ Len(PartsInOrder(t, z)) = 1
                            /\ PartsInOrder(t, z)[1] = "weight"
         /\ ~IsNorm(t[2]) => /\ Len(PartsInOrder(t, z)) = IF z THEN 3 ELSE 2
                             /\ PartsInOrder(t, z)[1] = "weight"
                             /\ PartsInOrder(t, z)[2] = "scales"
                             /\ z => PartsInOrder(t, z)[3] = "zeros"
<1>1. CASE IsNorm(t[2])
  BY <1>1 DEF PartsInOrder
<1>2. CASE ~IsNorm(t[2]) /\ z
  <2>1. PartsInOrder(t, z) = <<"weight", "scales", "zeros">>
    BY <1>2 DEF PartsInOrder
  <2>2. /\ Len(PartsInOrder(t, z)) = 3
        /\ PartsInOrder(t, z)[1] = "weight"
        /\ PartsInOrder(t, z)[2] = "scales"
        /\ PartsInOrder(t, z)[3] = "zeros"
    BY <2>1
  <2> QED BY <1>2, <2>2
<1>3. CASE ~IsNorm(t[2]) /\ ~z
  <2>1. PartsInOrder(t, z) = <<"weight", "scales">>
    BY <1>3 DEF PartsInOrder
  <2> QED BY <1>3, <2>1
<1> QED BY <1>1, <1>2, <1>3

(* A directory without a package.                                          *)
LEMMA InitInv == PackageInit => IInv
<1> SUFFICES ASSUME PackageInit PROVE IInv
  OBVIOUS
<1>1. packageFiles = [t \in Tensors |-> [part \in Parts |-> Absent]] /\ packageJson = Absent
  BY DEF PackageInit
<1>2. FilesTyped
  BY <1>1, WholeFile DEF FilesTyped
<1>3. JsonInv
  BY <1>1, WholeFile DEF JsonInv
<1>4. ~Converting /\ report.ok = FALSE
  BY DEF PackageInit, Converting, ConversionIdle, NoReport
<1>5. ConversionInv /\ ReportInv
  BY <1>4 DEF ConversionInv, ReportInv, WriterReportHonest
<1> QED BY <1>2, <1>3, <1>5 DEF IInv

(* Only package.json is written.                                           *)
LEMMA MetadataStep ==
  ASSUME IInv, NEW version \in Versions, NEW layers \in SUBSET Layers,
         ConvertMetadata(version, layers)
  PROVE  IInv'
<1>1. /\ ~Converting /\ conversion' = conversion /\ packageFiles' = packageFiles
      /\ report' = NoReport /\ validate(layers)
  BY DEF ConvertMetadata
<1>2. ~Converting' /\ report'.ok = FALSE
  BY <1>1 DEF Converting, NoReport
<1>3. FilesTyped' /\ ConversionInv' /\ ReportInv'
  BY <1>1, <1>2 DEF IInv, FilesTyped, ConversionInv, ReportInv, WriterReportHonest
<1>4. CASE packageJson' = Whole(package_from_quantized_layers(version, layers))
  <2>1. PICK p : p = package_from_quantized_layers(version, layers)
    OBVIOUS
  <2>2. PackageTyped(p) /\ Bare(p) /\ packageJson' = Whole(p)
    BY <1>1, <1>4, <2>1, NewPackage
  <2>3. JsonPackage(p)' /\ Content(packageJson') = p
    BY <2>2, WholeFile DEF JsonPackage
  <2> QED BY <1>3, <2>2, <2>3 DEF IInv, JsonInv
<1>5. CASE packageJson' \in CutWrite(packageJson) /\ UNCHANGED cutVersions
  <2>1. CASE packageJson' = Torn
    BY <1>3, <2>1, WholeFile DEF IInv, JsonInv
  <2>2. CASE packageJson' = packageJson
    <3>1. PICK v : v = Content(packageJson).version
      OBVIOUS
    <3>2. /\ Untouched(v)' => Untouched(v)
          /\ \A t \in Tensors : \A z \in BOOLEAN :
               DetectedOrSaved(v, t, z) => DetectedOrSaved(v, t, z)'
      BY <1>1, <1>5 DEF Untouched, DetectedOrSaved, AllSaved, SavedIs, Converting
    <3>3. JsonInv'
      BY <2>2, <3>1, <3>2, JsonStays DEF IInv
    <3> QED BY <1>3, <3>3 DEF IInv
  <2> QED BY <1>5, <2>1, <2>2 DEF CutWrite
<1> QED BY <1>4, <1>5 DEF ConvertMetadata

(* A conversion begins: it is through with no tensor.                      *)
LEMMA ConvertStep ==
  ASSUME IInv, NEW version \in Versions, NEW layers \in SUBSET Layers,
         NEW zeros \in BOOLEAN, NEW given \in BOOLEAN, Convert(version, layers, zeros, given)
  PROVE  IInv'
<1>1. PICK p : p = package_from_quantized_layers(version, layers)
  OBVIOUS
<1>2. PICK todo : todo = IF given THEN TensorsOf(layers) ELSE {}
  OBVIOUS
<1>3. /\ ~Converting /\ validate(layers) /\ report' = NoReport
      /\ conversion' = [name |-> "writing", zeros |-> zeros, part |-> 1, todo |-> todo,
                        errors |-> ~given, package |-> p]
      /\ UNCHANGED <<packageFiles, packageJson, cutVersions>>
  BY <1>1, <1>2 DEF Convert
<1>4. PackageTyped(p) /\ p.layers = layers /\ p.zeros = {} /\ p.version = version
  BY <1>1, <1>3, NewPackage
<1>5. PICK c : c = conversion'
  OBVIOUS
<1>6. /\ c.name = "writing" /\ c.zeros = zeros /\ c.part = 1 /\ c.todo = todo
      /\ c.errors = ~given /\ c.package = p
  BY <1>3, <1>5
<1>7. Converting'
  BY <1>5, <1>6 DEF Converting
<1>8. ConversionTyped(c)
  BY <1>2, <1>3, <1>4, <1>5, <1>6 DEF ConversionTyped, Writing
<1>9. ThroughInv(c)'
  <2>1. ~c.errors => Through(c) = {}
    BY <1>2, <1>4, <1>6 DEF Through
  <2>2. ~c.errors => RefersTo(c.package, Through(c), c.zeros)
    BY <1>4, <1>6, <2>1 DEF RefersTo
  <2> QED BY <2>1, <2>2 DEF ThroughInv
<1>10. ASSUME NEW t \in c.todo PROVE AtInv(c, t)'
  <2>1. c.part = 1 /\ 1 \in 1..Len(PartsInOrder(t, c.zeros))
    BY <1>6, OrderFacts
  <2> QED BY <2>1 DEF AtInv
<1>11. ConversionInv'
  BY <1>5, <1>8, <1>9, <1>10 DEF ConversionInv
<1>12. ReportInv' /\ FilesTyped'
  <2>1. report'.ok = FALSE
    BY <1>3 DEF NoReport
  <2> QED BY <1>3, <1>7, <2>1 DEF ReportInv, WriterReportHonest, IInv, FilesTyped
<1>13. JsonInv'
  <2>1. PICK v : v = Content(packageJson).version
    OBVIOUS
  <2>2. /\ Untouched(v)' => Untouched(v)
        /\ \A t \in Tensors : \A z \in BOOLEAN :
             DetectedOrSaved(v, t, z) => DetectedOrSaved(v, t, z)'
    BY <1>3 DEF Untouched, DetectedOrSaved, AllSaved, SavedIs
  <2> QED BY <1>3, <2>1, <2>2, JsonStays DEF IInv
<1> QED BY <1>11, <1>12, <1>13 DEF IInv

(* A call returns: with errors the version is remembered; without, the     *)
(* files are those package.json now refers to.                             *)
LEMMA FinishStep ==
  ASSUME IInv, FinishPackage
  PROVE  IInv'
<1>1. PICK c : c = conversion
  OBVIOUS
<1>2. /\ Converting /\ c.todo = {} /\ packageFiles' = packageFiles
      /\ conversion' = ConversionIdle
      /\ report' = [ok |-> ~c.errors, package |-> c.package, zeros |-> c.zeros]
  BY <1>1 DEF FinishPackage
<1>3. ConversionTyped(c) /\ ThroughInv(c)
  BY <1>1, <1>2 DEF IInv, ConversionInv
<1>4. ~Converting' /\ ConversionInv'
  BY <1>2 DEF Converting, ConversionIdle, ConversionInv
<1>5. FilesTyped'
  BY <1>2 DEF IInv, FilesTyped
<1>6. CASE c.errors
  <2>1. packageJson' = packageJson /\ cutVersions' = cutVersions \cup {c.package.version}
    BY <1>1, <1>6 DEF FinishPackage
  <2>2. report'.ok = FALSE
    BY <1>2, <1>6
  <2>3. PICK v : v = Content(packageJson).version
    OBVIOUS
  <2>4. /\ Untouched(v)' => Untouched(v)
        /\ \A t \in Tensors : \A z \in BOOLEAN :
             DetectedOrSaved(v, t, z) => DetectedOrSaved(v, t, z)'
    BY <1>1, <1>2, <2>1 DEF Untouched, DetectedOrSaved, AllSaved, SavedIs
  <2>5. JsonInv'
    BY <2>1, <2>3, <2>4, JsonStays DEF IInv
  <2> QED BY <1>4, <1>5, <2>2, <2>5 DEF IInv, ReportInv, WriterReportHonest
<1>7. CASE ~c.errors
  <2>1. PICK p : p = c.package
    OBVIOUS
  <2>2. PICK z \in BOOLEAN : z = c.zeros
    BY <1>3 DEF ConversionTyped
  <2>3. packageJson' = Whole(p) /\ Content(packageJson') = p
    BY <1>1, <1>7, <2>1, WholeFile DEF FinishPackage
  <2>4. PackageTyped(p) /\ Through(c) = TensorsOf(p.layers)
    BY <1>2, <1>3, <2>1 DEF ConversionTyped, Through
  <2>5. RefersTo(p, TensorsOf(p.layers), z)
    BY <1>3, <1>7, <2>1, <2>2, <2>4 DEF ThroughInv
  <2>6. \A t \in TensorsOf(p.layers) : AllSaved(p.version, t, z)
    BY <1>3, <1>7, <2>1, <2>2, <2>4 DEF ThroughInv
  <2>7. \A t \in TensorsOf(p.layers) : AllSaved(p.version, t, z)'
    BY <1>2, <2>6 DEF AllSaved, SavedIs
  <2>8. JsonInv'
    BY <2>3, <2>4, <2>5, <2>7 DEF JsonInv, JsonPackage, DetectedOrSaved
  <2>9. report'.package = p /\ report'.zeros = z
    BY <1>2, <2>1, <2>2
  <2>10. DOMAIN p.checksum = TensorsOf(p.layers)
    BY <2>4 DEF PackageTyped
  <2>11. ASSUME NEW t \in TensorsOf(p.layers), NEW i \in DOMAIN PartsInOrder(t, z)
         PROVE  packageFiles'[t][PartsInOrder(t, z)[i]]
                    = Whole(Saved(p.version, t, z, PartsInOrder(t, z)[i]))
    <3>1. i \in 1..Len(PartsInOrder(t, z))
      BY DEF PartsInOrder
    <3>2. CASE IsNorm(t[2])
      <4>1. i = 1 /\ PartsInOrder(t, z)[i] = "weight"
        BY <3>1, <3>2, OrderFacts
      <4> QED BY <2>7, <4>1 DEF AllSaved, SavedIs
    <3>3. CASE ~IsNorm(t[2])
      <4>1. \/ PartsInOrder(t, z)[i] \in {"weight", "scales"}
            \/ z /\ PartsInOrder(t, z)[i] = "zeros"
        BY <3>1, <3>3, OrderFacts
      <4> QED BY <2>7, <3>3, <4>1 DEF AllSaved, SavedIs
    <3> QED BY <3>2, <3>3
  <2>12. \A t \in TensorsOf(p.layers) : p.checksum[t] # None
    <3> TAKE t \in TensorsOf(p.layers)
    <3>1. t \in Tensors /\ p.checksum[t] = Saved(p.version, t, z, "weight")
      BY <2>5 DEF RefersTo, TensorsOf
    <3> QED BY <3>1, WeightIsNotNone
  <2>13. ReportInv'
    BY <1>4, <2>3, <2>9, <2>10, <2>11, <2>12 DEF ReportInv, WriterReportHonest
  <2> QED BY <1>4, <1>5, <2>8, <2>13 DEF IInv
<1> QED BY <1>3, <1>6, <1>7 DEF ConversionTyped

-----------------------------------------------------------------------------
(* The steps at a tensor.                                                  *)

(* The writer is at one tensor at a time: the order is strict.             *)
LEMMA OneAtATime ==
  ASSUME NEW t \in Tensors, NEW u \in Tensors, AtTensor(t), AtTensor(u)
  PROVE  t = u
<1> SUFFICES ASSUME t # u PROVE FALSE
  OBVIOUS
<1>1. Before(t, u) /\ Before(u, t)
  BY DEF AtTensor
<1>2. t[1] \in Nat /\ u[1] \in Nat
  BY PackageAssumption DEF Tensors, Layers, PackageAssumption
<1>3. DOMAIN KeyOrder \subseteq Nat
  <2>1. KeyOrder \in Seq(STRING)
    BY PackageAssumption DEF PackageAssumption, KeyOrder
  <2> QED BY <2>1
<1>4. PICK i \in DOMAIN KeyOrder, j \in DOMAIN KeyOrder :
        i < j /\ t[2] = KeyOrder[i] /\ u[2] = KeyOrder[j]
  BY <1>1, <1>2 DEF Before
<1>5. PICK k \in DOMAIN KeyOrder, n \in DOMAIN KeyOrder :
        k < n /\ u[2] = KeyOrder[k] /\ t[2] = KeyOrder[n]
  BY <1>1, <1>2 DEF Before
<1>6. i = n /\ j = k
  BY <1>4, <1>5, PackageAssumption DEF PackageAssumption
<1> QED BY <1>3, <1>4, <1>5, <1>6

(* The conversion at its tensor: the weight is saved before anything else. *)
LEMMA AtFacts ==
  ASSUME IInv, NEW t, AtTensor(t), NEW c, c = conversion
  PROVE  /\ Converting /\ ConversionTyped(c) /\ ThroughInv(c) /\ AtInv(c, t)
         /\ t \in c.todo /\ t \in Tensors /\ c.zeros \in BOOLEAN
         /\ Part(t) \in Parts
         /\ c.part = 1 <=> Part(t) = "weight"
         /\ c.part = 2 <=> Part(t) = "scales"
         /\ c.part = 3 <=> Part(t) = "zeros"
         /\ c.part \in {1, 2, 3}
         /\ Part(t) # "weight" => SavedIs(c.package.version, t, c.zeros, "weight")
         /\ c.part = Len(Order(t)) <=>
              IF IsNorm(t[2]) THEN c.part = 1 ELSE c.part = IF c.zeros THEN 3 ELSE 2
         /\ c.part > 1 => ~IsNorm(t[2])
         /\ c.part > 2 => c.zeros
<1>1. /\ Converting /\ t \in c.todo /\ ConversionTyped(c) /\ ThroughInv(c) /\ AtInv(c, t)
  BY DEF AtTensor, IInv, ConversionInv
<1>2. t \in Tensors /\ c.zeros \in BOOLEAN
  BY <1>1 DEF ConversionTyped, TensorsOf
<1>3. PICK k : k = c.part
  OBVIOUS
<1>4. PICK o : o = PartsInOrder(t, c.zeros)
  OBVIOUS
<1>5. Order(t) = o /\ Part(t) = o[k]
  BY <1>3, <1>4 DEF Order, Part
<1>6. k \in 1..Len(o) /\ (k > 1 => SavedIs(c.package.version, t, c.zeros, "weight"))
  BY <1>1, <1>3, <1>4 DEF AtInv
<1>7. CASE IsNorm(t[2])
  <2>1. Len(o) = 1 /\ o[1] = "weight"
    BY <1>2, <1>4, <1>7, OrderFacts
  <2>2. k = 1 /\ Part(t) = "weight"
    BY <1>5, <1>6, <2>1
  <2> QED BY <1>1, <1>2, <1>3, <1>5, <1>7, <2>1, <2>2 DEF Parts
<1>8. CASE ~IsNorm(t[2]) /\ c.zeros
  <2>1. Len(o) = 3 /\ o[1] = "weight" /\ o[2] = "scales" /\ o[3] = "zeros"
    BY <1>2, <1>4, <1>8, OrderFacts
  <2>2. k \in {1, 2, 3}
    BY <1>6, <2>1
  <2>3. /\ k = 1 <=> Part(t) = "weight"
        /\ k = 2 <=> Part(t) = "scales"
        /\ k = 3 <=> Part(t) = "zeros"
        /\ Part(t) \in Parts
    BY <1>5, <2>1, <2>2 DEF Parts
  <2>4. /\ Part(t) # "weight" => k > 1
        /\ k = Len(Order(t)) <=> k = 3
    BY <1>5, <2>1, <2>2, <2>3
  <2> QED BY <1>1, <1>2, <1>3, <1>6, <1>8, <2>2, <2>3, <2>4
<1>9. CASE ~IsNorm(t[2]) /\ ~c.zeros
  <2>1. Len(o) = 2 /\ o[1] = "weight" /\ o[2] = "scales"
    BY <1>2, <1>4, <1>9, OrderFacts
  <2>2. k \in {1, 2}
    BY <1>6, <2>1
  <2> QED BY <1>1, <1>2, <1>3, <1>5, <1>6, <1>9, <2>1, <2>2 DEF Parts
<1> QED BY <1>7, <1>8, <1>9

(* What is written at the tensor leaves package.json as good as it was,    *)
(* even if this version is not remembered until the call ends.             *)
LEMMA TensorWrite ==
  ASSUME IInv, NEW t, AtTensor(t), NEW f, Written(t, Part(t), f),
         f \in {packageFiles[t][Part(t)], Torn,
                Whole(Saved(conversion.package.version, t, conversion.zeros, Part(t)))},
         packageJson' = packageJson, \A v : Untouched(v)' => Untouched(v)
  PROVE  /\ FilesTyped' /\ JsonInv'
         /\ packageFiles'[t][Part(t)] = f
         /\ \A u \in Tensors : \A q \in Parts :
              u # t \/ q # Part(t) => packageFiles'[u][q] = packageFiles[u][q]
<1>1. PICK c : c = conversion
  OBVIOUS
<1>2. /\ Converting /\ t \in Tensors /\ Part(t) \in Parts /\ c.zeros \in BOOLEAN
      /\ Part(t) # "weight" => SavedIs(c.package.version, t, c.zeros, "weight")
  BY <1>1, AtFacts
<1>3. PICK part \in Parts : part = Part(t)
  BY <1>2
<1>4. FilesTyped
  BY DEF IInv
<1>5. IsWhole(f) => f = Whole(Content(f))
  BY <1>2, WholeFile DEF IInv, FilesTyped
<1>6. Written(t, part, f)
  BY <1>3
<1>7. /\ FilesTyped' /\ packageFiles'[t][part] = f
      /\ \A u \in Tensors : \A q \in Parts :
           u # t \/ q # part => packageFiles'[u][q] = packageFiles[u][q]
  BY <1>2, <1>4, <1>5, <1>6, FileChanges
<1>8. PICK v : v = Content(packageJson).version
  OBVIOUS
<1>9. ASSUME Untouched(v)', NEW u \in Tensors, NEW z \in BOOLEAN, DetectedOrSaved(v, u, z)
      PROVE  DetectedOrSaved(v, u, z)'
  <2>1. PICK w : w = c.package.version
    OBVIOUS
  <2>2. v # w
    BY <1>1, <1>2, <1>9, <2>1 DEF Untouched
  <2>3. PICK y \in BOOLEAN : y = c.zeros
    BY <1>2
  <2>4. f \in {packageFiles[t][part], Torn, Whole(Saved(w, t, y, part))}
    BY <1>1, <1>3, <2>1, <2>3
  <2>5. part # "weight" => SavedIs(w, t, y, "weight")
    BY <1>2, <1>3, <2>1, <2>3
  <2>6. WrittenFor(w, t, y, part, f)
    BY <1>6, <2>4, <2>5 DEF WrittenFor
  <2> QED BY <1>2, <1>4, <1>9, <2>2, <2>6, OtherVersionDetected
<1>10. JsonInv'
  BY <1>8, <1>9, JsonStays DEF IInv
<1> QED BY <1>3, <1>7, <1>10

(* The fields of a conversion, replaced one by one.                        *)
AtNext(c, R) == [c EXCEPT !.todo = R, !.part = 1]
WithPart(c, k) == [c EXCEPT !.part = k]
WithErrors(c) == [c EXCEPT !.errors = TRUE]
WithPackage(c, p) == [c EXCEPT !.package = p]

(* The other fields stay.                                                  *)
LEMMA ConversionFields ==
  ASSUME NEW c, NEW z, NEW k, NEW S, NEW er, NEW p, Writing(c, z, k, S, er, p)
  PROVE  /\ \A j : Writing(WithPart(c, j), z, j, S, er, p)
         /\ \A R : Writing(AtNext(c, R), z, 1, R, er, p)
         /\ Writing(WithErrors(c), z, k, S, TRUE, p)
         /\ \A q : Writing(WithPackage(c, q), z, k, S, er, q)
<1>1. ASSUME NEW j PROVE Writing(WithPart(c, j), z, j, S, er, p)
  BY DEF Writing, WithPart
<1>2. ASSUME NEW R PROVE Writing(AtNext(c, R), z, 1, R, er, p)
  <2>1. PICK e : e = [c EXCEPT !.todo = R]
    OBVIOUS
  <2>2. Writing(e, z, k, R, er, p)
    BY <2>1 DEF Writing
  <2>3. Writing([e EXCEPT !.part = 1], z, 1, R, er, p)
    BY <2>2 DEF Writing
  <2> QED BY <2>1, <2>3 DEF AtNext
<1>3. ASSUME NEW x PROVE Writing([c EXCEPT !.errors = x], z, k, S, x, p)
  BY DEF Writing
<1>4. ASSUME NEW q PROVE Writing(WithPackage(c, q), z, k, S, er, q)
  BY DEF Writing, WithPackage
<1> QED BY <1>1, <1>2, <1>3, <1>4 DEF WithErrors

(* The writer goes on with the next tensor and an error.                   *)
LEMMA FailStep ==
  ASSUME IInv, NEW t, FailPart(t)
  PROVE  IInv'
<1>1. PICK c : c = conversion
  OBVIOUS
<1>2. PICK f \in CutWrite(packageFiles[t][Part(t)]) : Written(t, Part(t), f)
  BY DEF FailPart, Written
<1>3. /\ AtTensor(t) /\ conversion' = [NextTensor(t) EXCEPT !.errors = TRUE]
      /\ UNCHANGED <<packageJson, report, cutVersions>>
  BY DEF FailPart
<1>4. Converting /\ ConversionTyped(c) /\ c.zeros \in BOOLEAN
  BY <1>1, <1>3, AtFacts
<1>5. PICK d : d = conversion'
  OBVIOUS
<1>6. Writing(d, c.zeros, 1, c.todo \ {t}, TRUE, c.package)
  <2>1. Writing(c, c.zeros, c.part, c.todo, c.errors, c.package)
    BY <1>4 DEF ConversionTyped
  <2>2. d = WithErrors(AtNext(c, c.todo \ {t}))
    BY <1>1, <1>3, <1>5 DEF NextTensor, WithErrors, AtNext
  <2>3. Writing(AtNext(c, c.todo \ {t}), c.zeros, 1, c.todo \ {t}, c.errors, c.package)
    BY <2>1, ConversionFields, Zenon
  <2>4. Writing(WithErrors(AtNext(c, c.todo \ {t})), c.zeros, 1, c.todo \ {t}, TRUE, c.package)
    BY <2>3, ConversionFields, Zenon
  <2> QED BY <2>2, <2>4
<1>7. /\ d.name = "writing" /\ d.zeros = c.zeros /\ d.part = 1 /\ d.todo = c.todo \ {t}
      /\ d.errors = TRUE /\ d.package = c.package
  BY <1>6 DEF Writing
<1>8. Converting' /\ ConversionTyped(d)
  BY <1>4, <1>5, <1>6, <1>7 DEF Converting, ConversionTyped
<1>9. ThroughInv(d)' /\ \A u \in d.todo : AtInv(d, u)'
  <2>1. \A u \in d.todo : 1 \in 1..Len(PartsInOrder(u, d.zeros))
    BY <1>4, <1>7, OrderFacts
  <2> QED BY <1>7, <2>1 DEF ThroughInv, AtInv
<1>10. ConversionInv'
  BY <1>5, <1>8, <1>9 DEF ConversionInv
<1>11. ReportInv'
  BY <1>3, <1>4, <1>8 DEF IInv, ReportInv, WriterReportHonest
<1>12. \A v : Untouched(v)' => Untouched(v)
  BY <1>1, <1>3, <1>4, <1>5, <1>7, <1>8 DEF Untouched
<1>13. FilesTyped' /\ JsonInv'
  BY <1>2, <1>3, <1>12, TensorWrite DEF CutWrite
<1> QED BY <1>10, <1>11, <1>13 DEF IInv

(* The process dies at a file of a tensor, or at package.json.             *)
LEMMA DieStep ==
  ASSUME IInv, Die
  PROVE  IInv'
<1>1. PICK c : c = conversion
  OBVIOUS
<1>2. /\ Converting /\ conversion' = ConversionIdle /\ report' = report
      /\ cutVersions' = cutVersions \cup {c.package.version}
  BY <1>1 DEF Die
<1>3. ~Converting' /\ ConversionInv'
  BY <1>2 DEF Converting, ConversionIdle, ConversionInv
<1>4. ReportInv'
  <2>1. report'.ok = FALSE
    BY <1>2 DEF IInv, ReportInv, NoReport
  <2> QED BY <1>3, <2>1 DEF ReportInv, WriterReportHonest
<1>5. \A v : Untouched(v)' => Untouched(v)
  BY <1>1, <1>2 DEF Untouched
<1>6. ASSUME NEW t \in conversion.todo, AtTensor(t), packageJson' = packageJson,
             NEW f \in CutWrite(packageFiles[t][Part(t)]), Written(t, Part(t), f)
      PROVE  FilesTyped' /\ JsonInv'
  BY <1>5, <1>6, TensorWrite DEF CutWrite
<1>7. ASSUME packageJson' \in CutWrite(packageJson), packageFiles' = packageFiles
      PROVE  FilesTyped' /\ JsonInv'
  <2>1. CASE packageJson' = Torn
    BY <1>7, <2>1, WholeFile DEF IInv, FilesTyped, JsonInv
  <2>2. CASE packageJson' = packageJson
    <3>1. PICK v : v = Content(packageJson).version
      OBVIOUS
    <3>2. \A t \in Tensors : \A z \in BOOLEAN :
            DetectedOrSaved(v, t, z) => DetectedOrSaved(v, t, z)'
      BY <1>7 DEF DetectedOrSaved, AllSaved, SavedIs
    <3>3. JsonInv'
      BY <1>5, <2>2, <3>1, <3>2, JsonStays DEF IInv
    <3> QED BY <1>7, <3>3 DEF IInv, FilesTyped
  <2> QED BY <1>7, <2>1, <2>2 DEF CutWrite
<1>8. FilesTyped' /\ JsonInv'
  BY <1>6, <1>7 DEF Die, Written
<1> QED BY <1>3, <1>4, <1>8 DEF IInv

(* A package with a checksum or a reference to zeros more.                 *)
WithChecksum(p, t, x) == [p EXCEPT !.checksum[t] = x]
WithZerosOf(p, t) == [p EXCEPT !.zeros = @ \cup {t}]

(* The rest of it stays.                                                   *)
LEMMA PackageFields ==
  ASSUME NEW p, PackageTyped(p), NEW t \in TensorsOf(p.layers), NEW x
  PROVE  /\ \A r : r = WithChecksum(p, t, x) =>
               /\ PackageTyped(r)
               /\ r.version = p.version /\ r.layers = p.layers /\ r.zeros = p.zeros
               /\ r.checksum[t] = x
               /\ \A u \in TensorsOf(p.layers) : u # t => r.checksum[u] = p.checksum[u]
         /\ \A r : r = WithZerosOf(p, t) =>
               /\ PackageTyped(r)
               /\ r.version = p.version /\ r.layers = p.layers /\ r.zeros = p.zeros \cup {t}
               /\ r.checksum = p.checksum
<1>1. PICK v, L, ck, zs :
        /\ p = [version |-> v, layers |-> L, checksum |-> ck, zeros |-> zs]
        /\ v = p.version /\ L = p.layers /\ ck = p.checksum /\ zs = p.zeros
  BY DEF PackageTyped
<1>2. /\ L \subseteq Layers /\ L # {} /\ ck = [u \in TensorsOf(L) |-> ck[u]]
      /\ t \in TensorsOf(L)
  BY <1>1 DEF PackageTyped
<1>3. ASSUME NEW r, r = [p EXCEPT !.checksum[t] = x]
      PROVE  /\ PackageTyped(r)
             /\ r.version = v /\ r.layers = L /\ r.zeros = zs
             /\ r.checksum[t] = x
             /\ \A u \in TensorsOf(L) : u # t => r.checksum[u] = ck[u]
  <2>1. PICK new : new = [ck EXCEPT ![t] = x]
    OBVIOUS
  <2>2. /\ new = [u \in TensorsOf(L) |-> new[u]] /\ new[t] = x
        /\ \A u \in TensorsOf(L) : u # t => new[u] = ck[u]
    BY <1>2, <2>1
  <2>3. r = [p EXCEPT !.checksum = new]
    BY <1>1, <1>3, <2>1
  <2>4. r = [version |-> v, layers |-> L, checksum |-> new, zeros |-> zs]
    BY <1>1, <2>3
  <2> QED BY <1>2, <2>2, <2>4 DEF PackageTyped
<1>4. ASSUME NEW r, r = [p EXCEPT !.zeros = @ \cup {t}]
      PROVE  /\ PackageTyped(r)
             /\ r.version = v /\ r.layers = L /\ r.zeros = zs \cup {t}
             /\ r.checksum = ck
  <2>1. r = [version |-> v, layers |-> L, checksum |-> ck, zeros |-> zs \cup {t}]
    BY <1>1, <1>4
  <2> QED BY <1>2, <2>1 DEF PackageTyped
<1> QED BY <1>1, <1>3, <1>4 DEF WithChecksum, WithZerosOf

(* The references as a part is saved.                                      *)
LEMMA ReferredFacts ==
  ASSUME IInv, NEW t, AtTensor(t), NEW c, c = conversion, NEW p, p = c.package,
         NEW r, r = Referred(t)
  PROVE  /\ PackageTyped(r) /\ r.version = p.version /\ r.layers = p.layers
         /\ \A u \in TensorsOf(p.layers) : u # t => r.checksum[u] = p.checksum[u]
         /\ r.checksum[t] = IF Part(t) = "scales" \/ IsNorm(t[2])
                            THEN Saved(p.version, t, c.zeros, "weight") ELSE p.checksum[t]
         /\ r.zeros = IF Part(t) = "zeros" THEN p.zeros \cup {t} ELSE p.zeros
<1>1. /\ PackageTyped(p) /\ t \in TensorsOf(p.layers)
      /\ Part(t) = "zeros" => ~IsNorm(t[2])
  BY AtFacts DEF ConversionTyped
<1>2. PICK x : x = Saved(p.version, t, c.zeros, "weight")
  OBVIOUS
<1>3. CASE Part(t) = "scales" \/ IsNorm(t[2])
  <2>1. r = WithChecksum(p, t, x) /\ Part(t) # "zeros"
    BY <1>1, <1>2, <1>3 DEF Referred, WithChecksum
  <2> QED BY <1>1, <1>2, <1>3, <2>1, PackageFields
<1>4. CASE Part(t) = "zeros"
  <2>1. r = WithZerosOf(p, t)
    BY <1>1, <1>4 DEF Referred, WithZerosOf
  <2> QED BY <1>1, <1>4, <2>1, PackageFields
<1>5. CASE ~(Part(t) = "scales" \/ IsNorm(t[2])) /\ Part(t) # "zeros"
  BY <1>1, <1>5 DEF Referred
<1> QED BY <1>3, <1>4, <1>5

(* A part of a tensor is saved; after its last part the tensor is whole    *)
(* and the package refers to it.                                           *)
LEMMA SaveStep ==
  ASSUME IInv, NEW t, SavePart(t)
  PROVE  IInv'
<1>1. PICK c, p, z, r, d : /\ c = conversion /\ p = c.package /\ z = c.zeros
                           /\ r = Referred(t) /\ d = conversion'
  OBVIOUS
<1>2. AtTensor(t) /\ UNCHANGED <<packageJson, report, cutVersions>>
  BY DEF SavePart
<1>3. /\ Converting /\ ConversionTyped(c) /\ ThroughInv(c) /\ AtInv(c, t)
      /\ t \in c.todo /\ t \in Tensors /\ z \in BOOLEAN /\ Part(t) \in Parts
      /\ c.part = 1 <=> Part(t) = "weight"
      /\ c.part = 2 <=> Part(t) = "scales"
      /\ c.part = 3 <=> Part(t) = "zeros"
      /\ c.part \in {1, 2, 3}
      /\ Part(t) # "weight" => SavedIs(p.version, t, z, "weight")
      /\ c.part > 1 => ~IsNorm(t[2])
      /\ c.part > 2 => z
  BY <1>1, <1>2, AtFacts
<1>4. c.part = Len(Order(t)) <=> IF IsNorm(t[2]) THEN c.part = 1 ELSE c.part = IF z THEN 3 ELSE 2
  BY <1>1, <1>2, AtFacts
<1>5. /\ PackageTyped(r) /\ r.version = p.version /\ r.layers = p.layers
      /\ \A u \in TensorsOf(p.layers) : u # t => r.checksum[u] = p.checksum[u]
      /\ r.checksum[t] = IF Part(t) = "scales" \/ IsNorm(t[2])
                         THEN Saved(p.version, t, z, "weight") ELSE p.checksum[t]
      /\ r.zeros = IF Part(t) = "zeros" THEN p.zeros \cup {t} ELSE p.zeros
  BY <1>1, <1>2, ReferredFacts
<1>6. c.todo \subseteq TensorsOf(p.layers) /\ t \in TensorsOf(p.layers)
  BY <1>1, <1>3 DEF ConversionTyped
<1>7. PICK last \in BOOLEAN : last <=> c.part = Len(Order(t))
  OBVIOUS
<1>8. PICK k, S : /\ Writing(d, z, k, S, c.errors, r)
                  /\ last => k = 1 /\ S = c.todo \ {t}
                  /\ ~last => k = c.part + 1 /\ S = c.todo
  <2>1. Writing(c, z, c.part, c.todo, c.errors, p)
    BY <1>1, <1>3 DEF ConversionTyped
  <2>2. CASE last
    <3>1. d = WithPackage(AtNext(c, c.todo \ {t}), r)
      BY <1>1, <1>7, <2>2 DEF SavePart, NextTensor, WithPackage, AtNext
    <3>2. Writing(AtNext(c, c.todo \ {t}), z, 1, c.todo \ {t}, c.errors, p)
      BY <2>1, ConversionFields, Zenon
    <3>3. Writing(WithPackage(AtNext(c, c.todo \ {t}), r), z, 1, c.todo \ {t}, c.errors, r)
      BY <3>2, ConversionFields, Zenon
    <3> QED BY <2>2, <3>1, <3>3
  <2>3. CASE ~last
    <3>1. d = WithPackage(WithPart(c, c.part + 1), r)
      BY <1>1, <1>7, <2>3 DEF SavePart, WithPackage, WithPart
    <3>2. Writing(WithPart(c, c.part + 1), z, c.part + 1, c.todo, c.errors, p)
      BY <2>1, ConversionFields, Zenon
    <3>3. Writing(WithPackage(WithPart(c, c.part + 1), r), z, c.part + 1, c.todo, c.errors, r)
      BY <3>2, ConversionFields, Zenon
    <3> QED BY <2>3, <3>1, <3>3
  <2> QED BY <2>2, <2>3
<1>9. /\ d.name = "writing" /\ d.zeros = z /\ d.part = k /\ d.todo = S
      /\ d.errors = c.errors /\ d.package = r
  BY <1>8 DEF Writing
<1>10. Converting' /\ ConversionTyped(d)
  BY <1>1, <1>3, <1>5, <1>6, <1>8, <1>9 DEF Converting, ConversionTyped
<1>11. ReportInv'
  BY <1>2, <1>3, <1>10 DEF IInv, ReportInv, WriterReportHonest
<1>12. PICK f : f = Whole(Saved(p.version, t, z, Part(t))) /\ Written(t, Part(t), f)
  BY <1>1 DEF SavePart, Written
<1>13. /\ FilesTyped' /\ JsonInv'
       /\ packageFiles'[t][Part(t)] = f
       /\ \A u \in Tensors : \A q \in Parts :
            u # t \/ q # Part(t) => packageFiles'[u][q] = packageFiles[u][q]
  <2>1. \A v : Untouched(v)' => Untouched(v)
    BY <1>1, <1>2, <1>3, <1>5, <1>9, <1>10 DEF Untouched
  <2> QED BY <1>1, <1>2, <1>12, <2>1, TensorWrite
<1>14. \A part \in Parts :
         part = Part(t) \/ SavedIs(p.version, t, z, part) => SavedIs(p.version, t, z, part)'
  BY <1>3, <1>12, <1>13 DEF SavedIs
<1>15. \A u \in Tensors : u # t /\ AllSaved(p.version, u, z) => AllSaved(p.version, u, z)'
  BY <1>13 DEF AllSaved, SavedIs, Parts
<1>16. CASE last
  <2>1. Part(t) = IF IsNorm(t[2]) THEN "weight" ELSE IF z THEN "zeros" ELSE "scales"
    BY <1>3, <1>4, <1>7, <1>16
  <2>2. Part(t) = "zeros" => /\ SavedIs(p.version, t, z, "scales")
                             /\ p.checksum[t] = Saved(p.version, t, z, "weight")
    BY <1>1, <1>3 DEF AtInv
  <2>3. AllSaved(p.version, t, z)'
    BY <1>3, <1>14, <2>1, <2>2 DEF AllSaved, Parts
  <2>4. Through(d) = Through(c) \cup {t} /\ t \notin Through(c)
    BY <1>1, <1>3, <1>5, <1>6, <1>8, <1>9, <1>16 DEF Through
  <2>5. Through(c) \subseteq TensorsOf(p.layers) /\ Through(c) \subseteq Tensors
    BY <1>1 DEF Through, TensorsOf
  <2>6. ASSUME ~c.errors
        PROVE  /\ RefersTo(r, Through(d), z)
               /\ \A u \in Through(d) : AllSaved(p.version, u, z)'
    <3>1. /\ RefersTo(p, Through(c), z)
          /\ \A u \in Through(c) : AllSaved(p.version, u, z)
      BY <1>1, <1>3, <2>6 DEF ThroughInv
    <3>2. \A u \in Through(d) : r.checksum[u] = Saved(r.version, u, z, "weight")
      <4>1. r.checksum[t] = Saved(p.version, t, z, "weight")
        BY <1>5, <2>1, <2>2
      <4>2. \A u \in Through(c) : r.checksum[u] = Saved(p.version, u, z, "weight")
        BY <1>5, <2>4, <2>5, <3>1 DEF RefersTo
      <4> QED BY <1>5, <2>4, <4>1, <4>2
    <3>3. r.zeros = {u \in Through(d) : z /\ ~IsNorm(u[2])}
      <4>1. p.zeros = {u \in Through(c) : z /\ ~IsNorm(u[2])}
        BY <3>1 DEF RefersTo
      <4>2. CASE z /\ ~IsNorm(t[2])
        BY <1>5, <2>1, <2>4, <4>1, <4>2
      <4>3. CASE ~(z /\ ~IsNorm(t[2]))
        BY <1>5, <2>1, <2>4, <4>1, <4>3
      <4> QED BY <4>2, <4>3
    <3>4. \A u \in Through(d) : AllSaved(p.version, u, z)'
      BY <1>15, <2>3, <2>4, <2>5, <3>1
    <3> QED BY <3>2, <3>3, <3>4 DEF RefersTo
  <2>7. ThroughInv(d)'
    BY <1>5, <1>9, <2>6 DEF ThroughInv
  <2>8. \A u \in d.todo : AtInv(d, u)'
    <3>1. d.part = 1 /\ \A u \in d.todo : 1 \in 1..Len(PartsInOrder(u, d.zeros))
      BY <1>3, <1>8, <1>9, <1>16, OrderFacts
    <3> QED BY <3>1 DEF AtInv
  <2>9. ConversionInv'
    BY <1>1, <1>10, <2>7, <2>8 DEF ConversionInv
  <2> QED BY <1>11, <1>13, <2>9 DEF IInv
<1>17. CASE ~last
  <2>1. ~IsNorm(t[2]) /\ (c.part = 1 \/ (c.part = 2 /\ z))
    BY <1>3, <1>4, <1>7, <1>17
  <2>2. d.part = c.part + 1 /\ d.todo = c.todo /\ Through(d) = Through(c)
    BY <1>1, <1>5, <1>8, <1>9, <1>17 DEF Through
  <2>3. Through(c) \subseteq TensorsOf(p.layers) /\ Through(c) \subseteq Tensors /\ t \notin Through(c)
    BY <1>1, <1>3 DEF Through, TensorsOf
  <2>4. ThroughInv(d)'
    <3> SUFFICES ASSUME ~c.errors
                 PROVE  /\ RefersTo(r, Through(c), z)
                        /\ \A u \in Through(c) : AllSaved(p.version, u, z)'
      BY <1>5, <1>9, <2>2 DEF ThroughInv
    <3>1. /\ RefersTo(p, Through(c), z)
          /\ \A u \in Through(c) : AllSaved(p.version, u, z)
      BY <1>1, <1>3 DEF ThroughInv
    <3>2. r.zeros = p.zeros
      BY <1>3, <1>5, <2>1
    <3>3. \A u \in Through(c) : r.checksum[u] = Saved(r.version, u, z, "weight")
      BY <1>5, <2>3, <3>1 DEF RefersTo
    <3> QED BY <1>15, <2>3, <3>1, <3>2, <3>3 DEF RefersTo
  <2>5. AtInv(d, t)'
    <3>1. d.part \in 1..Len(PartsInOrder(t, d.zeros))
      <4>1. Len(PartsInOrder(t, z)) = IF z THEN 3 ELSE 2
        BY <1>3, <2>1, OrderFacts
      <4> QED BY <1>9, <2>1, <2>2, <4>1
    <3>2. SavedIs(p.version, t, z, "weight")'
      BY <1>3, <1>14, <2>1 DEF Parts
    <3>3. d.part > 2 => Part(t) = "scales"
      BY <1>3, <2>1, <2>2
    <3>4. d.part > 2 => /\ SavedIs(p.version, t, z, "scales")'
                        /\ r.checksum[t] = Saved(p.version, t, z, "weight")
      BY <1>3, <1>5, <1>14, <3>3 DEF Parts
    <3> QED BY <1>5, <1>9, <3>1, <3>2, <3>4 DEF AtInv
  <2>6. \A u \in d.todo : AtTensor(u)' => u = t
    <3>1. \A u \in d.todo : AtTensor(u)' => AtTensor(u)
      BY <1>1, <1>3, <2>2 DEF AtTensor
    <3>2. \A u \in d.todo : u \in Tensors
      BY <1>6, <2>2 DEF TensorsOf
    <3> QED BY <1>2, <1>3, <3>1, <3>2, OneAtATime
  <2>7. ConversionInv'
    BY <1>1, <1>10, <2>4, <2>5, <2>6 DEF ConversionInv
  <2> QED BY <1>11, <1>13, <2>7 DEF IInv
<1> QED BY <1>16, <1>17

-----------------------------------------------------------------------------
(* Theorems.                                                               *)

(* The invariant is inductive.                                             *)
LEMMA Invariance == IInv /\ [PackageNext]_packageVars => IInv'
<1> SUFFICES ASSUME IInv, [PackageNext]_packageVars PROVE IInv'
  OBVIOUS
<1>1. CASE UNCHANGED packageVars
  BY <1>1 DEF packageVars, IInv, FilesTyped, JsonInv, JsonPackage, Untouched, DetectedOrSaved,
              AllSaved, SavedIs, ConversionInv, Converting, ThroughInv, AtInv, AtTensor,
              ReportInv, WriterReportHonest
<1>2. ASSUME NEW version \in Versions, NEW layers \in SUBSET Layers,
             \/ ConvertMetadata(version, layers)
             \/ \E zeros, given \in BOOLEAN : Convert(version, layers, zeros, given)
      PROVE  IInv'
  BY <1>2, MetadataStep, ConvertStep
<1>3. ASSUME NEW t \in Tensors, SavePart(t) \/ FailPart(t) PROVE IInv'
  BY <1>3, SaveStep, FailStep
<1>4. CASE FinishPackage \/ Die
  BY <1>4, FinishStep, DieStep
<1> QED BY <1>1, <1>2, <1>3, <1>4 DEF PackageNext

(* It holds in every reachable state.                                      *)
LEMMA Inductive == PackageSpec => []IInv
BY InitInv, Invariance, PTL DEF PackageSpec

(* A report that says ok is about what is in the directory, whatever       *)
(* failed or died in the calls before.                                     *)
THEOREM ReportHonest == PackageSpec => []WriterReportHonest
<1>1. IInv => WriterReportHonest
  BY DEF IInv, ReportInv
<1> QED BY <1>1, Inductive, PTL

(* The tensors a layer of a validated package loads are the ones that were *)
(* saved, scales and zeros too.                                            *)
LEMMA LoadedIsSaved ==
  ASSUME FilesTyped, NEW p, PackageTyped(p), Loaded(p), NEW z \in BOOLEAN,
         RefersTo(p, TensorsOf(p.layers), z),
         NEW t \in TensorsOf(p.layers), DetectedOrSaved(p.version, t, z)
  PROVE  LET q == WithZeros(quantize_layer(p.version, t[1]), z)[t[2]]
         IN  /\ Load(p, t).weight = q.weight
             /\ ~IsNorm(t[2]) => Load(p, t).scales = q.scales /\ Load(p, t).zeros = q.zeros
<1>1. PICK q : q = WithZeros(quantize_layer(p.version, t[1]), z)[t[2]]
  OBVIOUS
<1>2. /\ Saved(p.version, t, z, "weight") = q.weight
      /\ Saved(p.version, t, z, "scales") = q.scales
      /\ Saved(p.version, t, z, "zeros") = q.zeros
  BY <1>1 DEF Saved
<1>3. t \in Tensors /\ DOMAIN p.checksum = TensorsOf(p.layers)
  BY DEF TensorsOf, PackageTyped
<1>4. PICK x : x = Saved(p.version, t, z, "weight")
  OBVIOUS
<1>5. p.checksum[t] = x /\ x # None
  BY <1>3, <1>4, WeightIsNotNone DEF RefersTo
<1>6. IsWhole(packageFiles[t]["weight"]) /\ Content(packageFiles[t]["weight"]) = x
  BY <1>3, <1>5 DEF Loaded, validate_tensor_files
<1>7. SavedIs(p.version, t, z, "weight")
  BY <1>3, <1>4, <1>6 DEF FilesTyped, Parts, SavedIs
<1>8. AllSaved(p.version, t, z)
  BY <1>7 DEF DetectedOrSaved
<1>9. PICK l : l = Load(p, t)
  OBVIOUS
<1>10. /\ l.weight = Content(packageFiles[t]["weight"])
       /\ l.scales = IF IsNorm(t[2]) THEN None ELSE Content(packageFiles[t]["scales"])
       /\ l.zeros = IF t \in p.zeros THEN Content(packageFiles[t]["zeros"]) ELSE None
  BY <1>9 DEF Load
<1>11. l.weight = q.weight
  BY <1>2, <1>4, <1>6, <1>10
<1>12. ASSUME ~IsNorm(t[2]) PROVE l.scales = q.scales /\ l.zeros = q.zeros
  <2>1. l.scales = q.scales
    BY <1>2, <1>8, <1>10, <1>12, WholeFile DEF AllSaved, SavedIs
  <2>2. t \in p.zeros <=> z
    BY <1>12 DEF RefersTo
  <2>3. CASE z
    BY <1>2, <1>8, <1>10, <1>12, <2>2, <2>3, WholeFile DEF AllSaved, SavedIs
  <2>4. CASE ~z
    <3>1. q.zeros = None
      BY <1>2, <1>3, <1>12, <2>4, SavedValue
    <3>2. t \notin p.zeros
      BY <2>2, <2>4
    <3>3. l.zeros = None
      BY <1>10, <3>2
    <3> QED BY <2>1, <3>1, <3>3
  <2> QED BY <2>1, <2>3, <2>4
<1> QED BY <1>1, <1>9, <1>11, <1>12

(* A layer has a tensor that is quantized: the first of its metadata.      *)
LEMMA LinearTensor == \E key \in Keys : ~IsNorm(key)
<1>1. /\ LinearKeys \in Seq(STRING) /\ LinearKeys # <<>> /\ NormKeys \in Seq(STRING)
      /\ \A i, j \in DOMAIN KeyOrder : KeyOrder[i] = KeyOrder[j] => i = j
  BY PackageAssumption
<1>2. PICK n \in Nat : n = Len(LinearKeys)
  BY <1>1
<1>3. n > 0
  BY <1>1, <1>2
<1>4. PICK m \in Nat : m = Len(NormKeys)
  BY <1>1
<1>5. /\ DOMAIN KeyOrder = 1..(n + m)
      /\ \A i \in 1..m : KeyOrder[n + i] = NormKeys[i]
  BY <1>1, <1>2, <1>4 DEF KeyOrder
<1>6. KeyOrder[1] \in Keys
  BY <1>3, <1>5 DEF Keys
<1>7. ~IsNorm(KeyOrder[1])
  <2>1. SUFFICES ASSUME NEW i \in 1..m, NormKeys[i] = KeyOrder[1] PROVE FALSE
    BY <1>1, <1>4 DEF IsNorm
  <2>2. KeyOrder[n + i] = KeyOrder[1] /\ n + i \in DOMAIN KeyOrder /\ 1 \in DOMAIN KeyOrder
    BY <1>3, <1>5, <2>1
  <2>3. n + i = 1
    BY <1>1, <2>2
  <2> QED BY <1>3, <2>3
<1> QED BY <1>6, <1>7

(* A package whose loaded tensors are those of the conversion gives the    *)
(* kernels the weights of the conversion.                                  *)
LEMMA KernelWeights ==
  ASSUME NEW a, NEW b,
         \A key \in Keys :
           /\ a[key].weight = b[key].weight
           /\ ~IsNorm(key) => a[key].scales = b[key].scales /\ a[key].zeros = b[key].zeros
  PROVE  to_kernel_weights(a) = to_kernel_weights(b)
BY DEF to_kernel_weights, kernel_zeros

(* A package that was read as whole is the conversion it speaks of.        *)
THEOREM PackageWhole == PackageSpec => []ValidatedPackageIsWhole
<1>1. IInv => ValidatedPackageIsWhole
  <2>1. SUFFICES ASSUME IInv, IsWhole(packageJson),
                        NEW p, p = Content(packageJson), Loaded(p), Untouched(p.version),
                        NEW l \in p.layers
                 PROVE  to_kernel_weights([key \in Keys |-> Load(p, <<l, key>>)]) =
                          to_kernel_weights(WithZeros(quantize_layer(p.version, l), p.zeros # {}))
    BY DEF ValidatedPackageIsWhole, Untouched
  <2>2. FilesTyped /\ JsonPackage(p) /\ PackageTyped(p)
    BY <2>1 DEF IInv, JsonInv, JsonPackage
  <2>3. \A key \in Keys : <<l, key>> \in TensorsOf(p.layers)
    BY <2>1, <2>2 DEF PackageTyped, TensorsOf, Tensors
  <2>4. PICK linear \in Keys : ~IsNorm(linear)
    BY LinearTensor
  <2>5. ~Bare(p)
    <3>1. <<l, linear>> \in DOMAIN p.checksum
      BY <2>2, <2>3 DEF PackageTyped
    <3>2. p.checksum[<<l, linear>>] # None
      BY <2>1, <2>4, <3>1 DEF Loaded, has_tensor_data
    <3> QED BY <2>3, <3>2 DEF Bare
  <2>6. PICK z \in BOOLEAN :
          /\ RefersTo(p, TensorsOf(p.layers), z)
          /\ \A t \in TensorsOf(p.layers) : DetectedOrSaved(p.version, t, z)
    BY <2>1, <2>2, <2>5 DEF JsonPackage
  <2>7. (p.zeros # {}) = z
    <3>1. <<l, linear>> \in TensorsOf(p.layers) /\ ~IsNorm(<<l, linear>>[2])
      BY <2>3, <2>4
    <3>2. p.zeros = {t \in TensorsOf(p.layers) : z /\ ~IsNorm(t[2])}
      BY <2>6 DEF RefersTo
    <3> QED BY <2>6, <3>1, <3>2
  <2>8. PICK a : a = [key \in Keys |-> Load(p, <<l, key>>)]
    OBVIOUS
  <2>9. PICK b : b = WithZeros(quantize_layer(p.version, l), z)
    OBVIOUS
  <2>10. ASSUME NEW key \in Keys
         PROVE  /\ a[key].weight = b[key].weight
                /\ ~IsNorm(key) => a[key].scales = b[key].scales /\ a[key].zeros = b[key].zeros
    <3>1. PICK t : t = <<l, key>>
      OBVIOUS
    <3>2. t \in TensorsOf(p.layers) /\ t[1] = l /\ t[2] = key
      BY <2>3, <3>1
    <3>3. DetectedOrSaved(p.version, t, z)
      BY <2>6, <3>2
    <3>4. LET q == WithZeros(quantize_layer(p.version, t[1]), z)[t[2]]
          IN  /\ Load(p, t).weight = q.weight
              /\ ~IsNorm(t[2]) => Load(p, t).scales = q.scales /\ Load(p, t).zeros = q.zeros
      BY <2>1, <2>2, <2>6, <3>2, <3>3, LoadedIsSaved
    <3>5. b[key] = WithZeros(quantize_layer(p.version, t[1]), z)[t[2]] /\ a[key] = Load(p, t)
      BY <2>8, <2>9, <3>1, <3>2
    <3> QED BY <3>2, <3>4, <3>5
  <2>11. to_kernel_weights(a) = to_kernel_weights(b)
    BY <2>10, KernelWeights
  <2> QED BY <2>7, <2>8, <2>9, <2>11
<1> QED BY <1>1, Inductive, PTL
==============================================================================
