------------------------------- MODULE KVCache -------------------------------
(***************************************************************************)
(* What a key/value cache promises, whatever its layout in memory: a query *)
(* of batch element b that is told its length attends to exactly the rows  *)
(* 0 .. length-1 of b, or to those of them that its sparse pattern lets it *)
(* see, each as it was last written, in the kv head its query head belongs *)
(* to.  KVCacheLayouts implements this for the five layouts of ops/ and    *)
(* every reference function and kernel that reads or writes them.          *)
(*                                                                         *)
(* A row is the number of the decode step that wrote it with the position  *)
(* its key was rotated for; Hkv heads and the lanes of a head belong to    *)
(* the detailed level.                                                     *)
(***************************************************************************)
EXTENDS Integers, FiniteSets

CONSTANTS
    B,         \* batch elements
    Hq, Hkv,   \* query heads and key/value heads
    Capacity,  \* positions the largest layout can hold
    Patterns,  \* sparse attention patterns
    MaxSteps   \* bound on the decode steps

Batch == 0..(B - 1)
Positions == 0..(Capacity - 1)
Unwritten == <<0, 0>>
Rows == (1..MaxSteps) \X Positions

VARIABLES
    rows,     \* rows[b][p]: what the last write to position p of b left
    room,     \* room[b]: the positions of b that have storage
    steps,    \* decode steps so far: the name of the next row
    status,   \* "idle", or how the last call ended until its result is taken
    asked,    \* the lengths and the pattern of the last call
    attended  \* attended[b][p]: what the last call read at position p of b

vars == <<rows, room, steps, status, asked, attended>>

Dense == [pattern |-> "dense", window_size |-> 0, sink_tokens |-> 0, block_size |-> 1, block_mask |-> {}]
NotAsked == [len |-> <<>>, pattern |-> Dense]

Init ==
    /\ rows = [b \in Batch |-> [p \in Positions |-> Unwritten]]
    /\ room \in [Batch -> 0..Capacity]
    /\ steps = 0
    /\ status = "idle" /\ asked = NotAsked /\ attended = <<>>

(* A row of b written at pos[b]; one that has no storage is dropped. *)
Written(rws, rm, pos) ==
    [b \in Batch |-> [rws[b] EXCEPT ![pos[b]] =
        IF pos[b] < rm[b] THEN <<steps + 1, pos[b]>> ELSE @]]

(* The positions a query at the end of a sequence of len rows sees. *)
Visible(pattern, len) ==
    CASE pattern.pattern = "dense" -> 0..(len - 1)
      [] pattern.pattern = "block_sparse" ->
            {p \in 0..(len - 1) : <<(len - 1) \div pattern.block_size, p \div pattern.block_size>>
                                      \in pattern.block_mask}
      [] OTHER -> {p \in 0..(len - 1) : p >= len - pattern.window_size
                       \/ (pattern.pattern = "sliding_window_sink" /\ p < pattern.sink_tokens)}

(* The answer to a question: the rows it sees of each batch element whose
   length is in 1..room.  Of a length of 0, or past the storage, and of a
   query that sees nothing, nothing is promised. *)
Answer(rws, rm, question) ==
    LET seen(b) == Visible(question.pattern, question.len[b])
    IN  [b \in {c \in Batch : question.len[c] \in 1..rm[c] /\ seen(c) # {}} |->
            [p \in seen(b) |-> rws[b][p]]]

Returns == status = "idle" /\ status' = "returned"
Raises == status = "idle" /\ status' = "raised" /\ UNCHANGED <<asked, attended>>

(* A decode step writes one row per batch element, then attends up to it. *)
DecodeStep ==
    /\ steps < MaxSteps /\ steps' = steps + 1
    /\ Returns
    /\ UNCHANGED room
    /\ LET before == rows  after == rows'  rm == room  answer == attended'  question == asked'
       IN  \E pos \in [Batch -> Positions] :
              /\ after = Written(before, rm, pos)
              /\ question = [len |-> [b \in Batch |-> pos[b] + 1], pattern |-> Dense]
              /\ answer = Answer(after, rm, question)

(* Attention over the cache as it is, for any lengths and any pattern. *)
Attend ==
    /\ UNCHANGED steps
    /\ Returns
    /\ UNCHANGED <<room, rows>>
    /\ LET now == rows  rm == room  answer == attended'  question == asked'
       IN  /\ question.pattern \in Patterns \cup {Dense}
           /\ DOMAIN question.len = Batch
           /\ answer = Answer(now, rm, question)

(* A call that raises leaves the caller with the cache it had. *)
Refuse == Raises /\ UNCHANGED <<steps, room, rows>>

(* The cache is copied to another layout, keeping the first keep[b] rows of
   each batch element; the others are unwritten in the copy. *)
Convert ==
    /\ status = "idle"
    /\ UNCHANGED <<steps, status, asked, attended>>
    /\ room' \in [Batch -> 0..Capacity]
    /\ LET before == rows  after == rows'
       IN  \E keep \in [Batch -> 0..Capacity] :
              after = [b \in Batch |-> [p \in Positions |->
                          IF p < keep[b] THEN before[b][p] ELSE Unwritten]]

TakeOutput ==
    /\ status # "idle" /\ status' = "idle"
    /\ asked' = NotAsked /\ attended' = <<>>
    /\ UNCHANGED <<steps, room, rows>>

Next == TakeOutput \/ Refuse \/ DecodeStep \/ Attend \/ Convert
Spec == Init /\ [][Next]_vars
=============================================================================
