------------------------------ MODULE MCKVCache ------------------------------
(* KVCacheLayouts for TLC: two batch elements of three positions in pages of
   two, two kv heads under two query heads each, heads of two and of three lanes
   with a scale for every two. *)
EXTENDS KVCacheLayouts

(* the identity table of allocate_paged_kv_cache, and one that gives the pages
   out backwards *)
MCTables == {make_identity_block_table,
             [e \in Idx(NUM_PAGES) |-> NUM_PAGES - 1 - e]}
(* arrays that are unequal, equal, past the contiguous cache and empty *)
Pair(x, y) == [b \in Idx(B) |-> IF b = 0 THEN x ELSE y]
MCPositionArrays == {Pair(0, 2), Pair(2, 0), Pair(1, 3)}
MCLengthArrays == {Pair(0, 2), Pair(1, 3), Pair(3, 1), Pair(2, 4), Pair(4, 4)}
(* windows shorter and longer than a sequence, sinks inside and before them, and
   masks of blocks of two in which a query may not see its own block *)
Pattern(name, window, sink, blocks) ==
    [Dense EXCEPT !.pattern = name, !.window_size = window, !.sink_tokens = sink,
                  !.block_size = 2, !.block_mask = blocks]
MCPatterns == {Pattern("sliding_window", 2, 0, {}), Pattern("sliding_window", 4, 0, {}),
               Pattern("sliding_window_sink", 1, 1, {}), Pattern("sliding_window_sink", 2, 2, {}),
               Pattern("block_sparse", 0, 0, {<<0, 0>>, <<1, 0>>}),
               Pattern("block_sparse", 0, 0, {<<1, 1>>})}
(* The refinement mapping costs more than a step does: its value is kept in
   variables, so that TLC computes it once per state. *)
VARIABLES rows, room, attended
Mapped == rows = StoredRows /\ room = Room /\ attended = Promised
MCInit == Init /\ Mapped
MCNext == Next /\ rows' = StoredRows' /\ room' = Room' /\ attended' = Promised'
MCSpec == MCInit /\ [][MCNext]_<<vars, rows, room, attended>>

Cache == INSTANCE KVCache WITH status <- out.status, asked <- Asked

(* Whatever the layout, the backend and the conversions in between, a query
   reads the rows last written below its length, of its own batch element and
   kv head, and a write changes the row it names and no other. *)
ImplementsKVCache == Cache!Spec
=============================================================================
