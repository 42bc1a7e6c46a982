------------------------ MODULE MCThreadgroupKernels ------------------------
EXTENDS ThreadgroupKernels

Launch(kernel, threads, dims, rows, query) ==
    [kernel |-> kernel, threads |-> threads, dims |-> dims, rows |-> rows, query |-> query,
     first |-> 0, tile |-> 1, outputs |-> 1]

SmallLaunches ==
    {Launch("streaming", n, d, k, q) : n \in {4, 8}, d \in {1, 3, 4, 7, 8}, k \in 0..3, q \in {0, 1, 3}}
    \cup {Launch("row_parallel", 4, d, k, q) : d \in {1, 3, 4, 6, 8}, k \in 1..3, q \in {0, 1, 3}}
    \cup {Launch("tiled_kv", 4, d, k, q) : d \in {1, 3, 4, 6, 8}, k \in 1..5, q \in {0, 2, 5}}
    \cup {Launch("rms_norm", 4, d, 1, 0) : d \in 1..9}
    \cup {[Launch("matvec", n, d, 0, 0) EXCEPT !.first = f, !.tile = w, !.outputs = 3] :
             n \in {4, 8}, d \in {1, 3, 8, 9}, f \in {0, 2}, w \in {1, 2}}
=============================================================================
