------------------------ MODULE MCLongContextRuntime ------------------------
(* Small instances of LongContextRuntime for TLC.                          *)
EXTENDS LongContextRuntime

Grid == (0..NumLayers-1) \X (0..NumBlocks-1)
LayerOfGrid == [b \in Grid |-> b[1]]

(* A query pattern and an offload policy, the scheduler off.               *)
Sparse(window, sinks, recent, keep, limit, ahead) ==
  [window |-> window, sinkTokens |-> sinks, keepRecent |-> recent, keepSink |-> keep,
   limit |-> limit, lookahead |-> ahead, scheduler |-> FALSE, gaps |-> 0]

Scheduled(p, n) == [p EXCEPT !.scheduler = TRUE, !.gaps = n]
OnDemand(p, n) == [p EXCEPT !.gaps = n]

(* Windows within a block and across blocks, with and without sinks and a  *)
(* limit; policies that cover their window and some that do not; maps      *)
(* without a gap for the scheduler, and with gaps for it and without it.   *)
ManyPolicies ==
  {Scheduled(Sparse(2, 0, 1, 0, 0, 1), 0), Scheduled(Sparse(3, 1, 2, 1, 2, 0), 0),
   Scheduled(Sparse(3, 1, 1, 0, 1, 1), 1),
   OnDemand(Sparse(1, 0, 1, 0, 0, 0), 1), OnDemand(Sparse(3, 2, 2, 1, 2, 2), 1)}

GappedPolicies == {OnDemand(Sparse(2, 0, 1, 0, 0, 1), 2)}
LimitedPolicies == {OnDemand(Sparse(2, 0, 2, 0, 1, 0), 0)}

OneLayerGiven == {1}
TwoLayersGiven == {2}
=============================================================================
