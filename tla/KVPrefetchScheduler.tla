------------------------ MODULE KVPrefetchScheduler ------------------------
(***************************************************************************)
(* models/kv_prefetch_scheduler.py: the step-driven scheduler that brings  *)
(* offloaded KV blocks back before attention reads them, with the callers  *)
(* of ops/kv_prefetch_ops.py and the code that offloads and fetches blocks *)
(* beside it.                                                              *)
(*                                                                         *)
(* The code runs on one thread, so a call is atomic; wait_for and          *)
(* ensure_prefetched_before_attention are loops over the other operations  *)
(* and are modelled as such, with `call` holding their locals while no     *)
(* other operation can run.                                                *)
(*                                                                         *)
(* Time is relative.  The code compares ready_step with current_step only  *)
(* by difference, so a request carries due = ready_step - current_step and *)
(* current_step needs no variable.  The queue is appended to in the order  *)
(* ids are drawn and never reordered, so it is the set of its requests,    *)
(* ordered by id; for the same reason sorting it by (-priority,            *)
(* issue_step) with Python's stable sort is ordering by (-prio, id).       *)
(***************************************************************************)
EXTENDS KVOffloadTier, Integers

CONSTANTS
  Priorities,     \* the priorities callers submit with
  MaxInFlight,    \* config.max_in_flight
  Latency,        \* config.simulated_latency_steps
  Prioritize,     \* config.prioritize_recent
  Dedup,          \* config.deduplicate_requests
  FailOnMissing,  \* config.fail_on_missing
  CacheArgs,      \* layer_caches arguments: NoCaches, or how many layers are given
  WaitSteps,      \* max_steps arguments of wait_for
  MaxRequests,    \* BOUND on the request ids drawn
  NoReq,          \* no entry under a block's key in one of the dicts
  NoCaches        \* layer_caches=None

ASSUME SchedulerAssumption ==
  /\ Priorities \subseteq Int
  /\ 0 \in Priorities
  /\ MaxInFlight \in Nat \ {0}
  /\ Latency \in Nat
  /\ Prioritize \in BOOLEAN /\ Dedup \in BOOLEAN /\ FailOnMissing \in BOOLEAN
  /\ CacheArgs \subseteq Nat \cup {NoCaches}
  /\ NoCaches \notin Nat
  /\ WaitSteps \subseteq Nat
  /\ MaxRequests \in Nat

Request == [id : Nat, block : Blocks, prio : Priorities, due : 0..Latency]

ASSUME NoReqAssumption == NoReq \notin Request

VARIABLES
  queue,      \* _queue
  inFlight,   \* _in_flight, keyed by block
  completed,  \* _completed, keyed by block
  failed,     \* _failed, keyed by block
  nextSeq,    \* _req_seq
  stats,      \* the four fields of stats that count what is where
  call        \* locals of a running wait_for or ensure_prefetched_before_attention

schedVars == <<queue, inFlight, completed, failed, nextSeq, stats>>
vars == <<tierVars, schedVars, call>>

Idle == [op |-> "idle", blocks |-> {}, todo |-> {}, need |-> {}, pending |-> {},
         steps |-> 0, limit |-> 0, caches |-> NoCaches, stale |-> {}]

Calls == [op : {"idle", "ensure", "wait"}, blocks : SUBSET Blocks,
          todo : SUBSET Blocks, need : SUBSET Blocks, pending : SUBSET Blocks,
          steps : Nat, limit : Nat, caches : CacheArgs \cup {NoCaches},
          stale : SUBSET Blocks]

TypeOK ==
  /\ TierTypeOK
  /\ queue \in SUBSET Request
  /\ inFlight \in [Blocks -> Request \cup {NoReq}]
  /\ completed \in [Blocks -> Request \cup {NoReq}]
  /\ failed \in [Blocks -> Request \cup {NoReq}]
  /\ nextSeq \in Nat
  /\ stats \in [queued : Int, in_flight : Int, complete : Int, failed : Int]
  /\ call \in Calls

Keys(dict) == {b \in Blocks : dict[b] # NoReq}
Empty == [b \in Blocks |-> NoReq]

Init ==
  /\ TierInit
  /\ queue = {}
  /\ inFlight = Empty /\ completed = Empty /\ failed = Empty
  /\ nextSeq = 0
  /\ stats = [queued |-> 0, in_flight |-> 0, complete |-> 0, failed |-> 0]
  /\ call = Idle

-----------------------------------------------------------------------------
(* Looking a block up.                                                     *)

Queued(b) == \E r \in queue : r.block = b
Recorded(b) == completed[b] # NoReq \/ failed[b] # NoReq
IsPending(b) == ~Recorded(b) /\ (Queued(b) \/ inFlight[b] # NoReq)
HasExistingNotFlying(b) == Queued(b) \/ Recorded(b)  \* mutant: _in_flight not searched

HasExisting(b) == Queued(b) \/ inFlight[b] # NoReq \/ Recorded(b)

-----------------------------------------------------------------------------
(* submit: a resident block is recorded complete at once; a duplicate gets *)
(* the request there is; any other block is queued.                        *)

NewRequest(b, p, due) == [id |-> nextSeq, block |-> b, prio |-> p, due |-> due]

SubmitResident(b, p) ==
  /\ Resident(b)
  /\ completed' = [completed EXCEPT ![b] = NewRequest(b, p, 0)]
  /\ nextSeq' = nextSeq + 1
  /\ stats' = [stats EXCEPT !.complete = @ + 1]
  /\ UNCHANGED <<queue, inFlight, failed>>

SubmitDuplicate(b) ==
  /\ ~Resident(b)
  /\ Dedup /\ HasExisting(b)
  /\ UNCHANGED schedVars

SubmitQueued(b, p) ==
  /\ ~Resident(b)
  /\ ~(Dedup /\ HasExisting(b))
  /\ queue' = queue \cup {NewRequest(b, p, Latency)}
  /\ nextSeq' = nextSeq + 1
  /\ stats' = [stats EXCEPT !.queued = @ + 1]
  /\ UNCHANGED <<inFlight, completed, failed>>

SubmitOne(b, p) == SubmitResident(b, p) \/ SubmitDuplicate(b) \/ SubmitQueued(b, p)

Submit(b, p) ==
  /\ call = Idle
  /\ nextSeq < MaxRequests
  /\ SubmitOne(b, p)
  /\ UNCHANGED <<tierVars, call>>

-----------------------------------------------------------------------------
(* _issue_queued: the first `slots` requests in issue order.               *)

PrecedesNewest(q, r) == q.id > r.id  \* mutant: "recent" taken as newest first

Precedes(q, r) ==
  IF Prioritize THEN q.prio > r.prio \/ (q.prio = r.prio /\ q.id < r.id)
                ELSE q.id < r.id

SlotsAlwaysAll == MaxInFlight  \* mutant: what is in flight is not counted

SlotsOneShort == MaxInFlight - Cardinality(Keys(inFlight)) - 1  \* mutant: off by one

Slots == MaxInFlight - Cardinality(Keys(inFlight))

NumToIssue ==
  IF Slots <= 0 THEN 0
  ELSE IF Cardinality(queue) < Slots THEN Cardinality(queue) ELSE Slots

IsIssueBatch(batch) ==
  /\ Cardinality(batch) = NumToIssue
  /\ \A r \in batch : \A q \in queue \ batch : Precedes(r, q)

(* The dict is keyed by block: of two requests for one block the one        *)
(* issued last is kept, and it replaces a request already in flight.        *)
IssueInto(batch) ==
  [b \in Blocks |->
     LET mine == {r \in batch : r.block = b}
     IN  IF mine = {} THEN inFlight[b]
         ELSE CHOOSE r \in mine : \A q \in mine \ {r} : Precedes(q, r)]

-----------------------------------------------------------------------------
(* _complete_ready and _do_prefetch.                                       *)

Missing(b) == \/ residency[b] \in {"unknown", "neither"}
              \/ Offloaded(b) /\ ~HasBlock(b)

LayerGiven(b, caches) == caches # NoCaches /\ LayerOf[b] < caches

PrefetchOk(b, caches) ==
  IF Missing(b) THEN ~FailOnMissing
                ELSE Resident(b) \/ caches = NoCaches \/ LayerGiven(b, caches)

Loads(b, caches) == Offloaded(b) /\ HasBlock(b) /\ LayerGiven(b, caches)

IsReadyLate(r) == r.due < 0  \* mutant: current_step > ready_step

IsReady(r) == r.due = 0

(* flying: the in-flight dict the pass starts from; tick: whether          *)
(* current_step moves on afterwards (advance_step) or not (poll_ready);    *)
(* issued: how many requests advance_step has just moved to flight.        *)
CompleteReady(flying, caches, tick, issued) ==
  LET ready == {b \in Keys(flying) : IsReady(flying[b])}
      ok    == {b \in ready : PrefetchOk(b, caches)}
  IN  /\ PrefetchBlocks({b \in ready : Loads(b, caches)})
      /\ completed' = [b \in Blocks |-> IF b \in ok THEN flying[b] ELSE completed[b]]
      /\ failed' = [b \in Blocks |-> IF b \in ready \ ok THEN flying[b] ELSE failed[b]]
      /\ inFlight' = [b \in Blocks |->
                        IF b \in ready THEN NoReq
                        ELSE IF b \in Keys(flying) THEN [flying[b] EXCEPT !.due = @ - tick]
                        ELSE NoReq]
      /\ stats' = [queued    |-> stats.queued - issued,
                   in_flight |-> stats.in_flight + issued - Cardinality(ready),
                   complete  |-> stats.complete + Cardinality(ok),
                   failed    |-> stats.failed + Cardinality(ready \ ok)]

AdvanceKeepQueue(caches) ==  \* mutant: what is issued stays in _queue
  \E batch \in SUBSET queue :
    /\ IsIssueBatch(batch)
    /\ CompleteReady(IssueInto(batch), caches, 1, Cardinality(batch))
    /\ UNCHANGED <<queue, nextSeq>>

Advance(caches) ==
  \E batch \in SUBSET queue :
    /\ IsIssueBatch(batch)
    /\ queue' = queue \ batch
    /\ CompleteReady(IssueInto(batch), caches, 1, Cardinality(batch))
    /\ nextSeq' = nextSeq

AdvanceStep(caches) ==
  /\ call = Idle
  /\ Advance(caches)
  /\ UNCHANGED call

PollReady(caches) ==
  /\ call = Idle
  /\ CompleteReady(inFlight, caches, 0, 0)
  /\ UNCHANGED <<queue, nextSeq, call>>

-----------------------------------------------------------------------------
(* cancel finds queued requests only: _in_flight is keyed by block and     *)
(* looked up by request id, so a request in flight is never found.         *)

Cancel(r) ==
  /\ call = Idle
  /\ r \in queue
  /\ queue' = queue \ {r}
  /\ stats' = [stats EXCEPT !.queued = @ - 1]
  /\ UNCHANGED <<tierVars, inFlight, completed, failed, nextSeq, call>>

ClearCompletedKeepStats ==  \* mutant: the counters are not reset
  /\ call = Idle
  /\ completed' = Empty
  /\ failed' = Empty
  /\ UNCHANGED <<tierVars, queue, inFlight, nextSeq, stats, call>>

ClearCompleted ==
  /\ call = Idle
  /\ completed' = Empty
  /\ failed' = Empty
  /\ stats' = [stats EXCEPT !.complete = 0, !.failed = 0]
  /\ UNCHANGED <<tierVars, queue, inFlight, nextSeq, call>>

-----------------------------------------------------------------------------
(* wait_for and ensure_prefetched_before_attention.                        *)

WaitFor(S, caches, limit) ==
  /\ call = Idle
  /\ S # {}
  /\ nextSeq + Cardinality(S) <= MaxRequests
  /\ call' = [Idle EXCEPT !.op = "wait", !.blocks = S, !.need = S, !.pending = S,
                          !.limit = limit, !.caches = caches,
                          !.stale = {b \in S : Recorded(b)}]
  /\ UNCHANGED <<tierVars, schedVars>>

(* Every block that is not resident is waited for; if there is none the    *)
(* call returns without touching the scheduler.                            *)
EnsurePrefetched(S, caches, limit) ==
  LET need == {b \in S : ~Resident(b)}
  IN  /\ call = Idle
      /\ need # {}
      /\ nextSeq + 2 * Cardinality(S) <= MaxRequests
      /\ call' = [Idle EXCEPT !.op = "ensure", !.blocks = S, !.todo = need,
                              !.need = need, !.pending = need,
                              !.limit = limit, !.caches = caches,
                              !.stale = {b \in S : Recorded(b)}]
      /\ UNCHANGED <<tierVars, schedVars>>

EnsureSubmit(b) ==
  /\ b \in call.todo
  /\ IF IsPending(b) THEN UNCHANGED schedVars ELSE SubmitOne(b, 0)
  /\ call' = [call EXCEPT !.todo = @ \ {b}]
  /\ UNCHANGED tierVars

InLoop == call.op # "idle" /\ call.todo = {}
LoopDone == call.pending = {} \/ call.steps >= call.limit

StillWaiting == {b \in call.pending : completed'[b] = NoReq /\ failed'[b] = NoReq}

WaitStepUncounted ==  \* mutant: steps_waited is not incremented
  /\ InLoop
  /\ ~LoopDone
  /\ Advance(call.caches)
  /\ call' = [call EXCEPT !.pending = StillWaiting]

WaitStep ==
  /\ InLoop
  /\ ~LoopDone
  /\ Advance(call.caches)
  /\ call' = [call EXCEPT !.steps = @ + 1,
                          !.pending = StillWaiting]

Outcome(b) == IF completed[b] # NoReq THEN "complete"
              ELSE IF failed[b] # NoReq THEN "failed" ELSE "timeout"

(* Each timeout result draws a request id of its own.                      *)
WaitReturn ==
  /\ InLoop
  /\ LoopDone
  /\ nextSeq' = nextSeq + Cardinality({b \in call.need : Outcome(b) = "timeout"})
  /\ call' = Idle
  /\ UNCHANGED <<tierVars, queue, inFlight, completed, failed, stats>>

-----------------------------------------------------------------------------
(* The rest of the program, between two calls of the scheduler: the        *)
(* offload plan moves a resident block out, and                            *)
(* ensure_blocks_ready_for_attention fetches an offloaded block directly.  *)

Offload(b, zeroHot) ==
  /\ call = Idle
  /\ OffloadBlock(b, zeroHot)
  /\ UNCHANGED <<schedVars, call>>

DemandPrefetch(b) ==
  /\ call = Idle
  /\ Offloaded(b) /\ HasBlock(b)
  /\ PrefetchBlocks({b})
  /\ UNCHANGED <<schedVars, call>>

Next ==
  \/ \E b \in Blocks, p \in Priorities : Submit(b, p)
  \/ \E c \in CacheArgs : AdvanceStep(c) \/ PollReady(c)
  \/ \E r \in queue : Cancel(r)
  \/ ClearCompleted
  \/ \E S \in SUBSET Blocks, c \in CacheArgs, n \in WaitSteps :
       WaitFor(S, c, n) \/ EnsurePrefetched(S, c, n)
  \/ \E b \in Blocks : EnsureSubmit(b)
  \/ WaitStep
  \/ WaitReturn
  \/ \E b \in Blocks, z \in BOOLEAN : Offload(b, z)
  \/ \E b \in Blocks : DemandPrefetch(b)

Spec == Init /\ [][Next]_vars

(***************************************************************************)
(* Fairness.  The decode loop calls advance_step once per token, whatever  *)
(* other calls come between two tokens, so advance_step is taken again and *)
(* again (strong fairness: a running wait_for disables it for a while); a  *)
(* call that has begun runs on to its return.                              *)
(***************************************************************************)
Fairness ==
  /\ SF_vars(\E c \in CacheArgs : AdvanceStep(c))
  /\ WF_vars(\E b \in Blocks : EnsureSubmit(b))
  /\ WF_vars(WaitStep)
  /\ WF_vars(WaitReturn)

FairSpec == Spec /\ Fairness

-----------------------------------------------------------------------------
(* Properties.                                                             *)

Flying == {inFlight[b] : b \in Keys(inFlight)}
Done   == {completed[b] : b \in Keys(completed)} \cup {failed[b] : b \in Keys(failed)}

(* The scheduler never has more than max_in_flight blocks in flight,       *)
(* however submissions, waits, polls and cancels are interleaved           *)
(* (_issue_queued's slots).                                                *)
InFlightBounded == Cardinality(Keys(inFlight)) <= MaxInFlight

(* A request is in one place: requests of _queue, _in_flight and the dicts *)
(* of finished requests never share an id, though every dict is keyed by   *)
(* block and a request passes from one to the next.                        *)
RequestInOnePlace ==
  /\ \A q, r \in queue : q.id = r.id => q = r
  /\ \A q, r \in Flying : q.id = r.id => q = r
  /\ \A q \in queue : \A r \in Flying \cup Done : q.id # r.id
  /\ \A q \in Flying : \A r \in Done : q.id # r.id

(* What makes the two facts above and below inductive: a dict has a        *)
(* request under the key of its own block, and no request anywhere has an  *)
(* id that _next_seq could still hand out.                                 *)
WellKeyed ==
  /\ IsFiniteSet(queue)
  /\ \A dict \in {inFlight, completed, failed} :
       \A b \in Keys(dict) : dict[b].block = b
  /\ \A r \in queue \cup Flying \cup Done : r.id < nextSeq

IndInv == TypeOK /\ WellKeyed /\ RequestInOnePlace

(* With deduplicate_requests a block has at most one request that is       *)
(* queued or in flight (submit, _find_existing).                           *)
OneRequestPerBlock ==
  Dedup => \A q, r \in queue \cup Flying : q.block = r.block => q = r

(* With deduplicate_requests the counters agree with the collections they  *)
(* count, over any sequence of submits, issues, completions and cancels;   *)
(* stats.complete also counts a resident block each time it is submitted.  *)
StatsAgree ==
  Dedup => /\ stats.queued = Cardinality(queue)
           /\ stats.in_flight = Cardinality(Keys(inFlight))
           /\ stats.failed = Cardinality(Keys(failed))
           /\ stats.complete >= Cardinality(Keys(completed))

(* Among requests of one priority none overtakes another on its way from   *)
(* the queue through the flight: one still queued was submitted after each *)
(* one in flight, and of two in flight the older has no longer to go.      *)
FifoWithinPriority ==
  /\ \A r \in Flying : \A q \in queue : q.prio = r.prio => r.id < q.id
  /\ \A q, r \in Flying : q.prio = r.prio /\ q.id < r.id => q.due <= r.due

(* ensure_prefetched_before_attention returns normally only when the       *)
(* blocks attention is about to read are resident, provided the layer      *)
(* caches are passed, fail_on_missing is set and no block had a record of  *)
(* an earlier prefetch when the call began (wait_for takes such a record   *)
(* for its answer, whatever has become of the block since).                *)
EnsureReturnsOk ==
  call.op = "ensure" /\ InLoop /\ LoopDone /\ \A b \in call.need : Outcome(b) = "complete"

EnsureSound ==
  EnsureReturnsOk /\ FailOnMissing =>
    \A b \in call.blocks \ call.stale : call.caches # NoCaches => Resident(b)

(* With deduplicate_requests, ensure_prefetched_before_attention never     *)
(* times out when max_steps leaves latency + 1 steps for every             *)
(* max_in_flight blocks there are: slots are reused without a gap and      *)
(* nothing queued is overtaken forever.                                    *)
Rounds == (Cardinality(Blocks) + MaxInFlight - 1) \div MaxInFlight

NoSpuriousTimeout ==
  Dedup /\ call.op = "ensure" /\ InLoop /\ LoopDone /\ call.limit >= Rounds * (Latency + 1)
    => \A b \in call.need : Outcome(b) # "timeout"

(* Liveness: once no more requests come (ids are bounded; an endless       *)
(* stream of higher priorities would starve a lower one) every request     *)
(* that is queued or in flight leaves, complete, failed or cancelled.      *)
Outstanding(i) == \E r \in queue \cup Flying : r.id = i

EveryRequestLeaves == \A i \in 0..MaxRequests : Outstanding(i) ~> ~Outstanding(i)

(* Liveness: a wait_for or ensure_prefetched_before_attention returns.     *)
EveryCallReturns == call # Idle ~> call = Idle
=============================================================================
