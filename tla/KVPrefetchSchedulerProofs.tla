--------------------- MODULE KVPrefetchSchedulerProofs ---------------------
(***************************************************************************)
(* Safety of KVPrefetchScheduler for every set of blocks, capacity,        *)
(* latency and configuration.  Everything rests on the inductive invariant *)
(* IndInv: types, dicts keyed by their requests' blocks, ids below the     *)
(* sequence number, and each request in one place.                         *)
(***************************************************************************)
EXTENDS KVPrefetchScheduler, FiniteSetTheorems, WellFoundedInduction, TLAPS

-----------------------------------------------------------------------------
(* The order of issue.                                                     *)

(* Precedes is a strict total order on requests with distinct ids, so a    *)
(* sorted queue has one form (the sort in _issue_queued).                  *)
LEMMA PrecedesOrder ==
  ASSUME NEW S \in SUBSET Request,
         \A q, r \in S : q.id = r.id => q = r
  PROVE  /\ \A q \in S : ~Precedes(q, q)
         /\ \A q, r, s \in S : Precedes(q, r) /\ Precedes(r, s) => Precedes(q, s)
         /\ \A q, r \in S : q = r \/ Precedes(q, r) \/ Precedes(r, q)
<1>1. \A r \in S : r.id \in Nat /\ r.prio \in Int
  BY SchedulerAssumption DEF SchedulerAssumption, Request
<1>2. \A q \in S : ~Precedes(q, q)
  BY <1>1 DEF Precedes
<1>3. \A q, r, s \in S : Precedes(q, r) /\ Precedes(r, s) => Precedes(q, s)
  BY <1>1 DEF Precedes
<1>4. \A q, r \in S : q = r \/ Precedes(q, r) \/ Precedes(r, q)
  BY <1>1 DEF Precedes
<1> QED BY <1>2, <1>3, <1>4

(* A nonempty finite set of requests has one that is issued last: the      *)
(* CHOOSE in IssueInto names a request of its batch.                       *)
LEMMA LastOfBatch ==
  ASSUME NEW S \in SUBSET Request, IsFiniteSet(S), S # {},
         \A q, r \in S : q.id = r.id => q = r
  PROVE  \E r \in S : \A q \in S \ {r} : Precedes(q, r)
<1> DEFINE After(r) == {q \in S : Precedes(r, q)}
           T == {After(r) : r \in S}
<1>1. IsWellFoundedOn(StrictSubsetOrdering(S), FiniteSubsetsOf(S))
  BY FS_StrictSubsetOrderingWellFounded
<1>2. T \subseteq FiniteSubsetsOf(S)
  <2> SUFFICES ASSUME NEW r \in S PROVE After(r) \in FiniteSubsetsOf(S)
    OBVIOUS
  <2>1. After(r) \in SUBSET S
    OBVIOUS
  <2>2. IsFiniteSet(After(r))
    BY <2>1, FS_Subset
  <2> QED BY <2>1, <2>2 DEF FiniteSubsetsOf
<1>3. T # {}
  <2>1. PICK r \in S : TRUE
    OBVIOUS
  <2>2. After(r) \in T
    BY <2>1
  <2> QED BY <2>2
<1>4. PICK m \in T : \A y \in T : ~(<<y, m>> \in StrictSubsetOrdering(S))
  <2> HIDE DEF T
  <2> QED BY <1>1, <1>2, <1>3, WFMin
<1>5. PICK r \in S : m = After(r)
  BY <1>4
<1>6. ASSUME NEW q \in S, Precedes(r, q) PROVE FALSE
  <2>1. After(q) \subseteq After(r) /\ After(q) # After(r)
    BY <1>6, PrecedesOrder
  <2>2. <<After(q), After(r)>> \in StrictSubsetOrdering(S)
    BY <2>1 DEF StrictSubsetOrdering
  <2> QED BY <2>2, <1>4, <1>5
<1> QED BY <1>6, PrecedesOrder
-----------------------------------------------------------------------------
(* What issuing does to the in-flight dict.                                *)

(* After issuing, a key of _in_flight holds a request for that block, from *)
(* the batch or from before.                                               *)
LEMMA IssueIntoFacts ==
  ASSUME IndInv, NEW batch \in SUBSET queue
  PROVE  /\ IssueInto(batch) \in [Blocks -> Request \cup {NoReq}]
         /\ \A b \in Blocks : IssueInto(batch)[b] # NoReq =>
              /\ IssueInto(batch)[b].block = b
              /\ IssueInto(batch)[b] \in batch \/ IssueInto(batch)[b] = inFlight[b]
<1> SUFFICES ASSUME NEW b \in Blocks
             PROVE  \/ IssueInto(batch)[b] = inFlight[b]
                    \/ IssueInto(batch)[b] \in batch /\ IssueInto(batch)[b].block = b
  BY DEF IssueInto, IndInv, TypeOK, WellKeyed, Keys
<1> DEFINE mine == {r \in batch : r.block = b}
<1>1. CASE mine = {}
  BY <1>1 DEF IssueInto
<1>2. CASE mine # {}
  <2>1. mine \in SUBSET Request /\ IsFiniteSet(mine)
    <3>1. mine \in SUBSET queue
      OBVIOUS
    <3> QED BY <3>1, FS_Subset DEF IndInv, TypeOK, WellKeyed
  <2>2. \A q, r \in mine : q.id = r.id => q = r
    BY DEF IndInv, RequestInOnePlace
  <2>3. \E r \in mine : \A q \in mine \ {r} : Precedes(q, r)
    BY <1>2, <2>1, <2>2, LastOfBatch
  <2>4. IssueInto(batch)[b] = CHOOSE r \in mine : \A q \in mine \ {r} : Precedes(q, r)
    BY <1>2 DEF IssueInto
  <2>5. IssueInto(batch)[b] \in mine
    BY <2>3, <2>4
  <2> QED BY <2>5
<1> QED BY <1>1, <1>2

(* What a completion pass does to a block, whichever dict it starts from.  *)
LEMMA CompleteReadyFacts ==
  ASSUME TypeOK,
         NEW flying \in [Blocks -> Request \cup {NoReq}],
         NEW caches \in CacheArgs \cup {NoCaches}, NEW tick \in {0, 1}, NEW issued,
         CompleteReady(flying, caches, tick, issued)
  PROVE  /\ inFlight' \in [Blocks -> Request \cup {NoReq}]
         /\ completed' \in [Blocks -> Request \cup {NoReq}]
         /\ failed' \in [Blocks -> Request \cup {NoReq}]
         /\ \A b \in Blocks : inFlight'[b] # NoReq =>
              /\ flying[b] # NoReq
              /\ inFlight'[b] = [flying[b] EXCEPT !.due = @ - tick]
              /\ completed'[b] = completed[b] /\ failed'[b] = failed[b]
         /\ \A b \in Blocks :
              /\ completed'[b] = completed[b] \/ (completed'[b] = flying[b] /\ flying[b] # NoReq)
              /\ failed'[b] = failed[b] \/ (failed'[b] = flying[b] /\ flying[b] # NoReq)
<1> DEFINE ready == {b \in Keys(flying) : IsReady(flying[b])}
           ok == {b \in ready : PrefetchOk(b, caches)}
<1>1. /\ completed' = [b \in Blocks |-> IF b \in ok THEN flying[b] ELSE completed[b]]
      /\ failed' = [b \in Blocks |-> IF b \in ready \ ok THEN flying[b] ELSE failed[b]]
      /\ inFlight' = [b \in Blocks |->
                        IF b \in ready THEN NoReq
                        ELSE IF b \in Keys(flying) THEN [flying[b] EXCEPT !.due = @ - tick]
                        ELSE NoReq]
  BY DEF CompleteReady
<1>2. \A b \in Blocks : b \in Keys(flying) /\ b \notin ready =>
        [flying[b] EXCEPT !.due = @ - tick] \in Request
  <2> SUFFICES ASSUME NEW b \in Blocks, flying[b] # NoReq, flying[b].due # 0
               PROVE  [flying[b] EXCEPT !.due = @ - tick] \in Request
    BY DEF Keys, IsReady
  <2>1. flying[b] \in Request
    OBVIOUS
  <2>2. flying[b].due - tick \in 0..Latency
    BY <2>1, SchedulerAssumption DEF Request, SchedulerAssumption
  <2> QED BY <2>1, <2>2 DEF Request
<1>3. ok \subseteq ready /\ ready \subseteq Blocks /\ \A b \in ready : flying[b] # NoReq
  BY DEF Keys
<1> HIDE DEF ready, ok
<1>4. inFlight' \in [Blocks -> Request \cup {NoReq}]
  BY <1>1, <1>2
<1>5. completed' \in [Blocks -> Request \cup {NoReq}] /\ failed' \in [Blocks -> Request \cup {NoReq}]
  BY <1>1, <1>3 DEF TypeOK
<1>6. \A b \in Blocks : inFlight'[b] # NoReq =>
              /\ flying[b] # NoReq
              /\ inFlight'[b] = [flying[b] EXCEPT !.due = @ - tick]
              /\ completed'[b] = completed[b] /\ failed'[b] = failed[b]
  BY <1>1, <1>3 DEF Keys
<1>7. \A b \in Blocks :
              /\ completed'[b] = completed[b] \/ (completed'[b] = flying[b] /\ flying[b] # NoReq)
              /\ failed'[b] = failed[b] \/ (failed'[b] = flying[b] /\ flying[b] # NoReq)
  BY <1>1, <1>3
<1> QED BY <1>4, <1>5, <1>6, <1>7
-----------------------------------------------------------------------------
(* A pass of the scheduler keeps the invariant: batch is what has just     *)
(* been issued ({} for poll_ready), flying the dict after issuing.         *)

(* A fetch of blocks the store has keeps the tier well-typed.              *)
LEMMA PrefetchTypes ==
  ASSUME TierTypeOK, NEW S \in SUBSET Blocks, \A b \in S : HasBlock(b), PrefetchBlocks(S)
  PROVE  TierTypeOK'
<1>1. hot' \in [Blocks -> {"kv", "zero"}]
  BY DEF TierTypeOK, HasBlock, PrefetchBlocks
<1>2. residency' \in [Blocks -> Residency]
  BY DEF TierTypeOK, PrefetchBlocks, Residency
<1> QED BY <1>1, <1>2 DEF TierTypeOK, PrefetchBlocks

(* An issue and completion pass keeps every collection and counter well-   *)
(* typed.                                                                  *)
LEMMA PassTypes ==
  ASSUME IndInv, NEW batch \in SUBSET queue,
         NEW flying \in [Blocks -> Request \cup {NoReq}],
         NEW caches \in CacheArgs \cup {NoCaches}, NEW tick \in {0, 1},
         queue' = queue \ batch, nextSeq' = nextSeq, call' \in Calls,
         CompleteReady(flying, caches, tick, Cardinality(batch))
  PROVE  TypeOK'
<1> DEFINE ready == {b \in Keys(flying) : IsReady(flying[b])}
           ok == {b \in ready : PrefetchOk(b, caches)}
<1>1. TierTypeOK'
  <2>1. PrefetchBlocks({b \in ready : Loads(b, caches)})
    BY DEF CompleteReady
  <2>2. \A b \in {x \in ready : Loads(x, caches)} : HasBlock(b)
    BY DEF Loads
  <2>3. {b \in ready : Loads(b, caches)} \in SUBSET Blocks
    BY DEF Keys
  <2> HIDE DEF ready
  <2> QED BY <2>1, <2>2, <2>3, PrefetchTypes DEF IndInv, TypeOK
<1>2. stats' \in [queued : Int, in_flight : Int, complete : Int, failed : Int]
  <2>1. Cardinality(ready) \in Int /\ Cardinality(ok) \in Int /\ Cardinality(ready \ ok) \in Int
    <3>1. ready \in SUBSET Blocks /\ ok \in SUBSET Blocks /\ ready \ ok \in SUBSET Blocks
      BY DEF Keys
    <3> HIDE DEF ready, ok
    <3>2. IsFiniteSet(ready) /\ IsFiniteSet(ok) /\ IsFiniteSet(ready \ ok)
      BY <3>1, TierAssumption, FS_Subset DEF TierAssumption
    <3> QED BY <3>2, FS_CardinalityType
  <2>2. Cardinality(batch) \in Int
    BY FS_Subset, FS_CardinalityType DEF IndInv, WellKeyed
  <2>3. stats' = [queued    |-> stats.queued - Cardinality(batch),
                  in_flight |-> stats.in_flight + Cardinality(batch) - Cardinality(ready),
                  complete  |-> stats.complete + Cardinality(ok),
                  failed    |-> stats.failed + Cardinality(ready \ ok)]
    BY DEF CompleteReady
  <2> HIDE DEF ready, ok
  <2> QED BY <2>1, <2>2, <2>3 DEF IndInv, TypeOK
<1>3. TypeOK
  BY DEF IndInv
<1>4. /\ inFlight' \in [Blocks -> Request \cup {NoReq}]
      /\ completed' \in [Blocks -> Request \cup {NoReq}]
      /\ failed' \in [Blocks -> Request \cup {NoReq}]
  BY <1>3, CompleteReadyFacts
<1> QED BY <1>1, <1>2, <1>3, <1>4 DEF TypeOK

(* An issue and completion pass keeps requests under their own block's key *)
(* and in one place.                                                       *)
LEMMA PassBookkeeping ==
  ASSUME IndInv, NEW batch \in SUBSET queue,
         NEW flying \in [Blocks -> Request \cup {NoReq}],
         \A b \in Blocks : flying[b] # NoReq =>
           flying[b].block = b /\ (flying[b] \in batch \/ flying[b] = inFlight[b]),
         NEW caches \in CacheArgs \cup {NoCaches}, NEW tick \in {0, 1},
         queue' = queue \ batch, nextSeq' = nextSeq,
         CompleteReady(flying, caches, tick, Cardinality(batch))
  PROVE  WellKeyed' /\ RequestInOnePlace'
<1> USE DEF Flying, Done, Keys
<1>1. TypeOK
  BY DEF IndInv
<1>2. /\ inFlight' \in [Blocks -> Request \cup {NoReq}]
      /\ completed' \in [Blocks -> Request \cup {NoReq}]
      /\ failed' \in [Blocks -> Request \cup {NoReq}]
      /\ \A b \in Blocks : inFlight'[b] # NoReq =>
           /\ flying[b] # NoReq
           /\ inFlight'[b] = [flying[b] EXCEPT !.due = @ - tick]
           /\ completed'[b] = completed[b] /\ failed'[b] = failed[b]
      /\ \A b \in Blocks :
           /\ completed'[b] = completed[b] \/ (completed'[b] = flying[b] /\ flying[b] # NoReq)
           /\ failed'[b] = failed[b] \/ (failed'[b] = flying[b] /\ flying[b] # NoReq)
  BY <1>1, CompleteReadyFacts
<1>3. \A b \in Blocks : inFlight'[b] # NoReq =>
        inFlight'[b].id = flying[b].id /\ inFlight'[b].block = b
  BY <1>2 DEF Request
<1>4. WellKeyed'
  <2>1. IsFiniteSet(queue')
    BY FS_Subset DEF IndInv, WellKeyed
  <2>2. \A b \in Blocks : /\ inFlight'[b] # NoReq => inFlight'[b].block = b
                          /\ completed'[b] # NoReq => completed'[b].block = b
                          /\ failed'[b] # NoReq => failed'[b].block = b
    BY <1>2, <1>3 DEF IndInv, WellKeyed
  <2>3. \A b \in Blocks : /\ flying[b] # NoReq => flying[b].id < nextSeq
                          /\ completed[b] # NoReq => completed[b].id < nextSeq
                          /\ failed[b] # NoReq => failed[b].id < nextSeq
    BY DEF IndInv, WellKeyed
  <2>4. \A r \in (queue \cup Flying \cup Done)' : r.id < nextSeq
    BY <1>2, <1>3, <2>3 DEF IndInv, WellKeyed
  <2> QED BY <2>1, <2>2, <2>4 DEF WellKeyed
<1>5. RequestInOnePlace'
  <2>1. \A b \in Blocks : flying[b] # NoReq =>
          flying[b] \in batch \/ (flying[b] = inFlight[b] /\ inFlight[b] \in Flying)
    OBVIOUS
  <2>2. \A b, c \in Blocks : flying[b] # NoReq /\ flying[c] # NoReq /\ flying[b].id = flying[c].id => b = c
    <3>1. \A q, r \in queue \cup Flying : q.id = r.id => q = r
      BY DEF IndInv, RequestInOnePlace
    <3>2. \A b \in Blocks : flying[b] # NoReq => flying[b] \in queue \cup Flying
      BY <2>1
    <3> QED BY <3>1, <3>2
  <2>3. \A b, c \in Blocks : flying[b] # NoReq =>
          /\ completed[c] # NoReq => flying[b].id # completed[c].id
          /\ failed[c] # NoReq => flying[b].id # failed[c].id
    BY <2>1 DEF IndInv, RequestInOnePlace
  <2>4. \A b \in Blocks : \A q \in queue' : flying[b] # NoReq => q.id # flying[b].id
    BY <2>1 DEF IndInv, RequestInOnePlace
  <2>5. \A q, r \in queue' : q.id = r.id => q = r
    BY DEF IndInv, RequestInOnePlace
  <2>6. \A q, r \in Flying' : q.id = r.id => q = r
    BY <1>2, <1>3, <2>2
  <2>7. \A q \in queue' : \A r \in Flying' : q.id # r.id
    BY <1>2, <1>3, <2>4
  <2>8. \A q \in queue' : \A r \in Done' : q.id # r.id
    <3>1. \A q \in queue' : \A r \in Done : q.id # r.id
      BY DEF IndInv, RequestInOnePlace
    <3> QED BY <3>1, <1>2, <2>4
  <2>9. \A q \in Flying' : \A r \in Done' : q.id # r.id
    <3> SUFFICES ASSUME NEW b \in Blocks, inFlight'[b] # NoReq, NEW c \in Blocks
                 PROVE  /\ completed'[c] # NoReq => completed'[c].id # flying[b].id
                        /\ failed'[c] # NoReq => failed'[c].id # flying[b].id
      BY <1>2, <1>3
    <3>1. CASE b = c
      BY <3>1, <1>2, <2>3
    <3>2. CASE b # c
      BY <3>2, <1>2, <2>2, <2>3
    <3> QED BY <3>1, <3>2
  <2> QED BY <2>5, <2>6, <2>7, <2>8, <2>9 DEF RequestInOnePlace
<1> QED BY <1>4, <1>5
-----------------------------------------------------------------------------
(* The operations.                                                         *)

(* The invariant holds when the scheduler is built.                        *)
LEMMA InitIndInv == Init => IndInv
<1> SUFFICES ASSUME Init PROVE IndInv
  OBVIOUS
<1>1. TypeOK
  <2>1. TierTypeOK
    BY DEF Init, TierInit, TierTypeOK
  <2>2. Idle \in Calls
    BY DEF Idle, Calls
  <2> QED BY <2>1, <2>2 DEF Init, TypeOK, Empty
<1>2. queue = {} /\ Flying = {} /\ Done = {}
  BY DEF Init, Empty, Flying, Done, Keys
<1>3. WellKeyed
  BY <1>2, FS_EmptySet DEF WellKeyed, Init, Empty, Keys
<1>4. RequestInOnePlace
  BY <1>2 DEF RequestInOnePlace
<1> QED BY <1>1, <1>3, <1>4 DEF IndInv

(* submit keeps the invariant, whichever way it answers.                   *)
LEMMA SubmitIndInv ==
  ASSUME IndInv, NEW b \in Blocks, NEW p \in Priorities,
         SubmitOne(b, p), UNCHANGED tierVars, call' \in Calls
  PROVE  IndInv'
<1> USE DEF Flying, Done, Keys
<1>1. NewRequest(b, p, 0) \in Request /\ NewRequest(b, p, Latency) \in Request
  BY SchedulerAssumption DEF SchedulerAssumption, NewRequest, Request, IndInv, TypeOK
<1>2. TierTypeOK'
  BY DEF IndInv, TypeOK, TierTypeOK, tierVars
<1>3. CASE SubmitResident(b, p)
  <2>1. TypeOK'
    BY <1>1, <1>2, <1>3 DEF SubmitResident, IndInv, TypeOK
  <2>2. \A c \in Blocks : completed'[c] = completed[c]
          \/ (completed'[c].id = nextSeq /\ completed'[c].block = c /\ completed'[c] # NoReq)
    BY <1>1, <1>3, NoReqAssumption DEF SubmitResident, IndInv, TypeOK, NewRequest
  <2>3. WellKeyed'
    BY <1>3, <2>2 DEF SubmitResident, IndInv, WellKeyed, TypeOK, Request
  <2>4. RequestInOnePlace'
    BY <1>3, <2>2 DEF SubmitResident, IndInv, RequestInOnePlace, WellKeyed, TypeOK, Request
  <2> QED BY <2>1, <2>3, <2>4 DEF IndInv
<1>4. CASE SubmitDuplicate(b)
  BY <1>2, <1>4 DEF SubmitDuplicate, schedVars, IndInv, TypeOK, WellKeyed, RequestInOnePlace
<1>5. CASE SubmitQueued(b, p)
  <2>1. TypeOK'
    BY <1>1, <1>2, <1>5 DEF SubmitQueued, IndInv, TypeOK
  <2>2. queue' = queue \cup {NewRequest(b, p, Latency)} /\ NewRequest(b, p, Latency).id = nextSeq
    BY <1>5 DEF SubmitQueued, NewRequest
  <2>3. WellKeyed'
    <3>1. IsFiniteSet(queue')
      BY <2>2, FS_AddElement DEF IndInv, WellKeyed
    <3> QED BY <1>5, <2>2, <3>1 DEF SubmitQueued, IndInv, WellKeyed, TypeOK, Request
  <2>4. RequestInOnePlace'
    BY <1>5, <2>2 DEF SubmitQueued, IndInv, RequestInOnePlace, WellKeyed, TypeOK, Request
  <2> QED BY <2>1, <2>3, <2>4 DEF IndInv
<1> QED BY <1>3, <1>4, <1>5 DEF SubmitOne

(* advance_step keeps the invariant, also as a step of wait_for.           *)
LEMMA AdvanceIndInv ==
  ASSUME IndInv, NEW caches \in CacheArgs \cup {NoCaches}, Advance(caches), call' \in Calls
  PROVE  IndInv'
<1>1. PICK batch \in SUBSET queue :
        /\ queue' = queue \ batch
        /\ CompleteReady(IssueInto(batch), caches, 1, Cardinality(batch))
        /\ nextSeq' = nextSeq
  BY DEF Advance
<1>2. /\ IssueInto(batch) \in [Blocks -> Request \cup {NoReq}]
      /\ \A b \in Blocks : IssueInto(batch)[b] # NoReq =>
           /\ IssueInto(batch)[b].block = b
           /\ IssueInto(batch)[b] \in batch \/ IssueInto(batch)[b] = inFlight[b]
  BY IssueIntoFacts
<1>3. TypeOK'
  BY <1>1, <1>2, PassTypes
<1>4. WellKeyed' /\ RequestInOnePlace'
  BY <1>1, <1>2, PassBookkeeping
<1> QED BY <1>3, <1>4 DEF IndInv

(* poll_ready keeps the invariant.                                         *)
LEMMA PollIndInv ==
  ASSUME IndInv, NEW caches \in CacheArgs, PollReady(caches)
  PROVE  IndInv'
<1>1. {} \in SUBSET queue /\ Cardinality({}) = 0 /\ queue' = queue \ {}
  BY FS_EmptySet DEF PollReady
<1>2. CompleteReady(inFlight, caches, 0, Cardinality({})) /\ nextSeq' = nextSeq
  BY <1>1 DEF PollReady
<1>3. /\ inFlight \in [Blocks -> Request \cup {NoReq}]
      /\ \A b \in Blocks : inFlight[b] # NoReq => inFlight[b].block = b
  BY DEF IndInv, TypeOK, WellKeyed, Keys
<1>4. call' \in Calls
  BY DEF PollReady, IndInv, TypeOK
<1>5. TypeOK'
  BY <1>1, <1>2, <1>3, <1>4, PassTypes
<1>6. WellKeyed' /\ RequestInOnePlace'
  BY <1>1, <1>2, <1>3, PassBookkeeping
<1> QED BY <1>5, <1>6 DEF IndInv

(* Steps that only move blocks in the tier or the locals of a call.        *)
LEMMA OtherIndInv ==
  ASSUME IndInv, TierTypeOK', call' \in Calls, UNCHANGED schedVars
  PROVE  IndInv'
  BY DEF IndInv, TypeOK, WellKeyed, RequestInOnePlace, schedVars, Flying, Done, Keys
-----------------------------------------------------------------------------
(* Cancelling, clearing and returning shrink the collections.              *)

(* cancel keeps the invariant.                                             *)
LEMMA CancelIndInv ==
  ASSUME IndInv, NEW r \in queue, Cancel(r)
  PROVE  IndInv'
<1> USE DEF Flying, Done, Keys
<1>1. TypeOK'
  BY DEF Cancel, IndInv, TypeOK, TierTypeOK, tierVars
<1>2. IsFiniteSet(queue')
  BY FS_RemoveElement DEF Cancel, IndInv, WellKeyed
<1>3. WellKeyed' /\ RequestInOnePlace'
  BY <1>2 DEF Cancel, IndInv, WellKeyed, RequestInOnePlace
<1> QED BY <1>1, <1>3 DEF IndInv

(* clear_completed keeps the invariant.                                    *)
LEMMA ClearIndInv ==
  ASSUME IndInv, ClearCompleted
  PROVE  IndInv'
<1> USE DEF Flying, Done, Keys
<1>1. TypeOK'
  <2>1. completed' = Empty /\ failed' = Empty /\ Empty \in [Blocks -> Request \cup {NoReq}]
    BY DEF ClearCompleted, Empty
  <2>2. stats' \in [queued : Int, in_flight : Int, complete : Int, failed : Int]
    <3>1. stats \in [queued : Int, in_flight : Int, complete : Int, failed : Int]
      BY DEF IndInv, TypeOK
    <3>2. stats' = [stats EXCEPT !.complete = 0, !.failed = 0]
      BY DEF ClearCompleted
    <3>3. stats' = [queued |-> stats.queued, in_flight |-> stats.in_flight,
                    complete |-> 0, failed |-> 0]
      BY ONLY <3>1, <3>2
    <3>4. stats.queued \in Int /\ stats.in_flight \in Int
      BY <3>1
    <3> QED BY ONLY <3>3, <3>4
  <2>3. UNCHANGED <<tierVars, queue, inFlight, nextSeq, call>>
    BY DEF ClearCompleted
  <2>4. TierTypeOK'
    BY <2>3 DEF IndInv, TypeOK, TierTypeOK, tierVars
  <2> QED BY <2>1, <2>2, <2>3, <2>4 DEF IndInv, TypeOK
<1>2. Done' = {} /\ Flying' = Flying
  BY DEF ClearCompleted, Empty
<1>3. WellKeyed' /\ RequestInOnePlace'
  BY <1>2 DEF ClearCompleted, IndInv, WellKeyed, RequestInOnePlace, Empty
<1> QED BY <1>1, <1>3 DEF IndInv

(* The time-out and the return of wait_for keep the invariant.             *)
LEMMA WaitReturnIndInv ==
  ASSUME IndInv, WaitReturn
  PROVE  IndInv'
<1> USE DEF Flying, Done, Keys
<1> DEFINE late == {b \in call.need : Outcome(b) = "timeout"}
<1>1. Cardinality(late) \in Nat
  <2>1. late \in SUBSET Blocks
    BY DEF IndInv, TypeOK, Calls
  <2> HIDE DEF late
  <2> QED BY <2>1, FS_Subset, FS_CardinalityType, TierAssumption DEF TierAssumption
<1>2. nextSeq' = nextSeq + Cardinality(late)
  BY DEF WaitReturn
<1> HIDE DEF late
<1>3. TypeOK'
  <2>1. call' \in Calls
    BY DEF WaitReturn, Idle, Calls
  <2> QED BY <1>1, <1>2, <2>1 DEF WaitReturn, IndInv, TypeOK, TierTypeOK, tierVars
<1>4. /\ UNCHANGED <<queue, inFlight, completed, failed>>
      /\ Flying' = Flying /\ Done' = Done
  BY DEF WaitReturn
<1>5. WellKeyed'
  <2>1. queue \cup Flying \cup Done \subseteq Request
    BY DEF IndInv, TypeOK
  <2>2. \A r \in queue \cup Flying \cup Done : r.id < nextSeq'
    <3> SUFFICES ASSUME NEW r \in queue \cup Flying \cup Done PROVE r.id < nextSeq'
      OBVIOUS
    <3>1. r.id \in Nat /\ r.id < nextSeq
      BY <2>1 DEF Request, IndInv, WellKeyed
    <3> QED BY <3>1, <1>1, <1>2 DEF IndInv, TypeOK
  <2> QED BY <1>4, <2>2 DEF IndInv, WellKeyed
<1>6. RequestInOnePlace'
  BY <1>4 DEF IndInv, RequestInOnePlace
<1> QED BY <1>3, <1>5, <1>6 DEF IndInv

(* The invariant is inductive: one step for each disjunct of Next.         *)
LEMMA NextIndInv == IndInv /\ [Next]_vars => IndInv'
<1> SUFFICES ASSUME IndInv, [Next]_vars PROVE IndInv'
  OBVIOUS
<1> USE DEF IndInv, TypeOK
<1>1. ASSUME NEW b \in Blocks, NEW p \in Priorities, Submit(b, p) PROVE IndInv'
  BY <1>1, SubmitIndInv DEF Submit
<1>2. ASSUME NEW c \in CacheArgs, AdvanceStep(c) PROVE IndInv'
  BY <1>2, AdvanceIndInv DEF AdvanceStep
<1>3. ASSUME NEW c \in CacheArgs, PollReady(c) PROVE IndInv'
  BY <1>3, PollIndInv
<1>4. ASSUME NEW r \in queue, Cancel(r) PROVE IndInv'
  BY <1>4, CancelIndInv
<1>5. CASE ClearCompleted
  BY <1>5, ClearIndInv
<1>6. ASSUME NEW S \in SUBSET Blocks, NEW c \in CacheArgs, NEW n \in WaitSteps,
             WaitFor(S, c, n) \/ EnsurePrefetched(S, c, n)
      PROVE  IndInv'
  <2>1. call' \in Calls
    <3>1. n \in Nat /\ {b \in S : Recorded(b)} \in SUBSET Blocks /\ {b \in S : ~Resident(b)} \in SUBSET Blocks
      BY SchedulerAssumption DEF SchedulerAssumption
    <3>2. CASE WaitFor(S, c, n)
      BY <3>1, <3>2 DEF WaitFor, Idle, Calls
    <3>3. CASE EnsurePrefetched(S, c, n)
      <4> DEFINE need == {b \in S : ~Resident(b)}
      <4>1. call' = [Idle EXCEPT !.op = "ensure", !.blocks = S, !.todo = need,
                                 !.need = need, !.pending = need,
                                 !.limit = n, !.caches = c,
                                 !.stale = {b \in S : Recorded(b)}]
        BY <3>3 DEF EnsurePrefetched
      <4> HIDE DEF need
      <4>2. need \in SUBSET Blocks
        BY <3>1 DEF need
      <4> QED BY <3>1, <4>1, <4>2 DEF Idle, Calls
    <3> QED BY <1>6, <3>2, <3>3
  <2>2. TierTypeOK' /\ UNCHANGED schedVars
    BY <1>6 DEF WaitFor, EnsurePrefetched, TierTypeOK, tierVars
  <2> QED BY <2>1, <2>2, OtherIndInv
<1>7. ASSUME NEW b \in Blocks, EnsureSubmit(b) PROVE IndInv'
  <2>1. call' \in Calls
    BY <1>7 DEF EnsureSubmit, Calls
  <2>2. TierTypeOK'
    BY <1>7 DEF EnsureSubmit, TierTypeOK, tierVars
  <2>3. CASE IsPending(b)
    BY <1>7, <2>1, <2>2, <2>3, OtherIndInv DEF EnsureSubmit
  <2>4. CASE ~IsPending(b)
    BY <1>7, <2>1, <2>4, SubmitIndInv, SchedulerAssumption DEF EnsureSubmit, SchedulerAssumption
  <2> QED BY <2>3, <2>4
<1>8. CASE WaitStep
  <2>1. call' \in Calls
    <3>1. call' = [call EXCEPT !.steps = call.steps + 1, !.pending = StillWaiting]
      BY <1>8 DEF WaitStep
    <3>2. StillWaiting \in SUBSET Blocks
      BY DEF Calls, StillWaiting
    <3>3. call.steps + 1 \in Nat /\ call \in Calls
      BY DEF Calls
    <3> QED BY ONLY <3>1, <3>2, <3>3 DEF Calls
  <2>2. call.caches \in CacheArgs \cup {NoCaches}
    BY DEF Calls
  <2> QED BY <1>8, <2>1, <2>2, AdvanceIndInv DEF WaitStep
<1>9. CASE WaitReturn
  BY <1>9, WaitReturnIndInv
<1>10. ASSUME NEW b \in Blocks, NEW z \in BOOLEAN, Offload(b, z) PROVE IndInv'
  <2>1. TierTypeOK'
    BY <1>10 DEF Offload, OffloadBlock, TierTypeOK, Residency
  <2> QED BY <1>10, <2>1, OtherIndInv DEF Offload
<1>11. ASSUME NEW b \in Blocks, DemandPrefetch(b) PROVE IndInv'
  <2>1. TierTypeOK'
    BY <1>11, PrefetchTypes DEF DemandPrefetch
  <2> QED BY <1>11, <2>1, OtherIndInv DEF DemandPrefetch
<1>12. CASE UNCHANGED vars
  BY <1>12, OtherIndInv DEF vars, TierTypeOK, tierVars
<1> QED BY <1>1, <1>2, <1>3, <1>4, <1>5, <1>6, <1>7, <1>8, <1>9, <1>10, <1>11, <1>12 DEF Next

(* The invariant holds in every reachable state.                           *)
LEMMA SpecIndInv == Spec => []IndInv
  BY InitIndInv, NextIndInv, PTL DEF Spec

(* Type correctness of the scheduler in every configuration.               *)
THEOREM TypeCorrect == Spec => []TypeOK
<1>1. IndInv => TypeOK
  BY DEF IndInv
<1> QED BY <1>1, SpecIndInv, PTL

(* No request is ever in two of the scheduler's collections, whatever      *)
(* order calls come in and whether or not requests are deduplicated.       *)
THEOREM OnePlace == Spec => []RequestInOnePlace
<1>1. IndInv => RequestInOnePlace
  BY DEF IndInv
<1> QED BY <1>1, SpecIndInv, PTL
-----------------------------------------------------------------------------
(* Capacity.  The blocks of an issued batch are at most its requests, and  *)
(* the batch is no larger than the free slots.                             *)

(* Issuing a batch no larger than the free slots does not exceed           *)
(* max_in_flight.                                                          *)
LEMMA IssueCapacity ==
  ASSUME IndInv, InFlightBounded, NEW batch \in SUBSET queue, IsIssueBatch(batch)
  PROVE  Cardinality(Keys(IssueInto(batch))) <= MaxInFlight
<1> DEFINE blocksOf == {r.block : r \in batch}
           key == [r \in batch |-> r.block]
<1>1. IsFiniteSet(queue) /\ IsFiniteSet(batch) /\ queue \in SUBSET Request
  BY FS_Subset DEF IndInv, WellKeyed, TypeOK
<1>2. IsFiniteSet(Keys(inFlight)) /\ Cardinality(Keys(inFlight)) \in Nat
  BY FS_Subset, FS_CardinalityType, TierAssumption DEF TierAssumption, Keys
<1>3. Cardinality(queue) \in Nat /\ Cardinality(batch) \in Nat
  BY <1>1, FS_CardinalityType
<1>4. IsFiniteSet(blocksOf) /\ Cardinality(blocksOf) <= Cardinality(batch)
  <2>1. key \in Surjection(batch, blocksOf)
    BY DEF Surjection
  <2> HIDE DEF key, blocksOf
  <2> QED BY <2>1, <1>1, FS_Surjection
<1>5. Keys(IssueInto(batch)) \subseteq Keys(inFlight) \cup blocksOf
  BY IssueIntoFacts DEF Keys
<1> HIDE DEF blocksOf
<1>6. /\ IsFiniteSet(Keys(inFlight) \cup blocksOf)
      /\ Cardinality(Keys(inFlight) \cup blocksOf)
           = Cardinality(Keys(inFlight)) + Cardinality(blocksOf)
               - Cardinality(Keys(inFlight) \cap blocksOf)
  BY <1>2, <1>4, FS_Union
<1>7. /\ Cardinality(Keys(IssueInto(batch))) <= Cardinality(Keys(inFlight) \cup blocksOf)
      /\ Cardinality(Keys(IssueInto(batch))) \in Nat
  <2>1. Keys(IssueInto(batch)) \in SUBSET (Keys(inFlight) \cup blocksOf)
    BY <1>5
  <2> QED BY <2>1, <1>6, FS_Subset, FS_CardinalityType
<1>8. Cardinality(blocksOf) \in Nat /\ Cardinality(Keys(inFlight) \cap blocksOf) \in Nat
  BY <1>4, FS_Intersection, FS_CardinalityType
<1>9. Cardinality(Keys(inFlight)) + Cardinality(batch) <= MaxInFlight
  <2>1. MaxInFlight \in Nat
    BY SchedulerAssumption DEF SchedulerAssumption
  <2>2. Cardinality(batch) = NumToIssue
    BY DEF IsIssueBatch
  <2> QED BY <1>2, <1>3, <2>1, <2>2 DEF NumToIssue, Slots, InFlightBounded
<1>10. MaxInFlight \in Nat
  BY SchedulerAssumption DEF SchedulerAssumption
<1> QED BY <1>2, <1>3, <1>4, <1>6, <1>7, <1>8, <1>9, <1>10

(* A completion pass only takes requests out of flight.                    *)
LEMMA PassCapacity ==
  ASSUME IndInv, NEW flying \in [Blocks -> Request \cup {NoReq}],
         Cardinality(Keys(flying)) <= MaxInFlight,
         NEW caches \in CacheArgs \cup {NoCaches}, NEW tick \in {0, 1}, NEW issued,
         CompleteReady(flying, caches, tick, issued)
  PROVE  InFlightBounded'
<1>1. Keys(inFlight') \in SUBSET Keys(flying)
  <2>1. \A b \in Blocks : inFlight'[b] # NoReq => flying[b] # NoReq
    BY DEF CompleteReady, Keys
  <2> QED BY <2>1 DEF Keys
<1>2. IsFiniteSet(Keys(flying))
  BY FS_Subset, TierAssumption DEF TierAssumption, Keys
<1>3. /\ Cardinality(Keys(inFlight')) <= Cardinality(Keys(flying))
      /\ Cardinality(Keys(inFlight')) \in Nat /\ Cardinality(Keys(flying)) \in Nat
  BY <1>1, <1>2, FS_Subset, FS_CardinalityType
<1>4. MaxInFlight \in Nat
  BY SchedulerAssumption DEF SchedulerAssumption
<1> QED BY <1>3, <1>4 DEF InFlightBounded, Keys

(* Only a pass of the scheduler touches _in_flight.                        *)
Pass == \E c \in CacheArgs \cup {NoCaches} :
          Advance(c) \/ (CompleteReady(inFlight, c, 0, 0) /\ UNCHANGED <<queue, nextSeq>>)

(* Every step is a pass, one submit, a cancel, a clear, the return of a    *)
(* wait, or leaves the scheduler alone.                                    *)
LEMMA StepKinds ==
  ASSUME IndInv, [Next]_vars
  PROVE  \/ Pass
         \/ \E b \in Blocks, p \in Priorities : SubmitOne(b, p)
         \/ \E r \in queue : Cancel(r)
         \/ ClearCompleted
         \/ WaitReturn
         \/ UNCHANGED schedVars
<1>1. 0 \in Priorities
  BY SchedulerAssumption DEF SchedulerAssumption
<1>2. ASSUME NEW c \in CacheArgs, AdvanceStep(c) \/ PollReady(c) PROVE Pass
  BY <1>2 DEF AdvanceStep, PollReady, Pass
<1>3. CASE WaitStep
  BY <1>3 DEF WaitStep, Pass, IndInv, TypeOK, Calls
<1>4. ASSUME NEW S \in SUBSET Blocks, NEW c \in CacheArgs, NEW n \in WaitSteps,
             WaitFor(S, c, n) \/ EnsurePrefetched(S, c, n)
      PROVE  UNCHANGED schedVars
  BY <1>4 DEF WaitFor, EnsurePrefetched
<1>5. ASSUME NEW b \in Blocks, EnsureSubmit(b)
      PROVE  UNCHANGED schedVars \/ SubmitOne(b, 0)
  BY <1>5 DEF EnsureSubmit
<1>6. ASSUME NEW b \in Blocks, NEW p \in Priorities, Submit(b, p) PROVE SubmitOne(b, p)
  BY <1>6 DEF Submit
<1>7. ASSUME NEW b \in Blocks, DemandPrefetch(b) \/ \E z \in BOOLEAN : Offload(b, z)
      PROVE  UNCHANGED schedVars
  BY <1>7 DEF DemandPrefetch, Offload
<1>8. CASE UNCHANGED vars
  BY <1>8 DEF vars
<1> QED BY <1>1, <1>2, <1>3, <1>4, <1>5, <1>6, <1>7, <1>8 DEF Next

(* The capacity max_in_flight is kept in every configuration.              *)
THEOREM Capacity == Spec => []InFlightBounded
<1>1. Init => InFlightBounded
  <2> SUFFICES ASSUME Init PROVE InFlightBounded
    OBVIOUS
  <2>1. Keys(inFlight) = {}
    BY DEF Init, Empty, Keys
  <2> QED BY <2>1, FS_EmptySet, SchedulerAssumption DEF InFlightBounded, SchedulerAssumption
<1>2. InFlightBounded /\ IndInv /\ [Next]_vars => InFlightBounded'
  <2> SUFFICES ASSUME InFlightBounded, IndInv, [Next]_vars PROVE InFlightBounded'
    OBVIOUS
  <2>1. CASE inFlight' = inFlight
    BY <2>1 DEF InFlightBounded, Keys
  <2>2. ASSUME NEW c \in CacheArgs \cup {NoCaches}, Advance(c) PROVE InFlightBounded'
    <3>1. PICK batch \in SUBSET queue :
            IsIssueBatch(batch) /\ CompleteReady(IssueInto(batch), c, 1, Cardinality(batch))
      BY <2>2 DEF Advance
    <3>2. Cardinality(Keys(IssueInto(batch))) <= MaxInFlight
      BY <3>1, IssueCapacity
    <3>3. IssueInto(batch) \in [Blocks -> Request \cup {NoReq}]
      BY IssueIntoFacts
    <3> QED BY <3>1, <3>2, <3>3, PassCapacity
  <2>3. ASSUME NEW c \in CacheArgs \cup {NoCaches}, CompleteReady(inFlight, c, 0, 0)
        PROVE  InFlightBounded'
    BY <2>3, PassCapacity DEF IndInv, TypeOK, InFlightBounded
  <2>4. CASE Pass
    BY <2>2, <2>3, <2>4 DEF Pass
  <2>5. CASE ~Pass
    <3>1. inFlight' = inFlight
      BY <2>5, StepKinds DEF SubmitOne, SubmitResident, SubmitDuplicate, SubmitQueued,
           Cancel, ClearCompleted, WaitReturn, schedVars
    <3> QED BY <3>1, <2>1
  <2> QED BY <2>4, <2>5
<1> QED BY <1>1, <1>2, SpecIndInv, PTL DEF Spec
-----------------------------------------------------------------------------
(* What a pass does to the requests that stay in flight: each was in       *)
(* flight before, or has just been issued, and has moved one step on.      *)

(* After advance_step what is in flight was in flight or in the issued     *)
(* batch, with one step less to go.                                        *)
LEMMA AdvanceFlying ==
  ASSUME IndInv, NEW caches \in CacheArgs \cup {NoCaches}, Advance(caches)
  PROVE  \E batch \in SUBSET queue :
           /\ IsIssueBatch(batch)
           /\ queue' = queue \ batch
           /\ \A r \in Flying' : \E s \in batch \cup Flying :
                r.id = s.id /\ r.block = s.block /\ r.prio = s.prio /\ r.due = s.due - 1
<1>1. PICK batch \in SUBSET queue :
        /\ IsIssueBatch(batch)
        /\ queue' = queue \ batch
        /\ CompleteReady(IssueInto(batch), caches, 1, Cardinality(batch))
  BY DEF Advance
<1>2. \A r \in Flying' : \E s \in batch \cup Flying :
                r.id = s.id /\ r.block = s.block /\ r.prio = s.prio /\ r.due = s.due - 1
  <2> SUFFICES ASSUME NEW b \in Blocks, inFlight'[b] # NoReq
               PROVE  \E s \in batch \cup Flying :
                        /\ inFlight'[b].id = s.id /\ inFlight'[b].block = s.block
                        /\ inFlight'[b].prio = s.prio /\ inFlight'[b].due = s.due - 1
    BY DEF Flying, Keys
  <2> DEFINE s == IssueInto(batch)[b]
  <2>1. IssueInto(batch) \in [Blocks -> Request \cup {NoReq}] /\ TypeOK
    BY IssueIntoFacts DEF IndInv
  <2>2. s # NoReq /\ inFlight'[b] = [s EXCEPT !.due = s.due - 1]
    BY <1>1, <2>1, CompleteReadyFacts
  <2>3. s \in Request
    BY <2>1, <2>2
  <2>4. s \in batch \/ s = inFlight[b]
    BY <2>2, IssueIntoFacts
  <2>5. s \in batch \cup Flying
    BY <2>2, <2>4 DEF Flying, Keys
  <2> HIDE DEF s
  <2>6. /\ inFlight'[b].id = s.id /\ inFlight'[b].block = s.block
        /\ inFlight'[b].prio = s.prio /\ inFlight'[b].due = s.due - 1
    BY <2>2, <2>3 DEF Request
  <2> QED BY <2>5, <2>6
<1> QED BY <1>1, <1>2

(* poll_ready puts nothing in flight.                                      *)
LEMMA PollFlying ==
  ASSUME IndInv, NEW caches \in CacheArgs \cup {NoCaches},
         CompleteReady(inFlight, caches, 0, 0)
  PROVE  Flying' \subseteq Flying
<1> SUFFICES ASSUME NEW b \in Blocks, inFlight'[b] # NoReq
             PROVE  inFlight'[b] \in Flying
  BY DEF Flying, Keys
<1>1. inFlight \in [Blocks -> Request \cup {NoReq}] /\ TypeOK
  BY DEF IndInv, TypeOK
<1>2. inFlight[b] # NoReq /\ inFlight'[b] = [inFlight[b] EXCEPT !.due = @ - 0]
  BY <1>1, CompleteReadyFacts
<1>3. inFlight[b] \in Request
  BY <1>1, <1>2
<1>4. inFlight[b].due \in Nat
  BY <1>3 DEF Request
<1>5. inFlight'[b] = inFlight[b]
  BY <1>2, <1>3, <1>4 DEF Request
<1> QED BY <1>2, <1>5 DEF Flying, Keys

(* With deduplication no block is prefetched twice at a time.              *)
THEOREM Deduplicated == Spec => []OneRequestPerBlock
<1>1. Init => OneRequestPerBlock
  BY DEF Init, OneRequestPerBlock, Flying, Keys, Empty
<1>2. OneRequestPerBlock /\ IndInv /\ [Next]_vars => OneRequestPerBlock'
  <2> SUFFICES ASSUME OneRequestPerBlock, IndInv, [Next]_vars, Dedup PROVE OneRequestPerBlock'
    BY DEF OneRequestPerBlock
  <2> USE DEF OneRequestPerBlock
  <2>1. ASSUME NEW c \in CacheArgs \cup {NoCaches}, Advance(c) PROVE OneRequestPerBlock'
    <3>1. PICK batch \in SUBSET queue :
           /\ queue' = queue \ batch
           /\ \A r \in Flying' : \E s \in batch \cup Flying :
                r.id = s.id /\ r.block = s.block /\ r.prio = s.prio /\ r.due = s.due - 1
      BY <2>1, AdvanceFlying
    <3>2. \A q, r \in Flying' : q.block = r.block => q = r
      <4>1. \A q, r \in Flying' : q.block = r.block => q.id = r.id
        BY <3>1
      <4>2. RequestInOnePlace'
        BY <2>1, AdvanceIndInv, NextIndInv DEF IndInv
      <4> QED BY <4>1, <4>2 DEF RequestInOnePlace
    <3>3. \A q \in queue', r \in Flying' : q.block # r.block
      <4> SUFFICES ASSUME NEW q \in queue \ batch, NEW s \in batch \cup Flying
                   PROVE  q.block # s.block
        BY <3>1
      <4>1. CASE s \in batch
        BY <4>1
      <4>2. CASE s \in Flying
        BY <4>2 DEF IndInv, RequestInOnePlace
      <4> QED BY <4>1, <4>2
    <3> QED BY <3>1, <3>2, <3>3
  <2>2. ASSUME NEW c \in CacheArgs \cup {NoCaches}, CompleteReady(inFlight, c, 0, 0), queue' = queue
        PROVE  OneRequestPerBlock'
    BY <2>2, PollFlying
  <2>3. CASE Pass
    BY <2>1, <2>2, <2>3 DEF Pass
  <2>4. ASSUME NEW b \in Blocks, NEW p \in Priorities, SubmitOne(b, p) PROVE OneRequestPerBlock'
    <3>1. CASE SubmitQueued(b, p)
      <4>1. ~Queued(b) /\ inFlight[b] = NoReq
        BY <3>1 DEF SubmitQueued, HasExisting
      <4>2. \A r \in queue \cup Flying : r.block # b
        BY <4>1 DEF Queued, Flying, Keys, IndInv, WellKeyed
      <4>3. queue' = queue \cup {NewRequest(b, p, Latency)} /\ Flying' = Flying
        BY <3>1 DEF SubmitQueued, Flying, Keys
      <4> QED BY <4>2, <4>3 DEF NewRequest
    <3>2. CASE queue' = queue /\ inFlight' = inFlight
      BY <3>2 DEF Flying, Keys
    <3> QED BY <2>4, <3>1, <3>2 DEF SubmitOne, SubmitResident, SubmitDuplicate, schedVars
  <2>5. CASE queue' \subseteq queue /\ inFlight' = inFlight
    BY <2>5 DEF Flying, Keys
  <2>6. CASE ~Pass /\ ~\E b \in Blocks, p \in Priorities : SubmitOne(b, p)
    <3>1. queue' \subseteq queue /\ inFlight' = inFlight
      BY <2>6, StepKinds DEF Cancel, ClearCompleted, WaitReturn, schedVars
    <3> QED BY <3>1, <2>5
  <2> QED BY <2>3, <2>4, <2>6
<1> QED BY <1>1, <1>2, SpecIndInv, PTL DEF Spec
-----------------------------------------------------------------------------
(* Order within a priority.  The invariant adds that a queued request has  *)
(* the whole latency to go, so that whatever is issued joins the flight    *)
(* behind everything issued earlier.                                       *)

FifoInv == FifoWithinPriority /\ \A r \in queue : r.due = Latency

(* Among requests of one priority none overtakes another, in submission    *)
(* order and in priority order, with and without deduplication.            *)
THEOREM FifoOrder == Spec => []FifoWithinPriority
<1>1. Init => FifoInv
  BY DEF Init, FifoInv, FifoWithinPriority, Flying, Keys, Empty
<1>2. FifoInv /\ IndInv /\ [Next]_vars => FifoInv'
  <2> SUFFICES ASSUME FifoInv, IndInv, [Next]_vars PROVE FifoInv'
    OBVIOUS
  <2> USE DEF FifoInv, FifoWithinPriority
  <2>1. ASSUME NEW c \in CacheArgs \cup {NoCaches}, Advance(c) PROVE FifoInv'
    <3>1. PICK batch \in SUBSET queue :
           /\ IsIssueBatch(batch)
           /\ queue' = queue \ batch
           /\ \A r \in Flying' : \E s \in batch \cup Flying :
                r.id = s.id /\ r.block = s.block /\ r.prio = s.prio /\ r.due = s.due - 1
      BY <2>1, AdvanceFlying
    <3>2. queue \subseteq Request /\ Flying \subseteq Request
      BY DEF IndInv, TypeOK, Flying, Keys
    <3>3. \A s \in batch, q \in queue' : s.prio = q.prio => s.id < q.id
      <4> SUFFICES ASSUME NEW s \in batch, NEW q \in queue \ batch, s.prio = q.prio
                   PROVE  s.id < q.id
        BY <3>1
      <4>1. Precedes(s, q)
        BY <3>1 DEF IsIssueBatch
      <4>2. s.prio \in Int /\ q.prio \in Int
        BY <3>2, SchedulerAssumption DEF Request, SchedulerAssumption
      <4> QED BY <4>1, <4>2 DEF Precedes
    <3>4. \A r \in Flying', q \in queue' : q.prio = r.prio => r.id < q.id
      BY <3>1, <3>3
    <3>5. \A s, u \in batch \cup Flying : s.prio = u.prio /\ s.id < u.id => s.due <= u.due
      <4> SUFFICES ASSUME NEW s \in batch \cup Flying, NEW u \in batch \cup Flying,
                          s.prio = u.prio, s.id < u.id
                   PROVE  s.due <= u.due
        OBVIOUS
      <4>1. s \in Request /\ u \in Request
        BY <3>2
      <4>2. s.due \in 0..Latency /\ Latency \in Nat /\ s.id \in Nat /\ u.id \in Nat
        BY <4>1, SchedulerAssumption DEF Request, SchedulerAssumption
      <4>3. CASE u \in batch
        BY <4>2, <4>3
      <4>4. CASE u \in Flying /\ s \in batch
        BY <4>2, <4>4
      <4>5. CASE u \in Flying /\ s \in Flying
        BY <4>5
      <4> QED BY <4>3, <4>4, <4>5
    <3>6. \A q, r \in Flying' : q.prio = r.prio /\ q.id < r.id => q.due <= r.due
      <4> SUFFICES ASSUME NEW q \in Flying', NEW r \in Flying', q.prio = r.prio, q.id < r.id
                   PROVE  q.due <= r.due
        OBVIOUS
      <4>1. PICK s \in batch \cup Flying : q.id = s.id /\ q.prio = s.prio /\ q.due = s.due - 1
        BY <3>1
      <4>2. PICK u \in batch \cup Flying : r.id = u.id /\ r.prio = u.prio /\ r.due = u.due - 1
        BY <3>1
      <4>3. s.due \in Int /\ u.due \in Int
        BY <3>2, SchedulerAssumption DEF Request, SchedulerAssumption
      <4>4. s.due <= u.due
        BY <4>1, <4>2, <3>5
      <4> QED BY <4>1, <4>2, <4>3, <4>4
    <3> QED BY <3>1, <3>4, <3>6
  <2>2. ASSUME NEW c \in CacheArgs \cup {NoCaches}, CompleteReady(inFlight, c, 0, 0), queue' = queue
        PROVE  FifoInv'
    BY <2>2, PollFlying
  <2>3. CASE Pass
    BY <2>1, <2>2, <2>3 DEF Pass
  <2>4. ASSUME NEW b \in Blocks, NEW p \in Priorities, SubmitOne(b, p) PROVE FifoInv'
    <3>1. CASE SubmitQueued(b, p)
      <4>1. queue' = queue \cup {NewRequest(b, p, Latency)} /\ Flying' = Flying
        BY <3>1 DEF SubmitQueued, Flying, Keys
      <4>2. \A r \in Flying : r.id < nextSeq
        BY DEF IndInv, WellKeyed
      <4> QED BY <4>1, <4>2 DEF NewRequest
    <3>2. CASE queue' = queue /\ inFlight' = inFlight
      BY <3>2 DEF Flying, Keys
    <3> QED BY <2>4, <3>1, <3>2 DEF SubmitOne, SubmitResident, SubmitDuplicate, schedVars
  <2>5. CASE queue' \subseteq queue /\ inFlight' = inFlight
    BY <2>5 DEF Flying, Keys
  <2>6. CASE ~Pass /\ ~\E b \in Blocks, p \in Priorities : SubmitOne(b, p)
    <3>1. queue' \subseteq queue /\ inFlight' = inFlight
      BY <2>6, StepKinds DEF Cancel, ClearCompleted, WaitReturn, schedVars
    <3> QED BY <3>1, <2>5
  <2> QED BY <2>3, <2>4, <2>6
<1>3. FifoInv => FifoWithinPriority
  BY DEF FifoInv
<1> QED BY <1>1, <1>2, <1>3, SpecIndInv, PTL DEF Spec
-----------------------------------------------------------------------------
(* The data behind the flags.                                              *)

DataInv == ResidentHasData /\ StoreHoldsData

(* Every step of the scheduler and the tier keeps the data.                *)
LEMMA DataStep == DataInv /\ IndInv /\ [Next]_vars => DataInv'
<1> USE DEF DataInv, ResidentHasData, StoreHoldsData, Resident, Offloaded, HasBlock
<1> SUFFICES ASSUME DataInv, IndInv, [Next]_vars PROVE DataInv'
  OBVIOUS
<1>1. CASE UNCHANGED tierVars
  BY <1>1 DEF tierVars
<1>2. ASSUME NEW S \in SUBSET Blocks, \A b \in S : HasBlock(b), PrefetchBlocks(S)
      PROVE  DataInv'
  BY <1>2 DEF PrefetchBlocks
<1>3. ASSUME NEW flying, NEW c, NEW tick, NEW issued, CompleteReady(flying, c, tick, issued)
      PROVE  DataInv'
  <2> DEFINE fetched == {b \in {x \in Keys(flying) : IsReady(flying[x])} : Loads(b, c)}
  <2>1. PrefetchBlocks(fetched)
    BY <1>3 DEF CompleteReady
  <2>2. fetched \in SUBSET Blocks /\ \A b \in fetched : HasBlock(b)
    BY DEF Keys, Loads
  <2> HIDE DEF fetched
  <2> QED BY <2>1, <2>2, <1>2
<1>4. ASSUME NEW b \in Blocks, NEW z \in BOOLEAN, Offload(b, z) PROVE DataInv'
  BY <1>4 DEF Offload, OffloadBlock, IndInv, TypeOK, TierTypeOK
<1>5. ASSUME NEW b \in Blocks, DemandPrefetch(b) PROVE DataInv'
  BY <1>5, <1>2 DEF DemandPrefetch
<1>6. ASSUME NEW c, Advance(c) PROVE DataInv'
  BY <1>6, <1>3 DEF Advance
<1>7. ASSUME NEW c, AdvanceStep(c) \/ PollReady(c) PROVE DataInv'
  BY <1>7, <1>3, <1>6 DEF AdvanceStep, PollReady
<1>8. CASE WaitStep
  BY <1>6, <1>8 DEF WaitStep
<1>9. ASSUME \/ \E b \in Blocks : EnsureSubmit(b) \/ \E p \in Priorities : Submit(b, p)
             \/ \E r \in queue : Cancel(r)
             \/ \E S, c, n : WaitFor(S, c, n) \/ EnsurePrefetched(S, c, n)
             \/ ClearCompleted \/ WaitReturn \/ UNCHANGED vars
      PROVE  UNCHANGED tierVars
  BY <1>9 DEF EnsureSubmit, Submit, Cancel, WaitFor, EnsurePrefetched, ClearCompleted,
       WaitReturn, vars
<1> QED BY <1>1, <1>4, <1>5, <1>7, <1>8, <1>9 DEF Next

(* A block flagged resident is in the hot cache and a stored block is its  *)
(* K/V, however offloads, scheduled prefetches and demand fetches are      *)
(* interleaved, and whether or not hot ranges are cleared.                 *)
THEOREM ResidentData == Spec => [](ResidentHasData /\ StoreHoldsData)
<1>1. Init => DataInv
  BY DEF Init, TierInit, DataInv, ResidentHasData, StoreHoldsData, Resident, Offloaded, HasBlock
<1>2. DataInv => ResidentHasData /\ StoreHoldsData
  BY DEF DataInv
<1> QED BY <1>1, <1>2, DataStep, SpecIndInv, PTL DEF Spec

(* What the offload store holds of a block is that block's K/V, whatever    *)
(* put it there: the store is never left with data of an evicted or empty   *)
(* block.                                                                  *)
THEOREM StoredData == Spec => []StoreHoldsData
BY ResidentData, PTL
-----------------------------------------------------------------------------
(* The counters.  What is issued is counted once because, with             *)
(* deduplication, the requests of a batch are for different blocks, none   *)
(* of which is in flight; what fails is counted once because a block on    *)
(* its way has no record of a failure.                                     *)

FreshFailures == \A r \in queue \cup Flying : failed[r.block] = NoReq
StatsInv == StatsAgree /\ (Dedup => FreshFailures)

(* The collections the counters count are finite.                          *)
LEMMA FiniteKeys ==
  ASSUME NEW dict
  PROVE  IsFiniteSet(Keys(dict)) /\ Cardinality(Keys(dict)) \in Nat
BY FS_Subset, FS_CardinalityType, TierAssumption DEF TierAssumption, Keys

(* With deduplication issuing adds one key for every request.              *)
LEMMA IssueAddsBatch ==
  ASSUME IndInv, OneRequestPerBlock, Dedup, NEW batch \in SUBSET queue
  PROVE  Cardinality(Keys(IssueInto(batch))) = Cardinality(Keys(inFlight)) + Cardinality(batch)
<1> DEFINE blocksOf == {r.block : r \in batch}
           key == [r \in batch |-> r.block]
<1>1. IsFiniteSet(queue) /\ IsFiniteSet(batch) /\ queue \in SUBSET Request
  BY FS_Subset DEF IndInv, WellKeyed, TypeOK
<1>2. \A q, r \in queue \cup Flying : q.block = r.block => q = r
  BY DEF OneRequestPerBlock
<1>3. IsFiniteSet(blocksOf) /\ Cardinality(blocksOf) = Cardinality(batch)
  <2>1. key \in Surjection(batch, blocksOf)
    BY DEF Surjection
  <2>2. key \in Injection(batch, blocksOf)
    BY <1>2 DEF Injection, IsInjective
  <2>3. ExistsBijection(batch, blocksOf)
    BY <2>1, <2>2 DEF Bijection, ExistsBijection
  <2> HIDE DEF key, blocksOf
  <2> QED BY <2>3, <1>1, FS_Bijection
<1>4. \A r \in batch : r.block \in Blocks /\ inFlight[r.block] = NoReq
  <2> SUFFICES ASSUME NEW r \in batch, inFlight[r.block] # NoReq PROVE FALSE
    BY <1>1 DEF Request
  <2>1. r.block \in Blocks
    BY <1>1 DEF Request
  <2>2. inFlight[r.block] \in Flying /\ inFlight[r.block].block = r.block
    BY <2>1 DEF Flying, Keys, IndInv, WellKeyed
  <2>3. r = inFlight[r.block]
    BY <1>2, <2>2
  <2> QED BY <2>2, <2>3 DEF IndInv, RequestInOnePlace
<1>5. Keys(IssueInto(batch)) = Keys(inFlight) \cup blocksOf
  <2>1. Keys(IssueInto(batch)) \subseteq Keys(inFlight) \cup blocksOf
    BY IssueIntoFacts DEF Keys
  <2>2. ASSUME NEW b \in Keys(inFlight) PROVE IssueInto(batch)[b] # NoReq
    <3>1. {r \in batch : r.block = b} = {}
      BY <1>4 DEF Keys
    <3> QED BY <3>1 DEF IssueInto, Keys
  <2>3. ASSUME NEW r \in batch PROVE IssueInto(batch)[r.block] # NoReq
    <3>1. \A q \in batch : q.block = r.block => q = r
      BY <1>2
    <3>2. {q \in batch : q.block = r.block} = {r}
      BY <3>1
    <3>3. IssueInto(batch)[r.block] = r
      BY <3>2, <1>4 DEF IssueInto
    <3> QED BY <3>3, <1>1, NoReqAssumption DEF NoReqAssumption
  <2> QED BY <2>1, <2>2, <2>3, <1>4 DEF Keys
<1>6. Keys(inFlight) \cap blocksOf = {}
  BY <1>4 DEF Keys
<1>7. Cardinality(Keys(inFlight) \cup blocksOf)
        = Cardinality(Keys(inFlight)) + Cardinality(blocksOf) - 0
  <2> HIDE DEF blocksOf
  <2> QED BY <1>3, <1>6, FiniteKeys, FS_Union, FS_EmptySet
<1>8. Cardinality(batch) \in Nat
  BY <1>1, FS_CardinalityType
<1> QED BY <1>3, <1>5, <1>7, <1>8, FiniteKeys

(* A pass over a dict whose blocks have not failed keeps the counters.     *)
LEMMA PassStats ==
  ASSUME IndInv, Dedup, StatsAgree,
         NEW batch \in SUBSET queue, queue' = queue \ batch,
         NEW flying \in [Blocks -> Request \cup {NoReq}],
         Cardinality(Keys(flying)) = Cardinality(Keys(inFlight)) + Cardinality(batch),
         \A b \in Keys(flying) : failed[b] = NoReq,
         NEW caches \in CacheArgs \cup {NoCaches}, NEW tick \in {0, 1},
         CompleteReady(flying, caches, tick, Cardinality(batch))
  PROVE  StatsAgree'
<1> DEFINE ready == {b \in Keys(flying) : IsReady(flying[b])}
           ok == {b \in ready : PrefetchOk(b, caches)}
<1>1. /\ stats' = [queued    |-> stats.queued - Cardinality(batch),
                   in_flight |-> stats.in_flight + Cardinality(batch) - Cardinality(ready),
                   complete  |-> stats.complete + Cardinality(ok),
                   failed    |-> stats.failed + Cardinality(ready \ ok)]
      /\ \A b \in Blocks : inFlight'[b] = NoReq <=> (b \in ready \/ flying[b] = NoReq)
      /\ \A b \in Blocks : completed'[b] = IF b \in ok THEN flying[b] ELSE completed[b]
      /\ \A b \in Blocks : failed'[b] = IF b \in ready \ ok THEN flying[b] ELSE failed[b]
  <2>1. TypeOK
    BY DEF IndInv
  <2>2. \A b \in Blocks : inFlight'[b] # NoReq =>
          flying[b] # NoReq /\ ~IsReady(flying[b])
    BY DEF CompleteReady, Keys
  <2>3. \A b \in Blocks : flying[b] # NoReq /\ ~IsReady(flying[b]) => inFlight'[b] # NoReq
    <3> SUFFICES ASSUME NEW b \in Blocks, flying[b] # NoReq, ~IsReady(flying[b])
                 PROVE  inFlight'[b] # NoReq
      OBVIOUS
    <3>1. inFlight'[b] = [flying[b] EXCEPT !.due = @ - tick]
      BY DEF CompleteReady, Keys
    <3>2. flying[b] \in Request /\ flying[b].due # 0
      BY DEF IsReady
    <3>3. [flying[b] EXCEPT !.due = @ - tick] \in Request
      <4>1. flying[b].due - tick \in 0..Latency
        BY <3>2, SchedulerAssumption DEF Request, SchedulerAssumption
      <4> QED BY <3>2, <4>1 DEF Request
    <3> QED BY <3>1, <3>3, NoReqAssumption DEF NoReqAssumption
  <2> QED BY <2>2, <2>3 DEF CompleteReady, Keys
<1>2. ready \subseteq Keys(flying) /\ ok \subseteq ready /\ Keys(flying) \subseteq Blocks
  BY DEF Keys
<1> HIDE DEF ready, ok
<1>3. Keys(inFlight') = Keys(flying) \ ready
  BY <1>1, <1>2 DEF Keys
<1>4. Keys(completed') = Keys(completed) \cup ok
  BY <1>1, <1>2 DEF Keys
<1>5. Keys(failed') = Keys(failed) \cup (ready \ ok) /\ Keys(failed) \cap (ready \ ok) = {}
  BY <1>1, <1>2 DEF Keys
<1>6. /\ IsFiniteSet(ready) /\ IsFiniteSet(ok) /\ IsFiniteSet(ready \ ok)
      /\ Cardinality(ready) \in Nat /\ Cardinality(ok) \in Nat /\ Cardinality(ready \ ok) \in Nat
  <2>1. ready \in SUBSET Keys(flying) /\ ok \in SUBSET Keys(flying) /\ ready \ ok \in SUBSET Keys(flying)
    BY <1>2
  <2> QED BY <2>1, FiniteKeys, FS_Subset, FS_CardinalityType
<1>7. /\ IsFiniteSet(queue) /\ IsFiniteSet(batch)
      /\ Cardinality(queue) \in Nat /\ Cardinality(batch) \in Nat
  BY FS_Subset, FS_CardinalityType DEF IndInv, WellKeyed
<1>8. Cardinality(queue') = Cardinality(queue) - Cardinality(batch)
  <2>1. queue \cap batch = batch
    OBVIOUS
  <2>2. Cardinality(queue \ batch) = Cardinality(queue) - Cardinality(queue \cap batch)
    BY <1>7, FS_Difference
  <2> QED BY <2>1, <2>2
<1>9. Cardinality(Keys(inFlight')) = Cardinality(Keys(inFlight)) + Cardinality(batch) - Cardinality(ready)
  <2>1. Keys(flying) \cap ready = ready
    BY <1>2
  <2>2. IsFiniteSet(Keys(flying))
    BY FiniteKeys
  <2>3. Cardinality(Keys(flying) \ ready) = Cardinality(Keys(flying)) - Cardinality(Keys(flying) \cap ready)
    BY <2>2, FS_Difference
  <2>4. Cardinality(Keys(inFlight')) = Cardinality(Keys(flying)) - Cardinality(ready)
    BY <1>3, <2>1, <2>3, Zenon
  <2>5. Cardinality(Keys(inFlight)) \in Nat
    BY FiniteKeys
  <2> QED BY <2>4, <2>5, <1>6, <1>7
<1>10. Cardinality(Keys(failed')) = Cardinality(Keys(failed)) + Cardinality(ready \ ok)
  <2>1. Cardinality(Keys(failed) \cup (ready \ ok))
          = Cardinality(Keys(failed)) + Cardinality(ready \ ok) - Cardinality({})
    BY <1>5, <1>6, FiniteKeys, FS_Union
  <2> QED BY <1>5, <1>6, <2>1, FiniteKeys, FS_EmptySet
<1>11. Cardinality(Keys(completed')) <= Cardinality(Keys(completed)) + Cardinality(ok)
  <2>1. /\ Cardinality(Keys(completed) \cup ok)
             = Cardinality(Keys(completed)) + Cardinality(ok) - Cardinality(Keys(completed) \cap ok)
        /\ Cardinality(Keys(completed) \cap ok) \in Nat
    BY <1>6, FiniteKeys, FS_Union, FS_Intersection, FS_CardinalityType
  <2> QED BY <1>4, <1>6, <2>1, FiniteKeys
<1>12. /\ stats.queued \in Int /\ stats.in_flight \in Int
       /\ stats.complete \in Int /\ stats.failed \in Int
  BY DEF IndInv, TypeOK
<1>13. /\ stats'.queued = stats.queued - Cardinality(batch)
       /\ stats'.in_flight = stats.in_flight + Cardinality(batch) - Cardinality(ready)
       /\ stats'.complete = stats.complete + Cardinality(ok)
       /\ stats'.failed = stats.failed + Cardinality(ready \ ok)
  BY <1>1
<1>14. stats'.complete >= Cardinality(Keys(completed'))
  BY <1>6, <1>11, <1>12, <1>13, FiniteKeys DEF StatsAgree
<1> QED BY <1>8, <1>9, <1>10, <1>12, <1>13, <1>14 DEF StatsAgree, Keys

(* After a pass no block that is still on its way has a record of a        *)
(* failure: what failed has left the flight, and nothing else is on its    *)
(* way for the same block.                                                 *)
LEMMA FreshAfterPass ==
  ASSUME IndInv, OneRequestPerBlock, Dedup, FreshFailures,
         NEW batch \in SUBSET queue, queue' = queue \ batch,
         NEW flying \in [Blocks -> Request \cup {NoReq}],
         \A b \in Blocks : flying[b] # NoReq =>
           flying[b].block = b /\ (flying[b] \in batch \/ flying[b] = inFlight[b]),
         NEW caches \in CacheArgs \cup {NoCaches}, NEW tick \in {0, 1},
         CompleteReady(flying, caches, tick, Cardinality(batch))
  PROVE  FreshFailures'
<1>1. /\ TypeOK
      /\ \A q, r \in queue \cup Flying : q.block = r.block => q = r
  BY DEF IndInv, OneRequestPerBlock
<1>2. /\ \A b \in Blocks : inFlight'[b] # NoReq =>
           /\ flying[b] # NoReq
           /\ inFlight'[b] = [flying[b] EXCEPT !.due = @ - tick]
           /\ failed'[b] = failed[b]
      /\ \A b \in Blocks : failed'[b] = failed[b] \/ (failed'[b] = flying[b] /\ flying[b] # NoReq)
  BY <1>1, CompleteReadyFacts
<1>3. \A b \in Blocks : flying[b] # NoReq => flying[b] \in queue \cup Flying /\ flying[b] \in Request
  BY DEF Flying, Keys
<1>4. ASSUME NEW b \in Blocks, inFlight'[b] # NoReq
      PROVE  inFlight'[b].block = b /\ failed'[b] = NoReq
  <2>1. flying[b] # NoReq /\ failed'[b] = failed[b] /\ flying[b] \in Request /\ flying[b].block = b
    BY <1>2, <1>3, <1>4
  <2>2. inFlight'[b].block = flying[b].block
    BY <1>2, <1>4, <2>1 DEF Request
  <2>3. failed[b] = NoReq
    BY <1>3, <2>1 DEF FreshFailures
  <2> QED BY <2>1, <2>2, <2>3
<1>5. ASSUME NEW r \in queue \ batch
      PROVE  failed'[r.block] = NoReq
  <2>1. r.block \in Blocks /\ failed[r.block] = NoReq
    BY <1>1 DEF FreshFailures, TypeOK, Request
  <2>2. ASSUME flying[r.block] # NoReq PROVE FALSE
    <3>1. flying[r.block] = r
      BY <2>1, <2>2, <1>1, <1>3
    <3>2. r \notin batch /\ r = inFlight[r.block] /\ inFlight[r.block] # NoReq
      BY <2>1, <2>2, <3>1
    <3> QED BY <2>1, <3>2 DEF Flying, Keys, IndInv, RequestInOnePlace
  <2> QED BY <2>1, <2>2, <1>2
<1> QED BY <1>4, <1>5 DEF FreshFailures, Flying, Keys

(* submit keeps the counters, whichever way it answers.                    *)
LEMMA SubmitStats ==
  ASSUME IndInv, Dedup, StatsInv, NEW b \in Blocks, NEW p \in Priorities, SubmitOne(b, p)
  PROVE  StatsInv'
<1> USE DEF StatsInv
<1>1. stats \in [queued : Int, in_flight : Int, complete : Int, failed : Int] /\ TypeOK
  BY DEF IndInv, TypeOK
<1>2. NewRequest(b, p, 0) \in Request /\ NewRequest(b, p, 0) # NoReq
  BY SchedulerAssumption, NoReqAssumption
  DEF SchedulerAssumption, NoReqAssumption, NewRequest, Request, IndInv, TypeOK
<1>3. CASE SubmitResident(b, p)
  <2>1. /\ stats'.queued = stats.queued /\ stats'.in_flight = stats.in_flight
        /\ stats'.failed = stats.failed /\ stats'.complete = stats.complete + 1
    BY <1>1, <1>3 DEF SubmitResident
  <2>2. queue' = queue /\ inFlight' = inFlight /\ failed' = failed
    BY <1>3 DEF SubmitResident
  <2>3. Keys(completed') = Keys(completed) \cup {b}
    BY <1>1, <1>2, <1>3 DEF SubmitResident, Keys, TypeOK
  <2>4. Cardinality(Keys(completed')) <= Cardinality(Keys(completed)) + 1
    <3>1. IsFiniteSet(Keys(completed)) /\ Cardinality(Keys(completed)) \in Nat
      BY FiniteKeys
    <3>2. \/ Cardinality(Keys(completed) \cup {b}) = Cardinality(Keys(completed))
          \/ Cardinality(Keys(completed) \cup {b}) = Cardinality(Keys(completed)) + 1
      BY <3>1, FS_AddElement
    <3> QED BY <2>3, <3>1, <3>2
  <2>5. Cardinality(Keys(completed)) \in Nat /\ Cardinality(Keys(completed')) \in Nat
    BY FiniteKeys
  <2>6. stats'.complete >= Cardinality(Keys(completed'))
    BY <1>1, <2>1, <2>4, <2>5 DEF StatsAgree
  <2>7. StatsAgree'
    BY <2>1, <2>2, <2>6 DEF StatsAgree, Keys
  <2> QED BY <2>2, <2>7 DEF FreshFailures, Flying, Keys
<1>4. CASE SubmitDuplicate(b)
  BY <1>4 DEF SubmitDuplicate, schedVars, StatsAgree, FreshFailures, Flying, Keys
<1>5. CASE SubmitQueued(b, p)
  <2>1. NewRequest(b, p, Latency) \notin queue
    BY DEF NewRequest, IndInv, WellKeyed, TypeOK
  <2>2. Cardinality(queue') = Cardinality(queue) + 1
    BY <1>5, <2>1, FS_AddElement DEF SubmitQueued, IndInv, WellKeyed
  <2>3. /\ stats'.queued = stats.queued + 1 /\ stats'.in_flight = stats.in_flight
        /\ stats'.failed = stats.failed /\ stats'.complete = stats.complete
    BY <1>1, <1>5 DEF SubmitQueued
  <2>4. UNCHANGED <<inFlight, completed, failed>>
    BY <1>5 DEF SubmitQueued
  <2>5. StatsAgree'
    BY <2>2, <2>3, <2>4 DEF StatsAgree, Keys
  <2>6. failed[b] = NoReq
    BY <1>5 DEF SubmitQueued, HasExisting, Recorded
  <2>7. queue' = queue \cup {NewRequest(b, p, Latency)} /\ NewRequest(b, p, Latency).block = b
    BY <1>5 DEF SubmitQueued, NewRequest
  <2>8. FreshFailures'
    BY <2>4, <2>6, <2>7 DEF FreshFailures, Flying, Keys
  <2> QED BY <2>5, <2>8
<1> QED BY <1>3, <1>4, <1>5 DEF SubmitOne

(* cancel and clear_completed keep the counters.                           *)
LEMMA ForgetStats ==
  ASSUME IndInv, Dedup, StatsInv, ClearCompleted \/ \E r \in queue : Cancel(r)
  PROVE  StatsInv'
<1> USE DEF StatsInv
<1>1. stats \in [queued : Int, in_flight : Int, complete : Int, failed : Int]
  BY DEF IndInv, TypeOK
<1>2. CASE ClearCompleted
  <2>1. /\ stats'.queued = stats.queued /\ stats'.in_flight = stats.in_flight
        /\ stats'.failed = 0 /\ stats'.complete = 0
    BY <1>1, <1>2 DEF ClearCompleted
  <2>2. Keys(completed') = {} /\ Keys(failed') = {} /\ \A b \in Blocks : failed'[b] = NoReq
    BY <1>2 DEF ClearCompleted, Empty, Keys
  <2>3. queue' = queue /\ inFlight' = inFlight
    BY <1>2 DEF ClearCompleted
  <2>4. StatsAgree'
    <3>1. stats'.failed = Cardinality(Keys(failed')) /\ stats'.complete >= Cardinality(Keys(completed'))
      BY <2>1, <2>2, FS_EmptySet
    <3> QED BY <2>1, <2>3, <3>1 DEF StatsAgree, Keys
  <2>5. queue \in SUBSET Request /\ Flying \in SUBSET Request
    BY DEF IndInv, TypeOK, Flying, Keys
  <2>6. FreshFailures'
    BY <2>2, <2>3, <2>5 DEF FreshFailures, Flying, Keys, Request
  <2> QED BY <2>4, <2>6
<1>3. ASSUME NEW r \in queue, Cancel(r) PROVE StatsInv'
  <2>1. Cardinality(queue') = Cardinality(queue) - 1
    BY <1>3, FS_RemoveElement DEF Cancel, IndInv, WellKeyed
  <2>2. /\ stats'.queued = stats.queued - 1 /\ stats'.in_flight = stats.in_flight
        /\ stats'.failed = stats.failed /\ stats'.complete = stats.complete
    BY <1>1, <1>3 DEF Cancel
  <2>3. queue' \subseteq queue /\ UNCHANGED <<inFlight, completed, failed>>
    BY <1>3 DEF Cancel
  <2>4. StatsAgree'
    BY <2>1, <2>2, <2>3 DEF StatsAgree, Keys
  <2> QED BY <2>3, <2>4 DEF FreshFailures, Flying, Keys
<1> QED BY <1>2, <1>3

(* With deduplication the counters of stats agree with the collections     *)
(* they count after any sequence of calls, and stats.complete is never     *)
(* behind the record of completed prefetches.                              *)
THEOREM CountersAgree == Spec => []StatsAgree
<1>1. Init => StatsInv
  <2> SUFFICES ASSUME Init PROVE StatsInv
    OBVIOUS
  <2>1. queue = {} /\ Keys(inFlight) = {} /\ Keys(failed) = {} /\ Keys(completed) = {}
    BY DEF Init, Empty, Keys
  <2>2. StatsAgree
    BY <2>1, FS_EmptySet DEF StatsAgree, Init
  <2>3. FreshFailures
    BY <2>1 DEF FreshFailures, Flying
  <2> QED BY <2>2, <2>3 DEF StatsInv
<1>2. StatsInv /\ IndInv /\ OneRequestPerBlock /\ [Next]_vars => StatsInv'
  <2> SUFFICES ASSUME StatsInv, IndInv, OneRequestPerBlock, [Next]_vars, Dedup PROVE StatsInv'
    BY DEF StatsInv, StatsAgree
  <2>1. ASSUME NEW c \in CacheArgs \cup {NoCaches}, Advance(c) PROVE StatsInv'
    <3>1. PICK batch \in SUBSET queue :
            /\ queue' = queue \ batch
            /\ CompleteReady(IssueInto(batch), c, 1, Cardinality(batch))
      BY <2>1 DEF Advance
    <3>2. PICK flying : flying = IssueInto(batch)
      OBVIOUS
    <3>3. /\ flying \in [Blocks -> Request \cup {NoReq}]
          /\ \A b \in Blocks : flying[b] # NoReq =>
               flying[b].block = b /\ (flying[b] \in batch \/ flying[b] = inFlight[b])
      BY <3>2, IssueIntoFacts
    <3>4. \A b \in Keys(flying) : failed[b] = NoReq
      BY <3>3 DEF StatsInv, FreshFailures, Flying, Keys
    <3>5. Cardinality(Keys(flying)) = Cardinality(Keys(inFlight)) + Cardinality(batch)
      BY <3>2, IssueAddsBatch
    <3>6. CompleteReady(flying, c, 1, Cardinality(batch))
      BY <3>1, <3>2
    <3>7. StatsAgree'
      BY <3>1, <3>3, <3>4, <3>5, <3>6, PassStats DEF StatsInv
    <3>8. FreshFailures'
      BY <3>1, <3>3, <3>6, FreshAfterPass DEF StatsInv
    <3> QED BY <3>7, <3>8 DEF StatsInv
  <2>2. ASSUME NEW c \in CacheArgs \cup {NoCaches}, CompleteReady(inFlight, c, 0, 0), queue' = queue
        PROVE  StatsInv'
    <3>1. {} \in SUBSET queue /\ queue' = queue \ {} /\ CompleteReady(inFlight, c, 0, Cardinality({}))
      BY <2>2, FS_EmptySet
    <3>2. /\ inFlight \in [Blocks -> Request \cup {NoReq}]
          /\ \A b \in Blocks : inFlight[b] # NoReq => inFlight[b].block = b
      BY DEF IndInv, TypeOK, WellKeyed, Keys
    <3>3. \A b \in Keys(inFlight) : failed[b] = NoReq
      BY <3>2 DEF StatsInv, FreshFailures, Flying, Keys
    <3>4. Cardinality(Keys(inFlight)) = Cardinality(Keys(inFlight)) + Cardinality({})
      BY FiniteKeys, FS_EmptySet
    <3>5. StatsAgree'
      BY <3>1, <3>2, <3>3, <3>4, PassStats DEF StatsInv
    <3>6. FreshFailures'
      BY <3>1, <3>2, FreshAfterPass DEF StatsInv
    <3> QED BY <3>5, <3>6 DEF StatsInv
  <2>3. CASE Pass
    BY <2>1, <2>2, <2>3 DEF Pass
  <2>4. CASE UNCHANGED schedVars \/ WaitReturn
    BY <2>4 DEF StatsInv, StatsAgree, FreshFailures, Flying, Keys, schedVars, WaitReturn
  <2> QED BY <2>3, <2>4, StepKinds, SubmitStats, ForgetStats
<1>3. StatsInv => StatsAgree
  BY DEF StatsInv
<1> QED BY <1>1, <1>2, <1>3, SpecIndInv, Deduplicated, PTL DEF Spec
-----------------------------------------------------------------------------
(* What ensure_prefetched_before_attention promises.  While it runs, with  *)
(* fail_on_missing and the layer caches at hand, a record of a completed   *)
(* prefetch that was not there when it began means a resident block, and   *)
(* so does not being waited for.                                           *)

EnsureInv ==
  call.op = "ensure" /\ FailOnMissing /\ call.caches # NoCaches =>
    \A b \in call.blocks \ call.stale :
      /\ b \in Blocks
      /\ completed[b] # NoReq => Resident(b)
      /\ b \in call.need \/ Resident(b)

(* With fail_on_missing and the layer caches a pass completes a prefetch   *)
(* only by making its block resident, and takes no block out of the cache. *)
LEMMA PassMakesResident ==
  ASSUME IndInv, FailOnMissing, NEW caches \in CacheArgs \cup {NoCaches}, caches # NoCaches,
         NEW flying, NEW tick, NEW issued, CompleteReady(flying, caches, tick, issued),
         NEW b \in Blocks
  PROVE  /\ Resident(b) => Resident(b)'
         /\ completed'[b] # NoReq => completed[b] # NoReq \/ Resident(b)'
<1> DEFINE ready == {x \in Keys(flying) : IsReady(flying[x])}
           loaded == {x \in ready : Loads(x, caches)}
<1>1. /\ PrefetchBlocks(loaded)
      /\ completed'[b] = IF b \in ready /\ PrefetchOk(b, caches) THEN flying[b] ELSE completed[b]
  BY DEF CompleteReady
<1>2. residency' = [x \in Blocks |-> IF x \in loaded THEN "resident" ELSE residency[x]]
  BY <1>1 DEF PrefetchBlocks
<1>3. residency \in [Blocks -> Residency]
  BY DEF IndInv, TypeOK, TierTypeOK
<1>4. Resident(b) => Resident(b)'
  BY <1>2 DEF Resident
<1>5. ASSUME b \in ready, PrefetchOk(b, caches) PROVE Resident(b)'
  <2>1. ~Missing(b) /\ (Resident(b) \/ LayerGiven(b, caches))
    BY <1>5 DEF PrefetchOk
  <2>2. Resident(b) \/ (Offloaded(b) /\ HasBlock(b))
    BY <1>3, <2>1 DEF Missing, Residency, Resident, Offloaded
  <2>3. Resident(b) \/ b \in loaded
    BY <1>5, <2>1, <2>2 DEF Loads
  <2> QED BY <1>2, <2>3 DEF Resident
<1> QED BY <1>1, <1>4, <1>5

(* A submit records a prefetch as complete only for a resident block.      *)
LEMMA SubmitRecordsResident ==
  ASSUME IndInv, NEW b \in Blocks, NEW p \in Priorities, SubmitOne(b, p), NEW c \in Blocks
  PROVE  completed'[c] # NoReq => completed[c] # NoReq \/ Resident(c)
BY DEF SubmitOne, SubmitResident, SubmitDuplicate, SubmitQueued, schedVars, IndInv, TypeOK

(* ensure_prefetched_before_attention returns normally only when every     *)
(* block it was asked for is resident, given fail_on_missing, the layer    *)
(* caches and no record of an earlier prefetch, for every layout of the    *)
(* tier and every order of the other calls before it.                      *)
THEOREM EnsureIsSound == Spec => []EnsureSound
<1>1. Init => EnsureInv
  BY DEF Init, EnsureInv, Idle
<1>2. EnsureInv /\ IndInv /\ [Next]_vars => EnsureInv'
  <2> SUFFICES ASSUME EnsureInv, IndInv, [Next]_vars PROVE EnsureInv'
    OBVIOUS
  <2>1. CASE call' = Idle
    BY <2>1 DEF EnsureInv, Idle
  <2>2. ASSUME NEW S \in SUBSET Blocks, NEW c \in CacheArgs, NEW n \in WaitSteps,
               WaitFor(S, c, n)
        PROVE  EnsureInv'
    <3>1. call'.op = "wait"
      BY <2>2 DEF WaitFor, Idle
    <3> QED BY <3>1 DEF EnsureInv
  <2>3. ASSUME NEW S \in SUBSET Blocks, NEW c \in CacheArgs, NEW n \in WaitSteps,
               EnsurePrefetched(S, c, n)
        PROVE  EnsureInv'
    <3>1. PICK need : need = {b \in S : ~Resident(b)}
      OBVIOUS
    <3>2. PICK stale : stale = {b \in S : Recorded(b)}
      OBVIOUS
    <3>3. call' = [Idle EXCEPT !.op = "ensure", !.blocks = S, !.todo = need,
                               !.need = need, !.pending = need,
                               !.limit = n, !.caches = c, !.stale = stale]
      BY <2>3, <3>1, <3>2 DEF EnsurePrefetched
    <3>4. call'.blocks = S /\ call'.need = need /\ call'.stale = stale
      BY <3>3 DEF Idle
    <3>5. UNCHANGED <<tierVars, schedVars>>
      BY <2>3 DEF EnsurePrefetched
    <3> QED BY <3>1, <3>2, <3>4, <3>5 DEF EnsureInv, Recorded, Resident, tierVars, schedVars
  <2>4. ASSUME NEW b \in Blocks, EnsureSubmit(b) PROVE EnsureInv'
    <3>1. /\ call'.op = call.op /\ call'.blocks = call.blocks /\ call'.stale = call.stale
          /\ call'.need = call.need /\ call'.caches = call.caches
      BY <2>4 DEF EnsureSubmit, IndInv, TypeOK, Calls
    <3>2. residency' = residency
      BY <2>4 DEF EnsureSubmit, tierVars
    <3>3. \A c \in Blocks : completed'[c] # NoReq => completed[c] # NoReq \/ Resident(c)
      <4>1. 0 \in Priorities
        BY SchedulerAssumption DEF SchedulerAssumption
      <4> QED BY <2>4, <4>1, SubmitRecordsResident DEF EnsureSubmit, schedVars
    <3> QED BY <3>1, <3>2, <3>3 DEF EnsureInv, Resident
  <2>5. CASE WaitStep
    <3>1. /\ call'.op = call.op /\ call'.blocks = call.blocks /\ call'.stale = call.stale
          /\ call'.need = call.need /\ call'.caches = call.caches
      BY <2>5 DEF WaitStep, IndInv, TypeOK, Calls
    <3>2. call.caches \in CacheArgs \cup {NoCaches}
      BY DEF IndInv, TypeOK, Calls
    <3>3. PICK batch : CompleteReady(IssueInto(batch), call.caches, 1, Cardinality(batch))
      BY <2>5 DEF WaitStep, Advance
    <3>4. SUFFICES ASSUME call.op = "ensure", FailOnMissing, call.caches # NoCaches,
                          NEW b \in call.blocks \ call.stale
                   PROVE  /\ b \in Blocks
                          /\ completed'[b] # NoReq => Resident(b)'
                          /\ b \in call.need \/ Resident(b)'
      BY <3>1 DEF EnsureInv
    <3>5. /\ b \in Blocks
          /\ completed[b] # NoReq => Resident(b)
          /\ b \in call.need \/ Resident(b)
      BY <3>4 DEF EnsureInv
    <3>6. /\ Resident(b) => Resident(b)'
          /\ completed'[b] # NoReq => completed[b] # NoReq \/ Resident(b)'
      BY <3>2, <3>3, <3>4, <3>5, PassMakesResident
    <3> QED BY <3>5, <3>6
  <2>6. CASE call' = call /\ call = Idle
    BY <2>6, <2>1
  <2>7. CASE UNCHANGED vars
    BY <2>7 DEF vars, tierVars, schedVars, EnsureInv, Resident
  <2> QED BY <2>1, <2>2, <2>3, <2>4, <2>5, <2>6, <2>7
          DEF Next, Submit, AdvanceStep, PollReady, Cancel, ClearCompleted, WaitReturn, Offload,
              DemandPrefetch
<1>3. IndInv /\ EnsureInv => EnsureSound
  <2> SUFFICES ASSUME IndInv, EnsureInv, EnsureReturnsOk, FailOnMissing,
                      NEW b \in call.blocks \ call.stale, call.caches # NoCaches
               PROVE  Resident(b)
    BY DEF EnsureSound
  <2>1. /\ b \in Blocks
        /\ completed[b] # NoReq => Resident(b)
        /\ b \in call.need \/ Resident(b)
    BY DEF EnsureInv, EnsureReturnsOk
  <2>2. b \in call.need => completed[b] # NoReq
    BY DEF EnsureReturnsOk, Outcome
  <2> QED BY <2>1, <2>2
<1> QED BY <1>1, <1>2, <1>3, SpecIndInv, PTL DEF Spec
-----------------------------------------------------------------------------
(* How long ensure_prefetched_before_attention may take.  While it runs     *)
(* nothing is submitted.  Time is cut into rounds of latency + 1 steps, in  *)
(* which every slot that is not idle completes a request: a round with      *)
(* something left in the queue takes max_in_flight blocks off the way.      *)

Round == Latency + 1

OnItsWay(b) == Queued(b) \/ inFlight[b] # NoReq

(* The blocks that are not through by the end of a round of which i steps   *)
(* are over.                                                                *)
Late(i) == {b \in Blocks : Queued(b) \/ (inFlight[b] # NoReq /\ inFlight[b].due + i >= Round)}

(* The call is i steps into its j-th round; the 0-th is over when it begins. *)
InRound(j, i) ==
  /\ call.steps + Round = j * Round + i
  /\ Late(i) = {} \/ Cardinality(Late(i)) + j * MaxInFlight <= Cardinality(Blocks)
  /\ j >= 1 /\ Cardinality(Blocks) <= (j - 1) * MaxInFlight => \A b \in Blocks : ~OnItsWay(b)

DrainInv ==
  Dedup /\ call.op = "ensure" =>
    /\ call.todo # {} => call.steps = 0
    /\ \E j \in Nat, i \in 1..Round : InRound(j, i)
    /\ \A b \in call.need \ call.todo : Recorded(b) \/ OnItsWay(b)
    /\ \A b \in call.need \ call.pending : Recorded(b)

(* The constants are numbers.                                              *)
LEMMA Numbers ==
  /\ Latency \in Nat /\ Round \in Nat /\ Round >= 1
  /\ MaxInFlight \in Nat /\ MaxInFlight >= 1
  /\ IsFiniteSet(Blocks) /\ Cardinality(Blocks) \in Nat
BY SchedulerAssumption, TierAssumption, FS_CardinalityType
   DEF SchedulerAssumption, TierAssumption, Round

(* The late blocks can be counted.                                         *)
LEMMA LateFinite ==
  ASSUME NEW i
  PROVE  /\ IsFiniteSet(Late(i)) /\ Cardinality(Late(i)) \in Nat
         /\ Cardinality(Late(i)) <= Cardinality(Blocks)
BY Numbers, FS_Subset, FS_CardinalityType DEF Late

(* What advance_step does to one block: it moves on, or is recorded.        *)
LEMMA AdvanceBlock ==
  ASSUME IndInv, OneRequestPerBlock, Dedup,
         NEW c \in CacheArgs \cup {NoCaches}, Advance(c), NEW b \in Blocks
  PROVE  /\ Queued(b)' => Queued(b)
         /\ inFlight'[b] # NoReq =>
              /\ inFlight'[b].due \in Nat /\ inFlight'[b].due < Latency
              /\ Queued(b) \/ (inFlight[b] # NoReq /\ inFlight[b].due = inFlight'[b].due + 1)
         /\ Recorded(b) => Recorded(b)'
         /\ OnItsWay(b) => Recorded(b)' \/ OnItsWay(b)'
<1>1. PICK batch \in SUBSET queue :
        /\ queue' = queue \ batch
        /\ CompleteReady(IssueInto(batch), c, 1, Cardinality(batch))
  BY DEF Advance
<1>2. PICK flying : flying = IssueInto(batch)
  OBVIOUS
<1>3. /\ flying \in [Blocks -> Request \cup {NoReq}]
      /\ flying[b] # NoReq => flying[b].block = b /\ (flying[b] \in batch \/ flying[b] = inFlight[b])
      /\ CompleteReady(flying, c, 1, Cardinality(batch))
  BY <1>1, <1>2, IssueIntoFacts
<1>4. TypeOK /\ Latency \in Nat /\ queue \in SUBSET Request
  BY Numbers DEF IndInv, TypeOK
<1>5. /\ inFlight' \in [Blocks -> Request \cup {NoReq}]
      /\ inFlight'[b] # NoReq =>
           flying[b] # NoReq /\ inFlight'[b] = [flying[b] EXCEPT !.due = @ - 1]
  BY <1>3, <1>4, CompleteReadyFacts
<1>6. ASSUME inFlight'[b] # NoReq
      PROVE  /\ inFlight'[b].due \in Nat /\ inFlight'[b].due < Latency
             /\ Queued(b) \/ (inFlight[b] # NoReq /\ inFlight[b].due = inFlight'[b].due + 1)
  <2>1. flying[b] \in Request /\ inFlight'[b] \in Request
    BY <1>3, <1>5, <1>6
  <2>2. inFlight'[b].due = flying[b].due - 1
    BY <1>5, <1>6, <2>1 DEF Request
  <2>3. flying[b].due \in 0..Latency /\ inFlight'[b].due \in 0..Latency
    BY <2>1 DEF Request
  <2>4. Queued(b) \/ flying[b] = inFlight[b]
    BY <1>3, <1>5, <1>6 DEF Queued
  <2> QED BY <1>4, <1>5, <1>6, <2>2, <2>3, <2>4
<1>7. ASSUME NEW r \in batch, r.block = b PROVE flying[b] # NoReq
  <2>1. {q \in batch : q.block = b} = {r}
    BY <1>7 DEF OneRequestPerBlock
  <2>2. flying[b] = r
    BY <1>2, <2>1 DEF IssueInto
  <2> QED BY <1>4, <2>2, NoReqAssumption DEF NoReqAssumption
<1>8. ASSUME flying[b] # NoReq PROVE Recorded(b)' \/ OnItsWay(b)'
  <2>1. CASE IsReady(flying[b])
    BY <1>3, <1>8, <2>1 DEF CompleteReady, Keys, Recorded
  <2>2. CASE ~IsReady(flying[b])
    <3>1. inFlight'[b] = [flying[b] EXCEPT !.due = @ - 1]
      BY <1>3, <1>8, <2>2 DEF CompleteReady, Keys
    <3>2. flying[b] \in Request /\ flying[b].due # 0
      BY <1>3, <1>8, <2>2 DEF IsReady
    <3>3. flying[b].due - 1 \in 0..Latency
      BY <1>4, <3>2 DEF Request
    <3>4. [flying[b] EXCEPT !.due = @ - 1] \in Request
      BY <3>2, <3>3 DEF Request
    <3> QED BY <3>1, <3>4, NoReqAssumption DEF NoReqAssumption, OnItsWay
  <2> QED BY <2>1, <2>2
<1>9. ASSUME Recorded(b) PROVE Recorded(b)'
  <2>1. /\ completed'[b] = completed[b] \/ (completed'[b] = flying[b] /\ flying[b] # NoReq)
        /\ failed'[b] = failed[b] \/ (failed'[b] = flying[b] /\ flying[b] # NoReq)
    BY <1>3, <1>4, CompleteReadyFacts
  <2> QED BY <1>9, <2>1 DEF Recorded
<1>10. ASSUME Queued(b) PROVE Recorded(b)' \/ OnItsWay(b)'
  <2>1. PICK r \in queue : r.block = b
    BY <1>10 DEF Queued
  <2>2. CASE r \in batch
    BY <1>7, <1>8, <2>1, <2>2
  <2>3. CASE r \notin batch
    <3>1. Queued(b)'
      BY <1>1, <2>1, <2>3 DEF Queued
    <3> QED BY <3>1 DEF OnItsWay
  <2> QED BY <2>2, <2>3
<1>11. ASSUME inFlight[b] # NoReq PROVE Recorded(b)' \/ OnItsWay(b)'
  <2>1. flying[b] # NoReq
    <3>1. CASE {r \in batch : r.block = b} = {}
      BY <1>2, <1>11, <3>1 DEF IssueInto
    <3> QED BY <1>7, <3>1
  <2> QED BY <1>8, <2>1
<1>12. Queued(b)' => Queued(b)
  BY <1>1 DEF Queued
<1> QED BY <1>6, <1>9, <1>10, <1>11, <1>12 DEF OnItsWay

(* Within a round nothing that was not late becomes late.                   *)
LEMMA LateShrinks ==
  ASSUME IndInv, OneRequestPerBlock, Dedup,
         NEW c \in CacheArgs \cup {NoCaches}, Advance(c), NEW i \in Nat
  PROVE  Late(i + 1)' \subseteq Late(i)
<1> SUFFICES ASSUME NEW b \in Late(i + 1)' PROVE b \in Late(i)
  OBVIOUS
<1>1. b \in Blocks /\ (Queued(b)' \/ (inFlight'[b] # NoReq /\ inFlight'[b].due + (i + 1) >= Round))
  BY DEF Late
<1>2. Queued(b)' => Queued(b)
  BY <1>1, AdvanceBlock
<1>3. inFlight'[b] # NoReq =>
        /\ inFlight'[b].due \in Nat
        /\ Queued(b) \/ (inFlight[b] # NoReq /\ inFlight[b].due = inFlight'[b].due + 1)
  BY <1>1, AdvanceBlock
<1> QED BY <1>1, <1>2, <1>3, Numbers DEF Late

(* When a round is over, all that is on its way is late: it is in the queue *)
(* or in flight, one request for each block.                                *)
LEMMA LateAtEnd ==
  ASSUME IndInv, OneRequestPerBlock, Dedup
  PROVE  /\ Late(Round) = {b \in Blocks : OnItsWay(b)}
         /\ Cardinality(Late(Round)) = Cardinality(Keys(inFlight)) + Cardinality(queue)
<1>1. \A b \in Blocks : inFlight[b] # NoReq => inFlight[b].due \in Nat
  BY DEF IndInv, TypeOK, Request
<1>2. Late(Round) = {b \in Blocks : OnItsWay(b)}
  BY <1>1, Numbers DEF Late, OnItsWay
<1>3. Keys(IssueInto(queue)) = {b \in Blocks : OnItsWay(b)}
  <2> SUFFICES ASSUME NEW b \in Blocks PROVE IssueInto(queue)[b] # NoReq <=> OnItsWay(b)
    BY DEF Keys
  <2>1. CASE ~Queued(b)
    <3>1. {r \in queue : r.block = b} = {}
      BY <2>1 DEF Queued
    <3>2. IssueInto(queue)[b] = inFlight[b]
      BY <3>1 DEF IssueInto
    <3> QED BY <2>1, <3>2 DEF OnItsWay
  <2>2. CASE Queued(b)
    <3>1. PICK r \in queue : r.block = b
      BY <2>2 DEF Queued
    <3>2. {q \in queue : q.block = b} = {r}
      BY <3>1 DEF OneRequestPerBlock
    <3>3. IssueInto(queue)[b] = r
      BY <3>2 DEF IssueInto
    <3>4. r # NoReq
      BY NoReqAssumption DEF NoReqAssumption, IndInv, TypeOK
    <3> QED BY <2>2, <3>3, <3>4 DEF OnItsWay
  <2> QED BY <2>1, <2>2
<1>4. queue \in SUBSET queue
  OBVIOUS
<1> QED BY <1>2, <1>3, <1>4, IssueAddsBatch

(* With the first step of a round the slots are filled: what is then late   *)
(* is what is left in the queue.                                            *)
LEMMA SlotsFilled ==
  ASSUME IndInv, OneRequestPerBlock, InFlightBounded, Dedup,
         NEW c \in CacheArgs \cup {NoCaches}, Advance(c)
  PROVE  \/ Late(1)' = {}
         \/ Cardinality(Late(1)') + MaxInFlight <= Cardinality(Late(Round))
<1>1. PICK batch \in SUBSET queue : IsIssueBatch(batch) /\ queue' = queue \ batch
  BY DEF Advance
<1>2. PICK left : left = queue \ batch
  OBVIOUS
<1>3. Late(1)' \subseteq {r.block : r \in left}
  <2> SUFFICES ASSUME NEW b \in Late(1)' PROVE Queued(b)'
    BY <1>1, <1>2 DEF Queued
  <2>1. b \in Blocks /\ (Queued(b)' \/ (inFlight'[b] # NoReq /\ inFlight'[b].due + 1 >= Round))
    BY DEF Late
  <2>2. inFlight'[b] # NoReq => inFlight'[b].due \in Nat /\ inFlight'[b].due < Latency
    BY <2>1, AdvanceBlock
  <2> QED BY <2>1, <2>2, Numbers DEF Round
<1>4. IsFiniteSet(queue) /\ IsFiniteSet(batch) /\ IsFiniteSet(left)
  BY <1>2, FS_Subset DEF IndInv, WellKeyed
<1>5. /\ Cardinality(queue) \in Nat /\ Cardinality(batch) \in Nat /\ Cardinality(left) \in Nat
      /\ Cardinality(Keys(inFlight)) \in Nat
  BY <1>4, FS_CardinalityType, FiniteKeys
<1>6. Cardinality(left) = Cardinality(queue) - Cardinality(batch)
  <2>1. queue \cap batch = batch
    OBVIOUS
  <2> QED BY <1>2, <1>4, <2>1, FS_Difference
<1>7. Cardinality(Late(1)') <= Cardinality(left) /\ Cardinality(Late(1)') \in Nat
  <2>1. PICK key : key = [r \in left |-> r.block]
    OBVIOUS
  <2>2. PICK image : image = {r.block : r \in left}
    OBVIOUS
  <2>3. key \in Surjection(left, image)
    BY <2>1, <2>2 DEF Surjection
  <2>4. IsFiniteSet(image) /\ Cardinality(image) <= Cardinality(left)
    BY <1>4, <2>3, FS_Surjection
  <2>5. Late(1)' \in SUBSET image
    BY <1>3, <2>2
  <2> QED BY <1>5, <2>4, <2>5, FS_Subset, FS_CardinalityType
<1>8. Cardinality(batch) = NumToIssue
  BY <1>1 DEF IsIssueBatch
<1>9. CASE Cardinality(queue) < Slots \/ Cardinality(queue) = Cardinality(batch)
  <2>1. Cardinality(left) = 0
    BY <1>5, <1>6, <1>8, <1>9, Numbers DEF NumToIssue, Slots
  <2>2. left = {}
    BY <1>4, <2>1, FS_EmptySet
  <2> QED BY <1>3, <2>2
<1>10. CASE ~(Cardinality(queue) < Slots) /\ Cardinality(queue) # Cardinality(batch)
  <2>1. Cardinality(batch) = MaxInFlight - Cardinality(Keys(inFlight))
    BY <1>5, <1>8, <1>10, Numbers DEF NumToIssue, Slots, InFlightBounded
  <2> QED BY <1>5, <1>6, <1>7, <2>1, LateAtEnd, Numbers
<1> QED BY <1>9, <1>10

(* A step of the call is one step further in its rounds.                    *)
LEMMA RoundStep ==
  ASSUME IndInv, OneRequestPerBlock, InFlightBounded, Dedup,
         NEW c \in CacheArgs \cup {NoCaches}, Advance(c),
         call.steps \in Nat, call'.steps = call.steps + 1,
         NEW j \in Nat, NEW i \in 1..Round, InRound(j, i)
  PROVE  \E k \in Nat, h \in 1..Round : InRound(k, h)'
<1>1. /\ call.steps + Round = j * Round + i
      /\ Late(i) = {} \/ Cardinality(Late(i)) + j * MaxInFlight <= Cardinality(Blocks)
      /\ j >= 1 /\ Cardinality(Blocks) <= (j - 1) * MaxInFlight => \A b \in Blocks : ~OnItsWay(b)
  BY DEF InRound
<1>2. (\A b \in Blocks : ~OnItsWay(b)) => \A b \in Blocks : ~OnItsWay(b)'
  <2> SUFFICES ASSUME NEW b \in Blocks, ~OnItsWay(b) PROVE ~OnItsWay(b)'
    OBVIOUS
  <2> QED BY AdvanceBlock DEF OnItsWay
<1>3. j * Round \in Nat /\ j * MaxInFlight \in Nat
  BY Numbers
<1>4. CASE i < Round
  <2>1. i + 1 \in 1..Round /\ i \in Nat
    BY <1>4, Numbers
  <2>2. call'.steps + Round = j * Round + (i + 1)
    BY <1>1, <1>3, <2>1, Numbers
  <2>3. Late(i + 1)' \subseteq Late(i)
    BY <2>1, LateShrinks
  <2>4. Cardinality(Late(i + 1)') <= Cardinality(Late(i)) /\ Cardinality(Late(i + 1)') \in Nat
    BY <2>3, LateFinite, FS_Subset, FS_CardinalityType
  <2>5. Late(i + 1)' = {} \/ Cardinality(Late(i + 1)') + j * MaxInFlight <= Cardinality(Blocks)
    BY <1>1, <1>3, <2>3, <2>4, LateFinite, Numbers
  <2>6. InRound(j, i + 1)'
    BY <1>1, <1>2, <2>2, <2>5 DEF InRound, Late, Round
  <2> QED BY <2>1, <2>6
<1>5. CASE i = Round
  <2>1. 1 \in 1..Round /\ j + 1 \in Nat
    BY Numbers
  <2>2. (j + 1) * Round = j * Round + Round /\ (j + 1) * MaxInFlight = j * MaxInFlight + MaxInFlight
    BY Numbers
  <2>3. call'.steps + Round = (j + 1) * Round + 1
    BY <1>1, <1>3, <1>5, <2>2, Numbers
  <2>4. Late(1)' = {} \/ Cardinality(Late(1)') + MaxInFlight <= Cardinality(Late(Round))
    BY SlotsFilled
  <2>5. IsFiniteSet(Late(1)') /\ Cardinality(Late(1)') \in Nat
    BY Numbers, FS_Subset, FS_CardinalityType DEF Late
  <2>6. Late(1)' = {} \/ Cardinality(Late(1)') + (j + 1) * MaxInFlight <= Cardinality(Blocks)
    <3>1. CASE Late(Round) = {}
      <4>1. Cardinality(Late(Round)) = 0
        BY <3>1, FS_EmptySet
      <4> QED BY <2>4, <2>5, <4>1, Numbers
    <3>2. CASE Cardinality(Late(Round)) + j * MaxInFlight <= Cardinality(Blocks)
      BY <1>3, <2>2, <2>4, <2>5, <3>2, LateFinite, Numbers
    <3> QED BY <1>1, <1>5, <3>1, <3>2
  <2>7. ASSUME Cardinality(Blocks) <= ((j + 1) - 1) * MaxInFlight
        PROVE  \A b \in Blocks : ~OnItsWay(b)'
    <3>1. Cardinality(Blocks) <= j * MaxInFlight
      BY <2>7
    <3>2. Late(Round) = {}
      <4>1. SUFFICES ASSUME Cardinality(Late(Round)) + j * MaxInFlight <= Cardinality(Blocks)
                     PROVE  Cardinality(Late(Round)) = 0
        BY <1>1, <1>5, LateFinite, FS_EmptySet
      <4> QED BY <1>3, <3>1, <4>1, LateFinite, Numbers
    <3> QED BY <1>2, <3>2, LateAtEnd
  <2>8. InRound(j + 1, 1)'
    BY <2>3, <2>6, <2>7 DEF InRound, Late, Round
  <2> QED BY <2>1, <2>8
<1> QED BY <1>4, <1>5, Numbers

(* Before its first step a call is at the end of round 0.                   *)
LEMMA RoundZero ==
  ASSUME call'.steps = 0
  PROVE  \E j \in Nat, i \in 1..Round : InRound(j, i)'
<1>1. 0 \in Nat /\ Round \in 1..Round /\ 0 * Round = 0 /\ 0 * MaxInFlight = 0
  BY Numbers
<1>2. Cardinality(Late(Round)') <= Cardinality(Blocks) /\ Cardinality(Late(Round)') \in Nat
  BY Numbers, FS_Subset, FS_CardinalityType DEF Late
<1>3. InRound(0, Round)'
  BY <1>1, <1>2, Numbers DEF InRound, Late, Round
<1> QED BY <1>1, <1>3

(* A submit takes no block off its way, and none is left out.               *)
LEMMA SubmitBlock ==
  ASSUME IndInv, Dedup, NEW b \in Blocks, NEW p \in Priorities, SubmitOne(b, p), NEW d \in Blocks
  PROVE  /\ Recorded(d) => Recorded(d)'
         /\ OnItsWay(d) => OnItsWay(d)'
         /\ Recorded(b)' \/ OnItsWay(b)'
<1>1. CASE SubmitResident(b, p)
  <2>1. NewRequest(b, p, 0) # NoReq
    <3>1. NewRequest(b, p, 0) \in Request
      BY Numbers DEF NewRequest, Request, IndInv, TypeOK
    <3> QED BY <3>1, NoReqAssumption DEF NoReqAssumption
  <2>2. completed' = [completed EXCEPT ![b] = NewRequest(b, p, 0)] /\ UNCHANGED <<queue, inFlight, failed>>
    BY <1>1 DEF SubmitResident
  <2>3. DOMAIN completed = Blocks
    BY DEF IndInv, TypeOK
  <2> QED BY <2>1, <2>2, <2>3 DEF Recorded, OnItsWay, Queued
<1>2. CASE SubmitDuplicate(b)
  BY <1>2 DEF SubmitDuplicate, HasExisting, schedVars, Recorded, OnItsWay, Queued
<1>3. CASE SubmitQueued(b, p)
  <2>1. queue' = queue \cup {NewRequest(b, p, Latency)} /\ UNCHANGED <<inFlight, completed, failed>>
    BY <1>3 DEF SubmitQueued
  <2>2. NewRequest(b, p, Latency).block = b
    BY DEF NewRequest
  <2> QED BY <2>1, <2>2 DEF Recorded, OnItsWay, Queued
<1> QED BY <1>1, <1>2, <1>3 DEF SubmitOne

(* Dividing up is enough: n things fit into that many lots of k.            *)
LEMMA DivideUp ==
  ASSUME NEW n \in Nat, NEW k \in Nat \ {0}
  PROVE  /\ (n + k - 1) \div k \in Nat
         /\ n <= ((n + k - 1) \div k) * k
<1>1. PICK m \in Nat : m = n + k - 1
  OBVIOUS
<1>2. /\ m \div k \in Nat
      /\ m < k * (m \div k) + k
  OBVIOUS
<1>3. PICK r \in Nat : r = m \div k
  BY <1>2
<1>4. k * r = r * k /\ k * r \in Nat
  OBVIOUS
<1>5. n <= r * k
  BY <1>1, <1>2, <1>3, <1>4
<1> QED BY <1>1, <1>3, <1>5

(* The rounds there are hold all blocks.                                    *)
LEMMA RoundsHoldBlocks ==
  /\ Rounds \in Nat
  /\ Cardinality(Blocks) <= Rounds * MaxInFlight
BY Numbers, DivideUp DEF Rounds

(* Multiples are in the order of their factors.                             *)
LEMMA Multiples ==
  ASSUME NEW a \in Nat, NEW b \in Nat, NEW p \in Nat, a <= b
  PROVE  a * p <= b * p
<1>1. PICK d \in Nat : b = a + d
  <2>1. b - a \in Nat /\ b = a + (b - a)
    OBVIOUS
  <2> QED BY <2>1
<1>2. b * p = a * p + d * p
  BY <1>1
<1>3. a * p \in Nat /\ d * p \in Nat
  OBVIOUS
<1> QED BY <1>2, <1>3

(* When all rounds are over nothing is on its way.                          *)
LEMMA RoundsOver ==
  ASSUME IndInv, OneRequestPerBlock, Dedup,
         call.steps \in Nat, call.steps >= Rounds * Round,
         NEW j \in Nat, NEW i \in 1..Round, InRound(j, i)
  PROVE  \A b \in Blocks : ~OnItsWay(b)
<1>1. /\ call.steps + Round = j * Round + i
      /\ Late(i) = {} \/ Cardinality(Late(i)) + j * MaxInFlight <= Cardinality(Blocks)
      /\ j >= 1 /\ Cardinality(Blocks) <= (j - 1) * MaxInFlight => \A b \in Blocks : ~OnItsWay(b)
  BY DEF InRound
<1>2. PICK R \in Nat : R = Rounds
  BY RoundsHoldBlocks
<1>3. R * Round \in Nat /\ j * Round \in Nat /\ R * MaxInFlight \in Nat /\ j * MaxInFlight \in Nat
  BY Numbers
<1>4. j * Round + i >= R * Round + Round
  BY <1>1, <1>2, <1>3, Numbers
<1>5. j >= R
  <2>1. SUFFICES ASSUME j + 1 <= R PROVE FALSE
    OBVIOUS
  <2>2. (j + 1) * Round <= R * Round
    BY <2>1, Numbers, Multiples
  <2>3. (j + 1) * Round = j * Round + Round
    BY Numbers
  <2> QED BY <1>3, <1>4, <2>2, <2>3, Numbers
<1>6. CASE i = Round
  <2>1. R * MaxInFlight <= j * MaxInFlight
    BY <1>5, Numbers, Multiples
  <2>2. Cardinality(Blocks) <= j * MaxInFlight
    BY <1>2, <1>3, <2>1, RoundsHoldBlocks, Numbers
  <2>3. Late(Round) = {}
    <3>1. SUFFICES ASSUME Cardinality(Late(Round)) + j * MaxInFlight <= Cardinality(Blocks)
                   PROVE  Cardinality(Late(Round)) = 0
      BY <1>1, <1>6, LateFinite, FS_EmptySet
    <3> QED BY <1>3, <2>2, <3>1, LateFinite, Numbers
  <2> QED BY <2>3, LateAtEnd
<1>7. CASE i < Round
  <2>1. j # R
    BY <1>3, <1>4, <1>7, Numbers
  <2>2. j - 1 \in Nat /\ j >= 1 /\ R <= j - 1
    BY <1>5, <2>1
  <2>3. R * MaxInFlight <= (j - 1) * MaxInFlight /\ (j - 1) * MaxInFlight \in Nat
    BY <2>2, Numbers, Multiples
  <2>4. Cardinality(Blocks) <= (j - 1) * MaxInFlight
    BY <1>2, <1>3, <2>3, RoundsHoldBlocks, Numbers
  <2> QED BY <1>1, <2>2, <2>4
<1> QED BY <1>6, <1>7, Numbers

(* ensure_prefetched_before_attention does not time out when max_steps      *)
(* leaves latency + 1 steps for every max_in_flight blocks, whatever was    *)
(* queued or in flight before it, in either order of issue.                 *)
THEOREM NoTimeout == Spec => []NoSpuriousTimeout
<1>1. Init => DrainInv
  BY DEF Init, DrainInv, Idle
<1>2. DrainInv /\ IndInv /\ OneRequestPerBlock /\ InFlightBounded /\ [Next]_vars => DrainInv'
  <2> SUFFICES ASSUME DrainInv, IndInv, OneRequestPerBlock, InFlightBounded, [Next]_vars
               PROVE  DrainInv'
    OBVIOUS
  <2>1. CASE call' = Idle
    BY <2>1 DEF DrainInv, Idle
  <2>2. ASSUME NEW S \in SUBSET Blocks, NEW c \in CacheArgs, NEW n \in WaitSteps,
               WaitFor(S, c, n)
        PROVE  DrainInv'
    <3>1. call'.op = "wait"
      BY <2>2 DEF WaitFor, Idle
    <3> QED BY <3>1 DEF DrainInv
  <2>3. ASSUME NEW S \in SUBSET Blocks, NEW c \in CacheArgs, NEW n \in WaitSteps,
               EnsurePrefetched(S, c, n)
        PROVE  DrainInv'
    <3>1. PICK need : need = {b \in S : ~Resident(b)}
      OBVIOUS
    <3>2. PICK stale : stale = {b \in S : Recorded(b)}
      OBVIOUS
    <3>3. call' = [Idle EXCEPT !.op = "ensure", !.blocks = S, !.todo = need,
                               !.need = need, !.pending = need,
                               !.limit = n, !.caches = c, !.stale = stale]
      BY <2>3, <3>1, <3>2 DEF EnsurePrefetched
    <3>4. call'.steps = 0 /\ call'.need = need /\ call'.todo = need /\ call'.pending = need
      BY <3>3 DEF Idle
    <3> QED BY <3>4, RoundZero DEF DrainInv
  <2>4. ASSUME NEW b \in Blocks, EnsureSubmit(b) PROVE DrainInv'
    <3>1. SUFFICES ASSUME Dedup, call.op = "ensure" PROVE DrainInv'
      BY <2>4 DEF EnsureSubmit, IndInv, TypeOK, Calls, DrainInv
    <3>2. /\ call'.need = call.need /\ call'.pending = call.pending
          /\ call'.steps = call.steps /\ call'.todo = call.todo \ {b}
      BY <2>4 DEF EnsureSubmit, IndInv, TypeOK, Calls
    <3>3. call.steps = 0
      BY <2>4, <3>1 DEF EnsureSubmit, DrainInv
    <3>4. ASSUME NEW d \in Blocks
          PROVE  /\ Recorded(d) => Recorded(d)'
                 /\ OnItsWay(d) => OnItsWay(d)'
                 /\ Recorded(b)' \/ OnItsWay(b)'
      <4>1. 0 \in Priorities
        BY SchedulerAssumption DEF SchedulerAssumption
      <4>2. CASE IsPending(b) /\ UNCHANGED schedVars
        BY <4>2 DEF IsPending, schedVars, Recorded, OnItsWay, Queued
      <4>3. CASE SubmitOne(b, 0)
        BY <3>1, <4>1, <4>3, SubmitBlock
      <4> QED BY <2>4, <4>2, <4>3 DEF EnsureSubmit
    <3>5. call.need \subseteq Blocks
      BY DEF IndInv, TypeOK, Calls
    <3>6. \A d \in call'.need \ call'.todo : Recorded(d)' \/ OnItsWay(d)'
      BY <3>1, <3>2, <3>4, <3>5 DEF DrainInv
    <3>7. \A d \in call'.need \ call'.pending : Recorded(d)'
      BY <3>1, <3>2, <3>4, <3>5 DEF DrainInv
    <3> QED BY <3>2, <3>3, <3>6, <3>7, RoundZero DEF DrainInv
  <2>5. CASE WaitStep
    <3>1. SUFFICES ASSUME Dedup, call.op = "ensure" PROVE DrainInv'
      BY <2>5 DEF WaitStep, IndInv, TypeOK, Calls, DrainInv
    <3>2. /\ call'.need = call.need /\ call'.todo = call.todo /\ call.todo = {}
          /\ call'.steps = call.steps + 1 /\ call'.pending = StillWaiting
          /\ call.steps \in Nat /\ call.need \subseteq Blocks
      BY <2>5 DEF WaitStep, InLoop, IndInv, TypeOK, Calls
    <3>3. call.caches \in CacheArgs \cup {NoCaches} /\ Advance(call.caches)
      BY <2>5 DEF WaitStep, IndInv, TypeOK, Calls
    <3>4. PICK j \in Nat, i \in 1..Round : InRound(j, i)
      BY <3>1 DEF DrainInv
    <3>5. \E k \in Nat, h \in 1..Round : InRound(k, h)'
      BY <3>1, <3>2, <3>3, <3>4, RoundStep
    <3>6. ASSUME NEW d \in Blocks
          PROVE  /\ Recorded(d) => Recorded(d)'
                 /\ OnItsWay(d) => Recorded(d)' \/ OnItsWay(d)'
      BY <3>1, <3>3, AdvanceBlock
    <3>7. \A d \in call'.need \ call'.todo : Recorded(d)' \/ OnItsWay(d)'
      BY <3>1, <3>2, <3>6 DEF DrainInv
    <3>8. \A d \in call'.need \ call'.pending : Recorded(d)'
      <4> SUFFICES ASSUME NEW d \in call.need \ StillWaiting PROVE Recorded(d)'
        BY <3>2
      <4>1. CASE d \in call.pending
        BY <4>1 DEF StillWaiting, Recorded
      <4>2. CASE d \notin call.pending
        BY <3>1, <3>2, <3>6, <4>2 DEF DrainInv
      <4> QED BY <4>1, <4>2
    <3> QED BY <3>2, <3>5, <3>7, <3>8 DEF DrainInv
  <2>6. CASE call' = call /\ call = Idle
    BY <2>6, <2>1
  <2>7. CASE UNCHANGED vars
    BY <2>7 DEF vars, schedVars, DrainInv, InRound, Late, Recorded, OnItsWay, Queued
  <2> QED BY <2>1, <2>2, <2>3, <2>4, <2>5, <2>6, <2>7
          DEF Next, Submit, AdvanceStep, PollReady, Cancel, ClearCompleted, WaitReturn, Offload,
              DemandPrefetch
<1>3. IndInv /\ OneRequestPerBlock /\ DrainInv => NoSpuriousTimeout
  <2> SUFFICES ASSUME IndInv, OneRequestPerBlock, DrainInv,
                      Dedup, call.op = "ensure", InLoop, LoopDone,
                      call.limit >= Rounds * (Latency + 1), NEW b \in call.need
               PROVE  Recorded(b)
    BY DEF NoSpuriousTimeout, Outcome, Recorded
  <2>1. call.steps \in Nat /\ call.limit \in Nat /\ b \in Blocks /\ call.todo = {}
    BY DEF IndInv, TypeOK, Calls, InLoop
  <2>2. PICK j \in Nat, i \in 1..Round : InRound(j, i)
    BY DEF DrainInv
  <2>3. /\ b \notin call.pending => Recorded(b)
        /\ Recorded(b) \/ OnItsWay(b)
    BY <2>1 DEF DrainInv
  <2>4. CASE call.pending = {}
    BY <2>3, <2>4
  <2>5. CASE call.steps >= call.limit
    <3>1. Rounds * Round \in Nat
      BY RoundsHoldBlocks, Numbers
    <3>2. call.steps >= Rounds * Round
      BY <2>1, <2>5, <3>1 DEF Round
    <3>3. ~OnItsWay(b)
      BY <2>1, <2>2, <3>2, RoundsOver
    <3> QED BY <2>3, <3>3
  <2> QED BY <2>4, <2>5 DEF LoopDone
<1> QED BY <1>1, <1>2, <1>3, SpecIndInv, Deduplicated, Capacity, PTL DEF Spec
=============================================================================
