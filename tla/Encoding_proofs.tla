-------------------------- MODULE Encoding_proofs ---------------------------
(***************************************************************************)
(* From the changed cells of a frame to the packets on the wire: the       *)
(* encoding pool, for any number of tiles, workers and frames; the cache,  *)
(* quality and priority of the pipeline, for every screen size and every   *)
(* way the screen changes; and the tile packets, for every batch and       *)
(* packet size.                                                            *)
(*                                                                         *)
(* The pool's contents are counted by three cardinalities and lengths;     *)
(* each step moves one item, which Moved says of the workers.  Freshness   *)
(* rests on the count: while no collect timed out, an idle processing      *)
(* thread means an empty pool, so nothing of one frame is there when the   *)
(* next starts.                                                            *)
(*                                                                         *)
(* What the client has of a cell (BytesAreCurrent) rests on what the       *)
(* detector and the cache say of it: PipeIInv.  The packets are functions  *)
(* by recursion on the batch, whose recursion equations are proved first.  *)
(***************************************************************************)
EXTENDS EncodingPool, Pipeline, TileWire, Tiles_proofs, SequenceTheorems

-----------------------------------------------------------------------------
(* The encoding pool. *)

\* Where the processing thread is, nothing is left to submit or to collect.
PhaseMatches ==
  /\ pc # "submit" => todo = {}
  /\ pc = "idle" => expect = 0

\* What timeouts gave up on fits the task channel and the workers.
SkewBounded == skew <= ChannelCap + Cardinality(Worker)

\* Until a collect times out, everything in the pool is of this frame.
AllFresh ==
  skew = 0 =>
    /\ \A i \in 1 .. Len(tasks) : tasks[i].age # "stale"
    /\ \A i \in 1 .. Len(results) : results[i].age # "stale"
    /\ \A w \in Worker : work[w] # Idle => work[w].item.age # "stale"
    /\ \A t \in DOMAIN bytes : bytes[t] # "stale"

PoolIInv ==
  /\ PoolTypeOK /\ PhaseMatches /\ NothingLostInPool /\ SkewBounded /\ AllFresh

-----------------------------------------------------------------------------
\* Sequences, for any set of elements.
LEMMA QueueOps ==
  ASSUME NEW S, NEW q \in Seq(S)
  PROVE  /\ Len(q) \in Nat
         /\ q # <<>> => /\ Head(q) \in S /\ Head(q) = q[1] /\ Len(q) > 0
                        /\ Tail(q) \in Seq(S) /\ Len(Tail(q)) = Len(q) - 1
                        /\ \A i \in 1 .. Len(q) - 1 : Tail(q)[i] = q[i + 1]
         /\ \A i \in 1 .. Len(q) : q[i] \in S
OBVIOUS

\* One element more at a sequence's end.
LEMMA AppendOps ==
  ASSUME NEW S, NEW q \in Seq(S), NEW e \in S
  PROVE  /\ Append(q, e) \in Seq(S) /\ Len(Append(q, e)) = Len(q) + 1
         /\ \A i \in 1 .. Len(q) : Append(q, e)[i] = q[i]
         /\ Append(q, e)[Len(q) + 1] = e
OBVIOUS

\* A sequence whose elements are changed one by one.
LEMMA MapOps ==
  ASSUME NEW S, NEW q \in Seq(S), NEW f, f = [i \in DOMAIN q |-> f[i]],
         \A i \in DOMAIN q : f[i] \in S
  PROVE  f \in Seq(S) /\ Len(f) = Len(q)
<1>1. DOMAIN q = 1 .. Len(q) /\ Len(q) \in Nat
  OBVIOUS
<1>2. f \in [1 .. Len(q) -> S]
  BY <1>1
<1> QED BY <1>1, <1>2

\* The two channels' capacity.
LEMMA CapType ==
  /\ Cardinality(Worker) \in Nat /\ ChannelCap \in Nat
BY PoolAssumption, FS_CardinalityType DEF ChannelCap

\* The pool's numbers are numbers.
LEMMA Numbers ==
  ASSUME PoolTypeOK
  PROVE  /\ IsFiniteSet(InWork) /\ Cardinality(InWork) \in Nat
         /\ Cardinality(InWork) <= Cardinality(Worker)
         /\ IsFiniteSet(todo) /\ Cardinality(todo) \in Nat
         /\ Len(tasks) \in Nat /\ Len(results) \in Nat
         /\ expect \in Nat /\ skew \in Nat
<1>1. InWork \subseteq Worker
  BY DEF InWork
<1>2. todo \subseteq Tile
  BY DEF PoolTypeOK
<1>3. Len(tasks) \in Nat /\ Len(results) \in Nat
  BY QueueOps DEF PoolTypeOK
<1>4. expect \in Nat /\ skew \in Nat
  BY PoolAssumption DEF PoolTypeOK
<1> QED
  BY <1>1, <1>2, <1>3, <1>4, PoolAssumption, FS_Subset, FS_CardinalityType

\* A worker that takes or hands over moves one item in or out of InWork.
LEMMA Moved ==
  ASSUME PoolTypeOK, NEW w \in Worker, NEW x, work' = [work EXCEPT ![w] = x]
  PROVE  /\ work[w] = Idle /\ x # Idle => Cardinality(InWork)' = Cardinality(InWork) + 1
         /\ work[w] # Idle /\ x = Idle => Cardinality(InWork)' = Cardinality(InWork) - 1
         /\ work[w] # Idle /\ x # Idle => InWork' = InWork
<1>1. IsFiniteSet(InWork)
  BY Numbers
<1>2. /\ x # Idle => InWork' = InWork \cup {w}
      /\ x = Idle => InWork' = InWork \ {w}
      /\ w \in InWork <=> work[w] # Idle
  BY DEF PoolTypeOK, InWork
<1> QED
  BY <1>1, <1>2, FS_AddElement, FS_RemoveElement

\* What a worker holds.
LEMMA WorkTypes ==
  ASSUME PoolTypeOK, NEW w \in Worker
  PROVE  /\ work[w] = Idle \/ work[w] \in Busy \/ work[w] \in Full
         /\ work[w].state = "encoding" => work[w] \in Busy /\ work[w].item \in Item
         /\ work[w].state = "sending" => work[w] \in Full /\ work[w].item \in Result
         /\ work[w].state \in {"encoding", "sending"} => work[w] # Idle
BY DEF PoolTypeOK, Idle, Busy, Full

-----------------------------------------------------------------------------
\* An empty pool, seen from the count.
LEMMA EmptyWhenSettled ==
  ASSUME PoolIInv, pc = "idle", skew = 0
  PROVE  tasks = <<>> /\ results = <<>> /\ InWork = {}
<1>1. Len(tasks) + Cardinality(InWork) + Len(results) = 0
  BY FS_EmptySet, Numbers DEF PoolIInv, NothingLostInPool, InPool, PhaseMatches
<1>2. Len(tasks) = 0 /\ Len(results) = 0 /\ Cardinality(InWork) = 0
  BY <1>1, Numbers DEF PoolIInv
<1> QED
  BY <1>2, Numbers, FS_EmptySet DEF PoolIInv, PoolTypeOK

\* A new frame ages what an earlier one left; there is nothing of that kind
\* unless a collect timed out.
LEMMA StartKeeps ==
  ASSUME PoolIInv, NEW F \in SUBSET Tile, NEW S \in SUBSET F,
         skew + Cardinality(S) <= MaxHeld, StartFrame(F, S)
  PROVE  PoolIInv'
<1>t. /\ PoolTypeOK /\ PoolIInv /\ pc = "idle" /\ todo = {} /\ expect = 0
      /\ IsFiniteSet(S) /\ Cardinality(S) \in Nat /\ S \subseteq Tile
  <2>1. IsFiniteSet(S)
    BY PoolAssumption, FS_Subset
  <2> QED BY <2>1, FS_CardinalityType DEF PoolIInv, PhaseMatches, StartFrame
<1>a. /\ \A i \in Item : Aged(i) \in Item
      /\ \A i \in Result : Aged(i) \in Result
  BY DEF Aged, Item, Result
<1>1. tasks' \in Seq(Item) /\ Len(tasks') = Len(tasks)
  <2>1. /\ tasks \in Seq(Item) /\ DOMAIN tasks = 1 .. Len(tasks)
        /\ tasks' = [i \in DOMAIN tasks |-> tasks'[i]]
        /\ \A i \in DOMAIN tasks : tasks'[i] = Aged(tasks[i])
    BY <1>t DEF StartFrame, PoolTypeOK
  <2>2. \A i \in DOMAIN tasks : tasks'[i] \in Item
    BY <2>1, <1>a, QueueOps
  <2> HIDE DEF Item
  <2> QED BY <2>1, <2>2, MapOps
<1>2. results' \in Seq(Result) /\ Len(results') = Len(results)
  <2>1. /\ results \in Seq(Result) /\ DOMAIN results = 1 .. Len(results)
        /\ results' = [i \in DOMAIN results |-> results'[i]]
        /\ \A i \in DOMAIN results : results'[i] = Aged(results[i])
    BY <1>t DEF StartFrame, PoolTypeOK
  <2>2. \A i \in DOMAIN results : results'[i] \in Result
    BY <2>1, <1>a, QueueOps
  <2> QED BY <2>1, <2>2, MapOps
<1>3. /\ work' \in [Worker -> {Idle} \cup Busy \cup Full]
      /\ InWork' = InWork
  <2>1. ASSUME NEW w \in Worker
        PROVE  /\ AgedWork(work[w]) \in {Idle} \cup Busy \cup Full
               /\ AgedWork(work[w]) = Idle <=> work[w] = Idle
    <3>1. CASE work[w] = Idle
      BY <3>1 DEF AgedWork, Idle
    <3>2. CASE work[w] \in Busy
      BY <3>2, <1>a DEF AgedWork, Busy, Idle
    <3>3. CASE work[w] \in Full
      BY <3>3, <1>a DEF AgedWork, Full, Idle
    <3> QED BY <3>1, <3>2, <3>3, <1>t DEF PoolTypeOK
  <2> QED BY <2>1 DEF StartFrame, InWork
<1>4. PoolTypeOK'
  <2>1. /\ pc' = "submit" /\ todo' = S /\ expect' = Cardinality(S) /\ skew' = skew
        /\ bytes' \in [F -> {"none", "fresh", "stale"}] /\ DOMAIN bytes' = F
    BY DEF StartFrame
  <2>2. Cardinality(S) \in 0 .. MaxHeld
    BY <1>t, PoolAssumption, Numbers
  <2> QED BY <2>1, <2>2, <1>1, <1>2, <1>3, <1>t DEF PoolTypeOK
<1>5. PhaseMatches'
  BY DEF PhaseMatches, StartFrame
<1>6. NothingLostInPool'
  <2>1. InPool' = InPool /\ InPool = skew + 0 - 0
    BY <1>1, <1>2, <1>3, <1>t, FS_EmptySet DEF InPool, PoolIInv, NothingLostInPool
  <2> QED BY <2>1, <1>t, Numbers DEF NothingLostInPool, StartFrame
<1>7. SkewBounded'
  BY DEF PoolIInv, SkewBounded, StartFrame
<1>8. AllFresh'
  <2>1. SUFFICES ASSUME skew = 0 PROVE AllFresh'
    BY DEF AllFresh, StartFrame
  <2>2. tasks = <<>> /\ results = <<>> /\ InWork = {}
    BY <2>1, <1>t, EmptyWhenSettled
  <2>3. Len(tasks') = 0 /\ Len(results') = 0
    BY <1>1, <1>2, <2>2
  <2>4. \A w \in Worker : work'[w] = Idle
    BY <2>2, <1>3 DEF InWork
  <2>5. \A t \in DOMAIN bytes' : bytes'[t] # "stale"
    BY DEF StartFrame
  <2> QED BY <2>3, <2>4, <2>5 DEF AllFresh
<1> QED BY <1>4, <1>5, <1>6, <1>7, <1>8 DEF PoolIInv

\* A submitted tile joins the task queue.
LEMMA SubmitKeeps ==
  ASSUME PoolIInv, NEW t \in Tile, Submit(t)
  PROVE  PoolIInv'
<1> DEFINE e == [tile |-> t, age |-> "fresh"]
<1>t. PoolTypeOK /\ e \in Item /\ Len(tasks) \in Nat /\ tasks \in Seq(Item)
  BY Numbers DEF PoolIInv, Item, PoolTypeOK
<1>1. /\ tasks' \in Seq(Item) /\ Len(tasks') = Len(tasks) + 1
      /\ \A i \in 1 .. Len(tasks) : tasks'[i] = tasks[i]
      /\ tasks'[Len(tasks) + 1] = e
  BY <1>t, AppendOps DEF Submit
<1>2. Cardinality(todo') = Cardinality(todo) - 1 /\ InWork' = InWork
  BY <1>t, Numbers, FS_RemoveElement DEF Submit, InWork
<1>3. PoolTypeOK'
  BY <1>1, <1>t, CapType DEF Submit, PoolTypeOK
<1>4. NothingLostInPool'
  <2>1. InPool' = InPool + 1 /\ skew' = skew /\ expect' = expect
    BY <1>1, <1>2, <1>t, Numbers DEF InPool, Submit
  <2> QED BY <2>1, <1>2, <1>t, Numbers DEF NothingLostInPool, PoolIInv
<1>5. AllFresh'
  BY <1>1, <1>t DEF AllFresh, PoolIInv, Submit
<1> QED
  BY <1>3, <1>4, <1>5 DEF PoolIInv, PhaseMatches, SkewBounded, Submit

\* The batch's collection starts with nothing collected.
LEMMA AllSubmittedKeeps ==
  ASSUME PoolIInv, AllSubmitted
  PROVE  PoolIInv'
BY DEF AllSubmitted, PoolIInv, PoolTypeOK, PhaseMatches, NothingLostInPool, SkewBounded, AllFresh, InPool,
   InWork

\* A result of the batch is collected once.
LEMMA CollectOneKeeps ==
  ASSUME PoolIInv, CollectOne
  PROVE  PoolIInv'
<1>t. PoolTypeOK /\ results \in Seq(Result) /\ results # <<>> /\ results' = Tail(results)
  BY DEF PoolIInv, PoolTypeOK, CollectOne
<1>1. /\ Head(results) \in Result /\ Head(results) = results[1]
      /\ results' \in Seq(Result) /\ Len(results') = Len(results) - 1 /\ Len(results) \in Nat
      /\ Len(results) > 0
      /\ \A i \in 1 .. Len(results) - 1 : results'[i] = results[i + 1]
  BY <1>t, QueueOps
<1>2. Head(results).age \in {"none", "fresh", "stale"}
  BY <1>1 DEF Result
<1>3. PICK F \in SUBSET Tile : bytes \in [F -> {"none", "fresh", "stale"}]
  BY <1>t DEF PoolTypeOK
<1>4. bytes' \in [F -> {"none", "fresh", "stale"}] /\ DOMAIN bytes' = DOMAIN bytes
  BY <1>2, <1>3 DEF CollectOne
<1>5. PoolTypeOK'
  <2>1. expect' \in 0 .. MaxHeld
    BY <1>t, PoolAssumption DEF PoolTypeOK, CollectOne
  <2> QED BY <2>1, <1>1, <1>4, <1>t, CapType DEF PoolTypeOK, CollectOne
<1>6. NothingLostInPool'
  <2>1. InPool' = InPool - 1 /\ expect' = expect - 1 /\ todo' = todo /\ skew' = skew
    BY <1>1, <1>t, Numbers DEF InPool, InWork, CollectOne
  <2> QED BY <2>1, <1>t, Numbers DEF NothingLostInPool, PoolIInv
<1>7. AllFresh'
  BY <1>1, <1>3, <1>4 DEF AllFresh, PoolIInv, CollectOne
<1> QED
  BY <1>5, <1>6, <1>7 DEF PoolIInv, PhaseMatches, SkewBounded, CollectOne

\* The overdue results of a timed-out batch are left over, and counted so.
LEMMA CollectTimeoutKeeps ==
  ASSUME PoolIInv, CollectTimeout
  PROVE  PoolIInv'
<1>t. PoolTypeOK /\ todo = {} /\ Len(results) = 0 /\ Cardinality(todo) = 0
  BY FS_EmptySet DEF PoolIInv, PhaseMatches, CollectTimeout
<1>1. skew' = InPool /\ InPool' = InPool /\ InPool = Len(tasks) + Cardinality(InWork)
  BY <1>t, Numbers DEF PoolIInv, NothingLostInPool, InPool, InWork, CollectTimeout
<1>2. skew' \in Nat /\ skew' > 0 /\ skew' <= ChannelCap + Cardinality(Worker)
  BY <1>1, <1>t, Numbers, CapType DEF PoolTypeOK, CollectTimeout
<1>3. NothingLostInPool'
  BY <1>1, <1>2, <1>t DEF NothingLostInPool, CollectTimeout
<1>4. PoolTypeOK'
  BY <1>2, <1>t, PoolAssumption DEF PoolTypeOK, CollectTimeout
<1> QED
  BY <1>2, <1>3, <1>4 DEF PoolIInv, PhaseMatches, SkewBounded, AllFresh, CollectTimeout

\* A batch ends with nothing under way, or with what is counted as left over.
LEMMA FinishKeeps ==
  ASSUME PoolIInv, NEW failing \in SUBSET DOMAIN bytes, FinishFrame(failing)
  PROVE  PoolIInv'
<1>t. PoolTypeOK
  BY DEF PoolIInv
<1>1. PICK F \in SUBSET Tile : bytes \in [F -> {"none", "fresh", "stale"}]
  BY <1>t DEF PoolTypeOK
<1>2. bytes' \in [F -> {"none", "fresh", "stale"}] /\ DOMAIN bytes' = DOMAIN bytes
  BY <1>1 DEF FinishFrame
<1>3. PoolTypeOK'
  BY <1>2, <1>t DEF PoolTypeOK, FinishFrame
<1>4. AllFresh'
  BY <1>1, <1>2 DEF PoolIInv, AllFresh, FinishFrame
<1> QED
  BY <1>3, <1>4 DEF PoolIInv, PhaseMatches, NothingLostInPool, InPool, InWork, SkewBounded, FinishFrame

-----------------------------------------------------------------------------
\* A worker takes the oldest task.
LEMMA TakeKeeps ==
  ASSUME PoolIInv, NEW w \in Worker, Take(w)
  PROVE  PoolIInv'
<1> DEFINE x == [state |-> "encoding", item |-> Head(tasks)]
<1>t. PoolTypeOK /\ tasks \in Seq(Item) /\ tasks # <<>> /\ tasks' = Tail(tasks)
  BY DEF PoolIInv, PoolTypeOK, Take
<1>1. /\ Head(tasks) \in Item /\ Head(tasks) = tasks[1]
      /\ tasks' \in Seq(Item) /\ Len(tasks') = Len(tasks) - 1 /\ Len(tasks) \in Nat
      /\ Len(tasks) > 0
      /\ \A i \in 1 .. Len(tasks) - 1 : tasks'[i] = tasks[i + 1]
  BY <1>t, QueueOps
<1>2. x \in Busy /\ x # Idle
  BY <1>1 DEF Busy, Idle
<1>3. Cardinality(InWork)' = Cardinality(InWork) + 1
  BY <1>2, <1>t, Moved DEF Take
<1>4. PoolTypeOK'
  BY <1>1, <1>2, <1>t, CapType DEF PoolTypeOK, Take
<1>5. NothingLostInPool'
  <2>1. InPool' = InPool
    BY <1>1, <1>3, <1>t, Numbers DEF InPool, Take
  <2> QED BY <2>1 DEF NothingLostInPool, PoolIInv, Take
<1>6. AllFresh'
  BY <1>1, <1>t DEF AllFresh, PoolIInv, PoolTypeOK, Take
<1> QED
  BY <1>4, <1>5, <1>6 DEF PoolIInv, PhaseMatches, SkewBounded, Take

\* The tile it holds becomes a result.
LEMMA EncodeKeeps ==
  ASSUME PoolIInv, NEW w \in Worker, Encode(w)
  PROVE  PoolIInv'
<1>t. PoolTypeOK /\ work[w] # Idle /\ work[w].item \in Item
  BY WorkTypes DEF PoolIInv, Encode
<1>1. PICK age \in {work[w].item.age, "none"} :
        work' = [work EXCEPT ![w] = [state |-> "sending",
                                     item |-> [tile |-> work[w].item.tile, age |-> age]]]
  BY DEF Encode
<1> DEFINE x == [state |-> "sending", item |-> [tile |-> work[w].item.tile, age |-> age]]
<1>2. x \in Full /\ x # Idle
  BY <1>t DEF Full, Idle, Item, Result
<1>3. InWork' = InWork
  BY <1>1, <1>2, <1>t, Moved
<1>4. PoolTypeOK'
  BY <1>1, <1>2, <1>t DEF PoolTypeOK, Encode
<1>5. NothingLostInPool'
  BY <1>3 DEF NothingLostInPool, InPool, PoolIInv, Encode
<1>6. AllFresh'
  BY <1>1, <1>t DEF AllFresh, PoolIInv, PoolTypeOK, Encode
<1> QED
  BY <1>4, <1>5, <1>6 DEF PoolIInv, PhaseMatches, SkewBounded, Encode

\* A result moves to the results' channel.
LEMMA DeliverKeeps ==
  ASSUME PoolIInv, NEW w \in Worker, Deliver(w)
  PROVE  PoolIInv'
<1>t. PoolTypeOK /\ work[w] # Idle /\ work[w].item \in Result /\ results \in Seq(Result)
  BY WorkTypes DEF PoolIInv, PoolTypeOK, Deliver
<1>1. /\ results' \in Seq(Result) /\ Len(results') = Len(results) + 1
      /\ \A i \in 1 .. Len(results) : results'[i] = results[i]
      /\ results'[Len(results) + 1] = work[w].item
  BY <1>t, AppendOps DEF Deliver
<1>2. Cardinality(InWork)' = Cardinality(InWork) - 1
  BY <1>t, Moved DEF Deliver
<1>3. PoolTypeOK'
  BY <1>1, <1>t, CapType, Numbers DEF PoolTypeOK, Deliver
<1>4. NothingLostInPool'
  <2>1. InPool' = InPool
    <3>1. Len(tasks) \in Nat /\ Len(results) \in Nat /\ Cardinality(InWork) \in Nat
      BY <1>t, Numbers
    <3>2. Len(tasks') = Len(tasks)
      BY DEF Deliver
    <3> QED BY <3>1, <3>2, <1>1, <1>2 DEF InPool
  <2> QED BY <2>1 DEF NothingLostInPool, PoolIInv, Deliver
<1>5. AllFresh'
  BY <1>1, <1>t, Numbers DEF AllFresh, PoolIInv, PoolTypeOK, Deliver
<1> QED
  BY <1>3, <1>4, <1>5 DEF PoolIInv, PhaseMatches, SkewBounded, Deliver

-----------------------------------------------------------------------------
\* The pool starts empty.
LEMMA PoolInitIInv ==
  PoolInit => PoolIInv
<1> SUFFICES ASSUME PoolInit PROVE PoolIInv
  OBVIOUS
<1>1. bytes \in [{} -> {"none", "fresh", "stale"}] /\ {} \in SUBSET Tile
  BY DEF PoolInit
<1>2. PoolTypeOK
  BY <1>1, PoolAssumption, CapType DEF PoolInit, PoolTypeOK
<1>3. InPool = 0 /\ Cardinality(todo) = 0
  <2>1. InWork = {}
    BY DEF PoolInit, InWork
  <2> QED BY <2>1, FS_EmptySet DEF PoolInit, InPool
<1> QED
  BY <1>2, <1>3, CapType DEF PoolInit, PoolIInv, PhaseMatches, NothingLostInPool, SkewBounded, AllFresh

\* The processing thread, the workers and the channels keep the invariant.
THEOREM PoolInductive == PoolSpec => []PoolIInv
<1>1. PoolIInv /\ [PoolNext]_poolVars => PoolIInv'
  <2> SUFFICES ASSUME PoolIInv, [PoolNext]_poolVars PROVE PoolIInv'
    OBVIOUS
  <2>1. CASE UNCHANGED poolVars
    BY <2>1 DEF poolVars, PoolIInv, PoolTypeOK, PhaseMatches, NothingLostInPool, InPool, InWork, SkewBounded,
                AllFresh
  <2>2. CASE NextFrame
    BY <2>2, StartKeeps DEF NextFrame
  <2>3. CASE Processing
    BY <2>3, SubmitKeeps, AllSubmittedKeeps, CollectOneKeeps, CollectTimeoutKeeps, FinishKeeps
       DEF Processing
  <2>4. ASSUME NEW w \in Worker, Working(w) PROVE PoolIInv'
    BY <2>4, TakeKeeps, EncodeKeeps, DeliverKeeps DEF Working
  <2> QED BY <2>1, <2>2, <2>3, <2>4 DEF PoolNext
<1> QED
  BY PoolInitIInv, <1>1, PTL DEF PoolSpec

\* The types of the variables and the bounds of the two channels.
THEOREM PoolTypeCorrect == PoolSpec => []PoolTypeOK
<1>1. PoolIInv => PoolTypeOK
  BY DEF PoolIInv
<1> QED BY PoolInductive, <1>1, PTL

\* Every submitted tile is in the pool until its result is collected or given
\* up on, for every number of workers, tiles and frames.
THEOREM PoolConserves == PoolSpec => []NothingLostInPool
<1>1. PoolIInv => NothingLostInPool
  BY DEF PoolIInv
<1> QED BY PoolInductive, <1>1, PTL

\* What timeouts leave behind never fills the pool.
THEOREM LeftoverStaysBounded == PoolSpec => []LeftoverBounded
<1>1. PoolIInv => LeftoverBounded
  <2> SUFFICES ASSUME PoolIInv, pc = "idle" PROVE InPool <= ChannelCap + Cardinality(Worker)
    BY DEF LeftoverBounded
  <2>1. InPool = skew
    BY FS_EmptySet, Numbers DEF PoolIInv, NothingLostInPool, PhaseMatches
  <2> QED BY <2>1 DEF PoolIInv, SkewBounded
<1> QED BY PoolInductive, <1>1, PTL

\* Until a collect times out, every frame leaves with its own bytes.
THEOREM UnskewedStaysFresh == PoolSpec => []UnskewedIsFresh
<1>1. PoolIInv => UnskewedIsFresh
  BY DEF PoolIInv, AllFresh, UnskewedIsFresh
<1> QED BY PoolInductive, <1>1, PTL

-----------------------------------------------------------------------------
(* The pipeline. *)

\* The cells of the current screen.
Cells == CellsOf(Grid(screen))

\* Before the first frame there is nothing; from then on everything is a function
\* on the cells of the current screen.
PipeTypeOK ==
  \/ /\ screen = NoSize
     /\ det = Empty /\ cache = Empty /\ frame = Empty /\ shown = Empty
     /\ batch = {} /\ count = 0
  \/ /\ screen \in Sizes
     /\ det \in [Cells -> CellState]
     /\ frame \in [Cells -> Pixels]
     /\ DOMAIN cache = Cells
     /\ DOMAIN shown = Cells
     /\ \A e \in batch : e.cells \subseteq Cells
     /\ count \in 0 .. MaxInterval

\* Every cell of the detector is as a frame left it.
DetConsistent == \A c \in DOMAIN det : Consistent(det[c])

\* A cell with cached bytes has been sent since it was last armed.
CachedIsSent == \A c \in DOMAIN det : cache[c] # None => det[c].sent

\* The inductive invariant.
PipeIInv == PipeTypeOK /\ DetConsistent /\ CachedIsSent /\ BytesAreCurrent /\ BlurIsRearmed

-----------------------------------------------------------------------------
\* The sizes the pipeline meets have grids.
LEMMA GridFits == ASSUME NEW s \in Sizes PROVE Fits(Grid(s))
BY SizesAssumption, NewGridFits DEF Grid

\* What the detector reports of a cell as dynamic, and how it leaves it.
LEMMA DetectedDynamic ==
  ASSUME NEW m \in CellState, NEW first \in BOOLEAN, NEW n \in 0 .. MaxInterval,
         NEW p \in Pixels, NEW outside \in BOOLEAN, Ready(m, first)
  PROVE  LET d == Detected(m, first, n, p, outside) IN
         IF Sends(m, first, n, p, outside) THEN d.sent /\ d.prev = p /\ (m.sent => d.dyn)
                                         ELSE d.sent = m.sent /\ d.dyn = m.dyn
<1> DEFINE d == Detected(m, first, n, p, outside)
<1>1. CASE Sends(m, first, n, p, outside)
  <2>1. FullHash(m, p) = p /\ m.prev # p
    BY <1>1, ChangedIsHashed DEF Sends
  <2>2. d = AfterSend(m, first, p)
    BY <1>1 DEF Detected, Sends, Holds
  <2>3. d.sent /\ d.prev = p
    BY <2>1, <2>2 DEF AfterSend
  <2>5. d.dyn = IsDynamic(m, first, p)
    BY <2>2 DEF AfterSend
  <2>4. m.sent => IsDynamic(m, first, p)
    BY <2>1 DEF IsDynamic, Ready, Consistent, Blank
  <2> QED BY <1>1, <2>3, <2>4, <2>5
<1>2. CASE ~Sends(m, first, n, p, outside)
  <2>1. \/ d = AfterHold(m, n, p) \/ d = AfterSame(m, n)
    BY <1>2 DEF Detected
  <2>2. /\ AfterHold(m, n, p).sent = m.sent /\ AfterSame(m, n).sent = m.sent
        /\ AfterHold(m, n, p).dyn = m.dyn /\ AfterSame(m, n).dyn = m.dyn
    BY DEF AfterHold, AfterSame, CellState
  <2> QED BY <1>2, <2>1, <2>2
<1> QED BY <1>1, <1>2

\* One frame, from detection over the cache to what is sent: the cells it leaves
\* are consistent, and their cached bytes are of the frame.
LEMMA SentStep ==
  ASSUME NEW s \in Sizes, NEW old \in [CellsOf(Grid(s)) -> CellState], NEW kept,
         DOMAIN kept = CellsOf(Grid(s)),
         NEW first \in BOOLEAN, NEW n \in 0 .. MaxInterval,
         NEW pix \in [CellsOf(Grid(s)) -> Pixels],
         \A c \in CellsOf(Grid(s)) : Ready(old[c], first),
         \A c \in CellsOf(Grid(s)) : kept[c] # None => old[c].sent,
         ~first => DOMAIN shown = CellsOf(Grid(s)),
         ~first => \A c \in CellsOf(Grid(s)) : shown[c].q = "dynamic" /\ shown[c].own => old[c].dyn,
         Sent(Grid(s), old, kept, first, n, pix)
  PROVE  LET G == CellsOf(Grid(s)) IN
         /\ det' \in [G -> CellState]
         /\ DOMAIN cache' = G /\ DOMAIN shown' = G
         /\ \A c \in G : /\ Consistent(det'[c])
                         /\ cache'[c] # None => det'[c].sent
                         /\ shown'[c].q = "dynamic" /\ shown'[c].own => det'[c].dyn
         /\ \A e \in batch' : /\ e.cells \subseteq G
                              /\ \A c \in e.cells : shown'[c].pix = pix[c]
<1> DEFINE g == Grid(s)
           G == CellsOf(g)
           sending == {c \in G : Sends(old[c], first, n, pix[c], FALSE)}
           of(c)   == CHOOSE e \in batch' : c \in e.image
           drawn   == UNION {e.image : e \in batch'}
           hash    == [c \in G |-> det'[c].prev]
           dynamic == {c \in sending : det'[c].dyn}
           E(t) == Encoded(g, kept, hash, sending, dynamic, t)
<1>1. /\ det' = [c \in G |-> Detected(old[c], first, n, pix[c], FALSE)]
      /\ batch' = {E(t) : t \in Merge(sending, g)}
      /\ shown' = [c \in G |-> IF c \in drawn
                               THEN [pix |-> IF of(c).cached THEN kept[c].pix ELSE pix[c],
                                     q |-> of(c).q, own |-> of(c).cached \/ (c \in sending /\ det'[c].dyn)]
                               ELSE shown[c]]
      /\ cache' = [c \in G |-> IF c \in drawn /\ of(c).cells = {c}
                               THEN [pix |-> shown'[c].pix, q |-> of(c).q]
                               ELSE kept[c]]
  BY DEF Sent
<1>2. Fits(g)
  BY GridFits
<1>3. sending \in SUBSET G
  OBVIOUS
<1>4. \A c \in G : /\ det'[c] = Detected(old[c], first, n, pix[c], FALSE)
                   /\ det'[c] \in CellState /\ Consistent(det'[c])
                   /\ c \in sending => det'[c].sent /\ det'[c].prev = pix[c]
                   /\ c \in sending /\ old[c].sent => det'[c].dyn
                   /\ c \notin sending => det'[c].sent = old[c].sent /\ det'[c].dyn = old[c].dyn
  <2> TAKE c \in G
  <2>1. /\ old[c] \in CellState /\ pix[c] \in Pixels /\ Ready(old[c], first)
        /\ det'[c] = Detected(old[c], first, n, pix[c], FALSE)
        /\ c \in sending <=> Sends(old[c], first, n, pix[c], FALSE)
    BY <1>1
  <2> HIDE DEF sending
  <2>2. det'[c] \in CellState
    BY <2>1, DetectedType
  <2>3. Consistent(det'[c])
    BY <2>1, DetectedConsistent
  <2>4. IF Sends(old[c], first, n, pix[c], FALSE)
        THEN det'[c].sent /\ det'[c].prev = pix[c] /\ (old[c].sent => det'[c].dyn)
        ELSE det'[c].sent = old[c].sent /\ det'[c].dyn = old[c].dyn
    <3> DEFINE m == old[c]
               p == pix[c]
    <3>1. m \in CellState /\ p \in Pixels /\ Ready(m, first)
      BY <2>1
    <3> HIDE DEF m, p
    <3>2. \A o \in BOOLEAN :
            LET d == Detected(m, first, n, p, o) IN
            IF Sends(m, first, n, p, o) THEN d.sent /\ d.prev = p /\ (m.sent => d.dyn)
                                        ELSE d.sent = m.sent /\ d.dyn = m.dyn
      BY <3>1, DetectedDynamic
    <3>3. LET d == Detected(m, first, n, p, FALSE) IN
          IF Sends(m, first, n, p, FALSE) THEN d.sent /\ d.prev = p /\ (m.sent => d.dyn)
                                          ELSE d.sent = m.sent /\ d.dyn = m.dyn
      BY <3>2, Zenon
    <3> QED BY <2>1, <3>3, Zenon DEF m, p
  <2> QED BY <2>1, <2>2, <2>3, <2>4
<1>5. first => sending = G
  BY FirstIsSent
<1> HIDE DEF sending, g
<1>6. \A t \in Merge(sending, g) :
        /\ E(t).cells = Covered(g, t)
        /\ E(t).image \subseteq Covered(g, t)
        /\ Covered(g, t) \subseteq G
        /\ E(t).cached => LET r == Representative(g, t) IN
                          /\ E(t).image = {r} /\ E(t).cells = {r}
                          /\ r \in sending /\ kept[r] # None /\ kept[r].pix = hash[r]
                          /\ E(t).q = kept[r].q
        /\ ~E(t).cached => /\ E(t).image = Covered(g, t)
                           /\ E(t).q = "dynamic" => Covered(g, t) \cap dynamic # {}
        /\ E(t).image = Covered(g, t)
        /\ E(t).cached \in BOOLEAN
  <2> TAKE t \in Merge(sending, g)
  <2>0. Covered(g, t) \subseteq G
    BY <1>2, <1>3, TileIsSmall
  <2>1. CASE Hit(g, kept, hash, t)
    <3> DEFINE r == Representative(g, t)
    <3>1. E(t) = [cells |-> Covered(g, t), image |-> {r}, cached |-> TRUE, q |-> kept[r].q]
      BY <2>1 DEF Encoded
    <3>2. IsSingleCell(g, t) /\ kept[r] # None /\ kept[r].pix = hash[r]
      BY <2>1 DEF Hit
    <3>3. r \in sending /\ Covered(g, t) = {r}
      BY <1>2, <1>3, <3>2, SingleIsChanged, MaxMergeAssumption
    <3> HIDE DEF r, E, hash
    <3>4. /\ E(t).cells = Covered(g, t) /\ E(t).image = {r} /\ E(t).cached /\ E(t).q = kept[r].q
          /\ E(t).cached \in BOOLEAN
      BY <3>1
    <3> QED BY <2>0, <3>2, <3>3, <3>4 DEF r
  <2>2. CASE ~Hit(g, kept, hash, t)
    <3>1. E(t) = [cells |-> Covered(g, t), image |-> Covered(g, t), cached |-> FALSE,
                  q |-> TileQuality(Covered(g, t), sending, dynamic)]
      BY <2>2 DEF Encoded
    <3>2. TileQuality(Covered(g, t), sending, dynamic) = "dynamic" => Covered(g, t) \cap dynamic # {}
      BY DEF TileQuality
    <3> HIDE DEF E, dynamic
    <3>3. /\ E(t).cells = Covered(g, t) /\ E(t).image = Covered(g, t) /\ ~E(t).cached
          /\ E(t).q = TileQuality(Covered(g, t), sending, dynamic)
          /\ E(t).cached \in BOOLEAN
      BY <3>1
    <3> QED BY <2>0, <3>2, <3>3
  <2> QED BY <2>1, <2>2
<1> HIDE DEF E
\* The image of a cell is the one tile that covers it.
<1>7. \A c \in drawn : \E t \in Merge(sending, g) : of(c) = E(t) /\ c \in Covered(g, t)
  <2> TAKE c \in drawn
  <2>1. \E e \in batch' : c \in e.image
    OBVIOUS
  <2>2. of(c) \in batch' /\ c \in of(c).image
    BY <2>1
  <2> HIDE DEF of
  <2>3. PICK t \in Merge(sending, g) : of(c) = E(t)
    BY <1>1, <2>2
  <2> QED BY <1>6, <2>2, <2>3
<1>8. \A t \in Merge(sending, g) : \A c \in Covered(g, t) : c \in drawn /\ of(c) = E(t)
  <2> TAKE t \in Merge(sending, g)
  <2> TAKE c \in Covered(g, t)
  <2>1. E(t) \in batch' /\ c \in E(t).image
    BY <1>1, <1>6
  <2>2. c \in drawn
    BY <2>1
  <2>3. PICK u \in Merge(sending, g) : of(c) = E(u) /\ c \in Covered(g, u)
    BY <1>7, <2>2
  <2>4. t = u
    BY <1>2, <1>3, <2>3, TilesAreDisjoint
  <2> QED BY <2>2, <2>3, <2>4
<1>9. sending \subseteq drawn
  <2>1. \A c \in sending : \E t \in Merge(sending, g) : c \in Covered(g, t)
    BY <1>2, <1>3, ChangedIsCovered
  <2> QED BY <1>8, <2>1
<1> HIDE DEF of, drawn
<1>10. det' \in [G -> CellState] /\ DOMAIN cache' = G /\ DOMAIN shown' = G
  BY <1>1, <1>4
<1>11. ASSUME NEW t \in Merge(sending, g), NEW c \in Covered(g, t)
       PROVE  /\ shown'[c].pix = pix[c] /\ c \in G
              /\ shown'[c].q = E(t).q
              /\ shown'[c].q = "dynamic" /\ shown'[c].own => det'[c].dyn
  <2>1. /\ c \in G /\ c \in drawn /\ of(c) = E(t)
    BY <1>6, <1>8
  <2>2. shown'[c] = [pix |-> IF E(t).cached THEN kept[c].pix ELSE pix[c],
                     q |-> E(t).q, own |-> E(t).cached \/ (c \in sending /\ det'[c].dyn)]
    BY <1>1, <2>1
  <2>3. /\ shown'[c].pix = IF E(t).cached THEN kept[c].pix ELSE pix[c]
        /\ shown'[c].q = E(t).q /\ shown'[c].own = (E(t).cached \/ (c \in sending /\ det'[c].dyn))
    BY <2>2
  <2>4. ASSUME E(t).cached
        PROVE  kept[c].pix = pix[c] /\ det'[c].dyn
    <3>1. c = Representative(g, t) /\ c \in sending /\ kept[c] # None /\ kept[c].pix = hash[c]
      BY <1>6, <2>4
    <3>2. old[c].sent
      BY <2>1, <3>1 DEF g
    <3>3. hash[c] = pix[c] /\ det'[c].dyn
      BY <1>4, <2>1, <3>1, <3>2
    <3> QED BY <3>1, <3>3
  <2> QED BY <2>1, <2>3, <2>4
<1>12. ASSUME NEW c \in G
       PROVE  shown'[c].q = "dynamic" /\ shown'[c].own => det'[c].dyn
  <2>1. CASE c \in drawn
    BY <1>7, <1>11, <2>1
  <2>2. CASE c \notin drawn
    <3>1. shown'[c] = shown[c] /\ c \notin sending
      BY <1>1, <1>9, <2>2
    <3>2. ~first /\ det'[c].dyn = old[c].dyn
      BY <1>4, <1>5, <3>1
    <3> QED BY <3>1, <3>2 DEF g
  <2> QED BY <2>1, <2>2
<1>13. ASSUME NEW c \in G, cache'[c] # None
       PROVE  det'[c].sent
  <2>1. CASE c \in drawn /\ of(c).cells = {c}
    <3>1. PICK t \in Merge(sending, g) : of(c) = E(t) /\ c \in Covered(g, t)
      BY <1>7, <2>1
    <3>2. Covered(g, t) = {c}
      BY <1>6, <2>1, <3>1
    <3>3. c \in sending
      <4>1. Cardinality({c}) = 1
        BY FS_Singleton
      <4>2. IsSingleCell(g, t)
        BY <3>2, <4>1 DEF IsSingleCell
      <4> QED BY <1>2, <1>3, <3>2, <4>2, SingleIsChanged, MaxMergeAssumption
    <3> QED BY <1>4, <3>3
  <2>2. CASE ~(c \in drawn /\ of(c).cells = {c})
    <3>1. cache'[c] = kept[c]
      BY <1>1, <2>2
    <3>2. old[c].sent
      BY <1>13, <3>1 DEF g
    <3> QED BY <1>4, <3>2
  <2> QED BY <2>1, <2>2
<1>14. ASSUME NEW e \in batch'
       PROVE  e.cells \subseteq G /\ \A c \in e.cells : shown'[c].pix = pix[c]
  <2>1. PICK t \in Merge(sending, g) : e = E(t)
    BY <1>1
  <2>2. e.cells = Covered(g, t) /\ Covered(g, t) \subseteq G
    BY <1>6, <2>1
  <2> QED BY <1>11, <2>2
<1> QED BY <1>4, <1>10, <1>12, <1>13, <1>14 DEF g

-----------------------------------------------------------------------------
\* A frame has pixels for every cell of its screen.
LEMMA NewFramePixels ==
  ASSUME NEW s \in Sizes, NEW pix \in Screens[s]
  PROVE  pix \in [CellsOf(Grid(s)) -> Pixels]
<1> DEFINE G == CellsOf(Grid(s))
<1>1. PICK p \in [G \cap Moving -> Pixels] : pix = [c \in G |-> IF c \in Moving THEN p[c] ELSE Backdrop]
  BY DEF Screens
<1>2. Backdrop \in Pixels
  BY SizesAssumption
<1> HIDE DEF G
<1>3. pix \in [G -> Pixels]
  BY <1>1, <1>2
<1> QED BY <1>3 DEF G

\* The state a frame leaves behind.
LEMMA FrameKeepsIInv ==
  ASSUME NEW s \in Sizes, NEW old \in [CellsOf(Grid(s)) -> CellState], NEW kept,
         DOMAIN kept = CellsOf(Grid(s)),
         NEW first \in BOOLEAN, NEW n \in 0 .. MaxInterval,
         NEW pix \in [CellsOf(Grid(s)) -> Pixels],
         \A c \in CellsOf(Grid(s)) : Ready(old[c], first),
         \A c \in CellsOf(Grid(s)) : kept[c] # None => old[c].sent,
         ~first => DOMAIN shown = CellsOf(Grid(s)),
         ~first => \A c \in CellsOf(Grid(s)) : shown[c].q = "dynamic" /\ shown[c].own => old[c].dyn,
         Sent(Grid(s), old, kept, first, n, pix),
         screen' = s, frame' = pix, count' = n
  PROVE  PipeIInv'
<1> DEFINE G == CellsOf(Grid(s))
<1>1. /\ det' \in [G -> CellState]
      /\ DOMAIN cache' = G /\ DOMAIN shown' = G
      /\ \A c \in G : /\ Consistent(det'[c])
                      /\ cache'[c] # None => det'[c].sent
                      /\ shown'[c].q = "dynamic" /\ shown'[c].own => det'[c].dyn
      /\ \A e \in batch' : /\ e.cells \subseteq G
                           /\ \A c \in e.cells : shown'[c].pix = pix[c]
  BY SentStep
<1>2. Cells' = G
  BY DEF Cells
<1> HIDE DEF G
<1>3. PipeTypeOK'
  <2>1. pix \in [G -> Pixels]
    BY DEF G
  <2> QED BY <1>1, <1>2, <2>1 DEF PipeTypeOK
<1>4. DetConsistent' /\ CachedIsSent' /\ BytesAreCurrent' /\ BlurIsRearmed'
  BY <1>1 DEF DetConsistent, CachedIsSent, BytesAreCurrent, BlurIsRearmed
<1> QED BY <1>3, <1>4 DEF PipeIInv

\* The invariant holds initially.
LEMMA PipeInitIInv == Init => PipeIInv
BY DEF Init, PipeIInv, PipeTypeOK, DetConsistent, CachedIsSent, BytesAreCurrent, BlurIsRearmed, Empty

\* What the invariant says once there is a screen.
LEMMA OnScreen ==
  ASSUME PipeIInv, screen # NoSize \/ det # Empty
  PROVE  /\ screen \in Sizes
         /\ det \in [Cells -> CellState] /\ frame \in [Cells -> Pixels]
         /\ DOMAIN cache = Cells /\ DOMAIN shown = Cells
         /\ \A e \in batch : e.cells \subseteq Cells
         /\ count \in 0 .. MaxInterval
         /\ \A c \in Cells : /\ Consistent(det[c])
                             /\ cache[c] # None => det[c].sent
                             /\ shown[c].q = "dynamic" /\ shown[c].own => det[c].dyn
         /\ \A e \in batch : \A c \in e.cells : shown[c].pix = frame[c]
<1>1. /\ screen \in Sizes
      /\ det \in [Cells -> CellState] /\ frame \in [Cells -> Pixels]
      /\ DOMAIN cache = Cells /\ DOMAIN shown = Cells
      /\ \A e \in batch : e.cells \subseteq Cells
      /\ count \in 0 .. MaxInterval
  BY DEF PipeIInv, PipeTypeOK
<1>2. DOMAIN det = Cells
  BY <1>1
<1> QED BY <1>1, <1>2 DEF PipeIInv, DetConsistent, CachedIsSent, BytesAreCurrent, BlurIsRearmed

\* A frame of another size starts anew.
LEMMA ResizedKeepsIInv ==
  ASSUME PipeIInv, NEW size \in Sizes, NEW pix \in Screens[size], ProcessResized(size, pix)
  PROVE  PipeIInv'
<1> DEFINE G == CellsOf(Grid(size))
           old == [c \in G |-> Blank]
           kept == [c \in G |-> None]
<1>1. /\ screen' = size /\ frame' = pix /\ count' = Saturate(1)
      /\ Sent(Grid(size), old, kept, TRUE, Saturate(1), pix)
  BY DEF ProcessResized
<1>2. old \in [G -> CellState] /\ DOMAIN kept = G
  BY BlankType
<1>3. /\ \A c \in G : Ready(old[c], TRUE)
      /\ \A c \in G : kept[c] # None => old[c].sent
  BY DEF Ready
<1>4. pix \in [G -> Pixels] /\ Saturate(1) \in 0 .. MaxInterval
  BY NewFramePixels, SaturateType
<1> HIDE DEF old, kept
<1> QED BY <1>1, <1>2, <1>3, <1>4, FrameKeepsIInv

\* A frame of the current size keeps the invariant.
LEMMA FrameStepKeepsIInv ==
  ASSUME PipeIInv, screen # NoSize, NEW pix \in Screens[screen], ProcessFrame(pix)
  PROVE  PipeIInv'
<1> DEFINE old  == IF due THEN RefreshedCells ELSE det
           kept == IF due THEN RefreshedCache ELSE cache
           n    == Saturate(count + 1)
<1>1. /\ screen' = screen /\ frame' = pix /\ count' = n
      /\ Sent(Grid(screen), old, kept, FALSE, n, pix)
  BY DEF ProcessFrame
<1>2. /\ screen \in Sizes
      /\ det \in [Cells -> CellState]
      /\ DOMAIN cache = Cells /\ DOMAIN shown = Cells
      /\ count \in 0 .. MaxInterval
      /\ \A c \in Cells : /\ Consistent(det[c])
                          /\ cache[c] # None => det[c].sent
                          /\ shown[c].q = "dynamic" /\ shown[c].own => det[c].dyn
  BY OnScreen
<1>3. pix \in [Cells -> Pixels] /\ n \in 0 .. MaxInterval
  BY <1>2, NewFramePixels, SaturateType, MaxIntervalNat DEF Cells
<1>4. /\ old \in [Cells -> CellState] /\ DOMAIN kept = Cells
      /\ \A c \in Cells : /\ Consistent(old[c])
                          /\ kept[c] # None => old[c].sent
                          /\ old[c].dyn = det[c].dyn
  <2>1. CASE due
    <3>1. old = [c \in Cells |-> IF det[c].dyn THEN ForceRedetect(det[c]) ELSE det[c]]
      BY <1>2, <2>1 DEF RefreshedCells
    <3>2. kept = [c \in Cells |-> None]
      BY <1>2, <2>1 DEF RefreshedCache
    <3>3. \A c \in Cells : /\ ForceRedetect(det[c]) \in CellState
                           /\ Consistent(ForceRedetect(det[c]))
                           /\ ForceRedetect(det[c]).dyn = det[c].dyn
      <4> TAKE c \in Cells
      <4>1. det[c] \in CellState
        BY <1>2
      <4>2. ForceRedetect(det[c]).dyn = det[c].dyn
        BY <4>1 DEF ForceRedetect, CellState
      <4> QED BY <4>1, <4>2, ForceRedetectType, ForceRedetectConsistent
    <3> HIDE DEF old, kept
    <3> QED BY <1>2, <3>1, <3>2, <3>3
  <2>2. CASE ~due
    <3>1. old = det /\ kept = cache
      BY <2>2
    <3> HIDE DEF old, kept
    <3> QED BY <1>2, <3>1
  <2> QED BY <2>1, <2>2
<1> HIDE DEF old, kept, n
<1>5. \A c \in Cells : Ready(old[c], FALSE)
  BY <1>4 DEF Ready
<1>6. \A c \in Cells : shown[c].q = "dynamic" /\ shown[c].own => old[c].dyn
  BY <1>2, <1>4
<1> QED BY <1>1, <1>2, <1>3, <1>4, <1>5, <1>6, FrameKeepsIInv DEF Cells

\* Arming cells for a forced re-send drops their cached bytes.
LEMMA InvalidateKeepsIInv ==
  ASSUME PipeIInv, NEW S \in SUBSET DOMAIN det, S # {}, Invalidate(S)
  PROVE  PipeIInv'
<1>1. det # Empty
  <2>1. DOMAIN Empty = {}
    BY DEF Empty
  <2> QED BY <2>1
<1>2. /\ screen \in Sizes
      /\ det \in [Cells -> CellState] /\ frame \in [Cells -> Pixels]
      /\ DOMAIN cache = Cells /\ DOMAIN shown = Cells
      /\ \A e \in batch : e.cells \subseteq Cells
      /\ count \in 0 .. MaxInterval
      /\ \A c \in Cells : /\ Consistent(det[c])
                          /\ cache[c] # None => det[c].sent
                          /\ shown[c].q = "dynamic" /\ shown[c].own => det[c].dyn
      /\ \A e \in batch : \A c \in e.cells : shown[c].pix = frame[c]
  BY <1>1, OnScreen
<1>3. /\ det' = [c \in Cells |-> IF c \in S THEN ForceRedetect(det[c]) ELSE det[c]]
      /\ cache' = [c \in Cells |-> IF c \in S THEN None ELSE cache[c]]
      /\ UNCHANGED <<screen, count, frame, batch, shown>>
  <2>1. DOMAIN det = Cells /\ DOMAIN cache = Cells
    BY <1>2
  <2> QED BY <2>1 DEF Invalidate
<1>4. Cells' = Cells
  BY <1>3 DEF Cells
<1>5. \A c \in Cells : /\ det'[c] \in CellState /\ Consistent(det'[c])
                       /\ cache'[c] # None => det'[c].sent
                       /\ det'[c].dyn = det[c].dyn
  <2> TAKE c \in Cells
  <2>1. det[c] \in CellState
    BY <1>2
  <2>2. /\ ForceRedetect(det[c]) \in CellState /\ Consistent(ForceRedetect(det[c]))
        /\ ForceRedetect(det[c]).dyn = det[c].dyn
    <3>1. ForceRedetect(det[c]).dyn = det[c].dyn
      BY <2>1 DEF ForceRedetect, CellState
    <3> QED BY <2>1, <3>1, ForceRedetectType, ForceRedetectConsistent
  <2> QED BY <1>2, <1>3, <2>1, <2>2
<1>6. PipeTypeOK'
  BY <1>2, <1>3, <1>4, <1>5 DEF PipeTypeOK
<1>7. DetConsistent' /\ CachedIsSent' /\ BytesAreCurrent' /\ BlurIsRearmed'
  <2>1. DOMAIN det' = Cells /\ DOMAIN shown' = Cells
    BY <1>2, <1>3
  <2> QED BY <1>2, <1>3, <1>5, <2>1 DEF DetConsistent, CachedIsSent, BytesAreCurrent, BlurIsRearmed
<1> QED BY <1>6, <1>7 DEF PipeIInv

\* Steps of the quality controller keep the invariant.
LEMMA Untouched ==
  ASSUME PipeIInv, UNCHANGED <<screen, det, count, cache, frame, batch, shown>>
  PROVE  PipeIInv'
BY DEF PipeIInv, PipeTypeOK, Cells, DetConsistent, CachedIsSent, BytesAreCurrent, BlurIsRearmed

\* Every step keeps the invariant.
LEMMA PipeInductive == PipeIInv /\ [Next]_vars => PipeIInv'
<1> SUFFICES ASSUME PipeIInv, [Next]_vars PROVE PipeIInv'
  OBVIOUS
<1>1. CASE \E size \in Sizes : \E pix \in Screens[size] : ProcessResized(size, pix)
  BY <1>1, ResizedKeepsIInv
<1>2. CASE screen # NoSize /\ \E pix \in Screens[screen] : ProcessFrame(pix)
  BY <1>2, FrameStepKeepsIInv
<1>3. CASE RefreshFallsDue
  BY <1>3, Untouched DEF RefreshFallsDue
<1>4. CASE \E S \in (SUBSET (Moving \cap DOMAIN det)) \ {{}} : Invalidate(S)
  <2>1. PICK S \in (SUBSET (Moving \cap DOMAIN det)) \ {{}} : Invalidate(S)
    BY <1>4
  <2>2. S \in SUBSET DOMAIN det /\ S # {}
    OBVIOUS
  <2> QED BY <2>1, <2>2, InvalidateKeepsIInv
<1>5. CASE Sample
  BY <1>5, Untouched DEF Sample, pipeVars
<1>6. CASE UNCHANGED vars
  BY <1>6, Untouched DEF vars, pipeVars
<1> QED BY <1>1, <1>2, <1>3, <1>4, <1>5, <1>6 DEF Next

\* In every reachable state of the pipeline the invariant holds.
THEOREM PipeInvariant == Spec => []PipeIInv
BY PipeInitIInv, PipeInductive, PTL DEF Spec

\* Variables keep their types, for every set of sizes and contents.
THEOREM PipeTypeCorrect == Spec => []PipeTypeOK
<1>1. PipeIInv => PipeTypeOK
  BY DEF PipeIInv
<1> QED BY <1>1, PipeInvariant, PTL

\* Every cell a batch acknowledges shows the frame it was made of, once the
\* batch arrived: the cache never passes off older bytes as current.
THEOREM BytesCorrect == Spec => []BytesAreCurrent
<1>1. PipeIInv => BytesAreCurrent
  BY DEF PipeIInv
<1> QED BY <1>1, PipeInvariant, PTL

\* A cell that shows blur of its own is re-armed by the next refresh, for every
\* set of sizes, contents, intervals and qualities.
THEOREM BlurCorrect == Spec => []BlurIsRearmed
<1>1. PipeIInv => BlurIsRearmed
  BY DEF PipeIInv
<1> QED BY <1>1, PipeInvariant, PTL

-----------------------------------------------------------------------------
(* Merged tiles cover what changed. *)

\* What is known of a grid and its changed cells at every stage.
WireTypeOK ==
  /\ stage \in {"framed", "changed", "merged", "packed", "shown"}
  /\ Fits(grid)
  /\ changed \in SUBSET CellsOf(grid)

\* The tiles are what merge_tiles makes of the changed cells.
Merged == stage = "merged" => tiles = Merge(changed, grid)

\* The inductive invariant up to merging.
MergedInv == WireTypeOK /\ Merged

\* From the lemmas on merging: the tiles are exact.
LEMMA MergeExact == MergedInv => MergeIsExact
<1> SUFFICES ASSUME MergedInv, stage = "merged" PROVE MergeIsExact
  BY DEF MergeIsExact
<1> DEFINE g == grid
<1>1. Fits(g) /\ changed \in SUBSET CellsOf(g) /\ tiles = Merge(changed, g)
  BY DEF MergedInv, WireTypeOK, Merged
<1>2. \A c \in changed : \E t \in tiles : c \in Covered(g, t)
  BY <1>1, ChangedIsCovered
<1>3. \A t, u \in tiles : t # u => Covered(g, t) \cap Covered(g, u) = {}
  <2> TAKE t, u \in tiles
  <2> SUFFICES ASSUME NEW c \in Covered(g, t) \cap Covered(g, u) PROVE t = u
    OBVIOUS
  <2> QED BY <1>1, TilesAreDisjoint
\* Where a tile shows a pixel.
<1>4. ASSUME NEW t \in tiles, NEW x \in 0 .. g.fw - 1, NEW y \in 0 .. g.fh - 1
      PROVE  /\ CellAt(g, x, y) \in CellsOf(g)
             /\ Shows(t, x, y) <=> CellAt(g, x, y) \in Covered(g, t)
             /\ Shows(t, x, y) <=> \E c \in Covered(g, t) : Shows(CellRect(c), x, y)
  <2>1. PICK q, gr, h, v :
             /\ Piece(changed, g, q, gr, h, v) /\ t = TileOf(g, h, v)
             /\ Covered(g, t) = (h[1] .. h[2]) \X (v[1] .. v[2])
    BY <1>1, TileIsBlock
  <2>2. Block(g, h[1], h[2], v[1], v[2])
    BY <1>1, <2>1, PieceIsBlock
  <2>3. t = Rect(g, h[1], h[2], v[1], v[2])
    BY <2>1 DEF TileOf
  <2>4. CellAt(g, x, y) \in CellsOf(g) /\ (Shows(t, x, y) <=> CellAt(g, x, y) \in Covered(g, t))
    BY <1>1, <2>1, <2>2, <2>3, BlockShows
  <2>5. ASSUME NEW c \in Covered(g, t)
        PROVE  Shows(CellRect(c), x, y) <=> CellAt(g, x, y) = c
    <3>1. c = <<c[1], c[2]>> /\ c[1] \in h[1] .. h[2] /\ c[2] \in v[1] .. v[2]
      BY <2>1
    <3>2. Block(g, c[1], c[1], c[2], c[2])
      <4>1. g.tilesX \in Nat /\ g.tilesY \in Nat
        BY <1>1 DEF Fits, GridRecord
      <4> QED BY <2>2, <3>1, <4>1 DEF Block
    <3>3. CellRect(c) = Rect(g, c[1], c[1], c[2], c[2])
      BY DEF CellRect
    <3>4. Shows(CellRect(c), x, y) <=> CellAt(g, x, y) \in (c[1] .. c[1]) \X (c[2] .. c[2])
      <4> DEFINE k == c[1]
                 l == c[2]
      <4>1. Block(g, k, k, l, l)
        BY <3>2
      <4> HIDE DEF k, l
      <4>2. Shows(Rect(g, k, k, l, l), x, y) <=> CellAt(g, x, y) \in (k .. k) \X (l .. l)
        BY <1>1, <4>1, BlockShows
      <4> QED BY <3>3, <4>2 DEF k, l
    <3>5. (c[1] .. c[1]) \X (c[2] .. c[2]) = {c}
      <4>1. c[1] \in Nat /\ c[2] \in Nat
        BY <3>2 DEF Block
      <4>2. c[1] .. c[1] = {c[1]} /\ c[2] .. c[2] = {c[2]}
        BY <4>1
      <4> QED BY <3>1, <4>2
    <3> QED BY <3>4, <3>5
  <2> QED BY <2>4, <2>5
<1>5. ASSUME NEW t \in tiles
      PROVE  LET C == Covered(grid, t)
             IN  /\ Cardinality(C) <= MaxMerge * MaxMerge
                 /\ Representative(grid, t) \in C
                 /\ \A x \in 0 .. grid.fw - 1, y \in 0 .. grid.fh - 1 :
                      Shows(t, x, y) <=> \E c \in C : Shows(CellRect(c), x, y)
                 /\ \A c \in C \ changed :
                      \E a, b \in {k \in 0 .. grid.tilesY - 1 : <<c[1], k>> \in changed} :
                        a < c[2] /\ c[2] < b /\ b - a - 1 <= MergeGap + 1
  <2>1. Cardinality(Covered(g, t)) <= MaxMerge * MaxMerge /\ Representative(g, t) \in Covered(g, t)
    BY <1>1, TileIsSmall
  <2>2. \A x \in 0 .. g.fw - 1, y \in 0 .. g.fh - 1 :
          Shows(t, x, y) <=> \E c \in Covered(g, t) : Shows(CellRect(c), x, y)
    BY <1>4
  <2>3. \A c \in Covered(g, t) \ changed :
          \E a, b \in {k \in 0 .. g.tilesY - 1 : <<c[1], k>> \in changed} :
            a < c[2] /\ c[2] < b /\ b - a - 1 <= MergeGap + 1
    BY <1>1, StillIsBridged
  <2> QED BY <2>1, <2>2, <2>3
<1>6. ASSUME changed = CellsOf(g), NEW x \in 0 .. g.fw - 1, NEW y \in 0 .. g.fh - 1
      PROVE  Cardinality({t \in tiles : Shows(t, x, y)}) = 1
  <2>1. PICK t \in tiles : CellAt(g, x, y) \in Covered(g, t)
    <3>1. \E t \in tiles : TRUE
      <4>1. CellsOf(g) # {}
        <5>1. g.tilesX \in Nat \ {0} /\ g.tilesY \in Nat \ {0}
          BY <1>1 DEF Fits, GridRecord
        <5>2. <<0, 0>> \in CellsOf(g)
          BY <5>1 DEF CellsOf
        <5> QED BY <5>2
      <4> QED BY <1>2, <1>6, <4>1
    <3> QED BY <1>2, <1>4, <1>6, <3>1
  <2>2. {u \in tiles : Shows(u, x, y)} = {t}
    <3>1. Shows(t, x, y)
      BY <1>4, <1>6, <2>1
    <3>2. ASSUME NEW u \in tiles, Shows(u, x, y) PROVE u = t
      <4>1. CellAt(g, x, y) \in Covered(g, u)
        BY <1>4, <1>6, <3>2
      <4> QED BY <1>3, <2>1, <4>1
    <3> QED BY <3>1, <3>2
  <2> QED BY <2>2, FS_Singleton
<1> QED BY <1>2, <1>3, <1>5, <1>6 DEF MergeIsExact

\* It holds initially.
LEMMA InitMergedInv == WireInit => MergedInv
<1> SUFFICES ASSUME WireInit PROVE MergedInv
  OBVIOUS
<1>1. PICK f \in Frames : grid = NewGrid(f[1], f[2], f[3])
  BY DEF WireInit
<1>2. Fits(grid)
  BY <1>1, NewGridFits, WireAssumption
<1> QED BY <1>2 DEF WireInit, MergedInv, WireTypeOK, Merged

\* Every step keeps it.
LEMMA NextMergedInv == MergedInv /\ [WireNext]_wireVars => MergedInv'
<1> SUFFICES ASSUME MergedInv, [WireNext]_wireVars PROVE MergedInv'
  OBVIOUS
<1> USE DEF MergedInv, WireTypeOK, Merged
<1>1. CASE Detect
  BY <1>1 DEF Detect
<1>2. CASE MergeTiles
  BY <1>2 DEF MergeTiles
<1>3. CASE Send
  BY <1>3 DEF Send
<1>4. CASE Receive
  BY <1>4 DEF Receive
<1>5. CASE UNCHANGED wireVars
  BY <1>5 DEF wireVars
<1> QED BY <1>1, <1>2, <1>3, <1>4, <1>5 DEF WireNext

\* What merge_tiles sends covers every changed pixel, overlaps nowhere and stays
\* within the screen, for every screen and every set of changed cells.
THEOREM MergeCorrect == WireSpec => []MergeIsExact
BY InitMergedInv, NextMergedInv, MergeExact, PTL DEF WireSpec

-----------------------------------------------------------------------------
(* Packets. *)

\* A function defined by recursion on 0 .. N exists.
IsIterate(f, N, base, F) ==
  f = [n \in 0 .. N |-> IF n = 0 THEN base ELSE F[<<n, f[n - 1]>>]]

\* By induction over 0 .. N.
LEMMA IterateExists ==
  ASSUME NEW V, NEW N \in Nat, NEW base \in V, NEW F \in [(1 .. N) \X V -> V]
  PROVE  \E f \in [0 .. N -> V] : IsIterate(f, N, base, F)
<1> DEFINE T == {n \in 0 .. N : \E f \in [0 .. n -> V] : IsIterate(f, n, base, F)}
<1>1. 0 \in T
  <2> DEFINE f == [k \in 0 .. 0 |-> base]
  <2>1. f \in [0 .. 0 -> V] /\ IsIterate(f, 0, base, F)
    BY DEF IsIterate
  <2> QED BY <2>1
<1>2. ASSUME NEW n \in 0 .. N, n \in T, n < N PROVE n + 1 \in T
  <2>1. PICK f \in [0 .. n -> V] : IsIterate(f, n, base, F)
    BY <1>2
  <2> DEFINE h == [k \in 0 .. n + 1 |-> IF k = n + 1 THEN F[<<n + 1, f[n]>>] ELSE f[k]]
  <2>2. \A k \in 0 .. n : f[k] = IF k = 0 THEN base ELSE F[<<k, f[k - 1]>>]
    BY <2>1 DEF IsIterate
  <2>3. h \in [0 .. n + 1 -> V]
    <3>1. F[<<n + 1, f[n]>>] \in V
      BY <1>2
    <3> QED BY <3>1
  <2>4. \A k \in 0 .. n + 1 : h[k] = IF k = 0 THEN base ELSE F[<<k, h[k - 1]>>]
    <3> TAKE k \in 0 .. n + 1
    <3>1. CASE k = n + 1
      <4>1. k # 0 /\ k - 1 = n /\ n \in 0 .. n + 1 /\ n # n + 1
        BY <3>1
      <4>2. h[k - 1] = f[n] /\ h[k] = F[<<n + 1, f[n]>>]
        BY <3>1, <4>1
      <4> QED BY <3>1, <4>1, <4>2
    <3>2. CASE k # n + 1
      <4>1. k \in 0 .. n /\ (k # 0 => k - 1 \in 0 .. n)
        BY <3>2
      <4>2. h[k] = f[k] /\ (k # 0 => h[k - 1] = f[k - 1])
        BY <4>1
      <4> QED BY <2>2, <4>1, <4>2
    <3> QED BY <3>1, <3>2
  <2>5. IsIterate(h, n + 1, base, F)
    BY <2>4 DEF IsIterate
  <2> QED BY <1>2, <2>3, <2>5
<1> HIDE DEF T
<1>3. T \in SUBSET (0 .. N)
  BY DEF T
<1>4. T = 0 .. N
  BY <1>1, <1>2, <1>3, Bounded
<1> QED BY <1>4 DEF T

\* Tiles whose images have a length.
Measured(T) == \A t \in T : t.len \in Nat

\* A tile with a payload has a length on the wire.
LEMMA TileLenNat == ASSUME NEW T, Measured(T), NEW t \in T PROVE TileLen(t) \in Nat
BY DEF Measured, TileLen

\* The length of a packet is defined: its recursion has a solution.
LEMMA BytesRecursion ==
  ASSUME NEW T, Measured(T), NEW p \in Seq(T)
  PROVE  /\ BytesUpTo(p) \in [0 .. Len(p) -> Nat]
         /\ BytesUpTo(p)[0] = 0
         /\ \A n \in 1 .. Len(p) : BytesUpTo(p)[n] = BytesUpTo(p)[n - 1] + 4 + TileLen(p[n])
<1> DEFINE N == Len(p)
           F == [k \in (1 .. N) \X Nat |-> k[2] + 4 + TileLen(p[k[1]])]
           Is(f) == f = [n \in 0 .. N |-> IF n = 0 THEN 0 ELSE f[n - 1] + 4 + TileLen(p[n])]
<1>1. N \in Nat /\ \A n \in 1 .. N : TileLen(p[n]) \in Nat
  <2>1. \A n \in 1 .. N : p[n] \in T
    OBVIOUS
  <2> QED BY <2>1, TileLenNat
<1> HIDE DEF N
<1>2. F \in [(1 .. N) \X Nat -> Nat]
  BY <1>1
<1>3. \A n \in 1 .. N, v \in Nat : F[<<n, v>>] = v + 4 + TileLen(p[n])
  OBVIOUS
<1> HIDE DEF F
<1>4. PICK f \in [0 .. N -> Nat] : IsIterate(f, N, 0, F)
  BY <1>1, <1>2, IterateExists
<1>5. f = [n \in 0 .. N |-> IF n = 0 THEN 0 ELSE f[n - 1] + 4 + TileLen(p[n])]
  <2>1. \A n \in 0 .. N : f[n] = IF n = 0 THEN 0 ELSE f[n - 1] + 4 + TileLen(p[n])
    <3> TAKE n \in 0 .. N
    <3>1. f[n] = IF n = 0 THEN 0 ELSE F[<<n, f[n - 1]>>]
      BY <1>4 DEF IsIterate
    <3>2. n # 0 => n \in 1 .. N /\ f[n - 1] \in Nat
      BY <1>1
    <3> QED BY <1>3, <3>1, <3>2
  <2> QED BY <2>1
<1>6. Is(f)
  BY <1>5
<1>7. BytesUpTo(p) = CHOOSE h : Is(h)
  BY DEF BytesUpTo, N
<1>8. Is(BytesUpTo(p))
  BY <1>6, <1>7
<1> DEFINE b == BytesUpTo(p)
<1>9. b = [n \in 0 .. N |-> IF n = 0 THEN 0 ELSE b[n - 1] + 4 + TileLen(p[n])]
  BY <1>8
<1> HIDE DEF b, Is
<1>10. \A n \in 0 .. N : b[n] = IF n = 0 THEN 0 ELSE b[n - 1] + 4 + TileLen(p[n])
  BY <1>9
<1>11. {n \in 0 .. N : b[n] \in Nat} = 0 .. N
  <2> DEFINE Q == {n \in 0 .. N : b[n] \in Nat}
  <2>1. 0 \in Q
    BY <1>1, <1>10
  <2>2. ASSUME NEW n \in 0 .. N, n \in Q, n < N PROVE n + 1 \in Q
    <3>1. n + 1 \in 0 .. N /\ n + 1 # 0 /\ (n + 1) - 1 = n /\ n + 1 \in 1 .. N
      BY <1>1, <2>2
    <3>2. b[n + 1] = b[n] + 4 + TileLen(p[n + 1])
      BY <1>10, <3>1
    <3> QED BY <1>1, <2>2, <3>1, <3>2, SMTT(20)
  <2>3. Q \in SUBSET (0 .. N)
    OBVIOUS
  <2> HIDE DEF Q
  <2>4. Q = 0 .. N
    BY <1>1, <2>1, <2>2, <2>3, Bounded
  <2> QED BY <2>4 DEF Q
<1>12. b \in [0 .. N -> Nat]
  BY <1>9, <1>11
<1> QED BY <1>1, <1>10, <1>12 DEF b, N

\* A packet grows by its last tile.
LEMMA BytesAppend ==
  ASSUME NEW T, Measured(T), NEW p \in Seq(T), NEW t \in T
  PROVE  /\ Bytes(p) \in Nat
         /\ Bytes(Append(p, t)) = Bytes(p) + 4 + TileLen(t)
         /\ Bytes(<<>>) = 0
<1> DEFINE N == Len(p)
           a == Append(p, t)
           b == BytesUpTo(p)
           c == BytesUpTo(a)
<1>1. N \in Nat /\ a \in Seq(T) /\ Len(a) = N + 1 /\ a[N + 1] = t /\ \A n \in 1 .. N : a[n] = p[n]
  OBVIOUS
<1>2. b \in [0 .. N -> Nat] /\ b[0] = 0 /\ \A n \in 1 .. N : b[n] = b[n - 1] + 4 + TileLen(p[n])
  BY BytesRecursion
<1>3. c[0] = 0 /\ \A n \in 1 .. N + 1 : c[n] = c[n - 1] + 4 + TileLen(a[n])
  BY <1>1, BytesRecursion
<1> HIDE DEF N, a, b, c
<1> DEFINE Q == {n \in 0 .. N : c[n] = b[n]}
<1>4. 0 \in Q
  BY <1>1, <1>2, <1>3
<1>5. ASSUME NEW n \in 0 .. N, n \in Q, n < N PROVE n + 1 \in Q
  <2>1. n + 1 \in 1 .. N /\ n + 1 \in 1 .. N + 1 /\ (n + 1) - 1 = n /\ n + 1 \in 0 .. N
    BY <1>1, <1>5
  <2>2. c[n + 1] = c[n] + 4 + TileLen(a[n + 1]) /\ b[n + 1] = b[n] + 4 + TileLen(p[n + 1])
    BY <1>2, <1>3, <2>1
  <2> QED BY <1>1, <1>5, <2>1, <2>2
<1>6. Q \in SUBSET (0 .. N)
  OBVIOUS
<1> HIDE DEF Q
<1>7. Q = 0 .. N
  BY <1>1, <1>4, <1>5, <1>6, Bounded
<1>8. c[N] = b[N] /\ b[N] \in Nat
  <2>1. N \in 0 .. N
    BY <1>1
  <2>2. N \in Q
    BY <1>7, <2>1
  <2> QED BY <1>2, <2>1, <2>2 DEF Q
<1>9. c[N + 1] = c[N] + 4 + TileLen(t)
  BY <1>1, <1>3
<1>10. Bytes(p) = b[N] /\ Bytes(a) = c[N + 1]
  BY <1>1 DEF Bytes, b, c, N
<1>11. Bytes(<<>>) = 0
  <2>1. <<>> \in Seq(T) /\ Len(<<>>) = 0
    OBVIOUS
  <2>2. BytesUpTo(<<>>)[0] = 0
    BY <2>1, BytesRecursion
  <2> QED BY <2>1, <2>2 DEF Bytes
<1> QED BY <1>8, <1>9, <1>10, <1>11 DEF a

-----------------------------------------------------------------------------
\* What the page has of a sequence of messages.
Got(ps) == ParsedUpTo(ps)[Len(ps)]

\* The page reads tiles out of a packet of tiles.
LEMMA ParseType == ASSUME NEW T, NEW p \in Seq(T) PROVE Parse(p) \in Seq(T)
BY DEF Parse

\* What the page reads of the first packets obeys its recursion.
LEMMA ParsedRecursion ==
  ASSUME NEW T, NEW ps \in Seq(Seq(T))
  PROVE  /\ ParsedUpTo(ps) \in [0 .. Len(ps) -> Seq(T)]
         /\ ParsedUpTo(ps)[0] = <<>>
         /\ \A n \in 1 .. Len(ps) : ParsedUpTo(ps)[n] = ParsedUpTo(ps)[n - 1] \o Parse(ps[n])
<1> DEFINE N == Len(ps)
           none == <<>>
           F == [k \in (1 .. N) \X Seq(T) |-> k[2] \o Parse(ps[k[1]])]
           Is(f) == f = [n \in 0 .. N |-> IF n = 0 THEN none ELSE f[n - 1] \o Parse(ps[n])]
<1>1. N \in Nat /\ \A n \in 1 .. N : Parse(ps[n]) \in Seq(T)
  <2>1. \A n \in 1 .. N : ps[n] \in Seq(T)
    BY ElementOfSeq
  <2> QED BY <2>1, ParseType
<1> HIDE DEF N, none
<1>2. F \in [(1 .. N) \X Seq(T) -> Seq(T)]
  <2>1. \A k \in (1 .. N) \X Seq(T) : k[2] \o Parse(ps[k[1]]) \in Seq(T)
    BY <1>1, ConcatProperties
  <2> QED BY <2>1
<1>3. \A n \in 1 .. N, v \in Seq(T) : F[<<n, v>>] = v \o Parse(ps[n])
  OBVIOUS
<1> HIDE DEF F
<1>4. PICK f \in [0 .. N -> Seq(T)] : IsIterate(f, N, none, F)
  <2>1. none \in Seq(T)
    BY DEF none
  <2> QED BY <1>1, <1>2, <2>1, IterateExists
<1>5. f = [n \in 0 .. N |-> IF n = 0 THEN none ELSE f[n - 1] \o Parse(ps[n])]
  <2>1. \A n \in 0 .. N : f[n] = IF n = 0 THEN none ELSE f[n - 1] \o Parse(ps[n])
    <3> TAKE n \in 0 .. N
    <3>1. f[n] = IF n = 0 THEN none ELSE F[<<n, f[n - 1]>>]
      BY <1>4 DEF IsIterate
    <3>2. n # 0 => n \in 1 .. N /\ f[n - 1] \in Seq(T)
      BY <1>1
    <3> QED BY <1>3, <3>1, <3>2
  <2> QED BY <2>1
<1>6. Is(f)
  BY <1>5
<1>7. ParsedUpTo(ps) = CHOOSE h : Is(h)
  BY DEF ParsedUpTo, N, none
<1>8. Is(ParsedUpTo(ps))
  BY <1>6, <1>7
<1> DEFINE b == ParsedUpTo(ps)
<1>9. b = [n \in 0 .. N |-> IF n = 0 THEN none ELSE b[n - 1] \o Parse(ps[n])]
  BY <1>8
<1> HIDE DEF b, Is
<1>10. \A n \in 0 .. N : b[n] = IF n = 0 THEN none ELSE b[n - 1] \o Parse(ps[n])
  BY <1>9
<1>11. {n \in 0 .. N : b[n] \in Seq(T)} = 0 .. N
  <2> DEFINE Q == {n \in 0 .. N : b[n] \in Seq(T)}
  <2>1. 0 \in Q
    <3>1. none \in Seq(T)
      BY DEF none
    <3> QED BY <1>1, <1>10, <3>1
  <2>2. ASSUME NEW n \in 0 .. N, n \in Q, n < N PROVE n + 1 \in Q
    <3>1. n + 1 \in 0 .. N /\ n + 1 # 0 /\ (n + 1) - 1 = n /\ n + 1 \in 1 .. N
      BY <1>1, <2>2
    <3>2. b[n + 1] = b[n] \o Parse(ps[n + 1])
      BY <1>10, <3>1
    <3>3. b[n] \in Seq(T) /\ Parse(ps[n + 1]) \in Seq(T)
      BY <1>1, <2>2, <3>1
    <3>4. b[n] \o Parse(ps[n + 1]) \in Seq(T)
      BY <3>3, ConcatProperties
    <3> QED BY <3>1, <3>2, <3>4
  <2>3. Q \in SUBSET (0 .. N)
    OBVIOUS
  <2> HIDE DEF Q
  <2>4. Q = 0 .. N
    BY <1>1, <2>1, <2>2, <2>3, Bounded
  <2> QED BY <2>4 DEF Q
<1>12. b \in [0 .. N -> Seq(T)]
  BY <1>9, <1>11
<1>13. b[0] = none /\ \A n \in 1 .. N : b[n] = b[n - 1] \o Parse(ps[n])
  <2>1. 0 \in 0 .. N /\ \A n \in 1 .. N : n \in 0 .. N /\ n # 0
    BY <1>1
  <2>2. b[0] = none
    BY <1>10, <2>1
  <2>3. ASSUME NEW n \in 1 .. N PROVE b[n] = b[n - 1] \o Parse(ps[n])
    BY <1>10, <2>1
  <2> QED BY <2>2, <2>3
<1> QED BY <1>12, <1>13 DEF b, N, none

\* One packet more adds the tiles the page reads in it.
LEMMA GotAppend ==
  ASSUME NEW T, NEW ps \in Seq(Seq(T)), NEW p \in Seq(T)
  PROVE  /\ Got(ps) \in Seq(T)
         /\ Got(Append(ps, p)) = Got(ps) \o Parse(p)
         /\ Got(<<>>) = <<>>
<1> DEFINE N == Len(ps)
           a == Append(ps, p)
           b == ParsedUpTo(ps)
           c == ParsedUpTo(a)
<1>1. N \in Nat /\ a \in Seq(Seq(T)) /\ Len(a) = N + 1 /\ a[N + 1] = p /\ \A n \in 1 .. N : a[n] = ps[n]
  OBVIOUS
<1>2. b \in [0 .. N -> Seq(T)] /\ b[0] = <<>> /\ \A n \in 1 .. N : b[n] = b[n - 1] \o Parse(ps[n])
  BY ParsedRecursion
<1>3. c[0] = <<>> /\ \A n \in 1 .. N + 1 : c[n] = c[n - 1] \o Parse(a[n])
  BY <1>1, ParsedRecursion
<1> HIDE DEF N, a, b, c
<1> DEFINE Q == {n \in 0 .. N : c[n] = b[n]}
<1>4. 0 \in Q
  BY <1>1, <1>2, <1>3
<1>5. ASSUME NEW n \in 0 .. N, n \in Q, n < N PROVE n + 1 \in Q
  <2>1. n + 1 \in 1 .. N /\ n + 1 \in 1 .. N + 1 /\ (n + 1) - 1 = n /\ n + 1 \in 0 .. N
    BY <1>1, <1>5
  <2>2. c[n + 1] = c[n] \o Parse(a[n + 1]) /\ b[n + 1] = b[n] \o Parse(ps[n + 1])
    BY <1>2, <1>3, <2>1
  <2> QED BY <1>1, <1>5, <2>1, <2>2
<1>6. Q \in SUBSET (0 .. N)
  OBVIOUS
<1> HIDE DEF Q
<1>7. Q = 0 .. N
  BY <1>1, <1>4, <1>5, <1>6, Bounded
<1>8. c[N] = b[N] /\ b[N] \in Seq(T)
  <2>1. N \in 0 .. N
    BY <1>1
  <2>2. N \in Q
    BY <1>7, <2>1
  <2> QED BY <1>2, <2>1, <2>2 DEF Q
<1>9. c[N + 1] = c[N] \o Parse(p)
  <2>1. N + 1 \in 1 .. N + 1 /\ (N + 1) - 1 = N
    BY <1>1
  <2>2. c[N + 1] = c[(N + 1) - 1] \o Parse(a[N + 1])
    BY <1>3, <2>1
  <2> QED BY <1>1, <2>1, <2>2
<1>10. Got(ps) = b[N] /\ Got(a) = c[N + 1]
  BY <1>1 DEF Got, b, c, N
<1>11. Got(<<>>) = <<>>
  <2>1. <<>> \in Seq(Seq(T)) /\ Len(<<>>) = 0
    OBVIOUS
  <2>2. ParsedUpTo(<<>>)[0] = <<>>
    BY <2>1, ParsedRecursion
  <2> QED BY <2>1, <2>2 DEF Got
<1> QED BY <1>8, <1>9, <1>10, <1>11 DEF a

-----------------------------------------------------------------------------
\* pack_tiles between two tiles, n of them packed: ...
Packing(T) == [done : Seq(Seq(T)), current : Seq(T)]

\* A packet of more than one tile is within the limit.
Sized(r) ==
  /\ \A i \in 1 .. Len(r.done) : /\ r.done[i] # <<>>
                                 /\ Len(r.done[i]) > 1 => Bytes(r.done[i]) <= MaxPacketSize
  /\ Bytes(r.current) <= MaxPacketSize

\* Each closed packet was closed because its next tile did not fit.
Filled(r) ==
  /\ \A i \in 1 .. Len(r.done) - 1 :
       Bytes(r.done[i]) + 4 + TileLen(r.done[i + 1][1]) > MaxPacketSize
  /\ r.done # <<>> =>
       LET last == r.done[Len(r.done)]
       IN  IF r.current = <<>> THEN Bytes(last) > MaxPacketSize
           ELSE Bytes(last) + 4 + TileLen(r.current[1]) > MaxPacketSize

\* Nothing is lost or repeated, as long as the page reads each packet whole.
Whole(r, b, n) ==
  (\A i \in 1 .. Len(r.done) : Parse(r.done[i]) = r.done[i])
    => Got(r.done) \o r.current = SubSeq(b, 1, n)

\* Closing the current packet.
LEMMA CloseKeeps ==
  ASSUME NEW T, Measured(T), NEW d \in Seq(Seq(T)), NEW c \in Seq(T), c # <<>>,
         Len(c) > 1 => Bytes(c) <= MaxPacketSize,
         \A i \in 1 .. Len(d) : d[i] # <<>> /\ (Len(d[i]) > 1 => Bytes(d[i]) <= MaxPacketSize),
         \A i \in 1 .. Len(d) - 1 : Bytes(d[i]) + 4 + TileLen(d[i + 1][1]) > MaxPacketSize,
         d # <<>> => Bytes(d[Len(d)]) + 4 + TileLen(c[1]) > MaxPacketSize
  PROVE  LET e == Append(d, c) IN
         /\ e \in Seq(Seq(T)) /\ e # <<>> /\ e[Len(e)] = c
         /\ \A i \in 1 .. Len(e) : e[i] # <<>> /\ (Len(e[i]) > 1 => Bytes(e[i]) <= MaxPacketSize)
         /\ \A i \in 1 .. Len(e) - 1 : Bytes(e[i]) + 4 + TileLen(e[i + 1][1]) > MaxPacketSize
<1> DEFINE e == Append(d, c)
<1>1. /\ Len(d) \in Nat /\ e \in Seq(Seq(T)) /\ Len(e) = Len(d) + 1 /\ e[Len(d) + 1] = c
      /\ \A i \in 1 .. Len(d) : e[i] = d[i]
  OBVIOUS
<1>2. d # <<>> <=> Len(d) > 0
  BY <1>1, EmptySeq
<1> HIDE DEF e
<1>3. e # <<>> /\ e[Len(e)] = c
  <2>1. Len(<<>>) = 0
    OBVIOUS
  <2> QED BY <1>1, <2>1
<1>4. ASSUME NEW i \in 1 .. Len(e)
      PROVE  e[i] # <<>> /\ (Len(e[i]) > 1 => Bytes(e[i]) <= MaxPacketSize)
  <2>1. i \in 1 .. Len(d) \/ i = Len(d) + 1
    BY <1>1
  <2> QED BY <1>1, <2>1
<1>5. ASSUME NEW i \in 1 .. Len(e) - 1
      PROVE  Bytes(e[i]) + 4 + TileLen(e[i + 1][1]) > MaxPacketSize
  <2>1. i \in 1 .. Len(d) /\ e[i] = d[i]
    BY <1>1
  <2>2. CASE i = Len(d)
    BY <1>1, <1>2, <2>1, <2>2
  <2>3. CASE i # Len(d)
    <3>1. i \in 1 .. Len(d) - 1 /\ i + 1 \in 1 .. Len(d)
      BY <1>1, <2>1, <2>3
    <3> QED BY <1>1, <2>1, <3>1
  <2> QED BY <2>2, <2>3
<1> QED BY <1>1, <1>3, <1>4, <1>5 DEF e

\* One element more, and what stays where it was.
LEMMA AppendFirst ==
  ASSUME NEW T, NEW q \in Seq(T), NEW t \in T
  PROVE  /\ Append(q, t) \in Seq(T) /\ Append(q, t) # <<>> /\ Len(Append(q, t)) = Len(q) + 1
         /\ q = <<>> => Append(q, t)[1] = t
         /\ q # <<>> => Append(q, t)[1] = q[1]
<1>1. Append(q, t) \in Seq(T) /\ Len(Append(q, t)) = Len(q) + 1 /\ Len(q) \in Nat
  OBVIOUS
<1>2. Append(q, t) # <<>>
  <2>1. Len(<<>>) = 0
    OBVIOUS
  <2> QED BY <1>1, <2>1
<1>3. q = <<>> => Append(q, t)[1] = t
  OBVIOUS
<1>4. q # <<>> => Append(q, t)[1] = q[1]
  <2>1. q # <<>> => Len(q) \in Nat \ {0}
    BY EmptySeq
  <2> QED BY <2>1
<1> QED BY <1>1, <1>2, <1>3, <1>4

\* One more tile.
LEMMA PackTileKeeps ==
  ASSUME NEW T, Measured(T), NEW r \in Packing(T), NEW t \in T, Sized(r), Filled(r)
  PROVE  /\ PackTile(r, t) \in Packing(T)
         /\ Sized(PackTile(r, t)) /\ Filled(PackTile(r, t))
<1> DEFINE flush == r.current # <<>> /\ Bytes(r.current) + 4 + TileLen(t) > MaxPacketSize
           done  == IF flush THEN Append(r.done, r.current) ELSE r.done
           kept  == IF flush THEN <<>> ELSE r.current
           cur   == Append(kept, t)
           over  == Bytes(cur) > MaxPacketSize
           s     == PackTile(r, t)
<1>0. MaxPacketSize \in Nat
  BY WireAssumption
<1>1. r.done \in Seq(Seq(T)) /\ r.current \in Seq(T)
  BY DEF Packing
<1>2. TileLen(t) \in Nat /\ Bytes(r.current) \in Nat
  BY <1>1, TileLenNat, BytesAppend
<1>3. s = IF over THEN [done |-> Append(done, cur), current |-> <<>>]
                  ELSE [done |-> done, current |-> cur]
  BY DEF PackTile
<1>4. kept \in Seq(T)
  BY <1>1
<1>5. cur \in Seq(T) /\ cur # <<>> /\ Len(cur) = Len(kept) + 1
      /\ (kept = <<>> => cur[1] = t) /\ (kept # <<>> => cur[1] = kept[1])
  <2> HIDE DEF kept
  <2> QED BY <1>4, AppendFirst
<1>6. Bytes(cur) = Bytes(kept) + 4 + TileLen(t) /\ Bytes(kept) \in Nat /\ Bytes(<<>>) = 0
  BY <1>4, BytesAppend
\* The packets closed so far.
<1>7. /\ done \in Seq(Seq(T))
      /\ \A i \in 1 .. Len(done) : done[i] # <<>> /\ (Len(done[i]) > 1 => Bytes(done[i]) <= MaxPacketSize)
      /\ \A i \in 1 .. Len(done) - 1 : Bytes(done[i]) + 4 + TileLen(done[i + 1][1]) > MaxPacketSize
      /\ done # <<>> => Bytes(done[Len(done)]) + 4 + TileLen(cur[1]) > MaxPacketSize
  <2>1. CASE flush
    <3>1. done = Append(r.done, r.current) /\ kept = <<>> /\ cur[1] = t
      BY <1>5, <2>1
    <3>2. r.current # <<>> /\ Bytes(r.current) + 4 + TileLen(t) > MaxPacketSize
      BY <2>1
    <3>3. r.done # <<>> => Bytes(r.done[Len(r.done)]) + 4 + TileLen(r.current[1]) > MaxPacketSize
      BY <3>2 DEF Filled
    <3>4. /\ done \in Seq(Seq(T)) /\ done # <<>> /\ done[Len(done)] = r.current
          /\ \A i \in 1 .. Len(done) : done[i] # <<>> /\ (Len(done[i]) > 1 => Bytes(done[i]) <= MaxPacketSize)
          /\ \A i \in 1 .. Len(done) - 1 : Bytes(done[i]) + 4 + TileLen(done[i + 1][1]) > MaxPacketSize
      <4> DEFINE d == r.done
                 c == r.current
      <4>1. /\ \A i \in 1 .. Len(d) : d[i] # <<>> /\ (Len(d[i]) > 1 => Bytes(d[i]) <= MaxPacketSize)
            /\ \A i \in 1 .. Len(d) - 1 : Bytes(d[i]) + 4 + TileLen(d[i + 1][1]) > MaxPacketSize
            /\ Bytes(c) <= MaxPacketSize
        BY DEF Sized, Filled
      <4>2. /\ d \in Seq(Seq(T)) /\ c \in Seq(T) /\ c # <<>> /\ done = Append(d, c)
            /\ d # <<>> => Bytes(d[Len(d)]) + 4 + TileLen(c[1]) > MaxPacketSize
        BY <1>1, <3>1, <3>2, <3>3
      <4> HIDE DEF d, c, done
      <4>3. /\ done \in Seq(Seq(T)) /\ done # <<>> /\ done[Len(done)] = c
            /\ \A i \in 1 .. Len(done) : done[i] # <<>> /\ (Len(done[i]) > 1 => Bytes(done[i]) <= MaxPacketSize)
            /\ \A i \in 1 .. Len(done) - 1 : Bytes(done[i]) + 4 + TileLen(done[i + 1][1]) > MaxPacketSize
        BY <4>1, <4>2, CloseKeeps
      <4> QED BY <4>3 DEF c
    <3> HIDE DEF done, cur
    <3> QED BY <3>1, <3>2, <3>4
  <2>2. CASE ~flush
    <3>1. done = r.done /\ kept = r.current
      BY <2>2
    <3>2. \A i \in 1 .. Len(done) : done[i] # <<>> /\ (Len(done[i]) > 1 => Bytes(done[i]) <= MaxPacketSize)
      BY <3>1 DEF Sized
    <3>3. \A i \in 1 .. Len(done) - 1 : Bytes(done[i]) + 4 + TileLen(done[i + 1][1]) > MaxPacketSize
      BY <3>1 DEF Filled
    <3>4. done # <<>> => Bytes(done[Len(done)]) + 4 + TileLen(cur[1]) > MaxPacketSize
      <4> SUFFICES ASSUME done # <<>>
                   PROVE  Bytes(done[Len(done)]) + 4 + TileLen(cur[1]) > MaxPacketSize
        OBVIOUS
      <4> DEFINE last == done[Len(done)]
      <4>1. CASE r.current = <<>>
        <5>1. Bytes(last) > MaxPacketSize
          BY <3>1, <4>1 DEF Filled
        <5>2. cur[1] = t
          BY <1>5, <3>1, <4>1
        <5>3. Bytes(last) \in Nat
          <6>1. Len(done) \in 1 .. Len(done)
            BY <1>1, <3>1, EmptySeq
          <6>2. last \in Seq(T)
            BY <1>1, <3>1, <6>1, ElementOfSeq
          <6> QED BY <6>2, BytesAppend
        <5> HIDE DEF last, cur
        <5> QED BY <1>0, <1>2, <5>1, <5>2, <5>3 DEF last
      <4>2. CASE r.current # <<>>
        <5>1. Bytes(last) + 4 + TileLen(r.current[1]) > MaxPacketSize
          BY <3>1, <4>2 DEF Filled
        <5>2. cur[1] = r.current[1]
          BY <1>5, <3>1, <4>2
        <5> QED BY <5>1, <5>2
      <4> QED BY <4>1, <4>2
    <3> QED BY <1>1, <3>1, <3>2, <3>3, <3>4
  <2> QED BY <2>1, <2>2
\* A packet of several tiles is within the limit.
<1>8. Len(cur) > 1 => Bytes(cur) <= MaxPacketSize
  <2> SUFFICES ASSUME Len(cur) > 1 PROVE Bytes(cur) <= MaxPacketSize
    OBVIOUS
  <2>1. kept # <<>>
    BY <1>4, <1>5
  <2>2. ~flush /\ kept = r.current /\ r.current # <<>>
    BY <2>1
  <2>3. ~(Bytes(r.current) + 4 + TileLen(t) > MaxPacketSize)
    BY <2>2
  <2> HIDE DEF kept, cur, flush
  <2> QED BY <1>0, <1>2, <1>6, <2>2, <2>3
<1> HIDE DEF done, cur, kept, flush, s
<1>9. CASE over
  <2>1. s.done = Append(done, cur) /\ s.current = <<>> /\ s = [done |-> Append(done, cur), current |-> <<>>]
    BY <1>3, <1>9
  <2>2. /\ s.done \in Seq(Seq(T)) /\ s.done # <<>> /\ s.done[Len(s.done)] = cur
        /\ \A i \in 1 .. Len(s.done) : s.done[i] # <<>> /\ (Len(s.done[i]) > 1 => Bytes(s.done[i]) <= MaxPacketSize)
        /\ \A i \in 1 .. Len(s.done) - 1 : Bytes(s.done[i]) + 4 + TileLen(s.done[i + 1][1]) > MaxPacketSize
    <3> DEFINE e == Append(done, cur)
    <3>1. cur \in Seq(T) /\ cur # <<>>
      BY <1>5
    <3>2. /\ e \in Seq(Seq(T)) /\ e # <<>> /\ e[Len(e)] = cur
          /\ \A i \in 1 .. Len(e) : e[i] # <<>> /\ (Len(e[i]) > 1 => Bytes(e[i]) <= MaxPacketSize)
          /\ \A i \in 1 .. Len(e) - 1 : Bytes(e[i]) + 4 + TileLen(e[i + 1][1]) > MaxPacketSize
      BY <1>7, <1>8, <3>1, CloseKeeps
    <3>3. s.done = e
      BY <2>1
    <3> HIDE DEF e
    <3> QED BY <3>2, <3>3
  <2>3. s \in Packing(T)
    BY <2>1, <2>2 DEF Packing
  <2>4. Sized(s)
    BY <1>0, <1>6, <2>1, <2>2 DEF Sized
  <2>5. Filled(s)
    BY <1>9, <2>1, <2>2 DEF Filled
  <2> QED BY <2>3, <2>4, <2>5 DEF s
<1>10. CASE ~over
  <2>1. s.done = done /\ s.current = cur /\ s = [done |-> done, current |-> cur]
    BY <1>3, <1>10
  <2>2. s \in Packing(T)
    BY <1>5, <1>7, <2>1 DEF Packing
  <2>3. Bytes(cur) <= MaxPacketSize
    BY <1>0, <1>2, <1>6, <1>10
  <2>4. Sized(s)
    BY <1>7, <2>1, <2>3 DEF Sized
  <2>5. Filled(s)
    BY <1>5, <1>7, <2>1 DEF Filled
  <2> QED BY <2>2, <2>4, <2>5 DEF s
<1> QED BY <1>9, <1>10

\* Appending to the end of a concatenation.
LEMMA ConcatAppend ==
  ASSUME NEW T, NEW u \in Seq(T), NEW v \in Seq(T), NEW t \in T
  PROVE  u \o Append(v, t) = Append(u \o v, t)
<1> DEFINE x == u \o Append(v, t)
           y == Append(u \o v, t)
<1>1. Append(v, t) \in Seq(T) /\ Len(Append(v, t)) = Len(v) + 1 /\ Len(u) \in Nat /\ Len(v) \in Nat
      /\ Append(v, t)[Len(v) + 1] = t /\ \A i \in 1 .. Len(v) : Append(v, t)[i] = v[i]
  OBVIOUS
<1>2. u \o v \in Seq(T) /\ Len(u \o v) = Len(u) + Len(v)
      /\ \A i \in 1 .. Len(u) + Len(v) : (u \o v)[i] = IF i <= Len(u) THEN u[i] ELSE v[i - Len(u)]
  BY ConcatProperties
<1>3. x \in Seq(T) /\ Len(x) = Len(u) + Len(v) + 1
      /\ \A i \in 1 .. Len(u) + Len(v) + 1 : x[i] = IF i <= Len(u) THEN u[i] ELSE Append(v, t)[i - Len(u)]
  BY <1>1, ConcatProperties
<1>4. y \in Seq(T) /\ Len(y) = Len(u) + Len(v) + 1 /\ y[Len(u) + Len(v) + 1] = t
      /\ \A i \in 1 .. Len(u) + Len(v) : y[i] = (u \o v)[i]
  BY <1>1, <1>2
<1> HIDE DEF x, y
<1>5. ASSUME NEW i \in 1 .. Len(u) + Len(v) + 1 PROVE x[i] = y[i]
  <2>1. CASE i = Len(u) + Len(v) + 1
    <3>1. i - Len(u) = Len(v) + 1 /\ ~(i <= Len(u))
      BY <1>1, <2>1
    <3> QED BY <1>1, <1>3, <1>4, <2>1, <3>1
  <2>2. CASE i # Len(u) + Len(v) + 1
    <3>1. i \in 1 .. Len(u) + Len(v) /\ i \in 1 .. Len(u) + Len(v) + 1
      <4>1. Len(u) \in Nat /\ Len(v) \in Nat
        BY <1>1
      <4> QED BY <2>2, <4>1
    <3>2. ~(i <= Len(u)) => i - Len(u) \in 1 .. Len(v)
      BY <1>1, <3>1
    <3>3. ~(i <= Len(u)) => Append(v, t)[i - Len(u)] = v[i - Len(u)]
      BY <1>1, <3>2
    <3> QED BY <1>2, <1>3, <1>4, <3>1, <3>3
  <2> QED BY <2>1, <2>2
<1>6. x = y
  BY <1>3, <1>4, <1>5, SeqEqual
<1> QED BY <1>6 DEF x, y

\* No tile is lost or repeated.
LEMMA PackTileWhole ==
  ASSUME NEW T, NEW r \in Packing(T), NEW b \in Seq(T), NEW n \in 0 .. Len(b) - 1, Whole(r, b, n)
  PROVE  Whole(PackTile(r, b[n + 1]), b, n + 1)
<1> DEFINE t     == b[n + 1]
           flush == r.current # <<>> /\ Bytes(r.current) + 4 + TileLen(t) > MaxPacketSize
           done  == IF flush THEN Append(r.done, r.current) ELSE r.done
           kept  == IF flush THEN <<>> ELSE r.current
           cur   == Append(kept, t)
           over  == Bytes(cur) > MaxPacketSize
           s     == PackTile(r, t)
           Plain(d) == \A i \in 1 .. Len(d) : Parse(d[i]) = d[i]
<1>1. r.done \in Seq(Seq(T)) /\ r.current \in Seq(T) /\ t \in T /\ Len(b) \in Nat
  <2>1. n + 1 \in 1 .. Len(b)
    OBVIOUS
  <2> QED BY <2>1, ElementOfSeq DEF Packing
<1>2. s = IF over THEN [done |-> Append(done, cur), current |-> <<>>]
                  ELSE [done |-> done, current |-> cur]
  BY DEF PackTile
<1>3. done \in Seq(Seq(T)) /\ kept \in Seq(T) /\ cur \in Seq(T)
  BY <1>1
<1>4. \A d \in Seq(Seq(T)), c \in Seq(T) : Plain(Append(d, c)) => Plain(d) /\ Parse(c) = c
  <2> TAKE d \in Seq(Seq(T)), c \in Seq(T)
  <2> DEFINE e == Append(d, c)
  <2>1. Len(e) = Len(d) + 1 /\ Len(d) \in Nat /\ e[Len(d) + 1] = c /\ \A i \in 1 .. Len(d) : e[i] = d[i]
    OBVIOUS
  <2> HIDE DEF e
  <2>2. ASSUME Plain(e) PROVE Plain(d) /\ Parse(c) = c
    <3>1. \A i \in 1 .. Len(d) : i \in 1 .. Len(e)
      BY <2>1
    <3>2. Len(d) + 1 \in 1 .. Len(e)
      BY <2>1
    <3> QED BY <2>1, <2>2, <3>1, <3>2
  <2> QED BY <2>2 DEF e
<1>5. ASSUME Plain(done) PROVE Got(done) \o kept = SubSeq(b, 1, n)
  <2>1. CASE flush
    <3>1. done = Append(r.done, r.current) /\ kept = <<>>
      BY <2>1
    <3> HIDE DEF t, flush, done, kept, cur, over, s
    <3>2. Plain(r.done) /\ Parse(r.current) = r.current
      BY <1>1, <1>4, <1>5, <3>1
    <3>3. Got(done) = Got(r.done) \o r.current /\ Got(r.done) \in Seq(T)
      <4>1. Got(Append(r.done, r.current)) = Got(r.done) \o Parse(r.current) /\ Got(r.done) \in Seq(T)
        BY <1>1, GotAppend
      <4> QED BY <3>1, <3>2, <4>1
    <3>4. Got(r.done) \o r.current = SubSeq(b, 1, n)
      BY <3>2 DEF Whole
    <3>5. Got(done) \o <<>> = Got(done)
      BY <1>1, <3>3, ConcatProperties, ConcatEmptySeq
    <3> QED BY <3>1, <3>3, <3>4, <3>5
  <2>2. CASE ~flush
    BY <1>5, <2>2 DEF Whole
  <2> QED BY <2>1, <2>2
<1> HIDE DEF t, done, kept, over, s, Plain
<1>6. ASSUME Plain(done) PROVE Got(done) \o cur = SubSeq(b, 1, n + 1)
  <2>1. Got(done) \in Seq(T)
    BY <1>3, GotAppend, EmptySeq
  <2>2. Got(done) \o cur = Append(SubSeq(b, 1, n), t)
    <3>1. Got(done) \o Append(kept, t) = Append(Got(done) \o kept, t)
      BY <1>1, <1>3, <2>1, ConcatAppend
    <3> QED BY <1>5, <1>6, <3>1
  <2>3. SubSeq(b, 1, n + 1) = Append(SubSeq(b, 1, n), t)
    <3>1. Len(b) \in Nat /\ n \in Nat /\ n + 1 <= Len(b)
      BY <1>1
    <3> QED BY <3>1 DEF t
  <2> QED BY <2>2, <2>3
<1> HIDE DEF cur
<1>7. ASSUME Plain(s.done) PROVE Got(s.done) \o s.current = SubSeq(b, 1, n + 1)
  <2>1. CASE over
    <3>1. s.done = Append(done, cur) /\ s.current = <<>>
      BY <1>2, <2>1
    <3>2. Plain(done) /\ Parse(cur) = cur
      BY <1>3, <1>4, <1>7, <3>1
    <3>3. Got(s.done) = Got(done) \o cur /\ Got(done) \in Seq(T)
      <4>1. Got(Append(done, cur)) = Got(done) \o Parse(cur) /\ Got(done) \in Seq(T)
        BY <1>3, GotAppend
      <4> QED BY <3>1, <3>2, <4>1
    <3>4. Got(s.done) \o <<>> = Got(s.done)
      BY <1>3, <3>3, ConcatProperties, ConcatEmptySeq
    <3> QED BY <1>6, <3>1, <3>2, <3>3, <3>4
  <2>2. CASE ~over
    <3>1. s.done = done /\ s.current = cur
      BY <1>2, <2>2
    <3> QED BY <1>6, <1>7, <3>1
  <2> QED BY <2>1, <2>2
<1> QED BY <1>7 DEF Whole, Plain, s, t

\* Packing keeps its types.
LEMMA PackTileType ==
  ASSUME NEW T, NEW r \in Packing(T), NEW t \in T
  PROVE  PackTile(r, t) \in Packing(T)
<1> DEFINE flush == r.current # <<>> /\ Bytes(r.current) + 4 + TileLen(t) > MaxPacketSize
           done  == IF flush THEN Append(r.done, r.current) ELSE r.done
           kept  == IF flush THEN <<>> ELSE r.current
           cur   == Append(kept, t)
<1>1. r.done \in Seq(Seq(T)) /\ r.current \in Seq(T)
  BY DEF Packing
<1>2. PackTile(r, t) = IF Bytes(cur) > MaxPacketSize THEN [done |-> Append(done, cur), current |-> <<>>]
                       ELSE [done |-> done, current |-> cur]
  BY DEF PackTile
<1>3. done \in Seq(Seq(T)) /\ kept \in Seq(T)
  BY <1>1
<1> HIDE DEF done, kept
<1>4. cur \in Seq(T)
  BY <1>3
<1> HIDE DEF cur
<1>5. Append(done, cur) \in Seq(Seq(T)) /\ <<>> \in Seq(T)
  BY <1>3, <1>4
<1> QED BY <1>2, <1>3, <1>4, <1>5 DEF Packing

\* What pack_tiles makes of a batch.
LEMMA PackTilesAre ==
  ASSUME NEW T, Measured(T), NEW b \in Seq(T)
  PROVE  LET ps == PackTiles(b) IN
         /\ ps \in Seq(Seq(T))
         /\ \A i \in 1 .. Len(ps) : ps[i] # <<>> /\ (Len(ps[i]) > 1 => Bytes(ps[i]) <= MaxPacketSize)
         /\ \A i \in 1 .. Len(ps) - 1 : Bytes(ps[i]) + 4 + TileLen(ps[i + 1][1]) > MaxPacketSize
         /\ (\A i \in 1 .. Len(ps) : Parse(ps[i]) = ps[i]) => Got(ps) = b
<1> DEFINE N == Len(b)
           start == [done |-> <<>>, current |-> <<>>]
           F == [k \in (1 .. N) \X Packing(T) |-> PackTile(k[2], b[k[1]])]
           OK(r, n) == r \in Packing(T) /\ Sized(r) /\ Filled(r) /\ Whole(r, b, n)
           Is(f) == f = [n \in 0 .. N |-> IF n = 0 THEN start ELSE PackTile(f[n - 1], b[n])]
<1>1. N \in Nat /\ \A n \in 1 .. N : b[n] \in T
  OBVIOUS
<1>2. OK(start, 0)
  <2>1. start.done = <<>> /\ start.current = <<>> /\ start \in Packing(T)
    BY DEF Packing
  <2>2. Len(<<>>) = 0 /\ Got(<<>>) = <<>> /\ Bytes(<<>>) = 0 /\ <<>> \in Seq(T) /\ <<>> \in Seq(Seq(T))
    <3>1. <<>> \in Seq(T) /\ <<>> \in Seq(Seq(T)) /\ Len(<<>>) = 0
      OBVIOUS
    <3>2. Bytes(<<>>) = 0
      <4>1. BytesUpTo(<<>>)[0] = 0
        BY <3>1, BytesRecursion
      <4> QED BY <3>1, <4>1 DEF Bytes
    <3> QED BY <3>1, <3>2, GotAppend
  <2>3. SubSeq(b, 1, 0) = <<>> /\ <<>> \o <<>> = <<>>
    BY <2>2, SubSeqEmpty, ConcatEmptySeq
  <2> HIDE DEF start
  <2>4. Sized(start)
    BY <2>1, <2>2, WireAssumption DEF Sized
  <2>5. Filled(start)
    BY <2>1, <2>2 DEF Filled
  <2>6. Whole(start, b, 0)
    BY <2>1, <2>2, <2>3 DEF Whole
  <2> QED BY <2>1, <2>4, <2>5, <2>6
<1> HIDE DEF N, start
<1>3. \A n \in 1 .. N, r \in Packing(T) : OK(r, n - 1) => OK(PackTile(r, b[n]), n)
  <2> TAKE n \in 1 .. N, r \in Packing(T)
  <2>1. n - 1 \in 0 .. Len(b) - 1 /\ (n - 1) + 1 = n
    BY <1>1 DEF N
  <2>2. ASSUME OK(r, n - 1) PROVE Whole(PackTile(r, b[n]), b, n)
    <3>1. Whole(PackTile(r, b[(n - 1) + 1]), b, (n - 1) + 1)
      BY <2>1, <2>2, PackTileWhole
    <3> QED BY <2>1, <3>1
  <2> QED BY <1>1, <2>2, PackTileKeeps
<1> HIDE DEF OK
<1>4. PICK f \in [0 .. N -> Packing(T)] : IsIterate(f, N, start, F)
  <2>1. F \in [(1 .. N) \X Packing(T) -> Packing(T)]
    BY <1>1, PackTileType
  <2>2. start \in Packing(T)
    BY <1>2 DEF OK
  <2> HIDE DEF F
  <2> QED BY <1>1, <2>1, <2>2, IterateExists
<1>5. \A n \in 1 .. N, v \in Packing(T) : F[<<n, v>>] = PackTile(v, b[n])
  OBVIOUS
<1> HIDE DEF F
<1>6. Is(f)
  <2>1. \A n \in 0 .. N : f[n] = IF n = 0 THEN start ELSE PackTile(f[n - 1], b[n])
    <3> TAKE n \in 0 .. N
    <3>1. f[n] = IF n = 0 THEN start ELSE F[<<n, f[n - 1]>>]
      BY <1>4 DEF IsIterate
    <3>2. n # 0 => n \in 1 .. N /\ f[n - 1] \in Packing(T)
      BY <1>1
    <3> QED BY <1>5, <3>1, <3>2
  <2>2. f = [n \in 0 .. N |-> IF n = 0 THEN start ELSE PackTile(f[n - 1], b[n])]
    BY <2>1
  <2> QED BY <2>2
<1>7. PackedUpTo(b) = CHOOSE h : Is(h)
  BY DEF PackedUpTo, N, start
<1>8. Is(PackedUpTo(b))
  BY <1>6, <1>7
<1> DEFINE a == PackedUpTo(b)
<1>9. a = [n \in 0 .. N |-> IF n = 0 THEN start ELSE PackTile(a[n - 1], b[n])]
  BY <1>8
<1> HIDE DEF a, Is
<1>10. \A n \in 0 .. N : a[n] = IF n = 0 THEN start ELSE PackTile(a[n - 1], b[n])
  BY <1>9
<1>11. OK(a[N], N)
  <2> DEFINE Q == {n \in 0 .. N : OK(a[n], n)}
  <2>1. 0 \in Q
    BY <1>1, <1>2, <1>10
  <2>2. ASSUME NEW n \in 0 .. N, n \in Q, n < N PROVE n + 1 \in Q
    <3>1. n + 1 \in 0 .. N /\ n + 1 # 0 /\ (n + 1) - 1 = n /\ n + 1 \in 1 .. N
      BY <1>1, <2>2
    <3>2. a[n + 1] = PackTile(a[n], b[n + 1])
      BY <1>10, <3>1
    <3>3. OK(a[n], n) /\ a[n] \in Packing(T)
      BY <2>2 DEF OK
    <3>4. OK(PackTile(a[n], b[n + 1]), n + 1)
      BY <1>3, <3>1, <3>3
    <3> QED BY <3>1, <3>2, <3>4
  <2>3. Q \in SUBSET (0 .. N)
    OBVIOUS
  <2> HIDE DEF Q
  <2>4. Q = 0 .. N
    BY <1>1, <2>1, <2>2, <2>3, Bounded
  <2>5. N \in 0 .. N
    BY <1>1
  <2>6. N \in Q
    BY <2>4, <2>5
  <2> QED BY <2>6 DEF Q
<1> DEFINE r == a[N]
           ps == PackTiles(b)
<1>12. r \in Packing(T) /\ Sized(r) /\ Filled(r) /\ Whole(r, b, N)
  BY <1>11 DEF OK
<1>13. ps = IF r.current = <<>> THEN r.done ELSE Append(r.done, r.current)
  BY DEF PackTiles, a, N
<1> HIDE DEF r, ps
<1>14. r.done \in Seq(Seq(T)) /\ r.current \in Seq(T)
  BY <1>12 DEF Packing
<1>15. /\ \A i \in 1 .. Len(r.done) : r.done[i] # <<>> /\ (Len(r.done[i]) > 1 => Bytes(r.done[i]) <= MaxPacketSize)
       /\ \A i \in 1 .. Len(r.done) - 1 : Bytes(r.done[i]) + 4 + TileLen(r.done[i + 1][1]) > MaxPacketSize
  BY <1>12 DEF Sized, Filled
<1>16. SubSeq(b, 1, N) = b
  BY SubSeqFull DEF N
<1>17. CASE r.current = <<>>
  <2>1. ps = r.done
    BY <1>13, <1>17
  <2>2. (\A i \in 1 .. Len(ps) : Parse(ps[i]) = ps[i]) => Got(ps) = b
    <3> SUFFICES ASSUME \A i \in 1 .. Len(ps) : Parse(ps[i]) = ps[i] PROVE Got(ps) = b
      OBVIOUS
    <3>1. Got(ps) \o <<>> = b
      BY <1>12, <1>16, <1>17, <2>1 DEF Whole
    <3>2. Got(ps) \in Seq(T)
      BY <1>14, <2>1, GotAppend, EmptySeq
    <3> QED BY <3>1, <3>2, ConcatEmptySeq
  <2> QED BY <1>14, <1>15, <2>1, <2>2 DEF ps
<1>18. CASE r.current # <<>>
  <2> DEFINE d == r.done
             c == r.current
             e == Append(d, c)
  <2>1. ps = e
    BY <1>13, <1>18
  <2>2. /\ d \in Seq(Seq(T)) /\ c \in Seq(T) /\ c # <<>>
        /\ Len(c) > 1 => Bytes(c) <= MaxPacketSize
        /\ \A i \in 1 .. Len(d) : d[i] # <<>> /\ (Len(d[i]) > 1 => Bytes(d[i]) <= MaxPacketSize)
        /\ \A i \in 1 .. Len(d) - 1 : Bytes(d[i]) + 4 + TileLen(d[i + 1][1]) > MaxPacketSize
        /\ d # <<>> => Bytes(d[Len(d)]) + 4 + TileLen(c[1]) > MaxPacketSize
    BY <1>12, <1>14, <1>15, <1>18 DEF Sized, Filled
  <2> HIDE DEF d, c
  <2>3. /\ e \in Seq(Seq(T))
        /\ \A i \in 1 .. Len(e) : e[i] # <<>> /\ (Len(e[i]) > 1 => Bytes(e[i]) <= MaxPacketSize)
        /\ \A i \in 1 .. Len(e) - 1 : Bytes(e[i]) + 4 + TileLen(e[i + 1][1]) > MaxPacketSize
    BY <2>2, CloseKeeps
  <2>4. ASSUME \A i \in 1 .. Len(e) : Parse(e[i]) = e[i] PROVE Got(e) = b
    <3>1. Len(e) = Len(d) + 1 /\ Len(d) \in Nat /\ e[Len(d) + 1] = c /\ \A i \in 1 .. Len(d) : e[i] = d[i]
      BY <2>2
    <3> HIDE DEF e
    <3>2. \A i \in 1 .. Len(d) : Parse(d[i]) = d[i]
      <4>1. \A i \in 1 .. Len(d) : i \in 1 .. Len(e)
        BY <3>1
      <4> QED BY <2>4, <3>1, <4>1
    <3>3. Parse(c) = c
      <4>1. Len(d) + 1 \in 1 .. Len(e)
        BY <3>1
      <4> QED BY <2>4, <3>1, <4>1
    <3>4. Got(e) = Got(d) \o Parse(c)
      BY <2>2, GotAppend DEF e
    <3>5. Got(d) \o c = b
      BY <1>12, <1>16, <3>2 DEF Whole, d, c
    <3> QED BY <3>3, <3>4, <3>5
  <2> HIDE DEF e
  <2> QED BY <2>1, <2>3, <2>4 DEF ps
<1> QED BY <1>17, <1>18

-----------------------------------------------------------------------------
(* What the page reads. *)

\* A frame has finitely many tiles.
LEMMA MergeIsFinite ==
  ASSUME NEW g, Fits(g), NEW S \in SUBSET CellsOf(g)
  PROVE  IsFiniteSet(Merge(S, g))
<1> DEFINE M == Merge(S, g)
           f == [t \in M |-> Representative(g, t)]
<1>1. IsFiniteSet(CellsOf(g))
  <2>1. g.tilesX \in Nat \ {0} /\ g.tilesY \in Nat \ {0}
    BY DEF Fits, GridRecord
  <2>3. 0 \in Int /\ g.tilesX - 1 \in Int /\ g.tilesY - 1 \in Int
    BY <2>1
  <2>2. IsFiniteSet(0 .. g.tilesX - 1) /\ IsFiniteSet(0 .. g.tilesY - 1)
    BY <2>3, FS_Interval
  <2> QED BY <2>2, FS_Product DEF CellsOf
<1>2. \A t \in M : Representative(g, t) \in CellsOf(g) /\ Representative(g, t) \in Covered(g, t)
  BY TileIsSmall
<1>3. \A t, u \in M : Representative(g, t) = Representative(g, u) => t = u
  BY <1>2, TilesAreDisjoint
<1> HIDE DEF M
<1>4. f \in [M -> CellsOf(g)] /\ \A t, u \in M : f[t] = f[u] => t = u
  BY <1>2, <1>3
<1> HIDE DEF f
<1>5. f \in Injection(M, CellsOf(g))
  BY <1>4 DEF Injection, IsInjective
<1> QED BY <1>1, <1>5, FS_Injection DEF M

\* The tiles of a batch.
SentTiles == [rect : tiles, len : WebpLen]

\* What was sent is the batch, packed; what arrived is what the page reads of it.
Packed ==
  stage \in {"packed", "shown"} =>
    /\ ordered \in Seq(SentTiles)
    /\ packets = PackTiles(ordered)
    /\ stage = "shown" => received = Got(packets)

\* The inductive invariant.
WireInv == MergedInv /\ Packed

\* Every payload has a length.
LEMMA SentMeasured == Measured(SentTiles)
<1>1. ASSUME NEW t \in SentTiles PROVE t.len \in Nat
  BY WireAssumption DEF SentTiles
<1> QED BY <1>1 DEF Measured

\* It holds initially.
LEMMA InitWireInv == WireInit => WireInv
BY InitMergedInv DEF WireInv, Packed, WireInit

\* Every step keeps it.
LEMMA NextWireInv == WireInv /\ [WireNext]_wireVars => WireInv'
<1> SUFFICES ASSUME WireInv, [WireNext]_wireVars PROVE Packed'
  BY NextMergedInv DEF WireInv
<1>1. CASE Detect
  BY <1>1 DEF Detect, Packed
<1>2. CASE MergeTiles
  BY <1>2 DEF MergeTiles, Packed
<1>3. CASE Send
  <2> DEFINE n == Cardinality(tiles)
  <2>1. PICK order \in SetToSeqs(tiles), len \in [1 .. n -> WebpLen] :
          ordered' = [i \in 1 .. n |-> [rect |-> order[i], len |-> len[i]]]
    BY <1>3 DEF Send
  <2>2. n \in Nat
    <3>1. IsFiniteSet(tiles)
      BY <1>3, MergeIsFinite DEF Send, WireInv, MergedInv, WireTypeOK, Merged
    <3> QED BY <3>1, FS_CardinalityType
  <2>3. order \in [1 .. n -> tiles]
    BY DEF SetToSeqs
  <2> HIDE DEF n
  <2>4. ordered' \in [1 .. n -> SentTiles]
    BY <2>1, <2>3 DEF SentTiles
  <2>5. ordered' \in Seq(SentTiles)
    BY <2>2, <2>4
  <2>6. SentTiles' = SentTiles /\ packets' = PackTiles(ordered') /\ stage' = "packed"
    BY <1>3 DEF Send, SentTiles
  <2> QED BY <2>5, <2>6 DEF Packed
<1>4. CASE Receive
  <2>1. /\ stage = "packed" /\ stage' = "shown" /\ received' = Got(packets)
        /\ UNCHANGED <<grid, changed, tiles, ordered, packets>>
    BY <1>4 DEF Receive, Got
  <2> QED BY <2>1 DEF WireInv, Packed, SentTiles
<1>5. CASE UNCHANGED wireVars
  BY <1>5 DEF wireVars, WireInv, Packed, SentTiles
<1> QED BY <1>1, <1>2, <1>3, <1>4, <1>5 DEF WireNext

\* The packing lemmas say what the property asks.
LEMMA PacketsFull == WireInv => PacketsAreFull
<1> SUFFICES ASSUME WireInv, stage = "packed" PROVE PacketsAreFull
  BY DEF PacketsAreFull
<1>1. ordered \in Seq(SentTiles) /\ packets = PackTiles(ordered)
  BY DEF WireInv, Packed
<1>2. /\ packets \in Seq(Seq(SentTiles))
      /\ \A i \in 1 .. Len(packets) : Len(packets[i]) > 1 => Bytes(packets[i]) <= MaxPacketSize
      /\ \A i \in 1 .. Len(packets) - 1 : Bytes(packets[i]) + 4 + TileLen(packets[i + 1][1]) > MaxPacketSize
  BY <1>1, SentMeasured, PackTilesAre
<1>3. \A i \in 1 .. Len(packets) : i < Len(packets) => i \in 1 .. Len(packets) - 1
  <2>1. Len(packets) \in Nat
    BY <1>2
  <2> QED BY <2>1
<1> QED BY <1>2, <1>3 DEF PacketsAreFull

\* So do the parsing lemmas, unless a packet looks like a marker.
LEMMA PageReads == WireInv => PageReadsBatch
<1> SUFFICES ASSUME WireInv, stage = "shown",
                    ~\E i \in 1 .. Len(packets) : Marker(packets[i]) \in {MarkerHeader, MarkerSeq}
             PROVE  received = ordered
  BY DEF PageReadsBatch
<1>1. ordered \in Seq(SentTiles) /\ packets = PackTiles(ordered) /\ received = Got(packets)
  BY DEF WireInv, Packed
<1>2. \A i \in 1 .. Len(packets) : Parse(packets[i]) = packets[i]
  BY DEF Parse
<1>3. (\A i \in 1 .. Len(packets) : Parse(packets[i]) = packets[i]) => Got(packets) = ordered
  BY <1>1, SentMeasured, PackTilesAre
<1> QED BY <1>1, <1>2, <1>3

\* pack_tiles wastes no packet and overfills none but those of a single tile, for
\* every batch, every payload size and every limit.
THEOREM PacketsCorrect == WireSpec => []PacketsAreFull
BY InitWireInv, NextWireInv, PacketsFull, PTL DEF WireSpec

\* The page reads exactly the batch the server packed, in its order, unless a
\* packet begins like a header or sequence marker.
THEOREM PageCorrect == WireSpec => []PageReadsBatch
BY InitWireInv, NextWireInv, PageReads, PTL DEF WireSpec

=============================================================================
