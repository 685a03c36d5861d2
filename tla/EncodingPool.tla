---------------------------- MODULE EncodingPool ----------------------------
(***************************************************************************)
(* encoding_pool.rs and the part of Pipeline::process that feeds it: the   *)
(* processing thread submits every uncached tile of a frame to a bounded   *)
(* task channel, and only then collects the results from a bounded result  *)
(* channel, waiting at most 5 s for each; workers block on both channels.  *)
(*                                                                         *)
(* A tile is its representative grid index, the key results are matched    *)
(* by.  Of the bytes a result holds only their age matters: "fresh" (made  *)
(* from the frame being processed) or "stale" (from an earlier one).  A    *)
(* worker whose two encode attempts fail returns no bytes ("none").        *)
(***************************************************************************)
EXTENDS Integers, Sequences, FiniteSets

CONSTANTS Tile,          \* grid indices
          Worker,        \* worker threads: num_cpus, at least 4
          MaxHeld,       \* bound: a frame's tiles and the leftovers before it
          SlowWorkers    \* a worker may take longer than the 5 s of collect_results

ASSUME PoolAssumption ==
  /\ IsFiniteSet(Tile) /\ IsFiniteSet(Worker) /\ Worker # {}
  /\ MaxHeld \in Nat
  /\ SlowWorkers \in BOOLEAN

\* One slot per worker (mutant).
ChannelCap_One == Cardinality(Worker)

\* The capacity of each of the two channels.
ChannelCap == 2 * Cardinality(Worker)

VARIABLES
  pc,          \* processing thread: "idle", "submit" or "collect"
  todo,        \* tiles still to submit
  expect,      \* results still to collect
  bytes,       \* the frame's encoded vector: representative index of each
               \* merged tile -> "none", "fresh" or "stale"
  tasks, results,   \* the two channels
  work,        \* worker -> what it holds
  skew         \* ghost: results given up on, which nobody will collect

poolVars == <<pc, todo, expect, bytes, tasks, results, work, skew>>

Item   == [tile : Tile, age : {"fresh", "stale"}]
Result == [tile : Tile, age : {"none", "fresh", "stale"}]
Idle   == [state |-> "idle"]
Busy   == [state : {"encoding"}, item : Item]
Full   == [state : {"sending"}, item : Result]

PoolTypeOK ==
  /\ pc \in {"idle", "submit", "collect"}
  /\ expect \in 0 .. MaxHeld
  /\ \E F \in SUBSET Tile : bytes \in [F -> {"none", "fresh", "stale"}]
  /\ todo \subseteq DOMAIN bytes
  /\ tasks \in Seq(Item) /\ Len(tasks) <= ChannelCap
  /\ results \in Seq(Result) /\ Len(results) <= ChannelCap
  /\ work \in [Worker -> {Idle} \cup Busy \cup Full]
  /\ skew \in Nat

PoolInit ==
  /\ pc = "idle"
  /\ todo = {} /\ expect = 0
  /\ bytes = [t \in {} |-> "none"]
  /\ tasks = <<>> /\ results = <<>>
  /\ work = [w \in Worker |-> Idle]
  /\ skew = 0

-----------------------------------------------------------------------------
Aged(item) == [item EXCEPT !.age = IF @ = "fresh" THEN "stale" ELSE @]

AgedWork(x) == IF x.state = "idle" THEN x ELSE [x EXCEPT !.item = Aged(@)]

\* One result too few is collected (mutant).
StartFrame_CollectsOneLess(F, S) ==
  /\ pc = "idle"
  /\ todo' = S
  /\ expect' = IF S = {} THEN 0 ELSE Cardinality(S) - 1
  /\ bytes' = [t \in F |-> IF t \in S THEN "none" ELSE "fresh"]
  /\ tasks' = [i \in DOMAIN tasks |-> Aged(tasks[i])]
  /\ results' = [i \in DOMAIN results |-> Aged(results[i])]
  /\ work' = [w \in Worker |-> AgedWork(work[w])]
  /\ pc' = "submit"
  /\ UNCHANGED skew

\* process starts encoding a frame with tiles F, of which S miss the cache.
\* Whatever the pool still holds is left over from an earlier frame.
StartFrame(F, S) ==
  /\ pc = "idle"
  /\ todo' = S
  /\ expect' = Cardinality(S)
  /\ bytes' = [t \in F |-> IF t \in S THEN "none" ELSE "fresh"]
  /\ tasks' = [i \in DOMAIN tasks |-> Aged(tasks[i])]
  /\ results' = [i \in DOMAIN results |-> Aged(results[i])]
  /\ work' = [w \in Worker |-> AgedWork(work[w])]
  /\ pc' = "submit"
  /\ UNCHANGED skew

\* task_tx.send blocks while the channel is full.
Submit(t) ==
  /\ pc = "submit"
  /\ t \in todo
  /\ Len(tasks) < ChannelCap
  /\ tasks' = Append(tasks, [tile |-> t, age |-> "fresh"])
  /\ todo' = todo \ {t}
  /\ UNCHANGED <<pc, expect, bytes, results, work, skew>>

AllSubmitted ==
  /\ pc = "submit"
  /\ todo = {}
  /\ pc' = "collect"
  /\ UNCHANGED <<todo, expect, bytes, tasks, results, work, skew>>

\* recv_timeout returned a result, which is filed under its tile index;
\* indices the frame does not have are logged and dropped.
CollectOne ==
  /\ pc = "collect"
  /\ expect > 0
  /\ results # <<>>
  /\ results' = Tail(results)
  /\ expect' = expect - 1
  /\ bytes' = [t \in DOMAIN bytes |-> IF t = Head(results).tile
                                      THEN Head(results).age ELSE bytes[t]]
  /\ UNCHANGED <<pc, todo, tasks, work, skew>>

\* No result within 5 s: collect_results gives up on the rest.
CollectTimeout ==
  /\ SlowWorkers
  /\ pc = "collect"
  /\ expect > 0
  /\ results = <<>>
  /\ expect' = 0
  /\ skew' = skew + expect
  /\ UNCHANGED <<pc, todo, bytes, tasks, results, work>>

\* Tiles without bytes are encoded on this thread, which may fail too.
FinishFrame(failing) ==
  /\ pc = "collect"
  /\ expect = 0
  /\ failing \subseteq {t \in DOMAIN bytes : bytes[t] = "none"}
  /\ bytes' = [t \in DOMAIN bytes |->
                 IF bytes[t] = "none" /\ t \notin failing THEN "fresh" ELSE bytes[t]]
  /\ pc' = "idle"
  /\ UNCHANGED <<todo, expect, tasks, results, work, skew>>

-----------------------------------------------------------------------------
\* A worker: take a task, encode it (or fail twice), hand the result over.
Take(w) ==
  /\ work[w] = Idle
  /\ tasks # <<>>
  /\ work' = [work EXCEPT ![w] = [state |-> "encoding", item |-> Head(tasks)]]
  /\ tasks' = Tail(tasks)
  /\ UNCHANGED <<pc, todo, expect, bytes, results, skew>>

Encode(w) ==
  /\ work[w].state = "encoding"
  /\ \E age \in {work[w].item.age, "none"} :
       work' = [work EXCEPT ![w] = [state |-> "sending",
                                    item |-> [tile |-> work[w].item.tile, age |-> age]]]
  /\ UNCHANGED <<pc, todo, expect, bytes, tasks, results, skew>>

\* The worker gives up when the result channel is full (mutant).
Deliver_TrySend(w) ==
  /\ work[w].state = "sending"
  /\ results' = IF Len(results) < ChannelCap - 1 THEN Append(results, work[w].item) ELSE results
  /\ work' = [work EXCEPT ![w] = Idle]
  /\ UNCHANGED <<pc, todo, expect, bytes, tasks, skew>>

\* result_tx.send blocks while the channel is full.
Deliver(w) ==
  /\ work[w].state = "sending"
  /\ Len(results) < ChannelCap
  /\ results' = Append(results, work[w].item)
  /\ work' = [work EXCEPT ![w] = Idle]
  /\ UNCHANGED <<pc, todo, expect, bytes, tasks, skew>>

NextFrame ==
  \E F \in (SUBSET Tile) \ {{}} : \E S \in SUBSET F :
    skew + Cardinality(S) <= MaxHeld /\ StartFrame(F, S)

Processing ==
  \/ \E t \in Tile : Submit(t)
  \/ AllSubmitted
  \/ CollectOne
  \/ CollectTimeout
  \/ \E failing \in SUBSET DOMAIN bytes : FinishFrame(failing)

Working(w) == Take(w) \/ Encode(w) \/ Deliver(w)

PoolNext == NextFrame \/ Processing \/ \E w \in Worker : Working(w)

PoolSpec == PoolInit /\ [][PoolNext]_poolVars

\* Every thread runs; the operating system schedules them all.
PoolFairSpec == PoolSpec /\ WF_poolVars(Processing) /\ \A w \in Worker : WF_poolVars(Working(w))

-----------------------------------------------------------------------------
InWork == {w \in Worker : work[w] # Idle}
InPool == Len(tasks) + Cardinality(InWork) + Len(results)

\* Nothing is lost between submit and collect: at every step of every thread
\* the pool holds exactly the results the frame still waits for and those that
\* timeouts gave up on, however many frames ago.
NothingLostInPool == InPool = skew + expect - Cardinality(todo)

\* Between frames, what slow workers left behind fits in the task channel and
\* the workers: the skew between submitted and collected results does not grow
\* from frame to frame until the next submit can only block.
LeftoverBounded == pc = "idle" => InPool <= ChannelCap + Cardinality(Worker)

\* As long as no collect has ever timed out, the bytes a frame leaves with were
\* made from that frame, whatever failed or came from the cache.
UnskewedIsFresh ==
  pc = "idle" /\ skew = 0 => \A t \in DOMAIN bytes : bytes[t] # "stale"

\* The bytes a frame leaves with were made from that frame ("WebP bytes,
\* parallel to tiles"): no tile is sent, or cached under the new hash, with
\* the pixels of an earlier frame.
BytesAreFresh == pc = "idle" => \A t \in DOMAIN bytes : bytes[t] # "stale"

\* process returns: the thread never waits for ever inside the pool.
ProcessReturns == (pc # "idle") ~> (pc = "idle")

=============================================================================
