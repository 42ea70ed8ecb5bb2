--------------------------- MODULE ServiceProofs ---------------------------
(***************************************************************************)
(* Theorems about services, for every value of their bounds.               *)
(*                                                                         *)
(* Startup: what a close leaves behind depends on how the maintenance      *)
(* thread ended, so MaintInv says what each of its phases knows about the  *)
(* lanes.  Backfill: no drain owns the one slot, so the invariants speak   *)
(* of the ids in it, whoever put them there; the counter is compared with  *)
(* the ids that a drain can still hand in, some of them forgotten.         *)
(* Semantic index: a published copy is exact but for the listed changes,   *)
(* and so is every copy that could still be published; what a reopen will  *)
(* load is kept beside it, since its copy's rows are the snapshot's.       *)
(* Recall: a query's plan changes while it runs, so the invariant says of  *)
(* any plan what has to follow what in it (Chained), which lanes a query   *)
(* can still reach (PlanFor), and where what was found and kept may lie,   *)
(* given the next hold (HeadInv).                                          *)
(* C ABI: the handlers are one list, checked by cases to be Regular; the   *)
(* rest speaks of any handler that is.                                     *)
(***************************************************************************)
EXTENDS Services, Extrema, FiniteSetTheorems, TLAPS

-----------------------------------------------------------------------------
(* Startup                                                                  *)

StartupTypeOK ==
    /\ DOMAIN ram = {"cell", "lane", "cancel", "maint", "stop", "stale", "counts",
                     "handle", "aborted"}
    /\ DOMAIN ram.lane = Lanes
    /\ \A l \in Lanes : DOMAIN ram.lane[l] = {"thread", "at", "busy"}
    /\ DOMAIN env = {"faults"} /\ env.faults \in Nat

\* No lane runs any more.
AllOver == \A l \in Lanes : ram.lane[l].thread \in {"returned", "dead"}

\* What each phase of the maintenance thread knows.
MaintInv ==
    /\ ram.maint \in {"keywords", "loop"} => AllOver
    /\ ram.maint = "exited" => /\ ram.cancel \/ AllOver
                               /\ ram.stop \/ env.faults > 0
    /\ ram.handle = "closed" => ram.maint = "exited"
    /\ \A l \in Lanes : ram.lane[l].thread = "dead" => env.faults > 0

StartupInv == StartupTypeOK /\ (~ram.stale => ram.counts) /\ MaintInv

\* A step that changes no lane, or the thread of one lane.
LEMMA LanesAfter ==
    ASSUME StartupTypeOK, NEW l \in Lanes, NEW record,
           DOMAIN record = {"thread", "at", "busy"},
           DOMAIN ram' = DOMAIN ram, ram'.lane = [ram.lane EXCEPT ![l] = record],
           DOMAIN env' = {"faults"}, env'.faults \in Nat
    PROVE  /\ StartupTypeOK'
           /\ ram'.lane[l] = record
           /\ \A k \in Lanes \ {l} : ram'.lane[k] = ram.lane[k]
BY DEF StartupTypeOK

LEMMA SpawnStep ==
    ASSUME StartupInv, NEW l \in Lanes, Lane!Spawn(l)
    PROVE  StartupInv'
<1> DEFINE r == [ram.lane[l] EXCEPT !.thread = "up"]
<1>1. /\ DOMAIN ram' = DOMAIN ram /\ ram'.lane = [ram.lane EXCEPT ![l] = r]
      /\ ram'.maint \in {"lanes", "spawning"} /\ ram'.handle = ram.handle
      /\ ram'.stale = ram.stale /\ ram'.counts = ram.counts
      /\ ram.maint = "spawning" /\ env' = env
  BY DEF Lane!Spawn, Lane!Calm, StartupInv, StartupTypeOK
<1>2. DOMAIN r = {"thread", "at", "busy"} /\ r.thread = "up"
  BY DEF StartupInv, StartupTypeOK
<1> HIDE DEF r
<1>3. /\ StartupTypeOK' /\ ram'.lane[l] = r
      /\ \A k \in Lanes \ {l} : ram'.lane[k] = ram.lane[k]
  BY <1>1, <1>2, LanesAfter DEF StartupInv, StartupTypeOK
<1>4. MaintInv'
  BY <1>1, <1>2, <1>3 DEF StartupInv, MaintInv
<1> QED  BY <1>1, <1>3, <1>4 DEF StartupInv

\* A step of a lane, which the maintenance thread does not notice.
LEMMA LaneStep ==
    ASSUME StartupInv, NEW l \in Lanes, NEW r, DOMAIN r = {"thread", "at", "busy"},
           DOMAIN ram' = DOMAIN ram, ram'.lane = [ram.lane EXCEPT ![l] = r],
           DOMAIN env' = {"faults"}, env'.faults \in Nat, env'.faults >= env.faults,
           ram'.maint = ram.maint, ram'.cancel = ram.cancel, ram'.stop = ram.stop,
           ram'.handle = ram.handle, ~ram'.stale => ram'.counts,
           \/ r.thread \in {ram.lane[l].thread, "returned"}
           \/ r.thread = "dead" /\ env'.faults > 0
    PROVE  StartupInv'
<1>1. /\ StartupTypeOK' /\ ram'.lane[l] = r
      /\ \A k \in Lanes \ {l} : ram'.lane[k] = ram.lane[k]
  BY LanesAfter DEF StartupInv
<1>2. env.faults \in Nat
  BY DEF StartupInv, StartupTypeOK
<1>3. AllOver => AllOver'
  BY <1>1 DEF AllOver
<1>4. \A k \in Lanes : ram'.lane[k].thread = "dead" => env'.faults > 0
  BY <1>1, <1>2 DEF StartupInv, MaintInv
<1>5. MaintInv'
  BY <1>2, <1>3, <1>4 DEF StartupInv, MaintInv
<1> QED  BY <1>1, <1>5 DEF StartupInv

\* A step that changes no lane.
LEMMA CallerStep ==
    ASSUME StartupInv, DOMAIN ram' = DOMAIN ram, ram'.lane = ram.lane,
           ram'.stale = ram.stale, ram'.counts = ram.counts,
           DOMAIN env' = {"faults"}, env'.faults \in Nat, env'.faults >= env.faults,
           MaintInv'
    PROVE  StartupInv'
BY DEF StartupInv, StartupTypeOK

LEMMA StartupInvStep ==
    ASSUME StartupInv, [Lane!Next]_Lane!vars
    PROVE  StartupInv'
<1>1. /\ DOMAIN ram = {"cell", "lane", "cancel", "maint", "stop", "stale", "counts",
                       "handle", "aborted"}
      /\ DOMAIN ram.lane = Lanes
      /\ \A l \in Lanes : DOMAIN ram.lane[l] = {"thread", "at", "busy"}
      /\ DOMAIN env = {"faults"} /\ env.faults \in Nat
  BY DEF StartupInv, StartupTypeOK
<1>2. ~ram.stale => ram.counts
  BY DEF StartupInv
<1>3. ASSUME NEW l \in Lanes, Lane!Spawn(l)
      PROVE  StartupInv'
  BY <1>3, SpawnStep
<1>4. ASSUME NEW l \in Lanes, Lane!LaneBegins(l)
      PROVE  StartupInv'
  <2>1. env' = env
    BY <1>4 DEF Lane!LaneBegins, Lane!Calm
  <2>2. CASE ram' = [ram EXCEPT !.lane[l].thread = "returned"]
    <3> DEFINE r == [ram.lane[l] EXCEPT !.thread = "returned"]
    <3>1. /\ DOMAIN ram' = DOMAIN ram /\ ram'.lane = [ram.lane EXCEPT ![l] = r]
          /\ ram'.maint = ram.maint /\ ram'.cancel = ram.cancel /\ ram'.stop = ram.stop
          /\ ram'.handle = ram.handle /\ ram'.stale = ram.stale /\ ram'.counts = ram.counts
      BY <1>1, <2>2
    <3>2. DOMAIN r = {"thread", "at", "busy"} /\ r.thread = "returned"
      BY <1>1
    <3> HIDE DEF r
    <3> QED  BY <1>1, <1>2, <2>1, <3>1, <3>2, LaneStep
  <2>3. CASE ram' = [ram EXCEPT !.lane[l].busy = TRUE,
                       !.cell = [c \in Cells |->
                                   IF c = Lane!Phase(l) /\ @[c] = "deferred"
                                   THEN "loading" ELSE @[c]]]
    <3> DEFINE r == [ram.lane[l] EXCEPT !.busy = TRUE]
    <3>1. /\ DOMAIN ram' = DOMAIN ram /\ ram'.lane = [ram.lane EXCEPT ![l] = r]
          /\ ram'.maint = ram.maint /\ ram'.cancel = ram.cancel /\ ram'.stop = ram.stop
          /\ ram'.handle = ram.handle /\ ram'.stale = ram.stale /\ ram'.counts = ram.counts
      BY <1>1, <2>3
    <3>2. DOMAIN r = {"thread", "at", "busy"} /\ r.thread = ram.lane[l].thread
      BY <1>1
    <3> HIDE DEF r
    <3> QED  BY <1>1, <1>2, <2>1, <3>1, <3>2, LaneStep
  <2> QED  BY <1>4, <2>2, <2>3 DEF Lane!LaneBegins
<1>5. ASSUME NEW l \in Lanes, Lane!LaneEnds(l)
      PROVE  StartupInv'
  <2> DEFINE r == [ram.lane[l] EXCEPT !.busy = FALSE, !.at = @ + 1]
             recount == Lane!Phase(l) = "replication"
  <2>1. /\ DOMAIN ram' = DOMAIN ram /\ ram'.lane = [ram.lane EXCEPT ![l] = r]
        /\ ram'.maint = ram.maint /\ ram'.cancel = ram.cancel /\ ram'.stop = ram.stop
        /\ ram'.handle = ram.handle /\ env' = env
    BY <1>1, <1>5 DEF Lane!LaneEnds, Lane!Calm
  <2>2. ram'.stale = (ram.stale /\ ~recount) /\ ram'.counts = (ram.counts \/ recount)
    BY <1>1, <1>5 DEF Lane!LaneEnds
  <2>3. DOMAIN r = {"thread", "at", "busy"} /\ r.thread = ram.lane[l].thread
    BY <1>1
  <2> HIDE DEF r, recount
  <2>4. ~ram'.stale => ram'.counts
    BY <1>2, <2>2
  <2> QED  BY <1>1, <2>1, <2>3, <2>4, LaneStep
<1>6. ASSUME NEW l \in Lanes, Lane!LanePanics(l)
      PROVE  StartupInv'
  <2> DEFINE r == [ram.lane[l] EXCEPT !.busy = FALSE, !.thread = "dead"]
  <2>1. /\ DOMAIN ram' = DOMAIN ram /\ ram'.lane = [ram.lane EXCEPT ![l] = r]
        /\ ram'.maint = ram.maint /\ ram'.cancel = ram.cancel /\ ram'.stop = ram.stop
        /\ ram'.handle = ram.handle /\ ram'.stale = ram.stale /\ ram'.counts = ram.counts
    BY <1>1, <1>6 DEF Lane!LanePanics
  <2>2. env' = [faults |-> env.faults + 1]
    BY <1>6 DEF Lane!LanePanics, Lane!Fault
  <2>3. DOMAIN env' = {"faults"} /\ env'.faults = env.faults + 1
    BY <2>2
  <2>4. DOMAIN r = {"thread", "at", "busy"} /\ r.thread = "dead"
    BY <1>1
  <2> HIDE DEF r
  <2> QED  BY <1>1, <1>2, <2>1, <2>3, <2>4, LaneStep
<1>7. CASE Lane!SpawnFails
  <2>1. /\ DOMAIN ram' = DOMAIN ram /\ ram'.lane = ram.lane /\ ram'.cancel
        /\ ram'.maint = "exited" /\ ram'.stop = ram.stop
        /\ ram'.handle = ram.handle /\ ram'.stale = ram.stale /\ ram'.counts = ram.counts
    BY <1>1, <1>7 DEF Lane!SpawnFails
  <2>2. env' = [faults |-> env.faults + 1]
    BY <1>7 DEF Lane!SpawnFails, Lane!Fault
  <2>3. DOMAIN env' = {"faults"} /\ env'.faults = env.faults + 1
    BY <2>2
  <2>4. MaintInv'
    BY <1>1, <2>1, <2>3 DEF StartupInv, MaintInv
  <2> QED  BY <1>1, <2>1, <2>3, <2>4, CallerStep
<1>8. ASSUME NEW c \in Cells, Lane!Demand(c)
      PROVE  StartupInv'
  <2>1. /\ DOMAIN ram' = DOMAIN ram /\ ram'.lane = ram.lane /\ ram'.cancel = ram.cancel
        /\ ram'.maint = ram.maint /\ ram'.stop = ram.stop /\ env' = env
        /\ ram'.handle = ram.handle /\ ram'.stale = ram.stale /\ ram'.counts = ram.counts
    <3>1. CASE ram' = [ram EXCEPT !.aborted = TRUE]
      BY <1>1, <1>8, <3>1 DEF Lane!Demand, Lane!Calm
    <3>2. CASE ram' = [ram EXCEPT !.cell[c] = "ready"]
      BY <1>1, <1>8, <3>2 DEF Lane!Demand, Lane!Calm
    <3> QED  BY <1>8, <3>1, <3>2 DEF Lane!Demand
  <2>2. MaintInv'
    BY <2>1 DEF StartupInv, MaintInv, AllOver
  <2> QED  BY <1>1, <2>1, <2>2, CallerStep
<1>9. CASE Lane!Poll
  <2>1. env' = env /\ ram.maint = "lanes"
    BY <1>9 DEF Lane!Poll, Lane!Calm
  <2>2. CASE ram' = [ram EXCEPT !.cancel = TRUE, !.maint = "exited"]
    <3>1. /\ DOMAIN ram' = DOMAIN ram /\ ram'.lane = ram.lane /\ ram'.cancel
          /\ ram'.maint = "exited" /\ ram'.stop = ram.stop
          /\ ram'.handle = ram.handle /\ ram'.stale = ram.stale /\ ram'.counts = ram.counts
      BY <1>1, <2>2
    <3>2. ram.stop \/ \E l \in Lanes : ram.lane[l].thread = "dead"
      <4>1. [ram EXCEPT !.maint = "keywords"].maint = "keywords"
        BY <1>1
      <4> QED  BY <1>9, <3>1, <4>1 DEF Lane!Poll
    <3>3. ram.stop \/ env.faults > 0
      BY <3>2 DEF StartupInv, MaintInv
    <3>4. MaintInv'
      BY <2>1, <3>1, <3>3 DEF StartupInv, MaintInv
    <3> QED  BY <1>1, <2>1, <3>1, <3>4, CallerStep
  <2>3. CASE Lane!Quiet /\ ram' = [ram EXCEPT !.maint = "keywords"]
    <3>1. /\ DOMAIN ram' = DOMAIN ram /\ ram'.lane = ram.lane /\ ram'.cancel = ram.cancel
          /\ ram'.maint = "keywords" /\ ram'.stop = ram.stop
          /\ ram'.handle = ram.handle /\ ram'.stale = ram.stale /\ ram'.counts = ram.counts
      BY <1>1, <2>3
    <3>2. AllOver'
      BY <2>3, <3>1 DEF Lane!Quiet, AllOver
    <3>3. MaintInv'
      BY <2>1, <3>1, <3>2 DEF StartupInv, MaintInv
    <3> QED  BY <1>1, <2>1, <3>1, <3>3, CallerStep
  <2> QED  BY <1>9, <2>2, <2>3 DEF Lane!Poll
<1>10. CASE Lane!Proceed
  <2>1. /\ DOMAIN ram' = DOMAIN ram /\ ram'.lane = ram.lane /\ ram'.cancel = ram.cancel
        /\ ram'.maint = (IF ram.stop THEN "exited" ELSE "loop") /\ ram'.stop = ram.stop
        /\ ram'.handle = ram.handle /\ ram'.stale = ram.stale /\ ram'.counts = ram.counts
        /\ ram.maint \in {"keywords", "loop"} /\ env' = env
    BY <1>1, <1>10 DEF Lane!Proceed, Lane!Calm
  <2>2. AllOver'
    BY <2>1 DEF StartupInv, MaintInv, AllOver
  <2>3. MaintInv'
    BY <2>1, <2>2 DEF StartupInv, MaintInv
  <2> QED  BY <1>1, <2>1, <2>3, CallerStep
<1>11. CASE Lane!CloseBegins
  <2>1. /\ DOMAIN ram' = DOMAIN ram /\ ram'.lane = ram.lane /\ ram'.cancel = ram.cancel
        /\ ram'.maint = ram.maint /\ ram'.stop /\ ram'.handle = "closing"
        /\ ram'.stale = ram.stale /\ ram'.counts = ram.counts /\ env' = env
    BY <1>1, <1>11 DEF Lane!CloseBegins, Lane!Calm
  <2>2. MaintInv'
    BY <2>1 DEF StartupInv, MaintInv, AllOver
  <2> QED  BY <1>1, <2>1, <2>2, CallerStep
<1>12. CASE Lane!CloseEnds
  <2>1. /\ DOMAIN ram' = DOMAIN ram /\ ram'.lane = ram.lane /\ ram'.cancel = ram.cancel
        /\ ram'.maint = ram.maint /\ ram'.stop = ram.stop /\ ram'.handle = "closed"
        /\ ram'.stale = ram.stale /\ ram'.counts = ram.counts
        /\ ram.maint = "exited" /\ env' = env
    BY <1>1, <1>12 DEF Lane!CloseEnds, Lane!Calm
  <2>2. MaintInv'
    BY <2>1 DEF StartupInv, MaintInv, AllOver
  <2> QED  BY <1>1, <2>1, <2>2, CallerStep
<1>13. CASE UNCHANGED Lane!vars
  BY <1>13 DEF Lane!vars, StartupInv, StartupTypeOK, MaintInv, AllOver
<1> QED  BY <1>3, <1>4, <1>5, <1>6, <1>7, <1>8, <1>9, <1>10, <1>11, <1>12, <1>13,
            Zenon DEF Lane!Next

LEMMA StartupInvInit ==
    ASSUME Lane!Init
    PROVE  StartupInv
<1>1. StartupTypeOK
  BY DEF Lane!Init, StartupTypeOK
<1>2. /\ ram.stale /\ ram.maint = "spawning" /\ ram.handle = "open"
      /\ \A l \in Lanes : ram.lane[l].thread = "none"
  BY DEF Lane!Init
<1> QED  BY <1>1, <1>2 DEF StartupInv, MaintInv

\* What each phase knows is enough for the gate, the close and the thread.
LEMMA StartupHolds == StartupInv => Lane!StartupSound
<1> SUFFICES ASSUME StartupInv
             PROVE  Lane!GateHonest /\ Lane!CloseAbandons /\ Lane!MaintenanceLives
  BY DEF Lane!StartupSound
<1>1. Lane!GateHonest
  BY DEF StartupInv, Lane!GateHonest, Lane!Ready
<1>2. Lane!CloseAbandons
  BY DEF StartupInv, MaintInv, AllOver, Lane!CloseAbandons, Lane!Retained
<1>3. Lane!MaintenanceLives
  BY DEF StartupInv, MaintInv, Lane!MaintenanceLives
<1> QED  BY <1>1, <1>2, <1>3

-----------------------------------------------------------------------------
(* Backfill                                                                 *)

MemShape(m) ==
    /\ DOMAIN m \subseteq BackfillIds
    /\ \A i \in DOMAIN m : DOMAIN m[i] = {"text", "dead", "pending", "super", "keyword"}

\* The records have their fields, and replay knows the same memories.
Shape ==
    /\ DOMAIN ram = {"mem", "sem", "graph"} /\ DOMAIN wal = {"mem", "sem", "blank"}
    /\ MemShape(ram.mem) /\ MemShape(wal.mem) /\ DOMAIN wal.mem = DOMAIN ram.mem
    /\ DOMAIN env = {"slot", "drain", "count", "given", "grown", "edits", "crashes"}
    /\ DOMAIN env.slot = {"open", "ids", "plan"}
    /\ DOMAIN env.drain = Drains
    /\ \A d \in Drains : DOMAIN env.drain[d] = {"pc", "ids", "read", "plan"}
    /\ env.count \in Int

\* Replay agrees on who lives.
LiveInv == \A i \in DOMAIN ram.mem : wal.mem[i].dead <=> ram.mem[i].dead

\* A stage reads texts of memories that were fetched.
ReadInv ==
    \A d \in Drains : env.drain[d].pc = "read" =>
       \A i \in DOMAIN env.drain[d].read : i \in DOMAIN ram.mem /\ i \in env.drain[d].ids

\* Whoever filled the slot, what it holds has a vector or was forgotten.
SlotInv ==
    \A i \in env.slot.ids : i \in DOMAIN ram.mem /\ (~ram.mem[i].dead => i \in ram.sem)

\* Pending memories that are listed or that a drain can still hand in.
Held ==
    {i \in DOMAIN ram.mem :
       /\ ram.mem[i].pending
       /\ \/ ~ram.mem[i].dead
          \/ i \in env.slot.ids
          \/ \E d \in Drains : i \in env.drain[d].ids}

\* What lives and has a long text has a vector or a reason to have none.
Queued == \A i \in DOMAIN ram.mem :
    ~ram.mem[i].dead /\ ram.mem[i].text \in Backfill!Long =>
       i \in ram.sem \/ ram.mem[i].pending \/ i \in env.given \/ i \in env.grown

BackfillInv == /\ Shape /\ LiveInv /\ ReadInv /\ SlotInv /\ Queued
               /\ env.count >= Cardinality(Held)

\* Held is finite, and counting its subsets is monotone.
LEMMA HeldCounts ==
    ASSUME IsFiniteSet(BackfillIds), Shape
    PROVE  /\ IsFiniteSet(Held) /\ Cardinality(Held) \in Nat
           /\ \A S : S \subseteq Held =>
                /\ IsFiniteSet(S) /\ Cardinality(S) \in Nat
                /\ Cardinality(S) <= Cardinality(Held)
                /\ Cardinality(Held \ S) = Cardinality(Held) - Cardinality(S)
<1>1. Held \subseteq BackfillIds
  BY DEF Held, Shape, MemShape
<1>2. IsFiniteSet(Held) /\ Cardinality(Held) \in Nat
  BY <1>1, FS_Subset, FS_CardinalityType
<1>3. ASSUME NEW S, S \subseteq Held
      PROVE  /\ IsFiniteSet(S) /\ Cardinality(S) \in Nat
             /\ Cardinality(S) <= Cardinality(Held)
             /\ Cardinality(Held \ S) = Cardinality(Held) - Cardinality(S)
  <2>1. IsFiniteSet(S) /\ Cardinality(S) <= Cardinality(Held)
    BY <1>2, <1>3, FS_Subset
  <2>2. Cardinality(S) \in Nat
    BY <2>1, FS_CardinalityType
  <2>3. Held \cap S = S
    BY <1>3
  <2>4. Cardinality(Held \ S) = Cardinality(Held) - Cardinality(Held \cap S)
    BY <1>2, FS_Difference
  <2> QED  BY <2>1, <2>2, <2>3, <2>4
<1> QED  BY <1>2, <1>3

\* The counter stays above Held when what leaves Held is subtracted and what
\* joins it is added.
LEMMA CountKept ==
    ASSUME IsFiniteSet(BackfillIds), Shape, Shape', env.count >= Cardinality(Held),
           NEW out, out \subseteq Held, NEW new, IsFiniteSet(new),
           Held' \subseteq (Held \ out) \cup new,
           env'.count = env.count - Cardinality(out) + Cardinality(new)
    PROVE  env'.count >= Cardinality(Held')
<1>1. /\ IsFiniteSet(Held) /\ Cardinality(Held) \in Nat /\ Cardinality(out) \in Nat
      /\ Cardinality(Held \ out) = Cardinality(Held) - Cardinality(out)
  BY HeldCounts
<1>2. IsFiniteSet(Held \ out)
  BY <1>1, FS_Difference
<1>3. /\ IsFiniteSet((Held \ out) \cup new) /\ IsFiniteSet((Held \ out) \cap new)
      /\ Cardinality((Held \ out) \cup new) = Cardinality(Held \ out) + Cardinality(new)
           - Cardinality((Held \ out) \cap new)
  BY <1>2, FS_Union, FS_Intersection
<1>4. /\ Cardinality(Held') <= Cardinality((Held \ out) \cup new)
      /\ IsFiniteSet(Held')
  BY <1>3, FS_Subset
<1>5. /\ Cardinality(Held') \in Nat /\ Cardinality(new) \in Nat
      /\ Cardinality((Held \ out) \cap new) \in Nat
      /\ Cardinality((Held \ out) \cup new) \in Nat
  BY <1>3, <1>4, FS_CardinalityType
<1>6. env.count \in Int
  BY DEF Shape
<1> QED  BY <1>1, <1>3, <1>4, <1>5, <1>6

-----------------------------------------------------------------------------
(* What each step of the backfill does                                      *)

LEMMA PutIs ==
    ASSUME Shape, NEW i \in BackfillIds, NEW text, Backfill!Put(i, text)
    PROVE  /\ Shape' /\ i \notin DOMAIN ram.mem
           /\ DOMAIN ram'.mem = DOMAIN ram.mem \cup {i}
           /\ \A j \in DOMAIN ram.mem : /\ ram'.mem[j] = ram.mem[j]
                                        /\ wal'.mem[j] = wal.mem[j]
           /\ ram'.mem[i].text = text /\ wal'.mem[i].text = text
           /\ ~ram'.mem[i].dead /\ ~wal'.mem[i].dead
           /\ ram'.mem[i].pending <=> text \in Backfill!Long
           /\ ram'.sem = ram.sem /\ ram'.graph = ram.graph
           /\ env'.slot = env.slot /\ env'.drain = env.drain
           /\ env'.given = env.given /\ env'.grown = env.grown
           /\ env'.count = IF text \in Backfill!Long THEN env.count + 1 ELSE env.count
<1> DEFINE queued == text \in Backfill!Long
           new == [text |-> text, dead |-> FALSE, pending |-> queued, super |-> FALSE,
                   keyword |-> ~queued]
           old == [new EXCEPT !.pending = FALSE]
<1>2. /\ ram' = [ram EXCEPT !.mem = Backfill!Insert(@, i, new)]
      /\ wal' = [wal EXCEPT !.mem = Backfill!Insert(@, i, old), !.blank = @ \cup {i}]
      /\ env' = [env EXCEPT !.count = IF queued THEN @ + 1 ELSE @] /\ i \notin DOMAIN ram.mem
  BY DEF Backfill!Put
<1> HIDE DEF queued
<1>1. /\ DOMAIN new = {"text", "dead", "pending", "super", "keyword"} /\ new.text = text
      /\ ~new.dead /\ new.pending = queued
      /\ DOMAIN old = {"text", "dead", "pending", "super", "keyword"} /\ old.text = text
      /\ ~old.dead
  OBVIOUS
<1> HIDE DEF new, old
<1>3. /\ DOMAIN ram' = DOMAIN ram /\ ram'.sem = ram.sem /\ ram'.graph = ram.graph
      /\ ram'.mem = [j \in DOMAIN ram.mem \cup {i} |-> IF j = i THEN new ELSE ram.mem[j]]
      /\ DOMAIN wal' = DOMAIN wal
      /\ wal'.mem = [j \in DOMAIN wal.mem \cup {i} |-> IF j = i THEN old ELSE wal.mem[j]]
  BY <1>2 DEF Shape, Backfill!Insert
<1>4. /\ DOMAIN env' = DOMAIN env /\ env'.slot = env.slot /\ env'.drain = env.drain
      /\ env'.given = env.given /\ env'.grown = env.grown
      /\ env'.count = IF queued THEN env.count + 1 ELSE env.count
  BY <1>2 DEF Shape
<1>5. /\ DOMAIN ram'.mem = DOMAIN ram.mem \cup {i}
      /\ DOMAIN wal'.mem = DOMAIN wal.mem \cup {i}
      /\ ram'.mem[i] = new /\ wal'.mem[i] = old
      /\ \A j \in DOMAIN ram.mem : ram'.mem[j] = ram.mem[j]
      /\ \A j \in DOMAIN wal.mem : wal'.mem[j] = wal.mem[j]
  BY <1>2, <1>3 DEF Shape
<1>6. MemShape(ram'.mem) /\ MemShape(wal'.mem)
  BY <1>1, <1>5 DEF Shape, MemShape
<1>7. env'.count \in Int
  BY <1>4 DEF Shape
<1>8. Shape'
  BY <1>3, <1>4, <1>5, <1>6, <1>7 DEF Shape
<1>9. /\ ram'.mem[i].pending <=> text \in Backfill!Long
      /\ env'.count = IF text \in Backfill!Long THEN env.count + 1 ELSE env.count
  BY <1>1, <1>4, <1>5 DEF queued
<1> QED  BY <1>1, <1>2, <1>3, <1>4, <1>5, <1>8, <1>9 DEF Shape

LEMMA UpdateContentIs ==
    ASSUME Shape, NEW i \in DOMAIN ram.mem, NEW text, Backfill!UpdateContent(i, text)
    PROVE  /\ Shape' /\ DOMAIN ram'.mem = DOMAIN ram.mem
           /\ \A j \in DOMAIN ram.mem \ {i} : /\ ram'.mem[j] = ram.mem[j]
                                              /\ wal'.mem[j] = wal.mem[j]
           /\ ram'.mem[i].text = text /\ wal'.mem[i].text = text
           /\ ram'.mem[i].dead = ram.mem[i].dead /\ wal'.mem[i].dead = wal.mem[i].dead
           /\ ram'.mem[i].pending = ram.mem[i].pending
           /\ ram'.sem = ram.sem /\ ram'.graph = ram.graph
           /\ env'.slot = env.slot /\ env'.drain = env.drain /\ env'.given = env.given
           /\ env.grown \subseteq env'.grown
           /\ text \in Backfill!Long =>
                \/ ram.mem[i].text \in Backfill!Long \/ ram.mem[i].pending
                \/ i \in ram.sem \/ i \in env'.grown
           /\ env'.count = env.count
<1> DEFINE new == [ram.mem[i] EXCEPT !.text = text]
           old == [wal.mem[i] EXCEPT !.text = text]
           grows == /\ text \in Backfill!Long /\ ram.mem[i].text \notin Backfill!Long
                    /\ ~ram.mem[i].pending /\ i \notin ram.sem
           grown == IF grows THEN env.grown \cup {i} ELSE env.grown
<1>1. i \in DOMAIN wal.mem
  BY DEF Shape
<1>2. /\ DOMAIN ram' = DOMAIN ram /\ ram'.sem = ram.sem /\ ram'.graph = ram.graph
      /\ ram'.mem = [ram.mem EXCEPT ![i] = new]
      /\ DOMAIN wal' = DOMAIN wal /\ wal'.mem = [wal.mem EXCEPT ![i] = old]
  BY <1>1 DEF Shape, Backfill!UpdateContent
<1>3. env' = [env EXCEPT !.edits = @ + 1, !.grown = grown]
  BY DEF Backfill!UpdateContent
<1>8. /\ env.grown \subseteq grown
      /\ text \in Backfill!Long =>
           \/ ram.mem[i].text \in Backfill!Long \/ ram.mem[i].pending
           \/ i \in ram.sem \/ i \in grown
  OBVIOUS
<1> HIDE DEF grown
<1>9. /\ DOMAIN env' = DOMAIN env /\ env'.slot = env.slot /\ env'.drain = env.drain
      /\ env'.given = env.given /\ env'.count = env.count /\ env'.grown = grown
  BY <1>3 DEF Shape
<1>4. /\ DOMAIN new = {"text", "dead", "pending", "super", "keyword"} /\ new.text = text
      /\ new.dead = ram.mem[i].dead /\ new.pending = ram.mem[i].pending
      /\ DOMAIN old = {"text", "dead", "pending", "super", "keyword"} /\ old.text = text
      /\ old.dead = wal.mem[i].dead
  BY <1>1 DEF Shape, MemShape
<1> HIDE DEF new, old
<1>5. /\ DOMAIN ram'.mem = DOMAIN ram.mem /\ DOMAIN wal'.mem = DOMAIN wal.mem
      /\ ram'.mem[i] = new /\ wal'.mem[i] = old
      /\ \A j \in DOMAIN ram.mem \ {i} : ram'.mem[j] = ram.mem[j]
      /\ \A j \in DOMAIN wal.mem \ {i} : wal'.mem[j] = wal.mem[j]
  BY <1>1, <1>2
<1>6. MemShape(ram'.mem) /\ MemShape(wal'.mem)
  BY <1>4, <1>5 DEF Shape, MemShape
<1>7. Shape'
  BY <1>2, <1>5, <1>6, <1>9 DEF Shape
<1> QED  BY <1>2, <1>4, <1>5, <1>7, <1>8, <1>9 DEF Shape

LEMMA ForgetIs ==
    ASSUME Shape, NEW i \in DOMAIN ram.mem, Backfill!Forget(i)
    PROVE  /\ Shape' /\ DOMAIN ram'.mem = DOMAIN ram.mem
           /\ \A j \in DOMAIN ram.mem \ {i} : /\ ram'.mem[j] = ram.mem[j]
                                              /\ wal'.mem[j] = wal.mem[j]
           /\ ram'.mem[i].text = 0 /\ wal'.mem[i].text = 0
           /\ ram'.mem[i].dead /\ wal'.mem[i].dead /\ ~ram.mem[i].dead
           /\ ram'.mem[i].pending = ram.mem[i].pending
           /\ ram'.sem = ram.sem \ {i} /\ ram'.graph = ram.graph \ {i}
           /\ env'.slot = env.slot /\ env'.drain = env.drain
           /\ env'.given = env.given /\ env'.grown = env.grown
           /\ env'.count = env.count
<1> DEFINE new == [ram.mem[i] EXCEPT !.dead = TRUE, !.text = 0]
           old == [wal.mem[i] EXCEPT !.dead = TRUE, !.text = 0]
<1>1. i \in DOMAIN wal.mem
  BY DEF Shape
<1>2. /\ DOMAIN ram' = {"mem", "sem", "graph"}
      /\ ram'.sem = ram.sem \ {i} /\ ram'.graph = ram.graph \ {i}
      /\ ram'.mem = [ram.mem EXCEPT ![i] = new]
      /\ DOMAIN wal' = {"mem", "sem", "blank"} /\ wal'.mem = [wal.mem EXCEPT ![i] = old]
      /\ ~ram.mem[i].dead
  BY <1>1 DEF Shape, Backfill!Forget
<1>3. /\ DOMAIN env' = DOMAIN env /\ env'.slot = env.slot /\ env'.drain = env.drain
      /\ env'.given = env.given /\ env'.grown = env.grown /\ env'.count = env.count
  BY DEF Shape, Backfill!Forget
<1>4. /\ DOMAIN new = {"text", "dead", "pending", "super", "keyword"} /\ new.text = 0
      /\ new.dead /\ new.pending = ram.mem[i].pending
      /\ DOMAIN old = {"text", "dead", "pending", "super", "keyword"} /\ old.text = 0 /\ old.dead
  BY <1>1 DEF Shape, MemShape
<1> HIDE DEF new, old
<1>5. /\ DOMAIN ram'.mem = DOMAIN ram.mem /\ DOMAIN wal'.mem = DOMAIN wal.mem
      /\ ram'.mem[i] = new /\ wal'.mem[i] = old
      /\ \A j \in DOMAIN ram.mem \ {i} : ram'.mem[j] = ram.mem[j]
      /\ \A j \in DOMAIN wal.mem \ {i} : wal'.mem[j] = wal.mem[j]
  BY <1>1, <1>2
<1>6. MemShape(ram'.mem) /\ MemShape(wal'.mem)
  BY <1>4, <1>5 DEF Shape, MemShape
<1>7. Shape'
  BY <1>2, <1>3, <1>5, <1>6 DEF Shape
<1> QED  BY <1>2, <1>3, <1>4, <1>5, <1>7 DEF Shape

\* Flag sets embed_pending for S and nothing else ...
Marked(f, m, S) ==
    /\ DOMAIN f = DOMAIN m
    /\ \A i \in DOMAIN m : /\ f[i].text = m[i].text /\ f[i].dead = m[i].dead
                           /\ i \in S => f[i].pending
                           /\ i \notin S => f[i] = m[i]

LEMMA FlagMarks ==
    ASSUME NEW m, MemShape(m), NEW S
    PROVE  /\ MemShape(Backfill!Flag(m, S, TRUE))
           /\ Marked(Backfill!Flag(m, S, TRUE), m, S)
<1> DEFINE f == Backfill!Flag(m, S, TRUE)
<1>1. DOMAIN f = DOMAIN m
  BY DEF Backfill!Flag
<1>2. ASSUME NEW i \in DOMAIN m
      PROVE  /\ DOMAIN f[i] = {"text", "dead", "pending", "super", "keyword"}
             /\ f[i].text = m[i].text /\ f[i].dead = m[i].dead
             /\ i \in S => f[i].pending
             /\ i \notin S => f[i] = m[i]
  <2>1. DOMAIN m[i] = {"text", "dead", "pending", "super", "keyword"}
    BY DEF MemShape
  <2>2. CASE i \in S
    <3>1. f[i] = [m[i] EXCEPT !.pending = TRUE]
      BY <2>2 DEF Backfill!Flag
    <3> QED  BY <2>1, <2>2, <3>1
  <2>3. CASE i \notin S
    BY <2>1, <2>3 DEF Backfill!Flag
  <2> QED  BY <2>2, <2>3
<1> QED  BY <1>1, <1>2 DEF MemShape, Marked

\* ... or clears it.
Cleared(f, m, S) ==
    /\ DOMAIN f = DOMAIN m
    /\ \A i \in DOMAIN m : /\ f[i].text = m[i].text /\ f[i].dead = m[i].dead
                           /\ i \in S => ~f[i].pending
                           /\ i \notin S => f[i] = m[i]

LEMMA FlagClears ==
    ASSUME NEW m, MemShape(m), NEW S
    PROVE  /\ MemShape(Backfill!Flag(m, S, FALSE))
           /\ Cleared(Backfill!Flag(m, S, FALSE), m, S)
<1> DEFINE f == Backfill!Flag(m, S, FALSE)
<1>1. DOMAIN f = DOMAIN m
  BY DEF Backfill!Flag
<1>2. ASSUME NEW i \in DOMAIN m
      PROVE  /\ DOMAIN f[i] = {"text", "dead", "pending", "super", "keyword"}
             /\ f[i].text = m[i].text /\ f[i].dead = m[i].dead
             /\ i \in S => ~f[i].pending
             /\ i \notin S => f[i] = m[i]
  <2>1. DOMAIN m[i] = {"text", "dead", "pending", "super", "keyword"}
    BY DEF MemShape
  <2>2. CASE i \in S
    <3>1. f[i] = [m[i] EXCEPT !.pending = FALSE]
      BY <2>2 DEF Backfill!Flag
    <3> QED  BY <2>1, <2>2, <3>1
  <2>3. CASE i \notin S
    BY <2>1, <2>3 DEF Backfill!Flag
  <2> QED  BY <2>2, <2>3
<1> QED  BY <1>1, <1>2 DEF MemShape, Cleared

LEMMA ForceClearIs ==
    ASSUME Shape, NEW i \in DOMAIN ram.mem, Backfill!ForceClear(i)
    PROVE  /\ Shape' /\ DOMAIN ram'.mem = DOMAIN ram.mem /\ wal' = wal
           /\ \A j \in DOMAIN ram.mem \ {i} : ram'.mem[j] = ram.mem[j]
           /\ ram'.mem[i].text = ram.mem[i].text /\ ram'.mem[i].dead = ram.mem[i].dead
           /\ ram.mem[i].pending /\ ~ram'.mem[i].pending
           /\ ram'.sem = ram.sem /\ ram'.graph = ram.graph
           /\ ~ram.mem[i].dead \/ \E d \in Drains : i \in env.drain[d].ids
           /\ env'.slot = env.slot /\ env'.drain = env.drain
           /\ env'.given = env.given \cup {i} /\ env'.grown = env.grown
           /\ env'.count = env.count - 1
<1>1. /\ DOMAIN ram' = DOMAIN ram /\ ram'.sem = ram.sem /\ ram'.graph = ram.graph
      /\ ram'.mem = Backfill!Flag(ram.mem, {i}, FALSE) /\ wal' = wal
  BY DEF Shape, Backfill!ForceClear
<1>2. /\ DOMAIN env' = DOMAIN env /\ env'.slot = env.slot /\ env'.drain = env.drain
      /\ env'.given = env.given \cup {i} /\ env'.grown = env.grown
      /\ env'.count = env.count - 1
  BY DEF Shape, Backfill!ForceClear
<1>3. /\ ram.mem[i].pending
      /\ ~ram.mem[i].dead \/ \E d \in Drains : i \in env.drain[d].ids
  BY DEF Backfill!ForceClear, Backfill!Accepted, Backfill!HandedOut
<1>4. MemShape(ram.mem)
  BY DEF Shape
<1>5. /\ MemShape(ram'.mem) /\ DOMAIN ram'.mem = DOMAIN ram.mem
      /\ \A j \in DOMAIN ram.mem :
           /\ ram'.mem[j].text = ram.mem[j].text /\ ram'.mem[j].dead = ram.mem[j].dead
           /\ j \in {i} => ~ram'.mem[j].pending
           /\ j \notin {i} => ram'.mem[j] = ram.mem[j]
  <2>1. MemShape(ram'.mem) /\ Cleared(ram'.mem, ram.mem, {i})
    BY <1>1, <1>4, FlagClears
  <2> QED  BY <2>1 DEF Cleared
<1>6. Shape'
  <2>1. /\ MemShape(wal'.mem) /\ DOMAIN wal' = DOMAIN wal
        /\ DOMAIN wal'.mem = DOMAIN ram'.mem
    BY <1>1, <1>5 DEF Shape
  <2>2. env'.count \in Int /\ DOMAIN env'.slot = {"open", "ids", "plan"}
        /\ DOMAIN env'.drain = Drains
        /\ \A d \in Drains : DOMAIN env'.drain[d] = {"pc", "ids", "read", "plan"}
    BY <1>2 DEF Shape
  <2>3. MemShape(ram'.mem)
    BY <1>5
  <2> QED  BY <1>1, <1>2, <2>1, <2>2, <2>3 DEF Shape
<1> QED  BY <1>1, <1>2, <1>3, <1>5, <1>6

LEMMA RequeueIs ==
    ASSUME IsFiniteSet(BackfillIds), Shape, NEW ids, ids \subseteq DOMAIN ram.mem,
           Backfill!Requeue(ids)
    PROVE  \E hit \in SUBSET DOMAIN ram.mem :
             /\ Shape' /\ Marked(ram'.mem, ram.mem, hit) /\ wal' = wal
             /\ ram'.sem = ram.sem /\ ram'.graph = ram.graph
             /\ env'.slot = env.slot /\ env'.drain = env.drain
             /\ env'.given = env.given \ hit /\ env'.grown = env.grown \ hit
             /\ env'.count = env.count + Cardinality(hit)
<1> DEFINE hit == {i \in ids : ~ram.mem[i].pending}
<1>1. hit \in SUBSET DOMAIN ram.mem
  OBVIOUS
<1>2. /\ ram' = [ram EXCEPT !.mem = Backfill!Flag(@, hit, TRUE)] /\ wal' = wal
      /\ env' = [env EXCEPT !.count = @ + Cardinality(hit), !.given = @ \ hit,
                            !.grown = @ \ hit, !.edits = @ + 1]
  BY DEF Backfill!Requeue, Backfill!Cardinality, Cardinality
<1> HIDE DEF hit
<1>3. /\ DOMAIN ram' = DOMAIN ram /\ ram'.sem = ram.sem /\ ram'.graph = ram.graph
      /\ ram'.mem = Backfill!Flag(ram.mem, hit, TRUE)
  BY <1>2 DEF Shape
<1>4. /\ DOMAIN env' = DOMAIN env /\ env'.slot = env.slot /\ env'.drain = env.drain
      /\ env'.given = env.given \ hit /\ env'.grown = env.grown \ hit
      /\ env'.count = env.count + Cardinality(hit)
  BY <1>2 DEF Shape
<1>5. MemShape(ram'.mem) /\ Marked(ram'.mem, ram.mem, hit)
  <2>1. MemShape(ram.mem)
    BY DEF Shape
  <2> QED  BY <1>3, <2>1, FlagMarks
<1>6. Cardinality(hit) \in Nat
  <2>1. hit \subseteq BackfillIds
    BY <1>1 DEF Shape, MemShape
  <2> QED  BY <2>1, FS_Subset, FS_CardinalityType
<1>7. Shape'
  <2>1. DOMAIN ram'.mem = DOMAIN ram.mem
    BY <1>5 DEF Marked
  <2>2. MemShape(wal'.mem) /\ DOMAIN wal' = DOMAIN wal /\ DOMAIN wal'.mem = DOMAIN ram'.mem
    BY <1>2, <2>1 DEF Shape
  <2>3. env'.count \in Int /\ DOMAIN env'.slot = {"open", "ids", "plan"}
        /\ DOMAIN env'.drain = Drains
        /\ \A d \in Drains : DOMAIN env'.drain[d] = {"pc", "ids", "read", "plan"}
    BY <1>4, <1>6 DEF Shape
  <2> QED  BY <1>3, <1>4, <1>5, <2>2, <2>3 DEF Shape
<1> QED  BY <1>1, <1>2, <1>3, <1>4, <1>5, <1>7

LEMMA SaveIs ==
    ASSUME Shape, Backfill!Save
    PROVE  \E healed : /\ Shape' /\ ram' = ram /\ env' = env
                       /\ Marked(wal'.mem, ram.mem, healed)
<1> DEFINE healed == {i \in Backfill!Live(ram.mem) \ ram.sem :
                        ram.mem[i].keyword /\ ram.mem[i].text > 0}
<1>1. /\ ram' = ram /\ env' = env /\ DOMAIN wal' = {"mem", "sem", "blank"}
      /\ wal'.mem = Backfill!Flag(ram.mem, healed, TRUE)
  BY DEF Backfill!Save
<1> HIDE DEF healed
<1>2. MemShape(wal'.mem) /\ Marked(wal'.mem, ram.mem, healed)
  <2>1. MemShape(ram.mem)
    BY DEF Shape
  <2> QED  BY <1>1, <2>1, FlagMarks
<1>3. DOMAIN wal'.mem = DOMAIN ram.mem
  BY <1>2 DEF Marked
<1>4. Shape'
  BY <1>1, <1>2, <1>3 DEF Shape
<1> QED  BY <1>1, <1>2, <1>4

\* What the log has after a batch of vectors: the texts as they were read.
Logged(w, v, read) ==
    /\ DOMAIN w = DOMAIN v
    /\ \A i \in DOMAIN v : /\ w[i].dead = v[i].dead
                           /\ i \in DOMAIN read => w[i].text = read[i]
                           /\ i \notin DOMAIN read => w[i] = v[i]

LEMMA LogVectorsIs ==
    ASSUME MemShape(wal.mem), NEW read
    PROVE  /\ DOMAIN Backfill!LogVectors(read) = {"mem", "sem", "blank"}
           /\ Backfill!LogVectors(read).sem = wal.sem \cup DOMAIN read
           /\ MemShape(Backfill!LogVectors(read).mem)
           /\ Logged(Backfill!LogVectors(read).mem, wal.mem, read)
<1> DEFINE w == Backfill!LogVectors(read)
<1>1. /\ DOMAIN w = {"mem", "sem", "blank"} /\ w.sem = wal.sem \cup DOMAIN read
      /\ w.mem = [i \in DOMAIN wal.mem |->
              IF i \in DOMAIN read
              THEN [wal.mem[i] EXCEPT !.text = read[i], !.pending = FALSE] ELSE wal.mem[i]]
  BY DEF Backfill!LogVectors
<1> HIDE DEF w
<1>2. DOMAIN w.mem = DOMAIN wal.mem
  BY <1>1
<1>3. ASSUME NEW i \in DOMAIN wal.mem
      PROVE  /\ DOMAIN w.mem[i] = {"text", "dead", "pending", "super", "keyword"}
             /\ w.mem[i].dead = wal.mem[i].dead
             /\ i \in DOMAIN read => w.mem[i].text = read[i]
             /\ i \notin DOMAIN read => w.mem[i] = wal.mem[i]
  <2>1. DOMAIN wal.mem[i] = {"text", "dead", "pending", "super", "keyword"}
    BY DEF MemShape
  <2>2. CASE i \in DOMAIN read
    <3>1. w.mem[i] = [wal.mem[i] EXCEPT !.text = read[i], !.pending = FALSE]
      BY <1>1, <2>2
    <3> QED  BY <2>1, <2>2, <3>1
  <2>3. CASE i \notin DOMAIN read
    BY <1>1, <2>1, <2>3
  <2> QED  BY <2>2, <2>3
<1>4. MemShape(w.mem) /\ Logged(w.mem, wal.mem, read)
  BY <1>2, <1>3 DEF MemShape, Logged
<1> QED  BY <1>1, <1>4 DEF w

\* The log has the vector of one memory.
LEMMA LogOneIs ==
    ASSUME Shape, NEW i \in DOMAIN ram.mem, NEW read, DOMAIN read = {i},
           NEW logged, logged = Backfill!LogVectors(read)
    PROVE  /\ DOMAIN logged = {"mem", "sem", "blank"}
           /\ MemShape(logged.mem) /\ DOMAIN logged.mem = DOMAIN wal.mem
           /\ logged.mem[i].text = read[i] /\ logged.mem[i].dead = wal.mem[i].dead
           /\ \A j \in DOMAIN wal.mem \ {i} : logged.mem[j] = wal.mem[j]
<1>1. i \in DOMAIN wal.mem /\ MemShape(wal.mem)
  BY DEF Shape
<1>2. /\ DOMAIN logged = {"mem", "sem", "blank"} /\ MemShape(logged.mem)
      /\ Logged(logged.mem, wal.mem, read)
  BY <1>1, LogVectorsIs
<1> QED  BY <1>1, <1>2 DEF Logged

LEMMA UpdateVectorIs ==
    ASSUME Shape, NEW i \in DOMAIN ram.mem, NEW text, Backfill!UpdateVector(i, text)
    PROVE  /\ Shape' /\ DOMAIN ram'.mem = DOMAIN ram.mem
           /\ \A j \in DOMAIN ram.mem \ {i} : /\ ram'.mem[j] = ram.mem[j]
                                              /\ wal'.mem[j] = wal.mem[j]
           /\ ram'.mem[i].text = text /\ wal'.mem[i].text = text
           /\ ram'.mem[i].dead = ram.mem[i].dead /\ wal'.mem[i].dead = wal.mem[i].dead
           /\ ram'.mem[i].pending = ram.mem[i].pending
           /\ ram'.sem = ram.sem \cup {i} /\ ram'.graph = ram.graph \cup {i}
           /\ env'.slot = env.slot /\ env'.drain = env.drain
           /\ env'.given = env.given /\ env'.grown = env.grown
           /\ env'.count = env.count
<1> DEFINE new == [ram.mem[i] EXCEPT !.text = text]
           read == [j \in {i} |-> text]
<1>1. i \in DOMAIN wal.mem /\ MemShape(ram.mem) /\ DOMAIN wal.mem = DOMAIN ram.mem
  BY DEF Shape
<1>2. /\ ram' = [mem |-> [ram.mem EXCEPT ![i].text = text],
                 sem |-> ram.sem \cup {i}, graph |-> ram.graph \cup {i}]
      /\ wal' = Backfill!LogVectors(read)
      /\ env' = [env EXCEPT !.edits = @ + 1]
  BY DEF Backfill!UpdateVector
<1>3. /\ DOMAIN wal' = {"mem", "sem", "blank"}
      /\ MemShape(wal'.mem) /\ DOMAIN wal'.mem = DOMAIN wal.mem
      /\ wal'.mem[i].text = text /\ wal'.mem[i].dead = wal.mem[i].dead
      /\ \A j \in DOMAIN wal.mem \ {i} : wal'.mem[j] = wal.mem[j]
  <2>1. DOMAIN read = {i} /\ read[i] = text
    OBVIOUS
  <2> DEFINE logged == Backfill!LogVectors(read)
  <2> HIDE DEF read
  <2>2. logged = Backfill!LogVectors(read)
    OBVIOUS
  <2>4. wal' = logged
    BY <1>2
  <2> HIDE DEF logged
  <2>3. /\ DOMAIN logged = {"mem", "sem", "blank"}
        /\ MemShape(logged.mem) /\ DOMAIN logged.mem = DOMAIN wal.mem
        /\ logged.mem[i].text = read[i] /\ logged.mem[i].dead = wal.mem[i].dead
        /\ \A j \in DOMAIN wal.mem \ {i} : logged.mem[j] = wal.mem[j]
    BY <2>1, <2>2, LogOneIs
  <2> QED  BY <2>1, <2>3, <2>4
<1>4. /\ DOMAIN ram' = {"mem", "sem", "graph"} /\ ram'.mem = [ram.mem EXCEPT ![i] = new]
      /\ ram'.sem = ram.sem \cup {i} /\ ram'.graph = ram.graph \cup {i}
  BY <1>2
<1>5. /\ DOMAIN env' = DOMAIN env /\ env'.slot = env.slot /\ env'.drain = env.drain
      /\ env'.given = env.given /\ env'.grown = env.grown /\ env'.count = env.count
  BY <1>2 DEF Shape
<1>6. /\ DOMAIN new = {"text", "dead", "pending", "super", "keyword"} /\ new.text = text
      /\ new.dead = ram.mem[i].dead /\ new.pending = ram.mem[i].pending
  BY DEF Shape, MemShape
<1> HIDE DEF new
<1>7. /\ DOMAIN ram'.mem = DOMAIN ram.mem /\ ram'.mem[i] = new
      /\ \A j \in DOMAIN ram.mem \ {i} : ram'.mem[j] = ram.mem[j]
  BY <1>4
<1>8. MemShape(ram'.mem)
  BY <1>1, <1>6, <1>7 DEF MemShape
<1>9. Shape'
  BY <1>1, <1>3, <1>4, <1>5, <1>7, <1>8 DEF Shape
<1> QED  BY <1>1, <1>3, <1>4, <1>5, <1>6, <1>7, <1>9

LEMMA BackfillEmbeddingIs ==
    ASSUME Shape, NEW i \in DOMAIN ram.mem, Backfill!BackfillEmbedding(i)
    PROVE  /\ Shape' /\ DOMAIN ram'.mem = DOMAIN ram.mem
           /\ \A j \in DOMAIN ram.mem \ {i} : /\ ram'.mem[j] = ram.mem[j]
                                              /\ wal'.mem[j] = wal.mem[j]
           /\ ram'.mem[i].text = ram.mem[i].text /\ wal'.mem[i].text = ram.mem[i].text
           /\ ram'.mem[i].dead = ram.mem[i].dead /\ wal'.mem[i].dead = wal.mem[i].dead
           /\ ram.mem[i].pending /\ ~ram'.mem[i].pending
           /\ ~ram.mem[i].dead \/ \E d \in Drains : i \in env.drain[d].ids
           /\ ram'.sem = ram.sem \cup {i} /\ ram'.graph = ram.graph \cup {i}
           /\ env'.slot = env.slot /\ env'.drain = env.drain
           /\ env'.given = env.given /\ env'.grown = env.grown
           /\ env'.count = env.count - 1
<1> DEFINE same == i \notin ram.sem /\ \E j \in ram.sem \ {i} : Alike(i, j) /\ ~ram.mem[j].dead
           read == [j \in {i} |-> ram.mem[i].text]
           logged == Backfill!LogVectors(read)
           new == [ram.mem[i] EXCEPT !.pending = FALSE, !.super = @ \/ same]
           old == [logged.mem[i] EXCEPT !.super = @ \/ same]
<1>1. i \in DOMAIN wal.mem /\ MemShape(wal.mem) /\ MemShape(ram.mem)
  BY DEF Shape
<1>2. /\ DOMAIN logged = {"mem", "sem", "blank"}
      /\ MemShape(logged.mem) /\ DOMAIN logged.mem = DOMAIN wal.mem
      /\ logged.mem[i].text = ram.mem[i].text /\ logged.mem[i].dead = wal.mem[i].dead
      /\ \A j \in DOMAIN wal.mem \ {i} : logged.mem[j] = wal.mem[j]
  <2>1. DOMAIN read = {i} /\ read[i] = ram.mem[i].text
    OBVIOUS
  <2> HIDE DEF read
  <2>2. logged = Backfill!LogVectors(read)
    OBVIOUS
  <2> HIDE DEF logged
  <2> QED  BY <2>1, <2>2, LogOneIs
<1>3. /\ ram' = [mem |-> [ram.mem EXCEPT ![i] = new],
                 sem |-> ram.sem \cup {i}, graph |-> ram.graph \cup {i}]
      /\ wal' = [logged EXCEPT !.mem[i].super = @ \/ same]
      /\ env' = [env EXCEPT !.count = @ - 1]
      /\ ram.mem[i].pending
      /\ ~ram.mem[i].dead \/ \E d \in Drains : i \in env.drain[d].ids
  BY DEF Backfill!BackfillEmbedding, Backfill!Accepted, Backfill!HandedOut
<1>4. /\ DOMAIN new = {"text", "dead", "pending", "super", "keyword"}
      /\ new.text = ram.mem[i].text /\ new.dead = ram.mem[i].dead /\ ~new.pending
  <2>1. DOMAIN ram.mem[i] = {"text", "dead", "pending", "super", "keyword"}
    BY <1>1 DEF MemShape
  <2> HIDE DEF same
  <2> QED  BY <2>1
<1> HIDE DEF same, new, logged
<1>5. /\ DOMAIN ram' = {"mem", "sem", "graph"}
      /\ ram'.mem = [ram.mem EXCEPT ![i] = new]
      /\ ram'.sem = ram.sem \cup {i} /\ ram'.graph = ram.graph \cup {i}
  BY <1>3
<1>6. /\ DOMAIN env' = DOMAIN env /\ env'.slot = env.slot /\ env'.drain = env.drain
      /\ env'.given = env.given /\ env'.grown = env.grown /\ env'.count = env.count - 1
  BY <1>3 DEF Shape
<1>7. DOMAIN wal' = {"mem", "sem", "blank"} /\ wal'.mem = [logged.mem EXCEPT ![i] = old]
  BY <1>1, <1>2, <1>3
<1>8. /\ DOMAIN old = {"text", "dead", "pending", "super", "keyword"}
      /\ old.text = ram.mem[i].text /\ old.dead = wal.mem[i].dead
  <2>1. DOMAIN logged.mem[i] = {"text", "dead", "pending", "super", "keyword"}
    BY <1>1, <1>2 DEF MemShape
  <2> QED  BY <1>2, <2>1
<1> HIDE DEF old
<1>9. /\ DOMAIN ram'.mem = DOMAIN ram.mem /\ DOMAIN wal'.mem = DOMAIN wal.mem
      /\ ram'.mem[i] = new /\ wal'.mem[i] = old
      /\ \A j \in DOMAIN ram.mem \ {i} : ram'.mem[j] = ram.mem[j]
      /\ \A j \in DOMAIN wal.mem \ {i} : wal'.mem[j] = wal.mem[j]
  BY <1>1, <1>2, <1>5, <1>7
<1>10. MemShape(ram'.mem) /\ MemShape(wal'.mem)
  BY <1>1, <1>4, <1>8, <1>9 DEF MemShape
<1>11. Shape'
  BY <1>5, <1>6, <1>7, <1>9, <1>10 DEF Shape
<1> QED  BY <1>3, <1>4, <1>5, <1>6, <1>8, <1>9, <1>11 DEF Shape

\* The steps of a drain before it applies leave the memories alone.
DrainOnly ==
    /\ ram'.mem = ram.mem /\ env'.count = env.count
    /\ env'.given = env.given /\ env'.grown = env.grown

Others(d) == \A e \in Drains \ {d} : env'.drain[e] = env.drain[e]

LEMMA FetchIs ==
    ASSUME Shape, NEW d \in Drains, Backfill!Fetch(d)
    PROVE  /\ Shape' /\ DrainOnly /\ Others(d) /\ ram' = ram /\ wal' = wal
           /\ env.drain[d].pc = "idle" /\ env'.drain[d].pc = "fetched"
           /\ env'.drain[d].ids \subseteq Backfill!Pending(ram.mem)
           /\ env'.slot = env.slot
<1> DEFINE p == Backfill!PendingEmbeddings
           new == [env.drain[d] EXCEPT !.pc = "fetched", !.ids = p]
<1>1. p \subseteq Backfill!Pending(ram.mem)
  BY DEF Backfill!PendingEmbeddings
<1>2. /\ env.drain[d].pc = "idle" /\ ram' = ram /\ wal' = wal
      /\ env' = [env EXCEPT !.drain[d].pc = "fetched", !.drain[d].ids = p]
  BY DEF Backfill!Fetch
<1> HIDE DEF p
<1>3. /\ DOMAIN env' = DOMAIN env /\ env'.slot = env.slot /\ env'.count = env.count
      /\ env'.given = env.given /\ env'.grown = env.grown
      /\ env'.drain = [env.drain EXCEPT ![d] = new]
  BY <1>2 DEF Shape
<1>4. DOMAIN new = {"pc", "ids", "read", "plan"} /\ new.pc = "fetched" /\ new.ids = p
  BY DEF Shape
<1> HIDE DEF new
<1>5. /\ DOMAIN env'.drain = Drains /\ env'.drain[d] = new
      /\ \A e \in Drains \ {d} : env'.drain[e] = env.drain[e]
  BY <1>3 DEF Shape
<1>6. Shape'
  BY <1>2, <1>3, <1>4, <1>5 DEF Shape
<1> QED  BY <1>1, <1>2, <1>3, <1>4, <1>5, <1>6 DEF DrainOnly, Others

LEMMA StageReadIs ==
    ASSUME Shape, NEW d \in Drains, Backfill!StageRead(d)
    PROVE  /\ Shape' /\ DrainOnly /\ Others(d) /\ ram' = ram /\ wal' = wal
           /\ env.drain[d].pc = "fetched" /\ env'.drain[d].pc = "read"
           /\ env'.drain[d].ids = env.drain[d].ids
           /\ \A i \in DOMAIN env'.drain[d].read :
                /\ i \in DOMAIN ram.mem /\ i \in env.drain[d].ids
                /\ env'.drain[d].read[i] = ram.mem[i].text
           /\ env'.slot = env.slot
<1> DEFINE S == Backfill!Accepted(env.drain[d].ids)
           read == [i \in S |-> ram.mem[i].text]
           new == [env.drain[d] EXCEPT !.pc = "read", !.read = read]
<1>1. S \subseteq DOMAIN ram.mem /\ S \subseteq env.drain[d].ids
  BY DEF Backfill!Accepted
<1>2. /\ env.drain[d].pc = "fetched" /\ ram' = ram /\ wal' = wal
      /\ env' = [env EXCEPT !.drain[d].pc = "read", !.drain[d].read = read]
  BY DEF Backfill!StageRead
<1> HIDE DEF S
<1>3. DOMAIN read = S /\ \A i \in S : read[i] = ram.mem[i].text
  OBVIOUS
<1> HIDE DEF read
<1>4. /\ DOMAIN env' = DOMAIN env /\ env'.slot = env.slot /\ env'.count = env.count
      /\ env'.given = env.given /\ env'.grown = env.grown
      /\ env'.drain = [env.drain EXCEPT ![d] = new]
  BY <1>2 DEF Shape
<1>5. /\ DOMAIN new = {"pc", "ids", "read", "plan"} /\ new.pc = "read"
      /\ new.ids = env.drain[d].ids /\ new.read = read
  BY DEF Shape
<1> HIDE DEF new
<1>6. /\ DOMAIN env'.drain = Drains /\ env'.drain[d] = new
      /\ \A e \in Drains \ {d} : env'.drain[e] = env.drain[e]
  BY <1>4 DEF Shape
<1>7. Shape'
  BY <1>2, <1>4, <1>5, <1>6 DEF Shape
<1> QED  BY <1>1, <1>2, <1>3, <1>4, <1>5, <1>6, <1>7 DEF DrainOnly, Others

LEMMA StageWriteIs ==
    ASSUME Shape, ReadInv, NEW d \in Drains, Backfill!StageWrite(d)
    PROVE  /\ Shape' /\ DrainOnly /\ Others(d)
           /\ env.drain[d].pc = "read" /\ env'.drain[d].pc = "staged"
           /\ env'.drain[d].ids = env.drain[d].ids
           /\ Logged(wal'.mem, wal.mem, env.drain[d].read)
           /\ ram'.sem = ram.sem \cup DOMAIN env.drain[d].read
           /\ ram'.graph = ram.graph \ DOMAIN env.drain[d].read
           /\ env'.slot.open /\ env'.slot.ids = DOMAIN env.drain[d].read
<1> DEFINE read == env.drain[d].read
           slot == [open |-> TRUE, ids |-> DOMAIN read, plan |-> {}]
           new == [env.drain[d] EXCEPT !.pc = "staged"]
<1>1. /\ env.drain[d].pc = "read" /\ wal' = Backfill!LogVectors(read)
      /\ ram' = [ram EXCEPT !.sem = @ \cup DOMAIN read, !.graph = @ \ DOMAIN read]
      /\ env' = [env EXCEPT !.drain[d].pc = "staged", !.slot = slot]
  BY DEF Backfill!StageWrite
<1>2. DOMAIN slot = {"open", "ids", "plan"} /\ slot.open /\ slot.ids = DOMAIN read
  OBVIOUS
<1> HIDE DEF slot
<1>4. MemShape(wal.mem) /\ DOMAIN wal.mem = DOMAIN ram.mem
  BY DEF Shape
<1>5. /\ DOMAIN wal' = {"mem", "sem", "blank"} /\ MemShape(wal'.mem)
      /\ Logged(wal'.mem, wal.mem, read)
  BY <1>1, <1>4, LogVectorsIs
<1>6. /\ DOMAIN ram' = DOMAIN ram /\ ram'.mem = ram.mem
      /\ ram'.sem = ram.sem \cup DOMAIN read /\ ram'.graph = ram.graph \ DOMAIN read
  BY <1>1 DEF Shape
<1>7. /\ DOMAIN env' = DOMAIN env /\ env'.slot = slot /\ env'.count = env.count
      /\ env'.given = env.given /\ env'.grown = env.grown
      /\ env'.drain = [env.drain EXCEPT ![d] = new]
  BY <1>1 DEF Shape
<1>8. /\ DOMAIN new = {"pc", "ids", "read", "plan"} /\ new.pc = "staged"
      /\ new.ids = env.drain[d].ids
  BY DEF Shape
<1> HIDE DEF new
<1>9. /\ DOMAIN env'.drain = Drains /\ env'.drain[d] = new
      /\ \A e \in Drains \ {d} : env'.drain[e] = env.drain[e]
  BY <1>7 DEF Shape
<1>10. DOMAIN wal'.mem = DOMAIN ram'.mem
  BY <1>4, <1>5, <1>6 DEF Logged
<1>11. Shape'
  <2>1. MemShape(ram'.mem)
    BY <1>6 DEF Shape
  <2> QED  BY <1>2, <1>5, <1>6, <1>7, <1>8, <1>9, <1>10, <2>1 DEF Shape
<1> QED  BY <1>1, <1>2, <1>5, <1>6, <1>7, <1>8, <1>9, <1>11 DEF DrainOnly, Others

LEMMA PlanReadIs ==
    ASSUME Shape, NEW d \in Drains, Backfill!PlanRead(d)
    PROVE  /\ Shape' /\ DrainOnly /\ Others(d) /\ ram' = ram /\ wal' = wal
           /\ env.drain[d].pc = "staged" /\ env'.drain[d].pc = "planned"
           /\ env'.drain[d].ids = env.drain[d].ids
           /\ env'.drain[d].plan = (env.slot.ids \cap ram.sem) \ ram.graph
           /\ env'.slot = env.slot
<1> DEFINE plan == (env.slot.ids \cap ram.sem) \ ram.graph
           new == [env.drain[d] EXCEPT !.pc = "planned", !.plan = plan]
<1>1. /\ env.drain[d].pc = "staged" /\ ram' = ram /\ wal' = wal
      /\ env' = [env EXCEPT !.drain[d].pc = "planned", !.drain[d].plan = plan]
  BY DEF Backfill!PlanRead
<1> HIDE DEF plan
<1>2. /\ DOMAIN env' = DOMAIN env /\ env'.slot = env.slot /\ env'.count = env.count
      /\ env'.given = env.given /\ env'.grown = env.grown
      /\ env'.drain = [env.drain EXCEPT ![d] = new]
  BY <1>1 DEF Shape
<1>3. /\ DOMAIN new = {"pc", "ids", "read", "plan"} /\ new.pc = "planned"
      /\ new.ids = env.drain[d].ids /\ new.plan = plan
  BY DEF Shape
<1> HIDE DEF new
<1>4. /\ DOMAIN env'.drain = Drains /\ env'.drain[d] = new
      /\ \A e \in Drains \ {d} : env'.drain[e] = env.drain[e]
  BY <1>2 DEF Shape
<1>5. Shape'
  BY <1>1, <1>2, <1>3, <1>4 DEF Shape
<1> QED  BY <1>1, <1>2, <1>3, <1>4, <1>5 DEF DrainOnly, Others, plan

LEMMA PlanWriteIs ==
    ASSUME Shape, NEW d \in Drains, Backfill!PlanWrite(d)
    PROVE  /\ Shape' /\ DrainOnly /\ Others(d) /\ ram' = ram /\ wal' = wal
           /\ env.drain[d].pc = "planned" /\ env'.drain[d].pc = "apply"
           /\ env'.drain[d].ids = env.drain[d].ids
           /\ env'.slot.ids = env.slot.ids /\ env'.slot.open = env.slot.open
           /\ env.slot.open => \/ env.drain[d].plan = {}
                               \/ env'.slot.plan = env.drain[d].plan
<1> DEFINE plan == IF env.slot.open /\ env.drain[d].plan # {}
                   THEN env.drain[d].plan ELSE env.slot.plan
           new == [env.drain[d] EXCEPT !.pc = "apply"]
           slot == [env.slot EXCEPT !.plan = plan]
<1>1. /\ env.drain[d].pc = "planned" /\ ram' = ram /\ wal' = wal
      /\ env' = [env EXCEPT !.drain[d].pc = "apply", !.slot.plan = plan]
  BY DEF Backfill!PlanWrite
<1>2. env.slot.open => \/ env.drain[d].plan = {} \/ plan = env.drain[d].plan
  OBVIOUS
<1> HIDE DEF plan
<1>3. /\ DOMAIN env' = DOMAIN env /\ env'.slot = slot /\ env'.count = env.count
      /\ env'.given = env.given /\ env'.grown = env.grown
      /\ env'.drain = [env.drain EXCEPT ![d] = new]
  BY <1>1 DEF Shape
<1>4. /\ DOMAIN new = {"pc", "ids", "read", "plan"} /\ new.pc = "apply"
      /\ new.ids = env.drain[d].ids
      /\ DOMAIN slot = {"open", "ids", "plan"} /\ slot.ids = env.slot.ids
      /\ slot.plan = plan /\ slot.open = env.slot.open
  BY DEF Shape
<1> HIDE DEF new, slot
<1>5. /\ DOMAIN env'.drain = Drains /\ env'.drain[d] = new
      /\ \A e \in Drains \ {d} : env'.drain[e] = env.drain[e]
  BY <1>3 DEF Shape
<1>6. Shape'
  BY <1>1, <1>3, <1>4, <1>5 DEF Shape
<1> QED  BY <1>1, <1>2, <1>3, <1>4, <1>5, <1>6 DEF DrainOnly, Others

LEMMA ApplyIs ==
    ASSUME IsFiniteSet(BackfillIds), Shape, NEW d \in Drains, Backfill!Apply(d)
    PROVE  \E clear \in SUBSET DOMAIN ram.mem :
             /\ clear = {i \in env.slot.ids \cap DOMAIN ram.mem : ram.mem[i].pending}
             /\ Shape' /\ Cleared(ram'.mem, ram.mem, clear) /\ wal' = wal
             /\ ram'.sem = ram.sem
             /\ ram'.graph = ram.graph \cup (env.slot.plan \cap ram.sem)
             /\ Others(d) /\ env.drain[d].pc = "apply"
             /\ env'.drain[d].pc = "idle" /\ env'.drain[d].ids = {}
             /\ env'.slot.ids = {} /\ env'.given = env.given /\ env'.grown = env.grown
             /\ env'.count = env.count - Cardinality(clear)
<1> DEFINE clear == Backfill!Accepted(env.slot.ids)
           rest == Backfill!Resting
           none == Backfill!NoStage
<1>1. /\ clear = {i \in env.slot.ids \cap DOMAIN ram.mem : ram.mem[i].pending}
      /\ clear \in SUBSET DOMAIN ram.mem
  BY DEF Backfill!Accepted
<1>2. /\ DOMAIN rest = {"pc", "ids", "read", "plan"} /\ rest.pc = "idle" /\ rest.ids = {}
      /\ DOMAIN none = {"open", "ids", "plan"} /\ none.ids = {}
  BY DEF Backfill!Resting, Backfill!NoStage
<1>3. /\ env.drain[d].pc = "apply" /\ wal' = wal
      /\ ram' = [ram EXCEPT !.graph = @ \cup (env.slot.plan \cap ram.sem),
                            !.mem = Backfill!Flag(@, clear, FALSE)]
      /\ env' = [env EXCEPT !.slot = none, !.drain[d] = rest,
                            !.count = @ - Cardinality(clear)]
  BY DEF Backfill!Apply, Backfill!Cardinality, Cardinality
<1> HIDE DEF clear, rest, none
<1>4. /\ DOMAIN ram' = DOMAIN ram /\ ram'.sem = ram.sem
      /\ ram'.graph = ram.graph \cup (env.slot.plan \cap ram.sem)
      /\ ram'.mem = Backfill!Flag(ram.mem, clear, FALSE)
  BY <1>3 DEF Shape
<1>5. /\ DOMAIN env' = DOMAIN env /\ env'.slot = none
      /\ env'.drain = [env.drain EXCEPT ![d] = rest]
      /\ env'.given = env.given /\ env'.grown = env.grown
      /\ env'.count = env.count - Cardinality(clear)
  BY <1>3 DEF Shape
<1>6. /\ DOMAIN env'.drain = Drains /\ env'.drain[d] = rest
      /\ \A e \in Drains \ {d} : env'.drain[e] = env.drain[e]
  BY <1>5 DEF Shape
<1>7. MemShape(ram'.mem) /\ Cleared(ram'.mem, ram.mem, clear)
  <2>1. MemShape(ram.mem)
    BY DEF Shape
  <2> QED  BY <1>4, <2>1, FlagClears
<1>8. Cardinality(clear) \in Nat
  <2>1. clear \subseteq BackfillIds
    BY <1>1 DEF Shape, MemShape
  <2> QED  BY <2>1, FS_Subset, FS_CardinalityType
<1>9. Shape'
  <2>1. DOMAIN ram'.mem = DOMAIN ram.mem
    BY <1>7 DEF Cleared
  <2>2. MemShape(wal'.mem) /\ DOMAIN wal' = DOMAIN wal /\ DOMAIN wal'.mem = DOMAIN ram'.mem
    BY <1>3, <2>1 DEF Shape
  <2>3. env'.count \in Int /\ DOMAIN env'.slot = {"open", "ids", "plan"}
        /\ DOMAIN env'.drain = Drains
        /\ \A e \in Drains : DOMAIN env'.drain[e] = {"pc", "ids", "read", "plan"}
    BY <1>2, <1>5, <1>6, <1>8 DEF Shape
  <2> QED  BY <1>4, <1>5, <1>7, <2>2, <2>3 DEF Shape
<1> QED  BY <1>1, <1>2, <1>3, <1>4, <1>5, <1>6, <1>7, <1>9 DEF Others

LEMMA RestartIs ==
    ASSUME IsFiniteSet(BackfillIds), Shape, Backfill!Restart
    PROVE  \E hit \in SUBSET DOMAIN ram.mem :
             /\ \A i \in DOMAIN ram.mem \ wal.sem :
                  ~wal.mem[i].dead /\ wal.mem[i].text \in Backfill!Long => i \in hit
             /\ Shape' /\ Marked(ram'.mem, wal.mem, hit) /\ wal' = wal
             /\ ram'.sem = wal.sem /\ ram'.graph = wal.sem
             /\ \A d \in Drains : env'.drain[d].pc = "idle" /\ env'.drain[d].ids = {}
             /\ env'.slot.ids = {}
             /\ env'.count = Cardinality(Backfill!Pending(ram'.mem))
<1> DEFINE hit == (Backfill!Live(wal.mem) \cap wal.blank)
                    \cup (Backfill!Embeddable(wal.mem) \ wal.sem)
           rest == Backfill!Resting
           none == Backfill!NoStage
           mem == Backfill!Flag(wal.mem, hit, TRUE)
           count == Cardinality(Backfill!Pending(mem))
<1>1. /\ \A i \in DOMAIN ram.mem \ wal.sem :
           ~wal.mem[i].dead /\ wal.mem[i].text \in Backfill!Long => i \in hit
      /\ hit \in SUBSET DOMAIN ram.mem
  BY DEF Backfill!Embeddable, Backfill!Live, Shape
<1>2. /\ DOMAIN rest = {"pc", "ids", "read", "plan"} /\ rest.pc = "idle" /\ rest.ids = {}
      /\ DOMAIN none = {"open", "ids", "plan"} /\ none.ids = {}
  BY DEF Backfill!Resting, Backfill!NoStage
<1>3. /\ wal' = wal /\ ram' = [mem |-> mem, sem |-> wal.sem, graph |-> wal.sem]
      /\ env' = [env EXCEPT !.slot = none, !.drain = [d \in Drains |-> rest],
                            !.count = count, !.given = {}, !.grown = {},
                            !.crashes = @ + 1]
  BY DEF Backfill!Restart, Backfill!Reconciled, Backfill!Cardinality, Cardinality
<1>4. MemShape(mem) /\ Marked(mem, wal.mem, hit)
  <2>1. MemShape(wal.mem)
    BY DEF Shape
  <2> HIDE DEF hit
  <2> QED  BY <2>1, FlagMarks
<1> HIDE DEF hit, rest, none, mem
<1>5. count \in Nat
  <2>1. Backfill!Pending(mem) \subseteq BackfillIds
    BY <1>4 DEF Backfill!Pending, Backfill!Live, MemShape
  <2> QED  BY <2>1, FS_Subset, FS_CardinalityType
<1> HIDE DEF count
<1>6. /\ DOMAIN ram' = {"mem", "sem", "graph"} /\ ram'.mem = mem
      /\ ram'.sem = wal.sem /\ ram'.graph = wal.sem
  BY <1>3
<1>7. /\ DOMAIN env' = DOMAIN env /\ env'.slot = none /\ env'.count = count
      /\ env'.drain = [d \in Drains |-> rest]
  BY <1>3 DEF Shape
<1>8. DOMAIN env'.drain = Drains /\ \A d \in Drains : env'.drain[d] = rest
  BY <1>7
<1>9. Shape'
  <2>1. DOMAIN ram'.mem = DOMAIN wal.mem
    BY <1>4, <1>6 DEF Marked
  <2>2. MemShape(wal'.mem) /\ DOMAIN wal' = DOMAIN wal /\ DOMAIN wal'.mem = DOMAIN ram'.mem
    BY <1>3, <2>1 DEF Shape
  <2> QED  BY <1>2, <1>4, <1>5, <1>6, <1>7, <1>8, <2>2 DEF Shape
<1> QED  BY <1>1, <1>2, <1>3, <1>4, <1>6, <1>7, <1>8, <1>9 DEF count

-----------------------------------------------------------------------------
(* The backfill loses nothing                                               *)

\* Nothing joins Held and nothing is subtracted: the counter stays above.
LEMMA CountStays ==
    ASSUME IsFiniteSet(BackfillIds), Shape, Shape', env.count >= Cardinality(Held),
           Held' \subseteq Held, env'.count = env.count
    PROVE  env'.count >= Cardinality(Held')
<1>1. Cardinality({}) = 0 /\ IsFiniteSet({})
  BY FS_EmptySet
<1>2. env.count \in Int
  BY DEF Shape
<1>3. env'.count = env.count - Cardinality({}) + Cardinality({})
  BY <1>1, <1>2
<1>4. {} \subseteq Held /\ Held' \subseteq (Held \ {}) \cup {}
  OBVIOUS
<1> QED  BY <1>1, <1>3, <1>4, CountKept

\* One id leaves Held and the counter goes down by one.
LEMMA CountDown ==
    ASSUME IsFiniteSet(BackfillIds), Shape, Shape', env.count >= Cardinality(Held),
           NEW i \in Held, Held' \subseteq Held \ {i}, env'.count = env.count - 1
    PROVE  env'.count >= Cardinality(Held')
<1>1. Cardinality({}) = 0 /\ IsFiniteSet({}) /\ Cardinality({i}) = 1
  BY FS_EmptySet, FS_Singleton
<1>2. env.count \in Int
  BY DEF Shape
<1>3. env'.count = env.count - Cardinality({i}) + Cardinality({})
  BY <1>1, <1>2
<1>4. {i} \subseteq Held /\ Held' \subseteq (Held \ {i}) \cup {}
  OBVIOUS
<1> QED  BY <1>1, <1>3, <1>4, CountKept

LEMMA PutKeeps ==
    ASSUME IsFiniteSet(BackfillIds), BackfillInv, NEW i \in BackfillIds, NEW text,
           Backfill!Put(i, text)
    PROVE  BackfillInv'
<1> USE PutIs DEF BackfillInv
<1>1. LiveInv' /\ ReadInv' /\ SlotInv' /\ Queued'
  BY DEF LiveInv, ReadInv, SlotInv, Queued
<1>2. CASE text \in Backfill!Long
  <2>1. Held' \subseteq Held \cup {i}
    BY DEF Held
  <2>2. Cardinality({}) = 0 /\ IsFiniteSet({i}) /\ Cardinality({i}) = 1
    BY FS_EmptySet, FS_Singleton
  <2>3. env'.count = env.count - Cardinality({}) + Cardinality({i})
    BY <1>2, <2>2 DEF Shape
  <2>4. {} \subseteq Held /\ Held' \subseteq (Held \ {}) \cup {i}
    BY <2>1
  <2>5. env'.count >= Cardinality(Held')
    BY <2>2, <2>3, <2>4, CountKept
  <2> QED  BY <1>1, <2>5
<1>3. CASE text \notin Backfill!Long
  <2>1. Held' \subseteq Held
    BY <1>3 DEF Held
  <2>2. env'.count = env.count
    BY <1>3
  <2>3. env'.count >= Cardinality(Held')
    BY <2>1, <2>2, CountStays
  <2> QED  BY <1>1, <2>3
<1> QED  BY <1>2, <1>3

LEMMA UpdateContentKeeps ==
    ASSUME IsFiniteSet(BackfillIds), BackfillInv, NEW i \in DOMAIN ram.mem, NEW text,
           Backfill!UpdateContent(i, text)
    PROVE  BackfillInv'
<1> USE UpdateContentIs DEF BackfillInv
<1>1. LiveInv' /\ ReadInv' /\ SlotInv' /\ Queued'
  BY DEF LiveInv, ReadInv, SlotInv, Queued
<1>2. Held' \subseteq Held
  BY DEF Held
<1>3. env'.count >= Cardinality(Held')
  BY <1>2, CountStays
<1> QED  BY <1>1, <1>3

LEMMA UpdateVectorKeeps ==
    ASSUME IsFiniteSet(BackfillIds), BackfillInv, NEW i \in DOMAIN ram.mem, NEW text,
           Backfill!UpdateVector(i, text)
    PROVE  BackfillInv'
<1> USE UpdateVectorIs DEF BackfillInv
<1>1. LiveInv' /\ ReadInv' /\ SlotInv' /\ Queued'
  BY DEF LiveInv, ReadInv, SlotInv, Queued
<1>2. Held' \subseteq Held
  BY DEF Held
<1>3. env'.count >= Cardinality(Held')
  BY <1>2, CountStays
<1> QED  BY <1>1, <1>3

LEMMA ForgetKeeps ==
    ASSUME IsFiniteSet(BackfillIds), BackfillInv, NEW i \in DOMAIN ram.mem, Backfill!Forget(i)
    PROVE  BackfillInv'
<1> USE ForgetIs DEF BackfillInv
<1>1. LiveInv' /\ ReadInv' /\ SlotInv' /\ Queued'
  BY DEF LiveInv, ReadInv, SlotInv, Queued
<1>2. Held' \subseteq Held
  BY DEF Held
<1>3. env'.count >= Cardinality(Held')
  BY <1>2, CountStays
<1> QED  BY <1>1, <1>3

LEMMA ForceClearKeeps ==
    ASSUME IsFiniteSet(BackfillIds), BackfillInv, NEW i \in DOMAIN ram.mem,
           Backfill!ForceClear(i)
    PROVE  BackfillInv'
<1> USE ForceClearIs DEF BackfillInv
<1>1. LiveInv' /\ ReadInv' /\ SlotInv' /\ Queued'
  BY DEF LiveInv, ReadInv, SlotInv, Queued
<1>2. i \in Held /\ Held' \subseteq Held \ {i}
  BY DEF Held
<1>3. env'.count >= Cardinality(Held')
  BY <1>2, CountDown
<1> QED  BY <1>1, <1>3

LEMMA BackfillEmbeddingKeeps ==
    ASSUME IsFiniteSet(BackfillIds), BackfillInv, NEW i \in DOMAIN ram.mem,
           Backfill!BackfillEmbedding(i)
    PROVE  BackfillInv'
<1> USE BackfillEmbeddingIs DEF BackfillInv
<1>1. LiveInv' /\ ReadInv' /\ SlotInv' /\ Queued'
  BY DEF LiveInv, ReadInv, SlotInv, Queued
<1>2. i \in Held /\ Held' \subseteq Held \ {i}
  BY DEF Held
<1>3. env'.count >= Cardinality(Held')
  BY <1>2, CountDown
<1> QED  BY <1>1, <1>3

LEMMA RequeueCalls ==
    ASSUME Backfill!RequeueGhosts \/ Backfill!RequeueAll
    PROVE  \E ids \in SUBSET DOMAIN ram.mem : Backfill!Requeue(ids)
<1>1. CASE Backfill!RequeueGhosts
  <2>1. Backfill!Embeddable(ram.mem) \ ram.sem \in SUBSET DOMAIN ram.mem
    BY DEF Backfill!Embeddable, Backfill!Live
  <2> QED  BY <1>1, <2>1 DEF Backfill!RequeueGhosts
<1>2. CASE Backfill!RequeueAll
  <2>1. SUBSET Backfill!Live(ram.mem) \subseteq SUBSET DOMAIN ram.mem
    BY DEF Backfill!Live
  <2> QED  BY <1>2, <2>1 DEF Backfill!RequeueAll
<1> QED  BY <1>1, <1>2

LEMMA RequeueKeeps ==
    ASSUME IsFiniteSet(BackfillIds), BackfillInv, NEW ids, ids \subseteq DOMAIN ram.mem,
           Backfill!Requeue(ids)
    PROVE  BackfillInv'
<1> USE DEF BackfillInv
<1>1. PICK hit \in SUBSET DOMAIN ram.mem :
             /\ Shape' /\ Marked(ram'.mem, ram.mem, hit) /\ wal' = wal
             /\ ram'.sem = ram.sem /\ ram'.graph = ram.graph
             /\ env'.slot = env.slot /\ env'.drain = env.drain
             /\ env'.given = env.given \ hit /\ env'.grown = env.grown \ hit
             /\ env'.count = env.count + Cardinality(hit)
  BY RequeueIs
<1>2. LiveInv' /\ ReadInv' /\ SlotInv' /\ Queued'
  BY <1>1 DEF LiveInv, ReadInv, SlotInv, Queued, Marked
<1>3. Held' \subseteq Held \cup hit
  BY <1>1 DEF Held, Marked
<1>4. Cardinality({}) = 0 /\ IsFiniteSet(hit) /\ Cardinality(hit) \in Nat
  <2>1. hit \subseteq BackfillIds
    BY <1>1 DEF Shape, MemShape
  <2> QED  BY <2>1, FS_EmptySet, FS_Subset, FS_CardinalityType
<1>5. env'.count = env.count - Cardinality({}) + Cardinality(hit)
  BY <1>1, <1>4 DEF Shape
<1>6. {} \subseteq Held /\ Held' \subseteq (Held \ {}) \cup hit
  BY <1>3
<1>7. env'.count >= Cardinality(Held')
  BY <1>1, <1>4, <1>5, <1>6, CountKept
<1> QED  BY <1>1, <1>2, <1>7

LEMMA SaveKeeps ==
    ASSUME BackfillInv, Backfill!Save
    PROVE  BackfillInv'
<1> USE DEF BackfillInv
<1>1. PICK healed : Shape' /\ ram' = ram /\ env' = env /\ Marked(wal'.mem, ram.mem, healed)
  BY SaveIs
<1>2. LiveInv' /\ ReadInv' /\ SlotInv' /\ Queued' /\ Held' = Held
  BY <1>1 DEF LiveInv, ReadInv, SlotInv, Queued, Held, Marked
<1> QED  BY <1>1, <1>2

LEMMA FetchKeeps ==
    ASSUME IsFiniteSet(BackfillIds), BackfillInv, NEW d \in Drains, Backfill!Fetch(d)
    PROVE  BackfillInv'
<1> USE FetchIs DEF BackfillInv, DrainOnly, Others
<1>1. LiveInv' /\ ReadInv' /\ SlotInv' /\ Queued'
  BY DEF LiveInv, ReadInv, SlotInv, Queued
<1>2. Held' \subseteq Held
  BY DEF Held, Backfill!Pending, Backfill!Live
<1>3. env'.count >= Cardinality(Held')
  BY <1>2, CountStays
<1> QED  BY <1>1, <1>3

LEMMA StageReadKeeps ==
    ASSUME IsFiniteSet(BackfillIds), BackfillInv, NEW d \in Drains, Backfill!StageRead(d)
    PROVE  BackfillInv'
<1> USE StageReadIs DEF BackfillInv, DrainOnly, Others
<1>1. LiveInv' /\ SlotInv' /\ Queued'
  BY DEF LiveInv, SlotInv, Queued
<1>2. ReadInv'
  BY DEF ReadInv, LiveInv, Shape, MemShape
<1>3. Held' \subseteq Held
  BY DEF Held
<1>4. env'.count >= Cardinality(Held')
  BY <1>3, CountStays
<1> QED  BY <1>1, <1>2, <1>4

LEMMA StageWriteKeeps ==
    ASSUME IsFiniteSet(BackfillIds), BackfillInv, NEW d \in Drains, Backfill!StageWrite(d)
    PROVE  BackfillInv'
<1> USE StageWriteIs DEF BackfillInv, DrainOnly, Others
<1>1. SlotInv' /\ Queued' /\ ReadInv'
  BY DEF ReadInv, SlotInv, Queued
<1>2. LiveInv'
  BY DEF LiveInv, ReadInv, Logged, Shape
<1>3. Held' \subseteq Held
  BY DEF Held, ReadInv
<1>4. env'.count >= Cardinality(Held')
  BY <1>3, CountStays
<1> QED  BY <1>1, <1>2, <1>4

LEMMA PlanReadKeeps ==
    ASSUME IsFiniteSet(BackfillIds), BackfillInv, NEW d \in Drains, Backfill!PlanRead(d)
    PROVE  BackfillInv'
<1> USE PlanReadIs DEF BackfillInv, DrainOnly, Others
<1>1. LiveInv' /\ SlotInv' /\ Queued' /\ ReadInv'
  BY DEF LiveInv, SlotInv, Queued, ReadInv
<1>2. Held' \subseteq Held
  BY DEF Held
<1>3. env'.count >= Cardinality(Held')
  BY <1>2, CountStays
<1> QED  BY <1>1, <1>3

LEMMA PlanWriteKeeps ==
    ASSUME IsFiniteSet(BackfillIds), BackfillInv, NEW d \in Drains, Backfill!PlanWrite(d)
    PROVE  BackfillInv'
<1> USE PlanWriteIs DEF BackfillInv, DrainOnly, Others
<1>1. LiveInv' /\ SlotInv' /\ Queued' /\ ReadInv'
  BY DEF LiveInv, SlotInv, Queued, ReadInv
<1>2. Held' \subseteq Held
  BY DEF Held
<1>3. env'.count >= Cardinality(Held')
  BY <1>2, CountStays
<1> QED  BY <1>1, <1>3

LEMMA ApplyKeeps ==
    ASSUME IsFiniteSet(BackfillIds), BackfillInv, NEW d \in Drains, Backfill!Apply(d)
    PROVE  BackfillInv'
<1> USE DEF BackfillInv
<1>1. PICK clear \in SUBSET DOMAIN ram.mem :
             /\ clear = {i \in env.slot.ids \cap DOMAIN ram.mem : ram.mem[i].pending}
             /\ Shape' /\ Cleared(ram'.mem, ram.mem, clear) /\ wal' = wal
             /\ ram'.sem = ram.sem
             /\ Others(d) /\ env.drain[d].pc = "apply"
             /\ env'.drain[d].pc = "idle" /\ env'.drain[d].ids = {}
             /\ env'.slot.ids = {} /\ env'.given = env.given /\ env'.grown = env.grown
             /\ env'.count = env.count - Cardinality(clear)
  BY ApplyIs
<1>2. LiveInv' /\ ReadInv' /\ SlotInv' /\ Queued'
  BY <1>1 DEF LiveInv, ReadInv, SlotInv, Queued, Cleared, Others
<1>3. clear \subseteq Held /\ Held' \subseteq Held \ clear
  BY <1>1 DEF Held, Cleared, Others
<1>4. Cardinality({}) = 0 /\ IsFiniteSet({}) /\ Cardinality(clear) \in Nat
  <2>1. clear \subseteq BackfillIds
    BY <1>1 DEF Shape, MemShape
  <2> QED  BY <2>1, FS_EmptySet, FS_Subset, FS_CardinalityType
<1>5. env'.count = env.count - Cardinality(clear) + Cardinality({})
  BY <1>1, <1>4 DEF Shape
<1>6. Held' \subseteq (Held \ clear) \cup {}
  BY <1>3
<1>7. env'.count >= Cardinality(Held')
  BY <1>1, <1>3, <1>4, <1>5, <1>6, CountKept
<1> QED  BY <1>1, <1>2, <1>7

LEMMA RestartKeeps ==
    ASSUME IsFiniteSet(BackfillIds), BackfillInv, Backfill!Restart
    PROVE  BackfillInv'
<1> USE DEF BackfillInv
<1>1. PICK hit \in SUBSET DOMAIN ram.mem :
             /\ \A i \in DOMAIN ram.mem \ wal.sem :
                  ~wal.mem[i].dead /\ wal.mem[i].text \in Backfill!Long => i \in hit
             /\ Shape' /\ Marked(ram'.mem, wal.mem, hit) /\ wal' = wal
             /\ ram'.sem = wal.sem /\ ram'.graph = wal.sem
             /\ \A d \in Drains : env'.drain[d].pc = "idle" /\ env'.drain[d].ids = {}
             /\ env'.slot.ids = {}
             /\ env'.count = Cardinality(Backfill!Pending(ram'.mem))
  BY RestartIs
<1>2. DOMAIN wal.mem = DOMAIN ram.mem
  BY DEF Shape
<1>3. LiveInv' /\ ReadInv' /\ SlotInv' /\ Queued'
  BY <1>1, <1>2 DEF LiveInv, ReadInv, SlotInv, Queued, Marked
<1>4. Held' = Backfill!Pending(ram'.mem)
  BY <1>1 DEF Held, Backfill!Pending, Backfill!Live
<1>5. Cardinality(Held') \in Nat
  <2>1. Held' \subseteq BackfillIds
    BY <1>1 DEF Held, Shape, MemShape
  <2> QED  BY <2>1, FS_Subset, FS_CardinalityType
<1> QED  BY <1>1, <1>3, <1>4, <1>5

LEMMA BackfillInit ==
    ASSUME Backfill!Init
    PROVE  BackfillInv
<1>1. /\ DOMAIN ram = {"mem", "sem", "graph"} /\ ram.mem = <<>>
      /\ DOMAIN wal = {"mem", "sem", "blank"} /\ wal.mem = <<>>
      /\ DOMAIN env = {"slot", "drain", "count", "given", "grown", "edits", "crashes"}
      /\ env.slot = Backfill!NoStage /\ env.drain = [d \in Drains |-> Backfill!Resting]
      /\ env.count = 0
  BY DEF Backfill!Init
<1>2. DOMAIN ram.mem = {} /\ DOMAIN wal.mem = {}
  BY <1>1
<1>3. DOMAIN env.slot = {"open", "ids", "plan"} /\ env.slot.ids = {}
  BY <1>1 DEF Backfill!NoStage
<1>4. \A d \in Drains : /\ DOMAIN env.drain[d] = {"pc", "ids", "read", "plan"}
                        /\ env.drain[d].pc = "idle"
  BY <1>1 DEF Backfill!Resting
<1>5. Shape
  BY <1>1, <1>2, <1>3, <1>4 DEF Shape, MemShape
<1>6. LiveInv /\ ReadInv /\ SlotInv /\ Queued
  BY <1>2, <1>3, <1>4 DEF LiveInv, ReadInv, SlotInv, Queued
<1>7. Held = {}
  BY <1>2 DEF Held
<1>8. env.count >= Cardinality(Held)
  BY <1>1, <1>7, FS_EmptySet
<1> QED  BY <1>5, <1>6, <1>8 DEF BackfillInv

LEMMA BackfillStep ==
    ASSUME IsFiniteSet(BackfillIds), BackfillInv, [Backfill!Next]_<<ram, wal, env>>
    PROVE  BackfillInv'
<1>1. CASE \E i \in BackfillIds : \E text \in Backfill!Texts(FALSE) : Backfill!Put(i, text)
  BY <1>1, PutKeeps
<1>2. ASSUME NEW i \in DOMAIN ram.mem,
             Backfill!Forget(i) \/ Backfill!ForceClear(i) \/ Backfill!BackfillEmbedding(i)
      PROVE  BackfillInv'
  BY <1>2, ForgetKeeps, ForceClearKeeps, BackfillEmbeddingKeeps
<1>8. ASSUME NEW i \in DOMAIN ram.mem, NEW text,
             Backfill!UpdateContent(i, text) \/ Backfill!UpdateVector(i, text)
      PROVE  BackfillInv'
  BY <1>8, UpdateContentKeeps, UpdateVectorKeeps
<1>3. CASE Backfill!RequeueGhosts \/ Backfill!RequeueAll
  BY <1>3, RequeueCalls, RequeueKeeps
<1>4. CASE Backfill!Save
  BY <1>4, SaveKeeps
<1>5. ASSUME NEW d \in Drains, Backfill!Step(d)
      PROVE  BackfillInv'
  BY <1>5, FetchKeeps, StageReadKeeps, StageWriteKeeps, PlanReadKeeps, PlanWriteKeeps,
     ApplyKeeps DEF Backfill!Step
<1>6. CASE Backfill!Restart
  BY <1>6, RestartKeeps
<1>7. CASE UNCHANGED <<ram, wal, env>>
  BY <1>7 DEF BackfillInv, Shape, LiveInv, ReadInv, SlotInv, Queued, Held
<1> QED  BY <1>1, <1>2, <1>3, <1>4, <1>5, <1>6, <1>7, <1>8
         DEF Backfill!Next, Backfill!Call

\* A pending memory can still be handed in, and the counter counts those.
LEMMA NoneLostHolds == BackfillInv => Backfill!NoneLost
<1> SUFFICES ASSUME BackfillInv PROVE Backfill!NoneLost
  OBVIOUS
<1>1. Backfill!Embeddable(ram.mem) \subseteq ram.sem \cup Backfill!Pending(ram.mem)
                                              \cup env.given \cup env.grown
  BY DEF BackfillInv, Queued, Backfill!Embeddable, Backfill!Pending, Backfill!Live
<1>2. Backfill!Pending(ram.mem) \subseteq Held
  BY DEF Held, Backfill!Pending, Backfill!Live
<1>3. /\ Cardinality(Backfill!Pending(ram.mem)) \in Nat /\ Cardinality(Held) \in Nat
      /\ Cardinality(Backfill!Pending(ram.mem)) <= Cardinality(Held)
  BY <1>2, HeldCounts, ServiceAssumption DEF BackfillInv
<1>4. env.count >= Cardinality(Held) /\ env.count \in Int
  BY DEF BackfillInv, Shape
<1>5. env.count >= Cardinality(Backfill!Pending(ram.mem))
  BY <1>3, <1>4
<1> QED  BY <1>1, <1>5 DEF Backfill!NoneLost, Backfill!Cardinality, Cardinality

-----------------------------------------------------------------------------
(* One drain wires what it staged                                           *)

\* The vectors outside the graph are those of the batch in the slot, and the
\* plan the drain has made, and then written, names them all.
WiredInv ==
    LET unwired == ram.sem \ ram.graph
    IN  /\ unwired \subseteq env.slot.ids
        /\ \A d \in Drains :
             LET drain == env.drain[d]
             IN  /\ drain.pc \in {"idle", "fetched", "read", "staged", "planned", "apply"}
                 /\ drain.pc \in {"idle", "fetched", "read"} => env.slot.ids = {}
                 /\ drain.pc \in {"staged", "planned", "apply"} => env.slot.open
                 /\ drain.pc = "planned" => unwired \subseteq drain.plan
                 /\ drain.pc = "apply" => unwired \subseteq env.slot.plan

\* A call of the rpc interface takes no vector out of the graph.
LEMMA CallWires ==
    ASSUME WiredInv, env'.slot = env.slot, env'.drain = env.drain,
           ram'.sem \ ram'.graph \subseteq ram.sem \ ram.graph
    PROVE  WiredInv'
BY DEF WiredInv

LEMMA WiredStep ==
    ASSUME IsFiniteSet(BackfillIds), \A d, e \in Drains : d = e,
           BackfillInv, WiredInv, [Backfill!Next]_<<ram, wal, env>>
    PROVE  WiredInv'
<1>1. CASE \E i \in BackfillIds : \E text \in Backfill!Texts(FALSE) : Backfill!Put(i, text)
  BY <1>1, PutIs, CallWires DEF BackfillInv
<1>2. ASSUME NEW i \in DOMAIN ram.mem,
             Backfill!Forget(i) \/ Backfill!ForceClear(i) \/ Backfill!BackfillEmbedding(i)
      PROVE  WiredInv'
  <2>1. Shape
    BY DEF BackfillInv
  <2>3. CASE Backfill!Forget(i)
    <3>1. ram'.sem \ ram'.graph \subseteq ram.sem \ ram.graph
      BY <2>1, <2>3, ForgetIs
    <3> QED  BY <2>1, <2>3, <3>1, ForgetIs, CallWires
  <2>4. CASE Backfill!ForceClear(i)
    BY <2>1, <2>4, ForceClearIs, CallWires
  <2>5. CASE Backfill!BackfillEmbedding(i)
    <3>1. ram'.sem \ ram'.graph \subseteq ram.sem \ ram.graph
      BY <2>1, <2>5, BackfillEmbeddingIs
    <3> QED  BY <2>1, <2>5, <3>1, BackfillEmbeddingIs, CallWires
  <2> QED  BY <1>2, <2>3, <2>4, <2>5
<1>8. ASSUME NEW i \in DOMAIN ram.mem, NEW text,
             Backfill!UpdateContent(i, text) \/ Backfill!UpdateVector(i, text)
      PROVE  WiredInv'
  <2>1. Shape
    BY DEF BackfillInv
  <2>2. CASE Backfill!UpdateContent(i, text)
    BY <2>1, <2>2, UpdateContentIs, CallWires
  <2>3. CASE Backfill!UpdateVector(i, text)
    <3>1. ram'.sem \ ram'.graph \subseteq ram.sem \ ram.graph
      BY <2>1, <2>3, UpdateVectorIs
    <3> QED  BY <2>1, <2>3, <3>1, UpdateVectorIs, CallWires
  <2> QED  BY <1>8, <2>2, <2>3
<1>3. CASE Backfill!RequeueGhosts \/ Backfill!RequeueAll
  <2>1. /\ env'.slot = env.slot /\ env'.drain = env.drain
        /\ ram'.sem = ram.sem /\ ram'.graph = ram.graph
    BY <1>3, RequeueCalls, RequeueIs DEF BackfillInv
  <2> QED  BY <2>1, CallWires
<1>4. CASE Backfill!Save
  BY <1>4, SaveIs, CallWires DEF BackfillInv
<1>5. ASSUME NEW d \in Drains, Backfill!Step(d)
      PROVE  WiredInv'
  <2>1. Shape /\ ReadInv /\ Drains = {d}
    BY DEF BackfillInv
  <2>2. CASE Backfill!Fetch(d)
    BY <2>1, <2>2, FetchIs DEF WiredInv
  <2>3. CASE Backfill!StageRead(d)
    BY <2>1, <2>3, StageReadIs DEF WiredInv
  <2>4. CASE Backfill!StageWrite(d)
    <3>1. ram'.sem \ ram'.graph \subseteq env'.slot.ids
      BY <2>1, <2>4, StageWriteIs DEF WiredInv
    <3> QED  BY <2>1, <2>4, <3>1, StageWriteIs DEF WiredInv
  <2>5. CASE Backfill!PlanRead(d)
    BY <2>1, <2>5, PlanReadIs DEF WiredInv
  <2>6. CASE Backfill!PlanWrite(d)
    BY <2>1, <2>6, PlanWriteIs DEF WiredInv
  <2>7. CASE Backfill!Apply(d)
    <3>1. /\ ram'.sem = ram.sem
          /\ ram'.graph = ram.graph \cup (env.slot.plan \cap ram.sem)
          /\ env.drain[d].pc = "apply" /\ env'.drain[d].pc = "idle"
          /\ env'.slot.ids = {}
      BY <2>1, <2>7, ApplyIs
    <3>2. ram'.sem \ ram'.graph = {}
      BY <3>1 DEF WiredInv
    <3> QED  BY <2>1, <3>1, <3>2 DEF WiredInv
  <2> QED  BY <1>5, <2>2, <2>3, <2>4, <2>5, <2>6, <2>7 DEF Backfill!Step
<1>6. CASE Backfill!Restart
  <2>1. /\ ram'.sem = ram'.graph /\ env'.slot.ids = {}
        /\ \A d \in Drains : env'.drain[d].pc = "idle"
    BY <1>6, RestartIs DEF BackfillInv
  <2> QED  BY <2>1 DEF WiredInv
<1>7. CASE UNCHANGED <<ram, wal, env>>
  BY <1>7 DEF WiredInv
<1> QED  BY <1>1, <1>2, <1>3, <1>4, <1>5, <1>6, <1>7, <1>8
         DEF Backfill!Next, Backfill!Call

LEMMA WiredInit == Backfill!Init => BackfillInv /\ WiredInv
<1> SUFFICES ASSUME Backfill!Init PROVE BackfillInv /\ WiredInv
  OBVIOUS
<1>1. /\ ram.sem = {} /\ env.slot = Backfill!NoStage
      /\ env.drain = [d \in Drains |-> Backfill!Resting]
  BY DEF Backfill!Init
<1>2. env.slot.ids = {} /\ \A d \in Drains : env.drain[d].pc = "idle"
  BY <1>1 DEF Backfill!NoStage, Backfill!Resting
<1> QED  BY <1>1, <1>2, BackfillInit DEF WiredInv

LEMMA WiredHolds == WiredInv => Backfill!Wired
BY DEF WiredInv, Backfill!Wired, Backfill!Live, Backfill!Pending

-----------------------------------------------------------------------------
(* Inside the rpc mutex, replay has every text                              *)

\* The log has the texts that the memories have, and what a stage has read is
\* still the text when it logs it.
TextInv ==
    /\ \A i \in DOMAIN ram.mem : wal.mem[i].text = ram.mem[i].text
    /\ \A d \in Drains : env.drain[d].pc = "read" =>
          \A i \in DOMAIN env.drain[d].read : env.drain[d].read[i] = ram.mem[i].text

NoReader == \A d \in Drains : env.drain[d].pc # "read"

LEMMA TextStep ==
    ASSUME IsFiniteSet(BackfillIds), Unlocked = {},
           BackfillInv, TextInv, [Backfill!Next]_<<ram, wal, env>>
    PROVE  TextInv'
<1> USE DEF BackfillInv
<1>0. Backfill!Apart => NoReader
  BY DEF Backfill!Apart, NoReader
<1>1. ASSUME NoReader, NEW i \in BackfillIds, NEW text, Backfill!Put(i, text)
      PROVE  TextInv'
  BY <1>1, PutIs DEF TextInv, NoReader
<1>2. ASSUME NoReader, NEW i \in DOMAIN ram.mem, NEW text,
             Backfill!UpdateContent(i, text) \/ Backfill!UpdateVector(i, text)
      PROVE  TextInv'
  <2>1. CASE Backfill!UpdateContent(i, text)
    BY <1>2, <2>1, UpdateContentIs DEF TextInv, NoReader
  <2>2. CASE Backfill!UpdateVector(i, text)
    BY <1>2, <2>2, UpdateVectorIs DEF TextInv, NoReader
  <2> QED  BY <1>2, <2>1, <2>2
<1>3. ASSUME NoReader, NEW i \in DOMAIN ram.mem, Backfill!Forget(i)
      PROVE  TextInv'
  BY <1>3, ForgetIs DEF TextInv, NoReader
<1>4. ASSUME NoReader, NEW i \in DOMAIN ram.mem, Backfill!ForceClear(i)
      PROVE  TextInv'
  BY <1>4, ForceClearIs DEF TextInv, NoReader
<1>5. ASSUME NoReader, NEW i \in DOMAIN ram.mem, Backfill!BackfillEmbedding(i)
      PROVE  TextInv'
  BY <1>5, BackfillEmbeddingIs DEF TextInv, NoReader
<1>6. ASSUME NoReader, Backfill!RequeueGhosts \/ Backfill!RequeueAll
      PROVE  TextInv'
  <2>1. PICK hit \in SUBSET DOMAIN ram.mem :
             Marked(ram'.mem, ram.mem, hit) /\ wal' = wal /\ env'.drain = env.drain
    BY <1>6, RequeueCalls, RequeueIs
  <2> QED  BY <1>6, <2>1 DEF TextInv, NoReader, Marked
<1>7. ASSUME NoReader, Backfill!Save
      PROVE  TextInv'
  <2>1. PICK healed : ram' = ram /\ env' = env /\ Marked(wal'.mem, ram.mem, healed)
    BY <1>7, SaveIs
  <2> QED  BY <1>7, <2>1 DEF TextInv, NoReader, Marked
<1>8. ASSUME NEW d \in Drains, Backfill!Step(d)
      PROVE  TextInv'
  <2>1. CASE Backfill!Fetch(d)
    BY <2>1, FetchIs DEF TextInv, Others
  <2>2. CASE Backfill!StageRead(d)
    BY <2>2, StageReadIs DEF TextInv, Others
  <2>3. CASE Backfill!StageWrite(d)
    <3>1. DOMAIN wal.mem = DOMAIN ram.mem
      BY DEF Shape
    <3> QED  BY <2>3, <3>1, StageWriteIs DEF TextInv, Others, DrainOnly, Logged
  <2>4. CASE Backfill!PlanRead(d)
    BY <2>4, PlanReadIs DEF TextInv, Others
  <2>5. CASE Backfill!PlanWrite(d)
    BY <2>5, PlanWriteIs DEF TextInv, Others
  <2>6. CASE Backfill!Apply(d)
    <3>1. PICK clear \in SUBSET DOMAIN ram.mem :
             /\ Cleared(ram'.mem, ram.mem, clear) /\ wal' = wal
             /\ Others(d) /\ env'.drain[d].pc = "idle"
      BY <2>6, ApplyIs
    <3> QED  BY <3>1 DEF TextInv, Others, Cleared, ReadInv
  <2> QED  BY <1>8, <2>1, <2>2, <2>3, <2>4, <2>5, <2>6 DEF Backfill!Step
<1>9. CASE Backfill!Restart
  <2>1. PICK hit \in SUBSET DOMAIN ram.mem :
             /\ Marked(ram'.mem, wal.mem, hit) /\ wal' = wal
             /\ \A d \in Drains : env'.drain[d].pc = "idle"
    BY <1>9, RestartIs
  <2>2. DOMAIN wal.mem = DOMAIN ram.mem
    BY DEF Shape
  <2> QED  BY <2>1, <2>2 DEF TextInv, LiveInv, Marked
<1>10. CASE UNCHANGED <<ram, wal, env>>
  BY <1>10 DEF TextInv
<1> QED
  BY <1>0, <1>1, <1>2, <1>3, <1>4, <1>5, <1>6, <1>7, <1>8, <1>9, <1>10
     DEF Backfill!Next, Backfill!Call

LEMMA TextInit == Backfill!Init => BackfillInv /\ TextInv
<1> SUFFICES ASSUME Backfill!Init PROVE BackfillInv /\ TextInv
  OBVIOUS
<1>1. ram.mem = <<>> /\ env.drain = [d \in Drains |-> Backfill!Resting]
  BY DEF Backfill!Init
<1>2. DOMAIN ram.mem = {} /\ \A d \in Drains : env.drain[d].pc = "idle"
  BY <1>1 DEF Backfill!Resting
<1> QED  BY <1>2, BackfillInit DEF TextInv

LEMMA TextHolds == BackfillInv /\ TextInv => Backfill!TextsKept
BY DEF BackfillInv, Shape, TextInv, Backfill!TextsKept

-----------------------------------------------------------------------------
(* Semantic index                                                           *)

\* The memories that a state of the index says are in a realm.
MembersOf(s, r) == {i \in DOMAIN s.realm : s.realm[i] = r}

RealmsCounted(s) ==
    /\ IsFiniteSet(DOMAIN s.realm) /\ \A i \in DOMAIN s.realm : s.realm[i] \in Realms
    /\ DOMAIN s.count = Realms
    /\ \A r \in Realms : s.count[r] = Cardinality(MembersOf(s, r))

\* Whatever is loaded, replayed or rebuilt; the counters are positions in the
\* order of the mutations.
IndexShape(s) ==
    /\ DOMAIN s = {"emb", "dead", "base", "delta", "codes", "buckets", "realm", "count",
                   "graph", "mut", "epoch", "slot", "changed"}
    /\ DOMAIN s.slot = {"at", "rows", "up"} /\ s.slot.at \in Int /\ s.slot.at <= s.mut
    /\ s.mut \in Nat /\ s.epoch \in Nat
    /\ \A i \in DOMAIN s.changed : s.changed[i] \in Nat /\ s.changed[i] <= s.mut
    /\ IsFiniteSet(DOMAIN s.emb) /\ IsFiniteSet(s.codes)
    /\ s.dead \cap DOMAIN s.emb = {}
    /\ \A i \in DOMAIN s.emb : s.emb[i] # 0 => i \in s.codes
    /\ RealmsCounted(s)

\* The vectors of s are those that the store last gave the index.
Current(s, live) ==
    /\ \A i \in DOMAIN s.emb : s.emb[i] # 0 => i \in DOMAIN live /\ s.emb[i] = live[i][1]
    /\ \A i \in DOMAIN live : live[i][1] # 0 => i \in DOMAIN s.emb /\ s.emb[i] # 0

\* Copied rows are the vectors of s, but for what changed after the copy.
Behind(s, i, at) == i \in DOMAIN s.changed /\ s.changed[i] > at
Exact(s, rows, at) ==
    /\ \A i \in DOMAIN rows :
          Behind(s, i, at) \/ (i \in DOMAIN s.emb /\ s.emb[i] # 0 /\ rows[i] = s.emb[i])
    /\ \A i \in DOMAIN s.emb : s.emb[i] # 0 => i \in DOMAIN rows \/ Behind(s, i, at)

\* A copy that could still be published is exact; pruning the list of changes
\* spoils only copies that are older than the published one.
PlanSound(s, p) ==
    /\ p.at \in Int /\ p.at <= s.mut /\ p.epoch \in Nat /\ p.epoch <= s.epoch
    /\ p.epoch = s.epoch => Exact(s, p.rows, p.at) \/ (s.slot.up /\ p.at < s.slot.at)

TurboInv ==
    /\ ram.slot.up => Exact(ram, ram.slot.rows, ram.slot.at)
    /\ \A p \in env.plans : PlanSound(ram, p)

\* Replay has changed what it lists as changed, and the rest is the snapshot's.
BackInv ==
    /\ IndexShape(env.back) /\ Current(env.back, env.live)
    /\ \A i \in DOMAIN env.snap.emb : env.snap.emb[i] # 0
    /\ Exact(env.back, env.snap.emb, 0)
    /\ \A i \in DOMAIN env.back.changed : env.back.changed[i] > 0

IndexInv ==
    /\ DOMAIN env = {"calls", "live", "snap", "since", "back", "plans", "batch"}
    /\ IndexShape(ram) /\ Current(ram, env.live)
    /\ ram.codes \subseteq DOMAIN ram.emb
    /\ TurboInv /\ BackInv

LEMMA SameCardinality == \A S : Index!Cardinality(S) = Cardinality(S)
BY DEF Index!Cardinality, Cardinality, Index!IsFiniteSet, IsFiniteSet

\* A step that only moves graph nodes, buckets and tombstones.
Rewired(q, s) ==
    /\ DOMAIN q = DOMAIN s /\ q.emb = s.emb /\ q.codes = s.codes /\ q.realm = s.realm
    /\ q.count = s.count /\ q.changed = s.changed /\ q.epoch = s.epoch /\ q.slot = s.slot
    /\ q.mut \in Nat /\ q.mut >= s.mut /\ q.dead \subseteq s.dead

LEMMA RewiredKeeps ==
    ASSUME NEW s, NEW q, IndexShape(s), Rewired(q, s)
    PROVE  IndexShape(q)
<1>1. RealmsCounted(q)
  BY DEF IndexShape, Rewired, RealmsCounted, MembersOf
<1> QED  BY <1>1 DEF IndexShape, Rewired

LEMMA RewiredTwice ==
    ASSUME NEW s, NEW q, NEW t, IndexShape(s), Rewired(q, s), Rewired(t, q)
    PROVE  Rewired(t, s)
BY DEF Rewired, IndexShape

LEMMA RewiredSelf ==
    ASSUME NEW s, IndexShape(s)
    PROVE  Rewired(s, s)
BY DEF Rewired, IndexShape

\* The maintenance of the graphs.
LEMMA Rewirings ==
    ASSUME NEW s, IndexShape(s), NEW i, NEW p
    PROVE  /\ Rewired(Index!Mutated(s), s)
           /\ Rewired(Index!TrimDeleted(s), s)
           /\ Rewired(Index!BackfillHnsw(s), s)
           /\ Rewired(Index!MergeDeltaIntoBase(s), s)
           /\ Rewired(Index!InsertGlobal(s, i), s)
           /\ Rewired(Index!InsertRealm(s, i), s)
           /\ Rewired(Index!ApplyDelta(s, p), s)
<1>1. Rewired(Index!Mutated(s), s)
  BY DEF Index!Mutated, IndexShape, Rewired
<1>2. DOMAIN Index!Mutated(s) = DOMAIN s
  BY <1>1 DEF Rewired
<1>3. Rewired(Index!TrimDeleted(s), s)
  BY <1>1, <1>2 DEF Index!TrimDeleted, Rewired, IndexShape
<1>4. Rewired(Index!BackfillHnsw(s), s)
  BY <1>1, <1>2 DEF Index!BackfillHnsw, Rewired, IndexShape
<1>5. Rewired(Index!MergeDeltaIntoBase(s), s)
  BY <1>1, <1>2 DEF Index!MergeDeltaIntoBase, Rewired, IndexShape
<1>6. Rewired(Index!InsertGlobal(s, i), s)
  BY DEF Index!InsertGlobal, Rewired, IndexShape
<1>7. Rewired(Index!InsertRealm(s, i), s)
  BY DEF Index!InsertRealm, Rewired, IndexShape
<1>8. Rewired(Index!ApplyDelta(s, p), s)
  BY <1>1, <1>2 DEF Index!ApplyDelta, Rewired, IndexShape
<1> QED  BY <1>1, <1>3, <1>4, <1>5, <1>6, <1>7, <1>8

LEMMA RebuildRewires ==
    ASSUME NEW s, IndexShape(s)
    PROVE  Rewired(Index!RebuildAnn(s), s)
<1> DEFINE t == [s EXCEPT !.buckets = DOMAIN s.emb]
           b == [t EXCEPT !.base = {Index!Min(DOMAIN t.emb)}, !.delta = {}]
           e == [t EXCEPT !.base = {}, !.delta = {}]
<1>1. Rewired(t, s)
  BY DEF Rewired, IndexShape
<1>2. IndexShape(t)
  BY <1>1, RewiredKeeps
<1>3. Rewired(b, t) /\ Rewired(e, t)
  BY <1>2 DEF Rewired, IndexShape
<1> HIDE DEF t
<1>4. IndexShape(b)
  BY <1>2, <1>3, RewiredKeeps
<1> HIDE DEF b, e
<1>5. Rewired(Index!BackfillHnsw(t), t) /\ Rewired(Index!BackfillHnsw(b), t)
  BY <1>2, <1>3, <1>4, Rewirings, RewiredTwice
<1>6. Rewired(Index!RebuildHnsw(t), t)
  BY <1>3, <1>5 DEF Index!RebuildHnsw, b, e
<1>7. Index!RebuildAnn(s) \in {t, Index!BackfillHnsw(t), Index!RebuildHnsw(t)}
  BY DEF Index!RebuildAnn, t
<1> QED  BY <1>1, <1>2, <1>5, <1>6, <1>7, RewiredTwice

\* One memory's entry changed, and the list of changes says so.
OneChanged(q, s, i) ==
    /\ DOMAIN q = DOMAIN s /\ q.epoch = s.epoch /\ q.slot = s.slot
    /\ q.mut \in Nat /\ q.mut > s.mut
    /\ DOMAIN q.changed = DOMAIN s.changed \cup {i} /\ q.changed[i] = q.mut
    /\ \A j \in DOMAIN s.changed \ {i} : q.changed[j] = s.changed[j]
    /\ DOMAIN q.emb \ {i} = DOMAIN s.emb \ {i}
    /\ \A j \in DOMAIN s.emb \ {i} : q.emb[j] = s.emb[j]

LEMMA ChangeKeepsExact ==
    ASSUME NEW s, NEW q, NEW i, IndexShape(s), OneChanged(q, s, i),
           NEW rows, NEW at \in Int, at <= s.mut, Exact(s, rows, at)
    PROVE  Exact(q, rows, at)
<1>1. Behind(q, i, at)
  BY DEF OneChanged, IndexShape, Behind
<1>2. \A j : Behind(s, j, at) => Behind(q, j, at)
  BY <1>1 DEF OneChanged, Behind
<1>3. ASSUME NEW j \in DOMAIN rows
      PROVE  Behind(q, j, at) \/ (j \in DOMAIN q.emb /\ q.emb[j] # 0 /\ rows[j] = q.emb[j])
  BY <1>1, <1>2, <1>3 DEF Exact, OneChanged
<1>4. ASSUME NEW j \in DOMAIN q.emb, q.emb[j] # 0
      PROVE  j \in DOMAIN rows \/ Behind(q, j, at)
  BY <1>1, <1>2, <1>4 DEF Exact, OneChanged
<1> QED  BY <1>3, <1>4 DEF Exact

\* What remove leaves.
Removed(q, s, i) ==
    /\ DOMAIN q = DOMAIN s /\ q.epoch = s.epoch /\ q.slot = s.slot /\ q.mut = s.mut + 1
    /\ q.changed = Index!Insert(s.changed, i, s.mut + 1)
    /\ q.emb = Index!Without(s.emb, i) /\ q.codes = s.codes \ {i}
    /\ q.dead = s.dead \cup {i} /\ q.realm = Index!Without(s.realm, i)
    /\ q.count = IF i \in DOMAIN s.realm
                 THEN [s.count EXCEPT ![s.realm[i]] = IF s.count[s.realm[i]] = 0 THEN 0
                                                      ELSE s.count[s.realm[i]] - 1]
                 ELSE s.count

LEMMA RemoveRemoves ==
    ASSUME NEW s, IndexShape(s), NEW i
    PROVE  Removed(Index!Remove(s, i), s, i)
BY DEF IndexShape, Index!Remove, Removed

LEMMA RemovedCounts ==
    ASSUME NEW s, NEW q, NEW i, RealmsCounted(s), Removed(q, s, i)
    PROVE  RealmsCounted(q)
<1>1. DOMAIN q.realm = DOMAIN s.realm \ {i} /\ \A j \in DOMAIN q.realm : q.realm[j] = s.realm[j]
  BY DEF Removed, Index!Without, Index!Restrict
<1>2. IsFiniteSet(DOMAIN q.realm)
  BY <1>1, FS_RemoveElement DEF RealmsCounted
<1>3. DOMAIN q.count = Realms
  BY DEF Removed, RealmsCounted
<1>4. ASSUME NEW r \in Realms PROVE q.count[r] = Cardinality(MembersOf(q, r))
  <2>1. MembersOf(q, r) = MembersOf(s, r) \ {i}
    BY <1>1 DEF MembersOf
  <2>2. IsFiniteSet(MembersOf(s, r))
    BY FS_Subset DEF MembersOf, RealmsCounted
  <2>3. /\ Cardinality(MembersOf(s, r)) \in Nat
        /\ Cardinality(MembersOf(q, r)) = IF i \in MembersOf(s, r)
              THEN Cardinality(MembersOf(s, r)) - 1 ELSE Cardinality(MembersOf(s, r))
    BY <2>1, <2>2, FS_RemoveElement, FS_CardinalityType
  <2>4. i \in MembersOf(s, r) => Cardinality(MembersOf(s, r)) # 0
    BY <2>2, FS_EmptySet
  <2>5. i \in MembersOf(s, r) <=> i \in DOMAIN s.realm /\ s.realm[i] = r
    BY DEF MembersOf
  <2>6. s.count[r] = Cardinality(MembersOf(s, r))
    BY DEF RealmsCounted
  <2>7. q.count[r] = IF i \in MembersOf(s, r) THEN IF s.count[r] = 0 THEN 0 ELSE s.count[r] - 1
                     ELSE s.count[r]
    BY <2>5 DEF Removed, RealmsCounted
  <2> QED  BY <2>3, <2>4, <2>6, <2>7
<1> QED  BY <1>1, <1>2, <1>3, <1>4 DEF RealmsCounted

LEMMA RemovedKeeps ==
    ASSUME NEW s, NEW q, NEW i, IndexShape(s), Removed(q, s, i)
    PROVE  /\ IndexShape(q) /\ OneChanged(q, s, i) /\ i \notin DOMAIN q.emb
           /\ q.codes = s.codes \ {i} /\ i \notin DOMAIN q.realm
<1>1. RealmsCounted(q)
  BY RemovedCounts DEF IndexShape
<1>2. DOMAIN q.emb = DOMAIN s.emb \ {i} /\ \A j \in DOMAIN q.emb : q.emb[j] = s.emb[j]
  BY DEF Removed, Index!Without, Index!Restrict
<1>3. IsFiniteSet(DOMAIN q.emb) /\ IsFiniteSet(q.codes)
  BY <1>2, FS_RemoveElement DEF IndexShape, Removed
<1>4. /\ DOMAIN q.changed = DOMAIN s.changed \cup {i} /\ q.changed[i] = s.mut + 1
      /\ \A j \in DOMAIN s.changed \ {i} : q.changed[j] = s.changed[j]
  BY DEF Removed, Index!Insert
<1>5. i \notin DOMAIN q.realm
  BY DEF Removed, Index!Without, Index!Restrict
<1>6. IndexShape(q)
  BY <1>1, <1>2, <1>3, <1>4 DEF IndexShape, Removed
<1>7. OneChanged(q, s, i)
  BY <1>2, <1>4 DEF OneChanged, Removed, IndexShape
<1> QED  BY <1>2, <1>5, <1>6, <1>7 DEF Removed

\* What upsert_meta leaves of the state that remove left.
StoredRow(q, t, i, v, r) ==
    /\ DOMAIN q = DOMAIN t /\ q.epoch = t.epoch /\ q.slot = t.slot /\ q.mut = t.mut
    /\ q.changed = Index!Insert(t.changed, i, t.mut)
    /\ q.emb = Index!Insert(t.emb, i, v)
    /\ q.codes = IF v # 0 THEN t.codes \cup {i} ELSE t.codes
    /\ q.dead = t.dead \ {i} /\ q.realm = Index!Insert(t.realm, i, r)
    /\ q.count = [t.count EXCEPT ![r] = t.count[r] + 1]

LEMMA UpsertStores ==
    ASSUME NEW s, NEW i, NEW v, NEW r, IndexShape(Index!Remove(Index!Mutated(s), i))
    PROVE  StoredRow(Index!UpsertMeta(s, i, v, r), Index!Remove(Index!Mutated(s), i), i, v, r)
<1> DEFINE t == Index!Remove(Index!Mutated(s), i)
<1>1. Index!UpsertMeta(s, i, v, r)
        = [t EXCEPT !.changed = Index!Insert(@, i, t.mut), !.dead = @ \ {i},
                    !.buckets = @ \cup {i}, !.codes = IF v # 0 THEN @ \cup {i} ELSE @,
                    !.emb = Index!Insert(@, i, v), !.count[r] = @ + 1,
                    !.realm = Index!Insert(@, i, r)]
  BY DEF Index!UpsertMeta, Index!Pending
<1> HIDE DEF t
<1>2. StoredRow(Index!UpsertMeta(s, i, v, r), t, i, v, r)
  BY <1>1 DEF StoredRow, IndexShape, t
<1> QED  BY <1>2 DEF t

LEMMA StoredCounts ==
    ASSUME NEW t, NEW q, NEW i, NEW v, NEW r \in Realms, RealmsCounted(t),
           i \notin DOMAIN t.realm, StoredRow(q, t, i, v, r)
    PROVE  RealmsCounted(q)
<1>1. /\ DOMAIN q.realm = DOMAIN t.realm \cup {i} /\ q.realm[i] = r
      /\ \A j \in DOMAIN t.realm : q.realm[j] = t.realm[j]
  BY DEF StoredRow, Index!Insert
<1>2. IsFiniteSet(DOMAIN q.realm)
  BY <1>1, FS_AddElement DEF RealmsCounted
<1>3. DOMAIN q.count = Realms
  BY DEF StoredRow, RealmsCounted
<1>4. ASSUME NEW u \in Realms PROVE q.count[u] = Cardinality(MembersOf(q, u))
  <2>1. MembersOf(q, u) = IF u = r THEN MembersOf(t, u) \cup {i} ELSE MembersOf(t, u)
    BY <1>1 DEF MembersOf
  <2>2. IsFiniteSet(MembersOf(t, u)) /\ i \notin MembersOf(t, u)
    BY FS_Subset DEF MembersOf, RealmsCounted
  <2>3. Cardinality(MembersOf(q, u)) = IF u = r THEN Cardinality(MembersOf(t, u)) + 1
                                       ELSE Cardinality(MembersOf(t, u))
    BY <2>1, <2>2, FS_AddElement
  <2> QED  BY <2>3 DEF StoredRow, RealmsCounted
<1> QED  BY <1>1, <1>2, <1>3, <1>4 DEF RealmsCounted

\* upsert_meta is a change of one memory.
MetaUpserted(q, s, i, v) ==
    /\ IndexShape(q) /\ OneChanged(q, s, i) /\ i \in DOMAIN q.emb /\ q.emb[i] = v
    /\ q.codes \subseteq s.codes \cup {i}

LEMMA UpsertMetaKeeps ==
    ASSUME NEW s, IndexShape(s), NEW i, NEW v, NEW r \in Realms
    PROVE  MetaUpserted(Index!UpsertMeta(s, i, v, r), s, i, v)
<1> DEFINE m == Index!Mutated(s)
           t == Index!Remove(m, i)
           q == Index!UpsertMeta(s, i, v, r)
<1>1. Rewired(m, s) /\ IndexShape(m)
  BY Rewirings, RewiredKeeps
<1>2. Removed(t, m, i)
  BY <1>1, RemoveRemoves
<1>3. /\ IndexShape(t) /\ OneChanged(t, m, i) /\ i \notin DOMAIN t.emb
      /\ t.codes = m.codes \ {i} /\ i \notin DOMAIN t.realm
  BY <1>1, <1>2, RemovedKeeps
<1>4. StoredRow(q, t, i, v, r)
  BY <1>3, UpsertStores
<1> HIDE DEF m, t, q
<1>5. RealmsCounted(q)
  BY <1>3, <1>4, StoredCounts DEF IndexShape
<1>6. /\ DOMAIN q.emb = DOMAIN t.emb \cup {i} /\ q.emb[i] = v
      /\ \A j \in DOMAIN t.emb : q.emb[j] = t.emb[j]
  BY <1>3, <1>4 DEF StoredRow, Index!Insert
<1>7. IsFiniteSet(DOMAIN q.emb) /\ IsFiniteSet(q.codes)
  <2>1. IsFiniteSet(DOMAIN t.emb) /\ IsFiniteSet(t.codes)
    BY <1>3 DEF IndexShape
  <2>2. q.codes \in {t.codes, t.codes \cup {i}}
    BY <1>4 DEF StoredRow
  <2> QED  BY <1>6, <2>1, <2>2, FS_AddElement
<1>8. /\ DOMAIN q.changed = DOMAIN t.changed \cup {i} /\ q.changed[i] = t.mut
      /\ \A j \in DOMAIN t.changed \ {i} : q.changed[j] = t.changed[j]
  BY <1>4 DEF StoredRow, Index!Insert
<1>9. IndexShape(q)
  BY <1>3, <1>4, <1>5, <1>6, <1>7, <1>8 DEF IndexShape, StoredRow
<1>10. OneChanged(q, s, i)
  BY <1>1, <1>3, <1>4, <1>6, <1>8 DEF OneChanged, Rewired, StoredRow, IndexShape
<1>11. q.codes \subseteq s.codes \cup {i}
  BY <1>1, <1>3, <1>4 DEF StoredRow, Rewired
<1>12. MetaUpserted(q, s, i, v)
  BY <1>6, <1>9, <1>10, <1>11 DEF MetaUpserted
<1> QED  BY <1>12 DEF q

LEMMA RewiredMeta ==
    ASSUME NEW s, NEW q, NEW t, NEW i, NEW v, IndexShape(s), MetaUpserted(q, s, i, v),
           Rewired(t, q), t.mut = q.mut
    PROVE  MetaUpserted(t, s, i, v)
<1>1. IndexShape(t)
  BY RewiredKeeps DEF MetaUpserted
<1> QED  BY <1>1 DEF MetaUpserted, OneChanged, Rewired

LEMMA UpsertKeeps ==
    ASSUME NEW s, IndexShape(s), NEW i, NEW v, NEW r \in Realms, NEW inhibit
    PROVE  MetaUpserted(Index!Upsert(s, i, v, r, inhibit), s, i, v)
<1> DEFINE t == Index!UpsertMeta(s, i, v, r)
           g == Index!InsertGlobal(t, i)
           u == IF ~inhibit /\ Index!UseHnsw(t) /\ v # 0 /\ ~Index!SmallRealm(t, i)
                THEN g ELSE t
<1>1. MetaUpserted(t, s, i, v) /\ IndexShape(t)
  BY UpsertMetaKeeps DEF MetaUpserted
<1>2. Rewired(g, t) /\ g.mut = t.mut
  BY <1>1, Rewirings DEF Index!InsertGlobal, IndexShape
<1>3. Index!Upsert(s, i, v, r, inhibit) = IF v # 0 THEN Index!InsertRealm(u, i) ELSE u
  BY DEF Index!Upsert, Index!Pending
<1> HIDE DEF t, g
<1>4. MetaUpserted(u, s, i, v) /\ IndexShape(u)
  BY <1>1, <1>2, RewiredMeta DEF MetaUpserted
<1> HIDE DEF u
<1>5. Rewired(Index!InsertRealm(u, i), u) /\ Index!InsertRealm(u, i).mut = u.mut
  BY <1>4, Rewirings DEF Index!InsertRealm, IndexShape
<1>6. MetaUpserted(Index!InsertRealm(u, i), s, i, v)
  BY <1>4, <1>5, RewiredMeta
<1> QED  BY <1>3, <1>4, <1>6

\* A reopened or reindexed state: the turbo slot is empty in a new epoch.
Renewed(q, s) ==
    /\ IndexShape(q) /\ q.emb = s.emb /\ q.changed = s.changed
    /\ q.mut >= s.mut /\ q.epoch > s.epoch /\ ~q.slot.up

LEMMA Invalidates ==
    ASSUME NEW s, IndexShape(s)
    PROVE  /\ Renewed(Index!InvalidateTurbo(s), s)
           /\ Index!InvalidateTurbo(s).codes = s.codes
<1> DEFINE q == Index!InvalidateTurbo(s)
<1>1. /\ DOMAIN q = DOMAIN s /\ q.epoch = s.epoch + 1
      /\ q.slot = [at |-> 0, rows |-> <<>>, up |-> FALSE]
      /\ q.emb = s.emb /\ q.dead = s.dead /\ q.codes = s.codes /\ q.realm = s.realm
      /\ q.count = s.count /\ q.mut = s.mut /\ q.changed = s.changed
  BY DEF Index!InvalidateTurbo, Index!None, IndexShape
<1> HIDE DEF q
<1>2. RealmsCounted(q)
  BY <1>1 DEF IndexShape, RealmsCounted, MembersOf
<1>3. DOMAIN q.slot = {"at", "rows", "up"} /\ q.slot.at = 0 /\ ~q.slot.up
  BY <1>1
<1>4. IndexShape(q)
  BY <1>1, <1>2, <1>3 DEF IndexShape
<1>5. Renewed(q, s) /\ q.codes = s.codes
  BY <1>1, <1>3, <1>4 DEF Renewed, IndexShape
<1> QED  BY <1>5 DEF q

LEMMA RewiredRenews ==
    ASSUME NEW s, NEW q, NEW t, IndexShape(s), Renewed(q, s), Rewired(t, q)
    PROVE  Renewed(t, s)
<1>1. IndexShape(t)
  BY RewiredKeeps DEF Renewed
<1> QED  BY <1>1 DEF Renewed, Rewired, IndexShape

\* What was rewired before the slot is emptied.
LEMMA RenewsRewired ==
    ASSUME NEW s, NEW q, NEW t, IndexShape(s), Rewired(q, s), Renewed(t, q)
    PROVE  Renewed(t, s)
BY DEF Renewed, Rewired, IndexShape

LEMMA Rebinarizes ==
    ASSUME NEW s, NEW q, IndexShape(q), Renewed(q, s)
    PROVE  /\ Renewed(Index!RebinarizeAll(q), s)
           /\ Index!RebinarizeAll(q).codes = DOMAIN q.emb
           /\ Index!RebinarizeAll(q).emb = q.emb
<1> DEFINE t == Index!RebinarizeAll(q)
<1>1. /\ DOMAIN t = DOMAIN q /\ t.epoch = q.epoch /\ t.slot = q.slot
      /\ t.emb = q.emb /\ t.dead = q.dead /\ t.codes = DOMAIN q.emb /\ t.realm = q.realm
      /\ t.count = q.count /\ t.mut = q.mut /\ t.changed = q.changed
  BY DEF Index!RebinarizeAll, IndexShape
<1> HIDE DEF t
<1>2. RealmsCounted(t)
  BY <1>1 DEF IndexShape, RealmsCounted, MembersOf
<1>3. IndexShape(t)
  BY <1>1, <1>2 DEF IndexShape
<1>4. Renewed(t, s)
  BY <1>1, <1>3 DEF Renewed
<1> QED  BY <1>1, <1>4 DEF t

\* normalize_with_cache: when no vector is missing, a code for each and no more.
LEMMA NormalizeRenews ==
    ASSUME NEW s, IndexShape(s), \A i \in DOMAIN s.emb : s.emb[i] # 0
    PROVE  /\ Renewed(Index!Normalize(s), s)
           /\ Index!Normalize(s).codes = DOMAIN s.emb
<1> DEFINE m == Index!Mutated(s)
           t == Index!InvalidateTurbo(m)
           u == IF Index!Cardinality(t.codes) # Index!Total(t) THEN Index!RebinarizeAll(t) ELSE t
           covered == Index!Cardinality(u.base) + Index!Cardinality(u.delta)
           w == IF Index!Cardinality(u.buckets) # Index!Total(u) THEN Index!RebuildAnn(u)
                ELSE IF covered # Index!Total(u) /\ Index!UseHnsw(u) /\ u.base # {}
                     THEN Index!BackfillHnsw(u)
                ELSE u
<1>0. Index!Normalize(s) = Index!TrimDeleted(w)
  BY DEF Index!Normalize
<1>1. Rewired(m, s) /\ IndexShape(m)
  BY Rewirings, RewiredKeeps
<1>2. Renewed(t, m) /\ t.codes = m.codes
  BY <1>1, Invalidates
<1> HIDE DEF m, t
<1>3. Renewed(t, s) /\ t.codes = s.codes /\ IndexShape(t) /\ t.emb = s.emb
  BY <1>1, <1>2, RenewsRewired DEF Rewired, Renewed
<1>4. Renewed(u, s) /\ u.codes = DOMAIN s.emb
  <2>1. CASE Index!Cardinality(t.codes) # Index!Total(t)
    BY <1>3, <2>1, Rebinarizes
  <2>2. CASE Index!Cardinality(t.codes) = Index!Total(t)
    <3>1. /\ IsFiniteSet(t.codes) /\ DOMAIN s.emb \subseteq t.codes
          /\ Cardinality(DOMAIN s.emb) = Cardinality(t.codes)
      BY <1>3, <2>2, SameCardinality DEF Index!Total, IndexShape
    <3>2. DOMAIN s.emb = t.codes
      BY <3>1, FS_Subset
    <3> QED  BY <1>3, <2>2, <3>2
  <2> QED  BY <2>1, <2>2
<1> HIDE DEF u
<1>5. IndexShape(u)
  BY <1>4 DEF Renewed
<1>6. Rewired(w, u)
  BY <1>5, Rewirings, RebuildRewires, RewiredSelf
<1> HIDE DEF w
<1>7. IndexShape(w)
  BY <1>5, <1>6, RewiredKeeps
<1>8. Rewired(Index!TrimDeleted(w), u)
  BY <1>5, <1>6, <1>7, Rewirings, RewiredTwice
<1> QED  BY <1>0, <1>4, <1>8, RewiredRenews DEF Rewired

\* purge_wrong_dim: what is left has a vector.
LEMMA PurgeKeeps ==
    ASSUME NEW s, IndexShape(s)
    PROVE  LET q == Index!PurgeWrongDim(s)
           IN  /\ IndexShape(q) /\ q.changed = s.changed
               /\ DOMAIN q.emb = {i \in DOMAIN s.emb : s.emb[i] # 0}
               /\ \A i \in DOMAIN q.emb : q.emb[i] = s.emb[i]
<1> DEFINE bad == {i \in DOMAIN s.emb : s.emb[i] = 0}
           m == Index!Mutated(s)
           n == Index!InvalidateTurbo(m)
           q == Index!PurgeWrongDim(s)
<1>1. Rewired(m, s) /\ IndexShape(m)
  BY Rewirings, RewiredKeeps
<1>2. CASE bad = {}
  <2>1. q = m
    BY <1>2 DEF Index!PurgeWrongDim, Index!Pending
  <2> QED  BY <1>1, <1>2, <2>1 DEF Rewired
<1>3. CASE bad # {}
  <2>1. Renewed(n, m) /\ n.codes = m.codes /\ IndexShape(n)
    BY <1>1, Invalidates DEF Renewed
  <2>2. q = [n EXCEPT !.emb = Index!Restrict(@, DOMAIN @ \ bad), !.codes = @ \ bad,
                      !.buckets = @ \ bad, !.dead = @ \ bad]
    BY <1>3 DEF Index!PurgeWrongDim, Index!Pending
  <2> HIDE DEF n, q, bad, m
  <2>3. /\ DOMAIN q = DOMAIN n /\ q.emb = Index!Restrict(n.emb, DOMAIN n.emb \ bad)
        /\ q.codes = n.codes \ bad /\ q.dead = n.dead \ bad /\ q.realm = n.realm
        /\ q.count = n.count /\ q.mut = n.mut /\ q.changed = n.changed
        /\ q.epoch = n.epoch /\ q.slot = n.slot
    BY <2>1, <2>2 DEF IndexShape
  <2>4. DOMAIN q.emb = DOMAIN n.emb \ bad /\ \A i \in DOMAIN q.emb : q.emb[i] = n.emb[i]
    BY <2>3 DEF Index!Restrict
  <2>5. RealmsCounted(q)
    BY <2>1, <2>3 DEF IndexShape, RealmsCounted, MembersOf
  <2>6. IsFiniteSet(DOMAIN q.emb) /\ IsFiniteSet(q.codes)
    <3>1. IsFiniteSet(DOMAIN n.emb) /\ IsFiniteSet(n.codes)
      BY <2>1 DEF IndexShape
    <3> QED  BY <2>3, <2>4, <3>1, FS_Subset
  <2>7. \A i \in DOMAIN q.emb : q.emb[i] # 0 => i \in q.codes
    BY <2>1, <2>3, <2>4 DEF IndexShape
  <2>8. IndexShape(q)
    BY <2>1, <2>3, <2>4, <2>5, <2>6, <2>7 DEF IndexShape
  <2>9. n.emb = s.emb /\ n.changed = s.changed
    BY <1>1, <2>1 DEF Renewed, Rewired
  <2> QED  BY <2>3, <2>4, <2>8, <2>9 DEF bad, q
<1> QED  BY <1>2, <1>3

-----------------------------------------------------------------------------
(* The index: steps                                                         *)

IndexEnv == {"calls", "live", "snap", "since", "back", "plans", "batch"}

LEMMA CurrentPut ==
    ASSUME NEW s, NEW q, NEW i, NEW v, NEW r, NEW live, Current(s, live),
           OneChanged(q, s, i), i \in DOMAIN q.emb, q.emb[i] = v
    PROVE  Current(q, Index!Insert(live, i, <<v, r>>))
<1> DEFINE l == Index!Insert(live, i, <<v, r>>)
<1>1. /\ DOMAIN l = DOMAIN live \cup {i} /\ l[i][1] = v
      /\ \A j \in DOMAIN live \ {i} : l[j] = live[j]
  BY DEF Index!Insert
<1> HIDE DEF l
<1>2. Current(q, l)
  BY <1>1 DEF Current, OneChanged
<1> QED  BY <1>2 DEF l

LEMMA CurrentForgotten ==
    ASSUME NEW s, NEW q, NEW i, NEW live, Current(s, live),
           OneChanged(q, s, i), i \notin DOMAIN q.emb
    PROVE  Current(q, Index!Without(live, i))
<1> DEFINE l == Index!Without(live, i)
<1>1. DOMAIN l = DOMAIN live \ {i} /\ \A j \in DOMAIN l : l[j] = live[j]
  BY DEF Index!Without, Index!Restrict
<1> HIDE DEF l
<1>2. Current(q, l)
  BY <1>1 DEF Current, OneChanged
<1> QED  BY <1>2 DEF l

\* One memory is put or forgotten, and its record replays the same way.
LEMMA ChangeStep ==
    ASSUME IndexInv, NEW i, DOMAIN env' = IndexEnv,
           env'.plans = env.plans, env'.snap = env.snap,
           IndexShape(ram'), OneChanged(ram', ram, i), Current(ram', env'.live),
           ram'.codes \subseteq DOMAIN ram'.emb,
           IndexShape(env'.back), OneChanged(env'.back, env.back, i),
           Current(env'.back, env'.live)
    PROVE  IndexInv'
<1>1. IndexShape(ram) /\ IndexShape(env.back)
  BY DEF IndexInv, BackInv
<1>2. ram'.slot.up => Exact(ram', ram'.slot.rows, ram'.slot.at)
  <2>1. ram'.slot = ram.slot /\ ram.slot.at \in Int /\ ram.slot.at <= ram.mut
    BY <1>1 DEF OneChanged, IndexShape
  <2>2. ram.slot.up => Exact(ram, ram.slot.rows, ram.slot.at)
    BY DEF IndexInv, TurboInv
  <2> QED  BY <1>1, <2>1, <2>2, ChangeKeepsExact
<1>3. ASSUME NEW p \in env'.plans PROVE PlanSound(ram', p)
  <2>1. PlanSound(ram, p)
    BY <1>3 DEF IndexInv, TurboInv
  <2>2. /\ p.at \in Int /\ p.at <= ram.mut /\ p.epoch \in Nat /\ p.epoch <= ram.epoch
        /\ p.epoch = ram.epoch => Exact(ram, p.rows, p.at) \/ (ram.slot.up /\ p.at < ram.slot.at)
    BY <2>1 DEF PlanSound
  <2>3. /\ ram'.slot = ram.slot /\ ram'.epoch = ram.epoch
        /\ ram.mut \in Nat /\ ram'.mut \in Nat /\ ram'.mut > ram.mut
    BY <1>1 DEF OneChanged, IndexShape
  <2>4. p.at <= ram'.mut
    BY <2>2, <2>3
  <2>5. Exact(ram, p.rows, p.at) => Exact(ram', p.rows, p.at)
    BY <1>1, <2>2, ChangeKeepsExact
  <2> QED  BY <2>2, <2>3, <2>4, <2>5 DEF PlanSound
<1>4. TurboInv'
  BY <1>2, <1>3 DEF TurboInv
<1>5. Exact(env'.back, env'.snap.emb, 0)
  <2>1. Exact(env.back, env.snap.emb, 0) /\ 0 <= env.back.mut
    BY <1>1 DEF IndexInv, BackInv, IndexShape
  <2> QED  BY <1>1, <2>1, ChangeKeepsExact
<1>6. \A j \in DOMAIN env'.back.changed : env'.back.changed[j] > 0
  BY <1>1 DEF IndexInv, BackInv, OneChanged, IndexShape
<1>7. BackInv'
  BY <1>5, <1>6 DEF IndexInv, BackInv
<1> QED  BY <1>4, <1>7 DEF IndexInv, IndexEnv

\* Nodes move, in RAM or in what would be loaded.
LEMMA RewireStep ==
    ASSUME IndexInv, DOMAIN env' = IndexEnv, env'.plans = env.plans,
           env'.snap.emb = env.snap.emb, env'.live = env.live,
           Rewired(ram', ram), Rewired(env'.back, env.back)
    PROVE  IndexInv'
<1>1. IndexShape(ram) /\ IndexShape(env.back) /\ IndexShape(ram') /\ IndexShape(env'.back)
  BY RewiredKeeps DEF IndexInv, BackInv
<1>2. ASSUME NEW s, NEW q, Rewired(q, s), NEW rows, NEW at, Exact(s, rows, at)
      PROVE  Exact(q, rows, at)
  BY <1>2 DEF Rewired, Exact, Behind
<1>3. ASSUME NEW s, NEW q, Rewired(q, s), NEW live, Current(s, live)
      PROVE  Current(q, live)
  BY <1>3 DEF Rewired, Current
<1>4. /\ ram'.slot = ram.slot /\ ram'.epoch = ram.epoch /\ ram'.emb = ram.emb
      /\ ram'.codes = ram.codes
      /\ ram'.mut \in Nat /\ ram.mut \in Nat /\ ram'.mut >= ram.mut
  BY <1>1 DEF Rewired, IndexShape
<1>5. ram'.slot.up => Exact(ram', ram'.slot.rows, ram'.slot.at)
  BY <1>2, <1>4 DEF IndexInv, TurboInv
<1>6. ASSUME NEW p \in env'.plans PROVE PlanSound(ram', p)
  <2>1. PlanSound(ram, p)
    BY <1>6 DEF IndexInv, TurboInv
  <2>2. Exact(ram, p.rows, p.at) => Exact(ram', p.rows, p.at)
    BY <1>2
  <2>3. p.at \in Int /\ p.at <= ram'.mut
    BY <1>4, <2>1 DEF PlanSound
  <2> QED  BY <1>4, <2>1, <2>2, <2>3 DEF PlanSound
<1>7. TurboInv'
  BY <1>5, <1>6 DEF TurboInv
<1>8. Current(ram', env'.live) /\ Current(env'.back, env'.live)
  BY <1>3 DEF IndexInv, BackInv
<1>9. Exact(env'.back, env'.snap.emb, 0)
  BY <1>2 DEF IndexInv, BackInv
<1>10. BackInv'
  BY <1>1, <1>8, <1>9 DEF IndexInv, BackInv, Rewired
<1> QED  BY <1>1, <1>4, <1>7, <1>8, <1>10 DEF IndexInv, IndexEnv

LEMMA PutStep ==
    ASSUME IndexInv, NEW i, NEW v, NEW r \in Realms, NEW d, Index!Put(i, v, r, d)
    PROVE  IndexInv'
<1>1. IndexShape(ram) /\ IndexShape(env.back) /\ Current(ram, env.live)
      /\ Current(env.back, env.live) /\ ram.codes \subseteq DOMAIN ram.emb
  BY DEF IndexInv, BackInv
<1>2. /\ ram' = IF d THEN Index!UpsertMeta(ram, i, v, r) ELSE Index!Upsert(ram, i, v, r, FALSE)
      /\ DOMAIN env' = IndexEnv /\ env'.plans = env.plans /\ env'.snap = env.snap
      /\ env'.live = Index!Insert(env.live, i, <<v, r>>)
      /\ env'.back = Index!Upsert(env.back, i, v, r, TRUE)
  BY DEF Index!Put, IndexInv, IndexEnv
<1>3. MetaUpserted(ram', ram, i, v)
  BY <1>1, <1>2, UpsertMetaKeeps, UpsertKeeps
<1>4. MetaUpserted(env'.back, env.back, i, v)
  BY <1>1, <1>2, UpsertKeeps
<1>5. Current(ram', env'.live) /\ Current(env'.back, env'.live)
  <2>1. /\ OneChanged(ram', ram, i) /\ i \in DOMAIN ram'.emb /\ ram'.emb[i] = v
        /\ OneChanged(env'.back, env.back, i) /\ i \in DOMAIN env'.back.emb
        /\ env'.back.emb[i] = v
    BY <1>3, <1>4 DEF MetaUpserted
  <2>2. Current(ram', Index!Insert(env.live, i, <<v, r>>))
    BY <1>1, <2>1, CurrentPut
  <2>3. Current(env'.back, Index!Insert(env.live, i, <<v, r>>))
    BY <1>1, <2>1, CurrentPut
  <2> QED  BY <1>2, <2>2, <2>3
<1>6. ram'.codes \subseteq DOMAIN ram'.emb
  BY <1>1, <1>3 DEF MetaUpserted, OneChanged
<1> QED  BY <1>2, <1>3, <1>4, <1>5, <1>6, ChangeStep DEF MetaUpserted

LEMMA ForgetStep ==
    ASSUME IndexInv, NEW i, Index!Forget(i)
    PROVE  IndexInv'
<1>1. IndexShape(ram) /\ IndexShape(env.back) /\ Current(ram, env.live)
      /\ Current(env.back, env.live) /\ ram.codes \subseteq DOMAIN ram.emb
  BY DEF IndexInv, BackInv
<1>2. /\ ram' = Index!Remove(ram, i)
      /\ DOMAIN env' = IndexEnv /\ env'.plans = env.plans /\ env'.snap = env.snap
      /\ env'.live = Index!Without(env.live, i)
      /\ env'.back = Index!Remove(env.back, i)
  BY DEF Index!Forget, IndexInv, IndexEnv
<1>3. Removed(ram', ram, i) /\ Removed(env'.back, env.back, i)
  BY <1>1, <1>2, RemoveRemoves
<1>4. /\ IndexShape(ram') /\ OneChanged(ram', ram, i) /\ i \notin DOMAIN ram'.emb
      /\ ram'.codes = ram.codes \ {i}
  BY <1>1, <1>3, RemovedKeeps
<1>5. /\ IndexShape(env'.back) /\ OneChanged(env'.back, env.back, i)
      /\ i \notin DOMAIN env'.back.emb
  BY <1>1, <1>3, RemovedKeeps
<1>6. Current(ram', env'.live) /\ Current(env'.back, env'.live)
  BY <1>1, <1>2, <1>4, <1>5, CurrentForgotten
<1>7. ram'.codes \subseteq DOMAIN ram'.emb
  BY <1>1, <1>4 DEF OneChanged
<1> QED  BY <1>2, <1>4, <1>5, <1>6, <1>7, ChangeStep

LEMMA PlanStep ==
    ASSUME IndexInv, Index!PlanTurbo
    PROVE  IndexInv'
<1> DEFINE p == Index!TurboPlan(ram)
<1>1. IndexShape(ram)
  BY DEF IndexInv
<1>2. /\ ram' = ram /\ DOMAIN env' = IndexEnv /\ env'.plans = env.plans \cup {p}
      /\ env'.snap = env.snap /\ env'.live = env.live /\ env'.back = env.back
  BY DEF Index!PlanTurbo, IndexInv, IndexEnv
<1>3. /\ p.at = ram.mut /\ p.epoch = ram.epoch
      /\ DOMAIN p.rows = {i \in DOMAIN ram.emb : ram.emb[i] # 0}
      /\ \A i \in DOMAIN p.rows : p.rows[i] = ram.emb[i]
  BY <1>1 DEF Index!TurboPlan, Index!Ready, Index!Pending, Index!Restrict, IndexShape
<1> HIDE DEF p
<1>4. Exact(ram, p.rows, p.at)
  BY <1>3 DEF Exact
<1>5. PlanSound(ram, p)
  BY <1>1, <1>3, <1>4 DEF PlanSound, IndexShape
<1>6. TurboInv'
  BY <1>2, <1>5 DEF IndexInv, TurboInv
<1>7. BackInv'
  BY <1>2 DEF IndexInv, BackInv
<1> QED  BY <1>2, <1>6, <1>7 DEF IndexInv, IndexEnv

\* A copy is published only where it is exact.
LEMMA BuildStep ==
    ASSUME IndexInv, NEW p \in env.plans, Index!BuildTurbo(p)
    PROVE  IndexInv'
<1>1. IndexShape(ram) /\ PlanSound(ram, p)
  BY DEF IndexInv, TurboInv
<1>2. /\ ram' = Index!PublishTurbo(ram, p) /\ DOMAIN env' = IndexEnv
      /\ env'.plans = env.plans \ {p}
      /\ env'.snap = env.snap /\ env'.live = env.live /\ env'.back = env.back
  BY DEF Index!BuildTurbo, IndexInv, IndexEnv
<1>3. BackInv'
  BY <1>2 DEF IndexInv, BackInv
<1>4. CASE ram' = ram
  BY <1>2, <1>3, <1>4 DEF IndexInv, IndexEnv, TurboInv
<1>5. CASE ram' # ram
  <2>1. /\ ram.epoch = p.epoch /\ (ram.slot.up => ram.slot.at <= p.at)
        /\ ram' = [ram EXCEPT !.slot = [rows |-> p.rows, at |-> p.at, up |-> TRUE]]
    BY <1>2, <1>5 DEF Index!PublishTurbo
  <2>2. /\ DOMAIN ram' = DOMAIN ram /\ ram'.emb = ram.emb /\ ram'.codes = ram.codes
        /\ ram'.dead = ram.dead
        /\ ram'.realm = ram.realm /\ ram'.count = ram.count /\ ram'.changed = ram.changed
        /\ ram'.epoch = ram.epoch /\ ram'.mut = ram.mut
        /\ ram'.slot = [rows |-> p.rows, at |-> p.at, up |-> TRUE]
    BY <1>1, <2>1 DEF IndexShape
  <2>3. /\ DOMAIN ram'.slot = {"at", "rows", "up"} /\ ram'.slot.at = p.at
        /\ ram'.slot.rows = p.rows /\ ram'.slot.up
    BY <2>2
  <2>4. p.at \in Int /\ p.at <= ram.mut /\ (ram.slot.up => ram.slot.at \in Int)
    BY <1>1 DEF PlanSound, IndexShape
  <2>5. RealmsCounted(ram')
    BY <1>1, <2>2 DEF IndexShape, RealmsCounted, MembersOf
  <2>6. IndexShape(ram')
    BY <1>1, <2>2, <2>3, <2>4, <2>5 DEF IndexShape
  <2>7. \A rows, at : Exact(ram, rows, at) => Exact(ram', rows, at)
    BY <2>2 DEF Exact, Behind
  <2>8. Exact(ram, p.rows, p.at)
    BY <1>1, <2>1, <2>4 DEF PlanSound
  <2>9. ASSUME NEW o \in env'.plans PROVE PlanSound(ram', o)
    <3>1. PlanSound(ram, o)
      BY <1>2, <2>9 DEF IndexInv, TurboInv
    <3>2. /\ o.at \in Int /\ o.at <= ram.mut /\ o.epoch \in Nat /\ o.epoch <= ram.epoch
          /\ o.epoch = ram.epoch
               => Exact(ram, o.rows, o.at) \/ (ram.slot.up /\ o.at < ram.slot.at)
      BY <3>1 DEF PlanSound
    <3>3. ram.slot.up /\ o.at < ram.slot.at => o.at < p.at
      BY <2>1, <2>4, <3>2
    <3> QED  BY <2>2, <2>3, <2>7, <3>2, <3>3 DEF PlanSound
  <2>10. TurboInv'
    BY <2>3, <2>7, <2>8, <2>9 DEF TurboInv
  <2>11. Current(ram', env'.live)
    BY <1>2, <2>2 DEF IndexInv, Current
  <2> QED  BY <1>2, <1>3, <2>2, <2>6, <2>10, <2>11 DEF IndexInv, IndexEnv
<1> QED  BY <1>4, <1>5

\* Pruning forgets only changes that the published index has.
LEMMA PruneStep ==
    ASSUME IndexInv, Index!Prune
    PROVE  IndexInv'
<1>1. IndexShape(ram) /\ env' = env
  BY DEF IndexInv, Index!Prune
<1>2. /\ ram.slot.up
      /\ ram' = [ram EXCEPT !.changed = Index!Restrict(@, {i \in DOMAIN @ : @[i] > ram.slot.at})]
  BY DEF Index!Prune, Index!PruneTurboChanges
<1>3. /\ DOMAIN ram' = DOMAIN ram /\ ram'.emb = ram.emb /\ ram'.codes = ram.codes
      /\ ram'.dead = ram.dead
      /\ ram'.realm = ram.realm /\ ram'.count = ram.count /\ ram'.slot = ram.slot
      /\ ram'.epoch = ram.epoch /\ ram'.mut = ram.mut
  BY <1>1, <1>2 DEF IndexShape
<1>4. /\ DOMAIN ram'.changed = {i \in DOMAIN ram.changed : ram.changed[i] > ram.slot.at}
      /\ \A i \in DOMAIN ram'.changed : ram'.changed[i] = ram.changed[i]
  BY <1>1, <1>2 DEF IndexShape, Index!Restrict
<1>5. RealmsCounted(ram')
  BY <1>1, <1>3 DEF IndexShape, RealmsCounted, MembersOf
<1>6. IndexShape(ram')
  BY <1>1, <1>3, <1>4, <1>5 DEF IndexShape
<1>7. ASSUME NEW rows, NEW at \in Int, at >= ram.slot.at, Exact(ram, rows, at)
      PROVE  Exact(ram', rows, at)
  <2>1. \A i : Behind(ram, i, at) => Behind(ram', i, at)
    BY <1>1, <1>4, <1>7 DEF Behind, IndexShape
  <2> QED  BY <1>3, <1>7, <2>1 DEF Exact
<1>8. Exact(ram', ram'.slot.rows, ram'.slot.at)
  BY <1>1, <1>2, <1>3, <1>7 DEF IndexInv, TurboInv, IndexShape
<1>9. ASSUME NEW p \in env'.plans PROVE PlanSound(ram', p)
  <2>1. PlanSound(ram, p) /\ ram.slot.at \in Int
    BY <1>1, <1>9 DEF IndexInv, TurboInv, IndexShape
  <2> QED  BY <1>2, <1>3, <1>7, <2>1 DEF PlanSound
<1>10. TurboInv'
  BY <1>8, <1>9 DEF TurboInv
<1>11. Current(ram', env'.live) /\ BackInv'
  BY <1>1, <1>3 DEF IndexInv, Current, BackInv
<1> QED  BY <1>1, <1>3, <1>6, <1>10, <1>11 DEF IndexInv

LEMMA ReindexStep ==
    ASSUME IndexInv, Index!ForceReindex
    PROVE  IndexInv'
<1> DEFINE m == Index!Mutated(ram)
           n == Index!InvalidateTurbo(m)
           t == Index!RebinarizeAll(n)
           e == [t EXCEPT !.base = {}, !.delta = {}]
           u == Index!RebuildAnn(e)
           w == Index!MergeDeltaIntoBase(u)
<1>1. IndexShape(ram)
  BY DEF IndexInv
<1>2. /\ ram' = Index!TrimDeleted(w) /\ DOMAIN env' = IndexEnv /\ env'.plans = env.plans
      /\ env'.snap = env.snap /\ env'.live = env.live /\ env'.back = env.back
  BY DEF Index!ForceReindex, IndexInv, IndexEnv
<1>3. Rewired(m, ram) /\ IndexShape(m)
  BY <1>1, Rewirings, RewiredKeeps
<1>4. Renewed(n, m)
  BY <1>3, Invalidates
<1> HIDE DEF m, n
<1>5. Renewed(n, ram) /\ IndexShape(n)
  BY <1>1, <1>3, <1>4, RenewsRewired DEF Renewed
<1>6. Renewed(t, ram) /\ t.codes = DOMAIN n.emb /\ t.emb = n.emb
  BY <1>5, Rebinarizes
<1> HIDE DEF t
<1>7. IndexShape(t)
  BY <1>6 DEF Renewed
<1>8. Rewired(e, t)
  BY <1>7 DEF Rewired, IndexShape
<1> HIDE DEF e
<1>9. Rewired(u, e) /\ IndexShape(e)
  BY <1>7, <1>8, RebuildRewires, RewiredKeeps
<1> HIDE DEF u
<1>10. Rewired(u, t) /\ IndexShape(u)
  BY <1>7, <1>8, <1>9, RewiredTwice, RewiredKeeps
<1>11. Rewired(w, u) /\ IndexShape(w)
  BY <1>10, Rewirings, RewiredKeeps
<1> HIDE DEF w
<1>12. Rewired(w, t)
  BY <1>7, <1>10, <1>11, RewiredTwice
<1>13. Rewired(ram', t)
  BY <1>2, <1>7, <1>11, <1>12, Rewirings, RewiredTwice
<1>14. Renewed(ram', ram) /\ ram'.codes = DOMAIN ram'.emb
  BY <1>1, <1>6, <1>13, RewiredRenews DEF Rewired
<1>15. ASSUME NEW p \in env'.plans PROVE PlanSound(ram', p)
  <2>1. PlanSound(ram, p)
    BY <1>2, <1>15 DEF IndexInv, TurboInv
  <2> QED  BY <1>1, <1>14, <2>1 DEF PlanSound, Renewed, IndexShape
<1>16. TurboInv'
  BY <1>14, <1>15 DEF TurboInv, Renewed
<1>17. Current(ram', env'.live) /\ BackInv' /\ IndexShape(ram')
  BY <1>2, <1>14 DEF IndexInv, Current, BackInv, Renewed
<1> QED  BY <1>2, <1>14, <1>16, <1>17 DEF IndexInv, IndexEnv

\* A family as it is saved and loaded: vectors, tombstones and codes, no realms.
LEMMA LoadedFamily ==
    ASSUME NEW s, DOMAIN s = DOMAIN Index!New, s.mut = 0, s.epoch = 0,
           s.slot = Index!None, s.realm = <<>>, s.count = [r \in Realms |-> 0],
           IsFiniteSet(DOMAIN s.emb), IsFiniteSet(s.codes), s.dead \cap DOMAIN s.emb = {},
           \A i \in DOMAIN s.emb : s.emb[i] # 0 /\ i \in s.codes
    PROVE  /\ IndexShape(Index!LoadSidecars(s)) /\ Index!LoadSidecars(s).emb = s.emb
           /\ Index!LoadSidecars(s).changed = <<>>
<1> DEFINE t == [s EXCEPT !.changed = <<>>]
<1>1. DOMAIN s = {"emb", "dead", "base", "delta", "codes", "buckets", "realm", "count",
                  "graph", "mut", "epoch", "slot", "changed"}
  BY DEF Index!New
<1>2. /\ DOMAIN t = DOMAIN s /\ t.changed = <<>> /\ t.emb = s.emb /\ t.mut = 0
      /\ t.epoch = 0 /\ t.slot = Index!None /\ t.realm = <<>> /\ t.count = s.count
      /\ t.codes = s.codes /\ t.dead = s.dead
  BY <1>1
<1>3. Index!LoadSidecars(s) = Index!InvalidateTurbo(t)
  BY DEF Index!LoadSidecars
<1> HIDE DEF t
<1>4. RealmsCounted(t)
  <2>1. DOMAIN t.realm = {}
    BY <1>2
  <2>2. \A r \in Realms : MembersOf(t, r) = {}
    BY <2>1 DEF MembersOf
  <2> QED  BY <1>2, <2>1, <2>2, FS_EmptySet DEF RealmsCounted
<1>5. DOMAIN t.slot = {"at", "rows", "up"} /\ t.slot.at = 0
  BY <1>2 DEF Index!None
<1>6. DOMAIN t.changed = {}
  BY <1>2
<1>7. IndexShape(t)
  BY <1>1, <1>2, <1>4, <1>5, <1>6 DEF IndexShape
<1> QED  BY <1>2, <1>3, <1>7, Invalidates DEF Renewed

LEMMA SaveStep ==
    ASSUME IndexInv, Index!SaveSidecars
    PROVE  IndexInv'
<1> DEFINE rows == Index!SaneRows(ram)
           promote == ram.base = {}
           saved == [Index!New EXCEPT !.emb = rows, !.dead = ram.dead,
                       !.base = IF promote THEN ram.delta ELSE ram.base,
                       !.delta = IF promote THEN {} ELSE ram.delta,
                       !.codes = ram.codes, !.buckets = ram.buckets]
<1>1. IndexShape(ram)
  BY DEF IndexInv
<1>2. /\ ram' = ram /\ DOMAIN env' = IndexEnv /\ env'.plans = env.plans
      /\ env'.snap = saved /\ env'.live = env.live /\ env'.back = Index!LoadSidecars(saved)
  BY DEF Index!SaveSidecars, IndexInv, IndexEnv
<1>3. /\ DOMAIN rows = {i \in DOMAIN ram.emb : ram.emb[i] # 0}
      /\ \A i \in DOMAIN rows : rows[i] = ram.emb[i]
  BY <1>1 DEF Index!SaneRows, Index!TurboPlan, Index!Ready, Index!Pending, Index!Restrict,
              IndexShape
<1> HIDE DEF rows
<1>4. /\ DOMAIN saved = DOMAIN Index!New /\ saved.emb = rows /\ saved.dead = ram.dead
      /\ saved.codes = ram.codes /\ saved.mut = 0 /\ saved.epoch = 0
      /\ saved.slot = Index!None /\ saved.realm = <<>>
      /\ saved.count = [r \in Realms |-> 0]
  BY DEF Index!New
<1> HIDE DEF saved
<1>5. IsFiniteSet(DOMAIN rows) /\ IsFiniteSet(ram.codes)
  <2>1. IsFiniteSet(DOMAIN ram.emb) /\ IsFiniteSet(ram.codes)
    BY <1>1 DEF IndexShape
  <2> QED  BY <1>3, <2>1, FS_Subset
<1>6. /\ saved.dead \cap DOMAIN saved.emb = {}
      /\ \A i \in DOMAIN saved.emb : saved.emb[i] # 0 /\ i \in saved.codes
  BY <1>1, <1>3, <1>4 DEF IndexShape
<1>7. /\ IndexShape(env'.back) /\ env'.back.emb = rows /\ env'.back.changed = <<>>
  BY <1>2, <1>4, <1>5, <1>6, LoadedFamily
<1>9. Current(env'.back, env'.live)
  BY <1>2, <1>3, <1>7 DEF IndexInv, Current
<1>10. Exact(env'.back, env'.snap.emb, 0)
  BY <1>2, <1>4, <1>6, <1>7 DEF Exact
<1>11. DOMAIN env'.back.changed = {}
  BY <1>7
<1>12. BackInv'
  BY <1>2, <1>6, <1>7, <1>9, <1>10, <1>11 DEF BackInv
<1>13. TurboInv'
  BY <1>2 DEF IndexInv, TurboInv
<1> QED  BY <1>2, <1>12, <1>13 DEF IndexInv, IndexEnv

\* When the first of the listed changes was.
LEMMA FirstChange ==
    ASSUME NEW s, IndexShape(s), DOMAIN s.changed # {}
    PROVE  LET at == Index!Min(Index!Range(s.changed)) - 1
           IN  /\ at \in Int /\ at <= s.mut
               /\ \A i \in DOMAIN s.changed : s.changed[i] > at
<1> DEFINE S == Index!Range(s.changed)
<1>1. S \in SUBSET Nat /\ S # {}
  BY DEF Index!Range, IndexShape
<1>2. \A i \in DOMAIN s.changed : s.changed[i] \in S
  BY DEF Index!Range
<1>3. \A x \in S : x <= s.mut
  BY DEF Index!Range, IndexShape
<1> HIDE DEF S
<1>4. Index!Min(S) = Min(S)
  BY DEF Index!Min, Min
<1>5. Min(S) \in S /\ \A x \in S : Min(S) <= x
  BY <1>1, MinOf
<1>6. Min(S) \in Nat /\ Min(S) <= s.mut /\ s.mut \in Nat
  BY <1>1, <1>3, <1>5 DEF IndexShape
<1>7. \A i \in DOMAIN s.changed : s.changed[i] \in Nat /\ Min(S) <= s.changed[i]
  BY <1>1, <1>2, <1>5
<1> QED  BY <1>4, <1>6, <1>7 DEF S

\* The snapshot's rows are exact for what was replayed onto it.
LEMMA ReopenStep ==
    ASSUME IndexInv, Index!Reopen
    PROVE  IndexInv'
<1> DEFINE b == env.back
           c == Index!PurgeWrongDim(b)
           p == Index!StartupPlan(ram', env.snap.emb)
<1>1. /\ ram' = Index!Normalize(c) /\ DOMAIN env' = IndexEnv /\ env'.plans = {p}
      /\ env'.snap = env.snap /\ env'.live = env.live /\ env'.back = env.back
  BY DEF Index!Reopen, Index!ReconcileEmbeddings, IndexInv, IndexEnv
<1>2. IndexShape(b) /\ Current(b, env.live) /\ Exact(b, env.snap.emb, 0)
      /\ \A i \in DOMAIN b.changed : b.changed[i] > 0
  BY DEF IndexInv, BackInv
<1>3. /\ IndexShape(c) /\ c.changed = b.changed
      /\ DOMAIN c.emb = {i \in DOMAIN b.emb : b.emb[i] # 0}
      /\ \A i \in DOMAIN c.emb : c.emb[i] = b.emb[i]
  BY <1>2, PurgeKeeps
<1> HIDE DEF c
<1>4. Renewed(ram', c) /\ ram'.codes = DOMAIN c.emb
  BY <1>1, <1>3, NormalizeRenews
<1>5. /\ IndexShape(ram') /\ ram'.emb = c.emb /\ ram'.changed = b.changed /\ ~ram'.slot.up
  BY <1>3, <1>4 DEF Renewed
<1>6. Current(ram', env'.live)
  BY <1>1, <1>2, <1>3, <1>5 DEF Current
<1>7. p.rows = env.snap.emb /\ p.epoch = ram'.epoch
  BY DEF Index!StartupPlan
<1>8. /\ p.at \in Int /\ p.at <= ram'.mut
      /\ \A i \in DOMAIN ram'.changed : ram'.changed[i] > p.at
  <2>1. CASE DOMAIN ram'.changed = {}
    <3>1. p.at = ram'.mut
      BY <2>1 DEF Index!StartupPlan
    <3> QED  BY <1>5, <2>1, <3>1 DEF IndexShape
  <2>2. CASE DOMAIN ram'.changed # {}
    <3>1. p.at = Index!Min(Index!Range(ram'.changed)) - 1
      BY <2>2 DEF Index!StartupPlan
    <3> QED  BY <1>5, <2>2, <3>1, FirstChange
  <2> QED  BY <2>1, <2>2
<1> HIDE DEF p
<1>9. Exact(ram', p.rows, p.at)
  <2>1. \A i : Behind(b, i, 0) => Behind(ram', i, p.at)
    BY <1>5, <1>8 DEF Behind
  <2> QED  BY <1>2, <1>3, <1>5, <1>7, <2>1 DEF Exact
<1>10. PlanSound(ram', p)
  BY <1>5, <1>7, <1>8, <1>9 DEF PlanSound, IndexShape
<1>11. TurboInv'
  BY <1>1, <1>5, <1>10 DEF TurboInv
<1>12. BackInv'
  BY <1>1 DEF IndexInv, BackInv
<1> QED  BY <1>1, <1>4, <1>5, <1>6, <1>11, <1>12 DEF IndexInv, IndexEnv

LEMMA IndexInit ==
    ASSUME Index!Init
    PROVE  IndexInv
<1>1. /\ ram = Index!New /\ DOMAIN env = IndexEnv /\ env.live = <<>> /\ env.snap = Index!New
      /\ env.back = Index!LoadSidecars(Index!New) /\ env.plans = {}
  BY DEF Index!Init, IndexEnv
<1> DEFINE n == Index!New
<1>2. /\ n.mut = 0 /\ n.epoch = 0 /\ n.slot = Index!None /\ n.realm = <<>>
      /\ n.count = [r \in Realms |-> 0] /\ n.emb = <<>> /\ n.codes = {} /\ n.dead = {}
      /\ n.changed = <<>>
      /\ DOMAIN n = {"emb", "dead", "base", "delta", "codes", "buckets", "realm", "count",
                     "graph", "mut", "epoch", "slot", "changed"}
  BY DEF Index!New
<1> HIDE DEF n
<1>3. DOMAIN n.emb = {} /\ DOMAIN n.changed = {} /\ DOMAIN n.realm = {} /\ DOMAIN env.live = {}
  BY <1>1, <1>2
<1>4. IsFiniteSet(DOMAIN n.emb) /\ IsFiniteSet(n.codes) /\ IsFiniteSet(DOMAIN n.realm)
  BY <1>2, <1>3, FS_EmptySet
<1>5. IndexShape(env.back) /\ env.back.emb = n.emb /\ env.back.changed = <<>>
  BY <1>1, <1>2, <1>3, <1>4, LoadedFamily DEF n
<1>6. RealmsCounted(n)
  <2>1. \A r \in Realms : MembersOf(n, r) = {}
    BY <1>3 DEF MembersOf
  <2> QED  BY <1>2, <1>3, <1>4, <2>1, FS_EmptySet DEF RealmsCounted
<1>7. DOMAIN n.slot = {"at", "rows", "up"} /\ n.slot.at = 0 /\ ~n.slot.up
  BY <1>2 DEF Index!None
<1>8. IndexShape(n)
  BY <1>2, <1>3, <1>4, <1>6, <1>7 DEF IndexShape
<1>9. Current(n, env.live) /\ Current(env.back, env.live) /\ Exact(env.back, n.emb, 0)
  BY <1>3, <1>5 DEF Current, Exact
<1>10. DOMAIN env.back.changed = {}
  BY <1>5
<1>11. ram = n /\ env.snap = n
  BY <1>1 DEF n
<1> QED  BY <1>1, <1>2, <1>3, <1>5, <1>7, <1>8, <1>9, <1>10, <1>11
         DEF IndexInv, IndexEnv, TurboInv, BackInv

LEMMA IndexNext ==
    ASSUME IndexInv, [Index!Next]_<<ram, env>>
    PROVE  IndexInv'
<1>1. IndexShape(ram) /\ IndexShape(env.back) /\ DOMAIN env = IndexEnv
  BY DEF IndexInv, BackInv, IndexEnv
<1>2. Rewired(ram, ram) /\ Rewired(env.back, env.back)
  BY <1>1, RewiredSelf
<1>3. CASE Index!ApplyBatch
  <2>1. /\ ram' = Index!ApplyDelta(ram, env.batch) /\ DOMAIN env' = IndexEnv
        /\ env'.plans = env.plans /\ env'.snap = env.snap /\ env'.live = env.live
        /\ env'.back = env.back
    BY <1>1, <1>3 DEF Index!ApplyBatch, IndexEnv
  <2>2. Rewired(ram', ram)
    BY <1>1, <2>1, Rewirings
  <2> QED  BY <1>2, <2>1, <2>2, RewireStep
<1>4. CASE Index!MergeDelta
  <2>1. /\ ram' = Index!MergeDeltaIntoBase(ram) /\ DOMAIN env' = IndexEnv
        /\ env'.plans = env.plans /\ env'.snap = env.snap /\ env'.live = env.live
        /\ env'.back = env.back
    BY <1>1, <1>4 DEF Index!MergeDelta, IndexEnv
  <2>2. Rewired(ram', ram)
    BY <1>1, <2>1, Rewirings
  <2> QED  BY <1>2, <2>1, <2>2, RewireStep
<1>5. CASE Index!PersistDelta
  <2>1. /\ ram' = ram /\ DOMAIN env' = IndexEnv
        /\ env'.plans = env.plans /\ env'.live = env.live
        /\ env'.snap = [env.snap EXCEPT !.delta = ram.delta]
        /\ env'.back = [env.back EXCEPT !.delta = ram.delta \ env.since]
    BY <1>1, <1>5 DEF Index!PersistDelta, IndexEnv
  <2>2. env'.snap.emb = env.snap.emb
    BY <2>1
  <2>3. Rewired(env'.back, env.back)
    BY <1>1, <2>1 DEF Rewired, IndexShape
  <2> QED  BY <1>2, <2>1, <2>2, <2>3, RewireStep
<1>6. CASE UNCHANGED <<ram, env>>
  BY <1>6 DEF IndexInv, TurboInv, BackInv
<1>7. CASE \E i \in IndexIds, v \in Index!Pending..MaxVersion, r \in Realms, d \in BOOLEAN :
              Index!Put(i, v, r, d)
  BY <1>7, PutStep
<1>8. CASE \E i \in IndexIds : Index!Forget(i)
  BY <1>8, ForgetStep
<1>9. CASE \E p \in env.plans : Index!BuildTurbo(p)
  BY <1>9, BuildStep
<1>10. CASE Index!PlanTurbo \/ Index!Prune \/ Index!ForceReindex \/ Index!SaveSidecars
              \/ Index!Reopen
  BY <1>10, PlanStep, PruneStep, ReindexStep, SaveStep, ReopenStep
<1> QED  BY <1>3, <1>4, <1>5, <1>6, <1>7, <1>8, <1>9, <1>10 DEF Index!Next

\* What an arm scores out of the vectors is what the store last gave the index.
LEMMA ScoredCurrent ==
    ASSUME IndexInv, NEW ids, NEW h \in Index!Scored(ram, ids), h[2] # 0
    PROVE  h \in Index!Vectors
<1>1. PICK i \in DOMAIN ram.emb : h = <<i, ram.emb[i]>>
  BY DEF Index!Scored
<1>2. i \in DOMAIN env.live /\ ram.emb[i] = env.live[i][1] /\ env.live[i][1] # 0
  BY <1>1 DEF IndexInv, Current
<1> QED  BY <1>1, <1>2 DEF Index!Vectors, Index!Pending

LEMMA VectorsIndexed ==
    ASSUME IndexInv, NEW h \in Index!Vectors
    PROVE  \E i \in DOMAIN ram.emb :
              /\ h = <<i, ram.emb[i]>> /\ ram.emb[i] # 0 /\ i \notin ram.dead
              /\ i \in ram.codes
<1>1. PICK i \in DOMAIN env.live : env.live[i][1] # 0 /\ h = <<i, env.live[i][1]>>
  BY DEF Index!Vectors, Index!Pending
<1>2. i \in DOMAIN ram.emb /\ ram.emb[i] # 0
  BY <1>1 DEF IndexInv, Current
<1>3. ram.emb[i] = env.live[i][1]
  BY <1>2 DEF IndexInv, Current
<1>4. i \notin ram.dead /\ i \in ram.codes
  BY <1>2 DEF IndexInv, IndexShape
<1> QED  BY <1>1, <1>2, <1>3, <1>4

LEMMA VectorsScored ==
    ASSUME IndexInv, NEW ids, \A i \in DOMAIN ram.emb : ram.emb[i] # 0 => i \in ids,
           NEW h \in Index!Vectors
    PROVE  h \in Index!Scored(ram, ids) /\ h[2] # 0
BY VectorsIndexed DEF Index!Scored

\* The published copy together with the listed changes.
LEMMA TurboFresh ==
    ASSUME IndexInv, ram.slot.up
    PROVE  /\ \A h \in Index!TurboArm(ram) : h[2] # 0 => h \in Index!Vectors
           /\ \A h \in Index!Vectors : h \in Index!TurboArm(ram) /\ h[2] # 0
<1> DEFINE rows == ram.slot.rows
           at == ram.slot.at
<1>1. Exact(ram, rows, at)
  BY DEF IndexInv, TurboInv
<1>2. \A i : Index!Stale(ram, i) <=> Behind(ram, i, at)
  BY DEF Index!Stale, Behind
<1>3. ASSUME NEW h \in Index!TurboArm(ram), h[2] # 0 PROVE h \in Index!Vectors
  <2>1. CASE h \in Index!Scored(ram, {i \in DOMAIN ram.changed : Index!Stale(ram, i)})
    BY <1>3, <2>1, ScoredCurrent
  <2>2. CASE \E i \in DOMAIN rows : h = <<i, rows[i]>> /\ ~Index!Stale(ram, i)
    <3>1. PICK i \in DOMAIN rows : h = <<i, rows[i]>> /\ ~Index!Stale(ram, i)
      BY <2>2
    <3>2. i \in DOMAIN ram.emb /\ ram.emb[i] # 0 /\ rows[i] = ram.emb[i]
      BY <1>1, <1>2, <3>1 DEF Exact
    <3>3. i \in DOMAIN env.live /\ ram.emb[i] = env.live[i][1] /\ env.live[i][1] # 0
      BY <3>2 DEF IndexInv, Current
    <3> QED  BY <3>1, <3>2, <3>3 DEF Index!Vectors, Index!Pending
  <2> QED  BY <1>3, <2>1, <2>2 DEF Index!TurboArm
<1>4. ASSUME NEW h \in Index!Vectors PROVE h \in Index!TurboArm(ram) /\ h[2] # 0
  <2>1. PICK i \in DOMAIN ram.emb :
              h = <<i, ram.emb[i]>> /\ ram.emb[i] # 0 /\ i \notin ram.dead
    BY VectorsIndexed
  <2>2. CASE Behind(ram, i, at)
    <3>1. i \in {j \in DOMAIN ram.changed : Index!Stale(ram, j)}
      BY <1>2, <2>2 DEF Behind
    <3> QED  BY <2>1, <3>1 DEF Index!TurboArm, Index!Scored
  <2>3. CASE ~Behind(ram, i, at)
    <3>1. i \in DOMAIN rows /\ rows[i] = ram.emb[i]
      BY <1>1, <2>1, <2>3 DEF Exact
    <3>2. i \in {j \in DOMAIN ram.slot.rows \ ram.dead : ~Index!Stale(ram, j)}
      BY <1>2, <2>1, <2>3, <3>1
    <3> QED  BY <2>1, <3>1, <3>2 DEF Index!TurboArm
  <2> QED  BY <2>2, <2>3
<1> QED  BY <1>3, <1>4

\* When there are as many codes as vectors, every vector has one.
LEMMA CodesComplete ==
    ASSUME IndexInv, Index!Cardinality(ram.codes) = Index!Total(ram)
    PROVE  ram.codes = DOMAIN ram.emb
<1>1. IsFiniteSet(DOMAIN ram.emb) /\ ram.codes \subseteq DOMAIN ram.emb
  BY DEF IndexInv, IndexShape
<1>2. Cardinality(ram.codes) = Cardinality(DOMAIN ram.emb)
  BY SameCardinality DEF Index!Total
<1> QED  BY <1>1, <1>2, FS_Subset

\* The arms score the rows of exact copies, or the codes' vectors.
LEMMA FreshHolds == IndexInv => Index!Fresh
<1> SUFFICES ASSUME IndexInv PROVE Index!Fresh
  OBVIOUS
<1> DEFINE found == Index!Search(ram)
<1>1. \A ids : \A h \in Index!Scored(ram, ids) : h[2] # 0 => h \in Index!Vectors
  BY ScoredCurrent
<1>2. \A h \in found : h[2] # 0 => h \in Index!Vectors
  <2>1. CASE ram.slot.up /\ found = Index!TurboArm(ram)
    BY <2>1, TurboFresh
  <2>2. CASE \E ids : found = Index!Scored(ram, ids)
    BY <1>1, <2>2
  <2> QED  BY <2>1, <2>2 DEF Index!Search, Index!ScalarArm, Index!LshArm
<1>3. \A h \in Index!BoostArm(ram) : h[2] # 0 => h \in Index!Vectors
  BY <1>1 DEF Index!BoostArm, Index!LshArm
<1>4. \A r \in Realms : \A h \in Index!RealmArm(ram, r) : h[2] # 0 => h \in Index!Vectors
  BY <1>1 DEF Index!RealmArm
<1>5. ASSUME Index!Total(ram) <= FlatMax \/ Index!Cardinality(ram.codes) = Index!Total(ram),
             NEW h \in Index!Vectors
      PROVE  h \in found /\ h[2] # 0
  <2>1. CASE Index!Total(ram) <= FlatMax /\ ram.slot.up
    <3>1. found = Index!TurboArm(ram)
      BY <2>1 DEF Index!Search
    <3> QED  BY <2>1, <3>1, TurboFresh
  <2>2. CASE Index!Total(ram) <= FlatMax /\ ~ram.slot.up
    <3> DEFINE ids == {i \in DOMAIN ram.emb : Index!Ready(ram, i)}
    <3>1. found = Index!Scored(ram, ids)
      BY <2>2 DEF Index!Search, Index!ScalarArm
    <3>2. \A i \in DOMAIN ram.emb : ram.emb[i] # 0 => i \in ids
      BY DEF Index!Ready, Index!Pending
    <3> HIDE DEF ids
    <3> QED  BY <3>1, <3>2, VectorsScored
  <2>3. CASE ~(Index!Total(ram) <= FlatMax)
    <3>1. found = Index!Scored(ram, ram.codes)
      BY <1>5, <2>3 DEF Index!Search
    <3>2. ram.codes = DOMAIN ram.emb
      BY <1>5, <2>3, CodesComplete
    <3> QED  BY <3>1, <3>2, VectorsScored
  <2> QED  BY <2>1, <2>2, <2>3
<1> HIDE DEF found
<1>6. {h \in found : h[2] # 0} \subseteq Index!Vectors
  BY <1>2
<1>7. Index!Total(ram) <= FlatMax \/ Index!Cardinality(ram.codes) = Index!Total(ram)
        => {h \in found : h[2] # 0} = Index!Vectors
  BY <1>5, <1>6
<1>8. Index!Fresh <=>
        /\ {h \in found : h[2] # 0} \subseteq Index!Vectors
        /\ {h \in Index!BoostArm(ram) : h[2] # 0} \subseteq Index!Vectors
        /\ \A r \in Realms : {h \in Index!RealmArm(ram, r) : h[2] # 0} \subseteq Index!Vectors
        /\ (Index!Total(ram) <= FlatMax \/ Index!Cardinality(ram.codes) = Index!Total(ram)
              => {h \in found : h[2] # 0} = Index!Vectors)
  BY DEF Index!Fresh, Index!Pending, found
<1> QED  BY <1>3, <1>4, <1>6, <1>7, <1>8

\* A tombstone has no vector; the counters are the realms' sizes.
LEMMA GraphsHold == IndexInv => Index!GraphsSound
BY SameCardinality DEF IndexInv, IndexShape, RealmsCounted, MembersOf, Index!GraphsSound

-----------------------------------------------------------------------------
(* Recall                                                                   *)

\* The realms that a query may name.
Where == {"any"} \cup UNION {UNION {{q.realm : q \in menu[s]} : s \in Sessions} : menu \in Menus}

Deeds == {"search", "want", "reserve", "apply", "release", "format", "learn", "take",
          "window", "members", "fuse", "fallback"}
LaneNames == {"none", "semantic", "keyword", "time", "hdc", "artifact", "spread", "filtered", "kind"}

Holds(deeds, lanes) ==
    {x \in [do : deeds, lane : lanes, realm : Where] : x.do = "format" => x.lane # "none"}

\* What has to come right after a hold: a search is formatted, in between at most
\* refreshed; a reservation is applied and released; what was formatted for another
\* realm than those of W goes through the filter by members.
Binds(x, W) ==
    \/ x.do \in {"search", "want", "reserve", "apply", "release"}
    \/ x.do \in {"format", "learn"} /\ x.realm \notin W
Follows(x, y, W) ==
    /\ x.do = "search" => /\ y.realm = x.realm
                          /\ \/ y.do = "format" /\ y.lane = x.lane
                             \/ y.do = "want" /\ x.lane = "semantic"
    /\ x.do = "want" => y.do = "reserve" /\ y.realm = x.realm
    /\ x.do = "reserve" => y.do = "apply" /\ y.realm = x.realm
    /\ x.do = "apply" => y.do = "release" /\ y.realm = x.realm
    /\ x.do = "release" => y.do = "format" /\ y.lane = "semantic" /\ y.realm = x.realm
    /\ x.do = "format" /\ x.realm \notin W => y.do = "learn" /\ y.realm = x.realm
    /\ x.do = "learn" /\ x.realm \notin W => y.do = "members"

Chained(p, W) ==
    \A k \in 1..Len(p) : Binds(p[k], W) => k < Len(p) /\ Follows(p[k], p[k + 1], W)

PlanOf(p, deeds, lanes, W) == p \in Seq(Holds(deeds, lanes)) /\ Chained(p, W)

\* Two sequences of holds, where the second goes on as the first one ends.
LEMMA ChainJoined ==
    ASSUME NEW S, NEW p \in Seq(S), NEW q \in Seq(S), NEW W, Chained(q, W),
           \A k \in 1..Len(p) : Binds(p[k], W) =>
              IF k < Len(p) THEN Follows(p[k], p[k + 1], W)
                            ELSE Len(q) > 0 /\ Follows(p[k], q[1], W)
    PROVE  Chained(p \o q, W)
<1> DEFINE n == Len(p)
           m == Len(q)
           w == p \o q
<1>1. n \in Nat /\ m \in Nat /\ Len(w) = n + m
  OBVIOUS
<1>2. \A k \in 1..n : w[k] = p[k]
  OBVIOUS
<1>3. \A k \in n+1..n+m : w[k] = q[k - n] /\ k - n \in 1..m
  OBVIOUS
<1> SUFFICES ASSUME NEW k \in 1..n+m, Binds(w[k], W)
             PROVE  k < n + m /\ Follows(w[k], w[k + 1], W)
  BY <1>1 DEF Chained
<1> HIDE DEF w
<1>4. CASE k < n
  <2>1. k \in 1..n /\ k + 1 \in 1..n /\ k < n + m
    BY <1>1, <1>4
  <2>2. w[k] = p[k] /\ w[k + 1] = p[k + 1]
    BY <1>2, <2>1
  <2> QED  BY <1>4, <2>1, <2>2
<1>5. CASE k = n
  <2>1. k \in 1..n /\ w[k] = p[k] /\ ~(k < n)
    BY <1>1, <1>2, <1>5
  <2>2. m > 0 /\ Follows(p[k], q[1], W)
    BY <2>1
  <2>3. n + 1 \in n+1..n+m /\ (n + 1) - n = 1
    BY <1>1, <2>2
  <2>4. w[n + 1] = q[1]
    BY <1>3, <2>3
  <2>5. k < n + m
    BY <1>1, <1>5, <2>2
  <2> QED  BY <1>5, <2>1, <2>2, <2>4, <2>5
<1>6. CASE k > n
  <2>1. k \in n+1..n+m
    BY <1>1, <1>6
  <2>2. k - n \in 1..m /\ w[k] = q[k - n]
    BY <1>3, <2>1
  <2>3. k - n < m /\ Follows(q[k - n], q[(k - n) + 1], W)
    BY <2>2 DEF Chained
  <2>4. k + 1 \in n+1..n+m /\ (k + 1) - n = (k - n) + 1
    BY <1>1, <2>1, <2>3
  <2>5. w[k + 1] = q[(k - n) + 1]
    BY <1>3, <2>4
  <2>6. k < n + m
    BY <1>1, <2>1, <2>3
  <2> QED  BY <2>2, <2>3, <2>5, <2>6
<1> QED  BY <1>1, <1>4, <1>5, <1>6

LEMMA PlansJoined ==
    ASSUME NEW deeds, NEW lanes, NEW W, NEW p, NEW q,
           PlanOf(p, deeds, lanes, W), PlanOf(q, deeds, lanes, W)
    PROVE  PlanOf(p \o q, deeds, lanes, W)
<1> DEFINE S == Holds(deeds, lanes)
<1>1. p \in Seq(S) /\ q \in Seq(S) /\ Chained(p, W) /\ Chained(q, W)
  BY DEF PlanOf
<1> HIDE DEF S
<1>2. p \o q \in Seq(S)
  BY <1>1
<1>3. \A k \in 1..Len(p) : Binds(p[k], W) => k < Len(p) /\ Follows(p[k], p[k + 1], W)
  BY <1>1 DEF Chained
<1>4. Chained(p \o q, W)
  BY <1>1, <1>3, ChainJoined
<1> QED  BY <1>2, <1>4 DEF PlanOf, S

LEMMA PlanWidens ==
    ASSUME NEW deeds, NEW lanes, NEW W, NEW d, NEW l, d \subseteq deeds, l \subseteq lanes,
           NEW p, PlanOf(p, d, l, W)
    PROVE  PlanOf(p, deeds, lanes, W)
<1>1. Holds(d, l) \subseteq Holds(deeds, lanes)
  BY DEF Holds
<1> DEFINE S == Holds(d, l)
           T == Holds(deeds, lanes)
<1>2. p \in Seq(S) /\ S \subseteq T
  BY <1>1 DEF PlanOf
<1> HIDE DEF S, T
<1>3. p \in Seq(T)
  BY <1>2
<1> QED  BY <1>3 DEF PlanOf, T

LEMMA PlanPopped ==
    ASSUME NEW deeds, NEW lanes, NEW W, NEW p, PlanOf(p, deeds, lanes, W), p # <<>>
    PROVE  /\ PlanOf(Tail(p), deeds, lanes, W) /\ Head(p) \in Holds(deeds, lanes)
           /\ Binds(Head(p), W) => Tail(p) # <<>> /\ Follows(Head(p), Head(Tail(p)), W)
<1> DEFINE S == Holds(deeds, lanes)
<1>1. p \in Seq(S) /\ p # <<>>
  BY DEF PlanOf
<1> HIDE DEF S
<1> DEFINE t == Tail(p)
<1>2. /\ t \in Seq(S) /\ Len(p) \in Nat /\ Len(p) >= 1 /\ Len(t) = Len(p) - 1
      /\ Head(p) = p[1] /\ Head(p) \in S /\ \A k \in 1..Len(t) : t[k] = p[k + 1]
  BY <1>1
<1> HIDE DEF t
<1>3. Len(t) > 0 => t # <<>> /\ Head(t) = t[1]
  <2>1. t \in Seq(S)
    BY <1>2
  <2> QED  BY <2>1
<1>4. Chained(p, W)
  BY DEF PlanOf
<1>5. Chained(t, W)
  <2> SUFFICES ASSUME NEW k \in 1..Len(t), Binds(t[k], W)
               PROVE  k < Len(t) /\ Follows(t[k], t[k + 1], W)
    BY DEF Chained
  <2>1. k + 1 \in 1..Len(p) /\ t[k] = p[k + 1]
    BY <1>2
  <2>2. k + 1 < Len(p) /\ Follows(p[k + 1], p[(k + 1) + 1], W)
    BY <1>4, <2>1 DEF Chained
  <2>3. k < Len(t) /\ k + 1 \in 1..Len(t)
    BY <1>2, <2>2
  <2>4. t[k + 1] = p[(k + 1) + 1]
    BY <1>2, <2>3
  <2> QED  BY <2>1, <2>2, <2>3, <2>4
<1>6. Binds(p[1], W) => Len(t) > 0 /\ Follows(p[1], t[1], W)
  <2> SUFFICES ASSUME Binds(p[1], W) PROVE Len(t) > 0 /\ Follows(p[1], t[1], W)
    OBVIOUS
  <2>1. 1 \in 1..Len(p)
    BY <1>2
  <2>2. 1 < Len(p) /\ Follows(p[1], p[1 + 1], W)
    BY <1>4, <2>1 DEF Chained
  <2>3. Len(t) > 0 /\ 1 \in 1..Len(t)
    BY <1>2, <2>2
  <2>4. t[1] = p[1 + 1]
    BY <1>2, <2>3
  <2> QED  BY <2>2, <2>3, <2>4
<1> QED  BY <1>2, <1>3, <1>5, <1>6 DEF PlanOf, S, t

\* One hold, and the pieces that plans are made of.
LEMMA OneHold ==
    ASSUME NEW deeds, NEW lanes, NEW W, NEW d \in deeds, NEW l \in lanes, NEW r \in Where,
           d = "format" => l # "none", d \in {"format", "learn"} => r \in W,
           d \notin {"search", "want", "reserve", "apply", "release"}
    PROVE  PlanOf(<<Query!Do(d, l, r)>>, deeds, lanes, W)
<1> DEFINE x == Query!Do(d, l, r)
           S == Holds(deeds, lanes)
<1>1. x \in S /\ x.do = d /\ x.realm = r
  BY DEF Query!Do, Holds
<1> HIDE DEF x, S
<1>2. ~Binds(x, W)
  BY <1>1 DEF Binds
<1>3. <<x>> \in Seq(S) /\ Len(<<x>>) = 1 /\ <<x>>[1] = x
  BY <1>1
<1>4. Chained(<<x>>, W)
  BY <1>2, <1>3 DEF Chained
<1> QED  BY <1>3, <1>4 DEF PlanOf, x, S

LEMMA NoHold ==
    ASSUME NEW deeds, NEW lanes, NEW W
    PROVE  PlanOf(<<>>, deeds, lanes, W)
<1>1. Chained(<<>>, W)
  BY DEF Chained
<1> QED  BY <1>1 DEF PlanOf

Quiet == {"search", "format", "take"}
Scoring == {"search", "want", "reserve", "apply", "release", "format", "learn"}

LEMMA LanePlan ==
    ASSUME NEW r \in Where, NEW W, r \in W, NEW lane, lane # "none"
    PROVE  PlanOf(Query!Lane(lane, r), {"search", "format"}, {lane}, W)
<1> DEFINE a == Query!Do("search", lane, r)
           b == Query!Do("format", lane, r)
           S == Holds({"search", "format"}, {lane})
           p == <<a, b>>
<1>1. /\ a \in S /\ b \in S /\ a.do = "search" /\ b.do = "format" /\ a.lane = lane
      /\ b.lane = lane /\ a.realm = r /\ b.realm = r
  BY DEF Query!Do, Holds
<1>2. Query!Lane(lane, r) = p
  BY DEF Query!Lane
<1> HIDE DEF a, b, S
<1>3. p \in Seq(S) /\ Len(p) = 2 /\ p[1] = a /\ p[2] = b
  BY <1>1
<1>4. Follows(a, b, W) /\ ~Binds(b, W)
  BY <1>1 DEF Follows, Binds
<1> HIDE DEF p
<1>5. Chained(p, W)
  <2> SUFFICES ASSUME NEW k \in 1..2, Binds(p[k], W) PROVE k < 2 /\ Follows(p[k], p[k + 1], W)
    BY <1>3 DEF Chained
  <2>1. k = 1 \/ k = 2
    OBVIOUS
  <2> QED  BY <1>3, <1>4, <2>1
<1> QED  BY <1>2, <1>3, <1>5 DEF PlanOf, S

LEMMA KeywordPlan ==
    ASSUME NEW r \in Where, NEW W, r \in W, NEW learn
    PROVE  /\ PlanOf(Query!Keyword(r, learn), Scoring, {"none", "keyword"}, W)
           /\ ~learn => PlanOf(Query!Keyword(r, learn), Quiet, {"none", "keyword"}, W)
<1>1. CASE ~learn
  <2>1. Query!Keyword(r, learn) = Query!Lane("keyword", r)
    BY <1>1 DEF Query!Keyword, Query!Lane
  <2>2. PlanOf(Query!Lane("keyword", r), {"search", "format"}, {"keyword"}, W)
    BY LanePlan
  <2>3. {"search", "format"} \subseteq Scoring /\ {"search", "format"} \subseteq Quiet
    BY DEF Scoring, Quiet
  <2> QED  BY <2>1, <2>2, <2>3, PlanWidens
<1>2. CASE learn
  <2> DEFINE a == Query!Lane("keyword", r)
             b == <<Query!Do("learn", "none", r)>>
             x == Query!Do("search", "keyword", r)
             y == Query!Do("format", "keyword", r)
             z == Query!Do("learn", "none", r)
             S == Holds(Scoring, {"none", "keyword"})
             p == <<x, y, z>>
  <2>1. /\ x \in S /\ y \in S /\ z \in S /\ x.do = "search" /\ y.do = "format" /\ z.do = "learn"
        /\ x.lane = "keyword" /\ y.lane = "keyword" /\ x.realm = r /\ y.realm = r /\ z.realm = r
    BY DEF Query!Do, Holds, Scoring
  <2>2. Query!Keyword(r, learn) = p
    BY <1>2 DEF Query!Keyword
  <2> HIDE DEF x, y, z, S
  <2>3. p \in Seq(S) /\ Len(p) = 3 /\ p[1] = x /\ p[2] = y /\ p[3] = z
    BY <2>1
  <2>4. Follows(x, y, W) /\ ~Binds(y, W) /\ ~Binds(z, W)
    BY <2>1 DEF Follows, Binds
  <2> HIDE DEF p
  <2>5. Chained(p, W)
    <3> SUFFICES ASSUME NEW k \in 1..3, Binds(p[k], W) PROVE k < 3 /\ Follows(p[k], p[k + 1], W)
      BY <2>3 DEF Chained
    <3>1. k = 1 \/ k = 2 \/ k = 3
      OBVIOUS
    <3> QED  BY <2>3, <2>4, <3>1
  <2> QED  BY <1>2, <2>2, <2>3, <2>5 DEF PlanOf, S
<1> QED  BY <1>1, <1>2

\* The semantic lane's holds; the last one binds what follows if r is not in W.
LEMMA SemanticHolds ==
    ASSUME NEW r \in Where, NEW W
    PROVE  LET p == Query!Semantic(r, TRUE) IN
           /\ p \in Seq(Holds(Scoring, {"none", "semantic"})) /\ Len(p) = 7
           /\ \A k \in 1..6 : Follows(p[k], p[k + 1], W)
           /\ p[7].do = "learn" /\ p[7].realm = r
<1> DEFINE a == Query!Do("search", "semantic", r)
           b == Query!Do("want", "none", r)
           c == Query!Do("reserve", "none", r)
           d == Query!Do("apply", "none", r)
           e == Query!Do("release", "none", r)
           f == Query!Do("format", "semantic", r)
           g == Query!Do("learn", "none", r)
           S == Holds(Scoring, {"none", "semantic"})
           p == <<a, b, c, d, e, f, g>>
<1>1. /\ a \in S /\ b \in S /\ c \in S /\ d \in S /\ e \in S /\ f \in S /\ g \in S
  BY DEF Query!Do, Holds, Scoring
<1>2. /\ a.do = "search" /\ b.do = "want" /\ c.do = "reserve" /\ d.do = "apply"
      /\ e.do = "release" /\ f.do = "format" /\ g.do = "learn"
      /\ a.lane = "semantic" /\ f.lane = "semantic" /\ a.realm = r /\ b.realm = r
      /\ c.realm = r /\ d.realm = r /\ e.realm = r /\ f.realm = r /\ g.realm = r
  BY DEF Query!Do
<1>3. Query!Semantic(r, TRUE) = p
  BY DEF Query!Semantic
<1> HIDE DEF a, b, c, d, e, f, g, S
<1>4. /\ Follows(a, b, W) /\ Follows(b, c, W) /\ Follows(c, d, W)
      /\ Follows(d, e, W) /\ Follows(e, f, W) /\ Follows(f, g, W)
  BY <1>2 DEF Follows
<1>5. /\ p \in Seq(S) /\ Len(p) = 7
      /\ p[1] = a /\ p[2] = b /\ p[3] = c /\ p[4] = d /\ p[5] = e /\ p[6] = f /\ p[7] = g
  BY <1>1
<1> HIDE DEF p
<1>6. ASSUME NEW k \in 1..6 PROVE Follows(p[k], p[k + 1], W)
  <2>1. k = 1 \/ k = 2 \/ k = 3 \/ k = 4 \/ k = 5 \/ k = 6
    OBVIOUS
  <2> QED  BY <1>4, <1>5, <2>1
<1> QED  BY <1>2, <1>3, <1>5, <1>6 DEF S

LEMMA SemanticPlan ==
    ASSUME NEW r \in Where, NEW W, r \in W, NEW learn
    PROVE  /\ PlanOf(Query!Semantic(r, learn), Scoring, {"none", "semantic"}, W)
           /\ ~learn => PlanOf(Query!Semantic(r, learn), Quiet, {"none", "semantic"}, W)
<1>1. CASE ~learn
  <2>1. Query!Semantic(r, learn) = Query!Lane("semantic", r)
    BY <1>1 DEF Query!Semantic, Query!Lane
  <2>2. PlanOf(Query!Lane("semantic", r), {"search", "format"}, {"semantic"}, W)
    BY LanePlan
  <2>3. {"search", "format"} \subseteq Scoring /\ {"search", "format"} \subseteq Quiet
    BY DEF Scoring, Quiet
  <2> QED  BY <2>1, <2>2, <2>3, PlanWidens
<1>2. CASE learn
  <2> DEFINE p == Query!Semantic(r, TRUE)
             S == Holds(Scoring, {"none", "semantic"})
  <2>1. Query!Semantic(r, learn) = p
    BY <1>2 DEF Query!Semantic
  <2>2. /\ p \in Seq(S) /\ Len(p) = 7 /\ p[7].do = "learn" /\ p[7].realm = r
        /\ \A k \in 1..6 : Follows(p[k], p[k + 1], W)
    BY SemanticHolds
  <2> HIDE DEF p, S
  <2>3. ~Binds(p[7], W)
    BY <2>2 DEF Binds
  <2>4. Chained(p, W)
    <3> SUFFICES ASSUME NEW k \in 1..7, Binds(p[k], W) PROVE k < 7 /\ Follows(p[k], p[k + 1], W)
      BY <2>2 DEF Chained
    <3>1. k # 7
      BY <2>3
    <3>2. k \in 1..6
      BY <3>1
    <3> QED  BY <2>2, <3>2
  <2> QED  BY <1>2, <2>1, <2>2, <2>4 DEF PlanOf, S
<1> QED  BY <1>1, <1>2

\* Asked without the realm, its hits are filtered by the realm's members.
LEMMA FilteredPlan ==
    ASSUME NEW r \in Where, NEW W
    PROVE  PlanOf(Query!Semantic("any", TRUE) \o <<Query!Do("members", "none", r)>>,
                  Scoring \cup {"members"}, {"none", "semantic"}, W)
<1> DEFINE p == Query!Semantic("any", TRUE)
           x == Query!Do("members", "none", r)
           T == Holds(Scoring, {"none", "semantic"})
           S == Holds(Scoring \cup {"members"}, {"none", "semantic"})
<1>1. "any" \in Where
  BY DEF Where
<1>2. /\ p \in Seq(T) /\ Len(p) = 7 /\ p[7].do = "learn"
      /\ \A k \in 1..6 : Follows(p[k], p[k + 1], W)
  BY <1>1, SemanticHolds
<1>3. x \in S /\ x.do = "members" /\ T \subseteq S
  BY DEF Query!Do, Holds
<1> HIDE DEF p, x, T, S
<1>4. p \in Seq(S) /\ <<x>> \in Seq(S) /\ Len(<<x>>) = 1 /\ <<x>>[1] = x
  BY <1>2, <1>3
<1>5. ~Binds(x, W) /\ Follows(p[7], x, W)
  BY <1>2, <1>3 DEF Binds, Follows
<1>6. Chained(<<x>>, W)
  BY <1>4, <1>5 DEF Chained
<1>7. \A k \in 1..Len(p) : IF k < Len(p) THEN Follows(p[k], p[k + 1], W)
                            ELSE Len(<<x>>) > 0 /\ Follows(p[k], <<x>>[1], W)
  <2> SUFFICES ASSUME NEW k \in 1..7
               PROVE  IF k < 7 THEN Follows(p[k], p[k + 1], W)
                               ELSE Len(<<x>>) > 0 /\ Follows(p[k], <<x>>[1], W)
    BY <1>2
  <2>1. k \in 1..6 \/ k = 7
    OBVIOUS
  <2> QED  BY <1>2, <1>4, <1>5, <2>1
<1>8. Chained(p \o <<x>>, W)
  BY <1>4, <1>6, <1>7, ChainJoined
<1>9. p \o <<x>> \in Seq(S)
  BY <1>4
<1> QED  BY <1>8, <1>9 DEF PlanOf, p, x, S

LEMMA TakePlan == \A W : PlanOf(Query!Take, {"take"}, {"none"}, W)
<1>1. "any" \in Where
  BY DEF Where
<1>2. \A W : PlanOf(<<Query!Do("take", "none", "any")>>, {"take"}, {"none"}, W)
  BY <1>1, OneHold
<1> QED  BY <1>2 DEF Query!Take, Query!Anywhere

\* The realms that the lanes of a query are asked for: one, where it is scoped.
Fused(q) == q.by \in {"hybrid", "field"}
Scoped(q) ==
    /\ \/ q.by \in {"semantic", "ctx", "keyword", "time", "hdc", "spread", "filtered"}
       \/ Fused(q) /\ q.rrf
    /\ q.realm # "any"
RealmsFor(q) == IF Scoped(q) THEN {q.realm} ELSE Where

\* The lanes that filter by the realm of the payload.
ByPayload == {"none", "keyword", "spread", "filtered"}

Showing == {"semantic", "ctx", "keyword", "session", "assoc"}

\* What a query still has to do, as far as its answer depends on it.
PlanFor(q, p) ==
    /\ PlanOf(p, Deeds, LaneNames, RealmsFor(q))
    /\ q.measure => p \in Seq(Holds(Quiet, LaneNames))
    /\ q.by # "spread" => p \in Seq(Holds(Deeds, LaneNames \ {"spread"}))
    /\ q.by \in Showing =>
          p \in Seq(Holds(Scoring \cup {"take"}, {"none", "semantic", "keyword"}))
    /\ ~Fused(q) => p \in Seq(Holds(Scoring \cup {"take"}, LaneNames))
    /\ Scoped(q) => p \in Seq(Holds(Deeds \ {"fallback"}, LaneNames \ {"artifact", "kind"}))
    /\ Query!Exact(q) => p \in Seq(Holds(Deeds, ByPayload))

LEMMA AnyPlan ==
    ASSUME NEW q, NEW p, NEW deeds, NEW lanes, PlanOf(p, deeds, lanes, RealmsFor(q)),
           deeds \subseteq Deeds, lanes \subseteq LaneNames,
           q.measure => deeds \subseteq Quiet, q.by # "spread" => "spread" \notin lanes,
           q.by \in Showing => /\ deeds \subseteq Scoring \cup {"take"}
                               /\ lanes \subseteq {"none", "semantic", "keyword"},
           ~Fused(q) => deeds \subseteq Scoring \cup {"take"},
           Scoped(q) => "fallback" \notin deeds /\ "artifact" \notin lanes /\ "kind" \notin lanes,
           Query!Exact(q) => lanes \subseteq ByPayload
    PROVE  PlanFor(q, p)
<1> DEFINE W == RealmsFor(q)
<1>1. ASSUME NEW d, NEW l, deeds \subseteq d, lanes \subseteq l
      PROVE  p \in Seq(Holds(d, l)) /\ PlanOf(p, d, l, W)
  <2>1. PlanOf(p, d, l, W)
    BY <1>1, PlanWidens
  <2> QED  BY <2>1 DEF PlanOf
<1>2. PlanOf(p, Deeds, LaneNames, W)
  BY <1>1
<1>3. q.measure => p \in Seq(Holds(Quiet, LaneNames))
  BY <1>1
<1>4. q.by # "spread" => p \in Seq(Holds(Deeds, LaneNames \ {"spread"}))
  <2> SUFFICES ASSUME q.by # "spread" PROVE p \in Seq(Holds(Deeds, LaneNames \ {"spread"}))
    OBVIOUS
  <2>1. lanes \subseteq LaneNames \ {"spread"}
    OBVIOUS
  <2> QED  BY <1>1, <2>1
<1>5. q.by \in Showing =>
          p \in Seq(Holds(Scoring \cup {"take"}, {"none", "semantic", "keyword"}))
  BY <1>1
<1>6. ~Fused(q) => p \in Seq(Holds(Scoring \cup {"take"}, LaneNames))
  BY <1>1
<1>7. Scoped(q) => p \in Seq(Holds(Deeds \ {"fallback"}, LaneNames \ {"artifact", "kind"}))
  <2> SUFFICES ASSUME Scoped(q)
               PROVE  p \in Seq(Holds(Deeds \ {"fallback"}, LaneNames \ {"artifact", "kind"}))
    OBVIOUS
  <2>1. deeds \subseteq Deeds \ {"fallback"} /\ lanes \subseteq LaneNames \ {"artifact", "kind"}
    OBVIOUS
  <2> QED  BY <1>1, <2>1
<1>8. Query!Exact(q) => p \in Seq(Holds(Deeds, ByPayload))
  BY <1>1
<1> QED  BY <1>2, <1>3, <1>4, <1>5, <1>6, <1>7, <1>8 DEF PlanFor

LEMMA LearningDeeds ==
    /\ Quiet \subseteq Deeds /\ Scoring \subseteq Deeds /\ {"search", "format"} \subseteq Quiet
    /\ {"take"} \subseteq Quiet /\ {"search", "format"} \subseteq Scoring
    /\ Quiet \subseteq Scoring \cup {"take"}
BY DEF Quiet, Scoring, Deeds

\* A lane and the take of its hits.
LEMMA Taken ==
    ASSUME NEW p, NEW deeds, NEW lanes, NEW W, PlanOf(p, deeds, lanes, W), "none" \in lanes
    PROVE  PlanOf(p \o Query!Take, deeds \cup {"take"}, lanes, W)
<1>1. PlanOf(Query!Take, {"take"}, {"none"}, W)
  BY TakePlan
<1>2. PlanOf(Query!Take, deeds \cup {"take"}, lanes, W)
  BY <1>1, PlanWidens
<1>3. PlanOf(p, deeds \cup {"take"}, lanes, W)
  BY PlanWidens
<1> QED  BY <1>2, <1>3, PlansJoined

LEMMA LaneTaken ==
    ASSUME NEW r \in Where, NEW W, r \in W, NEW lane, lane # "none"
    PROVE  PlanOf(Query!Lane(lane, r) \o Query!Take, Quiet, {"none", lane}, W)
<1>1. PlanOf(Query!Lane(lane, r), {"search", "format"}, {lane}, W)
  BY LanePlan
<1>2. {"search", "format"} \subseteq Quiet /\ Quiet \cup {"take"} = Quiet
  BY DEF Quiet
<1>3. {lane} \subseteq {"none", lane} /\ "none" \in {"none", lane}
  OBVIOUS
<1>4. PlanOf(Query!Lane(lane, r), Quiet, {"none", lane}, W)
  BY <1>1, <1>2, <1>3, PlanWidens
<1>5. PlanOf(Query!Lane(lane, r) \o Query!Take, Quiet \cup {"take"}, {"none", lane}, W)
  BY <1>3, <1>4, Taken
<1> QED  BY <1>2, <1>5

LEMMA FallbackPlan ==
    ASSUME NEW q, q.realm \in Where, NEW W, q.realm \in W
    PROVE  /\ q.rrf => PlanOf(Query!CfRecallWithFallback(q), Deeds \ {"fallback"},
                              {"none", "semantic", "keyword", "time"}, W)
           /\ PlanOf(Query!CfRecallWithFallback(q), Deeds,
                     {"none", "semantic", "keyword", "time"}, W)
<1> DEFINE r == q.realm
           D == Deeds \ {"fallback"}
           L == {"none", "semantic", "keyword", "time"}
           w == <<Query!Do("window", "none", r)>>
           f == <<Query!Do("fuse", "none", r)>>
           b == <<Query!Do("fallback", "keyword", r)>>
           u == Query!Semantic("any", TRUE) \o <<Query!Do("members", "none", r)>>
           k == Query!Keyword(r, TRUE)
           s == Query!Semantic(r, TRUE)
           t == Query!Take
<1>1. PlanOf(w, D, L, W)
  BY OneHold DEF Deeds
<1>2. PlanOf(f, D, L, W)
  BY OneHold DEF Deeds
<1>3. PlanOf(b, Deeds, L, W)
  BY OneHold DEF Deeds
<1>4. /\ Scoring \subseteq D /\ Scoring \cup {"members"} \subseteq D
      /\ {"take"} \subseteq D /\ D \subseteq Deeds
  BY DEF Scoring, Deeds
<1>5. PlanOf(u, D, L, W)
  <2>1. PlanOf(u, Scoring \cup {"members"}, {"none", "semantic"}, W)
    BY FilteredPlan
  <2> QED  BY <1>4, <2>1, PlanWidens
<1>6. PlanOf(k, D, L, W)
  <2>1. PlanOf(k, Scoring, {"none", "keyword"}, W)
    BY KeywordPlan
  <2> QED  BY <1>4, <2>1, PlanWidens
<1>7. PlanOf(s, D, L, W)
  <2>1. PlanOf(s, Scoring, {"none", "semantic"}, W)
    BY SemanticPlan
  <2> QED  BY <1>4, <2>1, PlanWidens
<1>8. PlanOf(t, D, L, W)
  <2>1. PlanOf(t, {"take"}, {"none"}, W)
    BY TakePlan
  <2> QED  BY <1>4, <2>1, PlanWidens
<1>9. /\ Query!Hybrid(q) = (((w \o u) \o k) \o t) \o f
      /\ Query!Plain(q) = ((w \o s) \o t) \o b
  BY DEF Query!Hybrid, Query!Plain, Query!Anywhere
<1> HIDE DEF w, f, b, u, k, s, t, L, D
<1>10. PlanOf(w \o u, D, L, W) /\ PlanOf(w \o s, D, L, W)
  BY <1>1, <1>5, <1>7, PlansJoined
<1>11. PlanOf((w \o u) \o k, D, L, W) /\ PlanOf((w \o s) \o t, D, L, W)
  BY <1>6, <1>8, <1>10, PlansJoined
<1>12. PlanOf(((w \o u) \o k) \o t, D, L, W) /\ PlanOf((w \o s) \o t, Deeds, L, W)
  BY <1>4, <1>8, <1>11, PlansJoined, PlanWidens
<1>13. /\ PlanOf((((w \o u) \o k) \o t) \o f, D, L, W)
       /\ PlanOf(((w \o s) \o t) \o b, Deeds, L, W)
  BY <1>2, <1>3, <1>12, PlansJoined
<1>14. PlanOf((((w \o u) \o k) \o t) \o f, Deeds, L, W)
  BY <1>4, <1>13, PlanWidens
<1> QED  BY <1>9, <1>13, <1>14 DEF Query!CfRecallWithFallback, L, D

\* The hops of recall_field: the recursion has a solution.
LEMMA HopsDefined ==
    ASSUME NEW n \in Nat, NEW x
    PROVE  \E f : f = [k \in 0..n |-> IF k = 0 THEN <<>> ELSE f[k - 1] \o x]
<1> DEFINE Solves(f, m) == f = [k \in 0..m |-> IF k = 0 THEN <<>> ELSE f[k - 1] \o x]
           Bad == {m \in Nat : ~\E f : Solves(f, m)}
<1>1. Bad = {}
  <2> SUFFICES ASSUME Bad # {} PROVE FALSE
    OBVIOUS
  <2>1. Bad \in SUBSET Nat
    OBVIOUS
  <2> DEFINE m == Min(Bad)
  <2>2. m \in Bad /\ \A k \in Bad : m <= k
    <3> HIDE DEF Bad
    <3> QED  BY <2>1, MinOf
  <2>3. m \in Nat /\ ~\E f : Solves(f, m)
    BY <2>2
  <2> HIDE DEF m
  <2>4. CASE m = 0
    <3> DEFINE f == [k \in 0..0 |-> <<>>]
    <3>1. Solves(f, 0)
      OBVIOUS
    <3> QED  BY <2>3, <2>4, <3>1
  <2>5. CASE m # 0
    <3>1. m - 1 \in Nat /\ m - 1 \notin Bad
      <4> HIDE DEF Bad
      <4>1. m - 1 \in Nat /\ ~(m <= m - 1)
        BY <2>3, <2>5
      <4> QED  BY <2>2, <4>1
    <3>2. PICK f : Solves(f, m - 1)
      BY <3>1
    <3> DEFINE g == [k \in 0..m |-> IF k = m THEN f[m - 1] \o x ELSE f[k]]
    <3>3. \A k \in 0..m-1 : f[k] = IF k = 0 THEN <<>> ELSE f[k - 1] \o x
      BY <3>2
    <3>4. \A k \in 0..m : g[k] = IF k = m THEN f[m - 1] \o x ELSE f[k]
      OBVIOUS
    <3>5. DOMAIN g = 0..m /\ g = [k \in 0..m |-> g[k]]
      OBVIOUS
    <3> HIDE DEF g
    <3>6. ASSUME NEW k \in 0..m PROVE g[k] = IF k = 0 THEN <<>> ELSE g[k - 1] \o x
      <4>1. CASE k = m
        <5>1. m - 1 \in 0..m /\ m - 1 # m
          BY <2>3, <2>5
        <5>2. m \in 0..m
          BY <2>3
        <5>3. g[m - 1] = f[m - 1] /\ g[m] = f[m - 1] \o x
          <6> HIDE DEF Solves, Bad
          <6> QED  BY <3>4, <5>1, <5>2
        <5> QED  BY <2>5, <4>1, <5>3
      <4>2. CASE k # m
        <5>1. k \in 0..m-1 /\ g[k] = f[k]
          BY <2>3, <3>4, <4>2
        <5>2. k # 0 => k - 1 \in 0..m /\ k - 1 # m
          BY <2>3
        <5>3. k # 0 => g[k - 1] = f[k - 1]
          BY <3>4, <5>2
        <5> QED  BY <3>3, <5>1, <5>3
      <4> QED  BY <4>1, <4>2
    <3>7. Solves(g, m)
      BY <3>5, <3>6
    <3> QED  BY <2>3, <3>7
  <2> QED  BY <2>4, <2>5
<1>2. n \notin Bad
  BY <1>1
<1> QED  BY <1>2

LEMMA FieldPlan ==
    ASSUME Hops \in Nat, NEW q, NEW deeds, NEW lanes, NEW W,
           PlanOf(Query!CfRecallWithFallback(q), deeds, lanes, W)
    PROVE  PlanOf(Query!CfRecallField(q), deeds, lanes, W)
<1> DEFINE x == Query!CfRecallWithFallback(q)
           hop == CHOOSE f : f = [k \in 0..Hops |-> IF k = 0 THEN <<>> ELSE f[k - 1] \o x]
<1>1. Query!CfRecallField(q) = hop[Hops]
  BY DEF Query!CfRecallField
<1> HIDE DEF x
<1>2. hop = [k \in 0..Hops |-> IF k = 0 THEN <<>> ELSE hop[k - 1] \o x]
  BY HopsDefined
<1> HIDE DEF hop
<1> DEFINE Bad == {m \in 0..Hops : ~PlanOf(hop[m], deeds, lanes, W)}
<1>3. Bad = {}
  <2> SUFFICES ASSUME Bad # {} PROVE FALSE
    OBVIOUS
  <2>1. Bad \in SUBSET Nat
    OBVIOUS
  <2> DEFINE m == Min(Bad)
  <2>2. m \in Bad /\ \A k \in Bad : m <= k
    <3> HIDE DEF Bad
    <3> QED  BY <2>1, MinOf
  <2>3. m \in 0..Hops /\ ~PlanOf(hop[m], deeds, lanes, W)
    BY <2>2
  <2> HIDE DEF m
  <2>4. hop[m] = IF m = 0 THEN <<>> ELSE hop[m - 1] \o x
    BY <1>2, <2>3
  <2>5. CASE m = 0
    BY <2>3, <2>4, <2>5, NoHold
  <2>6. CASE m # 0
    <3>1. m - 1 \in 0..Hops /\ m - 1 \notin Bad
      BY <2>2, <2>3, <2>6
    <3>2. PlanOf(hop[m - 1], deeds, lanes, W)
      BY <3>1
    <3>3. PlanOf(hop[m - 1] \o x, deeds, lanes, W)
      BY <3>2, PlansJoined DEF x
    <3> QED  BY <2>3, <2>4, <2>6, <3>3
  <2> QED  BY <2>5, <2>6
<1>4. Hops \in 0..Hops
  OBVIOUS
<1>5. PlanOf(hop[Hops], deeds, lanes, W)
  BY <1>3, <1>4
<1> QED  BY <1>1, <1>5

LEMMA PlanAsked ==
    ASSUME Hops \in Nat, NEW q, Query!Asks(q), q.realm \in Where
    PROVE  PlanFor(q, Query!Plan(q))
<1> DEFINE r == q.realm
           W == RealmsFor(q)
           any == "any"
<1>1. /\ r \in W /\ any \in Where
      /\ ~Scoped(q) => any \in W
  BY DEF RealmsFor, Where
<1>2. /\ q.measure => q.by \in {"semantic", "keyword"}
      /\ q.by \in {"semantic", "ctx", "keyword", "time", "hdc", "artifact", "spread",
                   "filtered", "kind", "hybrid", "field", "session", "events", "routed"}
  BY DEF Query!Asks
<1>3. /\ Scoring \cup {"take"} \subseteq Deeds /\ Quiet \subseteq Scoring \cup {"take"}
      /\ Quiet \subseteq Deeds /\ {"format"} \subseteq Quiet
      /\ Quiet \cup {"take"} = Quiet /\ "fallback" \notin Scoring \cup {"take"}
      /\ "fallback" \notin Quiet
  BY DEF Scoring, Deeds, Quiet
<1>4. ASSUME NEW lane \in {"time", "hdc", "artifact", "spread"}
      PROVE  {"none", lane} \subseteq LaneNames
  BY <1>4 DEF LaneNames
<1>5. CASE q.by = "semantic"
  <2>1. Query!Plan(q) = Query!Semantic(r, ~q.measure) \o Query!Take
    BY <1>5 DEF Query!Plan, Query!CfRecallSemantic
  <2>2. PlanOf(Query!Plan(q), Scoring \cup {"take"}, {"none", "semantic"}, W)
    <3>1. PlanOf(Query!Semantic(r, ~q.measure), Scoring, {"none", "semantic"}, W)
      BY <1>1, SemanticPlan
    <3> QED  BY <2>1, <3>1, Taken
  <2>3. q.measure => PlanOf(Query!Plan(q), Quiet, {"none", "semantic"}, W)
    <3>1. q.measure => PlanOf(Query!Semantic(r, ~q.measure), Quiet, {"none", "semantic"}, W)
      BY <1>1, SemanticPlan
    <3> QED  BY <1>3, <2>1, <3>1, Taken
  <2>4. {"none", "semantic"} \subseteq LaneNames /\ "spread" \notin {"none", "semantic"}
    BY DEF LaneNames
  <2>5. ~Query!Exact(q)
    BY <1>5 DEF Query!Exact
  <2> QED  BY <1>3, <2>2, <2>3, <2>4, <2>5, AnyPlan
<1>6. CASE q.by = "keyword"
  <2>1. Query!Plan(q) = Query!Keyword(r, ~q.measure) \o Query!Take
    BY <1>6 DEF Query!Plan, Query!CfRecallKeyword
  <2>2. PlanOf(Query!Plan(q), Scoring \cup {"take"}, {"none", "keyword"}, W)
    <3>1. PlanOf(Query!Keyword(r, ~q.measure), Scoring, {"none", "keyword"}, W)
      BY <1>1, KeywordPlan
    <3> QED  BY <2>1, <3>1, Taken
  <2>3. q.measure => PlanOf(Query!Plan(q), Quiet, {"none", "keyword"}, W)
    <3>1. q.measure => PlanOf(Query!Keyword(r, ~q.measure), Quiet, {"none", "keyword"}, W)
      BY <1>1, KeywordPlan
    <3> QED  BY <1>3, <2>1, <3>1, Taken
  <2>4. {"none", "keyword"} \subseteq LaneNames /\ "spread" \notin {"none", "keyword"}
    BY DEF LaneNames
  <2>5. {"none", "keyword"} \subseteq ByPayload
    BY DEF ByPayload
  <2> QED  BY <1>3, <2>2, <2>3, <2>4, <2>5, AnyPlan
<1>7. CASE q.by = "ctx"
  <2>1. Query!Plan(q) = Query!Semantic(r, TRUE) \o Query!Take
    BY <1>7 DEF Query!Plan, Query!CfRecallSemanticCtx
  <2>2. PlanOf(Query!Plan(q), Scoring \cup {"take"}, {"none", "semantic"}, W)
    <3>1. PlanOf(Query!Semantic(r, TRUE), Scoring, {"none", "semantic"}, W)
      BY <1>1, SemanticPlan
    <3> QED  BY <2>1, <3>1, Taken
  <2>3. {"none", "semantic"} \subseteq LaneNames /\ "spread" \notin {"none", "semantic"} /\ ~q.measure
    BY <1>2, <1>7 DEF LaneNames
  <2>4. ~Query!Exact(q)
    BY <1>7 DEF Query!Exact
  <2> QED  BY <1>3, <2>2, <2>3, <2>4, AnyPlan
<1>8. CASE q.by = "session"
  <2> DEFINE a == Query!Semantic(r, TRUE) \o Query!Take
             b == Query!Keyword(any, TRUE)
             L == {"none", "semantic", "keyword"}
             D == Scoring \cup {"take"}
  <2>1. Query!Plan(q) = (a \o b) \o Query!Take
    BY <1>8 DEF Query!Plan, Query!CfRecallSession, Query!Anywhere
  <2>2. any \in W
    BY <1>1, <1>8 DEF Scoped, Fused
  <2>3. PlanOf(a, D, L, W)
    <3>1. PlanOf(Query!Semantic(r, TRUE), Scoring, {"none", "semantic"}, W)
      BY <1>1, SemanticPlan
    <3>2. PlanOf(a, D, {"none", "semantic"}, W)
      BY <3>1, Taken
    <3> QED  BY <3>2, PlanWidens
  <2>4. PlanOf(b, D, L, W)
    <3>1. PlanOf(b, Scoring, {"none", "keyword"}, W)
      BY <1>1, <2>2, KeywordPlan
    <3> QED  BY <3>1, PlanWidens
  <2> HIDE DEF a, b
  <2>5. PlanOf(a \o b, D, L, W)
    BY <2>3, <2>4, PlansJoined
  <2>6. PlanOf(Query!Plan(q), D \cup {"take"}, L, W) /\ D \cup {"take"} = D
    BY <2>1, <2>5, Taken
  <2>7. L \subseteq LaneNames /\ "spread" \notin L /\ ~q.measure
    BY <1>2, <1>8 DEF LaneNames
  <2>8. PlanOf(Query!Plan(q), D, L, W)
    BY <2>6
  <2>9. ~Query!Exact(q)
    BY <1>8 DEF Query!Exact
  <2> QED  BY <1>3, <2>7, <2>8, <2>9, AnyPlan
<1>9. CASE q.by \in {"time", "hdc", "spread", "artifact", "events"}
           \/ (q.by = "routed" /\ q.window)
  <2>1. ~q.measure /\ q.by \notin Showing
    BY <1>2, <1>9 DEF Showing
  <2>2. \E lane \in {"time", "hdc", "artifact", "spread"} :
           /\ PlanOf(Query!Plan(q), Quiet, {"none", lane}, W) /\ (q.by # "spread" => lane # "spread")
           /\ Scoped(q) => lane # "artifact"
           /\ q.by = "spread" => lane = "spread"
    <3>1. CASE q.by \in {"time", "hdc", "spread"}
      <4>1. Query!Plan(q) = Query!Lane(q.by, r) \o Query!Take
        BY <3>1 DEF Query!Plan, Query!CfRecallTemporal, Query!CfRecallHdc, Query!CfRecallSpreading
      <4>2. PlanOf(Query!Plan(q), Quiet, {"none", q.by}, W)
        BY <1>1, <3>1, <4>1, LaneTaken
      <4> QED  BY <3>1, <4>2
    <3>2. CASE q.by = "artifact"
      <4>1. Query!Plan(q) = Query!Lane("artifact", any) \o Query!Take
        BY <3>2 DEF Query!Plan, Query!CfRecallArtifact, Query!Anywhere
      <4>2. any \in W
        BY <1>1, <3>2 DEF Scoped, Fused
      <4> QED  BY <1>1, <3>2, <4>1, <4>2, LaneTaken DEF Scoped, Fused
    <3>3. CASE q.by = "routed" /\ q.window
      <4>1. Query!Plan(q) = Query!Lane("time", any) \o Query!Take
        BY <3>3 DEF Query!Plan, Query!RoutedRecall, Query!Anywhere
      <4>2. any \in W
        BY <1>1, <3>3 DEF Scoped, Fused
      <4> QED  BY <1>1, <3>3, <4>1, <4>2, LaneTaken
    <3>4. CASE q.by = "events"
      <4> DEFINE a == Query!Lane("time", r) \o Query!Take
                 b == Query!Lane("time", any)
                 L == {"none", "time"}
      <4>1. Query!Plan(q) = (a \o b) \o Query!Take
        BY <3>4 DEF Query!Plan, Query!CfRecallTemporalEvents, Query!Anywhere
      <4>2. any \in W
        BY <1>1, <3>4 DEF Scoped, Fused
      <4>3. PlanOf(a, Quiet, L, W)
        BY <1>1, LaneTaken
      <4>4. PlanOf(b, Quiet, L, W)
        <5>1. PlanOf(b, {"search", "format"}, {"time"}, W)
          BY <1>1, <4>2, LanePlan
        <5>2. {"search", "format"} \subseteq Quiet
          BY DEF Quiet
        <5> QED  BY <5>1, <5>2, PlanWidens
      <4> HIDE DEF a, b
      <4>5. PlanOf(a \o b, Quiet, L, W)
        BY <4>3, <4>4, PlansJoined
      <4>6. PlanOf(Query!Plan(q), Quiet \cup {"take"}, L, W)
        BY <4>1, <4>5, Taken
      <4> QED  BY <1>3, <3>4, <4>6
    <3> QED  BY <1>9, <3>1, <3>2, <3>3, <3>4
  <2>3. PICK lane \in {"time", "hdc", "artifact", "spread"} :
           /\ PlanOf(Query!Plan(q), Quiet, {"none", lane}, W) /\ (q.by # "spread" => lane # "spread")
           /\ Scoped(q) => lane # "artifact"
           /\ q.by = "spread" => lane = "spread"
    BY <2>2
  <2>4. /\ {"none", lane} \subseteq LaneNames /\ (q.by # "spread" => "spread" \notin {"none", lane})
        /\ "kind" \notin {"none", lane} /\ (Scoped(q) => "artifact" \notin {"none", lane})
    BY <1>4, <2>3
  <2>5. Query!Exact(q) => {"none", lane} \subseteq ByPayload
    BY <1>9, <2>3 DEF Query!Exact, ByPayload
  <2> QED  BY <1>3, <2>1, <2>3, <2>4, <2>5, AnyPlan
<1>10. CASE q.by \in {"filtered", "kind"}
  <2> DEFINE x == IF q.by = "kind" THEN <<Query!Do("format", "kind", any)>>
                                   ELSE <<Query!Do("format", "filtered", r)>>
             L == IF q.by = "kind" THEN {"none", "kind"} ELSE {"none", "filtered"}
  <2>1. Query!Plan(q) = x \o Query!Take
    BY <1>10 DEF Query!Plan, Query!CfRecallFiltered, Query!CfRecallByKind, Query!Anywhere
  <2>2. PlanOf(x, Quiet, L, W)
    <3>1. q.by = "kind" => any \in W
      BY <1>1 DEF Scoped, Fused
    <3>2. CASE q.by = "kind"
      <4>1. PlanOf(<<Query!Do("format", "kind", any)>>, Quiet, L, W)
        BY <1>1, <3>1, <3>2, OneHold DEF Quiet
      <4> QED  BY <3>2, <4>1
    <3>3. CASE q.by # "kind"
      <4>1. PlanOf(<<Query!Do("format", "filtered", r)>>, Quiet, L, W)
        BY <1>1, <3>3, OneHold DEF Quiet
      <4> QED  BY <3>3, <4>1
    <3> QED  BY <3>2, <3>3
  <2>3. PlanOf(Query!Plan(q), Quiet \cup {"take"}, L, W)
    BY <2>1, <2>2, Taken
  <2>4. /\ L \subseteq LaneNames /\ "spread" \notin L /\ ~q.measure /\ q.by \notin Showing
        /\ "artifact" \notin L /\ (Scoped(q) => "kind" \notin L)
    BY <1>2, <1>10 DEF LaneNames, Showing, Scoped, Fused
  <2>5. Query!Exact(q) => L \subseteq ByPayload
    BY <1>10 DEF Query!Exact, ByPayload
  <2> QED  BY <1>3, <2>3, <2>4, <2>5, AnyPlan
<1>11. CASE q.by \in {"hybrid", "field"}
  <2> DEFINE L == {"none", "semantic", "keyword", "time"}
             D == IF q.rrf THEN Deeds \ {"fallback"} ELSE Deeds
  <2>1. PlanOf(Query!CfRecallWithFallback(q), D, L, W)
    BY <1>1, FallbackPlan
  <2>2. Query!Plan(q) = IF q.by = "hybrid" THEN Query!CfRecallWithFallback(q)
                                            ELSE Query!CfRecallField(q)
    BY <1>11 DEF Query!Plan
  <2>3. PlanOf(Query!Plan(q), D, L, W)
    <3> HIDE DEF D, L
    <3> QED  BY <2>1, <2>2, FieldPlan
  <2>4. /\ L \subseteq LaneNames /\ "spread" \notin L /\ ~q.measure /\ q.by \notin Showing
        /\ "artifact" \notin L /\ "kind" \notin L
    BY <1>2, <1>11 DEF LaneNames, Showing
  <2>5. D \subseteq Deeds /\ Fused(q) /\ (Scoped(q) => "fallback" \notin D)
    BY <1>11 DEF Fused, Scoped
  <2>6. ~Query!Exact(q)
    BY <1>11 DEF Query!Exact
  <2> HIDE DEF D, L
  <2> QED  BY <2>3, <2>4, <2>5, <2>6, AnyPlan
<1>12. CASE q.by = "routed" /\ ~q.window
  <2>1. Query!Plan(q) = Query!Keyword(any, TRUE) \o Query!Take
    BY <1>12 DEF Query!Plan, Query!RoutedRecall, Query!Anywhere
  <2>2. any \in W
    BY <1>1, <1>12 DEF Scoped, Fused
  <2>3. PlanOf(Query!Plan(q), Scoring \cup {"take"}, {"none", "keyword"}, W)
    <3>1. PlanOf(Query!Keyword(any, TRUE), Scoring, {"none", "keyword"}, W)
      BY <1>1, <2>2, KeywordPlan
    <3> QED  BY <2>1, <3>1, Taken
  <2>4. {"none", "keyword"} \subseteq LaneNames /\ "spread" \notin {"none", "keyword"} /\ ~q.measure
    BY <1>2, <1>12 DEF LaneNames
  <2>5. ~Query!Exact(q)
    BY <1>12 DEF Query!Exact
  <2> QED  BY <1>3, <1>12, <2>3, <2>4, <2>5, AnyPlan
<1> QED  BY <1>2, <1>5, <1>6, <1>7, <1>8, <1>9, <1>10, <1>11, <1>12

LEMMA HeadFor ==
    ASSUME NEW q, NEW p, PlanFor(q, p), p # <<>>
    PROVE  /\ q.measure => Head(p).do \in Quiet
           /\ q.by # "spread" => Head(p).lane # "spread"
           /\ q.by \in Showing => Head(p).lane \in {"none", "semantic", "keyword"}
           /\ ~Fused(q) => Head(p).do \in Scoring \cup {"take"}
           /\ Scoped(q) => Head(p).do # "fallback" /\ Head(p).lane \notin {"artifact", "kind"}
           /\ Query!Exact(q) => Head(p).lane \in ByPayload
<1>1. \A S : p \in Seq(S) => Head(p) \in S
  OBVIOUS
<1>2. q.measure => Head(p) \in Holds(Quiet, LaneNames)
  BY <1>1 DEF PlanFor
<1>3. q.by # "spread" => Head(p) \in Holds(Deeds, LaneNames \ {"spread"})
  BY <1>1 DEF PlanFor
<1>4. q.by \in Showing =>
         Head(p) \in Holds(Scoring \cup {"take"}, {"none", "semantic", "keyword"})
  BY <1>1 DEF PlanFor
<1>5. ~Fused(q) => Head(p) \in Holds(Scoring \cup {"take"}, LaneNames)
  BY <1>1 DEF PlanFor
<1>6. Scoped(q) => Head(p) \in Holds(Deeds \ {"fallback"}, LaneNames \ {"artifact", "kind"})
  BY <1>1 DEF PlanFor
<1>8. Query!Exact(q) => Head(p) \in Holds(Deeds, ByPayload)
  BY <1>1 DEF PlanFor
<1> DEFINE x == Head(p)
<1>7. \A deeds, lanes : x \in Holds(deeds, lanes) => x.do \in deeds /\ x.lane \in lanes
  BY DEF Holds
<1> HIDE DEF x
<1> QED  BY <1>2, <1>3, <1>4, <1>5, <1>6, <1>7, <1>8 DEF x

LEMMA PlanForPopped ==
    ASSUME NEW q, NEW p, PlanFor(q, p), p # <<>>
    PROVE  PlanFor(q, Tail(p))
<1>1. PlanOf(Tail(p), Deeds, LaneNames, RealmsFor(q))
  BY PlanPopped DEF PlanFor
<1>2. \A S : p \in Seq(S) => Tail(p) \in Seq(S)
  OBVIOUS
<1> QED  BY <1>1, <1>2 DEF PlanFor

LEMMA PlanForJoined ==
    ASSUME NEW q, NEW a, NEW b, PlanFor(q, a), PlanFor(q, b)
    PROVE  PlanFor(q, a \o b)
<1>1. PlanOf(a \o b, Deeds, LaneNames, RealmsFor(q))
  BY PlansJoined DEF PlanFor
<1>2. \A S : a \in Seq(S) /\ b \in Seq(S) => a \o b \in Seq(S)
  OBVIOUS
<1> QED  BY <1>1, <1>2 DEF PlanFor

\* What the fusion and the fallbacks put before the rest of the plan.
LEMMA TimePlan ==
    ASSUME NEW q, q.realm \in Where, Fused(q), ~q.measure, NEW p, PlanFor(q, p)
    PROVE  PlanFor(q, (Query!Lane("time", q.realm) \o Query!Take) \o p)
<1> DEFINE a == Query!Lane("time", q.realm) \o Query!Take
<1>1. PlanOf(a, Quiet, {"none", "time"}, RealmsFor(q))
  BY LaneTaken DEF RealmsFor
<1>2. /\ Quiet \subseteq Deeds /\ {"none", "time"} \subseteq LaneNames
      /\ "fallback" \notin Quiet /\ q.by \notin Showing /\ "spread" \notin {"none", "time"}
  BY DEF Quiet, Deeds, LaneNames, Showing, Fused
<1>3. PlanFor(q, a)
  <2>1. ~Query!Exact(q)
    BY DEF Query!Exact, Fused
  <2> QED  BY <1>1, <1>2, <2>1, AnyPlan
<1> HIDE DEF a
<1>4. PlanFor(q, a \o p)
  BY <1>3, PlanForJoined
<1> QED  BY <1>4 DEF a

LEMMA KeywordFallback ==
    ASSUME NEW q, q.realm \in Where, Fused(q), ~q.measure, ~Scoped(q), NEW p, PlanFor(q, p)
    PROVE  PlanFor(q, ((Query!Keyword("any", TRUE) \o Query!Take)
                        \o <<Query!Do("fallback", "time", q.realm)>>) \o p)
<1> DEFINE k == Query!Keyword("any", TRUE)
           a == k \o Query!Take
           b == <<Query!Do("fallback", "time", q.realm)>>
           L == {"none", "keyword", "time"}
<1>1. /\ Scoring \cup {"take"} \subseteq Deeds /\ L \subseteq LaneNames
      /\ q.by \notin Showing /\ "spread" \notin L
  BY DEF Scoring, Deeds, LaneNames, Showing, Fused
<1>2. RealmsFor(q) = Where /\ "any" \in Where
  BY DEF RealmsFor, Where
<1>3. PlanOf(k, Scoring, {"none", "keyword"}, Where)
  BY <1>2, KeywordPlan
<1>4. PlanOf(a, Scoring \cup {"take"}, {"none", "keyword"}, Where)
  BY <1>3, Taken
<1>5. PlanOf(a, Deeds, L, Where)
  BY <1>1, <1>4, PlanWidens
<1>6. PlanOf(b, Deeds, L, Where)
  BY OneHold DEF Deeds
<1> HIDE DEF a, b, L
<1>7. PlanOf(a \o b, Deeds, L, RealmsFor(q))
  BY <1>2, <1>5, <1>6, PlansJoined
<1>8. PlanFor(q, a \o b)
  <2>1. ~Query!Exact(q)
    BY DEF Query!Exact, Fused
  <2> QED  BY <1>1, <1>7, <2>1, AnyPlan
<1>9. PlanFor(q, (a \o b) \o p)
  BY <1>8, PlanForJoined
<1> QED  BY <1>9 DEF a, b

AliveIn(mem) == {i \in DOMAIN mem : mem[i] \in {"live", "hidden"}}
ShownIn(mem) == {i \in DOMAIN mem : mem[i] = "live"}

\* The same memories, in the same realms.
SameRealms(a, b) ==
    /\ a.mem = b.mem /\ a.realm = b.realm /\ a.members = b.members /\ a.graphed = b.graphed

RecallRam == {"mem", "realm", "members", "graphed", "moving", "fresh", "inflight", "touch", "pairs", "hits", "edges"}
RecallEnv == {"menu", "sess", "now", "edits", "queries", "slow"}
SessionFields == {"plan", "q", "at", "found", "last", "hits", "gate", "want", "held", "ok",
                  "shown", "here", "blind", "walked"}

StoreInv ==
    /\ DOMAIN ram = RecallRam /\ DOMAIN env = RecallEnv /\ DOMAIN env.sess = Sessions
    /\ env.menu \in Menus /\ DOMAIN ram.mem \subseteq RecallIds
    /\ \A i \in DOMAIN ram.mem : /\ ram.mem[i] \in {"live", "hidden", "dead", "gone", "back"}
                                 /\ <<RealmOf(i), i>> \in ram.graphed
    /\ \A e \in ram.edges : e = <<e[1], e[2]>>
    /\ \A p \in DOMAIN ram.pairs : p = <<p[1], p[2]>>

\* A session knows what was alive, shown and in its realm at some moment of its call.
CallInv(store, me) ==
    /\ DOMAIN me = SessionFields /\ PlanFor(me.q, me.plan)
    /\ me.plan # <<>> => /\ me.q.realm \in Where
                         /\ AliveIn(store.mem) \subseteq me.ok
                         /\ ShownIn(store.mem) \subseteq me.shown
                         /\ Query!Belonging(store, me.q) \subseteq me.here
                         /\ me.blind \/ me.q.realm \in DOMAIN store.members

AnswerInv(me) ==
    /\ me.found \subseteq RecallIds /\ me.last \subseteq RecallIds /\ me.hits \subseteq RecallIds
    /\ me.q.by # "spread" => me.hits \subseteq me.ok /\ me.last \subseteq me.ok
    /\ me.q.by \in Showing => me.hits \subseteq me.shown /\ me.last \subseteq me.shown

\* Only between a reservation and its release does a session hold something.
HeldInv(me) == me.held # {} => me.plan # <<>> /\ Head(me.plan).do \in {"apply", "release"}

Local(me) ==
    me.here \cup {i \in RecallIds : \E j \in RecallIds :
                        \/ <<j, i>> \in Bridges
                        \/ Fused(me.q) /\ PprLane /\ <<j, i>> \in me.walked}

\* What a scoped query has found, by what it will do next.
HeadInv(me, x) ==
    /\ \/ me.last \subseteq Local(me)
       \/ x.do = "members" \/ (x.do = "learn" /\ x.realm # me.q.realm)
    /\ \/ me.found \subseteq me.here
       \/ /\ x.do \in {"want", "reserve", "apply", "release", "format"}
          /\ x.realm # me.q.realm
       \/ x.do = "format" /\ x.lane \notin {"semantic", "time", "hdc"}
RealmInv(me) ==
    Scoped(me.q) /\ ~me.blind =>
       /\ me.hits \subseteq Local(me)
       /\ me.plan # <<>> => HeadInv(me, Head(me.plan))

SessionInv(store, me) == CallInv(store, me) /\ AnswerInv(me) /\ HeldInv(me) /\ RealmInv(me)

\* As long as no session outlives the interval, no reservation expires.
RefreshInv ==
    /\ env.now \in Nat /\ env.slow \in BOOLEAN
    /\ ~env.slow =>
         /\ \A s \in Sessions : env.sess[s].plan # <<>> =>
               env.sess[s].at \in Nat /\ env.sess[s].at <= env.now
               /\ env.now < env.sess[s].at + Interval
         /\ \A s, t \in Sessions : s # t => env.sess[s].held \cap env.sess[t].held = {}
         /\ \A i : i \in DOMAIN ram.inflight <=> \E s \in Sessions : i \in env.sess[s].held
         /\ \A s \in Sessions : \A i \in env.sess[s].held : ram.inflight[i] = env.sess[s].at

RecallInv ==
    StoreInv /\ RefreshInv /\ \A s \in Sessions : SessionInv(ram, env.sess[s])

LEMMA StoreSeen ==
    ASSUME StoreInv
    PROVE  /\ Query!Alive = AliveIn(ram.mem) /\ Query!Shown = ShownIn(ram.mem)
           /\ Query!Alive \subseteq RecallIds /\ Query!Shown \subseteq Query!Alive
           /\ Query!Searchable \subseteq DOMAIN ram.mem /\ Query!Indexed \subseteq DOMAIN ram.mem
           /\ Query!Alive \subseteq DOMAIN ram.mem /\ DOMAIN ram.mem \subseteq RecallIds
<1>1. /\ Query!Alive = AliveIn(ram.mem)
      /\ Query!Indexed \subseteq DOMAIN ram.mem /\ Query!Searchable \subseteq DOMAIN ram.mem
  BY DEF Query!Alive, Query!Indexed, Query!Searchable, Query!In, AliveIn
<1>2. Query!Shown = ShownIn(ram.mem)
  BY DEF Query!Shown, Query!In, ShownIn
<1>3. AliveIn(ram.mem) \subseteq DOMAIN ram.mem /\ DOMAIN ram.mem \subseteq RecallIds
      /\ ShownIn(ram.mem) \subseteq AliveIn(ram.mem)
  BY DEF StoreInv, AliveIn, ShownIn
<1> QED  BY <1>1, <1>2, <1>3

\* What belongs to the realm of a query, by its payload and by the indexes.
LEMMA Belongs ==
    ASSUME StoreInv, NEW q
    PROVE  /\ \A i \in DOMAIN ram.mem : ram.realm[i] = q.realm => i \in Query!Belonging(ram, q)
           /\ ~Query!Exact(q) => /\ Query!MembersOf(q.realm) \subseteq Query!Belonging(ram, q)
                                 /\ \A i \in DOMAIN ram.mem :
                                      RealmOf(i) = q.realm \/ <<q.realm, i>> \in ram.graphed
                                        => i \in Query!Belonging(ram, q)
<1>1. \A i \in DOMAIN ram.mem : ram.realm[i] = q.realm => i \in Query!Belonging(ram, q)
  BY DEF Query!Belonging
<1>2. ASSUME ~Query!Exact(q), NEW i \in Query!MembersOf(q.realm) PROVE i \in Query!Belonging(ram, q)
  BY <1>2, StoreSeen DEF Query!Belonging, Query!MembersOf
<1>3. ASSUME ~Query!Exact(q), NEW i \in DOMAIN ram.mem,
             RealmOf(i) = q.realm \/ <<q.realm, i>> \in ram.graphed
      PROVE  i \in Query!Belonging(ram, q)
  BY <1>3 DEF Query!Belonging, StoreInv
<1> QED  BY <1>1, <1>2, <1>3

LEMMA SameCalls ==
    ASSUME NEW a, NEW b, SameRealms(a, b), NEW me
    PROVE  CallInv(a, me) <=> CallInv(b, me)
<1>1. \A q : Query!Belonging(a, q) = Query!Belonging(b, q)
  BY DEF SameRealms, Query!Belonging
<1> QED  BY <1>1 DEF CallInv, SameRealms

\* The same session later in the same call.
SameCall(me, to) ==
    /\ DOMAIN to = SessionFields /\ to.q = me.q /\ to.at = me.at /\ to.ok = me.ok
    /\ to.shown = me.shown /\ to.here = me.here /\ to.blind = me.blind

\* What a step leaves of the session it has computed: all but the plan.
Took(new, to, plan) ==
    /\ DOMAIN to = SessionFields /\ to.plan = plan
    /\ to.q = new.q /\ to.at = new.at /\ to.ok = new.ok /\ to.shown = new.shown
    /\ to.here = new.here /\ to.blind = new.blind /\ to.found = new.found /\ to.last = new.last
    /\ to.hits = new.hits /\ to.held = new.held /\ to.walked = new.walked

LEMMA Turned ==
    ASSUME StoreInv, NEW s \in Sessions, NEW new, DOMAIN new = SessionFields,
           NEW plan, Query!Turn(s, plan, new)
    PROVE  /\ env' = [env EXCEPT !.sess[s] = env'.sess[s]]
           /\ Took(new, env'.sess[s], plan)
<1> DEFINE to == [new EXCEPT !.plan = plan]
<1>1. Took(new, to, plan)
  BY DEF SessionFields, Took
<1>2. env' = [env EXCEPT !.sess[s] = to]
  BY DEF Query!Turn
<1> HIDE DEF to
<1>3. env'.sess[s] = to
  BY <1>2 DEF StoreInv, RecallEnv
<1> QED  BY <1>1, <1>2, <1>3

LEMMA WentOn ==
    ASSUME StoreInv, NEW s \in Sessions, NEW new, DOMAIN new = SessionFields, Query!Went(s, new)
    PROVE  /\ env' = [env EXCEPT !.sess[s] = env'.sess[s]]
           /\ Took(new, env'.sess[s], Tail(new.plan))
<1>1. [new EXCEPT !.plan = Tail(@)] = [new EXCEPT !.plan = Tail(new.plan)]
  OBVIOUS
<1>2. Query!Turn(s, Tail(new.plan), new)
  BY <1>1 DEF Query!Went, Query!Turn
<1> QED  BY <1>2, Turned

\* A step of one session.
LEMMA SessionMoves ==
    ASSUME RecallInv, NEW s \in Sessions, NEW to, env.sess[s].plan # <<>>,
           env' = [env EXCEPT !.sess[s] = to], SameCall(env.sess[s], to),
           PlanFor(to.q, to.plan), AnswerInv(to), HeldInv(to), RealmInv(to),
           DOMAIN ram' = RecallRam, SameRealms(ram', ram), ram'.edges = ram.edges,
           \A p \in DOMAIN ram'.pairs : p = <<p[1], p[2]>>, RefreshInv'
    PROVE  RecallInv'
<1>1. /\ DOMAIN env' = RecallEnv /\ env'.menu = env.menu /\ DOMAIN env'.sess = Sessions
      /\ env'.sess[s] = to /\ \A t \in Sessions \ {s} : env'.sess[t] = env.sess[t]
  BY DEF RecallInv, StoreInv, RecallEnv
<1>2. StoreInv'
  BY <1>1 DEF RecallInv, StoreInv, SameRealms
<1>3. CallInv(ram, to)
  BY DEF RecallInv, SessionInv, CallInv, SameCall
<1>4. \A t \in Sessions : SessionInv(ram', env'.sess[t])
  <2> SUFFICES ASSUME NEW t \in Sessions PROVE SessionInv(ram, env'.sess[t])
    <3> DEFINE now == ram'
    <3>1. SameRealms(now, ram)
      OBVIOUS
    <3> HIDE DEF now
    <3>2. \A me : SessionInv(now, me) <=> SessionInv(ram, me)
      BY <3>1, SameCalls DEF SessionInv
    <3> QED  BY <3>2 DEF now
  <2>1. CASE t = s
    BY <1>1, <1>3, <2>1 DEF SessionInv
  <2>2. CASE t # s
    BY <1>1, <2>2 DEF RecallInv
  <2> QED  BY <2>1, <2>2
<1> QED  BY <1>2, <1>4 DEF RecallInv

\* One that reserves and releases nothing.
LEMMA RefreshUntouched ==
    ASSUME RecallInv, NEW s \in Sessions, NEW to, env.sess[s].plan # <<>>,
           env' = [env EXCEPT !.sess[s] = to], to.at = env.sess[s].at,
           to.held = env.sess[s].held, ram'.inflight = ram.inflight
    PROVE  RefreshInv'
<1>1. /\ env'.now = env.now /\ env'.slow = env.slow
      /\ env'.sess[s] = to /\ \A t \in Sessions \ {s} : env'.sess[t] = env.sess[t]
  BY DEF RecallInv, StoreInv, RecallEnv
<1>2. \A t \in Sessions : /\ env'.sess[t].at = env.sess[t].at /\ env'.sess[t].held = env.sess[t].held
                          /\ env'.sess[t].plan # <<>> => env.sess[t].plan # <<>>
  BY <1>1
<1>3. RefreshInv
  BY DEF RecallInv
<1>4. env'.now \in Nat /\ env'.slow \in BOOLEAN
  BY <1>1, <1>3 DEF RefreshInv
<1> SUFFICES ASSUME ~env'.slow
             PROVE  /\ \A t \in Sessions : env'.sess[t].plan # <<>> =>
                           env'.sess[t].at \in Nat /\ env'.sess[t].at <= env'.now
                           /\ env'.now < env'.sess[t].at + Interval
                    /\ \A t, u \in Sessions : t # u => env'.sess[t].held \cap env'.sess[u].held = {}
                    /\ \A i : i \in DOMAIN ram'.inflight
                                <=> \E t \in Sessions : i \in env'.sess[t].held
                    /\ \A t \in Sessions : \A i \in env'.sess[t].held :
                           ram'.inflight[i] = env'.sess[t].at
  BY <1>4 DEF RefreshInv
<1> QED  BY <1>1, <1>2, <1>3 DEF RefreshInv

LEMMA QuietStep ==
    ASSUME RecallInv, NEW s \in Sessions, NEW to, env.sess[s].plan # <<>>,
           Head(env.sess[s].plan).do \notin {"apply", "release"},
           env' = [env EXCEPT !.sess[s] = to], SameCall(env.sess[s], to),
           to.held = env.sess[s].held,
           PlanFor(to.q, to.plan), AnswerInv(to), RealmInv(to),
           DOMAIN ram' = RecallRam, SameRealms(ram', ram), ram'.edges = ram.edges,
           ram'.inflight = ram.inflight,
           \A p \in DOMAIN ram'.pairs : p = <<p[1], p[2]>>
    PROVE  RecallInv'
<1>1. HeldInv(to)
  BY DEF RecallInv, SessionInv, HeldInv
<1>2. RefreshInv'
  BY RefreshUntouched DEF SameCall
<1> QED  BY <1>1, <1>2, SessionMoves

\* A session about to take a hold.
Poised(me, x) ==
    /\ me.plan # <<>> /\ x = Head(me.plan) /\ x \in Holds(Deeds, LaneNames)
    /\ PlanFor(me.q, me.plan) /\ PlanFor(me.q, Tail(me.plan))
    /\ Binds(x, RealmsFor(me.q)) =>
          Tail(me.plan) # <<>> /\ Follows(x, Head(Tail(me.plan)), RealmsFor(me.q))
    /\ DOMAIN me = SessionFields /\ me.q.realm \in Where /\ AnswerInv(me) /\ RealmInv(me)

LEMMA PoisedTo ==
    ASSUME RecallInv, NEW s \in Sessions, NEW do, Query!Doing(s, do)
    PROVE  /\ Poised(env.sess[s], Query!Now(s)) /\ Query!Now(s).do = do
           /\ Query!Alive \subseteq env.sess[s].ok /\ Query!Shown \subseteq env.sess[s].shown
           /\ Query!Belonging(ram, env.sess[s].q) \subseteq env.sess[s].here
           /\ env.sess[s].blind \/ Query!Known(env.sess[s].q.realm)
<1> DEFINE me == env.sess[s]
<1>1. me.plan # <<>> /\ Query!Now(s) = Head(me.plan) /\ Head(me.plan).do = do
  BY DEF Query!Doing, Query!Running, Query!Now
<1>2. SessionInv(ram, me) /\ StoreInv
  BY DEF RecallInv
<1>3. PlanFor(me.q, me.plan) /\ DOMAIN me = SessionFields /\ me.q.realm \in Where
  BY <1>1, <1>2 DEF SessionInv, CallInv
<1>4. PlanFor(me.q, Tail(me.plan))
  BY <1>1, <1>3, PlanForPopped
<1>5. /\ Head(me.plan) \in Holds(Deeds, LaneNames)
      /\ Binds(Head(me.plan), RealmsFor(me.q)) =>
            Tail(me.plan) # <<>> /\ Follows(Head(me.plan), Head(Tail(me.plan)), RealmsFor(me.q))
  <2>1. PlanOf(me.plan, Deeds, LaneNames, RealmsFor(me.q))
    BY <1>3 DEF PlanFor
  <2> QED  BY <1>1, <2>1, PlanPopped
<1>6. /\ Query!Alive \subseteq me.ok /\ Query!Shown \subseteq me.shown
      /\ Query!Belonging(ram, me.q) \subseteq me.here
      /\ me.blind \/ Query!Known(me.q.realm)
  BY <1>1, <1>2, StoreSeen DEF SessionInv, CallInv, Query!Known
<1>7. AnswerInv(me) /\ RealmInv(me)
  BY <1>2 DEF SessionInv
<1> QED  BY <1>1, <1>3, <1>4, <1>5, <1>6, <1>7 DEF Poised

LEMMA LocalSame ==
    ASSUME NEW me, NEW to, to.q = me.q, to.walked = me.walked, to.here = me.here
    PROVE  Local(to) = Local(me)
BY DEF Local

\* The holds that leave what was found and kept as it is.
LEMMA RealmUntouched ==
    ASSUME NEW me, NEW x, Poised(me, x), NEW to, to.q = me.q, to.walked = me.walked,
           to.here = me.here, to.blind = me.blind, to.plan = Tail(me.plan), to.hits = me.hits,
           to.last = me.last, to.found = me.found,
           x.do \in {"want", "reserve", "apply", "release", "learn", "window"}
    PROVE  RealmInv(to)
<1> SUFFICES ASSUME Scoped(me.q), ~me.blind
             PROVE  /\ to.hits \subseteq Local(to)
                    /\ to.plan # <<>> => HeadInv(to, Head(to.plan))
  BY DEF RealmInv
<1> DEFINE y == Head(to.plan)
<1>1. Local(to) = Local(me)
  BY LocalSame
<1>2. me.hits \subseteq Local(me) /\ HeadInv(me, x)
  BY DEF Poised, RealmInv
<1>3. RealmsFor(me.q) = {me.q.realm}
  BY DEF RealmsFor
<1>4. Binds(x, RealmsFor(me.q)) => to.plan # <<>> /\ Follows(x, y, {me.q.realm})
  BY <1>3 DEF Poised
<1> HIDE DEF y
<1>5. ASSUME to.plan # <<>> PROVE HeadInv(to, y)
  <2>1. \/ me.last \subseteq Local(me)
        \/ y.do = "members" \/ (y.do = "learn" /\ y.realm # me.q.realm)
    <3>1. CASE x.do = "learn" /\ x.realm # me.q.realm
      <4>1. Binds(x, RealmsFor(me.q))
        BY <1>3, <3>1 DEF Binds
      <4> QED  BY <1>4, <3>1, <4>1 DEF Follows
    <3>2. CASE ~(x.do = "learn" /\ x.realm # me.q.realm)
      BY <1>2, <3>2 DEF HeadInv
    <3> QED  BY <3>1, <3>2
  <2>2. \/ me.found \subseteq me.here
        \/ /\ y.do \in {"want", "reserve", "apply", "release", "format"}
           /\ y.realm # me.q.realm
    <3>1. CASE x.do \in {"want", "reserve", "apply", "release"} /\ x.realm # me.q.realm
      <4>1. Binds(x, RealmsFor(me.q))
        BY <3>1 DEF Binds
      <4> QED  BY <1>4, <3>1, <4>1 DEF Follows
    <3>2. CASE ~(x.do \in {"want", "reserve", "apply", "release"} /\ x.realm # me.q.realm)
      BY <1>2, <3>2 DEF HeadInv
    <3> QED  BY <3>1, <3>2
  <2> QED  BY <1>1, <2>1, <2>2 DEF HeadInv
<1> QED  BY <1>1, <1>2, <1>5 DEF y

LEMMA SearchStep ==
    ASSUME RecallInv, NEW s \in Sessions, Query!Search(s)
    PROVE  RecallInv'
<1> DEFINE me == env.sess[s]
           x == Query!Now(s)
           r == x.realm
           all == CASE x.lane = "semantic" -> Query!SemanticSearch(r)
                    [] x.lane = "keyword" -> {Query!Searchable}
                    [] x.lane = "time" -> {Query!TimeSearch(r, me.q.window)}
                    [] x.lane = "hdc" -> {Query!HdcSearch(r)}
                    [] OTHER -> {Query!Indexed}
<1>0. PICK found \in all : Query!Went(s, [me EXCEPT !.found = found])
  BY DEF Query!Search
<1> DEFINE new == [me EXCEPT !.found = found]
           to == env'.sess[s]
<1>1. Query!Doing(s, "search") /\ Query!Went(s, new) /\ ram' = ram
  BY <1>0 DEF Query!Search
<1>2. /\ Poised(me, x) /\ x.do = "search" /\ (me.blind \/ Query!Known(me.q.realm))
      /\ Query!Belonging(ram, me.q) \subseteq me.here
  BY <1>1, PoisedTo
<1>3. StoreInv
  BY DEF RecallInv
<1>4. /\ DOMAIN new = SessionFields /\ new.q = me.q /\ new.at = me.at /\ new.ok = me.ok
      /\ new.shown = me.shown /\ new.here = me.here /\ new.blind = me.blind /\ new.found = found /\ new.last = me.last
      /\ new.hits = me.hits /\ new.held = me.held /\ new.walked = me.walked /\ new.plan = me.plan
  BY <1>2 DEF Poised, SessionFields
<1> HIDE DEF new
<1>5. env' = [env EXCEPT !.sess[s] = to] /\ Took(new, to, Tail(me.plan))
  BY <1>1, <1>3, <1>4, WentOn
<1> HIDE DEF to
<1>6. /\ env' = [env EXCEPT !.sess[s] = to] /\ SameCall(me, to) /\ to.plan = Tail(me.plan)
      /\ to.found = found /\ to.last = me.last /\ to.hits = me.hits /\ to.held = me.held
      /\ to.walked = me.walked
  BY <1>4, <1>5 DEF SameCall, Took
<1>7. found \subseteq DOMAIN ram.mem /\ found \subseteq RecallIds
  <2>1. /\ Query!Indexed \subseteq DOMAIN ram.mem /\ Query!Searchable \subseteq DOMAIN ram.mem
        /\ DOMAIN ram.mem \subseteq RecallIds
    BY <1>3, StoreSeen
  <2>2. found \subseteq Query!Indexed \/ found \subseteq Query!Searchable
    BY <1>0 DEF Query!SemanticSearch, Query!MembersOf, Query!TimeSearch, Query!HdcSearch, Query!StoredIn
  <2> QED  BY <2>1, <2>2
<1>8. AnswerInv(to)
  BY <1>2, <1>6, <1>7 DEF AnswerInv, Poised, SameCall
<1>9. RealmInv(to)
  <2> SUFFICES ASSUME Scoped(me.q), ~me.blind
               PROVE  /\ to.hits \subseteq Local(to)
                      /\ to.plan # <<>> => HeadInv(to, Head(to.plan))
    BY <1>6 DEF RealmInv, SameCall
  <2> DEFINE y == Head(to.plan)
  <2>1. Local(to) = Local(me) /\ to.q = me.q /\ to.here = me.here
    BY <1>6, LocalSame DEF SameCall
  <2>2. me.hits \subseteq Local(me) /\ me.last \subseteq Local(me)
    BY <1>2 DEF Poised, RealmInv, HeadInv
  <2>3. RealmsFor(me.q) = {me.q.realm} /\ me.q.realm # "any"
    BY DEF RealmsFor, Scoped
  <2>4. y.realm = r /\ ((y.do = "format" /\ y.lane = x.lane) \/ (y.do = "want" /\ x.lane = "semantic"))
    BY <1>2, <1>6, <2>3 DEF Poised, Binds, Follows
  <2>5. r = me.q.realm /\ x.lane \in {"semantic", "time", "hdc"} => found \subseteq me.here
    <3> SUFFICES ASSUME r = me.q.realm, x.lane \in {"semantic", "time", "hdc"}
                 PROVE  found \subseteq me.here
      OBVIOUS
    <3>1. Query!Known(r)
      BY <1>2
    <3>2. ~Query!Exact(me.q)
      <4>1. Query!Exact(me.q) => x.lane \in ByPayload
        BY <1>2, HeadFor DEF Poised
      <4> QED  BY <4>1 DEF ByPayload
    <3>3. \/ found = Query!MembersOf(r)
          \/ \A i \in found : RealmOf(i) = r \/ <<r, i>> \in ram.graphed
      BY <1>0, <2>3, <3>1 DEF Query!SemanticSearch, Query!TimeSearch, Query!HdcSearch,
         Query!StoredIn, Query!Anywhere
    <3>4. found \subseteq Query!Belonging(ram, me.q)
      BY <1>3, <1>7, <3>2, <3>3, Belongs
    <3> QED  BY <1>2, <3>4
  <2> HIDE DEF y
  <2>6. HeadInv(to, y)
    <3>1. to.last \subseteq Local(to)
      BY <1>6, <2>1, <2>2
    <3>2. CASE r # me.q.realm
      BY <2>1, <2>4, <3>1, <3>2 DEF HeadInv
    <3>3. CASE r = me.q.realm /\ x.lane \in {"semantic", "time", "hdc"}
      BY <1>6, <2>1, <2>5, <3>1, <3>3 DEF HeadInv
    <3>4. CASE x.lane \notin {"semantic", "time", "hdc"}
      BY <2>4, <3>1, <3>4 DEF HeadInv
    <3> QED  BY <3>2, <3>3, <3>4
  <2> QED  BY <1>6, <2>1, <2>2, <2>6 DEF y
<1>10. x = Head(me.plan) /\ me.plan # <<>> /\ PlanFor(me.q, Tail(me.plan))
  BY <1>2 DEF Poised
<1>11. DOMAIN ram = RecallRam /\ \A p \in DOMAIN ram.pairs : p = <<p[1], p[2]>>
  BY <1>3 DEF StoreInv
<1>12. Head(me.plan).do \notin {"apply", "release"} /\ PlanFor(to.q, to.plan)
  BY <1>2, <1>6, <1>10 DEF SameCall
<1>13. SameRealms(ram', ram)
  BY <1>1 DEF SameRealms
<1> QED  BY <1>1, <1>6, <1>8, <1>9, <1>10, <1>11, <1>12, <1>13, QuietStep

\* A session with nothing but its wants, its window and its reservations changed.
Kept(me, new) ==
    /\ DOMAIN new = SessionFields /\ new.plan = me.plan /\ new.q = me.q /\ new.at = me.at
    /\ new.ok = me.ok /\ new.shown = me.shown /\ new.here = me.here /\ new.blind = me.blind
    /\ new.found = me.found /\ new.last = me.last /\ new.hits = me.hits /\ new.walked = me.walked

LEMMA KeptStep ==
    ASSUME RecallInv, NEW s \in Sessions, NEW do, Query!Doing(s, do),
           do \in {"want", "reserve", "apply", "release", "learn", "window"},
           NEW new, Kept(env.sess[s], new), Query!Went(s, new)
    PROVE  /\ env' = [env EXCEPT !.sess[s] = env'.sess[s]] /\ SameCall(env.sess[s], env'.sess[s])
           /\ env'.sess[s].held = new.held /\ env'.sess[s].plan = Tail(env.sess[s].plan)
           /\ PlanFor(env'.sess[s].q, env'.sess[s].plan)
           /\ AnswerInv(env'.sess[s]) /\ RealmInv(env'.sess[s])
           /\ env.sess[s].plan # <<>> /\ Head(env.sess[s].plan).do = do
<1> DEFINE me == env.sess[s]
           x == Query!Now(s)
           to == env'.sess[s]
<1>1. Poised(me, x) /\ x.do = do
  BY PoisedTo
<1>2. StoreInv /\ DOMAIN new = SessionFields /\ new.plan = me.plan
  BY DEF RecallInv, Kept
<1>3. env' = [env EXCEPT !.sess[s] = to] /\ Took(new, to, Tail(me.plan))
  BY <1>2, WentOn
<1> HIDE DEF to, x
<1>4. /\ SameCall(me, to) /\ to.held = new.held /\ to.plan = Tail(me.plan) /\ to.q = me.q
      /\ to.walked = me.walked /\ to.blind = me.blind /\ to.hits = me.hits
      /\ to.last = me.last /\ to.found = me.found /\ to.ok = me.ok /\ to.shown = me.shown
      /\ to.here = me.here
  BY <1>3 DEF Took, Kept, SameCall
<1>5. RealmInv(to)
  BY <1>1, <1>4, RealmUntouched
<1>6. AnswerInv(to)
  BY <1>1, <1>4 DEF AnswerInv, Poised
<1>7. PlanFor(to.q, to.plan) /\ me.plan # <<>> /\ Head(me.plan).do = do
  BY <1>1, <1>4 DEF Poised
<1> QED  BY <1>3, <1>4, <1>5, <1>6, <1>7 DEF to

LEMMA StoreShape ==
    ASSUME RecallInv, NEW s \in Sessions
    PROVE  /\ DOMAIN ram = RecallRam /\ \A p \in DOMAIN ram.pairs : p = <<p[1], p[2]>>
           /\ StoreInv /\ DOMAIN env.sess[s] = SessionFields /\ SessionInv(ram, env.sess[s])
BY DEF RecallInv, StoreInv, SessionInv, CallInv

LEMMA WantedStep ==
    ASSUME RecallInv, NEW s \in Sessions, Query!Wanted(s)
    PROVE  RecallInv'
<1>1. PICK want : Query!Went(s, [env.sess[s] EXCEPT !.want = want])
  BY DEF Query!Wanted
<1>2. Query!Doing(s, "want") /\ ram' = ram
  BY DEF Query!Wanted
<1> DEFINE new == [env.sess[s] EXCEPT !.want = want]
<1>3. Kept(env.sess[s], new) /\ new.held = env.sess[s].held
  BY StoreShape DEF SessionFields, Kept
<1>4. Query!Went(s, new)
  BY <1>1
<1>5. SameRealms(ram', ram)
  BY <1>2 DEF SameRealms
<1> HIDE DEF new
<1> QED  BY <1>2, <1>3, <1>4, <1>5, KeptStep, QuietStep, StoreShape

LEMMA WindowStep ==
    ASSUME RecallInv, NEW s \in Sessions, Query!Window(s)
    PROVE  RecallInv'
<1> DEFINE me == env.sess[s]
           gate == IF me.q.window THEN Query!TimeSearch(me.q.realm, TRUE) ELSE RecallIds
           new == [env.sess[s] EXCEPT !.gate = gate]
<1>1. Query!Doing(s, "window") /\ ram' = ram /\ Query!Went(s, new)
  BY DEF Query!Window
<1> HIDE DEF gate
<1>2. Kept(env.sess[s], new) /\ new.held = env.sess[s].held
  BY StoreShape DEF SessionFields, Kept
<1>3. SameRealms(ram', ram)
  BY <1>1 DEF SameRealms
<1> HIDE DEF new
<1> QED  BY <1>1, <1>2, <1>3, KeptStep, QuietStep, StoreShape

LEMMA LearnStep ==
    ASSUME RecallInv, NEW s \in Sessions, Query!Learn(s)
    PROVE  RecallInv'
<1> DEFINE me == env.sess[s]
           pairs == {p \in me.last \X me.last : p[1] < p[2]}
           seen(p) == IF p \in DOMAIN ram.pairs THEN ram.pairs[p] ELSE 0
           bumped == [p \in pairs |-> Query!Min({Floor, seen(p) + 1})]
           all == Query!Over(bumped, ram.pairs)
<1>1. /\ Query!Doing(s, "learn") /\ Query!Went(s, me)
      /\ ram' = [ram EXCEPT !.touch = @ \cup me.last, !.pairs = all]
  BY DEF Query!Learn
<1>2. Kept(me, me)
  BY StoreShape DEF Kept
<1>3. \A p \in DOMAIN all : p = <<p[1], p[2]>>
  <2>1. \A p \in pairs : p = <<p[1], p[2]>>
    OBVIOUS
  <2>2. DOMAIN all = pairs \cup DOMAIN ram.pairs
    BY DEF Query!Over
  <2> QED  BY <2>1, <2>2, StoreShape
<1> HIDE DEF all
<1>4. /\ DOMAIN ram' = RecallRam /\ SameRealms(ram', ram) /\ ram'.edges = ram.edges
      /\ ram'.inflight = ram.inflight /\ ram'.pairs = all
  BY <1>1, StoreShape DEF RecallRam, SameRealms
<1> QED  BY <1>1, <1>2, <1>3, <1>4, KeptStep, QuietStep

LEMMA ApplyStep ==
    ASSUME RecallInv, NEW s \in Sessions, Query!Apply(s)
    PROVE  RecallInv'
<1> DEFINE me == env.sess[s]
           to == env'.sess[s]
           x == Query!Now(s)
<1>1. /\ Query!Doing(s, "apply") /\ Query!Went(s, me)
      /\ DOMAIN ram' = DOMAIN ram /\ SameRealms(ram', ram) /\ ram'.edges = ram.edges
      /\ ram'.pairs = ram.pairs /\ ram'.inflight = ram.inflight
  BY StoreShape DEF Query!Apply, RecallRam, SameRealms
<1>2. Kept(me, me)
  BY StoreShape DEF Kept
<1>3. /\ env' = [env EXCEPT !.sess[s] = to] /\ SameCall(me, to)
      /\ to.held = me.held /\ to.plan = Tail(me.plan)
      /\ PlanFor(to.q, to.plan) /\ AnswerInv(to) /\ RealmInv(to) /\ me.plan # <<>>
  BY <1>1, <1>2, KeptStep
<1> HIDE DEF to
<1>4. RefreshInv'
  BY <1>1, <1>3, RefreshUntouched DEF SameCall
<1>5. Tail(me.plan) # <<>> /\ Head(Tail(me.plan)).do = "release"
  <2>1. Poised(me, x) /\ x.do = "apply"
    BY <1>1, PoisedTo
  <2>2. Binds(x, RealmsFor(me.q))
    BY <2>1 DEF Binds
  <2> QED  BY <2>1, <2>2 DEF Poised, Follows
<1>6. HeldInv(to)
  BY <1>3, <1>5 DEF HeldInv
<1> QED  BY <1>1, <1>3, <1>4, <1>6, SessionMoves, StoreShape

\* A reservation that has not expired stays; only what nobody holds is reserved.
LEMMA ReserveStep ==
    ASSUME Interval \in Nat \ {0}, RecallInv, NEW s \in Sessions, Query!Reserve(s)
    PROVE  RecallInv'
<1> DEFINE me == env.sess[s]
           to == env'.sess[s]
           x == Query!Now(s)
           old == ram.inflight
           live == {i \in DOMAIN old : me.at < old[i] + Interval}
           valid == Query!Restrict(old, live)
           mine == me.want \ DOMAIN valid
           new == [me EXCEPT !.held = mine, !.want = {}]
           all == Query!Over([i \in mine |-> me.at], valid)
<1>1. /\ Query!Doing(s, "reserve") /\ Query!Went(s, new)
      /\ ram' = IF me.want = {} THEN ram ELSE [ram EXCEPT !.inflight = all]
  BY DEF Query!Reserve
<1>2. DOMAIN valid = live /\ \A i \in live : valid[i] = old[i]
  BY DEF Query!Restrict
<1> HIDE DEF live, valid
<1>3. /\ DOMAIN all = mine \cup live
      /\ \A i \in mine : all[i] = me.at
      /\ \A i \in live \ mine : all[i] = old[i]
  BY <1>2 DEF Query!Over
<1>4. mine = me.want \ live
  BY <1>2
<1> HIDE DEF mine, all
<1>5. Kept(me, new) /\ new.held = mine
  BY StoreShape DEF SessionFields, Kept
<1> HIDE DEF new
<1>6. /\ env' = [env EXCEPT !.sess[s] = to] /\ SameCall(me, to)
      /\ to.held = mine /\ to.plan = Tail(me.plan)
      /\ PlanFor(to.q, to.plan) /\ AnswerInv(to) /\ RealmInv(to) /\ me.plan # <<>>
      /\ Head(me.plan).do = "reserve"
  BY <1>1, <1>5, KeptStep
<1> HIDE DEF to
<1>7. /\ DOMAIN ram' = RecallRam /\ SameRealms(ram', ram) /\ ram'.edges = ram.edges
      /\ ram'.pairs = ram.pairs /\ ram'.inflight = IF me.want = {} THEN old ELSE all
  BY <1>1, StoreShape DEF RecallRam, SameRealms
<1>8. Tail(me.plan) # <<>> /\ Head(Tail(me.plan)).do = "apply"
  <2>1. Poised(me, x) /\ x.do = "reserve"
    BY <1>1, PoisedTo
  <2>2. Binds(x, RealmsFor(me.q))
    BY <2>1 DEF Binds
  <2> QED  BY <2>1, <2>2 DEF Poised, Follows
<1>9. HeldInv(to)
  BY <1>6, <1>8 DEF HeldInv
<1>10. \A t \in Sessions : HeldInv(env.sess[t])
  BY DEF RecallInv, SessionInv
<1>11. me.held = {}
  BY <1>6, <1>10 DEF HeldInv
<1>12. RefreshInv
  BY DEF RecallInv
<1>13. RefreshInv'
  <2>1. /\ env'.now = env.now /\ env'.slow = env.slow
        /\ env'.sess[s] = to /\ \A t \in Sessions \ {s} : env'.sess[t] = env.sess[t]
    BY <1>6, StoreShape DEF StoreInv, RecallEnv
  <2>2. env'.now \in Nat /\ env'.slow \in BOOLEAN
    BY <1>12, <2>1 DEF RefreshInv
  <2> SUFFICES ASSUME ~env'.slow
               PROVE  /\ \A t \in Sessions : env'.sess[t].plan # <<>> =>
                             env'.sess[t].at \in Nat /\ env'.sess[t].at <= env'.now
                             /\ env'.now < env'.sess[t].at + Interval
                      /\ \A t, u \in Sessions : t # u => env'.sess[t].held \cap env'.sess[u].held = {}
                      /\ \A i : i \in DOMAIN ram'.inflight
                                  <=> \E t \in Sessions : i \in env'.sess[t].held
                      /\ \A t \in Sessions : \A i \in env'.sess[t].held :
                             ram'.inflight[i] = env'.sess[t].at
    BY <2>2 DEF RefreshInv
  <2>3. /\ \A t \in Sessions : env.sess[t].plan # <<>> =>
              env.sess[t].at \in Nat /\ env.sess[t].at <= env.now
              /\ env.now < env.sess[t].at + Interval
        /\ \A t, u \in Sessions : t # u => env.sess[t].held \cap env.sess[u].held = {}
        /\ \A i : i \in DOMAIN old <=> \E t \in Sessions : i \in env.sess[t].held
        /\ \A t \in Sessions : \A i \in env.sess[t].held : old[i] = env.sess[t].at
    BY <1>12, <2>1 DEF RefreshInv
  <2>4. live = DOMAIN old
    <3> SUFFICES ASSUME NEW i \in DOMAIN old PROVE me.at < old[i] + Interval
      BY DEF live
    <3>1. PICK t \in Sessions : i \in env.sess[t].held
      BY <2>3
    <3>2. env.sess[t].plan # <<>> /\ old[i] = env.sess[t].at
      BY <1>10, <2>3, <3>1 DEF HeldInv
    <3>3. me.at \in Nat /\ me.at <= env.now /\ env.sess[t].at \in Nat
          /\ env.now < env.sess[t].at + Interval /\ env.now \in Nat
      BY <1>6, <1>12, <2>3, <3>2 DEF RefreshInv
    <3>4. me.at < env.sess[t].at + Interval
      BY <3>3
    <3> QED  BY <3>2, <3>4
  <2>5. /\ DOMAIN ram'.inflight = mine \cup DOMAIN old
        /\ \A i \in mine : ram'.inflight[i] = me.at
        /\ \A i \in DOMAIN old : i \notin mine /\ ram'.inflight[i] = old[i]
    BY <1>3, <1>4, <1>7, <2>4
  <2>6. \A t \in Sessions : env'.sess[t].plan # <<>> =>
              env'.sess[t].at \in Nat /\ env'.sess[t].at <= env'.now
              /\ env'.now < env'.sess[t].at + Interval
    BY <1>6, <2>1, <2>3 DEF SameCall
  <2>7. \A t \in Sessions : env'.sess[t].held = IF t = s THEN mine ELSE env.sess[t].held
    BY <1>6, <2>1
  <2>8. \A t \in Sessions : env.sess[t].held \subseteq DOMAIN old
    BY <2>3
  <2>9. \A t, u \in Sessions : t # u => env'.sess[t].held \cap env'.sess[u].held = {}
    BY <2>3, <2>5, <2>7, <2>8
  <2>10. \A i : i \in DOMAIN ram'.inflight <=> \E t \in Sessions : i \in env'.sess[t].held
    BY <1>11, <2>3, <2>5, <2>7
  <2>11. \A t \in Sessions : \A i \in env'.sess[t].held : ram'.inflight[i] = env'.sess[t].at
    BY <1>6, <2>1, <2>3, <2>5, <2>7, <2>8 DEF SameCall
  <2> QED  BY <2>6, <2>9, <2>10, <2>11
<1> QED  BY <1>6, <1>7, <1>9, <1>13, SessionMoves, StoreShape

LEMMA ReleaseStep ==
    ASSUME RecallInv, NEW s \in Sessions, Query!Release(s)
    PROVE  RecallInv'
<1> DEFINE me == env.sess[s]
           to == env'.sess[s]
           old == ram.inflight
           left == Query!Restrict(old, DOMAIN old \ me.held)
           new == [me EXCEPT !.held = {}]
<1>1. /\ Query!Doing(s, "release") /\ Query!Went(s, new)
      /\ ram' = [ram EXCEPT !.inflight = left]
  BY DEF Query!Release
<1>2. DOMAIN left = DOMAIN old \ me.held /\ \A i \in DOMAIN left : left[i] = old[i]
  BY DEF Query!Restrict
<1> HIDE DEF left
<1>3. Kept(me, new) /\ new.held = {}
  BY StoreShape DEF SessionFields, Kept
<1> HIDE DEF new
<1>4. /\ env' = [env EXCEPT !.sess[s] = to] /\ SameCall(me, to)
      /\ to.held = {} /\ to.plan = Tail(me.plan)
      /\ PlanFor(to.q, to.plan) /\ AnswerInv(to) /\ RealmInv(to) /\ me.plan # <<>>
  BY <1>1, <1>3, KeptStep
<1> HIDE DEF to
<1>5. /\ DOMAIN ram' = RecallRam /\ SameRealms(ram', ram) /\ ram'.edges = ram.edges
      /\ ram'.pairs = ram.pairs /\ ram'.inflight = left
  BY <1>1, StoreShape DEF RecallRam, SameRealms
<1>6. HeldInv(to)
  BY <1>4 DEF HeldInv
<1>7. RefreshInv
  BY DEF RecallInv
<1>8. RefreshInv'
  <2>1. /\ env'.now = env.now /\ env'.slow = env.slow
        /\ env'.sess[s] = to /\ \A t \in Sessions \ {s} : env'.sess[t] = env.sess[t]
    BY <1>4, StoreShape DEF StoreInv, RecallEnv
  <2>2. env'.now \in Nat /\ env'.slow \in BOOLEAN
    BY <1>7, <2>1 DEF RefreshInv
  <2> SUFFICES ASSUME ~env'.slow
               PROVE  /\ \A t \in Sessions : env'.sess[t].plan # <<>> =>
                             env'.sess[t].at \in Nat /\ env'.sess[t].at <= env'.now
                             /\ env'.now < env'.sess[t].at + Interval
                      /\ \A t, u \in Sessions : t # u => env'.sess[t].held \cap env'.sess[u].held = {}
                      /\ \A i : i \in DOMAIN ram'.inflight
                                  <=> \E t \in Sessions : i \in env'.sess[t].held
                      /\ \A t \in Sessions : \A i \in env'.sess[t].held :
                             ram'.inflight[i] = env'.sess[t].at
    BY <2>2 DEF RefreshInv
  <2>3. /\ \A t \in Sessions : env.sess[t].plan # <<>> =>
              env.sess[t].at \in Nat /\ env.sess[t].at <= env.now
              /\ env.now < env.sess[t].at + Interval
        /\ \A t, u \in Sessions : t # u => env.sess[t].held \cap env.sess[u].held = {}
        /\ \A i : i \in DOMAIN old <=> \E t \in Sessions : i \in env.sess[t].held
        /\ \A t \in Sessions : \A i \in env.sess[t].held : old[i] = env.sess[t].at
    BY <1>7, <2>1 DEF RefreshInv
  <2>4. \A t \in Sessions : env'.sess[t].held = IF t = s THEN {} ELSE env.sess[t].held
    <3> SUFFICES ASSUME NEW t \in Sessions
                 PROVE  env'.sess[t].held = IF t = s THEN {} ELSE env.sess[t].held
      OBVIOUS
    <3>1. CASE t = s
      BY <1>4, <2>1, <3>1
    <3>2. CASE t # s
      BY <2>1, <3>2
    <3> QED  BY <3>1, <3>2
  <2>5. \A t \in Sessions : env'.sess[t].at = env.sess[t].at
    BY <1>4, <2>1 DEF SameCall
  <2>6. \A t \in Sessions : env'.sess[t].plan # <<>> =>
              env'.sess[t].at \in Nat /\ env'.sess[t].at <= env'.now
              /\ env'.now < env'.sess[t].at + Interval
    BY <1>4, <2>1, <2>3, <2>5
  <2>7. \A t, u \in Sessions : t # u => env'.sess[t].held \cap env'.sess[u].held = {}
    BY <2>3, <2>4
  <2>8. \A i : i \in DOMAIN ram'.inflight <=> \E t \in Sessions : i \in env'.sess[t].held
    <3>1. \A i : i \in DOMAIN ram'.inflight <=> i \in DOMAIN old /\ i \notin me.held
      BY <1>2, <1>5
    <3>2. \A i : (\E t \in Sessions : i \in env'.sess[t].held)
                  <=> (\E t \in Sessions : t # s /\ i \in env.sess[t].held)
      BY <2>4
    <3>3. \A i, t : t \in Sessions /\ t # s /\ i \in env.sess[t].held => i \notin me.held
      BY <2>3
    <3> QED  BY <2>3, <3>1, <3>2, <3>3
  <2>9. \A t \in Sessions : \A i \in env'.sess[t].held : ram'.inflight[i] = env'.sess[t].at
    <3> SUFFICES ASSUME NEW t \in Sessions, NEW i \in env'.sess[t].held
                 PROVE  ram'.inflight[i] = env'.sess[t].at
      OBVIOUS
    <3>1. t # s /\ i \in env.sess[t].held
      BY <2>4
    <3>2. i \in DOMAIN old \ me.held
      BY <2>3, <3>1
    <3> QED  BY <1>2, <1>5, <2>3, <2>5, <3>1, <3>2
  <2> QED  BY <2>6, <2>7, <2>8, <2>9
<1> QED  BY <1>4, <1>5, <1>6, <1>8, SessionMoves, StoreShape

\* A hold that changes what was found, kept or answered.
LEMMA TurnedStep ==
    ASSUME RecallInv, NEW s \in Sessions, NEW do, Query!Doing(s, do),
           do \notin {"apply", "release"}, NEW new, SameCall(env.sess[s], new),
           new.held = env.sess[s].held, AnswerInv(new), NEW plan, Query!Turn(s, plan, new),
           PlanFor(new.q, plan), \A to : Took(new, to, plan) => RealmInv(to), ram' = ram
    PROVE  RecallInv'
<1> DEFINE me == env.sess[s]
           to == env'.sess[s]
<1>1. env' = [env EXCEPT !.sess[s] = to] /\ Took(new, to, plan)
  BY StoreShape, Turned DEF SameCall
<1> HIDE DEF to
<1>2. RealmInv(to)
  BY <1>1
<1>3. SameCall(me, to) /\ to.held = me.held /\ AnswerInv(to) /\ PlanFor(to.q, to.plan)
  BY <1>1 DEF SameCall, Took, AnswerInv
<1>4. me.plan # <<>> /\ Head(me.plan).do \notin {"apply", "release"}
  BY DEF Query!Doing, Query!Running
<1>5. SameRealms(ram', ram)
  BY DEF SameRealms
<1> QED  BY <1>1, <1>2, <1>3, <1>4, <1>5, QuietStep, StoreShape

LEMMA WentStep ==
    ASSUME RecallInv, NEW s \in Sessions, NEW do, Query!Doing(s, do),
           do \notin {"apply", "release"}, NEW new, SameCall(env.sess[s], new),
           new.held = env.sess[s].held, AnswerInv(new), Query!Went(s, new),
           new.plan = env.sess[s].plan,
           \A to : Took(new, to, Tail(env.sess[s].plan)) => RealmInv(to), ram' = ram
    PROVE  RecallInv'
<1>1. [new EXCEPT !.plan = Tail(@)] = [new EXCEPT !.plan = Tail(new.plan)]
  OBVIOUS
<1>2. Query!Turn(s, Tail(env.sess[s].plan), new)
  BY <1>1 DEF Query!Went, Query!Turn
<1>3. PlanFor(new.q, Tail(env.sess[s].plan))
  BY PoisedTo DEF Poised, SameCall
<1> QED  BY <1>2, <1>3, TurnedStep

\* What was found lies in the realm, what was kept and answered nearly so.
Settled(new) ==
    Scoped(new.q) /\ ~new.blind =>
       /\ new.hits \subseteq Local(new) /\ new.last \subseteq Local(new)
       /\ new.found \subseteq new.here

LEMMA SettledRealm ==
    ASSUME NEW new, Settled(new), NEW plan
    PROVE  \A to : Took(new, to, plan) => RealmInv(to)
<1> SUFFICES ASSUME NEW to, Took(new, to, plan) PROVE RealmInv(to)
  OBVIOUS
<1>1. Local(to) = Local(new)
  BY LocalSame DEF Took
<1> QED  BY <1>1 DEF Settled, RealmInv, HeadInv, Took

LEMMA MembersStep ==
    ASSUME RecallInv, NEW s \in Sessions, Query!Members(s)
    PROVE  RecallInv'
<1> DEFINE me == env.sess[s]
           r == me.q.realm
           kept == IF Query!Known(r) THEN me.last \cap Query!MembersOf(r) ELSE me.last
           h == me.hits \cup (kept \cap me.gate)
           new == [me EXCEPT !.hits = h, !.last = {}]
<1>1. Query!Doing(s, "members") /\ ram' = ram /\ Query!Went(s, new)
  BY DEF Query!Members, Query!RrfMerge
<1>2. /\ Poised(me, Query!Now(s)) /\ Query!Now(s).do = "members"
      /\ me.blind \/ Query!Known(me.q.realm)
      /\ Query!Belonging(ram, me.q) \subseteq me.here
  BY <1>1, PoisedTo
<1>3. h \subseteq me.hits \cup me.last
  OBVIOUS
<1>4. Query!Known(r) => h \subseteq me.hits \cup me.here
  <2>1. ~Query!Exact(me.q)
    <3>1. me.plan # <<>> /\ Head(me.plan).do = "members" /\ PlanFor(me.q, me.plan)
      BY <1>2 DEF Poised
    <3>2. "members" \notin Scoring \cup {"take"}
      BY DEF Scoring
    <3>3. Fused(me.q)
      BY <3>1, <3>2, HeadFor
    <3> QED  BY <3>3 DEF Fused, Query!Exact
  <2>2. Query!MembersOf(r) \subseteq me.here
    BY <1>2, <2>1, StoreShape, Belongs
  <2> QED  BY <2>2
<1> HIDE DEF h
<1>5. /\ SameCall(me, new) /\ new.plan = me.plan /\ new.hits = h /\ new.last = {}
      /\ new.found = me.found /\ new.held = me.held /\ new.walked = me.walked
      /\ new.q = me.q /\ new.ok = me.ok /\ new.shown = me.shown /\ new.blind = me.blind
      /\ new.here = me.here
  BY StoreShape DEF SessionFields, SameCall
<1> HIDE DEF new
<1>6. AnswerInv(new)
  BY <1>2, <1>3, <1>5 DEF AnswerInv, Poised
<1>7. Settled(new)
  <2> SUFFICES ASSUME Scoped(me.q), ~me.blind
               PROVE  /\ new.hits \subseteq Local(new) /\ new.last \subseteq Local(new)
                      /\ new.found \subseteq new.here
    BY <1>5 DEF Settled
  <2>1. Local(new) = Local(me)
    BY <1>5, LocalSame
  <2>2. me.hits \subseteq Local(me) /\ me.found \subseteq me.here
    BY <1>2 DEF Poised, RealmInv, HeadInv
  <2>3. me.here \subseteq Local(me)
    BY DEF Local
  <2> QED  BY <1>2, <1>4, <1>5, <2>1, <2>2, <2>3
<1> QED  BY <1>1, <1>5, <1>6, <1>7, SettledRealm, WentStep

LEMMA TakeStep ==
    ASSUME RecallInv, NEW s \in Sessions, Query!TakeHits(s)
    PROVE  RecallInv'
<1> DEFINE me == env.sess[s]
           h == me.hits \cup (me.last \cap me.gate)
           new == [me EXCEPT !.hits = h, !.last = {}]
<1>1. Query!Doing(s, "take") /\ ram' = ram /\ Query!Went(s, new)
  BY DEF Query!TakeHits, Query!RrfMerge
<1>2. Poised(me, Query!Now(s)) /\ Query!Now(s).do = "take"
  BY <1>1, PoisedTo
<1>3. h \subseteq me.hits \cup me.last
  OBVIOUS
<1> HIDE DEF h
<1>4. /\ SameCall(me, new) /\ new.plan = me.plan /\ new.hits = h /\ new.last = {}
      /\ new.found = me.found /\ new.held = me.held /\ new.walked = me.walked
      /\ new.q = me.q /\ new.ok = me.ok /\ new.shown = me.shown /\ new.blind = me.blind
      /\ new.here = me.here
  BY StoreShape DEF SessionFields, SameCall
<1> HIDE DEF new
<1>5. AnswerInv(new)
  BY <1>2, <1>3, <1>4 DEF AnswerInv, Poised
<1>6. Settled(new)
  <2> SUFFICES ASSUME Scoped(me.q), ~me.blind
               PROVE  /\ new.hits \subseteq Local(new) /\ new.last \subseteq Local(new)
                      /\ new.found \subseteq new.here
    BY <1>4 DEF Settled
  <2>1. Local(new) = Local(me)
    BY <1>4, LocalSame
  <2>2. /\ me.hits \subseteq Local(me) /\ me.last \subseteq Local(me)
        /\ me.found \subseteq me.here
    BY <1>2 DEF Poised, RealmInv, HeadInv
  <2> QED  BY <1>3, <1>4, <2>1, <2>2
<1> QED  BY <1>1, <1>4, <1>5, <1>6, SettledRealm, WentStep

\* What the lanes keep: the forgotten only where nothing but payloads is read.
LEMMA FormatKeeps ==
    ASSUME RecallInv, NEW s \in Sessions, Query!Doing(s, "format")
    PROVE  LET me == env.sess[s]
               x == Query!Now(s)
               h == Query!Formatted(s)
           IN /\ h \subseteq RecallIds
              /\ me.q.by # "spread" => h \subseteq me.ok
              /\ me.q.by \in Showing => h \subseteq me.shown
              /\ Scoped(me.q) /\ ~me.blind /\ x.realm = me.q.realm => h \subseteq me.here
<1> DEFINE me == env.sess[s]
           x == Query!Now(s)
           r == x.realm
           h == Query!Formatted(s)
<1>1. /\ Poised(me, x) /\ x.do = "format"
      /\ Query!Alive \subseteq me.ok /\ Query!Shown \subseteq me.shown
      /\ Query!Belonging(ram, me.q) \subseteq me.here
  BY PoisedTo
<1>2. x \in Holds(Deeds, LaneNames) /\ x = Head(me.plan) /\ PlanFor(me.q, me.plan) /\ me.plan # <<>>
  BY <1>1 DEF Poised
<1>3. /\ x.lane \in {"semantic", "keyword", "time", "hdc", "artifact", "spread", "filtered", "kind"}
      /\ me.q.by # "spread" => x.lane # "spread"
      /\ me.q.by \in Showing => x.lane \in {"semantic", "keyword"}
      /\ Scoped(me.q) => x.lane \notin {"artifact", "kind"}
  <2>1. x.lane # "none" /\ x.lane \in LaneNames
    BY <1>1, <1>2 DEF Holds
  <2> QED  BY <1>2, <2>1, HeadFor DEF LaneNames
<1>4. me.found \subseteq RecallIds
  BY <1>1 DEF Poised, AnswerInv
<1>5. /\ Query!Alive \subseteq RecallIds /\ Query!Shown \subseteq Query!Alive
      /\ Query!Alive \subseteq DOMAIN ram.mem
  BY StoreShape, StoreSeen
<1> HIDE DEF x
<1>6. /\ x.lane = "semantic" => h = Query!SemanticFormat(me.found, r)
      /\ x.lane = "keyword" => h = Query!KeywordFormat(me.found, r)
      /\ x.lane \in {"time", "hdc", "artifact"} => h = me.found \cap Query!Alive
      /\ x.lane = "spread" => h = Query!Within(me.found \cap DOMAIN ram.mem, r)
      /\ x.lane = "filtered" => h = Query!Within(Query!Alive, r)
      /\ x.lane = "kind" => h = Query!Alive
  BY DEF x, Query!Formatted, Query!TimeFormat, Query!HdcFormat, Query!ArtifactFormat,
         Query!SpreadFormat, Query!Filtered, Query!ByKind
<1>7. \A S : Query!SemanticFormat(S, r) \subseteq S \cap Query!Shown
  BY DEF Query!SemanticFormat, Query!SoulGate
<1>8. \A S : Query!KeywordFormat(S, r) \subseteq S \cap Query!Shown
  BY DEF Query!KeywordFormat, Query!Within
<1>9. \A S : Query!Within(S, r) \subseteq S
  BY DEF Query!Within
<1> HIDE DEF h, r
<1>10. /\ x.lane # "spread" => h \subseteq Query!Alive
       /\ x.lane = "spread" => h \subseteq me.found
       /\ x.lane \in {"semantic", "keyword"} => h \subseteq Query!Shown
       /\ x.lane \in {"semantic", "time", "hdc"} => h \subseteq me.found
  BY <1>3, <1>5, <1>6, <1>7, <1>8, <1>9
<1>11. ASSUME Scoped(me.q), ~me.blind, r = me.q.realm
       PROVE  h \subseteq me.here
  <2>1. r # "any"
    BY <1>11 DEF Scoped
  <2>2. \A S : \A i \in Query!Within(S, r) : ram.realm[i] = r
    BY <2>1 DEF Query!Within, Query!Anywhere
  <2>3. \A S : \A i \in Query!KeywordFormat(S, r) : ram.realm[i] = r
    BY <2>2 DEF Query!KeywordFormat
  <2>4. HeadInv(me, x)
    BY <1>1, <1>2, <1>11 DEF Poised, RealmInv
  <2>5. x.lane \in {"semantic", "time", "hdc"} => me.found \subseteq me.here
    BY <1>1, <1>11, <2>4 DEF HeadInv, r
  <2>6. h \subseteq RecallIds
    BY <1>4, <1>5, <1>10
  <2>7. CASE x.lane \in {"semantic", "time", "hdc"}
    BY <1>10, <2>5, <2>7
  <2>8. CASE x.lane \in {"keyword", "spread", "filtered"}
    <3>1. \A i \in h : ram.realm[i] = r
      BY <1>6, <2>2, <2>3, <2>8
    <3>2. h \subseteq DOMAIN ram.mem
      BY <1>5, <1>6, <1>8, <1>9, <2>8
    <3>3. h \subseteq Query!Belonging(ram, me.q)
      BY <1>11, <3>1, <3>2, StoreShape, Belongs
    <3> QED  BY <1>1, <3>3
  <2> QED  BY <1>3, <1>11, <2>7, <2>8
<1> QED  BY <1>1, <1>3, <1>4, <1>5, <1>10, <1>11 DEF h, r, x

LEMMA KeepStep ==
    ASSUME RecallInv, NEW s \in Sessions, Query!Doing(s, "format"), NEW h, h \subseteq RecallIds,
           env.sess[s].q.by # "spread" => h \subseteq env.sess[s].ok,
           env.sess[s].q.by \in Showing => h \subseteq env.sess[s].shown,
           Scoped(env.sess[s].q) /\ ~env.sess[s].blind
             /\ Query!Now(s).realm = env.sess[s].q.realm => h \subseteq Local(env.sess[s]),
           Query!Went(s, [env.sess[s] EXCEPT !.last = h, !.found = {}]), ram' = ram
    PROVE  RecallInv'
<1> DEFINE me == env.sess[s]
           x == Query!Now(s)
           new == [me EXCEPT !.last = h, !.found = {}]
<1>1. Poised(me, x) /\ x.do = "format"
  BY PoisedTo
<1>2. /\ SameCall(me, new) /\ new.plan = me.plan /\ new.hits = me.hits /\ new.last = h
      /\ new.found = {} /\ new.held = me.held /\ new.walked = me.walked
      /\ new.q = me.q /\ new.ok = me.ok /\ new.shown = me.shown /\ new.blind = me.blind
      /\ new.here = me.here
  BY StoreShape DEF SessionFields, SameCall
<1>3. Query!Went(s, new)
  OBVIOUS
<1> HIDE DEF new, x
<1>4. AnswerInv(new)
  BY <1>1, <1>2 DEF AnswerInv, Poised
<1>5. ASSUME NEW to, Took(new, to, Tail(me.plan)) PROVE RealmInv(to)
  <2> SUFFICES ASSUME Scoped(me.q), ~me.blind
               PROVE  /\ to.hits \subseteq Local(to)
                      /\ to.plan # <<>> => HeadInv(to, Head(to.plan))
    BY <1>2, <1>5 DEF RealmInv, Took
  <2>1. /\ Local(to) = Local(me) /\ to.hits = me.hits /\ to.last = h /\ to.found = {}
        /\ to.here = me.here /\ to.q = me.q /\ to.plan = Tail(me.plan)
    BY <1>2, <1>5, LocalSame DEF Took
  <2>2. me.hits \subseteq Local(me)
    BY <1>1 DEF Poised, RealmInv
  <2> DEFINE y == Head(to.plan)
  <2>3. CASE x.realm = me.q.realm
    BY <2>1, <2>2, <2>3 DEF HeadInv, x
  <2>4. CASE x.realm # me.q.realm
    <3>1. Binds(x, RealmsFor(me.q)) /\ RealmsFor(me.q) = {me.q.realm}
      BY <1>1, <2>4 DEF Binds, RealmsFor
    <3>2. Follows(x, y, {me.q.realm})
      BY <1>1, <2>1, <3>1 DEF Poised
    <3>3. y.do = "learn" /\ y.realm # me.q.realm
      BY <1>1, <2>4, <3>2 DEF Follows
    <3> QED  BY <2>1, <2>2, <3>3 DEF HeadInv
  <2> QED  BY <2>3, <2>4
<1> QED  BY <1>2, <1>3, <1>4, <1>5, WentStep

LEMMA FormatStep ==
    ASSUME RecallInv, NEW s \in Sessions, Query!Format(s)
    PROVE  RecallInv'
<1> DEFINE me == env.sess[s]
           x == Query!Now(s)
           h == Query!Formatted(s)
           leg(top) == Query!BridgeLeg(h, top, x.realm)
           keep(k) == Query!Went(s, [me EXCEPT !.last = k, !.found = {}])
<1>1. Query!Doing(s, "format") /\ ram' = ram
  BY DEF Query!Format
<1>2. keep(h) \/ keep({}) \/ \E top \in h : x.lane = "semantic" /\ keep(h \cup leg(top))
  BY DEF Query!Format
<1>3. /\ h \subseteq RecallIds
      /\ me.q.by # "spread" => h \subseteq me.ok
      /\ me.q.by \in Showing => h \subseteq me.shown
      /\ Scoped(me.q) /\ ~me.blind /\ x.realm = me.q.realm => h \subseteq me.here
  BY <1>1, FormatKeeps
<1>4. me.here \subseteq Local(me)
  BY DEF Local
<1> HIDE DEF h, x
<1>5. CASE keep(h)
  BY <1>1, <1>3, <1>4, <1>5, KeepStep DEF x
<1>6. CASE keep({})
  <2> DEFINE k == {}
  <2>1. \A S : k \subseteq S
    OBVIOUS
  <2>2. keep(k)
    BY <1>6
  <2> HIDE DEF k
  <2> QED  BY <1>1, <2>1, <2>2, KeepStep
<1>7. ASSUME NEW top \in h, keep(h \cup leg(top)) PROVE RecallInv'
  <2>1. leg(top) \subseteq Query!Shown /\ \A j \in leg(top) : <<top, j>> \in Bridges
    BY DEF Query!BridgeLeg, Query!SoulGate
  <2>2. /\ Query!Alive \subseteq me.ok /\ Query!Shown \subseteq me.shown
        /\ Query!Shown \subseteq Query!Alive /\ Query!Alive \subseteq RecallIds
    BY <1>1, PoisedTo, StoreShape, StoreSeen
  <2>3. leg(top) \subseteq Local(me)
    BY <1>3, <2>1, <2>2 DEF Local
  <2> DEFINE k == h \cup leg(top)
  <2> HIDE DEF leg
  <2>4. /\ k \subseteq RecallIds
        /\ me.q.by # "spread" => k \subseteq me.ok
        /\ me.q.by \in Showing => k \subseteq me.shown
        /\ Scoped(me.q) /\ ~me.blind /\ x.realm = me.q.realm => k \subseteq Local(me)
    BY <1>3, <1>4, <2>1, <2>2, <2>3
  <2>5. keep(k)
    BY <1>7
  <2> HIDE DEF k
  <2> QED  BY <1>1, <2>4, <2>5, KeepStep DEF x
<1> QED  BY <1>2, <1>5, <1>6, <1>7

\* What a walk over the edges adds is shown, and an edge leads to it.
Reached == {i \in ShownIn(ram.mem) : \E j \in RecallIds : <<j, i>> \in ram.edges}

LEMMA Hopped ==
    ASSUME StoreInv, NEW S, S \subseteq RecallIds
    PROVE  Query!Hop(S) \subseteq S \cup Reached /\ Query!Hop(S) \subseteq RecallIds
<1>1. Query!Shown = ShownIn(ram.mem) /\ Query!Shown \subseteq RecallIds
  BY StoreSeen
<1>2. ASSUME NEW i \in Query!Hop(S) PROVE i \in S \cup Reached
  <2>1. CASE i \in S
    BY <2>1
  <2>2. CASE i \notin S
    <3>1. PICK d \in ram.edges : d[1] \in S /\ d[2] \in Query!Shown /\ i = d[2]
      BY <2>2 DEF Query!Hop
    <3>2. d = <<d[1], d[2]>>
      BY DEF StoreInv
    <3>3. <<d[1], i>> \in ram.edges
      BY <3>1, <3>2
    <3> QED  BY <1>1, <3>1, <3>3 DEF Reached
  <2> QED  BY <2>1, <2>2
<1>3. Reached \subseteq RecallIds
  BY <1>1 DEF Reached
<1> QED  BY <1>2, <1>3

LEMMA Walks ==
    ASSUME StoreInv, NEW S, S \subseteq RecallIds
    PROVE  /\ Query!PprInject(S) \subseteq S \cup Reached
           /\ ~PprLane => Query!PprInject(S) = S
           /\ Query!ExpandAssociations(S) \subseteq Reached
           /\ Reached \subseteq RecallIds /\ Reached \subseteq Query!Shown
<1> DEFINE a == Query!Hop(S)
           b == Query!Hop(a)
           c == Query!Hop(b)
           d == Query!Hop(c)
<1>1. a \subseteq S \cup Reached /\ a \subseteq RecallIds
  BY Hopped
<1> HIDE DEF a
<1>2. b \subseteq a \cup Reached /\ b \subseteq RecallIds
  BY <1>1, Hopped
<1> HIDE DEF b
<1>3. c \subseteq b \cup Reached /\ c \subseteq RecallIds
  BY <1>2, Hopped
<1> HIDE DEF c
<1>4. d \subseteq c \cup Reached
  BY <1>3, Hopped
<1> HIDE DEF d
<1>5. Query!PprLaneHits(S) = d \ S /\ Query!ExpandAssociations(S) = b \ S
  BY DEF a, b, c, d, Query!PprLaneHits, Query!ExpandAssociations
<1>6. Query!PprLaneHits(S) \subseteq Reached /\ Query!ExpandAssociations(S) \subseteq Reached
  BY <1>1, <1>2, <1>3, <1>4, <1>5
<1>7. Reached \subseteq RecallIds /\ Reached \subseteq Query!Shown
  BY StoreSeen DEF Reached
<1>8. Query!PprInject(S) \subseteq S \cup Reached /\ (~PprLane => Query!PprInject(S) = S)
  BY <1>6 DEF Query!PprInject
<1> QED  BY <1>6, <1>7, <1>8

\* A fusion or a fallback goes on, with the lane of the window or without.
LEMMA ResumeStep ==
    ASSUME RecallInv, NEW s \in Sessions, NEW do \in {"fuse", "fallback"}, Query!Doing(s, do),
           NEW new, SameCall(env.sess[s], new), new.held = env.sess[s].held,
           new.plan = env.sess[s].plan, AnswerInv(new), Settled(new), ram' = ram,
           \/ Query!Went(s, new)
           \/ Query!Turn(s, Query!Lane("time", new.q.realm) \o Query!Take \o Tail(new.plan), new)
    PROVE  RecallInv'
<1> DEFINE me == env.sess[s]
<1>1. do \notin {"apply", "release"}
  OBVIOUS
<1>2. CASE Query!Went(s, new)
  BY <1>1, <1>2, SettledRealm, WentStep
<1>3. CASE Query!Turn(s, Query!Lane("time", new.q.realm) \o Query!Take \o Tail(new.plan), new)
  <2>1. Poised(me, Query!Now(s)) /\ Query!Now(s).do = do
    BY PoisedTo
  <2>2. /\ me.plan # <<>> /\ Head(me.plan).do = do /\ PlanFor(me.q, me.plan)
        /\ PlanFor(me.q, Tail(me.plan)) /\ me.q.realm \in Where
    BY <2>1 DEF Poised
  <2>3. Fused(me.q) /\ ~me.q.measure
    <3>1. do \notin Quiet /\ do \notin Scoring \cup {"take"}
      BY DEF Quiet, Scoring
    <3> QED  BY <2>2, <3>1, HeadFor
  <2> DEFINE plan == (Query!Lane("time", me.q.realm) \o Query!Take) \o Tail(me.plan)
  <2>4. PlanFor(me.q, plan)
    BY <2>2, <2>3, TimePlan
  <2>5. Query!Turn(s, plan, new) /\ new.q = me.q
    BY <1>3 DEF SameCall
  <2> HIDE DEF plan
  <2>6. \A to : Took(new, to, plan) => RealmInv(to)
    BY SettledRealm
  <2>7. PlanFor(new.q, plan)
    BY <2>4, <2>5
  <2> QED  BY <1>1, <2>5, <2>6, <2>7, TurnedStep
<1> QED  BY <1>2, <1>3

LEMMA BackfilledStep ==
    ASSUME RecallInv, NEW s \in Sessions, NEW do \in {"fuse", "fallback"}, Query!Doing(s, do),
           NEW new, SameCall(env.sess[s], new), new.held = env.sess[s].held,
           new.plan = env.sess[s].plan, new.last = env.sess[s].last,
           new.found = env.sess[s].found, NEW h, h \subseteq RecallIds, h \subseteq env.sess[s].ok,
           Settled([new EXCEPT !.hits = h]), ram' = ram, Query!Backfilled(s, new, h)
    PROVE  RecallInv'
<1> DEFINE me == env.sess[s]
           to == [new EXCEPT !.hits = h]
<1>1. /\ SameCall(me, to) /\ to.held = me.held /\ to.plan = me.plan /\ to.hits = h
      /\ to.last = me.last /\ to.found = me.found /\ to.q = me.q /\ to.ok = me.ok
      /\ to.q = new.q /\ to.plan = new.plan
  BY DEF SameCall, SessionFields
<1>2. Poised(me, Query!Now(s)) /\ Query!Now(s).do = do
  BY PoisedTo
<1>3. me.q.by \notin Showing
  <2>1. me.plan # <<>> /\ Head(me.plan).do = do /\ PlanFor(me.q, me.plan)
    BY <1>2 DEF Poised
  <2>2. do \notin Scoring \cup {"take"}
    BY DEF Scoring
  <2> QED  BY <2>1, <2>2, HeadFor DEF Fused, Showing
<1>4. AnswerInv(to)
  BY <1>1, <1>2, <1>3 DEF AnswerInv, Poised
<1>5. \/ Query!Went(s, to)
      \/ Query!Turn(s, Query!Lane("time", to.q.realm) \o Query!Take \o Tail(to.plan), to)
  BY <1>1 DEF Query!Backfilled
<1>6. Settled(to)
  OBVIOUS
<1> HIDE DEF to
<1> QED  BY <1>1, <1>4, <1>5, <1>6, ResumeStep

\* A session that a fusion or a fallback finds is settled.
LEMMA FusedSettled ==
    ASSUME RecallInv, NEW s \in Sessions, NEW do \in {"fuse", "fallback"}, Query!Doing(s, do)
    PROVE  /\ Settled(env.sess[s]) /\ AnswerInv(env.sess[s]) /\ Fused(env.sess[s].q)
           /\ env.sess[s].q.by # "spread" /\ (do = "fallback" => ~Scoped(env.sess[s].q))
           /\ SameCall(env.sess[s], env.sess[s])
<1> DEFINE me == env.sess[s]
           x == Query!Now(s)
<1>1. Poised(me, x) /\ x.do = do
  BY PoisedTo
<1>2. /\ me.plan # <<>> /\ Head(me.plan).do = do /\ PlanFor(me.q, me.plan) /\ AnswerInv(me)
      /\ DOMAIN me = SessionFields
  BY <1>1 DEF Poised
<1>3. do \notin Scoring \cup {"take"}
  BY DEF Scoring
<1>4. Fused(me.q) /\ (do = "fallback" => ~Scoped(me.q))
  BY <1>2, <1>3, HeadFor
<1>5. Settled(me)
  BY <1>1 DEF Poised, Settled, RealmInv, HeadInv
<1> QED  BY <1>2, <1>4, <1>5 DEF Fused, SameCall

LEMMA FuseStep ==
    ASSUME RecallInv, NEW s \in Sessions, Query!Fuse(s)
    PROVE  RecallInv'
<1> DEFINE me == env.sess[s]
           merged == Query!PprInject(me.hits)
           walked == me.walked \cup ram.edges
           new == [me EXCEPT !.walked = walked]
<1>1. Query!Doing(s, "fuse") /\ ram' = ram /\ "fuse" \in {"fuse", "fallback"}
  BY DEF Query!Fuse
<1>2. \/ \E h \in SUBSET merged : Query!Backfilled(s, new, h)
      \/ Query!Went(s, me)
      \/ Query!Turn(s, Query!Lane("time", me.q.realm) \o Query!Take \o Tail(me.plan), me)
  BY DEF Query!Fuse, Query!Stratified, Query!Truncated
<1>3. /\ Settled(me) /\ AnswerInv(me) /\ Fused(me.q) /\ me.q.by # "spread" /\ SameCall(me, me)
  BY <1>1, FusedSettled
<1>4. CASE Query!Went(s, me)
  BY <1>1, <1>3, <1>4, ResumeStep
<1>5. CASE Query!Turn(s, Query!Lane("time", me.q.realm) \o Query!Take \o Tail(me.plan), me)
  BY <1>1, <1>3, <1>5, ResumeStep
<1>6. ASSUME NEW h \in SUBSET merged, Query!Backfilled(s, new, h) PROVE RecallInv'
  <2>1. /\ me.hits \subseteq RecallIds /\ me.hits \subseteq me.ok
        /\ Query!Shown \subseteq Query!Alive /\ Query!Alive \subseteq me.ok
    BY <1>1, <1>3, PoisedTo, StoreShape, StoreSeen DEF AnswerInv
  <2>2. /\ merged \subseteq me.hits \cup Reached /\ (~PprLane => merged = me.hits)
        /\ Reached \subseteq RecallIds /\ Reached \subseteq Query!Shown
    BY <2>1, StoreShape, Walks
  <2> HIDE DEF merged
  <2>3. h \subseteq RecallIds /\ h \subseteq me.ok
    BY <2>1, <2>2
  <2>4. /\ SameCall(me, new) /\ new.held = me.held /\ new.plan = me.plan /\ new.last = me.last
        /\ new.found = me.found
    BY StoreShape DEF SessionFields, SameCall
  <2> DEFINE to == [new EXCEPT !.hits = h]
  <2>5. /\ to.hits = h /\ to.last = me.last /\ to.found = me.found /\ to.q = me.q
        /\ to.blind = me.blind /\ to.walked = walked /\ to.here = me.here
    BY StoreShape DEF SessionFields
  <2> HIDE DEF to
  <2>6. Settled(to)
    <3> SUFFICES ASSUME Scoped(me.q), ~me.blind
                 PROVE  /\ h \subseteq Local(to) /\ me.last \subseteq Local(to)
                        /\ me.found \subseteq me.here
      BY <2>5 DEF Settled
    <3>1. /\ me.hits \subseteq Local(me) /\ me.last \subseteq Local(me)
          /\ me.found \subseteq me.here
      BY <1>3 DEF Settled
    <3>2. Local(me) \subseteq Local(to)
      BY <2>5 DEF Local
    <3>3. PprLane => Reached \subseteq Local(to)
      BY <1>3, <2>2, <2>5 DEF Local, Reached
    <3> QED  BY <2>2, <3>1, <3>2, <3>3
  <2>7. Settled([new EXCEPT !.hits = h])
    BY <2>6 DEF to
  <2> HIDE DEF new
  <2> QED  BY <1>1, <1>6, <2>3, <2>4, <2>7, BackfilledStep
<1> QED  BY <1>2, <1>4, <1>5, <1>6

LEMMA FallbackStep ==
    ASSUME RecallInv, NEW s \in Sessions, Query!Fallback(s)
    PROVE  RecallInv'
<1> DEFINE me == env.sess[s]
           again == Query!Keyword("any", TRUE) \o Query!Take
                      \o <<Query!Do("fallback", "time", me.q.realm)>> \o Tail(me.plan)
<1>1. Query!Doing(s, "fallback") /\ ram' = ram /\ "fallback" \in {"fuse", "fallback"}
  BY DEF Query!Fallback
<1>2. \/ \E h \in SUBSET me.hits : Query!Backfilled(s, me, h)
      \/ Query!Went(s, me)
      \/ Query!Turn(s, Query!Lane("time", me.q.realm) \o Query!Take \o Tail(me.plan), me)
      \/ Query!Turn(s, again, me)
  BY DEF Query!Fallback, Query!Stratified, Query!Anywhere
<1>3. /\ Settled(me) /\ AnswerInv(me) /\ Fused(me.q) /\ me.q.by # "spread" /\ SameCall(me, me)
      /\ ~Scoped(me.q)
  BY <1>1, FusedSettled
<1>4. CASE Query!Went(s, me)
  BY <1>1, <1>3, <1>4, ResumeStep
<1>5. CASE Query!Turn(s, Query!Lane("time", me.q.realm) \o Query!Take \o Tail(me.plan), me)
  BY <1>1, <1>3, <1>5, ResumeStep
<1>6. ASSUME NEW h \in SUBSET me.hits, Query!Backfilled(s, me, h) PROVE RecallInv'
  <2>1. h \subseteq RecallIds /\ h \subseteq me.ok
    BY <1>3 DEF AnswerInv
  <2> DEFINE to == [me EXCEPT !.hits = h]
  <2>2. to.q = me.q
    BY StoreShape DEF SessionFields
  <2> HIDE DEF to
  <2>3. Settled(to)
    BY <1>3, <2>2 DEF Settled
  <2>4. Settled([me EXCEPT !.hits = h])
    BY <2>3 DEF to
  <2> QED  BY <1>1, <1>3, <1>6, <2>1, <2>4, BackfilledStep
<1>7. CASE Query!Turn(s, again, me)
  <2>1. Poised(me, Query!Now(s)) /\ Query!Now(s).do = "fallback"
    BY <1>1, PoisedTo
  <2>2. /\ me.plan # <<>> /\ Head(me.plan).do = "fallback" /\ PlanFor(me.q, me.plan)
        /\ PlanFor(me.q, Tail(me.plan)) /\ me.q.realm \in Where
    BY <2>1 DEF Poised
  <2>3. ~me.q.measure
    <3>1. "fallback" \notin Quiet
      BY DEF Quiet
    <3> QED  BY <2>2, <3>1, HeadFor
  <2>4. PlanFor(me.q, again)
    BY <1>3, <2>2, <2>3, KeywordFallback
  <2> HIDE DEF again
  <2>5. \A to : Took(me, to, again) => RealmInv(to)
    BY <1>3, SettledRealm
  <2> QED  BY <1>1, <1>3, <1>7, <2>4, <2>5, TurnedStep
<1> QED  BY <1>2, <1>4, <1>5, <1>6, <1>7

\* Sessions that hold what they held, for calls as old as they were or new.
LEMMA RefreshKept ==
    ASSUME RefreshInv, env'.now = env.now, env'.slow = env.slow, ram'.inflight = ram.inflight,
           \A t \in Sessions : /\ env'.sess[t].held = env.sess[t].held
                               /\ env'.sess[t].plan # <<>> =>
                                     \/ /\ env.sess[t].plan # <<>>
                                        /\ env'.sess[t].at = env.sess[t].at
                                     \/ env'.sess[t].at = env.now,
           \A t \in Sessions : env.sess[t].held # {} => env'.sess[t].at = env.sess[t].at,
           Interval \in Nat \ {0}
    PROVE  RefreshInv'
<1>1. env'.now \in Nat /\ env'.slow \in BOOLEAN
  BY DEF RefreshInv
<1> SUFFICES ASSUME ~env'.slow
             PROVE  /\ \A t \in Sessions : env'.sess[t].plan # <<>> =>
                           env'.sess[t].at \in Nat /\ env'.sess[t].at <= env'.now
                           /\ env'.now < env'.sess[t].at + Interval
                    /\ \A t, u \in Sessions : t # u => env'.sess[t].held \cap env'.sess[u].held = {}
                    /\ \A i : i \in DOMAIN ram'.inflight
                                <=> \E t \in Sessions : i \in env'.sess[t].held
                    /\ \A t \in Sessions : \A i \in env'.sess[t].held :
                           ram'.inflight[i] = env'.sess[t].at
  BY <1>1 DEF RefreshInv
<1>2. \A t \in Sessions : env'.sess[t].plan # <<>> =>
         env'.sess[t].at \in Nat /\ env'.sess[t].at <= env'.now
         /\ env'.now < env'.sess[t].at + Interval
  <2> SUFFICES ASSUME NEW t \in Sessions, env'.sess[t].plan # <<>>
               PROVE  env'.sess[t].at \in Nat /\ env'.sess[t].at <= env'.now
                      /\ env'.now < env'.sess[t].at + Interval
    OBVIOUS
  <2>1. CASE env'.sess[t].at = env.now
    BY <1>1, <2>1
  <2>2. CASE env.sess[t].plan # <<>> /\ env'.sess[t].at = env.sess[t].at
    BY <2>2 DEF RefreshInv
  <2> QED  BY <2>1, <2>2
<1>3. \A t, u \in Sessions : t # u => env'.sess[t].held \cap env'.sess[u].held = {}
  BY DEF RefreshInv
<1>4. \A i : i \in DOMAIN ram'.inflight <=> \E t \in Sessions : i \in env'.sess[t].held
  BY DEF RefreshInv
<1>5. \A t \in Sessions : \A i \in env'.sess[t].held : ram'.inflight[i] = env'.sess[t].at
  BY DEF RefreshInv
<1> QED  BY <1>2, <1>3, <1>4, <1>5

\* A session that starts a new call.
LEMMA StartedStep ==
    ASSUME Interval \in Nat \ {0}, RecallInv, NEW s \in Sessions, ~Query!Running(s), NEW to,
           SessionInv(ram, to), to.held = {}, to.plan # <<>> => to.at = env.now, ram' = ram,
           DOMAIN env' = RecallEnv, env'.menu = env.menu, env'.now = env.now, env'.slow = env.slow,
           DOMAIN env'.sess = Sessions, env'.sess[s] = to,
           \A t \in Sessions \ {s} : env'.sess[t] = env.sess[t]
    PROVE  RecallInv'
<1>1. env.sess[s].plan = <<>>
  BY DEF Query!Running
<1>2. StoreInv'
  BY DEF RecallInv, StoreInv
<1>3. \A t \in Sessions : SessionInv(ram', env'.sess[t])
  BY DEF RecallInv
<1>4. env.sess[s].held = {}
  BY <1>1 DEF RecallInv, SessionInv, HeldInv
<1>5. RefreshInv
  BY DEF RecallInv
<1>6. \A t \in Sessions : /\ env'.sess[t].held = env.sess[t].held
                          /\ env'.sess[t].plan # <<>> =>
                                \/ /\ env.sess[t].plan # <<>>
                                   /\ env'.sess[t].at = env.sess[t].at
                                \/ env'.sess[t].at = env.now
  BY <1>4
<1>7. \A t \in Sessions : env.sess[t].held # {} => env'.sess[t].at = env.sess[t].at
  BY <1>4
<1>8. RefreshInv'
  BY <1>5, <1>6, <1>7, RefreshKept
<1> QED  BY <1>2, <1>3, <1>8 DEF RecallInv

LEMMA NoPlan == \A q : PlanFor(q, <<>>)
<1>1. \A S : <<>> \in Seq(S)
  OBVIOUS
<1> QED  BY <1>1, NoHold DEF PlanFor

LEMMA RestingFields ==
    /\ DOMAIN Query!Resting = SessionFields /\ Query!Resting.plan = <<>> /\ Query!Resting.held = {}
    /\ Query!Resting.found = {} /\ Query!Resting.last = {} /\ Query!Resting.hits = {}
    /\ Query!Resting.q = <<>>
BY DEF Query!Resting, SessionFields

LEMMA AskStep ==
    ASSUME Hops \in Nat, Interval \in Nat \ {0}, RecallInv,
           NEW s \in Sessions, NEW q \in env.menu[s], Query!Ask(s, q)
    PROVE  RecallInv'
<1> DEFINE plan == Query!Plan(q)
           to == [Query!Resting EXCEPT !.plan = plan, !.q = q, !.at = env.now,
                     !.ok = Query!Alive, !.shown = Query!Shown,
                     !.here = Query!Belonging(ram, q), !.blind = ~Query!Known(q.realm)]
<1>1. /\ ~Query!Running(s) /\ Query!Asks(q) /\ ram' = ram
      /\ env' = [env EXCEPT !.queries[s] = @ + 1, !.sess[s] = to]
  BY DEF Query!Ask
<1>2. q.realm \in Where
  <2>1. env.menu \in Menus
    BY DEF RecallInv, StoreInv
  <2> QED  BY <2>1 DEF Where
<1>3. PlanFor(q, plan)
  BY <1>1, <1>2, PlanAsked
<1> HIDE DEF plan
<1>4. /\ DOMAIN to = SessionFields /\ to.plan = plan /\ to.q = q /\ to.at = env.now
      /\ to.ok = Query!Alive /\ to.shown = Query!Shown /\ to.blind = ~Query!Known(q.realm)
      /\ to.found = {} /\ to.last = {} /\ to.hits = {} /\ to.held = {}
      /\ to.here = Query!Belonging(ram, q)
  BY RestingFields DEF SessionFields
<1> HIDE DEF to
<1>5. CallInv(ram, to)
  BY <1>2, <1>3, <1>4, StoreShape, StoreSeen DEF CallInv, Query!Known
<1>6. AnswerInv(to) /\ HeldInv(to)
  BY <1>4 DEF AnswerInv, HeldInv
<1>7. RealmInv(to)
  <2>1. \A S : to.hits \subseteq S /\ to.last \subseteq S /\ to.found \subseteq S
    BY <1>4
  <2> QED  BY <2>1 DEF RealmInv, HeadInv
<1>8. SessionInv(ram, to)
  BY <1>5, <1>6, <1>7 DEF SessionInv
<1>9. /\ DOMAIN env' = RecallEnv /\ env'.menu = env.menu /\ env'.now = env.now
      /\ env'.slow = env.slow /\ DOMAIN env'.sess = Sessions /\ env'.sess[s] = to
      /\ \A t \in Sessions \ {s} : env'.sess[t] = env.sess[t]
  BY <1>1, StoreShape DEF StoreInv, RecallEnv
<1> QED  BY <1>1, <1>4, <1>8, <1>9, StartedStep

LEMMA ExpandStep ==
    ASSUME Interval \in Nat \ {0}, RecallInv, NEW s \in Sessions, Query!Expand(s)
    PROVE  RecallInv'
<1> DEFINE h == Query!ExpandAssociations(env.sess[s].hits)
           q == Query!Associations
           to == [Query!Resting EXCEPT !.q = q, !.hits = h,
                     !.ok = Query!Alive, !.shown = Query!Shown]
<1>1. ~Query!Running(s) /\ ram' = ram /\ env' = [env EXCEPT !.sess[s] = to]
  BY DEF Query!Expand
<1>2. q.by = "assoc"
  BY DEF Query!Associations
<1>3. h \subseteq RecallIds /\ h \subseteq Query!Alive /\ h \subseteq Query!Shown
  <2>1. env.sess[s].hits \subseteq RecallIds
    BY DEF RecallInv, SessionInv, AnswerInv
  <2> QED  BY <2>1, StoreShape, Walks, StoreSeen
<1> HIDE DEF h, q
<1>4. /\ DOMAIN to = SessionFields /\ to.plan = <<>> /\ to.q = q
      /\ to.ok = Query!Alive /\ to.shown = Query!Shown
      /\ to.found = {} /\ to.last = {} /\ to.hits = h /\ to.held = {}
  BY RestingFields DEF SessionFields
<1> HIDE DEF to
<1>5. PlanFor(q, <<>>)
  BY NoPlan
<1>6. CallInv(ram, to)
  BY <1>4, <1>5 DEF CallInv
<1>7. AnswerInv(to) /\ HeldInv(to)
  BY <1>3, <1>4 DEF AnswerInv, HeldInv
<1>8. RealmInv(to)
  BY <1>2, <1>4 DEF RealmInv, Scoped, Fused
<1>9. SessionInv(ram, to)
  BY <1>6, <1>7, <1>8 DEF SessionInv
<1>10. /\ DOMAIN env' = RecallEnv /\ env'.menu = env.menu /\ env'.now = env.now
       /\ env'.slow = env.slow /\ DOMAIN env'.sess = Sessions /\ env'.sess[s] = to
       /\ \A t \in Sessions \ {s} : env'.sess[t] = env.sess[t]
  BY <1>1, StoreShape DEF StoreInv, RecallEnv
<1> QED  BY <1>1, <1>4, <1>9, <1>10, StartedStep

\* A change of the store, and what the running calls know of it afterwards.
Informed(store, me, to) ==
    /\ DOMAIN to = SessionFields /\ to.plan = me.plan /\ to.q = me.q /\ to.at = me.at
    /\ to.found = me.found /\ to.last = me.last /\ to.hits = me.hits /\ to.held = me.held
    /\ to.walked = me.walked
    /\ me.ok \subseteq to.ok /\ me.shown \subseteq to.shown /\ me.here \subseteq to.here
    /\ me.blind => to.blind
    /\ me.plan # <<>> => /\ AliveIn(store.mem) \subseteq to.ok
                         /\ ShownIn(store.mem) \subseteq to.shown
                         /\ Query!Belonging(store, me.q) \subseteq to.here
                         /\ to.blind \/ me.q.realm \in DOMAIN store.members

LEMMA SawIt ==
    ASSUME NEW store, NEW me, DOMAIN me = SessionFields
    PROVE  Informed(store, me, Query!Saw(store, me))
<1> DEFINE to == Query!Saw(store, me)
<1>1. CASE me.plan = <<>>
  BY <1>1 DEF Informed, Query!Saw
<1>2. CASE me.plan # <<>>
  <2> DEFINE a == Query!In(store.mem, {"live", "hidden"})
             b == Query!In(store.mem, {"live"})
             c == Query!Belonging(store, me.q)
             d == me.q.realm \notin DOMAIN store.members
  <2>1. AliveIn(store.mem) = a /\ ShownIn(store.mem) = b
    BY DEF AliveIn, ShownIn, Query!In
  <2>2. to = [me EXCEPT !.ok = @ \cup a, !.shown = @ \cup b, !.here = @ \cup c, !.blind = @ \/ d]
    BY <1>2 DEF Query!Saw
  <2> HIDE DEF a, b, c, to
  <2>3. /\ DOMAIN to = SessionFields /\ to.plan = me.plan /\ to.q = me.q
        /\ to.at = me.at /\ to.found = me.found /\ to.last = me.last
        /\ to.hits = me.hits /\ to.held = me.held /\ to.walked = me.walked
        /\ to.ok = me.ok \cup a /\ to.shown = me.shown \cup b /\ to.here = me.here \cup c
        /\ to.blind = (me.blind \/ d)
    BY <2>2 DEF SessionFields
  <2>4. Informed(store, me, to)
    BY <2>1, <2>3 DEF Informed, c
  <2> QED  BY <2>4 DEF to
<1> QED  BY <1>1, <1>2

\* A store that still knows under which realm each memory was stored.
LEMMA ChangedStep ==
    ASSUME Interval \in Nat \ {0}, RecallInv, NEW store, NEW edits, Query!Changed(store, edits),
           DOMAIN store = RecallRam, DOMAIN store.mem \subseteq RecallIds,
           \A i \in DOMAIN store.mem : /\ store.mem[i] \in {"live", "hidden", "dead", "gone", "back"}
                                       /\ <<RealmOf(i), i>> \in store.graphed,
           store.inflight = ram.inflight, store.pairs = ram.pairs, store.edges \subseteq ram.edges
    PROVE  RecallInv'
<1> DEFINE sess == [s \in Sessions |-> Query!Saw(store, env.sess[s])]
<1>1. ram' = store /\ env' = [env EXCEPT !.edits = @ + edits, !.sess = sess]
  BY DEF Query!Changed
<1>2. DOMAIN sess = Sessions /\ \A s \in Sessions : Informed(store, env.sess[s], sess[s])
  BY StoreShape, SawIt
<1> HIDE DEF sess
<1>3. /\ DOMAIN env' = RecallEnv /\ env'.menu = env.menu /\ env'.now = env.now
      /\ env'.slow = env.slow /\ env'.sess = sess
  BY <1>1 DEF RecallInv, StoreInv, RecallEnv
<1>4. StoreInv'
  BY <1>1, <1>2, <1>3 DEF RecallInv, StoreInv
<1>5. ASSUME NEW s \in Sessions PROVE SessionInv(store, sess[s])
  <2> DEFINE me == env.sess[s]
             to == sess[s]
  <2>1. Informed(store, me, to) /\ SessionInv(ram, me)
    BY <1>2 DEF RecallInv
  <2> HIDE DEF me, to
  <2>2. CallInv(store, to)
    BY <2>1 DEF Informed, SessionInv, CallInv
  <2>3. AnswerInv(to) /\ HeldInv(to)
    BY <2>1 DEF Informed, SessionInv, AnswerInv, HeldInv
  <2>4. RealmInv(to)
    <3>1. Local(me) \subseteq Local(to)
      BY <2>1 DEF Informed, Local
    <3> QED  BY <2>1, <3>1 DEF Informed, SessionInv, RealmInv, HeadInv
  <2> QED  BY <2>2, <2>3, <2>4 DEF SessionInv, to
<1>6. RefreshInv'
  <2>1. RefreshInv
    BY DEF RecallInv
  <2>2. \A s \in Sessions : /\ env'.sess[s].held = env.sess[s].held
                            /\ env'.sess[s].plan = env.sess[s].plan
                            /\ env'.sess[s].at = env.sess[s].at
    BY <1>2, <1>3 DEF Informed
  <2> QED  BY <1>1, <1>3, <2>1, <2>2, RefreshKept
<1> QED  BY <1>1, <1>3, <1>4, <1>5, <1>6 DEF RecallInv

\* What a change of the store starts from.
LEMMA StoreBefore ==
    ASSUME RecallInv
    PROVE  /\ DOMAIN ram = RecallRam /\ DOMAIN ram.mem \subseteq RecallIds
           /\ \A i \in DOMAIN ram.mem : /\ ram.mem[i] \in {"live", "hidden", "dead", "gone", "back"}
                                        /\ <<RealmOf(i), i>> \in ram.graphed
BY DEF RecallInv, StoreInv

LEMMA PutMemoryStep ==
    ASSUME Interval \in Nat \ {0}, RecallInv, NEW i \in RecallIds, Query!PutMemory(i)
    PROVE  RecallInv'
<1> DEFINE mem == Query!Over([j \in {i} |-> "live"], ram.mem)
           realm == Query!Over([j \in {i} |-> RealmOf(i)], ram.realm)
           members == Query!Relisted(ram.members, i, RealmOf(i))
           graphed == ram.graphed \cup {<<RealmOf(i), i>>}
           store == [ram EXCEPT !.mem = mem, !.realm = realm, !.members = members,
                                !.graphed = graphed]
<1>1. Query!Changed(store, 1)
  BY DEF Query!PutMemory, Query!Edited
<1>2. /\ DOMAIN mem = {i} \cup DOMAIN ram.mem
      /\ \A j \in DOMAIN mem : mem[j] = IF j = i THEN "live" ELSE ram.mem[j]
  BY DEF Query!Over
<1> HIDE DEF mem, realm, members
<1>3. /\ DOMAIN mem \subseteq RecallIds
      /\ \A j \in DOMAIN mem : /\ mem[j] \in {"live", "hidden", "dead", "gone", "back"}
                               /\ <<RealmOf(j), j>> \in graphed
  BY <1>2, StoreBefore
<1> HIDE DEF graphed
<1>4. /\ DOMAIN store = RecallRam /\ store.mem = mem /\ store.graphed = graphed
      /\ store.inflight = ram.inflight /\ store.pairs = ram.pairs /\ store.edges = ram.edges
  BY StoreBefore DEF RecallRam
<1> HIDE DEF store
<1> QED  BY <1>1, <1>3, <1>4, ChangedStep

LEMMA EditStep ==
    ASSUME Interval \in Nat \ {0}, RecallInv, NEW i \in RecallIds, NEW from,
           NEW to \in {"live", "hidden", "dead"}, Query!Edit(i, from, to)
    PROVE  RecallInv'
<1> DEFINE mem == [ram.mem EXCEPT ![i] = to]
           store == [ram EXCEPT !.mem[i] = to]
<1>1. Query!Changed(store, 1)
  BY DEF Query!Edit, Query!Edited
<1>2. /\ DOMAIN mem = DOMAIN ram.mem
      /\ \A j \in DOMAIN mem : mem[j] = IF j = i THEN to ELSE ram.mem[j]
  OBVIOUS
<1>3. /\ DOMAIN store = RecallRam /\ store.mem = mem /\ store.graphed = ram.graphed
      /\ store.inflight = ram.inflight /\ store.pairs = ram.pairs /\ store.edges = ram.edges
  BY StoreBefore DEF RecallRam
<1> HIDE DEF store, mem
<1>4. /\ DOMAIN mem \subseteq RecallIds
      /\ \A j \in DOMAIN mem : /\ mem[j] \in {"live", "hidden", "dead", "gone", "back"}
                               /\ <<RealmOf(j), j>> \in ram.graphed
  BY <1>2, StoreBefore
<1> QED  BY <1>1, <1>3, <1>4, ChangedStep

LEMMA SweepStep ==
    ASSUME Interval \in Nat \ {0}, RecallInv, NEW i \in RecallIds, Query!ForgetSweeps(i)
    PROVE  RecallInv'
<1> DEFINE mem == [ram.mem EXCEPT ![i] = "gone"]
           members == Query!Unlisted(ram.members, i, ram.realm[i], TRUE)
           edges == {e \in ram.edges : i \notin {e[1], e[2]}}
           store == [ram EXCEPT !.mem[i] = "gone", !.members = members, !.edges = edges]
<1>1. Query!Changed(store, 0)
  BY DEF Query!ForgetSweeps
<1>2. /\ DOMAIN mem = DOMAIN ram.mem
      /\ \A j \in DOMAIN mem : mem[j] = IF j = i THEN "gone" ELSE ram.mem[j]
  OBVIOUS
<1>3. edges \subseteq ram.edges
  OBVIOUS
<1> HIDE DEF members, edges
<1>4. /\ DOMAIN store = RecallRam /\ store.mem = mem /\ store.graphed = ram.graphed
      /\ store.inflight = ram.inflight /\ store.pairs = ram.pairs /\ store.edges = edges
  BY StoreBefore DEF RecallRam
<1> HIDE DEF store, mem
<1>5. /\ DOMAIN mem \subseteq RecallIds
      /\ \A j \in DOMAIN mem : /\ mem[j] \in {"live", "hidden", "dead", "gone", "back"}
                               /\ <<RealmOf(j), j>> \in ram.graphed
  BY <1>2, StoreBefore
<1> QED  BY <1>1, <1>3, <1>4, <1>5, ChangedStep

LEMMA UpdateContentStep ==
    ASSUME Interval \in Nat \ {0}, RecallInv, NEW i \in RecallIds, Query!UpdateContent(i)
    PROVE  RecallInv'
<1> DEFINE to == IF ram.mem[i] = "gone" THEN "back" ELSE ram.mem[i]
           mem == [ram.mem EXCEPT ![i] = to]
           graphed == ram.graphed \cup {<<ram.realm[i], i>>}
           store == [ram EXCEPT !.mem[i] = IF @ = "gone" THEN "back" ELSE @, !.graphed = graphed]
<1>1. Query!Changed(store, 1) /\ i \in DOMAIN ram.mem
  BY DEF Query!UpdateContent, Query!Edited
<1>2. /\ DOMAIN mem = DOMAIN ram.mem
      /\ \A j \in DOMAIN mem : mem[j] = IF j = i THEN to ELSE ram.mem[j]
  OBVIOUS
<1>3. ram.graphed \subseteq graphed
  OBVIOUS
<1> HIDE DEF graphed
<1>4. /\ DOMAIN store = RecallRam /\ store.mem = mem /\ store.graphed = graphed
      /\ store.inflight = ram.inflight /\ store.pairs = ram.pairs /\ store.edges = ram.edges
  BY StoreBefore DEF RecallRam
<1> HIDE DEF store, mem
<1>5. /\ DOMAIN mem \subseteq RecallIds
      /\ \A j \in DOMAIN mem : /\ mem[j] \in {"live", "hidden", "dead", "gone", "back"}
                               /\ <<RealmOf(j), j>> \in graphed
  BY <1>1, <1>2, <1>3, StoreBefore
<1> QED  BY <1>1, <1>4, <1>5, ChangedStep

\* A move changes neither the states nor what the indexes were told.
LEMMA MoveStep ==
    ASSUME Interval \in Nat \ {0}, RecallInv, NEW i, NEW r, NEW tidy, Query!Move(i, r, tidy)
    PROVE  RecallInv'
<1> DEFINE moving == ram.moving \cup {[id |-> i, from |-> ram.realm[i], to |-> r, tidy |-> tidy]}
           store == [ram EXCEPT !.realm[i] = r, !.moving = moving]
<1>1. Query!Changed(store, 1)
  BY DEF Query!Move, Query!Edited
<1> HIDE DEF moving
<1>2. /\ DOMAIN store = RecallRam /\ store.mem = ram.mem /\ store.graphed = ram.graphed
      /\ store.inflight = ram.inflight /\ store.pairs = ram.pairs /\ store.edges = ram.edges
  BY StoreBefore DEF RecallRam
<1> HIDE DEF store
<1> QED  BY <1>1, <1>2, StoreBefore, ChangedStep

LEMMA MoveMemberStep ==
    ASSUME Interval \in Nat \ {0}, RecallInv, NEW x, Query!MoveMember(x)
    PROVE  RecallInv'
<1> DEFINE members == Query!Relisted(Query!Unlisted(ram.members, x.id, x.from, x.tidy), x.id, x.to)
           moving == ram.moving \ {x}
           store == [ram EXCEPT !.members = members, !.moving = moving]
<1>1. Query!Changed(store, 0)
  BY DEF Query!MoveMember
<1> HIDE DEF members, moving
<1>2. /\ DOMAIN store = RecallRam /\ store.mem = ram.mem /\ store.graphed = ram.graphed
      /\ store.inflight = ram.inflight /\ store.pairs = ram.pairs /\ store.edges = ram.edges
  BY StoreBefore DEF RecallRam
<1> HIDE DEF store
<1> QED  BY <1>1, <1>2, StoreBefore, ChangedStep

LEMMA DrainStep ==
    ASSUME RecallInv, Query!Drain
    PROVE  RecallInv'
<1> DEFINE earned == {p \in DOMAIN ram.pairs : /\ ram.pairs[p] >= Floor
                                                /\ {p[1], p[2]} \subseteq Query!Alive}
<1>1. /\ DOMAIN ram' = RecallRam /\ SameRealms(ram', ram) /\ ram'.inflight = ram.inflight
      /\ ram'.pairs = <<>> /\ ram'.edges = ram.edges \cup earned /\ env' = env
  BY DEF Query!Drain, RecallInv, StoreInv, RecallRam, SameRealms
<1>2. StoreInv'
  <2>1. \A e \in ram.edges \cup earned : e = <<e[1], e[2]>>
    BY DEF RecallInv, StoreInv
  <2>2. DOMAIN ram'.pairs = {}
    BY <1>1
  <2> HIDE DEF earned
  <2> QED  BY <1>1, <2>1, <2>2 DEF RecallInv, StoreInv, SameRealms
<1>3. RefreshInv'
  BY <1>1 DEF RecallInv, RefreshInv
<1>4. \A s \in Sessions : SessionInv(ram', env.sess[s])
  <2> DEFINE now == ram'
  <2>1. SameRealms(now, ram)
    BY <1>1
  <2> HIDE DEF now
  <2>2. \A me : SessionInv(now, me) <=> SessionInv(ram, me)
    BY <2>1, SameCalls DEF SessionInv
  <2> QED  BY <2>2 DEF now, RecallInv
<1> QED  BY <1>1, <1>2, <1>3, <1>4 DEF RecallInv

LEMMA TickStep ==
    ASSUME Interval \in Nat \ {0}, RecallInv, Query!Tick
    PROVE  RecallInv'
<1> DEFINE late == \E s \in Sessions : Query!Outlived(s, env.now + 1)
<1>1. /\ DOMAIN env' = RecallEnv /\ env'.menu = env.menu /\ env'.sess = env.sess
      /\ env'.now = env.now + 1 /\ env'.slow = (env.slow \/ late) /\ ram' = ram
  BY DEF Query!Tick, RecallInv, StoreInv, RecallEnv
<1>2. StoreInv'
  BY <1>1 DEF RecallInv, StoreInv
<1>3. RefreshInv
  BY DEF RecallInv
<1>4. env.now \in Nat /\ env.slow \in BOOLEAN
  BY <1>3 DEF RefreshInv
<1>5. ASSUME ~env'.slow
      PROVE  \A s \in Sessions : env.sess[s].plan # <<>> =>
                env.sess[s].at \in Nat /\ env.sess[s].at <= env'.now
                /\ env'.now < env.sess[s].at + Interval
  <2> SUFFICES ASSUME NEW s \in Sessions, env.sess[s].plan # <<>>
               PROVE  env.sess[s].at \in Nat /\ env.sess[s].at <= env'.now
                      /\ env'.now < env.sess[s].at + Interval
    OBVIOUS
  <2>1. ~env.slow /\ ~late
    BY <1>1, <1>5
  <2>2. env.sess[s].at \in Nat /\ env.sess[s].at <= env.now
    BY <1>3, <2>1 DEF RefreshInv
  <2>3. ~(env.now + 1 >= env.sess[s].at + Interval)
    BY <2>1 DEF Query!Outlived, Query!Running
  <2> QED  BY <1>1, <1>4, <2>2, <2>3
<1>6. env'.now \in Nat /\ env'.slow \in BOOLEAN
  BY <1>1, <1>4 DEF Query!Outlived
<1>7. ~env'.slow => ~env.slow
  BY <1>1
<1> HIDE DEF late
<1>8. RefreshInv'
  BY <1>1, <1>3, <1>5, <1>6, <1>7 DEF RefreshInv
<1> QED  BY <1>1, <1>2, <1>8 DEF RecallInv

LEMMA RecallInit ==
    ASSUME Stored \subseteq RecallIds, StoredEdges \subseteq RecallIds \X RecallIds,
           Interval \in Nat \ {0}, Query!Init
    PROVE  RecallInv
<1>1. PICK menu \in Menus :
         env = [menu |-> menu, sess |-> [s \in Sessions |-> Query!Resting], now |-> Interval,
                edits |-> 0, queries |-> [s \in Sessions |-> 0], slow |-> FALSE]
  BY DEF Query!Init
<1>2. /\ DOMAIN env = RecallEnv /\ env.menu \in Menus /\ DOMAIN env.sess = Sessions
      /\ env.now = Interval /\ env.slow = FALSE /\ \A s \in Sessions : env.sess[s] = Query!Resting
  BY <1>1 DEF RecallEnv
<1>3. /\ DOMAIN ram = RecallRam /\ ram.mem = [i \in Stored |-> "live"] /\ ram.inflight = <<>>
      /\ ram.pairs = <<>> /\ ram.edges = StoredEdges
      /\ ram.graphed = {<<RealmOf(i), i>> : i \in Stored}
  BY DEF Query!Init, Query!Start, RecallRam
<1>4. StoreInv
  <2>1. \A e \in StoredEdges : e = <<e[1], e[2]>>
    OBVIOUS
  <2>2. DOMAIN ram.pairs = {} /\ DOMAIN ram.mem = Stored /\ \A i \in Stored : ram.mem[i] = "live"
    BY <1>3
  <2>3. \A i \in Stored : <<RealmOf(i), i>> \in ram.graphed
    BY <1>3
  <2> QED  BY <1>2, <1>3, <2>1, <2>2, <2>3 DEF StoreInv
<1> DEFINE me == Query!Resting
<1>5. /\ DOMAIN me = SessionFields /\ me.plan = <<>> /\ me.held = {} /\ me.found = {}
      /\ me.last = {} /\ me.hits = {}
  BY RestingFields
<1> HIDE DEF me
<1>6. SessionInv(ram, me)
  <2>1. CallInv(ram, me)
    BY <1>5, NoPlan DEF CallInv
  <2>2. AnswerInv(me) /\ HeldInv(me) /\ RealmInv(me)
    BY <1>5 DEF AnswerInv, HeldInv, RealmInv
  <2> QED  BY <2>1, <2>2 DEF SessionInv
<1>7. RefreshInv
  <2>1. DOMAIN ram.inflight = {} /\ \A s \in Sessions : env.sess[s] = me
    BY <1>2, <1>3 DEF me
  <2>2. \A s \in Sessions : env.sess[s].plan = <<>> /\ env.sess[s].held = {}
    BY <1>5, <2>1
  <2> QED  BY <1>2, <2>1, <2>2 DEF RefreshInv
<1> QED  BY <1>2, <1>4, <1>6, <1>7 DEF RecallInv, me

LEMMA AdvanceStep ==
    ASSUME Interval \in Nat \ {0}, RecallInv, NEW s \in Sessions, Query!Advance(s)
    PROVE  RecallInv'
<1>1. CASE Query!Search(s)
  BY <1>1, SearchStep
<1>2. CASE Query!Wanted(s)
  BY <1>2, WantedStep
<1>3. CASE Query!Reserve(s)
  BY <1>3, ReserveStep
<1>4. CASE Query!Apply(s)
  BY <1>4, ApplyStep
<1>5. CASE Query!Release(s)
  BY <1>5, ReleaseStep
<1>6. CASE Query!Format(s)
  BY <1>6, FormatStep
<1>7. CASE Query!Learn(s)
  BY <1>7, LearnStep
<1>8. CASE Query!Window(s)
  BY <1>8, WindowStep
<1>9. CASE Query!Members(s)
  BY <1>9, MembersStep
<1>10. CASE Query!TakeHits(s)
  BY <1>10, TakeStep
<1>11. CASE Query!Fuse(s)
  BY <1>11, FuseStep
<1>12. CASE Query!Fallback(s)
  BY <1>12, FallbackStep
<1> QED  BY <1>1, <1>2, <1>3, <1>4, <1>5, <1>6, <1>7, <1>8, <1>9, <1>10, <1>11, <1>12
         DEF Query!Advance

LEMMA RecallNext ==
    ASSUME Hops \in Nat, Interval \in Nat \ {0}, RecallInv, [Query!Next]_Query!vars
    PROVE  RecallInv'
<1>1. CASE UNCHANGED Query!vars
  BY <1>1 DEF Query!vars, RecallInv, StoreInv, RefreshInv
<1>2. ASSUME NEW s \in Sessions, Query!Advance(s) PROVE RecallInv'
  BY <1>2, AdvanceStep
<1>3. ASSUME NEW s \in Sessions, Query!Expand(s) PROVE RecallInv'
  BY <1>3, ExpandStep
<1>4. ASSUME NEW s \in Sessions, NEW q \in env.menu[s], Query!Ask(s, q) PROVE RecallInv'
  BY <1>4, AskStep
<1>5. ASSUME NEW i \in RecallIds, Query!PutMemory(i) PROVE RecallInv'
  BY <1>5, PutMemoryStep
<1>6. ASSUME NEW i \in RecallIds, Query!SetMemoryStatus(i) PROVE RecallInv'
  BY <1>6, EditStep DEF Query!SetMemoryStatus
<1>7. ASSUME NEW i \in RecallIds, Query!ForgetMarks(i) PROVE RecallInv'
  BY <1>7, EditStep DEF Query!ForgetMarks
<1>8. ASSUME NEW i \in RecallIds, Query!ForgetSweeps(i) PROVE RecallInv'
  BY <1>8, SweepStep
<1>9. CASE Query!Drain
  BY <1>9, DrainStep
<1>10. CASE Query!Tick
  BY <1>10, TickStep
<1>11. ASSUME NEW i \in RecallIds, Query!UpdateContent(i) PROVE RecallInv'
  BY <1>11, UpdateContentStep
<1>12. ASSUME NEW i \in RecallIds, NEW r, Query!SetRealm(i, r) PROVE RecallInv'
  BY <1>12, MoveStep DEF Query!SetRealm
<1>13. ASSUME NEW i \in RecallIds, NEW r, Query!RemapRealm(i, r) PROVE RecallInv'
  BY <1>13, MoveStep DEF Query!RemapRealm
<1>14. ASSUME NEW x, Query!MoveMember(x) PROVE RecallInv'
  BY <1>14, MoveMemberStep
<1> QED  BY <1>1, <1>2, <1>3, <1>4, <1>5, <1>6, <1>7, <1>8, <1>9, <1>10, <1>11, <1>12, <1>13, <1>14
         DEF Query!Next

\* An answer has only what was alive at one of the holds of the call.
LEMMA AliveHolds == RecallInv => Query!AnswersAlive
BY DEF RecallInv, SessionInv, AnswerInv, Showing, Query!AnswersAlive

\* An answer has only what its realm or a link gave.
LEMMA RealmHolds == RecallInv => Query!AnswersInRealm
<1> SUFFICES ASSUME RecallInv, NEW s \in Sessions, Query!Answered(s)
             PROVE  LET me == env.sess[s]
                        fused == me.q.by \in {"hybrid", "field"}
                        linked == {i \in RecallIds : \E j \in RecallIds :
                                     \/ <<j, i>> \in Bridges
                                     \/ fused /\ PprLane /\ <<j, i>> \in me.walked}
                        scoped == me.q.by \in {"semantic", "ctx", "keyword", "time", "hdc",
                                               "spread", "filtered"}
                                    \/ (fused /\ me.q.rrf)
                    IN (scoped /\ me.q.realm # Query!Anywhere /\ ~me.blind) =>
                         me.hits \ linked \subseteq me.here
  BY DEF Query!AnswersInRealm
<1> DEFINE me == env.sess[s]
           fused == me.q.by \in {"hybrid", "field"}
           linked == {i \in RecallIds : \E j \in RecallIds :
                        \/ <<j, i>> \in Bridges
                        \/ fused /\ PprLane /\ <<j, i>> \in me.walked}
           scoped == me.q.by \in {"semantic", "ctx", "keyword", "time", "hdc",
                                  "spread", "filtered"}
                       \/ (fused /\ me.q.rrf)
<1>1. RealmInv(me)
  BY DEF RecallInv, SessionInv
<1>2. scoped /\ me.q.realm # Query!Anywhere => Scoped(me.q)
  BY DEF Scoped, Fused, Query!Anywhere
<1>3. Local(me) = me.here \cup linked
  BY DEF Local, Fused
<1> HIDE DEF me, linked, scoped
<1>4. scoped /\ me.q.realm # Query!Anywhere /\ ~me.blind => me.hits \ linked \subseteq me.here
  BY <1>1, <1>2, <1>3 DEF RealmInv
<1> QED  BY <1>4 DEF me, linked, scoped

\* Reservations are the sessions' own, and disjoint.
LEMMA RefreshHolds == RecallInv => Query!RefreshExclusive
BY DEF RecallInv, RefreshInv, Query!RefreshExclusive

\* A step of a session leaves the plans of the others alone.
LEMMA OtherPlans ==
    ASSUME RecallInv, NEW s \in Sessions, NEW t \in Sessions, s # t,
           Query!Advance(s) \/ Query!Expand(s) \/ \E q \in env.menu[s] : Query!Ask(s, q)
    PROVE  env'.sess[t].plan = env.sess[t].plan
<1>1. \A new : Query!Went(s, new) => env'.sess[t] = env.sess[t]
  BY DEF Query!Went, RecallInv, StoreInv, RecallEnv
<1>2. \A plan, new : Query!Turn(s, plan, new) => env'.sess[t] = env.sess[t]
  BY DEF Query!Turn, RecallInv, StoreInv, RecallEnv
<1>3. CASE Query!Advance(s)
  <2>1. (\E new : Query!Went(s, new)) \/ (\E plan, new : Query!Turn(s, plan, new))
    BY <1>3 DEF Query!Advance, Query!Search, Query!Wanted, Query!Reserve, Query!Apply,
       Query!Release, Query!Format, Query!Learn, Query!Window, Query!Members, Query!TakeHits,
       Query!Fuse, Query!Fallback, Query!Backfilled
  <2> QED  BY <1>1, <1>2, <2>1
<1>4. CASE Query!Expand(s)
  BY <1>4 DEF Query!Expand, RecallInv, StoreInv, RecallEnv
<1>5. CASE \E q \in env.menu[s] : Query!Ask(s, q)
  <2>1. \E new : env' = [env EXCEPT !.queries[s] = @ + 1, !.sess[s] = new]
    BY <1>5 DEF Query!Ask
  <2> QED  BY <2>1 DEF RecallInv, StoreInv, RecallEnv
<1> QED  BY <1>3, <1>4, <1>5

LEMMA QuietAdvance ==
    ASSUME RecallInv, NEW s \in Sessions, Query!Running(s), env.sess[s].q.measure,
           Query!Advance(s)
    PROVE  ram' = ram
<1> DEFINE p == env.sess[s].plan
<1>1. PlanFor(env.sess[s].q, p) /\ p # <<>>
  BY DEF RecallInv, SessionInv, CallInv, Query!Running
<1>2. Head(p).do \in Quiet
  BY <1>1, HeadFor
<1>3. \A do : Query!Doing(s, do) => do \in Quiet
  BY <1>2 DEF Query!Doing
<1>4. /\ ~Query!Reserve(s) /\ ~Query!Apply(s) /\ ~Query!Release(s) /\ ~Query!Learn(s)
  <2>1. /\ ~Query!Doing(s, "reserve") /\ ~Query!Doing(s, "apply") /\ ~Query!Doing(s, "release")
        /\ ~Query!Doing(s, "learn")
    BY <1>3 DEF Quiet
  <2> QED  BY <2>1 DEF Query!Reserve, Query!Apply, Query!Release, Query!Learn
<1> QED  BY <1>4 DEF Query!Advance, Query!Search, Query!Wanted, Query!Format, Query!Window,
            Query!Members, Query!TakeHits, Query!Fuse, Query!Fallback

\* No step of a measurement's own call changes the store.
LEMMA MeasuredHolds == RecallInv /\ [Query!Next]_Query!vars => [Query!Measured]_Query!vars
<1> SUFFICES ASSUME RecallInv, [Query!Next]_Query!vars, NEW s \in Sessions,
                    Query!Running(s), env.sess[s].q.measure,
                    env'.sess[s].plan # env.sess[s].plan
             PROVE  ram' = ram
  BY DEF Query!Measured
<1>1. ASSUME NEW t \in Sessions,
             Query!Advance(t) \/ Query!Expand(t) \/ \E q \in env.menu[t] : Query!Ask(t, q)
      PROVE  ram' = ram
  <2>1. t = s
    BY <1>1, OtherPlans
  <2>2. Query!Advance(s)
    BY <1>1, <2>1 DEF Query!Expand, Query!Ask
  <2> QED  BY <2>2, QuietAdvance
<1>2. \A store, n : Query!Changed(store, n) => env'.sess[s].plan = env.sess[s].plan
  <2> SUFFICES ASSUME NEW store, NEW n, Query!Changed(store, n)
               PROVE  env'.sess[s].plan = env.sess[s].plan
    OBVIOUS
  <2>1. DOMAIN env.sess[s] = SessionFields /\ DOMAIN env = RecallEnv
    BY StoreShape DEF StoreInv
  <2>2. env'.sess[s] = Query!Saw(store, env.sess[s])
    BY <2>1 DEF Query!Changed, RecallEnv
  <2> QED  BY <2>1, <2>2 DEF Query!Saw, SessionFields
<1>3. ASSUME NEW i \in RecallIds,
             \/ Query!PutMemory(i) \/ Query!SetMemoryStatus(i) \/ Query!ForgetMarks(i)
             \/ Query!ForgetSweeps(i) \/ Query!UpdateContent(i)
             \/ \E r \in Targets : Query!SetRealm(i, r) \/ Query!RemapRealm(i, r)
      PROVE  FALSE
  <2>1. \E store, n : Query!Changed(store, n)
    BY <1>3 DEF Query!PutMemory, Query!SetMemoryStatus, Query!ForgetMarks, Query!ForgetSweeps,
         Query!UpdateContent, Query!SetRealm, Query!RemapRealm, Query!Move, Query!Edit,
         Query!Edited
  <2> QED  BY <1>2, <2>1
<1>4. ASSUME NEW m \in ram.moving, Query!MoveMember(m) PROVE FALSE
  BY <1>2, <1>4 DEF Query!MoveMember
<1>5. ASSUME Query!Drain \/ UNCHANGED Query!vars PROVE FALSE
  BY <1>5 DEF Query!Drain, Query!vars
<1>6. CASE Query!Tick
  BY <1>6 DEF Query!Tick
<1> QED  BY <1>1, <1>3, <1>4, <1>5, <1>6 DEF Query!Next

-----------------------------------------------------------------------------
(* The C ABI                                                                *)

\* The handlers that act before they find the buffer too short.
Twice == {"cf_get_content", "cf_dedupe_symbols", "cf_save_spectral_snapshot",
          "cf_remap_realms", "cf_theme_maintain", "cf_theme_assign_orphans"}

\* What the course of a call needs of its handler: only a mute one leaves the
\* course without a word, but at a null pointer; only one that returns a text
\* leaves a message with a success; of those that copy an answer into a buffer,
\* only the ones above act.
Regular(h) ==
    /\ h.null = "silent" => h.reply # "text" \/ h.name \in Door!Mute
    /\ "silent" \in {h.text, h.json, h.gone, h.fail} => h.name \in Door!Mute
    /\ h.null \in {"told", "silent", "body"} /\ h.fail \in {"told", "silent", "never"}
    /\ {h.text, h.json} \subseteq {"told", "silent", "body", "none", "dropped"}
    /\ h.done \in {"clears", "keeps", "cries"} /\ (h.done = "cries" => h.reply = "text")
    /\ h.acts \in BOOLEAN
    /\ h.acts /\ h.reply \in {"len", "nul", "bare"} => h.name \in Twice

LEMMA HandlersRegular == \A h \in Door!Handlers : Regular(h)
<1>1. /\ Regular(Door!cf_put_memory) /\ Regular(Door!cf_update_state)
      /\ Regular(Door!cf_record_outcome) /\ Regular(Door!cf_upsert_artifact)
      /\ Regular(Door!cf_set_retrieval_surface) /\ Regular(Door!cf_backfill_stage)
      /\ Regular(Door!cf_requeue_all_embeddings) /\ Regular(Door!cf_upsert_symbol)
      /\ Regular(Door!cf_remove_symbols_by_file)
      /\ Regular(Door!cf_backfill_artifact_refs) /\ Regular(Door!cf_set_source_session)
      /\ Regular(Door!cf_log_event)
  BY DEF Regular, Twice, Door!Mute, Door!Handler, Door!Code, Door!cf_put_memory,
     Door!cf_update_state, Door!cf_record_outcome, Door!cf_upsert_artifact,
     Door!cf_set_retrieval_surface, Door!cf_backfill_stage,
     Door!cf_requeue_all_embeddings, Door!cf_upsert_symbol,
     Door!cf_remove_symbols_by_file, Door!cf_backfill_artifact_refs,
     Door!cf_set_source_session, Door!cf_log_event
<1>2. /\ Regular(Door!cf_select_route) /\ Regular(Door!cf_forget_triplet)
      /\ Regular(Door!cf_backfill_embedding) /\ Regular(Door!cf_upsert_code_file_v2)
      /\ Regular(Door!cf_invalidate_triplets_by_source_file)
      /\ Regular(Door!cf_predicate_attach) /\ Regular(Door!cf_span_ingest_memory)
      /\ Regular(Door!cf_purge_corrupt) /\ Regular(Door!cf_close_intervention)
      /\ Regular(Door!cf_transition_wisdom_lineage)
      /\ Regular(Door!cf_repl_session_set)
  BY DEF Regular, Twice, Door!Mute, Door!Handler, Door!Code, Door!cf_select_route,
     Door!cf_forget_triplet, Door!cf_backfill_embedding,
     Door!cf_upsert_code_file_v2, Door!cf_invalidate_triplets_by_source_file,
     Door!cf_predicate_attach, Door!cf_span_ingest_memory, Door!cf_purge_corrupt,
     Door!cf_close_intervention, Door!cf_transition_wisdom_lineage,
     Door!cf_repl_session_set
<1>3. /\ Regular(Door!cf_record_attribution) /\ Regular(Door!cf_update_task)
      /\ Regular(Door!cf_resolve_probe) /\ Regular(Door!cf_close_rederive)
      /\ Regular(Door!cf_ledger_append) /\ Regular(Door!cf_add_trigger)
      /\ Regular(Door!cf_attach_debt_evidence) /\ Regular(Door!cf_update_scorer_model)
      /\ Regular(Door!cf_update_source_weight)
  BY DEF Regular, Twice, Door!Mute, Door!Handler, Door!JsonCode,
     Door!cf_record_attribution, Door!cf_update_task, Door!cf_resolve_probe,
     Door!cf_close_rederive, Door!cf_ledger_append, Door!cf_add_trigger,
     Door!cf_attach_debt_evidence, Door!cf_update_scorer_model,
     Door!cf_update_source_weight
<1>4. /\ Regular(Door!cf_bridge_lane) /\ Regular(Door!cf_expand_associations)
      /\ Regular(Door!cf_ppr_lane) /\ Regular(Door!cf_search_symbols_by_name)
      /\ Regular(Door!cf_search_symbols_semantic) /\ Regular(Door!cf_symbols_in_file)
      /\ Regular(Door!cf_search_symbols_by_name_scoped) /\ Regular(Door!cf_get_callees)
      /\ Regular(Door!cf_get_callers) /\ Regular(Door!cf_get_conflicts)
      /\ Regular(Door!cf_get_supersession_chain) /\ Regular(Door!cf_get_confirmations)
  BY DEF Regular, Twice, Door!Mute, Door!Handler, Door!Hits, Door!cf_bridge_lane,
     Door!cf_expand_associations, Door!cf_ppr_lane, Door!cf_search_symbols_by_name,
     Door!cf_search_symbols_semantic, Door!cf_symbols_in_file,
     Door!cf_search_symbols_by_name_scoped, Door!cf_get_callees,
     Door!cf_get_callers, Door!cf_get_conflicts, Door!cf_get_supersession_chain,
     Door!cf_get_confirmations
<1>5. /\ Regular(Door!cf_search_attractor) /\ Regular(Door!cf_recall_field)
      /\ Regular(Door!cf_recall_temporal_events) /\ Regular(Door!cf_recall_last_action)
      /\ Regular(Door!cf_recall_session)
  BY DEF Regular, Twice, Door!Mute, Door!Handler, Door!Hits,
     Door!cf_search_attractor, Door!cf_recall_field, Door!cf_recall_temporal_events,
     Door!cf_recall_last_action, Door!cf_recall_session
<1>6. /\ Regular(Door!cf_get_retrieval_surface) /\ Regular(Door!cf_provenance_lookup)
      /\ Regular(Door!cf_correction_check) /\ Regular(Door!cf_task_state_lookup)
      /\ Regular(Door!cf_get_kind) /\ Regular(Door!cf_get_realm)
      /\ Regular(Door!cf_query_subject) /\ Regular(Door!cf_query_object)
      /\ Regular(Door!cf_query_entity) /\ Regular(Door!cf_list_triplets_for_entity)
      /\ Regular(Door!cf_get_assoc_edges)
      /\ Regular(Door!cf_get_memory_embeddings_batch)
  BY DEF Regular, Twice, Door!Mute, Door!Handler, Door!Listing,
     Door!cf_get_retrieval_surface, Door!cf_provenance_lookup,
     Door!cf_correction_check, Door!cf_task_state_lookup, Door!cf_get_kind,
     Door!cf_get_realm, Door!cf_query_subject, Door!cf_query_object,
     Door!cf_query_entity, Door!cf_list_triplets_for_entity,
     Door!cf_get_assoc_edges, Door!cf_get_memory_embeddings_batch
<1>7. /\ Regular(Door!cf_get_latest_event) /\ Regular(Door!cf_get_events_by_target)
      /\ Regular(Door!cf_get_events_by_domain_kind) /\ Regular(Door!cf_get_event_by_id)
      /\ Regular(Door!cf_task_list) /\ Regular(Door!cf_user_model_list)
      /\ Regular(Door!cf_theme_list) /\ Regular(Door!cf_theme_get)
      /\ Regular(Door!cf_theme_stats) /\ Regular(Door!cf_theme_recall)
      /\ Regular(Door!cf_analytics_recent) /\ Regular(Door!cf_list_memories)
  BY DEF Regular, Twice, Door!Mute, Door!Handler, Door!Listing,
     Door!cf_get_latest_event, Door!cf_get_events_by_target,
     Door!cf_get_events_by_domain_kind, Door!cf_get_event_by_id, Door!cf_task_list,
     Door!cf_user_model_list, Door!cf_theme_list, Door!cf_theme_get,
     Door!cf_theme_stats, Door!cf_theme_recall, Door!cf_analytics_recent,
     Door!cf_list_memories
<1>8. /\ Regular(Door!cf_memory_stats) /\ Regular(Door!cf_task_get)
      /\ Regular(Door!cf_session_list) /\ Regular(Door!cf_transcript_list)
      /\ Regular(Door!cf_get_memory_metadata) /\ Regular(Door!cf_list_code_files)
      /\ Regular(Door!cf_realm_list)
  BY DEF Regular, Twice, Door!Mute, Door!Handler, Door!Listing,
     Door!cf_memory_stats, Door!cf_task_get, Door!cf_session_list,
     Door!cf_transcript_list, Door!cf_get_memory_metadata, Door!cf_list_code_files,
     Door!cf_realm_list
<1>9. /\ Regular(Door!cf_dedupe_symbols) /\ Regular(Door!cf_save_spectral_snapshot)
      /\ Regular(Door!cf_remap_realms)
  BY DEF Regular, Twice, Door!Mute, Door!Handler, Door!Acting,
     Door!cf_dedupe_symbols, Door!cf_save_spectral_snapshot, Door!cf_remap_realms
<1>10. /\ Regular(Door!cf_get_content) /\ Regular(Door!cf_peek_content)
  BY DEF Regular, Twice, Door!Mute, Door!Handler, Door!Content, Door!Listing,
     Door!cf_get_content, Door!cf_peek_content
<1>11. /\ Regular(Door!cf_write_gate_stats) /\ Regular(Door!cf_query_symbol_events)
       /\ Regular(Door!cf_query_cross_harness_conflicts)
       /\ Regular(Door!cf_query_constraints) /\ Regular(Door!cf_explain_constraint)
       /\ Regular(Door!cf_constraint_stats) /\ Regular(Door!cf_query_surprises)
       /\ Regular(Door!cf_query_debts) /\ Regular(Door!cf_query_wisdom_candidates)
       /\ Regular(Door!cf_effective_scorer_weights)
       /\ Regular(Door!cf_detect_contradictions)
       /\ Regular(Door!cf_scan_contradictions)
  BY DEF Regular, Twice, Door!Mute, Door!Handler, Door!Json,
     Door!cf_write_gate_stats, Door!cf_query_symbol_events,
     Door!cf_query_cross_harness_conflicts, Door!cf_query_constraints,
     Door!cf_explain_constraint, Door!cf_constraint_stats, Door!cf_query_surprises,
     Door!cf_query_debts, Door!cf_query_wisdom_candidates,
     Door!cf_effective_scorer_weights, Door!cf_detect_contradictions,
     Door!cf_scan_contradictions
<1>12. /\ Regular(Door!cf_resolve_contradiction)
       /\ Regular(Door!cf_triplet_query_as_of) /\ Regular(Door!cf_graph_traverse)
       /\ Regular(Door!cf_graph_pagerank) /\ Regular(Door!cf_span_query)
       /\ Regular(Door!cf_recall_failure_pattern)
       /\ Regular(Door!cf_recall_causal_antecedent) /\ Regular(Door!cf_recall_hdcbind)
       /\ Regular(Door!cf_recall_counterfactual) /\ Regular(Door!cf_recall_motif_value)
       /\ Regular(Door!cf_recall_true_counterfactual) /\ Regular(Door!cf_skill_read)
  BY DEF Regular, Twice, Door!Mute, Door!Handler, Door!Json,
     Door!cf_resolve_contradiction, Door!cf_triplet_query_as_of,
     Door!cf_graph_traverse, Door!cf_graph_pagerank, Door!cf_span_query,
     Door!cf_recall_failure_pattern, Door!cf_recall_causal_antecedent,
     Door!cf_recall_hdcbind, Door!cf_recall_counterfactual,
     Door!cf_recall_motif_value, Door!cf_recall_true_counterfactual,
     Door!cf_skill_read
<1>13. /\ Regular(Door!cf_agent_get) /\ Regular(Door!cf_query_interventions)
       /\ Regular(Door!cf_get_intervention) /\ Regular(Door!cf_get_task)
       /\ Regular(Door!cf_query_tasks) /\ Regular(Door!cf_query_wisdom_lineages)
       /\ Regular(Door!cf_get_wisdom_lineage) /\ Regular(Door!cf_repl_session_get)
       /\ Regular(Door!cf_ledger_query) /\ Regular(Door!cf_parse_time_window)
  BY DEF Regular, Twice, Door!Mute, Door!Handler, Door!Json, Door!cf_agent_get,
     Door!cf_query_interventions, Door!cf_get_intervention, Door!cf_get_task,
     Door!cf_query_tasks, Door!cf_query_wisdom_lineages, Door!cf_get_wisdom_lineage,
     Door!cf_repl_session_get, Door!cf_ledger_query, Door!cf_parse_time_window
<1>14. /\ Regular(Door!cf_recall_analogy) /\ Regular(Door!cf_assoc_decay)
       /\ Regular(Door!cf_prune_memories) /\ Regular(Door!cf_consolidation_pass)
       /\ Regular(Door!cf_assert_constraint) /\ Regular(Door!cf_fire_trigger)
       /\ Regular(Door!cf_evaluate_triggers) /\ Regular(Door!cf_record_surprise)
       /\ Regular(Door!cf_register_debt) /\ Regular(Door!cf_record_feedback)
       /\ Regular(Door!cf_upsert_wisdom_candidate)
       /\ Regular(Door!cf_start_intervention)
  BY DEF Regular, Twice, Door!Mute, Door!Handler, Door!JsonActing,
     Door!cf_recall_analogy, Door!cf_assoc_decay, Door!cf_prune_memories,
     Door!cf_consolidation_pass, Door!cf_assert_constraint, Door!cf_fire_trigger,
     Door!cf_evaluate_triggers, Door!cf_record_surprise, Door!cf_register_debt,
     Door!cf_record_feedback, Door!cf_upsert_wisdom_candidate,
     Door!cf_start_intervention
<1>15. /\ Regular(Door!cf_add_observation) /\ Regular(Door!cf_register_task)
       /\ Regular(Door!cf_add_delegation) /\ Regular(Door!cf_link_evidence)
       /\ Regular(Door!cf_add_probe) /\ Regular(Door!cf_set_criterion)
       /\ Regular(Door!cf_enroll_wisdom_lineage) /\ Regular(Door!cf_repl_execute)
  BY DEF Regular, Twice, Door!Mute, Door!Handler, Door!JsonActing,
     Door!cf_add_observation, Door!cf_register_task, Door!cf_add_delegation,
     Door!cf_link_evidence, Door!cf_add_probe, Door!cf_set_criterion,
     Door!cf_enroll_wisdom_lineage, Door!cf_repl_execute
<1>16. /\ Regular(Door!cf_save_scoring_config)
       /\ Regular(Door!cf_mark_memory_invalidated)
       /\ Regular(Door!cf_retract_constraint)
       /\ Regular(Door!cf_create_constraint_branch) /\ Regular(Door!cf_resolve_debt)
       /\ Regular(Door!cf_update_wisdom_lifecycle)
       /\ Regular(Door!cf_triplet_supersede) /\ Regular(Door!cf_span_ingest)
       /\ Regular(Door!cf_skill_deprecate) /\ Regular(Door!cf_agent_disable)
       /\ Regular(Door!cf_close_stale_interventions)
       /\ Regular(Door!cf_ledger_compile)
  BY DEF Regular, Twice, Door!Mute, Door!Handler, Door!Code,
     Door!cf_save_scoring_config, Door!cf_mark_memory_invalidated,
     Door!cf_retract_constraint, Door!cf_create_constraint_branch,
     Door!cf_resolve_debt, Door!cf_update_wisdom_lifecycle,
     Door!cf_triplet_supersede, Door!cf_span_ingest, Door!cf_skill_deprecate,
     Door!cf_agent_disable, Door!cf_close_stale_interventions,
     Door!cf_ledger_compile
<1>17. /\ Regular(Door!cf_recall_spreading) /\ Regular(Door!cf_encode_lite)
       /\ Regular(Door!cf_theme_maintain) /\ Regular(Door!cf_theme_assign_orphans)
  BY DEF Regular, Twice, Door!Mute, Door!Handler, Door!Listing, Door!Acting,
     Door!cf_recall_spreading, Door!cf_encode_lite, Door!cf_theme_maintain,
     Door!cf_theme_assign_orphans
<1>18. /\ Regular(Door!cf_routed_recall) /\ Regular(Door!cf_memory_breakdown)
  BY DEF Regular, Twice, Door!Mute, Door!Handler, Door!Json, Door!JsonActing,
     Door!cf_routed_recall, Door!cf_memory_breakdown
<1> QED
  BY <1>1, <1>2, <1>3, <1>4, <1>5, <1>6, <1>7, <1>8, <1>9, <1>10, <1>11, <1>12,
     <1>13, <1>14, <1>15, <1>16, <1>17, <1>18 DEF Door!Handlers

CallFields == {"phase", "h", "cap", "wrote", "told", "applied", "code", "excuse"}

\* How often a call has taken effect: at most once, unless its handler is one of
\* those, because only those come back from a buffer that was too short.
OnceInv(call) ==
    call.h.name \notin Twice =>
       /\ call.applied <= 1
       /\ call.h.acts /\ call.phase = "entered" => call.applied = 0
       /\ call.h.acts => call.phase # "short"
       /\ ~call.h.acts => call.applied = 0

\* A call under way has left no message and written nothing yet; the answer of
\* one that is over is honest.
CallOK(call, message) ==
    /\ DOMAIN call = CallFields /\ Regular(call.h)
    /\ call.phase \in {"entered", "operated", "short", "over"}
    /\ call.cap \in Nat \ {0} /\ call.wrote \in Nat /\ call.told \in Nat
    /\ call.applied \in Nat /\ call.code \in Int
    /\ call.wrote <= call.cap
    /\ call.phase # "over" => message # "this" /\ call.wrote = 0
    /\ OnceInv(call)

AbiInv ==
    /\ ram \in Nat /\ DOMAIN env = {"message", "calls", "call"}
    /\ env.call.phase = "idle" \/ CallOK(env.call, env.message)
    /\ Door!ErrorTold

LEMMA AbiHolds == AbiInv => Door!ErrorTold /\ Door!RetrySafe
BY DEF AbiInv, CallOK, OnceInv, Twice, Door!RetrySafe

LEMMA AbiInit == Door!Init => AbiInv
BY DEF Door!Init, Door!Idle, AbiInv, Door!ErrorTold

LEMMA OlderNotThis == \A m : Door!Older(m) # "this"
BY DEF Door!Older

LEMMA EnterStep ==
    ASSUME AbiInv, NEW h \in Door!Handlers, Door!Enter(h)
    PROVE  AbiInv'
<1>1. /\ DOMAIN env' = {"message", "calls", "call"} /\ env'.message = Door!Older(env.message)
      /\ env'.call = [phase |-> "entered", h |-> h, cap |-> 1, wrote |-> 0,
                      told |-> 0, applied |-> 0, code |-> 0, excuse |-> FALSE]
      /\ ram' = ram
  BY DEF Door!Enter
<1>2. Regular(h)
  BY HandlersRegular
<1>3. CallOK(env'.call, env'.message)
  BY <1>1, <1>2, OlderNotThis DEF CallOK, OnceInv, CallFields
<1> QED  BY <1>1, <1>3 DEF AbiInv, Door!ErrorTold

\* A call that leaves its course tells why, or is excused.
LEMMA FailStep ==
    ASSUME AbiInv, env.call.phase = "entered", NEW how, NEW phase, Door!Fails(how, phase),
           how \in {"told", "silent", "body"},
           how = "silent" => env.call.h.name \in Door!Mute
                             \/ (phase = "null" /\ env.call.h.reply # "text")
    PROVE  AbiInv'
<1> DEFINE message == IF Door!Leaves(how, env.call.h.done) THEN "this" ELSE env.message
           code == IF how = "body" THEN 0 ELSE 0 - 1
           excuse == phase = "null" /\ env.call.h.reply # "text"
           call == [env.call EXCEPT !.phase = "over", !.code = code, !.excuse = excuse]
<1>1. env' = [env EXCEPT !.message = message, !.call = call] /\ ram' = ram
  BY DEF Door!Fails
<1>2. CallOK(env.call, env.message)
  BY DEF AbiInv
<1>3. /\ DOMAIN call = CallFields /\ call.phase = "over" /\ call.code = code
      /\ call.excuse = excuse /\ call.h = env.call.h /\ call.cap = env.call.cap
      /\ call.wrote = env.call.wrote /\ call.told = env.call.told
      /\ call.applied = env.call.applied
  BY <1>2 DEF CallOK, CallFields
<1>4. code \in Int /\ (code >= 0 => how = "body") /\ (code = 0 - 1 => how # "body")
  OBVIOUS
<1>5. how = "silent" => env.call.h.name \in Door!Mute \/ excuse = TRUE
  OBVIOUS
<1>6. /\ how = "told" => message = "this"
      /\ how # "told" => message = env.message \/ env.call.h.done = "cries"
  BY DEF Door!Leaves
<1> HIDE DEF call, code, excuse, message
<1>7. DOMAIN env' = {"message", "calls", "call"} /\ env'.message = message /\ env'.call = call
  BY <1>1 DEF AbiInv
<1>8. CallOK(call, message)
  BY <1>2, <1>3, <1>4 DEF CallOK, OnceInv
<1>9. call.code = 0 - 1 => message = "this" \/ call.h.name \in Door!Mute \/ call.excuse
  <2>1. how \in {"told", "silent", "body"}
    OBVIOUS
  <2>2. how = "told" \/ how = "silent" \/ how = "body"
    BY <2>1
  <2> QED  BY <1>3, <1>4, <1>5, <1>6, <2>2, Zenon
<1>10. call.code >= 0 /\ call.h.reply # "text" => message # "this"
  BY <1>2, <1>3, <1>4, <1>6 DEF CallOK, Regular
<1>11. /\ env'.call.phase = "over" /\ ram' = ram /\ ram \in Nat
  BY <1>1, <1>3, <1>7 DEF AbiInv
<1>12. Door!ErrorTold'
  BY <1>7, <1>9, <1>10, Zenon DEF Door!ErrorTold
<1> QED  BY <1>7, <1>8, <1>11, <1>12 DEF AbiInv

LEMMA NotThereStep ==
    ASSUME AbiInv, Door!NotThere
    PROVE  AbiInv'
<1> DEFINE call == [env.call EXCEPT !.phase = "over", !.code = 1]
<1>1. env' = [env EXCEPT !.call = call] /\ ram' = ram /\ env.call.phase = "entered"
  BY DEF Door!NotThere
<1>2. CallOK(env.call, env.message)
  BY <1>1 DEF AbiInv
<1>3. /\ DOMAIN call = CallFields /\ call.phase = "over" /\ call.code = 1
      /\ call.h = env.call.h /\ call.cap = env.call.cap
      /\ call.wrote = env.call.wrote /\ call.told = env.call.told
      /\ call.applied = env.call.applied
  BY <1>2 DEF CallOK, CallFields
<1> HIDE DEF call
<1>4. /\ DOMAIN env' = {"message", "calls", "call"} /\ env'.message = env.message
      /\ env'.call = call
  BY <1>1 DEF AbiInv
<1>5. CallOK(call, env.message)
  BY <1>2, <1>3 DEF CallOK, OnceInv
<1> QED  BY <1>1, <1>2, <1>3, <1>4, <1>5 DEF AbiInv, Door!ErrorTold, CallOK

LEMMA OperateStep ==
    ASSUME AbiInv, Door!Operate
    PROVE  AbiInv'
<1> DEFINE more == IF env.call.h.acts THEN 1 ELSE 0
           call == [env.call EXCEPT !.phase = "operated", !.told = ram, !.applied = @ + more]
<1>1. env' = [env EXCEPT !.call = call] /\ ram' = ram /\ env.call.phase = "entered"
  BY DEF Door!Operate
<1>2. CallOK(env.call, env.message)
  BY <1>1 DEF AbiInv
<1>3. /\ DOMAIN call = CallFields /\ call.phase = "operated" /\ call.told = ram
      /\ call.h = env.call.h /\ call.cap = env.call.cap
      /\ call.wrote = env.call.wrote /\ call.applied = env.call.applied + more
      /\ call.code = env.call.code
  BY <1>2 DEF CallOK, CallFields
<1>4. /\ more \in {0, 1} /\ (env.call.h.acts => more = 1) /\ (~env.call.h.acts => more = 0)
  OBVIOUS
<1> HIDE DEF call, more
<1>5. /\ DOMAIN env' = {"message", "calls", "call"} /\ env'.message = env.message
      /\ env'.call = call
  BY <1>1 DEF AbiInv
<1>6. ram \in Nat
  BY DEF AbiInv
<1>7. OnceInv(call)
  BY <1>1, <1>2, <1>3, <1>4 DEF CallOK, OnceInv
<1>8. CallOK(call, env.message)
  BY <1>1, <1>2, <1>3, <1>4, <1>6, <1>7 DEF CallOK
<1> QED  BY <1>1, <1>3, <1>5, <1>6, <1>8 DEF AbiInv, Door!ErrorTold

LEMMA ReplyStep ==
    ASSUME AbiInv, Door!Reply
    PROVE  AbiInv'
<1> DEFINE h == env.call.h
           length == env.call.told
           cap == env.call.cap
           short == [env.call EXCEPT !.phase = "short", !.code = 0 - 2]
           message == Door!Message(h.done, env.message)
           wrote == Door!Written(h, length, cap)
           over == [env.call EXCEPT !.phase = "over", !.code = 0, !.wrote = wrote]
<1>1. /\ env.call.phase = "operated" /\ ram' = ram
      /\ env' = IF Door!TooShort(h, length, cap) THEN [env EXCEPT !.call = short]
                ELSE [env EXCEPT !.message = message, !.call = over]
  BY DEF Door!Reply
<1>2. CallOK(env.call, env.message)
  BY <1>1 DEF AbiInv
<1>3. CASE Door!TooShort(h, length, cap)
  <2>1. /\ DOMAIN short = CallFields /\ short.phase = "short" /\ short.code = 0 - 2
        /\ short.h = h /\ short.cap = cap /\ short.wrote = env.call.wrote
        /\ short.told = length /\ short.applied = env.call.applied
    BY <1>2 DEF CallOK, CallFields
  <2>2. env' = [env EXCEPT !.call = short]
    BY <1>1, <1>3
  <2>3. h.reply \in {"len", "nul", "bare"}
    BY <1>3 DEF Door!TooShort
  <2>4. h.acts => h.name \in Twice
    BY <1>2, <2>3 DEF CallOK, Regular
  <2> HIDE DEF short
  <2>5. /\ DOMAIN env' = {"message", "calls", "call"} /\ env'.message = env.message
        /\ env'.call = short
    BY <2>2 DEF AbiInv
  <2>6. CallOK(short, env.message)
    BY <1>1, <1>2, <2>1, <2>4 DEF CallOK, OnceInv
  <2> QED  BY <1>1, <2>1, <2>5, <2>6 DEF AbiInv, Door!ErrorTold
<1>4. CASE ~Door!TooShort(h, length, cap)
  <2>1. env' = [env EXCEPT !.message = message, !.call = over]
    BY <1>1, <1>4
  <2>2. wrote \in Nat /\ wrote <= cap
    BY <1>2, <1>4 DEF CallOK, Door!Written, Door!TooShort, Door!Needed
  <2>3. h.reply # "text" => message # "this"
    BY <1>1, <1>2 DEF CallOK, Regular, Door!Message
  <2> HIDE DEF wrote, message
  <2>4. /\ DOMAIN over = CallFields /\ over.phase = "over" /\ over.code = 0
        /\ over.h = h /\ over.cap = cap /\ over.wrote = wrote
        /\ over.told = length /\ over.applied = env.call.applied
    BY <1>2 DEF CallOK, CallFields
  <2> HIDE DEF over
  <2>5. /\ DOMAIN env' = {"message", "calls", "call"} /\ env'.message = message
        /\ env'.call = over
    BY <2>1 DEF AbiInv
  <2>6. CallOK(over, message)
    BY <1>1, <1>2, <2>2, <2>4 DEF CallOK, OnceInv
  <2> QED  BY <1>1, <2>3, <2>4, <2>5, <2>6 DEF AbiInv, Door!ErrorTold
<1> QED  BY <1>3, <1>4

LEMMA RetryStep ==
    ASSUME AbiInv, Door!Retry
    PROVE  AbiInv'
<1> DEFINE cap == IF env.call.h.reply = "len" THEN env.call.told + 1 ELSE 2 * env.call.cap
           call == [env.call EXCEPT !.phase = "entered", !.cap = cap]
<1>1. /\ env.call.phase = "short" /\ ram' = ram
      /\ env' = [env EXCEPT !.message = Door!Older(@), !.call = call]
  BY DEF Door!Retry
<1>2. CallOK(env.call, env.message)
  BY <1>1 DEF AbiInv
<1>3. cap \in Nat \ {0}
  BY <1>2 DEF CallOK
<1> HIDE DEF cap
<1>4. /\ DOMAIN call = CallFields /\ call.phase = "entered" /\ call.cap = cap
      /\ call.h = env.call.h /\ call.wrote = env.call.wrote /\ call.told = env.call.told
      /\ call.applied = env.call.applied /\ call.code = env.call.code
  BY <1>2 DEF CallOK, CallFields
<1> HIDE DEF call
<1>5. /\ DOMAIN env' = {"message", "calls", "call"}
      /\ env'.message = Door!Older(env.message) /\ env'.call = call
  BY <1>1 DEF AbiInv
<1>6. OnceInv(call)
  BY <1>1, <1>2, <1>4 DEF CallOK, OnceInv
<1>7. CallOK(call, env'.message)
  BY <1>1, <1>2, <1>3, <1>4, <1>5, <1>6, OlderNotThis DEF CallOK
<1> QED  BY <1>1, <1>4, <1>5, <1>7 DEF AbiInv, Door!ErrorTold

LEMMA AbiNext ==
    ASSUME AbiInv, [Door!Next]_<<ram, env>>
    PROVE  AbiInv'
<1>0. env.call.phase = "entered" => Regular(env.call.h)
  BY DEF AbiInv, CallOK
<1>1. CASE Door!Grow
  BY <1>1 DEF AbiInv, Door!Grow, Door!ErrorTold
<1>2. CASE Door!NullPointer
  BY <1>0, <1>2, FailStep DEF Door!NullPointer, Regular
<1>3. CASE Door!Garbled
  <2>1. PICK how \in {env.call.h.text, env.call.h.json} \ {"none", "dropped"} :
                Door!Fails(how, "text")
    BY <1>3 DEF Door!Garbled
  <2>2. env.call.phase = "entered"
    BY <1>3 DEF Door!Garbled
  <2>3. /\ how \in {"told", "silent", "body"}
        /\ how = "silent" => env.call.h.name \in Door!Mute
    BY <1>0, <2>1, <2>2 DEF Regular
  <2> QED  BY <2>1, <2>2, <2>3, FailStep
<1>4. CASE Door!OperationFails
  BY <1>0, <1>4, FailStep DEF Door!OperationFails, Regular
<1>5. CASE Door!NothingFound
  BY <1>0, <1>5, FailStep DEF Door!NothingFound, Regular
<1>6. CASE UNCHANGED <<ram, env>>
  BY <1>6 DEF AbiInv, Door!ErrorTold
<1> QED  BY <1>1, <1>2, <1>3, <1>4, <1>5, <1>6, EnterStep, NotThereStep, OperateStep,
            ReplyStep, RetryStep DEF Door!Next, Door!Handle

-----------------------------------------------------------------------------
(* The services together                                                    *)

\* No more than one drain uses the slot; every drain takes the rpc mutex.
Single == \A d, e \in Drains : d = e
Locked == Unlocked = {}

DrainInv == /\ BackfillInv
            /\ Single => WiredInv
            /\ Locked => TextInv

ServiceInv ==
    /\ part = "startup" => StartupInv
    /\ part = "backfill" => DrainInv
    /\ part = "index" => IndexInv
    /\ part = "recall" => RecallInv
    /\ part = "abi" => AbiInv

LEMMA ServiceStep ==
    ASSUME ServiceInv, [ServiceNext]_vars
    PROVE  ServiceInv'
<1>1. part' = part
  BY DEF ServiceNext, SameTodo, SameLog, vars
<1>2. part = "startup" => [Lane!Next]_(Lane!vars)
  BY DEF ServiceNext, Lane!vars, vars
<1>3. part = "backfill" => [Backfill!Next]_<<ram, wal, env>>
  BY DEF ServiceNext, vars
<1>4. part = "index" => [Index!Next]_<<ram, env>>
  BY DEF ServiceNext, vars
<1>5. part = "recall" => [Query!Next]_(Query!vars)
  BY DEF ServiceNext, Query!vars, vars
<1>6. part' = "startup" => StartupInv'
  BY <1>1, <1>2, StartupInvStep DEF ServiceInv
<1>7. ASSUME part = "backfill" PROVE DrainInv'
  <2>1. BackfillInv'
    BY <1>3, <1>7, BackfillStep, ServiceAssumption DEF ServiceInv, DrainInv
  <2>2. Single => WiredInv'
    BY <1>3, <1>7, WiredStep, ServiceAssumption DEF ServiceInv, DrainInv, Single
  <2>3. Locked => TextInv'
    BY <1>3, <1>7, TextStep, ServiceAssumption DEF ServiceInv, DrainInv, Locked
  <2> QED  BY <2>1, <2>2, <2>3 DEF DrainInv, Single, Locked
<1>8. part' = "index" => IndexInv'
  BY <1>1, <1>4, IndexNext DEF ServiceInv
<1>9. part' = "recall" => RecallInv'
  BY <1>1, <1>5, RecallNext, ServiceAssumption DEF ServiceInv
<1>10. part' = "abi" => AbiInv'
  <2>1. part = "abi" => [Door!Next]_<<ram, env>>
    BY DEF ServiceNext, vars
  <2> QED  BY <1>1, <2>1, AbiNext DEF ServiceInv
<1> QED  BY <1>1, <1>6, <1>7, <1>8, <1>9, <1>10 DEF ServiceInv

\* The inductive invariants of the services.
THEOREM ServiceInvariant == ServiceSpec => []ServiceInv
<1>1. ServiceInit => ServiceInv
  BY StartupInvInit, WiredInit, TextInit, IndexInit, RecallInit, AbiInit,
     ServiceAssumption
     DEF ServiceInit, ServiceInv, DrainInv
<1>2. ServiceInv /\ [ServiceNext]_vars => ServiceInv'
  BY ServiceStep
<1> QED  BY <1>1, <1>2, PTL DEF ServiceSpec

\* The readiness gate of cf_startup_indexes_ready opens only after the recount,
\* whatever the lanes, the calls that force a cell, panics and spawn failures;
\* what keeps the instance lock after cf_close has been cancelled; and only a
\* fault ends the maintenance thread before a close.
THEOREM StartupIsSound == ServiceSpec => []StartupSound
<1>1. ServiceInv => StartupSound
  BY StartupHolds DEF ServiceInv, StartupSound
<1> QED  BY <1>1, ServiceInvariant, PTL

\* However many drains share the one slot of backfill_plan_stage, and wherever
\* the process dies, no live memory with a text is left without a vector and
\* without a place in the queue unless force_clear gave it up, and
\* pending_embed_count is never below the number of pending memories.  With no
\* more than one drain, every live memory that has its vector and waits neither
\* in the queue nor in the staged batch is in the HNSW graph, whatever happens
\* between backfill_stage, backfill_plan and backfill_apply.  As long as every
\* drain stages inside the rpc mutex, a replay brings back no text from before
\* a forget.
THEOREM BackfillIsSound == ServiceSpec => []BackfillSound
<1>1. ServiceInv => BackfillSound
  BY NoneLostHolds, WiredHolds, TextHolds
     DEF ServiceInv, DrainInv, Single, Locked, BackfillSound
<1> QED  BY <1>1, ServiceInvariant, PTL

\* SemanticIndex::search: no arm scores a forgotten memory or a vector that the
\* memory no longer has, whatever turbo copies are being built, published, pruned
\* or loaded from the snapshot's cache, and the exact arms miss none; a tombstone
\* has no vector, a code has one, and the counter of each realm, which decides
\* whether its graph is kept, is the number of its members.
THEOREM SearchIsFresh == ServiceSpec => []SearchFresh
<1>1. ServiceInv => SearchFresh
  BY FreshHolds, GraphsHold DEF ServiceInv, SearchFresh, Index!SearchFresh
<1> QED  BY <1>1, ServiceInvariant, PTL

\* Whatever is put, hidden, forgotten and swept between the index search of a lane,
\* its states guard and the fusion, an answer has no memory that was dead throughout
\* the call, nor, for the lanes that score, one that was suppressed throughout.  A
\* query that names a realm answers from it, but for what an artifact or an edge
\* links, as long as the realm had a member at every moment of the call.  Two
\* sessions never probe the same memory, and every reservation has a session that
\* will release it, as long as no session outlives the refresh interval.
THEOREM RecallIsSound == ServiceSpec => []RecallSound
<1>1. ServiceInv => RecallSound
  BY AliveHolds, RealmHolds, RefreshHolds DEF ServiceInv, RecallSound, Query!RecallSound
<1> QED  BY <1>1, ServiceInvariant, PTL

\* A measurement (log_to_index off) changes nothing: no step of its call touches a
\* memory, strengthens a pair or makes a reservation.
THEOREM MeasuringIsQuiet == ServiceSpec => MeasureMutatesNothing
<1>1. ServiceInv /\ [ServiceNext]_vars => [part = "recall" => Query!Measured]_vars
  <2> SUFFICES ASSUME ServiceInv, [ServiceNext]_vars, vars' # vars, part = "recall"
               PROVE  Query!Measured
    OBVIOUS
  <2>1. Query!Next /\ SameLog
    BY DEF ServiceNext
  <2>2. Query!vars' # Query!vars
    BY <2>1 DEF SameLog, SameTodo, vars, Query!vars
  <2> QED  BY <2>1, <2>2, MeasuredHolds DEF ServiceInv
<1> QED  BY <1>1, ServiceInvariant, PTL DEF ServiceSpec, MeasureMutatesNothing

\* What a caller of the C ABI can rely on, of all handlers modelled and for
\* answers of any length: an error code comes with a message of this call, but
\* from the mute handlers and for a null pointer, and a success leaves none; no
\* answer runs past the caller's buffer; and a request that was repeated with a
\* larger one has taken effect once, but for the ones that act too early.
THEOREM AnswersAreHonest == ServiceSpec => []AbiHonest
<1>1. ServiceInv => AbiHonest
  BY AbiHolds DEF ServiceInv, AbiHonest
<1> QED  BY <1>1, ServiceInvariant, PTL
=============================================================================
