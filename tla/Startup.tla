------------------------------- MODULE Startup -------------------------------
(***************************************************************************)
(* cf_open's staged start and cf_close: lanes of deferred phases on threads *)
(* of their own, the once-only cells they publish, calls that force a cell  *)
(* before its lane gets there, the readiness gate, and a shutdown that      *)
(* abandons what is still running.                                          *)
(***************************************************************************)
EXTENDS Naturals, Sequences, FiniteSets

CONSTANTS Lanes,          \* the lanes, each a sequence of phases
          Cells,          \* the phases that publish a StartupValue
          Holders,        \* the phases whose job owns a clone of the field
          MaxFaults       \* bound on panicking jobs and failing spawns

VARIABLES ram, env

vars == <<ram, env>>

Phases == UNION {{lane[k] : k \in DOMAIN lane} : lane \in Lanes}

(* cell: a StartupValue; lane: its thread, the phase it is at and whether the
   job runs; maint: the maintenance thread; stale: triplet_replication_pending;
   counts: whether the states carry counts of the loaded graph. *)
Init ==
  /\ ram = [cell |-> [c \in Cells |-> "deferred"],
            lane |-> [l \in Lanes |-> [thread |-> "none", at |-> 1, busy |-> FALSE]],
            cancel |-> FALSE, maint |-> "spawning", stop |-> FALSE,
            stale |-> TRUE, counts |-> FALSE, handle |-> "open", aborted |-> FALSE]
  /\ env = [faults |-> 0]

Alive == ~ram.aborted
Calm == Alive /\ UNCHANGED env
Fault == Alive /\ env.faults < MaxFaults /\ env' = [faults |-> env.faults + 1]

Phase(l) == l[ram.lane[l].at]
Over(l) == ram.lane[l].at > Len(l)
-----------------------------------------------------------------------------
(* run_startup_lanes: the threads are spawned in turn; one that cannot be
   spawned cancels those before it and ends the maintenance thread. *)
Spawn(l) ==
  /\ Calm
  /\ ram.maint = "spawning" /\ ram.lane[l].thread = "none"
  /\ ram' = [ram EXCEPT !.lane[l].thread = "up",
                        !.maint = IF \A k \in Lanes \ {l} : ram.lane[k].thread # "none"
                                  THEN "lanes" ELSE @]

SpawnFails ==
  /\ Fault
  /\ ram.maint = "spawning"
  /\ ram' = [ram EXCEPT !.cancel = TRUE, !.maint = "exited"]

(* run_startup_lane between two jobs: cancelled lanes return, and returning
   sends the lane's one message. *)
LaneBegins(l) ==
  /\ Calm
  /\ ram.lane[l].thread = "up" /\ ~ram.lane[l].busy
  /\ IF ram.cancel \/ Over(l)
     THEN ram' = [ram EXCEPT !.lane[l].thread = "returned"]
     ELSE /\ Phase(l) \in Cells => ram.cell[Phase(l)] \in {"deferred", "ready"}
          /\ ram' = [ram EXCEPT !.lane[l].busy = TRUE,
                       !.cell = [c \in Cells |-> IF c = Phase(l) /\ @[c] = "deferred"
                                                 THEN "loading" ELSE @[c]]]

(* Mutant: the flag is lowered by the load, before the recount. *)
LaneEndsEarly(l) ==
  /\ Calm
  /\ ram.lane[l].busy
  /\ Phase(l) = "replication" => ram.cell["triplets"] = "ready"
  /\ ram' = [ram EXCEPT !.lane[l].busy = FALSE, !.lane[l].at = @ + 1,
                        !.cell = [c \in Cells |-> IF c = Phase(l) THEN "ready" ELSE @[c]],
                        !.counts = @ \/ Phase(l) = "replication",
                        !.stale = @ /\ Phase(l) # "triplets"]

(* The job is done: it published its cell, or, for triplet_replication, which
   forces the triplets first, recounted before it lowered the flag. *)
LaneEnds(l) ==
  /\ Calm
  /\ ram.lane[l].busy
  /\ Phase(l) = "replication" => ram.cell["triplets"] = "ready"
  /\ ram' = [ram EXCEPT !.lane[l].busy = FALSE, !.lane[l].at = @ + 1,
                        !.cell = [c \in Cells |-> IF c = Phase(l) THEN "ready" ELSE @[c]],
                        !.counts = @ \/ Phase(l) = "replication",
                        !.stale = @ /\ Phase(l) # "replication"]

(* A job panics: the thread dies without its message, and the cell has lost
   its loader. *)
LanePanics(l) ==
  /\ Fault
  /\ ram.lane[l].busy
  /\ ram' = [ram EXCEPT !.lane[l].busy = FALSE, !.lane[l].thread = "dead",
                        !.cell = [c \in Cells |-> IF c = Phase(l) /\ @[c] = "loading"
                                                  THEN "lost" ELSE @[c]]]

(* A call dereferences a cell: it waits for a load that is under way, loads a
   deferred one itself, and panics across the C boundary on a lost one. *)
Demand(c) ==
  /\ Calm
  /\ ram.handle = "open"
  /\ ram.cell[c] \in {"deferred", "lost"}
  /\ ram' = IF ram.cell[c] = "lost" THEN [ram EXCEPT !.aborted = TRUE]
            ELSE [ram EXCEPT !.cell[c] = "ready"]

(* The maintenance thread's poll: a stop message, all lanes returned, or every
   sender gone with a message missing. *)
Quiet == \A l \in Lanes : ram.lane[l].thread \in {"returned", "dead"}
Poll ==
  /\ Calm
  /\ ram.maint = "lanes"
  /\ \/ ram.stop /\ ram' = [ram EXCEPT !.cancel = TRUE, !.maint = "exited"]
     \/ /\ ~ram.stop /\ Quiet
        /\ ram' = IF \E l \in Lanes : ram.lane[l].thread = "dead"
                  THEN [ram EXCEPT !.cancel = TRUE, !.maint = "exited"]
                  ELSE [ram EXCEPT !.maint = "keywords"]

(* Mutant: the periodic loop does not look for the stop message. *)
ProceedDeaf ==
  /\ Calm
  /\ ram.maint = "keywords"
  /\ ram' = [ram EXCEPT !.maint = IF ram.stop THEN "exited" ELSE "loop"]

(* prepare_startup_keywords, then the periodic loop; both look for the stop
   message between any two waits. *)
Proceed ==
  /\ Calm
  /\ ram.maint \in {"keywords", "loop"}
  /\ ram.stop \/ ram.maint = "keywords"
  /\ ram' = [ram EXCEPT !.maint = IF ram.stop THEN "exited" ELSE "loop"]

(* cf_close: stop messages, the joins, the flushes, the drop of the box. *)
CloseBegins ==
  /\ Calm
  /\ ram.handle = "open"
  /\ ram' = [ram EXCEPT !.handle = "closing", !.stop = TRUE]

CloseEnds ==
  /\ Calm
  /\ ram.handle = "closing" /\ ram.maint = "exited"
  /\ ram' = [ram EXCEPT !.handle = "closed"]

(* Dropping the last clone of the field releases the instance lock.  A lane
   keeps the closures of the phases it has not finished. *)
Retained(l) ==
  /\ ram.lane[l].thread = "up"
  /\ \E k \in ram.lane[l].at..Len(l) : l[k] \in Holders
LockHeld == ram.handle # "closed" \/ \E l \in Lanes : Retained(l)

(* cf_startup_indexes_ready *)
Ready == (\A c \in Cells : ram.cell[c] = "ready") /\ ~ram.stale

Next ==
  \/ \E l \in Lanes : Spawn(l) \/ LaneBegins(l) \/ LaneEnds(l) \/ LanePanics(l)
  \/ SpawnFails
  \/ \E c \in Cells : Demand(c)
  \/ Poll \/ Proceed
  \/ CloseBegins \/ CloseEnds

(* Threads run; which jobs end, when somebody closes and what calls force is
   left open, except that jobs end. *)
Fairness ==
  /\ WF_vars(Poll \/ Proceed) /\ WF_vars(CloseEnds)
  /\ \A l \in Lanes : WF_vars(Spawn(l)) /\ WF_vars(LaneBegins(l) \/ LaneEnds(l))

Spec == Init /\ [][Next]_vars /\ Fairness
-----------------------------------------------------------------------------
(* The readiness gate never opens on counts of another graph, however calls
   and lanes share the loading: once it is open, the recount has happened. *)
GateHonest == Ready => ram.counts

(* cf_close does not wait for a running job: what still holds the instance
   lock after it returned is a lane that has been told to stop, so that it
   starts no further job. *)
CloseAbandons ==
  ram.handle = "closed" => \A l \in Lanes : Retained(l) => ram.cancel

(* Only a fault ends the maintenance thread (and with it touch drain,
   checkpoints and Turbo rebuilds) before cf_close. *)
MaintenanceLives ==
  ram.maint = "exited" /\ ~ram.stop => env.faults > 0

(* What the startup lanes and cf_close promise together. *)
StartupSound == GateHonest /\ CloseAbandons /\ MaintenanceLives
=============================================================================
