------------------------------ MODULE Services ------------------------------
(***************************************************************************)
(* The indexes and services of a field that this project proves theorems   *)
(* about, for every value of their bounds.                                 *)
(***************************************************************************)
EXTENDS Parts, Integers, Sequences, FiniteSets

CONSTANTS Lanes, Cells, Holders, MaxFaults,              \* of Startup
          BackfillIds, Alike(_, _), Drains, Unlocked,    \* of Backfill
          Limit, MaxEdits, MaxCrashes,
          IndexIds, Realms, FlatMax, Tier2, RealmMin,    \* of SemanticIndex
          MaxVersion, MaxChanges, MaxPlans,
          RecallIds, RealmOf(_), Targets, Soul, Stored,  \* of Recall
          StoredEdges, InWindow, Bridges, PprLane, Sessions, Menus, K, MinStore, Hops,
          Interval, Budget, Floor, MaxClock, MaxQueries,
          MaxBuffer, MaxAttempts                         \* of Abi

\* The ids of a store are finitely many; edges join stored ids.
ASSUME ServiceAssumption ==
    /\ IsFiniteSet(BackfillIds)
    /\ Hops \in Nat /\ Interval \in Nat \ {0}
    /\ Stored \subseteq RecallIds /\ StoredEdges \subseteq RecallIds \X RecallIds

Lane == INSTANCE Startup
Backfill == INSTANCE Backfill WITH Ids <- BackfillIds, Near <- Alike
Index == INSTANCE SemanticIndex WITH Ids <- IndexIds, MaxCalls <- MaxChanges
Query == INSTANCE Recall WITH Ids <- RecallIds, Linked <- StoredEdges, MaxNow <- MaxClock
Door == INSTANCE Abi WITH MaxSize <- MaxBuffer, MaxCalls <- MaxAttempts

ServiceInit ==
    \/ part = "startup" /\ Lane!Init /\ NoLog
    \/ part = "backfill" /\ Backfill!Init /\ NoTodo
    \/ part = "index" /\ Index!Init /\ NoLog
    \/ part = "recall" /\ Query!Init /\ NoLog
    \/ part = "abi" /\ Door!Init /\ NoLog

ServiceNext ==
    \/ part = "startup" /\ Lane!Next /\ SameLog
    \/ part = "backfill" /\ Backfill!Next /\ SameTodo
    \/ part = "index" /\ Index!Next /\ SameLog
    \/ part = "recall" /\ Query!Next /\ SameLog
    \/ part = "abi" /\ Door!Next /\ SameLog

ServiceSpec == ServiceInit /\ [][ServiceNext]_vars
-----------------------------------------------------------------------------
(* The readiness gate opens only after the recount, a close cancels what it
   does not wait for, and only a fault ends the maintenance thread. *)
StartupSound == part = "startup" => Lane!StartupSound

(* No memory is dropped between the queue and its vector, whatever the drains
   do to the one slot; with a single drain every vector reaches the graph too,
   and where all drains take the rpc mutex a replay resurrects no deleted text
   and undoes no edit. *)
BackfillSound ==
    part = "backfill" =>
      /\ Backfill!NoneLost
      /\ (\A d, e \in Drains : d = e) => Backfill!Wired
      /\ Unlocked = {} => Backfill!TextsKept

(* No arm of the vector search returns a forgotten memory or an old vector,
   whatever is being built, published or loaded. *)
SearchFresh == part = "index" => Index!SearchFresh

(* Answers were alive during the call and belong to the realm asked for, and
   refresh probes do not overlap. *)
RecallSound == part = "recall" => Query!RecallSound

(* A measurement (log_to_index = false) changes nothing in the store. *)
MeasureMutatesNothing == [][part = "recall" => Query!Measured]_vars

(* An error answer has its message, no answer overruns the buffer, and a
   repeated request takes effect once. *)
AbiHonest == part = "abi" => Door!ErrorTold /\ Door!RetrySafe
=============================================================================
