------------------------------- MODULE Stores -------------------------------
(***************************************************************************)
(* The memories of a field, the edges between them, the facts about them   *)
(* and the code intelligence, for every value of their bounds.             *)
(***************************************************************************)
EXTENDS Parts, Integers, Sequences, FiniteSets

CONSTANTS Items, NoVec, Near,                        \* of Memory
          MaxMemories, MaxMemoryCalls, MaxMoments,
          CodeKeys, ProjectOf(_), MaxCodeCalls,      \* of CodeGraph
          EdgeIds, EdgeProfiles, EdgeSessions,       \* of Edges
          Neighbours, ChainLength, MaxPairs, MaxEdgeCalls,
          TripletIds, TripletSessions, Facts,        \* of Triplets
          File, Source, Weights, MaxTriplets, MaxTripletCalls

\* An item is a record with these fields, a key of a symbol a pair; neighbours
\* are memories, of which there are finitely many.
ASSUME StoreAssumption ==
    /\ \A x \in Items : x = [kind |-> x.kind, realm |-> x.realm, vec |-> x.vec,
                             tag |-> x.tag, key |-> x.key, text |-> x.text]
    /\ \A x \in CodeKeys : x = <<x[1], x[2]>>
    /\ IsFiniteSet(EdgeIds) /\ Neighbours \subseteq EdgeIds \X EdgeIds
    /\ ChainLength \in Nat

\* Callers add no replication sessions, which put_memory records; "" is no
\* memory and no file.
ASSUME TripletAssumption ==
    /\ \A f \in Facts : f[2] # "replication_session"
    /\ "" \notin TripletIds /\ File # ""

Mem == INSTANCE Memory WITH MaxCalls <- MaxMemoryCalls, MaxNow <- MaxMoments
Code == INSTANCE CodeGraph WITH
    Keys <- CodeKeys, Project <- ProjectOf, MaxCalls <- MaxCodeCalls
Edge == INSTANCE Edges WITH
    Ids <- EdgeIds, Profiles <- EdgeProfiles, Sessions <- EdgeSessions,
    K <- ChainLength, MaxCalls <- MaxEdgeCalls
Triplet == INSTANCE Triplets WITH
    Ids <- TripletIds, Sessions <- TripletSessions, MaxCalls <- MaxTripletCalls

StoreInit ==
    \/ part = "memory" /\ Mem!Init
    \/ part = "code" /\ Code!Init
    \/ part = "edges" /\ Edge!Init
    \/ part = "triplets" /\ Triplet!Init

StoreNext ==
    \/ part = "memory" /\ Mem!Next /\ Same
    \/ part = "code" /\ Code!Next /\ Same
    \/ part = "edges" /\ Edge!Next /\ Same
    \/ part = "triplets" /\ Triplet!Next /\ Same

StoreSpec == StoreInit /\ [][StoreNext]_vars
-----------------------------------------------------------------------------
(* Memories, the status the fence let through and what the keyed lanes answer
   are the same after a restart; every index of the store serves the live
   memories, and no hash has two live copies while nothing was forgotten or
   restored. *)
MemoriesKept ==
    part = "memory" =>
      /\ Mem!MemoriesKept /\ Mem!StatusKept /\ Mem!LanesAgree
      /\ Mem!IndexesServe /\ Mem!OneCopy

(* The derived maps of the symbol index answer for exactly its symbols, a call
   edge relates the functions it was recorded for, and a restart serves the
   same symbols, calls and files. *)
CodeKept == part = "code" => Code!SymbolsFound /\ Code!CallsMean /\ Code!CodeKept

(* No edge outlives its memories and none crosses an epistemic gate; live
   merging and replayed pushing of edges agree. *)
EdgesSound == part = "edges" => Edge!EdgesSound /\ Edge!EdgesKept

(* The incremental cleanup of triplets and the incremental replication counts
   equal a full recomputation, and restarts keep beliefs. *)
TripletsExact ==
    part = "triplets" => Triplet!CleanupExact /\ Triplet!CountsExact /\ Triplet!BeliefsKept
=============================================================================
