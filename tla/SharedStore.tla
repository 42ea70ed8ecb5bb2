---------------------------- MODULE SharedStore ----------------------------
(***************************************************************************)
(* Several daemons on one store directory (CHITTA_STORE_LOCK=0): each has  *)
(* its own log, reads the others' (src/field.rs, sync_foreign_collect and  *)
(* sync_foreign_apply), commits snapshot families with a coverage vector   *)
(* and deletes the segments that its vector covers.                        *)
(*                                                                         *)
(* A writer is one lifetime of a process, numbered in the order of opening:*)
(* the instance id is fresh on every open.  An operation is additive, so   *)
(* applying it twice shows.  A segment holds one record and is named by    *)
(* it.  A save is atomic up to its commit: its inner steps are the subject *)
(* of Checkpoint.                                                          *)
(*                                                                         *)
(* Nothing orders the processes, and a record can slip past one of them:   *)
(* dropped by a collect that fails, appended between a replay and its      *)
(* seeding, or deleted by a peer before it was applied.  missed is the     *)
(* history of that.                                                        *)
(***************************************************************************)
EXTENDS Integers, FiniteSets, FiniteSetsExt

CONSTANTS
    MaxLives,      \* lifetimes of processes
    MaxOps,        \* operations logged
    MaxWork        \* operations and saves of all processes together

ASSUME SharedAssumption ==
    MaxLives \in Nat /\ MaxOps \in Nat /\ MaxWork \in Nat

VARIABLES
    status,      \* "unborn", "replayed", "up" or "dead"
    got,         \* operations each process has applied
    doubled,     \* operations it has applied more than once
    wal_coverage, next_seqno,
    mtime,       \* when each process last wrote its active segment
    seen,        \* seen_offsets: segments each process has read
    pending,     \* pending_foreign
    saving,      \* "no", "committed" or "wal_pruned"
    saves,
    wal,         \* segments on disk
    families,    \* committed families on disk
    logged,      \* history: every operation an append() acknowledged
    missed,      \* history: operations that slipped past each process
    revived      \* history: operations whose segment append() wrote back

memory == <<got, doubled, wal_coverage, next_seqno, mtime>>
sync   == <<seen, pending>>
save   == <<saving, saves>>
disk   == <<wal, families>>
past   == <<logged, missed, revived>>
vars   == <<status, memory, sync, save, disk, past>>

Writers  == 1 .. MaxLives
NoCover  == [w \in Writers |-> 0]
NoFamily == [seqno |-> 0]
Nothing  == [ops |-> {}, coverage |-> NoCover]

Live  == {w \in Writers : status[w] \in {"replayed", "up"}}
Saved == {w \in Writers : families[w] # NoFamily}

\* Per-writer maximum of a vector and the seqnos of some operations.
Join(coverage, ops) ==
    [v \in Writers |-> Max({coverage[v]} \union
                           {o.n : o \in {p \in ops : p.by = v}})]

Init ==
    /\ status = [w \in Writers |-> "unborn"]
    /\ got = [w \in Writers |-> {}] /\ doubled = [w \in Writers |-> {}]
    /\ wal_coverage = [w \in Writers |-> NoCover]
    /\ next_seqno = [w \in Writers |-> 1] /\ mtime = [w \in Writers |-> 0]
    /\ seen = [w \in Writers |-> {}]
    /\ pending = [w \in Writers |-> Nothing]
    /\ saving = [w \in Writers |-> "no"] /\ saves = 0
    /\ wal = {} /\ families = [w \in Writers |-> NoFamily]
    /\ logged = {} /\ missed = [w \in Writers |-> {}] /\ revived = {}

-----------------------------------------------------------------------------
(* open()                                                                  *)

\* Files are stamped after everything written so far.
Now == 2 * Cardinality(logged)

\* The committed family with the highest seqno, whoever saved it.
Chosen == {w \in Saved : \A v \in Saved :
             families[v].seqno <= families[w].seqno}

\* The two families with the highest seqnos stay, in prune_old_snapshots and
\* in open().
KeepTwo ==
    \E kept \in SUBSET Saved :
       /\ Cardinality(kept) = Min({2, Cardinality(Saved)})
       /\ \A i \in kept, j \in Saved \ kept :
             families[i].seqno >= families[j].seqno
       /\ families' = [w \in Writers |-> IF w \in kept THEN families[w]
                                         ELSE NoFamily]

\* Mutant: the scalar seqno of the snapshot decides, as before coverage vectors.
MutCoveredByScalar(o, family) == o.n <= family.seqno

\* covered_by_full.
Covered(o, family) == o.n <= family.covered[o.by]

\* replay_wal from an image: what the family does not cover is applied.
Replay(w, image, coverage, seqno, lacking, skip) ==
    LET fresh == wal \ skip
    IN  /\ got' = [got EXCEPT ![w] = image \union fresh]
        /\ doubled' = [doubled EXCEPT ![w] = image \intersect fresh]
        /\ wal_coverage' = [wal_coverage EXCEPT ![w] = Join(coverage, wal)]
        /\ next_seqno' = [next_seqno EXCEPT ![w] =
                            Max({seqno} \union {o.n : o \in wal}) + 1]
        /\ mtime' = [mtime EXCEPT ![w] = Now + 1]
        /\ status' = [status EXCEPT ![w] = "replayed"]
        /\ missed' = [missed EXCEPT ![w] = lacking]
        /\ UNCHANGED <<sync, save, wal, logged, revived>>

\* The next lifetime to begin.
Unborn(w) ==
    status[w] = "unborn" /\ \A v \in 1 .. w - 1 : status[v] # "unborn"

OpenFresh(w) ==
    /\ Unborn(w) /\ Saved = {}
    /\ Replay(w, {}, NoCover, 0, {}, {})
    /\ UNCHANGED families

OpenFamily(w) ==
    /\ Unborn(w)
    /\ \E f \in Chosen : LET family == families[f] IN
          Replay(w, family.image, family.covered, family.seqno, family.missed,
                 {o \in wal : Covered(o, family)})
    /\ KeepTwo

\* Mutant: a new instance starts to read the others' segments from offset 0.
MutSeedFromStart(w) ==
    /\ status[w] = "replayed"
    /\ status' = [status EXCEPT ![w] = "up"]
    /\ UNCHANGED <<memory, sync, save, disk, past>>

\* load_seen_offsets: the segments on disk by now count as read.
SeedOffsets(w) ==
    /\ status[w] = "replayed"
    /\ seen' = [seen EXCEPT ![w] = wal]
    /\ missed' = [missed EXCEPT ![w] = @ \union (wal \ got[w])]
    /\ status' = [status EXCEPT ![w] = "up"]
    /\ UNCHANGED <<memory, pending, save, disk, logged, revived>>

-----------------------------------------------------------------------------
(* A local operation, and the operations of the others                     *)

WorkLeft == Cardinality(logged) + saves < MaxWork

Last(w) == {o \in logged : o.by = w /\ \A p \in logged : p.by = w => p.n <= o.n}

\* Logged and applied.  append() writes the active segment back when another
\* process has unlinked it (recover_segment), then rotates.
Append(w) ==
    LET o == [by |-> w, n |-> next_seqno[w], t |-> Now + 2]
    IN  /\ status[w] = "up" /\ Cardinality(logged) < MaxOps /\ WorkLeft
        /\ wal' = wal \union Last(w) \union {o}
        /\ logged' = logged \union {o}
        /\ got' = [got EXCEPT ![w] = @ \union {o}]
        /\ next_seqno' = [next_seqno EXCEPT ![w] = @ + 1]
        /\ mtime' = [mtime EXCEPT ![w] = o.t]
        /\ revived' = revived \union (Last(w) \ wal)
        /\ UNCHANGED <<status, doubled, wal_coverage, sync, save, families, missed>>

Unread(w) == {o \in wal : o.by # w} \ seen[w]

\* Mutant: a second collect replaces what was not applied yet.
MutCollectOverwrites(w) ==
    /\ status[w] = "up" /\ Unread(w) # {}
    /\ seen' = [seen EXCEPT ![w] = @ \union Unread(w)]
    /\ pending' = [pending EXCEPT ![w] =
         [ops |-> Unread(w), coverage |-> Join(@.coverage, Unread(w))]]
    /\ UNCHANGED <<status, memory, save, disk, past>>

Collect(w) ==
    /\ status[w] = "up" /\ Unread(w) # {}
    /\ seen' = [seen EXCEPT ![w] = @ \union Unread(w)]
    /\ pending' = [pending EXCEPT ![w] =
         [ops |-> @.ops \union Unread(w),
          coverage |-> Join(@.coverage, Unread(w))]]
    /\ UNCHANGED <<status, memory, save, disk, past>>

\* replay_from_offset fails on a segment (a peer has just unlinked it): the
\* offsets of the ones before it stay advanced, what was read is dropped.
CollectFails(w) ==
    /\ status[w] = "up"
    /\ \E read \in SUBSET Unread(w) \ {{}} :
          /\ \A p \in read, o \in Unread(w) : o.by = p.by /\ o.n < p.n => o \in read
          /\ seen' = [seen EXCEPT ![w] = @ \union read]
          /\ missed' = [missed EXCEPT ![w] = @ \union read]
    /\ UNCHANGED <<status, memory, pending, save, disk, logged, revived>>

ApplyForeign(w) ==
    /\ status[w] = "up" /\ pending[w].ops # {}
    /\ doubled' = [doubled EXCEPT ![w] =
                     @ \union (got[w] \intersect pending[w].ops)]
    /\ got' = [got EXCEPT ![w] = @ \union pending[w].ops]
    /\ wal_coverage' = [wal_coverage EXCEPT ![w] =
         [v \in Writers |-> Max({@[v], pending[w].coverage[v]})]]
    /\ pending' = [pending EXCEPT ![w] = Nothing]
    /\ UNCHANGED <<status, next_seqno, mtime, seen, save, disk, past>>

-----------------------------------------------------------------------------
(* A save: commit, delete covered segments, delete old families            *)

\* sealed_candidate: an own segment that was rotated away, or a foreign one
\* that was written before this process's active segment.
Sealed(o, w) == IF o.by = w THEN o \notin Last(w) ELSE o.t < mtime[w]

Save(w) ==
    /\ status[w] = "up" /\ saving[w] = "no" /\ WorkLeft
    /\ families' = [families EXCEPT ![w] =
         [seqno    |-> next_seqno[w] - 1,
          covered  |-> [wal_coverage[w] EXCEPT ![w] =
                          Max({@, next_seqno[w] - 1})],
          image    |-> got[w],
          missed   |-> missed[w],
          segments |-> {o \in wal : Sealed(o, w)}]]
    /\ saving' = [saving EXCEPT ![w] = "committed"]
    /\ saves' = saves + 1
    /\ UNCHANGED <<status, memory, sync, wal, past>>

\* prune_certified_wal: by this process's own family, whoever else needs them.
Prunable(w) ==
    {o \in families[w].segments \intersect wal : Sealed(o, w) /\ Covered(o, families[w])}

PruneWal(w) ==
    /\ status[w] = "up" /\ saving[w] = "committed" /\ w \in Saved
    /\ wal' = wal \ Prunable(w)
    /\ missed' = [v \in Writers |->
                    missed[v] \union (IF v \in Live THEN Prunable(w) \ got[v] ELSE {})]
    /\ families' = [f \in Writers |->
         IF f \notin Saved THEN NoFamily
         ELSE [families[f] EXCEPT !.missed = @ \union (Prunable(w) \ families[f].image)]]
    /\ saving' = [saving EXCEPT ![w] = "wal_pruned"]
    /\ UNCHANGED <<status, memory, sync, saves, logged, revived>>

\* A peer has deleted the family in the meantime: the save returns Err.
SaveFails(w) ==
    /\ status[w] = "up" /\ saving[w] = "committed" /\ w \notin Saved
    /\ saving' = [saving EXCEPT ![w] = "no"]
    /\ UNCHANGED <<status, memory, sync, saves, disk, past>>

PruneFamilies(w) ==
    /\ status[w] = "up" /\ saving[w] = "wal_pruned"
    /\ KeepTwo
    /\ saving' = [saving EXCEPT ![w] = "no"]
    /\ UNCHANGED <<status, memory, sync, saves, wal, past>>

\* Mutant: what was pending outlives its process.
MutKillKeepsPending(w) ==
    /\ status[w] \in {"replayed", "up"}
    /\ status' = [status EXCEPT ![w] = "dead"]
    /\ saving' = [saving EXCEPT ![w] = "no"]
    /\ got' = [got EXCEPT ![w] = {}] /\ doubled' = [doubled EXCEPT ![w] = {}]
    /\ missed' = [missed EXCEPT ![w] = {}]
    /\ UNCHANGED <<wal_coverage, next_seqno, mtime, sync, saves, disk, logged, revived>>

Kill(w) ==
    /\ status[w] \in {"replayed", "up"}
    /\ status' = [status EXCEPT ![w] = "dead"]
    /\ saving' = [saving EXCEPT ![w] = "no"]
    /\ got' = [got EXCEPT ![w] = {}] /\ doubled' = [doubled EXCEPT ![w] = {}]
    /\ wal_coverage' = [wal_coverage EXCEPT ![w] = NoCover]
    /\ seen' = [seen EXCEPT ![w] = {}]
    /\ pending' = [pending EXCEPT ![w] = Nothing]
    /\ next_seqno' = [next_seqno EXCEPT ![w] = 1]
    /\ mtime' = [mtime EXCEPT ![w] = 0]
    /\ missed' = [missed EXCEPT ![w] = {}]
    /\ UNCHANGED <<saves, disk, logged, revived>>

-----------------------------------------------------------------------------
Step(w) ==
    \/ OpenFresh(w) \/ OpenFamily(w) \/ SeedOffsets(w)
    \/ Append(w) \/ Collect(w) \/ CollectFails(w) \/ ApplyForeign(w)
    \/ Save(w) \/ PruneWal(w) \/ SaveFails(w) \/ PruneFamilies(w)
    \/ Kill(w)

Next == \E w \in Writers : Step(w)

Spec == Init /\ [][Next]_vars

-----------------------------------------------------------------------------
Operation == [by : Writers, n : 1 .. MaxOps, t : 1 .. 2 * MaxOps]
Vector    == [Writers -> 0 .. MaxOps]

TypeOK ==
    /\ status \in [Writers -> {"unborn", "replayed", "up", "dead"}]
    /\ logged \subseteq Operation /\ wal \subseteq logged /\ revived \subseteq logged
    /\ \A w \in Writers :
         /\ got[w] \subseteq logged /\ doubled[w] \subseteq got[w]
         /\ wal_coverage[w] \in Vector /\ seen[w] \subseteq logged
         /\ pending[w].ops \subseteq logged /\ pending[w].coverage \in Vector
         /\ missed[w] \subseteq logged
         /\ w \in Saved => /\ families[w].image \subseteq logged
                           /\ families[w].missed \subseteq logged
                           /\ families[w].covered \in Vector
         /\ status[w] \in {"unborn", "dead"} =>
              saving[w] = "no" /\ pending[w] = Nothing /\ missed[w] = {}

Claimed(coverage) == {o \in logged : o.n <= coverage[o.by]}

(* A coverage vector claims only what its process, or its family, contains,  *)
(* or what slipped past it: replay skips, and a save deletes, whatever the   *)
(* vector claims (sync_foreign_apply, load_seen_offsets, CheckpointSet).     *)
CoverageHonest ==
    \A w \in Writers :
       /\ w \in Live => Claimed(wal_coverage[w]) \subseteq got[w] \union missed[w]
       /\ w \in Saved => Claimed(families[w].covered)
                            \subseteq families[w].image \union families[w].missed

(* Whichever family an open() would choose now, it and the segments on disk  *)
(* that it does not cover hold every acknowledged operation, but those that  *)
(* slipped past the process that saved it, or were deleted before it had     *)
(* them (load_snapshots, prune_certified_wal, prune_old_snapshots).          *)
Recoverable ==
    IF Saved = {} THEN logged \subseteq wal
    ELSE \A f \in Chosen :
           logged \subseteq families[f].image \union families[f].missed
                            \union {o \in wal : ~Covered(o, families[f])}

(* No operation is applied twice, by replay after a snapshot or by           *)
(* sync_foreign after a replay, unless its segment was deleted and then      *)
(* written back by its writer.                                               *)
AppliedOnce == \A w \in Writers : doubled[w] \subseteq revived

(* opening.rs:590, of the vector: "per-writer max seqno the snapshot         *)
(* provably contains".                                                       *)
CoverageExact ==
    \A w \in Saved : Claimed(families[w].covered) \subseteq families[w].image
=============================================================================
