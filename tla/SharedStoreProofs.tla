------------------------- MODULE SharedStoreProofs -------------------------
(***************************************************************************)
(* Theorems about SharedStore for every value of its bounds and every      *)
(* timing of the processes: types, that coverage vectors claim nothing but *)
(* what was applied or slipped past, that an open() finds everything else, *)
(* and that nothing is applied twice but what its writer wrote back.       *)
(*                                                                         *)
(* CoverageHonest is not inductive: a vector is a per-writer maximum, so a *)
(* process that merges one claims every earlier operation of that writer.  *)
(* PInv says where such an operation can be (applied, missed, pending or   *)
(* unread, and for a deleted one applied or missed) and that what is       *)
(* pending or unread was not applied before.                               *)
(***************************************************************************)
EXTENDS SharedStore, Extrema, FiniteSetTheorems, TLAPS

Count    == Cardinality(logged)
VectorTo(n) == [Writers -> 0 .. n]

FamilyTo(n, ops) ==
    [seqno : 0 .. n, covered : VectorTo(n), image : SUBSET ops,
     missed : SUBSET ops, segments : SUBSET ops]

-----------------------------------------------------------------------------
(* Types                                                                    *)

\* A seqno never exceeds the number of operations that were logged.
Counted ==
    /\ IsFiniteSet(logged) /\ Count <= MaxOps
    /\ \A o \in logged : o.n <= Count /\ o.t <= 2 * Count

\* A live writer is ahead of its own log, and nobody wrote before its open().
Ahead ==
    \A o \in logged : /\ status[o.by] # "unborn"
                      /\ o.by \in Live => o.n < next_seqno[o.by]

TInv ==
    /\ Counted /\ Ahead
    /\ logged \subseteq Operation /\ wal \subseteq logged
    /\ status \in [Writers -> {"unborn", "replayed", "up", "dead"}]
    /\ got \in [Writers -> SUBSET logged]
    /\ doubled \in [Writers -> SUBSET logged]
    /\ \A w \in Writers : doubled[w] \subseteq got[w]
    /\ seen \in [Writers -> SUBSET logged]
    /\ wal_coverage \in [Writers -> VectorTo(Count)]
    /\ next_seqno \in [Writers -> 1 .. Count + 1]
    /\ pending \in [Writers -> [ops : SUBSET logged, coverage : VectorTo(Count)]]
    /\ saving \in [Writers -> {"no", "committed", "wal_pruned"}]
    /\ missed \in [Writers -> SUBSET logged] /\ revived \subseteq logged
    /\ \A w \in Writers : status[w] \in {"unborn", "dead"} =>
          saving[w] = "no" /\ pending[w] = Nothing /\ missed[w] = {}
    /\ DOMAIN families = Writers
    /\ \A f \in Saved : families[f] \in FamilyTo(Count, logged)

-----------------------------------------------------------------------------
(* Where an operation is                                                    *)

Own(w) == {o \in logged : o.by = w}

\* A vector claims nothing a writer has still to log.
Behind(coverage) ==
    \A v \in Writers : /\ status[v] = "unborn" => coverage[v] = 0
                       /\ v \in Live => coverage[v] < next_seqno[v]

VectorsBehind ==
    \A w \in Writers : /\ Behind(pending[w].coverage)
                       /\ w \in Live => Behind(wal_coverage[w])
                       /\ w \in Saved => Behind(families[w].covered)

\* What a family's vector claims it holds or has missed, and it holds no more.
FamiliesHonest ==
    \A f \in Saved :
       /\ Claimed(families[f].covered) \subseteq families[f].image \union families[f].missed
       /\ families[f].image \subseteq Claimed(families[f].covered)

\* The same of a process, which also holds its own operations.
MemoryHonest ==
    \A w \in Live : /\ Claimed(wal_coverage[w]) \subseteq got[w] \union missed[w]
                    /\ got[w] \subseteq Claimed(wal_coverage[w]) \union Own(w)
                    /\ Own(w) \subseteq got[w]

\* A running process has applied or missed each operation, has it pending or
\* has still to read it.
Placed ==
    \A w \in Writers : status[w] = "up" =>
       /\ logged \subseteq got[w] \union missed[w] \union pending[w].ops \union Unread(w)
       /\ pending[w].ops \subseteq Claimed(pending[w].coverage)
       /\ Claimed(pending[w].coverage) \subseteq got[w] \union missed[w] \union pending[w].ops

\* Of applied, pending and unread it is in one place only, unless its segment
\* was written back.
PlacedOnce ==
    \A w \in Writers : status[w] = "up" =>
       /\ got[w] \intersect pending[w].ops \subseteq revived
       /\ (got[w] \union pending[w].ops) \intersect Unread(w) \subseteq revived

\* Nothing is pending before the offsets are seeded.
ReplayedIdle == \A w \in Writers : status[w] = "replayed" => pending[w] = Nothing

\* What was deleted, every family and every live process has or has missed.
DeletedNoted ==
    /\ Saved = {} => logged \subseteq wal
    /\ \A f \in Saved : logged \ wal \subseteq families[f].image \union families[f].missed
    /\ \A v \in Live : logged \ wal \subseteq got[v] \union missed[v]

PInv == TInv /\ VectorsBehind /\ FamiliesHonest /\ MemoryHonest /\ Placed
        /\ PlacedOnce /\ ReplayedIdle /\ DeletedNoted /\ AppliedOnce
-----------------------------------------------------------------------------
(* Vectors and families                                                     *)

\* Joining a vector with operations raises it to cover them, and no further.
LEMMA JoinIs ==
    ASSUME TInv, NEW c \in VectorTo(Count), NEW ops \in SUBSET logged
    PROVE  /\ Join(c, ops) \in VectorTo(Count)
           /\ \A v \in Writers :
                /\ c[v] <= Join(c, ops)[v]
                /\ \/ Join(c, ops)[v] = c[v]
                   \/ \E o \in ops : o.by = v /\ o.n = Join(c, ops)[v]
           /\ \A o \in ops : o.n <= Join(c, ops)[o.by]
<1>1. Count \in Nat
  BY FS_CardinalityType DEF TInv, Counted, Count
<1>2. \A o \in ops : o.by \in Writers /\ o.n \in Nat /\ o.n <= Count
  BY DEF TInv, Counted, Operation
<1>3. ASSUME NEW v \in Writers
      PROVE  /\ Join(c, ops)[v] \in 0 .. Count
             /\ c[v] <= Join(c, ops)[v]
             /\ \/ Join(c, ops)[v] = c[v]
                \/ \E o \in ops : o.by = v /\ o.n = Join(c, ops)[v]
             /\ \A o \in ops : o.by = v => o.n <= Join(c, ops)[v]
  <2> DEFINE S == {c[v]} \union {o.n : o \in {p \in ops : p.by = v}}
  <2>1. c[v] \in Nat /\ c[v] <= Count
    BY <1>1 DEF VectorTo
  <2>2. S \in SUBSET Nat /\ S # {} /\ \A s \in S : s <= Count
    BY <1>1, <1>2, <2>1
  <2>3. Max(S) \in S /\ \A s \in S : s <= Max(S)
    <3> HIDE DEF S
    <3> QED  BY <1>1, <2>2, MaxOf
  <2>4. PICK m \in S : m = Max(S)
    BY <2>3
  <2>5. Join(c, ops)[v] = m
    BY <2>4 DEF Join
  <2>6. \A s \in S : s <= m
    BY <2>3, <2>4
  <2>7. m \in 0 .. Count /\ c[v] <= m
    BY <1>1, <2>2, <2>6
  <2>8. m = c[v] \/ \E o \in ops : o.by = v /\ o.n = m
    OBVIOUS
  <2>9. \A o \in ops : o.by = v => o.n <= m
    BY <2>6
  <2> QED  BY <2>5, <2>7, <2>8, <2>9
<1>4. Join(c, ops) \in VectorTo(Count)
  <2>1. DOMAIN Join(c, ops) = Writers
    BY DEF Join
  <2>2. Join(c, ops) = [v \in Writers |-> Join(c, ops)[v]]
    BY <2>1 DEF Join
  <2> QED  BY <1>3, <2>2 DEF VectorTo
<1> QED  BY <1>2, <1>3, <1>4

\* sync_foreign_apply merges two vectors.
LEMMA MergeIs ==
    ASSUME NEW n \in Nat, NEW a \in VectorTo(n), NEW b \in VectorTo(n)
    PROVE  /\ [v \in Writers |-> Max({a[v], b[v]})] \in VectorTo(n)
           /\ \A v \in Writers : /\ Max({a[v], b[v]}) \in {a[v], b[v]}
                                 /\ a[v] <= Max({a[v], b[v]})
                                 /\ b[v] <= Max({a[v], b[v]})
<1>1. \A v \in Writers : a[v] \in 0 .. n /\ b[v] \in 0 .. n
  BY DEF VectorTo
<1>2. ASSUME NEW v \in Writers
      PROVE  /\ Max({a[v], b[v]}) \in {a[v], b[v]}
             /\ a[v] <= Max({a[v], b[v]}) /\ b[v] <= Max({a[v], b[v]})
  <2>1. a[v] \in Nat /\ b[v] \in Nat
    BY <1>1
  <2> QED  BY <2>1, MaxTwo
<1>3. \A v \in Writers : Max({a[v], b[v]}) \in 0 .. n
  BY <1>1, <1>2
<1> QED  BY <1>2, <1>3 DEF VectorTo

\* The first seqno of a new process is above all it has seen.
LEMMA TopIs ==
    ASSUME TInv, NEW s \in 0 .. Count
    PROVE  Max({s} \union {o.n : o \in wal}) \in 0 .. Count
<1> DEFINE S == {s} \union {o.n : o \in wal}
<1>1. Count \in Nat
  BY FS_CardinalityType DEF TInv, Counted, Count
<1>2. \A o \in wal : o.n \in Nat /\ o.n <= Count
  BY DEF TInv, Counted, Operation
<1>3. S \in SUBSET Nat /\ S # {} /\ \A x \in S : x <= Count
  BY <1>1, <1>2
<1> HIDE DEF S
<1>4. PICK m \in S : m = Max(S)
  BY <1>1, <1>3, MaxOf
<1>5. m \in 0 .. Count
  BY <1>1, <1>3
<1> QED  BY <1>4, <1>5 DEF S

\* Families only go, and never the last one.
LEMMA KeepTwoIs ==
    ASSUME KeepTwo
    PROVE  /\ DOMAIN families' = Writers /\ Saved' \subseteq Saved
           /\ \A f \in Saved' : families'[f] = families[f]
           /\ Saved # {} => Saved' # {}
<1>1. PICK kept \in SUBSET Saved :
         /\ Cardinality(kept) = Min({2, Cardinality(Saved)})
         /\ families' = [w \in Writers |-> IF w \in kept THEN families[w]
                                           ELSE NoFamily]
  BY DEF KeepTwo
<1>2. Saved' = kept /\ \A f \in kept : families'[f] = families[f]
  BY <1>1 DEF Saved
<1>3. Saved # {} => kept # {}
  <2> SUFFICES ASSUME Saved # {} PROVE kept # {}
    OBVIOUS
  <2>1. 1 \in Int /\ MaxLives \in Int
    BY SharedAssumption DEF SharedAssumption
  <2>2. IsFiniteSet(Writers)
    BY <2>1, FS_Interval DEF Writers
  <2>3. IsFiniteSet(Saved)
    BY <2>2, FS_Subset DEF Saved
  <2>4. Cardinality(Saved) \in Nat /\ Cardinality(Saved) # 0
    BY <2>3, FS_CardinalityType, FS_EmptySet
  <2>5. Cardinality(kept) # 0
    BY <1>1, <2>4, MinTwo
  <2> QED  BY <2>5, FS_EmptySet
<1> QED  BY <1>1, <1>2, <1>3

\* A deletion adds to what a family has missed, and changes nothing else.
LEMMA MissedMore ==
    ASSUME NEW n \in Nat, NEW ops, NEW r \in FamilyTo(n, ops), NEW more \in SUBSET ops
    PROVE  /\ [r EXCEPT !.missed = @ \union more] \in FamilyTo(n, ops)
           /\ [r EXCEPT !.missed = @ \union more] # NoFamily
           /\ [r EXCEPT !.missed = @ \union more].covered = r.covered
           /\ [r EXCEPT !.missed = @ \union more].image = r.image
           /\ [r EXCEPT !.missed = @ \union more].missed = r.missed \union more
  BY DEF FamilyTo, NoFamily

\* The families after a prune.
LEMMA PruneIs ==
    ASSUME TInv, NEW w \in Writers, PruneWal(w)
    PROVE  /\ Saved' = Saved /\ DOMAIN families' = Writers
           /\ Prunable(w) \in SUBSET wal /\ wal' = wal \ Prunable(w)
           /\ \A f \in Saved :
                /\ families'[f] \in FamilyTo(Count, logged)
                /\ families'[f].covered = families[f].covered
                /\ families'[f].image = families[f].image
                /\ families'[f].missed =
                     families[f].missed \union (Prunable(w) \ families[f].image)
<1>1. Count \in Nat
  BY FS_CardinalityType DEF TInv, Counted, Count
<1>2. Prunable(w) \in SUBSET wal /\ wal' = wal \ Prunable(w)
  BY DEF PruneWal, Prunable
<1>3. families' = [f \in Writers |->
        IF f \notin Saved THEN NoFamily
        ELSE [families[f] EXCEPT !.missed = @ \union (Prunable(w) \ families[f].image)]]
  BY DEF PruneWal
<1>4. ASSUME NEW f \in Saved
      PROVE  /\ families'[f] \in FamilyTo(Count, logged) /\ families'[f] # NoFamily
             /\ families'[f].covered = families[f].covered
             /\ families'[f].image = families[f].image
             /\ families'[f].missed =
                  families[f].missed \union (Prunable(w) \ families[f].image)
  <2> DEFINE r == families[f]
             more == Prunable(w) \ families[f].image
  <2>1. f \in Writers /\ families'[f] = [r EXCEPT !.missed = @ \union more]
    BY <1>3 DEF Saved
  <2>2. r \in FamilyTo(Count, logged) /\ more \in SUBSET logged
    BY <1>2 DEF TInv
  <2>3. r.image = families[f].image /\ r.covered = families[f].covered
        /\ r.missed = families[f].missed
    OBVIOUS
  <2> HIDE DEF r, more
  <2>4. /\ [r EXCEPT !.missed = @ \union more] \in FamilyTo(Count, logged)
        /\ [r EXCEPT !.missed = @ \union more] # NoFamily
        /\ [r EXCEPT !.missed = @ \union more].covered = r.covered
        /\ [r EXCEPT !.missed = @ \union more].image = r.image
        /\ [r EXCEPT !.missed = @ \union more].missed = r.missed \union more
    BY <1>1, <2>2, MissedMore
  <2> QED  BY <2>1, <2>3, <2>4 DEF more
<1>5. Saved' = Saved
  BY <1>3, <1>4 DEF Saved
<1> QED  BY <1>2, <1>3, <1>4, <1>5

-----------------------------------------------------------------------------
(* Types are kept, whatever the peers do.                                   *)

LEMMA TypeInit == ASSUME Init PROVE TInv
<1> USE DEF Init
<1>1. IsFiniteSet(logged) /\ Count = 0
  BY FS_EmptySet DEF Count
<1>2. NoCover \in VectorTo(0)
  BY DEF NoCover, VectorTo
<1>3. Saved = {}
  BY DEF Saved
<1>4. Counted /\ Ahead
  BY <1>1, SharedAssumption DEF Counted, Ahead, SharedAssumption
<1>5. pending \in [Writers -> [ops : SUBSET logged, coverage : VectorTo(Count)]]
      /\ wal_coverage \in [Writers -> VectorTo(Count)]
  BY <1>1, <1>2 DEF Nothing
<1>6. next_seqno \in [Writers -> 1 .. Count + 1]
  BY <1>1
<1> QED  BY <1>3, <1>4, <1>5, <1>6 DEF TInv

\* The bounds that TypeOK states follow from the count.
LEMMA TypeFromCount == ASSUME TInv PROVE TypeOK
<1>1. VectorTo(Count) \subseteq Vector
  <2>1. Count \in Nat /\ Count <= MaxOps
    BY FS_CardinalityType DEF TInv, Counted, Count
  <2> QED  BY <2>1, SharedAssumption DEF VectorTo, Vector, SharedAssumption
<1>2. \A w \in Writers : pending[w].ops \subseteq logged
                         /\ pending[w].coverage \in VectorTo(Count)
  BY DEF TInv
<1>3. \A f \in Saved : /\ families[f].image \subseteq logged
                       /\ families[f].missed \subseteq logged
                       /\ families[f].covered \in VectorTo(Count)
  BY DEF TInv, FamilyTo
<1> QED  BY <1>1, <1>2, <1>3 DEF TypeOK, TInv

\* What a step that logs nothing has to show.
LEMMA QuietType ==
    ASSUME TInv, UNCHANGED logged, wal' \subseteq logged,
           status' \in [Writers -> {"unborn", "replayed", "up", "dead"}],
           \A w \in Writers : status[w] # "unborn" => status'[w] # "unborn",
           \A o \in logged : o.by \in Live' => o.n < next_seqno'[o.by],
           got' \in [Writers -> SUBSET logged],
           doubled' \in [Writers -> SUBSET logged],
           \A w \in Writers : doubled'[w] \subseteq got'[w],
           seen' \in [Writers -> SUBSET logged],
           wal_coverage' \in [Writers -> VectorTo(Count)],
           next_seqno' \in [Writers -> 1 .. Count + 1],
           pending' \in [Writers -> [ops : SUBSET logged, coverage : VectorTo(Count)]],
           saving' \in [Writers -> {"no", "committed", "wal_pruned"}],
           missed' \in [Writers -> SUBSET logged], UNCHANGED revived,
           \A w \in Writers : status'[w] \in {"unborn", "dead"} =>
              saving'[w] = "no" /\ pending'[w] = Nothing /\ missed'[w] = {},
           DOMAIN families' = Writers,
           \A f \in Saved' : families'[f] \in FamilyTo(Count, logged)
    PROVE  TInv'
<1>1. Count' = Count
  BY DEF Count
<1>2. Counted'
  BY <1>1 DEF TInv, Counted
<1>3. Ahead'
  BY DEF TInv, Ahead, Operation
<1> QED  BY <1>1, <1>2, <1>3 DEF TInv

\* open() types its new process.
LEMMA ReplayType ==
    ASSUME TInv, NEW w \in Writers, Unborn(w), NEW image \in SUBSET logged,
           NEW c \in VectorTo(Count), NEW s \in 0 .. Count,
           NEW lacking \in SUBSET logged, NEW skip \in SUBSET wal,
           Replay(w, image, c, s, lacking, skip),
           UNCHANGED families \/ KeepTwo
    PROVE  TInv'
<1> USE DEF sync, save
<1>1. status[w] = "unborn"
  BY DEF Unborn
<1>2. got' = [got EXCEPT ![w] = image \union (wal \ skip)]
      /\ doubled' = [doubled EXCEPT ![w] = image \intersect (wal \ skip)]
  BY DEF Replay
<1>3. /\ got' \in [Writers -> SUBSET logged]
      /\ doubled' \in [Writers -> SUBSET logged]
      /\ \A v \in Writers : doubled'[v] \subseteq got'[v]
  BY <1>2 DEF TInv
<1>4. status' = [status EXCEPT ![w] = "replayed"]
      /\ missed' = [missed EXCEPT ![w] = lacking]
      /\ UNCHANGED <<seen, pending, saving, saves, wal, logged, revived>>
  BY DEF Replay
<1>5. wal_coverage' \in [Writers -> VectorTo(Count)]
  <2>1. Join(c, wal) \in VectorTo(Count)
    BY JoinIs DEF TInv
  <2> QED  BY <2>1 DEF Replay, TInv
<1>6. next_seqno' \in [Writers -> 1 .. Count + 1]
      /\ \A v \in Writers : v # w => next_seqno'[v] = next_seqno[v]
  <2>1. PICK m \in 0 .. Count : m = Max({s} \union {o.n : o \in wal})
    BY TopIs
  <2>2. next_seqno' = [next_seqno EXCEPT ![w] = m + 1]
    BY <2>1 DEF Replay
  <2>3. Count \in Nat
    BY FS_CardinalityType DEF TInv, Counted, Count
  <2>4. m + 1 \in 1 .. Count + 1
    BY <2>3
  <2> QED  BY <2>2, <2>4 DEF TInv
<1>7. \A o \in logged : o.by \in Live' => o.n < next_seqno'[o.by]
  BY <1>1, <1>4, <1>6 DEF TInv, Ahead, Live, Operation
<1>8. /\ DOMAIN families' = Writers
      /\ \A f \in Saved' : f \in Saved /\ families'[f] = families[f]
  BY KeepTwoIs DEF TInv, Saved
<1>9. \A f \in Saved' : families'[f] \in FamilyTo(Count, logged)
  BY <1>8 DEF TInv
<1>10. /\ status' \in [Writers -> {"unborn", "replayed", "up", "dead"}]
       /\ \A v \in Writers : status'[v] = "unborn" => status[v] = "unborn"
       /\ \A v \in Writers : status'[v] \in {"unborn", "dead"} =>
             status'[v] = status[v] /\ missed'[v] = missed[v]
       /\ missed' \in [Writers -> SUBSET logged]
  BY <1>4 DEF TInv
<1> QED  BY <1>3, <1>4, <1>5, <1>6, <1>7, <1>8, <1>9, <1>10, QuietType DEF TInv

\* A new operation is not in the log yet, and the count grows with it.
LEMMA AppendType ==
    ASSUME TInv, NEW w \in Writers, Append(w)
    PROVE  TInv' /\ Count' = Count + 1 /\ Count \in Nat
<1> USE DEF sync, save
<1> DEFINE o == [by |-> w, n |-> next_seqno[w], t |-> Now + 2]
<1>1. Count \in Nat /\ MaxOps \in Nat /\ Count < MaxOps /\ Now = 2 * Count
  BY FS_CardinalityType, SharedAssumption
  DEF TInv, Counted, Count, Append, SharedAssumption, Now
<1>2. next_seqno[w] \in 1 .. Count + 1
  BY DEF TInv
<1>3. o.by = w /\ o.n = next_seqno[w] /\ o.t = 2 * Count + 2 /\ o \in Operation
  BY <1>1, <1>2 DEF Operation
<1>4. wal' = wal \union Last(w) \union {o} /\ logged' = logged \union {o}
      /\ got' = [got EXCEPT ![w] = @ \union {o}]
      /\ next_seqno' = [next_seqno EXCEPT ![w] = @ + 1]
      /\ revived' = revived \union (Last(w) \ wal)
      /\ UNCHANGED <<status, doubled, wal_coverage, sync, save, families, missed>>
      /\ status[w] = "up"
  BY DEF Append
<1> HIDE DEF o
<1>5. o \notin logged
  BY <1>2, <1>3, <1>4 DEF TInv, Ahead, Live
<1>6. IsFiniteSet(logged') /\ Count' = Count + 1
  BY <1>4, <1>5, FS_AddElement DEF TInv, Counted, Count
<1>7. logged' \subseteq Operation /\ wal' \subseteq logged'
  BY <1>3, <1>4 DEF TInv, Last
<1>8. Counted'
  <2>1. \A p \in logged : p.n \in Nat /\ p.t \in Nat /\ p.n <= Count /\ p.t <= 2 * Count
    BY DEF TInv, Counted, Operation
  <2>2. \A p \in logged' : p.n <= Count + 1 /\ p.t <= 2 * (Count + 1)
    BY <1>1, <1>2, <1>3, <1>4, <2>1
  <2> QED  BY <1>1, <1>6, <2>2 DEF Counted
<1>9. Ahead'
  <2>1. \A v \in Writers : next_seqno[v] \in Nat /\ next_seqno'[v] \in Nat
           /\ next_seqno[v] <= next_seqno'[v]
    BY <1>1, <1>4 DEF TInv
  <2>2. \A p \in logged : p.n \in Nat /\ p.by \in Writers
    BY DEF TInv, Operation
  <2>3. next_seqno'[w] = next_seqno[w] + 1
    BY <1>4 DEF TInv
  <2>4. Live' = Live
    BY <1>4 DEF Live
  <2>5. ASSUME NEW p \in logged' PROVE /\ status'[p.by] # "unborn"
                                       /\ p.by \in Live => p.n < next_seqno'[p.by]
    <3>1. CASE p = o
      BY <1>2, <1>3, <1>4, <2>3, <3>1
    <3>2. CASE p \in logged
      BY <1>4, <2>1, <2>2, <3>2 DEF TInv, Ahead
    <3> QED  BY <1>4, <3>1, <3>2
  <2> QED  BY <2>4, <2>5 DEF Ahead
<1>10. VectorTo(Count) \subseteq VectorTo(Count')
  BY <1>1, <1>6 DEF VectorTo
<1>11. next_seqno' \in [Writers -> 1 .. Count' + 1]
  BY <1>1, <1>4, <1>6 DEF TInv
<1>12. /\ got' \in [Writers -> SUBSET logged']
       /\ doubled' \in [Writers -> SUBSET logged']
       /\ seen' \in [Writers -> SUBSET logged']
       /\ \A v \in Writers : doubled'[v] \subseteq got'[v]
  BY <1>4 DEF TInv
<1>13. pending' \in [Writers -> [ops : SUBSET logged', coverage : VectorTo(Count')]]
       /\ wal_coverage' \in [Writers -> VectorTo(Count')]
  BY <1>4, <1>10 DEF TInv
<1>14. \A f \in Saved' : families'[f] \in FamilyTo(Count', logged')
  <2>1. Saved' = Saved
    BY <1>4 DEF Saved
  <2>2. FamilyTo(Count, logged) \subseteq FamilyTo(Count', logged')
    BY <1>1, <1>4, <1>6, <1>10 DEF FamilyTo
  <2> QED  BY <1>4, <2>1, <2>2 DEF TInv
<1>15. missed' \in [Writers -> SUBSET logged'] /\ revived' \subseteq logged'
  BY <1>4 DEF TInv, Last
<1> QED  BY <1>1, <1>4, <1>6, <1>7, <1>8, <1>9, <1>11, <1>12, <1>13, <1>14, <1>15 DEF TInv

\* What a vector and a family of a running process are.
LEMMA SaveType ==
    ASSUME TInv, NEW w \in Writers, Save(w)
    PROVE  /\ families'[w].seqno \in 0 .. Count
           /\ families'[w].covered \in VectorTo(Count)
           /\ families'[w].image = got[w] /\ families'[w].missed = missed[w]
           /\ families'[w] \in FamilyTo(Count, logged) /\ families'[w] # NoFamily
           /\ \A v \in Writers : v # w =>
                 /\ families'[v] = families[v]
                 /\ families'[w].covered[v] = wal_coverage[w][v]
           /\ families'[w].covered[w] \in {wal_coverage[w][w], next_seqno[w] - 1}
           /\ next_seqno[w] - 1 <= families'[w].covered[w]
           /\ DOMAIN families' = Writers
<1>1. Count \in Nat
  BY FS_CardinalityType DEF TInv, Counted, Count
<1>2. next_seqno[w] - 1 \in 0 .. Count /\ wal_coverage[w] \in VectorTo(Count)
  BY <1>1 DEF TInv
<1>3. wal_coverage[w][w] \in 0 .. Count
  BY <1>2 DEF VectorTo
<1>4. PICK m \in {wal_coverage[w][w], next_seqno[w] - 1} :
         /\ m = Max({wal_coverage[w][w], next_seqno[w] - 1})
         /\ next_seqno[w] - 1 <= m
  <2>1. wal_coverage[w][w] \in Nat /\ next_seqno[w] - 1 \in Nat
    BY <1>1, <1>2, <1>3
  <2> QED  BY <2>1, MaxTwo
<1> DEFINE new == [seqno |-> next_seqno[w] - 1,
                   covered |-> [wal_coverage[w] EXCEPT ![w] = m],
                   image |-> got[w], missed |-> missed[w],
                   segments |-> {o \in wal : Sealed(o, w)}]
<1>5. families' = [families EXCEPT ![w] = new]
  BY <1>4 DEF Save
<1>6. families'[w] = new
  BY <1>5 DEF TInv
<1>7. new.seqno = next_seqno[w] - 1 /\ new.image = got[w] /\ new # NoFamily
      /\ new.covered = [wal_coverage[w] EXCEPT ![w] = m] /\ new.missed = missed[w]
  BY DEF NoFamily
<1>8. new.covered \in VectorTo(Count) => new \in FamilyTo(Count, logged)
  <2>1. {o \in wal : Sealed(o, w)} \subseteq logged /\ got[w] \subseteq logged
        /\ missed[w] \subseteq logged
    BY DEF TInv
  <2> QED  BY <1>2, <2>1 DEF FamilyTo
<1> HIDE DEF new
<1>9. new.covered \in VectorTo(Count) /\ new.covered[w] = m
      /\ \A v \in Writers : v # w => new.covered[v] = wal_coverage[w][v]
  BY <1>2, <1>3, <1>4, <1>7 DEF VectorTo
<1> QED  BY <1>2, <1>4, <1>5, <1>6, <1>7, <1>8, <1>9 DEF TInv

LEMMA TypeStep == ASSUME TInv, [Next]_vars PROVE TInv'
<1> USE DEF memory, sync, save, disk, past
<1>1. Count \in Nat /\ NoCover \in VectorTo(Count)
  <2>1. Count \in Nat
    BY FS_CardinalityType DEF TInv, Counted, Count
  <2> QED  BY <2>1 DEF NoCover, VectorTo
<1>2. CASE UNCHANGED vars
  <2>1. Live' = Live /\ Saved' = Saved
    BY <1>2 DEF vars, Live, Saved
  <2> QED  BY <1>2, <2>1, QuietType DEF vars, TInv, Ahead
<1>3. ASSUME NEW w \in Writers, Step(w) PROVE TInv'
  <2>1. CASE OpenFresh(w)
    BY <1>1, <2>1, ReplayType DEF OpenFresh
  <2>2. CASE OpenFamily(w)
    <3>1. PICK f \in Chosen :
            Replay(w, families[f].image, families[f].covered, families[f].seqno,
                   families[f].missed, {o \in wal : Covered(o, families[f])})
      BY <2>2 DEF OpenFamily
    <3>2. families[f].image \in SUBSET logged /\ families[f].seqno \in 0 .. Count
          /\ families[f].covered \in VectorTo(Count)
          /\ families[f].missed \in SUBSET logged
      BY <3>1 DEF TInv, Chosen, FamilyTo
    <3>3. {o \in wal : Covered(o, families[f])} \in SUBSET wal
      OBVIOUS
    <3> QED  BY <2>2, <3>1, <3>2, <3>3, ReplayType DEF OpenFamily
  <2>3. CASE Append(w)
    BY <2>3, AppendType
  <2>4. ASSUME UNCHANGED <<wal, logged, families>>, UNCHANGED <<got, doubled, next_seqno>>,
               UNCHANGED wal_coverage, UNCHANGED status
        PROVE  /\ Live' = Live
               /\ \A o \in logged : o.by \in Live' => o.n < next_seqno'[o.by]
               /\ \A f \in Saved' : families'[f] \in FamilyTo(Count, logged)
    BY <2>4 DEF TInv, Ahead, Live, Saved
  <2>5. CASE SeedOffsets(w)
    <3>1. /\ status[w] = "replayed" /\ status' = [status EXCEPT ![w] = "up"]
          /\ seen' = [seen EXCEPT ![w] = wal]
          /\ missed' = [missed EXCEPT ![w] = @ \union (wal \ got[w])]
          /\ UNCHANGED <<memory, pending, save, disk, logged, revived>>
      BY <2>5 DEF SeedOffsets
    <3>2. Live' = Live /\ Saved' = Saved
      BY <3>1 DEF Live, Saved, TInv
    <3>3. /\ seen' \in [Writers -> SUBSET logged]
          /\ status' \in [Writers -> {"unborn", "replayed", "up", "dead"}]
          /\ missed' \in [Writers -> SUBSET logged]
          /\ \A v \in Writers : status'[v] \in {"unborn", "dead"} =>
                status[v] \in {"unborn", "dead"} /\ missed'[v] = missed[v]
          /\ \A v \in Writers : status'[v] = "unborn" => status[v] = "unborn"
      BY <3>1 DEF TInv
    <3> QED  BY <3>1, <3>2, <3>3, QuietType DEF TInv, Ahead
  <2>6. CASE Collect(w)
    <3>1. /\ status[w] = "up" /\ seen' = [seen EXCEPT ![w] = @ \union Unread(w)]
          /\ pending' = [pending EXCEPT ![w] =
               [ops |-> @.ops \union Unread(w),
                coverage |-> Join(@.coverage, Unread(w))]]
          /\ UNCHANGED <<status, memory, save, disk, past>>
      BY <2>6 DEF Collect
    <3>2. Unread(w) \in SUBSET logged
      BY DEF Unread, TInv
    <3>3. pending[w].coverage \in VectorTo(Count) /\ pending[w].ops \subseteq logged
      BY DEF TInv
    <3>4. Join(pending[w].coverage, Unread(w)) \in VectorTo(Count)
      BY <3>2, <3>3, JoinIs
    <3>5. pending' \in [Writers -> [ops : SUBSET logged, coverage : VectorTo(Count)]]
          /\ seen' \in [Writers -> SUBSET logged]
      BY <3>1, <3>2, <3>3, <3>4 DEF TInv
    <3>6. \A v \in Writers : status'[v] \in {"unborn", "dead"} =>
              saving'[v] = "no" /\ pending'[v] = Nothing /\ missed'[v] = {}
      BY <3>1 DEF TInv
    <3> QED  BY <2>4, <3>1, <3>5, <3>6, QuietType DEF TInv
  <2>7. CASE CollectFails(w)
    <3>1. PICK read \in SUBSET Unread(w) :
             /\ seen' = [seen EXCEPT ![w] = @ \union read]
             /\ missed' = [missed EXCEPT ![w] = @ \union read]
      BY <2>7 DEF CollectFails
    <3>2. status[w] = "up"
          /\ UNCHANGED <<status, memory, pending, save, disk, logged, revived>>
      BY <2>7 DEF CollectFails
    <3>3. seen' \in [Writers -> SUBSET logged] /\ missed' \in [Writers -> SUBSET logged]
          /\ \A v \in Writers : v # w => missed'[v] = missed[v]
      BY <3>1 DEF Unread, TInv
    <3> QED  BY <2>4, <3>2, <3>3, QuietType DEF TInv
  <2>8. CASE ApplyForeign(w)
    <3>1. /\ status[w] = "up"
          /\ doubled' = [doubled EXCEPT ![w] =
                           @ \union (got[w] \intersect pending[w].ops)]
          /\ got' = [got EXCEPT ![w] = @ \union pending[w].ops]
          /\ wal_coverage' = [wal_coverage EXCEPT ![w] =
               [v \in Writers |-> Max({@[v], pending[w].coverage[v]})]]
          /\ pending' = [pending EXCEPT ![w] = Nothing]
          /\ UNCHANGED <<status, next_seqno, mtime, seen, save, disk, past>>
      BY <2>8 DEF ApplyForeign
    <3>2. pending[w].coverage \in VectorTo(Count) /\ pending[w].ops \subseteq logged
          /\ wal_coverage[w] \in VectorTo(Count)
      BY DEF TInv
    <3>3. [v \in Writers |-> Max({wal_coverage[w][v], pending[w].coverage[v]})]
            \in VectorTo(Count)
      BY <1>1, <3>2, MergeIs
    <3>4. wal_coverage' \in [Writers -> VectorTo(Count)]
      BY <3>1, <3>3 DEF TInv
    <3>5. /\ got' \in [Writers -> SUBSET logged]
          /\ doubled' \in [Writers -> SUBSET logged]
          /\ \A v \in Writers : doubled'[v] \subseteq got'[v]
      BY <3>1, <3>2 DEF TInv
    <3>6. pending' \in [Writers -> [ops : SUBSET logged, coverage : VectorTo(Count)]]
          /\ \A v \in Writers : status'[v] \in {"unborn", "dead"} =>
                saving'[v] = "no" /\ pending'[v] = Nothing /\ missed'[v] = {}
      BY <1>1, <3>1 DEF TInv, Nothing
    <3>7. Live' = Live /\ Saved' = Saved
      BY <3>1 DEF Live, Saved
    <3> QED  BY <3>1, <3>4, <3>5, <3>6, <3>7, QuietType DEF TInv, Ahead
  <2>9. CASE Save(w)
    <3>1. /\ status[w] = "up" /\ saving' = [saving EXCEPT ![w] = "committed"]
          /\ UNCHANGED <<status, memory, sync, wal, past>>
      BY <2>9 DEF Save
    <3>2. Live' = Live
      BY <3>1 DEF Live
    <3>3. \A f \in Saved' : families'[f] \in FamilyTo(Count, logged)
      BY <2>9, SaveType DEF Saved, TInv
    <3>4. saving' \in [Writers -> {"no", "committed", "wal_pruned"}]
          /\ \A v \in Writers : status'[v] \in {"unborn", "dead"} =>
                saving'[v] = "no" /\ pending'[v] = Nothing /\ missed'[v] = {}
      BY <3>1 DEF TInv
    <3>5. DOMAIN families' = Writers
      BY <2>9, SaveType
    <3> QED  BY <3>1, <3>2, <3>3, <3>4, <3>5, QuietType DEF TInv, Ahead
  <2>10. CASE PruneWal(w)
    <3>1. /\ status[w] = "up" /\ saving' = [saving EXCEPT ![w] = "wal_pruned"]
          /\ missed' = [v \in Writers |->
               missed[v] \union (IF v \in Live THEN Prunable(w) \ got[v] ELSE {})]
          /\ UNCHANGED <<status, memory, sync, logged, revived>>
      BY <2>10 DEF PruneWal
    <3>2. Live' = Live
      BY <3>1 DEF Live
    <3>3. /\ Saved' = Saved /\ DOMAIN families' = Writers /\ wal' \subseteq logged
          /\ Prunable(w) \subseteq logged
          /\ \A f \in Saved : families'[f] \in FamilyTo(Count, logged)
      BY <2>10, PruneIs DEF TInv
    <3>4. saving' \in [Writers -> {"no", "committed", "wal_pruned"}]
          /\ \A v \in Writers : v # w => saving'[v] = saving[v]
      BY <3>1 DEF TInv
    <3>5. missed' \in [Writers -> SUBSET logged]
          /\ \A v \in Writers : status[v] \in {"unborn", "dead"} => missed'[v] = missed[v]
      BY <3>1, <3>3 DEF TInv, Live
    <3> QED  BY <3>1, <3>2, <3>3, <3>4, <3>5, QuietType DEF TInv, Ahead
  <2>11. CASE SaveFails(w) \/ PruneFamilies(w)
    <3>1. /\ status[w] = "up" /\ saving' = [saving EXCEPT ![w] = "no"]
          /\ UNCHANGED <<status, memory, sync, wal, past>>
          /\ UNCHANGED families \/ KeepTwo
      BY <2>11 DEF SaveFails, PruneFamilies
    <3>2. Live' = Live
      BY <3>1 DEF Live
    <3>3. /\ DOMAIN families' = Writers
          /\ \A f \in Saved' : f \in Saved /\ families'[f] = families[f]
      BY <3>1, KeepTwoIs DEF TInv, Saved
    <3>4. \A f \in Saved' : families'[f] \in FamilyTo(Count, logged)
      BY <3>3 DEF TInv
    <3>5. saving' \in [Writers -> {"no", "committed", "wal_pruned"}]
          /\ \A v \in Writers : status'[v] \in {"unborn", "dead"} =>
                saving'[v] = "no" /\ pending'[v] = Nothing /\ missed'[v] = {}
      BY <3>1 DEF TInv
    <3> QED  BY <3>1, <3>2, <3>3, <3>4, <3>5, QuietType DEF TInv, Ahead
  <2>12. CASE Kill(w)
    <3>1. /\ status' = [status EXCEPT ![w] = "dead"]
          /\ saving' = [saving EXCEPT ![w] = "no"]
          /\ got' = [got EXCEPT ![w] = {}] /\ doubled' = [doubled EXCEPT ![w] = {}]
          /\ wal_coverage' = [wal_coverage EXCEPT ![w] = NoCover]
          /\ seen' = [seen EXCEPT ![w] = {}]
          /\ pending' = [pending EXCEPT ![w] = Nothing]
          /\ next_seqno' = [next_seqno EXCEPT ![w] = 1]
          /\ missed' = [missed EXCEPT ![w] = {}]
          /\ UNCHANGED <<disk, logged, revived>>
      BY <2>12 DEF Kill
    <3>2. Saved' = Saved /\ \A v \in Writers : v \in Live' => v \in Live /\ v # w
      BY <3>1 DEF Saved, Live, TInv
    <3>3. /\ got' \in [Writers -> SUBSET logged]
          /\ doubled' \in [Writers -> SUBSET logged]
          /\ seen' \in [Writers -> SUBSET logged]
          /\ missed' \in [Writers -> SUBSET logged]
          /\ \A v \in Writers : doubled'[v] \subseteq got'[v]
      BY <3>1 DEF TInv
    <3>4. /\ wal_coverage' \in [Writers -> VectorTo(Count)]
          /\ next_seqno' \in [Writers -> 1 .. Count + 1]
      BY <1>1, <3>1 DEF TInv
    <3>5. pending' \in [Writers -> [ops : SUBSET logged, coverage : VectorTo(Count)]]
          /\ saving' \in [Writers -> {"no", "committed", "wal_pruned"}]
      BY <1>1, <3>1 DEF TInv, Nothing
    <3>6. status' \in [Writers -> {"unborn", "replayed", "up", "dead"}]
          /\ \A v \in Writers : status'[v] \in {"unborn", "dead"} =>
                saving'[v] = "no" /\ pending'[v] = Nothing /\ missed'[v] = {}
      BY <3>1 DEF TInv
    <3>7. \A o \in logged : o.by \in Live' => o.n < next_seqno'[o.by]
      BY <3>1, <3>2 DEF TInv, Ahead, Operation
    <3>8. \A v \in Writers : status'[v] = "unborn" => status[v] = "unborn"
      BY <3>1 DEF TInv
    <3> QED  BY <3>1, <3>2, <3>3, <3>4, <3>5, <3>6, <3>7, <3>8, QuietType DEF TInv
  <2> QED  BY <1>3, <2>1, <2>2, <2>3, <2>5, <2>6, <2>7, <2>8, <2>9, <2>10, <2>11, <2>12
           DEF Step
<1> QED  BY <1>2, <1>3 DEF Next

\* Processes, their offsets, their vectors and the families stay typed, and no
\* seqno exceeds the number of operations: for every bound, whatever peers log
\* during an open(), whichever collect fails and whatever is deleted.
THEOREM Typed == Spec => []TypeOK
<1>1. Init => TInv
  BY TypeInit
<1>2. TInv /\ [Next]_vars => TInv'
  BY TypeStep
<1>3. TInv => TypeOK
  BY TypeFromCount
<1> QED  BY <1>1, <1>2, <1>3, PTL DEF Spec
-----------------------------------------------------------------------------
(* Vectors that claim nothing which is still to be logged                   *)

LEMMA OpFacts ==
    ASSUME TInv
    PROVE  /\ \A o \in logged : o.by \in Writers /\ o.n \in Nat \ {0}
           /\ \A w \in Writers : next_seqno[w] \in Nat \ {0}
           /\ Count \in Nat
<1>1. Count \in Nat
  BY FS_CardinalityType DEF TInv, Counted, Count
<1>2. \A o \in logged : o.by \in Writers /\ o.n \in Nat \ {0}
  BY SharedAssumption DEF TInv, Operation, SharedAssumption
<1>3. \A w \in Writers : next_seqno[w] \in Nat \ {0}
  BY <1>1 DEF TInv
<1> QED  BY <1>1, <1>2, <1>3

LEMMA NothingClaimed == ASSUME TInv PROVE Claimed(NoCover) = {}
  BY OpFacts DEF Claimed, NoCover

LEMMA JoinBehind ==
    ASSUME TInv, NEW c \in VectorTo(Count), Behind(c), NEW ops \in SUBSET logged
    PROVE  Behind(Join(c, ops))
<1> SUFFICES ASSUME NEW v \in Writers
             PROVE  /\ status[v] = "unborn" => Join(c, ops)[v] = 0
                    /\ v \in Live => Join(c, ops)[v] < next_seqno[v]
  BY DEF Behind
<1>1. \/ Join(c, ops)[v] = c[v]
      \/ \E o \in ops : o.by = v /\ o.n = Join(c, ops)[v]
  BY JoinIs
<1> QED  BY <1>1 DEF Behind, TInv, Ahead

LEMMA JoinClaims ==
    ASSUME TInv, NEW c \in VectorTo(Count), NEW ops \in SUBSET logged
    PROVE  Claimed(c) \union ops \subseteq Claimed(Join(c, ops))
<1>1. \A v \in Writers : c[v] <= Join(c, ops)[v]
  BY JoinIs
<1>2. \A o \in ops : o.n <= Join(c, ops)[o.by]
  BY JoinIs
<1>3. \A v \in Writers : c[v] \in Nat /\ Join(c, ops)[v] \in Nat
  BY JoinIs, OpFacts DEF VectorTo
<1> QED  BY <1>1, <1>2, <1>3, OpFacts DEF Claimed

\* The part of the invariant that a step leaves alone when it only deletes
\* families.
LEMMA FamiliesGo ==
    ASSUME PInv, TInv',
           UNCHANGED <<status, next_seqno, logged, wal, got, doubled, missed,
                       revived, wal_coverage, seen, pending>>,
           \A f \in Saved' : f \in Saved /\ families'[f] = families[f],
           Saved # {} => Saved' # {}
    PROVE  PInv'
<1> USE DEF PInv
<1>1. Live' = Live /\ \A c : Behind(c)' <=> Behind(c)
  BY DEF Live, Behind
<1>2. \A c : Claimed(c)' = Claimed(c)
  BY DEF Claimed
<1>3. \A w \in Writers : Own(w)' = Own(w) /\ Unread(w)' = Unread(w)
  BY DEF Own, Unread
<1>4. VectorsBehind'
  BY <1>1 DEF VectorsBehind
<1>5. FamiliesHonest'
  BY <1>2 DEF FamiliesHonest
<1>6. MemoryHonest'
  BY <1>1, <1>2, <1>3 DEF MemoryHonest, Live
<1>7. ReplayedIdle' /\ AppliedOnce'
  BY DEF ReplayedIdle, AppliedOnce
<1>8. Placed' /\ PlacedOnce'
  BY <1>2, <1>3 DEF Placed, PlacedOnce
<1>9. DeletedNoted'
  BY <1>1 DEF DeletedNoted
<1> QED  BY <1>4, <1>5, <1>6, <1>7, <1>8, <1>9

-----------------------------------------------------------------------------
(* open(): the new process has or has missed all that its vector claims,    *)
(* and has applied each operation once.                                     *)

LEMMA OpenKeeps ==
    ASSUME PInv, TInv', NEW w \in Writers, Unborn(w),
           NEW image \in SUBSET logged, NEW c \in VectorTo(Count), NEW s,
           NEW lacking \in SUBSET logged, NEW skip \in SUBSET wal,
           Replay(w, image, c, s, lacking, skip), Behind(c),
           image \subseteq Claimed(c), skip = wal \intersect Claimed(c),
           skip \union (logged \ wal) \subseteq image \union lacking,
           Claimed(c) \subseteq image \union lacking,
           \A f \in Saved' : f \in Saved /\ families'[f] = families[f],
           Saved # {} => Saved' # {}
    PROVE  PInv'
<1> USE DEF PInv, sync, save
<1>1. status[w] = "unborn" /\ wal \in SUBSET logged
  BY DEF Unborn, TInv
<1>2. /\ got'[w] = image \union (wal \ skip) /\ status'[w] = "replayed"
      /\ doubled'[w] = image \intersect (wal \ skip)
      /\ wal_coverage'[w] = Join(c, wal) /\ missed'[w] = lacking
      /\ \A v \in Writers : v # w =>
           /\ got'[v] = got[v] /\ doubled'[v] = doubled[v] /\ status'[v] = status[v]
           /\ wal_coverage'[v] = wal_coverage[v] /\ next_seqno'[v] = next_seqno[v]
           /\ missed'[v] = missed[v]
      /\ UNCHANGED <<seen, pending, wal, logged, revived>>
  BY DEF Replay, TInv
<1>3. Live' = Live \union {w} /\ w \notin Live
  BY <1>1, <1>2 DEF Live
<1>4. Own(w) = {}
  BY <1>1 DEF TInv, Ahead, Own
<1>5. next_seqno'[w] \in Nat /\ next_seqno'[w] > 0
  <2>1. (TInv => \A v \in Writers : next_seqno[v] \in 1 .. Count + 1)'
    BY DEF TInv
  <2>2. Count' \in Nat
    BY <1>2, OpFacts DEF Count
  <2> QED  BY <2>1, <2>2
<1>6. \A d : Behind(d) => Behind(d)'
  BY <1>1, <1>2, <1>3, <1>5 DEF Behind
<1>7. \A d : Claimed(d)' = Claimed(d)
  BY <1>2 DEF Claimed
<1>8. \A v \in Writers : Own(v)' = Own(v) /\ Unread(v)' = Unread(v)
  BY <1>2 DEF Own, Unread
<1>9. got'[w] \union missed'[w] = logged
  BY <1>1, <1>2
<1>10. VectorsBehind'
  <2>1. Behind(Join(c, wal))
    BY <1>1, JoinBehind
  <2> QED  BY <1>2, <1>3, <1>6, <2>1 DEF VectorsBehind
<1>11. FamiliesHonest'
  BY <1>7 DEF FamiliesHonest
<1>12. MemoryHonest'
  <2> SUFFICES ASSUME NEW v \in Live'
               PROVE  /\ Claimed(wal_coverage'[v]) \subseteq got'[v] \union missed'[v]
                      /\ got'[v] \subseteq Claimed(wal_coverage'[v]) \union Own(v)
                      /\ Own(v) \subseteq got'[v]
    BY <1>2, <1>7, <1>8 DEF MemoryHonest, Live, Claimed
  <2>1. CASE v = w
    <3>1. Claimed(c) \union wal \subseteq Claimed(Join(c, wal))
      BY <1>1, JoinClaims
    <3>2. Claimed(Join(c, wal)) \subseteq logged
      BY DEF Claimed
    <3> QED  BY <1>2, <1>4, <1>9, <2>1, <3>1, <3>2
  <2>2. CASE v # w
    BY <1>2, <1>3, <2>2 DEF MemoryHonest, Live
  <2> QED  BY <2>1, <2>2
<1>13. ReplayedIdle'
  BY <1>1, <1>2 DEF ReplayedIdle, TInv
<1>14. AppliedOnce'
  <2>1. doubled'[w] = {}
    BY <1>2
  <2> QED  BY <1>2, <2>1 DEF AppliedOnce
<1>15. Placed' /\ PlacedOnce'
  BY <1>2, <1>7, <1>8 DEF Placed, PlacedOnce
<1>16. DeletedNoted'
  BY <1>2, <1>3, <1>9 DEF DeletedNoted, Live
<1> QED  BY <1>10, <1>11, <1>12, <1>13, <1>14, <1>15, <1>16

LEMMA OpenStep ==
    ASSUME PInv, TInv', NEW w \in Writers, OpenFresh(w) \/ OpenFamily(w)
    PROVE  PInv'
<1> USE DEF PInv
<1>1. wal \in SUBSET logged /\ Count \in Nat
  BY OpFacts DEF TInv
<1>2. CASE OpenFresh(w)
  <2> DEFINE none == {}
             c == NoCover
  <2>1. wal = logged
    BY <1>1, <1>2 DEF OpenFresh, DeletedNoted
  <2>2. c \in VectorTo(Count) /\ Behind(c)
    BY <1>1, OpFacts DEF NoCover, VectorTo, Behind
  <2>3. Claimed(c) = none
    BY NothingClaimed
  <2>4. /\ none \in SUBSET logged /\ none \in SUBSET wal
        /\ none \subseteq Claimed(c) /\ none = wal \intersect Claimed(c)
        /\ none \union (logged \ wal) \subseteq none \union none
        /\ Claimed(c) \subseteq none \union none
    BY <2>1, <2>3
  <2>5. Saved' = Saved /\ UNCHANGED families
    BY <1>2 DEF OpenFresh, Saved
  <2>6. Unborn(w) /\ Replay(w, none, c, 0, none, none)
    BY <1>2 DEF OpenFresh
  <2> HIDE DEF none, c
  <2> QED  BY <2>2, <2>4, <2>5, <2>6, OpenKeeps
<1>3. CASE OpenFamily(w)
  <2>1. PICK f \in Chosen :
          Replay(w, families[f].image, families[f].covered, families[f].seqno,
                 families[f].missed, {o \in wal : Covered(o, families[f])})
    BY <1>3 DEF OpenFamily
  <2> DEFINE c == families[f].covered
             image == families[f].image
             lacking == families[f].missed
             skip == {o \in wal : Covered(o, families[f])}
  <2>2. f \in Saved /\ f \in Writers
    BY <2>1 DEF Chosen, Saved
  <2>3. c \in VectorTo(Count) /\ image \in SUBSET logged /\ lacking \in SUBSET logged
    BY <2>2 DEF TInv, FamilyTo
  <2>4. Behind(c) /\ image \subseteq Claimed(c) /\ Claimed(c) \subseteq image \union lacking
    BY <2>2 DEF VectorsBehind, FamiliesHonest
  <2>5. skip \in SUBSET wal /\ skip = wal \intersect Claimed(c)
    BY <1>1 DEF Covered, Claimed
  <2>6. logged \ wal \subseteq image \union lacking
    BY <2>2 DEF DeletedNoted
  <2>7. (\A g \in Saved' : g \in Saved /\ families'[g] = families[g])
        /\ (Saved # {} => Saved' # {})
    BY <1>3, KeepTwoIs DEF OpenFamily
  <2>8. Unborn(w) /\ Replay(w, image, c, families[f].seqno, lacking, skip)
    BY <1>3, <2>1 DEF OpenFamily
  <2> HIDE DEF c, image, lacking, skip
  <2>9. skip \union (logged \ wal) \subseteq image \union lacking
    BY <2>4, <2>5, <2>6
  <2> QED  BY <2>3, <2>4, <2>5, <2>7, <2>8, <2>9, OpenKeeps
<1> QED  BY <1>2, <1>3

\* Seeding counts as read what was appended since the replay: that is missed.
LEMMA SeedStep ==
    ASSUME PInv, TInv', NEW w \in Writers, SeedOffsets(w)
    PROVE  PInv'
<1> USE DEF PInv, memory, save, disk
<1>1. /\ status[w] = "replayed" /\ status'[w] = "up" /\ seen'[w] = wal
      /\ missed'[w] = missed[w] \union (wal \ got[w])
      /\ \A v \in Writers : v # w => /\ status'[v] = status[v] /\ seen'[v] = seen[v]
                                     /\ missed'[v] = missed[v]
      /\ UNCHANGED <<next_seqno, logged, wal, got, doubled, wal_coverage, pending,
                     families, revived>>
  BY DEF SeedOffsets, TInv
<1>2. Live' = Live /\ Saved' = Saved /\ w \in Live
  BY <1>1 DEF Live, Saved
<1>3. \A d : Behind(d) => Behind(d)'
  BY <1>1, <1>2 DEF Behind
<1>4. \A d : Claimed(d)' = Claimed(d)
  BY <1>1 DEF Claimed
<1>5. \A v \in Writers : /\ Own(v)' = Own(v) /\ missed[v] \subseteq missed'[v]
                         /\ v # w => Unread(v)' = Unread(v)
  BY <1>1 DEF Own, Unread
<1>6. VectorsBehind' /\ FamiliesHonest'
  BY <1>1, <1>2, <1>3, <1>4 DEF VectorsBehind, FamiliesHonest
<1>7. MemoryHonest'
  BY <1>1, <1>2, <1>4, <1>5 DEF MemoryHonest, Live
<1>8. ReplayedIdle' /\ AppliedOnce'
  BY <1>1 DEF ReplayedIdle, AppliedOnce
<1>9. /\ Unread(w)' = {} /\ pending[w].ops = {}
      /\ pending[w].coverage = NoCover /\ Claimed(NoCover) = {}
  BY <1>1, NothingClaimed DEF Unread, ReplayedIdle, Nothing
<1>10. Placed'
  <2> SUFFICES ASSUME NEW v \in Writers, status'[v] = "up"
      PROVE  (/\ logged \subseteq got[v] \union missed[v] \union pending[v].ops
                                  \union Unread(v)
              /\ pending[v].ops \subseteq Claimed(pending[v].coverage)
              /\ Claimed(pending[v].coverage)
                   \subseteq got[v] \union missed[v] \union pending[v].ops)'
    BY DEF Placed
  <2>1. CASE v # w
    BY <1>1, <1>4, <1>5, <2>1 DEF Placed
  <2>2. CASE v = w
    <3>1. logged \ wal \subseteq got[w] \union missed[w]
      BY <1>2 DEF DeletedNoted
    <3> QED  BY <1>1, <1>4, <1>9, <2>2, <3>1
  <2> QED  BY <2>1, <2>2
<1>11. PlacedOnce'
  BY <1>1, <1>5, <1>9 DEF PlacedOnce
<1>12. DeletedNoted'
  BY <1>1, <1>2, <1>5 DEF DeletedNoted, Live
<1> QED  BY <1>6, <1>7, <1>8, <1>10, <1>11, <1>12

-----------------------------------------------------------------------------
(* Running processes                                                        *)

\* A new operation is unread for every peer, and no vector claims it; a
\* segment that is written back holds an operation of revived.
LEMMA AppendStep ==
    ASSUME PInv, TInv', NEW w \in Writers, Append(w)
    PROVE  PInv'
<1> USE DEF PInv, sync, save
<1> DEFINE o == [by |-> w, n |-> next_seqno[w], t |-> Now + 2]
<1>1. o.by = w /\ o.n = next_seqno[w]
  OBVIOUS
<1>2. /\ status[w] = "up"
      /\ wal' = wal \union Last(w) \union {o} /\ logged' = logged \union {o}
      /\ got'[w] = got[w] \union {o} /\ next_seqno'[w] = next_seqno[w] + 1
      /\ revived' = revived \union (Last(w) \ wal)
      /\ \A v \in Writers : v # w =>
            got'[v] = got[v] /\ next_seqno'[v] = next_seqno[v]
      /\ UNCHANGED <<status, doubled, wal_coverage, seen, pending, families, missed>>
  BY DEF Append, TInv
<1> HIDE DEF o
<1>3. w \in Live /\ Live' = Live /\ Saved' = Saved
  BY <1>2 DEF Live, Saved
<1>4. o \notin logged /\ \A p \in Last(w) : p \in logged /\ p.by = w
  BY <1>1, <1>3, OpFacts DEF TInv, Ahead, Last
<1>5. \A d \in VectorTo(Count) : Behind(d) => Behind(d)' /\ Claimed(d)' = Claimed(d)
  <2> SUFFICES ASSUME NEW d \in VectorTo(Count), Behind(d)
               PROVE  Behind(d)' /\ Claimed(d)' = Claimed(d)
    OBVIOUS
  <2>1. \A v \in Writers : d[v] \in Nat /\ next_seqno[v] \in Nat
    BY OpFacts DEF VectorTo
  <2>2. d[w] < next_seqno[w]
    BY <1>3 DEF Behind
  <2>3. Behind(d)'
    BY <1>2, <1>3, <2>1 DEF Behind
  <2>4. Claimed(d)' = Claimed(d)
    BY <1>1, <1>2, <2>1, <2>2 DEF Claimed
  <2> QED  BY <2>3, <2>4
<1>6. \A v \in Writers : /\ wal_coverage[v] \in VectorTo(Count)
                         /\ pending[v].coverage \in VectorTo(Count)
                         /\ v \in Saved => families[v].covered \in VectorTo(Count)
  BY DEF TInv, FamilyTo
<1>7. \A v \in Writers : /\ got[v] \subseteq logged /\ seen[v] \subseteq logged
                         /\ pending[v].ops \subseteq logged /\ got[v] \subseteq got'[v]
  BY <1>2 DEF TInv
<1>8. VectorsBehind'
  BY <1>2, <1>3, <1>5, <1>6 DEF VectorsBehind
<1>9. FamiliesHonest'
  BY <1>2, <1>3, <1>5, <1>6 DEF FamiliesHonest, VectorsBehind, Saved
<1>10. MemoryHonest'
  <2> SUFFICES ASSUME NEW v \in Live
               PROVE  /\ Claimed(wal_coverage[v]) \subseteq got'[v] \union missed[v]
                      /\ got'[v] \subseteq Claimed(wal_coverage[v]) \union Own(v)'
                      /\ Own(v)' \subseteq got'[v]
    <3>1. \A v \in Live : Claimed(wal_coverage[v])' = Claimed(wal_coverage[v])
      BY <1>2, <1>5, <1>6 DEF VectorsBehind, Live
    <3> QED  BY <1>2, <1>3, <3>1 DEF MemoryHonest
  <2>1. v \in Writers /\ Own(v)' = IF v = w THEN Own(v) \union {o} ELSE Own(v)
    BY <1>1, <1>2 DEF Own, Live
  <2> QED  BY <1>2, <2>1 DEF MemoryHonest
<1>11. ReplayedIdle' /\ AppliedOnce'
  BY <1>2 DEF ReplayedIdle, AppliedOnce
<1>12. \A v \in Writers : /\ Unread(v) \subseteq Unread(v)'
                          /\ Unread(v)' \subseteq Unread(v) \union {o} \union (Last(w) \ wal)
                          /\ v # w => o \in Unread(v)'
                          /\ v = w => Unread(v)' = Unread(v)
  BY <1>1, <1>2, <1>4, <1>7 DEF Unread
<1>13. Placed'
  <2> SUFFICES ASSUME NEW v \in Writers, status[v] = "up"
      PROVE  /\ logged' \subseteq got'[v] \union missed[v] \union pending[v].ops
                                  \union Unread(v)'
             /\ pending[v].ops \subseteq Claimed(pending[v].coverage)'
             /\ Claimed(pending[v].coverage)'
                  \subseteq got'[v] \union missed[v] \union pending[v].ops
    BY <1>2 DEF Placed
  <2>1. Claimed(pending[v].coverage)' = Claimed(pending[v].coverage)
    BY <1>2, <1>5, <1>6 DEF VectorsBehind
  <2>2. o \in got'[v] \union Unread(v)'
    BY <1>2, <1>12
  <2> QED  BY <1>2, <1>7, <1>12, <2>1, <2>2 DEF Placed
<1>14. PlacedOnce'
  <2> SUFFICES ASSUME NEW v \in Writers, status[v] = "up"
      PROVE  /\ got'[v] \intersect pending[v].ops \subseteq revived'
             /\ (got'[v] \union pending[v].ops) \intersect Unread(v)' \subseteq revived'
    BY <1>2 DEF PlacedOnce
  <2>1. /\ got[v] \intersect pending[v].ops \subseteq revived
        /\ (got[v] \union pending[v].ops) \intersect Unread(v) \subseteq revived
    BY DEF PlacedOnce
  <2>2. o \notin pending[v].ops /\ (v # w => o \notin got[v] /\ got'[v] = got[v])
    BY <1>2, <1>4, <1>7
  <2>3. v = w => o \notin Unread(v)' /\ Unread(v)' = Unread(v)
    BY <1>1, <1>12 DEF Unread
  <2> QED  BY <1>2, <1>12, <2>1, <2>2, <2>3
<1>15. DeletedNoted'
  <2>1. logged' \ wal' \subseteq logged \ wal
    BY <1>2
  <2>2. logged \subseteq wal => logged' \subseteq wal'
    BY <1>2
  <2> QED  BY <1>2, <1>3, <1>7, <2>1, <2>2 DEF DeletedNoted, Live, Saved
<1> QED  BY <1>8, <1>9, <1>10, <1>11, <1>13, <1>14, <1>15

\* A collect moves all that is unread to what is pending.
LEMMA CollectStep ==
    ASSUME PInv, TInv', NEW w \in Writers, Collect(w)
    PROVE  PInv'
<1> USE DEF PInv, memory, save, disk, past
<1> DEFINE c == pending[w].coverage
<1>1. /\ status[w] = "up" /\ seen'[w] = seen[w] \union Unread(w)
      /\ pending'[w] = [ops |-> pending[w].ops \union Unread(w),
                        coverage |-> Join(c, Unread(w))]
      /\ \A v \in Writers : v # w => seen'[v] = seen[v] /\ pending'[v] = pending[v]
      /\ UNCHANGED <<status, next_seqno, logged, wal, got, doubled, wal_coverage,
                     families, missed, revived>>
  BY DEF Collect, TInv
<1>2. /\ pending'[w].ops = pending[w].ops \union Unread(w)
      /\ pending'[w].coverage = Join(c, Unread(w))
  BY <1>1
<1>3. c \in VectorTo(Count) /\ Behind(c) /\ Unread(w) \in SUBSET logged
      /\ pending[w].ops \subseteq logged
  BY DEF TInv, VectorsBehind, Unread
<1> HIDE DEF c
<1>4. Live' = Live /\ Saved' = Saved /\ \A d : Behind(d)' <=> Behind(d)
  BY <1>1 DEF Live, Saved, Behind
<1>5. \A d : Claimed(d)' = Claimed(d)
  BY <1>1 DEF Claimed
<1>6. Unread(w)' = {} /\ \A v \in Writers : /\ Own(v)' = Own(v)
                                            /\ v # w => Unread(v)' = Unread(v)
  BY <1>1 DEF Own, Unread, TInv
<1>7. VectorsBehind'
  <2>1. Behind(Join(c, Unread(w)))
    BY <1>3, JoinBehind
  <2> QED  BY <1>1, <1>2, <1>4, <2>1 DEF VectorsBehind
<1>8. FamiliesHonest' /\ ReplayedIdle' /\ AppliedOnce'
  BY <1>1, <1>4, <1>5 DEF FamiliesHonest, ReplayedIdle, AppliedOnce
<1>9. MemoryHonest'
  BY <1>1, <1>4, <1>5, <1>6 DEF MemoryHonest, Live
<1>10. Placed'
  <2> SUFFICES ASSUME NEW v \in Writers, status[v] = "up"
      PROVE  (/\ logged \subseteq got[v] \union missed[v] \union pending[v].ops
                                  \union Unread(v)
              /\ pending[v].ops \subseteq Claimed(pending[v].coverage)
              /\ Claimed(pending[v].coverage)
                   \subseteq got[v] \union missed[v] \union pending[v].ops)'
    BY <1>1 DEF Placed
  <2>1. CASE v # w
    BY <1>1, <1>5, <1>6, <2>1 DEF Placed
  <2>2. CASE v = w
    <3>1. /\ logged \subseteq got[w] \union missed[w] \union pending[w].ops \union Unread(w)
          /\ pending[w].ops \subseteq Claimed(c)
      BY <1>1 DEF Placed, c
    <3>2. Claimed(c) \union Unread(w) \subseteq Claimed(Join(c, Unread(w)))
      BY <1>3, JoinClaims
    <3>3. Claimed(Join(c, Unread(w))) \subseteq logged
      BY DEF Claimed
    <3> QED  BY <1>1, <1>2, <1>5, <2>2, <3>1, <3>2, <3>3
  <2> QED  BY <2>1, <2>2
<1>11. PlacedOnce'
  BY <1>1, <1>2, <1>6 DEF PlacedOnce
<1>12. DeletedNoted'
  BY <1>1, <1>4 DEF DeletedNoted, Live, Saved
<1> QED  BY <1>7, <1>8, <1>9, <1>10, <1>11, <1>12

\* A collect that fails turns what it has read into what was missed.
LEMMA CollectFailsStep ==
    ASSUME PInv, TInv', NEW w \in Writers, CollectFails(w)
    PROVE  PInv'
<1> USE DEF PInv, memory, save, disk
<1>1. PICK read \in SUBSET Unread(w) :
         /\ seen' = [seen EXCEPT ![w] = @ \union read]
         /\ missed' = [missed EXCEPT ![w] = @ \union read]
  BY DEF CollectFails
<1>2. /\ UNCHANGED <<status, next_seqno, logged, wal, got, doubled, wal_coverage,
                     families, pending, revived>>
      /\ seen'[w] = seen[w] \union read /\ missed'[w] = missed[w] \union read
      /\ \A v \in Writers : v # w => seen'[v] = seen[v] /\ missed'[v] = missed[v]
  BY <1>1 DEF CollectFails, TInv
<1>3. Live' = Live /\ Saved' = Saved /\ \A d : Behind(d)' <=> Behind(d)
  BY <1>2 DEF Live, Saved, Behind
<1>4. \A d : Claimed(d)' = Claimed(d)
  BY <1>2 DEF Claimed
<1>5. \A v \in Writers : /\ Own(v)' = Own(v) /\ missed[v] \subseteq missed'[v]
                         /\ Unread(v)' \subseteq Unread(v)
                         /\ Unread(v) \subseteq Unread(v)' \union missed'[v]
  BY <1>2 DEF Own, Unread
<1>6. VectorsBehind' /\ FamiliesHonest' /\ ReplayedIdle' /\ AppliedOnce'
  BY <1>2, <1>3, <1>4 DEF VectorsBehind, FamiliesHonest, ReplayedIdle, AppliedOnce
<1>7. MemoryHonest'
  BY <1>2, <1>3, <1>4, <1>5 DEF MemoryHonest, Live
<1>8. Placed'
  BY <1>2, <1>4, <1>5 DEF Placed
<1>9. PlacedOnce'
  BY <1>2, <1>5 DEF PlacedOnce
<1>10. DeletedNoted'
  BY <1>2, <1>3, <1>5 DEF DeletedNoted, Live, Saved
<1> QED  BY <1>6, <1>7, <1>8, <1>9, <1>10

\* What is pending is new to the process, unless it was written back, and its
\* vector is true of the union.
LEMMA ApplyStep ==
    ASSUME PInv, TInv', NEW w \in Writers, ApplyForeign(w)
    PROVE  PInv'
<1> USE DEF PInv, save, disk, past
<1> DEFINE a == wal_coverage[w]
           b == pending[w].coverage
           m == [v \in Writers |-> Max({a[v], b[v]})]
<1>1. /\ status[w] = "up"
      /\ doubled'[w] = doubled[w] \union (got[w] \intersect pending[w].ops)
      /\ got'[w] = got[w] \union pending[w].ops
      /\ wal_coverage'[w] = m /\ pending'[w] = Nothing
      /\ \A v \in Writers : v # w =>
            /\ doubled'[v] = doubled[v] /\ got'[v] = got[v]
            /\ wal_coverage'[v] = wal_coverage[v] /\ pending'[v] = pending[v]
      /\ UNCHANGED <<status, next_seqno, seen, logged, wal, families, missed, revived>>
  BY DEF ApplyForeign, TInv
<1>2. a \in VectorTo(Count) /\ b \in VectorTo(Count) /\ Count \in Nat
      /\ w \in Live /\ Behind(a) /\ Behind(b)
  BY <1>1, OpFacts DEF TInv, Live, VectorsBehind
<1>3. \A v \in Writers : /\ m[v] \in {a[v], b[v]} /\ a[v] <= m[v] /\ b[v] <= m[v]
                         /\ a[v] \in Nat /\ b[v] \in Nat
  <2>1. \A v \in Writers : a[v] \in Nat /\ b[v] \in Nat
    BY <1>2 DEF VectorTo
  <2>2. \A v \in Writers : /\ Max({a[v], b[v]}) \in {a[v], b[v]}
                           /\ a[v] <= Max({a[v], b[v]})
                           /\ b[v] <= Max({a[v], b[v]})
    <3> HIDE DEF a, b
    <3> QED  BY <1>2, MergeIs
  <2>3. \A v \in Writers : m[v] = Max({a[v], b[v]})
    OBVIOUS
  <2> QED  BY <2>1, <2>2, <2>3
<1> HIDE DEF m
<1>4. Behind(m)
  BY <1>2, <1>3 DEF Behind
<1>5. Claimed(m) = Claimed(a) \union Claimed(b)
  <2>1. \A o \in logged : o.n <= m[o.by] <=> o.n <= a[o.by] \/ o.n <= b[o.by]
    <3> SUFFICES ASSUME NEW o \in logged
                 PROVE  o.n <= m[o.by] <=> o.n <= a[o.by] \/ o.n <= b[o.by]
      OBVIOUS
    <3>1. o.by \in Writers /\ o.n \in Nat
      BY OpFacts
    <3> QED  BY <1>3, <3>1
  <2> QED  BY <2>1 DEF Claimed
<1>6. Live' = Live /\ Saved' = Saved /\ \A d : Behind(d)' <=> Behind(d)
  BY <1>1 DEF Live, Saved, Behind
<1>7. \A d : Claimed(d)' = Claimed(d)
  BY <1>1 DEF Claimed
<1>8. \A v \in Writers : /\ Own(v)' = Own(v) /\ Unread(v)' = Unread(v)
                         /\ got[v] \subseteq got'[v]
  BY <1>1 DEF Own, Unread
<1>9. pending'[w].ops = {} /\ pending'[w].coverage = NoCover /\ Claimed(NoCover) = {}
  BY <1>1, NothingClaimed DEF Nothing
<1>10. VectorsBehind'
  <2>1. Behind(NoCover)
    BY OpFacts DEF Behind, NoCover
  <2> QED  BY <1>1, <1>4, <1>6, <1>9, <2>1 DEF VectorsBehind
<1>11. /\ logged \subseteq got[w] \union missed[w] \union pending[w].ops \union Unread(w)
       /\ pending[w].ops \subseteq Claimed(b)
       /\ Claimed(b) \subseteq got[w] \union missed[w] \union pending[w].ops
  BY <1>1 DEF Placed
<1>12. MemoryHonest'
  <2> SUFFICES ASSUME NEW v \in Live
               PROVE  /\ Claimed(wal_coverage'[v]) \subseteq got'[v] \union missed[v]
                      /\ got'[v] \subseteq Claimed(wal_coverage'[v]) \union Own(v)
                      /\ Own(v) \subseteq got'[v]
    BY <1>1, <1>6, <1>7, <1>8 DEF MemoryHonest, Live, Claimed
  <2>1. CASE v # w
    BY <1>1, <2>1 DEF MemoryHonest, Live
  <2>2. CASE v = w
    <3>1. Claimed(a) \subseteq got[w] \union missed[w]
          /\ got[w] \subseteq Claimed(a) \union Own(w) /\ Own(w) \subseteq got[w]
      BY <1>2 DEF MemoryHonest
    <3> QED  BY <1>1, <1>5, <1>11, <2>2, <3>1
  <2> QED  BY <2>1, <2>2
<1>13. FamiliesHonest' /\ ReplayedIdle'
  BY <1>1, <1>6, <1>7 DEF FamiliesHonest, ReplayedIdle
<1>14. AppliedOnce'
  BY <1>1 DEF AppliedOnce, PlacedOnce
<1>15. Placed'
  <2> SUFFICES ASSUME NEW v \in Writers, status[v] = "up"
      PROVE  (/\ logged \subseteq got[v] \union missed[v] \union pending[v].ops
                                  \union Unread(v)
              /\ pending[v].ops \subseteq Claimed(pending[v].coverage)
              /\ Claimed(pending[v].coverage)
                   \subseteq got[v] \union missed[v] \union pending[v].ops)'
    BY <1>1 DEF Placed
  <2>1. CASE v # w
    BY <1>1, <1>7, <1>8, <2>1 DEF Placed
  <2>2. CASE v = w
    BY <1>1, <1>7, <1>8, <1>9, <1>11, <2>2
  <2> QED  BY <2>1, <2>2
<1>16. PlacedOnce'
  BY <1>1, <1>8, <1>9 DEF PlacedOnce
<1>17. DeletedNoted'
  BY <1>1, <1>6, <1>8 DEF DeletedNoted, Live, Saved
<1> QED  BY <1>10, <1>12, <1>13, <1>14, <1>15, <1>16, <1>17

-----------------------------------------------------------------------------
(* Saves, deletions and deaths                                              *)

\* A save hands its family what the process has, what it claims and what it
\* has missed.
LEMMA SaveStep ==
    ASSUME PInv, TInv', NEW w \in Writers, Save(w)
    PROVE  PInv'
<1> USE DEF PInv, memory, sync, past
<1> DEFINE c == families'[w].covered
           a == wal_coverage[w]
<1>1. /\ status[w] = "up"
      /\ UNCHANGED <<status, next_seqno, logged, wal, got, doubled, wal_coverage,
                     seen, pending, missed, revived>>
  BY DEF Save
<1>2. /\ families'[w].image = got[w] /\ families'[w].missed = missed[w]
      /\ families'[w] # NoFamily
      /\ \A v \in Writers : v # w => families'[v] = families[v] /\ c[v] = a[v]
      /\ c[w] \in {a[w], next_seqno[w] - 1} /\ next_seqno[w] - 1 <= c[w]
  BY SaveType
<1> HIDE DEF c
<1>3. w \in Live /\ Live' = Live /\ Saved' = Saved \union {w}
  BY <1>1, <1>2 DEF Live, Saved
<1>4. Behind(a) /\ a \in VectorTo(Count)
  BY <1>3 DEF VectorsBehind, TInv
<1>5. c[w] = next_seqno[w] - 1 /\ next_seqno[w] \in Nat
  <2>1. a[w] < next_seqno[w] /\ a[w] \in Nat /\ next_seqno[w] \in Nat
    BY <1>3, <1>4, OpFacts DEF Behind, VectorTo
  <2> QED  BY <1>2, <2>1
<1>6. Behind(c)
  BY <1>2, <1>3, <1>4, <1>5 DEF Behind, Live
<1>7. Claimed(c) \subseteq got[w] \union missed[w] /\ got[w] \subseteq Claimed(c)
  <2>1. Claimed(a) \subseteq got[w] \union missed[w]
        /\ got[w] \subseteq Claimed(a) \union Own(w)
        /\ Own(w) \subseteq got[w] /\ got[w] \subseteq logged
    BY <1>3 DEF MemoryHonest, TInv
  <2>2. \A o \in Own(w) : o.n <= c[w]
    BY <1>3, <1>5, OpFacts DEF Own, TInv, Ahead
  <2>3. \A o \in logged : o.by # w => (o.n <= c[o.by] <=> o.n <= a[o.by])
    BY <1>2, OpFacts
  <2>4. Claimed(c) \subseteq Claimed(a) \union Own(w)
    BY <2>3 DEF Claimed, Own
  <2>5. Claimed(a) \union Own(w) \subseteq Claimed(c)
    BY <2>2, <2>3 DEF Claimed, Own
  <2> QED  BY <2>1, <2>4, <2>5
<1>8. \A d : (Behind(d)' <=> Behind(d)) /\ Claimed(d)' = Claimed(d)
  BY <1>1, <1>3 DEF Behind, Claimed
<1>9. \A v \in Writers : Own(v)' = Own(v) /\ Unread(v)' = Unread(v)
  BY <1>1 DEF Own, Unread
<1>10. VectorsBehind'
  BY <1>1, <1>2, <1>3, <1>6, <1>8 DEF VectorsBehind, c
<1>11. FamiliesHonest'
  BY <1>2, <1>3, <1>7, <1>8 DEF FamiliesHonest, Saved, c
<1>12. MemoryHonest'
  BY <1>1, <1>3, <1>8, <1>9 DEF MemoryHonest, Live
<1>13. ReplayedIdle' /\ AppliedOnce' /\ Placed' /\ PlacedOnce'
  BY <1>1, <1>8, <1>9 DEF ReplayedIdle, AppliedOnce, Placed, PlacedOnce
<1>14. DeletedNoted'
  BY <1>1, <1>2, <1>3 DEF DeletedNoted, Live, Saved
<1> QED  BY <1>10, <1>11, <1>12, <1>13, <1>14

\* What a prune deletes, those who had not applied it have missed.
LEMMA PruneStep ==
    ASSUME PInv, TInv', NEW w \in Writers, PruneWal(w)
    PROVE  PInv'
<1> USE DEF PInv, memory, sync
<1> DEFINE gone == Prunable(w)
<1>1. /\ w \in Saved /\ wal' = wal \ gone /\ gone \subseteq wal
      /\ UNCHANGED <<status, next_seqno, logged, got, doubled, wal_coverage,
                     seen, pending, revived>>
      /\ \A v \in Live : missed'[v] = missed[v] \union (gone \ got[v])
      /\ \A v \in Writers : missed[v] \subseteq missed'[v]
  BY PruneIs DEF PruneWal, Live
<1>2. /\ Saved' = Saved
      /\ \A f \in Saved :
           /\ families'[f].covered = families[f].covered
           /\ families'[f].image = families[f].image
           /\ families'[f].missed = families[f].missed \union (gone \ families[f].image)
  BY PruneIs
<1> HIDE DEF gone
<1>3. Live' = Live
  BY <1>1 DEF Live
<1>4. \A d : (Behind(d)' <=> Behind(d)) /\ Claimed(d)' = Claimed(d)
  BY <1>1, <1>3 DEF Behind, Claimed
<1>5. \A v \in Writers : /\ Own(v)' = Own(v) /\ Unread(v)' \subseteq Unread(v)
                         /\ Unread(v) \subseteq Unread(v)' \union gone
  BY <1>1 DEF Own, Unread
<1>6. VectorsBehind' /\ ReplayedIdle' /\ AppliedOnce'
  BY <1>1, <1>2, <1>3, <1>4 DEF VectorsBehind, ReplayedIdle, AppliedOnce
<1>7. FamiliesHonest'
  BY <1>2, <1>4 DEF FamiliesHonest
<1>8. MemoryHonest'
  BY <1>1, <1>3, <1>4, <1>5 DEF MemoryHonest, Live
<1>9. Placed'
  <2> SUFFICES ASSUME NEW v \in Writers, status[v] = "up"
      PROVE  (/\ logged \subseteq got[v] \union missed[v] \union pending[v].ops
                                  \union Unread(v)
              /\ pending[v].ops \subseteq Claimed(pending[v].coverage)
              /\ Claimed(pending[v].coverage)
                   \subseteq got[v] \union missed[v] \union pending[v].ops)'
    BY <1>1 DEF Placed
  <2>1. v \in Live /\ gone \subseteq got[v] \union missed'[v]
    BY <1>1 DEF Live
  <2> QED  BY <1>1, <1>4, <1>5, <2>1 DEF Placed
<1>10. PlacedOnce'
  BY <1>1, <1>5 DEF PlacedOnce
<1>11. DeletedNoted'
  <2>1. logged' \ wal' \subseteq (logged \ wal) \union gone
    BY <1>1
  <2>2. ASSUME NEW f \in Saved
        PROVE  logged' \ wal' \subseteq families'[f].image \union families'[f].missed
    BY <1>2, <2>1 DEF DeletedNoted
  <2>3. ASSUME NEW v \in Live PROVE logged' \ wal' \subseteq got'[v] \union missed'[v]
    BY <1>1, <2>1 DEF DeletedNoted
  <2> QED  BY <1>1, <1>2, <1>3, <2>2, <2>3 DEF DeletedNoted
<1> QED  BY <1>6, <1>7, <1>8, <1>9, <1>10, <1>11

LEMMA KillStep ==
    ASSUME PInv, TInv', NEW w \in Writers, Kill(w)
    PROVE  PInv'
<1> USE DEF PInv, disk
<1>1. /\ w \in Live /\ status'[w] = "dead" /\ doubled'[w] = {}
      /\ pending'[w] = Nothing
      /\ \A v \in Writers : v # w =>
            /\ status'[v] = status[v] /\ got'[v] = got[v] /\ doubled'[v] = doubled[v]
            /\ wal_coverage'[v] = wal_coverage[v] /\ seen'[v] = seen[v]
            /\ pending'[v] = pending[v] /\ next_seqno'[v] = next_seqno[v]
            /\ missed'[v] = missed[v]
      /\ UNCHANGED <<logged, wal, families, revived>>
  BY DEF Kill, Live, TInv
<1>2. Live' = Live \ {w} /\ Saved' = Saved
  BY <1>1 DEF Live, Saved
<1>3. pending'[w].coverage = NoCover
  BY <1>1 DEF Nothing
<1>4. \A d : (Behind(d) => Behind(d)') /\ Claimed(d)' = Claimed(d)
  BY <1>1, <1>2 DEF Behind, Claimed
<1>5. \A v \in Writers : Own(v)' = Own(v) /\ (v # w => Unread(v)' = Unread(v))
  BY <1>1 DEF Own, Unread
<1>6. VectorsBehind'
  <2>1. Behind(NoCover)
    BY OpFacts DEF Behind, NoCover
  <2> QED  BY <1>1, <1>2, <1>3, <1>4, <2>1 DEF VectorsBehind
<1>7. FamiliesHonest' /\ ReplayedIdle' /\ AppliedOnce'
  BY <1>1, <1>2, <1>4 DEF FamiliesHonest, ReplayedIdle, AppliedOnce
<1>8. MemoryHonest'
  BY <1>1, <1>2, <1>4, <1>5 DEF MemoryHonest, Live
<1>9. Placed' /\ PlacedOnce'
  BY <1>1, <1>4, <1>5 DEF Placed, PlacedOnce
<1>10. DeletedNoted'
  BY <1>1, <1>2 DEF DeletedNoted, Live, Saved
<1> QED  BY <1>6, <1>7, <1>8, <1>9, <1>10

LEMMA PInit == ASSUME Init PROVE PInv
<1> USE DEF Init
<1>1. TInv
  BY TypeInit
<1>2. Live = {} /\ Saved = {}
  BY DEF Live, Saved
<1>3. VectorsBehind
  BY <1>2 DEF VectorsBehind, Behind, Nothing, NoCover, Live
<1>4. FamiliesHonest /\ MemoryHonest /\ ReplayedIdle /\ Placed /\ PlacedOnce
  BY <1>2 DEF FamiliesHonest, MemoryHonest, ReplayedIdle, Placed, PlacedOnce
<1>5. DeletedNoted /\ AppliedOnce
  BY <1>2 DEF DeletedNoted, AppliedOnce
<1> QED  BY <1>1, <1>3, <1>4, <1>5 DEF PInv

LEMMA PStep == ASSUME PInv, [Next]_vars PROVE PInv'
<1> USE DEF memory, sync, save, disk, past
<1>1. TInv'
  BY TypeStep DEF PInv
<1>2. CASE UNCHANGED vars
  <2>1. Saved' = Saved
    BY <1>2 DEF vars, Saved
  <2> QED  BY <1>1, <1>2, <2>1, FamiliesGo DEF vars
<1>3. ASSUME NEW w \in Writers, Step(w) PROVE PInv'
  <2>1. CASE SaveFails(w)
    <3>1. UNCHANGED <<status, memory, sync, saves, disk, past>> /\ Saved' = Saved
      BY <2>1 DEF SaveFails, Saved
    <3> QED  BY <1>1, <3>1, FamiliesGo
  <2>2. CASE PruneFamilies(w)
    <3>1. UNCHANGED <<status, memory, sync, saves, wal, past>> /\ KeepTwo
      BY <2>2 DEF PruneFamilies
    <3>2. /\ \A f \in Saved' : f \in Saved /\ families'[f] = families[f]
          /\ Saved # {} => Saved' # {}
      BY <3>1, KeepTwoIs
    <3> QED  BY <1>1, <3>1, <3>2, FamiliesGo
  <2> QED  BY <1>1, <1>3, <2>1, <2>2, OpenStep, SeedStep, AppendStep, CollectStep,
              CollectFailsStep, ApplyStep, SaveStep, PruneStep, KillStep DEF Step
<1> QED  BY <1>2, <1>3 DEF Next

-----------------------------------------------------------------------------
(* Theorems, for every timing of the processes                              *)

LEMMA PInvariant == Spec => []PInv
<1>1. Init => PInv
  BY PInit
<1>2. PInv /\ [Next]_vars => PInv'
  BY PStep
<1> QED  BY <1>1, <1>2, PTL DEF Spec

\* Every coverage vector, of a process or in the manifest, claims only what
\* its process or its family contains, or what slipped past it in one of the
\* three ways of missed.
THEOREM VectorsHonest == Spec => []CoverageHonest
<1>1. PInv => CoverageHonest
  BY DEF PInv, MemoryHonest, FamiliesHonest, CoverageHonest
<1> QED  BY <1>1, PInvariant, PTL

\* Whichever family an open() would choose now, it and the segments that it
\* does not cover hold every acknowledged operation of every writer, but those
\* it has missed.
THEOREM StoreRecoverable == Spec => []Recoverable
<1>1. PInv => Recoverable
  <2> SUFFICES ASSUME PInv PROVE Recoverable
    OBVIOUS
  <2>1. Saved = {} => logged \subseteq wal
    BY DEF PInv, DeletedNoted
  <2>2. ASSUME NEW f \in Chosen
        PROVE  logged \subseteq families[f].image \union families[f].missed
                                \union {o \in wal : ~Covered(o, families[f])}
    <3>1. f \in Saved
      BY DEF Chosen
    <3>2. Claimed(families[f].covered) \subseteq families[f].image \union families[f].missed
          /\ logged \ wal \subseteq families[f].image \union families[f].missed
      BY <3>1 DEF PInv, FamiliesHonest, DeletedNoted
    <3> QED  BY <3>2 DEF Claimed, Covered
  <2> QED  BY <2>1, <2>2 DEF Recoverable
<1> QED  BY <1>1, PInvariant, PTL

\* No process applies an operation twice, neither replay after a snapshot nor
\* sync_foreign after a replay, unless its segment was deleted and written back.
THEOREM ForeignAppliedOnce == Spec => []AppliedOnce
<1>1. PInv => AppliedOnce
  BY DEF PInv
<1> QED  BY <1>1, PInvariant, PTL
=============================================================================
