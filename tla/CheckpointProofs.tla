-------------------------- MODULE CheckpointProofs --------------------------
(***************************************************************************)
(* Theorems about Checkpoint for every value of its bounds: types for      *)
(* every scheduling, and what a restart recovers when saves hold the RPC   *)
(* lock and no process dies while it overwrites a family it had committed. *)
(*                                                                         *)
(* None of the properties is inductive.  What is lost or counted twice     *)
(* after a restart depends on what the files held when the process died,   *)
(* so SInv says what every body, every manifest entry and the running save *)
(* hold at any moment, and that what was pruned from the WAL is in every   *)
(* family that open() could choose.                                        *)
(***************************************************************************)
EXTENDS Checkpoint, Extrema, FiniteSetTheorems, TLAPS

-----------------------------------------------------------------------------
(* Types                                                                    *)

\* Images of operations that were logged.
ImageOf(S) == [payloads : SUBSET S, text : SUBSET S, states : SUBSET S,
               effects : SUBSET S, doubled : SUBSET S]

SnapOf(S) == [seqno : Nat, covered : Coverage, mutations : Nat,
              image : ImageOf(S)]

BodyOf(S) == [seqno : Nat, image : ImageOf(S)]
PldOf(S)  == [ids : SUBSET S, text : SUBSET S]

\* Seqnos have an upper bound, so that replay finds a highest one.
Bounded == \E b \in Nat : \A o \in logged : o.n <= b

FilesOK ==
    /\ body \in [Writers -> BodyOf(logged) \union {NoFile}]
    /\ pld \in [Writers -> PldOf(logged) \union {NoFile}]
    /\ DOMAIN families = Writers
    /\ \A w \in Writers : Present(families[w]) =>
          families[w].seqno \in Nat /\ families[w].covered \in Coverage

TInv ==
    /\ TypeOK /\ FilesOK /\ Bounded
    /\ mem \in ImageOf(logged)
    /\ status = "up" => me \in Writers
    /\ saver \notin {"idle", "drained"} => snap \in SnapOf(logged)
    /\ client # "idle" => cur \in logged

-----------------------------------------------------------------------------
(* What the files and the running process hold, when saves are serialized.  *)

Upto(s) == {o \in logged : o.n <= s}

Reached(s) == s = 0 \/ \E o \in logged : o.n = s

Full(image, ops) ==
    /\ image.payloads = Puts(ops) /\ image.states = Puts(ops)
    /\ image.effects = Additive(ops) /\ image.doubled = {}

\* A body holds everything logged up to its seqno, and its .pld the content.
BodyInv ==
    \A w \in Writers :
       /\ w > me => /\ ~Present(body[w]) /\ ~Present(pld[w])
                    /\ ~Present(families[w])
       /\ Present(body[w]) =>
             /\ Reached(body[w].seqno)
             /\ Full(body[w].image, Upto(body[w].seqno))
             /\ Present(pld[w]) /\ body[w].image.payloads \subseteq pld[w].text

Committed == {w \in Writers : Present(families[w]) /\ Present(body[w])}

\* A commit record describes the files beside it, and its vector claims all
\* of the log that the body holds and nothing it does not.
FamilyInv ==
    \A w \in Committed : ~(w = me /\ Overwriting) =>
       /\ Valid(w) /\ families[w].seqno = body[w].seqno
       /\ \A v \in Writers : families[w].covered[v] <= families[w].seqno
       /\ \A o \in wal : o.n <= families[w].seqno
                            => o.n <= families[w].covered[o.inst]

\* The families with the highest seqno, of those open() considers.
Highest(S) == {i \in S : \A j \in S : body[j].seqno <= body[i].seqno}
Top == IF Committed # {} THEN Highest(Committed) ELSE Highest(Bodies)

\* w holds everything that is no longer in the WAL.
HoldsPruned(w) == \A o \in logged \ wal : o.n <= body[w].seqno

PrunedInv ==
    /\ Bodies = {} => wal = logged
    /\ ~Overwriting => \A w \in Top : HoldsPruned(w)

\* The running process is ahead of everything on disk.
SeqnoInv ==
    status = "up" =>
       /\ \A o \in logged : o.n < next_seqno
       /\ Reached(next_seqno - 1)
       /\ \A w \in Bodies : body[w].seqno < next_seqno
       /\ \A v \in Writers : wal_coverage[v] < next_seqno
       /\ \A o \in wal : o.inst # me => o.n <= wal_coverage[o.inst]

Putting == client \in {"put_logged", "put_inserted", "put_counted"}

\* Memory holds all that was logged, but for the operation under way.
MemInv ==
    /\ mem.doubled = {} /\ mem.payloads = mem.text
    /\ client = "idle" <=> cur = NoOp
    /\ Putting => cur.kind = "put"
    /\ client = "outcome_logged" => cur.kind = "outcome"
    /\ status = "up" =>
         /\ mem.payloads = Puts(logged \ {cur})
                           \union (IF client \in {"put_inserted", "put_counted"}
                                   THEN {cur} ELSE {})
         /\ mem.states = Puts(logged \ {cur})
         /\ mem.effects = Additive(logged \ {cur})

\* A .pld that the counter calls clean has the content of every memory.
PldInv ==
    /\ pld_saved_at <= pld_mutations
    /\ status = "up" /\ pld_saved_at = pld_mutations /\ Present(pld[me]) =>
          mem.payloads \subseteq pld[me].text
             \union (IF client = "put_inserted" THEN {cur} ELSE {})

\* The save holds what the process holds: nothing moves while it runs.
SaveInv ==
    /\ saver # "idle" => client = "idle"
    /\ saver \notin {"idle", "drained"} =>
          /\ snap.seqno = next_seqno - 1 /\ snap.covered = wal_coverage
          /\ snap.mutations = pld_mutations
    /\ saver \notin {"idle", "drained", "captured"} =>
          /\ snap.image.payloads = mem.payloads /\ snap.image.text = mem.text
    /\ saver \notin {"idle", "drained", "captured", "payloads"} =>
          /\ snap.image.states = mem.states /\ snap.image.effects = mem.effects
          /\ snap.image.doubled = mem.doubled
    /\ saver \in {"pld_saved", "body_saved"} =>
          Present(pld[me]) /\ mem.payloads \subseteq pld[me].text
    /\ saver \in {"body_saved", "committed"} =>
          Present(body[me]) /\ body[me].seqno = snap.seqno
    /\ saver = "committed" => Present(families[me])

SInv == TInv /\ BodyInv /\ FamilyInv /\ PrunedInv /\ SeqnoInv /\ MemInv
        /\ PldInv /\ SaveInv /\ status # "refused"

-----------------------------------------------------------------------------
(* Seqnos that open() computes                                              *)

\* What open() continues from is at or above the loaded body and above every
\* operation it walked.
LEMMA TopSeqnoIs ==
    ASSUME TInv, NEW s \in Nat
    PROVE  /\ TopSeqno(s) \in Nat /\ s <= TopSeqno(s)
           /\ \A o \in wal : o.n <= TopSeqno(s)
           /\ TopSeqno(s) = s \/ \E o \in wal : TopSeqno(s) = o.n
<1> DEFINE S == {o.n : o \in wal} \union {s}
<1>1. PICK b \in Nat : \A o \in logged : o.n <= b
  BY DEF TInv, Bounded
<1>2. \A o \in wal : o.n \in Nat /\ o.n <= b
  BY <1>1 DEF TInv, TypeOK, Op
<1>3. S \in SUBSET Nat /\ S # {} /\ b + s \in Nat /\ \A x \in S : x <= b + s
  BY <1>1, <1>2
<1> HIDE DEF S
<1>4. Max(S) \in S /\ \A x \in S : x <= Max(S)
  BY <1>3, MaxOf
<1>5. TopSeqno(s) = Max(S)
  BY DEF S, TopSeqno
<1> QED  BY <1>3, <1>4, <1>5 DEF S

LEMMA WalkedIs ==
    ASSUME TInv, NEW w \in Writers
    PROVE  /\ Walked(w) \in Nat
           /\ \A o \in wal : o.inst = w => o.n <= Walked(w)
           /\ Walked(w) = 0 \/ \E o \in wal : Walked(w) = o.n
<1> DEFINE S == {o.n : o \in {p \in wal : p.inst = w}} \union {0}
<1>1. PICK b \in Nat : \A o \in logged : o.n <= b
  BY DEF TInv, Bounded
<1>2. \A o \in wal : o.n \in Nat /\ o.n <= b
  BY <1>1 DEF TInv, TypeOK, Op
<1>3. S \in SUBSET Nat /\ S # {} /\ \A x \in S : x <= b
  BY <1>1, <1>2
<1>4. \A o \in wal : o.inst = w => o.n \in S
  OBVIOUS
<1>5. \A x \in S : x = 0 \/ \E o \in wal : x = o.n
  OBVIOUS
<1> HIDE DEF S
<1>6. Max(S) \in S /\ \A x \in S : x <= Max(S)
  BY <1>1, <1>3, MaxOf
<1>7. Walked(w) = Max(S)
  BY DEF S, Walked
<1> QED  BY <1>3, <1>4, <1>5, <1>6, <1>7

-----------------------------------------------------------------------------
(* Types are kept, whoever runs the saves and whoever dies.                 *)

\* Applying logged operations to an image of logged operations.
LEMMA ApplyType ==
    ASSUME NEW S, NEW i \in ImageOf(S), NEW ops \in SUBSET S
    PROVE  Apply(i, ops) \in ImageOf(S)
  BY DEF ImageOf, Apply, Puts, Additive

LEMMA ImageGrows ==
    ASSUME NEW S, NEW T, S \subseteq T
    PROVE  /\ ImageOf(S) \subseteq ImageOf(T)
           /\ BodyOf(S) \subseteq BodyOf(T)
           /\ PldOf(S) \subseteq PldOf(T)
           /\ SnapOf(S) \subseteq SnapOf(T)
<1>1. ImageOf(S) \subseteq ImageOf(T)
  BY DEF ImageOf
<1> QED  BY <1>1 DEF BodyOf, PldOf, SnapOf

LEMMA ImageIsTyped ==
    ASSUME NEW S, NEW i \in ImageOf(S)
    PROVE  DOMAIN i = DOMAIN Empty /\ \A f \in DOMAIN i : i[f] \subseteq S
  BY DEF ImageOf, Empty

\* open() types its new process.
LEMMA StartType ==
    ASSUME TInv, status = "down", me < MaxLives,
           NEW image \in ImageOf(logged), NEW covered \in Coverage,
           NEW s \in Nat, Start(image, covered, s),
           body' \in [Writers -> BodyOf(logged) \union {NoFile}],
           pld' \in [Writers -> PldOf(logged) \union {NoFile}]
    PROVE  TInv'
<1> USE DEF TInv
<1>1. status' = "up" /\ me' = me + 1 /\ mem' = image
      /\ UNCHANGED <<touches, pld_mutations, pld_saved_at, request, saving,
                     wal, families, logged>>
  BY DEF Start
<1>2. mem' \in ImageOf(logged') /\ DOMAIN mem' = DOMAIN Empty
      /\ \A f \in DOMAIN mem' : mem'[f] \subseteq logged'
  <2>1. mem' \in ImageOf(logged')
    BY <1>1
  <2> QED  BY <2>1, ImageIsTyped
<1>3. wal_coverage' \in Coverage
  <2>1. \A w \in Writers : Max({covered[w], Walked(w)}) \in Nat
    <3> SUFFICES ASSUME NEW w \in Writers
                 PROVE  Max({covered[w], Walked(w)}) \in Nat
      OBVIOUS
    <3>1. covered[w] \in Nat /\ Walked(w) \in Nat
      BY WalkedIs DEF Coverage
    <3> QED  BY <3>1, MaxTwo
  <2> QED  BY <2>1 DEF Start, Coverage
<1>4. next_seqno' \in Nat \ {0} /\ active' \in 1 .. next_seqno'
  <2>1. TopSeqno(s) \in Nat
    BY TopSeqnoIs
  <2> QED  BY <2>1 DEF Start
<1>5. me' \in Writers /\ me' \in 0 .. MaxLives
  BY <1>1, CheckpointAssumption DEF TypeOK, Writers, CheckpointAssumption
<1>6. TypeOK'
  BY <1>1, <1>2, <1>3, <1>4, <1>5 DEF TypeOK, request, saving
<1>7. FilesOK' /\ Bounded'
  BY <1>1 DEF FilesOK, Bounded
<1> QED  BY <1>1, <1>2, <1>5, <1>6, <1>7 DEF TypeOK, request, saving

\* A logged operation is a new one, and keeps everything typed.
LEMMA AppendType ==
    ASSUME TInv, status = "up", NEW kind \in {"put", "outcome", "touch"},
           AppendOp(NewOp(kind))
    PROVE  /\ NewOp(kind) \in logged' /\ logged \subseteq logged'
           /\ wal' \subseteq logged' /\ logged' \subseteq Op
           /\ next_seqno' \in Nat \ {0} /\ active' \in 1 .. next_seqno'
           /\ Bounded'
           /\ mem \in ImageOf(logged')
           /\ UNCHANGED <<body, pld, families>> => FilesOK'
<1> USE DEF TInv
<1> DEFINE o == NewOp(kind)
<1>1. o \in Op /\ o.n = next_seqno /\ o.seg \in {next_seqno, active}
  BY DEF TypeOK, NewOp, Op
<1> HIDE DEF o
<1>2. wal' = wal \union {o} /\ logged' = logged \union {o}
      /\ next_seqno' = next_seqno + 1 /\ active' = o.seg
  BY DEF AppendOp, o
<1>3. Bounded'
  <2>1. PICK b \in Nat : \A x \in logged : x.n <= b
    BY DEF Bounded
  <2>2. \A x \in logged : x.n \in Nat
    BY DEF TypeOK, Op
  <2>3. b + next_seqno \in Nat /\ \A x \in logged' : x.n <= b + next_seqno
    BY <1>1, <1>2, <2>1, <2>2 DEF TypeOK
  <2> QED  BY <2>3 DEF Bounded
<1>4. mem \in ImageOf(logged')
  BY <1>2, ImageGrows
<1>5. ASSUME UNCHANGED <<body, pld, families>> PROVE FilesOK'
  <2>1. BodyOf(logged) \subseteq BodyOf(logged')
        /\ PldOf(logged) \subseteq PldOf(logged')
    BY <1>2, ImageGrows
  <2> QED  BY <1>5, <2>1 DEF FilesOK
<1> QED  BY <1>1, <1>2, <1>3, <1>4, <1>5 DEF TypeOK, o

LEMMA KeepType ==
    ASSUME TInv, NEW k, KeepOnly(k)
    PROVE  /\ body' \in [Writers -> BodyOf(logged) \union {NoFile}]
           /\ pld' \in [Writers -> PldOf(logged) \union {NoFile}]
  BY DEF TInv, FilesOK, KeepOnly

LEMMA TypeInit == ASSUME Init PROVE TInv
<1> USE DEF Init
<1>1. mem \in ImageOf(logged)
  BY DEF ImageOf, Empty
<1>2. TypeOK
  <2>1. wal_coverage \in Coverage
    BY DEF NoCover, Coverage
  <2>2. me \in 0 .. MaxLives /\ next_seqno \in Nat \ {0}
        /\ active \in 1 .. next_seqno /\ saves \in 0 .. MaxSaves
    BY CheckpointAssumption DEF CheckpointAssumption
  <2>3. DOMAIN mem = DOMAIN Empty /\ \A f \in DOMAIN mem : mem[f] \subseteq logged
    BY <1>1, ImageIsTyped
  <2>4. touches \in BOOLEAN /\ pld_mutations \in Nat
        /\ pld_saved_at \in Nat \union {Never}
    OBVIOUS
  <2> QED  BY <2>1, <2>2, <2>3, <2>4 DEF TypeOK, Clients, Savers
<1>3. FilesOK
  BY DEF FilesOK, Present
<1>4. Bounded
  <2>1. 0 \in Nat /\ \A o \in logged : o.n <= 0
    OBVIOUS
  <2> QED  BY <2>1 DEF Bounded
<1> QED  BY <1>1, <1>2, <1>3, <1>4 DEF TInv

LEMMA TypeStep == ASSUME TInv, [Next]_vars PROVE TInv'
<1> USE DEF TInv
<1>1. ASSUME UNCHANGED <<wal, logged>>, UNCHANGED <<body, pld, families>>
      PROVE  FilesOK' /\ Bounded'
  BY <1>1 DEF FilesOK, Bounded
<1>2. mem' \in ImageOf(logged') =>
         DOMAIN mem' = DOMAIN Empty /\ \A f \in DOMAIN mem' : mem'[f] \subseteq logged'
  BY ImageIsTyped
<1>3. CASE PutAppend
  <2>1. cur' = NewOp("put") /\ AppendOp(NewOp("put")) /\ status = "up"
        /\ client' = "put_logged"
        /\ UNCHANGED <<status, me, mem, wal_coverage, touches, pld_mutations,
                       pld_saved_at, saving, body, pld, families>>
    BY <1>3 DEF PutAppend, MayStart
  <2>2. /\ NewOp("put") \in logged' /\ logged \subseteq logged'
        /\ wal' \subseteq logged' /\ logged' \subseteq Op
        /\ next_seqno' \in Nat \ {0} /\ active' \in 1 .. next_seqno'
        /\ Bounded' /\ mem' \in ImageOf(logged') /\ FilesOK'
    BY <2>1, AppendType
  <2>3. TypeOK'
    BY <1>2, <2>1, <2>2 DEF TypeOK, saving, Clients
  <2>4. SnapOf(logged) \subseteq SnapOf(logged')
    BY <2>2, ImageGrows
  <2> QED  BY <2>1, <2>2, <2>3, <2>4 DEF saving
<1>4. CASE OutcomeAppend
  <2>1. cur' = NewOp("outcome") /\ AppendOp(NewOp("outcome")) /\ status = "up"
        /\ client' = "outcome_logged"
        /\ UNCHANGED <<status, me, mem, wal_coverage, touches, pld_mutations,
                       pld_saved_at, saving, body, pld, families>>
    BY <1>4 DEF OutcomeAppend, MayStart
  <2>2. /\ NewOp("outcome") \in logged' /\ logged \subseteq logged'
        /\ wal' \subseteq logged' /\ logged' \subseteq Op
        /\ next_seqno' \in Nat \ {0} /\ active' \in 1 .. next_seqno'
        /\ Bounded' /\ mem' \in ImageOf(logged') /\ FilesOK'
    BY <2>1, AppendType
  <2>3. TypeOK'
    BY <1>2, <2>1, <2>2 DEF TypeOK, saving, Clients
  <2>4. SnapOf(logged) \subseteq SnapOf(logged')
    BY <2>2, ImageGrows
  <2> QED  BY <2>1, <2>2, <2>3, <2>4 DEF saving
<1>5. ASSUME status = "up", Drain,
             UNCHANGED <<status, me, wal_coverage, pld_mutations, pld_saved_at,
                         request, snap, body, pld, families>>,
             saver' \in {saver, "drained"}, saves' \in 0 .. MaxSaves
      PROVE  TInv'
  <2>1. CASE ~touches
    <3>1. UNCHANGED <<wal, logged, next_seqno, active, mem, touches>>
      BY <1>5, <2>1 DEF Drain
    <3>2. mem' \in ImageOf(logged')
      BY <3>1
    <3>3. TypeOK'
      BY <1>2, <1>5, <3>1, <3>2 DEF TypeOK, request, Savers
    <3> QED  BY <1>1, <1>5, <3>1, <3>2, <3>3 DEF request
  <2>2. CASE touches
    <3> DEFINE o == NewOp("touch")
    <3>1. AppendOp(NewOp("touch")) /\ mem' = Apply(mem, {o}) /\ touches' = FALSE
      BY <1>5, <2>2 DEF Drain
    <3>2. /\ o \in logged' /\ logged \subseteq logged'
          /\ wal' \subseteq logged' /\ logged' \subseteq Op
          /\ next_seqno' \in Nat \ {0} /\ active' \in 1 .. next_seqno'
          /\ Bounded' /\ mem \in ImageOf(logged') /\ FilesOK'
      BY <1>5, <3>1, AppendType
    <3> HIDE DEF o
    <3>3. mem' \in ImageOf(logged')
      BY <3>1, <3>2, ApplyType
    <3>4. TypeOK'
      BY <1>2, <1>5, <3>1, <3>2, <3>3 DEF TypeOK, request, Savers
    <3>5. SnapOf(logged) \subseteq SnapOf(logged')
      BY <3>2, ImageGrows
    <3> QED  BY <1>5, <3>2, <3>3, <3>4, <3>5 DEF request
  <2> QED  BY <2>1, <2>2
<1>6. CASE DrainTouches
  BY <1>5, <1>6 DEF DrainTouches, saving, TypeOK
<1>7. CASE SaveStart
  BY <1>5, <1>7, CheckpointAssumption DEF SaveStart, TypeOK, CheckpointAssumption
<1>8. CASE PutPayload
  <2>1. cur \in logged
    BY <1>8 DEF PutPayload
  <2>2. mem' \in ImageOf(logged')
    BY <1>8, <2>1 DEF PutPayload, ImageOf
  <2>3. TypeOK'
    BY <1>2, <1>8, <2>2 DEF PutPayload, TypeOK, saving, disk, Clients
  <2> QED  BY <1>1, <1>8, <2>1, <2>2, <2>3 DEF PutPayload, saving, disk
<1>9. CASE PutCounted
  <2>1. TypeOK'
    BY <1>9 DEF PutCounted, TypeOK, saving, disk, Clients
  <2> QED  BY <1>1, <1>9, <2>1 DEF PutCounted, saving, disk
<1>10. CASE PutState
  <2>1. mem' \in ImageOf(logged')
    BY <1>10 DEF PutState, ImageOf
  <2>2. TypeOK'
    BY <1>2, <1>10, <2>1 DEF PutState, TypeOK, saving, disk, Clients
  <2> QED  BY <1>1, <1>10, <2>1, <2>2 DEF PutState, saving, disk
<1>11. CASE OutcomeApply
  <2>1. mem' \in ImageOf(logged')
    BY <1>11, ApplyType DEF OutcomeApply
  <2>2. TypeOK'
    BY <1>2, <1>11, <2>1 DEF OutcomeApply, TypeOK, saving, disk, Clients
  <2> QED  BY <1>1, <1>11, <2>1, <2>2 DEF OutcomeApply, saving, disk
<1>12. CASE Touch
  <2>1. TypeOK'
    BY <1>12 DEF Touch, TypeOK, request, saving, disk
  <2> QED  BY <1>1, <1>12, <2>1 DEF Touch, request, saving, disk
<1>13. CASE SaveCapture
  <2>1. TypeOK'
    BY <1>13 DEF SaveCapture, TypeOK, process, request, disk, Savers
  <2>2. Empty \in ImageOf(logged)
    BY DEF Empty, ImageOf
  <2>3. snap' \in SnapOf(logged)
    BY <1>13, <2>2 DEF SaveCapture, SnapOf, TypeOK
  <2> QED  BY <1>1, <1>13, <2>1, <2>3 DEF SaveCapture, process, request, disk
<1>14. CASE ClonePayloads
  <2>1. TypeOK'
    BY <1>14 DEF ClonePayloads, TypeOK, process, request, disk, Savers
  <2>2. snap' \in SnapOf(logged)
    BY <1>14 DEF ClonePayloads, SnapOf, ImageOf
  <2> QED  BY <1>1, <1>14, <2>1, <2>2 DEF ClonePayloads, process, request, disk
<1>15. CASE CloneStates
  <2>1. TypeOK'
    BY <1>15 DEF CloneStates, TypeOK, process, request, disk, Savers
  <2>2. snap' \in SnapOf(logged)
    BY <1>15 DEF CloneStates, SnapOf, ImageOf
  <2> QED  BY <1>1, <1>15, <2>1, <2>2 DEF CloneStates, process, request, disk
<1>16. CASE SavePld
  <2>1. snap \in SnapOf(logged) /\ snap.mutations \in Nat
        /\ [ids |-> snap.image.payloads, text |-> snap.image.text] \in PldOf(logged)
    BY <1>16 DEF SavePld, SnapOf, ImageOf, PldOf
  <2>2. TypeOK'
    BY <1>16, <2>1 DEF SavePld, TypeOK, request, Savers
  <2>3. FilesOK'
    BY <1>16, <2>1 DEF SavePld, FilesOK
  <2> QED  BY <1>16, <2>1, <2>2, <2>3 DEF SavePld, request, Bounded
<1>17. CASE SaveBody
  <2>1. snap \in SnapOf(logged) /\ snap.seqno \in Nat
        /\ [snap.image EXCEPT !.text = {}] \in ImageOf(logged)
    BY <1>17 DEF SaveBody, SnapOf, ImageOf
  <2>2. TypeOK'
    BY <1>17 DEF SaveBody, TypeOK, process, request, Savers
  <2>3. FilesOK'
    BY <1>17, <2>1 DEF SaveBody, FilesOK, BodyOf
  <2> QED  BY <1>17, <2>1, <2>2, <2>3 DEF SaveBody, process, request, Bounded
<1>18. CASE Commit
  <2>1. status = "up" /\ me \in Writers
    BY <1>18 DEF Commit, TypeOK
  <2>2. snap \in SnapOf(logged) /\ snap.seqno \in Nat /\ snap.covered \in Coverage
    BY <1>18 DEF Commit, SnapOf
  <2>3. snap.covered[me] \in Nat
    BY <2>1, <2>2 DEF Coverage
  <2>4. Max({snap.covered[me], snap.seqno}) \in Nat
    BY <2>2, <2>3, MaxTwo
  <2>5. [snap.covered EXCEPT ![me] = Max({@, snap.seqno})] \in Coverage
    BY <2>2, <2>4 DEF Coverage
  <2>6. TypeOK'
    BY <1>18 DEF Commit, TypeOK, process, request, Savers
  <2>7. FilesOK'
    BY <1>18, <2>2, <2>5 DEF Commit, FilesOK
  <2> QED  BY <1>18, <2>2, <2>6, <2>7 DEF Commit, process, request, Bounded
<1>19. CASE PruneWal
  <2>1. TypeOK'
    BY <1>19 DEF PruneWal, TypeOK, process, request, Savers
  <2>2. FilesOK'
    BY <1>19 DEF PruneWal, FilesOK
  <2> QED  BY <1>19, <2>1, <2>2 DEF PruneWal, process, request, Bounded
<1>20. CASE PruneFamilies
  <2>1. TypeOK'
    BY <1>20 DEF PruneFamilies, TypeOK, process, request, Savers
  <2>2. FilesOK'
    BY <1>20, KeepType DEF PruneFamilies, FilesOK
  <2> QED  BY <1>20, <2>1, <2>2 DEF PruneFamilies, process, request, Bounded
<1>21. CASE SaveFails
  <2>1. TypeOK'
    BY <1>21 DEF SaveFails, TypeOK, process, request, disk, Savers
  <2> QED  BY <1>1, <1>21, <2>1 DEF SaveFails, process, request, disk
<1>22. CASE Kill
  <2>1. mem' \in ImageOf(logged')
    BY <1>22 DEF Kill, Down, ImageOf, Empty
  <2>2. wal_coverage' \in Coverage
    BY <1>22 DEF Kill, Down, NoCover, Coverage
  <2>3. me' \in 0 .. MaxLives /\ next_seqno' \in Nat \ {0}
        /\ active' \in 1 .. next_seqno' /\ saves' \in 0 .. MaxSaves
    BY <1>22, CheckpointAssumption DEF Kill, Down, TypeOK, CheckpointAssumption
  <2>4. touches' \in BOOLEAN /\ pld_mutations' \in Nat
        /\ pld_saved_at' \in Nat \union {Never}
    BY <1>22 DEF Kill, Down
  <2>5. TypeOK'
    BY <1>2, <1>22, <2>1, <2>2, <2>3, <2>4
    DEF Kill, Down, TypeOK, disk, Savers, Clients
  <2> QED  BY <1>1, <1>22, <2>1, <2>5 DEF Kill, Down, disk
<1>23. CASE OpenFresh
  <2>1. Empty \in ImageOf(logged) /\ NoCover \in Coverage
    BY DEF Empty, ImageOf, NoCover, Coverage
  <2>2. Apply(Empty, wal) \in ImageOf(logged)
    BY <2>1, ApplyType DEF TypeOK
  <2>3. body' \in [Writers -> BodyOf(logged) \union {NoFile}]
        /\ pld' \in [Writers -> PldOf(logged) \union {NoFile}]
    BY <1>23 DEF OpenFresh, FilesOK
  <2> QED  BY <1>23, <2>1, <2>2, <2>3, StartType DEF OpenFresh
<1>24. CASE OpenFamily
  <2>1. CASE Chosen = {}
    <3>1. UNCHANGED <<me, process, request, saving, disk, logged>>
          /\ status' = "refused" /\ status = "down"
      BY <1>24, <2>1 DEF OpenFamily, Refuse
    <3>2. TypeOK'
      BY <3>1 DEF TypeOK, process, request, saving, disk
    <3> QED  BY <1>1, <3>1, <3>2 DEF process, request, saving, disk
  <2>2. CASE Chosen # {}
    <3>1. PICK w \in Chosen : Load(w)
      BY <1>24, <2>2 DEF OpenFamily
    <3> DEFINE img == Apply(Loaded(w), {o \in wal : ~Covered(o, w)})
               cov == IF Present(families[w]) THEN families[w].covered ELSE NoCover
    <3>2. w \in Writers /\ Present(body[w])
      BY <3>1 DEF Chosen, Loadable, Bodies
    <3>3. body[w] \in BodyOf(logged)
      BY <3>2 DEF FilesOK, Present
    <3>4. Loaded(w) \in ImageOf(logged) /\ body[w].seqno \in Nat
      BY <3>3 DEF Loaded, BodyOf, ImageOf
    <3>5. img \in ImageOf(logged)
      BY <3>4, ApplyType DEF TypeOK
    <3>6. cov \in Coverage
      BY <3>2 DEF FilesOK, NoCover, Coverage
    <3>7. Start(img, cov, body[w].seqno)
      BY <3>1 DEF Load
    <3>8. PICK k : KeepOnly(k)
      BY <3>1 DEF Load
    <3>9. body' \in [Writers -> BodyOf(logged) \union {NoFile}]
          /\ pld' \in [Writers -> PldOf(logged) \union {NoFile}]
      BY <3>8, KeepType
    <3>10. status = "down" /\ me < MaxLives
      BY <1>24 DEF OpenFamily
    <3> HIDE DEF img, cov
    <3> QED  BY <3>4, <3>5, <3>6, <3>7, <3>9, <3>10, StartType
  <2> QED  BY <2>1, <2>2
<1>25. CASE UNCHANGED vars
  <2>1. TypeOK'
    BY <1>25 DEF TypeOK, vars, process, request, saving, disk
  <2> QED  BY <1>1, <1>25, <2>1 DEF vars, process, request, saving, disk
<1> QED  BY <1>3, <1>4, <1>6, <1>7, <1>8, <1>9, <1>10, <1>11, <1>12, <1>13,
            <1>14, <1>15, <1>16, <1>17, <1>18, <1>19, <1>20, <1>21, <1>22,
            <1>23, <1>24, <1>25 DEF Next, Client, Saver

\* The process, its files and the manifest stay typed, and a process that is
\* not running has neither a request nor a save in flight: for every bound,
\* with saves under the RPC lock or not, whoever dies in the middle of one.
THEOREM Typed == Spec => []TypeOK
<1>1. Init => TInv
  BY TypeInit
<1>2. TInv /\ [Next]_vars => TInv'
  BY TypeStep
<1>3. TInv => TypeOK
  BY DEF TInv
<1> QED  BY <1>1, <1>2, <1>3, PTL DEF Spec
-----------------------------------------------------------------------------
(* The families that open() would choose                                    *)

FilesInv == BodyInv /\ FamilyInv /\ PrunedInv

LEMMA BodyTyped ==
    ASSUME TInv, NEW w \in Bodies
    PROVE  w \in Writers /\ body[w] \in BodyOf(logged) /\ body[w].seqno \in Nat
  BY DEF TInv, FilesOK, Bodies, Present, BodyOf

LEMMA HighestExists ==
    ASSUME TInv, BodyInv, NEW S \in SUBSET Bodies, S # {}
    PROVE  Highest(S) # {}
<1> DEFINE Q == {body[w].seqno : w \in S}
<1>1. PICK b \in Nat : \A o \in logged : o.n <= b
  BY DEF TInv, Bounded
<1>2. \A w \in S : body[w].seqno \in Nat /\ body[w].seqno <= b
  <2> SUFFICES ASSUME NEW w \in S
               PROVE  body[w].seqno \in Nat /\ body[w].seqno <= b
    OBVIOUS
  <2>1. w \in Writers /\ Present(body[w]) /\ body[w].seqno \in Nat
    BY BodyTyped DEF Bodies
  <2>2. Reached(body[w].seqno)
    BY <2>1 DEF BodyInv
  <2> QED  BY <1>1, <2>1, <2>2 DEF Reached
<1>3. Q \in SUBSET Nat /\ Q # {} /\ \A q \in Q : q <= b
  BY <1>2
<1>4. Max(Q) \in Q /\ \A q \in Q : q <= Max(Q)
  <2> HIDE DEF Q
  <2> QED  BY <1>1, <1>3, MaxOf
<1>5. PICK w \in S : body[w].seqno = Max(Q)
  BY <1>4
<1>6. \A v \in S : body[v].seqno <= body[w].seqno
  BY <1>4, <1>5
<1> QED  BY <1>5, <1>6 DEF Highest

\* Nothing changes for open() when no file does.
LEMMA FilesStay ==
    ASSUME FilesInv, UNCHANGED <<disk, me, logged>>, Overwriting => Overwriting'
    PROVE  FilesInv'
<1> USE DEF disk
<1>1. BodyInv'
  BY DEF FilesInv, BodyInv, Reached, Full, Upto
<1>2. FamilyInv'
  BY DEF FilesInv, FamilyInv, Committed, Valid
<1>3. Top' = Top /\ Bodies' = Bodies
  BY DEF Top, Highest, Committed, Bodies
<1>4. PrunedInv'
  BY <1>3 DEF FilesInv, PrunedInv, HoldsPruned
<1> QED  BY <1>1, <1>2, <1>4 DEF FilesInv

\* Keeping the newest bodies keeps, among those that open() would choose,
\* some that hold all that was pruned from the WAL.
LEMMA KeepNewest ==
    ASSUME TInv, FilesInv, ~Overwriting, NEW n \in Nat \ {0},
           NEW k \in Newest(n), KeepOnly(k), UNCHANGED <<wal, families, logged>>,
           me' >= me, me' \in Nat, ~Overwriting'
    PROVE  FilesInv' /\ Bodies' = k
<1> USE DEF FilesInv
<1>1. k \subseteq Bodies /\ \A i \in k, j \in Bodies \ k : body[i].seqno >= body[j].seqno
  BY DEF Newest
<1>2. \A w \in Writers : /\ w \in k => body'[w] = body[w] /\ pld'[w] = pld[w]
                         /\ w \notin k => body'[w] = NoFile /\ pld'[w] = NoFile
  BY DEF KeepOnly
<1>3. Bodies' = k
  BY <1>1, <1>2 DEF Bodies, Present
<1>4. \A w \in Bodies : w \in Writers /\ body[w].seqno \in Nat
  BY BodyTyped
<1>5. Bodies # {} => k # {}
  <2> SUFFICES ASSUME Bodies # {} PROVE k # {}
    OBVIOUS
  <2>1. IsFiniteSet(Writers)
    <3>1. 1 \in Int /\ MaxLives \in Int
      BY CheckpointAssumption DEF CheckpointAssumption
    <3> QED  BY <3>1, FS_Interval DEF Writers
  <2>2. IsFiniteSet(Bodies)
    BY <2>1, FS_Subset DEF Bodies
  <2>3. Cardinality(Bodies) \in Nat /\ Cardinality(Bodies) # 0
    BY <2>2, FS_CardinalityType, FS_EmptySet
  <2>4. Cardinality(k) # 0
    BY <2>3, MinTwo DEF Newest
  <2> QED  BY <2>4, FS_EmptySet
<1>6. BodyInv'
  <2> SUFFICES ASSUME NEW w \in Writers
      PROVE  (/\ w > me => /\ ~Present(body[w]) /\ ~Present(pld[w])
                           /\ ~Present(families[w])
              /\ Present(body[w]) =>
                   /\ Reached(body[w].seqno)
                   /\ Full(body[w].image, Upto(body[w].seqno))
                   /\ Present(pld[w]) /\ body[w].image.payloads \subseteq pld[w].text)'
    BY DEF BodyInv
  <2>1. w > me' => w > me
    BY DEF TInv, TypeOK, Writers
  <2>2. CASE w \in k
    BY <1>2, <2>1, <2>2 DEF BodyInv, Reached, Full, Upto
  <2>3. CASE w \notin k
    BY <1>2, <2>1, <2>3 DEF BodyInv, Present
  <2> QED  BY <2>2, <2>3
<1>7. Committed' = Committed \intersect k
  BY <1>1, <1>2 DEF Committed, Present, Bodies
<1>8. FamilyInv'
  <2> SUFFICES ASSUME NEW w \in Committed'
      PROVE  (/\ Valid(w) /\ families[w].seqno = body[w].seqno
              /\ \A v \in Writers : families[w].covered[v] <= families[w].seqno
              /\ \A o \in wal : o.n <= families[w].seqno
                                  => o.n <= families[w].covered[o.inst])'
    BY DEF FamilyInv
  <2>1. w \in k /\ w \in Committed /\ w \in Writers
    BY <1>7 DEF Committed
  <2>2. body'[w] = body[w] /\ pld'[w] = pld[w] /\ families'[w] = families[w]
    BY <1>2, <2>1
  <2> QED  BY <2>1, <2>2 DEF FamilyInv, Valid
<1>9. \A w \in Top' : HoldsPruned(w)'
  <2> SUFFICES ASSUME NEW w \in Top', NEW o \in logged \ wal
               PROVE  o.n <= body'[w].seqno
    BY DEF HoldsPruned
  <2> DEFINE Considered == IF Committed # {} THEN Committed ELSE Bodies
  <2>1. w \in k /\ w \in Bodies /\ body'[w] = body[w]
    BY <1>1, <1>2, <1>3, <1>4, <1>7 DEF Top, Highest
  <2>2. Considered \subseteq Bodies /\ Considered # {}
    BY <2>1 DEF Committed, Bodies
  <2>3. PICK h \in Highest(Considered) : TRUE
    BY <2>2, HighestExists
  <2>4. h \in Top /\ h \in Bodies
    BY <2>2, <2>3 DEF Top, Highest
  <2>5. o.n <= body[h].seqno
    BY <2>4 DEF PrunedInv, HoldsPruned
  <2>6. body[h].seqno <= body[w].seqno
    <3>1. CASE h \notin k
      BY <1>1, <1>4, <2>1, <2>4, <3>1
    <3>2. CASE h \in k /\ Committed' # {}
      <4>1. Committed # {} /\ h \in Committed'
        BY <1>7, <2>3, <3>2 DEF Highest
      <4> QED  BY <1>2, <1>4, <2>1, <2>4, <3>2, <4>1 DEF Top, Highest
    <3>3. CASE h \in k /\ Committed' = {}
      <4>1. h \in Bodies'
        BY <1>3, <3>3
      <4> QED  BY <1>2, <1>4, <2>1, <2>4, <3>3, <4>1 DEF Top, Highest
    <3> QED  BY <3>1, <3>2, <3>3
  <2>7. o.n \in Nat
    BY DEF TInv, TypeOK, Op
  <2> QED  BY <1>4, <2>1, <2>4, <2>5, <2>6, <2>7
<1>10. PrunedInv'
  BY <1>3, <1>5, <1>9 DEF PrunedInv
<1> QED  BY <1>3, <1>6, <1>8, <1>10

\* open() finds a family, and every family it may load is a top one.
LEMMA ChosenIsTop ==
    ASSUME TInv, FilesInv, ~Overwriting, Bodies # {}
    PROVE  Chosen # {} /\ Chosen \subseteq Top
<1> USE DEF FilesInv
<1>1. Loadable = Bodies
  BY DEF Loadable, BodyInv, Bodies
<1>2. {w \in Writers : Valid(w)} = Committed
  BY DEF Valid, Committed, FamilyInv
<1>3. \A w \in Committed : families[w].seqno = body[w].seqno /\ w \in Bodies
  BY DEF FamilyInv, Committed, Bodies
<1> DEFINE first == {i \in Committed : \A j \in Committed :
                        families[j].seqno <= families[i].seqno} \intersect Loadable
<1>4. first = Highest(Committed)
  BY <1>1, <1>3 DEF Highest
<1> HIDE DEF first
<1>5. Chosen = IF first # {} THEN first
               ELSE {i \in Loadable : \A j \in Loadable : body[j].seqno <= body[i].seqno}
  BY <1>2 DEF Chosen, first
<1>6. CASE Committed # {}
  <2>1. Highest(Committed) # {}
    BY <1>3, <1>6, HighestExists
  <2> QED  BY <1>4, <1>5, <1>6, <2>1 DEF Top
<1>7. CASE Committed = {}
  <2>1. first = {}
    BY <1>4, <1>7 DEF Highest
  <2>2. Chosen = Highest(Bodies)
    BY <1>1, <1>5, <2>1 DEF Highest
  <2> QED  BY <1>7, <2>2, HighestExists DEF Top
<1> QED  BY <1>6, <1>7
-----------------------------------------------------------------------------
(* The steps of a process whose saves hold the RPC lock                     *)

\* A new operation is above every body and in the WAL.
LEMMA AppendKeepsFiles ==
    ASSUME TInv, TInv', FilesInv, SeqnoInv, status = "up", NEW o \in Op,
           o.n = next_seqno, o.inst = me, AppendOp(o),
           UNCHANGED <<status, me, wal_coverage, body, pld, families>>,
           ~Overwriting, ~Overwriting'
    PROVE  FilesInv' /\ SeqnoInv'
<1>1. wal' = wal \union {o} /\ logged' = logged \union {o}
      /\ next_seqno' = next_seqno + 1
  BY DEF AppendOp
<1>2. next_seqno \in Nat
  BY DEF TInv, TypeOK
<1>3. \A w \in Bodies : body[w].seqno \in Nat /\ body[w].seqno < next_seqno
  BY BodyTyped DEF SeqnoInv
<1>4. \A w \in Bodies : Upto(body[w].seqno)' = Upto(body[w].seqno)
  BY <1>1, <1>2, <1>3 DEF Upto
<1>5. \A s : Reached(s) => Reached(s)'
  BY <1>1 DEF Reached
<1>6. BodyInv'
  BY <1>4, <1>5 DEF FilesInv, BodyInv, Bodies, Full
<1>7. Committed' = Committed /\ Bodies' = Bodies /\ Top' = Top
      /\ Committed \subseteq Bodies
  BY DEF Top, Highest, Committed, Bodies
<1>8. FamilyInv'
  <2> SUFFICES ASSUME NEW w \in Committed
      PROVE  (/\ Valid(w) /\ families[w].seqno = body[w].seqno
              /\ \A v \in Writers : families[w].covered[v] <= families[w].seqno
              /\ \A p \in wal : p.n <= families[w].seqno
                                  => p.n <= families[w].covered[p.inst])'
    BY <1>7 DEF FamilyInv
  <2>1. /\ Valid(w) /\ families[w].seqno = body[w].seqno
        /\ \A v \in Writers : families[w].covered[v] <= families[w].seqno
        /\ \A p \in wal : p.n <= families[w].seqno
                            => p.n <= families[w].covered[p.inst]
    BY DEF FilesInv, FamilyInv
  <2>2. Valid(w)'
    BY <2>1 DEF Valid
  <2>3. ~(o.n <= families[w].seqno)
    BY <1>2, <1>3, <1>7, <2>1
  <2> QED  BY <1>1, <2>1, <2>2, <2>3
<1>9. PrunedInv'
  <2>1. logged' \ wal' \subseteq logged \ wal
    BY <1>1
  <2> QED  BY <1>1, <1>7, <2>1 DEF FilesInv, PrunedInv, HoldsPruned
<1>10. SeqnoInv'
  <2>1. \A p \in logged' : p.n \in Nat /\ p.n < next_seqno'
    BY <1>1, <1>2 DEF SeqnoInv, TInv, TypeOK, Op
  <2>2. Reached(next_seqno - 1)'
    BY <1>1, <1>2 DEF Reached
  <2>3. \A w \in Bodies' : body'[w].seqno < next_seqno'
    BY <1>1, <1>2, <1>3, <1>7
  <2>4. \A v \in Writers : wal_coverage'[v] < next_seqno'
    BY <1>1, <1>2 DEF SeqnoInv, TInv, TypeOK, Coverage
  <2>5. \A p \in wal' : p.inst # me' => p.n <= wal_coverage'[p.inst]
    BY <1>1 DEF SeqnoInv
  <2> QED  BY <2>1, <2>2, <2>3, <2>4, <2>5 DEF SeqnoInv
<1> QED  BY <1>6, <1>8, <1>9, <1>10 DEF FilesInv

\* Memory, when the operation under way is logged but not yet applied.
LEMMA AppendKeepsMem ==
    ASSUME TInv, SeqnoInv, MemInv, PldInv, SaveInv, status = "up", client = "idle",
           saver = "idle", NEW kind \in {"put", "outcome"},
           cur' = NewOp(kind), AppendOp(NewOp(kind)),
           client' = IF kind = "put" THEN "put_logged" ELSE "outcome_logged",
           UNCHANGED <<status, me, mem, pld_mutations, pld_saved_at, saver, snap, pld>>
    PROVE  MemInv' /\ PldInv' /\ SaveInv'
<1> DEFINE o == NewOp(kind)
<1>1. o.kind = kind /\ o.n = next_seqno
  BY DEF NewOp
<1>2. o # NoOp
  BY <1>1 DEF NoOp
<1> HIDE DEF o
<1>3. logged' = logged \union {o}
  BY DEF AppendOp, o
<1>4. o \notin logged
  BY <1>1 DEF SeqnoInv, TInv, TypeOK, Op
<1>5. NoOp \notin logged
  BY DEF TInv, TypeOK, Op, NoOp
<1>6. cur = NoOp
  BY DEF MemInv
<1>7. logged' \ {cur'} = logged \ {cur}
  BY <1>3, <1>4, <1>5, <1>6 DEF o
<1>8. MemInv'
  BY <1>1, <1>2, <1>7 DEF MemInv, Putting, o
<1>9. PldInv'
  BY DEF PldInv
<1> QED  BY <1>8, <1>9 DEF SaveInv

\* The drain logs one touch and applies it: nothing is left to apply.
LEMMA DrainKeeps ==
    ASSUME TInv, TInv', FilesInv, SeqnoInv, MemInv, PldInv, status = "up", Drain,
           UNCHANGED <<status, me, wal_coverage, pld_mutations, pld_saved_at,
                       request, body, pld, families>>,
           ~Overwriting, ~Overwriting'
    PROVE  FilesInv' /\ SeqnoInv' /\ MemInv' /\ PldInv'
<1> USE DEF request
<1>1. CASE ~touches
  <2>1. UNCHANGED <<wal, logged, next_seqno, active, mem, touches>>
    BY <1>1 DEF Drain
  <2>2. FilesInv'
    BY <2>1, FilesStay DEF disk
  <2>3. SeqnoInv'
    BY <2>1 DEF SeqnoInv, Reached, Bodies
  <2>4. MemInv' /\ PldInv'
    BY <2>1 DEF MemInv, PldInv, Putting
  <2> QED  BY <2>2, <2>3, <2>4
<1>2. CASE touches
  <2> DEFINE o == NewOp("touch")
  <2>1. AppendOp(o) /\ mem' = Apply(mem, {o})
    BY <1>2 DEF Drain
  <2>2. o \in Op /\ o.n = next_seqno /\ o.inst = me /\ o.kind = "touch"
    BY DEF NewOp, Op, TInv, TypeOK
  <2> HIDE DEF o
  <2>3. FilesInv' /\ SeqnoInv'
    BY <2>1, <2>2, AppendKeepsFiles
  <2>4. logged' = logged \union {o} /\ o \notin logged
    BY <2>1, <2>2 DEF AppendOp, SeqnoInv, TInv, TypeOK, Op
  <2>5. cur # o /\ mem.effects \intersect {o} = {}
    BY <2>2, <2>4 DEF TInv, TypeOK, NoOp, ImageOf
  <2>6. Puts({o}) = {} /\ Additive({o}) = {o}
    BY <2>2 DEF Puts, Additive
  <2>7. /\ mem'.payloads = mem.payloads /\ mem'.text = mem.text
        /\ mem'.states = mem.states /\ mem'.doubled = mem.doubled
        /\ mem'.effects = mem.effects \union {o}
    BY <2>1, <2>5, <2>6 DEF Apply
  <2>8. /\ Puts(logged' \ {cur}) = Puts(logged \ {cur})
        /\ Additive(logged' \ {cur}) = Additive(logged \ {cur}) \union {o}
    BY <2>2, <2>4, <2>5 DEF Puts, Additive
  <2>9. MemInv' /\ PldInv'
    BY <2>7, <2>8 DEF MemInv, PldInv, Putting
  <2> QED  BY <2>3, <2>9
<1> QED  BY <1>1, <1>2

\* Where only the process moves, the files and the seqnos stay as they are.
LEMMA ProcessSteps ==
    ASSUME TInv, FilesInv, SeqnoInv,
           UNCHANGED <<status, me, wal_coverage, next_seqno, disk, logged>>,
           Overwriting => Overwriting'
    PROVE  FilesInv' /\ SeqnoInv'
<1>1. FilesInv'
  BY FilesStay
<1>2. SeqnoInv'
  BY DEF SeqnoInv, Reached, Bodies, disk
<1> QED  BY <1>1, <1>2

LEMMA ClientStep ==
    ASSUME Serialized, SInv, TInv', Client
    PROVE  SInv'
<1> USE DEF SInv
<1>0. FilesInv /\ (saver = "idle" => ~Overwriting)
  BY DEF FilesInv, Overwriting
<1>1. FilesInv' /\ SeqnoInv' /\ MemInv' /\ PldInv' /\ SaveInv' /\ status' # "refused"
        => SInv'
  BY DEF FilesInv
<1>2. CASE PutAppend \/ OutcomeAppend
  <2>1. PICK kind \in {"put", "outcome"} :
          /\ cur' = NewOp(kind) /\ AppendOp(NewOp(kind))
          /\ client' = IF kind = "put" THEN "put_logged" ELSE "outcome_logged"
    BY <1>2 DEF PutAppend, OutcomeAppend
  <2>2. /\ status = "up" /\ client = "idle" /\ saver = "idle"
        /\ UNCHANGED <<status, me, mem, wal_coverage, pld_mutations,
                       pld_saved_at, saver, snap, body, pld, families>>
    BY <1>2 DEF PutAppend, OutcomeAppend, MayStart, saving
  <2>3. ~Overwriting /\ ~Overwriting'
    BY <2>2 DEF Overwriting
  <2>4. NewOp(kind) \in Op /\ NewOp(kind).n = next_seqno /\ NewOp(kind).inst = me
    BY <2>2 DEF NewOp, Op, TInv, TypeOK
  <2>5. FilesInv' /\ SeqnoInv'
    BY <1>0, <2>1, <2>2, <2>3, <2>4, AppendKeepsFiles
  <2>6. MemInv' /\ PldInv' /\ SaveInv'
    BY <2>1, <2>2, AppendKeepsMem
  <2> QED  BY <1>1, <2>2, <2>5, <2>6
<1>3. CASE Touch
  <2>1. UNCHANGED <<status, me, mem, wal_coverage, next_seqno, pld_mutations,
                    pld_saved_at, client, cur, saver, snap, disk, logged>>
    BY <1>3 DEF Touch, request, saving
  <2>2. FilesInv' /\ SeqnoInv'
    BY <1>0, <2>1, ProcessSteps DEF Overwriting, disk
  <2>3. MemInv' /\ PldInv' /\ SaveInv'
    BY <2>1 DEF MemInv, PldInv, SaveInv, Putting, disk
  <2> QED  BY <1>1, <2>1, <2>2, <2>3
<1>4. ASSUME PutPayload \/ PutCounted \/ PutState \/ OutcomeApply
      PROVE  FilesInv' /\ SeqnoInv' /\ SaveInv' /\ status' # "refused"
             /\ status = "up" /\ cur \in logged /\ saver = "idle"
  <2>1. /\ client # "idle"
        /\ UNCHANGED <<status, me, wal_coverage, next_seqno, saver, disk, logged>>
    BY <1>4 DEF PutPayload, PutCounted, PutState, OutcomeApply, saving
  <2>2. saver = "idle" /\ saver' = "idle"
    BY <2>1 DEF SaveInv
  <2>3. SaveInv'
    BY <2>2 DEF SaveInv
  <2>4. FilesInv' /\ SeqnoInv'
    BY <1>0, <2>1, <2>2, ProcessSteps
  <2> QED  BY <2>1, <2>2, <2>3, <2>4 DEF TInv, TypeOK
<1>5. CASE PutPayload
  <2>1. /\ client = "put_logged" /\ client' = "put_inserted"
        /\ UNCHANGED <<status, me, pld_mutations, pld_saved_at, cur, pld, logged>>
    BY <1>5 DEF PutPayload, disk
  <2>2. /\ mem'.payloads = mem.payloads \union {cur}
        /\ mem'.text = mem.text \union {cur}
        /\ mem'.states = mem.states /\ mem'.effects = mem.effects
        /\ mem'.doubled = mem.doubled
    BY <1>5 DEF PutPayload, TInv, ImageOf
  <2>3. MemInv'
    BY <2>1, <2>2 DEF MemInv, Putting
  <2>4. PldInv'
    BY <2>1, <2>2 DEF PldInv
  <2> QED  BY <1>1, <1>4, <1>5, <2>3, <2>4
<1>6. CASE PutCounted
  <2>1. /\ client = "put_inserted" /\ client' = "put_counted"
        /\ pld_mutations' = pld_mutations + 1
        /\ UNCHANGED <<status, me, mem, pld_saved_at, cur, pld, logged>>
    BY <1>6 DEF PutCounted, disk
  <2>2. MemInv'
    BY <2>1 DEF MemInv, Putting
  <2>3. PldInv'
    BY <2>1 DEF PldInv, TInv, TypeOK, Never
  <2> QED  BY <1>1, <1>4, <1>6, <2>2, <2>3
<1>7. CASE PutState
  <2>1. /\ client = "put_counted" /\ client' = "idle" /\ cur' = NoOp
        /\ UNCHANGED <<status, me, pld_mutations, pld_saved_at, pld, logged>>
    BY <1>7 DEF PutState, disk
  <2>2. /\ mem'.payloads = mem.payloads /\ mem'.text = mem.text
        /\ mem'.states = mem.states \union {cur} /\ mem'.effects = mem.effects
        /\ mem'.doubled = mem.doubled
    BY <1>7 DEF PutState, TInv, ImageOf
  <2>3. cur \in logged /\ cur.kind = "put" /\ NoOp \notin logged
    BY <1>4, <1>7, <2>1 DEF MemInv, Putting, TInv, TypeOK, Op, NoOp
  <2>4. /\ Puts(logged \ {NoOp}) = Puts(logged \ {cur}) \union {cur}
        /\ Additive(logged \ {NoOp}) = Additive(logged \ {cur})
    BY <2>3 DEF Puts, Additive
  <2>5. MemInv'
    BY <2>1, <2>2, <2>4 DEF MemInv, Putting
  <2>6. PldInv'
    BY <2>1, <2>2 DEF PldInv
  <2> QED  BY <1>1, <1>4, <1>7, <2>5, <2>6
<1>8. CASE OutcomeApply
  <2>1. /\ client = "outcome_logged" /\ client' = "idle" /\ cur' = NoOp
        /\ mem' = Apply(mem, {cur})
        /\ UNCHANGED <<status, me, pld_mutations, pld_saved_at, pld, logged>>
    BY <1>8 DEF OutcomeApply, disk
  <2>2. cur \in logged /\ cur.kind = "outcome" /\ NoOp \notin logged
    BY <1>4, <1>8, <2>1 DEF MemInv, TInv, TypeOK, Op, NoOp
  <2>3. Puts({cur}) = {} /\ Additive({cur}) = {cur}
    BY <2>2 DEF Puts, Additive
  <2>4. status = "up" /\ mem.effects \intersect {cur} = {}
    BY <1>4, <1>8 DEF MemInv, Additive
  <2>5. /\ mem'.payloads = mem.payloads /\ mem'.text = mem.text
        /\ mem'.states = mem.states /\ mem'.doubled = mem.doubled
        /\ mem'.effects = mem.effects \union {cur}
    BY <2>1, <2>3, <2>4 DEF Apply
  <2>6. /\ Puts(logged \ {NoOp}) = Puts(logged \ {cur})
        /\ Additive(logged \ {NoOp}) = Additive(logged \ {cur}) \union {cur}
    BY <2>2 DEF Puts, Additive
  <2>7. MemInv'
    BY <2>1, <2>5, <2>6 DEF MemInv, Putting
  <2>8. PldInv'
    BY <2>1, <2>5 DEF PldInv
  <2> QED  BY <1>1, <1>4, <1>8, <2>7, <2>8
<1> QED  BY <1>2, <1>3, <1>5, <1>6, <1>7, <1>8 DEF Client

\* A save: nothing moves in memory while it runs, so what it wrote is all
\* that was logged when it began.
LEMMA SaverStep ==
    ASSUME Serialized, ~ResaveInterrupt, SInv, TInv', Saver
    PROVE  SInv'
<1> USE DEF SInv
<1>0. FilesInv
  BY DEF FilesInv
<1>1. FilesInv' /\ SeqnoInv' /\ MemInv' /\ PldInv' /\ SaveInv' /\ status' # "refused"
        => SInv'
  BY DEF FilesInv
<1>2. CASE DrainTouches
  <2>1. /\ status = "up" /\ Drain /\ saver = "idle" /\ saver' = "idle"
        /\ UNCHANGED <<status, me, wal_coverage, pld_mutations, pld_saved_at,
                       request, body, pld, families>>
    BY <1>2 DEF DrainTouches, saving
  <2>2. FilesInv' /\ SeqnoInv' /\ MemInv' /\ PldInv'
    BY <1>0, <2>1, DrainKeeps DEF Overwriting
  <2>3. SaveInv'
    BY <2>1 DEF SaveInv
  <2> QED  BY <1>1, <2>1, <2>2, <2>3
<1>3. CASE SaveStart
  <2>1. /\ status = "up" /\ Drain /\ saver = "idle" /\ saver' = "drained"
        /\ client = "idle"
        /\ UNCHANGED <<status, me, wal_coverage, pld_mutations, pld_saved_at,
                       request, body, pld, families>>
    BY <1>3 DEF SaveStart
  <2>2. FilesInv' /\ SeqnoInv' /\ MemInv' /\ PldInv'
    BY <1>0, <2>1, DrainKeeps DEF Overwriting
  <2>3. SaveInv'
    BY <2>1 DEF SaveInv, request
  <2> QED  BY <1>1, <2>1, <2>2, <2>3
<1>4. ASSUME SaveCapture \/ ClonePayloads \/ CloneStates \/ SaveFails
      PROVE  FilesInv' /\ SeqnoInv' /\ MemInv' /\ PldInv' /\ status' # "refused"
  <2>1. /\ UNCHANGED <<status, me, process, request, disk, logged>>
        /\ saver' \notin {"pld_saved", "body_saved"} /\ ~Overwriting
    BY <1>4 DEF SaveCapture, ClonePayloads, CloneStates, SaveFails, Overwriting
  <2>2. FilesInv' /\ SeqnoInv'
    BY <1>0, <2>1, ProcessSteps DEF process
  <2>3. MemInv' /\ PldInv'
    BY <2>1 DEF MemInv, PldInv, Putting, process, request, disk
  <2> QED  BY <2>1, <2>2, <2>3
<1>5. CASE SaveCapture
  <2>1. SaveInv'
    BY <1>5 DEF SaveCapture, SaveInv, process, request
  <2> QED  BY <1>1, <1>4, <1>5, <2>1
<1>6. CASE ClonePayloads
  <2>1. snap \in SnapOf(logged)
    BY <1>6 DEF ClonePayloads, TInv
  <2>2. /\ snap'.seqno = snap.seqno /\ snap'.covered = snap.covered
        /\ snap'.mutations = snap.mutations
        /\ snap'.image.payloads = mem.payloads /\ snap'.image.text = mem.text
    BY <1>6, <2>1 DEF ClonePayloads, SnapOf, ImageOf
  <2>3. SaveInv'
    BY <1>6, <2>2 DEF ClonePayloads, SaveInv, process, request
  <2> QED  BY <1>1, <1>4, <1>6, <2>3
<1>7. CASE CloneStates
  <2>1. snap \in SnapOf(logged)
    BY <1>7 DEF CloneStates, TInv
  <2>2. /\ snap'.seqno = snap.seqno /\ snap'.covered = snap.covered
        /\ snap'.mutations = snap.mutations
        /\ snap'.image.payloads = snap.image.payloads
        /\ snap'.image.text = snap.image.text
        /\ snap'.image.states = mem.states /\ snap'.image.effects = mem.effects
        /\ snap'.image.doubled = mem.doubled
    BY <1>7, <2>1 DEF CloneStates, SnapOf, ImageOf
  <2>3. SaveInv'
    BY <1>7, <2>2 DEF CloneStates, SaveInv, process, request
  <2> QED  BY <1>1, <1>4, <1>7, <2>3
<1>8. CASE SaveFails
  <2>1. SaveInv'
    BY <1>8 DEF SaveFails, SaveInv
  <2> QED  BY <1>1, <1>4, <1>8, <2>1
<1>9. CASE SavePld
  <2>1. /\ saver = "cloned" /\ saver' = "pld_saved" /\ status = "up"
        /\ me \in Writers /\ client = "idle"
        /\ UNCHANGED <<status, me, mem, wal_coverage, next_seqno, touches,
                       pld_mutations, request, snap, wal, body, families, logged>>
    BY <1>9 DEF SavePld, TInv, TypeOK, SaveInv
  <2>2. /\ snap.mutations = pld_mutations /\ snap.image.text = mem.text
        /\ mem.payloads = mem.text
    BY <2>1 DEF SaveInv, MemInv
  <2>3. /\ Present(pld'[me]) /\ mem.payloads \subseteq pld'[me].text
        /\ \A w \in Writers : w # me => pld'[w] = pld[w]
        /\ pld_saved_at' = pld_mutations
    <3>1. CASE PldClean /\ UNCHANGED <<pld, pld_saved_at>>
      BY <2>1, <2>2, <3>1 DEF PldClean, PldInv
    <3>2. CASE /\ pld' = [pld EXCEPT ![me] = [ids |-> snap.image.payloads,
                                              text |-> snap.image.text]]
               /\ pld_saved_at' = snap.mutations
      <4>1. pld'[me] = [ids |-> snap.image.payloads, text |-> snap.image.text]
            /\ \A w \in Writers : w # me => pld'[w] = pld[w]
        BY <2>1, <3>2 DEF TInv, FilesOK
      <4>2. Present(pld'[me])
        BY <4>1 DEF Present, NoFile
      <4> QED  BY <2>2, <3>2, <4>1, <4>2
    <3> QED  BY <1>9, <3>1, <3>2 DEF SavePld
  <2>4. BodyInv'
    <3> SUFFICES ASSUME NEW w \in Writers
        PROVE  (/\ w > me => /\ ~Present(body[w]) /\ ~Present(pld[w])
                             /\ ~Present(families[w])
                /\ Present(body[w]) =>
                     /\ Reached(body[w].seqno)
                     /\ Full(body[w].image, Upto(body[w].seqno))
                     /\ Present(pld[w])
                     /\ body[w].image.payloads \subseteq pld[w].text)'
      BY DEF BodyInv
    <3>1. CASE w # me
      BY <2>1, <2>3, <3>1 DEF BodyInv, Reached, Full, Upto
    <3>2. CASE w = me
      <4>1. Present(body[w]) => body[w].image.payloads \subseteq mem.payloads
        <5>1. logged \ {cur} = logged
          BY <2>1 DEF MemInv, TInv, TypeOK, Op, NoOp
        <5>2. mem.payloads = Puts(logged)
          BY <2>1, <5>1 DEF MemInv
        <5> QED  BY <3>2, <5>2 DEF BodyInv, Full, Puts, Upto
      <4> QED  BY <2>1, <2>3, <3>2, <4>1 DEF BodyInv, Reached, Full, Upto, TInv, TypeOK
    <3> QED  BY <3>1, <3>2
  <2>5. Committed' = Committed /\ Bodies' = Bodies /\ Top' = Top
    BY <2>1 DEF Top, Highest, Committed, Bodies
  <2>6. Overwriting' <=> Present(families[me])
    BY <2>1 DEF Overwriting
  <2>7. FamilyInv'
    <3> SUFFICES ASSUME NEW w \in Committed, w # me
        PROVE  (/\ Valid(w) /\ families[w].seqno = body[w].seqno
                /\ \A v \in Writers : families[w].covered[v] <= families[w].seqno
                /\ \A p \in wal : p.n <= families[w].seqno
                                    => p.n <= families[w].covered[p.inst])'
      BY <2>1, <2>5, <2>6 DEF FamilyInv, Committed
    <3>1. w \in Writers /\ pld'[w] = pld[w]
      BY <2>3 DEF Committed
    <3> QED  BY <2>1, <3>1 DEF FamilyInv, Valid
  <2>8. PrunedInv'
    <3>1. ~Overwriting
      BY <2>1 DEF Overwriting
    <3> QED  BY <2>1, <2>5, <3>1 DEF PrunedInv, HoldsPruned
  <2>9. SeqnoInv' /\ MemInv'
    BY <2>1, <2>5 DEF SeqnoInv, MemInv, Putting, Reached, request
  <2>10. PldInv'
    BY <2>1, <2>3 DEF PldInv, TInv, TypeOK
  <2>11. SaveInv'
    BY <2>1, <2>3 DEF SaveInv, request
  <2> QED  BY <1>1, <2>1, <2>4, <2>7, <2>8, <2>9, <2>10, <2>11 DEF FilesInv
<1>10. CASE SaveBody
  <2> DEFINE new == [seqno |-> snap.seqno, image |-> [snap.image EXCEPT !.text = {}]]
  <2>1. /\ saver = "pld_saved" /\ saver' = "body_saved" /\ status = "up"
        /\ me \in Writers /\ client = "idle" /\ snap \in SnapOf(logged)
        /\ UNCHANGED <<status, me, process, request, snap, wal, pld, families, logged>>
    BY <1>10 DEF SaveBody, TInv, TypeOK, SaveInv
  <2>2. body'[me] = new /\ \A w \in Writers : w # me => body'[w] = body[w]
    BY <1>10, <2>1 DEF SaveBody, TInv, FilesOK
  <2>3. /\ new.seqno = next_seqno - 1
        /\ new.image.payloads = mem.payloads /\ new.image.states = mem.states
        /\ new.image.effects = mem.effects /\ new.image.doubled = {}
    BY <2>1 DEF SaveInv, MemInv, SnapOf, ImageOf
  <2>4. Present(new)
    BY DEF Present, NoFile
  <2> HIDE DEF new
  <2>5. Upto(new.seqno) = logged /\ Reached(new.seqno)
    BY <2>1, <2>3 DEF SeqnoInv, Upto, TInv, TypeOK, Op
  <2>6. Full(new.image, Upto(new.seqno))
    <3>1. logged \ {cur} = logged
      BY <2>1 DEF MemInv, TInv, TypeOK, Op, NoOp
    <3> QED  BY <2>1, <2>3, <2>5, <3>1 DEF MemInv, Full
  <2>7. BodyInv'
    <3> SUFFICES ASSUME NEW w \in Writers
        PROVE  (/\ w > me => /\ ~Present(body[w]) /\ ~Present(pld[w])
                             /\ ~Present(families[w])
                /\ Present(body[w]) =>
                     /\ Reached(body[w].seqno)
                     /\ Full(body[w].image, Upto(body[w].seqno))
                     /\ Present(pld[w])
                     /\ body[w].image.payloads \subseteq pld[w].text)'
      BY DEF BodyInv
    <3>1. CASE w # me
      BY <2>1, <2>2, <3>1 DEF BodyInv, Reached, Full, Upto
    <3>2. CASE w = me
      <4>1. Present(pld[me]) /\ mem.payloads \subseteq pld[me].text
        BY <2>1 DEF SaveInv
      <4>2. ~(w > me)
        BY <3>2 DEF TInv, TypeOK
      <4> QED  BY <2>1, <2>2, <2>3, <2>5, <2>6, <3>2, <4>1, <4>2
               DEF Reached, Full, Upto
    <3> QED  BY <3>1, <3>2
  <2>8. /\ Overwriting' <=> Present(families[me])
        /\ Overwriting <=> Present(families[me])
    BY <2>1 DEF Overwriting
  <2>9. FamilyInv'
    <3> SUFFICES ASSUME NEW w \in Committed', w # me
        PROVE  (/\ Valid(w) /\ families[w].seqno = body[w].seqno
                /\ \A v \in Writers : families[w].covered[v] <= families[w].seqno
                /\ \A p \in wal : p.n <= families[w].seqno
                                    => p.n <= families[w].covered[p.inst])'
      BY <2>1, <2>8 DEF FamilyInv, Committed
    <3>1. w \in Writers /\ body'[w] = body[w] /\ w \in Committed
      BY <2>1, <2>2 DEF Committed
    <3> QED  BY <2>1, <3>1 DEF FamilyInv, Valid
  <2>10. PrunedInv'
    <3>1. Bodies' = Bodies \union {me} /\ Bodies' # {}
      BY <2>1, <2>2, <2>4 DEF Bodies
    <3>2. ASSUME ~Present(families[me]), NEW w \in Top'
          PROVE  HoldsPruned(w)'
      <4>1. Committed' = Committed /\ me \notin Committed
        BY <2>1, <2>2, <3>2 DEF Committed
      <4>2. CASE Committed # {}
        <5>1. w \in Top /\ w \in Writers /\ w # me
          BY <2>2, <3>2, <4>1, <4>2 DEF Top, Highest, Committed
        <5>2. HoldsPruned(w)
          BY <2>8, <3>2, <5>1 DEF PrunedInv
        <5> QED  BY <2>1, <2>2, <5>1, <5>2 DEF HoldsPruned
      <4>3. CASE Committed = {}
        <5>1. w \in Writers /\ body'[me].seqno <= body'[w].seqno
          BY <3>1, <3>2, <4>1, <4>3 DEF Top, Highest, Bodies
        <5>2. next_seqno - 1 <= body'[w].seqno
          BY <2>2, <2>3, <5>1
        <5>3. w \in Bodies'
          BY <3>2, <4>1, <4>3 DEF Top, Highest
        <5>4. body'[w].seqno \in Nat
          <6>1. (TInv /\ w \in Bodies => body[w].seqno \in Nat)'
            BY DEF TInv, FilesOK, Bodies, Present, BodyOf
          <6> QED  BY <5>3, <6>1
        <5>5. \A o \in logged : o.n \in Nat /\ o.n < next_seqno
          BY <2>1 DEF SeqnoInv, TInv, TypeOK, Op
        <5> QED  BY <2>1, <5>2, <5>4, <5>5 DEF HoldsPruned, TInv, TypeOK
      <4> QED  BY <4>2, <4>3
    <3> QED  BY <2>8, <3>1, <3>2 DEF PrunedInv
  <2>11. SeqnoInv'
    <3>1. \A w \in Bodies' : w = me \/ w \in Bodies
      BY <2>2 DEF Bodies
    <3>2. \A w \in Bodies' : body'[w].seqno < next_seqno
      BY <2>1, <2>2, <2>3, <3>1 DEF SeqnoInv, Bodies, TInv, TypeOK
    <3> QED  BY <2>1, <3>2 DEF SeqnoInv, Reached, process
  <2>12. MemInv' /\ PldInv'
    BY <2>1 DEF MemInv, PldInv, Putting, process, request
  <2>13. SaveInv'
    BY <2>1, <2>2, <2>4 DEF SaveInv, process, request, new
  <2> QED  BY <1>1, <2>1, <2>7, <2>9, <2>10, <2>11, <2>12, <2>13 DEF FilesInv
<1>11. CASE Commit
  <2>1. /\ saver = "body_saved" /\ saver' = "committed" /\ status = "up"
        /\ me \in Writers /\ client = "idle" /\ snap \in SnapOf(logged)
        /\ UNCHANGED <<status, me, process, request, snap, wal, body, pld, logged>>
    BY <1>11 DEF Commit, TInv, TypeOK, SaveInv
  <2> DEFINE new == [seqno    |-> snap.seqno,
                     bodySize |-> BodySize(body[me]), pldSize |-> PldSize(pld[me]),
                     covered  |-> [snap.covered EXCEPT ![me] = Max({@, snap.seqno})],
                     segments |-> Sealed]
  <2>2. families'[me] = new /\ \A w \in Writers : w # me => families'[w] = families[w]
    BY <1>11, <2>1 DEF Commit, TInv, FilesOK
  <2>3. /\ new.seqno = snap.seqno /\ new.bodySize = BodySize(body[me])
        /\ new.pldSize = PldSize(pld[me])
        /\ new.covered = [snap.covered EXCEPT ![me] = Max({@, snap.seqno})]
    OBVIOUS
  <2>4. Present(new)
    BY DEF Present, NoFile
  <2> HIDE DEF new
  <2>5. /\ Present(body[me]) /\ body[me].seqno = snap.seqno
        /\ snap.seqno = next_seqno - 1 /\ snap.covered = wal_coverage
    BY <2>1 DEF SaveInv
  <2>6. /\ snap.seqno \in Nat /\ wal_coverage \in Coverage
        /\ \A o \in logged : o.n \in Nat /\ o.inst \in Writers /\ o.n <= snap.seqno
        /\ \A v \in Writers : wal_coverage[v] \in Nat /\ wal_coverage[v] <= snap.seqno
    BY <2>1, <2>5 DEF SnapOf, SeqnoInv, TInv, TypeOK, Op, Coverage
  <2>7. Max({wal_coverage[me], snap.seqno}) = snap.seqno
    <3> DEFINE a == wal_coverage[me]
               m == Max({a, snap.seqno})
    <3>1. a \in Nat /\ a <= snap.seqno
      BY <2>1, <2>6
    <3>2. m \in {a, snap.seqno} /\ snap.seqno <= m
      BY <2>6, <3>1, MaxTwo
    <3> HIDE DEF a, m
    <3>3. m = snap.seqno
      BY <2>6, <3>1, <3>2
    <3> QED  BY <3>3 DEF a, m
  <2>8. new.covered[me] = snap.seqno
        /\ \A v \in Writers : v # me => new.covered[v] = wal_coverage[v]
    BY <2>1, <2>3, <2>5, <2>6, <2>7 DEF Coverage
  <2>9. /\ Committed' = Committed \union {me} /\ Bodies' = Bodies
        /\ ~Overwriting' /\ (\A w \in Committed : w # me => ~(w = me /\ Overwriting))
    BY <2>1, <2>2, <2>4, <2>5 DEF Committed, Bodies, Overwriting
  <2>10. BodyInv'
    <3> SUFFICES ASSUME NEW w \in Writers
        PROVE  (/\ w > me => /\ ~Present(body[w]) /\ ~Present(pld[w])
                             /\ ~Present(families[w])
                /\ Present(body[w]) =>
                     /\ Reached(body[w].seqno)
                     /\ Full(body[w].image, Upto(body[w].seqno))
                     /\ Present(pld[w])
                     /\ body[w].image.payloads \subseteq pld[w].text)'
      BY DEF BodyInv
    <3>1. w > me => families'[w] = families[w]
      BY <2>2 DEF TInv, TypeOK
    <3> QED  BY <2>1, <3>1 DEF BodyInv, Reached, Full, Upto
  <2>11. FamilyInv'
    <3> SUFFICES ASSUME NEW w \in Committed'
        PROVE  (/\ Valid(w) /\ families[w].seqno = body[w].seqno
                /\ \A v \in Writers : families[w].covered[v] <= families[w].seqno
                /\ \A p \in wal : p.n <= families[w].seqno
                                    => p.n <= families[w].covered[p.inst])'
      BY DEF FamilyInv
    <3>1. CASE w # me
      <4>1. w \in Committed /\ families'[w] = families[w]
        BY <2>2, <2>9, <3>1 DEF Committed
      <4> QED  BY <2>1, <3>1, <4>1 DEF FamilyInv, Valid
    <3>2. CASE w = me
      <4>1. Valid(me)'
        BY <2>1, <2>2, <2>3, <2>4, <2>5 DEF Valid
      <4>2. families'[me].seqno = body'[me].seqno
        BY <2>1, <2>2, <2>3, <2>5
      <4>3. \A v \in Writers : new.covered[v] <= new.seqno
        BY <2>3, <2>6, <2>8
      <4>4. \A p \in wal : p.n <= new.covered[p.inst]
        <5> SUFFICES ASSUME NEW p \in wal PROVE p.n <= new.covered[p.inst]
          OBVIOUS
        <5>1. p \in logged
          BY DEF TInv, TypeOK
        <5>2. CASE p.inst = me
          BY <2>6, <2>8, <5>1, <5>2
        <5>3. CASE p.inst # me
          BY <2>1, <2>6, <2>8, <5>1, <5>3 DEF SeqnoInv
        <5> QED  BY <5>2, <5>3
      <4> QED  BY <2>1, <2>2, <3>2, <4>1, <4>2, <4>3, <4>4
    <3> QED  BY <3>1, <3>2
  <2>12. PrunedInv'
    <3> SUFFICES ASSUME NEW w \in Top' PROVE HoldsPruned(w)'
      BY <2>5, <2>1, <2>9 DEF PrunedInv, Bodies
    <3>1. w \in Bodies /\ body[me].seqno <= body[w].seqno
      BY <2>1, <2>5, <2>9 DEF Top, Highest, Committed, Bodies
    <3>2. body[w].seqno \in Nat
      BY <3>1, BodyTyped
    <3> QED  BY <2>1, <2>5, <2>6, <3>1, <3>2 DEF HoldsPruned
  <2>13. SeqnoInv' /\ MemInv' /\ PldInv'
    BY <2>1, <2>9 DEF SeqnoInv, Reached, MemInv, PldInv, Putting, process, request
  <2>14. SaveInv'
    BY <2>1, <2>2, <2>4, <2>5 DEF SaveInv, process, request
  <2> QED  BY <1>1, <2>1, <2>10, <2>11, <2>12, <2>13, <2>14 DEF FilesInv
<1>12. CASE PruneWal
  <2>1. /\ saver = "committed" /\ saver' = "wal_pruned" /\ status = "up"
        /\ me \in Writers /\ Present(body[me]) /\ Present(families[me])
        /\ UNCHANGED <<status, me, process, request, snap, body, pld, families, logged>>
    BY <1>12 DEF PruneWal, TInv, TypeOK, SaveInv
  <2>2. me \in Committed /\ ~Overwriting /\ ~Overwriting' /\ me \in Bodies
    BY <2>1 DEF Committed, Overwriting, Bodies
  <2>3. /\ families[me].seqno = body[me].seqno /\ body[me].seqno \in Nat
        /\ \A v \in Writers : families[me].covered[v] <= families[me].seqno
                              /\ families[me].covered[v] \in Nat
    BY <2>1, <2>2, BodyTyped DEF FamilyInv, TInv, FilesOK, Coverage
  <2>4. wal' \subseteq wal
        /\ \A o \in wal \ wal' : o.n <= families[me].covered[o.inst]
    BY <1>12 DEF PruneWal, CoveredSegment
  <2>5. \A o \in wal \ wal' : o.n <= body[me].seqno
    BY <2>3, <2>4 DEF TInv, TypeOK, Op
  <2>6. BodyInv'
    BY <2>1 DEF BodyInv, Reached, Full, Upto
  <2>7. FamilyInv'
    BY <2>1, <2>2, <2>4 DEF FamilyInv, Committed, Valid
  <2>8. PrunedInv'
    <3>1. Top' = Top /\ Bodies' = Bodies
      BY <2>1 DEF Top, Highest, Committed, Bodies
    <3>2. ASSUME NEW w \in Top, NEW o \in logged \ wal' PROVE o.n <= body[w].seqno
      <4>1. body[me].seqno <= body[w].seqno /\ w \in Bodies
        BY <2>2 DEF Top, Highest, Committed, Bodies
      <4>2. body[w].seqno \in Nat /\ o.n \in Nat
        BY <4>1, BodyTyped DEF TInv, TypeOK, Op
      <4>3. CASE o \in wal
        BY <2>3, <2>5, <4>1, <4>2, <4>3
      <4>4. CASE o \notin wal
        BY <2>2, <4>4 DEF PrunedInv, HoldsPruned
      <4> QED  BY <4>3, <4>4
    <3> QED  BY <2>1, <2>2, <3>1, <3>2 DEF PrunedInv, HoldsPruned
  <2>9. SeqnoInv'
    BY <2>1, <2>4 DEF SeqnoInv, Reached, Bodies, process
  <2>10. MemInv' /\ PldInv' /\ SaveInv'
    BY <2>1 DEF MemInv, PldInv, SaveInv, Putting, process, request
  <2> QED  BY <1>1, <2>1, <2>6, <2>7, <2>8, <2>9, <2>10 DEF FilesInv
<1>13. CASE PruneFamilies
  <2>1. /\ saver = "wal_pruned" /\ saver' = "idle" /\ status = "up"
        /\ UNCHANGED <<status, me, process, request, wal, families, logged>>
    BY <1>13 DEF PruneFamilies, TInv, TypeOK
  <2>2. ~Overwriting /\ ~Overwriting' /\ me \in Nat /\ 2 \in Nat \ {0}
    BY <2>1 DEF Overwriting, TInv, TypeOK
  <2>3. PICK k \in Newest(2) : KeepOnly(k)
    BY <1>13 DEF PruneFamilies
  <2>4. FilesInv' /\ Bodies' = k
    BY <1>0, <2>1, <2>2, <2>3, KeepNewest
  <2>5. \A w \in Writers : /\ w \in k => body'[w] = body[w] /\ pld'[w] = pld[w]
                           /\ w \notin k => body'[w] = NoFile /\ pld'[w] = NoFile
    BY <2>3 DEF KeepOnly
  <2>6. k \subseteq Bodies
    BY <2>3 DEF Newest
  <2>7. SeqnoInv'
    BY <2>1, <2>4, <2>5, <2>6 DEF SeqnoInv, Reached, Bodies, process
  <2>8. MemInv'
    BY <2>1 DEF MemInv, Putting, process, request
  <2>9. PldInv'
    BY <2>1, <2>5 DEF PldInv, Present, TInv, process, request
  <2>10. SaveInv'
    BY <2>1 DEF SaveInv
  <2> QED  BY <1>1, <2>1, <2>4, <2>7, <2>8, <2>9, <2>10
<1> QED  BY <1>2, <1>3, <1>5, <1>6, <1>7, <1>8, <1>9, <1>10, <1>11, <1>12,
            <1>13 DEF Saver

LEMMA KillStep ==
    ASSUME ~ResaveInterrupt, SInv, TInv', Kill
    PROVE  SInv'
<1> USE DEF SInv
<1>1. ~Overwriting /\ UNCHANGED <<disk, me, logged>> /\ status' = "down"
      /\ mem' = Empty /\ client' = "idle" /\ cur' = NoOp /\ saver' = "idle"
      /\ pld_mutations' = 0 /\ pld_saved_at' = Never
  BY DEF Kill, Down
<1>2. FilesInv'
  BY <1>1, FilesStay DEF FilesInv
<1>3. SeqnoInv' /\ PldInv' /\ SaveInv'
  BY <1>1 DEF SeqnoInv, PldInv, SaveInv, Never
<1>4. MemInv'
  BY <1>1 DEF MemInv, Empty, Putting
<1> QED  BY <1>1, <1>2, <1>3, <1>4 DEF FilesInv

\* The new process, once it holds all that was logged: image is what it
\* loaded and replayed, s the seqno of what it loaded.
LEMMA StartStep ==
    ASSUME SInv, TInv', status = "down", me < MaxLives,
           NEW image, NEW covered \in Coverage, NEW s \in Nat,
           Start(image, covered, s), FilesInv', Bodies' \subseteq Bodies,
           \A w \in Bodies' : body'[w] = body[w],
           Full(image, logged), image.text = image.payloads,
           \A v \in Writers : covered[v] <= s,
           Reached(s), \A o \in logged \ wal : o.n <= s,
           \A w \in Writers : w > me => ~Present(pld'[w])
    PROVE  SInv'
<1> USE DEF SInv
<1>1. /\ status' = "up" /\ me' = me + 1 /\ mem' = image
      /\ UNCHANGED <<pld_mutations, pld_saved_at, client, cur, saver, wal, logged>>
      /\ wal_coverage' = [w \in Writers |-> Max({covered[w], Walked(w)})]
      /\ next_seqno' = TopSeqno(s) + 1
  BY DEF Start, request, saving
<1>2. client = "idle" /\ saver = "idle" /\ cur = NoOp /\ NoOp \notin logged
  BY DEF TInv, TypeOK, MemInv, NoOp, Op
<1>3. me \in Nat /\ me + 1 \in Writers /\ me + 1 > me
  BY CheckpointAssumption DEF TInv, TypeOK, Writers, CheckpointAssumption
<1>4. /\ TopSeqno(s) \in Nat /\ s <= TopSeqno(s)
      /\ \A o \in wal : o.n <= TopSeqno(s)
      /\ TopSeqno(s) = s \/ \E o \in wal : TopSeqno(s) = o.n
  BY TopSeqnoIs
<1>5. \A o \in logged : o.n \in Nat /\ o.inst \in Writers /\ o.n <= TopSeqno(s)
  BY <1>4 DEF TInv, TypeOK, Op
<1>6. \A v \in Writers : /\ wal_coverage'[v] <= TopSeqno(s)
                         /\ \A o \in wal : o.inst = v => o.n <= wal_coverage'[v]
  <2> SUFFICES ASSUME NEW v \in Writers
               PROVE  /\ wal_coverage'[v] <= TopSeqno(s)
                      /\ \A o \in wal : o.inst = v => o.n <= wal_coverage'[v]
    OBVIOUS
  <2> DEFINE c == covered[v]
             x == Walked(v)
             m == Max({c, x})
  <2>1. wal_coverage'[v] = m
    BY <1>1
  <2>2. c \in Nat /\ c <= TopSeqno(s)
    BY <1>4 DEF Coverage
  <2>3. /\ x \in Nat /\ x <= TopSeqno(s)
        /\ \A o \in wal : o.inst = v => o.n <= x
    BY <1>4, WalkedIs
  <2>4. m \in {c, x} /\ x <= m
    BY <2>2, <2>3, MaxTwo
  <2>5. \A o \in wal : o.n \in Nat
    BY <1>5 DEF TInv, TypeOK
  <2> HIDE DEF c, x, m
  <2>6. m <= TopSeqno(s) /\ \A o \in wal : o.inst = v => o.n <= m
    BY <2>2, <2>3, <2>4, <2>5
  <2> QED  BY <2>1, <2>6
<1>7. SeqnoInv'
  <2>1. \A o \in logged' : o.n < next_seqno'
    BY <1>1, <1>4, <1>5
  <2>2. next_seqno' - 1 = TopSeqno(s)
    BY <1>1, <1>4
  <2>3. Reached(next_seqno - 1)'
    <3>1. TopSeqno(s) = 0 \/ \E o \in logged : o.n = TopSeqno(s)
      BY <1>4 DEF Reached, TInv, TypeOK
    <3> QED  BY <1>1, <2>2, <3>1 DEF Reached
  <2>4. \A w \in Bodies' : body'[w].seqno < next_seqno'
    <3> SUFFICES ASSUME NEW w \in Bodies' PROVE body'[w].seqno < next_seqno'
      OBVIOUS
    <3>1. w \in Bodies /\ body'[w] = body[w]
      OBVIOUS
    <3>2. Reached(body[w].seqno) /\ body[w].seqno \in Nat
      BY <3>1, BodyTyped DEF BodyInv, Bodies
    <3> QED  BY <1>1, <1>4, <1>5, <3>1, <3>2 DEF Reached
  <2>5. \A v \in Writers : wal_coverage'[v] < next_seqno'
    <3>1. (TInv => \A v \in Writers : wal_coverage[v] \in Nat)'
      BY DEF TInv, TypeOK, Coverage
    <3> QED  BY <1>1, <1>4, <1>6, <3>1
  <2>6. \A o \in wal' : o.inst # me' => o.n <= wal_coverage'[o.inst]
    BY <1>1, <1>5, <1>6 DEF TInv, TypeOK
  <2> QED  BY <2>1, <2>3, <2>4, <2>5, <2>6 DEF SeqnoInv
<1>8. MemInv'
  <2>1. logged' \ {cur'} = logged
    BY <1>1, <1>2
  <2> QED  BY <1>1, <1>2, <2>1 DEF MemInv, Full, Putting
<1>9. PldInv'
  <2>1. ~Present(pld'[me'])
    BY <1>1, <1>3
  <2> QED  BY <1>1, <2>1 DEF PldInv
<1>10. SaveInv'
  BY <1>1, <1>2 DEF SaveInv
<1> QED  BY <1>1, <1>7, <1>8, <1>9, <1>10 DEF FilesInv

\* open() recovers everything: the family it loads holds what is no longer in
\* the WAL, and its coverage tells the rest of the WAL apart.
LEMMA OpenStep ==
    ASSUME SInv, TInv', OpenFresh \/ OpenFamily
    PROVE  SInv'
<1> USE DEF SInv
<1>1. /\ status = "down" /\ me < MaxLives /\ FilesInv /\ ~Overwriting
      /\ saver = "idle" /\ me \in Nat /\ me + 1 \in Nat /\ me + 1 >= me
  BY DEF OpenFresh, OpenFamily, FilesInv, Overwriting, TInv, TypeOK
<1>2. \A o \in logged : o.n \in Nat /\ o.inst \in Writers
      /\ o.kind \in {"put", "outcome", "touch"}
  BY DEF TInv, TypeOK, Op
<1>3. wal \subseteq logged
  BY DEF TInv, TypeOK
<1>4. CASE OpenFresh
  <2> DEFINE img == Apply(Empty, wal)
  <2>1. Start(img, NoCover, 0) /\ UNCHANGED <<body, pld>> /\ Bodies = {}
    BY <1>4 DEF OpenFresh
  <2>2. wal = logged
    BY <2>1 DEF PrunedInv
  <2>3. Full(img, logged) /\ img.text = img.payloads
    BY <2>2 DEF Full, Apply, Empty
  <2>4. NoCover \in Coverage /\ \A v \in Writers : NoCover[v] <= 0
    BY DEF NoCover, Coverage
  <2>5. Bodies' = {} /\ UNCHANGED <<wal, families, logged, saver>> /\ me' = me + 1
    BY <2>1 DEF Bodies, Start, saving
  <2>6. ~Overwriting'
    BY <1>1, <2>5 DEF Overwriting
  <2>7. FilesInv'
    <3>1. \A w \in Writers : ~Present(body'[w]) /\ ~Present(body[w])
      BY <2>1 DEF Bodies
    <3>2. BodyInv'
      BY <1>1, <2>1, <2>5, <3>1 DEF BodyInv, Writers
    <3>3. FamilyInv'
      BY <3>1 DEF FamilyInv, Committed
    <3>4. PrunedInv'
      BY <2>2, <2>5, <3>1 DEF PrunedInv, Top, Highest, Committed, Bodies
    <3> QED  BY <3>2, <3>3, <3>4 DEF FilesInv
  <2>8. \A w \in Writers : w > me => ~Present(pld'[w])
    BY <2>1 DEF BodyInv
  <2>9. Reached(0) /\ 0 \in Nat
    BY DEF Reached
  <2> HIDE DEF img
  <2> QED  BY <1>1, <2>1, <2>2, <2>3, <2>4, <2>5, <2>7, <2>8, <2>9, StartStep
<1>5. CASE OpenFamily
  <2>1. Bodies # {} /\ Chosen # {} /\ Chosen \subseteq Top
    BY <1>1, <1>5, ChosenIsTop DEF OpenFamily
  <2>2. PICK w \in Chosen : Load(w)
    BY <1>5, <2>1 DEF OpenFamily
  <2> DEFINE img == Apply(Loaded(w), {o \in wal : ~Covered(o, w)})
             cov == IF Present(families[w]) THEN families[w].covered ELSE NoCover
             s == body[w].seqno
  <2>3. w \in Bodies /\ w \in Writers /\ HoldsPruned(w) /\ s \in Nat
    <3>1. w \in Bodies
      BY <2>2 DEF Chosen, Loadable
    <3> QED  BY <1>1, <2>1, <2>2, <3>1, BodyTyped DEF PrunedInv
  <2>4. /\ Reached(s) /\ Full(body[w].image, Upto(s))
        /\ Present(pld[w]) /\ body[w].image.payloads \subseteq pld[w].text
    BY <2>3 DEF BodyInv, Bodies
  <2>5. /\ Present(families[w]) =>
             /\ families[w].seqno = s
             /\ \A v \in Writers : families[w].covered[v] <= s
             /\ \A o \in wal : o.n <= s => o.n <= families[w].covered[o.inst]
        /\ Present(families[w]) => families[w].covered \in Coverage
    BY <1>1, <2>3 DEF FamilyInv, Committed, Bodies, TInv, FilesOK
  <2>6. \A o \in wal : Covered(o, w) <=> o.n <= s
    <3> SUFFICES ASSUME NEW o \in wal PROVE Covered(o, w) <=> o.n <= s
      OBVIOUS
    <3>1. o.n \in Nat /\ o.inst \in Writers
      BY <1>2, <1>3
    <3>2. Present(families[w]) =>
            families[w].covered[o.inst] \in Nat /\ families[w].covered[o.inst] <= s
      BY <2>5, <3>1 DEF Coverage
    <3> QED  BY <2>3, <2>5, <3>1, <3>2 DEF Covered
  <2>7. cov \in Coverage /\ \A v \in Writers : cov[v] <= s
    BY <2>3, <2>5 DEF NoCover, Coverage
  <2> DEFINE later == {o \in wal : ~Covered(o, w)}
  <2>8. later \union Upto(s) = logged /\ later \intersect Upto(s) = {}
    BY <1>2, <1>3, <2>3, <2>6 DEF Upto, HoldsPruned
  <2>9. /\ Loaded(w).payloads = Puts(Upto(s)) /\ Loaded(w).text = Puts(Upto(s))
        /\ Loaded(w).states = Puts(Upto(s)) /\ Loaded(w).effects = Additive(Upto(s))
        /\ Loaded(w).doubled = {}
    <3>1. body[w].image \in ImageOf(logged)
      BY <2>3, BodyTyped DEF BodyOf
    <3> QED  BY <2>4, <3>1 DEF Loaded, Full, ImageOf
  <2>10. Full(img, logged) /\ img.text = img.payloads
    <3>1. img = Apply(Loaded(w), later)
      OBVIOUS
    <3> HIDE DEF img, later
    <3>2. /\ Puts(Upto(s)) \union Puts(later) = Puts(logged)
          /\ Additive(Upto(s)) \union Additive(later) = Additive(logged)
          /\ Additive(Upto(s)) \intersect later = {}
      BY <2>8 DEF Puts, Additive
    <3> QED  BY <2>9, <3>1, <3>2 DEF Apply, Full
  <2>11. Start(img, cov, s)
    BY <2>2 DEF Load
  <2>12. PICK n \in Nat \ {0} : \E k \in Newest(n) : KeepOnly(k)
    BY <2>2 DEF Load
  <2>13. PICK k \in Newest(n) : KeepOnly(k)
    BY <2>12
  <2>14. UNCHANGED <<wal, families, logged, saver>> /\ me' = me + 1
    BY <2>11 DEF Start, saving
  <2>15. ~Overwriting'
    BY <1>1, <2>14 DEF Overwriting
  <2>16. FilesInv' /\ Bodies' = k
    BY <1>1, <2>12, <2>13, <2>14, <2>15, KeepNewest
  <2>17. k \subseteq Bodies /\ (\A v \in k : body'[v] = body[v])
         /\ \A v \in Writers : v > me => ~Present(pld'[v])
    <3>1. k \subseteq Bodies
      BY <2>13 DEF Newest
    <3>2. \A v \in k : body'[v] = body[v]
      BY <2>13, <3>1 DEF KeepOnly, Bodies
    <3>3. \A v \in Writers : v > me => ~Present(pld'[v])
      BY <2>13 DEF KeepOnly, Present, BodyInv
    <3> QED  BY <3>1, <3>2, <3>3
  <2>18. \A o \in logged \ wal : o.n <= s
    BY <2>3 DEF HoldsPruned
  <2> HIDE DEF img, cov, s
  <2> QED  BY <1>1, <2>3, <2>4, <2>7, <2>10, <2>11, <2>16, <2>17, <2>18, StartStep
<1> QED  BY <1>4, <1>5

LEMMA SInit == ASSUME Init PROVE SInv
<1> USE DEF Init
<1>1. TInv
  BY TypeInit
<1>2. \A w \in Writers : ~Present(body[w]) /\ ~Present(pld[w]) /\ ~Present(families[w])
  BY DEF Present
<1>3. Bodies = {} /\ Committed = {}
  BY <1>2 DEF Bodies, Committed
<1>4. BodyInv /\ FamilyInv /\ PrunedInv
  BY <1>2, <1>3 DEF BodyInv, FamilyInv, PrunedInv, Top, Highest
<1>5. SeqnoInv /\ PldInv /\ SaveInv
  BY DEF SeqnoInv, PldInv, SaveInv, Never
<1>6. MemInv
  BY DEF MemInv, Empty, Putting
<1> QED  BY <1>1, <1>4, <1>5, <1>6 DEF SInv

LEMMA SStep ==
    ASSUME Serialized, ~ResaveInterrupt, SInv, [Next]_vars
    PROVE  SInv'
<1>1. TInv'
  BY TypeStep DEF SInv
<1>2. CASE UNCHANGED vars
  <2>1. UNCHANGED <<disk, me, logged>> /\ (Overwriting => Overwriting')
    BY <1>2 DEF vars, disk, saving, Overwriting
  <2>2. FilesInv'
    BY <2>1, FilesStay DEF SInv, FilesInv
  <2>3. SeqnoInv' /\ status' # "refused"
    BY <1>2 DEF SInv, SeqnoInv, Reached, Bodies, vars, process, disk
  <2>4. MemInv' /\ PldInv'
    BY <1>2 DEF SInv, MemInv, PldInv, Putting, vars, process, request, disk
  <2>5. SaveInv'
    BY <1>2 DEF SInv, SaveInv, vars, process, request, saving, disk
  <2> QED  BY <1>1, <2>2, <2>3, <2>4, <2>5 DEF SInv, FilesInv
<1> QED  BY <1>1, <1>2, ClientStep, SaverStep, KillStep, OpenStep DEF Next

-----------------------------------------------------------------------------
(* Theorems for saves that hold the RPC lock, when no process dies or fails *)
(* while it overwrites a family that it has committed itself.               *)

\* SInv is invariant.
LEMMA SInvariant ==
    ASSUME Serialized, ~ResaveInterrupt
    PROVE  Spec => []SInv
<1>1. Init => SInv
  BY SInit
<1>2. SInv /\ [Next]_vars => SInv'
  BY SStep
<1> QED  BY <1>1, <1>2, PTL DEF Spec

\* A running store holds every operation that any process logged, but for the
\* one a client is in the middle of: whatever save_full_snapshot_certified
\* pruned from the WAL and from the families, and wherever processes died.
THEOREM RestartLosesNothing ==
    ASSUME Serialized, ~ResaveInterrupt
    PROVE  Spec => []NothingLost
<1>1. SInv => NothingLost
  <2> SUFFICES ASSUME SInv, status = "up", NEW o \in logged \ {cur} PROVE Holds(o)
    BY DEF NothingLost
  <2>1. /\ Puts(logged \ {cur}) \subseteq mem.payloads
        /\ mem.states = Puts(logged \ {cur})
        /\ mem.effects = Additive(logged \ {cur})
    BY DEF SInv, MemInv
  <2> QED  BY <2>1 DEF Holds, Puts, Additive
<1> QED  BY <1>1, SInvariant, PTL

\* No outcome and no touch is counted twice: what open() replays is exactly
\* what the family it loaded does not contain.
THEOREM ReplayedOnce ==
    ASSUME Serialized, ~ResaveInterrupt
    PROVE  Spec => []AppliedOnce
<1>1. SInv => AppliedOnce
  BY DEF SInv, MemInv, AppliedOnce
<1> QED  BY <1>1, SInvariant, PTL

\* Every memory the store lists has its content, though a body carries none
\* and a save skips the .pld when the counter did not move.
THEOREM ContentFollows ==
    ASSUME Serialized, ~ResaveInterrupt
    PROVE  Spec => []ContentServed
<1>1. SInv => ContentServed
  BY DEF SInv, MemInv, ContentServed
<1> QED  BY <1>1, SInvariant, PTL

\* open() always finds a family it can load.
THEOREM AlwaysOpens ==
    ASSUME Serialized, ~ResaveInterrupt
    PROVE  Spec => []NeverRefused
<1>1. SInv => NeverRefused
  BY DEF SInv, NeverRefused
<1> QED  BY <1>1, SInvariant, PTL

\* Sequence numbers grow over all lifetimes, pruned segments included.
THEOREM NumbersGrow ==
    ASSUME Serialized, ~ResaveInterrupt
    PROVE  Spec => []SeqnosGrow
<1>1. SInv => SeqnosGrow
  BY DEF SInv, SeqnoInv, SeqnosGrow
<1> QED  BY <1>1, SInvariant, PTL
=============================================================================
