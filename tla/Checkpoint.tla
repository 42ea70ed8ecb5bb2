----------------------------- MODULE Checkpoint -----------------------------
(***************************************************************************)
(* Full snapshots and restarts of one store directory: put_memory,         *)
(* record_outcome and the touch drain log an operation and then apply it   *)
(* (src/store.rs); save_full_snapshot_certified writes the family          *)
(* chitta.<instance>.{pld,snapshot}, commits it to the manifest and prunes *)
(* the WAL (src/store/maintenance.rs); open() picks a family, loads it and *)
(* replays what the family does not cover (src/field/opening.rs).          *)
(*                                                                         *)
(* A process lives once: every open() takes a fresh instance id, so a      *)
(* lifetime, a writer and a family name are the same number here.  append  *)
(* flushes to the OS and processes die by kill, so a logged operation is   *)
(* on disk; power loss is the subject of module OpLog.                     *)
(***************************************************************************)
EXTENDS Integers, Sequences, FiniteSets, FiniteSetsExt

CONSTANTS
    MaxLives,       \* processes that open the directory, one after another
    MaxOps,         \* operations logged over all lifetimes
    MaxSaves,       \* snapshots one process takes
    SegOps,         \* MAX_SEGMENT_SIZE, in records
    Serialized,     \* saves arrive by RPC and hold its exclusive lock; when
                    \* FALSE, the chitta-maint thread starts them
    ResaveInterrupt \* a process may die or fail in the middle of a save that
                    \* overwrites a family it has already committed

ASSUME CheckpointAssumption ==
    /\ MaxLives \in Nat \ {0} /\ MaxOps \in Nat /\ MaxSaves \in Nat
    /\ SegOps \in Nat \ {0}
    /\ Serialized \in BOOLEAN /\ ResaveInterrupt \in BOOLEAN

VARIABLES
    status,        \* "down", "up" or "refused" (open() returned Err)
    me,            \* instance id of the current or last process
    mem,           \* what the process holds in memory, an Image
    wal_coverage,  \* per writer, the highest seqno mem contains
    next_seqno,
    active,        \* first seqno of the active segment: its file name
    touches,       \* pending_touches is not empty
    pld_mutations, pld_saved_at,
    client, cur,   \* where put_memory or record_outcome stands, with which op
    saver, snap,   \* where the running save stands, and what it has cloned
    saves,
    wal,           \* operations in the segment files
    body, pld,     \* per writer, its .snapshot and its .pld file
    families,      \* the manifest: per writer, its committed CheckpointSet
    logged         \* history: every operation append() ever wrote

process == <<mem, wal_coverage, next_seqno, active, touches,
             pld_mutations, pld_saved_at>>
request == <<client, cur>>
saving  == <<saver, snap, saves>>
disk    == <<wal, body, pld, families>>
vars    == <<status, me, process, request, saving, disk, logged>>

Writers  == 1 .. MaxLives
Op       == [inst : Writers, n : Nat, seg : Nat,
             kind : {"put", "outcome", "touch"}]
Coverage == [Writers -> Nat]

\* The parts of a store that this module tells apart.  An outcome and a touch
\* add to a memory's state: applying one twice is not applying it once.
Image == [payloads : SUBSET Op,  \* memories with a payload
          text     : SUBSET Op,  \* memories whose content is there
          states   : SUBSET Op,  \* memories with a MemoryState
          effects  : SUBSET Op,  \* outcomes and touches added to states
          doubled  : SUBSET Op]  \* the ones added more than once

Empty == [payloads |-> {}, text |-> {}, states |-> {}, effects |-> {},
          doubled |-> {}]

NoFile  == [absent |-> TRUE]
NoCover == [w \in Writers |-> 0]
NoOp    == [kind |-> "none"]
Never   == -1  \* u64::MAX in pld_saved_at: no .pld written by this process

Body   == [seqno : Nat, image : Image]
Pld    == [ids : SUBSET Op, text : SUBSET Op]
Family == [seqno : Nat, bodySize : Seq(Nat), pldSize : Seq(Nat),
           covered : Coverage, segments : SUBSET (Writers \X Nat)]

Present(f) == f # NoFile

\* Sizes in bytes, up to a constant per entry.  A first outcome adds an entry
\* to utility_posteriors, later ones change it in place; every touch adds an
\* access timestamp.
BodySize(b) == << Cardinality(b.image.payloads),
                  Cardinality(b.image.states),
                  Cardinality({o \in b.image.effects : o.kind = "touch"}),
                  Cardinality({k \in {"outcome"} :
                                \E o \in b.image.effects : o.kind = k}) >>
PldSize(p)  == IF Present(p) THEN << Cardinality(p.ids), Cardinality(p.text) >>
               ELSE << >>

Init ==
    /\ status = "down" /\ me = 0
    /\ mem = Empty /\ wal_coverage = NoCover /\ next_seqno = 1 /\ active = 1
    /\ touches = FALSE /\ pld_mutations = 0 /\ pld_saved_at = Never
    /\ client = "idle" /\ cur = NoOp
    /\ saver = "idle" /\ snap = NoFile /\ saves = 0
    /\ wal = {} /\ logged = {}
    /\ body = [w \in Writers |-> NoFile]
    /\ pld = [w \in Writers |-> NoFile]
    /\ families = [w \in Writers |-> NoFile]

-----------------------------------------------------------------------------
(* Applying operations                                                      *)

Puts(ops)     == {o \in ops : o.kind = "put"}
Additive(ops) == ops \ Puts(ops)

\* apply_op over a set of operations: a put overwrites, an outcome or a touch
\* accumulates.
Apply(image, ops) ==
    [payloads |-> image.payloads \union Puts(ops),
     text     |-> image.text \union Puts(ops),
     states   |-> image.states \union Puts(ops),
     doubled  |-> image.doubled \union (image.effects \intersect ops),
     effects  |-> image.effects \union Additive(ops)]

SegmentOf(o) == <<o.inst, o.seg>>

\* OpLog::append of one operation of the given kind, rotating first when the
\* active segment is full.
NewOp(kind) ==
    LET full == Cardinality({o \in wal : SegmentOf(o) = <<me, active>>}) >= SegOps
    IN  [inst |-> me, n |-> next_seqno, kind |-> kind,
         seg |-> IF full THEN next_seqno ELSE active]

AppendOp(o) ==
    /\ Cardinality(logged) < MaxOps
    /\ wal' = wal \union {o}
    /\ logged' = logged \union {o}
    /\ next_seqno' = next_seqno + 1
    /\ active' = o.seg

-----------------------------------------------------------------------------
(* Client operations.  Each is a sequence of critical sections of different *)
(* locks; the RPC lock makes them atomic only against other RPCs.           *)

MayStart == status = "up" /\ client = "idle" /\ (Serialized => saver = "idle")

PutAppend ==
    /\ MayStart
    /\ cur' = NewOp("put")
    /\ AppendOp(cur')
    /\ client' = "put_logged"
    /\ UNCHANGED <<status, me, mem, wal_coverage, touches, pld_mutations,
                   pld_saved_at, saving, body, pld, families>>

PutPayload ==
    /\ client = "put_logged"
    /\ mem' = [mem EXCEPT !.payloads = @ \union {cur}, !.text = @ \union {cur}]
    /\ client' = "put_inserted"
    /\ UNCHANGED <<status, me, wal_coverage, next_seqno, active, touches,
                   pld_mutations, pld_saved_at, cur, saving, disk, logged>>

PutCounted ==
    /\ client = "put_inserted"
    /\ pld_mutations' = pld_mutations + 1
    /\ client' = "put_counted"
    /\ UNCHANGED <<status, me, mem, wal_coverage, next_seqno, active, touches,
                   pld_saved_at, cur, saving, disk, logged>>

PutState ==
    /\ client = "put_counted"
    /\ mem' = [mem EXCEPT !.states = @ \union {cur}]
    /\ client' = "idle" /\ cur' = NoOp
    /\ UNCHANGED <<status, me, wal_coverage, next_seqno, active, touches,
                   pld_mutations, pld_saved_at, saving, disk, logged>>

\* record_outcome on some memory that has a state.
OutcomeAppend ==
    /\ MayStart /\ mem.states # {}
    /\ cur' = NewOp("outcome")
    /\ AppendOp(cur')
    /\ client' = "outcome_logged"
    /\ UNCHANGED <<status, me, mem, wal_coverage, touches, pld_mutations,
                   pld_saved_at, saving, body, pld, families>>

OutcomeApply ==
    /\ client = "outcome_logged"
    /\ mem' = Apply(mem, {cur})
    /\ client' = "idle" /\ cur' = NoOp
    /\ UNCHANGED <<status, me, wal_coverage, next_seqno, active, touches,
                   pld_mutations, pld_saved_at, saving, disk, logged>>

\* get_memory only queues its access; it runs under a shared RPC lock.
Touch ==
    /\ status = "up" /\ mem.states # {} /\ ~touches
    /\ touches' = TRUE
    /\ UNCHANGED <<status, me, mem, wal_coverage, next_seqno, active,
                   pld_mutations, pld_saved_at, request, saving, disk, logged>>

\* drain_pending_touches_locked, which the touch_drain gate makes atomic with
\* respect to saves: one UpdateStateBatch, logged and then applied.
Drain ==
    LET o == NewOp("touch")
    IN  IF touches
        THEN /\ AppendOp(o) /\ mem' = Apply(mem, {o}) /\ touches' = FALSE
        ELSE UNCHANGED <<wal, logged, next_seqno, active, mem, touches>>

\* Mutant: the maintenance drain does not take the touch_drain gate.
MutDrainUngated ==
    /\ status = "up" /\ touches
    /\ Drain
    /\ UNCHANGED <<status, me, wal_coverage, pld_mutations, pld_saved_at,
                   request, saving, body, pld, families>>

DrainTouches ==
    /\ status = "up" /\ touches /\ saver = "idle"
    /\ Drain
    /\ UNCHANGED <<status, me, wal_coverage, pld_mutations, pld_saved_at,
                   request, saving, body, pld, families>>

-----------------------------------------------------------------------------
(* save_full_snapshot_certified                                             *)

\* Takes the gate, drains the touches and syncs the log.
SaveStart ==
    /\ status = "up" /\ saver = "idle" /\ saves < MaxSaves
    /\ Serialized => client = "idle"
    /\ Drain
    /\ saver' = "drained" /\ saves' = saves + 1
    /\ UNCHANGED <<status, me, wal_coverage, pld_mutations, pld_saved_at,
                   request, snap, body, pld, families>>

\* The watermark and the coverage vector the manifest will claim, then the
\* content counter, all read before anything is cloned.
SaveCapture ==
    /\ saver = "drained"
    /\ snap' = [seqno |-> next_seqno - 1, covered |-> wal_coverage,
                mutations |-> pld_mutations, image |-> Empty]
    /\ saver' = "captured"
    /\ UNCHANGED <<status, me, process, request, saves, disk, logged>>

ClonePayloads ==
    /\ saver = "captured"
    /\ snap' = [snap EXCEPT !.image.payloads = mem.payloads,
                            !.image.text = mem.text]
    /\ saver' = "payloads"
    /\ UNCHANGED <<status, me, process, request, saves, disk, logged>>

CloneStates ==
    /\ saver = "payloads"
    /\ snap' = [snap EXCEPT !.image.states = mem.states,
                            !.image.effects = mem.effects,
                            !.image.doubled = mem.doubled]
    /\ saver' = "cloned"
    /\ UNCHANGED <<status, me, process, request, saves, disk, logged>>

\* Mutant: any .pld of this process is taken for current.
MutPldCleanIgnoresCounter == pld_saved_at # Never /\ Present(pld[me])

\* The .pld on disk is taken for current.
PldClean == pld_saved_at = snap.mutations /\ Present(pld[me])

\* Mutant: a failed .pld write does not abort the save.
MutSavePldSwallowsError ==
    /\ saver = "cloned"
    /\ saver' = "pld_saved"
    /\ UNCHANGED <<status, me, process, request, snap, saves, disk, logged>>

SavePld ==
    /\ saver = "cloned"
    /\ \/ PldClean /\ UNCHANGED <<pld, pld_saved_at>>
       \/ /\ ~PldClean
          /\ pld' = [pld EXCEPT ![me] = [ids |-> snap.image.payloads,
                                         text |-> snap.image.text]]
          /\ pld_saved_at' = snap.mutations
    /\ saver' = "pld_saved"
    /\ UNCHANGED <<status, me, mem, wal_coverage, next_seqno, active, touches,
                   pld_mutations, request, snap, saves, wal, body, families,
                   logged>>

\* The body carries no content: it was stripped for the .pld.
SaveBody ==
    /\ saver = "pld_saved"
    /\ body' = [body EXCEPT ![me] =
                  [seqno |-> snap.seqno,
                   image |-> [snap.image EXCEPT !.text = {}]]]
    /\ saver' = "body_saved"
    /\ UNCHANGED <<status, me, process, request, snap, saves, wal, pld,
                   families, logged>>

\* Segments that the inventory lists: all but the one being written.
Sealed == {SegmentOf(o) : o \in wal} \ {<<me, active>>}

\* Mutant: the commit record claims the next seqno, not the last one.
MutCommitClaimsNext ==
    /\ saver = "body_saved"
    /\ families' = [families EXCEPT ![me] =
         [seqno    |-> snap.seqno,
          bodySize |-> BodySize(body[me]), pldSize |-> PldSize(pld[me]),
          covered  |-> [snap.covered EXCEPT ![me] = snap.seqno + 1],
          segments |-> Sealed]]
    /\ saver' = "committed"
    /\ UNCHANGED <<status, me, process, request, snap, saves, wal, body, pld,
                   logged>>

Commit ==
    /\ saver = "body_saved"
    /\ families' = [families EXCEPT ![me] =
         [seqno    |-> snap.seqno,
          bodySize |-> BodySize(body[me]), pldSize |-> PldSize(pld[me]),
          covered  |-> [snap.covered EXCEPT ![me] = Max({@, snap.seqno})],
          segments |-> Sealed]]
    /\ saver' = "committed"
    /\ UNCHANGED <<status, me, process, request, snap, saves, wal, body, pld,
                   logged>>

\* Every file the manifest lists is there with the size it recorded.
Valid(w) ==
    /\ Present(families[w]) /\ Present(body[w])
    /\ BodySize(body[w]) = families[w].bodySize
    /\ PldSize(pld[w]) = families[w].pldSize

\* covered_segment: the family's vector dominates every operation of it.
CoveredSegment(s, family) ==
    \A o \in wal : SegmentOf(o) = s => o.n <= family.covered[o.inst]

PruneWal ==
    /\ saver = "committed" /\ Valid(me)
    /\ wal' = {o \in wal : ~(/\ SegmentOf(o) \in families[me].segments
                             /\ CoveredSegment(SegmentOf(o), families[me]))}
    /\ saver' = "wal_pruned"
    /\ UNCHANGED <<status, me, process, request, snap, saves, body, pld,
                   families, logged>>

Bodies == {w \in Writers : Present(body[w])}

\* The n bodies with the highest seqnos; the directory order breaks ties.
Newest(n) ==
    {k \in SUBSET Bodies :
        /\ Cardinality(k) = Min({n, Cardinality(Bodies)})
        /\ \A i \in k, j \in Bodies \ k : body[i].seqno >= body[j].seqno}

KeepOnly(k) ==
    /\ body' = [w \in Writers |-> IF w \in k THEN body[w] ELSE NoFile]
    /\ pld' = [w \in Writers |-> IF w \in k THEN pld[w] ELSE NoFile]

\* prune_old_snapshots(2), then the save returns.
PruneFamilies ==
    /\ saver = "wal_pruned"
    /\ \E k \in Newest(2) : KeepOnly(k)
    /\ saver' = "idle" /\ snap' = NoFile
    /\ UNCHANGED <<status, me, process, request, saves, wal, families, logged>>

\* Files of a committed family are being replaced and the new commit record
\* is not there yet.
Overwriting ==
    /\ saver \in {"pld_saved", "body_saved"}
    /\ Present(families[me])

\* A file or the manifest cannot be written: the save returns Err and its
\* process lives on.
SaveFails ==
    /\ saver \in {"cloned", "pld_saved", "body_saved", "committed"}
    /\ Overwriting => ResaveInterrupt
    /\ saver' = "idle" /\ snap' = NoFile
    /\ UNCHANGED <<status, me, process, request, saves, disk, logged>>

-----------------------------------------------------------------------------
(* Death and restart                                                        *)

Down ==
    /\ status' = "down"
    /\ mem' = Empty /\ wal_coverage' = NoCover
    /\ touches' = FALSE /\ pld_mutations' = 0 /\ pld_saved_at' = Never
    /\ client' = "idle" /\ cur' = NoOp
    /\ saver' = "idle" /\ snap' = NoFile /\ saves' = 0
    /\ next_seqno' = 1 /\ active' = 1

\* Mutant: the saver's position survives its process.
MutKillForgetsSaver ==
    /\ status = "up" /\ (Overwriting => ResaveInterrupt)
    /\ status' = "down"
    /\ UNCHANGED <<me, process, request, saving, disk, logged>>

Kill ==
    /\ status = "up" /\ (Overwriting => ResaveInterrupt)
    /\ Down
    /\ UNCHANGED <<me, disk, logged>>

\* The candidates open() accepts: a body without its content is refused.
Loadable ==
    {w \in Bodies : Present(pld[w]) \/ body[w].image.payloads = {}}

\* The families open() may load: the best that validates against the
\* manifest, else, or if that one is refused, the best that can be loaded.
Chosen ==
    LET valid == {w \in Writers : Valid(w)}
        first == {i \in valid : \A j \in valid :
                    families[j].seqno <= families[i].seqno} \intersect Loadable
    IN  IF first # {} THEN first
        ELSE {i \in Loadable : \A j \in Loadable :
                body[j].seqno <= body[i].seqno}

Loaded(w) ==
    [body[w].image EXCEPT !.text =
        IF Present(pld[w]) THEN body[w].image.payloads \intersect pld[w].text
                           ELSE {}]

\* covered_by_full, when the family of w was loaded: the vector of the
\* family's manifest entry, else the scalar seqno in the body.
Covered(o, w) ==
    IF Present(families[w]) THEN o.n <= families[w].covered[o.inst]
                            ELSE o.n <= body[w].seqno

\* Mutant: the loaded body's seqno is ignored.
MutTopSeqnoOfWal(seqno) == Max({o.n : o \in wal} \union {0})

\* set_next_seqno after replay: above the loaded body and above the log.
TopSeqno(seqno) == Max({o.n : o \in wal} \union {seqno})

Walked(w) == Max({o.n : o \in {p \in wal : p.inst = w}} \union {0})

Start(image, covered, seqno) ==
    /\ status' = "up" /\ me' = me + 1
    /\ mem' = image
    /\ wal_coverage' = [w \in Writers |-> Max({covered[w], Walked(w)})]
    /\ next_seqno' = TopSeqno(seqno) + 1
    /\ active' = 1  \* the log is opened, and its file named, before replay
    /\ UNCHANGED <<touches, pld_mutations, pld_saved_at, request, saving, wal,
                   families, logged>>

OpenFresh ==
    /\ status = "down" /\ me < MaxLives /\ Bodies = {}
    /\ Start(Apply(Empty, wal), NoCover, 0)
    /\ UNCHANGED <<body, pld>>

\* load_snapshots and replay_wal; the best body and one backup are kept, with
\* no regard for the one that was loaded.
Load(w) ==
    /\ Start(Apply(Loaded(w), {o \in wal : ~Covered(o, w)}),
             IF Present(families[w]) THEN families[w].covered ELSE NoCover,
             body[w].seqno)
    /\ \E k \in Newest(IF \E v \in Bodies : body[v].seqno > 0 THEN 2 ELSE 1) :
         KeepOnly(k)

Refuse ==
    /\ status' = "refused"
    /\ UNCHANGED <<me, process, request, saving, disk, logged>>

OpenFamily ==
    /\ status = "down" /\ me < MaxLives /\ Bodies # {}
    /\ IF Chosen = {} THEN Refuse ELSE \E w \in Chosen : Load(w)

-----------------------------------------------------------------------------
Client == PutAppend \/ PutPayload \/ PutCounted \/ PutState
          \/ OutcomeAppend \/ OutcomeApply \/ Touch
Saver  == DrainTouches \/ SaveStart \/ SaveCapture \/ ClonePayloads
          \/ CloneStates \/ SavePld \/ SaveBody \/ Commit \/ PruneWal
          \/ PruneFamilies \/ SaveFails
Next   == Client \/ Saver \/ Kill \/ OpenFresh \/ OpenFamily

Spec == Init /\ [][Next]_vars
-----------------------------------------------------------------------------
(* Properties                                                               *)

Clients == {"idle", "put_logged", "put_inserted", "put_counted",
            "outcome_logged"}
Savers  == {"idle", "drained", "captured", "payloads", "cloned", "pld_saved",
            "body_saved", "committed", "wal_pruned"}

\* Every variable has its type, and a process that is not running has
\* neither a request nor a save in flight.
TypeOK ==
    /\ status \in {"down", "up", "refused"} /\ me \in 0 .. MaxLives
    /\ DOMAIN mem = DOMAIN Empty
    /\ \A f \in DOMAIN mem : mem[f] \subseteq logged
    /\ wal_coverage \in Coverage
    /\ next_seqno \in Nat \ {0} /\ active \in 1 .. next_seqno
    /\ touches \in BOOLEAN
    /\ pld_mutations \in Nat /\ pld_saved_at \in Nat \union {Never}
    /\ client \in Clients /\ saver \in Savers /\ saves \in 0 .. MaxSaves
    /\ cur \in logged \union {NoOp}
    /\ wal \subseteq logged /\ logged \subseteq Op
    /\ status # "up" => client = "idle" /\ saver = "idle"

Holds(o) ==
    IF o.kind = "put" THEN o \in mem.payloads /\ o \in mem.states
                      ELSE o \in mem.effects

\* No logged operation is ever missing from the running store, whatever
\* process logged it and whatever was pruned and killed since: a put has its
\* payload and its state, an outcome or a touch its effect.  Only the one
\* operation a client is in the middle of is excepted.
NothingLost == status = "up" => \A o \in logged \ {cur} : Holds(o)

Earlier(p, o) == p.inst < o.inst \/ (p.inst = o.inst /\ p.n < o.n)

\* What open() recovers is a prefix of the history that was logged: whoever
\* sees an operation also sees all that were logged before it.
RecoversPrefix ==
    status = "up" =>
        \A p, o \in logged \ {cur} : Earlier(p, o) /\ Holds(o) => Holds(p)

\* No outcome and no touch is counted twice: a snapshot that contains its
\* effect also keeps replay from adding it again.
AppliedOnce == mem.doubled = {}

\* A memory the store lists has its content, though the body on disk carries
\* none and the .pld is rewritten only when the counter moved.
ContentServed == status = "up" => mem.payloads \subseteq mem.text

\* open() always finds a family it can load, whatever the process before it
\* was doing when it died.
NeverRefused == status # "refused"

\* Sequence numbers grow over all lifetimes, which the scalar fallback of
\* covered_by_full relies on: no logged operation has one at or above the
\* next, even when its segment was pruned long ago.
SeqnosGrow == status = "up" => \A o \in logged : o.n < next_seqno
=============================================================================
