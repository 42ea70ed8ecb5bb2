------------------------------- MODULE OpLog -------------------------------
(***************************************************************************)
(* The write-ahead log of one store directory (src/log.rs, struct OpLog).  *)
(*                                                                         *)
(* One OpLog at a time appends to its active segment file; the segments    *)
(* that were rotated away, or that an earlier process left behind, are     *)
(* `sealed'.  append() is not atomic with respect to a crash, so it is     *)
(* split into the steps between which the process may die; the log's       *)
(* mutex keeps sync() and a second append() out while one is running.      *)
(*                                                                         *)
(* A record is abstracted to its sequence number, the identity of its      *)
(* operation, the operation its prev_hash points at (0 is ZERO_HASH) and   *)
(* whether all of its bytes are there: a record that is not whole fails    *)
(* its length or CRC check on replay.  Sizes are counted in records.       *)
(***************************************************************************)
EXTENDS Integers, Sequences

CONSTANTS
    MaxOps,          \* operations the clients submit
    MaxSeg,          \* MAX_SEGMENT_SIZE, in records
    MaxFaults,       \* write, fsync and create errors that the log survives
    MaxDoubleFaults, \* write errors whose repair fails too (a full disk)
    MaxVanish,       \* times another process unlinks the active segment
    MaxKills,        \* process deaths that leave the page cache alone
    MaxPowerLosses   \* crashes that lose what was never fsynced

ASSUME BoundsAssumption ==
    /\ MaxOps \in Nat /\ MaxSeg \in Nat \ {0}
    /\ MaxFaults \in Nat /\ MaxDoubleFaults \in Nat /\ MaxVanish \in Nat
    /\ MaxKills \in Nat /\ MaxPowerLosses \in Nat

VARIABLES
    status,     \* "open", "down" (process dead) or "fatal" (open() returns Err)
    writer,     \* instance id of the current process, fresh on every open
    pc,         \* "idle", or how far the running append() has got
    cur,        \* operation the running append() carries
    sealed,     \* segments on disk other than the active one
    file,       \* records in the inode behind current_segment
    leftover,   \* records a failed flush left in the BufWriter
    accepted,   \* accepted_prefix: what recover_segment writes back
    synced,     \* length of the part of file that reached the disk
    vanished,   \* the active segment's inode has no link left
    stub,       \* the next segment's name is taken by a half-made file
    next_seqno, chain_head,
    ops,        \* operations submitted so far; operation n is the n-th
    faults, doubles, vanishes, kills, losses,
    acked,      \* history: append() returned Ok
    durable,    \* history: sync() returned Ok after append() did
    excused,    \* history: the crash was allowed to lose these
    dying       \* history: in append() when their process died

log    == <<sealed, file, leftover, accepted, synced, vanished, stub>>
budget == <<faults, doubles, vanishes, kills, losses>>
hist   == <<acked, durable, excused, dying>>
vars   == <<status, writer, pc, cur, log, next_seqno, chain_head, ops,
            budget, hist>>

Cell    == [seq : Nat, op : Nat, prev : Nat, whole : BOOLEAN]
Segment == [inst : Nat, cells : Seq(Cell), synced : Nat]

Ops(cells) == {cells[i].op : i \in DOMAIN cells}

\* What a replay that stops at the first broken record delivers.
Clean(cells)    == {i \in DOMAIN cells : \A j \in 1..i : cells[j].whole}
Readable(cells) == {cells[i].op : i \in Clean(cells)}

Torn(cell) == [cell EXCEPT !.whole = FALSE]

\* The record append() has built from next_seqno and chain_head.
Record == [seq |-> next_seqno, op |-> cur, prev |-> chain_head, whole |-> TRUE]

Full == Len(accepted) >= MaxSeg

\* Lengths a segment file can have: failed appends may add to a full one.
Lengths == 0 .. MaxSeg + 2 * MaxDoubleFaults + 1

Init ==
    /\ status = "open" /\ writer = 1 /\ pc = "idle" /\ cur = 0
    /\ sealed = <<>> /\ file = <<>> /\ leftover = <<>> /\ accepted = <<>>
    /\ synced = 0 /\ vanished = FALSE /\ stub = FALSE
    /\ next_seqno = 1 /\ chain_head = 0 /\ ops = 0
    /\ faults = 0 /\ doubles = 0 /\ vanishes = 0 /\ kills = 0 /\ losses = 0
    /\ acked = {} /\ durable = {} /\ excused = {} /\ dying = {}

-----------------------------------------------------------------------------
\* Mutant: the fresh segment starts from one record too few of fsynced bytes.
MutRecoveredOffByOne(f) ==
    /\ file' = f
    /\ synced' = Len(accepted) - 1
    /\ leftover' = <<>>
    /\ vanished' = FALSE
    /\ stub' = stub

(* recover_segment: a fresh inode with the accepted bytes, fsynced and       *)
(* renamed over the segment's name; the old BufWriter's bytes are dropped.   *)
Recovered(f) ==
    /\ file' = f
    /\ synced' = Len(accepted)
    /\ leftover' = <<>>
    /\ vanished' = FALSE
    /\ stub' = stub

(* append(): entered with an operation; no other append or sync runs until   *)
(* it is back to "idle".                                                     *)
AppendStart ==
    /\ status = "open" /\ pc = "idle" /\ ops < MaxOps
    /\ ops' = ops + 1
    /\ cur' = ops + 1
    /\ pc' = "prepare"
    /\ UNCHANGED <<status, writer, log, next_seqno, chain_head, budget, hist>>

(* segment_vanished() at the top of append().                                *)
AppendRecover ==
    /\ status = "open" /\ pc = "prepare" /\ vanished
    /\ Recovered(accepted)
    /\ UNCHANGED <<status, writer, pc, cur, sealed, accepted, next_seqno,
                   chain_head, ops, budget, hist>>

\* Mutant: rotation closes the segment without the sync that precedes it.
MutRotateUnsynced ==
    /\ status = "open" /\ pc = "prepare" /\ ~vanished /\ Full /\ ~stub
    /\ sealed' = Append(sealed, [inst |-> writer, cells |-> file \o leftover,
                                 synced |-> synced])
    /\ file' = <<>> /\ leftover' = <<>> /\ accepted' = <<>> /\ synced' = 0
    /\ durable' = durable \union Ops(accepted)
    /\ UNCHANGED <<status, writer, pc, cur, vanished, stub, next_seqno,
                   chain_head, ops, budget, acked, excused, dying>>

(* rotate_if_needed: sync the full segment, then create the next one.        *)
Rotate ==
    /\ status = "open" /\ pc = "prepare" /\ ~vanished /\ Full /\ ~stub
    /\ LET cells == file \o leftover IN
         sealed' = Append(sealed, [inst |-> writer, cells |-> cells,
                                   synced |-> Len(cells)])
    /\ file' = <<>> /\ leftover' = <<>> /\ accepted' = <<>> /\ synced' = 0
    /\ durable' = durable \union Ops(accepted)
    /\ UNCHANGED <<status, writer, pc, cur, vanished, stub, next_seqno,
                   chain_head, ops, budget, acked, excused, dying>>

(* recover_segment or rotate_if_needed fails with `?': no record is written. *)
(* A segment whose header could not be written keeps its name, and           *)
(* create_new refuses that name from then on.                                *)
AppendRefused ==
    /\ status = "open" /\ pc = "prepare" /\ (vanished \/ Full)
    /\ faults < MaxFaults
    /\ faults' = faults + 1
    /\ stub' \in {stub, Full}
    /\ pc' = "idle"
    /\ UNCHANGED <<status, writer, cur, sealed, file, leftover, accepted,
                   synced, vanished, next_seqno, chain_head, ops, doubles,
                   vanishes, kills, losses, hist>>

AppendWedged ==
    /\ status = "open" /\ pc = "prepare" /\ ~vanished /\ Full /\ stub
    /\ pc' = "idle"
    /\ UNCHANGED <<status, writer, cur, log, next_seqno, chain_head, ops,
                   budget, hist>>

(* write_record: the buffer, then the record, reach the operating system.    *)
(* Into an unlinked inode the write succeeds as well: the link count that    *)
(* segment_vanished() saw may be old by now, or cached (NFS).                *)
WriteRecord ==
    /\ status = "open" /\ pc = "prepare" /\ ~Full
    /\ file' = (file \o leftover) \o <<Record>>
    /\ leftover' = <<>>
    /\ pc' = "ack"
    /\ UNCHANGED <<status, writer, cur, sealed, accepted, synced, vanished,
                   stub, next_seqno, chain_head, ops, budget, hist>>

(* What a failed write leaves: a small record stays in the BufWriter, part   *)
(* of a record larger than the buffer reaches the file, or nothing does.     *)
Residue(f, rest) ==
    \/ file' = f /\ leftover' = Append(rest, Record)
    \/ file' = Append(f \o rest, Torn(Record)) /\ leftover' = <<>>
    \/ file' = f /\ leftover' = rest

\* Mutant: append() returns the write error without repairing the segment.
MutWriteFaultGivesUp ==
    /\ status = "open" /\ pc = "prepare" /\ ~Full
    /\ faults < MaxFaults
    /\ faults' = faults + 1
    /\ Residue(file, leftover)
    /\ pc' = "idle"
    /\ UNCHANGED <<status, writer, cur, sealed, accepted, synced, vanished,
                   stub, next_seqno, chain_head, ops, doubles, vanishes, kills,
                   losses, hist>>

WriteFault ==
    /\ status = "open" /\ pc = "prepare" /\ ~Full
    /\ faults < MaxFaults
    /\ faults' = faults + 1
    /\ Residue(file, leftover)
    /\ pc' = "repair"
    /\ UNCHANGED <<status, writer, cur, sealed, accepted, synced, vanished,
                   stub, next_seqno, chain_head, ops, doubles, vanishes, kills,
                   losses, hist>>

\* Mutant: the failed write is retried on the same descriptor.
MutRepairInPlace ==
    /\ status = "open" /\ pc = "repair"
    /\ file' = (file \o leftover) \o <<Record>>
    /\ leftover' = <<>>
    /\ pc' = "ack"
    /\ UNCHANGED <<status, writer, cur, sealed, accepted, synced, vanished,
                   stub, next_seqno, chain_head, ops, budget, hist>>

(* append() after a failed write: recover the segment, write again.          *)
Repair ==
    /\ status = "open" /\ pc = "repair"
    /\ Recovered(Append(accepted, Record))
    /\ pc' = "ack"
    /\ UNCHANGED <<status, writer, cur, sealed, accepted, next_seqno,
                   chain_head, ops, budget, hist>>

\* Mutant: the chain head moves on although append() fails.
MutRepairFailsAdvancesChain ==
    /\ status = "open" /\ pc = "repair"
    /\ doubles < MaxDoubleFaults
    /\ doubles' = doubles + 1
    /\ chain_head' = cur
    /\ pc' = "idle"
    /\ UNCHANGED <<status, writer, cur, log, next_seqno, ops, faults, vanishes,
                   kills, losses, hist>>

(* The repair fails as well and append() returns Err: recover_segment may    *)
(* not get as far as the rename, or the second write may fail like the first.*)
RepairFails ==
    /\ status = "open" /\ pc = "repair"
    /\ doubles < MaxDoubleFaults
    /\ doubles' = doubles + 1
    /\ \/ UNCHANGED <<file, leftover, synced, vanished>>
       \/ /\ Residue(accepted, <<>>)
          /\ synced' = Len(accepted) /\ vanished' = FALSE
    /\ pc' = "idle"
    /\ UNCHANGED <<status, writer, cur, sealed, accepted, stub, next_seqno,
                   chain_head, ops, faults, vanishes, kills, losses, hist>>

(* Only now does append() account for the record and return its seqno.       *)
AppendAck ==
    /\ status = "open" /\ pc = "ack"
    /\ accepted' = Append(accepted, Record)
    /\ chain_head' = cur
    /\ next_seqno' = next_seqno + 1
    /\ acked' = acked \union {cur}
    /\ pc' = "idle"
    /\ UNCHANGED <<status, writer, cur, sealed, file, leftover, synced,
                   vanished, stub, ops, budget, durable, excused, dying>>

\* Mutant: sync counts records and leaves a single pending one for later.
MutSyncBatches ==
    /\ status = "open" /\ pc = "idle" /\ ~vanished /\ Len(accepted) > synced + 1
    /\ file' = file \o leftover
    /\ leftover' = <<>>
    /\ synced' = Len(file) + Len(leftover)
    /\ durable' = durable \union Ops(accepted)
    /\ UNCHANGED <<status, writer, pc, cur, sealed, accepted, vanished, stub,
                   next_seqno, chain_head, ops, budget, acked, excused, dying>>

(* sync(), from the group-commit timer (sync_if_due) or a durable operation: *)
(* recover a vanished segment, flush, fsync; a failed fsync recovers too.    *)
Sync ==
    /\ status = "open" /\ pc = "idle"
    /\ \/ /\ vanished
          /\ Recovered(accepted)
          /\ UNCHANGED faults
       \/ /\ ~vanished
          /\ file' = file \o leftover
          /\ leftover' = <<>>
          /\ synced' = Len(file) + Len(leftover)
          /\ UNCHANGED <<vanished, stub, faults>>
       \/ /\ faults < MaxFaults
          /\ faults' = faults + 1
          /\ Recovered(accepted)
    /\ durable' = durable \union Ops(accepted)
    /\ UNCHANGED <<status, writer, pc, cur, sealed, accepted, next_seqno,
                   chain_head, ops, doubles, vanishes, kills, losses, acked,
                   excused, dying>>

(* flush_buf(), which put_memory calls after its appends.                    *)
FlushBuf ==
    /\ status = "open" /\ pc = "idle" /\ leftover # <<>>
    /\ file' = file \o leftover
    /\ leftover' = <<>>
    /\ UNCHANGED <<status, writer, pc, cur, sealed, accepted, synced, vanished,
                   stub, next_seqno, chain_head, ops, budget, hist>>

-----------------------------------------------------------------------------
(* The environment: another process deletes the segment, the process is      *)
(* killed, the machine loses power.                                          *)
Vanish ==
    /\ status = "open" /\ ~vanished /\ vanishes < MaxVanish
    /\ vanishes' = vanishes + 1
    /\ vanished' = TRUE
    /\ UNCHANGED <<status, writer, pc, cur, sealed, file, leftover, accepted,
                   synced, stub, next_seqno, chain_head, ops, faults, doubles,
                   kills, losses, hist>>

(* The segments on disk at the moment the process dies: the record being     *)
(* written may be there, in part or whole, and an unlinked inode goes with   *)
(* the process.                                                              *)
Left(cells) == Append(sealed, [inst |-> writer, cells |-> cells,
                               synced |-> synced])

Remains ==
    IF vanished THEN {sealed}
    ELSE {Left(file)}
         \union (IF pc = "prepare" /\ ~Full
                 THEN {Left(Append(file \o leftover, Record)),
                       Left(Append(file \o leftover, Torn(Record)))}
                 ELSE {})
         \union (IF pc = "repair"
                 THEN {Left(Append(accepted, Record)),
                       Left(Append(accepted, Torn(Record)))}
                 ELSE {})

(* What was in memory is gone.                                               *)
Death(lost) ==
    /\ status' = "down" /\ pc' = "idle" /\ cur' = 0
    /\ file' = <<>> /\ leftover' = <<>> /\ accepted' = <<>>
    /\ synced' = 0 /\ vanished' = FALSE /\ stub' = FALSE /\ chain_head' = 0
    /\ excused' = excused \union lost
                          \union (IF vanished THEN Ops(accepted) ELSE {})
    /\ dying' = IF pc = "idle" THEN dying ELSE dying \union {cur}
    /\ UNCHANGED <<writer, next_seqno, ops, faults, doubles, vanishes,
                   acked, durable>>

Kill ==
    /\ status = "open" /\ kills < MaxKills
    /\ kills' = kills + 1 /\ losses' = losses
    /\ sealed' \in Remains
    /\ Death({})

(* A segment after a power loss: any part past `synced' may be missing, and  *)
(* the first missing record may be there in part.                            *)
CutTo(seg, k, torn) ==
    [seg EXCEPT !.cells = IF torn /\ k < Len(seg.cells)
                          THEN Append(SubSeq(seg.cells, 1, k),
                                      Torn(seg.cells[k + 1]))
                          ELSE SubSeq(seg.cells, 1, k)]

PowerLoss ==
    /\ status = "open" /\ losses < MaxPowerLosses
    /\ losses' = losses + 1 /\ kills' = kills
    /\ \E segs \in Remains : \E torn \in BOOLEAN :
       \E keep \in [DOMAIN segs -> Lengths] :
          /\ \A i \in DOMAIN segs :
                keep[i] \in segs[i].synced .. Len(segs[i].cells)
          /\ sealed' = [i \in DOMAIN segs |-> CutTo(segs[i], keep[i], torn)]
    /\ Death(acked \ durable)

-----------------------------------------------------------------------------
(* open(): replay every segment on disk.  The replay of one segment ends at  *)
(* a record that runs past the end of the file, or whose CRC is wrong and    *)
(* that is the last one: the tail is cut off and the cut is fsynced.  A bad  *)
(* CRC before other records is fatal.                                        *)
\* The number of good records before the first broken one.
GoodOffset(seg, n) ==
    /\ n <= Len(seg.cells)
    /\ \A i \in 1 .. n : seg.cells[i].whole
    /\ n < Len(seg.cells) => ~seg.cells[n + 1].whole

\* Mutant: the cut is made at the start of the last good record.
MutTruncatedShort(seg, n) ==
    IF n < Len(seg.cells) /\ n > 0
    THEN [seg EXCEPT !.cells = SubSeq(seg.cells, 1, n - 1), !.synced = n - 1]
    ELSE seg

Truncated(seg, n) ==
    [seg EXCEPT !.cells = SubSeq(seg.cells, 1, n),
                !.synced = IF n < Len(seg.cells) THEN n ELSE seg.synced]

InteriorBreak(seg) ==
    \E i \in DOMAIN seg.cells : ~seg.cells[i].whole /\ i < Len(seg.cells)

\* Mutant: only the newest segment is looked at for the next seqno.
MutHighestSeqnoOfLast(segs, n) ==
    LET c == IF segs = <<>> THEN <<>> ELSE segs[Len(segs)].cells
    IN  n = IF c = <<>> THEN 0 ELSE c[Len(c)].seq

\* replay_wal: set_next_seqno(walked + 1) over every segment delivered.
HighestSeqno(segs, n) ==
    /\ \A i \in DOMAIN segs : \A j \in DOMAIN segs[i].cells :
          segs[i].cells[j].seq <= n
    /\ \/ n = 0
       \/ \E i \in DOMAIN segs : \E j \in DOMAIN segs[i].cells :
             segs[i].cells[j].seq = n

Reopen ==
    /\ status = "down"
    /\ \E good \in [DOMAIN sealed -> Lengths] :
          /\ \A i \in DOMAIN sealed : GoodOffset(sealed[i], good[i])
          /\ sealed' = [i \in DOMAIN sealed |-> Truncated(sealed[i], good[i])]
    /\ \E n \in 0 .. MaxOps :
          HighestSeqno(sealed', n) /\ next_seqno' = n + 1
    /\ status' = "open" /\ writer' = writer + 1
    /\ UNCHANGED <<pc, cur, file, leftover, accepted, synced, vanished, stub,
                   chain_head, ops, budget, hist>>

ReopenFails ==
    /\ status = "down"
    /\ \E i \in DOMAIN sealed : InteriorBreak(sealed[i])
    /\ status' = "fatal"
    /\ UNCHANGED <<writer, pc, cur, log, next_seqno, chain_head, ops, budget,
                   hist>>

-----------------------------------------------------------------------------
AppendRuns ==
    \/ AppendRecover \/ Rotate \/ AppendRefused \/ AppendWedged
    \/ WriteRecord \/ WriteFault \/ Repair \/ RepairFails \/ AppendAck

Next ==
    \/ AppendStart \/ AppendRuns \/ Sync \/ FlushBuf
    \/ Vanish \/ Kill \/ PowerLoss
    \/ Reopen \/ ReopenFails

Spec == Init /\ [][Next]_vars

\* A call of append() returns, and the chitta-wal thread, which waits for
\* next_sync_delay() between two calls of sync_if_due(), gets the log's mutex.
FairSpec == Spec /\ WF_vars(AppendRuns) /\ SF_vars(Sync)

-----------------------------------------------------------------------------
TypeOK ==
    /\ status \in {"open", "down", "fatal"}
    /\ pc \in {"idle", "prepare", "repair", "ack"}
    /\ writer \in Nat /\ cur \in Nat /\ ops \in Nat
    /\ sealed \in Seq(Segment)
    /\ file \in Seq(Cell) /\ leftover \in Seq(Cell) /\ accepted \in Seq(Cell)
    /\ synced \in Nat /\ vanished \in BOOLEAN /\ stub \in BOOLEAN
    /\ next_seqno \in Nat \ {0} /\ chain_head \in Nat
    /\ faults \in Nat /\ doubles \in Nat /\ vanishes \in Nat
    /\ kills \in Nat /\ losses \in Nat
    /\ acked \subseteq Nat /\ durable \subseteq Nat
    /\ excused \subseteq Nat /\ dying \subseteq Nat

\* What the running process's segment holds, or what recover_segment writes
\* back when the segment has been unlinked.
ActiveReadable ==
    IF status # "open" THEN {}
    ELSE IF vanished THEN Readable(accepted) ELSE Readable(file)

\* What open() would deliver if the process died now.
Recoverable ==
    (UNION {Readable(sealed[i].cells) : i \in DOMAIN sealed})
    \union ActiveReadable

(* An operation append() acknowledged is delivered by every later replay,    *)
(* unless the power failed before sync() covered it or the process died with *)
(* its segment unlinked (append, recover_segment, rotate_if_needed, sync,    *)
(* truncate_torn_tail together).                                             *)
AckedSafe == acked \ excused \subseteq Recoverable

(* Replay delivers no operation whose append() failed: everything it finds   *)
(* was acknowledged, is being written, or was when its process died.         *)
NoPhantom ==
    Recoverable \subseteq
        acked \union dying \union (IF pc = "idle" THEN {} ELSE {cur})

\* The segment before segment i when the same process wrote both.
Before(i) == IF i > 1 /\ sealed[i - 1].inst = sealed[i].inst
             THEN sealed[i - 1].cells ELSE <<>>

\* Records follow one another without a gap in seqno or in the hash chain.
Linked(before, cells) ==
    \A j \in Clean(cells) :
       LET all == before \o cells
           k   == Len(before) + j
       IN  IF k = 1 THEN cells[j].prev = 0
           ELSE /\ cells[j].prev = all[k - 1].op
                /\ cells[j].seq = all[k - 1].seq + 1

(* Every process's log is one chain of consecutive seqnos across rotations   *)
(* and recoveries, and a new process starts above everything on disk: what   *)
(* segment certificates and coverage vectors take for granted.               *)
OneChain ==
    /\ \A i \in DOMAIN sealed : Linked(Before(i), sealed[i].cells)
    /\ status = "open" =>
         /\ LET n == Len(sealed) IN
              Linked(IF n > 0 /\ sealed[n].inst = writer
                     THEN sealed[n].cells ELSE <<>>, file)
         /\ \A i \in DOMAIN sealed : \A j \in DOMAIN sealed[i].cells :
              sealed[i].cells[j].seq < next_seqno

(* A crash never makes the log unreadable: only records with a broken CRC in *)
(* the middle of a segment do, and torn writes stay at the end.              *)
NeverBricked == status # "fatal"

(* When an append() failed and its record reached the file all the same, the *)
(* record written after it does not link to it: chain_head moves only with   *)
(* an acknowledgement, so replay's chain check reports every such record     *)
(* that has a successor.                                                     *)
TamperEvident ==
    LET Shows(cells) ==
          \A j \in Clean(cells) :
             j > 1 /\ cells[j].prev = cells[j - 1].op
                => cells[j - 1].op \in acked \union dying
    IN  /\ \A i \in DOMAIN sealed : Shows(sealed[i].cells)
        /\ status = "open" => Shows(file)

(* The group commit reaches every acknowledged operation unless the process  *)
(* dies first (sync_if_due on the chitta-wal thread).                        *)
EventuallyDurable ==
    \A op \in 1 .. MaxOps :
       op \in Ops(accepted) ~> (op \in durable \/ status # "open")
=============================================================================
