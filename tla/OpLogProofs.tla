---------------------------- MODULE OpLogProofs ----------------------------
(***************************************************************************)
(* Theorems about OpLog for every value of its bounds.                     *)
(*                                                                         *)
(* AckedSafe is not inductive: between the steps of append() the file and  *)
(* the copy kept for recovery differ by the record in flight, and what a   *)
(* power loss may take depends on how much of each segment was fsynced.    *)
(* IInv says both.  PhantomInv adds that nothing else is on disk than what *)
(* was acknowledged or in flight when a process died, HonestInv that every *)
(* record was built on an acknowledged one, ChainInv how each segment      *)
(* continues the chain of its writer.                                      *)
(*                                                                         *)
(* The log also implements Journal, as long as no failed write meets a     *)
(* failed repair.  The refinement mapping reads the journal off the disk,  *)
(* so each step has to be matched with what replay would deliver before    *)
(* and after it.  Delivered says what that is, apart from the operation in *)
(* flight: what the sealed segments deliver and what append() has accepted *)
(* since.                                                                  *)
(***************************************************************************)
EXTENDS MCOpLog, SequenceTheorems, TLAPS

\* Operations of the first n records.
OpsUpTo(cells, n) == {cells[i].op : i \in {j \in DOMAIN cells : j <= n}}

\* The active segment and accepted_prefix differ at most by the record that
\* append() is writing, and only accepted records count as fsynced.
ActiveInv ==
    /\ pc \in {"idle", "prepare"} => file = accepted /\ leftover = <<>>
    /\ pc = "ack" => file = Append(accepted, Record) /\ leftover = <<>>
    /\ pc = "repair" => file \in {accepted, Append(accepted, Torn(Record))}
    /\ synced <= Len(accepted)
    /\ \A j \in DOMAIN accepted : accepted[j].whole
    /\ status # "open" => accepted = <<>> /\ pc = "idle"

\* A broken record is the last of its segment, past everything fsynced.
SegInv(seg) ==
    /\ seg.synced <= Len(seg.cells)
    /\ \A j \in DOMAIN seg.cells :
          ~seg.cells[j].whole => j = Len(seg.cells) /\ j > seg.synced

SealedInv == \A i \in DOMAIN sealed : SegInv(sealed[i])

DurableInv ==
    \A op \in durable \ excused :
       \/ \E i \in DOMAIN sealed :
             op \in OpsUpTo(sealed[i].cells, sealed[i].synced)
       \/ op \in OpsUpTo(accepted, synced)

AckedInv ==
    \A op \in acked \ excused :
       \/ \E i \in DOMAIN sealed : op \in Readable(sealed[i].cells)
       \/ op \in Ops(accepted)

IInv == TypeOK /\ doubles = 0 /\ ActiveInv /\ SealedInv /\ DurableInv
        /\ AckedInv /\ status # "fatal"

-----------------------------------------------------------------------------
(* A function on 1..n with values in S is a sequence over S.                 *)
LEMMA SeqByIndex ==
    ASSUME NEW S, NEW n \in Nat, NEW f, f = [i \in 1 .. n |-> f[i]],
           \A i \in 1 .. n : f[i] \in S
    PROVE  f \in Seq(S) /\ Len(f) = n
  <1>1. f \in [1 .. n -> S]
    OBVIOUS
  <1> QED BY <1>1

(* The record append() builds is a well-formed record.                       *)
LEMMA RecordType ==
    ASSUME TypeOK
    PROVE  /\ Record \in Cell /\ Torn(Record) \in Cell
           /\ Record.op = cur /\ Record.whole = TRUE
           /\ Torn(Record).whole = FALSE
  BY DEF TypeOK, Record, Torn, Cell

LEMMA TornType ==
    ASSUME NEW c \in Cell
    PROVE  Torn(c) \in Cell /\ Torn(c).whole = FALSE
  BY DEF Torn, Cell

(* Appending to a sequence of records, or joining two, gives one.            *)
LEMMA CellSeqs ==
    ASSUME NEW s \in Seq(Cell), NEW t \in Seq(Cell), NEW c \in Cell
    PROVE  /\ Append(s, c) \in Seq(Cell) /\ s \o t \in Seq(Cell)
           /\ <<c>> \in Seq(Cell)
           /\ Len(s) \in Nat /\ DOMAIN s = 1 .. Len(s)
           /\ \A i \in DOMAIN s : s[i] \in Cell
           /\ <<>> \in Seq(Cell)
  OBVIOUS

(* Operation sets of typed records are sets of numbers.                      *)
LEMMA OpsType ==
    ASSUME NEW s \in Seq(Cell)
    PROVE  Ops(s) \subseteq Nat
  <1>1. \A i \in DOMAIN s : s[i] \in Cell
    OBVIOUS
  <1>2. \A i \in DOMAIN s : s[i].op \in Nat
    BY <1>1 DEF Cell
  <1> QED BY <1>2 DEF Ops

(* A segment that loses its tail is still a segment.                         *)
LEMMA CutToType ==
    ASSUME NEW seg \in Segment, NEW k \in Nat, k <= Len(seg.cells),
           NEW torn \in BOOLEAN
    PROVE  CutTo(seg, k, torn) \in Segment
  <1>1. seg.cells \in Seq(Cell) /\ Len(seg.cells) \in Nat
    BY DEF Segment
  <1>2. SubSeq(seg.cells, 1, k) \in Seq(Cell)
    BY <1>1
  <1>3. CASE torn /\ k < Len(seg.cells)
    <2>1. seg.cells[k + 1] \in Cell
      BY <1>1, <1>3
    <2>2. Append(SubSeq(seg.cells, 1, k), Torn(seg.cells[k + 1])) \in Seq(Cell)
      BY <1>2, <2>1, TornType, CellSeqs
    <2> QED BY <1>3, <2>2 DEF CutTo, Segment
  <1>4. CASE ~(torn /\ k < Len(seg.cells))
    BY <1>2, <1>4 DEF CutTo, Segment
  <1> QED BY <1>3, <1>4

LEMMA TruncatedType ==
    ASSUME NEW seg \in Segment, NEW n \in Nat, n <= Len(seg.cells)
    PROVE  Truncated(seg, n) \in Segment
  <1>1. seg.cells \in Seq(Cell) /\ Len(seg.cells) \in Nat /\ seg.synced \in Nat
    BY DEF Segment
  <1>2. SubSeq(seg.cells, 1, n) \in Seq(Cell)
    BY <1>1
  <1> QED BY <1>1, <1>2 DEF Truncated, Segment

(* What a dead process leaves is a sequence of segments.                     *)
LEMMA RemainsType ==
    ASSUME TypeOK
    PROVE  \A segs \in Remains : segs \in Seq(Segment)
  <1>1. /\ file \in Seq(Cell) /\ leftover \in Seq(Cell)
        /\ accepted \in Seq(Cell) /\ writer \in Nat /\ synced \in Nat
        /\ sealed \in Seq(Segment)
    BY DEF TypeOK
  <1>2. \A c \in Seq(Cell) : Left(c) \in Seq(Segment)
    BY <1>1 DEF Left, Segment
  <1>3. file \o leftover \in Seq(Cell)
    BY <1>1
  <1>4. /\ Append(file \o leftover, Record) \in Seq(Cell)
        /\ Append(file \o leftover, Torn(Record)) \in Seq(Cell)
        /\ Append(accepted, Record) \in Seq(Cell)
        /\ Append(accepted, Torn(Record)) \in Seq(Cell)
    BY <1>1, <1>3, RecordType, CellSeqs
  <1> QED BY <1>1, <1>2, <1>4 DEF Remains

-----------------------------------------------------------------------------
(* Every step, double faults included, keeps every variable in its type.     *)
LEMMA TypeStep ==
    ASSUME TypeOK, [Next]_vars
    PROVE  TypeOK'
  <1> USE BoundsAssumption
  <1>0. /\ file \in Seq(Cell) /\ leftover \in Seq(Cell)
        /\ accepted \in Seq(Cell) /\ sealed \in Seq(Segment)
        /\ Record \in Cell /\ Torn(Record) \in Cell
    BY RecordType DEF TypeOK
  <1>a. /\ file \o leftover \in Seq(Cell)
        /\ Append(accepted, Record) \in Seq(Cell)
        /\ Len(accepted) \in Nat /\ Len(file) \in Nat /\ Len(leftover) \in Nat
        /\ Len(file \o leftover) \in Nat
        /\ <<>> \in Seq(Cell) /\ <<Record>> \in Seq(Cell)
    BY <1>0, CellSeqs
  <1>b. Ops(accepted) \subseteq Nat
    BY <1>0, OpsType
  <1>c. \A f, r \in Seq(Cell) : Residue(f, r) =>
           file' \in Seq(Cell) /\ leftover' \in Seq(Cell)
    <2> SUFFICES ASSUME NEW f \in Seq(Cell), NEW r \in Seq(Cell), Residue(f, r)
                 PROVE  file' \in Seq(Cell) /\ leftover' \in Seq(Cell)
      OBVIOUS
    <2>1. f \o r \in Seq(Cell)
      OBVIOUS
    <2>2. Append(r, Record) \in Seq(Cell)
          /\ Append(f \o r, Torn(Record)) \in Seq(Cell)
      BY <1>0, <2>1, CellSeqs
    <2> QED BY <1>a, <2>2 DEF Residue
  <1>1. CASE AppendStart
    BY <1>1 DEF AppendStart, TypeOK, log, budget, hist
  <1>2. CASE AppendRecover
    BY <1>2, <1>a DEF AppendRecover, Recovered, TypeOK, budget, hist
  <1>3. CASE Rotate
    <2>1. [inst |-> writer, cells |-> file \o leftover,
           synced |-> Len(file \o leftover)] \in Segment
      BY <1>a DEF TypeOK, Segment
    <2>2. sealed' \in Seq(Segment)
      BY <1>0, <1>3, <2>1 DEF Rotate
    <2> QED BY <1>3, <1>a, <1>b, <2>2 DEF Rotate, TypeOK, budget
  <1>4. CASE AppendRefused
    <2>0. Full \in BOOLEAN /\ stub \in BOOLEAN
      BY <1>a DEF TypeOK, Full
    <2>1. stub' \in BOOLEAN
      BY <1>4, <2>0, Zenon DEF AppendRefused
    <2> QED BY <1>4, <2>1 DEF AppendRefused, TypeOK, hist
  <1>5. CASE AppendWedged
    BY <1>5 DEF AppendWedged, TypeOK, log, budget, hist
  <1>6. CASE WriteRecord
    <2>1. (file \o leftover) \o <<Record>> \in Seq(Cell)
      BY <1>a
    <2> QED BY <1>6, <1>a, <2>1 DEF WriteRecord, TypeOK, budget, hist
  <1>7. CASE WriteFault
    BY <1>7, <1>0, <1>c DEF WriteFault, TypeOK, hist
  <1>8. CASE Repair
    BY <1>8, <1>a DEF Repair, Recovered, TypeOK, budget, hist
  <1>9. CASE RepairFails
    <2>1. file' \in Seq(Cell) /\ leftover' \in Seq(Cell)
      BY <1>9, <1>0, <1>a, <1>c DEF RepairFails
    <2>2. synced' \in Nat
      BY <1>9, <1>a DEF RepairFails, TypeOK
    <2>3. vanished' \in BOOLEAN
      BY <1>9 DEF RepairFails, TypeOK
    <2> QED BY <1>9, <2>1, <2>2, <2>3 DEF RepairFails, TypeOK, hist
  <1>10. CASE AppendAck
    BY <1>10, <1>a DEF AppendAck, TypeOK, budget
  <1>11. CASE Sync
    <2>1. file' \in Seq(Cell) /\ leftover' \in Seq(Cell)
      BY <1>11, <1>0, <1>a DEF Sync, Recovered
    <2>2. synced' \in Nat
      BY <1>11, <1>a DEF Sync, Recovered
    <2>3. vanished' \in BOOLEAN /\ stub' \in BOOLEAN
      BY <1>11 DEF Sync, Recovered, TypeOK
    <2>4. faults' \in Nat
      BY <1>11 DEF Sync, TypeOK
    <2> QED BY <1>11, <1>b, <2>1, <2>2, <2>3, <2>4 DEF Sync, TypeOK
  <1>12. CASE FlushBuf
    BY <1>12, <1>a DEF FlushBuf, TypeOK, budget, hist
  <1>13. CASE Vanish
    BY <1>13 DEF Vanish, TypeOK, hist
  <1>d. ASSUME NEW lost \in SUBSET Nat, Death(lost), sealed' \in Seq(Segment),
               kills' \in Nat, losses' \in Nat
        PROVE  TypeOK'
    <2>1. excused' \subseteq Nat /\ dying' \subseteq Nat
      BY <1>d, <1>b DEF Death, TypeOK
    <2> QED BY <1>d, <1>a, <2>1 DEF Death, TypeOK
  <1>14. CASE Kill
    <2>1. sealed' \in Seq(Segment)
      BY <1>14, RemainsType DEF Kill
    <2>2. kills' \in Nat /\ losses' \in Nat /\ Death({})
      BY <1>14 DEF Kill, TypeOK
    <2> QED BY <1>d, <2>1, <2>2
  <1>15. CASE PowerLoss
    <2>0. PICK segs \in Remains : \E torn \in BOOLEAN :
            \E keep \in [DOMAIN segs -> Lengths] :
            /\ \A i \in DOMAIN segs :
                  keep[i] \in segs[i].synced .. Len(segs[i].cells)
            /\ sealed' = [i \in DOMAIN segs |-> CutTo(segs[i], keep[i], torn)]
      BY <1>15 DEF PowerLoss
    <2>1. PICK torn \in BOOLEAN, keep \in [DOMAIN segs -> Lengths] :
            /\ \A i \in DOMAIN segs :
                  keep[i] \in segs[i].synced .. Len(segs[i].cells)
            /\ sealed' = [i \in DOMAIN segs |-> CutTo(segs[i], keep[i], torn)]
      BY <2>0
    <2>2. segs \in Seq(Segment)
      BY RemainsType
    <2>3. \A i \in DOMAIN segs : CutTo(segs[i], keep[i], torn) \in Segment
      <3> SUFFICES ASSUME NEW i \in DOMAIN segs
                   PROVE  CutTo(segs[i], keep[i], torn) \in Segment
        OBVIOUS
      <3>0. segs[i] \in Segment
        BY <2>2
      <3>1. segs[i] \in Segment /\ segs[i].synced \in Nat
        BY <3>0 DEF Segment
      <3>2. Len(segs[i].cells) \in Nat
        BY <3>1 DEF Segment
      <3>3. keep[i] \in Nat /\ keep[i] <= Len(segs[i].cells)
        BY <2>1, <3>1, <3>2
      <3> QED BY <3>1, <3>3, CutToType
    <2>4. sealed' \in Seq(Segment)
      <3>1. DOMAIN segs = 1 .. Len(segs) /\ Len(segs) \in Nat
        BY <2>2
      <3> QED BY <2>1, <2>3, <3>1, SeqByIndex
    <2>5. kills' \in Nat /\ losses' \in Nat /\ Death(acked \ durable)
      BY <1>15 DEF PowerLoss, TypeOK
    <2>6. acked \ durable \in SUBSET Nat
      BY DEF TypeOK
    <2> QED BY <1>d, <2>4, <2>5, <2>6
  <1>16. CASE Reopen
    <2>1. PICK good \in [DOMAIN sealed -> Lengths] :
            /\ \A i \in DOMAIN sealed : GoodOffset(sealed[i], good[i])
            /\ sealed' = [i \in DOMAIN sealed |-> Truncated(sealed[i], good[i])]
      BY <1>16 DEF Reopen
    <2>2. \A i \in DOMAIN sealed : Truncated(sealed[i], good[i]) \in Segment
      <3> SUFFICES ASSUME NEW i \in DOMAIN sealed
                   PROVE  Truncated(sealed[i], good[i]) \in Segment
        OBVIOUS
      <3>1. sealed[i] \in Segment
        BY <1>0
      <3>2. good[i] \in Nat /\ good[i] <= Len(sealed[i].cells)
        BY <2>1 DEF GoodOffset, Lengths
      <3> QED BY <3>1, <3>2, TruncatedType
    <2>3. sealed' \in Seq(Segment)
      <3>1. DOMAIN sealed = 1 .. Len(sealed) /\ Len(sealed) \in Nat
        BY <1>0
      <3> QED BY <2>1, <2>2, <3>1, SeqByIndex
    <2>4. next_seqno' \in Nat \ {0}
      BY <1>16 DEF Reopen
    <2> QED BY <1>16, <2>3, <2>4 DEF Reopen, TypeOK, budget, hist
  <1>17. CASE ReopenFails
    BY <1>17 DEF ReopenFails, TypeOK, log, budget, hist
  <1>18. CASE UNCHANGED vars
    BY <1>18 DEF TypeOK, vars, log, budget, hist
  <1> QED
    BY <1>1, <1>2, <1>3, <1>4, <1>5, <1>6, <1>7, <1>8, <1>9, <1>10, <1>11,
       <1>12, <1>13, <1>14, <1>15, <1>16, <1>17, <1>18 DEF Next, AppendRuns

LEMMA InitTypeOK ==
    ASSUME Init
    PROVE  TypeOK
  <1>0. <<>> \in Seq(Cell) /\ <<>> \in Seq(Segment)
    OBVIOUS
  <1>1. vanished \in BOOLEAN /\ stub \in BOOLEAN
    BY Zenon DEF Init
  <1>2. /\ sealed \in Seq(Segment) /\ file \in Seq(Cell)
        /\ leftover \in Seq(Cell) /\ accepted \in Seq(Cell)
    BY <1>0, Zenon DEF Init
  <1> QED BY <1>1, <1>2 DEF Init, TypeOK

(* The type invariant of the log, for every number of operations, faults and *)
(* crashes, double faults included.                                          *)
THEOREM TypeCorrect == Spec => []TypeOK
  <1>1. Init => TypeOK
    BY InitTypeOK
  <1>2. TypeOK /\ [Next]_vars => TypeOK'
    BY TypeStep
  <1> QED BY <1>1, <1>2, PTL DEF Spec

-----------------------------------------------------------------------------
(* Whatever follows them, the whole records at the front are delivered.      *)
LEMMA FrontReadable ==
    ASSUME NEW a \in Seq(Cell), NEW c \in Seq(Cell),
           \A j \in DOMAIN a : a[j].whole, Len(a) <= Len(c),
           \A j \in DOMAIN a : c[j] = a[j]
    PROVE  Ops(a) \subseteq Readable(c)
  <1> SUFFICES ASSUME NEW i \in DOMAIN a PROVE a[i].op \in Readable(c)
    BY DEF Ops
  <1>1. DOMAIN a = 1 .. Len(a) /\ DOMAIN c = 1 .. Len(c)
        /\ Len(a) \in Nat /\ Len(c) \in Nat
    OBVIOUS
  <1>2. i \in DOMAIN c /\ \A j \in 1 .. i : j \in DOMAIN a
    BY <1>1
  <1>3. i \in Clean(c)
    BY <1>2 DEF Clean
  <1> QED BY <1>3 DEF Readable

(* What is fsynced of a well-formed segment is delivered.                    *)
LEMMA SyncedReadable ==
    ASSUME NEW seg \in Segment, SegInv(seg)
    PROVE  OpsUpTo(seg.cells, seg.synced) \subseteq Readable(seg.cells)
  <1>1. /\ seg.cells \in Seq(Cell) /\ seg.synced \in Nat
        /\ DOMAIN seg.cells = 1 .. Len(seg.cells) /\ Len(seg.cells) \in Nat
    BY DEF Segment
  <1> SUFFICES ASSUME NEW i \in DOMAIN seg.cells, i <= seg.synced
               PROVE  seg.cells[i].op \in Readable(seg.cells)
    BY DEF OpsUpTo
  <1>2. \A j \in 1 .. i : j \in DOMAIN seg.cells /\ ~(j > seg.synced)
    BY <1>1
  <1>3. \A j \in 1 .. i : seg.cells[j].whole
    BY <1>2 DEF SegInv
  <1>4. i \in Clean(seg.cells)
    BY <1>3 DEF Clean
  <1> QED BY <1>4 DEF Readable

(* A power loss takes nothing that was fsynced, and what it breaks is last.  *)
LEMMA CutKeeps ==
    ASSUME NEW seg \in Segment, SegInv(seg), NEW torn \in BOOLEAN,
           NEW k \in seg.synced .. Len(seg.cells)
    PROVE  LET cut == CutTo(seg, k, torn) IN
           /\ SegInv(cut)
           /\ OpsUpTo(seg.cells, seg.synced) \subseteq
                 OpsUpTo(cut.cells, cut.synced)
  <1> DEFINE cut == CutTo(seg, k, torn)
  <1>1. /\ seg.cells \in Seq(Cell) /\ seg.synced \in Nat
        /\ DOMAIN seg.cells = 1 .. Len(seg.cells) /\ Len(seg.cells) \in Nat
    BY DEF Segment
  <1>2. k \in Nat /\ seg.synced <= k /\ k <= Len(seg.cells)
    BY <1>1
  <1> DEFINE front == SubSeq(seg.cells, 1, k)
  <1>3. /\ front \in Seq(Cell) /\ Len(front) = k
        /\ \A j \in 1 .. k : front[j] = seg.cells[j]
    BY <1>1, <1>2
  <1>4. cut.synced = seg.synced
    BY DEF CutTo, Segment
  <1>5. CASE torn /\ k < Len(seg.cells)
    <2>0. seg.cells[k + 1] \in Cell
      BY <1>1, <1>2, <1>5
    <2> DEFINE piece == Torn(seg.cells[k + 1])
    <2>1. piece \in Cell
      BY <2>0, TornType
    <2>2. cut.cells = Append(front, piece)
      BY <1>5 DEF CutTo, Segment
    <2> HIDE DEF front, piece, cut
    <2>3. /\ Len(cut.cells) = k + 1 /\ DOMAIN cut.cells = 1 .. k + 1
          /\ \A j \in 1 .. k : cut.cells[j] = seg.cells[j]
      BY <1>2, <1>3, <2>1, <2>2
    <2>4. \A j \in 1 .. k : seg.cells[j].whole
      BY <1>1, <1>2, <1>5 DEF SegInv
    <2>5. SegInv(cut)
      BY <1>1, <1>2, <1>4, <2>3, <2>4 DEF SegInv
    <2>6. OpsUpTo(seg.cells, seg.synced) \subseteq OpsUpTo(cut.cells, cut.synced)
      BY <1>1, <1>2, <1>4, <2>3 DEF OpsUpTo
    <2> QED BY <2>5, <2>6 DEF cut
  <1>6. CASE ~(torn /\ k < Len(seg.cells))
    <2>1. cut.cells = front
      BY <1>6 DEF CutTo, Segment
    <2> HIDE DEF front, cut
    <2>2. /\ Len(cut.cells) = k /\ DOMAIN cut.cells = 1 .. k
          /\ \A j \in 1 .. k : cut.cells[j] = seg.cells[j]
      BY <1>2, <1>3, <2>1
    <2>3. SegInv(cut)
      BY <1>1, <1>2, <1>4, <2>2 DEF SegInv
    <2>4. OpsUpTo(seg.cells, seg.synced) \subseteq OpsUpTo(cut.cells, cut.synced)
      BY <1>1, <1>2, <1>4, <2>2 DEF OpsUpTo
    <2> QED BY <2>3, <2>4 DEF cut
  <1> QED BY <1>5, <1>6

(* Truncating a torn tail changes nothing of what replay delivers.           *)
LEMMA TruncateKeeps ==
    ASSUME NEW seg \in Segment, SegInv(seg), NEW n \in Nat,
           GoodOffset(seg, n)
    PROVE  LET t == Truncated(seg, n) IN
           /\ SegInv(t)
           /\ Readable(seg.cells) \subseteq Readable(t.cells)
           /\ OpsUpTo(seg.cells, seg.synced) \subseteq
                 OpsUpTo(t.cells, t.synced)
  <1> DEFINE t == Truncated(seg, n)
  <1>1. /\ seg.cells \in Seq(Cell) /\ seg.synced \in Nat
        /\ DOMAIN seg.cells = 1 .. Len(seg.cells) /\ Len(seg.cells) \in Nat
    BY DEF Segment
  <1>2. /\ n <= Len(seg.cells) /\ \A i \in 1 .. n : seg.cells[i].whole
        /\ n < Len(seg.cells) => ~seg.cells[n + 1].whole
    BY DEF GoodOffset
  <1>3. /\ t.cells = SubSeq(seg.cells, 1, n)
        /\ t.synced = IF n < Len(seg.cells) THEN n ELSE seg.synced
    BY DEF Truncated, Segment
  <1> HIDE DEF t
  <1>4. /\ Len(t.cells) = n /\ DOMAIN t.cells = 1 .. n
        /\ \A j \in 1 .. n : t.cells[j] = seg.cells[j]
    BY <1>1, <1>2, <1>3
  <1>5. seg.synced <= n
    <2>1. CASE n < Len(seg.cells)
      <3>1. n + 1 \in DOMAIN seg.cells
        BY <1>1, <2>1
      <3>2. n + 1 > seg.synced
        BY <1>2, <2>1, <3>1 DEF SegInv
      <3> QED BY <1>1, <3>2
    <2>2. CASE ~(n < Len(seg.cells))
      BY <1>1, <1>2, <2>2 DEF SegInv
    <2> QED BY <2>1, <2>2
  <1>6. t.synced \in Nat /\ seg.synced <= t.synced /\ t.synced <= n
    BY <1>1, <1>3, <1>5
  <1>7. SegInv(t)
    BY <1>2, <1>4, <1>6 DEF SegInv
  <1>8. Readable(seg.cells) \subseteq Readable(t.cells)
    <2> SUFFICES ASSUME NEW i \in Clean(seg.cells)
                 PROVE  seg.cells[i].op \in Readable(t.cells)
      BY DEF Readable
    <2>1. i \in 1 .. Len(seg.cells) /\ \A j \in 1 .. i : seg.cells[j].whole
      BY <1>1 DEF Clean
    <2>2. i <= n
      BY <1>1, <1>2, <2>1
    <2>3. i \in Clean(t.cells)
      BY <1>1, <1>4, <2>1, <2>2 DEF Clean
    <2> QED BY <1>1, <1>4, <2>1, <2>2, <2>3 DEF Readable
  <1>9. OpsUpTo(seg.cells, seg.synced) \subseteq OpsUpTo(t.cells, t.synced)
    BY <1>1, <1>4, <1>5, <1>6 DEF OpsUpTo
  <1> QED BY <1>7, <1>8, <1>9 DEF t

\* The accepted records, with at most one more.
AtMostOneMore(c) == c = accepted \/ \E r \in Cell : c = Append(accepted, r)

(* The segment a dying process leaves holds every accepted record, and       *)
(* nothing broken but the record it was writing.                             *)
LEMMA LeftKeeps ==
    ASSUME IInv, NEW c \in Seq(Cell), AtMostOneMore(c)
    PROVE  LET seg == [inst |-> writer, cells |-> c, synced |-> synced] IN
           /\ seg \in Segment /\ SegInv(seg)
           /\ Ops(accepted) \subseteq Readable(c)
           /\ OpsUpTo(accepted, synced) \subseteq OpsUpTo(c, synced)
  <1>1. /\ accepted \in Seq(Cell) /\ synced \in Nat /\ writer \in Nat
        /\ synced <= Len(accepted) /\ \A j \in DOMAIN accepted : accepted[j].whole
    BY DEF IInv, TypeOK, ActiveInv
  <1>2. Len(accepted) \in Nat /\ DOMAIN accepted = 1 .. Len(accepted)
    BY <1>1
  <1>3. /\ Len(c) \in Nat /\ Len(accepted) <= Len(c)
        /\ Len(c) <= Len(accepted) + 1
        /\ DOMAIN c = 1 .. Len(c)
        /\ \A j \in DOMAIN accepted : c[j] = accepted[j]
    <2>1. CASE c = accepted
      BY <1>2, <2>1
    <2>2. ASSUME NEW r \in Cell, c = Append(accepted, r)
          PROVE  /\ Len(c) \in Nat /\ Len(accepted) <= Len(c)
                 /\ Len(c) <= Len(accepted) + 1
                 /\ DOMAIN c = 1 .. Len(c)
                 /\ \A j \in DOMAIN accepted : c[j] = accepted[j]
      BY <1>1, <1>2, <2>2
    <2> QED BY <2>1, <2>2 DEF AtMostOneMore
  <1>4. Ops(accepted) \subseteq Readable(c)
    BY <1>1, <1>2, <1>3, FrontReadable
  <1>5. OpsUpTo(accepted, synced) \subseteq OpsUpTo(c, synced)
    <2>1. \A j \in DOMAIN accepted : j \in DOMAIN c
      BY <1>2, <1>3
    <2> QED BY <1>3, <2>1 DEF OpsUpTo
  <1> DEFINE seg == [inst |-> writer, cells |-> c, synced |-> synced]
  <1>6. seg \in Segment
    BY <1>1 DEF Segment
  <1>7. \A j \in DOMAIN c : ~c[j].whole => j = Len(c) /\ j > synced
    <2> SUFFICES ASSUME NEW j \in DOMAIN c, ~c[j].whole
                 PROVE  j = Len(c) /\ j > synced
      OBVIOUS
    <2>1. j \notin DOMAIN accepted
      BY <1>1, <1>3
    <2>2. j \in Nat /\ j > Len(accepted) /\ j <= Len(c)
      BY <1>2, <1>3, <2>1
    <2> QED BY <1>1, <1>2, <1>3, <2>2
  <1>8. SegInv(seg)
    <2>1. seg.cells = c /\ seg.synced = synced
      OBVIOUS
    <2>2. synced <= Len(c)
      BY <1>1, <1>2, <1>3
    <2> QED BY <1>7, <2>1, <2>2 DEF SegInv
  <1> QED BY <1>4, <1>5, <1>6, <1>8

(* Adding a segment keeps the others where they are.                         *)
LEMMA AppendSegment ==
    ASSUME NEW segs \in Seq(Segment), NEW seg \in Segment
    PROVE  /\ Len(segs) + 1 \in DOMAIN Append(segs, seg)
           /\ Append(segs, seg)[Len(segs) + 1] = seg
           /\ \A i \in DOMAIN segs : /\ i \in DOMAIN Append(segs, seg)
                                     /\ Append(segs, seg)[i] = segs[i]
           /\ \A i \in DOMAIN Append(segs, seg) :
                 i \in DOMAIN segs \/ i = Len(segs) + 1
  OBVIOUS

(* What a dying process leaves on disk keeps everything it acknowledged,     *)
(* except the content of an unlinked segment.                                *)
LEMMA RemainsKeep ==
    ASSUME IInv, NEW segs \in Remains
    PROVE  /\ segs \in Seq(Segment)
           /\ \A i \in DOMAIN segs : SegInv(segs[i])
           /\ \A op \in durable \ excused :
                 \/ \E i \in DOMAIN segs :
                       op \in OpsUpTo(segs[i].cells, segs[i].synced)
                 \/ vanished /\ op \in Ops(accepted)
           /\ \A op \in acked \ excused :
                 \/ \E i \in DOMAIN segs : op \in Readable(segs[i].cells)
                 \/ vanished /\ op \in Ops(accepted)
  <1>0. TypeOK /\ ActiveInv /\ SealedInv /\ DurableInv /\ AckedInv
    BY DEF IInv
  <1>1. segs \in Seq(Segment)
    BY <1>0, RemainsType
  <1>2. OpsUpTo(accepted, synced) \subseteq Ops(accepted)
    BY DEF OpsUpTo, Ops
  <1>3. CASE vanished
    <2>1. segs = sealed
      BY <1>3 DEF Remains
    <2> QED BY <1>0, <1>1, <1>2, <1>3, <2>1 DEF SealedInv, DurableInv, AckedInv
  <1>4. CASE ~vanished
    <2>1. /\ accepted \in Seq(Cell) /\ Record \in Cell /\ Torn(Record) \in Cell
          /\ file \in Seq(Cell) /\ sealed \in Seq(Segment)
      BY <1>0, RecordType DEF TypeOK
    <2>2. pc \in {"idle", "prepare", "repair", "ack"}
      BY <1>0 DEF TypeOK
    <2>3. \/ file = accepted
          \/ file = Append(accepted, Record) \/ file = Append(accepted, Torn(Record))
      BY <1>0, <2>2 DEF ActiveInv
    <2>4. pc = "prepare" => file \o leftover = accepted
      BY <1>0, <2>1 DEF ActiveInv
    <2>5. PICK c : /\ segs = Left(c)
                   /\ c \in {accepted, Append(accepted, Record),
                             Append(accepted, Torn(Record))}
      <3>1. CASE segs = Left(file)
        BY <2>3, <3>1
      <3>2. CASE segs # Left(file)
        BY <1>4, <2>4, <3>2 DEF Remains
      <3> QED BY <3>1, <3>2
    <2>6. c \in Seq(Cell)
      BY <2>1, <2>5, CellSeqs
    <2>7. AtMostOneMore(c)
      BY <2>1, <2>5 DEF AtMostOneMore
    <2> DEFINE seg == [inst |-> writer, cells |-> c, synced |-> synced]
    <2>8. /\ seg \in Segment /\ SegInv(seg)
          /\ Ops(accepted) \subseteq Readable(seg.cells)
          /\ OpsUpTo(accepted, synced) \subseteq OpsUpTo(seg.cells, seg.synced)
      BY <2>6, <2>7, LeftKeeps
    <2>9. segs = Append(sealed, seg)
      BY <2>5 DEF Left
    <2> HIDE DEF seg
    <2>10. /\ Len(sealed) + 1 \in DOMAIN segs /\ segs[Len(sealed) + 1] = seg
           /\ \A i \in DOMAIN sealed : i \in DOMAIN segs /\ segs[i] = sealed[i]
           /\ \A i \in DOMAIN segs : i \in DOMAIN sealed \/ i = Len(sealed) + 1
      BY <2>1, <2>8, <2>9, AppendSegment
    <2>11. \A i \in DOMAIN segs : SegInv(segs[i])
      BY <1>0, <2>8, <2>10 DEF SealedInv
    <2>12. \A op \in durable \ excused :
              \E i \in DOMAIN segs : op \in OpsUpTo(segs[i].cells, segs[i].synced)
      BY <1>0, <2>8, <2>10 DEF DurableInv
    <2>13. \A op \in acked \ excused :
              \E i \in DOMAIN segs : op \in Readable(segs[i].cells)
      BY <1>0, <2>8, <2>10 DEF AckedInv
    <2> QED BY <1>1, <2>11, <2>12, <2>13
  <1> QED BY <1>3, <1>4

(* fsyncing all accepted records only adds to what is known to be durable.   *)
LEMMA UpToAll ==
    ASSUME NEW a \in Seq(Cell), NEW n \in Nat
    PROVE  /\ OpsUpTo(a, Len(a)) = Ops(a)
           /\ OpsUpTo(a, n) \subseteq Ops(a)
  <1>1. \A j \in DOMAIN a : j <= Len(a)
    OBVIOUS
  <1> QED BY <1>1 DEF OpsUpTo, Ops

(* AppendAck adds the record to what was accepted.                           *)
LEMMA OpsAppend ==
    ASSUME NEW a \in Seq(Cell), NEW r \in Cell, NEW n \in Nat, n <= Len(a)
    PROVE  /\ Ops(Append(a, r)) = Ops(a) \union {r.op}
           /\ OpsUpTo(Append(a, r), n) = OpsUpTo(a, n)
  <1>1. /\ DOMAIN Append(a, r) = DOMAIN a \union {Len(a) + 1}
        /\ Append(a, r)[Len(a) + 1] = r
        /\ \A j \in DOMAIN a : Append(a, r)[j] = a[j]
        /\ Len(a) \in Nat
    OBVIOUS
  <1>2. Len(a) + 1 > n
    BY <1>1
  <1>3. Ops(Append(a, r)) = Ops(a) \union {r.op}
    BY <1>1 DEF Ops
  <1>4. {j \in DOMAIN Append(a, r) : j <= n} = {j \in DOMAIN a : j <= n}
    BY <1>1, <1>2
  <1>5. OpsUpTo(Append(a, r), n) = OpsUpTo(a, n)
    BY <1>1, <1>4 DEF OpsUpTo
  <1> QED BY <1>3, <1>5

-----------------------------------------------------------------------------
(* A death, by signal or by power loss, from segments that keep what IInv    *)
(* promises.                                                                 *)
LEMMA DeathStep ==
    ASSUME IInv, NEW lost, Death(lost), sealed' \in Seq(Segment),
           \A i \in DOMAIN sealed' : SegInv(sealed'[i]),
           \A op \in durable \ excused :
              \/ \E i \in DOMAIN sealed' :
                    op \in OpsUpTo(sealed'[i].cells, sealed'[i].synced)
              \/ vanished /\ op \in Ops(accepted),
           \A op \in acked \ (excused \union lost) :
              \/ \E i \in DOMAIN sealed' : op \in Readable(sealed'[i].cells)
              \/ vanished /\ op \in Ops(accepted)
    PROVE  /\ doubles' = 0 /\ ActiveInv' /\ SealedInv' /\ DurableInv'
           /\ AckedInv' /\ status' # "fatal"
  <1>1. /\ doubles' = 0 /\ status' = "down" /\ pc' = "idle" /\ file' = <<>>
        /\ leftover' = <<>> /\ accepted' = <<>> /\ synced' = 0
        /\ durable' = durable /\ acked' = acked
        /\ excused' = excused \union lost
                       \union (IF vanished THEN Ops(accepted) ELSE {})
    BY DEF Death, IInv
  <1>2. ActiveInv'
    BY <1>1 DEF ActiveInv
  <1>3. SealedInv'
    BY DEF SealedInv
  <1>4. DurableInv'
    BY <1>1 DEF DurableInv
  <1>5. AckedInv'
    BY <1>1 DEF AckedInv
  <1> QED BY <1>1, <1>2, <1>3, <1>4, <1>5

(* Every step of the log keeps IInv when no repair fails.                    *)
LEMMA InvStep ==
    ASSUME MaxDoubleFaults = 0, IInv, [Next]_vars
    PROVE  IInv'
  <1>0. /\ TypeOK /\ doubles = 0 /\ ActiveInv /\ SealedInv /\ DurableInv
        /\ AckedInv /\ status # "fatal"
    BY DEF IInv
  <1>t. TypeOK'
    BY <1>0, TypeStep
  <1>a. /\ accepted \in Seq(Cell) /\ Len(accepted) \in Nat /\ synced \in Nat
        /\ synced <= Len(accepted) /\ sealed \in Seq(Segment)
        /\ Record \in Cell /\ Record.op = cur /\ Record.whole = TRUE
        /\ Torn(Record) \in Cell /\ file \in Seq(Cell) /\ leftover \in Seq(Cell)
    <2>1. /\ accepted \in Seq(Cell) /\ sealed \in Seq(Segment)
          /\ file \in Seq(Cell) /\ leftover \in Seq(Cell) /\ synced \in Nat
      BY <1>0 DEF TypeOK
    <2>2. synced <= Len(accepted)
      BY <1>0 DEF ActiveInv
    <2>3. Len(accepted) \in Nat
      BY <2>1
    <2> QED BY <1>0, <2>1, <2>2, <2>3, RecordType
  <1>b. /\ OpsUpTo(accepted, Len(accepted)) = Ops(accepted)
        /\ OpsUpTo(accepted, synced) \subseteq Ops(accepted)
    BY <1>a, UpToAll
  (* Steps that leave the segments, accepted_prefix and the history alone.   *)
  <1>c. ASSUME UNCHANGED <<sealed, accepted, synced, acked, durable, excused,
                           doubles, status>>
        PROVE  doubles' = 0 /\ SealedInv' /\ DurableInv' /\ AckedInv'
               /\ status' # "fatal"
    BY <1>0, <1>c DEF SealedInv, DurableInv, AckedInv
  (* Steps that fsync all of accepted_prefix.                                *)
  <1>d. ASSUME UNCHANGED <<sealed, accepted, acked, excused, doubles, status>>,
               synced' = Len(accepted),
               durable' = durable \/ durable' = durable \union Ops(accepted)
        PROVE  doubles' = 0 /\ SealedInv' /\ DurableInv' /\ AckedInv'
               /\ status' # "fatal"
    <2>1. SealedInv' /\ AckedInv'
      BY <1>0, <1>d DEF SealedInv, AckedInv
    <2>2. DurableInv'
      BY <1>0, <1>b, <1>d DEF DurableInv
    <2> QED BY <1>0, <1>d, <2>1, <2>2
  <1>1. CASE AppendStart
    <2>1. ActiveInv'
      BY <1>0, <1>1 DEF AppendStart, ActiveInv, log
    <2> QED BY <1>t, <1>c, <1>1, <2>1 DEF AppendStart, IInv, log, budget, hist
  <1>2. CASE AppendRecover
    <2>1. ActiveInv'
      BY <1>0, <1>a, <1>2 DEF AppendRecover, Recovered, ActiveInv
    <2> QED BY <1>t, <1>d, <1>2, <2>1
            DEF AppendRecover, Recovered, IInv, budget, hist
  <1>3. CASE Rotate
    <2>1. file = accepted /\ leftover = <<>>
      BY <1>0, <1>3 DEF Rotate, ActiveInv
    <2>2. file \o leftover = accepted
      BY <1>a, <2>1
    <2> DEFINE seg == [inst |-> writer, cells |-> accepted,
                       synced |-> Len(accepted)]
    <2>3. seg \in Segment
      BY <1>0, <1>a DEF TypeOK, Segment
    <2>4. sealed' = Append(sealed, seg)
      BY <1>3, <2>2 DEF Rotate
    <2>5. SegInv(seg)
      BY <1>0, <1>a DEF SegInv, ActiveInv
    <2>6. Ops(accepted) \subseteq Readable(seg.cells)
      <3>1. \A j \in DOMAIN accepted : accepted[j].whole
        BY <1>0 DEF ActiveInv
      <3>2. Ops(accepted) \subseteq Readable(accepted)
        BY <1>a, <3>1, FrontReadable
      <3> QED BY <3>2
    <2>7. OpsUpTo(seg.cells, seg.synced) = Ops(accepted)
      BY <1>b
    <2> HIDE DEF seg
    <2>8. /\ Len(sealed) + 1 \in DOMAIN sealed' /\ sealed'[Len(sealed) + 1] = seg
          /\ \A i \in DOMAIN sealed : i \in DOMAIN sealed' /\ sealed'[i] = sealed[i]
          /\ \A i \in DOMAIN sealed' : i \in DOMAIN sealed \/ i = Len(sealed) + 1
      BY <1>a, <2>3, <2>4, AppendSegment
    <2>9. SealedInv'
      BY <1>0, <2>5, <2>8 DEF SealedInv
    <2>10. DurableInv'
      <3>1. durable' = durable \union Ops(accepted) /\ excused' = excused
        BY <1>3 DEF Rotate
      <3> QED BY <1>0, <1>b, <2>7, <2>8, <3>1 DEF DurableInv
    <2>11. AckedInv'
      <3>1. acked' = acked /\ excused' = excused
        BY <1>3 DEF Rotate
      <3> QED BY <1>0, <2>6, <2>8, <3>1 DEF AckedInv
    <2>12. ActiveInv'
      BY <1>0, <1>3 DEF Rotate, ActiveInv
    <2> QED BY <1>0, <1>t, <1>3, <2>9, <2>10, <2>11, <2>12 DEF Rotate, IInv, budget
  <1>4. CASE AppendRefused
    <2>1. ActiveInv'
      BY <1>0, <1>4 DEF AppendRefused, ActiveInv
    <2> QED BY <1>t, <1>c, <1>4, <2>1 DEF AppendRefused, IInv, hist
  <1>5. CASE AppendWedged
    <2>1. ActiveInv'
      BY <1>0, <1>5 DEF AppendWedged, ActiveInv, log
    <2> QED BY <1>t, <1>c, <1>5, <2>1 DEF AppendWedged, IInv, log, budget, hist
  <1>6. CASE WriteRecord
    <2>1. file = accepted /\ leftover = <<>>
      BY <1>0, <1>6 DEF WriteRecord, ActiveInv
    <2>2. (file \o leftover) \o <<Record>> = Append(accepted, Record)
      BY <1>a, <2>1
    <2>3. Record' = Record
      BY <1>6 DEF WriteRecord, Record
    <2>4. ActiveInv'
      BY <1>0, <1>6, <2>2, <2>3 DEF WriteRecord, ActiveInv
    <2> QED BY <1>t, <1>c, <1>6, <2>4 DEF WriteRecord, IInv, budget, hist
  <1>7. CASE WriteFault
    <2>1. file = accepted /\ leftover = <<>>
      BY <1>0, <1>7 DEF WriteFault, ActiveInv
    <2>2. file \o leftover = accepted
      BY <1>a, <2>1
    <2>3. Record' = Record
      BY <1>7 DEF WriteFault, Record
    <2>4. Torn(Record)' = Torn(Record)
      BY <2>3 DEF Torn
    <2>5. file' \in {accepted, Append(accepted, Torn(Record))}
      BY <1>7, <2>1, <2>2 DEF WriteFault, Residue
    <2>6. ActiveInv'
      BY <1>0, <1>7, <2>4, <2>5 DEF WriteFault, ActiveInv
    <2> QED BY <1>t, <1>c, <1>7, <2>6 DEF WriteFault, IInv, hist
  <1>8. CASE Repair
    <2>1. Record' = Record
      BY <1>8 DEF Repair, Record
    <2>2. ActiveInv'
      BY <1>0, <1>a, <1>8, <2>1 DEF Repair, Recovered, ActiveInv
    <2> QED BY <1>t, <1>d, <1>8, <2>2 DEF Repair, Recovered, IInv, budget, hist
  <1>9. CASE RepairFails
    BY <1>0, <1>9 DEF RepairFails
  <1>10. CASE AppendAck
    <2>1. accepted' = Append(accepted, Record) /\ file' = file
          /\ leftover' = leftover /\ pc' = "idle" /\ pc = "ack"
          /\ synced' = synced /\ sealed' = sealed /\ status' = "open"
      BY <1>10 DEF AppendAck
    <2>2. \A j \in DOMAIN accepted' : accepted'[j].whole
      BY <1>0, <1>a, <2>1 DEF ActiveInv
    <2>3. Len(accepted') = Len(accepted) + 1
      BY <1>a, <2>1
    <2>4. ActiveInv'
      BY <1>0, <1>a, <2>1, <2>2, <2>3 DEF ActiveInv
    <2>5. /\ Ops(accepted') = Ops(accepted) \union {cur}
          /\ OpsUpTo(accepted', synced) = OpsUpTo(accepted, synced)
      BY <1>a, <2>1, OpsAppend
    <2>6. SealedInv' /\ DurableInv'
      BY <1>0, <1>10, <2>1, <2>5 DEF AppendAck, SealedInv, DurableInv
    <2>7. AckedInv'
      BY <1>0, <1>10, <2>1, <2>5 DEF AppendAck, AckedInv
    <2> QED BY <1>0, <1>t, <1>10, <2>4, <2>6, <2>7 DEF AppendAck, IInv, budget
  <1>11. CASE Sync
    <2>1. file = accepted /\ leftover = <<>>
      BY <1>0, <1>11 DEF Sync, ActiveInv
    <2>2. file \o leftover = accepted /\ Len(file) + Len(leftover) = Len(accepted)
      BY <1>a, <2>1
    <2>3. file' = accepted /\ leftover' = <<>> /\ synced' = Len(accepted)
      BY <1>11, <2>2 DEF Sync, Recovered
    <2>4. ActiveInv'
      BY <1>0, <1>a, <1>11, <2>3 DEF Sync, ActiveInv
    <2> QED BY <1>t, <1>d, <1>11, <2>3, <2>4 DEF Sync, IInv
  <1>12. CASE FlushBuf
    BY <1>0, <1>12 DEF FlushBuf, ActiveInv
  <1>13. CASE Vanish
    <2>1. Record' = Record
      BY <1>13 DEF Vanish, Record
    <2>2. Torn(Record)' = Torn(Record)
      BY <2>1 DEF Torn
    <2>3. ActiveInv'
      BY <1>0, <1>13, <2>1, <2>2 DEF Vanish, ActiveInv
    <2> QED BY <1>t, <1>c, <1>13, <2>3 DEF Vanish, IInv, hist
  <1>14. CASE Kill
    <2>1. sealed' \in Remains /\ Death({})
      BY <1>14 DEF Kill
    <2>2. /\ doubles' = 0 /\ ActiveInv' /\ SealedInv' /\ DurableInv'
          /\ AckedInv' /\ status' # "fatal"
      BY <2>1, RemainsKeep, DeathStep
    <2> QED BY <1>t, <2>2 DEF IInv
  <1>15. CASE PowerLoss
    <2>0. PICK segs \in Remains : \E torn \in BOOLEAN :
            \E keep \in [DOMAIN segs -> Lengths] :
            /\ \A i \in DOMAIN segs :
                  keep[i] \in segs[i].synced .. Len(segs[i].cells)
            /\ sealed' = [i \in DOMAIN segs |-> CutTo(segs[i], keep[i], torn)]
      BY <1>15 DEF PowerLoss
    <2>1. PICK torn \in BOOLEAN, keep \in [DOMAIN segs -> Lengths] :
            /\ \A i \in DOMAIN segs :
                  keep[i] \in segs[i].synced .. Len(segs[i].cells)
            /\ sealed' = [i \in DOMAIN segs |-> CutTo(segs[i], keep[i], torn)]
      BY <2>0
    <2>2. /\ segs \in Seq(Segment)
          /\ \A i \in DOMAIN segs : segs[i] \in Segment /\ SegInv(segs[i])
          /\ \A op \in durable \ excused :
                \/ \E i \in DOMAIN segs :
                      op \in OpsUpTo(segs[i].cells, segs[i].synced)
                \/ vanished /\ op \in Ops(accepted)
      <3>1. segs \in Seq(Segment)
        BY RemainsKeep
      <3>2. \A i \in DOMAIN segs : segs[i] \in Segment
        BY <3>1
      <3> QED BY <3>1, <3>2, RemainsKeep
    <2>3. \A i \in DOMAIN segs :
            /\ SegInv(sealed'[i])
            /\ OpsUpTo(segs[i].cells, segs[i].synced) \subseteq
                  OpsUpTo(sealed'[i].cells, sealed'[i].synced)
      BY <2>1, <2>2, CutKeeps
    <2>4. DOMAIN sealed' = DOMAIN segs
      BY <2>1
    <2>5. sealed' \in Seq(Segment)
      BY <1>t DEF TypeOK
    <2>6. \A i \in DOMAIN sealed' : sealed'[i] \in Segment
      BY <2>5
    <2>7. \A op \in durable \ excused :
             \/ \E i \in DOMAIN sealed' :
                   op \in OpsUpTo(sealed'[i].cells, sealed'[i].synced)
             \/ vanished /\ op \in Ops(accepted)
      BY <2>2, <2>3, <2>4
    <2>8. \A op \in acked \ (excused \union (acked \ durable)) :
             \/ \E i \in DOMAIN sealed' : op \in Readable(sealed'[i].cells)
             \/ vanished /\ op \in Ops(accepted)
      BY <2>3, <2>4, <2>6, <2>7, SyncedReadable
    <2>9. Death(acked \ durable)
      BY <1>15 DEF PowerLoss
    <2>10. \A i \in DOMAIN sealed' : SegInv(sealed'[i])
      BY <2>3, <2>4
    <2>11. /\ doubles' = 0 /\ ActiveInv' /\ SealedInv' /\ DurableInv'
           /\ AckedInv' /\ status' # "fatal"
      BY <2>5, <2>7, <2>8, <2>9, <2>10, DeathStep
    <2> QED BY <1>t, <2>11 DEF IInv
  <1>16. CASE Reopen
    <2>1. PICK good \in [DOMAIN sealed -> Lengths] :
            /\ \A i \in DOMAIN sealed : GoodOffset(sealed[i], good[i])
            /\ sealed' = [i \in DOMAIN sealed |-> Truncated(sealed[i], good[i])]
      BY <1>16 DEF Reopen
    <2>2. \A i \in DOMAIN sealed : good[i] \in Nat /\ sealed[i] \in Segment
      BY <1>a, BoundsAssumption DEF Lengths
    <2>3. \A i \in DOMAIN sealed :
            /\ SegInv(sealed'[i])
            /\ Readable(sealed[i].cells) \subseteq Readable(sealed'[i].cells)
            /\ OpsUpTo(sealed[i].cells, sealed[i].synced) \subseteq
                  OpsUpTo(sealed'[i].cells, sealed'[i].synced)
      BY <1>0, <2>1, <2>2, TruncateKeeps DEF SealedInv
    <2>4. DOMAIN sealed' = DOMAIN sealed
      BY <2>1
    <2>5. UNCHANGED <<accepted, synced, acked, durable, excused, doubles, file,
                      leftover, pc>> /\ status' = "open" /\ status = "down"
      BY <1>16 DEF Reopen, budget, hist
    <2>6. ActiveInv'
      BY <1>0, <2>5 DEF ActiveInv
    <2>7. SealedInv' /\ DurableInv' /\ AckedInv'
      BY <1>0, <2>3, <2>4, <2>5 DEF SealedInv, DurableInv, AckedInv
    <2> QED BY <1>0, <1>t, <2>5, <2>6, <2>7 DEF IInv
  <1>17. CASE ReopenFails
    BY <1>0, <1>17 DEF ReopenFails, InteriorBreak, SealedInv, SegInv
  <1>18. CASE UNCHANGED vars
    <2>1. Record' = Record
      BY <1>18 DEF vars, Record
    <2>2. Torn(Record)' = Torn(Record)
      BY <2>1 DEF Torn
    <2>3. ActiveInv'
      BY <1>0, <1>18, <2>1, <2>2 DEF vars, log, ActiveInv
    <2> QED BY <1>t, <1>c, <1>18, <2>3 DEF vars, log, budget, hist, IInv
  <1> QED
    BY <1>1, <1>2, <1>3, <1>4, <1>5, <1>6, <1>7, <1>8, <1>9, <1>10, <1>11,
       <1>12, <1>13, <1>14, <1>15, <1>16, <1>17, <1>18 DEF Next, AppendRuns

(* The strengthened invariant gives what the log promises.                   *)
LEMMA InvImplies ==
    ASSUME IInv
    PROVE  AckedSafe /\ NeverBricked
  <1>0. TypeOK /\ ActiveInv /\ AckedInv /\ status # "fatal"
    BY DEF IInv
  <1>1. /\ accepted \in Seq(Cell) /\ file \in Seq(Cell) /\ Len(accepted) \in Nat
        /\ Record \in Cell /\ Torn(Record) \in Cell
    <2>1. accepted \in Seq(Cell) /\ file \in Seq(Cell)
      BY <1>0 DEF TypeOK
    <2> QED BY <1>0, <2>1, RecordType
  <1>2. \A j \in DOMAIN accepted : accepted[j].whole
    BY <1>0 DEF ActiveInv
  <1>3. Ops(accepted) \subseteq Readable(accepted)
    BY <1>1, <1>2, FrontReadable
  <1>4. Ops(accepted) \subseteq Readable(file)
    <2>1. pc \in {"idle", "prepare", "repair", "ack"}
      BY <1>0 DEF TypeOK
    <2>2. \/ file = accepted
          \/ file = Append(accepted, Record) \/ file = Append(accepted, Torn(Record))
      BY <1>0, <2>1 DEF ActiveInv
    <2>3. Len(accepted) <= Len(file) /\ \A j \in DOMAIN accepted : file[j] = accepted[j]
      BY <1>1, <2>2
    <2> QED BY <1>1, <1>2, <2>3, FrontReadable
  <1>5. status # "open" => Ops(accepted) = {}
    BY <1>0 DEF ActiveInv, Ops
  <1>6. AckedSafe
    <2> SUFFICES ASSUME NEW op \in acked \ excused PROVE op \in Recoverable
      BY DEF AckedSafe
    <2>1. CASE \E i \in DOMAIN sealed : op \in Readable(sealed[i].cells)
      BY <2>1, Zenon DEF Recoverable
    <2>2. CASE op \in Ops(accepted)
      <3>1. status = "open"
        BY <1>5, <2>2
      <3>2. op \in ActiveReadable
        BY <1>3, <1>4, <2>2, <3>1 DEF ActiveReadable
      <3> QED BY <3>2 DEF Recoverable
    <2> QED BY <1>0, <2>1, <2>2 DEF AckedInv
  <1> QED BY <1>0, <1>6 DEF NeverBricked

LEMMA InvInit ==
    ASSUME Init
    PROVE  IInv
  <1>1. TypeOK
    BY InitTypeOK
  <1>2. ActiveInv /\ SealedInv /\ DurableInv /\ AckedInv
    BY DEF Init, ActiveInv, SealedInv, DurableInv, AckedInv
  <1> QED BY <1>1, <1>2 DEF IInv, Init

(* No acknowledged operation is lost and no crash makes the log unreadable,  *)
(* whatever the number of operations, rotations, single I/O faults, deleted  *)
(* segments, kills and power losses: append() and sync() of log.rs, with     *)
(* recover_segment, rotate_if_needed and the torn-tail truncation.  The      *)
(* assumption is the one the code makes: a repair does not fail itself.      *)
THEOREM AckedIsSafe ==
    ASSUME MaxDoubleFaults = 0
    PROVE  Spec => [](AckedSafe /\ NeverBricked)
  <1>1. Init => IInv
    BY InvInit
  <1>2. IInv /\ [Next]_vars => IInv'
    BY InvStep
  <1>3. IInv => AckedSafe /\ NeverBricked
    BY InvImplies
  <1> QED BY <1>1, <1>2, <1>3, PTL DEF Spec

(* open() never meets a broken record before the last of a segment, and so   *)
(* never refuses the log (replay's fatal answer to interior corruption).     *)
THEOREM LogOpens ==
    ASSUME MaxDoubleFaults = 0
    PROVE  Spec => []NeverBricked
  BY AckedIsSafe, PTL
-----------------------------------------------------------------------------
(* What replay delivers of a segment is among its records.                   *)
LEMMA ReadableOps ==
    ASSUME NEW cells
    PROVE  Readable(cells) \subseteq Ops(cells)
  BY DEF Readable, Clean, Ops

(* A power loss adds nothing to what a segment delivers.                     *)
LEMMA CutAddsNothing ==
    ASSUME NEW seg \in Segment, NEW torn \in BOOLEAN,
           NEW k \in Nat, k <= Len(seg.cells)
    PROVE  LET cut == CutTo(seg, k, torn) IN
           /\ Readable(cut.cells) \subseteq Readable(seg.cells)
           /\ \A j \in Clean(cut.cells) :
                 j \in Clean(seg.cells) /\ j <= k /\ cut.cells[j] = seg.cells[j]
           /\ \A j \in 1 .. k : j \in DOMAIN cut.cells
                                /\ cut.cells[j] = seg.cells[j]
  <1> DEFINE cut == CutTo(seg, k, torn)
             front == SubSeq(seg.cells, 1, k)
  <1>1. /\ seg.cells \in Seq(Cell)
        /\ DOMAIN seg.cells = 1 .. Len(seg.cells) /\ Len(seg.cells) \in Nat
    BY DEF Segment
  <1>2. /\ front \in Seq(Cell) /\ Len(front) = k
        /\ \A j \in 1 .. k : front[j] = seg.cells[j]
    BY <1>1
  <1>3. /\ \A j \in 1 .. k : j \in DOMAIN cut.cells /\ cut.cells[j] = seg.cells[j]
        /\ \A j \in DOMAIN cut.cells : cut.cells[j].whole => j \in 1 .. k
        /\ DOMAIN cut.cells \subseteq Nat \ {0}
    <2>1. CASE torn /\ k < Len(seg.cells)
      <3> DEFINE piece == Torn(seg.cells[k + 1])
      <3>1. piece \in Cell /\ piece.whole = FALSE
        <4>1. seg.cells[k + 1] \in Cell
          BY <1>1, <2>1
        <4> QED BY <4>1, TornType
      <3>2. cut.cells = Append(front, piece)
        BY <2>1 DEF CutTo, Segment
      <3> HIDE DEF front, piece, cut
      <3>3. /\ DOMAIN cut.cells = 1 .. k + 1 /\ cut.cells[k + 1] = piece
            /\ \A j \in 1 .. k : cut.cells[j] = seg.cells[j]
        BY <1>2, <3>1, <3>2
      <3> QED BY <3>1, <3>3
    <2>2. CASE ~(torn /\ k < Len(seg.cells))
      <3>1. cut.cells = front
        BY <2>2 DEF CutTo, Segment
      <3> HIDE DEF front, cut
      <3>2. DOMAIN cut.cells = 1 .. k
        BY <1>2, <3>1
      <3> QED BY <1>2, <3>1, <3>2
    <2> QED BY <2>1, <2>2
  <1> HIDE DEF cut, front
  <1>4. ASSUME NEW j \in Clean(cut.cells)
        PROVE  j \in Clean(seg.cells) /\ j <= k /\ cut.cells[j] = seg.cells[j]
    <2>1. j \in DOMAIN cut.cells /\ j \in Nat \ {0}
          /\ \A i \in 1 .. j : cut.cells[i].whole
      BY <1>3 DEF Clean
    <2>2. j \in 1 .. k
      BY <1>3, <2>1
    <2>3. \A i \in 1 .. j : i \in 1 .. k
      BY <2>2
    <2>4. \A i \in 1 .. j : seg.cells[i].whole
      BY <1>3, <2>1, <2>3
    <2>5. j \in DOMAIN seg.cells
      BY <1>1, <2>2
    <2> QED BY <1>3, <2>2, <2>4, <2>5 DEF Clean
  <1>5. Readable(cut.cells) \subseteq Readable(seg.cells)
    BY <1>4 DEF Readable
  <1> QED BY <1>3, <1>4, <1>5 DEF cut

(* Truncating a segment at a good offset leaves the records before it.       *)
LEMMA TruncateAddsNothing ==
    ASSUME NEW seg \in Segment, NEW n \in Nat, GoodOffset(seg, n)
    PROVE  LET t == Truncated(seg, n) IN
           /\ Readable(t.cells) = Readable(seg.cells)
           /\ Clean(t.cells) = Clean(seg.cells)
           /\ DOMAIN t.cells = 1 .. n /\ Len(t.cells) = n
           /\ \A j \in 1 .. n : j \in Clean(seg.cells)
                                /\ t.cells[j] = seg.cells[j]
  <1> DEFINE t == Truncated(seg, n)
  <1>1. /\ seg.cells \in Seq(Cell)
        /\ DOMAIN seg.cells = 1 .. Len(seg.cells) /\ Len(seg.cells) \in Nat
    BY DEF Segment
  <1>2. /\ n <= Len(seg.cells) /\ \A i \in 1 .. n : seg.cells[i].whole
        /\ n < Len(seg.cells) => ~seg.cells[n + 1].whole
    BY DEF GoodOffset
  <1>3. t.cells = SubSeq(seg.cells, 1, n)
    BY DEF Truncated, Segment
  <1> HIDE DEF t
  <1>4. /\ Len(t.cells) = n /\ DOMAIN t.cells = 1 .. n
        /\ \A j \in 1 .. n : t.cells[j] = seg.cells[j]
    BY <1>1, <1>2, <1>3
  <1>5. Clean(seg.cells) = 1 .. n
    BY <1>1, <1>2 DEF Clean
  <1>6. Clean(t.cells) = 1 .. n
    BY <1>2, <1>4 DEF Clean
  <1>7. Readable(t.cells) = Readable(seg.cells)
    BY <1>4, <1>5, <1>6 DEF Readable
  <1> QED BY <1>4, <1>5, <1>6, <1>7 DEF t

(* The disk after a death: nothing of an unlinked segment, else the segment  *)
(* with its accepted records and, during an append(), perhaps one more.      *)
LEMMA RemainsShape ==
    ASSUME IInv, NEW segs \in Remains
    PROVE  \/ vanished /\ segs = sealed
           \/ /\ ~vanished
              /\ \E c \in Seq(Cell) :
                    /\ segs = Left(c)
                    /\ \/ c = accepted
                       \/ /\ pc # "idle"
                          /\ c \in {Append(accepted, Record),
                                    Append(accepted, Torn(Record))}
  <1>0. TypeOK /\ ActiveInv
    BY DEF IInv
  <1>1. CASE vanished
    BY <1>1 DEF Remains
  <1>2. CASE ~vanished
    <2>1. /\ accepted \in Seq(Cell) /\ Record \in Cell /\ Torn(Record) \in Cell
          /\ file \in Seq(Cell)
      BY <1>0, RecordType DEF TypeOK
    <2>2. pc \in {"idle", "prepare", "repair", "ack"}
      BY <1>0 DEF TypeOK
    <2>3. \/ file = accepted
          \/ /\ pc # "idle"
             /\ file \in {Append(accepted, Record), Append(accepted, Torn(Record))}
      BY <1>0, <2>2 DEF ActiveInv
    <2>4. pc = "prepare" => file \o leftover = accepted
      BY <1>0, <2>1 DEF ActiveInv
    <2>5. Append(accepted, Record) \in Seq(Cell)
          /\ Append(accepted, Torn(Record)) \in Seq(Cell)
      BY <2>1, CellSeqs
    <2>6. CASE segs = Left(file)
      BY <1>2, <2>1, <2>3, <2>6
    <2>7. CASE segs # Left(file)
      <3>1. /\ pc # "idle"
            /\ segs \in {Left(Append(accepted, Record)),
                         Left(Append(accepted, Torn(Record)))}
        BY <1>2, <2>4, <2>7 DEF Remains
      <3> QED BY <1>2, <2>5, <3>1
    <2> QED BY <2>6, <2>7
  <1> QED BY <1>1, <1>2

\* The operation append() is carrying.
Carried == IF pc = "idle" THEN {} ELSE {cur}

\* What replay would deliver of the sealed segments, and what recover_segment
\* would write back.
PhantomInv ==
    /\ \A i \in DOMAIN sealed :
          Readable(sealed[i].cells) \subseteq acked \union dying
    /\ Ops(accepted) \subseteq acked

(* A dying process leaves nothing but what it acknowledged or was writing.   *)
LEMMA RemainsNoPhantom ==
    ASSUME IInv, PhantomInv, NEW segs \in Remains
    PROVE  \A i \in DOMAIN segs :
              Readable(segs[i].cells) \subseteq acked \union dying \union Carried
  <1>1. CASE segs = sealed
    BY <1>1 DEF PhantomInv
  <1>2. ASSUME NEW c \in Seq(Cell), segs = Left(c),
               \/ c = accepted
               \/ /\ pc # "idle"
                  /\ c \in {Append(accepted, Record),
                            Append(accepted, Torn(Record))}
        PROVE  \A i \in DOMAIN segs :
                  Readable(segs[i].cells) \subseteq acked \union dying \union Carried
    <2>1. /\ accepted \in Seq(Cell) /\ sealed \in Seq(Segment)
          /\ Record \in Cell /\ Torn(Record) \in Cell
          /\ writer \in Nat /\ synced \in Nat
      BY RecordType DEF IInv, TypeOK
    <2>2. Record.op = cur /\ Torn(Record).op = cur
      BY DEF Record, Torn
    <2>3. /\ Ops(Append(accepted, Record)) = Ops(accepted) \union {cur}
          /\ Ops(Append(accepted, Torn(Record))) = Ops(accepted) \union {cur}
      BY <2>1, <2>2, OpsAppend
    <2>4. Ops(c) \subseteq acked \union Carried
      BY <1>2, <2>3 DEF PhantomInv, Carried
    <2> DEFINE seg == [inst |-> writer, cells |-> c, synced |-> synced]
    <2>5. seg \in Segment /\ seg.cells = c
      BY <2>1 DEF Segment
    <2>6. segs = Append(sealed, seg)
      BY <1>2 DEF Left
    <2> HIDE DEF seg
    <2>7. \A i \in DOMAIN segs :
             \/ i \in DOMAIN sealed /\ segs[i] = sealed[i]
             \/ segs[i] = seg
      BY <2>1, <2>5, <2>6, AppendSegment
    <2>8. Readable(seg.cells) \subseteq acked \union Carried
      BY <2>4, <2>5, ReadableOps
    <2> QED BY <2>7, <2>8 DEF PhantomInv
  <1> QED BY <1>1, <1>2, RemainsShape

(* No step makes a refused operation reappear.                               *)
LEMMA PhantomStep ==
    ASSUME IInv, PhantomInv, [Next]_vars
    PROVE  PhantomInv'
  <1>0. TypeOK /\ doubles = 0 /\ ActiveInv
    BY DEF IInv
  <1>1. CASE UNCHANGED <<sealed, accepted, acked, dying>>
    BY <1>1 DEF PhantomInv
  <1>a. accepted \in Seq(Cell) /\ sealed \in Seq(Segment) /\ writer \in Nat
        /\ Record \in Cell /\ Record.op = cur
    BY <1>0, RecordType DEF TypeOK
  <1>2. CASE Rotate
    <2> DEFINE seg == [inst |-> writer, cells |-> accepted,
                       synced |-> Len(accepted)]
    <2>1. file \o leftover = accepted
      BY <1>0, <1>2, <1>a DEF Rotate, ActiveInv
    <2>2. sealed' = Append(sealed, seg) /\ accepted' = <<>>
          /\ UNCHANGED <<acked, dying>>
      BY <1>2, <2>1 DEF Rotate
    <2>3. seg \in Segment /\ seg.cells = accepted
      BY <1>a DEF Segment
    <2> HIDE DEF seg
    <2>4. \A i \in DOMAIN sealed' :
             \/ i \in DOMAIN sealed /\ sealed'[i] = sealed[i]
             \/ sealed'[i] = seg
      BY <1>a, <2>2, <2>3, AppendSegment
    <2>5. Readable(seg.cells) \subseteq acked
      BY <2>3, ReadableOps DEF PhantomInv
    <2>6. Ops(accepted') = {}
      BY <2>2 DEF Ops
    <2> QED BY <2>2, <2>4, <2>5, <2>6 DEF PhantomInv
  <1>3. CASE AppendAck
    <2>1. accepted' = Append(accepted, Record) /\ acked' = acked \union {cur}
          /\ UNCHANGED <<sealed, dying>>
      BY <1>3 DEF AppendAck
    <2>2. Ops(accepted') = Ops(accepted) \union {cur}
      BY <1>a, <2>1, OpsAppend
    <2> QED BY <2>1, <2>2 DEF PhantomInv
  <1>d. ASSUME NEW lost, Death(lost),
               \A i \in DOMAIN sealed' : Readable(sealed'[i].cells)
                  \subseteq acked \union dying \union Carried
        PROVE  PhantomInv'
    <2>1. /\ acked' = acked /\ accepted' = <<>>
          /\ dying' = dying \union Carried
      BY <1>d DEF Death, Carried
    <2>2. Ops(accepted') = {}
      BY <2>1 DEF Ops
    <2> QED BY <1>d, <2>1, <2>2 DEF PhantomInv
  <1>4. CASE Kill
    BY <1>4, <1>d, RemainsNoPhantom DEF Kill
  <1>5. CASE PowerLoss
    <2>0. PICK segs \in Remains : \E torn \in BOOLEAN :
            \E keep \in [DOMAIN segs -> Lengths] :
            /\ \A i \in DOMAIN segs :
                  keep[i] \in segs[i].synced .. Len(segs[i].cells)
            /\ sealed' = [i \in DOMAIN segs |-> CutTo(segs[i], keep[i], torn)]
      BY <1>5 DEF PowerLoss
    <2>1. PICK torn \in BOOLEAN, keep \in [DOMAIN segs -> Lengths] :
            /\ \A i \in DOMAIN segs :
                  keep[i] \in segs[i].synced .. Len(segs[i].cells)
            /\ sealed' = [i \in DOMAIN segs |-> CutTo(segs[i], keep[i], torn)]
      BY <2>0
    <2>2. \A i \in DOMAIN segs :
            Readable(sealed'[i].cells) \subseteq Readable(segs[i].cells)
      <3> SUFFICES ASSUME NEW i \in DOMAIN segs
                   PROVE  Readable(sealed'[i].cells) \subseteq Readable(segs[i].cells)
        OBVIOUS
      <3>0. segs \in Seq(Segment)
        BY <1>0, RemainsType
      <3>1. segs[i] \in Segment
        BY <3>0
      <3>2. segs[i].synced \in Nat /\ Len(segs[i].cells) \in Nat
        BY <3>1 DEF Segment
      <3>3. keep[i] \in Nat /\ keep[i] <= Len(segs[i].cells)
        BY <2>1, <3>2
      <3> QED BY <2>1, <3>1, <3>3, CutAddsNothing
    <2>3. DOMAIN sealed' = DOMAIN segs
      BY <2>1
    <2>4. \A i \in DOMAIN sealed' : Readable(sealed'[i].cells)
             \subseteq acked \union dying \union Carried
      BY <2>2, <2>3, RemainsNoPhantom
    <2>5. Death(acked \ durable)
      BY <1>5 DEF PowerLoss
    <2> QED BY <1>d, <2>4, <2>5
  <1>6. CASE Reopen
    <2>1. PICK good \in [DOMAIN sealed -> Lengths] :
            /\ \A i \in DOMAIN sealed : GoodOffset(sealed[i], good[i])
            /\ sealed' = [i \in DOMAIN sealed |-> Truncated(sealed[i], good[i])]
      BY <1>6 DEF Reopen
    <2>2. \A i \in DOMAIN sealed : good[i] \in Nat /\ sealed[i] \in Segment
      BY <1>a, BoundsAssumption DEF Lengths
    <2>3. \A i \in DOMAIN sealed :
            Readable(sealed'[i].cells) = Readable(sealed[i].cells)
      BY <2>1, <2>2, TruncateAddsNothing
    <2>4. UNCHANGED <<accepted, acked, dying>> /\ DOMAIN sealed' = DOMAIN sealed
      BY <1>6, <2>1 DEF Reopen, hist
    <2> QED BY <2>3, <2>4 DEF PhantomInv
  <1>7. ASSUME Next \/ UNCHANGED vars,
               ~(Rotate \/ AppendAck \/ Kill \/ PowerLoss \/ Reopen)
        PROVE  UNCHANGED <<sealed, accepted, acked, dying>>
    BY <1>7 DEF Next, AppendRuns, AppendStart, AppendRecover, AppendRefused,
       AppendWedged, WriteRecord, WriteFault, Repair, RepairFails, Sync,
       FlushBuf, Vanish, ReopenFails, vars, log, hist
  <1> QED BY <1>1, <1>2, <1>3, <1>4, <1>5, <1>6, <1>7

(* Replay delivers no operation whose append() failed, with any number of    *)
(* single faults, crashes and rotations: what append() leaves behind when a  *)
(* write fails is thrown away by recover_segment before anything follows it. *)
(* (When the repair fails too the run `phantom' shows the contrary.)         *)
THEOREM FailedStaysFailed ==
    ASSUME MaxDoubleFaults = 0
    PROVE  Spec => []NoPhantom
  <1> DEFINE Both == IInv /\ PhantomInv
  <1>1. Init => Both
    <2>1. Init => IInv
      BY InvInit
    <2>2. Init => PhantomInv
      BY DEF Init, PhantomInv, Ops
    <2> QED BY <2>1, <2>2
  <1>2. Both /\ [Next]_vars => Both'
    BY InvStep, PhantomStep
  <1>3. Both => NoPhantom
    <2> SUFFICES ASSUME IInv, PhantomInv PROVE NoPhantom
      OBVIOUS
    <2>0. TypeOK /\ ActiveInv
      BY DEF IInv
    <2>1. /\ accepted \in Seq(Cell) /\ Record \in Cell /\ Torn(Record) \in Cell
      BY <2>0, RecordType DEF TypeOK
    <2>2. Record.op = cur /\ Torn(Record).op = cur
      BY DEF Record, Torn
    <2>3. pc \in {"idle", "prepare", "repair", "ack"}
      BY <2>0 DEF TypeOK
    <2>4. \/ file = accepted
          \/ /\ pc # "idle"
             /\ file \in {Append(accepted, Record), Append(accepted, Torn(Record))}
      BY <2>0, <2>3 DEF ActiveInv
    <2>5. /\ Ops(Append(accepted, Record)) = Ops(accepted) \union {cur}
          /\ Ops(Append(accepted, Torn(Record))) = Ops(accepted) \union {cur}
      BY <2>1, <2>2, OpsAppend
    <2>6. Ops(file) \subseteq Ops(accepted) \union Carried
      BY <2>4, <2>5 DEF Carried
    <2>7. ActiveReadable \subseteq acked \union Carried
      BY <2>6, ReadableOps DEF ActiveReadable, PhantomInv
    <2>8. \A op \in UNION {Readable(sealed[i].cells) : i \in DOMAIN sealed} :
             op \in acked \union dying
      BY Zenon DEF PhantomInv
    <2> QED BY <2>7, <2>8, Zenon DEF NoPhantom, Recoverable, Carried
  <1> QED BY <1>1, <1>2, <1>3, PTL DEF Spec

-----------------------------------------------------------------------------
\* Records that name a real operation and link to an acknowledged one.
Honest(cells, ack) ==
    \A j \in DOMAIN cells : /\ cells[j].op > 0
                            /\ cells[j].prev \in ack \union {0}

(* Writing records one after another, or breaking one, keeps their links.    *)
LEMMA HonestJoins ==
    ASSUME NEW s \in Seq(Cell), NEW t \in Seq(Cell), NEW c \in Cell, NEW A,
           Honest(s, A), Honest(t, A), c.op > 0, c.prev \in A \union {0}
    PROVE  Honest(s \o t, A) /\ Honest(Append(s, c), A)
  <1>1. /\ DOMAIN s = 1 .. Len(s) /\ DOMAIN t = 1 .. Len(t)
        /\ Len(s) \in Nat /\ Len(t) \in Nat
    OBVIOUS
  <1>2. \A j \in DOMAIN (s \o t) :
           \/ j \in DOMAIN s /\ (s \o t)[j] = s[j]
           \/ j - Len(s) \in DOMAIN t /\ (s \o t)[j] = t[j - Len(s)]
    BY <1>1
  <1>3. \A j \in DOMAIN Append(s, c) :
           \/ j \in DOMAIN s /\ Append(s, c)[j] = s[j]
           \/ Append(s, c)[j] = c
    BY <1>1
  <1>4. Honest(s \o t, A)
    BY <1>2 DEF Honest
  <1>5. Honest(Append(s, c), A)
    BY <1>3 DEF Honest
  <1> QED BY <1>4, <1>5

LEMMA HonestTorn ==
    ASSUME NEW c \in Cell
    PROVE  Torn(c).op = c.op /\ Torn(c).prev = c.prev
  BY DEF Torn, Cell

LEMMA HonestCut ==
    ASSUME NEW seg \in Segment, NEW k \in Nat, k <= Len(seg.cells),
           NEW torn \in BOOLEAN, NEW A, Honest(seg.cells, A)
    PROVE  /\ Honest(CutTo(seg, k, torn).cells, A)
           /\ Honest(Truncated(seg, k).cells, A)
  <1> DEFINE front == SubSeq(seg.cells, 1, k)
  <1>1. /\ seg.cells \in Seq(Cell) /\ Len(seg.cells) \in Nat
        /\ DOMAIN seg.cells = 1 .. Len(seg.cells)
    BY DEF Segment
  <1>2. /\ front \in Seq(Cell) /\ DOMAIN front = 1 .. k
        /\ \A j \in 1 .. k : front[j] = seg.cells[j]
    BY <1>1
  <1>3. Honest(front, A)
    <2>1. \A j \in 1 .. k : j \in DOMAIN seg.cells
      BY <1>1
    <2> HIDE DEF front
    <2> QED BY <1>2, <2>1 DEF Honest
  <1>4. Honest(Truncated(seg, k).cells, A)
    <2>1. Truncated(seg, k).cells = front
      BY DEF Truncated, Segment
    <2> QED BY <1>3, <2>1
  <1>5. CASE torn /\ k < Len(seg.cells)
    <2>0. k + 1 \in DOMAIN seg.cells /\ seg.cells[k + 1] \in Cell
      BY <1>1, <1>5
    <2> DEFINE piece == Torn(seg.cells[k + 1])
    <2>1. piece \in Cell /\ piece.op > 0 /\ piece.prev \in A \union {0}
      <3>1. piece.op = seg.cells[k + 1].op /\ piece.prev = seg.cells[k + 1].prev
        BY <2>0, HonestTorn
      <3> QED BY <2>0, <3>1, TornType DEF Honest
    <2>2. CutTo(seg, k, torn).cells = Append(front, piece)
      BY <1>5 DEF CutTo, Segment
    <2> HIDE DEF front, piece
    <2>3. Honest(Append(front, piece), A)
      BY <1>2, <1>3, <2>1, HonestJoins
    <2> QED BY <1>4, <2>2, <2>3
  <1>6. CASE ~(torn /\ k < Len(seg.cells))
    <2>1. CutTo(seg, k, torn).cells = front
      BY <1>6 DEF CutTo, Segment
    <2> QED BY <1>3, <1>4, <2>1
  <1> QED BY <1>5, <1>6

\* chain_head moves only with an acknowledgement, and every record on disk or
\* in a buffer was built from it, whatever became of its append().
HonestInv ==
    /\ pc # "idle" => cur > 0
    /\ chain_head \in acked \union {0}
    /\ Honest(file, acked) /\ Honest(leftover, acked) /\ Honest(accepted, acked)
    /\ \A i \in DOMAIN sealed : Honest(sealed[i].cells, acked)

(* What a dying process leaves links to acknowledged records.                *)
LEMMA RemainsHonest ==
    ASSUME TypeOK, HonestInv, NEW segs \in Remains
    PROVE  \A i \in DOMAIN segs : Honest(segs[i].cells, acked)
  <1>1. /\ file \in Seq(Cell) /\ leftover \in Seq(Cell) /\ accepted \in Seq(Cell)
        /\ sealed \in Seq(Segment) /\ writer \in Nat /\ synced \in Nat
        /\ Record \in Cell /\ Torn(Record) \in Cell
    BY RecordType DEF TypeOK
  <1>2. /\ Record.op = cur /\ Torn(Record).op = cur
        /\ Record.prev = chain_head /\ Torn(Record).prev = chain_head
    BY DEF Record, Torn
  <1>3. ASSUME NEW c \in Seq(Cell), Honest(c, acked), segs = Left(c)
        PROVE  \A i \in DOMAIN segs : Honest(segs[i].cells, acked)
    <2> DEFINE seg == [inst |-> writer, cells |-> c, synced |-> synced]
    <2>1. seg \in Segment /\ seg.cells = c
      BY <1>1 DEF Segment
    <2>2. segs = Append(sealed, seg)
      BY <1>3 DEF Left
    <2> HIDE DEF seg
    <2>3. \A i \in DOMAIN segs :
             \/ i \in DOMAIN sealed /\ segs[i] = sealed[i]
             \/ segs[i] = seg
      BY <1>1, <2>1, <2>2, AppendSegment
    <2> QED BY <1>3, <2>1, <2>3 DEF HonestInv
  <1>4. ASSUME pc # "idle", NEW s \in Seq(Cell), Honest(s, acked)
        PROVE  /\ Append(s, Record) \in Seq(Cell)
               /\ Append(s, Torn(Record)) \in Seq(Cell)
               /\ Honest(Append(s, Record), acked)
               /\ Honest(Append(s, Torn(Record)), acked)
    <2>1. cur > 0 /\ chain_head \in acked \union {0}
      BY <1>4 DEF HonestInv
    <2> QED BY <1>1, <1>2, <1>4, <2>1, HonestJoins, CellSeqs
  <1>5. Honest(file, acked) /\ Honest(leftover, acked) /\ Honest(accepted, acked)
        /\ file \o leftover \in Seq(Cell)
    BY <1>1 DEF HonestInv
  <1>6. pc # "idle" => Honest(file \o leftover, acked)
    <2>1. pc # "idle" => cur > 0 /\ chain_head \in acked \union {0}
      BY DEF HonestInv
    <2> QED BY <1>1, <1>2, <1>5, <2>1, HonestJoins
  <1>7. CASE segs = sealed
    BY <1>7 DEF HonestInv
  <1>8. CASE segs = Left(file)
    BY <1>1, <1>3, <1>5, <1>8
  <1>9. CASE /\ pc = "prepare"
             /\ segs \in {Left(Append(file \o leftover, Record)),
                          Left(Append(file \o leftover, Torn(Record)))}
    <2>1. pc # "idle"
      BY <1>9
    <2>2. /\ Append(file \o leftover, Record) \in Seq(Cell)
          /\ Append(file \o leftover, Torn(Record)) \in Seq(Cell)
          /\ Honest(Append(file \o leftover, Record), acked)
          /\ Honest(Append(file \o leftover, Torn(Record)), acked)
      BY <1>4, <1>5, <1>6, <2>1
    <2> QED BY <1>3, <1>9, <2>2
  <1>10. CASE /\ pc = "repair"
              /\ segs \in {Left(Append(accepted, Record)),
                           Left(Append(accepted, Torn(Record)))}
    BY <1>1, <1>3, <1>4, <1>5, <1>10
  <1> QED BY <1>7, <1>8, <1>9, <1>10 DEF Remains

(* Every step, double faults included, keeps the links honest.               *)
LEMMA HonestStep ==
    ASSUME TypeOK, HonestInv, [Next]_vars
    PROVE  HonestInv'
  <1>0. /\ pc # "idle" => cur > 0
        /\ chain_head \in acked \union {0}
        /\ Honest(file, acked) /\ Honest(leftover, acked)
        /\ Honest(accepted, acked)
        /\ \A i \in DOMAIN sealed : Honest(sealed[i].cells, acked)
    BY DEF HonestInv
  <1>1. /\ file \in Seq(Cell) /\ leftover \in Seq(Cell) /\ accepted \in Seq(Cell)
        /\ sealed \in Seq(Segment) /\ writer \in Nat /\ synced \in Nat
        /\ Record \in Cell /\ Torn(Record) \in Cell
        /\ cur \in Nat /\ ops \in Nat
    BY RecordType DEF TypeOK
  <1>2. /\ Record.op = cur /\ Torn(Record).op = cur
        /\ Record.prev = chain_head /\ Torn(Record).prev = chain_head
    BY DEF Record, Torn
  <1>3. file \o leftover \in Seq(Cell) /\ Honest(<<>>, acked)
        /\ <<>> \in Seq(Cell)
    BY <1>1 DEF Honest
  <1>4. ASSUME NEW s \in Seq(Cell), NEW t \in Seq(Cell), pc # "idle",
               Honest(s, acked), Honest(t, acked)
        PROVE  /\ s \o t \in Seq(Cell) /\ Honest(s \o t, acked)
               /\ Honest(Append(s, Record), acked)
               /\ Honest(Append(s, Torn(Record)), acked)
               /\ Append(s, Record) \in Seq(Cell)
    BY <1>0, <1>1, <1>2, <1>4, HonestJoins, CellSeqs
  <1>5. Honest(file \o leftover, acked)
    <2>1. \A j \in DOMAIN (file \o leftover) :
             \/ j \in DOMAIN file /\ (file \o leftover)[j] = file[j]
             \/ j - Len(file) \in DOMAIN leftover
                /\ (file \o leftover)[j] = leftover[j - Len(file)]
      BY <1>1
    <2> QED BY <1>0, <2>1 DEF Honest
  (* The common case: the links in memory and on disk stay honest.           *)
  <1>6. ASSUME UNCHANGED <<sealed, chain_head, acked>>,
               Honest(file', acked), Honest(leftover', acked),
               accepted' \in {accepted, <<>>},
               pc' # "idle" => cur' > 0
        PROVE  HonestInv'
    <2>1. Honest(file', acked') /\ Honest(leftover', acked')
          /\ Honest(accepted', acked') /\ chain_head' \in acked' \union {0}
      BY <1>0, <1>3, <1>6
    <2>2. \A i \in DOMAIN sealed' : Honest(sealed'[i].cells, acked')
      BY <1>0, <1>6
    <2> QED BY <1>6, <2>1, <2>2 DEF HonestInv
  <1>7. CASE AppendStart
    <2>1. cur' > 0
      BY <1>1, <1>7 DEF AppendStart
    <2> QED BY <1>0, <1>6, <1>7, <2>1 DEF AppendStart, log, hist
  <1>8. CASE AppendRecover \/ Sync \/ AppendRefused \/ AppendWedged \/ Vanish
             \/ FlushBuf
    <2>1. /\ UNCHANGED <<sealed, chain_head, acked, accepted, cur>>
          /\ pc' # "idle" => pc # "idle"
      BY <1>8 DEF AppendRecover, Sync, AppendRefused, AppendWedged, Vanish,
                  FlushBuf, log, hist
    <2>2. /\ file' \in {file, accepted, file \o leftover}
          /\ leftover' \in {leftover, <<>>}
      BY <1>8 DEF AppendRecover, Recovered, Sync, AppendRefused, AppendWedged,
                  Vanish, FlushBuf, log
    <2> QED BY <1>0, <1>3, <1>5, <1>6, <2>1, <2>2
  <1>9. CASE WriteRecord
    <2>1. (file \o leftover) \o <<Record>> = Append(file \o leftover, Record)
      BY <1>1, <1>3
    <2>2. Honest(file', acked)
      BY <1>3, <1>4, <1>5, <1>9, <2>1 DEF WriteRecord
    <2> QED BY <1>0, <1>3, <1>6, <1>9, <2>2 DEF WriteRecord, hist
  <1>10. ASSUME pc # "idle", NEW f \in Seq(Cell), NEW r \in Seq(Cell),
                Honest(f, acked), Honest(r, acked), Residue(f, r)
         PROVE  Honest(file', acked) /\ Honest(leftover', acked)
    BY <1>3, <1>4, <1>10 DEF Residue
  <1>11. CASE WriteFault
    <2>1. Honest(file', acked) /\ Honest(leftover', acked)
      BY <1>0, <1>1, <1>10, <1>11 DEF WriteFault
    <2> QED BY <1>0, <1>6, <1>11, <2>1 DEF WriteFault, hist
  <1>12. CASE Repair
    <2>1. file' = Append(accepted, Record) /\ leftover' = <<>> /\ pc # "idle"
      BY <1>12 DEF Repair, Recovered
    <2>2. Honest(file', acked)
      BY <1>0, <1>1, <1>4, <2>1
    <2> QED BY <1>0, <1>3, <1>6, <1>12, <2>1, <2>2 DEF Repair, hist
  <1>13. CASE RepairFails
    <2>1. Honest(file', acked) /\ Honest(leftover', acked)
      BY <1>0, <1>1, <1>3, <1>10, <1>13 DEF RepairFails
    <2> QED BY <1>6, <1>13, <2>1 DEF RepairFails, hist
  <1>14. CASE AppendAck
    <2>1. /\ accepted' = Append(accepted, Record) /\ chain_head' = cur
          /\ acked' = acked \union {cur} /\ pc' = "idle" /\ pc # "idle"
          /\ UNCHANGED <<sealed, file, leftover>>
      BY <1>14 DEF AppendAck
    <2>2. \A s : Honest(s, acked) => Honest(s, acked')
      BY <2>1 DEF Honest
    <2>3. Honest(accepted', acked)
      BY <1>0, <1>1, <1>4, <2>1
    <2> QED BY <1>0, <2>1, <2>2, <2>3 DEF HonestInv
  <1>15. CASE Rotate
    <2> DEFINE seg == [inst |-> writer, cells |-> file \o leftover,
                       synced |-> Len(file \o leftover)]
    <2>1. sealed' = Append(sealed, seg) /\ file' = <<>> /\ leftover' = <<>>
          /\ accepted' = <<>> /\ UNCHANGED <<chain_head, acked, pc, cur>>
      BY <1>15 DEF Rotate
    <2>2. seg \in Segment /\ seg.cells = file \o leftover
      BY <1>1, <1>3 DEF Segment
    <2> HIDE DEF seg
    <2>3. \A i \in DOMAIN sealed' :
             \/ i \in DOMAIN sealed /\ sealed'[i] = sealed[i]
             \/ sealed'[i] = seg
      BY <1>1, <2>1, <2>2, AppendSegment
    <2>4. \A i \in DOMAIN sealed' : Honest(sealed'[i].cells, acked)
      BY <1>0, <1>5, <2>2, <2>3
    <2> QED BY <1>0, <1>3, <2>1, <2>4 DEF HonestInv
  <1>d. ASSUME NEW lost, Death(lost),
               \A i \in DOMAIN sealed' : Honest(sealed'[i].cells, acked)
        PROVE  HonestInv'
    <2>1. /\ pc' = "idle" /\ chain_head' = 0 /\ acked' = acked
          /\ file' = <<>> /\ leftover' = <<>> /\ accepted' = <<>>
      BY <1>d DEF Death
    <2> QED BY <1>3, <1>d, <2>1 DEF HonestInv
  <1>16. CASE Kill
    BY <1>16, <1>d, RemainsHonest DEF Kill
  <1>17. CASE PowerLoss
    <2>0. PICK segs \in Remains : \E torn \in BOOLEAN :
            \E keep \in [DOMAIN segs -> Lengths] :
            /\ \A i \in DOMAIN segs :
                  keep[i] \in segs[i].synced .. Len(segs[i].cells)
            /\ sealed' = [i \in DOMAIN segs |-> CutTo(segs[i], keep[i], torn)]
      BY <1>17 DEF PowerLoss
    <2>1. PICK torn \in BOOLEAN, keep \in [DOMAIN segs -> Lengths] :
            /\ \A i \in DOMAIN segs :
                  keep[i] \in segs[i].synced .. Len(segs[i].cells)
            /\ sealed' = [i \in DOMAIN segs |-> CutTo(segs[i], keep[i], torn)]
      BY <2>0
    <2>2. \A i \in DOMAIN sealed' : Honest(sealed'[i].cells, acked)
      <3> SUFFICES ASSUME NEW i \in DOMAIN segs
                   PROVE  Honest(CutTo(segs[i], keep[i], torn).cells, acked)
        BY <2>1
      <3>0. segs \in Seq(Segment) /\ Honest(segs[i].cells, acked)
        BY RemainsType, RemainsHonest
      <3>1. segs[i] \in Segment
        BY <3>0
      <3>2. segs[i].synced \in Nat /\ Len(segs[i].cells) \in Nat
        BY <3>1 DEF Segment
      <3>3. keep[i] \in Nat /\ keep[i] <= Len(segs[i].cells)
        BY <2>1, <3>2
      <3> QED BY <3>0, <3>1, <3>3, HonestCut
    <2>3. Death(acked \ durable)
      BY <1>17 DEF PowerLoss
    <2> QED BY <1>d, <2>2, <2>3
  <1>18. CASE Reopen
    <2>1. PICK good \in [DOMAIN sealed -> Lengths] :
            /\ \A i \in DOMAIN sealed : GoodOffset(sealed[i], good[i])
            /\ sealed' = [i \in DOMAIN sealed |-> Truncated(sealed[i], good[i])]
      BY <1>18 DEF Reopen
    <2>2. \A i \in DOMAIN sealed' : Honest(sealed'[i].cells, acked)
      <3> SUFFICES ASSUME NEW i \in DOMAIN sealed
                   PROVE  Honest(Truncated(sealed[i], good[i]).cells, acked)
        BY <2>1
      <3>1. /\ sealed[i] \in Segment /\ good[i] \in Nat
            /\ good[i] <= Len(sealed[i].cells)
        BY <1>1, <2>1, BoundsAssumption DEF GoodOffset, Lengths
      <3> QED BY <1>0, <3>1, HonestCut
    <2>3. UNCHANGED <<pc, cur, chain_head, acked, file, leftover, accepted>>
      BY <1>18 DEF Reopen, hist
    <2> QED BY <1>0, <2>2, <2>3 DEF HonestInv
  <1>19. CASE ReopenFails \/ UNCHANGED vars
    <2>1. UNCHANGED <<pc, cur, chain_head, acked, log>>
      BY <1>19 DEF ReopenFails, vars, hist
    <2> QED BY <1>0, <2>1 DEF HonestInv, log
  <1> QED
    BY <1>7, <1>8, <1>9, <1>11, <1>12, <1>13, <1>14, <1>15, <1>16, <1>17,
       <1>18, <1>19 DEF Next, AppendRuns

(* A record whose append() failed is never linked to by the record that      *)
(* follows it, with any number of faults of any kind: a double fault can put *)
(* a refused record on disk, but not into the hash chain, because append()   *)
(* moves chain_head only with the acknowledgement.                           *)
THEOREM FailureLeavesGap == Spec => []TamperEvident
  <1> DEFINE Both == TypeOK /\ HonestInv
  <1>1. Init => Both
    <2>1. Init => HonestInv
      BY DEF Init, HonestInv, Honest
    <2> QED BY <2>1, InitTypeOK
  <1>2. Both /\ [Next]_vars => Both'
    BY TypeStep, HonestStep
  <1>3. Both => TamperEvident
    <2> SUFFICES ASSUME TypeOK, HonestInv PROVE TamperEvident
      OBVIOUS
    <2>1. ASSUME NEW cells \in Seq(Cell), Honest(cells, acked),
                 NEW j \in Clean(cells), j > 1, cells[j].prev = cells[j - 1].op
          PROVE  cells[j - 1].op \in acked
      <3>1. j \in DOMAIN cells /\ j - 1 \in DOMAIN cells
        BY <2>1 DEF Clean
      <3>2. cells[j].prev \in acked \union {0} /\ cells[j - 1].op > 0
        BY <2>1, <3>1 DEF Honest
      <3> QED BY <2>1, <3>2
    <2>2. /\ file \in Seq(Cell) /\ Honest(file, acked)
      BY DEF TypeOK, HonestInv
    <2>3. \A i \in DOMAIN sealed : sealed[i].cells \in Seq(Cell)
                                   /\ Honest(sealed[i].cells, acked)
      <3> SUFFICES ASSUME NEW i \in DOMAIN sealed
                   PROVE  sealed[i].cells \in Seq(Cell)
        BY DEF HonestInv
      <3>0. sealed \in Seq(Segment)
        BY DEF TypeOK
      <3>1. sealed[i] \in Segment
        BY <3>0
      <3> QED BY <3>1 DEF Segment
    <2> QED BY <2>1, <2>2, <2>3 DEF TamperEvident
  <1> QED BY <1>1, <1>2, <1>3, PTL DEF Spec

-----------------------------------------------------------------------------
\* A record with this prev_hash and seqno continues the chain of `before'.
Follows(before, prev, seq) ==
    IF before = <<>> THEN prev = 0
    ELSE prev = before[Len(before)].op /\ seq = before[Len(before)].seq + 1

(* A segment is linked when its first record continues the one before it and *)
(* every other record continues its neighbour.                               *)
LEMMA LinkedParts ==
    ASSUME NEW before \in Seq(Cell), NEW cells \in Seq(Cell)
    PROVE  Linked(before, cells) <=>
              \A j \in Clean(cells) :
                 /\ j = 1 => Follows(before, cells[j].prev, cells[j].seq)
                 /\ j > 1 => /\ cells[j].prev = cells[j - 1].op
                             /\ cells[j].seq = cells[j - 1].seq + 1
  <1>1. /\ Len(before) \in Nat /\ Len(cells) \in Nat
        /\ DOMAIN cells = 1 .. Len(cells)
        /\ before = <<>> <=> Len(before) = 0
    OBVIOUS
  <1> SUFFICES ASSUME NEW j \in Clean(cells)
               PROVE  (LET all == before \o cells
                           k   == Len(before) + j
                       IN  IF k = 1 THEN cells[j].prev = 0
                           ELSE /\ cells[j].prev = all[k - 1].op
                                /\ cells[j].seq = all[k - 1].seq + 1)
                      <=>
                      (/\ j = 1 => Follows(before, cells[j].prev, cells[j].seq)
                       /\ j > 1 => /\ cells[j].prev = cells[j - 1].op
                                   /\ cells[j].seq = cells[j - 1].seq + 1)
    BY DEF Linked
  <1>2. j \in 1 .. Len(cells)
    BY <1>1 DEF Clean
  <1>3. CASE j > 1
    <2>1. (before \o cells)[Len(before) + j - 1] = cells[j - 1]
      BY <1>1, <1>2, <1>3
    <2>2. Len(before) + j # 1
      BY <1>1, <1>2, <1>3
    <2> QED BY <1>1, <1>2, <1>3, <2>1, <2>2
  <1>4. CASE j = 1 /\ before = <<>>
    BY <1>1, <1>4 DEF Follows
  <1>5. CASE j = 1 /\ before # <<>>
    <2>1. (before \o cells)[Len(before)] = before[Len(before)]
      BY <1>1, <1>5
    <2>2. Len(before) + j # 1 /\ Len(before) + j - 1 = Len(before)
      BY <1>1, <1>5
    <2> QED BY <1>5, <2>1, <2>2 DEF Follows
  <1> QED BY <1>2, <1>3, <1>4, <1>5

(* A segment that lost records at its end is still linked.                   *)
LEMMA LinkedPrefix ==
    ASSUME NEW before \in Seq(Cell), NEW cells \in Seq(Cell),
           NEW front \in Seq(Cell), Linked(before, cells),
           \A j \in Clean(front) : j \in Clean(cells) /\ front[j] = cells[j]
    PROVE  Linked(before, front)
  <1>1. \A j \in Clean(front) : j > 1 => j - 1 \in Clean(front)
    <2> SUFFICES ASSUME NEW j \in Clean(front), j > 1
                 PROVE  j - 1 \in Clean(front)
      OBVIOUS
    <2>1. DOMAIN front = 1 .. Len(front) /\ Len(front) \in Nat
      OBVIOUS
    <2>2. /\ j \in 1 .. Len(front) /\ \A i \in 1 .. j : front[i].whole
      BY <2>1 DEF Clean
    <2> QED BY <2>1, <2>2 DEF Clean
  <1>2. \A j \in Clean(cells) :
           /\ j = 1 => Follows(before, cells[j].prev, cells[j].seq)
           /\ j > 1 => /\ cells[j].prev = cells[j - 1].op
                       /\ cells[j].seq = cells[j - 1].seq + 1
    BY LinkedParts
  <1>3. \A j \in Clean(front) :
           /\ j = 1 => Follows(before, front[j].prev, front[j].seq)
           /\ j > 1 => /\ front[j].prev = front[j - 1].op
                       /\ front[j].seq = front[j - 1].seq + 1
    BY <1>1, <1>2
  <1> QED BY <1>3, LinkedParts

(* The record built from chain_head and next_seqno continues the segment, or *)
(* the one rotated away before it.                                           *)
LEMMA LinkedAppend ==
    ASSUME NEW before \in Seq(Cell), NEW cells \in Seq(Cell), NEW r \in Cell,
           Linked(before, cells), \A j \in DOMAIN cells : cells[j].whole,
           Follows(IF cells = <<>> THEN before ELSE cells, r.prev, r.seq)
    PROVE  Linked(before, Append(cells, r))
  <1> DEFINE more == Append(cells, r)
  <1>1. /\ Len(cells) \in Nat /\ DOMAIN cells = 1 .. Len(cells)
        /\ more \in Seq(Cell) /\ Len(more) = Len(cells) + 1
        /\ DOMAIN more = 1 .. Len(cells) + 1
        /\ more[Len(cells) + 1] = r
        /\ \A j \in DOMAIN cells : more[j] = cells[j]
        /\ cells = <<>> <=> Len(cells) = 0
    OBVIOUS
  <1>2. \A j \in Clean(cells) :
           /\ j = 1 => Follows(before, cells[j].prev, cells[j].seq)
           /\ j > 1 => /\ cells[j].prev = cells[j - 1].op
                       /\ cells[j].seq = cells[j - 1].seq + 1
    BY LinkedParts
  <1>3. \A j \in DOMAIN cells : j \in Clean(cells)
    BY <1>1 DEF Clean
  <1> HIDE DEF more
  <1>4. ASSUME NEW j \in Clean(more)
        PROVE  /\ j = 1 => Follows(before, more[j].prev, more[j].seq)
               /\ j > 1 => /\ more[j].prev = more[j - 1].op
                           /\ more[j].seq = more[j - 1].seq + 1
    <2>1. j \in 1 .. Len(cells) + 1
      BY <1>1 DEF Clean
    <2>2. CASE j \in DOMAIN cells
      <3>1. j > 1 => j - 1 \in DOMAIN cells
        BY <1>1, <2>2
      <3> QED BY <1>1, <1>2, <1>3, <2>2, <3>1
    <2>3. CASE j = Len(cells) + 1 /\ cells = <<>>
      BY <1>1, <2>3
    <2>4. CASE j = Len(cells) + 1 /\ cells # <<>>
      <3>1. /\ j > 1 /\ j - 1 = Len(cells) /\ more[j] = r
            /\ more[j - 1] = cells[Len(cells)]
        BY <1>1, <2>4
      <3> QED BY <2>4, <3>1 DEF Follows
    <2> QED BY <1>1, <2>1, <2>2, <2>3, <2>4
  <1>5. Linked(before, more)
    BY <1>1, <1>4, LinkedParts
  <1> QED BY <1>5 DEF more

\* A segment rotated away by the process that goes on in the next one: not
\* empty, and all of it fsynced.
Closed(seg) == seg.synced = Len(seg.cells) /\ seg.cells # <<>>

BeforeIn(segs, i) == IF i > 1 /\ segs[i - 1].inst = segs[i].inst
                     THEN segs[i - 1].cells ELSE <<>>

Chained(segs) ==
    \A i \in DOMAIN segs :
       /\ Linked(BeforeIn(segs, i), segs[i].cells)
       /\ i > 1 /\ segs[i - 1].inst = segs[i].inst => Closed(segs[i - 1])

\* What the next segment of process w follows.
Behind(segs, w) == IF Len(segs) > 0 /\ segs[Len(segs)].inst = w
                   THEN segs[Len(segs)].cells ELSE <<>>

LEMMA BeforeType ==
    ASSUME NEW segs \in Seq(Segment)
    PROVE  /\ \A i \in DOMAIN segs : BeforeIn(segs, i) \in Seq(Cell)
           /\ \A w : Behind(segs, w) \in Seq(Cell)
           /\ \A i \in DOMAIN segs : /\ segs[i] \in Segment
                                     /\ segs[i].cells \in Seq(Cell)
                                     /\ segs[i].synced \in Nat
                                     /\ Len(segs[i].cells) \in Nat
  <1>1. DOMAIN segs = 1 .. Len(segs) /\ Len(segs) \in Nat
    OBVIOUS
  <1>2. \A i \in DOMAIN segs : segs[i] \in Segment
    OBVIOUS
  <1>3. \A i \in DOMAIN segs : /\ segs[i].cells \in Seq(Cell)
                               /\ segs[i].synced \in Nat
                               /\ Len(segs[i].cells) \in Nat
    <2> SUFFICES ASSUME NEW i \in DOMAIN segs
                 PROVE  /\ segs[i].cells \in Seq(Cell)
                        /\ segs[i].synced \in Nat
                        /\ Len(segs[i].cells) \in Nat
      OBVIOUS
    <2>1. segs[i] \in Segment
      BY <1>2
    <2>2. segs[i].cells \in Seq(Cell) /\ segs[i].synced \in Nat
      BY <2>1 DEF Segment
    <2> QED BY <2>2
  <1>4. \A i \in DOMAIN segs : i > 1 => i - 1 \in DOMAIN segs
    BY <1>1
  <1>5. Len(segs) > 0 => Len(segs) \in DOMAIN segs
    BY <1>1
  <1>6. <<>> \in Seq(Cell)
    OBVIOUS
  <1> QED BY <1>2, <1>3, <1>4, <1>5, <1>6 DEF BeforeIn, Behind

(* A segment that follows the last one extends the chain.                    *)
LEMMA ChainedAppend ==
    ASSUME NEW segs \in Seq(Segment), Chained(segs), NEW seg \in Segment,
           Linked(Behind(segs, seg.inst), seg.cells),
           Len(segs) > 0 /\ segs[Len(segs)].inst = seg.inst
              => Closed(segs[Len(segs)])
    PROVE  Chained(Append(segs, seg))
  <1> DEFINE more == Append(segs, seg)
  <1>1. /\ DOMAIN segs = 1 .. Len(segs) /\ Len(segs) \in Nat
        /\ DOMAIN more = 1 .. Len(segs) + 1
        /\ more[Len(segs) + 1] = seg
        /\ \A i \in DOMAIN segs : more[i] = segs[i]
    OBVIOUS
  <1> HIDE DEF more
  <1> SUFFICES ASSUME NEW i \in DOMAIN more
               PROVE  /\ Linked(BeforeIn(more, i), more[i].cells)
                      /\ i > 1 /\ more[i - 1].inst = more[i].inst
                            => Closed(more[i - 1])
    BY DEF Chained, more
  <1>2. CASE i \in DOMAIN segs
    <2>1. i > 1 => i - 1 \in DOMAIN segs
      BY <1>1, <1>2
    <2>2. BeforeIn(more, i) = BeforeIn(segs, i)
      BY <1>1, <1>2, <2>1 DEF BeforeIn
    <2> QED BY <1>1, <1>2, <2>1, <2>2 DEF Chained
  <1>3. CASE i = Len(segs) + 1
    <2>1. /\ i > 1 <=> Len(segs) > 0
          /\ i - 1 = Len(segs)
          /\ i > 1 => more[i - 1] = segs[Len(segs)]
          /\ more[i] = seg
      BY <1>1, <1>3
    <2>2. BeforeIn(more, i) = Behind(segs, seg.inst)
      BY <2>1 DEF BeforeIn, Behind
    <2> QED BY <2>1, <2>2
  <1> QED BY <1>1, <1>2, <1>3

(* Cutting segments past what was fsynced, or at a broken record, keeps the  *)
(* chain: a segment with a successor is fsynced to its end.                  *)
LEMMA ChainedShorter ==
    ASSUME NEW segs \in Seq(Segment), Chained(segs), NEW cut \in Seq(Segment),
           DOMAIN cut = DOMAIN segs,
           \A i \in DOMAIN segs :
              /\ cut[i].inst = segs[i].inst
              /\ \A j \in Clean(cut[i].cells) :
                    j \in Clean(segs[i].cells) /\ cut[i].cells[j] = segs[i].cells[j]
              /\ Closed(segs[i]) => cut[i] = segs[i]
    PROVE  Chained(cut)
  <1> SUFFICES ASSUME NEW i \in DOMAIN segs
               PROVE  /\ Linked(BeforeIn(cut, i), cut[i].cells)
                      /\ i > 1 /\ cut[i - 1].inst = cut[i].inst
                            => Closed(cut[i - 1])
    BY DEF Chained
  <1>1. i > 1 => i - 1 \in DOMAIN segs
    <2>1. DOMAIN segs = 1 .. Len(segs) /\ Len(segs) \in Nat
      OBVIOUS
    <2> QED BY <2>1
  <1>2. i > 1 /\ cut[i - 1].inst = cut[i].inst
           => Closed(segs[i - 1]) /\ cut[i - 1] = segs[i - 1]
    BY <1>1 DEF Chained
  <1>3. BeforeIn(cut, i) = BeforeIn(segs, i)
    BY <1>1, <1>2 DEF BeforeIn
  <1>4. Linked(BeforeIn(segs, i), segs[i].cells)
    BY DEF Chained
  <1>5. Linked(BeforeIn(segs, i), cut[i].cells)
    <2>1. /\ BeforeIn(segs, i) \in Seq(Cell)
          /\ segs[i].cells \in Seq(Cell) /\ cut[i].cells \in Seq(Cell)
      BY BeforeType
    <2>2. \A j \in Clean(cut[i].cells) :
             j \in Clean(segs[i].cells) /\ cut[i].cells[j] = segs[i].cells[j]
      OBVIOUS
    <2> QED BY <1>4, <2>1, <2>2, LinkedPrefix
  <1> QED BY <1>2, <1>3, <1>5

\* The chain on disk, and where the running process stands in it.
OpenChain ==
    /\ Len(sealed) > 0 /\ sealed[Len(sealed)].inst = writer
          => Closed(sealed[Len(sealed)])
    /\ Linked(Behind(sealed, writer), accepted)
    /\ Follows(IF accepted = <<>> THEN Behind(sealed, writer) ELSE accepted,
               chain_head, next_seqno)
    /\ \A i \in DOMAIN sealed : \A j \in DOMAIN sealed[i].cells :
          sealed[i].cells[j].seq < next_seqno
    /\ \A j \in DOMAIN accepted : accepted[j].seq < next_seqno

ChainInv ==
    /\ \A i \in DOMAIN sealed : sealed[i].inst <= writer
    /\ Chained(sealed)
    /\ status = "open" => OpenChain
    /\ status = "down" => chain_head = 0

(* The segment a process dies with continues its chain, torn or not.         *)
LEMMA LeftLinked ==
    ASSUME IInv, OpenChain,
           NEW c \in {accepted, Append(accepted, Record),
                      Append(accepted, Torn(Record))}
    PROVE  c \in Seq(Cell) /\ Linked(Behind(sealed, writer), c)
  <1>1. /\ accepted \in Seq(Cell) /\ sealed \in Seq(Segment)
        /\ Record \in Cell /\ Torn(Record) \in Cell
        /\ \A j \in DOMAIN accepted : accepted[j].whole
    BY RecordType DEF IInv, TypeOK, ActiveInv
  <1>2. /\ Record.prev = chain_head /\ Torn(Record).prev = chain_head
        /\ Record.seq = next_seqno /\ Torn(Record).seq = next_seqno
    BY DEF Record, Torn
  <1>3. Behind(sealed, writer) \in Seq(Cell)
    BY <1>1, BeforeType
  <1>4. /\ Linked(Behind(sealed, writer), accepted)
        /\ Follows(IF accepted = <<>> THEN Behind(sealed, writer) ELSE accepted,
                   chain_head, next_seqno)
    BY DEF OpenChain
  <1>5. /\ Linked(Behind(sealed, writer), Append(accepted, Record))
        /\ Linked(Behind(sealed, writer), Append(accepted, Torn(Record)))
    BY <1>1, <1>2, <1>3, <1>4, LinkedAppend
  <1>6. Append(accepted, Record) \in Seq(Cell)
        /\ Append(accepted, Torn(Record)) \in Seq(Cell)
    BY <1>1, CellSeqs
  <1> QED BY <1>1, <1>4, <1>5, <1>6

(* What a dying process leaves is one chain.                                 *)
LEMMA RemainsChained ==
    ASSUME IInv, ChainInv, status = "open", NEW segs \in Remains
    PROVE  /\ Chained(segs)
           /\ \A i \in DOMAIN segs : segs[i].inst <= writer
  <1>1. CASE segs = sealed
    BY <1>1 DEF ChainInv
  <1>2. ASSUME NEW c \in {accepted, Append(accepted, Record),
                          Append(accepted, Torn(Record))},
               segs = Left(c)
        PROVE  /\ Chained(segs)
               /\ \A i \in DOMAIN segs : segs[i].inst <= writer
    <2>0. /\ sealed \in Seq(Segment) /\ writer \in Nat /\ synced \in Nat
          /\ OpenChain /\ Chained(sealed)
      BY DEF IInv, TypeOK, ChainInv
    <2>1. c \in Seq(Cell) /\ Linked(Behind(sealed, writer), c)
      BY <2>0, LeftLinked
    <2> DEFINE seg == [inst |-> writer, cells |-> c, synced |-> synced]
    <2>2. seg \in Segment /\ seg.inst = writer /\ seg.cells = c
      BY <2>0, <2>1 DEF Segment
    <2>3. segs = Append(sealed, seg)
      BY <1>2 DEF Left
    <2> HIDE DEF seg
    <2>4. Chained(Append(sealed, seg))
      BY <2>0, <2>1, <2>2, ChainedAppend DEF OpenChain
    <2>5. \A i \in DOMAIN segs : \/ i \in DOMAIN sealed /\ segs[i] = sealed[i]
                                 \/ segs[i] = seg
      BY <2>0, <2>2, <2>3, AppendSegment
    <2> QED BY <2>0, <2>2, <2>3, <2>4, <2>5 DEF ChainInv
  <1> QED BY <1>1, <1>2, RemainsShape

(* Every step keeps the chain when no repair fails.                          *)
LEMMA ChainStep ==
    ASSUME IInv, IInv', ChainInv, [Next]_vars
    PROVE  ChainInv'
  <1>0. TypeOK /\ ActiveInv /\ SealedInv /\ TypeOK'
    BY DEF IInv
  <1>a. /\ accepted \in Seq(Cell) /\ sealed \in Seq(Segment) /\ writer \in Nat
        /\ Record \in Cell /\ Record.prev = chain_head
        /\ Record.seq = next_seqno /\ Record.op = cur
        /\ \A j \in DOMAIN accepted : accepted[j].whole
        /\ next_seqno \in Nat
    BY <1>0, RecordType DEF TypeOK, ActiveInv, Record
  <1>b. /\ DOMAIN accepted = 1 .. Len(accepted) /\ Len(accepted) \in Nat
        /\ \A i \in DOMAIN accepted : accepted[i].seq \in Nat
    <2>1. \A i \in DOMAIN accepted : accepted[i] \in Cell
      BY <1>a
    <2> QED BY <1>a, <2>1 DEF Cell
  <1>c. /\ \A i \in DOMAIN sealed : sealed[i].inst <= writer
        /\ Chained(sealed)
        /\ status = "open" => OpenChain
        /\ status = "down" => chain_head = 0
    BY DEF ChainInv
  <1>1. CASE UNCHANGED <<sealed, accepted, chain_head, next_seqno, status, writer>>
    <2>1. OpenChain => OpenChain'
      BY <1>1 DEF OpenChain
    <2> QED BY <1>1, <1>c, <2>1 DEF ChainInv
  <1>2. CASE Rotate
    <2> DEFINE seg == [inst |-> writer, cells |-> accepted,
                       synced |-> Len(accepted)]
    <2>0. OpenChain
      BY <1>2, <1>c DEF Rotate
    <2>1. file \o leftover = accepted
      BY <1>0, <1>2, <1>a DEF Rotate, ActiveInv
    <2>2. /\ sealed' = Append(sealed, seg) /\ accepted' = <<>>
          /\ UNCHANGED <<status, writer, chain_head, next_seqno>>
          /\ status = "open"
      BY <1>2, <2>1 DEF Rotate
    <2>3. accepted # <<>>
      BY <1>2, <1>b, BoundsAssumption DEF Rotate, Full
    <2>4. /\ seg \in Segment /\ seg.inst = writer /\ seg.cells = accepted
          /\ Closed(seg)
      BY <1>a, <1>b, <2>3 DEF Segment, Closed
    <2> HIDE DEF seg
    <2>5. Chained(sealed')
      BY <1>a, <1>c, <2>0, <2>2, <2>4, ChainedAppend DEF OpenChain
    <2>6. /\ Len(sealed') = Len(sealed) + 1 /\ sealed'[Len(sealed')] = seg
          /\ Len(sealed') > 0
      BY <1>a, <2>2, <2>4
    <2>7. \A i \in DOMAIN sealed' :
             (i \in DOMAIN sealed /\ sealed'[i] = sealed[i]) \/ sealed'[i] = seg
      BY <1>a, <2>2, <2>4, AppendSegment
    <2>8. \A i \in DOMAIN sealed' : sealed'[i].inst <= writer'
      BY <1>a, <1>c, <2>2, <2>4, <2>7
    <2>9. Behind(sealed', writer') = accepted
      BY <2>2, <2>4, <2>6 DEF Behind
    <2>10. Linked(accepted, <<>>)
      BY DEF Linked, Clean
    <2>11. \A i \in DOMAIN sealed' : \A j \in DOMAIN sealed'[i].cells :
              sealed'[i].cells[j].seq < next_seqno'
      BY <2>0, <2>2, <2>4, <2>7 DEF OpenChain
    <2>12. Follows(Behind(sealed', writer'), chain_head', next_seqno')
      BY <2>0, <2>2, <2>3, <2>9 DEF OpenChain
    <2>13. OpenChain'
      BY <2>2, <2>4, <2>6, <2>9, <2>10, <2>11, <2>12 DEF OpenChain
    <2> QED BY <2>2, <2>5, <2>8, <2>13 DEF ChainInv
  <1>3. CASE AppendAck
    <2>1. /\ accepted' = Append(accepted, Record) /\ chain_head' = cur
          /\ next_seqno' = next_seqno + 1
          /\ UNCHANGED <<sealed, writer, status>> /\ status = "open"
      BY <1>3 DEF AppendAck
    <2>2. OpenChain
      BY <1>c, <2>1
    <2>3. /\ accepted' # <<>> /\ Len(accepted') = Len(accepted) + 1
          /\ accepted'[Len(accepted')] = Record
          /\ \A j \in DOMAIN accepted' :
                \/ j \in DOMAIN accepted /\ accepted'[j] = accepted[j]
                \/ accepted'[j] = Record
      BY <1>a, <1>b, <2>1
    <2>4. Follows(accepted', chain_head', next_seqno')
      BY <1>a, <2>1, <2>3 DEF Follows
    <2>5. Linked(Behind(sealed, writer), accepted')
      BY <2>1, <2>2, LeftLinked
    <2>6. \A j \in DOMAIN accepted' : accepted'[j].seq < next_seqno'
      BY <1>a, <1>b, <2>1, <2>2, <2>3 DEF OpenChain
    <2>7. \A i \in DOMAIN sealed : \A j \in DOMAIN sealed[i].cells :
             sealed[i].cells[j].seq < next_seqno'
      <3> SUFFICES ASSUME NEW i \in DOMAIN sealed, NEW j \in DOMAIN sealed[i].cells
                   PROVE  sealed[i].cells[j].seq < next_seqno'
        OBVIOUS
      <3>1. sealed[i].cells \in Seq(Cell)
        BY <1>a, BeforeType
      <3>2. sealed[i].cells[j] \in Cell
        BY <3>1
      <3>3. sealed[i].cells[j].seq \in Nat
        BY <3>2 DEF Cell
      <3>4. sealed[i].cells[j].seq < next_seqno
        BY <2>2 DEF OpenChain
      <3> QED BY <1>a, <2>1, <3>3, <3>4
    <2>8. OpenChain'
      BY <2>1, <2>2, <2>3, <2>4, <2>5, <2>6, <2>7 DEF OpenChain
    <2> QED BY <1>c, <2>1, <2>8 DEF ChainInv
  <1>4. CASE Kill
    <2>1. status = "open" /\ sealed' \in Remains /\ status' = "down"
          /\ chain_head' = 0 /\ writer' = writer
      BY <1>4 DEF Kill, Death
    <2>2. Chained(sealed') /\ \A i \in DOMAIN sealed' : sealed'[i].inst <= writer
      BY <2>1, RemainsChained
    <2> QED BY <2>1, <2>2 DEF ChainInv
  <1>5. CASE PowerLoss
    <2>0. PICK segs \in Remains : \E torn \in BOOLEAN :
            \E keep \in [DOMAIN segs -> Lengths] :
            /\ \A i \in DOMAIN segs :
                  keep[i] \in segs[i].synced .. Len(segs[i].cells)
            /\ sealed' = [i \in DOMAIN segs |-> CutTo(segs[i], keep[i], torn)]
      BY <1>5 DEF PowerLoss
    <2>1. PICK torn \in BOOLEAN, keep \in [DOMAIN segs -> Lengths] :
            /\ \A i \in DOMAIN segs :
                  keep[i] \in segs[i].synced .. Len(segs[i].cells)
            /\ sealed' = [i \in DOMAIN segs |-> CutTo(segs[i], keep[i], torn)]
      BY <2>0
    <2>2. status = "open" /\ status' = "down" /\ chain_head' = 0
          /\ writer' = writer
      BY <1>5 DEF PowerLoss, Death
    <2>3. /\ Chained(segs) /\ \A i \in DOMAIN segs : segs[i].inst <= writer
          /\ segs \in Seq(Segment)
      BY <1>0, <2>2, RemainsChained, RemainsType
    <2>4. sealed' \in Seq(Segment) /\ DOMAIN sealed' = DOMAIN segs
      BY <1>0, <2>1 DEF TypeOK
    <2>5. ASSUME NEW i \in DOMAIN segs
          PROVE  /\ sealed'[i].inst = segs[i].inst
                 /\ \A j \in Clean(sealed'[i].cells) :
                       /\ j \in Clean(segs[i].cells)
                       /\ sealed'[i].cells[j] = segs[i].cells[j]
                 /\ Closed(segs[i]) => sealed'[i] = segs[i]
      <3>1. /\ segs[i] \in Segment /\ segs[i].synced \in Nat
            /\ segs[i].cells \in Seq(Cell) /\ Len(segs[i].cells) \in Nat
        BY <2>3, BeforeType
      <3>2. /\ keep[i] \in Nat /\ keep[i] <= Len(segs[i].cells)
            /\ segs[i].synced <= keep[i]
        BY <2>1, <3>1
      <3>3. sealed'[i] = CutTo(segs[i], keep[i], torn)
        BY <2>1
      <3>4. \A j \in Clean(sealed'[i].cells) :
               /\ j \in Clean(segs[i].cells)
               /\ sealed'[i].cells[j] = segs[i].cells[j]
        BY <3>1, <3>2, <3>3, CutAddsNothing
      <3>5. ASSUME Closed(segs[i]) PROVE sealed'[i] = segs[i]
        <4>1. keep[i] = Len(segs[i].cells)
          BY <3>1, <3>2, <3>5 DEF Closed
        <4>2. SubSeq(segs[i].cells, 1, keep[i]) = segs[i].cells
          BY <3>1, <4>1
        <4> QED BY <3>1, <3>3, <4>1, <4>2 DEF CutTo, Segment
      <3>6. sealed'[i].inst = segs[i].inst
        BY <3>1, <3>3 DEF CutTo, Segment
      <3> QED BY <3>4, <3>5, <3>6
    <2>6. Chained(sealed')
      BY <2>3, <2>4, <2>5, ChainedShorter
    <2> QED BY <2>2, <2>3, <2>4, <2>5, <2>6 DEF ChainInv
  <1>6. CASE Reopen
    <2>1. PICK good \in [DOMAIN sealed -> Lengths] :
            /\ \A i \in DOMAIN sealed : GoodOffset(sealed[i], good[i])
            /\ sealed' = [i \in DOMAIN sealed |-> Truncated(sealed[i], good[i])]
      BY <1>6 DEF Reopen
    <2>2. /\ status = "down" /\ status' = "open" /\ writer' = writer + 1
          /\ accepted' = accepted /\ accepted = <<>>
          /\ chain_head' = chain_head /\ chain_head = 0
      BY <1>0, <1>6, <1>c DEF Reopen, ActiveInv
    <2>3. PICK n \in 0 .. MaxOps : HighestSeqno(sealed', n) /\ next_seqno' = n + 1
      BY <1>6 DEF Reopen
    <2>4. sealed' \in Seq(Segment) /\ DOMAIN sealed' = DOMAIN sealed
      BY <1>0, <2>1 DEF TypeOK
    <2>5. ASSUME NEW i \in DOMAIN sealed
          PROVE  /\ sealed'[i].inst = sealed[i].inst
                 /\ \A j \in Clean(sealed'[i].cells) :
                       /\ j \in Clean(sealed[i].cells)
                       /\ sealed'[i].cells[j] = sealed[i].cells[j]
                 /\ Closed(sealed[i]) => sealed'[i] = sealed[i]
      <3>1. /\ sealed[i] \in Segment /\ sealed[i].synced \in Nat
            /\ sealed[i].cells \in Seq(Cell) /\ Len(sealed[i].cells) \in Nat
            /\ DOMAIN sealed[i].cells = 1 .. Len(sealed[i].cells)
        BY <1>a, BeforeType
      <3>2. good[i] \in Nat /\ GoodOffset(sealed[i], good[i])
            /\ good[i] <= Len(sealed[i].cells)
        BY <2>1, BoundsAssumption DEF Lengths, GoodOffset
      <3>3. sealed'[i] = Truncated(sealed[i], good[i])
        BY <2>1
      <3>4. \A j \in Clean(sealed'[i].cells) :
               /\ j \in Clean(sealed[i].cells)
               /\ sealed'[i].cells[j] = sealed[i].cells[j]
        <4>1. /\ Clean(sealed'[i].cells) = Clean(sealed[i].cells)
              /\ DOMAIN sealed'[i].cells = 1 .. good[i]
              /\ \A j \in 1 .. good[i] : sealed'[i].cells[j] = sealed[i].cells[j]
          BY <3>1, <3>2, <3>3, TruncateAddsNothing
        <4>2. Clean(sealed'[i].cells) \subseteq DOMAIN sealed'[i].cells
          BY DEF Clean
        <4> QED BY <4>1, <4>2
      <3>5. ASSUME Closed(sealed[i]) PROVE sealed'[i] = sealed[i]
        <4>1. good[i] = Len(sealed[i].cells)
          <5>1. SegInv(sealed[i]) /\ sealed[i].synced = Len(sealed[i].cells)
            BY <1>0, <3>5 DEF SealedInv, Closed
          <5>2. ~(good[i] < Len(sealed[i].cells))
            <6> SUFFICES ASSUME good[i] < Len(sealed[i].cells) PROVE FALSE
              OBVIOUS
            <6>1. ~sealed[i].cells[good[i] + 1].whole
                  /\ good[i] + 1 \in DOMAIN sealed[i].cells
              BY <3>1, <3>2 DEF GoodOffset
            <6>2. good[i] + 1 > sealed[i].synced
              BY <5>1, <6>1 DEF SegInv
            <6> QED BY <3>1, <3>2, <5>1, <6>2
          <5> QED BY <3>1, <3>2, <5>2
        <4>2. SubSeq(sealed[i].cells, 1, good[i]) = sealed[i].cells
          BY <3>1, <4>1
        <4>3. (IF good[i] < Len(sealed[i].cells) THEN good[i]
                                                  ELSE sealed[i].synced)
                 = sealed[i].synced
          BY <3>1, <4>1
        <4>4. Truncated(sealed[i], good[i]) =
                 [sealed[i] EXCEPT !.cells = sealed[i].cells,
                                   !.synced = sealed[i].synced]
          BY <4>2, <4>3, Zenon DEF Truncated
        <4> QED BY <3>1, <3>3, <4>4 DEF Segment
      <3>6. sealed'[i].inst = sealed[i].inst
        BY <3>1, <3>3 DEF Truncated, Segment
      <3> QED BY <3>4, <3>5, <3>6
    <2>6. Chained(sealed')
      BY <1>a, <1>c, <2>4, <2>5, ChainedShorter
    <2>7. \A i \in DOMAIN sealed' : sealed'[i].inst \in Nat
                                    /\ sealed'[i].inst < writer'
      <3> SUFFICES ASSUME NEW i \in DOMAIN sealed
                   PROVE  sealed'[i].inst \in Nat /\ sealed'[i].inst < writer'
        BY <2>4
      <3>1. sealed[i] \in Segment
        BY <1>a
      <3>2. sealed[i].inst \in Nat
        BY <3>1 DEF Segment
      <3> QED BY <1>a, <1>c, <2>2, <2>5, <3>2
    <2>8. Len(sealed') > 0 => sealed'[Len(sealed')].inst # writer'
      <3>1. Len(sealed') > 0 => Len(sealed') \in DOMAIN sealed'
        BY <2>4
      <3> QED BY <1>a, <2>2, <2>7, <3>1
    <2>9. Behind(sealed', writer') = <<>>
      BY <2>8 DEF Behind
    <2>10. Linked(<<>>, <<>>) /\ Follows(<<>>, 0, next_seqno')
      BY DEF Linked, Clean, Follows
    <2>11. \A i \in DOMAIN sealed' : \A j \in DOMAIN sealed'[i].cells :
              sealed'[i].cells[j].seq < next_seqno'
      <3> SUFFICES ASSUME NEW i \in DOMAIN sealed', NEW j \in DOMAIN sealed'[i].cells
                   PROVE  sealed'[i].cells[j].seq < next_seqno'
        OBVIOUS
      <3>1. sealed'[i].cells \in Seq(Cell)
        BY <2>4, BeforeType
      <3>2. sealed'[i].cells[j] \in Cell
        BY <3>1
      <3>3. sealed'[i].cells[j].seq \in Nat
        BY <3>2 DEF Cell
      <3>4. sealed'[i].cells[j].seq <= n
        BY <2>3 DEF HighestSeqno
      <3> QED BY <2>3, <3>3, <3>4, BoundsAssumption
    <2>12. OpenChain'
      BY <2>2, <2>8, <2>9, <2>10, <2>11 DEF OpenChain
    <2>13. \A i \in DOMAIN sealed' : sealed'[i].inst <= writer'
      BY <1>a, <2>2, <2>7
    <2> QED BY <2>2, <2>6, <2>12, <2>13 DEF ChainInv
  <1>7. CASE ReopenFails
    <2>1. status' = "fatal"
      BY <1>7 DEF ReopenFails
    <2> QED BY <2>1 DEF IInv
  <1>8. ASSUME Next \/ UNCHANGED vars,
               ~(Rotate \/ AppendAck \/ Kill \/ PowerLoss \/ Reopen
                 \/ ReopenFails)
        PROVE  UNCHANGED <<sealed, accepted, chain_head, next_seqno, status,
                           writer>>
    BY <1>8 DEF Next, AppendRuns, AppendStart, AppendRecover, AppendRefused,
       AppendWedged, WriteRecord, WriteFault, Repair, RepairFails, Sync,
       FlushBuf, Vanish, vars, log
  <1> QED BY <1>1, <1>2, <1>3, <1>4, <1>5, <1>6, <1>7, <1>8

(* The records of a process are one chain of consecutive seqnos over its     *)
(* rotations and recoveries, and a new process starts above everything on    *)
(* disk (append, rotate_if_needed, recover_segment and replay_wal), which is *)
(* what a segment certificate's seqno range and a coverage vector rely on.   *)
THEOREM ChainUnbroken ==
    ASSUME MaxDoubleFaults = 0
    PROVE  Spec => []OneChain
  <1> DEFINE Both == IInv /\ ChainInv
  <1>1. Init => Both
    <2>1. Init => IInv
      BY InvInit
    <2>2. Init => ChainInv
      BY DEF Init, ChainInv, OpenChain, Chained, Behind, Linked, Clean, Follows
    <2> QED BY <2>1, <2>2
  <1>2. Both /\ [Next]_vars => Both'
    BY InvStep, ChainStep
  <1>3. Both => OneChain
    <2> SUFFICES ASSUME IInv, ChainInv PROVE OneChain
      OBVIOUS
    <2>0. TypeOK /\ ActiveInv
      BY DEF IInv
    <2>1. \A i \in DOMAIN sealed : Linked(Before(i), sealed[i].cells)
      BY DEF ChainInv, Chained, BeforeIn, Before
    <2>2. ASSUME status = "open"
          PROVE  /\ Linked(Behind(sealed, writer), file)
                 /\ \A i \in DOMAIN sealed : \A j \in DOMAIN sealed[i].cells :
                       sealed[i].cells[j].seq < next_seqno
      <3>1. OpenChain
        BY <2>2 DEF ChainInv
      <3>2. pc \in {"idle", "prepare", "repair", "ack"}
        BY <2>0 DEF TypeOK
      <3>3. file \in {accepted, Append(accepted, Record),
                      Append(accepted, Torn(Record))}
        BY <2>0, <3>2 DEF ActiveInv
      <3>4. Linked(Behind(sealed, writer), file)
        BY <3>1, <3>3, LeftLinked
      <3> QED BY <3>1, <3>4 DEF OpenChain
    <2> QED BY <2>1, <2>2 DEF OneChain, Behind
  <1> QED BY <1>1, <1>2, <1>3, PTL DEF Spec
-----------------------------------------------------------------------------
(* The log is a journal                                                     *)

\* What replay delivers of the segments that are not being written.
Kept == UNION {Readable(sealed[i].cells) : i \in DOMAIN sealed}

\* Operations are fresh, each is in one place, and what is excused is not
\* durable any more or is off the disk for good.
FreshInv ==
    /\ acked \union dying \subseteq 1 .. ops
    /\ durable \subseteq acked /\ excused \subseteq acked
    /\ pc # "idle" => cur \in 1 .. ops /\ cur \notin acked \union dying

PlaceInv ==
    /\ Kept \intersect Ops(accepted) = {}
    /\ excused \intersect Ops(accepted) = {}
    /\ durable \intersect excused \intersect Kept = {}

RInv == IInv /\ PhantomInv /\ FreshInv /\ PlaceInv

-----------------------------------------------------------------------------
(* What is kept, by the disk that is left.                                   *)
LEMMA KeptPhantom ==
    ASSUME PhantomInv
    PROVE  Kept \subseteq acked \union dying
  BY Zenon DEF PhantomInv, Kept

\* Everything a sequence of segments delivers.
Delivers(segs) == UNION {Readable(segs[i].cells) : i \in DOMAIN segs}

LEMMA DeliversIf ==
    ASSUME NEW segs, NEW op
    PROVE  op \in Delivers(segs) <=>
              \E i \in DOMAIN segs : op \in Readable(segs[i].cells)
  BY Zenon DEF Delivers

LEMMA KeptDelivers == Kept = Delivers(sealed) /\ Kept' = Delivers(sealed')
  BY DEF Kept, Delivers

(* One more segment delivers its own records on top.                         *)
LEMMA DeliversAppend ==
    ASSUME NEW segs \in Seq(Segment), NEW seg \in Segment
    PROVE  Delivers(Append(segs, seg)) = Delivers(segs) \union Readable(seg.cells)
  <1> DEFINE more == Append(segs, seg)
  <1>1. /\ Len(segs) + 1 \in DOMAIN more /\ more[Len(segs) + 1] = seg
        /\ \A i \in DOMAIN segs : i \in DOMAIN more /\ more[i] = segs[i]
        /\ \A i \in DOMAIN more : i \in DOMAIN segs \/ i = Len(segs) + 1
    BY AppendSegment
  <1> HIDE DEF more
  <1>2. ASSUME NEW op
        PROVE  op \in Delivers(more) <=> op \in Delivers(segs) \union Readable(seg.cells)
    <2>1. op \in Delivers(more) <=>
             \E i \in DOMAIN more : op \in Readable(more[i].cells)
      BY DeliversIf
    <2>2. op \in Delivers(segs) <=>
             \E i \in DOMAIN segs : op \in Readable(segs[i].cells)
      BY DeliversIf
    <2> QED BY <1>1, <2>1, <2>2
  <1>3. Delivers(more) = Delivers(segs) \union Readable(seg.cells)
    BY <1>2
  <1> QED BY <1>3 DEF more

(* Whole records are all delivered.                                          *)
LEMMA AcceptedReadable ==
    ASSUME IInv
    PROVE  Readable(accepted) = Ops(accepted)
  <1>1. accepted \in Seq(Cell) /\ \A j \in DOMAIN accepted : accepted[j].whole
    BY DEF IInv, TypeOK, ActiveInv
  <1>2. Ops(accepted) \subseteq Readable(accepted)
    BY <1>1, FrontReadable
  <1> QED BY <1>2, ReadableOps

(* The record in flight adds its operation, broken or not.                   *)
LEMMA OneMore ==
    ASSUME TypeOK,
           NEW c \in {Append(accepted, Record), Append(accepted, Torn(Record))}
    PROVE  /\ Ops(c) = Ops(accepted) \union {cur}
           /\ c \in Seq(Cell) /\ Len(accepted) <= Len(c)
           /\ \A j \in DOMAIN accepted : c[j] = accepted[j]
  <1>1. /\ accepted \in Seq(Cell) /\ Record \in Cell /\ Torn(Record) \in Cell
    BY RecordType DEF TypeOK
  <1>2. Record.op = cur /\ Torn(Record).op = cur
    BY DEF Record, Torn
  <1>3. PICK r \in Cell : c = Append(accepted, r) /\ r.op = cur
    BY <1>1, <1>2
  <1>4. /\ c \in Seq(Cell) /\ Len(accepted) <= Len(c)
        /\ \A j \in DOMAIN accepted : c[j] = accepted[j]
    BY <1>1, <1>3
  <1>5. Ops(c) = Ops(accepted) \union {cur}
    <2>1. 0 \in Nat /\ 0 <= Len(accepted)
      BY <1>1
    <2> QED BY <1>1, <1>3, <2>1, OpsAppend
  <1> QED BY <1>4, <1>5

(* The journal is what is kept and what was accepted since: the operation    *)
(* being written is the only other one a replay could deliver.               *)
LEMMA JournalIs ==
    ASSUME RInv
    PROVE  Recoverable \ {InFlight} = Kept \union Ops(accepted)
  <1>0. IInv /\ PhantomInv /\ FreshInv /\ TypeOK /\ ActiveInv
    BY DEF RInv, IInv
  <1>1. InFlight \notin Kept \union Ops(accepted)
    <2>1. Kept \union Ops(accepted) \subseteq acked \union dying
      BY <1>0, KeptPhantom DEF PhantomInv
    <2>2. InFlight \notin acked \union dying
      BY <1>0 DEF FreshInv, InFlight
    <2> QED BY <2>1, <2>2
  <1>2. Recoverable = Kept \union ActiveReadable
    BY DEF Recoverable, Kept
  <1>3. Readable(accepted) = Ops(accepted)
    BY <1>0, AcceptedReadable
  <1>4. CASE status # "open"
    <2>1. ActiveReadable = {} /\ Ops(accepted) = {}
      BY <1>0, <1>4 DEF ActiveReadable, ActiveInv, Ops
    <2> QED BY <1>1, <1>2, <2>1
  <1>5. CASE status = "open" /\ vanished
    <2>1. ActiveReadable = Ops(accepted)
      BY <1>3, <1>5 DEF ActiveReadable
    <2> QED BY <1>1, <1>2, <2>1
  <1>6. CASE status = "open" /\ ~vanished
    <2>1. ActiveReadable = Readable(file)
      BY <1>6 DEF ActiveReadable
    <2>2. /\ accepted \in Seq(Cell) /\ Record \in Cell /\ Torn(Record) \in Cell
          /\ file \in Seq(Cell)
          /\ \A j \in DOMAIN accepted : accepted[j].whole
      BY <1>0, RecordType DEF TypeOK, ActiveInv
    <2>4. pc \in {"idle", "prepare", "repair", "ack"}
      BY <1>0 DEF TypeOK
    <2>5. CASE file = accepted
      BY <1>1, <1>2, <1>3, <2>1, <2>5
    <2>6. CASE /\ pc # "idle"
               /\ file \in {Append(accepted, Record), Append(accepted, Torn(Record))}
      <3>1. Ops(file) = Ops(accepted) \union {cur} /\ cur = InFlight
        BY <1>0, <2>6, OneMore DEF InFlight
      <3>2. Len(accepted) <= Len(file)
            /\ \A j \in DOMAIN accepted : file[j] = accepted[j]
        BY <1>0, <2>6, OneMore
      <3>3. Ops(accepted) \subseteq Readable(file)
        BY <2>2, <3>2, FrontReadable
      <3>4. Readable(file) \subseteq Ops(accepted) \union {InFlight}
        BY <3>1, ReadableOps
      <3> QED BY <1>1, <1>2, <2>1, <3>3, <3>4
    <2> QED BY <1>0, <2>4, <2>5, <2>6 DEF ActiveInv
  <1> QED BY <1>0, <1>4, <1>5, <1>6 DEF TypeOK

(* What a process that dies leaves behind.                                   *)
LEMMA RemainsDeliver ==
    ASSUME RInv, NEW segs \in Remains
    PROVE  /\ vanished => Delivers(segs) = Kept
           /\ ~vanished => Kept \union Ops(accepted) \subseteq Delivers(segs)
           /\ Delivers(segs) \subseteq Kept \union Ops(accepted) \union Carried
           /\ vanished \in BOOLEAN
  <1>0. /\ IInv /\ TypeOK /\ ActiveInv /\ accepted \in Seq(Cell)
        /\ sealed \in Seq(Segment) /\ writer \in Nat /\ synced \in Nat
        /\ Record \in Cell /\ Torn(Record) \in Cell /\ vanished \in BOOLEAN
    BY RecordType DEF RInv, IInv, TypeOK
  <1>1. CASE vanished
    <2>1. segs = sealed
      BY <1>1 DEF Remains
    <2> QED BY <1>1, <2>1, KeptDelivers
  <1>2. CASE ~vanished
    <2>1. PICK c \in Seq(Cell) :
             /\ segs = Left(c)
             /\ \/ c = accepted
                \/ /\ pc # "idle"
                   /\ c \in {Append(accepted, Record), Append(accepted, Torn(Record))}
      BY <1>0, <1>2, RemainsShape
    <2> DEFINE seg == [inst |-> writer, cells |-> c, synced |-> synced]
    <2>2. seg \in Segment /\ seg.cells = c
      BY <1>0 DEF Segment
    <2>3. segs = Append(sealed, seg)
      BY <2>1 DEF Left
    <2> HIDE DEF seg
    <2>4. Delivers(segs) = Kept \union Readable(c)
      BY <1>0, <2>2, <2>3, DeliversAppend, KeptDelivers
    <2>6. Ops(c) \subseteq Ops(accepted) \union Carried
      BY <1>0, <2>1, OneMore DEF Carried
    <2>7. Ops(accepted) \subseteq Readable(c)
      <3>1. \A j \in DOMAIN accepted : accepted[j].whole
        BY <1>0 DEF ActiveInv
      <3>2. Len(accepted) <= Len(c) /\ \A j \in DOMAIN accepted : c[j] = accepted[j]
        <4>1. CASE c = accepted
          BY <1>0, <4>1
        <4>2. CASE c # accepted
          BY <1>0, <2>1, <4>2, OneMore
        <4> QED BY <4>1, <4>2
      <3> QED BY <1>0, <3>1, <3>2, FrontReadable
    <2>8. Readable(c) \subseteq Ops(accepted) \union Carried
      BY <2>6, ReadableOps
    <2> QED BY <1>0, <1>2, <2>4, <2>7, <2>8
  <1> QED BY <1>0, <1>1, <1>2

(* A power loss delivers less, but never loses what was fsynced.             *)
LEMMA CutDelivers ==
    ASSUME RInv, PowerLoss, TypeOK'
    PROVE  /\ Kept' \subseteq Kept \union Ops(accepted) \union Carried
           /\ vanished => Kept' \subseteq Kept
           /\ \A op \in durable \ excused :
                 op \in Kept' \/ (vanished /\ op \in Ops(accepted))
  <1>0. PICK segs \in Remains : \E torn \in BOOLEAN :
          \E keep \in [DOMAIN segs -> Lengths] :
          /\ \A i \in DOMAIN segs :
                keep[i] \in segs[i].synced .. Len(segs[i].cells)
          /\ sealed' = [i \in DOMAIN segs |-> CutTo(segs[i], keep[i], torn)]
    BY DEF PowerLoss
  <1>1. PICK torn \in BOOLEAN, keep \in [DOMAIN segs -> Lengths] :
          /\ \A i \in DOMAIN segs :
                keep[i] \in segs[i].synced .. Len(segs[i].cells)
          /\ sealed' = [i \in DOMAIN segs |-> CutTo(segs[i], keep[i], torn)]
    BY <1>0
  <1>2. /\ segs \in Seq(Segment) /\ \A i \in DOMAIN segs : SegInv(segs[i])
        /\ \A op \in durable \ excused :
              \/ \E i \in DOMAIN segs :
                    op \in OpsUpTo(segs[i].cells, segs[i].synced)
              \/ vanished /\ op \in Ops(accepted)
    BY RemainsKeep DEF RInv
  <1>3. DOMAIN sealed' = DOMAIN segs /\ sealed' \in Seq(Segment)
    BY <1>1 DEF TypeOK
  <1>4. ASSUME NEW i \in DOMAIN segs
        PROVE  /\ Readable(sealed'[i].cells) \subseteq Readable(segs[i].cells)
               /\ OpsUpTo(segs[i].cells, segs[i].synced)
                     \subseteq Readable(sealed'[i].cells)
    <2>1. /\ segs[i] \in Segment /\ segs[i].synced \in Nat
          /\ Len(segs[i].cells) \in Nat
      BY <1>2, BeforeType
    <2>2. keep[i] \in Nat /\ keep[i] <= Len(segs[i].cells)
          /\ keep[i] \in segs[i].synced .. Len(segs[i].cells)
      BY <1>1, <2>1
    <2>3. sealed'[i] = CutTo(segs[i], keep[i], torn)
      BY <1>1
    <2>4. Readable(sealed'[i].cells) \subseteq Readable(segs[i].cells)
      BY <2>1, <2>2, <2>3, CutAddsNothing
    <2>5. /\ SegInv(sealed'[i])
          /\ OpsUpTo(segs[i].cells, segs[i].synced) \subseteq
                OpsUpTo(sealed'[i].cells, sealed'[i].synced)
      BY <1>2, <2>1, <2>2, <2>3, CutKeeps
    <2>6. sealed'[i] \in Segment
      BY <1>3
    <2>7. OpsUpTo(sealed'[i].cells, sealed'[i].synced)
             \subseteq Readable(sealed'[i].cells)
      BY <2>5, <2>6, SyncedReadable
    <2> QED BY <2>4, <2>5, <2>7
  <1>5. Kept' \subseteq Delivers(segs)
    <2> SUFFICES ASSUME NEW op \in Kept' PROVE op \in Delivers(segs)
      OBVIOUS
    <2>1. PICK i \in DOMAIN sealed' : op \in Readable(sealed'[i].cells)
      BY KeptDelivers, DeliversIf
    <2> QED BY <1>3, <1>4, <2>1, DeliversIf
  <1>6. \A op \in durable \ excused :
           op \in Kept' \/ (vanished /\ op \in Ops(accepted))
    <2> SUFFICES ASSUME NEW op \in durable \ excused,
                        ~(vanished /\ op \in Ops(accepted))
                 PROVE  op \in Kept'
      OBVIOUS
    <2>1. PICK i \in DOMAIN segs : op \in OpsUpTo(segs[i].cells, segs[i].synced)
      BY <1>2
    <2>2. i \in DOMAIN sealed' /\ op \in Readable(sealed'[i].cells)
      BY <1>3, <1>4, <2>1
    <2> QED BY <2>2, KeptDelivers, DeliversIf
  <1>7. Delivers(segs) \subseteq Kept \union Ops(accepted) \union Carried
        /\ (vanished => Delivers(segs) = Kept)
    BY RemainsDeliver
  <1> QED BY <1>5, <1>6, <1>7

(* open() changes nothing of what replay delivers.                           *)
LEMMA ReopenDelivers ==
    ASSUME RInv, Reopen
    PROVE  Kept' = Kept
  <1>1. PICK good \in [DOMAIN sealed -> Lengths] :
          /\ \A i \in DOMAIN sealed : GoodOffset(sealed[i], good[i])
          /\ sealed' = [i \in DOMAIN sealed |-> Truncated(sealed[i], good[i])]
    BY DEF Reopen
  <1>0. sealed \in Seq(Segment)
    BY DEF RInv, IInv, TypeOK
  <1>2. \A i \in DOMAIN sealed : good[i] \in Nat /\ sealed[i] \in Segment
    BY <1>0, BoundsAssumption DEF Lengths
  <1>3. \A i \in DOMAIN sealed :
          Readable(sealed'[i].cells) = Readable(sealed[i].cells)
    BY <1>1, <1>2, TruncateAddsNothing
  <1>4. DOMAIN sealed' = DOMAIN sealed
    BY <1>1
  <1>5. ASSUME NEW op PROVE op \in Delivers(sealed') <=> op \in Delivers(sealed)
    BY <1>3, <1>4, DeliversIf
  <1> QED BY <1>5, KeptDelivers

-----------------------------------------------------------------------------
(* Operations stay fresh.                                                    *)
LEMMA FreshStep ==
    ASSUME IInv, PhantomInv, FreshInv, [Next]_vars
    PROVE  FreshInv'
  <1>0. /\ acked \union dying \subseteq 1 .. ops
        /\ durable \subseteq acked /\ excused \subseteq acked
        /\ pc # "idle" => cur \in 1 .. ops /\ cur \notin acked \union dying
        /\ Ops(accepted) \subseteq acked /\ ops \in Nat
    BY DEF FreshInv, PhantomInv, IInv, TypeOK
  <1>1. CASE AppendStart
    <2>1. /\ ops' = ops + 1 /\ cur' = ops + 1
          /\ UNCHANGED <<acked, dying, durable, excused>>
      BY <1>1 DEF AppendStart, hist
    <2>2. 1 .. ops \subseteq 1 .. ops' /\ cur' \in 1 .. ops' /\ cur' \notin 1 .. ops
      BY <1>0, <2>1
    <2> QED BY <1>0, <2>1, <2>2 DEF FreshInv
  <1>2. CASE AppendAck
    <2>1. /\ acked' = acked \union {cur} /\ pc' = "idle" /\ pc # "idle"
          /\ UNCHANGED <<ops, dying, durable, excused>>
      BY <1>2 DEF AppendAck
    <2> QED BY <1>0, <2>1 DEF FreshInv
  <1>3. CASE Rotate \/ Sync
    <2>1. /\ durable' = durable \union Ops(accepted)
          /\ UNCHANGED <<ops, acked, dying, excused, pc, cur>>
      BY <1>3 DEF Rotate, Sync
    <2> QED BY <1>0, <2>1 DEF FreshInv
  <1>4. CASE Kill \/ PowerLoss
    <2>1. PICK lost : Death(lost) /\ lost \subseteq acked
      BY <1>4 DEF Kill, PowerLoss
    <2>2. /\ pc' = "idle" /\ UNCHANGED <<ops, acked, durable>>
          /\ excused' \subseteq excused \union lost \union Ops(accepted)
          /\ dying' = IF pc = "idle" THEN dying ELSE dying \union {cur}
      BY <2>1 DEF Death
    <2> QED BY <1>0, <2>1, <2>2 DEF FreshInv
  <1>5. ASSUME Next \/ UNCHANGED vars,
               ~(AppendStart \/ AppendAck \/ Rotate \/ Sync \/ Kill \/ PowerLoss)
        PROVE  FreshInv'
    <2>1. /\ UNCHANGED <<ops, acked, dying, durable, excused, cur>>
          /\ pc' # "idle" => pc # "idle"
      BY <1>5 DEF Next, AppendRuns, AppendRecover, AppendRefused,
         AppendWedged, WriteRecord, WriteFault, Repair, RepairFails,
         FlushBuf, Vanish, Reopen, ReopenFails, vars, hist
    <2> QED BY <1>0, <2>1 DEF FreshInv
  <1> QED BY <1>1, <1>2, <1>3, <1>4, <1>5

(* Rotation keeps what was accepted.                                         *)
LEMMA RotateDelivers ==
    ASSUME IInv, Rotate
    PROVE  Kept' = Kept \union Ops(accepted) /\ Ops(accepted)' = {}
  <1>0. /\ TypeOK /\ ActiveInv /\ accepted \in Seq(Cell)
        /\ sealed \in Seq(Segment) /\ writer \in Nat
    BY DEF IInv, TypeOK
  <1> DEFINE seg == [inst |-> writer, cells |-> accepted,
                     synced |-> Len(accepted)]
  <1>1. file \o leftover = accepted
    BY <1>0 DEF Rotate, ActiveInv
  <1>2. sealed' = Append(sealed, seg) /\ accepted' = <<>>
    BY <1>1 DEF Rotate
  <1>3. seg \in Segment /\ seg.cells = accepted
    BY <1>0 DEF Segment
  <1> HIDE DEF seg
  <1>4. Delivers(sealed') = Delivers(sealed) \union Ops(accepted)
    BY <1>0, <1>2, <1>3, DeliversAppend, AcceptedReadable
  <1> QED BY <1>2, <1>4, KeptDelivers DEF Ops

(* AppendAck adds one operation to what was accepted.                        *)
LEMMA AckDelivers ==
    ASSUME TypeOK, AppendAck
    PROVE  Kept' = Kept /\ Ops(accepted)' = Ops(accepted) \union {cur}
  <1>1. accepted' = Append(accepted, Record) /\ sealed' = sealed
    BY DEF AppendAck
  <1>2. Ops(accepted') = Ops(accepted) \union {cur}
    BY <1>1, OneMore
  <1> QED BY <1>1, <1>2, KeptDelivers

(* Steps that leave the sealed segments and accepted_prefix alone.           *)
LEMMA SameDelivers ==
    ASSUME UNCHANGED <<sealed, accepted>>
    PROVE  Kept' = Kept /\ Ops(accepted)' = Ops(accepted)
  BY DEF Kept

(* An operation is on disk once, and excused only when it may be gone.       *)
LEMMA PlaceStep ==
    ASSUME RInv, TypeOK', [Next]_vars
    PROVE  PlaceInv'
  <1>0. /\ Kept \intersect Ops(accepted) = {}
        /\ excused \intersect Ops(accepted) = {}
        /\ durable \intersect excused \intersect Kept = {}
        /\ IInv /\ PhantomInv /\ FreshInv /\ TypeOK
    BY DEF RInv, PlaceInv, IInv
  <1>f. /\ durable \subseteq acked /\ excused \subseteq acked
        /\ pc # "idle" => cur \notin acked \union dying
        /\ Ops(accepted) \subseteq acked /\ Kept \subseteq acked \union dying
    BY <1>0, KeptPhantom DEF FreshInv, PhantomInv
  <1>1. CASE UNCHANGED <<sealed, accepted, excused, durable>>
    BY <1>0, <1>1, SameDelivers DEF PlaceInv
  <1>2. CASE Rotate
    <2>1. Kept' = Kept \union Ops(accepted) /\ Ops(accepted)' = {}
      BY <1>0, <1>2, RotateDelivers
    <2>2. durable' = durable \union Ops(accepted) /\ excused' = excused
      BY <1>2 DEF Rotate
    <2> QED BY <1>0, <2>1, <2>2 DEF PlaceInv
  <1>3. CASE AppendAck
    <2>1. Kept' = Kept /\ Ops(accepted)' = Ops(accepted) \union {cur}
      BY <1>0, <1>3, AckDelivers
    <2>2. durable' = durable /\ excused' = excused /\ pc # "idle"
      BY <1>3 DEF AppendAck
    <2> QED BY <1>0, <1>f, <2>1, <2>2 DEF PlaceInv
  <1>4. CASE Sync
    <2>1. Kept' = Kept /\ Ops(accepted)' = Ops(accepted)
      BY <1>4, SameDelivers DEF Sync
    <2>2. durable' = durable \union Ops(accepted) /\ excused' = excused
      BY <1>4 DEF Sync
    <2> QED BY <1>0, <2>1, <2>2 DEF PlaceInv
  <1>5. CASE Kill \/ PowerLoss
    <2>1. PICK lost : Death(lost) /\ lost \subseteq acked
                      /\ lost \intersect durable = {}
      BY <1>5 DEF Kill, PowerLoss
    <2>2. /\ accepted' = <<>> /\ durable' = durable
          /\ excused' = excused \union lost
                         \union (IF vanished THEN Ops(accepted) ELSE {})
      BY <2>1 DEF Death
    <2>3. Ops(accepted)' = {}
      BY <2>2 DEF Ops
    <2>4. /\ Kept' \subseteq Kept \union Ops(accepted) \union Carried
          /\ vanished => Kept' \subseteq Kept
      <3>1. CASE Kill
        <4>1. sealed' \in Remains
          BY <3>1 DEF Kill
        <4>2. /\ Delivers(sealed') \subseteq Kept \union Ops(accepted) \union Carried
              /\ vanished => Delivers(sealed') = Kept
          BY <4>1, RemainsDeliver
        <4> QED BY <4>2, KeptDelivers
      <3>2. CASE PowerLoss
        BY <3>2, CutDelivers
      <3> QED BY <1>5, <3>1, <3>2
    <2>5. Carried \intersect durable = {}
      BY <1>f DEF Carried
    <2>6. durable' \intersect excused' \intersect Kept' = {}
      <3>1. CASE vanished
        BY <1>0, <2>1, <2>2, <2>4, <3>1
      <3>2. CASE ~vanished
        BY <1>0, <2>1, <2>2, <2>4, <2>5, <3>2
      <3> QED BY <3>1, <3>2
    <2> QED BY <2>3, <2>6 DEF PlaceInv
  <1>6. CASE Reopen
    <2>1. Kept' = Kept
      BY <1>6, ReopenDelivers
    <2>2. UNCHANGED <<accepted, excused, durable>>
      BY <1>6 DEF Reopen, hist
    <2> QED BY <1>0, <2>1, <2>2 DEF PlaceInv
  <1>7. ASSUME Next \/ UNCHANGED vars,
               ~(Rotate \/ AppendAck \/ Sync \/ Kill \/ PowerLoss \/ Reopen)
        PROVE  UNCHANGED <<sealed, accepted, excused, durable>>
    BY <1>7 DEF Next, AppendRuns, AppendStart, AppendRecover, AppendRefused,
       AppendWedged, WriteRecord, WriteFault, Repair, RepairFails, FlushBuf,
       Vanish, ReopenFails, vars, log, hist
  <1> QED BY <1>1, <1>2, <1>3, <1>4, <1>5, <1>6, <1>7

LEMMA RInvStep ==
    ASSUME MaxDoubleFaults = 0, RInv, [Next]_vars
    PROVE  RInv'
  <1>1. IInv' /\ PhantomInv' /\ FreshInv'
    BY InvStep, PhantomStep, FreshStep DEF RInv
  <1>2. TypeOK'
    BY <1>1 DEF IInv
  <1> QED BY <1>1, <1>2, PlaceStep DEF RInv

LEMMA RInvInit ==
    ASSUME Init
    PROVE  RInv
  <1>1. IInv
    BY InvInit
  <1>2. Kept = {} /\ Ops(accepted) = {}
    <2>1. DOMAIN sealed = {} /\ accepted = <<>>
      BY DEF Init
    <2>2. \A op : op \notin Kept
      BY <2>1, DeliversIf, KeptDelivers
    <2> QED BY <2>1, <2>2 DEF Ops
  <1>3. PhantomInv /\ FreshInv /\ PlaceInv
    BY <1>2 DEF Init, PhantomInv, FreshInv, PlaceInv
  <1> QED BY <1>1, <1>3 DEF RInv

-----------------------------------------------------------------------------
\* The journal of the abstract specification.
Delivered == Recoverable \ {InFlight}
AtRisk    == IF vanished THEN Ops(accepted) ELSE {}

(* JournalIs in the state after a step.                                      *)
LEMMA JournalIsNext == RInv' => Delivered' = Kept' \union Ops(accepted)'
  <1>1. RInv => Delivered = Kept \union Ops(accepted)
    BY JournalIs DEF Delivered
  <1>2. (RInv => Delivered = Kept \union Ops(accepted))'
    BY <1>1, PTL
  <1> QED BY <1>2

(* Every step of the log is a step of the journal, or none that shows.       *)
LEMMA JournalStep ==
    ASSUME MaxDoubleFaults = 0, RInv, [Next]_vars
    PROVE  [Abstract!Next]_(Abstract!vars)
  <1>0. /\ RInv' /\ IInv /\ TypeOK /\ ActiveInv /\ FreshInv /\ PlaceInv
        /\ doubles = 0
    BY RInvStep DEF RInv, IInv
  <1>t. TypeOK' /\ status' # "fatal"
    BY <1>0 DEF RInv, IInv
  <1>j. Delivered = Kept \union Ops(accepted)
    BY JournalIs DEF Delivered
  <1>n. Delivered' = Kept' \union Ops(accepted)'
    BY <1>0, JournalIsNext
  <1>v. vanished \in BOOLEAN /\ cur \in Nat
    BY <1>0 DEF TypeOK
  <1>f. pc # "idle" => cur # 0 /\ InFlight = cur
    BY <1>0 DEF FreshInv, InFlight
  <1>i. pc = "idle" => InFlight = 0
    BY DEF InFlight
  (* Steps that keep the disk and accepted_prefix as they are.               *)
  <1>s. UNCHANGED <<sealed, accepted>> => UNCHANGED Delivered
                                          /\ Ops(accepted)' = Ops(accepted)
    BY <1>j, <1>n, SameDelivers
  <1> USE DEF AtRisk
  <1>1. CASE AppendStart
    <2>1. /\ status = "open" /\ status' = "open" /\ pc = "idle"
          /\ ops' = ops + 1 /\ InFlight' = ops + 1
          /\ UNCHANGED <<sealed, accepted, vanished, durable, losses>>
      BY <1>1 DEF AppendStart, log, hist, budget, InFlight
    <2>2. UNCHANGED <<Delivered, AtRisk>>
      BY <1>s, <2>1
    <2>3. Abstract!Submit
      BY <1>i, <2>1, <2>2 DEF Abstract!Submit, Delivered, AtRisk
    <2> QED BY <2>3 DEF Abstract!Next
  <1>2. CASE AppendRecover \/ Repair
    <2>1. /\ status = "open" /\ status' = "open" /\ vanished' = FALSE
          /\ InFlight' = InFlight
          /\ UNCHANGED <<sealed, accepted, ops, durable, losses>>
      BY <1>2 DEF AppendRecover, Repair, Recovered, hist, budget, InFlight
    <2>2. UNCHANGED Delivered /\ AtRisk' = {}
      BY <1>s, <2>1
    <2>3. Abstract!Rescue
      BY <2>1, <2>2 DEF Abstract!Rescue, Delivered, AtRisk
    <2> QED BY <2>3 DEF Abstract!Next
  <1>3. CASE Rotate
    <2>1. /\ status = "open" /\ status' = "open" /\ ~vanished /\ ~vanished'
          /\ InFlight' = InFlight
          /\ durable' = durable \union Ops(accepted)
          /\ UNCHANGED <<ops, losses>>
      BY <1>3 DEF Rotate, budget, InFlight
    <2>2. UNCHANGED Delivered /\ Ops(accepted) \subseteq Delivered
      BY <1>0, <1>3, <1>j, <1>n, RotateDelivers
    <2>3. AtRisk' = AtRisk
      BY <2>1
    <2>4. Abstract!Persist
      BY <2>1, <2>2, <2>3 DEF Abstract!Persist, Delivered, AtRisk
    <2> QED BY <2>4 DEF Abstract!Next
  <1>4. CASE AppendRefused \/ AppendWedged
    <2>1. /\ status = "open" /\ status' = "open" /\ pc # "idle"
          /\ InFlight' = 0
          /\ UNCHANGED <<sealed, accepted, ops, vanished, durable, losses>>
      BY <1>4 DEF AppendRefused, AppendWedged, log, hist, budget, InFlight
    <2>2. UNCHANGED <<Delivered, AtRisk>>
      BY <1>s, <2>1
    <2>3. Abstract!Refuse
      BY <1>f, <2>1, <2>2 DEF Abstract!Refuse, Delivered, AtRisk
    <2> QED BY <2>3 DEF Abstract!Next
  <1>5. CASE WriteRecord \/ WriteFault \/ UNCHANGED vars
    <2>1. /\ InFlight' = InFlight
          /\ UNCHANGED <<status, sealed, accepted, ops, vanished, durable,
                         losses>>
      BY <1>5 DEF WriteRecord, WriteFault, vars, log, hist, budget, InFlight
    <2>2. UNCHANGED <<Delivered, AtRisk>>
      BY <1>s, <2>1
    <2> QED BY <2>1, <2>2 DEF Abstract!vars, Delivered, AtRisk
  <1>6. CASE RepairFails
    BY <1>0, <1>6 DEF RepairFails
  <1>7. CASE AppendAck
    <2>1. /\ status = "open" /\ status' = "open" /\ pc # "idle"
          /\ InFlight' = 0
          /\ UNCHANGED <<ops, vanished, durable, losses>>
      BY <1>7 DEF AppendAck, budget, InFlight
    <2>2. Kept' = Kept /\ Ops(accepted)' = Ops(accepted) \union {cur}
      BY <1>0, <1>7, AckDelivers
    <2>3. Delivered' = Delivered \union {InFlight}
      BY <1>f, <1>j, <1>n, <2>1, <2>2
    <2>4. AtRisk' \in {AtRisk, AtRisk \union {InFlight}}
      BY <1>f, <2>1, <2>2
    <2>5. Abstract!Accept
      BY <1>f, <2>1, <2>3, <2>4 DEF Abstract!Accept, Delivered, AtRisk
    <2> QED BY <2>5 DEF Abstract!Next
  <1>8. CASE Sync
    <2>1. /\ status = "open" /\ status' = "open"
          /\ InFlight' = InFlight /\ ~vanished'
          /\ durable' = durable \union Ops(accepted)
          /\ UNCHANGED <<sealed, accepted, ops, losses>>
      BY <1>8, <1>v DEF Sync, Recovered, InFlight
    <2>2. UNCHANGED Delivered /\ Ops(accepted) \subseteq Delivered
          /\ AtRisk' = {}
      BY <1>j, <1>s, <2>1
    <2>3. Abstract!Persist
      BY <2>1, <2>2 DEF Abstract!Persist, Delivered, AtRisk
    <2> QED BY <2>3 DEF Abstract!Next
  <1>9. CASE FlushBuf
    BY <1>0, <1>9 DEF FlushBuf, ActiveInv
  <1>10. CASE Vanish
    <2>1. /\ status = "open" /\ status' = "open" /\ ~vanished /\ vanished'
          /\ InFlight' = InFlight
          /\ UNCHANGED <<sealed, accepted, ops, durable, losses>>
      BY <1>10 DEF Vanish, hist, InFlight
    <2>2. UNCHANGED Delivered /\ AtRisk = {} /\ AtRisk' \subseteq Delivered
      BY <1>j, <1>s, <2>1
    <2>3. Abstract!Endanger
      BY <2>1, <2>2 DEF Abstract!Endanger, Delivered, AtRisk
    <2> QED BY <2>3 DEF Abstract!Next
  <1>d. ASSUME NEW lost, Death(lost), status = "open",
               Kept' \subseteq Delivered \union Carried
        PROVE  /\ status' # "open" /\ InFlight' = 0 /\ AtRisk' = {}
               /\ Delivered' = Kept' /\ Delivered' \subseteq Delivered \union {InFlight}
               /\ UNCHANGED <<ops, durable>>
    <2>1. /\ status' = "down" /\ pc' = "idle" /\ accepted' = <<>>
          /\ vanished' = FALSE /\ UNCHANGED <<ops, durable>>
      BY <1>d DEF Death
    <2>2. Ops(accepted)' = {}
      BY <2>1 DEF Ops
    <2>3. Carried \subseteq {InFlight}
      BY DEF Carried, InFlight
    <2> QED BY <1>d, <1>n, <2>1, <2>2, <2>3 DEF InFlight
  <1>11. CASE Kill
    <2>1. status = "open" /\ Death({}) /\ losses' = losses /\ sealed' \in Remains
      BY <1>11 DEF Kill
    <2>2. /\ vanished => Kept' = Kept
          /\ ~vanished => Kept \union Ops(accepted) \subseteq Kept'
          /\ Kept' \subseteq Kept \union Ops(accepted) \union Carried
      BY <2>1, RemainsDeliver, KeptDelivers
    <2>3. /\ status' # "open" /\ InFlight' = 0 /\ AtRisk' = {}
          /\ Delivered' = Kept' /\ Delivered' \subseteq Delivered \union {InFlight}
          /\ UNCHANGED <<ops, durable>>
      BY <1>d, <1>j, <2>1, <2>2
    <2>4. Delivered \ AtRisk \subseteq Delivered'
      BY <1>j, <1>v, <2>2, <2>3
    <2>5. Abstract!Kill
      BY <2>1, <2>3, <2>4 DEF Abstract!Kill, Abstract!Dies, Delivered, AtRisk
    <2> QED BY <2>5 DEF Abstract!Next
  <1>12. CASE PowerLoss
    <2>1. status = "open" /\ Death(acked \ durable) /\ losses' = losses + 1
      BY <1>12 DEF PowerLoss
    <2>2. /\ Kept' \subseteq Kept \union Ops(accepted) \union Carried
          /\ \A op \in durable \ excused :
                op \in Kept' \/ (vanished /\ op \in Ops(accepted))
      BY <1>12, <1>t, CutDelivers
    <2>3. /\ status' # "open" /\ InFlight' = 0 /\ AtRisk' = {}
          /\ Delivered' = Kept' /\ Delivered' \subseteq Delivered \union {InFlight}
          /\ UNCHANGED <<ops, durable>>
      BY <1>d, <1>j, <2>1, <2>2
    <2>4. Delivered \ (AtRisk \union (Delivered \ durable)) \subseteq Delivered'
      <3> SUFFICES ASSUME NEW op \in Delivered, op \notin AtRisk, op \in durable
                   PROVE  op \in Kept'
        BY <2>3
      <3>1. op \notin excused
        BY <1>0, <1>j DEF PlaceInv
      <3> QED BY <2>2, <3>1
    <2>5. Abstract!PowerLoss
      BY <2>1, <2>3, <2>4 DEF Abstract!PowerLoss, Abstract!Dies, Delivered, AtRisk
    <2> QED BY <2>5 DEF Abstract!Next
  <1>13. CASE Reopen
    <2>1. /\ status = "down" /\ status' = "open"
          /\ InFlight' = InFlight
          /\ UNCHANGED <<accepted, ops, vanished, durable, losses>>
      BY <1>13 DEF Reopen, hist, budget, InFlight
    <2>2. Kept' = Kept
      BY <1>13, ReopenDelivers
    <2>3. UNCHANGED <<Delivered, AtRisk>>
      BY <1>j, <1>n, <2>1, <2>2
    <2>4. Abstract!Reopen
      BY <2>1, <2>3 DEF Abstract!Reopen, Delivered, AtRisk
    <2> QED BY <2>4 DEF Abstract!Next
  <1>14. CASE ReopenFails
    BY <1>t, <1>14 DEF ReopenFails
  <1> QED
    BY <1>1, <1>2, <1>3, <1>4, <1>5, <1>6, <1>7, <1>8, <1>9, <1>10, <1>11,
       <1>12, <1>13, <1>14 DEF Next, AppendRuns

LEMMA JournalInit ==
    ASSUME Init
    PROVE  Abstract!Init
  <1>1. RInv
    BY RInvInit
  <1>2. Recoverable \ {InFlight} = Kept \union Ops(accepted)
    BY <1>1, JournalIs
  <1>3. Kept = {} /\ Ops(accepted) = {}
    <2>1. DOMAIN sealed = {} /\ accepted = <<>>
      BY DEF Init
    <2>2. \A op : op \notin Kept
      BY <2>1, DeliversIf, KeptDelivers
    <2> QED BY <2>1, <2>2 DEF Ops
  <1> QED BY <1>2, <1>3 DEF Init, Abstract!Init, InFlight

(* The log with its segments, buffers, rotations, recoveries and torn tails  *)
(* is a journal to its callers, for any number of operations, single faults, *)
(* deleted segments, kills and power losses (append, sync, flush_buf and     *)
(* open of log.rs).                                                          *)
THEOREM LogIsJournal ==
    ASSUME MaxDoubleFaults = 0
    PROVE  Spec => ImplementsJournal
  <1>1. Init => RInv /\ Abstract!Init
    BY RInvInit, JournalInit
  <1>2. RInv /\ [Next]_vars => RInv'
    BY RInvStep
  <1>3. RInv /\ [Next]_vars => [Abstract!Next]_(Abstract!vars)
    BY JournalStep
  <1> QED BY <1>1, <1>2, <1>3, PTL DEF Spec, ImplementsJournal, Abstract!Spec
=============================================================================
