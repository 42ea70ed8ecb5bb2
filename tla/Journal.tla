------------------------------ MODULE Journal -------------------------------
(***************************************************************************)
(* What the write-ahead log promises its callers (OpLog::append, sync and  *)
(* open in src/log.rs), without segments, buffers, rotation and recovery:  *)
(* a set of operations that the next replay delivers.  OpLog implements    *)
(* it as long as no failed write meets a failed repair.                    *)
(***************************************************************************)
EXTENDS Naturals

VARIABLES
    up,       \* a process has the log open
    seen,     \* operations submitted so far; operation n is the n-th
    asked,    \* the operation append() has not answered yet, 0 if none
    journal,  \* what a replay delivers, apart from that one
    firm,     \* what sync() has returned for
    risk,     \* what hangs on a file that somebody else deleted
    outages   \* power losses so far

vars == <<up, seen, asked, journal, firm, risk, outages>>

Init ==
    /\ up = TRUE /\ seen = 0 /\ asked = 0 /\ outages = 0
    /\ journal = {} /\ firm = {} /\ risk = {}

Submit ==
    /\ up /\ asked = 0
    /\ seen' = seen + 1 /\ asked' = seen + 1
    /\ UNCHANGED <<up, journal, firm, risk, outages>>

(* append() returns Ok: the operation is in the journal, and nothing else is *)
(* added or lost.                                                            *)
Accept ==
    /\ up /\ asked # 0
    /\ journal' = journal \union {asked}
    /\ asked' = 0
    /\ risk' \in {risk, risk \union {asked}}
    /\ UNCHANGED <<up, seen, firm, outages>>

(* append() returns Err: the operation is not in the journal.                *)
Refuse ==
    /\ up /\ asked # 0
    /\ asked' = 0
    /\ UNCHANGED <<up, seen, journal, firm, risk, outages>>

(* sync() returns, or append() has rotated the segment.                      *)
Persist ==
    /\ up
    /\ firm \subseteq firm' /\ firm' \subseteq firm \union journal
    /\ risk' \in {risk, {}}
    /\ UNCHANGED <<up, seen, asked, journal, outages>>

(* The active segment is unlinked by somebody; recover_segment writes it     *)
(* back.                                                                     *)
Endanger ==
    /\ up /\ risk = {}
    /\ risk' \subseteq journal
    /\ UNCHANGED <<up, seen, asked, journal, firm, outages>>

Rescue ==
    /\ up
    /\ risk' = {}
    /\ UNCHANGED <<up, seen, asked, journal, firm, outages>>

(* The process dies: the operation in flight may be in the journal or not,   *)
(* and of the others some of `lost' are gone.                                *)
Dies(lost) ==
    /\ up
    /\ up' = FALSE /\ asked' = 0 /\ risk' = {}
    /\ journal \ lost \subseteq journal'
    /\ journal' \subseteq journal \union {asked}
    /\ UNCHANGED <<seen, firm>>

Kill      == Dies(risk) /\ UNCHANGED outages
PowerLoss == Dies(risk \union (journal \ firm)) /\ outages' = outages + 1

(* open() delivers the journal as it is.                                     *)
Reopen ==
    /\ ~up /\ up' = TRUE
    /\ UNCHANGED <<seen, asked, journal, firm, risk, outages>>

Next ==
    \/ Submit \/ Accept \/ Refuse \/ Persist \/ Endanger \/ Rescue
    \/ Kill \/ PowerLoss \/ Reopen

Spec == Init /\ [][Next]_vars
=============================================================================
