------------------------------ MODULE OrganLog ------------------------------
(***************************************************************************)
(* What every organ shares: its RAM image, and the image that open() would *)
(* rebuild from the newest full snapshot and the log records after it.     *)
(*                                                                         *)
(* An operation changes the organ and hands its records to the log one by  *)
(* one.  `todo' holds the records that are still to be appended.  Instead  *)
(* of the log itself the module keeps `wal', the fold of the replay arm    *)
(* over what has been appended; Restart makes it the RAM image.  `gap' is  *)
(* raised when RAM is known to be ahead of that image: an append failed    *)
(* after the organ had changed, or a full snapshot was saved whose body    *)
(* has no section for (all of) the organ, while replay skips the records   *)
(* the snapshot covers.                                                    *)
(***************************************************************************)
EXTENDS Naturals, Sequences

CONSTANTS Empty,          \* the organ that new() returns
          Replay(_, _),   \* the organ after one record is replayed
          Body(_)         \* what a full snapshot's body restores of an organ

VARIABLES ram, wal, todo, gap

Idle == todo = <<>>

LogInit == ram = Empty /\ wal = Empty /\ todo = <<>> /\ gap = FALSE

(* self.log.write().append(&op)?: the record is on disk. *)
Logged ==
  /\ ~Idle
  /\ wal' = Replay(wal, Head(todo))
  /\ todo' = Tail(todo)
  /\ UNCHANGED <<ram, gap>>

(* The append returns Err and `?' leaves the operation. *)
LogFails ==
  /\ ~Idle
  /\ todo' = <<>>
  /\ gap' = TRUE
  /\ UNCHANGED <<ram, wal>>

(* save_full_snapshot: the body replaces the records it covers. *)
Checkpoint ==
  /\ Idle
  /\ wal' = Body(ram)
  /\ gap' = (Body(ram) # ram)
  /\ UNCHANGED <<ram, todo>>

(* The process dies at any point and open() rebuilds the organ. *)
Restart ==
  /\ ram' = wal
  /\ todo' = <<>>
  /\ gap' = FALSE
  /\ UNCHANGED wal

LogNext == Logged \/ LogFails \/ Checkpoint \/ Restart

(* Nothing is in flight and nothing is known to be missing from the log. *)
Settled == Idle /\ ~gap
=============================================================================
