------------------------------ MODULE Triggers ------------------------------
(***************************************************************************)
(* Prospective triggers: armed, then fired once or dismissed.  A firing    *)
(* counts as delivered when the call that fired it returns its FireResult, *)
(* which is after the append; evaluate_triggers collects the results of a  *)
(* sweep and loses all of them when one append fails.                      *)
(***************************************************************************)
EXTENDS Integers, Sequences, FiniteSetsExt, SequencesExt

CONSTANTS MaxTriggers, MaxNow

VARIABLES ram, wal, todo, gap, env

(* triggers by id, with next_id. *)
Empty == [triggers |-> <<>>, next |-> 1]

(* due: the deadline, or the TimeAfter condition; tense: its tension is at its
   threshold too, so that a TimeAfter trigger is listed twice; serial: which
   trigger of the store's history it is, for ids are used again when an add
   was not logged. *)
NewTrigger(due, tense, serial) ==
  [due |-> due, tense |-> tense, status |-> "armed", serial |-> serial]

(* HashMap::insert, and next_id above every id. *)
Insert(s, i, trigger) ==
  [triggers |-> [j \in DOMAIN s.triggers \cup {i} |->
                   IF j = i THEN trigger ELSE s.triggers[j]],
   next |-> Max({s.next, i + 1})]

(* replay_update_status sets the status whatever it was. *)
Replay(s, op) ==
  CASE op.op = "add" -> Insert(s, op.id, op.trigger)
    [] op.op = "status" /\ op.id \in DOMAIN s.triggers ->
         [s EXCEPT !.triggers[op.id].status = op.status]
    [] OTHER -> s

(* The full snapshot's body has no section for this organ. *)
Body(s) == Empty

Log == INSTANCE OrganLog

vars == <<ram, wal, todo, gap, env>>

(* sweep: what evaluate_triggers still has to fire; batch: the results that
   the running call holds back; delivered: how often each trigger's result
   reached a caller. *)
Init ==
  /\ Log!LogInit
  /\ env = [now |-> 0, added |-> 0, batch |-> {}, sweep |-> <<>>,
            delivered |-> [n \in 1..MaxTriggers |-> 0]]

(* No call is running: the daemon's lock serialises them. *)
Resting == Log!Idle /\ env.sweep = <<>> /\ env.batch = {}

AddTrigger(due, tense) ==
  LET trigger == NewTrigger(due, tense, env.added + 1)
  IN  /\ Resting
      /\ env.added < MaxTriggers
      /\ ram' = Insert(ram, ram.next, trigger)
      /\ todo' = <<[op |-> "add", id |-> ram.next, trigger |-> trigger]>>
      /\ env' = [env EXCEPT !.added = @ + 1]
      /\ UNCHANGED <<wal, gap>>

Armed(i) == i \in DOMAIN ram.triggers /\ ram.triggers[i].status = "armed"

(* Mutant: no test that the trigger is armed. *)
SetStatusAnyway(i, status) ==
  /\ ram' = [ram EXCEPT !.triggers[i].status = status]
  /\ todo' = <<[op |-> "status", id |-> i, status |-> status]>>
  /\ UNCHANGED <<wal, gap>>

SetStatus(i, status) ==
  /\ Armed(i)
  /\ ram' = [ram EXCEPT !.triggers[i].status = status]
  /\ todo' = <<[op |-> "status", id |-> i, status |-> status]>>
  /\ UNCHANGED <<wal, gap>>

(* TriggerStore::fire under the store's lock, then the record. *)
FireTrigger(i) ==
  /\ Resting
  /\ SetStatus(i, "fired")
  /\ env' = [env EXCEPT !.batch = {ram.triggers[i].serial}]

DismissTrigger(i) ==
  /\ Resting
  /\ SetStatus(i, "expired")
  /\ UNCHANGED env

(* evaluate_time_triggers lists a trigger once per test that holds. *)
Ready ==
  LET ids == SetToSortSeq({i \in DOMAIN ram.triggers :
                             Armed(i) /\ env.now >= ram.triggers[i].due}, <)
  IN  FlattenSeq([k \in DOMAIN ids |->
        IF ram.triggers[ids[k]].tense THEN <<ids[k], ids[k]>> ELSE <<ids[k]>>])

EvaluateTriggers ==
  /\ Resting
  /\ Ready # <<>>
  /\ env' = [env EXCEPT !.sweep = Ready]
  /\ UNCHANGED <<ram, wal, todo, gap>>

(* The sweep's next id: fire() answers None for what is no longer armed. *)
SweepNext ==
  /\ Log!Idle
  /\ env.sweep # <<>>
  /\ LET i == Head(env.sweep)
     IN  \/ /\ SetStatus(i, "fired")
            /\ env' = [env EXCEPT !.sweep = Tail(@),
                                  !.batch = @ \cup {ram.triggers[i].serial}]
         \/ /\ ~Armed(i)
            /\ env' = [env EXCEPT !.sweep = Tail(@)]
            /\ UNCHANGED <<ram, wal, todo, gap>>

(* The call returns: the results reach the caller. *)
Return ==
  /\ Log!Idle
  /\ env.sweep = <<>>
  /\ env.batch # {}
  /\ env' = [env EXCEPT
               !.delivered = [n \in DOMAIN @ |->
                                @[n] + IF n \in env.batch THEN 1 ELSE 0],
               !.batch = {}]
  /\ UNCHANGED <<ram, wal, todo, gap>>

(* `?' leaves the call, and the sweep's earlier results with it. *)
AppendFails == Log!LogFails /\ env' = [env EXCEPT !.sweep = <<>>, !.batch = {}]

TimePasses ==
  /\ env.now < MaxNow
  /\ env' = [env EXCEPT !.now = @ + 1]
  /\ UNCHANGED <<ram, wal, todo, gap>>

Reopen == Log!Restart /\ env' = [env EXCEPT !.sweep = <<>>, !.batch = {}]

Next ==
  \/ \E due \in 1..MaxNow, tense \in BOOLEAN : AddTrigger(due, tense)
  \/ \E i \in DOMAIN ram.triggers : FireTrigger(i) \/ DismissTrigger(i)
  \/ EvaluateTriggers
  \/ SweepNext
  \/ Return
  \/ AppendFails
  \/ TimePasses
  \/ Reopen
  \/ Log!Logged /\ UNCHANGED env
  \/ Resting /\ Log!Checkpoint /\ UNCHANGED env

Spec == Init /\ [][Next]_vars
-----------------------------------------------------------------------------
(* No trigger's action reaches a caller twice, whatever fails and however
   often the process restarts between firing, logging and returning; and a
   trigger that a restart would arm again was never delivered. *)
DeliveredOnce ==
  /\ \A n \in DOMAIN env.delivered : env.delivered[n] <= 1
  /\ Log!Idle => \A i \in DOMAIN wal.triggers :
       wal.triggers[i].status = "armed" => env.delivered[wal.triggers[i].serial] = 0
=============================================================================
