--------------------------- MODULE AgentProtocol ---------------------------
(***************************************************************************)
(* Agent protocol memory: task contracts with their delegations, evidence, *)
(* probes and completion criteria.  Each call changes the store and then   *)
(* appends its record.                                                     *)
(***************************************************************************)
EXTENDS Integers, Sequences, FiniteSetsExt

CONSTANTS Evidence,       \* memory ids that can be linked
          Criteria,       \* criterion texts
          MaxCalls

VARIABLES ram, wal, todo, gap, env

Statuses == {"active", "blocked", "completed", "failed", "abandoned"}

(* Tasks and probes by id; active and open are the store's own id sets. *)
Empty == [tasks |-> <<>>, next |-> 1, active |-> {}, delegations |-> <<>>,
          probes |-> <<>>, nextProbe |-> 1, open |-> {}]

(* The entry under a key. *)
Insert(map, key, value) ==
  [k \in DOMAIN map \cup {key} |-> IF k = key THEN value ELSE map[k]]

AddTask(s, t) ==
  [s EXCEPT !.tasks = Insert(@, t, [status |-> "active", tagged |-> FALSE,
                                    evidence |-> <<>>, criteria |-> <<>>]),
            !.next = Max({@, t + 1}), !.active = @ \cup {t}]

(* update_task: a task that was closed and becomes active again does not go
   back to active_tasks. *)
SetTask(s, t, status, tag) ==
  [s EXCEPT !.tasks[t].status = IF status = "none" THEN @ ELSE status,
            !.tasks[t].tagged = @ \/ tag,
            !.active = IF status \in {"none", "active", "blocked"} THEN @ ELSE @ \ {t}]

AddDelegation(s, t) == [s EXCEPT !.delegations = Append(@, t)]

AddEvidence(s, t, m) == [s EXCEPT !.tasks[t].evidence = Append(@, m)]

AddProbe(s, p, t) ==
  [s EXCEPT !.probes = Insert(@, p, [task |-> t, status |-> "open"]),
            !.nextProbe = Max({@, p + 1}), !.open = @ \cup {p}]

ResolveProbe(s, p, status) ==
  [s EXCEPT !.probes[p].status = status, !.open = @ \ {p}]

SetCriterion(s, t, c, met) == [s EXCEPT !.tasks[t].criteria = Insert(@, c, met)]

(* The replay arm; records about a task or probe that is not there are not
   produced by the calls below except after a failed append. *)
Replay(s, op) ==
  CASE op.op = "register" -> AddTask(s, op.task)
    [] op.op = "delegate" -> AddDelegation(s, op.task)
    [] op.op = "probe" -> AddProbe(s, op.probe, op.task)
    [] op.op = "resolve" /\ op.probe \in DOMAIN s.probes ->
         ResolveProbe(s, op.probe, op.status)
    [] op.op = "update" /\ op.task \in DOMAIN s.tasks ->
         SetTask(s, op.task, op.status, op.tag)
    [] op.op = "evidence" /\ op.task \in DOMAIN s.tasks -> AddEvidence(s, op.task, op.memory)
    [] op.op = "criterion" /\ op.task \in DOMAIN s.tasks ->
         SetCriterion(s, op.task, op.criterion, op.met)
    [] OTHER -> s

(* The full snapshot's body has no section for this organ. *)
Body(s) == Empty

Log == INSTANCE OrganLog

vars == <<ram, wal, todo, gap, env>>

(* relabelled: tasks that were updated without a status; relinked: tasks whose
   evidence was linked twice. *)
Init == Log!LogInit /\ env = [calls |-> 0, relabelled |-> {}, relinked |-> {}]

Do(new, recs) ==
  /\ Log!Idle
  /\ env.calls < MaxCalls
  /\ ram' = new
  /\ todo' = recs
  /\ UNCHANGED <<wal, gap>>

Counted == env' = [env EXCEPT !.calls = @ + 1]

RegisterTask ==
  Do(AddTask(ram, ram.next), <<[op |-> "register", task |-> ram.next]>>) /\ Counted

(* status.unwrap_or(0): an update without a status is logged as Active. *)
UpdateTask(t, status, tag) ==
  /\ Do(SetTask(ram, t, status, tag),
        <<[op |-> "update", task |-> t, tag |-> tag,
           status |-> IF status = "none" THEN "active" ELSE status]>>)
  /\ env' = [env EXCEPT !.calls = @ + 1,
       !.relabelled = IF status = "none" THEN @ \cup {t} ELSE @ \ {t}]

Delegate(t) == Do(AddDelegation(ram, t), <<[op |-> "delegate", task |-> t]>>) /\ Counted

(* Linking the same memory again returns the old id and logs it again; the
   replay arm does not look for duplicates. *)
LinkEvidence(t, m) ==
  LET again == \E n \in DOMAIN ram.tasks[t].evidence : ram.tasks[t].evidence[n] = m
  IN  /\ Do(IF again THEN ram ELSE AddEvidence(ram, t, m),
            <<[op |-> "evidence", task |-> t, memory |-> m]>>)
      /\ env' = [env EXCEPT !.calls = @ + 1,
                            !.relinked = IF again THEN @ \cup {t} ELSE @]

AskProbe(t) ==
  /\ Do(AddProbe(ram, ram.nextProbe, t),
        <<[op |-> "probe", probe |-> ram.nextProbe, task |-> t]>>)
  /\ Counted

AnswerProbe(p, status) ==
  /\ Do(ResolveProbe(ram, p, status), <<[op |-> "resolve", probe |-> p, status |-> status]>>)
  /\ Counted

CheckCriterion(t, c, met) ==
  /\ Do(SetCriterion(ram, t, c, met),
        <<[op |-> "criterion", task |-> t, criterion |-> c, met |-> met]>>)
  /\ Counted

(* tasks_with_all_criteria_met *)
Complete(s) ==
  {t \in s.active : LET c == s.tasks[t].criteria
                    IN  c # <<>> /\ \A k \in DOMAIN c : c[k]}

(* auto_complete_tasks: update_task for one after the other, stopping at a
   failed append. *)
AutoCompleteTask(t) == t \in Complete(ram) /\ UpdateTask(t, "completed", FALSE)

Reopen == Log!Restart /\ env' = [env EXCEPT !.relabelled = {}, !.relinked = {}]

Next ==
  \/ RegisterTask
  \/ \E t \in DOMAIN ram.tasks :
       \/ \E status \in Statuses \cup {"none"}, tag \in BOOLEAN : UpdateTask(t, status, tag)
       \/ AutoCompleteTask(t)
       \/ Delegate(t)
       \/ \E m \in Evidence : LinkEvidence(t, m)
       \/ AskProbe(t)
       \/ \E c \in Criteria, met \in BOOLEAN : CheckCriterion(t, c, met)
  \/ \E p \in DOMAIN ram.probes, status \in {"answered", "dropped"} : AnswerProbe(p, status)
  \/ Reopen
  \/ (Log!Logged \/ Log!LogFails \/ Log!Checkpoint) /\ UNCHANGED env

Spec == Init /\ [][Next]_vars
-----------------------------------------------------------------------------
(* A restart keeps every contract: its status, unless its last update named
   none (the record then says Active); its evidence, in order and without
   duplicates unless a memory was linked twice; its criteria and probes; and
   auto-completion would close the same tasks. *)
ContractsKept ==
  Log!Settled =>
    /\ DOMAIN wal.tasks = DOMAIN ram.tasks /\ wal.active = ram.active
    /\ \A t \in DOMAIN ram.tasks :
         /\ t \notin env.relabelled => wal.tasks[t].status = ram.tasks[t].status
         /\ t \notin env.relinked => wal.tasks[t].evidence = ram.tasks[t].evidence
         /\ wal.tasks[t].criteria = ram.tasks[t].criteria
    /\ wal.probes = ram.probes /\ wal.open = ram.open
    /\ wal.delegations = ram.delegations
    /\ Complete(wal) = Complete(ram)
=============================================================================
