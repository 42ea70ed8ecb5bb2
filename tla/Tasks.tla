------------------------------- MODULE Tasks -------------------------------
(***************************************************************************)
(* The task registry behind the cf_task_* calls: creation, status changes  *)
(* fenced by tokens, payload updates, the generic cf_emit_event, which     *)
(* only logs, and the tasks that log_event files, which are only in RAM.   *)
(* Every call appends its record first and applies it after, so that a     *)
(* call is one step here; a failed append changes nothing.                 *)
(***************************************************************************)
EXTENDS Integers, Sequences

CONSTANTS TaskIds, Writers,   \* Writers \subseteq Nat \ {0}: the tokens they hold
          MaxTs, MaxCalls

VARIABLES ram, wal, todo, gap, env

Empty == <<>>

(* TaskStatus::from_str: any other string, "resume" among them, is Pending. *)
Status(kind) ==
  CASE kind = "start" -> "running" [] kind = "pause" -> "paused"
    [] kind = "complete" -> "completed" [] kind = "fail" -> "failed"
    [] OTHER -> "pending"

Moves == {"start", "pause", "resume", "complete", "fail"}

(* HashMap::insert. *)
Insert(s, id, task) ==
  [i \in DOMAIN s \cup {id} |-> IF i = id THEN task ELSE s[i]]

(* create: an existing record with the same or a higher token stays. *)
Create(s, id, payload, ts, token) ==
  IF id \in DOMAIN s /\ s[id].token >= token THEN s
  ELSE Insert(s, id, [status |-> "pending", payload |-> payload, updated |-> ts,
                      token |-> token])

(* Mutant: the token is compared only with an equal one. *)
RejectedTies(s, id, ts, token) ==
  id \notin DOMAIN s \/ (token > 0 /\ token = s[id].token /\ ts <= s[id].updated)

(* transition's two rejections; token 0 passes both. *)
Rejected(s, id, ts, token) ==
  \/ id \notin DOMAIN s
  \/ token > 0 /\ token < s[id].token
  \/ token > 0 /\ token = s[id].token /\ ts <= s[id].updated

Transition(s, id, kind, ts, token) ==
  IF Rejected(s, id, ts, token) THEN s
  ELSE [s EXCEPT ![id] = [@ EXCEPT !.status = Status(kind), !.updated = ts,
                                   !.token = token]]

UpdatePayload(s, id, payload, ts) ==
  IF id \notin DOMAIN s \/ ts < s[id].updated THEN s
  ELSE [s EXCEPT ![id] = [@ EXCEPT !.payload = payload, !.updated = ts]]

(* TaskRegistry's replay arm: "update_payload" falls into `_ => {}'. *)
Replay(s, op) ==
  CASE op.kind = "create" -> Create(s, op.id, op.payload, op.ts, op.token)
    [] op.kind \in Moves -> Transition(s, op.id, op.kind, op.ts, op.token)
    [] OTHER -> s

(* The full snapshot's body has no section for the task registry. *)
Body(s) == Empty

Log == INSTANCE OrganLog

vars == <<ram, wal, todo, gap, env>>

(* unfenced: tasks on which token 0 was used; drift: tasks whose record was
   only logged (cf_emit_event) or only applied (update_payload, log_event);
   filed: the tasks that log_event wrote; high: the highest token that ever
   changed a task. *)
Init ==
  /\ Log!LogInit
  /\ env = [calls |-> 0, unfenced |-> {}, drift |-> {}, filed |-> {},
            high |-> [id \in TaskIds |-> 0], last |-> [id \in TaskIds |-> 0]]

(* The record is appended, then applied. *)
Call(new, rec) ==
  /\ env.calls < MaxCalls
  /\ ram' = new
  /\ wal' = Replay(wal, rec)
  /\ UNCHANGED <<todo, gap>>

Event(id, kind, payload, ts, token) ==
  [kind |-> kind, id |-> id, payload |-> payload, ts |-> ts, token |-> token]

(* What the history variables keep of a call that changed the task. *)
Noted(id, token, changed) ==
  env' = [env EXCEPT !.calls = @ + 1,
                     !.unfenced = IF token = 0 THEN @ \cup {id} ELSE @,
                     !.high[id] = IF changed /\ token > @ THEN token ELSE @,
                     !.last[id] = IF changed THEN token ELSE @]

TaskCreate(id, payload, ts, token) ==
  /\ Call(Create(ram, id, payload, ts, token), Event(id, "create", payload, ts, token))
  /\ Noted(id, token, ram' # ram)

(* A rejected transition is in the log all the same. *)
TaskTransition(id, kind, ts, token) ==
  /\ Call(Transition(ram, id, kind, ts, token), Event(id, kind, 0, ts, token))
  /\ Noted(id, token, ~Rejected(ram, id, ts, token))

TaskUpdatePayload(id, payload, ts) ==
  /\ id \in DOMAIN ram
  /\ Call(UpdatePayload(ram, id, payload, ts), Event(id, "update_payload", payload, ts, 0))
  /\ env' = [env EXCEPT !.calls = @ + 1, !.drift = @ \cup {id}]

(* cf_emit_event("task", ...) applies nothing: the event waits for a replay. *)
EmitTaskEvent(id, kind, ts, token) ==
  /\ Call(ram, Event(id, kind, 0, ts, token))
  /\ env' = [env EXCEPT !.calls = @ + 1, !.drift = @ \cup {id},
                        !.unfenced = IF token = 0 THEN @ \cup {id} ELSE @]

(* log_event, when a rule is refuted: its task is created in the registry and
   no record is appended; the rule's number is the token. *)
FileTask(id, payload, ts, token) ==
  /\ env.calls < MaxCalls
  /\ ram' = Create(ram, id, payload, ts, token)
  /\ env' = [env EXCEPT !.calls = @ + 1, !.drift = @ \cup {id}, !.filed = @ \cup {id},
                        !.unfenced = IF token = 0 THEN @ \cup {id} ELSE @,
                        !.high[id] = IF ram' # ram /\ token > @ THEN token ELSE @,
                        !.last[id] = IF ram' # ram THEN token ELSE @]
  /\ UNCHANGED <<wal, todo, gap>>

(* The history starts again where a restart forgets: for a task that log_event
   wrote, and for all after a snapshot without the registry. *)
Reopen ==
  LET token(id) == IF id \in DOMAIN wal THEN wal[id].token ELSE 0
  IN  /\ Log!Restart
      /\ env' = [env EXCEPT !.drift = {}, !.filed = {},
                   !.last = [id \in TaskIds |-> token(id)],
                   !.high = [id \in TaskIds |->
                               IF gap \/ id \in env.filed \/ token(id) > @[id]
                               THEN token(id) ELSE @[id]]]

Next ==
  \/ \E id \in TaskIds, payload \in {1, 2}, ts \in 1..MaxTs, token \in Writers \cup {0} :
       TaskCreate(id, payload, ts, token) \/ FileTask(id, payload, ts, token)
  \/ \E id \in TaskIds, ts \in 1..MaxTs, token \in Writers \cup {0} :
       \/ \E kind \in Moves : TaskTransition(id, kind, ts, token)
       \/ \E kind \in {"create", "start"} : EmitTaskEvent(id, kind, ts, token)
  \/ \E id \in TaskIds, payload \in {1, 2}, ts \in 1..MaxTs :
       TaskUpdatePayload(id, payload, ts)
  \/ Reopen
  \/ Log!Checkpoint /\ UNCHANGED env

Spec == Init /\ [][Next]_vars
-----------------------------------------------------------------------------
(* Fencing: once a writer with a higher token has changed a task, no writer
   with a lower one changes it, as long as nobody used the bypass token 0 on
   it (which also lowers the fence for everyone), and as long as no restart
   forgets the fence: after a full snapshot, which has no registry, or of a
   task that log_event filed without a record. *)
Fenced ==
  \A id \in TaskIds \ env.unfenced : env.last[id] = env.high[id]

(* A restart keeps status, payload and fence of every task, the rejected
   transitions it replays included, unless a payload update, an emitted event
   or a task that log_event filed made log and registry disagree before. *)
TasksKept ==
  Log!Settled =>
    \A id \in TaskIds \ env.drift :
      /\ id \in DOMAIN ram <=> id \in DOMAIN wal
      /\ id \in DOMAIN ram => wal[id] = ram[id]
=============================================================================
