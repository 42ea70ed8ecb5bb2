------------------------------ MODULE Sessions ------------------------------
(***************************************************************************)
(* Session registry, message registry and transcripts.  All calls append   *)
(* first and apply after, so each is one step.  Sessions reach the full    *)
(* snapshot only through the message registry's compacted                  *)
(* ledger_session_events; transcripts and other messages do not reach it.  *)
(***************************************************************************)
EXTENDS Integers, Sequences, SequencesExt, FiniteSetsExt, TLC

CONSTANTS SessionIds, TranscriptIds,
          Unescaped,      \* transcript ids that break the hand-formatted JSON
          MaxTs, MaxCalls

VARIABLES ram, wal, todo, gap, env

(* sessions: status and last heartbeat; msgs: events in insertion order, the
   by_target map flattened; transcripts with next_turn_id. *)
Empty == [sessions |-> <<>>, msgs |-> <<>>, transcripts |-> <<>>, turn |-> 0]

SessionApply(sessions, kind, id, ts) ==
  CASE kind = "register" -> (id :> [status |-> "active", beat |-> ts]) @@ sessions
    [] kind = "heartbeat" /\ id \in DOMAIN sessions -> [sessions EXCEPT ![id].beat = ts]
    [] kind = "deregister" /\ id \in DOMAIN sessions ->
         [sessions EXCEPT ![id].status = "closed"]
    [] OTHER -> sessions

Insert(s, msg) == [s EXCEPT !.msgs = Append(@, msg)]

(* cf_emit_event("session"), and the replay arm of SessionEvent: the registry
   and its mirror among the messages. *)
ApplySession(s, kind, id, ts) ==
  Insert([s EXCEPT !.sessions = SessionApply(@, kind, id, ts)],
         [domain |-> "session", kind |-> kind, target |-> id, ts |-> ts])

RegisterTranscript(s, t, id) ==
  [s EXCEPT !.transcripts = (t :> [session |-> id, pct |-> 0, turns |-> <<>>]) @@ @]

(* update_progress and add_turn ignore an unknown transcript, but a turn id
   is used up all the same. *)
SetProgress(s, t, pct) ==
  IF t \in DOMAIN s.transcripts THEN [s EXCEPT !.transcripts[t].pct = pct] ELSE s

AddTurn(s, t) ==
  LET counted == [s EXCEPT !.turn = @ + 1]
  IN  IF t \in DOMAIN s.transcripts
      THEN [counted EXCEPT !.transcripts[t].turns = Append(@, s.turn)]
      ELSE counted

(* register and update_progress format their payload without escaping: for
   such an id replay finds no transcript_id and skips the record. *)
ReplayTranscript(s, op) ==
  CASE op.kind = "register" /\ op.transcript \notin Unescaped ->
         RegisterTranscript(s, op.transcript, op.id)
    [] op.kind = "progress" /\ op.transcript \notin Unescaped ->
         SetProgress(s, op.transcript, op.pct)
    [] op.kind = "turn" -> AddTurn(s, op.transcript)
    [] OTHER -> s

Replay(s, op) ==
  CASE op.domain = "session" -> ApplySession(s, op.kind, op.id, op.ts)
    [] op.domain = "transcript" -> ReplayTranscript(s, op)
    [] OTHER -> Insert(s, op)

(* ledger_session_events: all task records; of a session that has ever been
   deregistered nothing, else its latest register and latest heartbeat. *)
Latest(msgs, kind, id) ==
  LET own == SelectSeq(msgs, LAMBDA m : m.domain = "session" /\ m.target = id
                                          /\ m.kind = kind)
      newest == Max({own[i].ts : i \in DOMAIN own})
  IN  IF own = <<>> THEN <<>>
      ELSE <<SelectSeq(own, LAMBDA m : m.ts = newest)[1]>>

LedgerSessionEvents(s) ==
  LET ids == SetToSeq({s.msgs[i].target : i \in
                        {j \in DOMAIN s.msgs : s.msgs[j].domain = "session"}})
      kept == SelectSeq(ids, LAMBDA id : Latest(s.msgs, "deregister", id) = <<>>)
      evs == SelectSeq(s.msgs, LAMBDA m : m.domain = "ledger")
             \o FlattenSeq([i \in DOMAIN kept |->
                  Latest(s.msgs, "register", kept[i])
                  \o Latest(s.msgs, "heartbeat", kept[i])])
  IN  SortSeq(evs, LAMBDA a, b : a.ts < b.ts)

(* open(): the session events of the body go to both registries. *)
Body(s) ==
  FoldLeft(LAMBDA acc, m : IF m.domain = "session"
                           THEN ApplySession(acc, m.kind, m.target, m.ts)
                           ELSE Insert(acc, m),
           Empty, LedgerSessionEvents(s))

Log == INSTANCE OrganLog

vars == <<ram, wal, todo, gap, env>>

(* plain: sessions the FFI's own cf_session_* calls touched; closed: sessions
   that were deregistered. *)
Init == Log!LogInit /\ env = [calls |-> 0, ts |-> 1, plain |-> {}, closed |-> {}]

Call(new, rec) ==
  /\ env.calls < MaxCalls
  /\ ram' = new
  /\ wal' = Replay(wal, rec)
  /\ UNCHANGED <<todo, gap>>

Kinds == {"register", "heartbeat", "deregister"}

Seen(id, kind, plain) ==
  env' = [env EXCEPT !.calls = @ + 1,
                     !.plain = IF plain THEN @ \cup {id} ELSE @,
                     !.closed = IF kind = "deregister" THEN @ \cup {id} ELSE @]

SessionEvent(kind, id) == [domain |-> "session", kind |-> kind, id |-> id, ts |-> env.ts]

(* cf_emit_event for the domains session, msg, sadhana, dream and ledger. *)
EmitSessionEvent(kind, id) ==
  /\ Call(ApplySession(ram, kind, id, env.ts), SessionEvent(kind, id))
  /\ Seen(id, kind, FALSE)

EmitMessage(domain, id) ==
  LET msg == [domain |-> domain, kind |-> "task_records", target |-> id, ts |-> env.ts]
  IN  Call(Insert(ram, msg), msg) /\ Seen(id, "task_records", FALSE)

(* cf_session_register, _heartbeat and _deregister: same record, but only the
   session registry is updated. *)
SessionCall(kind, id) ==
  /\ Call([ram EXCEPT !.sessions = SessionApply(@, kind, id, env.ts)],
          SessionEvent(kind, id))
  /\ Seen(id, kind, TRUE)

TranscriptEvent(kind, t, id, pct) ==
  [domain |-> "transcript", kind |-> kind, transcript |-> t, id |-> id, pct |-> pct]

TranscriptRegister(t, id) ==
  /\ Call(RegisterTranscript(ram, t, id), TranscriptEvent("register", t, id, 0))
  /\ env' = [env EXCEPT !.calls = @ + 1]

TranscriptUpdateProgress(t, pct) ==
  /\ t \in DOMAIN ram.transcripts
  /\ Call(SetProgress(ram, t, pct),
          TranscriptEvent("progress", t, ram.transcripts[t].session, pct))
  /\ env' = [env EXCEPT !.calls = @ + 1]

TranscriptAddTurn(t) ==
  /\ t \in DOMAIN ram.transcripts
  /\ Call(AddTurn(ram, t), TranscriptEvent("turn", t, ram.transcripts[t].session, 0))
  /\ env' = [env EXCEPT !.calls = @ + 1]

Tick ==
  /\ env.ts < MaxTs
  /\ env' = [env EXCEPT !.ts = @ + 1]
  /\ UNCHANGED <<ram, wal, todo, gap>>

Next ==
  \/ \E kind \in Kinds, id \in SessionIds : EmitSessionEvent(kind, id) \/ SessionCall(kind, id)
  \/ \E domain \in {"ledger", "msg"}, id \in SessionIds : EmitMessage(domain, id)
  \/ \E t \in TranscriptIds :
       \/ \E id \in SessionIds : TranscriptRegister(t, id)
       \/ TranscriptUpdateProgress(t, 50)
       \/ TranscriptAddTurn(t)
  \/ Tick
  \/ (Log!Checkpoint \/ Log!Restart) /\ UNCHANGED env

Spec == Init /\ [][Next]_vars
-----------------------------------------------------------------------------
TaskRecords(s) == SelectSeq(s.msgs, LAMBDA m : m.domain = "ledger")

(* Live sessions survive full snapshots and restarts with their newest
   heartbeat, and the task ledger survives whole and in order.  Left out are
   sessions that only the cf_session_* calls touched, which the message
   registry never saw, and sessions that were ever deregistered. *)
SessionsKept ==
  /\ \A id \in DOMAIN ram.sessions \ (env.plain \cup env.closed) :
       id \in DOMAIN wal.sessions /\ wal.sessions[id] = ram.sessions[id]
  /\ TaskRecords(wal) = TaskRecords(ram)

(* Between snapshots a restart rebuilds every transcript with the same turn
   ids, unless its id broke the payload. *)
TranscriptsKept ==
  Log!Settled =>
    \A t \in DOMAIN ram.transcripts \ Unescaped :
      t \in DOMAIN wal.transcripts /\ wal.transcripts[t] = ram.transcripts[t]
=============================================================================
