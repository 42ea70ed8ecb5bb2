----------------------------- MODULE Registries -----------------------------
(***************************************************************************)
(* Skills, agents, the user model and analytics: four registries whose     *)
(* calls append first and apply after.  Contents, names and payloads are   *)
(* left out; what is kept is what a restart could change: version and      *)
(* entry numbers, a revocation, observation counts.                        *)
(***************************************************************************)
EXTENDS Integers, Sequences

CONSTANTS Skills, Agents, Entities, MaxCalls

VARIABLES ram, wal, todo, gap, env

Empty == [skills |-> <<>>, agents |-> <<>>, users |-> <<>>, analytics |-> <<>>]

(* A map's insert. *)
Insert(f, x, v) == [y \in DOMAIN f \cup {x} |-> IF y = x THEN v ELSE f[y]]

(* upload: the version number is the length of the version list. *)
Versions(s, k) == IF k \in DOMAIN s.skills THEN s.skills[k] ELSE <<>>

SkillUpload(s, k) ==
  [s EXCEPT !.skills = Insert(@, k, Append(Versions(s, k), [deprecated |-> FALSE]))]

SkillDeprecate(s, k) ==
  IF Versions(s, k) = <<>> THEN s
  ELSE [s EXCEPT !.skills[k][Len(Versions(s, k))].deprecated = TRUE]

(* upsert leaves status and counters of a known agent alone. *)
AgentUpsert(s, a, ts) ==
  IF a \in DOMAIN s.agents THEN [s EXCEPT !.agents[a].seen = ts]
  ELSE [s EXCEPT !.agents = Insert(@, a, [status |-> "active", seen |-> ts,
                                          memories |-> 0, sessions |-> 0])]

AgentDisable(s, a) ==
  IF a \in DOMAIN s.agents THEN [s EXCEPT !.agents[a].status = "revoked"] ELSE s

UserUpsert(s, e) == [s EXCEPT !.users = Insert(@, e, 0)]
UserObserve(s, e) == IF e \in DOMAIN s.users THEN [s EXCEPT !.users[e] = @ + 1] ELSE s

AnalyticsAppend(s, tag) == [s EXCEPT !.analytics = Append(@, tag)]

Replay(s, op) ==
  CASE op.op = "upload" -> SkillUpload(s, op.key)
    [] op.op = "deprecate" -> SkillDeprecate(s, op.key)
    [] op.op = "agent" -> AgentUpsert(s, op.key, op.ts)
    [] op.op = "disable" -> AgentDisable(s, op.key)
    [] op.op = "user" -> UserUpsert(s, op.key)
    [] op.op = "observe" -> UserObserve(s, op.key)
    [] op.op = "analytics" -> AnalyticsAppend(s, op.key)

(* No section of the full snapshot's body holds any of the four. *)
Body(s) == Empty

Log == INSTANCE OrganLog

vars == <<ram, wal, todo, gap, env>>

(* emitted: analytics events that cf_emit_event logged without applying. *)
Init == Log!LogInit /\ env = [calls |-> 0, emitted |-> FALSE]

Call(new, rec) ==
  /\ env.calls < MaxCalls
  /\ ram' = new
  /\ wal' = Replay(wal, rec)
  /\ env' = [env EXCEPT !.calls = @ + 1]
  /\ UNCHANGED <<todo, gap>>

Rec(op, key) == [op |-> op, key |-> key]

CfSkillUpload(k) == Call(SkillUpload(ram, k), Rec("upload", k))
CfSkillDeprecate(k) == Call(SkillDeprecate(ram, k), Rec("deprecate", k))

CfAgentUpsert(a) ==
  LET ts == env.calls
  IN  Call(AgentUpsert(ram, a, ts), [op |-> "agent", key |-> a, ts |-> ts])

CfAgentDisable(a) == Call(AgentDisable(ram, a), Rec("disable", a))

(* cf_agent_record_activity and cf_agent_record_session are not logged. *)
CfAgentRecord(a, counter) ==
  /\ a \in DOMAIN ram.agents
  /\ env.calls < MaxCalls
  /\ ram' = [ram EXCEPT !.agents[a][counter] = @ + 1, !.agents[a].seen = env.calls]
  /\ env' = [env EXCEPT !.calls = @ + 1]
  /\ UNCHANGED <<wal, todo, gap>>

CfUserModelUpsert(e) == Call(UserUpsert(ram, e), Rec("user", e))
CfUserModelObserve(e) == Call(UserObserve(ram, e), Rec("observe", e))
CfAnalyticsAppend(tag) == Call(AnalyticsAppend(ram, tag), Rec("analytics", tag))

EmitAnalytics(tag) ==
  /\ env.calls < MaxCalls
  /\ wal' = Replay(wal, Rec("analytics", tag))
  /\ env' = [calls |-> env.calls + 1, emitted |-> TRUE]
  /\ UNCHANGED <<ram, todo, gap>>

Reopen == Log!Restart /\ env' = [env EXCEPT !.emitted = FALSE]

Next ==
  \/ \E k \in Skills : CfSkillUpload(k) \/ CfSkillDeprecate(k)
  \/ \E a \in Agents :
       \/ CfAgentUpsert(a)
       \/ CfAgentDisable(a)
       \/ \E counter \in {"memories", "sessions"} : CfAgentRecord(a, counter)
  \/ \E e \in Entities : CfUserModelUpsert(e) \/ CfUserModelObserve(e)
  \/ \E tag \in {"x", "y"} : CfAnalyticsAppend(tag) \/ EmitAnalytics(tag)
  \/ Reopen
  \/ Log!Checkpoint /\ UNCHANGED env

Spec == Init /\ [][Next]_vars
-----------------------------------------------------------------------------
(* What callers were told stays true across a restart: a skill's version
   numbers name the same versions, a revoked agent stays revoked, the user
   model keeps its observations, analytics entries keep their numbers unless
   cf_emit_event added to the log alone.  Activity counters may be lost, but
   never exceed what was counted. *)
RegistriesKept ==
  Log!Settled =>
    /\ wal.skills = ram.skills /\ wal.users = ram.users
    /\ env.emitted \/ wal.analytics = ram.analytics
    /\ DOMAIN wal.agents = DOMAIN ram.agents
    /\ \A a \in DOMAIN ram.agents :
         /\ wal.agents[a].status = ram.agents[a].status
         /\ wal.agents[a].memories <= ram.agents[a].memories
         /\ wal.agents[a].seen <= ram.agents[a].seen
=============================================================================
