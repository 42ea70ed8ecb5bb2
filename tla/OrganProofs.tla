---------------------------- MODULE OrganProofs ----------------------------
(***************************************************************************)
(* Theorems about organs, for every value of their bounds.                 *)
(*                                                                         *)
(* Tasks: Fenced speaks of the highest token that ever changed a task,     *)
(* which the registry does not keep.  It is the token of the record as     *)
(* long as nobody used the bypass token 0, and replay never goes back      *)
(* behind it, because a record that only the log has can only raise it;    *)
(* only the task that log_event filed has none (env.filed).                *)
(*                                                                         *)
(* Triggers: a trigger that the log still has as armed was not delivered,  *)
(* and is in the batch being returned only while the record that it fired  *)
(* is the next one to be appended (DeliveryInv).                           *)
(*                                                                         *)
(* Constraints: the store that open() rebuilds is the live one but for the *)
(* branches that a conflict created and nobody logged, and the facts on    *)
(* them (MirrorInv); a branch that a conflict creates starts with the one  *)
(* fact that needed it, unless its number was used before (BranchInv).     *)
(*                                                                         *)
(* Interventions: a call appends up to five records, and only the first is *)
(* about the ledger (Records, BookInv); strength is lowered on evidence    *)
(* that follows earlier evidence, and a replay finds no more credit and no *)
(* more lowerings than RAM had (EvidenceInv).                              *)
(*                                                                         *)
(* Agent protocol: with the record that is about to be appended, the log   *)
(* has the contracts of RAM but for the statuses and the evidence that the *)
(* two lossy records change (HoldsInv).                                    *)
(*                                                                         *)
(* Registries: append and apply are one step under the registry's lock, so *)
(* the log and RAM move alike but for the activity counters (Registered).  *)
(*                                                                         *)
(* Debts and candidates: the log, with the record that is about to be      *)
(* appended, has every debt's status and evidence, and every candidate but *)
(* for what a second upsert's record resets (LedgersAlike).                *)
(***************************************************************************)
EXTENDS Organs, Extrema, SequenceTheorems, TLAPS

-----------------------------------------------------------------------------
(* Task registry                                                            *)

TaskRecord ==
    [status : {"pending", "running", "paused", "completed", "failed"},
     payload : Nat, updated : Nat, token : Nat]

TaskMap(s) == s \in [DOMAIN s -> TaskRecord] /\ DOMAIN s \subseteq TaskIds

\* What a registry has of a task: nothing, or one record.
At(s, id) == IF id \in DOMAIN s THEN {s[id]} ELSE {}

Token(s, id) == IF id \in DOMAIN s THEN s[id].token ELSE 0

\* Where a task stands: a record with token 0 is above no record.
Rank(s, id) == IF id \in DOMAIN s THEN s[id].token + 1 ELSE 0

TaskTypeOK ==
    /\ TaskMap(ram) /\ TaskMap(wal) /\ todo = <<>> /\ gap \in BOOLEAN
    /\ DOMAIN env = {"calls", "unfenced", "drift", "filed", "high", "last"}
    /\ env.high \in [TaskIds -> Nat] /\ env.last \in [TaskIds -> Nat]

\* The history is the token of the record, which replay does not lower, unless
\* log_event filed the task without a record.
FenceInv ==
    \A id \in TaskIds \ env.unfenced :
       /\ env.last[id] = Token(ram, id) /\ env.high[id] = Token(ram, id)
       /\ ~gap /\ id \notin env.filed => Rank(ram, id) <= Rank(wal, id)

\* The registry and its replay agree, except on a task that drifted.
ReplayInv == ~gap => \A id \in TaskIds \ env.drift : At(ram, id) = At(wal, id)

TaskInv == TaskTypeOK /\ FenceInv /\ ReplayInv

\* create() touches one task; it leaves the higher token.
LEMMA CreateIs ==
    ASSUME NEW s, TaskMap(s), NEW id \in TaskIds, NEW payload \in Nat,
           NEW ts \in Nat, NEW token \in Nat,
           NEW t, t = Task!Create(s, id, payload, ts, token)
    PROVE  /\ TaskMap(t)
           /\ \A j \in TaskIds \ {id} : /\ At(t, j) = At(s, j)
                                        /\ Token(t, j) = Token(s, j)
                                        /\ Rank(t, j) = Rank(s, j)
           /\ Rank(t, id) = IF Rank(s, id) > token THEN Rank(s, id) ELSE token + 1
           /\ t # s <=> Rank(s, id) <= token
           /\ At(t, id) = IF Rank(s, id) > token THEN At(s, id)
                          ELSE {[status |-> "pending", payload |-> payload,
                                 updated |-> ts, token |-> token]}
<1> DEFINE r == [status |-> "pending", payload |-> payload, updated |-> ts,
                 token |-> token]
<1>1. r \in TaskRecord
  BY DEF TaskRecord
<1>2. CASE id \in DOMAIN s /\ s[id].token >= token
  <2>1. t = s
    BY <1>2 DEF Task!Create
  <2>2. s[id].token \in Nat
    BY <1>2 DEF TaskMap, TaskRecord
  <2>3. Rank(s, id) > token
    BY <1>2, <2>2 DEF Rank
  <2>4. Rank(s, id) \in Nat
    BY <1>2, <2>2 DEF Rank
  <2> QED  BY <2>1, <2>3, <2>4
<1>3. CASE ~(id \in DOMAIN s /\ s[id].token >= token)
  <2>1. t = [i \in DOMAIN s \cup {id} |-> IF i = id THEN r ELSE s[i]]
    BY <1>3 DEF Task!Create, Task!Insert
  <2>2. id \in DOMAIN s => s[id].token \in Nat
    BY DEF TaskMap, TaskRecord
  <2>3. Rank(s, id) <= token /\ ~(Rank(s, id) > token)
    BY <1>3, <2>2 DEF Rank
  <2>4. TaskMap(t)
    BY <1>1, <2>1 DEF TaskMap
  <2>5. \A j \in TaskIds \ {id} : /\ At(t, j) = At(s, j)
                                  /\ Token(t, j) = Token(s, j)
                                  /\ Rank(t, j) = Rank(s, j)
    BY <2>1 DEF At, Token, Rank
  <2>6. Rank(t, id) = token + 1 /\ At(t, id) = {r}
    BY <2>1 DEF At, Rank
  <2>7. t # s
    BY <2>3, <2>6
  <2> QED  BY <2>3, <2>4, <2>5, <2>6, <2>7
<1> QED  BY <1>2, <1>3

\* transition() touches one task, and lowers its token only for token 0.
LEMMA TransitionIs ==
    ASSUME NEW s, TaskMap(s), NEW id \in TaskIds, NEW kind,
           NEW ts \in Nat, NEW token \in Nat,
           NEW t, t = Task!Transition(s, id, kind, ts, token)
    PROVE  /\ TaskMap(t)
           /\ \A j \in TaskIds \ {id} : /\ At(t, j) = At(s, j)
                                        /\ Token(t, j) = Token(s, j)
                                        /\ Rank(t, j) = Rank(s, j)
           /\ Task!Rejected(s, id, ts, token) => t = s
           /\ ~Task!Rejected(s, id, ts, token) => Rank(t, id) = token + 1
           /\ token > 0 => Rank(t, id) =
                IF Rank(s, id) = 0 \/ Rank(s, id) > token THEN Rank(s, id)
                ELSE token + 1
<1>1. CASE Task!Rejected(s, id, ts, token)
  <2>1. t = s
    BY <1>1 DEF Task!Transition
  <2>2. id \in DOMAIN s => s[id].token \in Nat
    BY DEF TaskMap, TaskRecord
  <2>3. ASSUME token > 0
        PROVE  Rank(s, id) = 0 \/ Rank(s, id) > token
    BY <1>1, <2>2, <2>3 DEF Task!Rejected, Rank
  <2> QED  BY <1>1, <2>1, <2>3
<1>2. CASE ~Task!Rejected(s, id, ts, token)
  <2> DEFINE r == [s[id] EXCEPT !.status = Task!Status(kind), !.updated = ts,
                                !.token = token]
  <2>1. id \in DOMAIN s /\ s[id] \in TaskRecord
    BY <1>2 DEF Task!Rejected, TaskMap
  <2>2. Task!Status(kind) \in {"pending", "running", "paused", "completed", "failed"}
    BY Zenon DEF Task!Status
  <2>3. r \in TaskRecord /\ r.token = token
    <3> HIDE DEF Task!Status
    <3> QED  BY <2>1, <2>2 DEF TaskRecord
  <2>4. t = [s EXCEPT ![id] = r]
    BY <1>2 DEF Task!Transition
  <2>5. s[id].token \in Nat
    BY <2>1 DEF TaskRecord
  <2>6. token > 0 => Rank(s, id) # 0 /\ (Rank(s, id) > token => s[id].token = token)
    BY <1>2, <2>1, <2>5 DEF Task!Rejected, Rank
  <2> HIDE DEF r
  <2>7. TaskMap(t)
    BY <2>1, <2>3, <2>4 DEF TaskMap
  <2>8. \A j \in TaskIds \ {id} : /\ At(t, j) = At(s, j)
                                  /\ Token(t, j) = Token(s, j)
                                  /\ Rank(t, j) = Rank(s, j)
    BY <2>4 DEF At, Token, Rank
  <2>9. Rank(t, id) = token + 1
    BY <2>1, <2>3, <2>4 DEF Rank
  <2>10. token > 0 /\ Rank(s, id) > token => Rank(s, id) = token + 1
    BY <2>1, <2>6 DEF Rank
  <2> QED  BY <1>2, <2>6, <2>7, <2>8, <2>9, <2>10
<1> QED  BY <1>1, <1>2

\* A transition that finds the same record leaves the same record.
LEMMA TransitionAgrees ==
    ASSUME NEW s, NEW u, NEW id, At(s, id) = At(u, id), NEW kind, NEW ts, NEW token,
           NEW t, t = Task!Transition(s, id, kind, ts, token),
           NEW v, v = Task!Transition(u, id, kind, ts, token)
    PROVE  At(t, id) = At(v, id)
<1>1. id \in DOMAIN s <=> id \in DOMAIN u
  BY DEF At
<1>2. id \in DOMAIN s => s[id] = u[id]
  BY <1>1 DEF At
<1>3. Task!Rejected(s, id, ts, token) <=> Task!Rejected(u, id, ts, token)
  BY <1>1, <1>2 DEF Task!Rejected
<1>4. CASE Task!Rejected(s, id, ts, token)
  BY <1>3, <1>4 DEF Task!Transition
<1>5. CASE ~Task!Rejected(s, id, ts, token)
  <2> DEFINE r == [s[id] EXCEPT !.status = Task!Status(kind), !.updated = ts,
                                !.token = token]
  <2>1. id \in DOMAIN s /\ id \in DOMAIN u
    BY <1>1, <1>5 DEF Task!Rejected
  <2>2. t = [s EXCEPT ![id] = r]
    BY <1>5 DEF Task!Transition
  <2>3. v = [u EXCEPT ![id] = r]
    BY <1>2, <1>3, <1>5, <2>1 DEF Task!Transition
  <2> HIDE DEF r
  <2> QED  BY <2>1, <2>2, <2>3 DEF At
<1> QED  BY <1>4, <1>5

\* The replay arm of each kind of record.
LEMMA ReplayIs ==
    ASSUME NEW s, NEW id, NEW kind, NEW payload, NEW ts, NEW token
    PROVE  /\ Task!Replay(s, Task!Event(id, "create", payload, ts, token))
                = Task!Create(s, id, payload, ts, token)
           /\ kind \in Task!Moves =>
                Task!Replay(s, Task!Event(id, kind, payload, ts, token))
                  = Task!Transition(s, id, kind, ts, token)
           /\ Task!Replay(s, Task!Event(id, "update_payload", payload, ts, token)) = s
<1>1. \A k : /\ Task!Event(id, k, payload, ts, token).kind = k
             /\ Task!Event(id, k, payload, ts, token).id = id
             /\ Task!Event(id, k, payload, ts, token).payload = payload
             /\ Task!Event(id, k, payload, ts, token).ts = ts
             /\ Task!Event(id, k, payload, ts, token).token = token
  BY DEF Task!Event
<1>2. "create" \notin Task!Moves /\ "update_payload" \notin Task!Moves
  BY DEF Task!Moves
<1>3. kind \in Task!Moves => kind # "create"
  BY <1>2
<1> QED  BY <1>1, <1>2, <1>3 DEF Task!Replay

\* What the history notes of a call.
LEMMA NotedIs ==
    ASSUME TaskTypeOK, NEW id \in TaskIds, NEW token \in Nat,
           NEW changed \in BOOLEAN, Task!Noted(id, token, changed)
    PROVE  /\ DOMAIN env' = DOMAIN env
           /\ env'.high = [env.high EXCEPT ![id] =
                             IF changed /\ token > @ THEN token ELSE @]
           /\ env'.last = [env.last EXCEPT ![id] = IF changed THEN token ELSE @]
           /\ env'.drift = env.drift /\ env'.filed = env.filed
           /\ env'.unfenced = IF token = 0 THEN env.unfenced \cup {id} ELSE env.unfenced
BY DEF Task!Noted, TaskTypeOK

\* A registry that is above another one stays so under the same records.
LEMMA RankNat ==
    ASSUME NEW s, TaskMap(s), NEW id
    PROVE  /\ Rank(s, id) \in Nat /\ Token(s, id) \in Nat
           /\ Rank(s, id) = 0 => Token(s, id) = 0
           /\ Rank(s, id) # 0 => Token(s, id) = Rank(s, id) - 1
<1>1. id \in DOMAIN s => s[id].token \in Nat
  BY DEF TaskMap, TaskRecord
<1> QED  BY <1>1 DEF Rank, Token

\* What all calls on one task have in common: they leave the others alone, and
\* the history follows the token of this one.
LEMMA CallKeeps ==
    ASSUME TaskInv, NEW id \in TaskIds, NEW token \in Nat, NEW changed \in BOOLEAN,
           Task!Noted(id, token, changed), UNCHANGED <<todo, gap>>,
           TaskMap(ram'), TaskMap(wal'),
           \A j \in TaskIds \ {id} : /\ At(ram', j) = At(ram, j)
                                     /\ Token(ram', j) = Token(ram, j)
                                     /\ Rank(ram', j) = Rank(ram, j)
                                     /\ At(wal', j) = At(wal, j)
                                     /\ Rank(wal', j) = Rank(wal, j),
           At(ram, id) = At(wal, id) => At(ram', id) = At(wal', id),
           token > 0 =>
             /\ Rank(ram, id) <= Rank(wal, id) => Rank(ram', id) <= Rank(wal', id)
             /\ ~changed => Token(ram', id) = Token(ram, id)
             /\ changed => Token(ram', id) = token /\ token >= Token(ram, id)
    PROVE  TaskInv'
<1>1. /\ DOMAIN env' = DOMAIN env
      /\ env'.high = [env.high EXCEPT ![id] =
                        IF changed /\ token > @ THEN token ELSE @]
      /\ env'.last = [env.last EXCEPT ![id] = IF changed THEN token ELSE @]
      /\ env'.drift = env.drift /\ env'.filed = env.filed
      /\ env'.unfenced = IF token = 0 THEN env.unfenced \cup {id} ELSE env.unfenced
  BY NotedIs DEF TaskInv
<1>2. env.high \in [TaskIds -> Nat] /\ env.last \in [TaskIds -> Nat]
  BY DEF TaskInv, TaskTypeOK
<1>3. TaskTypeOK'
  <2>1. env'.high \in [TaskIds -> Nat] /\ env'.last \in [TaskIds -> Nat]
    BY <1>1, <1>2
  <2> QED  BY <1>1, <2>1 DEF TaskInv, TaskTypeOK
<1>4. FenceInv'
  <2> SUFFICES ASSUME NEW j \in TaskIds \ env'.unfenced
               PROVE  /\ env'.last[j] = Token(ram', j) /\ env'.high[j] = Token(ram', j)
                      /\ ~gap /\ j \notin env.filed => Rank(ram', j) <= Rank(wal', j)
    BY <1>1 DEF FenceInv
  <2>1. j \notin env.unfenced /\ (j = id => token > 0)
    BY <1>1
  <2>2. /\ env.last[j] = Token(ram, j) /\ env.high[j] = Token(ram, j)
        /\ ~gap /\ j \notin env.filed => Rank(ram, j) <= Rank(wal, j)
    BY <2>1 DEF TaskInv, FenceInv
  <2>3. CASE j # id
    BY <1>1, <1>2, <2>2, <2>3
  <2>4. CASE j = id
    <3>1. Token(ram, id) \in Nat
      BY RankNat DEF TaskInv, TaskTypeOK
    <3> QED  BY <1>1, <1>2, <2>1, <2>2, <2>4, <3>1
  <2> QED  BY <2>3, <2>4
<1>5. ReplayInv'
  <2> SUFFICES ASSUME ~gap, NEW j \in TaskIds \ env.drift
               PROVE  At(ram', j) = At(wal', j)
    BY <1>1 DEF ReplayInv
  <2>1. At(ram, j) = At(wal, j)
    BY DEF TaskInv, ReplayInv
  <2> QED  BY <2>1
<1> QED  BY <1>3, <1>4, <1>5 DEF TaskInv

\* cf_task_create
LEMMA TaskCreateStep ==
    ASSUME TaskInv, NEW id \in TaskIds, NEW payload \in Nat, NEW ts \in Nat,
           NEW token \in Nat, Task!TaskCreate(id, payload, ts, token)
    PROVE  TaskInv'
<1> DEFINE changed == ram' # ram
<1>1. /\ ram' = Task!Create(ram, id, payload, ts, token)
      /\ wal' = Task!Create(wal, id, payload, ts, token)
      /\ Task!Noted(id, token, changed) /\ UNCHANGED <<todo, gap>>
  <2>1. /\ Task!Call(Task!Create(ram, id, payload, ts, token),
                     Task!Event(id, "create", payload, ts, token))
        /\ Task!Noted(id, token, changed)
    BY Zenon DEF Task!TaskCreate
  <2>2. wal' = Task!Replay(wal, Task!Event(id, "create", payload, ts, token))
    BY <2>1 DEF Task!Call
  <2>3. wal' = Task!Create(wal, id, payload, ts, token)
    BY <2>2, ReplayIs
  <2> QED  BY <2>1, <2>3 DEF Task!Call
<1>2. TaskMap(ram) /\ TaskMap(wal)
  BY DEF TaskInv, TaskTypeOK
<1>3. /\ TaskMap(ram')
      /\ \A j \in TaskIds \ {id} : /\ At(ram', j) = At(ram, j)
                                   /\ Token(ram', j) = Token(ram, j)
                                   /\ Rank(ram', j) = Rank(ram, j)
      /\ Rank(ram', id) = IF Rank(ram, id) > token THEN Rank(ram, id) ELSE token + 1
      /\ changed <=> Rank(ram, id) <= token
      /\ At(ram', id) = IF Rank(ram, id) > token THEN At(ram, id)
                        ELSE {[status |-> "pending", payload |-> payload,
                               updated |-> ts, token |-> token]}
  BY <1>1, <1>2, CreateIs
<1>4. /\ TaskMap(wal')
      /\ \A j \in TaskIds \ {id} : At(wal', j) = At(wal, j) /\ Rank(wal', j) = Rank(wal, j)
      /\ Rank(wal', id) = IF Rank(wal, id) > token THEN Rank(wal, id) ELSE token + 1
      /\ At(wal', id) = IF Rank(wal, id) > token THEN At(wal, id)
                        ELSE {[status |-> "pending", payload |-> payload,
                               updated |-> ts, token |-> token]}
  BY <1>1, <1>2, CreateIs
<1>5. /\ Rank(ram, id) \in Nat /\ Rank(wal, id) \in Nat /\ Rank(ram', id) \in Nat
      /\ Rank(ram, id) # 0 => Token(ram, id) = Rank(ram, id) - 1
      /\ Rank(ram, id) = 0 => Token(ram, id) = 0
      /\ Rank(ram', id) # 0 => Token(ram', id) = Rank(ram', id) - 1
  BY <1>2, <1>3, RankNat
<1>6. At(ram, id) = At(wal, id) => At(ram', id) = At(wal', id)
  <2>1. At(ram, id) = At(wal, id) => Rank(ram, id) = Rank(wal, id)
    BY DEF At, Rank
  <2> QED  BY <1>3, <1>4, <2>1
<1>7. /\ Rank(ram, id) <= Rank(wal, id) => Rank(ram', id) <= Rank(wal', id)
      /\ ~changed => Token(ram', id) = Token(ram, id)
      /\ changed => Token(ram', id) = token /\ token >= Token(ram, id)
  BY <1>3, <1>4, <1>5
<1> HIDE DEF changed
<1>8. changed \in BOOLEAN
  BY DEF changed
<1> QED  BY <1>1, <1>3, <1>4, <1>6, <1>7, <1>8, CallKeeps

\* cf_task_transition
LEMMA TaskTransitionStep ==
    ASSUME TaskInv, NEW id \in TaskIds, NEW kind \in Task!Moves, NEW ts \in Nat,
           NEW token \in Nat, Task!TaskTransition(id, kind, ts, token)
    PROVE  TaskInv'
<1> DEFINE changed == ~Task!Rejected(ram, id, ts, token)
<1>1. /\ ram' = Task!Transition(ram, id, kind, ts, token)
      /\ Task!Noted(id, token, changed) /\ UNCHANGED <<todo, gap>>
  BY DEF Task!TaskTransition, Task!Call
<1>2. wal' = Task!Transition(wal, id, kind, ts, token)
  BY ReplayIs DEF Task!TaskTransition, Task!Call
<1>3. TaskMap(ram) /\ TaskMap(wal)
  BY DEF TaskInv, TaskTypeOK
<1>4. /\ TaskMap(ram')
      /\ \A j \in TaskIds \ {id} : /\ At(ram', j) = At(ram, j)
                                   /\ Token(ram', j) = Token(ram, j)
                                   /\ Rank(ram', j) = Rank(ram, j)
      /\ ~changed => ram' = ram
      /\ changed => Rank(ram', id) = token + 1
      /\ token > 0 => Rank(ram', id) =
           IF Rank(ram, id) = 0 \/ Rank(ram, id) > token THEN Rank(ram, id)
           ELSE token + 1
  BY <1>1, <1>3, TransitionIs
<1>5. /\ TaskMap(wal')
      /\ \A j \in TaskIds \ {id} : At(wal', j) = At(wal, j) /\ Rank(wal', j) = Rank(wal, j)
      /\ token > 0 => Rank(wal', id) =
           IF Rank(wal, id) = 0 \/ Rank(wal, id) > token THEN Rank(wal, id)
           ELSE token + 1
  BY <1>2, <1>3, TransitionIs
<1>6. /\ Rank(ram, id) \in Nat /\ Rank(wal, id) \in Nat /\ Rank(ram', id) \in Nat
      /\ Rank(ram, id) # 0 => Token(ram, id) = Rank(ram, id) - 1
      /\ Rank(ram, id) = 0 => Token(ram, id) = 0
      /\ Rank(ram', id) # 0 => Token(ram', id) = Rank(ram', id) - 1
  BY <1>3, <1>4, RankNat
<1>7. At(ram, id) = At(wal, id) => At(ram', id) = At(wal', id)
  BY <1>1, <1>2, TransitionAgrees
<1> HIDE DEF changed
<1>8. token > 0 =>
        /\ Rank(ram, id) <= Rank(wal, id) => Rank(ram', id) <= Rank(wal', id)
        /\ ~changed => Token(ram', id) = Token(ram, id)
        /\ changed => Token(ram', id) = token /\ token >= Token(ram, id)
  BY <1>4, <1>5, <1>6
<1>9. changed \in BOOLEAN
  BY DEF changed, Task!Rejected
<1> QED  BY <1>1, <1>4, <1>5, <1>7, <1>8, <1>9, CallKeeps

\* cf_task_update_payload changes the registry only, and no token.
LEMMA TaskUpdatePayloadStep ==
    ASSUME TaskInv, NEW id \in TaskIds, NEW payload \in Nat, NEW ts \in Nat,
           Task!TaskUpdatePayload(id, payload, ts)
    PROVE  TaskInv'
<1>1. /\ ram' = Task!UpdatePayload(ram, id, payload, ts) /\ wal' = wal
      /\ UNCHANGED <<todo, gap>>
  BY ReplayIs DEF Task!TaskUpdatePayload, Task!Call
<1>2. /\ DOMAIN env' = DOMAIN env /\ env'.high = env.high /\ env'.last = env.last
      /\ env'.unfenced = env.unfenced /\ env'.drift = env.drift \cup {id}
      /\ env'.filed = env.filed
  BY DEF Task!TaskUpdatePayload, TaskInv, TaskTypeOK
<1>3. /\ TaskMap(ram')
      /\ \A j \in TaskIds : /\ j # id => At(ram', j) = At(ram, j)
                            /\ Token(ram', j) = Token(ram, j)
                            /\ Rank(ram', j) = Rank(ram, j)
  <2>1. TaskMap(ram)
    BY DEF TaskInv, TaskTypeOK
  <2>2. CASE id \notin DOMAIN ram \/ ts < ram[id].updated
    BY <1>1, <2>1, <2>2 DEF Task!UpdatePayload
  <2>3. CASE ~(id \notin DOMAIN ram \/ ts < ram[id].updated)
    <3> DEFINE r == [ram[id] EXCEPT !.payload = payload, !.updated = ts]
    <3>1. ram' = [ram EXCEPT ![id] = r]
      BY <1>1, <2>3 DEF Task!UpdatePayload
    <3>2. r \in TaskRecord /\ r.token = ram[id].token
      BY <2>1, <2>3 DEF TaskMap, TaskRecord
    <3> HIDE DEF r
    <3> QED  BY <2>1, <2>3, <3>1, <3>2 DEF TaskMap, At, Token, Rank
  <2> QED  BY <2>2, <2>3
<1>4. TaskTypeOK'
  BY <1>1, <1>2, <1>3 DEF TaskInv, TaskTypeOK
<1>5. FenceInv'
  BY <1>1, <1>2, <1>3 DEF TaskInv, FenceInv
<1>6. ReplayInv'
  BY <1>1, <1>2, <1>3 DEF TaskInv, ReplayInv
<1> QED  BY <1>4, <1>5, <1>6 DEF TaskInv

\* cf_emit_event("task", ...) changes the log only, and lowers no token but
\* with token 0.
LEMMA EmitTaskEventStep ==
    ASSUME TaskInv, NEW id \in TaskIds, NEW kind \in {"create", "start"},
           NEW ts \in Nat, NEW token \in Nat, Task!EmitTaskEvent(id, kind, ts, token)
    PROVE  TaskInv'
<1>1. ram' = ram /\ UNCHANGED <<todo, gap>>
  BY DEF Task!EmitTaskEvent, Task!Call
<1>2. /\ DOMAIN env' = DOMAIN env /\ env'.high = env.high /\ env'.last = env.last
      /\ env'.drift = env.drift \cup {id} /\ env'.filed = env.filed
      /\ env'.unfenced = IF token = 0 THEN env.unfenced \cup {id} ELSE env.unfenced
  BY DEF Task!EmitTaskEvent, TaskInv, TaskTypeOK
<1>3. TaskMap(wal)
  BY DEF TaskInv, TaskTypeOK
<1>4. Rank(wal, id) \in Nat
  BY <1>3, RankNat
<1>5. /\ TaskMap(wal')
      /\ \A j \in TaskIds \ {id} : At(wal', j) = At(wal, j) /\ Rank(wal', j) = Rank(wal, j)
      /\ token > 0 => Rank(wal', id) \in Nat /\ Rank(wal', id) >= Rank(wal, id)
  <2>1. CASE kind = "create"
    <3>1. wal' = Task!Create(wal, id, 0, ts, token)
      BY <2>1, ReplayIs DEF Task!EmitTaskEvent, Task!Call
    <3>2. /\ TaskMap(wal')
          /\ \A j \in TaskIds \ {id} : At(wal', j) = At(wal, j) /\ Rank(wal', j) = Rank(wal, j)
          /\ Rank(wal', id) = IF Rank(wal, id) > token THEN Rank(wal, id) ELSE token + 1
      BY <1>3, <3>1, CreateIs
    <3> QED  BY <1>4, <3>2
  <2>2. CASE kind = "start"
    <3>1. wal' = Task!Transition(wal, id, kind, ts, token)
      BY <2>2, ReplayIs DEF Task!EmitTaskEvent, Task!Call, Task!Moves
    <3>2. /\ TaskMap(wal')
          /\ \A j \in TaskIds \ {id} : At(wal', j) = At(wal, j) /\ Rank(wal', j) = Rank(wal, j)
          /\ token > 0 => Rank(wal', id) =
               IF Rank(wal, id) = 0 \/ Rank(wal, id) > token THEN Rank(wal, id)
               ELSE token + 1
      BY <1>3, <3>1, TransitionIs
    <3> QED  BY <1>4, <3>2
  <2> QED  BY <2>1, <2>2
<1>6. TaskTypeOK'
  BY <1>1, <1>2, <1>5 DEF TaskInv, TaskTypeOK
<1>7. FenceInv'
  <2> SUFFICES ASSUME NEW j \in TaskIds \ env'.unfenced
               PROVE  /\ env'.last[j] = Token(ram, j) /\ env'.high[j] = Token(ram, j)
                      /\ ~gap /\ j \notin env.filed => Rank(ram, j) <= Rank(wal', j)
    BY <1>1, <1>2 DEF FenceInv
  <2>1. j \notin env.unfenced /\ (j = id => token > 0)
    BY <1>2
  <2>2. /\ env.last[j] = Token(ram, j) /\ env.high[j] = Token(ram, j)
        /\ ~gap /\ j \notin env.filed => Rank(ram, j) <= Rank(wal, j)
    BY <2>1 DEF TaskInv, FenceInv
  <2>3. Rank(ram, j) \in Nat
    BY RankNat DEF TaskInv, TaskTypeOK
  <2> QED  BY <1>2, <1>4, <1>5, <2>1, <2>2, <2>3
<1>8. ReplayInv'
  BY <1>1, <1>2, <1>5 DEF TaskInv, ReplayInv
<1> QED  BY <1>6, <1>7, <1>8 DEF TaskInv

\* log_event's task is in the registry only: no record follows it.
LEMMA FileTaskStep ==
    ASSUME TaskInv, NEW id \in TaskIds, NEW payload \in Nat, NEW ts \in Nat,
           NEW token \in Nat, Task!FileTask(id, payload, ts, token)
    PROVE  TaskInv'
<1> DEFINE changed == ram' # ram
<1>1. /\ ram' = Task!Create(ram, id, payload, ts, token)
      /\ wal' = wal /\ UNCHANGED <<todo, gap>>
  BY Zenon DEF Task!FileTask
<1>2. /\ DOMAIN env' = DOMAIN env
      /\ env'.high = [env.high EXCEPT ![id] =
                        IF changed /\ token > @ THEN token ELSE @]
      /\ env'.last = [env.last EXCEPT ![id] = IF changed THEN token ELSE @]
      /\ env'.drift = env.drift \cup {id} /\ env'.filed = env.filed \cup {id}
      /\ env'.unfenced = IF token = 0 THEN env.unfenced \cup {id} ELSE env.unfenced
  BY DEF Task!FileTask, TaskInv, TaskTypeOK
<1>3. /\ TaskMap(ram) /\ TaskMap(wal)
      /\ env.high \in [TaskIds -> Nat] /\ env.last \in [TaskIds -> Nat]
  BY DEF TaskInv, TaskTypeOK
<1>4. /\ TaskMap(ram')
      /\ \A j \in TaskIds \ {id} : /\ At(ram', j) = At(ram, j)
                                   /\ Token(ram', j) = Token(ram, j)
                                   /\ Rank(ram', j) = Rank(ram, j)
      /\ Rank(ram', id) = IF Rank(ram, id) > token THEN Rank(ram, id) ELSE token + 1
      /\ changed <=> Rank(ram, id) <= token
      /\ At(ram', id) = IF Rank(ram, id) > token THEN At(ram, id)
                        ELSE {[status |-> "pending", payload |-> payload,
                               updated |-> ts, token |-> token]}
  <2>1. TaskMap(ram) /\ ram' = Task!Create(ram, id, payload, ts, token)
    BY <1>1, <1>3
  <2> QED  BY <2>1, CreateIs
<1>5. TaskTypeOK'
  <2>1. env'.high \in [TaskIds -> Nat] /\ env'.last \in [TaskIds -> Nat]
    BY <1>2, <1>3
  <2> QED  BY <1>1, <1>2, <1>4, <2>1 DEF TaskInv, TaskTypeOK
<1>6. FenceInv'
  <2> SUFFICES ASSUME NEW j \in TaskIds \ env'.unfenced
               PROVE  /\ env'.last[j] = Token(ram', j) /\ env'.high[j] = Token(ram', j)
                      /\ ~gap /\ j \notin env'.filed => Rank(ram', j) <= Rank(wal, j)
    BY <1>1 DEF FenceInv
  <2>1. j \notin env.unfenced
    BY <1>2
  <2>2. /\ env.last[j] = Token(ram, j) /\ env.high[j] = Token(ram, j)
        /\ ~gap /\ j \notin env.filed => Rank(ram, j) <= Rank(wal, j)
    BY <2>1 DEF TaskInv, FenceInv
  <2>3. CASE j # id
    BY <1>2, <1>3, <1>4, <2>2, <2>3
  <2>4. CASE j = id
    <3>1. /\ Rank(ram, id) \in Nat /\ Token(ram, id) \in Nat
          /\ Rank(ram, id) = 0 => Token(ram, id) = 0
          /\ Rank(ram, id) # 0 => Token(ram, id) = Rank(ram, id) - 1
          /\ Rank(ram', id) \in Nat
          /\ Rank(ram', id) # 0 => Token(ram', id) = Rank(ram', id) - 1
      BY <1>3, <1>4, RankNat
    <3> QED  BY <1>2, <1>3, <1>4, <2>2, <2>4, <3>1
  <2> QED  BY <2>3, <2>4
<1>7. ReplayInv'
  BY <1>1, <1>2, <1>4 DEF TaskInv, ReplayInv
<1> QED  BY <1>5, <1>6, <1>7 DEF TaskInv

\* open() makes the replayed registry the live one.
LEMMA TaskReopenStep ==
    ASSUME TaskInv, Task!Reopen
    PROVE  TaskInv'
<1>1. ram' = wal /\ wal' = wal /\ todo' = <<>> /\ gap' = FALSE
  BY Zenon DEF Task!Reopen, Task!Log!Restart
<1>2. /\ DOMAIN env' = DOMAIN env /\ env'.unfenced = env.unfenced
      /\ env'.filed = {}
      /\ env'.last = [id \in TaskIds |-> Token(wal, id)]
      /\ env'.high = [id \in TaskIds |->
                        IF gap \/ id \in env.filed \/ Token(wal, id) > env.high[id]
                        THEN Token(wal, id) ELSE env.high[id]]
  BY DEF Task!Reopen, Token, TaskInv, TaskTypeOK
<1>3. \A id \in TaskIds : Token(wal, id) \in Nat /\ Rank(wal, id) \in Nat
  BY RankNat DEF TaskInv, TaskTypeOK
<1>4. TaskTypeOK'
  <2>1. env'.last \in [TaskIds -> Nat]
    BY <1>2, <1>3
  <2>2. env'.high \in [TaskIds -> Nat]
    <3>1. env.high \in [TaskIds -> Nat] /\ gap \in BOOLEAN
      BY DEF TaskInv, TaskTypeOK
    <3> QED  BY <1>2, <1>3, <3>1
  <2>3. gap' \in BOOLEAN
    BY <1>1, Zenon
  <2>4. /\ TaskMap(ram') /\ TaskMap(wal') /\ todo' = <<>>
        /\ DOMAIN env' = {"calls", "unfenced", "drift", "filed", "high", "last"}
    BY <1>1, <1>2, Zenon DEF TaskInv, TaskTypeOK
  <2> QED  BY <2>1, <2>2, <2>3, <2>4, Zenon DEF TaskTypeOK
<1>5. FenceInv'
  <2> SUFFICES ASSUME NEW j \in TaskIds \ env.unfenced
               PROVE  env'.high[j] = Token(wal, j)
    BY <1>1, <1>2, <1>3 DEF FenceInv
  <2>1. CASE gap \/ j \in env.filed
    BY <1>2, <2>1
  <2>2. CASE ~(gap \/ j \in env.filed)
    <3>1. env.high[j] = Token(ram, j) /\ Rank(ram, j) <= Rank(wal, j)
      BY <2>2 DEF TaskInv, FenceInv
    <3>2. Token(ram, j) <= Token(wal, j)
      BY <3>1, RankNat DEF TaskInv, TaskTypeOK
    <3> QED  BY <1>2, <1>3, <3>1, <3>2, RankNat DEF TaskInv, TaskTypeOK
  <2> QED  BY <2>1, <2>2 DEF TaskInv, TaskTypeOK
<1>6. ReplayInv'
  BY <1>1 DEF ReplayInv
<1> QED  BY <1>4, <1>5, <1>6 DEF TaskInv

\* save_full_snapshot forgets the registry, and gap says so.
LEMMA TaskCheckpointStep ==
    ASSUME TaskInv, Task!Log!Checkpoint, UNCHANGED env
    PROVE  TaskInv'
<1>1. ram' = ram /\ todo' = todo /\ wal' = <<>> /\ gap' = (<<>> # ram)
  BY Zenon DEF Task!Log!Checkpoint, Task!Body, Task!Empty
<1>2. gap' \in BOOLEAN /\ (~gap' => ram = wal')
  BY <1>1
<1>3. TaskMap(wal')
  BY <1>1 DEF TaskMap
<1>4. TaskTypeOK'
  BY <1>1, <1>2, <1>3 DEF TaskInv, TaskTypeOK
<1>5. \A id \in TaskIds : Rank(ram, id) \in Nat
  BY RankNat DEF TaskInv, TaskTypeOK
<1>6. FenceInv'
  BY <1>1, <1>2, <1>5 DEF TaskInv, FenceInv
<1>7. ReplayInv'
  BY <1>1, <1>2 DEF ReplayInv
<1> QED  BY <1>4, <1>6, <1>7 DEF TaskInv

LEMMA TaskInductive ==
    ASSUME Writers \subseteq Nat \ {0}, MaxTs \in Nat
    PROVE  /\ Task!Init => TaskInv
           /\ TaskInv /\ [Task!Next]_Task!vars => TaskInv'
<1>1. Task!Init => TaskInv
  <2> SUFFICES ASSUME Task!Init PROVE TaskInv
    OBVIOUS
  <2>1. ram = <<>> /\ wal = <<>> /\ todo = <<>> /\ gap = FALSE
    BY Zenon DEF Task!Init, Task!Log!LogInit, Task!Empty
  <2>2. /\ DOMAIN env = {"calls", "unfenced", "drift", "filed", "high", "last"}
        /\ env.high = [id \in TaskIds |-> 0] /\ env.last = [id \in TaskIds |-> 0]
    BY DEF Task!Init
  <2>3. TaskMap(ram) /\ TaskMap(wal)
    BY <2>1 DEF TaskMap
  <2>4. TaskTypeOK
    <3>1. env.high \in [TaskIds -> Nat] /\ env.last \in [TaskIds -> Nat]
      BY <2>2
    <3>2. gap \in BOOLEAN
      BY <2>1, Zenon
    <3> QED  BY <2>1, <2>2, <2>3, <3>1, <3>2, Zenon DEF TaskTypeOK
  <2>5. FenceInv
    BY <2>1, <2>2 DEF FenceInv, Token, Rank
  <2> QED  BY <2>1, <2>4, <2>5 DEF TaskInv, ReplayInv
<1>2. TaskInv /\ [Task!Next]_Task!vars => TaskInv'
  <2> SUFFICES ASSUME TaskInv, [Task!Next]_Task!vars PROVE TaskInv'
    OBVIOUS
  <2>1. \A ts \in 1 .. MaxTs : ts \in Nat
    OBVIOUS
  <2>2. \A token \in Writers \cup {0} : token \in Nat
    OBVIOUS
  <2>3. ASSUME NEW id \in TaskIds, NEW payload \in {1, 2}, NEW ts \in 1 .. MaxTs,
               NEW token \in Writers \cup {0}, Task!TaskCreate(id, payload, ts, token)
        PROVE  TaskInv'
    <3>1. payload \in Nat
      OBVIOUS
    <3> QED  BY <2>1, <2>2, <2>3, <3>1, TaskCreateStep
  <2>10. ASSUME NEW id \in TaskIds, NEW payload \in {1, 2}, NEW ts \in 1 .. MaxTs,
                NEW token \in Writers \cup {0}, Task!FileTask(id, payload, ts, token)
         PROVE  TaskInv'
    <3>1. payload \in Nat
      OBVIOUS
    <3> QED  BY <2>1, <2>2, <2>10, <3>1, FileTaskStep
  <2>4. ASSUME NEW id \in TaskIds, NEW ts \in 1 .. MaxTs, NEW token \in Writers \cup {0},
               NEW kind \in Task!Moves, Task!TaskTransition(id, kind, ts, token)
        PROVE  TaskInv'
    BY <2>1, <2>2, <2>4, TaskTransitionStep
  <2>5. ASSUME NEW id \in TaskIds, NEW ts \in 1 .. MaxTs, NEW token \in Writers \cup {0},
               NEW kind \in {"create", "start"}, Task!EmitTaskEvent(id, kind, ts, token)
        PROVE  TaskInv'
    BY <2>1, <2>2, <2>5, EmitTaskEventStep
  <2>6. ASSUME NEW id \in TaskIds, NEW payload \in {1, 2}, NEW ts \in 1 .. MaxTs,
               Task!TaskUpdatePayload(id, payload, ts)
        PROVE  TaskInv'
    <3>1. payload \in Nat
      OBVIOUS
    <3> QED  BY <2>1, <2>6, <3>1, TaskUpdatePayloadStep
  <2>7. CASE Task!Reopen
    BY <2>7, TaskReopenStep
  <2>8. CASE Task!Log!Checkpoint /\ UNCHANGED env
    BY <2>8, TaskCheckpointStep
  <2>9. CASE UNCHANGED Task!vars
    BY <2>9 DEF Task!vars, TaskInv, TaskTypeOK, FenceInv, ReplayInv
  <2> QED  BY <2>3, <2>4, <2>5, <2>6, <2>7, <2>8, <2>9, <2>10, Zenon DEF Task!Next
<1> QED  BY <1>1, <1>2

\* Replay of the task records, the rejected ones included, rebuilds status,
\* payload and token of every task that no payload update, no emitted event and
\* no task of log_event made drift (apply_op's "task" arm against the cf_task_* calls).
LEMMA TasksFollow == TaskInv => Task!TasksKept
BY DEF TaskInv, ReplayInv, At, Task!TasksKept, Task!Log!Settled

-----------------------------------------------------------------------------
(* Triggers                                                                 *)

Serial == 1 .. MaxTriggers

Entry == [due : 1 .. MaxNow, tense : BOOLEAN, status : {"armed", "fired", "expired"},
          serial : Serial]

TriggerMap(s) ==
    /\ DOMAIN s = {"triggers", "next"} /\ s.next \in Nat
    /\ s.triggers \in [DOMAIN s.triggers -> Entry]
    /\ \A i \in DOMAIN s.triggers : i \in Nat /\ i < s.next

Add(i, trigger) == [op |-> "add", id |-> i, trigger |-> trigger]
Set(i, status) == [op |-> "status", id |-> i, status |-> status]

TriggerTypeOK ==
    /\ TriggerMap(ram) /\ TriggerMap(wal)
    /\ DOMAIN env = {"now", "added", "batch", "sweep", "delivered"}
    /\ env.added \in Nat /\ env.batch \subseteq Serial
    /\ env.delivered \in [Serial -> Nat]

\* A serial names one trigger, and the log has nothing that RAM has not.
SerialInv ==
    /\ \A i, j \in DOMAIN ram.triggers :
          ram.triggers[i].serial = ram.triggers[j].serial => i = j
    /\ \A i \in DOMAIN ram.triggers : ram.triggers[i].serial <= env.added
    /\ \A i \in DOMAIN wal.triggers :
          /\ i \in DOMAIN ram.triggers
          /\ wal.triggers[i].serial = ram.triggers[i].serial

\* What can still be fired was neither delivered nor waits to be.
Fresh(n) == env.delivered[n] = 0 /\ n \notin env.batch

\* The record that is about to be appended.
TodoInv ==
    \/ todo = <<>>
    \/ \E i \in DOMAIN ram.triggers, status \in {"fired", "expired"} :
          todo = <<Set(i, status)>>
    \/ \E i \in DOMAIN ram.triggers, trigger \in Entry :
          /\ todo = <<Add(i, trigger)>>
          /\ trigger.serial = ram.triggers[i].serial
          /\ env.batch = {} /\ env.delivered[trigger.serial] = 0

DeliveryInv ==
    /\ \A n \in Serial : /\ env.delivered[n] <= 1
                         /\ n \in env.batch => env.delivered[n] = 0
                         /\ n > env.added => Fresh(n)
    /\ \A i \in DOMAIN ram.triggers :
          ram.triggers[i].status = "armed" => Fresh(ram.triggers[i].serial)
    /\ \A i \in DOMAIN wal.triggers : wal.triggers[i].status = "armed" =>
          /\ env.delivered[wal.triggers[i].serial] = 0
          /\ wal.triggers[i].serial \in env.batch => todo = <<Set(i, "fired")>>

TriggerInv == TriggerTypeOK /\ SerialInv /\ TodoInv /\ DeliveryInv

\* insert() adds one trigger and keeps next_id above all.
LEMMA InsertIs ==
    ASSUME NEW s, TriggerMap(s), NEW i \in Nat, NEW trigger \in Entry,
           NEW t, t = Trigger!Insert(s, i, trigger)
    PROVE  /\ TriggerMap(t)
           /\ DOMAIN t.triggers = DOMAIN s.triggers \cup {i}
           /\ t.triggers[i] = trigger
           /\ \A j \in DOMAIN s.triggers \ {i} : t.triggers[j] = s.triggers[j]
<1>1. /\ t.triggers = [j \in DOMAIN s.triggers \cup {i} |->
                         IF j = i THEN trigger ELSE s.triggers[j]]
      /\ t.next = Max({s.next, i + 1}) /\ DOMAIN t = {"triggers", "next"}
  BY DEF Trigger!Insert, Trigger!Max, Max
<1>2. s.next \in Nat /\ i + 1 \in Nat
  BY DEF TriggerMap
<1>3. /\ t.next \in {s.next, i + 1} /\ s.next <= t.next /\ i + 1 <= t.next
  BY <1>1, <1>2, MaxTwo
<1>4. /\ DOMAIN t.triggers = DOMAIN s.triggers \cup {i} /\ t.triggers[i] = trigger
      /\ \A j \in DOMAIN s.triggers \ {i} : t.triggers[j] = s.triggers[j]
  BY <1>1
<1>5. t.triggers \in [DOMAIN t.triggers -> Entry]
  BY <1>1 DEF TriggerMap
<1>6. \A j \in DOMAIN t.triggers : j \in Nat /\ j < t.next
  BY <1>2, <1>3, <1>4 DEF TriggerMap
<1> QED  BY <1>1, <1>2, <1>3, <1>4, <1>5, <1>6 DEF TriggerMap

\* Setting a status changes nothing else.
LEMMA SetIs ==
    ASSUME NEW s, TriggerMap(s), NEW i \in DOMAIN s.triggers,
           NEW status \in {"armed", "fired", "expired"},
           NEW t, t = [s EXCEPT !.triggers[i].status = status]
    PROVE  /\ TriggerMap(t)
           /\ DOMAIN t.triggers = DOMAIN s.triggers
           /\ t.triggers[i].status = status
           /\ t.triggers[i].serial = s.triggers[i].serial
           /\ \A j \in DOMAIN s.triggers \ {i} : t.triggers[j] = s.triggers[j]
<1> DEFINE r == [s.triggers[i] EXCEPT !.status = status]
<1>1. r \in Entry /\ r.status = status /\ r.serial = s.triggers[i].serial
  BY DEF TriggerMap, Entry
<1>2. /\ t.triggers = [s.triggers EXCEPT ![i] = r] /\ t.next = s.next
      /\ DOMAIN t = {"triggers", "next"}
  BY DEF TriggerMap
<1> HIDE DEF r
<1>3. /\ DOMAIN t.triggers = DOMAIN s.triggers /\ t.triggers[i] = r
      /\ \A j \in DOMAIN s.triggers \ {i} : t.triggers[j] = s.triggers[j]
  BY <1>2
<1>4. t.triggers \in [DOMAIN t.triggers -> Entry]
  BY <1>1, <1>2 DEF TriggerMap
<1> QED  BY <1>1, <1>2, <1>3, <1>4 DEF TriggerMap

\* A step that leaves triggers and records alone.
LEMMA TriggersStay ==
    ASSUME TriggerInv, UNCHANGED <<ram, wal, todo>>, DOMAIN env' = DOMAIN env,
           env'.added = env.added, env'.batch = env.batch,
           env'.delivered = env.delivered
    PROVE  TriggerInv'
<1>1. TriggerTypeOK'
  BY DEF TriggerInv, TriggerTypeOK
<1>2. SerialInv'
  BY DEF TriggerInv, SerialInv
<1>3. \A n : Fresh(n)' <=> Fresh(n)
  BY DEF Fresh
<1>4. TodoInv'
  BY Zenon DEF TriggerInv, TodoInv
<1>5. DeliveryInv'
  BY <1>3 DEF TriggerInv, DeliveryInv
<1> QED  BY <1>1, <1>2, <1>4, <1>5 DEF TriggerInv

\* add: the new trigger has an id and a serial of its own.
LEMMA AddTriggerStep ==
    ASSUME TriggerInv, NEW due \in 1 .. MaxNow, NEW tense \in BOOLEAN,
           Trigger!AddTrigger(due, tense), MaxTriggers \in Nat
    PROVE  TriggerInv'
<1> DEFINE n == env.added + 1
           trigger == Trigger!NewTrigger(due, tense, n)
           i == ram.next
<1>1. /\ ram' = Trigger!Insert(ram, i, trigger) /\ todo' = <<Add(i, trigger)>>
      /\ env' = [env EXCEPT !.added = @ + 1] /\ wal' = wal
      /\ env.added < MaxTriggers /\ env.batch = {}
  BY DEF Trigger!AddTrigger, Trigger!Resting, Add
<1>2. TriggerMap(ram) /\ TriggerMap(wal) /\ env.added \in Nat /\ i \in Nat
  BY DEF TriggerInv, TriggerTypeOK, TriggerMap
<1>3. n \in Serial
  BY <1>1, <1>2 DEF Serial
<1>4. trigger \in Entry /\ trigger.serial = n /\ trigger.status = "armed"
  BY <1>3 DEF Trigger!NewTrigger, Entry
<1>5. /\ DOMAIN env' = DOMAIN env /\ env'.added = n /\ env'.batch = {}
      /\ env'.delivered = env.delivered
  BY <1>1 DEF TriggerInv, TriggerTypeOK
<1> HIDE DEF trigger, i
<1>6. /\ TriggerMap(ram') /\ DOMAIN ram'.triggers = DOMAIN ram.triggers \cup {i}
      /\ ram'.triggers[i] = trigger
      /\ \A j \in DOMAIN ram.triggers \ {i} : ram'.triggers[j] = ram.triggers[j]
  BY <1>1, <1>2, <1>4, InsertIs
<1>7. i \notin DOMAIN ram.triggers
  BY <1>2 DEF TriggerMap, i
<1>8. \A j \in DOMAIN ram.triggers :
        /\ ram.triggers[j].serial \in Nat /\ ram.triggers[j].serial <= env.added
  BY DEF TriggerInv, SerialInv, TriggerTypeOK, TriggerMap, Entry, Serial
<1>9. env.delivered[n] = 0
  BY <1>2, <1>3 DEF TriggerInv, DeliveryInv, Fresh
<1>10. TriggerTypeOK'
  BY <1>1, <1>2, <1>5, <1>6 DEF TriggerInv, TriggerTypeOK
<1>11. SerialInv'
  <2>1. \A j, k \in DOMAIN ram'.triggers :
           ram'.triggers[j].serial = ram'.triggers[k].serial => j = k
    BY <1>2, <1>4, <1>6, <1>7, <1>8 DEF TriggerInv, SerialInv
  <2>2. \A j \in DOMAIN ram'.triggers : ram'.triggers[j].serial <= env'.added
    BY <1>2, <1>4, <1>5, <1>6, <1>7, <1>8
  <2>3. \A j \in DOMAIN wal.triggers :
           /\ j \in DOMAIN ram'.triggers
           /\ wal.triggers[j].serial = ram'.triggers[j].serial
    BY <1>6, <1>7 DEF TriggerInv, SerialInv
  <2> QED  BY <1>1, <2>1, <2>2, <2>3 DEF SerialInv
<1>12. TodoInv'
  <2>1. /\ i \in DOMAIN ram'.triggers /\ trigger \in Entry
        /\ todo' = <<Add(i, trigger)>> /\ trigger.serial = ram'.triggers[i].serial
        /\ env'.batch = {} /\ env'.delivered[trigger.serial] = 0
    BY <1>1, <1>4, <1>5, <1>6, <1>9
  <2> QED  BY <2>1, Zenon DEF TodoInv, Add
<1>13. DeliveryInv'
  <2>1. \A m \in Serial : m > n => m > env.added
    BY <1>2 DEF Serial
  <2>2. \A m \in Serial : /\ env'.delivered[m] <= 1
                          /\ m \in env'.batch => env'.delivered[m] = 0
                          /\ m > env'.added => env'.delivered[m] = 0 /\ m \notin env'.batch
    BY <1>5, <2>1 DEF TriggerInv, DeliveryInv, Fresh
  <2>3. \A j \in DOMAIN ram'.triggers : ram'.triggers[j].status = "armed" =>
           /\ env'.delivered[ram'.triggers[j].serial] = 0
           /\ ram'.triggers[j].serial \notin env'.batch
    BY <1>4, <1>5, <1>6, <1>7, <1>9 DEF TriggerInv, DeliveryInv, Fresh
  <2>4. \A j \in DOMAIN wal'.triggers : wal'.triggers[j].status = "armed" =>
           /\ env'.delivered[wal'.triggers[j].serial] = 0
           /\ wal'.triggers[j].serial \notin env'.batch
    BY <1>1, <1>5 DEF TriggerInv, DeliveryInv
  <2> QED  BY <2>2, <2>3, <2>4 DEF DeliveryInv, Fresh
<1> QED  BY <1>10, <1>11, <1>12, <1>13 DEF TriggerInv

\* fire and dismiss: only an armed trigger, whose serial joins the results of
\* the call when it is fired.
LEMMA SetStatusStep ==
    ASSUME TriggerInv, todo = <<>>, NEW i, NEW status \in {"fired", "expired"},
           Trigger!SetStatus(i, status), DOMAIN env' = DOMAIN env,
           env'.added = env.added, env'.delivered = env.delivered,
           env'.batch = env.batch
                        \cup (IF status = "fired" THEN {ram.triggers[i].serial} ELSE {})
    PROVE  TriggerInv'
<1>1. /\ i \in DOMAIN ram.triggers /\ ram.triggers[i].status = "armed"
      /\ ram' = [ram EXCEPT !.triggers[i].status = status]
      /\ todo' = <<Set(i, status)>> /\ wal' = wal
  BY DEF Trigger!SetStatus, Trigger!Armed, Set
<1>2. TriggerMap(ram) /\ TriggerMap(wal) /\ env.batch \subseteq Serial
  BY DEF TriggerInv, TriggerTypeOK
<1>3. /\ TriggerMap(ram') /\ DOMAIN ram'.triggers = DOMAIN ram.triggers
      /\ ram'.triggers[i].status = status
      /\ ram'.triggers[i].serial = ram.triggers[i].serial
      /\ \A j \in DOMAIN ram.triggers \ {i} : ram'.triggers[j] = ram.triggers[j]
  BY <1>1, <1>2, SetIs
<1>4. \A j \in DOMAIN ram.triggers : /\ ram.triggers[j].serial \in Serial
                                     /\ ram'.triggers[j].serial = ram.triggers[j].serial
  BY <1>2, <1>3 DEF TriggerMap, Entry
<1>5. Fresh(ram.triggers[i].serial)
  BY <1>1 DEF TriggerInv, DeliveryInv
<1>6. TriggerTypeOK'
  BY <1>1, <1>2, <1>3, <1>4 DEF TriggerInv, TriggerTypeOK
<1>7. SerialInv'
  BY <1>1, <1>3, <1>4 DEF TriggerInv, SerialInv
<1>8. TodoInv'
  BY <1>1, <1>3, Zenon DEF TodoInv, Set
<1>9. DeliveryInv'
  <2>1. \A n \in Serial : /\ env'.delivered[n] <= 1
                          /\ n \in env'.batch => env'.delivered[n] = 0
                          /\ n > env'.added => env'.delivered[n] = 0 /\ n \notin env'.batch
    <3>1. ram.triggers[i].serial <= env.added /\ ram.triggers[i].serial \in Nat
      BY <1>1, <1>4 DEF TriggerInv, SerialInv, Serial
    <3>2. env.added \in Nat
      BY DEF TriggerInv, TriggerTypeOK
    <3> QED  BY <1>5, <3>1, <3>2 DEF TriggerInv, DeliveryInv, Fresh, Serial
  <2>2. \A j \in DOMAIN ram'.triggers :
           ram'.triggers[j].status = "armed" =>
             /\ env'.delivered[ram'.triggers[j].serial] = 0
             /\ ram'.triggers[j].serial \notin env'.batch
    <3> SUFFICES ASSUME NEW j \in DOMAIN ram'.triggers, ram'.triggers[j].status = "armed"
                 PROVE  /\ env'.delivered[ram'.triggers[j].serial] = 0
                        /\ ram'.triggers[j].serial \notin env'.batch
      OBVIOUS
    <3>1. j # i /\ j \in DOMAIN ram.triggers /\ ram.triggers[j].status = "armed"
      BY <1>3
    <3>2. ram.triggers[j].serial # ram.triggers[i].serial
      BY <1>1, <3>1 DEF TriggerInv, SerialInv
    <3>3. Fresh(ram.triggers[j].serial)
      BY <3>1 DEF TriggerInv, DeliveryInv
    <3> QED  BY <1>4, <3>1, <3>2, <3>3 DEF Fresh
  <2>3. \A j \in DOMAIN wal.triggers : wal.triggers[j].status = "armed" =>
           /\ env'.delivered[wal.triggers[j].serial] = 0
           /\ wal.triggers[j].serial \in env'.batch => todo' = <<Set(j, "fired")>>
    <3> SUFFICES ASSUME NEW j \in DOMAIN wal.triggers, wal.triggers[j].status = "armed"
                 PROVE  /\ env'.delivered[wal.triggers[j].serial] = 0
                        /\ wal.triggers[j].serial \in env'.batch
                             => todo' = <<Set(j, "fired")>>
      OBVIOUS
    <3>1. /\ env.delivered[wal.triggers[j].serial] = 0
          /\ wal.triggers[j].serial \notin env.batch
      BY DEF TriggerInv, DeliveryInv
    <3>2. j \in DOMAIN ram.triggers /\ wal.triggers[j].serial = ram.triggers[j].serial
      BY DEF TriggerInv, SerialInv
    <3>3. ram.triggers[j].serial = ram.triggers[i].serial => j = i
      BY <1>1, <3>2 DEF TriggerInv, SerialInv
    <3> QED  BY <1>1, <3>1, <3>2, <3>3
  <2> QED  BY <1>1, <2>1, <2>2, <2>3 DEF DeliveryInv, Fresh
<1> QED  BY <1>6, <1>7, <1>8, <1>9 DEF TriggerInv

\* append() of the record at hand.
LEMMA LoggedStep ==
    ASSUME TriggerInv, Trigger!Log!Logged, UNCHANGED env
    PROVE  TriggerInv'
<1>1. /\ todo # <<>> /\ ram' = ram /\ todo' = Tail(todo)
      /\ wal' = Trigger!Replay(wal, Head(todo))
  BY DEF Trigger!Log!Logged, Trigger!Log!Idle
<1>2. TriggerMap(ram) /\ TriggerMap(wal)
  BY DEF TriggerInv, TriggerTypeOK
<1> DEFINE Rebuilt ==
             /\ todo' = <<>> /\ TriggerMap(wal')
             /\ \A j \in DOMAIN wal'.triggers :
                   /\ j \in DOMAIN ram.triggers
                   /\ wal'.triggers[j].serial = ram.triggers[j].serial
                   /\ wal'.triggers[j].status = "armed" => Fresh(wal'.triggers[j].serial)
<1>3. Rebuilt
  <2>1. ASSUME NEW i \in DOMAIN ram.triggers, NEW status \in {"fired", "expired"},
               todo = <<Set(i, status)>>
        PROVE  Rebuilt
    <3>1. todo' = <<>> /\ wal' = Trigger!Replay(wal, Set(i, status))
      BY <1>1, <2>1
    <3>2. wal' = IF i \in DOMAIN wal.triggers
                 THEN [wal EXCEPT !.triggers[i].status = status] ELSE wal
      BY <3>1 DEF Trigger!Replay, Set
    <3>3. \A j : todo = <<Set(j, "fired")>> => j = i
      BY <2>1 DEF Set
    <3>4. \A j \in DOMAIN wal.triggers \ {i} : wal.triggers[j].status = "armed"
            => Fresh(wal.triggers[j].serial)
      BY <3>3 DEF TriggerInv, DeliveryInv, Fresh
    <3>5. CASE i \in DOMAIN wal.triggers
      <4>1. /\ TriggerMap(wal') /\ DOMAIN wal'.triggers = DOMAIN wal.triggers
            /\ wal'.triggers[i].status = status
            /\ wal'.triggers[i].serial = wal.triggers[i].serial
            /\ \A j \in DOMAIN wal.triggers \ {i} : wal'.triggers[j] = wal.triggers[j]
        BY <1>2, <3>2, <3>5, SetIs
      <4> QED  BY <3>1, <3>4, <4>1 DEF TriggerInv, SerialInv
    <3>6. CASE i \notin DOMAIN wal.triggers
      BY <1>2, <3>1, <3>2, <3>4, <3>6 DEF TriggerInv, SerialInv
    <3> QED  BY <3>5, <3>6
  <2>2. ASSUME NEW i \in DOMAIN ram.triggers, NEW trigger \in Entry,
               todo = <<Add(i, trigger)>>,
               trigger.serial = ram.triggers[i].serial,
               env.batch = {}, env.delivered[trigger.serial] = 0
        PROVE  Rebuilt
    <3>1. todo' = <<>> /\ wal' = Trigger!Insert(wal, i, trigger)
      BY <1>1, <2>2 DEF Trigger!Replay, Add
    <3>2. i \in Nat
      BY <1>2 DEF TriggerMap
    <3>3. /\ TriggerMap(wal') /\ DOMAIN wal'.triggers = DOMAIN wal.triggers \cup {i}
          /\ wal'.triggers[i] = trigger
          /\ \A j \in DOMAIN wal.triggers \ {i} : wal'.triggers[j] = wal.triggers[j]
      BY <1>2, <3>1, <3>2, InsertIs
    <3>4. \A j \in DOMAIN wal.triggers : wal.triggers[j].status = "armed"
            => Fresh(wal.triggers[j].serial)
      BY <2>2 DEF TriggerInv, DeliveryInv, Fresh
    <3> QED  BY <2>2, <3>1, <3>3, <3>4 DEF TriggerInv, SerialInv, Fresh
  <2> QED  BY <1>1, <2>1, <2>2 DEF TriggerInv, TodoInv
<1>4. TriggerTypeOK'
  BY <1>1, <1>3 DEF TriggerInv, TriggerTypeOK
<1>5. SerialInv'
  BY <1>1, <1>3 DEF TriggerInv, SerialInv
<1>6. DeliveryInv'
  BY <1>1, <1>3 DEF TriggerInv, DeliveryInv, Fresh
<1>7. TodoInv'
  BY <1>3 DEF TodoInv
<1> QED  BY <1>4, <1>5, <1>6, <1>7 DEF TriggerInv

\* The call returns and its results are delivered.
LEMMA ReturnStep ==
    ASSUME TriggerInv, Trigger!Return
    PROVE  TriggerInv'
<1>1. todo = <<>> /\ UNCHANGED <<ram, wal, todo>>
  BY DEF Trigger!Return, Trigger!Log!Idle
<1>2. /\ DOMAIN env = {"now", "added", "batch", "sweep", "delivered"}
      /\ env.added \in Nat /\ env.batch \subseteq Serial /\ env.delivered \in [Serial -> Nat]
  BY DEF TriggerInv, TriggerTypeOK
<1>3. /\ DOMAIN env' = DOMAIN env /\ env'.added = env.added /\ env'.batch = {}
      /\ env'.delivered = [n \in Serial |->
                             env.delivered[n] + IF n \in env.batch THEN 1 ELSE 0]
  BY <1>2 DEF Trigger!Return
<1>4. \A n \in Serial : env'.delivered[n] = IF n \in env.batch THEN 1 ELSE env.delivered[n]
  BY <1>2, <1>3 DEF TriggerInv, DeliveryInv
<1>5. TriggerTypeOK'
  <2>1. env'.delivered \in [Serial -> Nat]
    BY <1>2, <1>3
  <2> QED  BY <1>1, <1>2, <1>3, <2>1 DEF TriggerInv, TriggerTypeOK
<1>6. SerialInv'
  BY <1>1, <1>3 DEF TriggerInv, SerialInv
<1>7. TodoInv'
  BY <1>1 DEF TodoInv
<1>8. \A i \in DOMAIN ram.triggers : ram.triggers[i].serial \in Serial
  BY DEF TriggerInv, TriggerTypeOK, TriggerMap, Entry
<1>9. \A i \in DOMAIN wal.triggers : wal.triggers[i].serial \in Serial
  BY DEF TriggerInv, TriggerTypeOK, TriggerMap, Entry
<1>10. DeliveryInv'
  <2>1. \A n \in Serial : /\ env'.delivered[n] <= 1
                          /\ n > env'.added => env'.delivered[n] = 0
    BY <1>2, <1>3, <1>4 DEF TriggerInv, DeliveryInv, Fresh
  <2>2. \A i \in DOMAIN ram.triggers : ram.triggers[i].status = "armed" =>
           env'.delivered[ram.triggers[i].serial] = 0
    BY <1>4, <1>8 DEF TriggerInv, DeliveryInv, Fresh
  <2>3. \A i \in DOMAIN wal.triggers : wal.triggers[i].status = "armed" =>
           env'.delivered[wal.triggers[i].serial] = 0
    BY <1>1, <1>4, <1>9 DEF TriggerInv, DeliveryInv
  <2> QED  BY <1>1, <1>3, <2>1, <2>2, <2>3 DEF DeliveryInv, Fresh
<1> QED  BY <1>5, <1>6, <1>7, <1>10 DEF TriggerInv

\* A call that fails, and a restart, drop the results they hold.
LEMMA DroppedStep ==
    ASSUME TriggerInv, todo' = <<>>, wal' = wal, ram' \in {ram, wal},
           env' = [env EXCEPT !.sweep = <<>>, !.batch = {}]
    PROVE  TriggerInv'
<1>1. /\ DOMAIN env = {"now", "added", "batch", "sweep", "delivered"}
      /\ env.added \in Nat /\ env.delivered \in [Serial -> Nat]
  BY DEF TriggerInv, TriggerTypeOK
<1>2. /\ DOMAIN env' = DOMAIN env /\ env'.added = env.added /\ env'.batch = {}
      /\ env'.delivered = env.delivered
  BY <1>1
<1>3. TriggerTypeOK'
  BY <1>1, <1>2 DEF TriggerInv, TriggerTypeOK
<1>4. SerialInv'
  <2>1. CASE ram' = ram
    BY <1>2, <2>1 DEF TriggerInv, SerialInv
  <2>2. CASE ram' = wal
    BY <1>2, <2>2 DEF TriggerInv, SerialInv
  <2> QED  BY <2>1, <2>2
<1>5. TodoInv'
  BY DEF TodoInv
<1>6. DeliveryInv'
  <2>1. CASE ram' = ram
    BY <1>2, <2>1 DEF TriggerInv, DeliveryInv, Fresh
  <2>2. CASE ram' = wal
    BY <1>2, <2>2 DEF TriggerInv, DeliveryInv, Fresh
  <2> QED  BY <2>1, <2>2
<1> QED  BY <1>3, <1>4, <1>5, <1>6 DEF TriggerInv

\* save_full_snapshot: the body has no triggers.
LEMMA TriggerCheckpointStep ==
    ASSUME TriggerInv, Trigger!Resting, Trigger!Log!Checkpoint, UNCHANGED env
    PROVE  TriggerInv'
<1>1. ram' = ram /\ todo = <<>> /\ todo' = todo /\ wal' = Trigger!Empty
  BY Zenon DEF Trigger!Log!Checkpoint, Trigger!Log!Idle, Trigger!Body
<1>2. DOMAIN wal'.triggers = {} /\ TriggerMap(wal')
  BY <1>1 DEF Trigger!Empty, TriggerMap
<1>3. TriggerTypeOK'
  BY <1>1, <1>2 DEF TriggerInv, TriggerTypeOK
<1>4. SerialInv'
  BY <1>1, <1>2 DEF TriggerInv, SerialInv
<1>5. TodoInv'
  BY <1>1 DEF TodoInv
<1>6. DeliveryInv'
  BY <1>1, <1>2 DEF TriggerInv, DeliveryInv, Fresh
<1> QED  BY <1>3, <1>4, <1>5, <1>6 DEF TriggerInv

LEMMA TriggerInvInit ==
    ASSUME MaxTriggers \in Nat, Trigger!Init
    PROVE  TriggerInv
<1>1. ram = Trigger!Empty /\ wal = Trigger!Empty /\ todo = <<>>
  BY Zenon DEF Trigger!Init, Trigger!Log!LogInit
<1>2. /\ DOMAIN env = {"now", "added", "batch", "sweep", "delivered"}
      /\ env.added = 0 /\ env.batch = {} /\ env.delivered = [n \in Serial |-> 0]
  BY DEF Trigger!Init, Serial
<1>3. /\ DOMAIN ram.triggers = {} /\ TriggerMap(ram)
      /\ DOMAIN wal.triggers = {} /\ TriggerMap(wal)
  BY <1>1 DEF Trigger!Empty, TriggerMap
<1>4. TriggerTypeOK
  BY <1>2, <1>3 DEF TriggerTypeOK
<1>5. SerialInv /\ TodoInv
  BY <1>1, <1>3 DEF SerialInv, TodoInv
<1>6. DeliveryInv
  BY <1>2, <1>3 DEF DeliveryInv, Fresh
<1> QED  BY <1>4, <1>5, <1>6 DEF TriggerInv

LEMMA TriggerInvStep ==
    ASSUME MaxTriggers \in Nat, TriggerInv, [Trigger!Next]_Trigger!vars
    PROVE  TriggerInv'
<1>1. ASSUME NEW due \in 1 .. MaxNow, NEW tense \in BOOLEAN, Trigger!AddTrigger(due, tense)
      PROVE  TriggerInv'
  BY <1>1, AddTriggerStep
<1>2. DOMAIN env = {"now", "added", "batch", "sweep", "delivered"}
  BY DEF TriggerInv, TriggerTypeOK
<1>3. ASSUME NEW i, Trigger!FireTrigger(i)
      PROVE  TriggerInv'
  <2>1. todo = <<>> /\ env.batch = {} /\ Trigger!SetStatus(i, "fired")
    BY <1>3 DEF Trigger!FireTrigger, Trigger!Resting, Trigger!Log!Idle
  <2>2. /\ DOMAIN env' = DOMAIN env /\ env'.added = env.added
        /\ env'.delivered = env.delivered /\ env'.batch = {ram.triggers[i].serial}
    BY <1>2, <1>3 DEF Trigger!FireTrigger
  <2> QED  BY <2>1, <2>2, SetStatusStep
<1>4. ASSUME NEW i, Trigger!DismissTrigger(i)
      PROVE  TriggerInv'
  <2>1. todo = <<>> /\ Trigger!SetStatus(i, "expired") /\ env' = env
    BY <1>4 DEF Trigger!DismissTrigger, Trigger!Resting, Trigger!Log!Idle
  <2>2. env'.batch = env.batch
                     \cup (IF "expired" = "fired" THEN {ram.triggers[i].serial} ELSE {})
    BY <2>1
  <2> QED  BY <2>1, <2>2, SetStatusStep
<1>5. CASE Trigger!EvaluateTriggers
  BY <1>2, <1>5, TriggersStay DEF Trigger!EvaluateTriggers
<1>6. CASE Trigger!SweepNext
  <2> DEFINE i == Head(env.sweep)
  <2>1. todo = <<>>
    BY <1>6 DEF Trigger!SweepNext, Trigger!Log!Idle
  <2>2. CASE /\ Trigger!SetStatus(i, "fired")
             /\ env' = [env EXCEPT !.sweep = Tail(@),
                                   !.batch = @ \cup {ram.triggers[i].serial}]
    <3>1. /\ DOMAIN env' = DOMAIN env /\ env'.added = env.added
          /\ env'.delivered = env.delivered
          /\ env'.batch = env.batch \cup {ram.triggers[i].serial}
      BY <1>2, <2>2
    <3> QED  BY <2>1, <2>2, <3>1, SetStatusStep
  <2>3. CASE /\ env' = [env EXCEPT !.sweep = Tail(@)]
             /\ UNCHANGED <<ram, wal, todo, gap>>
    BY <1>2, <2>3, TriggersStay
  <2> QED  BY <1>6, <2>2, <2>3 DEF Trigger!SweepNext
<1>7. CASE Trigger!Return
  BY <1>7, ReturnStep
<1>8. CASE Trigger!AppendFails
  <2>1. /\ todo' = <<>> /\ wal' = wal /\ ram' = ram
        /\ env' = [env EXCEPT !.sweep = <<>>, !.batch = {}]
    BY <1>8, Zenon DEF Trigger!AppendFails, Trigger!Log!LogFails
  <2> QED  BY <2>1, DroppedStep
<1>9. CASE Trigger!TimePasses
  BY <1>2, <1>9, TriggersStay DEF Trigger!TimePasses
<1>10. CASE Trigger!Reopen
  <2>1. /\ todo' = <<>> /\ wal' = wal /\ ram' = wal
        /\ env' = [env EXCEPT !.sweep = <<>>, !.batch = {}]
    BY <1>10, Zenon DEF Trigger!Reopen, Trigger!Log!Restart
  <2> QED  BY <2>1, DroppedStep
<1>11. CASE Trigger!Log!Logged /\ UNCHANGED env
  BY <1>11, LoggedStep
<1>12. CASE Trigger!Resting /\ Trigger!Log!Checkpoint /\ UNCHANGED env
  BY <1>12, TriggerCheckpointStep
<1>13. CASE UNCHANGED Trigger!vars
  BY <1>13, TriggersStay DEF Trigger!vars
<1> QED  BY <1>1, <1>3, <1>4, <1>5, <1>6, <1>7, <1>8, <1>9, <1>10, <1>11, <1>12,
            <1>13, Zenon DEF Trigger!Next

-----------------------------------------------------------------------------
(* Constraints                                                              *)

FactShape(facts) ==
    \A i \in DOMAIN facts : /\ DOMAIN facts[i] = {"object", "branch", "active"}
                            /\ facts[i].branch \in Nat

StoreShape(s) ==
    /\ DOMAIN s = {"facts", "next", "branches", "nextBranch"}
    /\ s.next \in Nat /\ s.nextBranch \in Nat \ {0}
    /\ FactShape(s.facts)
    /\ \A b \in DOMAIN s.branches : b \in Nat /\ b < s.nextBranch

\* A record that the constraint store appends.
FactRecord(rec) ==
    \/ rec.op = "assert" /\ rec.id \in Nat /\ rec.branch \in Nat
    \/ rec.op = "retract"
    \/ rec.op = "branch" /\ rec.id \in Nat
    \/ rec.op = "resolve"

ConstraintTypeOK ==
    /\ StoreShape(ram) /\ StoreShape(wal)
    /\ DOMAIN env = {"ops", "unlogged", "inherited", "merged"}
    /\ env.unlogged \subseteq DOMAIN ram.branches
    /\ todo # <<>> => todo = <<Head(todo)>> /\ FactRecord(Head(todo))

\* A replayed store w mirrors s but for the branches u that were not logged.
Mirrors(w, s, u) ==
    /\ DOMAIN w.facts = DOMAIN s.facts /\ w.next = s.next
    /\ DOMAIN w.branches = DOMAIN s.branches \ u
    /\ \A i \in DOMAIN s.facts : s.facts[i].branch \notin u => w.facts[i] = s.facts[i]
    /\ u = {} => w = s

\* What open() rebuilds, with the record that is about to be appended.
MirrorInv ==
    ~gap => Mirrors(IF todo = <<>> THEN wal ELSE Constraint!Replay(wal, Head(todo)),
                    ram, env.unlogged)

\* Only a branch number that was used before it was handed out holds a
\* contradiction.
BranchInv ==
    ~env.merged =>
       \A i, j \in DOMAIN ram.facts :
          ram.facts[i].active /\ ram.facts[j].active
          /\ ram.facts[i].branch = ram.facts[j].branch
          /\ ram.facts[i].branch \notin env.inherited
             => ram.facts[i].object = ram.facts[j].object

ConstraintInv == ConstraintTypeOK /\ MirrorInv /\ BranchInv

-----------------------------------------------------------------------------
(* Operations of the constraint store                                       *)

NewFact(object, branch) == [object |-> object, branch |-> branch, active |-> TRUE]

FactAdded(t, s, i, object, branch) ==
    /\ t.branches = s.branches /\ t.nextBranch = s.nextBranch
    /\ t.next = Max({s.next, i + 1})
    /\ DOMAIN t.facts = DOMAIN s.facts \cup {i}
    /\ t.facts[i] = NewFact(object, branch)
    /\ t.facts[i].object = object /\ t.facts[i].branch = branch
    /\ \A j \in DOMAIN s.facts \ {i} : t.facts[j] = s.facts[j]

LEMMA AddFactIs ==
    ASSUME NEW s, StoreShape(s), NEW i \in Nat, NEW object, NEW branch \in Nat
    PROVE  /\ StoreShape(Constraint!AddFact(s, i, object, branch))
           /\ FactAdded(Constraint!AddFact(s, i, object, branch), s, i, object, branch)
<1> DEFINE new == [object |-> object, branch |-> branch, active |-> TRUE]
           t == Constraint!AddFact(s, i, object, branch)
<1>1. /\ DOMAIN new = {"object", "branch", "active"}
      /\ new.object = object /\ new.branch = branch
  OBVIOUS
<1>2. t = [s EXCEPT !.facts = Constraint!Insert(@, i, new), !.next = Max({@, i + 1})]
  BY DEF Constraint!AddFact, Constraint!Max, Max
<1> HIDE DEF new, t
<1>3. /\ DOMAIN t = DOMAIN s /\ t.branches = s.branches /\ t.nextBranch = s.nextBranch
      /\ t.next = Max({s.next, i + 1})
      /\ t.facts = [j \in DOMAIN s.facts \cup {i} |-> IF j = i THEN new ELSE s.facts[j]]
  BY <1>2 DEF StoreShape, Constraint!Insert
<1>4. /\ DOMAIN t.facts = DOMAIN s.facts \cup {i} /\ t.facts[i] = new
      /\ \A j \in DOMAIN s.facts \ {i} : t.facts[j] = s.facts[j]
  BY <1>3
<1>5. t.next \in Nat
  <2>1. s.next \in Nat /\ i + 1 \in Nat
    BY DEF StoreShape
  <2> QED  BY <1>3, <2>1, MaxTwo
<1>6. FactShape(t.facts)
  BY <1>1, <1>4 DEF StoreShape, FactShape
<1>7. StoreShape(t)
  BY <1>3, <1>5, <1>6 DEF StoreShape
<1>8. t.facts[i] = NewFact(object, branch)
  BY Zenon, <1>4 DEF new, NewFact
<1>9. FactAdded(t, s, i, object, branch)
  BY <1>1, <1>3, <1>4, <1>8 DEF FactAdded
<1> QED  BY <1>7, <1>9 DEF t

LEMMA AddBranchIs ==
    ASSUME NEW s, StoreShape(s), NEW b \in Nat, NEW t, t = Constraint!AddBranch(s, b)
    PROVE  /\ StoreShape(t) /\ t.facts = s.facts /\ t.next = s.next
           /\ DOMAIN t.branches = DOMAIN s.branches \cup {b}
           /\ s.nextBranch <= t.nextBranch /\ b < t.nextBranch
<1>1. /\ DOMAIN t = DOMAIN s /\ t.facts = s.facts /\ t.next = s.next
      /\ t.nextBranch = Max({s.nextBranch, b + 1})
      /\ DOMAIN t.branches = DOMAIN s.branches \cup {b}
  BY DEF Constraint!AddBranch, Constraint!Max, Max, StoreShape, Constraint!Insert
<1>2. s.nextBranch \in Nat /\ s.nextBranch > 0 /\ b + 1 \in Nat
  BY DEF StoreShape
<1>3. /\ t.nextBranch \in {s.nextBranch, b + 1}
      /\ s.nextBranch <= t.nextBranch /\ b + 1 <= t.nextBranch
  BY <1>1, <1>2, MaxTwo
<1>4. \A c \in DOMAIN t.branches : c \in Nat /\ c < t.nextBranch
  BY <1>1, <1>2, <1>3 DEF StoreShape
<1> QED  BY <1>1, <1>2, <1>3, <1>4 DEF StoreShape

\* A fact that lost its validity keeps object and branch.
Withdrawn(fact) == [fact EXCEPT !.active = FALSE]

RetractedIn(f, facts, ids) ==
    /\ DOMAIN f = DOMAIN facts
    /\ \A i \in DOMAIN facts : /\ i \in ids => f[i] = Withdrawn(facts[i])
                               /\ i \notin ids => f[i] = facts[i]
                               /\ f[i].object = facts[i].object
                               /\ f[i].branch = facts[i].branch
                               /\ f[i].active => facts[i].active

LEMMA RetractIs ==
    ASSUME NEW facts, FactShape(facts), NEW ids
    PROVE  /\ FactShape(Constraint!Retract(facts, ids))
           /\ RetractedIn(Constraint!Retract(facts, ids), facts, ids)
<1> DEFINE f == Constraint!Retract(facts, ids)
<1>1. DOMAIN f = DOMAIN facts
  BY DEF Constraint!Retract
<1>2. ASSUME NEW i \in DOMAIN facts
      PROVE  /\ DOMAIN f[i] = {"object", "branch", "active"}
             /\ i \in ids => f[i] = Withdrawn(facts[i])
             /\ i \notin ids => f[i] = facts[i]
             /\ f[i].object = facts[i].object /\ f[i].branch = facts[i].branch
             /\ f[i].active => facts[i].active
  <2>1. DOMAIN facts[i] = {"object", "branch", "active"}
    BY DEF FactShape
  <2>2. CASE i \in ids
    <3>1. f[i] = [facts[i] EXCEPT !.active = FALSE]
      BY <2>2 DEF Constraint!Retract
    <3>2. f[i] = Withdrawn(facts[i])
      BY Zenon, <3>1 DEF Withdrawn
    <3> QED  BY <2>1, <2>2, <3>1, <3>2
  <2>3. CASE i \notin ids
    BY <2>1, <2>3 DEF Constraint!Retract
  <2> QED  BY <2>2, <2>3
<1> QED  BY <1>1, <1>2 DEF FactShape, RetractedIn

LEMMA RetractStoreIs ==
    ASSUME NEW s, StoreShape(s), NEW ids,
           NEW t, t = [s EXCEPT !.facts = Constraint!Retract(@, ids)]
    PROVE  /\ StoreShape(t) /\ RetractedIn(t.facts, s.facts, ids)
           /\ t.next = s.next /\ t.branches = s.branches /\ t.nextBranch = s.nextBranch
<1>1. /\ DOMAIN t = DOMAIN s /\ t.facts = Constraint!Retract(s.facts, ids)
      /\ t.next = s.next /\ t.branches = s.branches /\ t.nextBranch = s.nextBranch
  BY DEF StoreShape
<1>2. FactShape(s.facts)
  BY DEF StoreShape
<1>3. FactShape(t.facts) /\ RetractedIn(t.facts, s.facts, ids)
  BY <1>1, <1>2, RetractIs
<1> QED  BY <1>1, <1>3 DEF StoreShape

\* The facts of a branch.
OnBranch(s, b) == {i \in DOMAIN s.facts : s.facts[i].branch = b}

LEMMA ResolveIs ==
    ASSUME NEW s, StoreShape(s), NEW winner, NEW loser,
           NEW t, t = Constraint!Resolve(s, winner, loser)
    PROVE  /\ StoreShape(t) /\ t.next = s.next /\ t.nextBranch = s.nextBranch
           /\ DOMAIN t.branches = DOMAIN s.branches
           /\ loser \notin DOMAIN s.branches => t = s
           /\ loser \in DOMAIN s.branches =>
                 RetractedIn(t.facts, s.facts, OnBranch(s, loser))
<1>1. CASE loser \notin DOMAIN s.branches
  <2>1. t = s
    BY <1>1 DEF Constraint!Resolve
  <2> QED  BY <1>1, <2>1
<1>2. CASE loser \in DOMAIN s.branches
  <2> DEFINE ids == OnBranch(s, loser)
             branches == [b \in DOMAIN s.branches |->
                            IF b = winner THEN "merged"
                            ELSE IF b = loser THEN "abandoned" ELSE s.branches[b]]
  <2>1. t = [s EXCEPT !.branches = branches, !.facts = Constraint!Retract(@, ids)]
    BY <1>2 DEF Constraint!Resolve, OnBranch
  <2>2. DOMAIN branches = DOMAIN s.branches
    OBVIOUS
  <2> HIDE DEF branches, ids
  <2>3. /\ DOMAIN t = DOMAIN s /\ t.facts = Constraint!Retract(s.facts, ids)
        /\ t.next = s.next /\ t.branches = branches /\ t.nextBranch = s.nextBranch
    BY <2>1 DEF StoreShape
  <2>4. FactShape(s.facts)
    BY DEF StoreShape
  <2>5. FactShape(t.facts) /\ RetractedIn(t.facts, s.facts, ids)
    BY <2>3, <2>4, RetractIs
  <2>6. StoreShape(t)
    BY <2>2, <2>3, <2>5 DEF StoreShape
  <2> QED  BY <1>2, <2>2, <2>3, <2>5, <2>6 DEF ids
<1> QED  BY <1>1, <1>2

-----------------------------------------------------------------------------
(* The constraint store's steps                                             *)

\* A call changes the store and has one record to append.
LEMMA ConstraintCallKeeps ==
    ASSUME ConstraintInv, todo = <<>>, NEW rec, FactRecord(rec), todo' = <<rec>>,
           wal' = wal, gap' = gap, StoreShape(ram'), DOMAIN env' = DOMAIN env,
           env'.unlogged \subseteq DOMAIN ram'.branches,
           Mirrors(wal, ram, env.unlogged)
             => Mirrors(Constraint!Replay(wal, rec), ram', env'.unlogged),
           BranchInv'
    PROVE  ConstraintInv'
<1>1. todo' # <<>> /\ Head(todo') = rec
  OBVIOUS
<1>2. ConstraintTypeOK'
  BY <1>1 DEF ConstraintInv, ConstraintTypeOK
<1>3. MirrorInv'
  BY <1>1 DEF ConstraintInv, MirrorInv
<1> QED  BY <1>2, <1>3 DEF ConstraintInv

LEMMA AssertKeeps ==
    ASSUME ConstraintInv, NEW object, NEW branch \in Nat,
           Constraint!AssertConstraint(object, branch)
    PROVE  ConstraintInv'
<1> DEFINE i == ram.next
           b == ram.nextBranch
           rec == [op |-> "assert", id |-> i, object |-> object, branch |-> branch]
<1>1. /\ StoreShape(ram) /\ StoreShape(wal) /\ DOMAIN env = {"ops", "unlogged", "inherited", "merged"}
      /\ env.unlogged \subseteq DOMAIN ram.branches
  BY DEF ConstraintInv, ConstraintTypeOK
<1>2. /\ i \in Nat /\ b \in Nat /\ b \notin DOMAIN ram.branches
  BY <1>1 DEF StoreShape
<1>3. /\ rec.op = "assert" /\ rec.id = i /\ rec.object = object /\ rec.branch = branch
  OBVIOUS
<1>4. /\ todo = <<>> /\ todo' = <<rec>> /\ wal' = wal /\ gap' = gap
  BY DEF Constraint!AssertConstraint, Constraint!Do, Constraint!Log!Idle
<1>5. \/ /\ Constraint!Rivals(ram, object, branch) = {}
         /\ ram' = Constraint!AddFact(ram, i, object, branch)
         /\ env' = [env EXCEPT !.ops = @ + 1]
      \/ /\ ram' = Constraint!AddFact(Constraint!AddBranch(ram, b), i, object, b)
         /\ env' = [env EXCEPT !.ops = @ + 1, !.unlogged = @ \cup {b},
                      !.inherited = IF Constraint!Rivals(ram, object, b) = {} THEN @
                                    ELSE @ \cup {b}]
  BY DEF Constraint!AssertConstraint, Constraint!Do, Constraint!Counted
<1> DEFINE w == Constraint!Replay(wal, rec)
<1>6. w = Constraint!AddFact(wal, i, object, branch)
  BY <1>3 DEF Constraint!Replay
<1>7. FactRecord(rec)
  BY <1>2, <1>3 DEF FactRecord
<1> HIDE DEF rec, i, b, w
<1>8. FactAdded(w, wal, i, object, branch)
  BY <1>1, <1>2, <1>6, AddFactIs
<1>9. CASE /\ Constraint!Rivals(ram, object, branch) = {}
           /\ ram' = Constraint!AddFact(ram, i, object, branch)
           /\ env' = [env EXCEPT !.ops = @ + 1]
  <2>1. StoreShape(ram') /\ FactAdded(ram', ram, i, object, branch)
    BY <1>1, <1>2, <1>9, AddFactIs
  <2>2. /\ DOMAIN env' = DOMAIN env /\ env'.unlogged = env.unlogged
        /\ env'.merged = env.merged /\ env'.inherited = env.inherited
    BY <1>1, <1>9
  <2>3. Mirrors(wal, ram, env.unlogged) => Mirrors(w, ram', env.unlogged)
    <3> SUFFICES ASSUME Mirrors(wal, ram, env.unlogged)
                 PROVE  Mirrors(w, ram', env.unlogged)
      OBVIOUS
    <3>1. env.unlogged = {} => w = ram'
      BY <1>6, <1>9 DEF Mirrors
    <3>2. w.next = ram'.next /\ DOMAIN w.facts = DOMAIN ram'.facts
      BY <1>8, <2>1 DEF Mirrors, FactAdded
    <3>3. w.facts[i] = ram'.facts[i]
      BY <1>8, <2>1 DEF FactAdded
    <3>4. \A j \in DOMAIN ram'.facts :
             ram'.facts[j].branch \notin env.unlogged => w.facts[j] = ram'.facts[j]
      BY <1>8, <2>1, <3>3 DEF Mirrors, FactAdded
    <3>5. DOMAIN w.branches = DOMAIN ram'.branches \ env.unlogged
      BY <1>8, <2>1 DEF Mirrors, FactAdded
    <3> QED  BY <3>1, <3>2, <3>4, <3>5 DEF Mirrors
  <2>4. BranchInv'
    <3> SUFFICES ASSUME ~env'.merged PROVE BranchInv'
      BY DEF BranchInv
    <3>0. BranchInv /\ ~env.merged
      BY <2>2 DEF ConstraintInv
    <3>2. \A j \in DOMAIN ram.facts :
             ram.facts[j].active /\ ram.facts[j].branch = branch => ram.facts[j].object = object
      BY <1>9 DEF Constraint!Rivals, Constraint!Active
    <3>3. \A j, k \in DOMAIN ram'.facts :
             ram'.facts[j].active /\ ram'.facts[k].active
             /\ ram'.facts[j].branch = ram'.facts[k].branch
             /\ ram'.facts[j].branch \notin env'.inherited
                => ram'.facts[j].object = ram'.facts[k].object
      <4> SUFFICES ASSUME NEW j \in DOMAIN ram'.facts, NEW k \in DOMAIN ram'.facts,
                          ram'.facts[j].active, ram'.facts[k].active,
                          ram'.facts[j].branch = ram'.facts[k].branch,
                          ram'.facts[j].branch \notin env'.inherited
                   PROVE  ram'.facts[j].object = ram'.facts[k].object
        OBVIOUS
      <4>1. CASE j # i /\ k # i
        BY <2>1, <2>2, <3>0, <4>1 DEF BranchInv, FactAdded
      <4>2. CASE j = i \/ k = i
        BY <2>1, <3>2, <4>2 DEF FactAdded
      <4> QED  BY <4>1, <4>2
    <3> QED  BY <3>3 DEF BranchInv
  <2>5. env'.unlogged \subseteq DOMAIN ram'.branches
    BY <1>1, <2>1, <2>2 DEF FactAdded
  <2> QED  BY <1>4, <1>7, <2>1, <2>2, <2>3, <2>4, <2>5, ConstraintCallKeeps DEF w
<1>10. CASE /\ ram' = Constraint!AddFact(Constraint!AddBranch(ram, b), i, object, b)
            /\ env' = [env EXCEPT !.ops = @ + 1, !.unlogged = @ \cup {b},
                         !.inherited = IF Constraint!Rivals(ram, object, b) = {} THEN @
                                       ELSE @ \cup {b}]
  <2> DEFINE t == Constraint!AddBranch(ram, b)
  <2>1. /\ StoreShape(t) /\ t.facts = ram.facts /\ t.next = ram.next
        /\ DOMAIN t.branches = DOMAIN ram.branches \cup {b}
        /\ ram.nextBranch <= t.nextBranch /\ b < t.nextBranch
    BY <1>1, <1>2, AddBranchIs
  <2>2. ram' = Constraint!AddFact(t, i, object, b)
    BY <1>10
  <2> HIDE DEF t
  <2>3. StoreShape(ram') /\ FactAdded(ram', t, i, object, b)
    BY <1>2, <2>1, <2>2, AddFactIs
  <2>4. /\ DOMAIN env' = DOMAIN env /\ env'.unlogged = env.unlogged \cup {b}
        /\ env'.merged = env.merged
        /\ env'.inherited = IF Constraint!Rivals(ram, object, b) = {} THEN env.inherited
                            ELSE env.inherited \cup {b}
    BY <1>1, <1>10
  <2>5. Mirrors(wal, ram, env.unlogged) => Mirrors(w, ram', env'.unlogged)
    <3> SUFFICES ASSUME Mirrors(wal, ram, env.unlogged)
                 PROVE  Mirrors(w, ram', env'.unlogged)
      OBVIOUS
    <3>1. w.next = ram'.next /\ DOMAIN w.facts = DOMAIN ram'.facts
      BY <1>8, <2>1, <2>3 DEF Mirrors, FactAdded
    <3>2. \A j \in DOMAIN ram'.facts :
             ram'.facts[j].branch \notin env'.unlogged => w.facts[j] = ram'.facts[j]
      BY <1>8, <2>1, <2>3, <2>4 DEF Mirrors, FactAdded
    <3>3. DOMAIN w.branches = DOMAIN ram'.branches \ env'.unlogged
      BY <1>2, <1>8, <2>1, <2>3, <2>4 DEF Mirrors, FactAdded
    <3>4. env'.unlogged # {}
      BY <2>4
    <3> QED  BY <3>1, <3>2, <3>3, <3>4 DEF Mirrors
  <2>6. BranchInv'
    <3> SUFFICES ASSUME ~env'.merged PROVE BranchInv'
      BY DEF BranchInv
    <3>0. BranchInv /\ ~env.merged
      BY <2>4 DEF ConstraintInv
    <3>1. b \notin env'.inherited =>
            \A j \in DOMAIN ram.facts :
              ram.facts[j].active /\ ram.facts[j].branch = b => ram.facts[j].object = object
      BY <2>4 DEF Constraint!Rivals, Constraint!Active
    <3>4. \A j, k \in DOMAIN ram'.facts :
             ram'.facts[j].active /\ ram'.facts[k].active
             /\ ram'.facts[j].branch = ram'.facts[k].branch
             /\ ram'.facts[j].branch \notin env'.inherited
                => ram'.facts[j].object = ram'.facts[k].object
      <4> SUFFICES ASSUME NEW j \in DOMAIN ram'.facts, NEW k \in DOMAIN ram'.facts,
                          ram'.facts[j].active, ram'.facts[k].active,
                          ram'.facts[j].branch = ram'.facts[k].branch,
                          ram'.facts[j].branch \notin env'.inherited
                   PROVE  ram'.facts[j].object = ram'.facts[k].object
        OBVIOUS
      <4>1. CASE j # i /\ k # i
        BY <2>1, <2>3, <2>4, <3>0, <4>1 DEF BranchInv, FactAdded
      <4>2. CASE j = i \/ k = i
        BY <2>1, <2>3, <3>1, <4>2 DEF FactAdded
      <4> QED  BY <4>1, <4>2
    <3> QED  BY <3>4 DEF BranchInv
  <2>7. env'.unlogged \subseteq DOMAIN ram'.branches
    BY <1>1, <2>1, <2>3, <2>4 DEF FactAdded
  <2> QED  BY <1>4, <1>7, <2>3, <2>4, <2>5, <2>6, <2>7, ConstraintCallKeeps DEF w
<1> QED  BY <1>5, <1>9, <1>10

\* Taking validity from facts makes no branch contradict itself.
LEMMA RetractedConsistent ==
    ASSUME ConstraintInv, NEW ids, RetractedIn(ram'.facts, ram.facts, ids),
           env'.merged = env.merged, env'.inherited = env.inherited
    PROVE  BranchInv'
<1> SUFFICES ASSUME ~env'.merged PROVE BranchInv'
  BY DEF BranchInv
<1>1. BranchInv /\ ~env.merged
  BY DEF ConstraintInv
<1>2. \A i, j \in DOMAIN ram'.facts :
         ram'.facts[i].active /\ ram'.facts[j].active
         /\ ram'.facts[i].branch = ram'.facts[j].branch
         /\ ram'.facts[i].branch \notin env'.inherited
            => ram'.facts[i].object = ram'.facts[j].object
  <2> SUFFICES ASSUME NEW i \in DOMAIN ram'.facts, NEW j \in DOMAIN ram'.facts,
                      ram'.facts[i].active, ram'.facts[j].active,
                      ram'.facts[i].branch = ram'.facts[j].branch,
                      ram'.facts[i].branch \notin env'.inherited
               PROVE  ram'.facts[i].object = ram'.facts[j].object
    OBVIOUS
  <2>1. /\ i \in DOMAIN ram.facts /\ j \in DOMAIN ram.facts
        /\ ram.facts[i].active /\ ram.facts[j].active
        /\ ram.facts[i].branch = ram.facts[j].branch
        /\ ram.facts[i].branch = ram'.facts[i].branch
        /\ ram'.facts[i].object = ram.facts[i].object
        /\ ram'.facts[j].object = ram.facts[j].object
    BY DEF RetractedIn
  <2> QED  BY <1>1, <2>1 DEF BranchInv
<1> QED  BY <1>2 DEF BranchInv

LEMMA RetractKeeps ==
    ASSUME ConstraintInv, NEW i \in DOMAIN ram.facts, Constraint!RetractConstraint(i)
    PROVE  ConstraintInv'
<1> DEFINE rec == [op |-> "retract", id |-> i]
           w == Constraint!Replay(wal, rec)
<1>1. /\ StoreShape(ram) /\ StoreShape(wal) /\ DOMAIN env = {"ops", "unlogged", "inherited", "merged"}
      /\ env.unlogged \subseteq DOMAIN ram.branches
  BY DEF ConstraintInv, ConstraintTypeOK
<1>2. rec.op = "retract" /\ rec.id = i /\ FactRecord(rec)
  BY DEF FactRecord
<1>3. /\ todo = <<>> /\ todo' = <<rec>> /\ wal' = wal /\ gap' = gap
      /\ ram' = [ram EXCEPT !.facts = Constraint!Retract(@, {i})]
      /\ env' = [env EXCEPT !.ops = @ + 1]
  BY DEF Constraint!RetractConstraint, Constraint!Do, Constraint!Counted, Constraint!Log!Idle
<1>4. i \in DOMAIN wal.facts => w = [wal EXCEPT !.facts = Constraint!Retract(@, {i})]
  BY <1>2 DEF Constraint!Replay
<1> HIDE DEF rec, w
<1>5. /\ StoreShape(ram') /\ RetractedIn(ram'.facts, ram.facts, {i})
      /\ ram'.next = ram.next /\ ram'.branches = ram.branches
      /\ ram'.nextBranch = ram.nextBranch
  BY <1>1, <1>3, RetractStoreIs
<1>6. /\ DOMAIN env' = DOMAIN env /\ env'.unlogged = env.unlogged
      /\ env'.merged = env.merged /\ env'.inherited = env.inherited
  BY <1>1, <1>3
<1>7. Mirrors(wal, ram, env.unlogged) => Mirrors(w, ram', env'.unlogged)
  <2> SUFFICES ASSUME Mirrors(wal, ram, env.unlogged)
               PROVE  Mirrors(w, ram', env.unlogged)
    BY <1>6
  <2>1. w = [wal EXCEPT !.facts = Constraint!Retract(@, {i})]
    BY <1>4 DEF Mirrors
  <2>2. /\ RetractedIn(w.facts, wal.facts, {i})
        /\ w.next = wal.next /\ w.branches = wal.branches
    BY <1>1, <2>1, RetractStoreIs
  <2>3. env.unlogged = {} => w = ram'
    BY <1>3, <2>1 DEF Mirrors
  <2> QED  BY <1>5, <2>2, <2>3 DEF Mirrors, RetractedIn
<1>8. BranchInv'
  BY <1>5, <1>6, RetractedConsistent
<1>9. env'.unlogged \subseteq DOMAIN ram'.branches
  BY <1>1, <1>5, <1>6
<1> QED  BY <1>2, <1>3, <1>5, <1>6, <1>7, <1>8, <1>9, ConstraintCallKeeps DEF w

LEMMA CreateBranchKeeps ==
    ASSUME ConstraintInv, Constraint!CreateConstraintBranch
    PROVE  ConstraintInv'
<1> DEFINE b == ram.nextBranch
           rec == [op |-> "branch", id |-> b]
           w == Constraint!Replay(wal, rec)
<1>1. /\ StoreShape(ram) /\ StoreShape(wal) /\ DOMAIN env = {"ops", "unlogged", "inherited", "merged"}
      /\ env.unlogged \subseteq DOMAIN ram.branches
  BY DEF ConstraintInv, ConstraintTypeOK
<1>2. b \in Nat /\ b \notin DOMAIN ram.branches
  BY <1>1 DEF StoreShape
<1>3. rec.op = "branch" /\ rec.id = b /\ FactRecord(rec)
  BY <1>2 DEF FactRecord
<1>4. /\ todo = <<>> /\ todo' = <<rec>> /\ wal' = wal /\ gap' = gap
      /\ ram' = Constraint!AddBranch(ram, b) /\ env' = [env EXCEPT !.ops = @ + 1]
  BY DEF Constraint!CreateConstraintBranch, Constraint!Do, Constraint!Counted,
         Constraint!Log!Idle
<1>5. w = Constraint!AddBranch(wal, b)
  BY <1>3 DEF Constraint!Replay
<1> HIDE DEF rec, w, b
<1>6. /\ StoreShape(ram') /\ ram'.facts = ram.facts /\ ram'.next = ram.next
      /\ DOMAIN ram'.branches = DOMAIN ram.branches \cup {b}
      /\ ram.nextBranch <= ram'.nextBranch
  BY <1>1, <1>2, <1>4, AddBranchIs
<1>7. /\ w.facts = wal.facts /\ w.next = wal.next
      /\ DOMAIN w.branches = DOMAIN wal.branches \cup {b}
  BY <1>1, <1>2, <1>5, AddBranchIs
<1>8. /\ DOMAIN env' = DOMAIN env /\ env'.unlogged = env.unlogged
      /\ env'.merged = env.merged /\ env'.inherited = env.inherited
  BY <1>1, <1>4
<1>9. Mirrors(wal, ram, env.unlogged) => Mirrors(w, ram', env'.unlogged)
  <2> SUFFICES ASSUME Mirrors(wal, ram, env.unlogged)
               PROVE  Mirrors(w, ram', env.unlogged)
    BY <1>8
  <2>1. env.unlogged = {} => w = ram'
    BY <1>4, <1>5 DEF Mirrors
  <2>2. DOMAIN w.branches = DOMAIN ram'.branches \ env.unlogged
    BY <1>1, <1>2, <1>6, <1>7 DEF Mirrors
  <2> QED  BY <1>6, <1>7, <2>1, <2>2 DEF Mirrors
<1>10. BranchInv'
  <2> SUFFICES ASSUME ~env'.merged PROVE BranchInv'
    BY DEF BranchInv
  <2>1. BranchInv /\ ~env.merged
    BY <1>8 DEF ConstraintInv
  <2> QED  BY <1>6, <1>8, <2>1 DEF BranchInv
<1>11. env'.unlogged \subseteq DOMAIN ram'.branches
  BY <1>1, <1>6, <1>8
<1> QED  BY <1>3, <1>4, <1>6, <1>8, <1>9, <1>10, <1>11, ConstraintCallKeeps DEF w

LEMMA ResolveKeeps ==
    ASSUME ConstraintInv, NEW winner, NEW loser \in DOMAIN ram.branches,
           Constraint!ResolveConstraintBranch(winner, loser)
    PROVE  ConstraintInv'
<1> DEFINE rec == [op |-> "resolve", winner |-> winner, loser |-> loser]
           w == Constraint!Replay(wal, rec)
<1>1. /\ StoreShape(ram) /\ StoreShape(wal) /\ DOMAIN env = {"ops", "unlogged", "inherited", "merged"}
      /\ env.unlogged \subseteq DOMAIN ram.branches
  BY DEF ConstraintInv, ConstraintTypeOK
<1>2. rec.op = "resolve" /\ rec.winner = winner /\ rec.loser = loser /\ FactRecord(rec)
  BY DEF FactRecord
<1>3. /\ todo = <<>> /\ todo' = <<rec>> /\ wal' = wal /\ gap' = gap
      /\ ram' = Constraint!Resolve(ram, winner, loser) /\ env' = [env EXCEPT !.ops = @ + 1]
  BY DEF Constraint!ResolveConstraintBranch, Constraint!Do, Constraint!Counted,
         Constraint!Log!Idle
<1>4. w = Constraint!Resolve(wal, winner, loser)
  BY <1>2 DEF Constraint!Replay
<1> HIDE DEF rec, w
<1>5. /\ StoreShape(ram') /\ ram'.next = ram.next /\ ram'.nextBranch = ram.nextBranch
      /\ DOMAIN ram'.branches = DOMAIN ram.branches
      /\ RetractedIn(ram'.facts, ram.facts, OnBranch(ram, loser))
  BY <1>1, <1>3, ResolveIs
<1>6. /\ w.next = wal.next /\ DOMAIN w.branches = DOMAIN wal.branches
      /\ loser \notin DOMAIN wal.branches => w = wal
      /\ loser \in DOMAIN wal.branches => RetractedIn(w.facts, wal.facts, OnBranch(wal, loser))
  BY <1>1, <1>4, ResolveIs
<1>7. /\ DOMAIN env' = DOMAIN env /\ env'.unlogged = env.unlogged
      /\ env'.merged = env.merged /\ env'.inherited = env.inherited
  BY <1>1, <1>3
<1>8. Mirrors(wal, ram, env.unlogged) => Mirrors(w, ram', env'.unlogged)
  <2> SUFFICES ASSUME Mirrors(wal, ram, env.unlogged)
               PROVE  Mirrors(w, ram', env.unlogged)
    BY <1>7
  <2>1. env.unlogged = {} => w = ram'
    BY <1>3, <1>4 DEF Mirrors
  <2>2. DOMAIN w.facts = DOMAIN ram'.facts
    BY <1>5, <1>6 DEF Mirrors, RetractedIn
  <2>3. ASSUME NEW i \in DOMAIN ram'.facts, ram'.facts[i].branch \notin env.unlogged
        PROVE  w.facts[i] = ram'.facts[i]
    <3>1. /\ i \in DOMAIN ram.facts /\ i \in DOMAIN wal.facts
          /\ ram.facts[i].branch \notin env.unlogged /\ wal.facts[i] = ram.facts[i]
      BY <1>5, <2>3 DEF Mirrors, RetractedIn
    <3>2. loser \in DOMAIN wal.branches <=> loser \notin env.unlogged
      BY DEF Mirrors
    <3>3. i \in OnBranch(wal, loser) <=> i \in OnBranch(ram, loser)
      BY <3>1 DEF OnBranch
    <3>4. CASE loser \in env.unlogged
      <4>1. i \notin OnBranch(ram, loser)
        BY <3>1, <3>4 DEF OnBranch
      <4> QED  BY <1>5, <1>6, <3>1, <3>2, <3>4, <4>1 DEF RetractedIn
    <3>5. CASE loser \notin env.unlogged
      BY <1>5, <1>6, <3>1, <3>2, <3>3, <3>5 DEF RetractedIn
    <3> QED  BY <3>4, <3>5
  <2> QED  BY <1>5, <1>6, <2>1, <2>2, <2>3 DEF Mirrors
<1>9. BranchInv'
  BY <1>5, <1>7, RetractedConsistent
<1>10. env'.unlogged \subseteq DOMAIN ram'.branches
  BY <1>1, <1>5, <1>7
<1> QED  BY <1>2, <1>3, <1>5, <1>7, <1>8, <1>9, <1>10, ConstraintCallKeeps DEF w

\* Replaying one record gives a store again.
LEMMA ReplayShape ==
    ASSUME NEW s, StoreShape(s), NEW rec, FactRecord(rec)
    PROVE  StoreShape(Constraint!Replay(s, rec))
<1>1. CASE rec.op = "assert" /\ rec.id \in Nat /\ rec.branch \in Nat
  <2>1. Constraint!Replay(s, rec) = Constraint!AddFact(s, rec.id, rec.object, rec.branch)
    BY <1>1 DEF Constraint!Replay
  <2> QED  BY <1>1, <2>1, AddFactIs
<1>2. CASE rec.op = "retract"
  <2>1. CASE rec.id \in DOMAIN s.facts
    <3>1. Constraint!Replay(s, rec) = [s EXCEPT !.facts = Constraint!Retract(@, {rec.id})]
      BY <1>2, <2>1 DEF Constraint!Replay
    <3> QED  BY <3>1, RetractStoreIs
  <2>2. CASE rec.id \notin DOMAIN s.facts
    BY <1>2, <2>2 DEF Constraint!Replay
  <2> QED  BY <2>1, <2>2
<1>3. CASE rec.op = "branch" /\ rec.id \in Nat
  <2>1. Constraint!Replay(s, rec) = Constraint!AddBranch(s, rec.id)
    BY <1>3 DEF Constraint!Replay
  <2> QED  BY <1>3, <2>1, AddBranchIs
<1>4. CASE rec.op = "resolve"
  <2>1. Constraint!Replay(s, rec) = Constraint!Resolve(s, rec.winner, rec.loser)
    BY <1>4 DEF Constraint!Replay
  <2> QED  BY <2>1, ResolveIs
<1> QED  BY <1>1, <1>2, <1>3, <1>4 DEF FactRecord

LEMMA FactLoggedKeeps ==
    ASSUME ConstraintInv, Constraint!Log!Logged, UNCHANGED env
    PROVE  ConstraintInv'
<1>1. /\ todo # <<>> /\ wal' = Constraint!Replay(wal, Head(todo)) /\ todo' = Tail(todo)
      /\ ram' = ram /\ gap' = gap /\ env' = env
  BY DEF Constraint!Log!Logged, Constraint!Log!Idle
<1>2. todo = <<Head(todo)>> /\ FactRecord(Head(todo))
  BY <1>1 DEF ConstraintInv, ConstraintTypeOK
<1>3. todo' = <<>>
  <2>1. \A r : Tail(<<r>>) = <<>>
    OBVIOUS
  <2> QED  BY <1>1, <1>2, <2>1
<1>4. StoreShape(wal')
  BY <1>1, <1>2, ReplayShape DEF ConstraintInv, ConstraintTypeOK
<1>5. ConstraintTypeOK'
  BY <1>1, <1>3, <1>4 DEF ConstraintInv, ConstraintTypeOK
<1>6. MirrorInv'
  BY <1>1, <1>3 DEF ConstraintInv, MirrorInv
<1>7. BranchInv'
  BY <1>1 DEF ConstraintInv, BranchInv
<1> QED  BY <1>5, <1>6, <1>7 DEF ConstraintInv

LEMMA FactLogFailsKeeps ==
    ASSUME ConstraintInv, Constraint!Log!LogFails, UNCHANGED env
    PROVE  ConstraintInv'
<1>1. /\ todo' = <<>> /\ gap' /\ ram' = ram /\ wal' = wal /\ env' = env
  BY DEF Constraint!Log!LogFails
<1> QED  BY <1>1 DEF ConstraintInv, ConstraintTypeOK, MirrorInv, BranchInv

LEMMA EmptyShape ==
    /\ StoreShape(Constraint!Empty)
    /\ DOMAIN Constraint!Empty.facts = {} /\ DOMAIN Constraint!Empty.branches = {}
<1>1. /\ DOMAIN Constraint!Empty = {"facts", "next", "branches", "nextBranch"}
      /\ Constraint!Empty.next = 1 /\ Constraint!Empty.nextBranch = 1
      /\ DOMAIN Constraint!Empty.facts = {} /\ DOMAIN Constraint!Empty.branches = {}
  BY DEF Constraint!Empty
<1> QED  BY <1>1 DEF StoreShape, FactShape

LEMMA FactCheckpointKeeps ==
    ASSUME ConstraintInv, Constraint!Log!Checkpoint, UNCHANGED env
    PROVE  ConstraintInv'
<1>1. /\ todo = <<>> /\ todo' = <<>> /\ ram' = ram /\ env' = env
      /\ wal' = Constraint!Empty /\ (gap' <=> Constraint!Empty # ram)
  BY Zenon DEF Constraint!Log!Checkpoint, Constraint!Log!Idle, Constraint!Body
<1>2. ConstraintTypeOK'
  BY <1>1, EmptyShape DEF ConstraintInv, ConstraintTypeOK
<1>3. MirrorInv'
  <2> SUFFICES ASSUME ~gap' PROVE Mirrors(wal', ram', env'.unlogged)
    BY <1>1 DEF MirrorInv
  <2>1. wal' = ram' /\ DOMAIN ram'.branches = {}
    BY <1>1, EmptyShape
  <2> QED  BY <2>1 DEF Mirrors
<1>4. BranchInv'
  BY <1>1 DEF ConstraintInv, BranchInv
<1> QED  BY <1>2, <1>3, <1>4 DEF ConstraintInv

LEMMA FactReopenKeeps ==
    ASSUME ConstraintInv, Constraint!Reopen
    PROVE  ConstraintInv'
<1>1. /\ ram' = wal /\ wal' = wal /\ todo' = <<>> /\ ~gap'
      /\ env' = [env EXCEPT !.unlogged = {},
                   !.merged = @ \/ gap \/ todo # <<>> \/ env.unlogged # {}]
  BY Zenon DEF Constraint!Reopen, Constraint!Log!Restart
<1>2. /\ DOMAIN env' = DOMAIN env /\ env'.unlogged = {} /\ env'.inherited = env.inherited
      /\ ~env'.merged => ~env.merged /\ ~gap /\ todo = <<>> /\ env.unlogged = {}
  BY <1>1 DEF ConstraintInv, ConstraintTypeOK
<1>3. ConstraintTypeOK'
  BY <1>1, <1>2 DEF ConstraintInv, ConstraintTypeOK
<1>4. MirrorInv'
  BY <1>1, <1>2 DEF MirrorInv, Mirrors
<1>5. BranchInv'
  <2> SUFFICES ASSUME ~env'.merged PROVE BranchInv'
    BY DEF BranchInv
  <2>1. ram' = ram /\ ~env.merged
    BY <1>1, <1>2 DEF ConstraintInv, MirrorInv, Mirrors
  <2> QED  BY <1>2, <2>1 DEF ConstraintInv, BranchInv
<1> QED  BY <1>3, <1>4, <1>5 DEF ConstraintInv

LEMMA ConstraintInductive ==
    ASSUME MaxFacts \in Nat
    PROVE  /\ Constraint!Init => ConstraintInv
           /\ ConstraintInv /\ [Constraint!Next]_<<ram, wal, todo, gap, env>> => ConstraintInv'
<1>1. Constraint!Init => ConstraintInv
  <2> SUFFICES ASSUME Constraint!Init PROVE ConstraintInv
    OBVIOUS
  <2>1. /\ ram = Constraint!Empty /\ wal = Constraint!Empty /\ todo = <<>>
        /\ env = [ops |-> 0, unlogged |-> {}, inherited |-> {}, merged |-> FALSE]
    BY DEF Constraint!Init, Constraint!Log!LogInit
  <2>2. DOMAIN env = {"ops", "unlogged", "inherited", "merged"} /\ env.unlogged = {}
    BY <2>1
  <2>3. ConstraintTypeOK
    BY <2>1, <2>2, EmptyShape DEF ConstraintTypeOK
  <2>4. MirrorInv
    BY <2>1, <2>2 DEF MirrorInv, Mirrors
  <2>5. BranchInv
    BY <2>1, EmptyShape DEF BranchInv
  <2> QED  BY <2>3, <2>4, <2>5 DEF ConstraintInv
<1>2. ConstraintInv /\ [Constraint!Next]_<<ram, wal, todo, gap, env>> => ConstraintInv'
  <2> SUFFICES ASSUME ConstraintInv, [Constraint!Next]_<<ram, wal, todo, gap, env>>
               PROVE  ConstraintInv'
    OBVIOUS
  <2>1. CASE \E object \in Objects, b \in 0..MaxFacts :
               Constraint!AssertConstraint(object, b)
    <3>1. \A b \in 0..MaxFacts : b \in Nat
      OBVIOUS
    <3> QED  BY <2>1, <3>1, AssertKeeps
  <2>2. CASE \E i \in DOMAIN ram.facts : Constraint!RetractConstraint(i)
    BY <2>2, RetractKeeps
  <2>3. CASE Constraint!CreateConstraintBranch
    BY <2>3, CreateBranchKeeps
  <2>4. CASE \E winner \in 0..MaxFacts, loser \in DOMAIN ram.branches :
               Constraint!ResolveConstraintBranch(winner, loser)
    BY <2>4, ResolveKeeps
  <2>5. CASE Constraint!Reopen
    BY <2>5, FactReopenKeeps
  <2>6. CASE (Constraint!Log!Logged \/ Constraint!Log!LogFails \/ Constraint!Log!Checkpoint)
               /\ UNCHANGED env
    BY <2>6, FactLoggedKeeps, FactLogFailsKeeps, FactCheckpointKeeps
  <2>7. CASE UNCHANGED <<ram, wal, todo, gap, env>>
    BY <2>7 DEF ConstraintInv, ConstraintTypeOK, MirrorInv, BranchInv
  <2> QED  BY <2>1, <2>2, <2>3, <2>4, <2>5, <2>6, <2>7 DEF Constraint!Next
<1> QED  BY <1>1, <1>2

\* A branch never holds two active facts that contradict each other, whatever
\* is asserted, retracted and resolved on it, unless its number was used before
\* a conflict handed it out, and until a restart has lost a record or the rival
\* branch of a conflict (detect_conflict and assert_fact).
LEMMA BranchesFollow == ConstraintInv => Constraint!BranchesConsistent
BY DEF ConstraintInv, BranchInv, Constraint!BranchesConsistent, Constraint!Active

\* Whenever nothing is in flight and no append failed, a restart gives back
\* every fact with its validity and branch, but for those on branches that a
\* conflict created: assert_constraint logs the branch asked for instead.
LEMMA FactsFollow == ConstraintInv => Constraint!FactsKept
BY DEF ConstraintInv, MirrorInv, Mirrors, Constraint!FactsKept, Constraint!Log!Settled,
       Constraint!Log!Idle

-----------------------------------------------------------------------------
(* Interventions and surprise credit                                        *)

LedgerShape(s) ==
    /\ DOMAIN s = {"iv", "next", "open", "surprises", "weakened", "faulted",
                   "credit", "weight", "failures"}
    /\ s.weakened \in Nat /\ s.faulted \in Nat
    /\ s.credit.streak \in Nat
    /\ s.weight \in [Intervention!Sources -> [ok : Nat, n : Nat]]

\* What only the first record of a call changes.
Book(s) == <<s.iv, s.open, s.surprises>>

\* A record that a call appends after its first one; the trust weights it
\* carries are those of RAM.
Late(rec, weight) ==
    \/ rec.op = "strength"
    \/ rec.op = "fault"
    \/ rec.op = "credit" /\ rec.credit.streak \in Nat
    \/ rec.op = "feedback" /\ rec.source \in Intervention!Sources
       /\ rec.weight = weight[rec.source]

First(rec) == rec.op \in {"start", "observe", "close", "attribute", "surprise"}

\* How many records of a kind are still to be appended: none or one.
Due(recs, kind) == IF \E k \in DOMAIN recs : recs[k].op = kind THEN 1 ELSE 0

Records(recs, weight) ==
    /\ recs \in Seq({recs[k] : k \in DOMAIN recs})
    /\ \A k \in DOMAIN recs : (k = 1 /\ First(recs[k])) \/ Late(recs[k], weight)
    /\ \A k, l \in DOMAIN recs :
          recs[k].op = recs[l].op /\ recs[k].op \in {"strength", "fault"} => k = l

LedgerTypeOK ==
    /\ LedgerShape(ram) /\ LedgerShape(wal)
    /\ Records(todo, ram.weight)
    /\ gap \in BOOLEAN
    /\ DOMAIN env = {"ops", "evidence"} /\ env.evidence \in Nat

\* A lowering of strength has evidence of its own and a credit that had some
\* before; a replay finds at most what RAM has.
EvidenceInv ==
    /\ ram.weakened > 0 => env.evidence > ram.weakened
    /\ ram.credit.streak > 0 \/ wal.credit.streak > 0 \/ Due(todo, "credit") = 1
          => env.evidence > 0
    /\ wal.weakened + Due(todo, "strength") <= ram.weakened

\* What open() rebuilds, with the records that are about to be appended.
BookInv ==
    ~gap => /\ Book(ram) = IF todo = <<>> THEN Book(wal)
                           ELSE Book(Intervention!Replay(wal, Head(todo)))
            /\ ram.weakened = wal.weakened + Due(todo, "strength")
            /\ ram.faulted = wal.faulted + Due(todo, "fault")
            /\ \A s \in Intervention!Sources : wal.weight[s].n <= ram.weight[s].n

LedgerInv == LedgerTypeOK /\ EvidenceInv /\ BookInv

-----------------------------------------------------------------------------
(* Credit, trust and replay                                                 *)

LEMMA EvidenceNat ==
    ASSUME NEW m \in {10, 40, 100}
    PROVE  Intervention!Evidence(m) \in Nat
BY DEF Intervention!Evidence

\* update_credit touches the credit only, and starts a run only on evidence.
CreditMoved(t, s, e) ==
    /\ LedgerShape(t) /\ Book(t) = Book(s) /\ t.weakened = s.weakened
    /\ t.faulted = s.faulted /\ t.weight = s.weight
    /\ t.credit.streak > 0 => s.credit.streak > 0 \/ e > 0

LEMMA UpdateCreditIs ==
    ASSUME NEW s, LedgerShape(s), NEW m, Intervention!Evidence(m) \in Nat
    PROVE  CreditMoved(Intervention!UpdateCredit(s, m), s, Intervention!Evidence(m))
<1> DEFINE e == Intervention!Evidence(m)
           c == Intervention!Credited(s.credit, e)
           d == IF Intervention!Gate(c) THEN Intervention!Bled(c) ELSE c
           t == [s EXCEPT !.credit = d]
<1>1. c.streak \in Nat /\ DOMAIN c = {"c", "streak"}
  BY DEF Intervention!Credited, LedgerShape
<1>2. d.streak \in Nat
  <2> HIDE DEF c
  <2> QED  BY <1>1 DEF Intervention!Bled
<1>3. CASE e = 0
  <2>1. Intervention!UpdateCredit(s, m) = s
    BY <1>3 DEF Intervention!UpdateCredit
  <2> QED  BY <2>1 DEF CreditMoved
<1>4. CASE e # 0
  <2>1. Intervention!UpdateCredit(s, m) = t
    BY <1>4 DEF Intervention!UpdateCredit
  <2> HIDE DEF d
  <2>2. /\ DOMAIN t = DOMAIN s /\ t.credit = d /\ t.iv = s.iv /\ t.open = s.open
        /\ t.surprises = s.surprises /\ t.weakened = s.weakened
        /\ t.faulted = s.faulted /\ t.weight = s.weight
    BY DEF LedgerShape
  <2> HIDE DEF t
  <2>3. LedgerShape(t)
    BY <1>2, <2>2 DEF LedgerShape
  <2>4. Book(t) = Book(s)
    BY <2>2 DEF Book
  <2>5. e > 0
    BY <1>4
  <2> QED  BY <2>1, <2>2, <2>3, <2>4, <2>5 DEF CreditMoved
<1> QED  BY <1>3, <1>4

\* The gate opens on evidence that follows earlier evidence.
LEMMA GateNeedsRun ==
    ASSUME NEW s, LedgerShape(s), NEW m, Intervention!Evidence(m) \in Nat,
           Intervention!GatePassed(s, m)
    PROVE  Intervention!Evidence(m) > 0 /\ s.credit.streak > 0
<1>1. Intervention!Evidence(m) > 0
  BY DEF Intervention!GatePassed
<1>2. Intervention!Credited(s.credit, Intervention!Evidence(m)).streak >= 2
  BY DEF Intervention!GatePassed, Intervention!Gate
<1>3. s.credit.streak > 0
  BY <1>2 DEF Intervention!Credited, LedgerShape
<1> QED  BY <1>1, <1>3

\* record_feedback touches one weight and counts up.
TrustMoved(t, s) ==
    /\ LedgerShape(t) /\ Book(t) = Book(s) /\ t.weakened = s.weakened
    /\ t.faulted = s.faulted /\ t.credit = s.credit
    /\ \A x \in Intervention!Sources : s.weight[x].n <= t.weight[x].n

LEMMA FeedbackIs ==
    ASSUME NEW s, LedgerShape(s), NEW source \in Intervention!Sources, NEW useful
    PROVE  TrustMoved(Intervention!Feedback(s, source, useful), s)
<1> DEFINE r == [ok |-> IF useful THEN s.weight[source].ok + 1 ELSE s.weight[source].ok,
                 n |-> s.weight[source].n + 1]
           t == [s EXCEPT !.weight = [s.weight EXCEPT ![source] = r]]
<1>1. Intervention!Feedback(s, source, useful) = t
  BY DEF Intervention!Feedback
<1>2. r \in [ok : Nat, n : Nat] /\ r.n = s.weight[source].n + 1
  BY DEF LedgerShape
<1> HIDE DEF r
<1>3. /\ DOMAIN t = DOMAIN s /\ t.credit = s.credit /\ t.iv = s.iv /\ t.open = s.open
      /\ t.surprises = s.surprises /\ t.weakened = s.weakened
      /\ t.faulted = s.faulted /\ t.weight = [s.weight EXCEPT ![source] = r]
  BY DEF LedgerShape
<1> HIDE DEF t
<1>4. t.weight \in [Intervention!Sources -> [ok : Nat, n : Nat]]
  BY <1>2, <1>3 DEF LedgerShape
<1>5. \A x \in Intervention!Sources : s.weight[x].n <= t.weight[x].n
  BY <1>2, <1>3 DEF LedgerShape
<1>6. LedgerShape(t)
  BY <1>3, <1>4 DEF LedgerShape
<1>7. Book(t) = Book(s)
  BY <1>3 DEF Book
<1> QED  BY <1>1, <1>3, <1>5, <1>6, <1>7 DEF TrustMoved

Plus(b) == IF b THEN 1 ELSE 0

\* A record after the first one leaves the book alone.
Followed(t, s, rec, weight) ==
    /\ LedgerShape(t) /\ Book(t) = Book(s)
    /\ t.weakened = s.weakened + Plus(rec.op = "strength")
    /\ t.faulted = s.faulted + Plus(rec.op = "fault")
    /\ t.credit.streak > 0 => s.credit.streak > 0 \/ rec.op = "credit"
    /\ \A x \in Intervention!Sources :
          t.weight[x] = s.weight[x] \/ t.weight[x] = weight[x]

LEMMA ReplayLate ==
    ASSUME NEW s, LedgerShape(s), NEW rec,
           NEW weight \in [Intervention!Sources -> [ok : Nat, n : Nat]],
           Late(rec, weight)
    PROVE  Followed(Intervention!Replay(s, rec), s, rec, weight)
<1> DEFINE t == Intervention!Replay(s, rec)
<1>1. CASE rec.op = "strength"
  <2>1. t = [s EXCEPT !.weakened = s.weakened + 1]
    BY <1>1 DEF Intervention!Replay
  <2> QED  BY <1>1, <2>1 DEF Followed, LedgerShape, Book, Plus
<1>2. CASE rec.op = "fault"
  <2>1. t = [s EXCEPT !.faulted = s.faulted + 1]
    BY <1>2 DEF Intervention!Replay
  <2> QED  BY <1>2, <2>1 DEF Followed, LedgerShape, Book, Plus
<1>3. CASE rec.op = "credit" /\ rec.credit.streak \in Nat
  <2>1. t = [s EXCEPT !.credit = rec.credit]
    BY <1>3 DEF Intervention!Replay
  <2> QED  BY <1>3, <2>1 DEF Followed, LedgerShape, Book, Plus
<1>4. CASE /\ rec.op = "feedback" /\ rec.source \in Intervention!Sources
           /\ rec.weight = weight[rec.source]
  <2>1. t = [s EXCEPT !.weight = [s.weight EXCEPT ![rec.source] = rec.weight]]
    BY <1>4 DEF Intervention!Replay
  <2>2. rec.weight \in [ok : Nat, n : Nat]
    BY <1>4
  <2> QED  BY <1>4, <2>1, <2>2 DEF Followed, LedgerShape, Book, Plus
<1> QED  BY <1>1, <1>2, <1>3, <1>4 DEF Late

\* The first record of a call leaves the rest alone.
Opening(t, s) ==
    /\ LedgerShape(t) /\ t.weakened = s.weakened /\ t.faulted = s.faulted
    /\ t.credit = s.credit /\ t.weight = s.weight

LEMMA ReplayFirst ==
    ASSUME NEW s, LedgerShape(s), NEW rec, First(rec)
    PROVE  Opening(Intervention!Replay(s, rec), s)
<1> DEFINE t == Intervention!Replay(s, rec)
<1>1. CASE rec.op = "start"
  BY <1>1 DEF Intervention!Replay, Intervention!Opened, Opening, LedgerShape
<1>2. CASE rec.op = "observe"
  BY <1>2 DEF Intervention!Replay, Opening, LedgerShape
<1>3. CASE rec.op = "close"
  BY <1>3 DEF Intervention!Replay, Intervention!Closed, Opening, LedgerShape
<1>4. CASE rec.op = "attribute"
  BY <1>4 DEF Intervention!Replay, Opening, LedgerShape
<1>5. CASE rec.op = "surprise"
  BY <1>5 DEF Intervention!Replay, Opening, LedgerShape
<1> QED  BY <1>1, <1>2, <1>3, <1>4, <1>5 DEF First

-----------------------------------------------------------------------------
(* Records of a call                                                        *)

\* The first record of a call is rec; kinds are those of the others.
Sent(recs, rec, weight, kinds) ==
    /\ Records(recs, weight) /\ recs # <<>> /\ Head(recs) = rec
    /\ \A kind \in {"strength", "fault", "credit"} :
          Due(recs, kind) = Plus(kind \in kinds)

LEMMA SentOne ==
    ASSUME NEW rec, First(rec), NEW weight
    PROVE  Sent(<<rec>>, rec, weight, {})
<1> DEFINE recs == <<rec>>
<1>1. DOMAIN recs = {1} /\ recs[1] = rec /\ Head(recs) = rec /\ recs # <<>>
  OBVIOUS
<1>2. recs \in Seq({recs[k] : k \in DOMAIN recs})
  <2>1. {recs[k] : k \in DOMAIN recs} = {rec}
    BY <1>1
  <2> QED  BY <2>1
<1> HIDE DEF recs
<1>3. Records(recs, weight)
  BY <1>1, <1>2 DEF Records
<1>4. \A kind \in {"strength", "fault", "credit"} : Due(recs, kind) = Plus(kind \in {})
  BY <1>1 DEF Due, Plus, First
<1>5. Sent(recs, rec, weight, {})
  BY <1>1, <1>3, <1>4 DEF Sent
<1> QED  BY <1>5 DEF recs

LEMMA SentMore ==
    ASSUME NEW recs, NEW rec, NEW weight, NEW kinds, Sent(recs, rec, weight, kinds),
           NEW last, Late(last, weight),
           last.op \in {"strength", "fault"} => last.op \notin kinds
    PROVE  Sent(recs \o <<last>>, rec, weight, kinds \cup {last.op})
<1> DEFINE S == {recs[k] : k \in DOMAIN recs}
           T == S \cup {last}
           n == Len(recs)
           new == recs \o <<last>>
<1>1. recs \in Seq(T) /\ <<last>> \in Seq(T)
  <2>1. recs \in Seq(S)
    BY DEF Sent, Records
  <2> QED  BY <2>1
<1>2. n \in Nat /\ DOMAIN recs = 1..n /\ n > 0
  BY <1>1 DEF Sent
<1>3. /\ new \in Seq(T) /\ Len(new) = n + 1
      /\ \A k \in 1..n : new[k] = recs[k]
      /\ new[n + 1] = last
  BY <1>1, <1>2, ConcatProperties
<1> HIDE DEF new
<1>4. DOMAIN new = 1..(n + 1) /\ Head(new) = rec /\ new # <<>>
  BY <1>2, <1>3 DEF Sent
<1>5. new \in Seq({new[k] : k \in DOMAIN new})
  <2>1. \A x \in T : x \in {new[k] : k \in DOMAIN new}
    BY <1>2, <1>3, <1>4
  <2> QED  BY <1>3, <2>1
<1>6. \A k \in DOMAIN new : (k = 1 /\ First(new[k])) \/ Late(new[k], weight)
  BY <1>2, <1>3, <1>4 DEF Sent, Records
<1>7. ASSUME last.op \in {"strength", "fault"}, NEW k \in DOMAIN recs
      PROVE  recs[k].op # last.op
  <2>1. last.op \notin kinds /\ last.op \in {"strength", "fault", "credit"}
    BY <1>7
  <2>2. Due(recs, last.op) = 0
    BY <2>1 DEF Sent, Plus
  <2> QED  BY <2>2 DEF Due
<1>8. ASSUME NEW k \in DOMAIN new, NEW l \in DOMAIN new,
             new[k].op = new[l].op, new[k].op \in {"strength", "fault"}
      PROVE  k = l
  <2>1. CASE k \in 1..n /\ l \in 1..n
    BY <1>2, <1>3, <1>8, <2>1 DEF Sent, Records
  <2>2. CASE k \in 1..n /\ l = n + 1
    BY <1>2, <1>3, <1>7, <1>8, <2>2
  <2>3. CASE k = n + 1 /\ l \in 1..n
    BY <1>2, <1>3, <1>7, <1>8, <2>3
  <2> QED  BY <1>2, <1>4, <2>1, <2>2, <2>3
<1>9. ASSUME NEW kind \in {"strength", "fault", "credit"}
      PROVE  Due(new, kind) = Plus(kind \in kinds \cup {last.op})
  <2>1. (\E k \in DOMAIN new : new[k].op = kind)
          <=> (\E k \in DOMAIN recs : recs[k].op = kind) \/ last.op = kind
    BY <1>2, <1>3, <1>4
  <2>2. (\E k \in DOMAIN recs : recs[k].op = kind) <=> kind \in kinds
    BY DEF Sent, Due, Plus
  <2> QED  BY <2>1, <2>2 DEF Due, Plus
<1>10. Records(new, weight)
  BY <1>5, <1>6, <1>8 DEF Records
<1>11. Sent(new, rec, weight, kinds \cup {last.op})
  BY <1>4, <1>9, <1>10 DEF Sent
<1> QED  BY <1>11 DEF new

\* Appending the first of the records leaves the others.
LEMMA RecordsLeft ==
    ASSUME NEW recs, NEW weight, Records(recs, weight), recs # <<>>
    PROVE  /\ Records(Tail(recs), weight)
           /\ First(Head(recs)) \/ Late(Head(recs), weight)
           /\ Tail(recs) # <<>> => Late(Head(Tail(recs)), weight)
           /\ \A kind \in {"strength", "fault"} :
                 Due(recs, kind) = Due(Tail(recs), kind) + Plus(Head(recs).op = kind)
           /\ Due(Tail(recs), "credit") = 1 \/ Head(recs).op = "credit"
                 => Due(recs, "credit") = 1
<1> DEFINE S == {recs[k] : k \in DOMAIN recs}
           n == Len(recs)
           new == Tail(recs)
<1>1. recs \in Seq(S)
  BY DEF Records
<1>2. n \in Nat /\ DOMAIN recs = 1..n /\ n > 0 /\ Head(recs) = recs[1]
  BY <1>1
<1>3. /\ new \in Seq(S) /\ Len(new) = n - 1
      /\ \A k \in 1..(n - 1) : new[k] = recs[k + 1]
  BY <1>1, <1>2, HeadTailProperties
<1> HIDE DEF new
<1>4. DOMAIN new = 1..(n - 1) /\ (new # <<>> => n > 1 /\ Head(new) = recs[2])
  BY <1>2, <1>3
<1>5. new \in Seq({new[k] : k \in DOMAIN new})
  <2> DEFINE T == {new[k] : k \in DOMAIN new}
  <2>1. \A k \in 1..Len(new) : new[k] \in T
    BY <1>3, <1>4
  <2>2. new = [k \in 1..Len(new) |-> new[k]] /\ Len(new) \in Nat
    BY <1>3
  <2> HIDE DEF T
  <2>3. new \in Seq(T)
    BY <2>1, <2>2, IsASeq
  <2> QED  BY <2>3 DEF T
<1>6. \A k \in 2..n : Late(recs[k], weight)
  BY <1>2 DEF Records
<1>7. \A k \in DOMAIN new : k + 1 \in DOMAIN recs /\ new[k] = recs[k + 1]
                            /\ Late(new[k], weight)
  BY <1>2, <1>3, <1>4, <1>6
<1>8. Records(new, weight)
  <2>1. ASSUME NEW k \in DOMAIN new, NEW l \in DOMAIN new,
               new[k].op = new[l].op, new[k].op \in {"strength", "fault"}
        PROVE  k = l
    <3>1. k + 1 = l + 1
      BY <1>7, <2>1 DEF Records
    <3> QED  BY <1>4, <3>1, <1>2
  <2> QED  BY <1>5, <1>7, <2>1 DEF Records
<1>9. First(Head(recs)) \/ Late(Head(recs), weight)
  BY <1>2 DEF Records
<1>10. \A k \in DOMAIN recs : k = 1 \/ (k - 1 \in DOMAIN new /\ recs[k] = new[k - 1])
  BY <1>2, <1>3, <1>4
<1>11. ASSUME NEW kind \in {"strength", "fault"}
       PROVE  Due(recs, kind) = Due(new, kind) + Plus(Head(recs).op = kind)
  <2>1. CASE recs[1].op = kind
    <3>1. ASSUME NEW k \in DOMAIN new PROVE new[k].op # kind
      <4>1. k \in Nat \ {0} /\ 1 \in DOMAIN recs /\ k + 1 \in DOMAIN recs
        BY <1>2, <1>4, <1>7
      <4>2. recs[k + 1].op = kind => k + 1 = 1
        BY <2>1, <4>1, <1>11 DEF Records
      <4> QED  BY <1>7, <4>1, <4>2
    <3>2. \E k \in DOMAIN recs : recs[k].op = kind
      BY <1>2, <2>1
    <3> QED  BY <1>2, <2>1, <3>1, <3>2 DEF Due, Plus
  <2>2. CASE recs[1].op # kind
    <3>1. (\E k \in DOMAIN new : new[k].op = kind)
             <=> \E k \in DOMAIN recs : recs[k].op = kind
      BY <1>7, <1>10, <2>2
    <3> QED  BY <1>2, <2>2, <3>1 DEF Due, Plus
  <2> QED  BY <2>1, <2>2
<1>12. Due(new, "credit") = 1 \/ Head(recs).op = "credit" => Due(recs, "credit") = 1
  <2>1. CASE \E k \in DOMAIN recs : recs[k].op = "credit"
    BY <2>1 DEF Due
  <2>2. CASE \A k \in DOMAIN recs : recs[k].op # "credit"
    <3>1. ~\E k \in DOMAIN new : new[k].op = "credit"
      BY <1>7, <2>2
    <3>2. Due(new, "credit") = 0
      BY <3>1 DEF Due
    <3> QED  BY <1>2, <2>2, <3>2
  <2> QED  BY <2>1, <2>2
<1>13. new # <<>> => Late(Head(new), weight)
  BY <1>4, <1>6
<1> QED  BY <1>8, <1>9, <1>11, <1>12, <1>13 DEF new

-----------------------------------------------------------------------------
(* The steps                                                                *)

\* What a call does to the ledger, given the records that it is to append.
LEMMA LedgerCallKeeps ==
    ASSUME LedgerInv, todo = <<>>, wal' = wal, gap' = gap, LedgerShape(ram'),
           NEW rec, NEW kinds, Sent(todo', rec, ram'.weight, kinds),
           Book(wal) = Book(ram) => Book(ram') = Book(Intervention!Replay(wal, rec)),
           ram'.weakened = ram.weakened + Plus("strength" \in kinds),
           ram'.faulted = ram.faulted + Plus("fault" \in kinds),
           \A x \in Intervention!Sources : ram.weight[x].n <= ram'.weight[x].n,
           DOMAIN env' = {"ops", "evidence"},
           env'.evidence \in Nat, env.evidence <= env'.evidence,
           "strength" \in kinds => env.evidence > 0 /\ env.evidence < env'.evidence,
           "credit" \in kinds \/ ram'.credit.streak > 0 => env'.evidence > 0
    PROVE  LedgerInv'
<1>1. /\ LedgerShape(ram) /\ LedgerShape(wal) /\ gap \in BOOLEAN
      /\ env.evidence \in Nat
  BY DEF LedgerInv, LedgerTypeOK
<1>2. /\ ram.weakened \in Nat /\ wal.weakened \in Nat
      /\ ram.faulted \in Nat /\ wal.faulted \in Nat
      /\ \A x \in Intervention!Sources : /\ ram.weight[x].n \in Nat
                                         /\ wal.weight[x].n \in Nat
                                         /\ ram'.weight[x].n \in Nat
  BY <1>1 DEF LedgerShape
<1>3. /\ Due(todo', "strength") = Plus("strength" \in kinds)
      /\ Due(todo', "fault") = Plus("fault" \in kinds)
      /\ Due(todo', "credit") = Plus("credit" \in kinds)
      /\ Records(todo', ram'.weight) /\ todo' # <<>> /\ Head(todo') = rec
  BY DEF Sent
<1>4. Due(todo, "strength") = 0 /\ Due(todo, "fault") = 0
  BY DEF Due
<1>5. LedgerTypeOK'
  BY <1>1, <1>3 DEF LedgerTypeOK
<1>6. EvidenceInv'
  <2>1. /\ ram.weakened > 0 => env.evidence > ram.weakened
        /\ wal.credit.streak > 0 => env.evidence > 0
        /\ wal.weakened <= ram.weakened
    BY <1>2, <1>4 DEF LedgerInv, EvidenceInv
  <2>2. ram'.weakened > 0 => env'.evidence > ram'.weakened
    BY <1>1, <1>2, <2>1 DEF Plus
  <2>3. wal'.weakened + Due(todo', "strength") <= ram'.weakened
    BY <1>2, <1>3, <2>1 DEF Plus
  <2>4. ram'.credit.streak > 0 \/ wal'.credit.streak > 0 \/ Due(todo', "credit") = 1
          => env'.evidence > 0
    BY <1>1, <1>3, <2>1 DEF Plus
  <2> QED  BY <2>2, <2>3, <2>4 DEF EvidenceInv
<1>7. BookInv'
  <2> SUFFICES ASSUME ~gap' PROVE BookInv'
    BY DEF BookInv
  <2>1. /\ Book(ram) = Book(wal) /\ ram.weakened = wal.weakened
        /\ ram.faulted = wal.faulted
        /\ \A x \in Intervention!Sources : wal.weight[x].n <= ram.weight[x].n
    BY <1>2, <1>4 DEF LedgerInv, BookInv
  <2>2. Book(ram') = Book(Intervention!Replay(wal', Head(todo')))
    BY <1>3, <2>1
  <2>3. /\ ram'.weakened = wal'.weakened + Due(todo', "strength")
        /\ ram'.faulted = wal'.faulted + Due(todo', "fault")
    BY <1>3, <2>1
  <2>4. \A x \in Intervention!Sources : wal'.weight[x].n <= ram'.weight[x].n
    BY <1>2, <2>1
  <2> QED  BY <1>3, <2>2, <2>3, <2>4 DEF BookInv
<1> QED  BY <1>5, <1>6, <1>7 DEF LedgerInv

\* A call of one record that touches the book only.
LEMMA BookCallKeeps ==
    ASSUME LedgerInv, NEW new, NEW rec, First(rec),
           Intervention!Do(new, <<rec>>), Intervention!Counted,
           Opening(new, ram),
           Book(wal) = Book(ram) => Book(new) = Book(Intervention!Replay(wal, rec))
    PROVE  LedgerInv'
<1>1. /\ todo = <<>> /\ wal' = wal /\ gap' = gap /\ ram' = new /\ todo' = <<rec>>
  BY DEF Intervention!Do, Intervention!Log!Idle
<1>2. /\ DOMAIN env' = {"ops", "evidence"} /\ env'.evidence = env.evidence
  BY DEF Intervention!Counted, Intervention!Weighed
<1>3. env.evidence \in Nat /\ (ram.credit.streak > 0 => env.evidence > 0)
      /\ ram.weakened \in Nat /\ ram.faulted \in Nat
      /\ \A x \in Intervention!Sources : ram.weight[x].n \in Nat
  BY DEF LedgerInv, LedgerTypeOK, EvidenceInv, LedgerShape
<1>4. Sent(todo', rec, ram'.weight, {})
  BY <1>1, SentOne
<1>5. /\ LedgerShape(ram') /\ ram'.weakened = ram.weakened
      /\ ram'.faulted = ram.faulted /\ ram'.credit = ram.credit
      /\ ram'.weight = ram.weight
  BY <1>1 DEF Opening
<1>6. Plus("strength" \in {}) = 0 /\ Plus("fault" \in {}) = 0
  BY DEF Plus
<1>7. /\ ram'.weakened = ram.weakened + Plus("strength" \in {})
      /\ ram'.faulted = ram.faulted + Plus("fault" \in {})
      /\ \A x \in Intervention!Sources : ram.weight[x].n <= ram'.weight[x].n
      /\ env.evidence <= env'.evidence
  BY <1>2, <1>3, <1>5, <1>6
<1>8. Book(wal) = Book(ram) => Book(ram') = Book(Intervention!Replay(wal, rec))
  BY <1>1
<1> QED  BY <1>1, <1>2, <1>3, <1>4, <1>5, <1>7, <1>8, LedgerCallKeeps

LEMMA StartKeeps ==
    ASSUME LedgerInv, Intervention!StartIntervention
    PROVE  LedgerInv'
<1> DEFINE rec == [op |-> "start", id |-> ram.next]
           new == Intervention!Opened(ram, ram.next)
<1>1. LedgerShape(ram) /\ LedgerShape(wal)
  BY DEF LedgerInv, LedgerTypeOK
<1>2. Opening(new, ram)
  BY <1>1 DEF Opening, Intervention!Opened, LedgerShape
<1>3. Intervention!Replay(wal, rec) = Intervention!Opened(wal, ram.next)
  BY DEF Intervention!Replay
<1>4. Book(wal) = Book(ram) => Book(new) = Book(Intervention!Replay(wal, rec))
  BY <1>1, <1>3 DEF Book, Intervention!Opened, LedgerShape
<1>5. First(rec)
  BY DEF First
<1>6. Intervention!Do(new, <<rec>>) /\ Intervention!Counted
  BY DEF Intervention!StartIntervention
<1> HIDE DEF rec, new
<1> QED  BY <1>2, <1>4, <1>5, <1>6, BookCallKeeps

LEMMA ObserveKeeps ==
    ASSUME LedgerInv, NEW i \in DOMAIN ram.iv, Intervention!AddObservation(i)
    PROVE  LedgerInv'
<1> DEFINE rec == [op |-> "observe", id |-> i]
           new == [ram EXCEPT !.iv[i].obs = @ + 1]
<1>1. LedgerShape(ram) /\ LedgerShape(wal)
  BY DEF LedgerInv, LedgerTypeOK
<1>2. Opening(new, ram)
  BY <1>1 DEF Opening, LedgerShape
<1>3. i \in DOMAIN wal.iv => Intervention!Replay(wal, rec) = [wal EXCEPT !.iv[i].obs = @ + 1]
  BY DEF Intervention!Replay
<1>4. Book(wal) = Book(ram) => Book(new) = Book(Intervention!Replay(wal, rec))
  BY <1>1, <1>3 DEF Book, LedgerShape
<1>5. First(rec)
  BY DEF First
<1>6. Intervention!Do(new, <<rec>>) /\ Intervention!Counted
  BY DEF Intervention!AddObservation
<1> HIDE DEF rec, new
<1> QED  BY <1>2, <1>4, <1>5, <1>6, BookCallKeeps

LEMMA CloseKeeps ==
    ASSUME LedgerInv, NEW i \in DOMAIN ram.iv, NEW status,
           Intervention!CloseIntervention(i, status)
    PROVE  LedgerInv'
<1> DEFINE rec == [op |-> "close", id |-> i, status |-> status]
           new == Intervention!Closed(ram, i, status)
<1>1. LedgerShape(ram) /\ LedgerShape(wal)
  BY DEF LedgerInv, LedgerTypeOK
<1>2. Opening(new, ram)
  BY <1>1 DEF Opening, Intervention!Closed, LedgerShape
<1>3. i \in DOMAIN wal.iv => Intervention!Replay(wal, rec) = Intervention!Closed(wal, i, status)
  BY DEF Intervention!Replay
<1>4. Book(wal) = Book(ram) => Book(new) = Book(Intervention!Replay(wal, rec))
  BY <1>1, <1>3 DEF Book, Intervention!Closed, LedgerShape
<1>5. First(rec)
  BY DEF First
<1>6. Intervention!Do(new, <<rec>>) /\ Intervention!Counted
  BY DEF Intervention!CloseIntervention
<1> HIDE DEF rec, new
<1> QED  BY <1>2, <1>4, <1>5, <1>6, BookCallKeeps

LEMMA SentFeedback ==
    ASSUME NEW recs, NEW rec, NEW s, NEW kinds, Sent(recs, rec, s.weight, kinds),
           NEW source \in Intervention!Sources
    PROVE  Sent(recs \o Intervention!FeedbackRec(s, source), rec, s.weight, kinds)
<1> DEFINE last == [op |-> "feedback", source |-> source, weight |-> s.weight[source]]
           new == recs \o <<last>>
<1>1. Intervention!FeedbackRec(s, source) = <<last>>
  BY DEF Intervention!FeedbackRec
<1>2. Late(last, s.weight) /\ last.op = "feedback"
  BY DEF Late
<1> HIDE DEF last
<1>3. Sent(new, rec, s.weight, kinds \cup {last.op})
  BY <1>2, SentMore
<1> HIDE DEF new
<1>4. Sent(new, rec, s.weight, kinds)
  BY <1>2, <1>3 DEF Sent, Plus
<1> QED  BY <1>1, <1>4 DEF new

\* The strength change and the credit that released it.
LEMMA SentLowering ==
    ASSUME NEW rec, First(rec), NEW weight, NEW credit, credit.streak \in Nat
    PROVE  Sent(<<rec>> \o <<[op |-> "strength"], [op |-> "credit", credit |-> credit]>>,
                rec, weight, {"strength", "credit"})
<1> DEFINE a == [op |-> "strength"]
           b == [op |-> "credit", credit |-> credit]
<1>1. /\ Late(a, weight) /\ Late(b, weight)
      /\ a.op = "strength" /\ b.op = "credit"
  BY DEF Late
<1> HIDE DEF a, b
<1>2. Sent(<<rec>>, rec, weight, {})
  BY SentOne
<1>3. Sent(<<rec>> \o <<a>>, rec, weight, {} \cup {a.op})
  BY <1>1, <1>2, SentMore
<1>4. Sent((<<rec>> \o <<a>>) \o <<b>>, rec, weight, ({} \cup {a.op}) \cup {b.op})
  BY <1>1, <1>3, SentMore
<1>5. (<<rec>> \o <<a>>) \o <<b>> = <<rec>> \o <<a, b>>
  <2> DEFINE S == {rec, a, b}
             p == (<<rec>> \o <<a>>) \o <<b>>
             q == <<rec>> \o <<a, b>>
  <2>1. <<rec>> \in Seq(S) /\ <<a>> \in Seq(S) /\ <<b>> \in Seq(S) /\ <<a, b>> \in Seq(S)
    OBVIOUS
  <2>2. p \in Seq(S) /\ Len(p) = 3 /\ p[1] = rec /\ p[2] = a /\ p[3] = b
    BY <2>1, ConcatProperties
  <2>3. q \in Seq(S) /\ Len(q) = 3 /\ q[1] = rec /\ q[2] = a /\ q[3] = b
    BY <2>1, ConcatProperties
  <2> HIDE DEF p, q, S
  <2>4. \A k \in 1..Len(p) : p[k] = q[k]
    BY <2>2, <2>3
  <2>5. p = q
    BY <2>2, <2>3, <2>4, SeqEqual
  <2> QED  BY <2>5 DEF p, q
<1>6. ({} \cup {a.op}) \cup {b.op} = {"strength", "credit"}
  BY <1>1
<1> QED  BY <1>4, <1>5, <1>6 DEF a, b

LEMMA SurpriseKeeps ==
    ASSUME LedgerInv, NEW m \in {10, 40, 100}, Intervention!RecordSurprise(m)
    PROVE  LedgerInv'
<1> DEFINE e == Intervention!Evidence(m)
           passed == Intervention!GatePassed(ram, m)
           s0 == [ram EXCEPT !.surprises = @ + 1,
                             !.weakened = IF passed THEN @ + 1 ELSE @]
           s1 == Intervention!UpdateCredit(s0, m)
           f == [s1 EXCEPT !.failures = IF @ < MaxFailures THEN @ + 1 ELSE @]
           neg == m >= 55 \/ (m >= 25 /\ ram.failures >= 2)
           s2 == IF neg THEN Intervention!Feedback(f, "semantic", FALSE) ELSE s1
           pos == m >= 30
           s3 == IF pos THEN Intervention!Feedback(s2, "keyword", TRUE) ELSE s2
           rec == [op |-> "surprise"]
           kinds == IF passed THEN {"strength", "credit"} ELSE {}
           r1 == <<rec>> \o (IF passed THEN <<[op |-> "strength"],
                                              [op |-> "credit", credit |-> s1.credit]>>
                             ELSE <<>>)
           r2 == r1 \o (IF neg THEN Intervention!FeedbackRec(s3, "semantic") ELSE <<>>)
           r3 == r2 \o (IF pos THEN Intervention!FeedbackRec(s3, "keyword") ELSE <<>>)
<1>1. Intervention!Do(s3, r3) /\ Intervention!Weighed(e > 0)
  BY DEF Intervention!RecordSurprise
<1>2. /\ LedgerShape(ram) /\ LedgerShape(wal) /\ env.evidence \in Nat
      /\ (ram.credit.streak > 0 => env.evidence > 0)
  BY DEF LedgerInv, LedgerTypeOK, EvidenceInv
<1>3. e \in Nat
  BY EvidenceNat
<1>4. passed => e > 0 /\ ram.credit.streak > 0
  BY <1>2, <1>3, GateNeedsRun
<1> HIDE DEF e, passed
<1>5. /\ LedgerShape(s0) /\ s0.weakened = ram.weakened + Plus(passed)
      /\ s0.faulted = ram.faulted /\ s0.weight = ram.weight /\ s0.credit = ram.credit
      /\ s0.iv = ram.iv /\ s0.open = ram.open /\ s0.surprises = ram.surprises + 1
  BY <1>2 DEF LedgerShape, Plus
<1> HIDE DEF s0
<1>6. CreditMoved(s1, s0, e)
  BY <1>3, <1>5, UpdateCreditIs DEF e
<1> HIDE DEF s1
<1>7. /\ LedgerShape(f) /\ Book(f) = Book(s1) /\ f.weakened = s1.weakened
      /\ f.faulted = s1.faulted /\ f.credit = s1.credit /\ f.weight = s1.weight
  BY <1>6 DEF CreditMoved, LedgerShape, Book
<1> HIDE DEF f
<1>8. "semantic" \in Intervention!Sources /\ "keyword" \in Intervention!Sources
  BY DEF Intervention!Sources
<1>9. ASSUME NEW s, LedgerShape(s) PROVE TrustMoved(s, s)
  BY <1>9 DEF TrustMoved, LedgerShape
<1>10. TrustMoved(s2, s1)
  <2>1. CASE neg
    <3>1. TrustMoved(Intervention!Feedback(f, "semantic", FALSE), f)
      BY <1>7, <1>8, FeedbackIs
    <3> QED  BY <1>7, <2>1, <3>1 DEF TrustMoved
  <2>2. CASE ~neg
    BY <1>6, <1>9, <2>2 DEF CreditMoved
  <2> QED  BY <2>1, <2>2
<1> HIDE DEF s2
<1>11. TrustMoved(s3, s2)
  <2>1. CASE pos
    BY <1>8, <1>10, <2>1, FeedbackIs DEF TrustMoved
  <2>2. CASE ~pos
    BY <1>9, <1>10, <2>2 DEF TrustMoved
  <2> QED  BY <2>1, <2>2
<1> HIDE DEF s3
<1>12. /\ LedgerShape(s3) /\ Book(s3) = Book(s0)
       /\ s3.weakened = ram.weakened + Plus(passed) /\ s3.faulted = ram.faulted
       /\ s3.credit = s1.credit /\ s1.credit.streak \in Nat
  BY <1>5, <1>6, <1>10, <1>11 DEF TrustMoved, CreditMoved, LedgerShape
<1>13. \A x \in Intervention!Sources : ram.weight[x].n <= s3.weight[x].n
  <2>1. s1.weight = ram.weight
    BY <1>5, <1>6 DEF CreditMoved
  <2>2. ASSUME NEW x \in Intervention!Sources
        PROVE  /\ ram.weight[x].n <= s2.weight[x].n /\ s2.weight[x].n <= s3.weight[x].n
               /\ ram.weight[x].n \in Nat /\ s2.weight[x].n \in Nat
               /\ s3.weight[x].n \in Nat
    BY <1>2, <1>10, <1>11, <2>1 DEF TrustMoved, LedgerShape
  <2> QED  BY <2>2
<1>14. First(rec)
  BY DEF First
<1> HIDE DEF rec
<1>15. Sent(r1, rec, s3.weight, kinds)
  <2>1. CASE passed
    BY <1>12, <1>14, <2>1, SentLowering
  <2>2. CASE ~passed
    <3>1. r1 = <<rec>>
      BY <2>2
    <3> QED  BY <1>14, <2>2, <3>1, SentOne
  <2> QED  BY <2>1, <2>2
<1> HIDE DEF r1, kinds
<1>16. ASSUME NEW recs, Sent(recs, rec, s3.weight, kinds)
       PROVE  recs \o <<>> = recs
  <2>1. recs \in Seq({recs[k] : k \in DOMAIN recs})
    BY <1>16 DEF Sent, Records
  <2> QED  BY <2>1
<1>17. Sent(r2, rec, s3.weight, kinds)
  <2>1. CASE neg
    <3>1. r2 = r1 \o Intervention!FeedbackRec(s3, "semantic")
      BY <2>1
    <3>2. Sent(r1 \o Intervention!FeedbackRec(s3, "semantic"), rec, s3.weight, kinds)
      BY <1>8, <1>15, SentFeedback
    <3> QED  BY <3>1, <3>2, Zenon
  <2>2. CASE ~neg
    BY <1>15, <1>16, <2>2
  <2> QED  BY <2>1, <2>2
<1> HIDE DEF r2
<1>18. Sent(r3, rec, s3.weight, kinds)
  <2>1. CASE pos
    BY <1>8, <1>17, <2>1, SentFeedback
  <2>2. CASE ~pos
    BY <1>16, <1>17, <2>2
  <2> QED  BY <2>1, <2>2
<1> HIDE DEF r3
<1>19. /\ todo = <<>> /\ wal' = wal /\ gap' = gap /\ ram' = s3 /\ todo' = r3
  BY <1>1 DEF Intervention!Do, Intervention!Log!Idle
<1>20. /\ DOMAIN env' = {"ops", "evidence"} /\ env'.evidence \in Nat
       /\ env.evidence <= env'.evidence
       /\ e > 0 => env'.evidence = env.evidence + 1
  BY <1>1, <1>2 DEF Intervention!Weighed
<1>21. Book(wal) = Book(ram) => Book(s3) = Book(Intervention!Replay(wal, rec))
  <2>1. Intervention!Replay(wal, rec) = [wal EXCEPT !.surprises = @ + 1]
    BY DEF Intervention!Replay, rec
  <2>2. Book(s3) = <<ram.iv, ram.open, ram.surprises + 1>>
    BY <1>5, <1>12 DEF Book
  <2> QED  BY <1>2, <2>1, <2>2 DEF Book, LedgerShape
<1>22. /\ "strength" \in kinds <=> passed
       /\ "credit" \in kinds <=> passed
       /\ "fault" \notin kinds
  BY DEF kinds
<1>23. /\ ram'.weakened = ram.weakened + Plus("strength" \in kinds)
       /\ ram'.faulted = ram.faulted + Plus("fault" \in kinds)
  BY <1>2, <1>12, <1>19, <1>22 DEF Plus, LedgerShape
<1>24. "strength" \in kinds => env.evidence > 0 /\ env.evidence < env'.evidence
  BY <1>2, <1>4, <1>20, <1>22
<1>25. "credit" \in kinds \/ ram'.credit.streak > 0 => env'.evidence > 0
  <2>1. s1.credit.streak > 0 => ram.credit.streak > 0 \/ e > 0
    BY <1>5, <1>6 DEF CreditMoved
  <2> QED  BY <1>2, <1>4, <1>12, <1>19, <1>20, <1>22, <2>1
<1> QED  BY <1>12, <1>13, <1>18, <1>19, <1>20, <1>21, <1>23, <1>24, <1>25, LedgerCallKeeps

LEMMA AttributionKeeps ==
    ASSUME LedgerInv, NEW i \in DOMAIN ram.iv,
           NEW class \in {"recall", "trust", "procedure", "other"},
           Intervention!RecordAttribution(i, class)
    PROVE  LedgerInv'
<1> DEFINE rec == [op |-> "attribute", id |-> i]
           s == [ram EXCEPT !.iv[i].attr = TRUE]
           more == IF class = "procedure" THEN <<[op |-> "fault"]>> ELSE <<>>
<1>1. /\ todo = <<>> /\ wal' = wal /\ gap' = gap /\ todo' = <<rec>> \o more
      /\ ram' = CASE class = "recall" -> Intervention!UpdateCredit(s, 100)
                  [] class = "trust" -> Intervention!Feedback(s, "memory", FALSE)
                  [] class = "procedure" -> [s EXCEPT !.faulted = @ + 1]
                  [] OTHER -> s
      /\ Intervention!Weighed(class = "recall")
  BY DEF Intervention!RecordAttribution, Intervention!Do, Intervention!Log!Idle
<1>2. /\ LedgerShape(ram) /\ LedgerShape(wal) /\ env.evidence \in Nat
      /\ (ram.credit.streak > 0 => env.evidence > 0)
  BY DEF LedgerInv, LedgerTypeOK, EvidenceInv
<1>3. /\ LedgerShape(s) /\ s.weakened = ram.weakened /\ s.faulted = ram.faulted
      /\ s.credit = ram.credit /\ s.weight = ram.weight
      /\ s.iv = [ram.iv EXCEPT ![i].attr = TRUE] /\ s.open = ram.open
      /\ s.surprises = ram.surprises
  BY <1>2 DEF LedgerShape
<1>4. Book(wal) = Book(ram) => Book(s) = Book(Intervention!Replay(wal, rec))
  <2>1. i \in DOMAIN wal.iv => Intervention!Replay(wal, rec) = [wal EXCEPT !.iv[i].attr = TRUE]
    BY DEF Intervention!Replay
  <2> QED  BY <1>2, <1>3, <2>1 DEF Book, LedgerShape
<1>5. First(rec)
  BY DEF First
<1> HIDE DEF s, rec
<1>6. /\ DOMAIN env' = {"ops", "evidence"} /\ env'.evidence \in Nat
      /\ env.evidence <= env'.evidence
      /\ class = "recall" => env'.evidence > 0
  BY <1>1, <1>2 DEF Intervention!Weighed
<1>7. TrustMoved(s, s)
  BY <1>3 DEF TrustMoved, LedgerShape
<1>8. CASE class = "procedure"
  <2> DEFINE last == [op |-> "fault"]
  <2>1. Late(last, ram'.weight) /\ last.op = "fault"
    BY DEF Late
  <2>2. todo' = <<rec>> \o <<last>>
    BY <1>1, <1>8
  <2> HIDE DEF last
  <2>3. Sent(<<rec>>, rec, ram'.weight, {})
    BY <1>5, SentOne
  <2>4. Sent(todo', rec, ram'.weight, {} \cup {last.op})
    BY <2>1, <2>2, <2>3, SentMore
  <2>5. {} \cup {last.op} = {"fault"}
    BY <2>1
  <2>6. ram' = [s EXCEPT !.faulted = s.faulted + 1]
    BY <1>1, <1>8
  <2>7. /\ LedgerShape(ram') /\ Book(ram') = Book(s) /\ ram'.weakened = ram.weakened
        /\ ram'.faulted = ram.faulted + 1 /\ ram'.weight = ram.weight
        /\ ram'.credit = ram.credit
    BY <1>3, <2>6 DEF LedgerShape, Book
  <2>8. Sent(todo', rec, ram'.weight, {"fault"})
    BY <2>4, <2>5
  <2>9. /\ ram'.weakened = ram.weakened + Plus("strength" \in {"fault"})
        /\ ram'.faulted = ram.faulted + Plus("fault" \in {"fault"})
        /\ \A x \in Intervention!Sources : ram.weight[x].n <= ram'.weight[x].n
    BY <1>2, <2>7 DEF Plus, LedgerShape
  <2>10. ram'.credit.streak > 0 => env'.evidence > 0
    BY <1>2, <1>6, <2>7
  <2>11. Book(wal) = Book(ram) => Book(ram') = Book(Intervention!Replay(wal, rec))
    BY <1>4, <2>7
  <2>12. "strength" \notin {"fault"} /\ "credit" \notin {"fault"}
    OBVIOUS
  <2> QED  BY <1>1, <1>6, <2>7, <2>8, <2>9, <2>10, <2>11, <2>12, LedgerCallKeeps
<1>9. CASE class # "procedure"
  <2>1. todo' = <<rec>>
    BY <1>1, <1>9
  <2>2. Sent(todo', rec, ram'.weight, {})
    BY <1>5, <2>1, SentOne
  <2>3. /\ LedgerShape(ram') /\ Book(ram') = Book(s) /\ ram'.weakened = ram.weakened
        /\ ram'.faulted = ram.faulted
        /\ \A x \in Intervention!Sources : ram.weight[x].n <= ram'.weight[x].n
        /\ ram'.credit.streak > 0 => env'.evidence > 0
    <3>1. CASE class = "recall"
      <4>1. CreditMoved(ram', s, Intervention!Evidence(100))
        BY <1>1, <1>3, <3>1, EvidenceNat, UpdateCreditIs
      <4> QED  BY <1>3, <1>6, <1>7, <3>1, <4>1 DEF CreditMoved, TrustMoved
    <3>2. CASE class = "trust"
      <4>1. "memory" \in Intervention!Sources
        BY DEF Intervention!Sources
      <4>2. TrustMoved(ram', s)
        BY <1>1, <1>3, <3>2, <4>1, FeedbackIs
      <4> QED  BY <1>2, <1>3, <1>6, <4>2 DEF TrustMoved
    <3>3. CASE class = "other"
      <4>1. ram' = s
        BY <1>1, <3>3
      <4> QED  BY <1>2, <1>3, <1>6, <1>7, <4>1 DEF TrustMoved
    <3> QED  BY <1>9, <3>1, <3>2, <3>3
  <2>4. /\ ram'.weakened = ram.weakened + Plus("strength" \in {})
        /\ ram'.faulted = ram.faulted + Plus("fault" \in {})
    BY <1>2, <2>3 DEF Plus, LedgerShape
  <2>5. Book(wal) = Book(ram) => Book(ram') = Book(Intervention!Replay(wal, rec))
    BY <1>4, <2>3
  <2> QED  BY <1>1, <1>6, <2>2, <2>3, <2>4, <2>5, LedgerCallKeeps
<1> QED  BY <1>8, <1>9

LEMMA LedgerLoggedKeeps ==
    ASSUME LedgerInv, Intervention!Log!Logged, env' = env
    PROVE  LedgerInv'
<1> DEFINE rec == Head(todo)
<1>1. /\ todo # <<>> /\ wal' = Intervention!Replay(wal, rec) /\ todo' = Tail(todo)
      /\ ram' = ram /\ gap' = gap
  BY DEF Intervention!Log!Logged, Intervention!Log!Idle
<1>2. /\ LedgerShape(ram) /\ LedgerShape(wal) /\ Records(todo, ram.weight)
      /\ gap \in BOOLEAN /\ DOMAIN env = {"ops", "evidence"} /\ env.evidence \in Nat
      /\ ram.weight \in [Intervention!Sources -> [ok : Nat, n : Nat]]
  BY DEF LedgerInv, LedgerTypeOK, LedgerShape
<1>3. /\ Records(todo', ram.weight)
      /\ First(rec) \/ Late(rec, ram.weight)
      /\ todo' # <<>> => Late(Head(todo'), ram.weight)
      /\ Due(todo, "strength") = Due(todo', "strength") + Plus(rec.op = "strength")
      /\ Due(todo, "fault") = Due(todo', "fault") + Plus(rec.op = "fault")
      /\ Due(todo', "credit") = 1 \/ rec.op = "credit" => Due(todo, "credit") = 1
  BY <1>1, <1>2, RecordsLeft
<1> HIDE DEF rec
<1>4. /\ LedgerShape(wal')
      /\ wal'.weakened = wal.weakened + Plus(rec.op = "strength")
      /\ wal'.faulted = wal.faulted + Plus(rec.op = "fault")
      /\ wal'.credit.streak > 0 => wal.credit.streak > 0 \/ rec.op = "credit"
      /\ \A x \in Intervention!Sources :
            wal'.weight[x] = wal.weight[x] \/ wal'.weight[x] = ram.weight[x]
  <2>1. CASE First(rec)
    <3>1. Opening(wal', wal)
      BY <1>1, <1>2, <2>1, ReplayFirst
    <3>2. rec.op # "strength" /\ rec.op # "fault"
      BY <2>1 DEF First
    <3> QED  BY <1>2, <3>1, <3>2 DEF Opening, Plus, LedgerShape
  <2>2. CASE Late(rec, ram.weight)
    <3>1. Followed(wal', wal, rec, ram.weight)
      BY <1>1, <1>2, <2>2, ReplayLate
    <3> QED  BY <3>1 DEF Followed
  <2> QED  BY <1>3, <2>1, <2>2
<1>5. /\ ram.weakened \in Nat /\ wal.weakened \in Nat /\ ram.faulted \in Nat
      /\ wal.faulted \in Nat
      /\ \A x \in Intervention!Sources : ram.weight[x].n \in Nat
  BY <1>2 DEF LedgerShape
<1>6. /\ Due(todo', "strength") \in Nat /\ Due(todo', "fault") \in Nat
      /\ Plus(rec.op = "strength") \in Nat /\ Plus(rec.op = "fault") \in Nat
  BY DEF Due, Plus
<1>7. LedgerTypeOK'
  BY <1>1, <1>2, <1>3, <1>4 DEF LedgerTypeOK
<1>8. EvidenceInv'
  <2>1. wal'.weakened + Due(todo', "strength") <= ram'.weakened
    BY <1>1, <1>3, <1>4, <1>5, <1>6 DEF LedgerInv, EvidenceInv
  <2>2. ram'.credit.streak > 0 \/ wal'.credit.streak > 0 \/ Due(todo', "credit") = 1
          => env'.evidence > 0
    BY <1>1, <1>3, <1>4 DEF LedgerInv, EvidenceInv
  <2> QED  BY <1>1, <2>1, <2>2 DEF LedgerInv, EvidenceInv
<1>9. BookInv'
  <2> SUFFICES ASSUME ~gap' PROVE BookInv'
    BY DEF BookInv
  <2>1. /\ Book(ram) = Book(wal') /\ ram.weakened = wal.weakened + Due(todo, "strength")
        /\ ram.faulted = wal.faulted + Due(todo, "fault")
        /\ \A x \in Intervention!Sources : wal.weight[x].n <= ram.weight[x].n
    BY <1>1 DEF LedgerInv, BookInv, rec
  <2>2. todo' # <<>> => Book(Intervention!Replay(wal', Head(todo'))) = Book(wal')
    <3>1. ASSUME todo' # <<>>
          PROVE  Followed(Intervention!Replay(wal', Head(todo')), wal', Head(todo'), ram.weight)
      BY <1>2, <1>3, <1>4, <3>1, ReplayLate
    <3> QED  BY <3>1 DEF Followed
  <2>3. /\ ram'.weakened = wal'.weakened + Due(todo', "strength")
        /\ ram'.faulted = wal'.faulted + Due(todo', "fault")
    <3>1. \A w, d, p \in Nat : w + (d + p) = (w + p) + d
      OBVIOUS
    <3>2. ram.weakened = (wal.weakened + Plus(rec.op = "strength")) + Due(todo', "strength")
      BY <1>3, <1>5, <1>6, <2>1, <3>1
    <3>3. ram.faulted = (wal.faulted + Plus(rec.op = "fault")) + Due(todo', "fault")
      BY <1>3, <1>5, <1>6, <2>1, <3>1
    <3> QED  BY <1>1, <1>4, <3>2, <3>3
  <2>4. \A x \in Intervention!Sources : wal'.weight[x].n <= ram'.weight[x].n
    BY <1>1, <1>4, <1>5, <2>1
  <2> QED  BY <1>1, <2>1, <2>2, <2>3, <2>4 DEF BookInv
<1> QED  BY <1>7, <1>8, <1>9 DEF LedgerInv

\* No records are in order.
LEMMA NoRecords ==
    ASSUME NEW weight
    PROVE  /\ Records(<<>>, weight)
           /\ \A kind \in {"strength", "fault", "credit"} : Due(<<>>, kind) = 0
BY DEF Records, Due

LEMMA LedgerInductive ==
    /\ Intervention!Init => LedgerInv
    /\ LedgerInv /\ [Intervention!Next]_(Intervention!vars) => LedgerInv'
<1>1. Intervention!Init => LedgerInv
  <2> SUFFICES ASSUME Intervention!Init PROVE LedgerInv
    OBVIOUS
  <2>1. /\ ram = Intervention!Empty /\ wal = Intervention!Empty /\ todo = <<>> /\ gap = FALSE
        /\ env = [ops |-> 0, evidence |-> 0]
    BY DEF Intervention!Init, Intervention!Log!LogInit
  <2>2. LedgerShape(Intervention!Empty)
    BY DEF LedgerShape, Intervention!Empty
  <2>3. LedgerTypeOK
    BY <2>1, <2>2, NoRecords DEF LedgerTypeOK
  <2>4. /\ Intervention!Empty.weakened = 0 /\ Intervention!Empty.faulted = 0
        /\ Intervention!Empty.credit.streak = 0
    BY DEF Intervention!Empty
  <2>5. EvidenceInv
    BY <2>1, <2>4, NoRecords DEF EvidenceInv
  <2>6. BookInv
    BY <2>1, <2>2, <2>4, NoRecords DEF BookInv, LedgerShape
  <2> QED  BY <2>3, <2>5, <2>6 DEF LedgerInv
<1>2. LedgerInv /\ [Intervention!Next]_(Intervention!vars) => LedgerInv'
  <2> SUFFICES ASSUME LedgerInv, [Intervention!Next]_(Intervention!vars)
               PROVE  LedgerInv'
    OBVIOUS
  <2>1. /\ LedgerShape(ram) /\ LedgerShape(wal) /\ gap \in BOOLEAN
        /\ DOMAIN env = {"ops", "evidence"} /\ env.evidence \in Nat
    BY DEF LedgerInv, LedgerTypeOK
  <2>2. /\ ram.weakened \in Nat /\ wal.weakened \in Nat
        /\ \A x \in Intervention!Sources : ram.weight[x].n \in Nat /\ wal.weight[x].n \in Nat
    BY <2>1 DEF LedgerShape
  <2>3. ASSUME Intervention!Log!LogFails, env' = env PROVE LedgerInv'
    <3>1. ram' = ram /\ wal' = wal /\ todo' = <<>> /\ gap' = TRUE
      BY <2>3 DEF Intervention!Log!LogFails
    <3>2. Due(todo, "strength") \in Nat /\ Due(todo', "strength") = 0 /\ Due(todo', "credit") = 0
      BY <3>1, NoRecords DEF Due
    <3>3. LedgerTypeOK'
      BY <2>1, <2>3, <3>1, NoRecords DEF LedgerTypeOK
    <3>4. EvidenceInv'
      BY <2>2, <2>3, <3>1, <3>2 DEF LedgerInv, EvidenceInv
    <3>5. BookInv'
      BY <3>1 DEF BookInv
    <3> QED  BY <3>3, <3>4, <3>5 DEF LedgerInv
  <2>4. ASSUME Intervention!Log!Checkpoint, env' = env PROVE LedgerInv'
    <3> DEFINE body == Intervention!Body(ram)
    <3>1. /\ ram' = ram /\ wal' = body /\ todo' = <<>> /\ todo = <<>>
          /\ gap' = (body # ram)
      BY <2>4 DEF Intervention!Log!Checkpoint, Intervention!Log!Idle
    <3>2. LedgerShape(body) /\ body.weakened = ram.weakened /\ body.credit.streak = 0
      BY <2>1 DEF LedgerShape, Intervention!Body, Intervention!Empty
    <3> HIDE DEF body
    <3>3. Due(todo', "strength") = 0 /\ Due(todo', "fault") = 0 /\ Due(todo', "credit") = 0
      BY <3>1, NoRecords
    <3>4. LedgerTypeOK'
      BY <2>1, <2>4, <3>1, <3>2, NoRecords DEF LedgerTypeOK
    <3>5. EvidenceInv'
      BY <2>2, <2>4, <3>1, <3>2, <3>3 DEF LedgerInv, EvidenceInv
    <3>6. ASSUME ~gap' PROVE BookInv'
      <4>1. wal' = ram' /\ LedgerShape(ram')
        BY <2>1, <3>1, <3>6
      <4> QED  BY <3>1, <3>3, <4>1 DEF BookInv, LedgerShape
    <3>7. BookInv'
      BY <3>6 DEF BookInv
    <3> QED  BY <3>4, <3>5, <3>7 DEF LedgerInv
  <2>5. ASSUME Intervention!Log!Restart, env' = env PROVE LedgerInv'
    <3>1. ram' = wal /\ wal' = wal /\ todo' = <<>> /\ gap' = FALSE
      BY <2>5 DEF Intervention!Log!Restart
    <3>2. Due(todo', "strength") = 0 /\ Due(todo', "fault") = 0 /\ Due(todo', "credit") = 0
      BY <3>1, NoRecords
    <3>3. LedgerTypeOK'
      BY <2>1, <2>5, <3>1, NoRecords DEF LedgerTypeOK
    <3>4. EvidenceInv'
      <4>1. wal.weakened <= ram.weakened
        <5>1. Due(todo, "strength") \in Nat
          BY DEF Due
        <5> QED  BY <2>2, <5>1 DEF LedgerInv, EvidenceInv
      <4>2. wal.weakened > 0 => env.evidence > wal.weakened
        BY <2>1, <2>2, <4>1 DEF LedgerInv, EvidenceInv
      <4>3. wal.credit.streak > 0 => env.evidence > 0
        BY DEF LedgerInv, EvidenceInv
      <4> QED  BY <2>2, <2>5, <3>1, <3>2, <4>2, <4>3 DEF EvidenceInv
    <3>5. BookInv'
      BY <2>1, <3>1, <3>2 DEF BookInv, LedgerShape
    <3> QED  BY <3>3, <3>4, <3>5 DEF LedgerInv
  <2>6. CASE UNCHANGED Intervention!vars
    BY <2>6 DEF Intervention!vars, LedgerInv, LedgerTypeOK, EvidenceInv, BookInv
  <2>7. ASSUME NEW i \in DOMAIN ram.iv, Intervention!CloseStale(i) PROVE LedgerInv'
    BY <2>7, CloseKeeps DEF Intervention!CloseStale
  <2> QED  BY <2>3, <2>4, <2>5, <2>6, <2>7, StartKeeps, ObserveKeeps, CloseKeeps,
              SurpriseKeeps, AttributionKeeps, LedgerLoggedKeeps
           DEF Intervention!Next
<1> QED  BY <1>1, <1>2

\* One surprise alone never lowers a memory's strength: each lowering has a
\* surprise or a recall-error attribution of its own and the first has two,
\* however failed appends, snapshots and restarts lose or restore the credit
\* in between (update_credit and its gate).
LEMMA RunBeforeBlame == LedgerInv => Intervention!Hysteresis
BY DEF LedgerInv, EvidenceInv, Intervention!Hysteresis

\* Whenever nothing is in flight and no append failed, a restart gives back the
\* interventions with their verdicts, observations and open set, the surprises
\* and what they did to the memory's strength; feedback counters never grow.
LEMMA LedgerFollows == LedgerInv => Intervention!LedgerKept
<1> SUFFICES ASSUME LedgerInv, todo = <<>>, ~gap PROVE Intervention!LedgerKept
  BY DEF Intervention!LedgerKept, Intervention!Log!Settled, Intervention!Log!Idle
<1>1. Due(todo, "strength") = 0 /\ Due(todo, "fault") = 0
  BY NoRecords
<1>2. wal.weakened \in Nat /\ wal.faulted \in Nat
  BY DEF LedgerInv, LedgerTypeOK, LedgerShape
<1>3. Book(ram) = Book(wal)
  BY DEF LedgerInv, BookInv
<1>4. /\ wal.weakened = ram.weakened /\ wal.faulted = ram.faulted
      /\ \A s \in Intervention!Sources : wal.weight[s].n <= ram.weight[s].n
  BY <1>1, <1>2 DEF LedgerInv, BookInv
<1> QED  BY <1>3, <1>4 DEF Book, Intervention!LedgerKept

-----------------------------------------------------------------------------
(* Agent protocol                                                           *)

AgentShape(s) ==
    /\ DOMAIN s = {"tasks", "next", "active", "delegations", "probes", "nextProbe", "open"}
    /\ s.active \subseteq DOMAIN s.tasks
    /\ \A t \in DOMAIN s.tasks :
          DOMAIN s.tasks[t] = {"status", "tagged", "evidence", "criteria"}

\* A replayed store w has the contracts of s, but for the statuses of the tasks
\* in u and the evidence of the tasks in v.
Holds(w, s, u, v) ==
    /\ DOMAIN w.tasks = DOMAIN s.tasks /\ w.active = s.active
    /\ \A t \in DOMAIN s.tasks :
          /\ t \notin u => w.tasks[t].status = s.tasks[t].status
          /\ t \notin v => w.tasks[t].evidence = s.tasks[t].evidence
          /\ w.tasks[t].criteria = s.tasks[t].criteria
    /\ w.probes = s.probes /\ w.open = s.open /\ w.delegations = s.delegations

AgentTypeOK ==
    /\ AgentShape(ram) /\ AgentShape(wal)
    /\ DOMAIN env = {"calls", "relabelled", "relinked"}
    /\ todo # <<>> => todo = <<Head(todo)>>

\* What open() rebuilds, with the record that is about to be appended.
HoldsInv ==
    ~gap => Holds(IF todo = <<>> THEN wal ELSE Agent!Replay(wal, Head(todo)), ram,
                  env.relabelled, env.relinked)

AgentInv == AgentTypeOK /\ HoldsInv

\* Every operation gives a store again, live or replayed.
LEMMA AgentShapes ==
    ASSUME NEW s, AgentShape(s), NEW t, NEW x, NEW y
    PROVE  /\ AgentShape(Agent!AddTask(s, t))
           /\ AgentShape(Agent!AddDelegation(s, t))
           /\ AgentShape(Agent!AddProbe(s, x, t))
           /\ AgentShape(Agent!ResolveProbe(s, x, y))
           /\ t \in DOMAIN s.tasks => AgentShape(Agent!SetTask(s, t, x, y))
           /\ t \in DOMAIN s.tasks => AgentShape(Agent!AddEvidence(s, t, x))
           /\ t \in DOMAIN s.tasks => AgentShape(Agent!SetCriterion(s, t, x, y))
<1>1. AgentShape(Agent!AddTask(s, t))
  <2> DEFINE r == [status |-> "active", tagged |-> FALSE, evidence |-> <<>>,
                   criteria |-> <<>>]
             q == Agent!AddTask(s, t)
  <2>1. DOMAIN r = {"status", "tagged", "evidence", "criteria"}
    OBVIOUS
  <2>2. /\ DOMAIN q = DOMAIN s /\ q.tasks = Agent!Insert(s.tasks, t, r)
        /\ q.active = s.active \cup {t}
    BY DEF Agent!AddTask, AgentShape
  <2> HIDE DEF r, q
  <2>3. AgentShape(q)
    BY <2>1, <2>2 DEF AgentShape, Agent!Insert
  <2> QED  BY <2>3 DEF q
<1>2. AgentShape(Agent!AddDelegation(s, t))
  BY DEF AgentShape, Agent!AddDelegation
<1>3. AgentShape(Agent!AddProbe(s, x, t))
  BY DEF AgentShape, Agent!AddProbe
<1>4. AgentShape(Agent!ResolveProbe(s, x, y))
  BY DEF AgentShape, Agent!ResolveProbe
<1>5. ASSUME t \in DOMAIN s.tasks PROVE AgentShape(Agent!SetTask(s, t, x, y))
  BY <1>5 DEF AgentShape, Agent!SetTask
<1>6. ASSUME t \in DOMAIN s.tasks PROVE AgentShape(Agent!AddEvidence(s, t, x))
  BY <1>6 DEF AgentShape, Agent!AddEvidence
<1>7. ASSUME t \in DOMAIN s.tasks PROVE AgentShape(Agent!SetCriterion(s, t, x, y))
  BY <1>7 DEF AgentShape, Agent!SetCriterion
<1> QED  BY <1>1, <1>2, <1>3, <1>4, <1>5, <1>6, <1>7

LEMMA AgentReplayShape ==
    ASSUME NEW s, AgentShape(s), NEW rec
    PROVE  AgentShape(Agent!Replay(s, rec))
BY AgentShapes DEF Agent!Replay

\* What the three calls on a task make of a store: q is s but for task t.
TaskAdded(q, s, t) ==
    /\ q.probes = s.probes /\ q.open = s.open /\ q.delegations = s.delegations
    /\ q.active = s.active \cup {t}
    /\ DOMAIN q.tasks = DOMAIN s.tasks \cup {t}
    /\ \A j \in DOMAIN s.tasks \ {t} : q.tasks[j] = s.tasks[j]
    /\ q.tasks[t] = [status |-> "active", tagged |-> FALSE, evidence |-> <<>>,
                     criteria |-> <<>>]

TaskUpdated(q, s, t, status) ==
    /\ q.probes = s.probes /\ q.open = s.open /\ q.delegations = s.delegations
    /\ q.active = IF status \in {"none", "active", "blocked"} THEN s.active
                  ELSE s.active \ {t}
    /\ DOMAIN q.tasks = DOMAIN s.tasks
    /\ \A j \in DOMAIN s.tasks \ {t} : q.tasks[j] = s.tasks[j]
    /\ q.tasks[t].status = IF status = "none" THEN s.tasks[t].status ELSE status
    /\ q.tasks[t].evidence = s.tasks[t].evidence
    /\ q.tasks[t].criteria = s.tasks[t].criteria

EvidenceAdded(q, s, t, m) ==
    /\ q.probes = s.probes /\ q.open = s.open /\ q.delegations = s.delegations
    /\ q.active = s.active
    /\ DOMAIN q.tasks = DOMAIN s.tasks
    /\ \A j \in DOMAIN s.tasks \ {t} : q.tasks[j] = s.tasks[j]
    /\ q.tasks[t].status = s.tasks[t].status
    /\ q.tasks[t].evidence = Append(s.tasks[t].evidence, m)
    /\ q.tasks[t].criteria = s.tasks[t].criteria

LEMMA AddTaskAdds ==
    ASSUME NEW s, AgentShape(s), NEW t
    PROVE  TaskAdded(Agent!AddTask(s, t), s, t)
<1> DEFINE r == [status |-> "active", tagged |-> FALSE, evidence |-> <<>>,
                 criteria |-> <<>>]
           q == Agent!AddTask(s, t)
<1>1. /\ q.tasks = Agent!Insert(s.tasks, t, r) /\ q.active = s.active \cup {t}
      /\ q.probes = s.probes /\ q.open = s.open /\ q.delegations = s.delegations
  BY DEF Agent!AddTask, AgentShape
<1> HIDE DEF q
<1>2. TaskAdded(q, s, t)
  BY <1>1 DEF TaskAdded, Agent!Insert
<1> QED  BY <1>2 DEF q

LEMMA SetTaskUpdates ==
    ASSUME NEW s, AgentShape(s), NEW t \in DOMAIN s.tasks, NEW status, NEW tag
    PROVE  TaskUpdated(Agent!SetTask(s, t, status, tag), s, t, status)
BY DEF AgentShape, Agent!SetTask, TaskUpdated

LEMMA AddEvidenceAdds ==
    ASSUME NEW s, AgentShape(s), NEW t \in DOMAIN s.tasks, NEW m
    PROVE  EvidenceAdded(Agent!AddEvidence(s, t, m), s, t, m)
BY DEF AgentShape, Agent!AddEvidence, EvidenceAdded

-----------------------------------------------------------------------------
(* A call and its record                                                    *)

LEMMA AgentCallKeeps ==
    ASSUME AgentInv, NEW new, NEW rec, Agent!Do(new, <<rec>>), AgentShape(new),
           DOMAIN env' = {"calls", "relabelled", "relinked"},
           Holds(wal, ram, env.relabelled, env.relinked)
             => Holds(Agent!Replay(wal, rec), new, env'.relabelled, env'.relinked)
    PROVE  AgentInv'
<1>1. /\ todo = <<>> /\ ram' = new /\ wal' = wal /\ gap' = gap /\ todo' = <<rec>>
  BY DEF Agent!Do, Agent!Log!Idle
<1>2. todo' # <<>> /\ Head(todo') = rec
  BY <1>1
<1>3. AgentTypeOK'
  BY <1>1, <1>2 DEF AgentInv, AgentTypeOK
<1>4. HoldsInv'
  BY <1>1, <1>2 DEF AgentInv, HoldsInv
<1> QED  BY <1>3, <1>4 DEF AgentInv

\* A call that only counts leaves both sets alone.
LEMMA AgentCounted ==
    ASSUME AgentInv, Agent!Counted
    PROVE  /\ DOMAIN env' = {"calls", "relabelled", "relinked"}
           /\ env'.relabelled = env.relabelled /\ env'.relinked = env.relinked
BY DEF AgentInv, AgentTypeOK, Agent!Counted

LEMMA RegisterKeeps ==
    ASSUME AgentInv, Agent!RegisterTask
    PROVE  AgentInv'
<1> DEFINE t == ram.next
           rec == [op |-> "register", task |-> t]
           new == Agent!AddTask(ram, t)
<1>1. AgentShape(ram) /\ AgentShape(wal)
  BY DEF AgentInv, AgentTypeOK
<1>2. Agent!Do(new, <<rec>>) /\ Agent!Counted
  BY DEF Agent!RegisterTask
<1>3. Agent!Replay(wal, rec) = Agent!AddTask(wal, t)
  BY DEF Agent!Replay
<1>4. TaskAdded(new, ram, t) /\ TaskAdded(Agent!AddTask(wal, t), wal, t)
  BY <1>1, AddTaskAdds
<1>5. AgentShape(new)
  BY <1>1, AgentShapes
<1> HIDE DEF new, rec
<1>6. ASSUME Holds(wal, ram, env.relabelled, env.relinked)
      PROVE  Holds(Agent!AddTask(wal, t), new, env.relabelled, env.relinked)
  BY <1>4, <1>6 DEF Holds, TaskAdded
<1> QED  BY <1>2, <1>3, <1>5, <1>6, AgentCounted, AgentCallKeeps

LEMMA UpdateKeeps ==
    ASSUME AgentInv, NEW t \in DOMAIN ram.tasks, NEW status, NEW tag,
           Agent!UpdateTask(t, status, tag)
    PROVE  AgentInv'
<1> DEFINE logged == IF status = "none" THEN "active" ELSE status
           rec == [op |-> "update", task |-> t, tag |-> tag, status |-> logged]
           new == Agent!SetTask(ram, t, status, tag)
<1>1. AgentShape(ram) /\ AgentShape(wal)
  BY DEF AgentInv, AgentTypeOK
<1>2. Agent!Do(new, <<rec>>)
  BY DEF Agent!UpdateTask
<1>3. /\ DOMAIN env' = {"calls", "relabelled", "relinked"}
      /\ env'.relinked = env.relinked
      /\ env'.relabelled = IF status = "none" THEN env.relabelled \cup {t}
                           ELSE env.relabelled \ {t}
  BY DEF Agent!UpdateTask, AgentInv, AgentTypeOK
<1>4. rec.op = "update" /\ rec.task = t /\ rec.status = logged /\ rec.tag = tag
  OBVIOUS
<1> HIDE DEF logged, rec
<1>5. t \in DOMAIN wal.tasks => Agent!Replay(wal, rec) = Agent!SetTask(wal, t, logged, tag)
  BY <1>4 DEF Agent!Replay
<1>6. ASSUME Holds(wal, ram, env.relabelled, env.relinked)
      PROVE  Holds(Agent!SetTask(wal, t, logged, tag), new, env'.relabelled, env'.relinked)
  <2> DEFINE w == Agent!SetTask(wal, t, logged, tag)
  <2>0. t \in DOMAIN wal.tasks
    BY <1>6 DEF Holds
  <2>1. TaskUpdated(new, ram, t, status)
    BY <1>1, SetTaskUpdates
  <2>2. TaskUpdated(w, wal, t, logged)
    BY <1>1, <2>0, SetTaskUpdates
  <2> HIDE DEF w, new
  <2>3. w.active = new.active
    BY <1>6, <2>1, <2>2 DEF Holds, logged, TaskUpdated
  <2>4. status # "none" => w.tasks[t].status = new.tasks[t].status
    BY <2>1, <2>2 DEF logged, TaskUpdated
  <2>5. Holds(w, new, env'.relabelled, env'.relinked)
    BY <1>3, <1>6, <2>1, <2>2, <2>3, <2>4 DEF Holds, TaskUpdated
  <2> QED  BY <2>5 DEF w
<1>7. AgentShape(new)
  BY <1>1, AgentShapes
<1>8. Holds(wal, ram, env.relabelled, env.relinked) => t \in DOMAIN wal.tasks
  BY DEF Holds
<1> HIDE DEF new
<1> QED  BY <1>2, <1>3, <1>5, <1>6, <1>7, <1>8, AgentCallKeeps

LEMMA DelegateKeeps ==
    ASSUME AgentInv, NEW t \in DOMAIN ram.tasks, Agent!Delegate(t)
    PROVE  AgentInv'
<1> DEFINE rec == [op |-> "delegate", task |-> t]
           new == Agent!AddDelegation(ram, t)
<1>1. AgentShape(ram) /\ AgentShape(wal)
  BY DEF AgentInv, AgentTypeOK
<1>2. Agent!Do(new, <<rec>>) /\ Agent!Counted
  BY DEF Agent!Delegate
<1>3. Agent!Replay(wal, rec) = Agent!AddDelegation(wal, t)
  BY DEF Agent!Replay
<1>4. Holds(wal, ram, env.relabelled, env.relinked)
        => Holds(Agent!AddDelegation(wal, t), new, env.relabelled, env.relinked)
  BY <1>1 DEF Holds, Agent!AddDelegation, AgentShape
<1>5. AgentShape(new)
  BY <1>1, AgentShapes
<1> HIDE DEF new, rec
<1> QED  BY <1>2, <1>3, <1>4, <1>5, AgentCounted, AgentCallKeeps

LEMMA LinkKeeps ==
    ASSUME AgentInv, NEW t \in DOMAIN ram.tasks, NEW m, Agent!LinkEvidence(t, m)
    PROVE  AgentInv'
<1> DEFINE rec == [op |-> "evidence", task |-> t, memory |-> m]
           again == \E n \in DOMAIN ram.tasks[t].evidence : ram.tasks[t].evidence[n] = m
           new == IF again THEN ram ELSE Agent!AddEvidence(ram, t, m)
<1>1. AgentShape(ram) /\ AgentShape(wal)
  BY DEF AgentInv, AgentTypeOK
<1>2. Agent!Do(new, <<rec>>)
  BY DEF Agent!LinkEvidence
<1>3. /\ DOMAIN env' = {"calls", "relabelled", "relinked"}
      /\ env'.relabelled = env.relabelled
      /\ env'.relinked = IF again THEN env.relinked \cup {t} ELSE env.relinked
  BY DEF Agent!LinkEvidence, AgentInv, AgentTypeOK
<1>4. t \in DOMAIN wal.tasks => Agent!Replay(wal, rec) = Agent!AddEvidence(wal, t, m)
  BY DEF Agent!Replay
<1> HIDE DEF rec, again
<1>5. AgentShape(new)
  BY <1>1, AgentShapes
<1>6. ASSUME Holds(wal, ram, env.relabelled, env.relinked)
      PROVE  Holds(Agent!AddEvidence(wal, t, m), new, env'.relabelled, env'.relinked)
  <2> DEFINE w == Agent!AddEvidence(wal, t, m)
  <2>1. t \in DOMAIN wal.tasks
    BY <1>6 DEF Holds
  <2>2. EvidenceAdded(w, wal, t, m)
    BY <1>1, <2>1, AddEvidenceAdds
  <2>3. IF again THEN new = ram ELSE EvidenceAdded(new, ram, t, m)
    BY <1>1, AddEvidenceAdds
  <2> HIDE DEF w, new
  <2>4. Holds(w, new, env'.relabelled, env'.relinked)
    <3>1. CASE again
      BY <1>3, <1>6, <2>2, <2>3, <3>1 DEF Holds, EvidenceAdded
    <3>2. CASE ~again
      <4>1. EvidenceAdded(new, ram, t, m) /\ env'.relinked = env.relinked
        BY <1>3, <2>3, <3>2
      <4>2. t \notin env.relinked => w.tasks[t].evidence = new.tasks[t].evidence
        BY <1>6, <2>2, <4>1, Zenon DEF Holds, EvidenceAdded
      <4>3. \A j \in DOMAIN ram.tasks : j \notin env.relinked
                                        => w.tasks[j].evidence = new.tasks[j].evidence
        BY <1>6, <2>2, <4>1, <4>2, Zenon DEF Holds, EvidenceAdded
      <4>4. \A j \in DOMAIN ram.tasks :
               /\ j \notin env.relabelled => w.tasks[j].status = new.tasks[j].status
               /\ w.tasks[j].criteria = new.tasks[j].criteria
        BY <1>6, <2>2, <4>1, Zenon DEF Holds, EvidenceAdded
      <4>5. /\ DOMAIN w.tasks = DOMAIN new.tasks /\ w.active = new.active
            /\ DOMAIN new.tasks = DOMAIN ram.tasks
            /\ w.probes = new.probes /\ w.open = new.open
            /\ w.delegations = new.delegations
        BY <1>6, <2>2, <4>1, Zenon DEF Holds, EvidenceAdded
      <4> QED  BY <1>3, <4>1, <4>3, <4>4, <4>5 DEF Holds
    <3> QED  BY <3>1, <3>2
  <2> QED  BY <2>4 DEF w
<1>7. Holds(wal, ram, env.relabelled, env.relinked) => t \in DOMAIN wal.tasks
  BY DEF Holds
<1> HIDE DEF new
<1> QED  BY <1>2, <1>3, <1>4, <1>5, <1>6, <1>7, AgentCallKeeps

LEMMA AskKeeps ==
    ASSUME AgentInv, NEW t \in DOMAIN ram.tasks, Agent!AskProbe(t)
    PROVE  AgentInv'
<1> DEFINE p == ram.nextProbe
           rec == [op |-> "probe", probe |-> p, task |-> t]
           new == Agent!AddProbe(ram, p, t)
<1>1. AgentShape(ram) /\ AgentShape(wal)
  BY DEF AgentInv, AgentTypeOK
<1>2. Agent!Do(new, <<rec>>) /\ Agent!Counted
  BY DEF Agent!AskProbe
<1>3. Agent!Replay(wal, rec) = Agent!AddProbe(wal, p, t)
  BY DEF Agent!Replay
<1>4. Holds(wal, ram, env.relabelled, env.relinked)
        => Holds(Agent!AddProbe(wal, p, t), new, env.relabelled, env.relinked)
  BY <1>1 DEF Holds, Agent!AddProbe, AgentShape
<1>5. AgentShape(new)
  BY <1>1, AgentShapes
<1> HIDE DEF new, rec
<1> QED  BY <1>2, <1>3, <1>4, <1>5, AgentCounted, AgentCallKeeps

LEMMA AnswerKeeps ==
    ASSUME AgentInv, NEW p \in DOMAIN ram.probes, NEW status, Agent!AnswerProbe(p, status)
    PROVE  AgentInv'
<1> DEFINE rec == [op |-> "resolve", probe |-> p, status |-> status]
           new == Agent!ResolveProbe(ram, p, status)
<1>1. AgentShape(ram) /\ AgentShape(wal)
  BY DEF AgentInv, AgentTypeOK
<1>2. Agent!Do(new, <<rec>>) /\ Agent!Counted
  BY DEF Agent!AnswerProbe
<1>3. p \in DOMAIN wal.probes => Agent!Replay(wal, rec) = Agent!ResolveProbe(wal, p, status)
  BY DEF Agent!Replay
<1>4. Holds(wal, ram, env.relabelled, env.relinked)
        => Holds(Agent!ResolveProbe(wal, p, status), new, env.relabelled, env.relinked)
  BY <1>1 DEF Holds, Agent!ResolveProbe, AgentShape
<1>5. AgentShape(new)
  BY <1>1, AgentShapes
<1>6. Holds(wal, ram, env.relabelled, env.relinked) => p \in DOMAIN wal.probes
  BY DEF Holds
<1> HIDE DEF new, rec
<1> QED  BY <1>2, <1>3, <1>4, <1>5, <1>6, AgentCounted, AgentCallKeeps

LEMMA CriterionKeeps ==
    ASSUME AgentInv, NEW t \in DOMAIN ram.tasks, NEW c, NEW met,
           Agent!CheckCriterion(t, c, met)
    PROVE  AgentInv'
<1> DEFINE rec == [op |-> "criterion", task |-> t, criterion |-> c, met |-> met]
           new == Agent!SetCriterion(ram, t, c, met)
<1>1. AgentShape(ram) /\ AgentShape(wal)
  BY DEF AgentInv, AgentTypeOK
<1>2. Agent!Do(new, <<rec>>) /\ Agent!Counted
  BY DEF Agent!CheckCriterion
<1>3. t \in DOMAIN wal.tasks => Agent!Replay(wal, rec) = Agent!SetCriterion(wal, t, c, met)
  BY Zenon DEF Agent!Replay
<1>4. ASSUME NEW s, AgentShape(s), t \in DOMAIN s.tasks
      PROVE  LET q == Agent!SetCriterion(s, t, c, met)
             IN  /\ q.active = s.active /\ q.probes = s.probes /\ q.open = s.open
                 /\ q.delegations = s.delegations /\ DOMAIN q.tasks = DOMAIN s.tasks
                 /\ \A j \in DOMAIN s.tasks : /\ q.tasks[j].status = s.tasks[j].status
                                              /\ q.tasks[j].evidence = s.tasks[j].evidence
                 /\ \A j \in DOMAIN s.tasks \ {t} : q.tasks[j] = s.tasks[j]
                 /\ q.tasks[t].criteria = Agent!Insert(s.tasks[t].criteria, c, met)
  BY <1>4 DEF Agent!SetCriterion, AgentShape
<1>5. ASSUME Holds(wal, ram, env.relabelled, env.relinked)
      PROVE  Holds(Agent!SetCriterion(wal, t, c, met), new, env.relabelled, env.relinked)
  <2>1. t \in DOMAIN wal.tasks
    BY <1>5 DEF Holds
  <2> QED  BY <1>1, <1>4, <1>5, <2>1 DEF Holds
<1>6. AgentShape(new)
  BY <1>1, AgentShapes
<1>7. Holds(wal, ram, env.relabelled, env.relinked) => t \in DOMAIN wal.tasks
  BY DEF Holds
<1> HIDE DEF new, rec
<1> QED  BY <1>2, <1>3, <1>5, <1>6, <1>7, AgentCounted, AgentCallKeeps

LEMMA AgentInductive ==
    /\ Agent!Init => AgentInv
    /\ AgentInv /\ [Agent!Next]_(Agent!vars) => AgentInv'
<1>1. Agent!Init => AgentInv
  <2> SUFFICES ASSUME Agent!Init PROVE AgentInv
    OBVIOUS
  <2>1. /\ ram = Agent!Empty /\ wal = Agent!Empty /\ todo = <<>>
        /\ env = [calls |-> 0, relabelled |-> {}, relinked |-> {}]
    BY DEF Agent!Init, Agent!Log!LogInit
  <2>2. AgentShape(Agent!Empty)
    BY DEF AgentShape, Agent!Empty
  <2> QED  BY <2>1, <2>2 DEF AgentInv, AgentTypeOK, HoldsInv, Holds
<1>2. AgentInv /\ [Agent!Next]_(Agent!vars) => AgentInv'
  <2> SUFFICES ASSUME AgentInv, [Agent!Next]_(Agent!vars) PROVE AgentInv'
    OBVIOUS
  <2>1. /\ AgentShape(ram) /\ AgentShape(wal)
        /\ DOMAIN env = {"calls", "relabelled", "relinked"}
    BY DEF AgentInv, AgentTypeOK
  <2>2. ASSUME NEW s, NEW u, NEW v PROVE Holds(s, s, u, v)
    BY DEF Holds
  <2>3. ASSUME Agent!Log!Logged, env' = env PROVE AgentInv'
    <3>1. /\ todo # <<>> /\ wal' = Agent!Replay(wal, Head(todo)) /\ todo' = Tail(todo)
          /\ ram' = ram /\ gap' = gap
      BY <2>3 DEF Agent!Log!Logged, Agent!Log!Idle
    <3>2. todo' = <<>>
      <4>1. todo = <<Head(todo)>>
        BY <3>1 DEF AgentInv, AgentTypeOK
      <4> QED  BY <3>1, <4>1
    <3>3. AgentTypeOK'
      BY <2>1, <2>3, <3>1, <3>2, AgentReplayShape DEF AgentTypeOK
    <3>4. HoldsInv'
      BY <2>3, <3>1, <3>2 DEF AgentInv, HoldsInv
    <3> QED  BY <3>3, <3>4 DEF AgentInv
  <2>4. ASSUME Agent!Log!LogFails, env' = env PROVE AgentInv'
    BY <2>1, <2>4 DEF Agent!Log!LogFails, AgentInv, AgentTypeOK, HoldsInv
  <2>5. ASSUME Agent!Log!Checkpoint, env' = env PROVE AgentInv'
    <3>1. /\ wal' = Agent!Empty /\ gap' = (Agent!Empty # ram) /\ ram' = ram
          /\ todo' = <<>>
      BY <2>5 DEF Agent!Log!Checkpoint, Agent!Log!Idle, Agent!Body
    <3>2. AgentShape(Agent!Empty)
      BY DEF AgentShape, Agent!Empty
    <3>3. AgentTypeOK'
      BY <2>1, <2>5, <3>1, <3>2 DEF AgentTypeOK
    <3>4. ASSUME ~gap' PROVE wal' = ram'
      BY <3>1, <3>4
    <3>5. HoldsInv'
      BY <2>2, <3>1, <3>4 DEF HoldsInv
    <3> QED  BY <3>3, <3>5 DEF AgentInv
  <2>6. CASE Agent!Reopen
    <3>1. /\ ram' = wal /\ wal' = wal /\ todo' = <<>>
          /\ DOMAIN env' = {"calls", "relabelled", "relinked"}
      BY <2>1, <2>6 DEF Agent!Reopen, Agent!Log!Restart
    <3>2. AgentTypeOK'
      BY <2>1, <3>1 DEF AgentTypeOK
    <3>3. HoldsInv'
      BY <2>2, <3>1 DEF HoldsInv
    <3> QED  BY <3>2, <3>3 DEF AgentInv
  <2>7. ASSUME NEW t \in DOMAIN ram.tasks, Agent!AutoCompleteTask(t) PROVE AgentInv'
    BY <2>7, UpdateKeeps DEF Agent!AutoCompleteTask
  <2>8. CASE UNCHANGED Agent!vars
    BY <2>8 DEF Agent!vars, AgentInv, AgentTypeOK, HoldsInv
  <2> QED  BY <2>3, <2>4, <2>5, <2>6, <2>7, <2>8, RegisterKeeps, UpdateKeeps,
              DelegateKeeps, LinkKeeps, AskKeeps, AnswerKeeps, CriterionKeeps
           DEF Agent!Next
<1> QED  BY <1>1, <1>2

\* Whenever nothing is in flight and no append failed, a restart gives back
\* every contract with status, evidence, criteria, probes and delegations, and
\* auto_complete_tasks would close the same tasks; the exceptions are a status
\* after an update that named none, and evidence that was linked twice.
LEMMA ContractsFollow == AgentInv => Agent!ContractsKept
<1> SUFFICES ASSUME AgentInv, todo = <<>>, ~gap PROVE Agent!ContractsKept
  BY DEF Agent!ContractsKept, Agent!Log!Settled, Agent!Log!Idle
<1>1. Holds(wal, ram, env.relabelled, env.relinked)
  BY DEF AgentInv, HoldsInv
<1>2. AgentShape(ram) /\ AgentShape(wal)
  BY DEF AgentInv, AgentTypeOK
<1>3. \A t \in ram.active : t \in DOMAIN ram.tasks
                            /\ wal.tasks[t].criteria = ram.tasks[t].criteria
  BY <1>1, <1>2 DEF AgentShape, Holds
<1>4. wal.active = ram.active
  BY <1>1 DEF Holds
<1>5. Agent!Complete(wal) = Agent!Complete(ram)
  BY <1>3, <1>4, Zenon DEF Agent!Complete
<1> QED  BY <1>1, <1>5 DEF Holds, Agent!ContractsKept

-----------------------------------------------------------------------------
(* Skills, agents, the user model and analytics                             *)

RegistryShape(s) == DOMAIN s = {"skills", "agents", "users", "analytics"}

\* The agents of a registry, none seen after the n-th call.
AgentRows(s, n) ==
    \A a \in DOMAIN s.agents :
       /\ DOMAIN s.agents[a] = {"status", "seen", "memories", "sessions"}
       /\ s.agents[a].memories \in Nat /\ s.agents[a].sessions \in Nat
       /\ s.agents[a].seen \in Nat /\ s.agents[a].seen <= n

\* What the log has of a registry; unlike: it may have other analytics.
Registered(w, r, unlike) ==
    /\ w.skills = r.skills /\ w.users = r.users
    /\ unlike \/ w.analytics = r.analytics
    /\ DOMAIN w.agents = DOMAIN r.agents
    /\ \A a \in DOMAIN r.agents :
          /\ w.agents[a].status = r.agents[a].status
          /\ w.agents[a].memories <= r.agents[a].memories
          /\ w.agents[a].seen <= r.agents[a].seen

RegistryInv ==
    /\ RegistryShape(ram) /\ RegistryShape(wal) /\ todo = <<>> /\ gap \in BOOLEAN
    /\ DOMAIN env = {"calls", "emitted"} /\ env.calls \in Nat /\ env.emitted \in BOOLEAN
    /\ AgentRows(ram, env.calls) /\ AgentRows(wal, env.calls)
    /\ ~gap => Registered(wal, ram, env.emitted)

\* A call that is logged and then applied keeps the two alike.
LEMMA RegistryCall ==
    ASSUME RegistryInv, NEW new, NEW rec, Registry!Call(new, rec),
           RegistryShape(new), AgentRows(new, env.calls + 1),
           RegistryShape(Registry!Replay(wal, rec)),
           AgentRows(Registry!Replay(wal, rec), env.calls + 1),
           ~gap => Registered(Registry!Replay(wal, rec), new, env.emitted)
    PROVE  RegistryInv'
<1>1. /\ ram' = new /\ wal' = Registry!Replay(wal, rec) /\ todo' = todo /\ gap' = gap
      /\ env' = [env EXCEPT !.calls = @ + 1]
  BY DEF Registry!Call
<1>2. /\ DOMAIN env' = {"calls", "emitted"} /\ env'.calls = env.calls + 1
      /\ env'.calls \in Nat /\ env'.emitted = env.emitted
  BY <1>1 DEF RegistryInv
<1> HIDE DEF RegistryShape, AgentRows, Registered
<1> QED  BY <1>1, <1>2 DEF RegistryInv

\* Rows seen by the n-th call were seen by the next.
LEMMA RowsLater ==
    ASSUME NEW s, NEW n \in Nat, AgentRows(s, n)
    PROVE  AgentRows(s, n + 1)
BY DEF AgentRows

LEMMA SkillsAlike ==
    ASSUME NEW s, RegistryShape(s), NEW n \in Nat, AgentRows(s, n), NEW k
    PROVE  LET t == Registry!SkillUpload(s, k)
               u == Registry!SkillDeprecate(s, k)
           IN /\ RegistryShape(t) /\ AgentRows(t, n + 1)
              /\ t.agents = s.agents /\ t.users = s.users /\ t.analytics = s.analytics
              /\ RegistryShape(u) /\ AgentRows(u, n + 1)
              /\ u.agents = s.agents /\ u.users = s.users /\ u.analytics = s.analytics
<1>1. AgentRows(s, n + 1)
  BY RowsLater
<1> DEFINE t == Registry!SkillUpload(s, k)
           u == Registry!SkillDeprecate(s, k)
<1>2. /\ RegistryShape(t)
      /\ t.agents = s.agents /\ t.users = s.users /\ t.analytics = s.analytics
  BY DEF RegistryShape, Registry!SkillUpload
<1>3. /\ RegistryShape(u)
      /\ u.agents = s.agents /\ u.users = s.users /\ u.analytics = s.analytics
  BY DEF RegistryShape, Registry!SkillDeprecate
<1> QED  BY <1>1, <1>2, <1>3 DEF AgentRows

LEMMA SkillsSame ==
    ASSUME NEW s, RegistryShape(s), NEW w, RegistryShape(w), w.skills = s.skills, NEW k
    PROVE  /\ Registry!SkillUpload(w, k).skills = Registry!SkillUpload(s, k).skills
           /\ Registry!SkillDeprecate(w, k).skills = Registry!SkillDeprecate(s, k).skills
<1>1. Registry!Versions(w, k) = Registry!Versions(s, k)
  BY DEF Registry!Versions
<1>2. Registry!SkillUpload(w, k).skills = Registry!SkillUpload(s, k).skills
  BY <1>1 DEF Registry!SkillUpload, RegistryShape
<1>3. Registry!SkillDeprecate(w, k).skills = Registry!SkillDeprecate(s, k).skills
  BY <1>1 DEF Registry!SkillDeprecate, RegistryShape
<1> QED  BY <1>2, <1>3

LEMMA UsersAlike ==
    ASSUME NEW s, RegistryShape(s), NEW n \in Nat, AgentRows(s, n), NEW e,
           NEW t, \/ t = Registry!UserUpsert(s, e) \/ t = Registry!UserObserve(s, e)
                  \/ t = Registry!AnalyticsAppend(s, e)
    PROVE  /\ RegistryShape(t) /\ AgentRows(t, n + 1)
           /\ t.agents = s.agents /\ t.skills = s.skills
<1>1. AgentRows(s, n + 1)
  BY RowsLater
<1>2. RegistryShape(t) /\ t.agents = s.agents /\ t.skills = s.skills
  BY DEF RegistryShape, Registry!UserUpsert, Registry!UserObserve, Registry!AnalyticsAppend
<1> QED  BY <1>1, <1>2 DEF AgentRows

LEMMA AgentsAlike ==
    ASSUME NEW s, RegistryShape(s), NEW n \in Nat, AgentRows(s, n), NEW a,
           NEW t, t = Registry!AgentUpsert(s, a, n) \/ t = Registry!AgentDisable(s, a)
    PROVE  /\ RegistryShape(t) /\ AgentRows(t, n + 1)
           /\ t.skills = s.skills /\ t.users = s.users /\ t.analytics = s.analytics
<1>1. /\ RegistryShape(t)
      /\ t.skills = s.skills /\ t.users = s.users /\ t.analytics = s.analytics
  BY DEF RegistryShape, Registry!AgentUpsert, Registry!AgentDisable
<1>2. CASE t = Registry!AgentDisable(s, a)
  BY <1>2 DEF AgentRows, RegistryShape, Registry!AgentDisable
<1>3. CASE t = Registry!AgentUpsert(s, a, n)
  BY <1>3 DEF AgentRows, RegistryShape, Registry!AgentUpsert, Registry!Insert
<1> QED  BY <1>1, <1>2, <1>3

\* An upsert or a revocation on both sides.
LEMMA AgentsSame ==
    ASSUME NEW s, RegistryShape(s), NEW w, RegistryShape(w), NEW n \in Nat,
           AgentRows(s, n), AgentRows(w, n), NEW a, NEW x, Registered(w, s, x)
    PROVE  /\ Registered(Registry!AgentUpsert(w, a, n), Registry!AgentUpsert(s, a, n), x)
           /\ Registered(Registry!AgentDisable(w, a), Registry!AgentDisable(s, a), x)
<1>1. Registered(Registry!AgentDisable(w, a), Registry!AgentDisable(s, a), x)
  BY DEF AgentRows, RegistryShape, Registered, Registry!AgentDisable
<1>2. Registered(Registry!AgentUpsert(w, a, n), Registry!AgentUpsert(s, a, n), x)
  BY DEF AgentRows, RegistryShape, Registered, Registry!AgentUpsert, Registry!Insert
<1> QED  BY <1>1, <1>2

LEMMA RegistryCallsStep ==
    ASSUME RegistryInv, NEW key,
           \/ Registry!CfSkillUpload(key) \/ Registry!CfSkillDeprecate(key)
           \/ Registry!CfAgentUpsert(key) \/ Registry!CfAgentDisable(key)
           \/ Registry!CfUserModelUpsert(key) \/ Registry!CfUserModelObserve(key)
           \/ Registry!CfAnalyticsAppend(key)
    PROVE  RegistryInv'
<1>0. /\ RegistryShape(ram) /\ RegistryShape(wal) /\ env.calls \in Nat
      /\ AgentRows(ram, env.calls) /\ AgentRows(wal, env.calls)
      /\ ~gap => Registered(wal, ram, env.emitted)
  BY DEF RegistryInv
<1>1. CASE Registry!CfSkillUpload(key)
  <2> DEFINE rec == Registry!Rec("upload", key)
  <2>1. Registry!Replay(wal, rec) = Registry!SkillUpload(wal, key)
    BY DEF Registry!Replay, Registry!Rec
  <2>2. Registry!Call(Registry!SkillUpload(ram, key), rec)
    BY <1>1 DEF Registry!CfSkillUpload
  <2>3. ~gap => Registered(Registry!SkillUpload(wal, key), Registry!SkillUpload(ram, key),
                           env.emitted)
    BY <1>0, SkillsAlike, SkillsSame DEF Registered
  <2> HIDE DEF rec
  <2> QED  BY <1>0, <2>1, <2>2, <2>3, SkillsAlike, RegistryCall
<1>2. CASE Registry!CfSkillDeprecate(key)
  <2> DEFINE rec == Registry!Rec("deprecate", key)
  <2>1. Registry!Replay(wal, rec) = Registry!SkillDeprecate(wal, key)
    BY DEF Registry!Replay, Registry!Rec
  <2>2. Registry!Call(Registry!SkillDeprecate(ram, key), rec)
    BY <1>2 DEF Registry!CfSkillDeprecate
  <2>3. ~gap => Registered(Registry!SkillDeprecate(wal, key),
                           Registry!SkillDeprecate(ram, key), env.emitted)
    BY <1>0, SkillsAlike, SkillsSame DEF Registered
  <2> HIDE DEF rec
  <2> QED  BY <1>0, <2>1, <2>2, <2>3, SkillsAlike, RegistryCall
<1>3. CASE Registry!CfAgentUpsert(key)
  <2> DEFINE rec == [op |-> "agent", key |-> key, ts |-> env.calls]
  <2>1. Registry!Replay(wal, rec) = Registry!AgentUpsert(wal, key, env.calls)
    BY DEF Registry!Replay
  <2>2. Registry!Call(Registry!AgentUpsert(ram, key, env.calls), rec)
    BY <1>3 DEF Registry!CfAgentUpsert
  <2> HIDE DEF rec
  <2> QED  BY <1>0, <2>1, <2>2, AgentsAlike, AgentsSame, RegistryCall
<1>4. CASE Registry!CfAgentDisable(key)
  <2> DEFINE rec == Registry!Rec("disable", key)
  <2>1. Registry!Replay(wal, rec) = Registry!AgentDisable(wal, key)
    BY DEF Registry!Replay, Registry!Rec
  <2>2. Registry!Call(Registry!AgentDisable(ram, key), rec)
    BY <1>4 DEF Registry!CfAgentDisable
  <2> HIDE DEF rec
  <2> QED  BY <1>0, <2>1, <2>2, AgentsAlike, AgentsSame, RegistryCall
<1>5. CASE Registry!CfUserModelUpsert(key)
  <2> DEFINE rec == Registry!Rec("user", key)
  <2>1. Registry!Replay(wal, rec) = Registry!UserUpsert(wal, key)
    BY DEF Registry!Replay, Registry!Rec
  <2>2. Registry!Call(Registry!UserUpsert(ram, key), rec)
    BY <1>5 DEF Registry!CfUserModelUpsert
  <2>3. ~gap => Registered(Registry!UserUpsert(wal, key), Registry!UserUpsert(ram, key),
                           env.emitted)
    BY <1>0 DEF Registered, RegistryShape, Registry!UserUpsert
  <2> HIDE DEF rec
  <2> QED  BY <1>0, <2>1, <2>2, <2>3, UsersAlike, RegistryCall
<1>6. CASE Registry!CfUserModelObserve(key)
  <2> DEFINE rec == Registry!Rec("observe", key)
  <2>1. Registry!Replay(wal, rec) = Registry!UserObserve(wal, key)
    BY DEF Registry!Replay, Registry!Rec
  <2>2. Registry!Call(Registry!UserObserve(ram, key), rec)
    BY <1>6 DEF Registry!CfUserModelObserve
  <2>3. ~gap => Registered(Registry!UserObserve(wal, key), Registry!UserObserve(ram, key),
                           env.emitted)
    BY <1>0 DEF Registered, RegistryShape, Registry!UserObserve
  <2> HIDE DEF rec
  <2> QED  BY <1>0, <2>1, <2>2, <2>3, UsersAlike, RegistryCall
<1>7. CASE Registry!CfAnalyticsAppend(key)
  <2> DEFINE rec == Registry!Rec("analytics", key)
  <2>1. Registry!Replay(wal, rec) = Registry!AnalyticsAppend(wal, key)
    BY DEF Registry!Replay, Registry!Rec
  <2>2. Registry!Call(Registry!AnalyticsAppend(ram, key), rec)
    BY <1>7 DEF Registry!CfAnalyticsAppend
  <2>3. ~gap => Registered(Registry!AnalyticsAppend(wal, key),
                           Registry!AnalyticsAppend(ram, key), env.emitted)
    BY <1>0 DEF Registered, RegistryShape, Registry!AnalyticsAppend
  <2> HIDE DEF rec
  <2> QED  BY <1>0, <2>1, <2>2, <2>3, UsersAlike, RegistryCall
<1> QED  BY <1>1, <1>2, <1>3, <1>4, <1>5, <1>6, <1>7

\* The activity counters grow in memory alone.
LEMMA AgentRecordStep ==
    ASSUME RegistryInv, NEW a, NEW c \in {"memories", "sessions"},
           Registry!CfAgentRecord(a, c)
    PROVE  RegistryInv'
<1> DEFINE row == [ram.agents[a] EXCEPT ![c] = @ + 1, !.seen = env.calls]
<1>1. /\ a \in DOMAIN ram.agents
      /\ ram' = [ram EXCEPT !.agents[a][c] = @ + 1, !.agents[a].seen = env.calls]
      /\ wal' = wal /\ todo' = todo /\ gap' = gap /\ env' = [env EXCEPT !.calls = @ + 1]
  BY DEF Registry!CfAgentRecord
<1>2. /\ DOMAIN env' = {"calls", "emitted"} /\ env'.calls = env.calls + 1
      /\ env'.calls \in Nat /\ env'.emitted = env.emitted /\ env.calls \in Nat
  BY <1>1 DEF RegistryInv
<1>3. /\ DOMAIN row = {"status", "seen", "memories", "sessions"}
      /\ row.memories \in Nat /\ row.sessions \in Nat /\ row.seen = env.calls
      /\ row.status = ram.agents[a].status /\ row.memories >= ram.agents[a].memories
  BY <1>1 DEF RegistryInv, AgentRows
<1>10. /\ a \in DOMAIN ram.agents /\ DOMAIN ram = {"skills", "agents", "users", "analytics"}
       /\ DOMAIN ram.agents[a] = {"status", "seen", "memories", "sessions"}
  BY <1>1 DEF RegistryInv, RegistryShape, AgentRows
<1> DEFINE first == [ram EXCEPT !.agents[a][c] = @ + 1]
<1>11. /\ DOMAIN first = DOMAIN ram /\ DOMAIN first.agents = DOMAIN ram.agents
       /\ first.skills = ram.skills /\ first.users = ram.users
       /\ first.analytics = ram.analytics
       /\ first.agents[a] = [ram.agents[a] EXCEPT ![c] = @ + 1]
       /\ \A b \in DOMAIN ram.agents \ {a} : first.agents[b] = ram.agents[b]
  BY <1>1, <1>10
<1>12. ram' = [first EXCEPT !.agents[a].seen = env.calls]
  BY <1>1
<1> HIDE DEF first
<1>13. row = [first.agents[a] EXCEPT !.seen = env.calls]
  BY <1>10, <1>11
<1> HIDE DEF row
<1>4. /\ RegistryShape(ram') /\ ram'.skills = ram.skills /\ ram'.users = ram.users
      /\ ram'.analytics = ram.analytics /\ DOMAIN ram'.agents = DOMAIN ram.agents
      /\ ram'.agents[a] = row
      /\ \A b \in DOMAIN ram.agents \ {a} : ram'.agents[b] = ram.agents[b]
  BY <1>10, <1>11, <1>12, <1>13 DEF RegistryShape
<1>5. AgentRows(ram', env'.calls)
  BY <1>2, <1>3, <1>4 DEF RegistryInv, AgentRows
<1>6. AgentRows(wal', env'.calls)
  BY <1>1, <1>2, RowsLater DEF RegistryInv
<1>7. ASSUME ~gap PROVE Registered(wal, ram', env.emitted)
  <2>1. /\ Registered(wal, ram, env.emitted)
        /\ AgentRows(wal, env.calls) /\ AgentRows(ram, env.calls)
    BY <1>7 DEF RegistryInv
  <2>2. \A b \in DOMAIN ram.agents :
           /\ wal.agents[b].status = ram'.agents[b].status
           /\ wal.agents[b].memories <= ram'.agents[b].memories
           /\ wal.agents[b].seen <= ram'.agents[b].seen
    BY <1>1, <1>2, <1>3, <1>4, <2>1 DEF Registered, AgentRows
  <2> QED  BY <1>4, <2>1, <2>2 DEF Registered
<1> QED  BY <1>1, <1>2, <1>4, <1>5, <1>6, <1>7 DEF RegistryInv

LEMMA RegistryInductive ==
    /\ Registry!Init => RegistryInv
    /\ RegistryInv /\ [Registry!Next]_(Registry!vars) => RegistryInv'
<1>0. /\ RegistryShape(Registry!Empty) /\ \A n \in Nat : AgentRows(Registry!Empty, n)
      /\ \A s, x : RegistryShape(s) /\ (\E n \in Nat : AgentRows(s, n)) => Registered(s, s, x)
  BY DEF RegistryShape, AgentRows, Registered, Registry!Empty
<1>1. ASSUME Registry!Init PROVE RegistryInv
  <2>1. /\ ram = Registry!Empty /\ wal = Registry!Empty /\ todo = <<>> /\ gap = FALSE
        /\ env = [calls |-> 0, emitted |-> FALSE]
    BY <1>1 DEF Registry!Init, Registry!Log!LogInit
  <2>2. DOMAIN env = {"calls", "emitted"} /\ env.calls = 0 /\ env.emitted = FALSE
    BY <2>1
  <2> QED  BY <1>0, <2>1, <2>2 DEF RegistryInv
<1>2. ASSUME RegistryInv, [Registry!Next]_(Registry!vars) PROVE RegistryInv'
  <2>1. ASSUME NEW tag, Registry!EmitAnalytics(tag) PROVE RegistryInv'
    <3>1. /\ ram' = ram /\ todo' = todo /\ gap' = gap
          /\ wal' = Registry!AnalyticsAppend(wal, tag)
          /\ env' = [calls |-> env.calls + 1, emitted |-> TRUE]
      BY <2>1 DEF Registry!EmitAnalytics, Registry!Replay, Registry!Rec
    <3>2. /\ DOMAIN env' = {"calls", "emitted"} /\ env'.calls = env.calls + 1
          /\ env'.calls \in Nat /\ env'.emitted = TRUE
      BY <1>2, <3>1 DEF RegistryInv
    <3>3. /\ RegistryShape(wal') /\ AgentRows(wal', env.calls + 1)
          /\ wal'.agents = wal.agents /\ wal'.skills = wal.skills
      BY <1>2, <3>1, UsersAlike DEF RegistryInv
    <3>4. wal'.users = wal.users
      BY <1>2, <3>1 DEF RegistryInv, RegistryShape, Registry!AnalyticsAppend
    <3>5. AgentRows(ram, env.calls + 1)
      BY <1>2, RowsLater DEF RegistryInv
    <3>6. ~gap => Registered(wal', ram, TRUE)
      BY <1>2, <3>3, <3>4 DEF RegistryInv, Registered
    <3> QED  BY <1>2, <3>1, <3>2, <3>3, <3>5, <3>6 DEF RegistryInv
  <2>2. CASE Registry!Reopen
    <3>1. /\ ram' = wal /\ wal' = wal /\ todo' = <<>> /\ gap' = FALSE
          /\ env' = [env EXCEPT !.emitted = FALSE]
      BY <2>2 DEF Registry!Reopen, Registry!Log!Restart
    <3>2. DOMAIN env' = {"calls", "emitted"} /\ env'.calls = env.calls /\ env'.emitted = FALSE
      BY <1>2, <3>1 DEF RegistryInv
    <3>3. Registered(wal, wal, FALSE)
      BY <1>0, <1>2 DEF RegistryInv
    <3> QED  BY <1>2, <3>1, <3>2, <3>3 DEF RegistryInv
  <2>3. CASE Registry!Log!Checkpoint /\ env' = env
    <3>1. /\ ram' = ram /\ wal' = Registry!Empty /\ todo' = todo
          /\ gap' = (Registry!Empty # ram)
      BY <2>3 DEF Registry!Log!Checkpoint, Registry!Body
    <3>2. ~gap' => Registered(wal', ram', env.emitted)
      BY <1>0, <1>2, <3>1 DEF RegistryInv
    <3> QED  BY <1>0, <1>2, <2>3, <3>1, <3>2 DEF RegistryInv
  <2>4. CASE UNCHANGED Registry!vars
    BY <1>2, <2>4 DEF Registry!vars, RegistryInv
  <2> QED  BY <1>2, <2>1, <2>2, <2>3, <2>4, RegistryCallsStep, AgentRecordStep
           DEF Registry!Next
<1> QED  BY <1>1, <1>2

LEMMA RegistriesFollow == RegistryInv => Registry!RegistriesKept
BY DEF RegistryInv, Registered, Registry!RegistriesKept, Registry!Log!Settled

-----------------------------------------------------------------------------
(* Epistemic debts and wisdom candidates                                    *)

DebtRow(d) == DOMAIN d = {"status", "resolved", "text", "evidence"} /\ d.text \in BOOLEAN
WisdomRow(c) ==
    DOMAIN c = {"support", "lifecycle", "memory", "contra"} /\ c.memory \in BOOLEAN

DebtShape(s) ==
    /\ DOMAIN s = {"debts", "next", "wisdom"}
    /\ \A i \in DOMAIN s.debts : DebtRow(s.debts[i])
    /\ \A k \in DOMAIN s.wisdom : WisdomRow(s.wisdom[k])

\* What the log has of a debt: all of a resolved one; of another, not the time
\* of a resolution that a deferral followed.
DebtAlike(d, e) ==
    /\ d.status = e.status /\ d.evidence = e.evidence
    /\ d.status = "resolved" => d = e

\* What it has of a candidate that was upserted again: it may have gone back to
\* Candidate, without contradictions.
CandidateAlike(c, d) ==
    /\ c.support = d.support
    /\ c.lifecycle \in {d.lifecycle, "candidate"}
    /\ c.contra \in {d.contra, 0}

DebtsAlike(w, r) == DOMAIN w = DOMAIN r /\ \A i \in DOMAIN r : DebtAlike(w[i], r[i])

WisdomAlike(w, r, again) ==
    /\ DOMAIN w = DOMAIN r
    /\ \A k \in DOMAIN r : CandidateAlike(w[k], r[k]) /\ (k \notin again => w[k] = r[k])

LedgersAlike(w, r, again) == DebtsAlike(w.debts, r.debts) /\ WisdomAlike(w.wisdom, r.wisdom, again)

\* Every operation hands over one record: the log is alike once it is there.
DebtInv ==
    /\ DebtShape(ram) /\ DebtShape(wal) /\ gap \in BOOLEAN
    /\ DOMAIN env = {"ops", "again"}
    /\ \/ todo = <<>> /\ (~gap => LedgersAlike(wal, ram, env.again))
       \/ \E rec : /\ todo = <<rec>> /\ DebtShape(Debt!Replay(wal, rec))
                   /\ ~gap => LedgersAlike(Debt!Replay(wal, rec), ram, env.again)

LEMMA DebtDo ==
    ASSUME DebtInv, NEW new, NEW rec, Debt!Do(new, <<rec>>), DebtShape(new),
           DebtShape(Debt!Replay(wal, rec)), DOMAIN env' = {"ops", "again"},
           ~gap => LedgersAlike(Debt!Replay(wal, rec), new, env'.again)
    PROVE  DebtInv'
<1>1. ram' = new /\ todo' = <<rec>> /\ wal' = wal /\ gap' = gap
  BY DEF Debt!Do
<1> HIDE DEF DebtShape, LedgersAlike
<1> QED  BY <1>1 DEF DebtInv

LEMMA AlikeSelf ==
    ASSUME NEW s, NEW again
    PROVE  LedgersAlike(s, s, again)
BY DEF LedgersAlike, DebtsAlike, WisdomAlike, DebtAlike, CandidateAlike

\* One row of a ledger replaced.
LEMMA DebtPut ==
    ASSUME NEW s, DebtShape(s), NEW i \in DOMAIN s.debts, NEW d, DebtRow(d)
    PROVE  LET t == [s EXCEPT !.debts[i] = d] IN
           DebtShape(t) /\ t.wisdom = s.wisdom /\ t.debts = [s.debts EXCEPT ![i] = d]
<1> HIDE DEF DebtRow, WisdomRow
<1> QED  BY DEF DebtShape

LEMMA WisdomPut ==
    ASSUME NEW s, DebtShape(s), NEW k \in DOMAIN s.wisdom, NEW c, WisdomRow(c)
    PROVE  LET t == [s EXCEPT !.wisdom[k] = c] IN
           DebtShape(t) /\ t.debts = s.debts /\ t.wisdom = [s.wisdom EXCEPT ![k] = c]
<1> HIDE DEF DebtRow, WisdomRow
<1> QED  BY DEF DebtShape

LEMMA WisdomNew ==
    ASSUME NEW s, DebtShape(s), NEW k, NEW c, WisdomRow(c)
    PROVE  LET t == [s EXCEPT !.wisdom = Debt!Insert(@, k, c)] IN
           DebtShape(t) /\ t.debts = s.debts /\ t.wisdom = Debt!Insert(s.wisdom, k, c)
<1> HIDE DEF DebtRow, WisdomRow
<1> QED  BY DEF DebtShape, Debt!Insert

LEMMA DebtNew ==
    ASSUME NEW s, DebtShape(s), NEW i
    PROVE  LET t == Debt!AddDebt(s, i) IN
           /\ DebtShape(t) /\ t.wisdom = s.wisdom
           /\ t.debts = Debt!Insert(s.debts, i, Debt!NewDebt)
<1>1. DebtRow(Debt!NewDebt)
  BY DEF DebtRow, Debt!NewDebt
<1> HIDE DEF DebtRow, WisdomRow, Debt!NewDebt
<1> QED  BY <1>1 DEF DebtShape, Debt!AddDebt, Debt!Insert

\* The same row replaced on both sides.
LEMMA DebtsPutAlike ==
    ASSUME NEW w, NEW r, DebtsAlike(w, r), NEW i \in DOMAIN r, NEW d, NEW e, DebtAlike(d, e)
    PROVE  DebtsAlike([w EXCEPT ![i] = d], [r EXCEPT ![i] = e])
<1> HIDE DEF DebtAlike
<1> QED  BY DEF DebtsAlike

LEMMA WisdomPutAlike ==
    ASSUME NEW w, NEW r, NEW again, WisdomAlike(w, r, again), NEW k \in DOMAIN r,
           NEW c, NEW d, CandidateAlike(c, d), k \notin again => c = d
    PROVE  WisdomAlike([w EXCEPT ![k] = c], [r EXCEPT ![k] = d], again)
<1> HIDE DEF CandidateAlike
<1> QED  BY DEF WisdomAlike

\* What the operations do to a row, and their records.
LEMMA MarkedAlike ==
    ASSUME NEW d, DebtRow(d), NEW e, DebtRow(e), DebtAlike(d, e)
    PROVE  /\ DebtRow(Debt!Marked(d, "resolved", TRUE, TRUE))
           /\ DebtRow(Debt!Marked(d, "deferred", FALSE, FALSE))
           /\ DebtRow([d EXCEPT !.status = "deferred"])
           /\ DebtAlike(Debt!Marked(d, "resolved", TRUE, TRUE),
                        Debt!Marked(e, "resolved", TRUE, TRUE))
           /\ DebtAlike(Debt!Marked(d, "deferred", FALSE, FALSE),
                        [e EXCEPT !.status = "deferred"])
<1>1. DebtRow([d EXCEPT !.status = "deferred"])
  BY DEF DebtRow
<1>2. \A status : \A x, y \in BOOLEAN : DebtRow(Debt!Marked(d, status, x, y))
  BY DEF DebtRow, Debt!Marked
<1>3. DebtAlike(Debt!Marked(d, "deferred", FALSE, FALSE), [e EXCEPT !.status = "deferred"])
  BY DEF DebtAlike, DebtRow, Debt!Marked
<1>4. (d.text \/ TRUE) = (e.text \/ TRUE)
  OBVIOUS
<1>5. Debt!Marked(d, "resolved", TRUE, TRUE) = Debt!Marked(e, "resolved", TRUE, TRUE)
  BY <1>4, Zenon DEF DebtAlike, Debt!Marked
<1> QED  BY <1>1, <1>2, <1>3, <1>5 DEF DebtAlike

LEMMA EvidenceAlike ==
    ASSUME NEW d, DebtRow(d), NEW e, DebtRow(e), DebtAlike(d, e), NEW n
    PROVE  /\ DebtRow([d EXCEPT !.evidence = @ + n])
           /\ DebtAlike([d EXCEPT !.evidence = @ + n], [e EXCEPT !.evidence = @ + n])
BY DEF DebtRow, DebtAlike

LEMMA MovedAlike ==
    ASSUME NEW c, WisdomRow(c), NEW lifecycle, NEW memory \in BOOLEAN, NEW contra
    PROVE  /\ WisdomRow(Debt!Moved(c, lifecycle, memory, contra))
           /\ \A d : CandidateAlike(c, d) =>
                 CandidateAlike(Debt!Moved(c, lifecycle, memory, contra),
                                Debt!Moved(d, lifecycle, memory, contra))
<1>1. WisdomRow(Debt!Moved(c, lifecycle, memory, contra))
  BY DEF WisdomRow, Debt!Moved
<1>2. ASSUME NEW d, CandidateAlike(c, d)
      PROVE  CandidateAlike(Debt!Moved(c, lifecycle, memory, contra),
                            Debt!Moved(d, lifecycle, memory, contra))
  BY <1>2 DEF CandidateAlike, Debt!Moved
<1> QED  BY <1>1, <1>2

\* What an operation starts from: nothing is pending.
LEMMA DebtIdle ==
    ASSUME DebtInv, NEW new, NEW recs, Debt!Do(new, recs)
    PROVE  /\ DebtShape(ram) /\ DebtShape(wal) /\ DOMAIN env = {"ops", "again"}
           /\ ~gap => LedgersAlike(wal, ram, env.again)
<1> HIDE DEF DebtShape, LedgersAlike
<1> QED  BY DEF DebtInv, Debt!Do, Debt!Log!Idle

LEMMA CountedEnv ==
    ASSUME DOMAIN env = {"ops", "again"}, Debt!Counted
    PROVE  DOMAIN env' = {"ops", "again"} /\ env'.again = env.again
BY DEF Debt!Counted

\* A change of row i on both sides, y in memory and x from the record.
LEMMA DebtRowStep ==
    ASSUME DebtInv, NEW i \in DOMAIN ram.debts, NEW x, NEW y, NEW rec,
           Debt!Do([ram EXCEPT !.debts[i] = y], <<rec>>), Debt!Counted, DebtRow(y),
           IF i \in DOMAIN wal.debts
           THEN DebtRow(x) /\ Debt!Replay(wal, rec) = [wal EXCEPT !.debts[i] = x]
           ELSE Debt!Replay(wal, rec) = wal,
           i \in DOMAIN wal.debts /\ DebtAlike(wal.debts[i], ram.debts[i]) => DebtAlike(x, y)
    PROVE  DebtInv'
<1> DEFINE new == [ram EXCEPT !.debts[i] = y]
           t == Debt!Replay(wal, rec)
<1>1. /\ DebtShape(ram) /\ DebtShape(wal) /\ DOMAIN env = {"ops", "again"}
      /\ ~gap => LedgersAlike(wal, ram, env.again)
  BY DebtIdle
<1>2. DOMAIN env' = {"ops", "again"} /\ env'.again = env.again
  BY <1>1, CountedEnv
<1>3. DebtShape(new) /\ new.wisdom = ram.wisdom /\ new.debts = [ram.debts EXCEPT ![i] = y]
  BY <1>1, DebtPut
<1>4. /\ DebtShape(t)
      /\ i \in DOMAIN wal.debts =>
            t.wisdom = wal.wisdom /\ t.debts = [wal.debts EXCEPT ![i] = x]
  <2>1. CASE i \notin DOMAIN wal.debts
    BY <1>1, <2>1
  <2>2. CASE i \in DOMAIN wal.debts
    <3> DEFINE u == [wal EXCEPT !.debts[i] = x]
    <3>1. DebtShape(u) /\ u.wisdom = wal.wisdom /\ u.debts = [wal.debts EXCEPT ![i] = x]
      BY <1>1, <2>2, DebtPut
    <3>2. t = u
      BY <2>2
    <3> HIDE DEF t, u
    <3> QED  BY <3>1, <3>2
  <2> QED  BY <2>1, <2>2
<1> HIDE DEF new, t
<1>5. ASSUME ~gap PROVE LedgersAlike(t, new, env'.again)
  <2>1. DebtsAlike(wal.debts, ram.debts) /\ WisdomAlike(wal.wisdom, ram.wisdom, env.again)
    BY <1>1, <1>5 DEF LedgersAlike
  <2>2. i \in DOMAIN wal.debts /\ DebtAlike(wal.debts[i], ram.debts[i])
    BY <2>1 DEF DebtsAlike
  <2>3. DebtsAlike([wal.debts EXCEPT ![i] = x], [ram.debts EXCEPT ![i] = y])
    BY <2>1, <2>2, DebtsPutAlike
  <2> QED  BY <1>2, <1>3, <1>4, <2>1, <2>2, <2>3 DEF LedgersAlike
<1>6. Debt!Do(new, <<rec>>)
  BY DEF new
<1> QED  BY <1>2, <1>3, <1>4, <1>5, <1>6, DebtDo DEF t

\* A row that the log has is a row in shape.
LEMMA RowsShaped ==
    ASSUME NEW s, DebtShape(s)
    PROVE  /\ \A i \in DOMAIN s.debts : DebtRow(s.debts[i])
           /\ \A k \in DOMAIN s.wisdom : WisdomRow(s.wisdom[k])
BY DEF DebtShape

LEMMA ResolveStep ==
    ASSUME DebtInv, NEW i \in DOMAIN ram.debts, Debt!ResolveDebt(i)
    PROVE  DebtInv'
<1> DEFINE rec == [op |-> "update", id |-> i, status |-> "resolved", resolved |-> TRUE,
                   text |-> TRUE]
           x == Debt!Marked(wal.debts[i], "resolved", TRUE, TRUE)
           y == Debt!Marked(ram.debts[i], "resolved", TRUE, TRUE)
<1>1. DebtShape(ram) /\ DebtShape(wal)
  BY DEF DebtInv
<1>2. Debt!Do([ram EXCEPT !.debts[i] = y], <<rec>>) /\ Debt!Counted
  BY DEF Debt!ResolveDebt
<1>3. DebtRow(y) /\ (i \in DOMAIN wal.debts => DebtRow(x))
  BY <1>1, RowsShaped, MarkedAlike DEF DebtAlike
<1>4. IF i \in DOMAIN wal.debts THEN Debt!Replay(wal, rec) = [wal EXCEPT !.debts[i] = x]
      ELSE Debt!Replay(wal, rec) = wal
  <2> HIDE DEF Debt!Marked
  <2> QED  BY DEF Debt!Replay, Debt!ReplayDebt
<1>5. i \in DOMAIN wal.debts /\ DebtAlike(wal.debts[i], ram.debts[i]) => DebtAlike(x, y)
  BY <1>1, RowsShaped, MarkedAlike
<1> HIDE DEF x, y, rec
<1> QED  BY <1>2, <1>3, <1>4, <1>5, DebtRowStep

LEMMA DeferStep ==
    ASSUME DebtInv, NEW i \in DOMAIN ram.debts, Debt!DeferDebt(i)
    PROVE  DebtInv'
<1> DEFINE rec == [op |-> "update", id |-> i, status |-> "deferred", resolved |-> FALSE,
                   text |-> FALSE]
           x == Debt!Marked(wal.debts[i], "deferred", FALSE, FALSE)
           y == [ram.debts[i] EXCEPT !.status = "deferred"]
<1>1. DebtShape(ram) /\ DebtShape(wal)
  BY DEF DebtInv
<1>2. Debt!Do([ram EXCEPT !.debts[i] = y], <<rec>>) /\ Debt!Counted
  BY DEF Debt!DeferDebt
<1>3. DebtRow(y) /\ (i \in DOMAIN wal.debts => DebtRow(x))
  BY <1>1, RowsShaped, MarkedAlike DEF DebtAlike
<1>4. IF i \in DOMAIN wal.debts THEN Debt!Replay(wal, rec) = [wal EXCEPT !.debts[i] = x]
      ELSE Debt!Replay(wal, rec) = wal
  <2> HIDE DEF Debt!Marked
  <2> QED  BY DEF Debt!Replay, Debt!ReplayDebt
<1>5. i \in DOMAIN wal.debts /\ DebtAlike(wal.debts[i], ram.debts[i]) => DebtAlike(x, y)
  BY <1>1, RowsShaped, MarkedAlike
<1> HIDE DEF x, y, rec
<1> QED  BY <1>2, <1>3, <1>4, <1>5, DebtRowStep

LEMMA EvidenceStep ==
    ASSUME DebtInv, NEW i \in DOMAIN ram.debts, NEW n, Debt!AttachDebtEvidence(i, n)
    PROVE  DebtInv'
<1> DEFINE rec == [op |-> "evidence", id |-> i, confidence |-> n]
           x == [wal.debts[i] EXCEPT !.evidence = @ + n]
           y == [ram.debts[i] EXCEPT !.evidence = @ + n]
<1>1. DebtShape(ram) /\ DebtShape(wal)
  BY DEF DebtInv
<1>2. Debt!Do([ram EXCEPT !.debts[i] = y], <<rec>>) /\ Debt!Counted
  BY DEF Debt!AttachDebtEvidence
<1>3. DebtRow(y) /\ (i \in DOMAIN wal.debts => DebtRow(x))
  BY <1>1, RowsShaped, EvidenceAlike DEF DebtAlike
<1>4. IF i \in DOMAIN wal.debts THEN Debt!Replay(wal, rec) = [wal EXCEPT !.debts[i] = x]
      ELSE Debt!Replay(wal, rec) = wal
  BY DEF Debt!Replay, Debt!ReplayDebt
<1>5. i \in DOMAIN wal.debts /\ DebtAlike(wal.debts[i], ram.debts[i]) => DebtAlike(x, y)
  BY <1>1, RowsShaped, EvidenceAlike
<1> HIDE DEF x, y, rec
<1> QED  BY <1>2, <1>3, <1>4, <1>5, DebtRowStep

LEMMA RegisterStep ==
    ASSUME DebtInv, Debt!RegisterDebt
    PROVE  DebtInv'
<1> DEFINE i == ram.next
           rec == [op |-> "register", id |-> i]
           new == Debt!AddDebt(ram, i)
           t == Debt!AddDebt(wal, i)
<1>1. Debt!Do(new, <<rec>>) /\ Debt!Counted
  BY DEF Debt!RegisterDebt
<1>2. /\ DebtShape(ram) /\ DebtShape(wal) /\ DOMAIN env = {"ops", "again"}
      /\ ~gap => LedgersAlike(wal, ram, env.again)
  BY <1>1, DebtIdle
<1>3. DOMAIN env' = {"ops", "again"} /\ env'.again = env.again
  BY <1>1, <1>2, CountedEnv
<1>4. Debt!Replay(wal, rec) = t
  BY DEF Debt!Replay, Debt!ReplayDebt
<1>5. /\ DebtShape(new) /\ new.wisdom = ram.wisdom
      /\ new.debts = Debt!Insert(ram.debts, i, Debt!NewDebt)
      /\ DebtShape(t) /\ t.wisdom = wal.wisdom
      /\ t.debts = Debt!Insert(wal.debts, i, Debt!NewDebt)
  BY <1>2, DebtNew
<1> HIDE DEF i, new, t, rec
<1>6. ASSUME ~gap PROVE LedgersAlike(t, new, env'.again)
  <2>1. DebtsAlike(wal.debts, ram.debts) /\ WisdomAlike(wal.wisdom, ram.wisdom, env.again)
    BY <1>2, <1>6 DEF LedgersAlike
  <2>2. DebtsAlike(t.debts, new.debts)
    <3> HIDE DEF Debt!NewDebt
    <3> QED  BY <1>5, <2>1 DEF DebtsAlike, DebtAlike, Debt!Insert
  <2> QED  BY <1>3, <1>5, <2>1, <2>2 DEF LedgersAlike
<1> QED  BY <1>1, <1>3, <1>4, <1>5, <1>6, DebtDo

\* upsert_candidate: a known cluster keeps its row in memory, its record starts
\* it anew.
LEMMA UpsertStep ==
    ASSUME DebtInv, NEW k, NEW support, Debt!UpsertWisdomCandidate(k, support)
    PROVE  DebtInv'
<1> DEFINE rec == [op |-> "upsert", key |-> k, support |-> support]
           fresh == Debt!NewCandidate(support)
           new == IF k \in DOMAIN ram.wisdom THEN [ram EXCEPT !.wisdom[k].support = support]
                  ELSE [ram EXCEPT !.wisdom = Debt!Insert(@, k, fresh)]
           t == [wal EXCEPT !.wisdom = Debt!Insert(@, k, fresh)]
           again == IF k \in DOMAIN ram.wisdom THEN env.again \cup {k} ELSE env.again
<1>1. Debt!Do(new, <<rec>>) /\ env' = [ops |-> env.ops + 1, again |-> again]
  BY DEF Debt!UpsertWisdomCandidate
<1>2. /\ DebtShape(ram) /\ DebtShape(wal) /\ DOMAIN env = {"ops", "again"}
      /\ ~gap => LedgersAlike(wal, ram, env.again)
  BY <1>1, DebtIdle
<1>3. DOMAIN env' = {"ops", "again"} /\ env'.again = again
  BY <1>1
<1>4. Debt!Replay(wal, rec) = t
  BY DEF Debt!Replay, Debt!ReplayCandidate
<1>5. /\ WisdomRow(fresh) /\ fresh.support = support /\ fresh.lifecycle = "candidate"
      /\ fresh.contra = 0
  BY DEF WisdomRow, Debt!NewCandidate
<1> HIDE DEF fresh
<1>6. DebtShape(t) /\ t.debts = wal.debts /\ t.wisdom = Debt!Insert(wal.wisdom, k, fresh)
  BY <1>2, <1>5, WisdomNew
<1>7. DebtShape(new) /\ new.debts = ram.debts
  <2>1. CASE k \in DOMAIN ram.wisdom
    <3> DEFINE row == [ram.wisdom[k] EXCEPT !.support = support]
               u == [ram EXCEPT !.wisdom[k] = row]
    <3>1. WisdomRow(row)
      BY <1>2, <2>1 DEF DebtShape, WisdomRow
    <3>2. new = u
      BY <2>1
    <3> HIDE DEF row
    <3>3. DebtShape(u) /\ u.debts = ram.debts
      BY <1>2, <2>1, <3>1, WisdomPut
    <3> HIDE DEF new, u
    <3> QED  BY <3>2, <3>3
  <2>2. CASE k \notin DOMAIN ram.wisdom
    <3> DEFINE u == [ram EXCEPT !.wisdom = Debt!Insert(@, k, fresh)]
    <3>1. DebtShape(u) /\ u.debts = ram.debts
      BY <1>2, <1>5, WisdomNew
    <3>2. new = u
      BY <2>2
    <3> HIDE DEF new, u
    <3> QED  BY <3>1, <3>2
  <2> QED  BY <2>1, <2>2
<1>8. ASSUME ~gap PROVE LedgersAlike(t, new, env'.again)
  <2>1. DebtsAlike(wal.debts, ram.debts) /\ WisdomAlike(wal.wisdom, ram.wisdom, env.again)
    BY <1>2, <1>8 DEF LedgersAlike
  <2>2. CASE k \notin DOMAIN ram.wisdom
    <3>1. new.wisdom = Debt!Insert(ram.wisdom, k, fresh)
      BY <1>2, <2>2 DEF DebtShape
    <3>2. again = env.again
      BY <2>2
    <3> HIDE DEF new, t, again
    <3>3. WisdomAlike(t.wisdom, new.wisdom, again)
      BY <1>6, <2>1, <3>1, <3>2 DEF WisdomAlike, CandidateAlike, Debt!Insert
    <3> QED  BY <1>3, <1>6, <1>7, <2>1, <3>3 DEF LedgersAlike
  <2>3. CASE k \in DOMAIN ram.wisdom
    <3>1. /\ DOMAIN new.wisdom = DOMAIN ram.wisdom /\ new.wisdom[k].support = support
          /\ \A j \in DOMAIN ram.wisdom \ {k} : new.wisdom[j] = ram.wisdom[j]
      BY <1>2, <2>3 DEF DebtShape, WisdomRow
    <3>2. again = env.again \cup {k}
      BY <2>3
    <3>3. /\ DOMAIN t.wisdom = DOMAIN wal.wisdom \cup {k} /\ t.wisdom[k] = fresh
          /\ \A j \in DOMAIN wal.wisdom \ {k} : t.wisdom[j] = wal.wisdom[j]
      BY <1>6 DEF Debt!Insert
    <3> HIDE DEF new, t, again
    <3>4. DOMAIN t.wisdom = DOMAIN new.wisdom
      BY <2>1, <2>3, <3>1, <3>3 DEF WisdomAlike
    <3>5. CandidateAlike(t.wisdom[k], new.wisdom[k])
      BY <1>5, <3>1, <3>3 DEF CandidateAlike
    <3>6. ASSUME NEW j \in DOMAIN new.wisdom
          PROVE  /\ CandidateAlike(t.wisdom[j], new.wisdom[j])
                 /\ j \notin again => t.wisdom[j] = new.wisdom[j]
      <4>1. CASE j = k
        BY <3>2, <3>5, <4>1
      <4>2. CASE j # k
        BY <2>1, <3>1, <3>2, <3>3, <4>2 DEF WisdomAlike, CandidateAlike
      <4> QED  BY <4>1, <4>2
    <3>7. WisdomAlike(t.wisdom, new.wisdom, again)
      BY <3>4, <3>6 DEF WisdomAlike
    <3> QED  BY <1>3, <1>6, <1>7, <2>1, <3>7 DEF LedgersAlike
  <2> QED  BY <2>2, <2>3
<1> HIDE DEF new, t, rec
<1> QED  BY <1>1, <1>3, <1>4, <1>6, <1>7, <1>8, DebtDo

LEMMA LifecycleStep ==
    ASSUME DebtInv, NEW k, NEW lifecycle, NEW memory \in BOOLEAN, NEW contra,
           Debt!UpdateWisdomLifecycle(k, lifecycle, memory, contra)
    PROVE  DebtInv'
<1> DEFINE rec == [op |-> "lifecycle", key |-> k, lifecycle |-> lifecycle,
                   memory |-> memory, contra |-> contra]
           x == Debt!Moved(wal.wisdom[k], lifecycle, memory, contra)
           y == Debt!Moved(ram.wisdom[k], lifecycle, memory, contra)
           new == [ram EXCEPT !.wisdom[k] = y]
           t == Debt!Replay(wal, rec)
<1>1. /\ Debt!Do(new, <<rec>>) /\ k \in DOMAIN ram.wisdom
      /\ env' = [ops |-> env.ops + 1, again |-> env.again]
  BY DEF Debt!UpdateWisdomLifecycle
<1>2. /\ DebtShape(ram) /\ DebtShape(wal) /\ DOMAIN env = {"ops", "again"}
      /\ ~gap => LedgersAlike(wal, ram, env.again)
  BY <1>1, DebtIdle
<1>3. DOMAIN env' = {"ops", "again"} /\ env'.again = env.again
  BY <1>1
<1>4. IF k \in DOMAIN wal.wisdom THEN t = [wal EXCEPT !.wisdom[k] = x] ELSE t = wal
  <2> HIDE DEF Debt!Moved
  <2> QED  BY DEF Debt!Replay, Debt!ReplayCandidate
<1>5. WisdomRow(y) /\ (k \in DOMAIN wal.wisdom => WisdomRow(x))
  BY <1>1, <1>2, RowsShaped, MovedAlike
<1>6. /\ k \in DOMAIN wal.wisdom /\ CandidateAlike(wal.wisdom[k], ram.wisdom[k])
         => CandidateAlike(x, y)
      /\ wal.wisdom[k] = ram.wisdom[k] => x = y
  BY <1>2, RowsShaped, MovedAlike
<1> HIDE DEF x, y, t
<1>7. DebtShape(new) /\ new.debts = ram.debts /\ new.wisdom = [ram.wisdom EXCEPT ![k] = y]
  BY <1>1, <1>2, <1>5, WisdomPut
<1>8. /\ DebtShape(t) /\ t.debts = wal.debts
      /\ k \in DOMAIN wal.wisdom => t.wisdom = [wal.wisdom EXCEPT ![k] = x]
  <2>1. CASE k \notin DOMAIN wal.wisdom
    BY <1>2, <1>4, <2>1
  <2>2. CASE k \in DOMAIN wal.wisdom
    <3> DEFINE u == [wal EXCEPT !.wisdom[k] = x]
    <3>1. DebtShape(u) /\ u.debts = wal.debts /\ u.wisdom = [wal.wisdom EXCEPT ![k] = x]
      BY <1>2, <1>5, <2>2, WisdomPut
    <3>2. t = u
      BY <1>4, <2>2
    <3> HIDE DEF u
    <3> QED  BY <3>1, <3>2
  <2> QED  BY <2>1, <2>2
<1> HIDE DEF new
<1>9. ASSUME ~gap PROVE LedgersAlike(t, new, env'.again)
  <2>1. DebtsAlike(wal.debts, ram.debts) /\ WisdomAlike(wal.wisdom, ram.wisdom, env.again)
    BY <1>2, <1>9 DEF LedgersAlike
  <2>2. /\ k \in DOMAIN wal.wisdom /\ CandidateAlike(wal.wisdom[k], ram.wisdom[k])
        /\ k \notin env.again => wal.wisdom[k] = ram.wisdom[k]
    BY <1>1, <2>1 DEF WisdomAlike
  <2>3. CandidateAlike(x, y) /\ (k \notin env.again => x = y)
    BY <1>6, <2>2
  <2>4. WisdomAlike([wal.wisdom EXCEPT ![k] = x], [ram.wisdom EXCEPT ![k] = y], env.again)
    BY <1>1, <2>1, <2>3, WisdomPutAlike
  <2> QED  BY <1>3, <1>7, <1>8, <2>1, <2>2, <2>4 DEF LedgersAlike
<1> QED  BY <1>1, <1>3, <1>7, <1>8, <1>9, DebtDo DEF t

LEMMA DebtInductive ==
    /\ Debt!Init => DebtInv
    /\ DebtInv /\ [Debt!Next]_(Debt!vars) => DebtInv'
<1>0. DebtShape(Debt!Empty)
  BY DEF DebtShape, Debt!Empty
<1>1. ASSUME Debt!Init PROVE DebtInv
  <2>1. /\ ram = Debt!Empty /\ wal = Debt!Empty /\ todo = <<>> /\ gap = FALSE
        /\ DOMAIN env = {"ops", "again"}
    BY <1>1 DEF Debt!Init, Debt!Log!LogInit
  <2> QED  BY <1>0, <2>1, AlikeSelf DEF DebtInv
<1>2. ASSUME DebtInv, [Debt!Next]_(Debt!vars) PROVE DebtInv'
  <2> HIDE DEF DebtShape, LedgersAlike
  <2>0. DebtShape(ram) /\ DebtShape(wal) /\ DOMAIN env = {"ops", "again"} /\ gap \in BOOLEAN
    BY <1>2 DEF DebtInv
  <2>1. CASE Debt!Reopen
    <3>1. /\ ram' = wal /\ wal' = wal /\ todo' = <<>> /\ gap' = FALSE
          /\ env' = [env EXCEPT !.again = {}]
      BY <2>1 DEF Debt!Reopen, Debt!Log!Restart
    <3>2. DOMAIN env' = {"ops", "again"}
      BY <2>0, <3>1
    <3> QED  BY <2>0, <3>1, <3>2, AlikeSelf DEF DebtInv
  <2>2. CASE Debt!Log!Checkpoint /\ env' = env
    <3>1. /\ ram' = ram /\ wal' = Debt!Empty /\ todo' = todo /\ todo = <<>>
          /\ gap' = (Debt!Empty # ram)
      BY <2>2 DEF Debt!Log!Checkpoint, Debt!Body, Debt!Log!Idle
    <3>2. ~gap' => LedgersAlike(wal', ram', env.again)
      BY <3>1, AlikeSelf
    <3> QED  BY <1>0, <2>0, <2>2, <3>1, <3>2 DEF DebtInv
  <2>3. CASE Debt!Log!Logged /\ env' = env
    <3>1. /\ todo # <<>> /\ wal' = Debt!Replay(wal, Head(todo)) /\ todo' = Tail(todo)
          /\ ram' = ram /\ gap' = gap
      BY <2>3 DEF Debt!Log!Logged, Debt!Log!Idle
    <3>2. PICK rec : /\ todo = <<rec>> /\ DebtShape(Debt!Replay(wal, rec))
                     /\ ~gap => LedgersAlike(Debt!Replay(wal, rec), ram, env.again)
      BY <1>2, <3>1 DEF DebtInv
    <3>3. Head(todo) = rec /\ Tail(todo) = <<>>
      BY <3>2
    <3> QED  BY <2>0, <2>3, <3>1, <3>2, <3>3 DEF DebtInv
  <2>4. CASE Debt!Log!LogFails /\ env' = env
    BY <2>0, <2>4 DEF DebtInv, Debt!Log!LogFails
  <2>5. CASE UNCHANGED Debt!vars
    BY <1>2, <2>5 DEF Debt!vars, DebtInv
  <2>6. CASE \E i \in DOMAIN ram.debts :
                Debt!ResolveDebt(i) \/ Debt!AutoResolveDebt(i) \/ Debt!DeferDebt(i)
    BY <1>2, <2>6, ResolveStep, DeferStep DEF Debt!AutoResolveDebt
  <2>7. CASE \E i \in DOMAIN ram.debts, n \in {40, 100} : Debt!AttachDebtEvidence(i, n)
    BY <1>2, <2>7, EvidenceStep
  <2>8. CASE \E k \in Clusters, support \in {1, 4} : Debt!UpsertWisdomCandidate(k, support)
    BY <1>2, <2>8, UpsertStep
  <2>9. CASE \E k \in Clusters, lifecycle \in Debt!Lifecycles, memory \in BOOLEAN,
                contra \in {0, 1} : Debt!UpdateWisdomLifecycle(k, lifecycle, memory, contra)
    BY <1>2, <2>9, LifecycleStep
  <2> QED  BY <1>2, <2>1, <2>2, <2>3, <2>4, <2>5, <2>6, <2>7, <2>8, <2>9, RegisterStep
           DEF Debt!Next
<1> QED  BY <1>1, <1>2

\* What the invariant says between two operations.
LEMMA LedgersFollow == DebtInv => Debt!LedgersKept
<1> SUFFICES ASSUME DebtInv, todo = <<>>, ~gap PROVE Debt!LedgersKept
  BY DEF Debt!LedgersKept, Debt!Log!Settled, Debt!Log!Idle
<1>1. /\ DebtsAlike(wal.debts, ram.debts) /\ WisdomAlike(wal.wisdom, ram.wisdom, env.again)
  BY DEF DebtInv, LedgersAlike
<1>2. Debt!Restrict(wal.wisdom, DOMAIN wal.wisdom \ env.again)
         = Debt!Restrict(ram.wisdom, DOMAIN ram.wisdom \ env.again)
  BY <1>1 DEF Debt!Restrict, WisdomAlike, CandidateAlike
<1>3. Debt!Promotable(ram) \subseteq Debt!Promotable(wal)
  BY <1>1 DEF Debt!Promotable, WisdomAlike, CandidateAlike
<1> QED  BY <1>1, <1>2, <1>3 DEF DebtsAlike, DebtAlike, WisdomAlike, Debt!LedgersKept

-----------------------------------------------------------------------------
(* The organs together                                                      *)

OrganInv ==
    /\ part = "tasks" => TaskInv
    /\ part = "triggers" => TriggerInv
    /\ part = "constraints" => ConstraintInv
    /\ part = "interventions" => LedgerInv
    /\ part = "agents" => AgentInv
    /\ part = "registries" => RegistryInv
    /\ part = "debts" => DebtInv

\* The inductive invariants of the organs.
THEOREM OrganInvariant == OrganSpec => []OrganInv
<1>1. OrganInit => OrganInv
  BY OrganAssumption, TaskInductive, TriggerInvInit, ConstraintInductive, LedgerInductive,
     AgentInductive, RegistryInductive, DebtInductive DEF OrganInit, OrganInv
<1>2. OrganInv /\ [OrganNext]_vars => OrganInv'
  <2> SUFFICES ASSUME OrganInv, [OrganNext]_vars PROVE OrganInv'
    OBVIOUS
  <2>1. part' = part
    BY DEF OrganNext, Same, vars
  <2>2. part' = "tasks" => TaskInv'
    <3>1. part = "tasks" => [Task!Next]_(Task!vars)
      BY DEF OrganNext, Task!vars, vars
    <3> QED  BY <2>1, <3>1, OrganAssumption, TaskInductive DEF OrganInv
  <2>3. part' = "triggers" => TriggerInv'
    <3>1. part = "triggers" => [Trigger!Next]_(Trigger!vars)
      BY DEF OrganNext, Trigger!vars, vars
    <3> QED  BY <2>1, <3>1, OrganAssumption, TriggerInvStep DEF OrganInv
  <2>4. part' = "constraints" => ConstraintInv'
    <3>1. part = "constraints" => [Constraint!Next]_<<ram, wal, todo, gap, env>>
      BY DEF OrganNext, vars
    <3> QED  BY <2>1, <3>1, OrganAssumption, ConstraintInductive DEF OrganInv
  <2>5. part' = "interventions" => LedgerInv'
    <3>1. part = "interventions" => [Intervention!Next]_(Intervention!vars)
      BY DEF OrganNext, Intervention!vars, vars
    <3> QED  BY <2>1, <3>1, LedgerInductive DEF OrganInv
  <2>6. part' = "agents" => AgentInv'
    <3>1. part = "agents" => [Agent!Next]_(Agent!vars)
      BY DEF OrganNext, Agent!vars, vars
    <3> QED  BY <2>1, <3>1, AgentInductive DEF OrganInv
  <2>7. part' = "registries" => RegistryInv'
    <3>1. part = "registries" => [Registry!Next]_(Registry!vars)
      BY DEF OrganNext, Registry!vars, vars
    <3> QED  BY <2>1, <3>1, RegistryInductive DEF OrganInv
  <2>8. part' = "debts" => DebtInv'
    <3>1. part = "debts" => [Debt!Next]_(Debt!vars)
      BY DEF OrganNext, Debt!vars, vars
    <3> QED  BY <2>1, <3>1, DebtInductive DEF OrganInv
  <2> QED  BY <2>2, <2>3, <2>4, <2>5, <2>6, <2>7, <2>8 DEF OrganInv
<1> QED  BY <1>1, <1>2, PTL DEF OrganSpec

\* TaskRegistry::transition and create let no writer with a lower token change
\* a task that a higher one has changed, over restarts and rejected records,
\* for any number of tasks, writers and calls, where nobody uses token 0.
THEOREM StaleWritersRejected == OrganSpec => []Fenced
<1>1. OrganInv => Fenced
  BY DEF OrganInv, TaskInv, FenceInv, Fenced, Task!Fenced
<1> QED  BY <1>1, OrganInvariant, PTL

\* TriggerStore::fire and evaluate_triggers hand an action to one caller at
\* most, and replay arms nothing that was delivered: for any number of
\* triggers, whatever append fails and wherever the process dies or saves.
THEOREM ActionsDeliveredOnce == OrganSpec => []DeliveredOnce
<1>1. OrganInv => DeliveredOnce
  BY DEF OrganInv, TriggerInv, TriggerTypeOK, DeliveryInv, DeliveredOnce, Trigger!DeliveredOnce
<1> QED  BY <1>1, OrganInvariant, PTL

\* One surprise alone never lowers a memory's strength (update_credit's gate),
\* and a belief branch never holds two active facts that contradict each other
\* (detect_conflict and assert_fact): for any number of calls, over failed
\* appends, snapshots and restarts.
THEOREM JudgementsStaySound == OrganSpec => []JudgementsSound
<1>1. OrganInv => JudgementsSound
  BY RunBeforeBlame, BranchesFollow DEF OrganInv, JudgementsSound
<1> QED  BY <1>1, OrganInvariant, PTL

\* Replay of an organ's records is what its calls did: tasks, constraints,
\* interventions, agent contracts, the four registries, debts and wisdom
\* candidates come back from a restart as they were, up to the differences that
\* the replay arms of apply_op make and the modules name.
THEOREM OrgansReplayed == OrganSpec => []RecordsReplayed
<1>1. OrganInv => RecordsReplayed
  BY TasksFollow, FactsFollow, LedgerFollows, ContractsFollow, RegistriesFollow, LedgersFollow
     DEF OrganInv, RecordsReplayed
<1> QED  BY <1>1, OrganInvariant, PTL
=============================================================================
