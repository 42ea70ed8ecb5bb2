------------------------------- MODULE Memory -------------------------------
(***************************************************************************)
(* The memory store: put_memory with its duplicate gates, forget, state    *)
(* deltas behind the timestamp fence, edits, the sweeps that forget or     *)
(* archive, the indexes derived from the payloads, and what open() rebuilds*)
(* from the snapshot body and the records after it.                        *)
(*                                                                         *)
(* An item is what a caller stores: a kind, a realm, a vector or NoVec, and*)
(* content, whose tag names the keyed lane and whose key that lane's key.  *)
(***************************************************************************)
EXTENDS Integers, Sequences, FiniteSets, FiniteSetsExt, Functions

CONSTANTS Items,          \* records [kind, realm, vec, tag, key, text]
          NoVec,          \* the caller supplied no vector: embed_pending
          Near,           \* pairs of vectors inside the duplicate window
          MaxMemories,    \* bound on new memories
          MaxCalls,       \* bound on the other calls
          MaxNow          \* bound on the clock, in milliseconds

VARIABLES ram, wal, todo, gap, env

Content(item) == [tag |-> item.tag, key |-> item.key, text |-> item.text]
WithContent(item, c) ==
  [kind |-> item.kind, realm |-> item.realm, vec |-> item.vec,
   tag |-> c.tag, key |-> c.key, text |-> c.text]
Cleared == [tag |-> "none", key |-> "none", text |-> "none"]
Statuses == {"active", "archived"}
RealmNames == {item.realm : item \in Items}

Empty == [mem |-> <<>>,      \* states and payloads by id
          hash |-> <<>>,     \* chunk_hash_idx
          realm |-> {}, kind |-> {},        \* members, as <<name, id>>
          sem |-> {}, word |-> {}, time |-> {},   \* the indexes' ids
          done |-> <<>>,     \* content_prov_idx
          prov |-> <<>>, task |-> <<>>, corr |-> {}]   \* the keyed lanes

(* HashMap::insert, and insert where the key is new: entry().or_insert. *)
Insert(f, k, v) == [j \in DOMAIN f \cup {k} |-> IF j = k THEN v ELSE f[j]]
OrInsert(f, keys, v) == [j \in DOMAIN f \cup keys |-> IF j \in DOMAIN f THEN f[j] ELSE v]
InsertAll(f, keys, v) == [j \in DOMAIN f \cup keys |-> IF j \in keys THEN v ELSE f[j]]

Live(s) == {i \in DOMAIN s.mem : ~s.mem[i].dead}

(* MemoryState::new: full confidence until put_memory overwrites it. *)
NewState(item, confidence) ==
  [item |-> item, chunk |-> item, dead |-> FALSE, conf |-> confidence, fence |-> 0,
   status |-> "active", hits |-> 0, staged |-> TRUE, tier |-> 0, pos |-> 0]

(* The keyed lanes read the body: a done signal answers "was this input
   processed", a task record "where does this task stand", a correction fires
   on the mistake it names. *)
IsDone(item) == item.kind = "signal" /\ item.tag = "done"
ProvKeys(item) == IF IsDone(item) THEN {item.key} ELSE {}
DoneKeys(item) == IF IsDone(item) THEN {Content(item)} ELSE {}
TaskKeys(item) == IF item.tag = "task" THEN {item.key} ELSE {}
CorrKeys(item) == IF item.tag = "correction" THEN {item.key} ELSE {}

(* Mutant: a delta of the same millisecond passes. *)
ApplyDeltaTies(st, op) ==
  IF op.ts > 0 /\ op.ts < st.fence THEN st
  ELSE [st EXCEPT !.fence = op.ts,
                  !.conf = Min({100, st.conf + op.boost}),
                  !.hits = st.hits + (IF op.touch THEN 1 ELSE 0),
                  !.status = IF op.status = "same" THEN st.status ELSE op.status,
                  !.staged = st.staged /\ ~op.unstage]

(* apply_delta: a delta that is not newer than the last one is dropped. *)
ApplyDelta(st, op) ==
  IF op.ts > 0 /\ op.ts <= st.fence THEN st
  ELSE [st EXCEPT !.fence = op.ts,
                  !.conf = Min({100, st.conf + op.boost}),
                  !.hits = st.hits + (IF op.touch THEN 1 ELSE 0),
                  !.status = IF op.status = "same" THEN st.status ELSE op.status,
                  !.staged = st.staged /\ ~op.unstage]

Delta(i, boost, touch, status, unstage) ==
  [op |-> "delta", id |-> i, ts |-> env.now, boost |-> boost, touch |-> touch,
   status |-> status, unstage |-> unstage]

(* The indexes a new payload enters; the keyword index skips process genomes
   on the live path only. *)
Indexed(s, i, item, words) ==
  [s EXCEPT !.hash = OrInsert(@, {item}, i),
            !.realm = @ \cup {<<item.realm, i>>},
            !.kind = @ \cup {<<item.kind, i>>},
            !.sem = IF item.vec = NoVec THEN @ ELSE @ \cup {i},
            !.word = IF words THEN @ \cup {i} ELSE @,
            !.time = @ \cup {i}]

(* The deleted flag is set and the text cleared. *)
Deleted(st) == [st EXCEPT !.dead = TRUE, !.item = WithContent(st.item, Cleared)]

(* DeleteMemory and forget: out of every index, the text cleared, the keyed
   lanes and chunk_hash_idx left alone. *)
Forgotten(s, i) ==
  [s EXCEPT !.mem[i] = Deleted(@),
            !.realm = {p \in @ : p # <<s.mem[i].item.realm, i>>},
            !.kind = {p \in @ : p # <<s.mem[i].item.kind, i>>},
            !.sem = @ \ {i}, !.word = @ \ {i}, !.time = @ \ {i}]

(* What an edit, a demotion and an outcome change of a memory. *)
OfKind(st, kind) == [st EXCEPT !.item = [st.item EXCEPT !.kind = kind]]
InRealm(st, realm) == [st EXCEPT !.item = [st.item EXCEPT !.realm = realm]]
InTier(st, tier) == [st EXCEPT !.tier = tier]
WithOutcome(st, weight) == [st EXCEPT !.pos = @ + weight]
Embedding(item, vec) == [item EXCEPT !.vec = IF vec = NoVec THEN @ ELSE vec]
WithText(st, content, vec) ==
  [st EXCEPT !.item = Embedding(WithContent(st.item, content), vec)]

(* The keyword index takes the new text, the semantic one the new vector if
   the edit brings one, of a forgotten memory too. *)
Edited(s, i, content, vec) ==
  [s EXCEPT !.mem[i] = WithText(@, content, vec), !.word = @ \cup {i},
            !.sem = IF vec = NoVec THEN @ ELSE @ \cup {i}]

Replay(s, op) ==
  CASE op.op = "put" ->
         Indexed([s EXCEPT !.mem = Insert(@, op.id, NewState(op.item, 100))],
                 op.id, op.item, TRUE)
    [] op.op = "delta" /\ op.id \in DOMAIN s.mem ->
         [s EXCEPT !.mem[op.id] = ApplyDelta(@, op)]
    [] op.op = "delete" /\ op.id \in DOMAIN s.mem -> Forgotten(s, op.id)
    [] op.op = "content" /\ op.id \in DOMAIN s.mem ->
         Edited(s, op.id, op.content, op.vec)
    [] op.op = "kind" /\ op.id \in DOMAIN s.mem ->
         [s EXCEPT !.mem[op.id] = OfKind(@, op.kind)]
    [] op.op = "demote" /\ op.id \in DOMAIN s.mem ->
         [s EXCEPT !.mem[op.id] = InTier(@, op.tier)]
    [] op.op = "outcome" /\ op.id \in DOMAIN s.mem ->
         [s EXCEPT !.mem[op.id] = WithOutcome(@, op.weight)]
    [] OTHER -> s

(* The snapshot body has every table but chunk_hash_idx, which open() starts
   empty and only replayed puts fill. *)
Body(s) == [s EXCEPT !.hash = <<>>]

Log == INSTANCE OrganLog

vars == <<ram, wal, todo, gap, env>>

(* rebuild_keyed_indexes and build_realm_members, build_kind_members: from
   the live payloads, the earliest done record and the latest task record. *)
Keyed(s, Keys(_), k) == {i \in Live(s) : k \in Keys(s.mem[i].item)}
AllKeys(s, Keys(_)) == UNION {Keys(s.mem[i].item) : i \in Live(s)}
Earliest(s, Keys(_)) == [k \in AllKeys(s, Keys) |-> Min(Keyed(s, Keys, k))]
Latest(s, Keys(_)) == [k \in AllKeys(s, Keys) |-> Max(Keyed(s, Keys, k))]
Corrections(s) == UNION {CorrKeys(s.mem[i].item) \X {i} : i \in Live(s)}

(* content_prov_idx is collected in the order of a hash map: of several live
   done records with one content any may own it. *)
Provenances(s) ==
  {f \in [AllKeys(s, DoneKeys) -> Live(s)] :
     \A k \in DOMAIN f : f[k] \in Keyed(s, DoneKeys, k)}

Rebuilt(s) ==
  [s EXCEPT !.prov = Earliest(s, ProvKeys),
            !.task = Latest(s, TaskKeys),
            !.corr = Corrections(s),
            !.realm = {<<s.mem[i].item.realm, i>> : i \in Live(s)},
            !.kind = {<<s.mem[i].item.kind, i>> : i \in Live(s)}]

(* asked: the statuses the fence let through; moved: memories whose realm
   changed without a record; edited: those with new content or kind; risen:
   those edited after they were forgotten, in RAM or on the log; bypassed: those
   promoted round the fence; stray: forgotten ones that cf_set_realm moved;
   cold: a restart has left a live memory without its hash. *)
Init == Log!LogInit /\ env = [now |-> 1, calls |-> 0, asked |-> <<>>,
                              moved |-> {}, edited |-> {}, risen |-> {},
                              bypassed |-> {}, stray |-> {}, cold |-> FALSE]

Busy == env.calls < MaxCalls
Called == env' = [env EXCEPT !.calls = @ + 1]
Commit(new, op) ==
  Log!Idle /\ ram' = new /\ wal' = Replay(wal, op) /\ UNCHANGED <<todo, gap>>
Quiet(new) == Log!Idle /\ ram' = new /\ UNCHANGED <<wal, todo, gap>>
-----------------------------------------------------------------------------
Reinforce(i, boost) ==
  LET op == Delta(i, boost, TRUE, "same", FALSE)
  IN Busy /\ Commit([ram EXCEPT !.mem[i] = ApplyDelta(@, op)], op) /\ Called

(* Provenance gate: the same done record in any realm. *)
ProvHit(item) == {i \in Live(ram) : \E k \in DoneKeys(item) \cap DOMAIN ram.done :
                                      ram.done[k] = i}
(* Exact gate: the id chunk_hash_idx holds, unless it is a ghost. *)
HashHit(item) == {i \in Live(ram) : item \in DOMAIN ram.hash /\ ram.hash[item] = i}

(* Novelty gate: the nearest vector decides.  An equal vector is nearer than
   any near one and lies above the window. *)
Nearest(item) ==
  LET same == {i \in ram.sem : ram.mem[i].item.vec = item.vec}
      near == {i \in ram.sem : <<ram.mem[i].item.vec, item.vec>> \in Near}
  IN IF item.vec = NoVec THEN {} ELSE IF same # {} THEN same ELSE near
NearHit(item, i) ==
  /\ <<ram.mem[i].item.vec, item.vec>> \in Near
  /\ ram.mem[i].item.realm = item.realm
  /\ ~ram.mem[i].dead

NewMemory(item, confidence) ==
  LET i == Cardinality(DOMAIN ram.mem) + 1
      stored == Indexed([ram EXCEPT !.mem = Insert(@, i, NewState(item, confidence))],
                        i, item, item.kind # "process")
  IN /\ i <= MaxMemories
     /\ Commit([stored EXCEPT !.done = OrInsert(@, DoneKeys(item), i),
                              !.prov = OrInsert(@, ProvKeys(item), i),
                              !.task = InsertAll(@, TaskKeys(item), i),
                              !.corr = @ \cup (CorrKeys(item) \X {i})],
               [op |-> "put", id |-> i, item |-> item])
     /\ UNCHANGED env

(* put_memory: the three gates in order, each reinforcing what it finds. *)
Put(item, confidence) ==
  \/ \E i \in ProvHit(item) : Reinforce(i, 3)
  \/ ProvHit(item) = {} /\ \E i \in HashHit(item) : Reinforce(i, 5)
  \/ /\ ProvHit(item) = {} /\ HashHit(item) = {}
     /\ \/ \E i \in Nearest(item) :
             \/ NearHit(item, i) /\ Reinforce(i, 2)
             \/ ~NearHit(item, i) /\ NewMemory(item, confidence)
        \/ Nearest(item) = {} /\ NewMemory(item, confidence)

(* forget also takes a memory that is already gone. *)
Forget(i) ==
  /\ Busy
  /\ Commit(Forgotten(ram, i), [op |-> "delete", id |-> i])
  /\ env' = [env EXCEPT !.calls = @ + 1, !.risen = @ \ {i}]

(* The append succeeds, sync()? does not: forget returns before RAM changes. *)
ForgetUnsynced(i) ==
  /\ Busy /\ Log!Idle
  /\ wal' = Replay(wal, [op |-> "delete", id |-> i])
  /\ gap' = TRUE
  /\ Called
  /\ UNCHANGED <<ram, todo>>

(* update_state refuses a forgotten memory. *)
UpdateState(i, boost) == ~ram.mem[i].dead /\ Reinforce(i, boost)

(* set_memory_status returns Ok whether or not the fence let it through. *)
SetMemoryStatus(i, status) ==
  LET op == Delta(i, 0, FALSE, status, FALSE)
  IN /\ Busy
     /\ Commit([ram EXCEPT !.mem[i] = ApplyDelta(@, op)], op)
     /\ env' = [env EXCEPT !.calls = @ + 1,
                           !.asked = IF env.now > ram.mem[i].fence
                                     THEN Insert(@, i, status) ELSE @]

(* cf_update_memory_content asks only for a payload, which a forgotten memory
   has: payload, keyword index and, with a vector, semantic index; no lane. *)
UpdateContent(i, content, vec) ==
  /\ Busy
  /\ Commit(Edited(ram, i, content, vec),
            [op |-> "content", id |-> i, content |-> content, vec |-> vec])
  /\ env' = [env EXCEPT !.calls = @ + 1, !.edited = @ \cup {i},
                        !.risen = IF i \in Live(ram) \cap Live(wal) THEN @ ELSE @ \cup {i}]

(* cf_update_memory_kind: the payload, not kind_members. *)
UpdateKind(i, kind) ==
  /\ Busy
  /\ Commit([ram EXCEPT !.mem[i] = OfKind(@, kind)],
            [op |-> "kind", id |-> i, kind |-> kind])
  /\ env' = [env EXCEPT !.calls = @ + 1, !.edited = @ \cup {i}]

(* cf_set_realm writes no record. *)
SetRealm(i, realm) ==
  /\ Busy
  /\ Quiet([ram EXCEPT !.mem[i] = InRealm(@, realm),
                       !.realm = (@ \ {<<ram.mem[i].item.realm, i>>})
                                   \cup {<<realm, i>>}])
  /\ env' = [env EXCEPT !.calls = @ + 1, !.moved = @ \cup {i},
                        !.stray = IF ram.mem[i].dead THEN @ \cup {i} ELSE @]

(* The live memories whose realm a mapping names another for, and the store
   with their payloads and members moved; no other index is told. *)
Moving(s, map) == {i \in Live(s) : map[s.mem[i].item.realm] # s.mem[i].item.realm}
Remapped(s, map) ==
  LET hit == Moving(s, map)
      to(i) == map[s.mem[i].item.realm]
  IN  [s EXCEPT
        !.mem = [i \in DOMAIN s.mem |-> IF i \in hit THEN InRealm(s.mem[i], to(i))
                                        ELSE s.mem[i]],
        !.realm = (@ \ {<<s.mem[i].item.realm, i>> : i \in hit})
                    \cup {<<to(i), i>> : i \in hit}]

(* remap_realms saves a full snapshot after the move. *)
RemapRealms(map) ==
  /\ Busy /\ Log!Idle
  /\ ram' = Remapped(ram, map) /\ wal' = Body(ram') /\ gap' = FALSE
  /\ env' = [env EXCEPT !.calls = @ + 1, !.moved = {}, !.bypassed = {}]
  /\ UNCHANGED todo

(* trim_realm_names saves nothing; nor does remap_realms when its save fails,
   which it only reports. *)
MoveUnsaved(map) ==
  /\ Busy
  /\ Quiet(Remapped(ram, map))
  /\ env' = [env EXCEPT !.calls = @ + 1, !.moved = @ \cup Moving(ram, map)]

(* record_outcome: accrual, on the log before RAM. *)
RecordOutcome(i) ==
  /\ Busy
  /\ Commit([ram EXCEPT !.mem[i] = WithOutcome(@, 1)],
            [op |-> "outcome", id |-> i, weight |-> 1])
  /\ Called

(* run_demotion_pass, one memory per step: a tier down, at last forgotten. *)
Demote(i) ==
  /\ i \in Live(ram)
  /\ \/ /\ Busy /\ ram.mem[i].tier < 2
        /\ Commit([ram EXCEPT !.mem[i] = InTier(@, ram.mem[i].tier + 1)],
                  [op |-> "demote", id |-> i, tier |-> ram.mem[i].tier + 1])
        /\ Called
     \/ ram.mem[i].tier = 2 /\ Forget(i)

Unstaged(st) == [st EXCEPT !.staged = FALSE]

(* promote_staged_memories: a recalled memory leaves the staging area, in RAM
   at once, on replay only if the fence lets the record through. *)
PromoteStaged(i) ==
  /\ Busy
  /\ i \in Live(ram) /\ ram.mem[i].staged
  /\ ram.mem[i].hits >= 1
  /\ Commit([ram EXCEPT !.mem[i] = Unstaged(@)], Delta(i, 0, FALSE, "same", TRUE))
  /\ env' = [env EXCEPT !.calls = @ + 1, !.bypassed = @ \cup {i}]

(* promote_staged_memories, prune_episodes, prune_by_content and
   cf_purge_corrupt pick live memories and forget them one by one. *)
Prune(i) == i \in Live(ram) /\ Forget(i)

Tick == env.now < MaxNow /\ env' = [env EXCEPT !.now = @ + 1]
        /\ UNCHANGED <<ram, wal, todo, gap>>

(* The snapshot body holds RAM as it is; only chunk_hash_idx has no section. *)
Save == Log!Idle /\ wal' = Body(ram) /\ gap' = FALSE /\ UNCHANGED <<ram, todo>>
        /\ env' = [env EXCEPT !.moved = {}, !.bypassed = {}]

(* open(): the image, with the derived lanes and members rebuilt. *)
Reopen ==
  /\ \E done \in Provenances(wal) :
       LET new == Rebuilt([wal EXCEPT !.done = done]) IN ram' = new /\ wal' = new
  /\ todo' = <<>> /\ gap' = FALSE
  /\ env' = [env EXCEPT !.moved = {}, !.bypassed = {}, !.stray = {},
                        !.asked = Restrict(@, DOMAIN @ \ env.bypassed),
                        !.cold = @ \/ \E i \in Live(wal) : wal.mem[i].chunk \notin DOMAIN wal.hash]

Next ==
  \/ \E item \in Items, confidence \in {50, 100} : Put(item, confidence)
  \/ \E i \in DOMAIN ram.mem :
       \/ Forget(i) \/ ForgetUnsynced(i) \/ Prune(i)
       \/ \E boost \in {0, 5} : UpdateState(i, boost)
       \/ \E status \in Statuses : SetMemoryStatus(i, status)
       \/ \E item \in Items : \E vec \in {NoVec, item.vec} : UpdateContent(i, Content(item), vec)
       \/ \E item \in Items : UpdateKind(i, item.kind) \/ SetRealm(i, item.realm)
       \/ RecordOutcome(i) \/ Demote(i) \/ PromoteStaged(i)
  \/ \E map \in [RealmNames -> RealmNames] : RemapRealms(map) \/ MoveUnsaved(map)
  \/ Tick \/ Save \/ Reopen

Spec == Init /\ [][Next]_vars

(* provenance_lookup and task_state_lookup answer with a live record only. *)
Lookup(s, lane, k) == IF k \in DOMAIN lane /\ lane[k] \in Live(s) THEN {lane[k]} ELSE {}
-----------------------------------------------------------------------------
(* A restart serves the same memories with the same content, status, tier and
   outcome counts.  Excluded: the realm of a memory that was moved without a
   record (cf_set_realm, trim_realm_names, a remap whose save failed), the state of one whose promotion went round the fence, and the
   confidence, which put_memory's record does not carry. *)
MemoriesKept ==
  Log!Settled =>
    /\ Live(wal) = Live(ram)
    /\ \A i \in Live(ram) :
         /\ Content(wal.mem[i].item) = Content(ram.mem[i].item)
         /\ i \notin env.moved => wal.mem[i].item = ram.mem[i].item
         /\ wal.mem[i].pos = ram.mem[i].pos /\ wal.mem[i].tier = ram.mem[i].tier
         /\ i \notin env.bypassed => /\ wal.mem[i].status = ram.mem[i].status
                                     /\ wal.mem[i].fence = ram.mem[i].fence

(* The indexes hold the live memories and no others, before a restart and in
   what a restart rebuilds.  An edit brings a forgotten memory back into the
   keyword index, and with a vector into the semantic one, until it is forgotten
   again; cf_set_realm brings one back into its realm's members. *)
IndexesServe ==
  \A s \in {ram, Rebuilt(wal)} :
    LET embedded == {i \in Live(s) : s.mem[i].item.vec # NoVec}
    IN  /\ s.time = Live(s)
        /\ embedded \subseteq s.sem /\ s.sem \ env.risen \subseteq embedded
        /\ s.word \ env.risen \subseteq Live(s)
        /\ {i \in Live(s) : s.mem[i].chunk.kind # "process"} \subseteq s.word
        /\ \A i \in Live(s) : <<s.mem[i].item.realm, i>> \in s.realm
        /\ \A p \in s.realm : p[2] \in Live(s) \cup env.stray

(* One live copy per chunk hash, as long as no copy of that hash was forgotten
   (its ghost keeps the slot) and no restart read a snapshot (which has no
   chunk_hash_idx). *)
OneCopy ==
  \A i, j \in Live(ram) :
    ram.mem[i].chunk = ram.mem[j].chunk =>
      \/ i = j
      \/ env.cold
      \/ \E g \in DOMAIN ram.mem : ram.mem[g].dead /\ ram.mem[g].chunk = ram.mem[i].chunk

(* A status the fence let through stays until the next one, over restarts. *)
StatusKept ==
  \A i \in DOMAIN env.asked :
    /\ ram.mem[i].status = env.asked[i]
    /\ i \in DOMAIN wal.mem \ env.bypassed => wal.mem[i].status = env.asked[i]

(* What a keyed lane answers, it answers after a restart too. *)
LanesAgree ==
  (Log!Settled /\ env.edited = {}) =>
    LET new == Rebuilt(wal)
    IN /\ \A k \in DOMAIN ram.prov :
            Lookup(ram, ram.prov, k) \subseteq Lookup(new, new.prov, k)
       /\ \A k \in DOMAIN ram.task :
            Lookup(ram, ram.task, k) \subseteq Lookup(new, new.task, k)
       /\ {p \in ram.corr : p[2] \in Live(ram)} = new.corr
=============================================================================
