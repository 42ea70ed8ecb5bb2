---------------------------- MODULE SemanticIndex ----------------------------
(***************************************************************************)
(* The dense index: vectors, tombstones, the two HNSW tiers, the realm     *)
(* graphs, the derived codes, and the quantised `turbo' index that is      *)
(* built off the lock from a copy and published into a slot.  A vector is  *)
(* a version number; 0 stands for the empty vector of a memory that still  *)
(* waits for its embedding.                                                *)
(*                                                                         *)
(* Every action is one hold of the index's write lock; plan_* run under    *)
(* the read lock and their results are applied later.                      *)
(***************************************************************************)
EXTENDS Integers, FiniteSets, FiniteSetsExt, Functions

CONSTANTS Ids, Realms,
          FlatMax,        \* flat_scan_max(): up to this size search is exact
          Tier2,          \* HNSW_TIER2_THRESHOLD
          RealmMin,       \* PER_REALM_HNSW_THRESHOLD
          MaxVersion, MaxCalls, MaxPlans

VARIABLES ram, env

vars == <<ram, env>>

Pending == 0
None == [at |-> 0, rows |-> <<>>, up |-> FALSE]

(* emb: vector by id, on the heap or in the mapped sidecar; dead: tombstones;
   base and delta: nodes of the two graphs; codes: ids with a binary code;
   buckets: ids with coarse and LSH assignments; realm: per_id_realm; graph:
   nodes of each realm's graph; slot: the published turbo index; changed: the
   mutation at which an id last changed. *)
New == [emb |-> <<>>, dead |-> {}, base |-> {}, delta |-> {}, codes |-> {}, buckets |-> {},
        realm |-> <<>>, count |-> [r \in Realms |-> 0], graph |-> [r \in Realms |-> {}],
        mut |-> 0, epoch |-> 0, slot |-> None, changed |-> <<>>]

Total(s) == Cardinality(DOMAIN s.emb)
UseHnsw(s) == Total(s) > FlatMax
UseTier2(s) == Total(s) >= Tier2
Ready(s, i) == i \in DOMAIN s.emb /\ s.emb[i] # Pending
Without(f, i) == Restrict(f, DOMAIN f \ {i})
Insert(f, i, v) == [j \in DOMAIN f \cup {i} |-> IF j = i THEN v ELSE f[j]]

Mutated(s) == [s EXCEPT !.mut = @ + 1]
InvalidateTurbo(s) == [s EXCEPT !.epoch = @ + 1, !.slot = None]

(* remove: a tombstone is left whether or not the id was indexed. *)
Remove(s, i) ==
  LET known == i \in DOMAIN s.realm
      r == s.realm[i]
      fewer == IF s.count[r] = 0 THEN 0 ELSE s.count[r] - 1
  IN [s EXCEPT !.mut = @ + 1,
               !.changed = Insert(@, i, s.mut + 1),
               !.graph = IF known THEN [s.graph EXCEPT ![r] = s.graph[r] \ {i}] ELSE @,
               !.count = IF known THEN [s.count EXCEPT ![r] = fewer] ELSE @,
               !.realm = Without(@, i),
               !.base = @ \ {i}, !.delta = @ \ {i},
               !.dead = @ \cup {i},
               !.emb = Without(@, i),
               !.codes = @ \ {i}, !.buckets = @ \ {i}]

SmallRealm(s, i) == s.count[s.realm[i]] < RealmMin

(* upsert_meta: remove first, then everything but the graphs. *)
UpsertMeta(s, i, v, r) ==
  LET t == Remove(Mutated(s), i)
  IN [t EXCEPT !.changed = Insert(@, i, t.mut),
               !.dead = @ \ {i},
               !.buckets = @ \cup {i},
               !.codes = IF v # Pending THEN @ \cup {i} ELSE @,
               !.emb = Insert(@, i, v),
               !.count[r] = @ + 1,
               !.realm = Insert(@, i, r)]

(* The node joins the active tier unless its realm is small. *)
InsertGlobal(s, i) ==
  IF UseTier2(s) THEN [s EXCEPT !.delta = @ \cup {i}] ELSE [s EXCEPT !.base = @ \cup {i}]

InsertRealm(s, i) ==
  IF ~SmallRealm(s, i) THEN [s EXCEPT !.graph[s.realm[i]] = @ \cup {i}] ELSE s

(* upsert: inhibited during replay, when the graphs wait for normalize. *)
Upsert(s, i, v, r, inhibit) ==
  LET t == UpsertMeta(s, i, v, r)
      u == IF ~inhibit /\ UseHnsw(t) /\ v # Pending /\ ~SmallRealm(t, i)
           THEN InsertGlobal(t, i) ELSE t
  IN IF v # Pending THEN InsertRealm(u, i) ELSE u

(* trim_deleted: tombstones of ids that are in neither graph. *)
TrimDeleted(s) == [Mutated(s) EXCEPT !.dead = @ \cap (s.base \cup s.delta)]

Missing(s) == DOMAIN s.emb \ (s.dead \cup s.base \cup s.delta)

(* backfill_hnsw_delta, serial or parallel: one tier takes all the nodes. *)
BackfillHnsw(s) ==
  IF ~UseHnsw(s) \/ s.base \cup s.delta = {} THEN Mutated(s)
  ELSE IF UseTier2(s) THEN [Mutated(s) EXCEPT !.delta = @ \cup Missing(s)]
  ELSE [Mutated(s) EXCEPT !.base = @ \cup Missing(s)]

MergeDeltaIntoBase(s) ==
  [Mutated(s) EXCEPT !.base = @ \cup {i \in s.delta \ s.dead : i \in DOMAIN s.emb},
                     !.delta = {}]

(* rebuild_hnsw: seed the base with the lowest id, then backfill. *)
RebuildHnsw(s) ==
  IF s.emb = <<>> THEN [s EXCEPT !.base = {}, !.delta = {}]
  ELSE BackfillHnsw([s EXCEPT !.base = {Min(DOMAIN s.emb)}, !.delta = {}])

(* rebuild_ann: assignments from the vectors; the graphs only if their size
   is not the number of vectors. *)
RebuildAnn(s) ==
  LET covered == Cardinality(s.base) + Cardinality(s.delta)
      t == [s EXCEPT !.buckets = DOMAIN s.emb]
  IN IF ~UseHnsw(s) \/ (covered > 0 /\ covered = Total(s)) THEN t
     ELSE IF covered > 0 THEN BackfillHnsw(t) ELSE RebuildHnsw(t)

RebinarizeAll(s) == [s EXCEPT !.codes = DOMAIN s.emb]

(* normalize_with_cache. *)
Normalize(s) ==
  LET t == InvalidateTurbo(Mutated(s))
      u == IF Cardinality(t.codes) # Total(t) THEN RebinarizeAll(t) ELSE t
      covered == Cardinality(u.base) + Cardinality(u.delta)
      w == IF Cardinality(u.buckets) # Total(u) THEN RebuildAnn(u)
           ELSE IF covered # Total(u) /\ UseHnsw(u) /\ u.base # {} THEN BackfillHnsw(u)
           ELSE u
  IN TrimDeleted(w)

(* purge_wrong_dim: empty vectors are dropped; no tombstone stays for them. *)
PurgeWrongDim(s) ==
  LET bad == {i \in DOMAIN s.emb : s.emb[i] = Pending}
  IN IF bad = {} THEN Mutated(s)
     ELSE [InvalidateTurbo(Mutated(s)) EXCEPT !.emb = Restrict(@, DOMAIN @ \ bad),
             !.codes = @ \ bad, !.buckets = @ \ bad, !.dead = @ \ bad]

(* plan_turbo_rebuild: rows are copied under the read guard. *)
TurboPlan(s) ==
  [rows |-> Restrict(s.emb, {i \in DOMAIN s.emb \ s.dead : Ready(s, i)}),
   at |-> s.mut, epoch |-> s.epoch]

(* TurboBuild::build and TurboCacheLoad::load: publish unless the epoch moved
   or a newer index is there. *)
PublishTurbo(s, plan) ==
  IF s.epoch = plan.epoch /\ plan.rows # <<>> /\ (s.slot.up => s.slot.at <= plan.at)
  THEN [s EXCEPT !.slot = [rows |-> plan.rows, at |-> plan.at, up |-> TRUE]]
  ELSE s

PruneTurboChanges(s) ==
  IF s.slot.up
  THEN [s EXCEPT !.changed = Restrict(@, {i \in DOMAIN @ : @[i] > s.slot.at})]
  ELSE s

(* Mutant: the snapshot's rows pass for the state after replay. *)
StartupPlanLate(s, rows) == [rows |-> rows, epoch |-> s.epoch, at |-> s.mut]

(* plan_startup_turbo_cache: the rows are those of the snapshot. *)
StartupPlan(s, rows) ==
  [rows |-> rows, epoch |-> s.epoch,
   at |-> IF DOMAIN s.changed = {} THEN s.mut ELSE Min(Range(s.changed)) - 1]

(* plan_delta_batch: the ids one batch wants to wire. *)
PlanDelta(s, ids) ==
  [tier2 |-> UseTier2(s),
   nodes |-> {i \in ids \ (s.dead \cup s.base \cup s.delta) :
                UseHnsw(s) /\ Ready(s, i) /\ (i \in DOMAIN s.realm => ~SmallRealm(s, i))},
   realm |-> {<<i, s.realm[i]>> : i \in {j \in (ids \ s.dead) \cap DOMAIN s.realm :
                /\ ~SmallRealm(s, j) /\ Ready(s, j)
                /\ j \notin s.graph[s.realm[j]]}}]

(* apply_delta_batch: deleted ids and ids of the target graph are skipped. *)
ApplyDelta(s, p) ==
  LET nodes == p.nodes \ s.dead
  IN IF p.nodes = {} /\ p.realm = {} THEN s
     ELSE [Mutated(s) EXCEPT
             !.delta = IF p.tier2 THEN @ \cup nodes ELSE @,
             !.base = IF p.tier2 THEN @ ELSE @ \cup nodes,
             !.graph = [r \in Realms |-> s.graph[r] \cup {i \in Ids \ s.dead : <<i, r>> \in p.realm}]]

(* The arms of search(), as the <<id, vector>> pairs they can score. *)
Scored(s, ids) == {<<i, s.emb[i]>> : i \in {j \in ids \ s.dead : j \in DOMAIN s.emb}}

Stale(s, i) == i \in DOMAIN s.changed /\ s.changed[i] > s.slot.at
TurboArm(s) ==
  {<<i, s.slot.rows[i]>> : i \in {j \in DOMAIN s.slot.rows \ s.dead : ~Stale(s, j)}}
    \cup Scored(s, {i \in DOMAIN s.changed : Stale(s, i)})
ScalarArm(s) == Scored(s, {i \in DOMAIN s.emb : Ready(s, i)})

LshArm(s) == Scored(s, s.buckets)

Search(s) ==
  IF Total(s) <= FlatMax THEN (IF s.slot.up THEN TurboArm(s) ELSE ScalarArm(s))
  ELSE IF Cardinality(s.codes) = Total(s) THEN Scored(s, s.codes)
  ELSE IF s.base \cup s.delta # {}
  THEN Scored(s, s.base \cup (IF UseTier2(s) THEN s.delta ELSE {}))
  ELSE LshArm(s)
RealmArm(s, r) == Scored(s, s.graph[r])

(* search_with_signature_boost never takes the turbo or the graph arms. *)
BoostArm(s) ==
  IF Cardinality(s.codes) = Total(s) THEN Scored(s, s.codes) ELSE LshArm(s)
-----------------------------------------------------------------------------
(* live: vector and realm the store last gave the index; snap: the sidecars
   and the body section of the saved family; since: the ids that the log after
   it names; back: what replaying that log onto the sidecars gives; plans: turbo
   copies being built; batch: the delta plan in flight. *)
NoBatch == [tier2 |-> FALSE, nodes |-> {}, realm |-> {}]

(* load_embeddings_sidecar empties the change list and drops the turbo slot. *)
LoadSidecars(snap) == InvalidateTurbo([snap EXCEPT !.changed = <<>>])

Init == /\ ram = New
        /\ env = [calls |-> 0, live |-> <<>>, snap |-> New, since |-> {},
                  back |-> LoadSidecars(New), plans |-> {}, batch |-> NoBatch]

Call == env.calls < MaxCalls

(* upsert, or upsert_deferred whose graph inserts come with a batch; replay runs
   upsert with the graphs inhibited. *)
Put(i, v, r, deferred) ==
  /\ Call
  /\ ram' = IF deferred THEN UpsertMeta(ram, i, v, r) ELSE Upsert(ram, i, v, r, FALSE)
  /\ env' = [env EXCEPT !.calls = @ + 1, !.live = Insert(@, i, <<v, r>>),
                        !.since = @ \cup {i}, !.back = Upsert(@, i, v, r, TRUE),
                        !.batch = IF deferred /\ @ = NoBatch
                                  THEN PlanDelta(UpsertMeta(ram, i, v, r), {i}) ELSE @]

Forget(i) ==
  /\ Call
  /\ ram' = Remove(ram, i)
  /\ env' = [env EXCEPT !.calls = @ + 1, !.live = Without(@, i),
                        !.since = @ \cup {i}, !.back = Remove(@, i)]

ApplyBatch ==
  /\ env.batch # NoBatch
  /\ ram' = ApplyDelta(ram, env.batch)
  /\ env' = [env EXCEPT !.batch = NoBatch]

PlanTurbo ==
  /\ Cardinality(env.plans) < MaxPlans
  /\ ~ram.slot.up \/ ram.slot.at # ram.mut
  /\ env' = [env EXCEPT !.plans = @ \cup {TurboPlan(ram)}]
  /\ UNCHANGED ram

BuildTurbo(p) ==
  /\ ram' = PublishTurbo(ram, p)
  /\ env' = [env EXCEPT !.plans = @ \ {p}]

Prune == ram' = PruneTurboChanges(ram) /\ ram' # ram /\ UNCHANGED env

MergeDelta == Call /\ ram.delta # {} /\ ram' = MergeDeltaIntoBase(ram)
                /\ env' = [env EXCEPT !.calls = @ + 1]

(* force_reindex rebuilds everything but the realm graphs. *)
ForceReindex ==
  LET t == RebinarizeAll(InvalidateTurbo(Mutated(ram)))
      u == RebuildAnn([t EXCEPT !.base = {}, !.delta = {}])
  IN /\ Call
     /\ ram' = TrimDeleted(MergeDeltaIntoBase(u))
     /\ env' = [env EXCEPT !.calls = @ + 1]

(* What the vector sidecar gets: each id once, and only sane vectors. *)
SaneRows(s) == TurboPlan(s).rows

(* A full snapshot's body and sidecars.  Only sane vectors are written; the
   delta is promoted when the base is empty. *)
SaveSidecars ==
  LET promote == ram.base = {}
      saved == [New EXCEPT !.emb = SaneRows(ram), !.dead = ram.dead,
                           !.base = IF promote THEN ram.delta ELSE ram.base,
                           !.delta = IF promote THEN {} ELSE ram.delta,
                           !.codes = ram.codes, !.buckets = ram.buckets]
  IN /\ Call /\ env.since # {}
     /\ env' = [env EXCEPT !.calls = @ + 1, !.since = {}, !.snap = saved,
                           !.back = LoadSidecars(saved)]
     /\ UNCHANGED ram

(* persist_delta_hnsw: the live delta goes beside the older family; replay still
   takes out of it every id that the log names. *)
PersistDelta ==
  /\ ram.delta # {} /\ env.snap.delta # ram.delta
  /\ env' = [env EXCEPT !.snap.delta = ram.delta, !.back.delta = ram.delta \ env.since]
  /\ UNCHANGED ram

ReconcileEmbeddings(s) == Normalize(PurgeWrongDim(s))

(* open(): sidecars, replay with the graphs inhibited, reconcile_embeddings;
   the turbo cache of the family is loaded behind the readiness gate.  Neither
   the realm graphs nor the realm map are loaded. *)
Reopen ==
  LET new == ReconcileEmbeddings(env.back)
  IN /\ Call
     /\ ram' = new
     /\ env' = [env EXCEPT !.calls = @ + 1, !.batch = NoBatch,
                           !.plans = {StartupPlan(new, env.snap.emb)}]

Next ==
  \/ \E i \in Ids, v \in Pending..MaxVersion, r \in Realms, d \in BOOLEAN : Put(i, v, r, d)
  \/ \E i \in Ids : Forget(i)
  \/ ApplyBatch \/ PlanTurbo \/ Prune \/ MergeDelta \/ ForceReindex
  \/ \E p \in env.plans : BuildTurbo(p)
  \/ SaveSidecars \/ PersistDelta \/ Reopen

Spec == Init /\ [][Next]_vars
-----------------------------------------------------------------------------
Vectors == {<<i, env.live[i][1]>> : i \in {j \in DOMAIN env.live : env.live[j][1] # Pending}}

(* No arm of search scores a forgotten memory or a vector the memory no longer
   has, whatever copies are being built, published, pruned or loaded from the
   snapshot's cache at the time; the exact arms miss none of the vectors.  (A
   memory that waits for its vector may be scored 0 by the turbo arm.) *)
Fresh ==
  LET ready(found) == {h \in found : h[2] # Pending}
  IN /\ ready(Search(ram)) \subseteq Vectors
     /\ ready(BoostArm(ram)) \subseteq Vectors
     /\ \A r \in Realms : ready(RealmArm(ram, r)) \subseteq Vectors
     /\ Total(ram) <= FlatMax \/ Cardinality(ram.codes) = Total(ram)
          => ready(Search(ram)) = Vectors

(* A tombstone has no vector, a code has one, and each realm counts the members
   it knows. *)
GraphsSound ==
  /\ DOMAIN ram.emb \cap ram.dead = {}
  /\ ram.codes \subseteq DOMAIN ram.emb
  /\ \A r \in Realms : ram.count[r] = Cardinality({i \in DOMAIN ram.realm : ram.realm[i] = r})

(* What every arm of search rests on. *)
SearchFresh == Fresh /\ GraphsSound
=============================================================================
