------------------------------ MODULE Backfill ------------------------------
(***************************************************************************)
(* Embedding backfill.  Memories are stored without a vector and, when the *)
(* text is long enough, marked embed_pending; drains fetch pending ones,   *)
(* compute vectors and hand them in, one by one or as a batch in three     *)
(* phases (stage, plan, apply) over the single slot backfill_plan_stage,   *)
(* while callers keep storing, editing and forgetting and the process may  *)
(* die.                                                                    *)
(*                                                                         *)
(* ram.mem holds the states and texts, ram.sem the ids that the semantic   *)
(* index has a vector for, ram.graph those wired into its HNSW graph; wal  *)
(* is what a replay would rebuild of them, wal.blank the ids whose entry   *)
(* in the replayed index is an empty vector.                               *)
(***************************************************************************)
EXTENDS Integers, FiniteSets

CONSTANTS Ids,            \* memory ids, in the order of their creation
          Near(_, _),     \* vectors that the dedup thresholds call the same
          Drains,         \* the threads that run batches
          Unlocked,       \* those of them that run outside the rpc mutex
          Limit,          \* batch size of pending_embeddings
          MaxEdits,       \* bound on edits, forgets and queue maintenance
          MaxCrashes      \* bound on restarts

VARIABLES ram, wal, env

vars == <<ram, wal, env>>

NoStage == [open |-> FALSE, ids |-> {}, plan |-> {}]
Resting == [pc |-> "idle", ids |-> {}, read |-> <<>>, plan |-> {}]

(* A text as it was stored or as an edit made it; 0 is the empty one.  Long:
   at least MIN_EMBED_CHARS. *)
Short(edited) == IF edited THEN 3 ELSE 1
Enough(edited) == IF edited THEN 4 ELSE 2
Texts(edited) == {Short(edited), Enough(edited)}
Long == {Enough(FALSE), Enough(TRUE)}

Live(m) == {i \in DOMAIN m : ~m[i].dead}
Pending(m) == {i \in Live(m) : m[i].pending}

(* slot: backfill_plan_stage; drain: what each drain is doing; count:
   pending_embed_count; given: the ids that force_clear gave up; grown: those
   that an edit made long enough, which queues nothing. *)
Init ==
  /\ ram = [mem |-> <<>>, sem |-> {}, graph |-> {}]
  /\ wal = [mem |-> <<>>, sem |-> {}, blank |-> {}]
  /\ env = [slot |-> NoStage, drain |-> [d \in Drains |-> Resting], count |-> 0,
            given |-> {}, grown |-> {}, edits |-> 0, crashes |-> 0]

(* Sets embed_pending for the ids of a set. *)
Flag(m, ids, flag) ==
  [i \in DOMAIN m |-> IF i \in ids THEN [m[i] EXCEPT !.pending = flag] ELSE m[i]]

(* HashMap::insert. *)
Insert(m, i, memory) ==
  [j \in DOMAIN m \cup {i} |-> IF j = i THEN memory ELSE m[j]]

(* put_memory without a vector: a short text is keyword-only, with its
   embedding_dim set all the same.  Replay upserts the empty vector. *)
Put(i, text) ==
  LET queued == text \in Long
      new == [text |-> text, dead |-> FALSE, pending |-> queued, super |-> FALSE,
              keyword |-> ~queued]
  IN  /\ i \notin DOMAIN ram.mem
      /\ ram' = [ram EXCEPT !.mem = Insert(@, i, new)]
      /\ wal' = [wal EXCEPT !.mem = Insert(@, i, [new EXCEPT !.pending = FALSE]),
                            !.blank = @ \cup {i}]
      /\ env' = [env EXCEPT !.count = IF queued THEN @ + 1 ELSE @]

(* UpdateMemoryContent with vectors replayed: the text of the record, the
   vector, and embed_pending cleared, whatever became of the memory since. *)
LogVectors(read) ==
  [mem |-> [i \in DOMAIN wal.mem |->
              IF i \in DOMAIN read
              THEN [wal.mem[i] EXCEPT !.text = read[i], !.pending = FALSE] ELSE wal.mem[i]],
   sem |-> wal.sem \cup DOMAIN read,
   blank |-> wal.blank \ DOMAIN read]

(* cf_update_memory_content, also on a forgotten memory: without a vector it
   queues nothing, whatever the length ... *)
UpdateContent(i, text) ==
  LET grows == /\ text \in Long /\ ram.mem[i].text \notin Long
               /\ ~ram.mem[i].pending /\ i \notin ram.sem
  IN  /\ env.edits < MaxEdits
      /\ ram' = [ram EXCEPT !.mem[i].text = text]
      /\ wal' = [wal EXCEPT !.mem[i].text = text]
      /\ env' = [env EXCEPT !.edits = @ + 1, !.grown = IF grows THEN @ \cup {i} ELSE @]

(* ... with one, it indexes it and leaves embed_pending, which replay clears. *)
UpdateVector(i, text) ==
  /\ env.edits < MaxEdits
  /\ ram' = [mem |-> [ram.mem EXCEPT ![i].text = text],
             sem |-> ram.sem \cup {i}, graph |-> ram.graph \cup {i}]
  /\ wal' = LogVectors([j \in {i} |-> text])
  /\ env' = [env EXCEPT !.edits = @ + 1]

(* forget: the text is cleared; embed_pending and the counter stay. *)
Forget(i) ==
  /\ ~ram.mem[i].dead
  /\ env.edits < MaxEdits
  /\ ram' = [mem |-> [ram.mem EXCEPT ![i].dead = TRUE, ![i].text = 0],
             sem |-> ram.sem \ {i}, graph |-> ram.graph \ {i}]
  /\ wal' = [mem |-> [wal.mem EXCEPT ![i].dead = TRUE, ![i].text = 0],
             sem |-> wal.sem \ {i}, blank |-> wal.blank \ {i}]
  /\ env' = [env EXCEPT !.edits = @ + 1]
-----------------------------------------------------------------------------
(* pending_embeddings: all of a short backlog; of a longer one the newest and,
   for half of the batch, the oldest. *)
PendingEmbeddings ==
  LET pending == Pending(ram.mem)
      half == Limit \div 2
  IN  {i \in pending : \/ Cardinality(pending) <= Limit
                       \/ Cardinality({j \in pending : j < i}) < half
                       \/ Cardinality({j \in pending : j > i}) < Limit - half}

Fetch(d) ==
  /\ env.drain[d].pc = "idle"
  /\ PendingEmbeddings # {}
  /\ env' = [env EXCEPT !.drain[d].pc = "fetched", !.drain[d].ids = PendingEmbeddings]
  /\ UNCHANGED <<ram, wal>>

(* What a stage accepts: known and still pending, the forgotten included. *)
Accepted(ids) == {i \in ids \cap DOMAIN ram.mem : ram.mem[i].pending}

(* backfill_stage, pass 1: the text of each memory is read ... *)
StageRead(d) ==
  /\ env.drain[d].pc = "fetched"
  /\ env' = [env EXCEPT !.drain[d].pc = "read",
               !.drain[d].read = [i \in Accepted(env.drain[d].ids) |-> ram.mem[i].text]]
  /\ UNCHANGED <<ram, wal>>

(* ... and logged with the vector; pass 2 upserts the vectors, which takes the
   ids out of the graph, and the slot takes the batch, whatever it held. *)
StageWrite(d) ==
  LET read == env.drain[d].read
  IN  /\ env.drain[d].pc = "read"
      /\ wal' = LogVectors(read)
      /\ ram' = [ram EXCEPT !.sem = @ \cup DOMAIN read, !.graph = @ \ DOMAIN read]
      /\ env' = [env EXCEPT !.drain[d].pc = "staged",
                            !.slot = [open |-> TRUE, ids |-> DOMAIN read, plan |-> {}]]

(* backfill_plan: the ids out of the slot and the search without a lock ... *)
PlanRead(d) ==
  /\ env.drain[d].pc = "staged"
  /\ env' = [env EXCEPT !.drain[d].pc = "planned",
                        !.drain[d].plan = (env.slot.ids \cap ram.sem) \ ram.graph]
  /\ UNCHANGED <<ram, wal>>

(* ... and the plan into whatever the slot holds then. *)
PlanWrite(d) ==
  /\ env.drain[d].pc = "planned"
  /\ env' = [env EXCEPT !.drain[d].pc = "apply",
                        !.slot.plan = IF env.slot.open /\ env.drain[d].plan # {}
                                      THEN env.drain[d].plan ELSE @]
  /\ UNCHANGED <<ram, wal>>

(* backfill_apply takes the slot: of the plan, what still has a vector joins
   the graph, and the staged ids stop being pending. *)
Apply(d) ==
  LET clear == Accepted(env.slot.ids)
  IN  /\ env.drain[d].pc = "apply"
      /\ ram' = [ram EXCEPT !.graph = @ \cup (env.slot.plan \cap ram.sem),
                            !.mem = Flag(@, clear, FALSE)]
      /\ env' = [env EXCEPT !.slot = NoStage, !.drain[d] = Resting,
                            !.count = @ - Cardinality(clear)]
      /\ UNCHANGED wal

(* Ids a caller can hold: pending_embeddings handed them out. *)
HandedOut(i) == ~ram.mem[i].dead \/ \E d \in Drains : i \in env.drain[d].ids

(* backfill_embedding: one memory, graph insert included; a memory whose first
   vector has a live near neighbour is superseded by it. *)
BackfillEmbedding(i) ==
  LET same == i \notin ram.sem /\ \E j \in ram.sem \ {i} : Near(i, j) /\ ~ram.mem[j].dead
      logged == LogVectors([j \in {i} |-> ram.mem[i].text])
  IN  /\ i \in Accepted({i})
      /\ HandedOut(i)
      /\ ram' = [mem |-> [ram.mem EXCEPT ![i].pending = FALSE, ![i].super = @ \/ same],
                 sem |-> ram.sem \cup {i}, graph |-> ram.graph \cup {i}]
      /\ wal' = [logged EXCEPT !.mem[i].super = @ \/ same]
      /\ env' = [env EXCEPT !.count = @ - 1]
-----------------------------------------------------------------------------
(* force_clear_embed_pending gives an id up without a vector. *)
ForceClear(i) ==
  /\ i \in Accepted({i})
  /\ HandedOut(i)
  /\ env.edits < MaxEdits
  /\ ram' = [ram EXCEPT !.mem = Flag(@, {i}, FALSE)]
  /\ env' = [env EXCEPT !.count = @ - 1, !.given = @ \cup {i}, !.edits = @ + 1]
  /\ UNCHANGED wal

Embeddable(m) == {i \in Live(m) : m[i].text \in Long}

Requeue(ids) ==
  LET hit == {i \in ids : ~ram.mem[i].pending}
  IN  /\ hit # {}
      /\ env.edits < MaxEdits
      /\ ram' = [ram EXCEPT !.mem = Flag(@, hit, TRUE)]
      /\ env' = [env EXCEPT !.count = @ + Cardinality(hit), !.given = @ \ hit,
                            !.grown = @ \ hit, !.edits = @ + 1]
      /\ UNCHANGED wal

(* requeue_ghost_embeddings: what has a long text and no vector. *)
RequeueGhosts == Requeue(Embeddable(ram.mem) \ ram.sem)

(* requeue_all_embeddings: whatever has ten characters, so also some of the
   short texts. *)
RequeueAll ==
  \E ids \in SUBSET Live(ram.mem) : Embeddable(ram.mem) \subseteq ids /\ Requeue(ids)

(* A full snapshot: states, texts and the vector sidecar as they are.  Loading
   it queues what has an embedding_dim and no vector. *)
Save ==
  LET healed == {i \in Live(ram.mem) \ ram.sem : ram.mem[i].keyword /\ ram.mem[i].text > 0}
  IN  /\ wal' = [mem |-> Flag(ram.mem, healed, TRUE), sem |-> ram.sem, blank |-> {}]
      /\ wal' # wal
      /\ UNCHANGED <<ram, env>>

(* Mutant: open() queues nothing. *)
ReconciledNot(w) == w.mem

(* reconcile_embeddings: whatever lives and has an empty vector, or has a long
   text and none. *)
Reconciled(w) ==
  Flag(w.mem, (Live(w.mem) \cap w.blank) \cup (Embeddable(w.mem) \ w.sem), TRUE)

(* open(): replay, reconcile, the graph completed from the vectors, and the
   counter set from the live pending memories. *)
Restart ==
  /\ env.crashes < MaxCrashes
  /\ ram' = [mem |-> Reconciled(wal), sem |-> wal.sem, graph |-> wal.sem]
  /\ env' = [env EXCEPT !.slot = NoStage, !.drain = [d \in Drains |-> Resting],
                        !.count = Cardinality(Pending(Reconciled(wal))),
                        !.given = {}, !.grown = {}, !.crashes = @ + 1]
  /\ UNCHANGED wal

(* The rpc mutex keeps calls out of a locked drain's stage and apply. *)
Apart == \A d \in Drains \ Unlocked : env.drain[d].pc # "read"

Call ==
  \/ \E i \in Ids, text \in Texts(FALSE) : Put(i, text)
  \/ \E i \in DOMAIN ram.mem, text \in Texts(TRUE) :
       UpdateContent(i, text) \/ UpdateVector(i, text)
  \/ \E i \in DOMAIN ram.mem : Forget(i) \/ ForceClear(i) \/ BackfillEmbedding(i)
  \/ RequeueGhosts \/ RequeueAll \/ Save

Step(d) ==
  Fetch(d) \/ StageRead(d) \/ StageWrite(d) \/ PlanRead(d) \/ PlanWrite(d) \/ Apply(d)

Next == (Apart /\ Call) \/ (\E d \in Drains : Step(d)) \/ Restart

Spec == Init /\ [][Next]_vars
-----------------------------------------------------------------------------
(* No memory is dropped by the backfill: as long as it lives and has a long
   text, it has a vector, or is queued for one, or was given up by force_clear;
   whatever two drains do to the one slot and wherever the process dies.  The
   one gap of the code: a keyword-only memory whose edit makes its text long is
   queued only by the next open or requeue.  The counter that tells the daemon
   whether there is work never says less than there is. *)
NoneLost ==
  /\ Embeddable(ram.mem) \subseteq ram.sem \cup Pending(ram.mem) \cup env.given \cup env.grown
  /\ env.count >= Cardinality(Pending(ram.mem))

(* A memory that has its vector, is no longer queued and is not in the batch
   that waits in the slot, is in the graph.  (Two drains break this: the plan of
   one is written into, and applied with, the batch of the other.) *)
Wired ==
  (ram.sem \cap Live(ram.mem)) \ (Pending(ram.mem) \cup env.slot.ids) \subseteq ram.graph

(* "Clear content bytes so replay doesn't resurrect deleted text": a replay
   gives each memory the text it has, the forgotten ones none but what was
   written since, and undoes no edit. *)
TextsKept == \A i \in DOMAIN wal.mem : wal.mem[i].text = ram.mem[i].text
=============================================================================
