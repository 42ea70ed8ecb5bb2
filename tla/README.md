# chitta-field: TLA+ verification project

chitta-field is the storage engine of an agent memory daemon: a Rust library
(`src/`) that keeps memories, their learned state and some forty derived
"organs" in RAM, makes every change durable through a write-ahead log (WAL),
and compacts the log into snapshot families. A C++ daemon calls it through the C
ABI of `ffi.rs`; background threads of the library itself sync the log, drain
access bookkeeping and take checkpoints.

This directory models the log, snapshots and lock that keep the data, the
memory store and its indexes, the organs and the services around them, checks
them with TLC and proves the central parts with TLAPS. `PROJECT.json` maps every
definition to the source lines it models.

## 1. The system

| Component | State | Operations | Interacts with |
|---|---|---|---|
| Write-ahead log (`log.rs`) | active segment (BufWriter, `accepted_prefix`), sealed segments, `next_seqno`, `chain_head` | `append`, `sync`, `flush_buf`, `recover_segment`, `rotate_if_needed`, `replay` | every mutating operation appends before it applies; the chitta-wal thread syncs |
| Store (`store.rs`, `store/`) | payloads, states, secondary indexes, each behind its own RwLock | `put_memory`, `update_state`, `record_outcome`, `forget`, `get_memory` ... | log, then maps, one lock at a time |
| Touch drain (`store.rs`) | `pending_touches`, the `touch_drain` gate | `get_memory` queues, `drain_pending_touches` logs and applies a batch | gate shared with saves |
| Full snapshot (`store/maintenance.rs`, `snapshot.rs`) | a family `chitta.<inst>.{snapshot,pld,emb,...}`; dirty counters | `save_full_snapshot`, `compact_wal` | chitta-maint thread or RPC; log, manifest |
| Manifest (`manifest.rs`) | two slots, per-writer `families` with sizes and coverage vectors | `load` (join), `save`, `validated_snapshot_path` | the commit point of a save, consulted by open |
| WAL certificates (`wal_certificate.rs`) | inventory of sealed segments | `inventory`, `covered_segment`, `sealed_candidate` | decide which segments are deleted or skipped |
| Opening (`field.rs`, `field/opening.rs`) | none of its own | `load_snapshots`, `replay_wal`, deletion of stale families | reads everything above |
| Snapshot pruning, janitor (`store.rs`) | files | `prune_old_snapshots`, `janitor_sweep` | end of a save |
| Instance lock (`field.rs`) | `.instance.lock` and its flock | `acquire_instance_lock` | one process per directory |
| Foreign sync, merge replay (`field.rs`, `log.rs`) | `seen_offsets`, `pending_foreign`, per-writer order | `sync_foreign_collect` / `_apply`, merge by (ts, instance, seqno) | other writers' segments |
| Semantic index (`hnsw.rs`, `turbo.rs`) | vectors, tombstones, base + delta graph, realm graphs, Turbo codes | upsert, remove, plan / apply, publish, sidecar save and load | every put and forget, backfill, recall, snapshots |
| Backfill (`store/maintenance.rs`) | `embed_pending`, the slot `backfill_plan_stage` | stage, plan, apply; force clear, requeue | drain threads around the daemon's `rpc_mutex` |
| Recall (`store/recall.rs`) | refresh reservations, co-retrieval log | some fifteen entry points, each a sequence of short lock holds | indexes, states, edges, learners |
| Workflow organs (`organ/*`, `store/organs.rs`) | one store each: tasks, triggers, constraints, interventions, debts, wisdom, lineages, themes, agent contracts ... | an `Op` variant per mutation | log; `apply_op` on replay |
| Sessions, messages, transcripts, registries (`ffi/sessions_ledger.rs`) | a registry each | register, heartbeat, append, emit | log; the snapshot's ledger section |
| Triplets, replication (`organ/triplet.rs`, `replication.rs`) | facts with validity, dirty subjects, per-memory counts | add, end, supersede, cleanup, refresh | forget, save, load |
| Code intelligence (`organ/symbol.rs`, `callgraph.rs`, `codefile.rs`) | symbols, call edges, files, events | upsert, sweeps, clear project | log, snapshot |
| Event tape, CDAWG (`organ/event_tape.rs`, `organ/cdawg.rs`, `store/organs.rs`) | tape, suffix automaton, rules, policies | log event, consolidate, causal queries | snapshot cache |
| Startup (`ffi.rs`, `ablation.rs`) | lanes, once-only cells, readiness, maintenance thread | `cf_open`, forced cells, `cf_close` | everything that is loaded late |
| C ABI (`ffi.rs`, `ffi/*`) | `LAST_ERROR`, the caller's buffers | 330 handlers | all of the above |
| Learners, scoring | floating-point statistics | update, rank | recall |

What is hard here:

* **failure inside an operation**: a write that fails half way, a repair that
  fails too, a save that stops between two renames;
* **crash and restart**: kill (page cache survives) and power loss (it does
  not) between any two steps, then a fresh instance that must find everything;
* **interleaving**: operations take several locks one after another, so a
  background save sees them half done;
* **stale decisions**: dirty counters that skip a rewrite, sizes that stand for
  contents, coverage vectors looked up by file name;
* **several processes, one directory**: a lock file that is replaced while others
  use it, segments deleted while a peer reads them, vectors of maxima that cannot
  express a gap;
* **boundaries**: rotation, sequence numbers after everything was pruned, the
  two-families limit.

The list in `PROJECT.json` under `hazards` names the line for each.

## 2. Modules

### OpLog

One store directory's log over several lifetimes. `file` is the inode behind
`current_segment`, `leftover` what a failed flush left in the BufWriter,
`accepted` the `accepted_prefix`, `sealed` the other segments on disk. A record
is reduced to its seqno, its operation, the operation its `prev_hash` points at,
and whether all its bytes are there. `append()` is split where the process can
die or the disk can fail: `AppendStart`, `AppendRecover`, `Rotate`,
`AppendRefused`, `AppendWedged`, `WriteRecord`, `WriteFault`, `Repair`,
`RepairFails`, `AppendAck`. The log's RwLock excludes a second `append` and
`Sync` while one runs; `Vanish` (another process unlinks the segment), `Kill`
and `PowerLoss` happen at any time. `Reopen` truncates torn tails and sets the
next seqno; `ReopenFails` is the fatal answer to interior corruption.

Properties: `AckedSafe` (an acknowledged operation stays recoverable, except
those a power loss may take because no `sync` had returned, or that lived in an
unlinked inode when the process died), `NoPhantom` (nothing is recovered whose
append failed), `OneChain` (each writer's records are one hash chain with
increasing seqnos, across rotation), `NeverBricked` (open never meets interior
corruption), `TamperEvident` (when a refused record does slip in, the chain
shows it), `EventuallyDurable` (every acknowledged operation is fsynced in the
end or its process dies).

### Checkpoint

Saves and restarts. An operation is a put (overwrites, carries content), an
outcome or a touch batch (both accumulate, so that applying twice is visible).
`mem` is the live image; `body[w]`, `pld[w]` and `families[w]` are the files of
writer `w` and its manifest entry. Client operations run in the critical
sections of the code: `PutAppend`, `PutPayload`, `PutCounted`, `PutState`;
`OutcomeAppend`, `OutcomeApply`; `Touch`, `DrainTouches`. A save is
`SaveStart`, `SaveCapture`, `ClonePayloads`, `CloneStates`, `SavePld`,
`SaveBody`, `Commit`, `PruneWal`, `PruneFamilies`, with `SaveFails` at each
fallible step and `Kill` everywhere. `OpenFamily` chooses as
`load_snapshots` does (validated family with the highest seqno, else the highest
loadable body), replays what `covered_by_full` lets through, and deletes stale
bodies. Sizes are modelled by what determines them (number of entries), because
validation compares sizes only.

Two constants state assumptions instead of hiding them. `Serialized` says
whether saves hold the RPC lock, as those the daemon requests do, or come from
chitta-maint, which takes no such lock. `ResaveInterrupt` says whether a process
may stop while its second save is replacing the files of a family that its first
one committed.

Properties: `NothingLost`, `AppliedOnce`, `ContentServed`, `NeverRefused`,
`SeqnosGrow`; and `RecoversPrefix`, which is THEORY.md section 7.2.

### InstanceLock

One action per system call of `acquire_instance_lock`: `OpenFile` (creates the
inode if the name is free), `FlockGranted` / `FlockRefused`, `EmptyRecord` and
`WriteRecord` (the pid and host in the file), `ReadHolder` with `IsStale`
(recorded host is ours, recorded pid is dead, no file replaced yet), `Replace`
(unlink), `SelfHolder`, `LiveHolder`, `Poll`, `Refuse`, `OpenError`; `Release`
is `Drop`, `Exit` the death of a process, which frees its locks or leaves one
behind on an NFSv3 server (`Orphan`). Inodes are separate from the name, which
is where such protocols go wrong. `Interleaved` says whether two openers may be
between `open()` and the end of the loop body at once.

Properties: `Exclusive` (one instance at a time has the store), `StaleReplaced`
(an orphaned lock whose record names a dead process of this host does not keep
an opener of this host out), `OpenEnds` (every `open()` returns or its process
dies).

### SharedStore

What happens to the same files when `CHITTA_STORE_LOCK=0` lets several daemons
work in one directory. Each lifetime is a writer with its own log. State per
writer: what it has applied (`got`; `doubled` for what it applied twice),
`wal_coverage`, `seen` (`seen_offsets`), `pending` (`pending_foreign`), the
progress of its save. On disk: `wal` and one family per writer. A segment holds
one record, so that it can be read, pruned and written back on its own.
`OpenFresh`, `OpenFamily` and `SeedOffsets` are the parts of `open()` between
which peers run; `Collect`, `CollectFails` and `ApplyForeign` are the two phases
of `sync_foreign`; `Save`, `PruneWal`, `SaveFails`, `PruneFamilies` the save from
its commit on (its earlier steps are in Checkpoint). `Append` includes
`recover_segment`, which writes an unlinked active segment back.

Nothing orders the processes, and the protocol does not deliver everything to
everyone. The module has no assumption about timing; a history variable, `missed`,
records per process and per family what slipped past it, in one of three ways:

* a `sync_foreign_collect` that fails on a later segment has already advanced the
  offsets of the earlier ones (`CollectFails`);
* a peer appends between an open's replay and the seeding of its `seen_offsets`
  from file sizes (`SeedOffsets`);
* a peer deletes a segment that its own vector covers before this process, or the
  process that saved that family, has applied it (`PruneWal`).

`revived` has the operations whose deleted segment its writer wrote back.
Properties: `CoverageHonest` (a vector claims only what its process or family
contains or has missed), `Recoverable` (whichever family `open()` would choose now,
it and the segments it does not cover hold every acknowledged operation but those
missed), `AppliedOnce` (but for what was revived). So the three ways, and the
written-back segment, are all there is: a fourth way to lose an operation, or a
second way to apply one twice, would violate them. `CoverageExact` is the promise of
the code's comment, without the history; it does not hold.

### Journal

What `append`, `sync` and `open` promise a caller: a set of operations that the
next replay delivers. `Submit`, `Accept`, `Refuse` are a call and its answers;
`Persist` is a sync that returns; `Endanger` and `Rescue` the deletion of the
active file by somebody else and its repair; `Kill`, `PowerLoss`, `Reopen` the
rest. `MCOpLog` maps OpLog's state to it (`Abstract`), and `ImplementsJournal`
says that every behaviour of OpLog is one of Journal, which `OpLogProofs` proves.
The journal is a set: that the records also come in order is `OneChain`. It is an
implementation only while
`MaxDoubleFaults = 0`; with a double fault a refused operation enters the
journal later, which is `oplog_phantom`.

### Organs: OrganLog and the modules on it

`OrganLog` is what all organs share. `ram` is the organ, `wal` the organ that
`open()` would rebuild now: the fold of `apply_op`'s arm (`Replay`) over the
newest snapshot body and the records after it. `todo` holds the records that a
running operation has still to append, so that a crash or a failed append
(`LogFails`) can fall between any two. `Checkpoint` replaces `wal` by what the
snapshot's body restores of the organ, and `gap` is raised when that, or a failed
append, leaves RAM ahead of the log. `env` belongs to the environment: bounds,
clock, and the history that properties look back on. An organ module gives the
empty organ, the replay arm, one action per `cf_*` call, and says whether the
call appends before or after it changes RAM. Calls of one organ do not
interleave: the daemon's RPC mutex and the organ's own write lock serialise them;
crashes, failing appends, snapshots and the sweeps that append several times do.

Each of these properties compares the live operation with its replay arm, two
pieces of code written apart, and names in its comment what is excluded because
the code does not keep it.

| Module | Source | Hard part | Properties |
|---|---|---|---|
| `Tasks` | `organ/task.rs` | fencing tokens against delayed writers, replay of rejected transitions, the task that `log_event` files without a record | `Fenced`, `TasksKept` |
| `Sessions` | `organ/session.rs`, `msg.rs`, `transcript.rs` | sessions reach a snapshot only through compacted messages | `SessionsKept`, `TranscriptsKept` |
| `Triggers` | `organ/trigger.rs` | a sweep whose third append fails has fired two | `DeliveredOnce` |
| `Constraints` | `organ/constraint.rs` | rival branches, resolution, unlogged branches, branch numbers that callers use before they exist | `BranchesConsistent`, `FactsKept` |
| `Interventions` | `organ/intervention.rs`, surprise, integration | credit needs a run of surprises, over restarts | `Hysteresis`, `LedgerKept` |
| `Debts` | epistemic debt, wisdom promotion | a restart must not move an entry back | `LedgersKept` |
| `WisdomLineage` | `organ/wisdom_lineage.rs` | thresholds in both directions, re-derivation | `VerdictsKept` |
| `AgentProtocol` | `organ/agent_protocol.rs` | RAM first, record after; auto-completion | `ContractsKept` |
| `Registries` | skills, agents, user model, analytics | version and entry numbers are positions in the log | `RegistriesKept` |
| `Themes` | `organ/theme_organ.rs` | split and merge in hash-map order, events that `cf_emit_event` logs and does not apply | `MembersKept`, `ThemesKept` |
| `CodeGraph` | symbols, calls, files | ids burnt and reused, sweeps cut short, derived maps | `SymbolsFound`, `CallsMean`, `CodeKept` |
| `Triplets` | `organ/triplet.rs`, `replication.rs` | incremental cleanup and counts against full recomputation, a forget cut short at its sync | `CleanupExact`, `CountsExact`, `BeliefsKept` |
| `Edges` | edges of `store.rs`, `field.rs` | live merge against replayed push, gates at every entry, memories whose inferred kind changes under their edges; an edge is a record with the place it was first stored at | `EdgesSound`, `EdgesKept` |
| `Memory` | `store.rs`, `state.rs`, `payload.rs` | duplicate gates, the timestamp fence, six indexes, edits that bring a forgotten memory back into an index, lanes that a restart rebuilds (`content_prov_idx` in hash-map order) | `MemoriesKept`, `StatusKept`, `LanesAgree`, `IndexesServe`, `OneCopy` |

### Services

* `Tapes`: the event tape, the online suffix automaton (`extend` with its
  clones), rule mining, refutation, the off-lock compression of
  `consolidation_pass`, causal queries, the cache read at start. `SweepKeeps`
  (no failure and no session edge is removed, though the mask is applied to a
  tape that has grown), `EndposExact` (the automaton knows exactly the words
  logged), `CausalHonest`.
* `Backfill`: store without a vector (a text below `MIN_EMBED_CHARS` is keyword-only
  and not queued), fetch, stage, plan, apply, with one or two drains, inside or outside
  the RPC mutex, edits with and without a vector, requeueing and crashes. `NoneLost`,
  `Wired`, `TextsKept`.
* `SemanticIndex`: each action is one hold of the index's write lock; plans are
  made under the read lock and applied later, Turbo copies are built outside any
  lock. A vector is a version number. `Fresh`, `GraphsSound` (together
  `SearchFresh`).
* `Recall`: a query is a plan, the sequence of lock holds of its lanes, and
  sessions interleave at every one of them with each other, with forget, hide, edit,
  drain and moves between realms. A move changes the payload and, under another lock,
  `realm_members`; the time and HDC entries and the realm graphs keep the realm they were
  stored with, which is where those lanes look. Each session remembers what was alive,
  shown, linked and placed in its realm (by payload, member list or index entry, whichever
  its lane reads) at some moment of its call, since that is all an unlocked reader can
  promise. `AnswersAlive`,
  `AnswersInRealm`, `RefreshExclusive` (together `RecallSound`), `Measured`.
* `Startup`: lanes of deferred phases, once-only cells forced by calls, panics and
  failed spawns, the readiness gate, the maintenance thread, `cf_close`.
  `GateHonest`, `CloseAbandons`, `MaintenanceLives` (together `StartupSound`).
* `Abi`: a handler is the record of what it does on a null pointer, on undecodable
  text, on nothing found, on an error and on a short buffer; `Handle` is the one
  course all of them share. The table has the handlers of operations that no other
  module models, every handler with an error that leaves no message, and every handler
  that acts and may then answer -2. `ErrorTold`, `RetrySafe`.

### Organs, Services, Stores and MCField

The parts have no variable in common in the code (each is behind its own lock, and
an operation that touches two is modelled in both), so they share the variables of
`Parts`, and one behaviour is a behaviour of one part, named by `part` and chosen in
`Init`; a product would multiply states and add no order of events that any property
could see. Three modules compose the parts that are proved, each with its constants,
the assumptions on them, a specification and its properties:

* `Organs` (`OrganSpec`): tasks, triggers, constraints, interventions, agents,
  registries, debts. `Fenced`, `DeliveredOnce`, `JudgementsSound`, `RecordsReplayed`.
* `Services` (`ServiceSpec`): startup, backfill, semantic index, recall, C ABI.
  `StartupSound`, `BackfillSound`, `SearchFresh`, `RecallSound`,
  `MeasureMutatesNothing`, `AbiHonest`.
* `Stores` (`StoreSpec`): memories, edges, triplets, code. `MemoriesKept`, `EdgesSound`,
  `TripletsExact` (the three parts of `Triplets`), `CodeKept`.

`MCField` extends all three and gives the constants values. It adds the parts that
are only model-checked (lineages, themes, sessions, tapes: `OrgansKept`, `TapesSound`) and twins, second instances with other bounds where
one instance cannot hold both of two interesting cases (`TwinsSound`). `Chosen` lists
the parts a run explores.

## 3. Runs

| Run | Bounds | Result |
|---|---|---|
| `oplog` | 4 operations, 2 records per segment, 2 faults, 1 unlink, 1 kill, 1 power loss | 95,110 states, all properties and the refinement `ImplementsJournal` hold |
| `oplog_diskfull` | 4 operations, 3 per segment, one double fault, 1 kill, with fairness | `TamperEvident` and `EventuallyDurable` hold |
| `oplog_phantom` | 2 operations, one double fault | `NoPhantom` violated: a refused record is flushed later |
| `checkpoint` | 4 lifetimes, 2 operations, 2 saves per lifetime, 1 record per segment; `Serialized`, no interrupted re-save | 831,214 states, all properties hold |
| `checkpoint_resave` | 3 lifetimes, 3 operations, 2 saves, interrupted re-save | `RecoversPrefix` violated |
| `checkpoint_background` | 2 lifetimes, 2 operations, 1 save, background saver | `RecoversPrefix` violated |
| `instance_lock` | 4 openers in 3 processes on 2 hosts, 1 poll, 1 orphaned lock, with fairness | 67,961 states, all properties hold |
| `instance_lock_race` | the same, `Interleaved` | `Exclusive` violated |
| `shared` | 3 lifetimes, 2 operations, together with saves at most 4; any timing | 1,014,763 states, all properties hold |
| `shared_gap` | 2 lifetimes, 2 operations, 1 save | `CoverageExact` violated |
| `field` | see below, with fairness | 704,971 states, all properties hold |
| `field_covered` | one task, three calls | `SnapshotCovers` violated |

Why the bounds suffice: two records per segment and four operations give a
sealed segment of the same writer, a sealed one of a dead writer and an active
one at once, with faults before, at and after a rotation. In `checkpoint`, four
lifetimes are what it takes to have three bodies on disk, one of them dropped by
the keep-two rule, and still one open afterwards; one record per segment makes
every operation prunable on its own; two operations are enough for a put that is
covered and one that is not, a put and an outcome, or a put and a touch. With
3 lifetimes and 3 operations the same properties hold as well (981,125 states).
`MaxSaves = 2` makes the `.pld` skip and the overwritten family possible.

In `instance_lock`, two openers share a process (the self-deadlock the code
tests for), two processes share a host, and one is elsewhere; an opener replaces
at most one file, so one inode per opener and one more suffice, and one poll
already separates "retries" from "gives up". In `shared`, two processes overlap
while a third opens what they left; two operations are one per writer, or two of
one writer with a gap in between; operations and saves share the bound `MaxWork`, so
that two operations go with two saves, which allows a prune before a peer has read and a
family that passes a claim on, and one operation with three, which allows two families to
be kept and one to be dropped.

In `field` the bounds are in `MCField.cfg`, those of the twins and of the parts that
are only model-checked in the INSTANCEs of `MCField.tla`. An organ
needs an entry, a rival or duplicate of it, an operation on both and a restart at
any point, which two or three keys and three to five calls give; thresholds
(`Tier2`, `MinSupport`, `Budget`, `K`) are set so low that both sides of each are
reached. Memory is checked with two memories and one call (duplicates, shared
keys) and with one memory and two calls (two deltas in one millisecond, edit then
forget, forget then edit); edges with profiles that an edit, a change of kind, a move or a
witness regrades; triplets with a confirmation and, in a twin, with a fact of
provenance; the tape with four events, one more than the shortest tape that is
compressed, so that one can arrive between mask and removal, with two triggers of the
pass, and with a restart; the backfill with two drains over a crash, with
two drains and edits, and with one drain, with short and long texts; the index with two
memories and two plans in flight, and with a vector that changes over a restart; recall
with one session that may ask anything, with two that ask for the same, and with one
during whose call two memories are moved between realms, edited or forgotten.

Deadlock checking is off in all runs: the bounds on operations and lifetimes let
every behaviour end.

Fairness (`FairSpec` of OpLog): weak fairness of the steps of a running
`append()`, which is straight-line code; strong fairness of `Sync`, because the
chitta-wal thread calls `sync_if_due` every `next_sync_delay()` and the log's
lock, a fair parking_lot RwLock, is only momentarily taken by appends. Nothing
else is assumed to happen. `FairSpec` of InstanceLock: weak fairness of each
opener's own steps, a loop of non-blocking system calls and timed sleeps;
releases and deaths need not happen. In `field`: weak fairness of a drain's next
step (the daemon's drain threads loop; `Progress` is stated for the part
without edits), of each startup lane (spawned threads run), of the maintenance
thread's polling loop, of the end of `cf_close` (`drop` of joined handles), and of
a handler that was entered (straight-line code); that a caller asks again after -2 is
not assumed, and an answer -2 counts as an answer. `Progress` excuses a start with
a panicked or unspawnable lane, which really does not recover.

### Where code and documentation part

* `oplog_phantom`: when a write and its repair fail together (a full disk fails
  both), `append` returns Err and the record stays in the BufWriter; the next
  flush writes it, with a seqno that the next record uses again. The chain shows
  the break (`TamperEvident`), replay only warns about it.
* `checkpoint_resave`: family files carry the instance id, not a generation. A
  second save of one process renames over the committed files before it writes
  the new manifest. Stopped in between, it leaves a manifest entry that no longer
  matches, and open falls back to an older process's family, although the WAL
  between the two was pruned by the first save. If there is no older family,
  open loads the new body with the old coverage vector and counts outcomes twice
  (`AppliedOnce` fails in the same configuration).
* `checkpoint_background`: the watermark is read before the clone, and a put that
  has appended but not yet inserted is below the first and missing from the
  second. The opposite order of events, an outcome applied after the watermark
  and before the clone, is counted twice after a restart. `touch_drain` closes
  this window for touches only, which run `checkpoint` checks.
* `instance_lock_race`: the stale branch reads the holder from the inode it
  opened and then unlinks the name. If a second opener has replaced the file in
  between, or has locked the old inode and not yet written its pid, the unlink
  removes a lock that is held; nothing checks after a grant that the name still
  leads to the locked inode. Two openers must be inside the loop at once: with
  one at a time `LockExclusive` is proved.
* `shared_gap`: A is up and B has replayed; A appends, B seeds its offsets from the
  file sizes, which now include that record; A appends another one, which B collects and
  applies. B's vector, a maximum per writer, now claims both, and so does the snapshot
  that B commits, although `opening.rs:590` calls it what "the snapshot provably contains".
  A collect that fails half way, and a segment that a peer deletes before it was read,
  lead to the same state. The family with the highest scalar seqno is chosen at the next
  open, although another writer's family may alone hold what that writer pruned; and an
  unlinked active segment that its writer puts back is read from offset 0 by a process
  that already has it, and applied again. `CoverageHonest`, `Recoverable` and
  `AppliedOnce` are stated with exactly these exceptions. With the instance lock in
  place, its default, none of this can happen: one writer at a time is Checkpoint.
* `field_covered`: replay skips every record that the full snapshot covers, for
  every organ, but the snapshot's body has sections for some of them only (memories and
  their indexes, edges, triplets, code, tapes, the ledger). A task that was created before a save is gone after
  the next restart, and so are constraints, triggers, surprises, debts,
  interventions, agent contracts, wisdom candidates and lineages, transcripts,
  other messages, skills, agents, the user model, analytics, themes and symbol
  events. `RecordsReplayed` and `OrgansKept` therefore speak of restarts
  between snapshots.

Smaller differences met while modelling; the properties exclude them by name:

* a task's fence is lowered for everyone by the bypass token 0; a payload
  update or `cf_emit_event("task")` makes log and registry disagree, the task that
  `log_event` files for a refuted rule is in RAM only, and `cf_emit_event("theme")` is in
  the log only;
* a lineage enrolled twice, or a wisdom candidate upserted twice, is reset by
  replay; a rival branch is never logged, so a restart puts the rival beside the
  fact it contradicts, and it may be given a number under which callers have stored facts
  before, which it then holds beside the rival; an agent task updated without a status replays as Active;
* `chunk_hash_idx` is empty after a start from a snapshot, so that an exact
  duplicate is stored again (`store/tests.rs:295` says otherwise of a live store);
  a forgotten memory keeps its hash's slot; the earliest record of a keyed lane
  shadows later ones even when forgotten (`keyed.rs:9`);
* `mark_memory_invalidated` writes the status without the timestamp fence, which
  its replay applies; `cf_set_realm`, `trim_realm_names` and `witness_memory` have no
  record, nor has `remap_realms`, which saves instead and goes on when the save fails;
* `cf_update_memory_content` asks only for a payload: it puts a forgotten memory back
  into the keyword index and, with a vector, into the semantic one;
* an edit, a change of kind or a move changes what kind `MemoryKind::infer` sees, and the
  edges that the gates admitted before stay;
* a `forget` whose `sync` fails has logged the deletion and done nothing else: edges and
  derived facts go at the next restart, or stay where the memory was only their source;
* `invalidate_by_source_file` refreshes no replication count; of a fact stored
  twice the cleanup at load keeps one whichever was superseded;
* two drains share the slot `backfill_plan_stage`: the plan of one is applied with
  the batch of the other and vectors stay outside the graph (`Wired` fails with
  two drains); a drain outside the RPC mutex logs the text of a memory that was
  forgotten or edited meanwhile (`TextsKept` fails); a keyword-only memory that an edit
  makes long is queued only by the next open or requeue;
* the Turbo arm scores a memory without a vector 0.0; `seed_realm_map` and
  `load_realm_hnsw` have no caller;
* the last member of a realm takes the realm with it, and a recall scoped to it
  then answers from all realms; a memory that was moved is still found by the time, HDC
  and realm-graph lanes of the realm it was stored in; some lanes of a scoped recall (bridges, PPR, the
  keyword fallback) are not scoped; a session that runs longer than
  `cw_refresh_interval` releases the reservation of another;
* after a compression the automaton's end positions no longer index the tape, and
  the causal queries show other events;
* a panicked or unspawnable startup lane ends the maintenance thread; a lane that
  owns a clone of the field keeps the instance lock beyond `cf_close`;
* `README.md:175` of the repository, "All functions return `0` on success, negative
  on error. Errors are readable via `cf_last_error`": not after a null pointer in
  the handlers that return a code, nor in the handlers that return a bare -1 or NULL
  for some error (`Mute` of Abi lists 29); `unwrap_or(json_null(..))` evaluates its
  argument on success, too, and leaves a message behind; `cf_get_content`,
  `cf_dedupe_symbols`, `cf_save_spectral_snapshot`, `cf_remap_realms`,
  `cf_theme_maintain` and `cf_theme_assign_orphans` take effect before they answer -2, so
  the repeated call takes effect again.

## 4. Proofs

Each theorem holds for every value of the constants that satisfies the named
assumptions of its component's module and the assumptions the theorem states.
Every inductive invariant below was checked with TLC, on the instance of the
component's run, before it was proved.

| Module | Theorem | States | Assumes |
|---|---|---|---|
| `OpLogProofs` | `TypeCorrect` | `TypeOK` | |
| | `AckedIsSafe`, `LogOpens` | `AckedSafe`, `NeverBricked` | `MaxDoubleFaults = 0` |
| | `FailedStaysFailed` | `NoPhantom` | `MaxDoubleFaults = 0` |
| | `ChainUnbroken` | `OneChain` | `MaxDoubleFaults = 0` |
| | `FailureLeavesGap` | `TamperEvident` | |
| | `LogIsJournal` | `ImplementsJournal` | `MaxDoubleFaults = 0` |
| `CheckpointProofs` | `Typed` | `TypeOK` | |
| | `RestartLosesNothing`, `ReplayedOnce`, `ContentFollows`, `AlwaysOpens`, `NumbersGrow` | `NothingLost`, `AppliedOnce`, `ContentServed`, `NeverRefused`, `SeqnosGrow` | `Serialized`, `~ResaveInterrupt` |
| `SharedStoreProofs` | `Typed` | `TypeOK` | |
| | `VectorsHonest`, `StoreRecoverable`, `ForeignAppliedOnce` | `CoverageHonest`, `Recoverable`, `AppliedOnce` | |
| `InstanceLockProofs` | `LockTypeCorrect` | `TypeOK` | |
| | `LockExclusive` | `Exclusive` | `~Interleaved` |
| `OrganProofs` | `StaleWritersRejected` | `Fenced` | `OrganAssumption` |
| | `ActionsDeliveredOnce` | `DeliveredOnce` | `OrganAssumption` |
| | `JudgementsStaySound` | `JudgementsSound` | `OrganAssumption` |
| | `OrgansReplayed` | `RecordsReplayed` | `OrganAssumption` |
| `ServiceProofs` | `StartupIsSound` | `StartupSound` | `ServiceAssumption` |
| | `BackfillIsSound` | `BackfillSound` | `ServiceAssumption` |
| | `SearchIsFresh` | `SearchFresh` | `ServiceAssumption` |
| | `RecallIsSound` | `RecallSound` | `ServiceAssumption` |
| | `MeasuringIsQuiet` | `MeasureMutatesNothing` | `ServiceAssumption` |
| | `AnswersAreHonest` | `AbiHonest` | `ServiceAssumption` |
| `StoreProofs` | `MemoriesAreKept` | `MemoriesKept` | `StoreAssumption` |
| | `CodeIsKept` | `CodeKept` | `StoreAssumption` |
| | `EdgesAreSound` | `EdgesSound` | `StoreAssumption` |
| | `TripletsAreExact` | `TripletsExact` | `TripletAssumption` |

`OrganAssumption`, `ServiceAssumption` and `StoreAssumption` say what kind of thing the
constants are: fencing tokens are positive numbers (0 is the bypass token, which has an
action of its own), bounds are natural numbers, ids of a drain and of the edge store are finitely many, edges join
stored ids, an item has the fields of an item. `TripletAssumption` says that the facts
callers add have predicates of their own (`replication_session` is the one by which
`record_replication_session` leaves its witnesses, and the model has that as an operation
of its own), and that the empty string, which stands for no session and no source file, is
neither a memory's id nor a file. `BackfillSound` carries its own conditions:
`Wired` is promised for at most one drain and `TextsKept` when every drain takes
the RPC mutex.

Besides such types, no assumption is there for the proof's sake: where one
restricts the behaviours, section 3 has the run (or names the configuration) in which
the property fails without it. `oplog_phantom` is a double fault, `checkpoint_background`
a save outside the RPC lock, `checkpoint_resave` an interrupted re-save,
`instance_lock_race` two openers in the loop; two drains break `Wired`, a drain outside
the mutex `TextsKept`.

### The log

`AckedSafe` alone is not inductive: it speaks of what replay would deliver, while
the steps maintain how file, buffer and accepted prefix relate. `IInv` adds four
parts. `ActiveInv`: in each phase of `append`, the file is the accepted prefix
followed by at most the record being written, no complete record precedes a torn
one, and the buffer holds nothing that was acknowledged. `SealedInv`: in every
sealed segment only the last record may be torn, and nothing within the synced
length is. `DurableInv`: what `sync` covered lies within a synced length.
`AckedInv`: an acknowledged operation is excused, or is in the accepted prefix,
or is whole in a sealed segment. There is one lemma per action under each part.

`NoPhantom` needs the opposite inclusion (`PhantomInv`): sealed segments deliver
only what was acknowledged, or what was in flight when its process died, and the
accepted prefix is acknowledged. `OneChain` needs `ChainInv`, which places the
process's segments one after another on one line of seqnos and links, through
rotation, repair and the segment that is written back after an unlink.
`TamperEvident` is proved with double faults included: `HonestInv` says that every
record on disk or in a buffer links to an acknowledged one, because `chain_head`
moves only with an acknowledgement. So the one promise that survives a double fault
is proved in general, and the one that does not is refuted by a run.

`LogIsJournal` shows Journal's initial states and matches every action of OpLog with
an action of Journal or a stutter. The mapping reads the journal off the disk, so
each step compares what replay would deliver before and after it. On top of `IInv`
and `PhantomInv`, `FreshInv` says that an operation in flight is new, and `PlaceInv`
that no operation is both in a sealed segment and in the accepted prefix, and that
what is excused is gone for good. Journal's fairness is not part of it.

### Snapshots and restart

What a restart loses or counts twice depends on what the files held when a process
died, so `SInv` describes every file at every moment: a body holds everything logged
up to its seqno and its `.pld` the content (`BodyInv`); a manifest entry describes
the files beside it and its vector claims all of the log that its body holds
(`FamilyInv`); every family that `open()` could choose holds what was pruned from
the WAL (`PrunedInv`); the process is ahead of everything on disk (`SeqnoInv`); memory
holds what was logged but for the operation under way (`MemInv`); a `.pld` whose
counter says clean is complete (`PldInv`); and each stage of a save agrees with
memory (`SaveInv`). The hard steps are `OpenStep` (the family chosen by highest
seqno, plus what `covered_by_full` lets through, is exactly what was logged) and,
among the saver's, the commit and the two pruning steps (`KeepNewest`: the keep-two
rule never drops the family that alone holds what was pruned).

`Extrema` has the lemmas on Max and Min of bounded sets of numbers that these
proofs and those of SharedStore share; both operators are a CHOOSE, and that there
is something to choose comes from the well-foundedness of `<`.

### Several writers

A coverage vector is a maximum per writer, so a process that merges one claims every
earlier operation of that writer. `PInv` says where such an operation can be: of each
operation, a running process has applied it, or has it pending, or has still to read
it, or it has slipped past (`Placed`), and of the first three only one unless it was
revived (`PlacedOnce`), which is why nothing is applied twice. What the vectors of
memories and families claim, they hold or have missed (`MemoryHonest`, `FamiliesHonest`);
what was deleted, every family and every live process has or has missed
(`DeletedNoted`); vectors never reach beyond a live writer's next seqno
(`VectorsBehind`); and an open that has replayed and not seeded its offsets has read and
collected nothing (`ReplayedIdle`). Nothing is assumed about timing, failures or pruning.

### Instance lock

`Exclusive` speaks of openers that hold the store; what makes it inductive is how
locks, names and records relate. A holder owns the flock of the inode the name
leads to, and a flock that is not orphaned belongs to such a holder
(`HoldersOwn`, `OwnersHold`); at most one opener is inside the loop body, and the
inode it has open is the one the name leads to (`OneInside`, `InsideOnPath`);
once a holder has truncated the file, its text names that holder's process or
nobody (`Recorded`), which runs as long as its opener has not gone (`Running`);
so an inode judged stale is nobody's lock when it is unlinked (`StaleIsFree`).

### Organs, services and stores

Each of the three proof modules has one invariant per part, and a last section in
which `OrganInv`, `ServiceInv` and `StoreInv` say that the invariant of the chosen part
holds; every step is a step of that part.

* Tasks (`TaskInv`): the history that `Fenced` speaks of is the token of the record
  as long as nobody used the bypass token (`FenceInv`), and a replay never goes back
  behind it, because a record that only the log has can only raise the token; a task that
  `log_event` filed has no record, and a restart forgets its fence.
  `ReplayInv` is the agreement of registry and log outside the tasks that drifted.
* Triggers (`TriggerInv`): a trigger that the log still has as armed was not
  delivered, and is in the batch being returned only while the record that it fired
  is the next to be appended (`DeliveryInv`; a serial names one trigger, also in the
  log, `SerialInv`; and what `todo` can hold, `TodoInv`).
* Constraints (`ConstraintInv`): the store that `open()` rebuilds, with the record
  about to be appended, is the live one but for branches that a conflict created and
  never logged and the facts on them (`MirrorInv`); a branch that a conflict creates holds
  the rival alone unless callers had used its number before (`BranchInv`).
* Interventions (`LedgerInv`): a call appends up to five records of which only the
  first is about the ledger (`Records`), so that the book can be compared after one
  replayed record (`BookInv`); a lowering needs evidence that follows earlier
  evidence, and what a replay finds of credit and lowerings is never more than
  RAM had (`EvidenceInv`).
* Agent protocol (`AgentInv`): the log, with the record about to be appended, has the
  contracts of RAM but for the statuses and the evidence that the two lossy records
  change (`HoldsInv`): an update without a status is logged as Active, and replay does
  not look for duplicate evidence.
* Registries (`RegistryInv`): what the log has of a registry is `Registered` in it, with
  the counters of an agent at most those of RAM, because the calls that only count are
  not logged; positions in the log (`seen`) never exceed the number of calls.
* Debts (`DebtInv`): with the one record about to be appended the log's ledgers are
  alike (`LedgersAlike`) up to the evidence that a second promotion resets.
* Startup (`StartupInv`): what each phase of the maintenance thread knows about the
  lanes (`MaintInv`), and that only a stale start is without its counts.
* Backfill (`BackfillInv`): no drain owns the one slot, so the invariant speaks of the
  ids in it, whoever put them there (`SlotInv`); `embed_pending` is compared with the
  ids that are queued or held by a drain. `WiredInv` and `TextInv` add what the
  conditional parts of `BackfillSound` need.
* Semantic index (`IndexInv`): the vectors, tombstones, codes and realm counters of RAM
  agree with what is stored (`Current`), and so do those of the index that a restart
  would load (`BackInv` on `env.back`, the saved index with the changes since): a copy
  built outside the lock is published only if its epoch is still the current one
  (`TurboInv`).
* Recall (`RecallInv`): a session's plan is what is left of one of the fifteen entry
  points' sequences of lock holds. `PlanFor` says which holds a query can still have,
  `Chained` that a reservation is followed by its probe and its release; both are
  established once for every entry point and kept by taking the tail. On top of it,
  what a session has found is alive (`AnswerInv`) and, for a scoped query, was in its
  realm at some moment of the call (`CallInv`, `RealmInv`, by the hold that comes next
  `HeadInv`); who holds a reservation will
  release it (`HeldInv`, `RefreshInv`). The attempt to prove `AnswersInRealm` for the
  edges stored *now* failed for a good reason: an edge that the PPR lane walked may be
  gone when the answer is given. The property speaks of the edges there were during the
  call (`walked`). That `recall_field`'s hops, a recursive function, only add holds of one
  kind is shown with a least counterexample (`MinOf` of Extrema), in place of an induction.
* C ABI (`AbiInv`): each of the handlers is `Regular` (shown handler by handler), and what
  a call has written, told and done so far decides which answers it can still give
  (`CallOK`); a call takes effect at most once unless its handler is one of the named six
  that act before they measure the buffer (`OnceInv`).
* Memory (`MemInv`): of each row the log's image agrees with RAM in identity, fence and
  text as far as the row was not moved or promoted around the fence (`RowAlike`,
  `FenceAlike`, `TextAlike`). `Sound` relates each index to the rows (but for those an edit
  has raised), `RealmOK` the realm
  members, `CopyOK` the hash slots to the live
  chunks; `LanesOK` says that a keyed lane's entry is not later (done) or not earlier (task)
  than any live row with its key, though it may be a forgotten one itself. So where the lane
  answers at all, it answers with the row that a restart picks from the live ones.
* Code (`CodeInv`): the two directions of every derived map (`Exact`, `Mirror`), numbers
  below the next one (`Below`), and `Means`: a call edge names the functions it was
  recorded for, although removal burns ids and upsert reuses them. The log's graph is the
  same (`SameGraph`, `FilesAlike`); events are alike but for the one pending (`PendingInv`).
* Edges (`EdgeInv`): live code merges an edge into its equal and replay pushes another
  one, so the two sets differ. They cover each other (`Covers`: for every edge there is
  one with the same ends and type that is at least as heavy), which merging and pushing
  the same edge both preserve (`CoversAdds`), and neither has an edge of a dead memory but
  a CoRetrieved one or one of a memory whose forget failed at its sync, nor one across an
  epistemic gate but those whose ends were regraded since (`Clean`).
* Triplets (`TripletInv`): a fact that was never stored twice is held by the same valid
  entry in RAM and in the log, but for a file's facts that RAM has ended and the log has yet
  to (`PairOK`, `AheadOf`); every entry that the cleanup could drop belongs to a subject that
  is marked, in both; where the session of a memory differs between the two, both sessions have
  their witness (`TagsOK`); and the steps left of a running call keep what the next of them
  needs (`TodoOK`). That the incremental counts are exact is a fact about graphs: a memory
  outside the affected set depends on none inside it, so its ancestry and the sessions that
  vouch for it are unchanged (`Touches`, `RefreshOK`). Ancestry is stated as the least closed
  set, which needs no recursion and no induction to reason about.

### Only model-checked

* `OrgansKept`: sessions are rebuilt by sorting and folding messages, lineages re-derive
  a verdict by folding outcomes in date order, a theme pass folds over a set of sets; what
  a fold computes for every input needs induction over data, which is out of the prover's
  reach.
* `TapesSound`: the suffix automaton of the event tape, a recursion over the tape.
* `TwinsSound`: further instances of parts whose properties are proved for every instance.
* `EventuallyDurable`, `StaleReplaced`, `OpenEnds`, `Progress`: liveness under fairness.

The properties of violation runs do not hold.

## 5. Not modelled

Byte formats, CRC and SHA-256 (a record is whole or torn, a hash is the identity
of what it covers); older snapshot bodies and their decoding; the vector-space
lineage fences and embedding migration. Scores, distances, graph quality, learners
and all other floating-point code: TLC has no reals, and the order of hits is a
nondeterministic choice instead. The text heuristics of `contradiction.rs`, the
span index and the query parsers: string processing. The cortical index, HDC
vectors, the decision tape and the interaction ledger: numeric codes and
append-only lists that no modelled operation reads. The C ABI's marshalling and
string ownership. Offline binaries, benches and migration scripts.

The manifest's two slots are one map: when commits do not overlap each one starts
from the join of both. The partition of the id space among instances and the
legacy supersession sidecar are left out.

## 6. Plan

1. `Manifest`: the two slots with overlapping commits, families of foreign
   lineage, `keep_stems` against the delete loop, the janitor's age gate.
2. The merge of several writers' logs by (timestamp, instance, seqno) over the
   replay arms of `Memory` and `Edges` (THEORY.md sections 2, 3); SharedStore has
   it for one kind of operation only.
3. Theorems: `VerdictsKept` of WisdomLineage and `MembersKept` of Themes, with the fold
   replaced by a choice among orders; `SessionsKept`.
