------------------------------ MODULE Triplets ------------------------------
(***************************************************************************)
(* The fact graph and the replication counts that memories carry from it.  *)
(* Facts are appended to the log, then added; they end by invalidation     *)
(* (singly, by fact, by source file, or because the memory they came from  *)
(* is forgotten) or by being superseded.  Each change recomputes the       *)
(* counts of the memories whose provenance it touches.  open() replays,    *)
(* cleans the store (purge and deduplicate, over all subjects or only the  *)
(* ones marked dirty) and recounts.                                        *)
(***************************************************************************)
EXTENDS Integers, Sequences, FiniteSets, FiniteSetsExt

CONSTANTS Ids,            \* memory ids, which facts may name
          Sessions,
          Facts,          \* facts that callers add: <<subject, predicate, object>>
          File,           \* the file, or
          Source,         \* the memory, that a fact may be from
          Weights,        \* the weights they give them
          MaxTriplets,    \* bound on added facts
          MaxCalls        \* bound on the other calls

VARIABLES ram, wal, todo, gap, env

vars == <<ram, wal, todo, gap, env>>

(* entries by id, which is the order they were pushed in; over:
   supersession_map's keys; clean, dirty: the cleanup marker and the subjects touched since (all: they
   are not known); mem: the memories; count: replication_count. *)
Empty == [entries |-> <<>>, over |-> {}, clean |-> TRUE, all |-> FALSE, dirty |-> {},
          mem |-> <<>>, count |-> <<>>]

Valid(s) == {k \in DOMAIN s.entries : ~s.entries[k].ended}
Holding(s, fact) == {k \in Valid(s) : s.entries[k].fact = fact}
Active(s) == Valid(s) \ s.over
FactsAt(s, ks) == {s.entries[k].fact : k \in ks}
Beliefs(s) == FactsAt(s, Active(s))

Insert(f, k, v) == [j \in DOMAIN f \cup {k} |-> IF j = k THEN v ELSE f[j]]

(* mark_dirty, for each of the subjects. *)
MarkDirty(s, subjects) ==
  IF subjects = {} THEN s
  ELSE [s EXCEPT !.clean = FALSE,
                 !.dirty = (IF s.clean THEN {} ELSE @) \cup subjects,
                 !.all = ~s.clean /\ @]

(* insert_with_id: live adding and replay are the same push. *)
Added(s, op) ==
  LET entry == [fact |-> op.fact, weight |-> op.weight, from |-> op.from, ended |-> FALSE]
      touched == IF ~s.clean \/ Holding(s, op.fact) # {} THEN {op.fact[1]} ELSE {}
  IN  MarkDirty([s EXCEPT !.entries = Insert(@, op.id, entry)], touched)

(* invalidate and invalidate_by_source_file. *)
Ended(s, hit) ==
  MarkDirty([s EXCEPT !.entries = [k \in DOMAIN @ |->
               IF k \in hit THEN [@[k] EXCEPT !.ended = TRUE] ELSE @[k]]],
            {s.entries[k].fact[1] : k \in hit})

WithId(s, i) == {i} \cap DOMAIN s.entries
From(s, x) == {k \in Valid(s) : s.entries[k].from = x}

Replay(s, op) ==
  CASE op.op = "put" -> [s EXCEPT !.mem = Insert(@, op.id, [session |-> op.session, dead |-> FALSE]),
                                  !.count = Insert(@, op.id, 1)]
    [] op.op = "delete" -> [s EXCEPT !.mem[op.id].dead = TRUE]
    [] op.op = "add" -> Added(s, op)
    [] op.op = "end" -> Ended(s, WithId(s, op.id))
    [] op.op = "endfile" -> Ended(s, From(s, op.file))
    [] op.op = "supersede" -> [s EXCEPT !.over = @ \cup {op.id}]
-----------------------------------------------------------------------------
(* Of the valid entries with the same fact the heaviest stays, and of equally
   heavy ones the first. *)
Survivors(s) ==
  {k \in Valid(s) : \A j \in Holding(s, s.entries[k].fact) \ {k} :
     \/ s.entries[j].weight < s.entries[k].weight
     \/ s.entries[j].weight = s.entries[k].weight /\ k < j}

Keep(s, kept) ==
  [s EXCEPT !.entries = [k \in kept |-> s.entries[k]],
            !.clean = TRUE, !.all = FALSE, !.dirty = {}]

(* clean_for_load: purge_invalidated and dedup_entries, or clean_subjects. *)
CleanForLoad(s) ==
  IF s.clean THEN s
  ELSE IF s.all THEN Keep(s, Survivors(s))
  ELSE Keep(s, {k \in DOMAIN s.entries : s.entries[k].fact[1] \in s.dirty => k \in Survivors(s)})
-----------------------------------------------------------------------------
(* replication.rs: the sessions that vouch for a memory, through the memories
   it was derived from, the deleted ones and their ancestry left out. *)
Provenance == {"source", "derived_from", "merged_from"}

Known(s) == {i \in DOMAIN s.mem : ~s.mem[i].dead}

(* What a walk over edges from some memories to others of a set meets. *)
Reached(all, start, edges) ==
  {a \in all : \A met \in SUBSET all :
     /\ start \subseteq met
     /\ \A x \in met, y \in all : <<x, y>> \in edges => y \in met
     => a \in met}

Parents(s) == {e \in Ids \X Ids : \E p \in Provenance : <<e[1], p, e[2]>> \in Beliefs(s)}
Ancestry(s, i) == Reached(Known(s), {i} \cap Known(s), Parents(s))

Vouching(s, i) ==
  UNION {({s.mem[a].session} \ {""})
         \cup {x \in Sessions : <<a, "replication_session", x>> \in Beliefs(s)
                             \/ <<a, "derived_from", x>> \in Beliefs(s)} : a \in Ancestry(s, i)}

(* Direct confirmations count; their own confirmations do not. *)
Replication(s, i) ==
  Max({1, Cardinality(Vouching(s, i) \cup
            UNION {Vouching(s, w) : w \in {w \in Ids : <<w, "confirms", i>> \in Beliefs(s)}})})

(* Mutant: a confirmation bears on no count. *)
AffectedByDescent(fact) ==
  IF fact[2] \in Provenance \cup {"replication_session"} THEN {fact[1]} \cap Ids ELSE {}

(* affected_edge: the memories whose counts a fact bears on. *)
AffectedEdge(fact) ==
  IF fact[2] \in Provenance \cup {"replication_session"} THEN {fact[1]} \cap Ids
  ELSE IF fact[2] = "confirms" THEN {fact[3]} \cap Ids ELSE {}

(* refresh_replications: the seeds, what was derived from them, what they
   confirm; superseded facts are followed too. *)
Dependents(s) ==
  LET facts == FactsAt(s, Valid(s))
  IN  {e \in Ids \X Ids : \/ \E p \in Provenance : <<e[2], p, e[1]>> \in facts
                          \/ <<e[1], "confirms", e[2]>> \in facts}
Affected(s, seeds) == Reached(Ids, seeds, Dependents(s))

Refresh(s, seeds) ==
  [s EXCEPT !.count = [i \in DOMAIN @ |-> IF i \in Affected(s, seeds) THEN Replication(s, i) ELSE @[i]]]

(* replication::rebuild. *)
Recounted(s) == [s EXCEPT !.count = [i \in DOMAIN s.mem |-> Replication(s, i)]]
-----------------------------------------------------------------------------
(* A store of an older version may hold a fact twice and no marker. *)
Legacy(fact) ==
  [Empty EXCEPT !.entries = [i \in 1..2 |-> [fact |-> fact, weight |-> i, from |-> "", ended |-> FALSE]],
                !.clean = FALSE, !.all = TRUE]

(* next: triplet_id_alloc; twice: the facts that two valid entries held at the
   same time; stale: a file's facts ended, which refreshes no count; unsynced: the
   memories whose forget is in the log only. *)
Fresh(twice) ==
  [next |-> 3, calls |-> 0, twice |-> twice, stale |-> FALSE, unsynced |-> {}]
Init ==
  /\ \/ wal = Empty /\ env = Fresh({})
     \/ \E f \in Facts : wal = Legacy(f) /\ env = Fresh({f})
  /\ ram = Recounted(CleanForLoad(wal))
  /\ todo = <<>> /\ gap = FALSE

Resting == todo = <<>>
Called == env.calls < MaxCalls /\ env' = [env EXCEPT !.calls = @ + 1]

(* The record, the change, and the counts it bears on. *)
Commit(op, seeds) == ram' = Refresh(Replay(ram, op), seeds) /\ wal' = Replay(wal, op)

SeedsOf(i) == UNION {AffectedEdge(f) : f \in FactsAt(ram, WithId(ram, i))}

(* put_memory: a new memory with its session. *)
Put(i, session) ==
  /\ Resting
  /\ i \notin DOMAIN ram.mem
  /\ Commit([op |-> "put", id |-> i, session |-> session], {i})
  /\ UNCHANGED <<todo, gap, env>>

(* record_replication_session and add_triplet as steps of a larger call. *)
Record(i, session) == [op |-> "add", fact |-> <<i, "replication_session", session>>,
                       weight |-> 1, from |-> ""]

(* A duplicate gate of put_memory found the memory. *)
PutAgain(i, session) ==
  /\ Resting /\ Called
  /\ i \in Known(ram)
  /\ todo' = <<Record(i, session)>>
  /\ UNCHANGED <<ram, wal, gap>>

(* set_source_session: both witnesses in the log, then the tag, in RAM. *)
SetSourceSession(i, session) ==
  /\ Resting /\ Called
  /\ LET tag == [op |-> "tag", id |-> i, session |-> session]
         old == ram.mem[i].session
     IN  todo' = IF old = "" THEN <<Record(i, session), tag>>
                 ELSE <<Record(i, old), Record(i, session), tag>>
  /\ UNCHANGED <<ram, wal, gap>>

AddTriplet(fact, weight, from) ==
  /\ Resting
  /\ todo' = <<[op |-> "add", fact |-> fact, weight |-> weight, from |-> from]>>
  /\ UNCHANGED <<ram, wal, gap, env>>

(* Callers end and supersede the facts they added, by id; the witnesses that
   record_replication_session leaves are not theirs. *)
InvalidateTriplet(i) ==
  /\ Resting /\ Called
  /\ Commit([op |-> "end", id |-> i], SeedsOf(i))
  /\ UNCHANGED <<todo, gap>>

(* One record for each entry, in their order. *)
InOrder(ks) == {q \in [1..Cardinality(ks) -> ks] : \A m, n \in DOMAIN q : m < n => q[m] < q[n]}
EndEach(order) == [n \in DOMAIN order |-> [op |-> "end", id |-> order[n]]]
Ends(ks) == {EndEach(order) : order \in InOrder(ks)}

(* forget_triplet: every valid match. *)
ForgetTriplet(fact) ==
  /\ Resting /\ Called
  /\ Holding(ram, fact) # {}
  /\ todo' \in Ends(Holding(ram, fact))
  /\ UNCHANGED <<ram, wal, gap>>

Supersede(i) ==
  /\ Resting /\ Called
  /\ Commit([op |-> "supersede", id |-> i], SeedsOf(i))
  /\ UNCHANGED <<todo, gap>>

(* forget: the memory, its dependents' counts, then the facts it was the
   source of, one record each. *)
Forget(i) ==
  /\ Resting
  /\ env.calls < MaxCalls
  /\ Commit([op |-> "delete", id |-> i], {i})
  /\ todo' \in Ends(From(ram, i))
  /\ env' = [env EXCEPT !.calls = @ + 1, !.unsynced = @ \ {i}]
  /\ UNCHANGED gap

(* The sync after the append fails: the record stays, and nothing else is done. *)
ForgetUnsynced(i) ==
  /\ Resting
  /\ env.calls < MaxCalls
  /\ wal' = Replay(wal, [op |-> "delete", id |-> i])
  /\ env' = [env EXCEPT !.calls = @ + 1, !.unsynced = @ \cup {i}]
  /\ UNCHANGED <<ram, todo, gap>>

(* invalidate_triplets_by_source_file: RAM first, then the record; no count is
   refreshed. *)
InvalidateBySourceFile ==
  /\ Resting
  /\ env.calls < MaxCalls
  /\ From(ram, File) # {}
  /\ ram' = Ended(ram, From(ram, File))
  /\ todo' = <<[op |-> "endfile", file |-> File]>>
  /\ env' = [env EXCEPT !.calls = @ + 1, !.stale = TRUE]
  /\ UNCHANGED <<wal, gap>>

(* The running call's next step. *)
StepAdd ==
  LET op == [op |-> "add", id |-> env.next, fact |-> Head(todo).fact,
             weight |-> Head(todo).weight, from |-> Head(todo).from]
      present == op.fact[2] = "replication_session" /\ op.fact \in Beliefs(ram)
  IN  /\ ~Resting
      /\ Head(todo).op = "add"
      /\ todo' = Tail(todo)
      /\ \/ present /\ UNCHANGED <<ram, wal, env>>
         \/ /\ ~present
            /\ env.next < MaxTriplets + 3
            /\ Commit(op, AffectedEdge(op.fact))
            /\ env' = [env EXCEPT !.next = @ + 1,
                         !.twice = IF Holding(wal, op.fact) = {} THEN @ ELSE @ \cup {op.fact}]
      /\ UNCHANGED gap

StepEnd ==
  /\ ~Resting
  /\ Head(todo).op = "end"
  /\ todo' = Tail(todo)
  /\ Commit(Head(todo), SeedsOf(Head(todo).id))
  /\ UNCHANGED <<gap, env>>

StepLog ==
  /\ ~Resting
  /\ Head(todo).op = "endfile"
  /\ todo' = Tail(todo)
  /\ wal' = Replay(wal, Head(todo))
  /\ UNCHANGED <<ram, gap, env>>

StepTag ==
  /\ ~Resting
  /\ Head(todo).op = "tag"
  /\ todo' = Tail(todo)
  /\ LET op == Head(todo)
     IN  ram' = Refresh([ram EXCEPT !.mem[op.id].session = op.session], {op.id})
  /\ UNCHANGED <<wal, gap, env>>

(* An append fails: `?' leaves the call, and RAM is ahead where it went first;
   forget goes on to its next fact. *)
AppendFails ==
  /\ ~Resting
  /\ Head(todo).op # "tag"
  /\ todo' \in {<<>>} \cup (IF Head(todo).op = "end" THEN {Tail(todo)} ELSE {})
  /\ gap' = (gap \/ Head(todo).op = "endfile")
  /\ UNCHANGED <<ram, wal, env>>

(* save_full_snapshot: a cleaned copy; RAM stays as it is. *)
Save ==
  /\ Resting
  /\ wal' = CleanForLoad(ram)
  /\ gap' = FALSE
  /\ env' = [env EXCEPT !.unsynced = {}]
  /\ UNCHANGED <<ram, todo>>

Reopened == Recounted(CleanForLoad(wal))

Restart ==
  /\ ram' = Reopened
  /\ todo' = <<>>
  /\ gap' = FALSE
  /\ env' = [env EXCEPT !.stale = FALSE, !.unsynced = {}]
  /\ UNCHANGED wal

Next ==
  \/ \E i \in Ids, s \in Sessions \cup {""} : Put(i, s)
  \/ \E i \in DOMAIN ram.mem, s \in Sessions : PutAgain(i, s) \/ SetSourceSession(i, s)
  \/ \E f \in Facts, w \in Weights, x \in {"", File, Source} : AddTriplet(f, w, x)
  \/ \E k \in DOMAIN ram.entries :
       ram.entries[k].fact \in Facts /\ (InvalidateTriplet(k) \/ Supersede(k))
  \/ \E f \in Facts : ForgetTriplet(f)
  \/ \E i \in DOMAIN ram.mem : Forget(i) \/ ForgetUnsynced(i)
  \/ InvalidateBySourceFile
  \/ StepAdd \/ StepEnd \/ StepLog \/ StepTag
  \/ AppendFails
  \/ Save
  \/ Restart

Spec == Init /\ [][Next]_vars
-----------------------------------------------------------------------------
(* The incremental cleanup of the dirty subjects finds what a scan of all
   entries would, after any mix of live changes, saves, replays and crashes:
   no subject with a duplicate or an ended fact is ever left unmarked. *)
CleanupExact ==
  \A s \in {ram, wal} : CleanForLoad(s).entries = Keep(s, Survivors(s)).entries

(* The counts that each change recomputes for its dependents are those that a
   recount of everything gives, along cycles, through confirmations, for facts
   that name a memory before it exists and while a call is half done; only
   ending the facts of a file leaves them behind. *)
CountsExact == env.stale \/ \A i \in DOMAIN ram.mem : ram.count[i] = Replication(ram, i)

(* A restart changes neither what is believed nor a count, except about facts
   that were stored twice: of those the cleanup keeps one, whichever of them
   was superseded, and a later invalidation ends only that one.  It changes counts
   after a forget that was logged and then failed, which it carries out, leaving
   the facts that the memory was the source of. *)
BeliefsKept ==
  (Resting /\ ~gap) =>
    /\ \A f \in Beliefs(ram) \ Beliefs(Reopened) : f \in env.twice
    /\ \A f \in Beliefs(Reopened) \ Beliefs(ram) : f \in env.twice
    /\ env.twice = {} /\ ~env.stale /\ env.unsynced = {} => ram.count = Reopened.count
=============================================================================
