-------------------------------- MODULE Edges --------------------------------
(***************************************************************************)
(* The association graph: explicit edges behind the kind lattice, the      *)
(* write-time SameSession chain, the two retroactive backfills, the        *)
(* CoRetrieved edges and co-activation counts that a recorded recall       *)
(* leaves, the decay and rollback passes, forgetting, and the calls that   *)
(* change what the lattice looks at, after which an edge stays as it is.   *)
(*                                                                         *)
(* Every record is appended before the graph changes, so an append that    *)
(* fails leaves both as they were.  An operation that adds several edges   *)
(* ignores the result of each; `todo' holds the calls it has still to make.*)
(***************************************************************************)
EXTENDS Integers, Sequences, FiniteSets, FiniteSetsExt, Functions

CONSTANTS Ids,            \* memory ids, in the order of their creation
          Profiles,       \* records [kind, mark, long, cand, realm]
          Sessions,
          Neighbours,     \* <<i, j>>: the realm-scoped search finds j close to i
          K,              \* DENSIFY_K
          MaxPairs,       \* cap of prune_coactivation_stats
          MaxCalls        \* bound on calls other than puts

VARIABLES ram, wal, todo, gap, env

vars == <<ram, wal, todo, gap, env>>

(* MemoryKind::infer: the names of kind and realm, and the marker in the body, of
   which it sees the first 200 bytes, or nothing when the body is shorter. *)
Marked(p, name) == p.kind = name \/ (p.mark = name /\ p.long)
Infer(p) == IF p.kind = "code" \/ p.realm = "code" THEN "code_fact"
            ELSE IF Marked(p, "decision") THEN "decision"
            ELSE IF Marked(p, "thought") THEN "thought" ELSE "observation"

EdgeLegal(from, to) == ~(from \in {"observation", "decision"} /\ to = "thought")

(* mem: profile, session and deleted flag; edges: a memory's list of edges, as
   records with their place `at' in the list; coact: pair -> count; blocked: the
   triplets that record a refused edge; ring: session_recent, in RAM only. *)
Empty == [mem |-> <<>>, edges |-> {}, coact |-> <<>>, blocked |-> {}, ring |-> <<>>]

Live(s) == {i \in DOMAIN s.mem : ~s.mem[i].dead}
Insert(f, k, v) == [j \in DOMAIN f \cup {k} |-> IF j = k THEN v ELSE f[j]]

(* The place after the last one of a list. *)
NextPlace(s, i) == 1 + Max({0} \cup {e.at : e \in {e \in s.edges : e.src = i}})
NewEdge(s, src, dst, type, weight) ==
  [src |-> src, dst |-> dst, type |-> type, weight |-> weight, at |-> NextPlace(s, src)]

Between(s, src, dst, type) ==
  {e \in s.edges : e.src = src /\ e.dst = dst /\ e.type = type}
(* The one edge that a scan of the list meets first. *)
First(s, src, dst, type) ==
  {e \in Between(s, src, dst, type) :
     \A d \in Between(s, src, dst, type) : e.at <= d.at}
Reweighed(e, weight) ==
  [src |-> e.src, dst |-> e.dst, type |-> e.type, weight |-> weight, at |-> e.at]

(* The live graph keeps one edge per destination and type, at its largest
   weight; replay pushes every record. *)
Push(s, op) ==
  [s EXCEPT !.edges = @ \cup {NewEdge(s, op.src, op.dst, op.type, op.weight)}]

Merge(s, op) ==
  LET first == First(s, op.src, op.dst, op.type)
  IN  IF Between(s, op.src, op.dst, op.type) = {} THEN Push(s, op)
      ELSE [s EXCEPT !.edges = (@ \ first)
                       \cup {Reweighed(e, Max({e.weight, op.weight})) : e \in first}]

(* strengthen_assoc_edge_map, one direction: the first matching edge. *)
Strengthen(s, i, j, delta) ==
  LET first == First(s, i, j, "CoRetrieved")
  IN  IF Between(s, i, j, "CoRetrieved") = {}
      THEN [s EXCEPT !.edges =
              @ \cup {NewEdge(s, i, j, "CoRetrieved", Min({100, delta}))}]
      ELSE [s EXCEPT !.edges = (@ \ first)
                       \cup {Reweighed(e, Min({100, e.weight + delta})) : e \in first}]

(* RecordRecallBatch, live and replayed, for one pair: no test of deletion. *)
Recalled(s, i, j) ==
  LET seen == 1 + IF {i, j} \in DOMAIN s.coact THEN s.coact[{i, j}] ELSE 0
      delta == 10 * Min({16, seen})
      counted == [s EXCEPT !.coact = Insert(@, {i, j}, seen)]
  IN  Strengthen(Strengthen(counted, i, j, delta), j, i, delta)

Unpaired(coact, i) == Restrict(coact, {p \in DOMAIN coact : i \notin p})

Rowed(mem, i, profile, dead) ==
  Insert(mem, i, [profile |-> profile, session |-> mem[i].session, dead |-> dead])
(* The body of a forgotten memory is cleared. *)
Cleared(p) == [p EXCEPT !.mark = "none", !.long = FALSE]

(* Mutant: only the outgoing edges go. *)
ForgottenOut(s, i) ==
  [s EXCEPT !.mem = Rowed(@, i, Cleared(@[i].profile), TRUE),
            !.edges = {e \in @ : e.src # i},
            !.coact = Unpaired(@, i)]

(* DeleteMemory: the flag, the edges at both ends, the pair counts, the body. *)
Forgotten(s, i) ==
  [s EXCEPT !.mem = Rowed(@, i, Cleared(@[i].profile), TRUE),
            !.edges = {e \in @ : e.src # i /\ e.dst # i},
            !.coact = Unpaired(@, i)]

(* UpdateMemoryKind and UpdateMemoryContent, of a forgotten memory too. *)
Rekinded(s, i, p) ==
  [s EXCEPT !.mem = Rowed(@, i, [@[i].profile EXCEPT !.kind = p.kind], @[i].dead)]
Rewritten(s, i, p) ==
  [s EXCEPT !.mem = Rowed(@, i, [@[i].profile EXCEPT !.mark = p.mark, !.long = p.long],
                          @[i].dead)]

Replay(s, op) ==
  CASE op.op = "put" -> [s EXCEPT !.mem = Insert(@, op.id, op.memory)]
    [] op.op = "edge" -> Push(s, op)
    [] op.op = "blocked" -> [s EXCEPT !.blocked = @ \cup {<<op.src, op.dst>>}]
    [] op.op = "recall" -> Recalled(s, op.src, op.dst)
    [] op.op = "delete" -> Forgotten(s, op.id)
    [] op.op = "kind" -> Rekinded(s, op.id, op.as)
    [] op.op = "content" -> Rewritten(s, op.id, op.as)

Apply(s, op) == IF op.op = "edge" THEN Merge(s, op) ELSE Replay(s, op)

(* prune_coactivation_stats: a pair stays that is among the MaxPairs most
   frequent of both its ends; the sort is unstable, so that ties go either way. *)
Top(coact, i) ==
  LET pairs == {p \in DOMAIN coact : i \in p}
  IN  {best \in SUBSET pairs :
         /\ Cardinality(best) = Min({MaxPairs, Cardinality(pairs)})
         /\ \A p \in best, q \in pairs \ best : coact[p] >= coact[q]}
Prunings(coact) ==
  {Restrict(coact, {p \in DOMAIN coact : \A i \in p : p \in top[i]}) :
     top \in {t \in [UNION DOMAIN coact -> SUBSET DOMAIN coact] :
               \A i \in DOMAIN t : t[i] \in Top(coact, i)}}

Resting == todo = <<>>
(* env: the calls made; the memories whose forget was logged and did not return;
   the edges that one of its ends was regraded under. *)
Init ==
  /\ ram = Empty /\ wal = Empty /\ todo = <<>> /\ gap = FALSE
  /\ env = [calls |-> 0, unsynced |-> {}, outgrown |-> {}]

Count(unsynced, outgrown) ==
  /\ env.calls < MaxCalls
  /\ env' = [calls |-> env.calls + 1, unsynced |-> unsynced, outgrown |-> outgrown]
Called == Count(env.unsynced, env.outgrown)

(* Where there are edges, and where at one of some memories. *)
Keys(s) == {<<e.src, e.dst, e.type>> : e \in s.edges}
At(ids) == {k \in Keys(ram) \cup Keys(wal) : k[1] \in ids \/ k[2] \in ids}

Commit(op) == ram' = Apply(ram, op) /\ wal' = Replay(wal, op)
-----------------------------------------------------------------------------
Link(i, j, type, weight) ==
  [op |-> "edge", src |-> i, dst |-> j, type |-> type, weight |-> weight]
(* The orders in which a loop may go through a set. *)
Orders(S) ==
  {f \in [1..Cardinality(S) -> S] : \A m, n \in DOMAIN f : f[m] = f[n] => m = n}
(* Each call of a list, followed by the one for the opposite direction. *)
Both(links) ==
  [n \in 1..(2 * Len(links)) |->
     LET call == links[(n + 1) \div 2]
     IN  IF n % 2 = 1 THEN call ELSE Link(call.dst, call.src, call.type, call.weight)]

Weight(n) == CASE n = 1 -> 60 [] n = 2 -> 42 [] OTHER -> 29

(* densify_write_edges: the newest K of the ring that live in the realm. *)
RingOf(s) == IF s \in DOMAIN ram.ring THEN ram.ring[s] ELSE <<>>
InRing(i, s) == \E n \in DOMAIN RingOf(s) : RingOf(s)[n] = i
Siblings(i, s, realm) ==
  {j \in Live(ram) : InRing(j, s) /\ j # i /\ ram.mem[j].profile.realm = realm}
Newer(i, j, s) == \E n \in DOMAIN RingOf(s) : \E m \in 1..(n - 1) :
                    RingOf(s)[n] = i /\ RingOf(s)[m] = j
Recent(i, s, realm) ==
  {f \in Orders(Siblings(i, s, realm)) :
     \A m, n \in DOMAIN f : m < n => Newer(f[m], f[n], s)}

(* The calls to make; a memory that is in the ring has been here before. *)
Chain(i, s, realm) ==
  IF InRing(i, s) THEN {<<>>}
  ELSE {Both([b \in 1..Min({K, Len(f)}) |-> Link(i, f[b], "SameSession", Weight(b))]) :
          f \in Recent(i, s, realm)}

Ringed(ring, i, s) ==
  LET q == Append(RingOf(s), i)
  IN  IF InRing(i, s) THEN ring
      ELSE Insert(ring, s, IF Len(q) > K THEN Tail(q) ELSE q)

(* put_memory: without a session, or with one and its chain. *)
Put(i, profile, s) ==
  LET memory == [profile |-> profile, session |-> s, dead |-> FALSE]
      op == [op |-> "put", id |-> i, memory |-> memory]
      chained == s # "none"
  IN  /\ Resting
      /\ i \notin DOMAIN ram.mem /\ \A j \in Ids : j < i => j \in DOMAIN ram.mem
      /\ wal' = Replay(wal, op)
      /\ ram' = [Apply(ram, op) EXCEPT !.ring = IF chained THEN Ringed(@, i, s) ELSE @]
      /\ todo' \in IF chained THEN Chain(i, s, profile.realm) ELSE {<<>>}
      /\ UNCHANGED <<gap, env>>

(* set_source_session: the payload's tag is in RAM and the snapshot only. *)
SetSourceSession(i, s) ==
  /\ Resting /\ Called
  /\ ram' = [ram EXCEPT !.mem = Insert(@, i, [ram.mem[i] EXCEPT !.session = s]),
                        !.ring = Ringed(@, i, s)]
  /\ todo' \in Chain(i, s, ram.mem[i].profile.realm)
  /\ UNCHANGED <<wal, gap>>

(* cf_add_assoc_edge. *)
AddAssocEdge(i, j, type, weight) ==
  /\ Resting /\ Called
  /\ todo' = <<Link(i, j, type, weight)>>
  /\ UNCHANGED <<ram, wal, gap>>

(* add_assoc_edge: both ends must live; a candidate may not cite an established
   memory, nor a fact a thought, and the refusal is recorded as a triplet. *)
Refused(op) ==
  LET src == ram.mem[op.src].profile
      dst == ram.mem[op.dst].profile
  IN  /\ op.type # "SemanticNeighbor"
      /\ (src.cand /\ ~dst.cand) \/ ~EdgeLegal(Infer(src), Infer(dst))

NextEdge ==
  /\ ~Resting
  /\ todo' = Tail(todo)
  /\ LET op == Head(todo)
     IN  \/ {op.src, op.dst} \subseteq Live(ram) /\ ~Refused(op) /\ Commit(op)
         \/ {op.src, op.dst} \subseteq Live(ram) /\ Refused(op) /\ Commit([op EXCEPT !.op = "blocked"])
         \/ ~({op.src, op.dst} \subseteq Live(ram)) /\ UNCHANGED <<ram, wal>>
  /\ UNCHANGED <<gap, env>>

AppendFails == ~Resting /\ todo' = Tail(todo) /\ UNCHANGED <<ram, wal, gap, env>>

(* A loop that goes through one group after the other. *)
Together(f, Key(_)) ==
  \A m, n, o \in DOMAIN f : (m < n /\ n < o /\ Key(f[m]) = Key(f[o])) => Key(f[n]) = Key(f[m])

(* densify_backfill: session by session and realm by realm, each live memory
   with its up to K predecessors, the nearest first. *)
Grouped(i) == <<ram.mem[i].session, ram.mem[i].profile.realm>>
Rows == {f \in Orders({i \in Live(ram) : ram.mem[i].session # "none"}) :
           /\ Together(f, Grouped)
           /\ \A m, n \in DOMAIN f :
                (Grouped(f[m]) = Grouped(f[n]) /\ m < n) => f[m] < f[n]}
Backs(rows) ==
  {p \in (DOMAIN rows) \X (1..K) :
     p[2] < p[1] /\ Grouped(rows[p[1]]) = Grouped(rows[p[1] - p[2]])}
DensifyBackfill ==
  /\ Resting /\ Called
  /\ \E rows \in Rows : \E backs \in Orders(Backs(rows)) :
       /\ \A m, n \in DOMAIN backs : m < n =>
            \/ backs[m][1] < backs[n][1]
            \/ backs[m][1] = backs[n][1] /\ backs[m][2] < backs[n][2]
       /\ backs # <<>>
       /\ todo' = Both([n \in DOMAIN backs |->
                    Link(rows[backs[n][1]], rows[backs[n][1] - backs[n][2]],
                         "SameSession", Weight(backs[n][2]))])
  /\ UNCHANGED <<ram, wal, gap>>

(* semantic_backfill: memory by memory, in the order of a hash map, both
   directions for every neighbour found. *)
Close == {p \in Neighbours : p[1] \in Live(ram) /\ p[2] \in Live(ram)}
SemanticBackfill ==
  /\ Resting /\ Called
  /\ \E pairs \in Orders(Close) :
       /\ Together(pairs, LAMBDA p : p[1])
       /\ pairs # <<>>
       /\ todo' = Both([n \in DOMAIN pairs |->
                    Link(pairs[n][1], pairs[n][2], "SemanticNeighbor", 80)])
  /\ UNCHANGED <<ram, wal, gap>>

(* cf_record_recall_batch: ids of a recall that ran earlier. *)
RecordRecall(i, j) ==
  /\ Resting /\ Called
  /\ Commit([op |-> "recall", src |-> i, dst |-> j])
  /\ UNCHANGED <<todo, gap>>

Forget(i) ==
  /\ Resting /\ Count(env.unsynced \ {i}, env.outgrown)
  /\ Commit([op |-> "delete", id |-> i])
  /\ UNCHANGED <<todo, gap>>

(* The sync after the append fails: the record stays, and nothing else is done. *)
ForgetUnsynced(i) ==
  /\ Resting /\ Count(env.unsynced \cup {i}, env.outgrown)
  /\ wal' = Replay(wal, [op |-> "delete", id |-> i])
  /\ gap' = TRUE
  /\ UNCHANGED <<ram, todo>>

(* cf_update_memory_kind and cf_update_memory_content: the memory's edges stay. *)
Regrade(op, i, p) ==
  /\ Resting /\ Count(env.unsynced, env.outgrown \cup At({i}))
  /\ Commit([op |-> op, id |-> i, as |-> p])
  /\ UNCHANGED <<todo, gap>>

(* cf_set_realm, trim_realm_names, remap_realms and witness_memory: in RAM until
   the next snapshot. *)
Unlogged(i, profile) ==
  /\ Resting /\ Count(env.unsynced, env.outgrown \cup At({i}))
  /\ ram' = [ram EXCEPT !.mem = Rowed(@, i, profile, @[i].dead)]
  /\ UNCHANGED <<wal, todo, gap>>
SetRealm(i, realm) == Unlogged(i, [ram.mem[i].profile EXCEPT !.realm = realm])
WitnessMemory(i) ==
  /\ ram.mem[i].profile.cand
  /\ Unlogged(i, [ram.mem[i].profile EXCEPT !.cand = FALSE])

(* remove_assoc_edges_by_type: in RAM until the next snapshot. *)
RemoveByType(type) ==
  /\ Resting /\ Called
  /\ ram' = [ram EXCEPT !.edges = {e \in @ : e.type # type}]
  /\ gap' = TRUE
  /\ UNCHANGED <<wal, todo>>

(* assoc_decay: a factor and a floor, in RAM until the next snapshot. *)
AssocDecay(type, floor) ==
  LET faded == {e \in ram.edges : e.type = type /\ e.weight \div 2 >= floor}
  IN  /\ Resting /\ Called
      /\ ram' = [ram EXCEPT !.edges = {e \in @ : e.type # type}
                                         \cup {Reweighed(e, e.weight \div 2) : e \in faded}]
      /\ gap' = TRUE
      /\ UNCHANGED <<wal, todo>>

Checkpoint ==
  /\ Resting
  /\ \E coact \in Prunings(ram.coact) :
       wal' = [ram EXCEPT !.ring = <<>>, !.coact = coact]
  /\ gap' = FALSE
  /\ UNCHANGED <<ram, todo, env>>

(* What was not logged is undone, under the edges that are there. *)
Undone == {i \in DOMAIN ram.mem : wal.mem[i].profile # ram.mem[i].profile}
Restart ==
  /\ \E coact \in Prunings(wal.coact) : ram' = [wal EXCEPT !.coact = coact]
  /\ todo' = <<>>
  /\ gap' = FALSE
  /\ env' = [env EXCEPT !.outgrown = @ \cup At(Undone)]
  /\ UNCHANGED wal

Types == {"SameSession", "CoRetrieved"}

Next ==
  \/ \E i \in Ids, p \in Profiles, s \in Sessions \cup {"none"} : Put(i, p, s)
  \/ \E i \in DOMAIN ram.mem, s \in Sessions : SetSourceSession(i, s)
  \/ \E i, j \in DOMAIN ram.mem, w \in {30, 70} : i # j /\ AddAssocEdge(i, j, "Supports", w)
  \/ NextEdge
  \/ AppendFails
  \/ DensifyBackfill
  \/ SemanticBackfill
  \/ \E i, j \in DOMAIN ram.mem : i < j /\ RecordRecall(i, j)
  \/ \E i \in DOMAIN ram.mem :
       \/ Forget(i) \/ ForgetUnsynced(i) \/ WitnessMemory(i)
       \/ \E p \in Profiles :
            Regrade("kind", i, p) \/ Regrade("content", i, p) \/ SetRealm(i, p.realm)
  \/ \E t \in Types : RemoveByType(t) \/ AssocDecay(t, 20)
  \/ Checkpoint
  \/ Restart

Spec == Init /\ [][Next]_vars
-----------------------------------------------------------------------------
(* An edge that touches a forgotten memory, in RAM or in what a replay builds,
   can only be a CoRetrieved one, from a recall that was recorded after the
   memory was forgotten, or one that was made after a forget that failed once it
   was logged; and no chain, backfill or crash in the middle of one lets a fact
   cite a thought or a candidate cite an established memory, unless an end was
   regraded, or fell back to what the log says, under the edge. *)
EdgesSound ==
  \A s \in {ram, wal} : \A e \in s.edges :
    /\ \/ {e.src, e.dst} \subseteq Live(s)
       \/ e.type = "CoRetrieved"
       \/ {e.src, e.dst} \cap env.unsynced # {}
    /\ (/\ e.type \in {"SameSession", "Supports"}
        /\ <<e.src, e.dst, e.type>> \notin env.outgrown) => ~Refused(e)

(* The largest weight of the edges at a place. *)
Strongest(s, k) == Max({e.weight : e \in Between(s, k[1], k[2], k[3])})

(* Live merging and replayed pushing agree: unless a pass that is documented as
   unlogged ran, or a forget failed at its sync, since the last snapshot, a
   restart brings back an edge exactly where one is served now, and its strongest
   copy has the same weight, except where a recall strengthened it. *)
EdgesKept ==
  (Resting /\ ~gap) =>
    /\ Keys(wal) = Keys(ram)
    /\ \A k \in Keys(ram) : k[3] # "CoRetrieved" => Strongest(ram, k) = Strongest(wal, k)
=============================================================================
