------------------------------- MODULE Recall -------------------------------
(***************************************************************************)
(* Recall.  Sessions run their queries concurrently with each other, with  *)
(* forget and with the maintenance drain; nothing but short lock holds     *)
(* orders them.  A query is a plan, the sequence of the lock holds of the  *)
(* lanes it visits; each Step of a session is one of them.  Scores and     *)
(* ranks are left out: a lane finds a set, and what a cap keeps of a set   *)
(* is any subset of the right size.                                        *)
(***************************************************************************)
EXTENDS Naturals, Sequences, FiniteSets, FiniteSetsExt, Functions

CONSTANTS Ids, RealmOf(_),   \* memories, the realm each is stored with
          Targets, Soul,     \* realms a memory is moved to, the soul:* realms
          Stored, Linked, \* the memories and edges of the initial store
          InWindow,       \* memories whose authored_at_ms a windowed query spans
          Bridges,        \* pairs that share a rare artifact; {} when disabled
          PprLane,        \* CHITTA_PPR_LANE
          Sessions, Menus,    \* mixes of queries: what each session may ask
          K, MinStore,    \* hits asked for; the store size below which no fallback
          Hops,           \* dam_hops of recall_field
          Interval, Budget,   \* cw_refresh_interval_ms, cw_refresh_max_per_query
          Floor,          \* co-retrievals in one drain window that make an edge
          MaxNow, MaxEdits, MaxQueries   \* queries of one session

VARIABLES ram, env

vars == <<ram, env>>

Anywhere == "any"
Over(new, old) == [x \in DOMAIN new \cup DOMAIN old |-> IF x \in DOMAIN new THEN new[x] ELSE old[x]]

(* mem: "live", "hidden" (a status recall suppresses), "dead" (state.deleted),
   "gone" (out of the indexes and the text cleared) or "back" (gone, but an edit
   put it into the semantic and the keyword index again); realm: of the
   payload; members: realm_members; graphed: the realms a memory was indexed
   under, which time_idx, hdc_idx and the per-realm graphs keep; moving: moves
   between the payload and realm_members; fresh: the last competitive-weight
   refresh; inflight: reservations by id; touch, pairs: the pending effects;
   hits, edges: what draining them has made. *)
Start == [mem |-> [i \in Stored |-> "live"], realm |-> [i \in Stored |-> RealmOf(i)],
          members |-> [r \in {RealmOf(i) : i \in Stored} |-> {i \in Stored : RealmOf(i) = r}],
          graphed |-> {<<RealmOf(i), i>> : i \in Stored}, moving |-> {},
          fresh |-> [i \in Ids |-> 0], inflight |-> <<>>,
          touch |-> {}, pairs |-> <<>>, hits |-> [i \in Ids |-> 0], edges |-> Linked]

In(mem, states) == {i \in DOMAIN mem : mem[i] \in states}
Indexed == In(ram.mem, {"live", "hidden", "dead"})
Searchable == In(ram.mem, {"live", "hidden", "dead", "back"})
Alive == In(ram.mem, {"live", "hidden"})
Shown == In(ram.mem, {"live"})          \* status_multiplier is Some

Known(r) == r \in DOMAIN ram.members
Listed(members, r) == IF r \in DOMAIN members THEN members[r] ELSE {}
MembersOf(r) == Searchable \cap Listed(ram.members, r)
Within(ids, r) == IF r = Anywhere THEN ids ELSE {i \in ids : ram.realm[i] = r}
StoredIn(ids, r) == IF r = Anywhere THEN ids ELSE {i \in ids : RealmOf(i) = r}
(* soul:* realms are internal: only a soul query sees them. *)
SoulGate(ids, r) == IF r \in Soul THEN ids ELSE {i \in ids : ram.realm[i] \notin Soul}
-----------------------------------------------------------------------------
(* What each lane's index returns, and what the lane keeps of it under the
   states guard.  Only the semantic lane is unfiltered for an unknown realm; a
   realm with a graph of its own is searched there, without its members. *)
SemanticSearch(r) ==
  {IF Known(r) THEN MembersOf(r) ELSE Searchable}
    \cup (IF r = Anywhere THEN {} ELSE {{i \in Searchable : <<r, i>> \in ram.graphed}})
SemanticFormat(found, r) == SoulGate(found \cap Shown, r)

(* The bridge leg: what shares an artifact with the top hit; no realm filter. *)
BridgeLeg(hits, top, r) ==
  SoulGate({j \in Shown : <<top, j>> \in Bridges}, r) \ hits

(* Mutant: the realm is left to the index. *)
KeywordFormatAnywhere(found, r) == {i \in found \cap Shown : ram.realm[i] \notin Soul}

KeywordFormat(found, r) ==
  {i \in Within(found \cap Shown, r) : ram.realm[i] \notin Soul}

(* time_idx and hdc_idx keep the realm of the put, whatever moved since. *)
TimeSearch(r, windowed) == StoredIn(IF windowed THEN Indexed \cap InWindow ELSE Indexed, r)
TimeFormat(found) == found \cap Alive
HdcSearch(r) == StoredIn(Indexed, r)
HdcFormat(found) == found \cap Alive
ArtifactFormat(found) == found \cap Alive
(* Spreading activation reads payloads only, which outlive their memory. *)
SpreadFormat(found, r) == Within(found \cap DOMAIN ram.mem, r)

(* cf_recall_filtered and cf_recall_by_kind scan under one hold of the maps. *)
Filtered(r) == Within(Alive, r)
ByKind == Alive

(* ppr_lane walks the edges of legal memories, four hops at most. *)
Hop(ids) == ids \cup {e[2] : e \in {d \in ram.edges : d[1] \in ids /\ d[2] \in Shown}}
PprLaneHits(seeds) == Hop(Hop(Hop(Hop(seeds)))) \ seeds
PprInject(hits) ==
  IF PprLane /\ Cardinality(hits) >= 2 THEN hits \cup PprLaneHits(hits) ELSE hits
ExpandAssociations(seeds) == Hop(Hop(seeds)) \ seeds

(* stratify_recall_hits and truncate: some of the hits, all if there is room. *)
Truncated(hits) == {h \in SUBSET hits : Cardinality(h) = Min({K, Cardinality(hits)})}
Stratified(hits) ==
  {h \in SUBSET hits : Cardinality(h) <= K /\ (hits # {} => h # {})}
RrfMerge(semantic, keyword) == semantic \cup keyword
-----------------------------------------------------------------------------
Do(do, lane, realm) == [do |-> do, lane |-> lane, realm |-> realm]

Semantic(r, learn) ==
  IF learn
  THEN <<Do("search", "semantic", r), Do("want", "none", r), Do("reserve", "none", r),
         Do("apply", "none", r), Do("release", "none", r),
         Do("format", "semantic", r), Do("learn", "none", r)>>
  ELSE <<Do("search", "semantic", r), Do("format", "semantic", r)>>
Keyword(r, learn) ==
  IF learn
  THEN <<Do("search", "keyword", r), Do("format", "keyword", r), Do("learn", "none", r)>>
  ELSE <<Do("search", "keyword", r), Do("format", "keyword", r)>>
Lane(lane, r) == <<Do("search", lane, r), Do("format", lane, r)>>
Take == <<Do("take", "none", Anywhere)>>

(* recall_with_fallback_windowed, fused: the semantic lane is asked without
   the realm and its hits are filtered by the realm's members afterwards. *)
Hybrid(q) ==
  <<Do("window", "none", q.realm)>>
    \o (Semantic(Anywhere, TRUE) \o <<Do("members", "none", q.realm)>>)
    \o Keyword(q.realm, TRUE) \o Take
    \o <<Do("fuse", "none", q.realm)>>
(* The same without fusion: keyword and recency are fallbacks. *)
Plain(q) ==
  <<Do("window", "none", q.realm)>> \o Semantic(q.realm, TRUE) \o Take
    \o <<Do("fallback", "keyword", q.realm)>>

(* Mutant: log_to_index is not passed on. *)
CfRecallSemanticLogged(q) == Semantic(q.realm, TRUE) \o Take

CfRecallSemantic(q) == Semantic(q.realm, ~q.measure) \o Take
CfRecallSemanticCtx(q) == Semantic(q.realm, TRUE) \o Take
CfRecallKeyword(q) == Keyword(q.realm, ~q.measure) \o Take
CfRecallTemporal(q) == Lane("time", q.realm) \o Take
CfRecallHdc(q) == Lane("hdc", q.realm) \o Take
CfRecallArtifact(q) == Lane("artifact", Anywhere) \o Take
CfRecallSpreading(q) == Lane("spread", q.realm) \o Take
CfRecallFiltered(q) == <<Do("format", "filtered", q.realm)>> \o Take
CfRecallByKind(q) == <<Do("format", "kind", Anywhere)>> \o Take
CfRecallWithFallback(q) == IF q.rrf THEN Hybrid(q) ELSE Plain(q)
CfRecallField(q) ==
  LET hop[n \in 0..Hops] == IF n = 0 THEN <<>>
                            ELSE hop[n - 1] \o CfRecallWithFallback(q)
  IN hop[Hops]
(* recall_session asks the keyword lane without the realm. *)
CfRecallSession(q) ==
  Semantic(q.realm, TRUE) \o Take \o Keyword(Anywhere, TRUE) \o Take
(* recall_temporal_events adds the window without an entity to the entities'. *)
CfRecallTemporalEvents(q) == Lane("time", q.realm) \o Take \o Lane("time", Anywhere) \o Take

(* routed_recall: keyword or time range, without a realm. *)
RoutedRecall(q) ==
  IF q.window THEN Lane("time", Anywhere) \o Take ELSE Keyword(Anywhere, TRUE) \o Take

(* The entry points; log_to_index is a parameter of two of them, and recall_field
   passes no window on. *)
Asks(q) ==
  /\ q.by \in {"semantic", "ctx", "keyword", "time", "hdc", "artifact", "spread", "filtered",
               "kind", "hybrid", "field", "session", "events", "routed"}
  /\ q.measure => q.by \in {"semantic", "keyword"}
  /\ q.by = "field" => ~q.window

Plan(q) ==
  CASE q.by = "semantic" -> CfRecallSemantic(q)
    [] q.by = "ctx" -> CfRecallSemanticCtx(q)
    [] q.by = "keyword" -> CfRecallKeyword(q)
    [] q.by = "time" -> CfRecallTemporal(q)
    [] q.by = "hdc" -> CfRecallHdc(q)
    [] q.by = "artifact" -> CfRecallArtifact(q)
    [] q.by = "spread" -> CfRecallSpreading(q)
    [] q.by = "filtered" -> CfRecallFiltered(q)
    [] q.by = "kind" -> CfRecallByKind(q)
    [] q.by = "hybrid" -> CfRecallWithFallback(q)
    [] q.by = "field" -> CfRecallField(q)
    [] q.by = "session" -> CfRecallSession(q)
    [] q.by = "events" -> CfRecallTemporalEvents(q)
    [] q.by = "routed" -> RoutedRecall(q)
-----------------------------------------------------------------------------
(* plan: what is left to do; at: recall_now_ms(); found, last, hits: what the
   index returned, what the lane kept, the answer so far; gate: the window's
   members; want: refresh candidates, reserved once held; ok, shown, here,
   blind: the memories that were alive, that were showable, that belonged to
   the realm, and whether the realm was unknown, at some moment of the call;
   walked: the edges the graph lane saw. *)
Resting == [plan |-> <<>>, q |-> <<>>, at |-> 0, found |-> {}, last |-> {}, hits |-> {},
            gate |-> Ids, want |-> {}, held |-> {}, ok |-> {}, shown |-> {}, here |-> {},
            blind |-> FALSE, walked |-> {}]

(* What a query may answer with: the memories whose payload has its realm; for
   the lanes that ask an index, also what the index lists under that realm. *)
Exact(q) == q.by \in {"keyword", "spread", "filtered"}
Belonging(store, q) ==
  {i \in DOMAIN store.mem :
     \/ store.realm[i] = q.realm
     \/ ~Exact(q) /\ (i \in Listed(store.members, q.realm) \/ <<q.realm, i>> \in store.graphed)}

Init == /\ ram = Start
        /\ \E menu \in Menus :
             env = [menu |-> menu, sess |-> [s \in Sessions |-> Resting], now |-> Interval,
                    edits |-> 0, queries |-> [s \in Sessions |-> 0], slow |-> FALSE]

Running(s) == env.sess[s].plan # <<>>
Doing(s, do) == Running(s) /\ Head(env.sess[s].plan).do = do
Now(s) == Head(env.sess[s].plan)

(* The session after one step, with fields changed and the plan popped. *)
Went(s, new) == env' = [env EXCEPT !.sess[s] = [new EXCEPT !.plan = Tail(@)]]
Turn(s, plan, new) == env' = [env EXCEPT !.sess[s] = [new EXCEPT !.plan = plan]]

Ask(s, q) ==
  /\ ~Running(s) /\ env.queries[s] < MaxQueries /\ Asks(q)
  /\ env' = [env EXCEPT !.queries[s] = @ + 1,
       !.sess[s] = [Resting EXCEPT !.plan = Plan(q), !.q = q, !.at = env.now,
                                   !.ok = Alive, !.shown = Shown, !.here = Belonging(ram, q),
                                   !.blind = ~Known(q.realm)]]
  /\ UNCHANGED ram

Search(s) ==
  LET me == env.sess[s]
      r == Now(s).realm
      found == CASE Now(s).lane = "semantic" -> SemanticSearch(r)
                 [] Now(s).lane = "keyword" -> {Searchable}
                 [] Now(s).lane = "time" -> {TimeSearch(r, me.q.window)}
                 [] Now(s).lane = "hdc" -> {HdcSearch(r)}
                 [] OTHER -> {Indexed}
  IN /\ Doing(s, "search")
     /\ \E f \in found : Went(s, [me EXCEPT !.found = f])
     /\ UNCHANGED ram

(* Phase A of the refresh: a pre-filter under read guards. *)
Wanted(s) ==
  LET me == env.sess[s]
      due(t) == me.at >= t + Interval
      stale == {i \in me.found \cap Searchable :
                  /\ due(ram.fresh[i])
                  /\ i \in DOMAIN ram.inflight => due(ram.inflight[i])}
  IN /\ Doing(s, "want")
     /\ \E want \in SUBSET stale :
          /\ Cardinality(want) = Min({Budget, Cardinality(stale)})
          /\ Went(s, [me EXCEPT !.want = want])
     /\ UNCHANGED ram

(* Mutant: what the pre-filter wanted is taken without a second look. *)
ReserveUnchecked(s) ==
  LET me == env.sess[s]
  IN /\ Doing(s, "reserve")
     /\ ram' = [ram EXCEPT !.inflight = Over([i \in me.want |-> me.at], @)]
     /\ Went(s, [me EXCEPT !.held = me.want, !.want = {}])

(* Check and reserve under one write guard, evicting expired reservations. *)
Reserve(s) ==
  LET me == env.sess[s]
      valid == Restrict(ram.inflight, {i \in DOMAIN ram.inflight : me.at < ram.inflight[i] + Interval})
      mine == me.want \ DOMAIN valid
  IN /\ Doing(s, "reserve")
     /\ ram' = IF me.want = {} THEN ram
               ELSE [ram EXCEPT !.inflight = Over([i \in mine |-> me.at], valid)]
     /\ Went(s, [me EXCEPT !.held = mine, !.want = {}])

(* Phase B: every searched candidate is marked refreshed, *)
Apply(s) ==
  /\ Doing(s, "apply")
  /\ ram' = [ram EXCEPT !.fresh = [i \in Ids |-> IF i \in env.sess[s].held
                                                 THEN env.sess[s].at ELSE @[i]]]
  /\ Went(s, env.sess[s])

(* then its reservation is dropped, whoever holds it now. *)
Release(s) ==
  /\ Doing(s, "release")
  /\ ram' = [ram EXCEPT !.inflight = Restrict(@, DOMAIN @ \ env.sess[s].held)]
  /\ Went(s, [env.sess[s] EXCEPT !.held = {}])

Formatted(s) ==
  LET me == env.sess[s]
      r == Now(s).realm
  IN CASE Now(s).lane = "semantic" -> SemanticFormat(me.found, r)
       [] Now(s).lane = "keyword" -> KeywordFormat(me.found, r)
       [] Now(s).lane = "time" -> TimeFormat(me.found)
       [] Now(s).lane = "hdc" -> HdcFormat(me.found)
       [] Now(s).lane = "artifact" -> ArtifactFormat(me.found)
       [] Now(s).lane = "spread" -> SpreadFormat(me.found, r)
       [] Now(s).lane = "filtered" -> Filtered(r)
       [] Now(s).lane = "kind" -> ByKind

Format(s) ==
  LET me == env.sess[s]
      hits == Formatted(s)
      keep(h) == Went(s, [me EXCEPT !.last = h, !.found = {}])
  IN /\ Doing(s, "format")
     /\ \/ Now(s).lane # "semantic" /\ keep(hits)
        \/ Now(s).lane = "semantic" /\ hits = {} /\ keep({})
        \/ /\ Now(s).lane = "semantic"
           /\ \E top \in hits : keep(hits \cup BridgeLeg(hits, top, Now(s).realm))
     /\ UNCHANGED ram

(* enqueue_recall_effects, for the lane's hits whatever a later filter drops. *)
Learn(s) ==
  LET last == env.sess[s].last
      pairs == {p \in last \X last : p[1] < p[2]}
      seen(p) == IF p \in DOMAIN ram.pairs THEN ram.pairs[p] ELSE 0
  IN /\ Doing(s, "learn")
     /\ ram' = [ram EXCEPT !.touch = @ \cup last,
                           !.pairs = Over([p \in pairs |-> Min({Floor, seen(p) + 1})], @)]
     /\ Went(s, env.sess[s])

(* A window's members are read once, before any lane runs. *)
Window(s) ==
  LET me == env.sess[s]
  IN /\ Doing(s, "window")
     /\ Went(s, [me EXCEPT !.gate = IF me.q.window THEN TimeSearch(me.q.realm, TRUE) ELSE Ids])
     /\ UNCHANGED ram

TakeHits(s) ==
  LET me == env.sess[s]
  IN /\ Doing(s, "take")
     /\ Went(s, [me EXCEPT !.hits = RrfMerge(@, me.last \cap me.gate), !.last = {}])
     /\ UNCHANGED ram

(* The post-filter of the unscoped semantic hits; none for an unknown realm. *)
Members(s) ==
  LET me == env.sess[s]
      r == me.q.realm
      kept == IF Known(r) THEN me.last \cap MembersOf(r) ELSE me.last
  IN /\ Doing(s, "members")
     /\ Went(s, [me EXCEPT !.hits = RrfMerge(@, kept \cap me.gate), !.last = {}])
     /\ UNCHANGED ram

Small == Cardinality(Alive) < MinStore

(* window_backfill: a short answer is filled from the window's members. *)
Backfilled(s, me, hits) ==
  IF me.q.window /\ Cardinality(hits) < K
  THEN Turn(s, Lane("time", me.q.realm) \o Take \o Tail(me.plan), [me EXCEPT !.hits = hits])
  ELSE Went(s, [me EXCEPT !.hits = hits])

(* Fused hits get the graph lane's, a cap, and the backfill; without any hit a
   store that is not small answers from the window or by recency. *)
Fuse(s) ==
  LET me == env.sess[s]
      merged == PprInject(me.hits)
      saw == [me EXCEPT !.walked = @ \cup ram.edges]
  IN /\ Doing(s, "fuse")
     /\ \/ /\ me.hits # {}
           /\ \E h \in (IF me.q.realm = Anywhere THEN Stratified(merged) ELSE Truncated(merged)) :
                Backfilled(s, saw, h)
        \/ me.hits = {} /\ Small /\ Went(s, me)
        \/ /\ me.hits = {} /\ ~Small
           /\ Turn(s, Lane("time", me.q.realm) \o Take \o Tail(me.plan), me)
     /\ UNCHANGED ram

(* Without fusion: semantic, else the window, else keyword without the realm,
   else recency. *)
Fallback(s) ==
  LET me == env.sess[s]
      rest == Tail(me.plan)
  IN /\ Doing(s, "fallback")
     /\ \/ me.hits # {} /\ \E h \in Stratified(me.hits) : Backfilled(s, me, h)
        \/ me.hits = {} /\ Small /\ Went(s, me)
        \/ /\ me.hits = {} /\ ~Small
           /\ \/ /\ me.q.window \/ Now(s).lane = "time"
                 /\ Turn(s, Lane("time", me.q.realm) \o Take \o rest, me)
              \/ /\ ~me.q.window /\ Now(s).lane = "keyword"
                 /\ Turn(s, Keyword(Anywhere, TRUE) \o Take
                              \o <<Do("fallback", "time", me.q.realm)>> \o rest, me)
     /\ UNCHANGED ram

(* drain_pending_recall_effects takes everything under the mutex; touching or
   linking a forgotten memory is refused. *)
Drain ==
  LET earned == {p \in DOMAIN ram.pairs : ram.pairs[p] >= Floor /\ {p[1], p[2]} \subseteq Alive}
  IN /\ ram.touch # {} \/ ram.pairs # <<>>
     /\ ram' = [ram EXCEPT !.hits = [i \in Ids |-> IF i \in ram.touch \cap Alive THEN 1 ELSE @[i]],
                           !.edges = @ \cup earned, !.touch = {}, !.pairs = <<>>]
     /\ UNCHANGED env

(* expand_associations has neither a realm nor a window. *)
Associations == [by |-> "assoc", realm |-> Anywhere, window |-> FALSE, measure |-> FALSE, rrf |-> FALSE]

Expand(s) ==
  /\ ~Running(s) /\ env.sess[s].hits # {} /\ env.sess[s].q.by # "assoc"
  /\ env' = [env EXCEPT !.sess[s] = [Resting EXCEPT !.q = Associations,
                                   !.hits = ExpandAssociations(env.sess[s].hits),
                                   !.ok = Alive, !.shown = Shown]]
  /\ UNCHANGED ram
-----------------------------------------------------------------------------
(* A change of the store, and what the running calls have seen of it. *)
Saw(store, me) ==
  IF me.plan = <<>> THEN me
  ELSE [me EXCEPT !.ok = @ \cup In(store.mem, {"live", "hidden"}),
                  !.shown = @ \cup In(store.mem, {"live"}),
                  !.here = @ \cup Belonging(store, me.q),
                  !.blind = @ \/ me.q.realm \notin DOMAIN store.members]
Changed(store, edits) ==
  /\ ram' = store
  /\ env' = [env EXCEPT !.edits = @ + edits,
                         !.sess = [s \in Sessions |-> Saw(store, env.sess[s])]]
Edited(store) == env.edits < MaxEdits /\ Changed(store, 1)

Edit(i, from, to) ==
  /\ i \in In(ram.mem, from)
  /\ Edited([ram EXCEPT !.mem[i] = to])

(* realm_members without i under r; only some callers drop an empty entry. *)
Unlisted(members, i, r, tidy) ==
  IF tidy /\ Listed(members, r) \subseteq {i} THEN Restrict(members, DOMAIN members \ {r})
  ELSE [q \in DOMAIN members |-> IF q = r THEN members[q] \ {i} ELSE members[q]]
Relisted(members, i, r) == Over([q \in {r} |-> Listed(members, r) \cup {i}], members)

PutMemory(i) ==
  /\ i \notin DOMAIN ram.mem
  /\ Edited([ram EXCEPT !.mem = Over([j \in {i} |-> "live"], @),
                        !.realm = Over([j \in {i} |-> RealmOf(i)], @),
                        !.members = Relisted(@, i, RealmOf(i)),
                        !.graphed = @ \cup {<<RealmOf(i), i>>}])

SetMemoryStatus(i) ==
  Edit(i, {"live"}, "hidden") \/ Edit(i, {"hidden"}, "live")
(* forget: deleted first, then out of the indexes, last the text; the edges
   go with it. *)
ForgetMarks(i) == Edit(i, {"live", "hidden"}, "dead")
ForgetSweeps(i) ==
  /\ i \in In(ram.mem, {"dead"})
  /\ Changed([ram EXCEPT !.mem[i] = "gone",
                         !.members = Unlisted(@, i, ram.realm[i], TRUE),
                         !.edges = {e \in @ : i \notin {e[1], e[2]}}], 0)

(* cf_update_memory_content with a vector: whatever has a payload is indexed
   again, its vector under the realm it has now. *)
UpdateContent(i) ==
  /\ i \in DOMAIN ram.mem
  /\ Edited([ram EXCEPT !.mem[i] = IF @ = "gone" THEN "back" ELSE @,
                        !.graphed = @ \cup {<<ram.realm[i], i>>}])

(* A move is two holds: the payload's realm, then realm_members.  cf_set_realm
   takes any payload and leaves an empty entry; remap_realms and
   trim_realm_names move live memories and drop it. *)
Move(i, r, tidy) ==
  /\ i \in DOMAIN ram.mem
  /\ Edited([ram EXCEPT !.realm[i] = r,
                        !.moving = @ \cup {[id |-> i, from |-> ram.realm[i], to |-> r,
                                            tidy |-> tidy]}])
SetRealm(i, r) == Move(i, r, FALSE)
RemapRealm(i, r) == i \in Alive /\ r # ram.realm[i] /\ Move(i, r, TRUE)
MoveMember(m) ==
  Changed([ram EXCEPT !.members = Relisted(Unlisted(@, m.id, m.from, m.tidy), m.id, m.to),
                      !.moving = @ \ {m}], 0)

Outlived(s, t) == Running(s) /\ t >= env.sess[s].at + Interval

Tick ==
  /\ env.now < MaxNow
  /\ env' = [env EXCEPT !.now = @ + 1, !.slow = @ \/ \E s \in Sessions : Outlived(s, env.now + 1)]
  /\ UNCHANGED ram

Advance(s) ==
  \/ Search(s) \/ Wanted(s) \/ Reserve(s) \/ Apply(s) \/ Release(s) \/ Format(s) \/ Learn(s)
  \/ Window(s) \/ Members(s) \/ TakeHits(s) \/ Fuse(s) \/ Fallback(s)

Next ==
  \/ \E s \in Sessions : Advance(s) \/ Expand(s) \/ \E q \in env.menu[s] : Ask(s, q)
  \/ \E i \in Ids : PutMemory(i) \/ SetMemoryStatus(i) \/ ForgetMarks(i) \/ ForgetSweeps(i)
                  \/ UpdateContent(i) \/ \E r \in Targets : SetRealm(i, r) \/ RemapRealm(i, r)
  \/ \E m \in ram.moving : MoveMember(m)
  \/ Drain \/ Tick

Spec == Init /\ [][Next]_vars
-----------------------------------------------------------------------------
Answered(s) == ~Running(s) /\ env.sess[s].hits # {}

(* Every memory of an answer was alive at some moment of the call, and, for the
   lanes that score, not suppressed: whatever was forgotten between the index
   search, the states guard and the fusion of the lanes.  Spreading activation
   alone reads nothing but payloads. *)
AnswersAlive ==
  \A s \in Sessions : Answered(s) =>
    LET me == env.sess[s]
    IN /\ me.q.by # "spread" => me.hits \subseteq me.ok
       /\ me.q.by \in {"semantic", "ctx", "keyword", "session", "assoc"} => me.hits \subseteq me.shown

(* A query with a realm answers from that realm, whatever is moved, stored or
   forgotten while it runs.  What the keyword, spreading and filtered queries
   return had that realm in its payload during the call; the lanes that ask an
   index return what realm_members, or the realm it was indexed under, put
   there, so a memory moved away is still found where it was stored.  Not so
   for a realm without an entry (the filter is then dropped), nor for what a
   shared artifact or the association graph adds; the keyword fallback and the
   session query's keyword lane are not scoped. *)
AnswersInRealm ==
  \A s \in Sessions : Answered(s) =>
    LET me == env.sess[s]
        fused == me.q.by \in {"hybrid", "field"}
        linked == {i \in Ids : \E j \in Ids : \/ <<j, i>> \in Bridges
                                              \/ fused /\ PprLane /\ <<j, i>> \in me.walked}
        scoped == me.q.by \in {"semantic", "ctx", "keyword", "time", "hdc", "spread", "filtered"}
                    \/ (fused /\ me.q.rrf)
    IN (scoped /\ me.q.realm # Anywhere /\ ~me.blind) => me.hits \ linked \subseteq me.here

(* No memory is probed by two sessions at once, and no reservation outlives the
   session that made it, as long as no session outlives the interval. *)
RefreshExclusive ==
  ~env.slow =>
    /\ \A s, t \in Sessions : s # t => env.sess[s].held \cap env.sess[t].held = {}
    /\ DOMAIN ram.inflight = UNION {env.sess[s].held : s \in Sessions}

(* What a measurement's own steps may do: nothing to the store. *)
Measured ==
  \A s \in Sessions :
    (Running(s) /\ env.sess[s].q.measure /\ env'.sess[s].plan # env.sess[s].plan) => ram' = ram

(* What a caller may rely on in every answer, and the refresh in its probes. *)
RecallSound == AnswersAlive /\ AnswersInRealm /\ RefreshExclusive
=============================================================================
