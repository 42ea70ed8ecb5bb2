------------------------------ MODULE MCField -------------------------------
(***************************************************************************)
(* The organs, indexes and services of a field, each at a small instance:  *)
(* the parts of Organs, Services and Stores, whose constants the           *)
(* configuration gives, the parts that are only model-checked, and second  *)
(* instances of some parts, with other bounds.                             *)
(***************************************************************************)
EXTENDS Organs, Services, Stores

CONSTANTS Chosen   \* the parts to check
-----------------------------------------------------------------------------
(* Organs. *)
Lineage == INSTANCE WisdomLineage WITH
  Candidates <- {"c"}, Contexts <- {<<"d", "a">>}, MaxOutcomes <- 2, MaxDay <- 4
Session == INSTANCE Sessions WITH
  SessionIds <- {"s"}, TranscriptIds <- {"t", "u"}, Unescaped <- {"u"},
  MaxTs <- 2, MaxCalls <- 3
Theme == INSTANCE Themes WITH
  Memories <- {"m", "n", "o"}, Embedded <- {"m", "n"}, MaxSize <- 1,
  MaxThemes <- 3, MaxCalls <- 4

(* Memories and what is derived from them. *)
Item(k, r, v, t, y, x) ==
  [kind |-> k, realm |-> r, vec |-> v, tag |-> t, key |-> y, text |-> x]
StoredItems == {Item("signal", "r1", "none", "done", "k", "a"),
                Item("note", "r1", "v1", "task", "t", "b"),
                Item("note", "r2", "v2", "correction", "c", "d"),
                Item("process", "r1", "v2", "task", "t", "e")}
NearPairs == {<<"v1", "v2">>, <<"v2", "v1">>}
(* Two memories and a call, where Mem has one memory and two calls. *)
Couple == INSTANCE Memory WITH MaxMemories <- 2, MaxCalls <- 1, MaxNow <- 2

Profile(k, m, l, c, r) ==
  [kind |-> k, mark |-> m, long |-> l, cand |-> c, realm |-> r]
StoredProfiles == {Profile("fact", "none", TRUE, FALSE, "r"),
                   Profile("fact", "thought", TRUE, FALSE, "r"),
                   Profile("decision", "thought", FALSE, TRUE, "code")}
OneNeighbour == {<<1, 2>>}

(* A confirmation, and a fact of provenance. *)
OneConfirmation == {<<"2", "confirms", "1">>}
Derived == INSTANCE Triplets WITH
  Ids <- {"1", "2"}, Sessions <- {"s", "u"}, File <- "f", Source <- "2",
  Facts <- {<<"1", "merged_from", "2">>},
  Weights <- {2}, MaxTriplets <- 1, MaxCalls <- 1

CodePairs == {<<"n", "f">>, <<"n", "g">>, <<"m", "f">>}
OwnProject(f) == f

(* The tape with two passes, triggered at any time, and over a restart. *)
Tape == INSTANCE Tapes WITH
  Acts <- {"x"}, EventSessions <- {1}, Passes <- {"p", "q"}, MinSupport <- 2,
  MinTape <- 3, MinHypotheses <- 1, Context <- 1, LegacyMemories <- 0,
  MaxEvents <- 4, MaxPasses <- 2, MaxRestarts <- 0
Kept == INSTANCE Tapes WITH
  Acts <- {"x"}, EventSessions <- {1}, Passes <- {"p"}, MinSupport <- 2,
  MinTape <- 3, MinHypotheses <- 1, Context <- 1, LegacyMemories <- 0,
  MaxEvents <- 3, MaxPasses <- 1, MaxRestarts <- 1

(* The constants of Services. *)
NearIds(i, j) == i = 2 /\ j = 1
StartupLanes == {<<"turbo">>, <<"triplets", "replication">>, <<"symbols", "spans">>}
Ask(by, r, w, m, f) ==
  [by |-> by, realm |-> r, window |-> w, measure |-> m, rrf |-> f]
OneReader ==
  {Ask(by, "a", FALSE, m, TRUE) : by \in {"semantic", "keyword"}, m \in BOOLEAN}
  \cup {Ask(by, "a", FALSE, FALSE, TRUE) :
          by \in {"ctx", "time", "hdc", "artifact", "spread", "filtered",
                  "kind", "session", "events", "field"}}
  \cup {Ask("hybrid", r, w, FALSE, f) : r \in {"a", "any"}, w \in BOOLEAN, f \in BOOLEAN}
  \cup {Ask("routed", "any", w, FALSE, FALSE) : w \in BOOLEAN}
OneMenu == {<<OneReader>>}
RealmOfId(i) == IF i \in {2, 3} THEN "b" ELSE "a"
OneEdge == {<<1, 2>>}

(* Two drains, one of them outside the rpc mutex, over a crash and with edits
   meanwhile, where Backfill has one drain inside it. *)
Pair == INSTANCE Backfill WITH
  Ids <- {1, 2}, Near <- NearIds, Drains <- {"d1", "d2"}, Unlocked <- {"d2"},
  Limit <- 2, MaxEdits <- 0, MaxCrashes <- 1
Edited == INSTANCE Backfill WITH
  Ids <- {1}, Near <- NearIds, Drains <- {"d1", "d2"}, Unlocked <- {"d2"},
  Limit <- 1, MaxEdits <- 2, MaxCrashes <- 0
(* Two memories, where Index has one whose vector changes, over a restart. *)
Wide == INSTANCE SemanticIndex WITH
  Ids <- {1, 2}, Realms <- {"r"}, FlatMax <- 1, Tier2 <- 2, RealmMin <- 2,
  MaxVersion <- 1, MaxCalls <- 3, MaxPlans <- 2
(* Two readers ask for the same memories, where Query has one who asks anything. *)
Scoped == {Ask("semantic", "a", FALSE, FALSE, TRUE)}
Queries == INSTANCE Recall WITH
  Ids <- 1..2, RealmOf <- RealmOfId, Targets <- {"a", "b"}, Soul <- {"soul"}, Stored <- {1},
  Linked <- {}, InWindow <- {}, Bridges <- {}, PprLane <- TRUE,
  Sessions <- {1, 2}, Menus <- {<<Scoped, Scoped>>},
  K <- 2, MinStore <- 1, Hops <- 1, Interval <- 1, Budget <- 1, Floor <- 2,
  MaxNow <- 2, MaxEdits <- 1, MaxQueries <- 1
(* One reader, and two changes of the store during the call: moves that overlap,
   a move of what was edited or forgotten. *)
Local == {Ask("semantic", "a", FALSE, TRUE, TRUE), Ask("keyword", "a", FALSE, TRUE, TRUE),
          Ask("time", "a", FALSE, FALSE, TRUE), Ask("hybrid", "a", TRUE, FALSE, TRUE)}
Movers == INSTANCE Recall WITH
  Ids <- 1..2, RealmOf <- RealmOfId, Targets <- {"a", "b"}, Soul <- {"soul"}, Stored <- 1..2,
  Linked <- {}, InWindow <- 1..2, Bridges <- {}, PprLane <- FALSE,
  Sessions <- {1}, Menus <- {<<Local>>},
  K <- 2, MinStore <- 1, Hops <- 1, Interval <- 1, Budget <- 1, Floor <- 2,
  MaxNow <- 1, MaxEdits <- 2, MaxQueries <- 1
-----------------------------------------------------------------------------
Init ==
  /\ part \in Chosen
  /\ \/ OrganInit
     \/ ServiceInit
     \/ StoreInit
     \/ part = "lineage" /\ Lineage!Init
     \/ part = "sessions" /\ Session!Init
     \/ part = "themes" /\ Theme!Init
     \/ part = "couple" /\ Couple!Init
     \/ part = "derived" /\ Derived!Init
     \/ part = "tapes" /\ Tape!Init /\ NoLog
     \/ part = "kept" /\ Kept!Init /\ NoLog
     \/ part = "pair" /\ Pair!Init /\ NoTodo
     \/ part = "edited" /\ Edited!Init /\ NoTodo
     \/ part = "wide" /\ Wide!Init /\ NoLog
     \/ part = "readers" /\ Queries!Init /\ NoLog
     \/ part = "movers" /\ Movers!Init /\ NoLog

Next ==
  \/ OrganNext
  \/ ServiceNext
  \/ StoreNext
  \/ part = "lineage" /\ Lineage!Next /\ Same
  \/ part = "sessions" /\ Session!Next /\ Same
  \/ part = "themes" /\ Theme!Next /\ Same
  \/ part = "couple" /\ Couple!Next /\ Same
  \/ part = "derived" /\ Derived!Next /\ Same
  \/ part = "tapes" /\ Tape!Next /\ SameLog
  \/ part = "kept" /\ Kept!Next /\ SameLog
  \/ part = "pair" /\ Pair!Next /\ SameTodo
  \/ part = "edited" /\ Edited!Next /\ SameTodo
  \/ part = "wide" /\ Wide!Next /\ SameLog
  \/ part = "readers" /\ Queries!Next /\ SameLog
  \/ part = "movers" /\ Movers!Next /\ SameLog

(* Drain threads, startup lanes and the maintenance thread keep running, and a
   handler that was entered runs on. *)
Fairness ==
  /\ \A d \in {"d1", "d2"} : WF_vars(part = "pair" /\ Pair!Step(d) /\ SameTodo)
  /\ WF_vars(part = "startup" /\ (Lane!Poll \/ Lane!Proceed) /\ SameLog)
  /\ WF_vars(part = "startup" /\ Lane!CloseEnds /\ SameLog)
  /\ \A l \in StartupLanes :
       /\ WF_vars(part = "startup" /\ Lane!Spawn(l) /\ SameLog)
       /\ WF_vars(part = "startup" /\ (Lane!LaneBegins(l) \/ Lane!LaneEnds(l)) /\ SameLog)
  /\ WF_vars(part = "abi" /\ Door!Handle /\ SameLog)

Spec == Init /\ [][Next]_vars /\ Fairness
-----------------------------------------------------------------------------
(* A restart between two full snapshots brings each workflow organ back as it
   was; live sessions and the task ledger survive snapshots too.  Splits and
   merges of themes lose no member. *)
OrgansKept ==
  /\ part = "lineage" => Lineage!VerdictsKept
  /\ part = "themes" => Theme!ThemesKept /\ Theme!MembersKept
  /\ part = "sessions" => Session!SessionsKept /\ Session!TranscriptsKept

(* What opening.rs says of the records it skips, "covered by full snapshot": a
   full snapshot stands for every record before it, the tasks' too. *)
SnapshotCovers == (part = "tasks" /\ env.drift = {}) => wal = ram

(* Consolidation removes no failure and no session edge, and the suffix
   automaton, with the queries over it, knows exactly what was logged. *)
TapesSound ==
  /\ part = "tapes" => Tape!SweepKeeps /\ Tape!EndposExact /\ Tape!CausalHonest
  /\ part = "kept" => Kept!SweepKeeps /\ Kept!EndposExact /\ Kept!CausalHonest

(* Two drains, one of them unlocked, drop no memory either; nor does a search
   over two memories, past the flat arm, find an old vector, nor do two readers
   get in each other's way, nor does a move during a call; two memories are kept
   as one is, and what is derived from a memory counts as what confirms it does. *)
TwinsSound ==
  /\ part = "pair" => Pair!NoneLost
  /\ part = "edited" => Edited!NoneLost
  /\ part = "wide" => Wide!SearchFresh
  /\ part = "readers" => Queries!RecallSound
  /\ part = "movers" => Movers!RecallSound
  /\ part = "couple" => /\ Couple!MemoriesKept /\ Couple!StatusKept /\ Couple!LanesAgree
                        /\ Couple!IndexesServe /\ Couple!OneCopy
  /\ part = "derived" => Derived!CleanupExact /\ Derived!CountsExact /\ Derived!BeliefsKept

(* What is waited for, in two lots: that memory 1 gets its vector, that a close
   ends, that a handler answers; that memory 2 does, that startup is over. *)
Waits(n) ==
  \/ part = "pair" /\ n \in Pair!Pending(ram.mem)
  \/ part = "startup" /\ n = 1 /\ ram.handle = "closing"
  \/ part = "startup" /\ n = 2
  \/ part = "abi" /\ n = 1 /\ env.call.phase = "entered"
Served(n) ==
  \/ part = "pair" /\ n \notin Pair!Pending(ram.mem)
  \/ part = "startup" /\ env.faults > 0
  \/ part = "startup" /\ n = 1 /\ ~Lane!LockHeld
  \/ part = "startup" /\ n = 2 /\ (Lane!Ready \/ ram.handle # "open")
  \/ part = "abi" /\ env.call.phase \in {"over", "short"}

(* The embedding queue drains, startup becomes ready or is closed, a close
   releases the instance lock, and a handler that was entered answers. *)
Progress == \A n \in {1, 2} : Waits(n) ~> Served(n)
=============================================================================
