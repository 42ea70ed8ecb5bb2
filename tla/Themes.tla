------------------------------- MODULE Themes -------------------------------
(***************************************************************************)
(* Themes: clusters of memories.  The cf_theme_* calls are logged;         *)
(* assigning orphans and the split/merge maintenance change RAM only, and  *)
(* the generic cf_emit_event changes the log only.                         *)
(* Embeddings are abstracted: a memory has one or not, and which theme is  *)
(* nearest, how k-means divides a theme and which centroids are similar    *)
(* are nondeterministic choices.                                           *)
(***************************************************************************)
EXTENDS Integers, Sequences, FiniteSets, FiniteSetsExt, TLC

CONSTANTS Memories,       \* of the store
          Embedded,       \* the memories that have an embedding
          MaxSize,        \* a theme with more members is split (100)
          MaxThemes, MaxCalls

VARIABLES ram, wal, todo, gap, env

(* themes: members by theme id; placed: the themes with a centroid. *)
Empty == [themes |-> <<>>, placed |-> {}, next |-> 0]

Create(s, i) ==
  [themes |-> (i :> {}) @@ s.themes, placed |-> s.placed \ {i},
   next |-> Max({s.next, i + 1})]

Assign(s, i, m) == IF i \in DOMAIN s.themes THEN [s EXCEPT !.themes[i] = @ \cup {m}] ELSE s
Remove(s, i, m) == IF i \in DOMAIN s.themes THEN [s EXCEPT !.themes[i] = @ \ {m}] ELSE s

(* An empty centroid clears it. *)
Place(s, i, empty) ==
  IF i \notin DOMAIN s.themes THEN s
  ELSE [s EXCEPT !.placed = IF empty THEN @ \ {i} ELSE @ \cup {i}]

Replay(s, op) ==
  CASE op.op = "create" -> Create(s, op.id)
    [] op.op = "assign" -> Assign(s, op.id, op.memory)
    [] op.op = "remove" -> Remove(s, op.id, op.memory)
    [] op.op = "centroid" -> Place(s, op.id, op.empty)

(* The full snapshot's body has no section for themes. *)
Body(s) == Empty

Log == INSTANCE OrganLog

vars == <<ram, wal, todo, gap, env>>

(* themed: embedded memories that were assigned and not removed since;
   emitted: themes with an event that was only logged. *)
Init ==
  /\ Log!LogInit
  /\ env = [calls |-> 0, themed |-> {}, emitted |-> {}, local |-> FALSE]

Members(s) == UNION {s.themes[i] : i \in DOMAIN s.themes}

Call(new, rec) ==
  /\ env.calls < MaxCalls
  /\ ram' = new
  /\ wal' = Replay(wal, rec)
  /\ UNCHANGED <<todo, gap>>

(* cf_theme_create with a caller's id: an existing theme starts over. *)
ThemeCreate(i) ==
  /\ Call(Create(ram, i), [op |-> "create", id |-> i])
  /\ env' = [env EXCEPT !.calls = @ + 1, !.themed = @ \cap Members(ram')]

ThemeAssignMember(i, m) ==
  /\ Call(Assign(ram, i, m), [op |-> "assign", id |-> i, memory |-> m])
  /\ env' = [env EXCEPT !.calls = @ + 1,
                        !.themed = @ \cup (Members(ram') \cap Embedded \cap {m})]

ThemeRemoveMember(i, m) ==
  /\ Call(Remove(ram, i, m), [op |-> "remove", id |-> i, memory |-> m])
  /\ env' = [env EXCEPT !.calls = @ + 1, !.themed = @ \cap Members(ram')]

ThemeUpdateCentroid(i, empty) ==
  /\ Call(Place(ram, i, empty), [op |-> "centroid", id |-> i, empty |-> empty])
  /\ env' = [env EXCEPT !.calls = @ + 1]

(* What cf_emit_event can say of a theme; other kinds replay as nothing. *)
Events(i) ==
  {[op |-> "create", id |-> i]}
    \cup {[op |-> o, id |-> i, memory |-> m] : o \in {"assign", "remove"}, m \in Memories}
    \cup {[op |-> "centroid", id |-> i, empty |-> e] : e \in BOOLEAN}

(* cf_emit_event("theme", ...) applies nothing: the event waits for a replay. *)
EmitThemeEvent(i, rec) ==
  /\ Call(ram, rec)
  /\ env' = [env EXCEPT !.calls = @ + 1, !.emitted = @ \cup {i}]

Local(new) ==
  /\ env.calls < MaxCalls
  /\ ram' = new
  /\ UNCHANGED <<wal, todo, gap>>

(* One orphan of assign_orphans' batch: the nearest placed theme if it is
   near enough, else a theme of its own.  An orphan without an embedding is
   passed over. *)
AssignOrphan(s, m, near) ==
  IF near \in s.placed THEN Assign(s, near, m)
  ELSE LET made == Assign(Create(s, s.next), s.next, m)
       IN  [made EXCEPT !.placed = @ \cup {s.next}]

AssignOrphans ==
  \E m \in Embedded \ Members(ram), near \in ram.placed \cup {ram.next} :
    /\ ram.next < MaxThemes
    /\ Local(AssignOrphan(ram, m, near))
    /\ env' = [env EXCEPT !.calls = @ + 1, !.themed = @ \cup {m}, !.local = TRUE]

(* The split pass: the theme keeps cluster a, a new one gets cluster b, and
   members without an embedding belong to neither. *)
Split(s, i, a) ==
  LET b == (s.themes[i] \cap Embedded) \ a
  IN  [themes |-> (s.next :> b) @@ [s.themes EXCEPT ![i] = a],
       placed |-> s.placed \cup {i, s.next}, next |-> s.next + 1]

(* The merge pass: theme j's members move to i, then j goes. *)
Merge(s, i, j) ==
  LET moved == [s.themes EXCEPT ![i] = @ \cup s.themes[j]]
  IN  [s EXCEPT !.themes = [k \in DOMAIN @ \ {j} |-> moved[k]],
                !.placed = @ \ {j}]

(* k-means may also leave one cluster empty: then the theme stays whole. *)
SplitsOf(s, i) ==
  LET own == s.themes[i] \cap Embedded
  IN  {s} \cup {Split(s, i, a) : a \in SUBSET own \ {{}, own}}

MergesOf(s) ==
  {s} \cup {Merge(s, p[1], p[2]) : p \in {q \in s.placed \X s.placed : q[1] # q[2]}}

(* maintain under the organ's lock: every large theme is split, then placed
   themes are merged until half of the themes are gone; which ones depends on
   the centroids and on the map's order. *)
SplitPass(s) ==
  FoldSet(LAMBDA i, acc : UNION {SplitsOf(t, i) : t \in acc}, {s},
          {i \in DOMAIN s.themes : Cardinality(s.themes[i]) > MaxSize})

MergePass(s) ==
  FoldSet(LAMBDA round, acc : UNION {MergesOf(t) : t \in acc}, {s},
          1..(Cardinality(DOMAIN s.themes) \div 2))

Maintain ==
  \E split \in SplitPass(ram) : \E new \in MergePass(split) :
    /\ split.next <= MaxThemes
    /\ new # ram
    /\ Local(new)
    /\ env' = [env EXCEPT !.calls = @ + 1, !.local = TRUE]

Reopen ==
  /\ Log!Restart
  /\ env' = [env EXCEPT !.themed = @ \cap Members(wal), !.emitted = {},
                        !.local = FALSE]

Next ==
  \/ \E i \in 0..(MaxThemes - 1) :
       \/ ThemeCreate(i)
       \/ \E m \in Memories : ThemeAssignMember(i, m) \/ ThemeRemoveMember(i, m)
       \/ \E empty \in BOOLEAN : ThemeUpdateCentroid(i, empty)
       \/ \E rec \in Events(i) : EmitThemeEvent(i, rec)
  \/ AssignOrphans
  \/ Maintain
  \/ Reopen
  \/ Log!Checkpoint /\ UNCHANGED env

Spec == Init /\ [][Next]_vars
-----------------------------------------------------------------------------
(* Splits and merges, in whatever order the hash map yields the themes, keep
   every embedded member in some theme, and a new theme never takes the id
   of a live one. *)
MembersKept == env.themed \subseteq Members(ram)

(* Until maintenance or orphan assignment has run, a restart rebuilds the
   same themes, and hands out no id that was taken, except the themes about
   which cf_emit_event logged something that it did not apply. *)
ThemesKept ==
  Log!Settled /\ ~env.local =>
    /\ \A i \in (DOMAIN ram.themes \cup DOMAIN wal.themes) \ env.emitted :
         /\ i \in DOMAIN ram.themes \cap DOMAIN wal.themes
         /\ wal.themes[i] = ram.themes[i]
         /\ i \in wal.placed <=> i \in ram.placed
    /\ wal.next >= ram.next
=============================================================================
