---------------------------- MODULE StoreProofs ----------------------------
(***************************************************************************)
(* Theorems about the memories, the edges between them, the code index and *)
(* the facts, for every value of their bounds.                             *)
(*                                                                         *)
(* MemInv: a memory's row on the log is its row in RAM, up to what the     *)
(* deliberate exceptions (a realm moved without a record, a promotion past *)
(* the fence, a delete whose sync failed) let differ; the indexes of both  *)
(* hold the live rows; and while nothing was edited the keyed lanes of RAM *)
(* are what the live rows say.  CodeInv: the two images have one graph,    *)
(* whose derived maps are exact, so that deriving them again changes       *)
(* nothing; an edge between symbols keeps both ends as long as it exists;  *)
(* and event ids lie below a counter on either side.  EdgeInv: every edge  *)
(* of one image is covered by an edge of the other, with the same ends and *)
(* type and no weaker, which merging and pushing the same edge preserves.  *)
(* TripletSound: a fact that was never stored twice is held by the same    *)
(* entry in RAM and on the log, up to the facts of a file that the log has *)
(* yet to end; every entry that a cleanup would drop is of a marked        *)
(* subject; where the tags of a memory differ, both are witnessed by facts *)
(* of their own; and each step of a running call keeps what the next needs.*)
(***************************************************************************)
EXTENDS Stores, Extrema, FiniteSetTheorems, TLAPS

-----------------------------------------------------------------------------
(* Memories                                                                 *)

ItemShape(x) == x = [kind |-> x.kind, realm |-> x.realm, vec |-> x.vec,
                     tag |-> x.tag, key |-> x.key, text |-> x.text]

MemRow(st) ==
    /\ DOMAIN st = {"item", "chunk", "dead", "conf", "fence", "status", "hits",
                    "staged", "tier", "pos"}
    /\ ItemShape(st.item) /\ st.dead \in BOOLEAN /\ st.fence \in Nat

MemFields == {"mem", "hash", "realm", "kind", "sem", "word", "time", "done",
              "prov", "task", "corr"}
MemShape(s) ==
    /\ DOMAIN s = MemFields
    /\ \A i \in DOMAIN s.mem : MemRow(s.mem[i])

\* The indexes hold the live memories, and a hash is that of its owner;
\* but for those an edit raised: they may be in the text and vector indexes.
SemOK(s, risen) ==
    /\ \A i \in Mem!Live(s) : s.mem[i].item.vec # NoVec => i \in s.sem
    /\ \A i \in s.sem : /\ i \in DOMAIN s.mem
                        /\ i \notin risen => i \in Mem!Live(s) /\ s.mem[i].item.vec # NoVec
Holds(s, risen) ==
    /\ s.time = Mem!Live(s)
    /\ SemOK(s, risen)
    /\ s.word \ risen \subseteq Mem!Live(s)
    /\ {i \in Mem!Live(s) : s.mem[i].chunk.kind # "process"} \subseteq s.word
    /\ \A c \in DOMAIN s.hash : /\ s.hash[c] \in DOMAIN s.mem
                                /\ s.mem[s.hash[c]].chunk = c

Sound(s, risen) == MemShape(s) /\ Holds(s, risen)

\* A changed row, and one whose vector is the old one.
Change(x, st) == MemRow(x) /\ x.dead = st.dead /\ x.chunk = st.chunk
Edit(x, st) == Change(x, st) /\ x.item.vec = st.item.vec

\* Everything but the memories and the text and vector indexes, and what
\* a changed row does to the latter.
Tables(t, s) ==
    /\ DOMAIN t = DOMAIN s
    /\ t.hash = s.hash /\ t.realm = s.realm /\ t.time = s.time
    /\ t.prov = s.prov /\ t.task = s.task /\ t.corr = s.corr
Rest(t, s) == Tables(t, s) /\ t.sem = s.sem
Embeds(t, s, i, x) ==
    \/ t.sem = s.sem /\ x.item.vec = s.mem[i].item.vec
    \/ t.sem = s.sem \cup {i} /\ x.item.vec # NoVec

LEMMA RowIs ==
    ASSUME NEW s, MemShape(s), NEW i \in DOMAIN s.mem, NEW x
    PROVE  LET t == [s EXCEPT !.mem[i] = x] IN
           Rest(t, s) /\ t.word = s.word /\ t.mem = [s.mem EXCEPT ![i] = x]
BY DEF MemShape, MemFields, Rest, Tables

LEMMA EditedIs ==
    ASSUME NEW s, MemShape(s), NEW i \in DOMAIN s.mem, NEW c, NEW vec
    PROVE  LET t == Mem!Edited(s, i, c, vec) IN
           /\ Tables(t, s) /\ t.word = s.word \cup {i}
           /\ t.sem = (IF vec = NoVec THEN s.sem ELSE s.sem \cup {i})
           /\ t.mem = [s.mem EXCEPT ![i] = Mem!WithText(s.mem[i], c, vec)]
<1> HIDE DEF Mem!WithText
<1> QED  BY DEF MemShape, MemFields, Tables, Mem!Edited

\* One changed row, whatever else: a memory that the text or the vector index
\* gains is alive or counts as raised.
LEMMA EditSound ==
    ASSUME NEW s, NEW t, NEW risen, NEW also, Sound(s, risen), NEW i \in DOMAIN s.mem, NEW x,
           Change(x, s.mem[i]), Tables(t, s), Embeds(t, s, i, x),
           t.mem = [s.mem EXCEPT ![i] = x], risen \subseteq also,
           t.word \in {s.word, s.word \cup {i}},
           (t.word = s.word /\ t.sem = s.sem) \/ i \in Mem!Live(s) \/ i \in also
    PROVE  Sound(t, also) /\ Mem!Live(t) = Mem!Live(s)
<1>1. MemShape(t)
  <2> HIDE DEF MemRow
  <2> QED  BY DEF Sound, MemShape, Tables, Change
<1>2. Mem!Live(t) = Mem!Live(s)
  <2> HIDE DEF MemRow
  <2> QED  BY DEF Change, Mem!Live
<1>3. \A j \in DOMAIN s.mem : t.mem[j].chunk = s.mem[j].chunk /\ (j # i => t.mem[j] = s.mem[j])
  <2> HIDE DEF MemRow
  <2> QED  BY DEF Change
<1>4. DOMAIN t.mem = DOMAIN s.mem /\ t.mem[i] = x
  OBVIOUS
<1>5. \A j \in Mem!Live(s) : j \in DOMAIN s.mem
  BY DEF Mem!Live
<1>6. t.time = Mem!Live(t)
  BY <1>2 DEF Sound, Holds, Tables
<1>7. SemOK(t, also)
  <2>1. SemOK(s, risen)
    BY DEF Sound, Holds
  <2>2. CASE t.sem = s.sem /\ x.item.vec = s.mem[i].item.vec
    <3>1. \A j \in DOMAIN s.mem : t.mem[j].item.vec = s.mem[j].item.vec
      BY <1>3, <1>4, <2>2
    <3> QED  BY <1>2, <1>4, <1>5, <2>1, <2>2, <3>1 DEF SemOK
  <2>3. CASE t.sem = s.sem \cup {i} /\ x.item.vec # NoVec
    <3>1. i \in also \/ i \in Mem!Live(s)
      <4>1. CASE t.sem # s.sem
        BY <4>1
      <4>2. CASE t.sem = s.sem
        BY <2>1, <2>3, <4>2 DEF SemOK
      <4> QED  BY <4>1, <4>2
    <3> QED  BY <1>2, <1>3, <1>4, <1>5, <2>1, <2>3, <3>1 DEF SemOK
  <2> QED  BY <2>2, <2>3 DEF Embeds
<1>8. t.word \ also \subseteq Mem!Live(t)
  <2>1. s.word \ risen \subseteq Mem!Live(s)
    BY DEF Sound, Holds
  <2>2. t.word = s.word \/ i \in also \/ i \in Mem!Live(s)
    OBVIOUS
  <2> QED  BY <1>2, <2>1, <2>2
<1>9. {j \in Mem!Live(t) : t.mem[j].chunk.kind # "process"} \subseteq t.word
  BY <1>2, <1>3, <1>5 DEF Sound, Holds
<1>10. \A c \in DOMAIN t.hash : t.hash[c] \in DOMAIN t.mem /\ t.mem[t.hash[c]].chunk = c
  BY <1>3, <1>4 DEF Sound, Holds, Tables
<1> QED  BY <1>1, <1>2, <1>6, <1>7, <1>8, <1>9, <1>10 DEF Sound, Holds

LEMMA ForgottenIs ==
    ASSUME NEW s, MemShape(s), NEW i \in DOMAIN s.mem
    PROVE  LET t == Mem!Forgotten(s, i) IN
           /\ DOMAIN t = DOMAIN s
           /\ t.mem = [s.mem EXCEPT ![i] = Mem!Deleted(s.mem[i])]
           /\ t.realm = s.realm \ {<<s.mem[i].item.realm, i>>}
           /\ t.hash = s.hash /\ t.sem = s.sem \ {i} /\ t.word = s.word \ {i}
           /\ t.time = s.time \ {i}
           /\ t.prov = s.prov /\ t.task = s.task /\ t.corr = s.corr
<1> HIDE DEF Mem!Deleted
<1> QED  BY DEF MemShape, MemFields, Mem!Forgotten

LEMMA DeletedIs ==
    ASSUME NEW st, MemRow(st)
    PROVE  LET x == Mem!Deleted(st) IN
           /\ MemRow(x) /\ x.dead = TRUE /\ x.chunk = st.chunk
           /\ x.item = Mem!WithContent(st.item, Mem!Cleared)
           /\ x.item.vec = st.item.vec /\ x.item.realm = st.item.realm
           /\ x.item.kind = st.item.kind
           /\ x.pos = st.pos /\ x.tier = st.tier /\ x.status = st.status /\ x.fence = st.fence
BY DEF MemRow, ItemShape, Mem!Deleted, Mem!WithContent, Mem!Cleared

LEMMA ForgottenSound ==
    ASSUME NEW s, NEW risen, NEW left, Sound(s, risen), NEW i \in DOMAIN s.mem,
           risen \ {i} \subseteq left
    PROVE  /\ Sound(Mem!Forgotten(s, i), left)
           /\ Mem!Live(Mem!Forgotten(s, i)) = Mem!Live(s) \ {i}
<1> DEFINE t == Mem!Forgotten(s, i)
           x == Mem!Deleted(s.mem[i])
<1>1. /\ DOMAIN t = DOMAIN s /\ t.mem = [s.mem EXCEPT ![i] = x]
      /\ t.hash = s.hash /\ t.sem = s.sem \ {i} /\ t.word = s.word \ {i}
      /\ t.time = s.time \ {i}
  BY ForgottenIs DEF Sound
<1>2. MemRow(x) /\ x.dead = TRUE /\ x.chunk = s.mem[i].chunk
  BY DeletedIs DEF Sound, MemShape
<1> HIDE DEF t, x
<1>3. MemShape(t)
  <2> HIDE DEF MemRow
  <2> QED  BY <1>1, <1>2 DEF Sound, MemShape
<1>4. Mem!Live(t) = Mem!Live(s) \ {i}
  BY <1>1, <1>2 DEF Mem!Live
<1>5. \A j \in DOMAIN s.mem : t.mem[j].chunk = s.mem[j].chunk /\ (j # i => t.mem[j] = s.mem[j])
  BY <1>1, <1>2
<1>6. \A j \in Mem!Live(s) : j \in DOMAIN s.mem
  BY DEF Mem!Live
<1>7. t.time = Mem!Live(t) /\ SemOK(t, left)
  BY <1>1, <1>4, <1>5, <1>6 DEF Sound, Holds, SemOK
<1>8. /\ t.word \ left \subseteq Mem!Live(t)
      /\ {j \in Mem!Live(t) : t.mem[j].chunk.kind # "process"} \subseteq t.word
  BY <1>1, <1>4, <1>5, <1>6 DEF Sound, Holds
<1>9. \A c \in DOMAIN t.hash : t.hash[c] \in DOMAIN t.mem /\ t.mem[t.hash[c]].chunk = c
  BY <1>1, <1>5 DEF Sound, Holds
<1> QED  BY <1>3, <1>4, <1>7, <1>8, <1>9 DEF Sound, Holds, t

\* put_memory and its record: a new row in every index, the hash if it is new.
FreshRow(x, item) == MemRow(x) /\ x.dead = FALSE /\ x.chunk = item /\ x.item = item
Stores(t, s, i, item, x) ==
    /\ DOMAIN t = DOMAIN s
    /\ t.mem = Mem!Insert(s.mem, i, x)
    /\ t.hash = Mem!OrInsert(s.hash, {item}, i)
    /\ t.realm = s.realm \cup {<<item.realm, i>>}
    /\ t.sem = (IF item.vec = NoVec THEN s.sem ELSE s.sem \cup {i})
    /\ t.word \in {s.word, s.word \cup {i}}
    /\ item.kind # "process" => i \in t.word
    /\ t.time = s.time \cup {i}
StoredBy(t, s, i, item, x, words) ==
    t = Mem!Indexed([s EXCEPT !.mem = Mem!Insert(@, i, x)], i, item, words)

LEMMA StoredIs ==
    ASSUME NEW s, MemShape(s), NEW i, NEW item, NEW x, NEW words \in BOOLEAN, NEW t,
           StoredBy(t, s, i, item, x, words), item.kind # "process" => words
    PROVE  /\ Stores(t, s, i, item, x)
           /\ t.done = s.done /\ t.prov = s.prov /\ t.task = s.task /\ t.corr = s.corr
<1> DEFINE u == [s EXCEPT !.mem = Mem!Insert(@, i, x)]
<1> HIDE DEF Mem!Insert, Mem!OrInsert
<1>1. /\ DOMAIN u = MemFields /\ DOMAIN s = MemFields /\ u.mem = Mem!Insert(s.mem, i, x)
      /\ u.hash = s.hash /\ u.realm = s.realm /\ u.sem = s.sem /\ u.word = s.word
      /\ u.time = s.time /\ u.done = s.done /\ u.prov = s.prov /\ u.task = s.task
      /\ u.corr = s.corr
  BY DEF MemShape, MemFields
<1>0. t = Mem!Indexed(u, i, item, words)
  BY Zenon DEF StoredBy
<1> HIDE DEF u
<1>2. /\ DOMAIN t = MemFields
      /\ t.mem = u.mem
      /\ t.hash = Mem!OrInsert(u.hash, {item}, i)
      /\ t.realm = u.realm \cup {<<item.realm, i>>}
      /\ t.sem = (IF item.vec = NoVec THEN u.sem ELSE u.sem \cup {i})
      /\ t.word = (IF words THEN u.word \cup {i} ELSE u.word)
      /\ t.time = u.time \cup {i}
      /\ t.done = u.done /\ t.prov = u.prov /\ t.task = u.task /\ t.corr = u.corr
  BY <1>0, <1>1 DEF MemFields, Mem!Indexed
<1>3. /\ t.word \in {s.word, s.word \cup {i}}
      /\ item.kind # "process" => i \in t.word
  BY <1>1, <1>2
<1> QED  BY <1>1, <1>2, <1>3 DEF Stores

LEMMA StoredSound ==
    ASSUME NEW s, NEW risen, Sound(s, risen), NEW t, NEW i, i \notin DOMAIN s.mem,
           NEW item, NEW x, FreshRow(x, item), Stores(t, s, i, item, x)
    PROVE  /\ Sound(t, risen) /\ Mem!Live(t) = Mem!Live(s) \cup {i}
           /\ DOMAIN t.mem = DOMAIN s.mem \cup {i} /\ t.mem[i] = x
           /\ \A j \in DOMAIN s.mem : t.mem[j] = s.mem[j]
<1>1. /\ DOMAIN t.mem = DOMAIN s.mem \cup {i} /\ t.mem[i] = x
      /\ \A j \in DOMAIN s.mem : t.mem[j] = s.mem[j]
  BY DEF Stores, Mem!Insert
<1>2. /\ DOMAIN t.hash = DOMAIN s.hash \cup {item}
      /\ \A c \in DOMAIN s.hash : t.hash[c] = s.hash[c]
      /\ item \notin DOMAIN s.hash => t.hash[item] = i
  BY DEF Stores, Mem!OrInsert
<1>3. MemShape(t)
  <2> HIDE DEF MemRow
  <2> QED  BY <1>1 DEF Sound, MemShape, FreshRow, Stores
<1>4. Mem!Live(t) = Mem!Live(s) \cup {i}
  BY <1>1 DEF Mem!Live, FreshRow
<1>5. \A j \in Mem!Live(s) : j \in DOMAIN s.mem
  BY DEF Mem!Live
<1>6. t.time = Mem!Live(t) /\ SemOK(t, risen)
  BY <1>1, <1>4, <1>5 DEF Sound, Holds, SemOK, FreshRow, Stores
<1>7. /\ t.word \ risen \subseteq Mem!Live(t)
      /\ {j \in Mem!Live(t) : t.mem[j].chunk.kind # "process"} \subseteq t.word
  BY <1>1, <1>4, <1>5 DEF Sound, Holds, FreshRow, Stores
<1>8. \A c \in DOMAIN t.hash : t.hash[c] \in DOMAIN t.mem /\ t.mem[t.hash[c]].chunk = c
  BY <1>1, <1>2 DEF Sound, Holds, FreshRow
<1> QED  BY <1>1, <1>3, <1>4, <1>6, <1>7, <1>8 DEF Sound, Holds

\* open() rebuilds lanes and members, the rest is as the image has it.
LEMMA RebuiltIs ==
    ASSUME NEW s, MemShape(s)
    PROVE  LET t == Mem!Rebuilt(s) IN
           /\ DOMAIN t = DOMAIN s /\ t.mem = s.mem /\ t.hash = s.hash
           /\ t.sem = s.sem /\ t.word = s.word /\ t.time = s.time
           /\ t.realm = {<<s.mem[i].item.realm, i>> : i \in Mem!Live(s)}
           /\ t.prov = Mem!Earliest(s, Mem!ProvKeys)
           /\ t.task = Mem!Latest(s, Mem!TaskKeys)
           /\ t.corr = Mem!Corrections(s)
           /\ Mem!Live(t) = Mem!Live(s)
<1> HIDE DEF Mem!Earliest, Mem!Latest, Mem!Corrections
<1>1. Mem!Rebuilt(s).mem = s.mem
  BY DEF MemShape, MemFields, Mem!Rebuilt
<1> QED  BY <1>1 DEF MemShape, MemFields, Mem!Rebuilt, Mem!Live

LEMMA RebuiltSound ==
    ASSUME NEW s, NEW risen, Sound(s, risen)
    PROVE  Sound(Mem!Rebuilt(s), risen)
BY RebuiltIs DEF Sound, MemShape, Holds, SemOK

\* The snapshot body: everything but chunk_hash_idx.
LEMMA BodyIs ==
    ASSUME NEW s, MemShape(s)
    PROVE  LET t == Mem!Body(s) IN
           /\ DOMAIN t = DOMAIN s /\ t.mem = s.mem /\ DOMAIN t.hash = {}
           /\ t.sem = s.sem /\ t.word = s.word /\ t.time = s.time
           /\ Mem!Live(t) = Mem!Live(s)
<1>1. Mem!Body(s).mem = s.mem
  BY DEF MemShape, MemFields, Mem!Body
<1> QED  BY <1>1 DEF MemShape, MemFields, Mem!Body, Mem!Live

LEMMA BodySound ==
    ASSUME NEW s, NEW risen, Sound(s, risen)
    PROVE  Sound(Mem!Body(s), risen)
BY BodyIs DEF Sound, MemShape, Holds, SemOK

\* A row of the log and its row in RAM: what always agrees, what agrees unless a
\* promotion went round the fence, and what agrees unless a delete is only on
\* the log.
RowAlike(w, r) ==
    /\ w.chunk = r.chunk /\ w.pos = r.pos /\ w.tier = r.tier
    /\ w.item.vec = r.item.vec
    /\ r.dead => w.dead
FenceAlike(w, r) == w.status = r.status /\ w.fence = r.fence
TextAlike(w, r) ==
    /\ w.dead = r.dead /\ w.item.kind = r.item.kind
    /\ w.item.tag = r.item.tag /\ w.item.key = r.item.key /\ w.item.text = r.item.text

ImageInv ==
    \A i \in DOMAIN ram.mem :
       /\ RowAlike(wal.mem[i], ram.mem[i])
       /\ i \notin env.bypassed => FenceAlike(wal.mem[i], ram.mem[i])
       /\ ~gap => /\ TextAlike(wal.mem[i], ram.mem[i])
                  /\ i \notin env.moved => wal.mem[i].item.realm = ram.mem[i].item.realm

\* A memory is a member of its realm and of no other.
RealmOK(s, stray) ==
    /\ \A i \in Mem!Live(s) : <<s.mem[i].item.realm, i>> \in s.realm
    /\ \A p \in s.realm : /\ p[2] \in DOMAIN s.mem /\ p = <<s.mem[p[2]].item.realm, p[2]>>
                          /\ p[2] \in Mem!Live(s) \cup stray

StatusInv ==
    /\ DOMAIN env.asked \subseteq DOMAIN ram.mem
    /\ \A i \in DOMAIN env.asked : ram.mem[i].status = env.asked[i]

\* Two live copies have a dead one, which had the slot, or came after a restart.
Ghosted(s, c) == \E g \in DOMAIN s.mem : s.mem[g].dead /\ s.mem[g].chunk = c
CopyOK(s) ==
    /\ \A i \in Mem!Live(s) : s.mem[i].chunk \in DOMAIN s.hash
    /\ \A i, j \in Mem!Live(s) :
          s.mem[i].chunk = s.mem[j].chunk => i = j \/ Ghosted(s, s.mem[i].chunk)

\* The keyed lanes: the first done record, the last task record.
ProvOK(s) ==
    /\ \A j \in Mem!Live(s) : \A k \in Mem!ProvKeys(s.mem[j].item) :
          k \in DOMAIN s.prov /\ s.prov[k] <= j
    /\ \A k \in DOMAIN s.prov :
          /\ s.prov[k] \in DOMAIN s.mem
          /\ s.prov[k] \in Mem!Live(s) => k \in Mem!ProvKeys(s.mem[s.prov[k]].item)
TaskOK(s) ==
    /\ \A j \in Mem!Live(s) : \A k \in Mem!TaskKeys(s.mem[j].item) :
          k \in DOMAIN s.task /\ j <= s.task[k]
    /\ \A k \in DOMAIN s.task :
          /\ s.task[k] \in DOMAIN s.mem
          /\ s.task[k] \in Mem!Live(s) => k \in Mem!TaskKeys(s.mem[s.task[k]].item)
CorrOK(s) ==
    /\ {p \in s.corr : p[2] \in Mem!Live(s)} = Mem!Corrections(s)
    /\ \A p \in s.corr : p[2] \in DOMAIN s.mem
LanesOK(s) == ProvOK(s) /\ TaskOK(s) /\ CorrOK(s)

MemEnv ==
    /\ DOMAIN env = {"now", "calls", "asked", "moved", "edited", "risen",
                   "bypassed", "stray", "cold"}
    /\ env.now \in Nat \ {0} /\ env.cold \in BOOLEAN

MemInv ==
    /\ todo = <<>> /\ gap \in BOOLEAN /\ MemEnv
    /\ (\E n \in Nat : DOMAIN ram.mem = 1 .. n) /\ DOMAIN wal.mem = DOMAIN ram.mem
    /\ Sound(ram, env.risen) /\ Sound(wal, env.risen)
    /\ ImageInv /\ RealmOK(ram, env.stray) /\ StatusInv
    /\ ~env.cold => CopyOK(ram)
    /\ env.edited = {} => LanesOK(ram)

\* A row changes in RAM, to x, and on the log, to y.
LEMMA ImageRow ==
    ASSUME ImageInv, DOMAIN wal.mem = DOMAIN ram.mem, NEW i \in DOMAIN ram.mem, NEW x, NEW y,
           ram'.mem = [ram.mem EXCEPT ![i] = x], wal'.mem = [wal.mem EXCEPT ![i] = y],
           gap' = gap, env.moved \subseteq env'.moved, env.bypassed \subseteq env'.bypassed,
           RowAlike(y, x), i \notin env'.bypassed => FenceAlike(y, x),
           ~gap => TextAlike(y, x) /\ (i \notin env'.moved => y.item.realm = x.item.realm)
    PROVE  ImageInv'
<1> SUFFICES ASSUME NEW j \in DOMAIN ram.mem
             PROVE  /\ RowAlike(wal'.mem[j], ram'.mem[j])
                    /\ j \notin env'.bypassed => FenceAlike(wal'.mem[j], ram'.mem[j])
                    /\ ~gap => /\ TextAlike(wal'.mem[j], ram'.mem[j])
                               /\ j \notin env'.moved =>
                                     wal'.mem[j].item.realm = ram'.mem[j].item.realm
  BY DEF ImageInv, RowAlike, FenceAlike, TextAlike
<1> HIDE DEF RowAlike, FenceAlike, TextAlike
<1>1. CASE j = i
  BY <1>1
<1>2. CASE j # i
  BY <1>2 DEF ImageInv
<1> QED  BY <1>1, <1>2

LEMMA RealmRow ==
    ASSUME NEW s, NEW t, NEW stray, RealmOK(s, stray), NEW i \in DOMAIN s.mem, NEW x,
           t.mem = [s.mem EXCEPT ![i] = x], t.realm = s.realm, Mem!Live(t) = Mem!Live(s),
           x.item.realm = s.mem[i].item.realm
    PROVE  RealmOK(t, stray)
<1>1. DOMAIN t.mem = DOMAIN s.mem /\ \A j \in DOMAIN s.mem : t.mem[j].item.realm = s.mem[j].item.realm
  OBVIOUS
<1>2. \A j \in Mem!Live(s) : j \in DOMAIN s.mem
  BY DEF Mem!Live
<1> QED  BY <1>1, <1>2 DEF RealmOK

LEMMA CopyRow ==
    ASSUME NEW s, NEW t, CopyOK(s), NEW i \in DOMAIN s.mem, NEW x,
           t.mem = [s.mem EXCEPT ![i] = x], t.hash = s.hash, Mem!Live(t) = Mem!Live(s),
           x.chunk = s.mem[i].chunk, x.dead = s.mem[i].dead
    PROVE  CopyOK(t)
<1>1. DOMAIN t.mem = DOMAIN s.mem /\ \A j \in DOMAIN s.mem : t.mem[j].chunk = s.mem[j].chunk
                                                             /\ t.mem[j].dead = s.mem[j].dead
  OBVIOUS
<1>2. \A j \in Mem!Live(s) : j \in DOMAIN s.mem
  BY DEF Mem!Live
<1>3. \A c : Ghosted(t, c) = Ghosted(s, c)
  BY <1>1 DEF Ghosted
<1> QED  BY <1>1, <1>2, <1>3 DEF CopyOK

\* The lanes are read off the live items, so a store with the same ones has them.
LEMMA LanesSame ==
    ASSUME NEW s, NEW t, LanesOK(s), Mem!Live(t) = Mem!Live(s), DOMAIN t.mem = DOMAIN s.mem,
           \A j \in Mem!Live(s) : /\ t.mem[j].item.kind = s.mem[j].item.kind
                                  /\ t.mem[j].item.tag = s.mem[j].item.tag
                                  /\ t.mem[j].item.key = s.mem[j].item.key,
           t.prov = s.prov, t.task = s.task, t.corr = s.corr
    PROVE  LanesOK(t)
<1>1. \A j \in Mem!Live(s) : /\ Mem!ProvKeys(t.mem[j].item) = Mem!ProvKeys(s.mem[j].item)
                             /\ Mem!TaskKeys(t.mem[j].item) = Mem!TaskKeys(s.mem[j].item)
                             /\ Mem!CorrKeys(t.mem[j].item) = Mem!CorrKeys(s.mem[j].item)
  BY DEF Mem!ProvKeys, Mem!IsDone, Mem!TaskKeys, Mem!CorrKeys
<1>2. Mem!Corrections(t) = Mem!Corrections(s)
  BY <1>1, Zenon DEF Mem!Corrections
<1> QED  BY <1>1, <1>2 DEF LanesOK, ProvOK, TaskOK, CorrOK

\* The indexes of text and vectors take a memory that is alive on both sides, or
\* it counts as raised.
Reindexed(i) ==
    /\ env.risen \subseteq env'.risen
    /\ ram'.word \in {ram.word, ram.word \cup {i}} /\ wal'.word \in {wal.word, wal.word \cup {i}}
    /\ \/ ram'.word = ram.word /\ ram'.sem = ram.sem /\ wal'.word = wal.word /\ wal'.sem = wal.sem
       \/ i \in Mem!Live(ram) \cap Mem!Live(wal) \/ i \in env'.risen

\* A change that leaves vector and indexes alone.
LEMMA EditBoth ==
    ASSUME NEW i, NEW x, NEW y, Edit(x, ram.mem[i]), Edit(y, wal.mem[i]),
           Rest(ram', ram), Rest(wal', wal), ram'.word = ram.word, wal'.word = wal.word,
           env'.risen = env.risen
    PROVE  /\ Change(x, ram.mem[i]) /\ Tables(ram', ram) /\ Embeds(ram', ram, i, x)
           /\ Change(y, wal.mem[i]) /\ Tables(wal', wal) /\ Embeds(wal', wal, i, y)
           /\ Reindexed(i)
BY DEF Edit, Rest, Embeds, Reindexed

\* One row, changed in RAM and on the log.
LEMMA RowStep ==
    ASSUME MemInv, NEW i \in DOMAIN ram.mem, NEW x, NEW y,
           Change(x, ram.mem[i]), Change(y, wal.mem[i]), x.item.realm = ram.mem[i].item.realm,
           Tables(ram', ram), Embeds(ram', ram, i, x), ram'.mem = [ram.mem EXCEPT ![i] = x],
           Tables(wal', wal), Embeds(wal', wal, i, y), wal'.mem = [wal.mem EXCEPT ![i] = y],
           \/ env'.edited = env.edited /\ x.item = ram.mem[i].item
           \/ env'.edited = env.edited \cup {i},
           Reindexed(i),
           RowAlike(y, x), i \notin env'.bypassed => FenceAlike(y, x),
           ~gap => TextAlike(y, x) /\ (i \notin env'.moved => y.item.realm = x.item.realm),
           todo' = todo, gap' = gap, MemEnv', env'.moved = env.moved,
           env.bypassed \subseteq env'.bypassed, env'.stray = env.stray, env'.cold = env.cold,
           StatusInv'
    PROVE  MemInv'
<1> HIDE DEF Change, Tables, Embeds, RowAlike, FenceAlike, TextAlike, Sound, RealmOK, CopyOK, LanesOK, MemEnv,
             StatusInv
<1>0. env.risen \subseteq env'.risen /\ DOMAIN ram'.mem = DOMAIN ram.mem
      /\ DOMAIN wal'.mem = DOMAIN wal.mem /\ DOMAIN wal.mem = DOMAIN ram.mem
      /\ Sound(ram, env.risen) /\ Sound(wal, env.risen)
  BY DEF MemInv, Reindexed
<1>1. Sound(ram', env'.risen) /\ Mem!Live(ram') = Mem!Live(ram)
  <2>1. /\ ram'.word \in {ram.word, ram.word \cup {i}}
        /\ (ram'.word = ram.word /\ ram'.sem = ram.sem) \/ i \in Mem!Live(ram) \/ i \in env'.risen
    BY DEF Reindexed
  <2> QED  BY <1>0, <2>1, EditSound
<1>2. Sound(wal', env'.risen)
  <2>1. /\ wal'.word \in {wal.word, wal.word \cup {i}}
        /\ (wal'.word = wal.word /\ wal'.sem = wal.sem) \/ i \in Mem!Live(wal) \/ i \in env'.risen
    BY DEF Reindexed
  <2> QED  BY <1>0, <2>1, EditSound
<1>3. ImageInv'
  BY <1>0, ImageRow DEF MemInv
<1>4. RealmOK(ram', env'.stray)
  <2>1. ram'.realm = ram.realm
    BY DEF Tables
  <2> QED  BY <1>1, <2>1, RealmRow DEF MemInv
<1>5. ASSUME ~env'.cold PROVE CopyOK(ram')
  <2>1. ram'.hash = ram.hash /\ x.chunk = ram.mem[i].chunk /\ x.dead = ram.mem[i].dead
    BY DEF Tables, Change
  <2> QED  BY <1>1, <1>5, <2>1, CopyRow DEF MemInv
<1>6. ASSUME env'.edited = {} PROVE LanesOK(ram')
  <2>1. x.item = ram.mem[i].item /\ env.edited = {}
    BY <1>6
  <2>2. \A j \in DOMAIN ram.mem : ram'.mem[j].item = ram.mem[j].item
    BY <2>1
  <2>3. \A j \in Mem!Live(ram) : j \in DOMAIN ram.mem
    BY DEF Mem!Live
  <2>4. ram'.prov = ram.prov /\ ram'.task = ram.task /\ ram'.corr = ram.corr
    BY DEF Tables
  <2> QED  BY <1>0, <1>1, <2>1, <2>2, <2>3, <2>4, LanesSame DEF MemInv
<1> QED  BY <1>0, <1>1, <1>2, <1>3, <1>4, <1>5, <1>6 DEF MemInv

\* What the deltas and edits do to a row.
LEMMA DeltaIs ==
    ASSUME NEW st, MemRow(st), NEW op, op.ts \in Nat \ {0}
    PROVE  LET x == Mem!ApplyDelta(st, op) IN
           /\ Edit(x, st) /\ x.item = st.item /\ x.pos = st.pos /\ x.tier = st.tier
           /\ op.ts <= st.fence => x.status = st.status /\ x.fence = st.fence
           /\ op.ts > st.fence =>
                 /\ x.status = IF op.status = "same" THEN st.status ELSE op.status
                 /\ x.fence = op.ts
<1>1. CASE op.ts <= st.fence
  BY <1>1 DEF MemRow, Edit, Change, Mem!ApplyDelta
<1>2. CASE ~(op.ts <= st.fence)
  <2> DEFINE conf == Mem!Min({100, st.conf + op.boost})
             hits == st.hits + (IF op.touch THEN 1 ELSE 0)
             status == IF op.status = "same" THEN st.status ELSE op.status
             staged == st.staged /\ ~op.unstage
  <2>1. Mem!ApplyDelta(st, op) = [st EXCEPT !.fence = op.ts, !.conf = conf, !.hits = hits,
                                            !.status = status, !.staged = staged]
    BY <1>2, Zenon DEF Mem!ApplyDelta
  <2> HIDE DEF conf, hits, staged, status
  <2>2. LET x == [st EXCEPT !.fence = op.ts, !.conf = conf, !.hits = hits,
                            !.status = status, !.staged = staged] IN
        /\ Edit(x, st) /\ x.item = st.item /\ x.pos = st.pos /\ x.tier = st.tier
        /\ x.status = status /\ x.fence = op.ts
    BY DEF MemRow, Edit, Change
  <2> QED  BY <1>2, <2>1, <2>2 DEF status
<1> QED  BY <1>1, <1>2 DEF MemRow

LEMMA EditsAre ==
    ASSUME NEW st, MemRow(st), NEW v
    PROVE  /\ Edit(Mem!OfKind(st, v), st) /\ Edit(Mem!InRealm(st, v), st)
           /\ Edit(Mem!InTier(st, v), st) /\ Edit(Mem!WithOutcome(st, v), st)
           /\ Edit(Mem!Unstaged(st), st)
<1> USE DEF MemRow, ItemShape, Edit, Change
<1>1. Edit(Mem!OfKind(st, v), st)
  BY DEF Mem!OfKind
<1>2. Edit(Mem!InRealm(st, v), st)
  BY DEF Mem!InRealm
<1>3. Edit(Mem!InTier(st, v), st)
  BY DEF Mem!InTier
<1>4. Edit(Mem!WithOutcome(st, v), st)
  BY DEF Mem!WithOutcome
<1>6. Edit(Mem!Unstaged(st), st)
  BY DEF Mem!Unstaged
<1> QED  BY <1>1, <1>2, <1>3, <1>4, <1>6

LEMMA TextIs ==
    ASSUME NEW st, MemRow(st), NEW c, NEW vec
    PROVE  LET x == Mem!WithText(st, c, vec) IN
           /\ Change(x, st) /\ x.item.vec = (IF vec = NoVec THEN st.item.vec ELSE vec)
           /\ x.item.kind = st.item.kind /\ x.item.realm = st.item.realm
           /\ x.item.tag = c.tag /\ x.item.key = c.key /\ x.item.text = c.text
           /\ x.pos = st.pos /\ x.tier = st.tier /\ x.status = st.status /\ x.fence = st.fence
BY DEF MemRow, ItemShape, Change, Mem!WithText, Mem!WithContent, Mem!Embedding

\* What the invariant says of the rows.
LEMMA MemRows ==
    ASSUME MemInv, NEW i \in DOMAIN ram.mem
    PROVE  /\ MemShape(ram) /\ MemShape(wal) /\ MemRow(ram.mem[i]) /\ MemRow(wal.mem[i])
           /\ i \in DOMAIN wal.mem
           /\ RowAlike(wal.mem[i], ram.mem[i])
           /\ i \notin env.bypassed => FenceAlike(wal.mem[i], ram.mem[i])
           /\ ~gap => /\ TextAlike(wal.mem[i], ram.mem[i])
                      /\ i \notin env.moved => wal.mem[i].item.realm = ram.mem[i].item.realm
<1> HIDE DEF MemRow, RowAlike, FenceAlike, TextAlike
<1> QED  BY DEF MemInv, Sound, MemShape, ImageInv

\* The environment after a call: only the histories differ.
SameEnv ==
    /\ MemEnv' /\ env'.moved = env.moved /\ env'.stray = env.stray /\ env'.cold = env.cold
    /\ env'.now = env.now

LEMMA CalledEnv ==
    ASSUME MemEnv, Mem!Called
    PROVE  /\ SameEnv /\ env'.bypassed = env.bypassed /\ env'.edited = env.edited
           /\ env'.asked = env.asked /\ env'.risen = env.risen
BY DEF MemEnv, SameEnv, Mem!Called

\* A delta, behind the fence on both sides.
LEMMA DeltaStep ==
    ASSUME MemInv, NEW i \in DOMAIN ram.mem, NEW op, op.op = "delta", op.id = i, op.ts = env.now,
           Mem!Commit([ram EXCEPT !.mem[i] = Mem!ApplyDelta(@, op)], op),
           SameEnv, env'.edited = env.edited, env'.bypassed = env.bypassed,
           env'.risen = env.risen, StatusInv'
    PROVE  MemInv'
<1> DEFINE x == Mem!ApplyDelta(ram.mem[i], op)
           y == Mem!ApplyDelta(wal.mem[i], op)
<1>1. /\ ram' = [ram EXCEPT !.mem[i] = x] /\ todo' = todo /\ gap' = gap
      /\ wal' = Mem!Replay(wal, op)
  BY DEF Mem!Commit
<1>2. wal' = [wal EXCEPT !.mem[i] = y]
  <2> HIDE DEF Mem!ApplyDelta
  <2> QED  BY <1>1, MemRows DEF Mem!Replay
<1>3. /\ MemRow(ram.mem[i]) /\ MemRow(wal.mem[i]) /\ RowAlike(wal.mem[i], ram.mem[i])
      /\ i \notin env.bypassed => FenceAlike(wal.mem[i], ram.mem[i])
      /\ MemShape(ram) /\ MemShape(wal) /\ i \in DOMAIN wal.mem
  BY MemRows
<1>4. op.ts \in Nat \ {0}
  BY DEF MemInv, MemEnv
<1>5. Edit(x, ram.mem[i]) /\ x.item = ram.mem[i].item /\ x.pos = ram.mem[i].pos
      /\ x.tier = ram.mem[i].tier
  BY <1>3, <1>4, DeltaIs
<1>6. Edit(y, wal.mem[i]) /\ y.item = wal.mem[i].item /\ y.pos = wal.mem[i].pos
      /\ y.tier = wal.mem[i].tier
  BY <1>3, <1>4, DeltaIs
<1>7. RowAlike(y, x)
  BY <1>3, <1>5, <1>6 DEF RowAlike, Edit, Change
<1>8. i \notin env'.bypassed => FenceAlike(y, x)
  <2> SUFFICES ASSUME i \notin env.bypassed PROVE FenceAlike(y, x)
    OBVIOUS
  <2>1. wal.mem[i].status = ram.mem[i].status /\ wal.mem[i].fence = ram.mem[i].fence
    BY <1>3 DEF FenceAlike
  <2>2. ram.mem[i].fence \in Nat
    BY <1>3 DEF MemRow
  <2>3. CASE op.ts <= ram.mem[i].fence
    BY <1>3, <1>4, <2>1, <2>3, DeltaIs DEF FenceAlike
  <2>4. CASE op.ts > ram.mem[i].fence
    BY <1>3, <1>4, <2>1, <2>4, DeltaIs DEF FenceAlike
  <2> QED  BY <1>4, <2>2, <2>3, <2>4
<1>9. ~gap => TextAlike(y, x) /\ (i \notin env'.moved => y.item.realm = x.item.realm)
  BY <1>5, <1>6, MemRows DEF TextAlike, Edit, Change, SameEnv
<1>10. /\ Rest(ram', ram) /\ ram'.word = ram.word /\ ram'.mem = [ram.mem EXCEPT ![i] = x]
       /\ Rest(wal', wal) /\ wal'.word = wal.word /\ wal'.mem = [wal.mem EXCEPT ![i] = y]
  <2> HIDE DEF x, y, Rest
  <2> QED  BY <1>1, <1>2, <1>3, RowIs
<1> HIDE DEF x, y, Edit, Rest, RowAlike, FenceAlike, TextAlike
<1>11. /\ Change(x, ram.mem[i]) /\ Tables(ram', ram) /\ Embeds(ram', ram, i, x)
       /\ Change(y, wal.mem[i]) /\ Tables(wal', wal) /\ Embeds(wal', wal, i, y)
       /\ Reindexed(i)
  BY <1>5, <1>6, <1>10, EditBoth
<1> HIDE DEF Change, Tables, Embeds, Reindexed
<1> QED  BY <1>1, <1>5, <1>7, <1>8, <1>9, <1>10, <1>11, RowStep DEF SameEnv

LEMMA ReinforceStep ==
    ASSUME MemInv, NEW i \in DOMAIN ram.mem, NEW boost, Mem!Reinforce(i, boost)
    PROVE  MemInv'
<1> DEFINE op == Mem!Delta(i, boost, TRUE, "same", FALSE)
<1>1. Mem!Commit([ram EXCEPT !.mem[i] = Mem!ApplyDelta(@, op)], op) /\ Mem!Called
  BY DEF Mem!Reinforce
<1>2. op.op = "delta" /\ op.id = i /\ op.ts = env.now /\ op.status = "same"
  BY DEF Mem!Delta
<1> HIDE DEF op
<1>3. SameEnv /\ env'.bypassed = env.bypassed /\ env'.edited = env.edited
      /\ env'.asked = env.asked /\ env'.risen = env.risen
  BY <1>1, CalledEnv DEF MemInv
<1>4. StatusInv'
  <2> DEFINE x == Mem!ApplyDelta(ram.mem[i], op)
  <2>1. MemRow(ram.mem[i]) /\ MemShape(ram) /\ op.ts \in Nat \ {0}
    BY <1>2, MemRows DEF MemInv, MemEnv
  <2>2. x.status = ram.mem[i].status
    BY <1>2, <2>1, DeltaIs DEF MemRow
  <2>3. ram'.mem = [ram.mem EXCEPT ![i] = x]
    <3>1. ram' = [ram EXCEPT !.mem[i] = x]
      BY <1>1 DEF Mem!Commit
    <3> HIDE DEF x
    <3> QED  BY <2>1, <3>1, RowIs
  <2> HIDE DEF x
  <2> QED  BY <1>3, <2>2, <2>3 DEF MemInv, StatusInv
<1> QED  BY <1>1, <1>2, <1>3, <1>4, DeltaStep

LEMMA SetStatusStep ==
    ASSUME MemInv, NEW i \in DOMAIN ram.mem, NEW status \in Mem!Statuses,
           Mem!SetMemoryStatus(i, status)
    PROVE  MemInv'
<1> DEFINE op == Mem!Delta(i, 0, FALSE, status, FALSE)
           asked == IF env.now > ram.mem[i].fence THEN Mem!Insert(env.asked, i, status)
                    ELSE env.asked
<1>1. /\ Mem!Commit([ram EXCEPT !.mem[i] = Mem!ApplyDelta(@, op)], op)
      /\ env' = [env EXCEPT !.calls = @ + 1, !.asked = asked]
  BY DEF Mem!SetMemoryStatus
<1>2. /\ op.op = "delta" /\ op.id = i /\ op.ts = env.now /\ op.status = status
      /\ status # "same"
  BY DEF Mem!Delta, Mem!Statuses
<1> HIDE DEF op
<1>3. SameEnv /\ env'.bypassed = env.bypassed /\ env'.edited = env.edited
      /\ env'.asked = asked /\ env'.risen = env.risen
  <2> HIDE DEF asked
  <2> QED  BY <1>1 DEF MemInv, MemEnv, SameEnv
<1>4. StatusInv'
  <2> DEFINE x == Mem!ApplyDelta(ram.mem[i], op)
  <2>1. MemRow(ram.mem[i]) /\ MemShape(ram) /\ op.ts \in Nat \ {0}
    BY <1>2, MemRows DEF MemInv, MemEnv
  <2>2. /\ env.now > ram.mem[i].fence => x.status = status
        /\ ~(env.now > ram.mem[i].fence) => x.status = ram.mem[i].status
    BY <1>2, <2>1, DeltaIs DEF MemRow
  <2>3. ram'.mem = [ram.mem EXCEPT ![i] = x]
    <3>1. ram' = [ram EXCEPT !.mem[i] = x]
      BY <1>1 DEF Mem!Commit
    <3> HIDE DEF x
    <3> QED  BY <2>1, <3>1, RowIs
  <2> HIDE DEF x
  <2>4. CASE env.now > ram.mem[i].fence
    BY <1>3, <2>2, <2>3, <2>4 DEF MemInv, StatusInv, Mem!Insert
  <2>5. CASE ~(env.now > ram.mem[i].fence)
    BY <1>3, <2>2, <2>3, <2>5 DEF MemInv, StatusInv
  <2> QED  BY <2>4, <2>5
<1> QED  BY <1>1, <1>2, <1>3, <1>4, DeltaStep

\* The same change of both rows keeps them alike.
BothAlike(w, r, y, x) ==
    /\ RowAlike(y, x) /\ (FenceAlike(w, r) => FenceAlike(y, x))
    /\ TextAlike(w, r) => TextAlike(y, x)
    /\ w.item.realm = r.item.realm => y.item.realm = x.item.realm
    /\ x.item.realm = r.item.realm /\ x.status = r.status

LEMMA ChangesAlike ==
    ASSUME NEW w, NEW r, MemRow(w), MemRow(r), RowAlike(w, r), NEW v
    PROVE  /\ BothAlike(w, r, Mem!OfKind(w, v), Mem!OfKind(r, v))
           /\ BothAlike(w, r, Mem!WithOutcome(w, v), Mem!WithOutcome(r, v))
           /\ BothAlike(w, r, Mem!InTier(w, v), Mem!InTier(r, v))
           /\ Mem!InTier(r, v).item = r.item /\ Mem!WithOutcome(r, v).item = r.item
<1> USE DEF MemRow, ItemShape, BothAlike, RowAlike, FenceAlike, TextAlike
<1>1. BothAlike(w, r, Mem!OfKind(w, v), Mem!OfKind(r, v))
  BY DEF Mem!OfKind
<1>3. BothAlike(w, r, Mem!WithOutcome(w, v), Mem!WithOutcome(r, v))
  BY DEF Mem!WithOutcome
<1>4. BothAlike(w, r, Mem!InTier(w, v), Mem!InTier(r, v))
  BY DEF Mem!InTier
<1>5. Mem!InTier(r, v).item = r.item /\ Mem!WithOutcome(r, v).item = r.item
  BY DEF Mem!InTier, Mem!WithOutcome
<1> QED  BY <1>1, <1>3, <1>4, <1>5

LEMMA TextsAlike ==
    ASSUME NEW w, NEW r, MemRow(w), MemRow(r), RowAlike(w, r), NEW c, NEW vec
    PROVE  BothAlike(w, r, Mem!WithText(w, c, vec), Mem!WithText(r, c, vec))
BY TextIs DEF BothAlike, RowAlike, FenceAlike, TextAlike, Change

LEMMA StatusRow ==
    ASSUME StatusInv, NEW i \in DOMAIN ram.mem, NEW x, ram'.mem = [ram.mem EXCEPT ![i] = x],
           x.status = ram.mem[i].status, env'.asked = env.asked
    PROVE  StatusInv'
BY DEF StatusInv

\* The same change of a row on both sides.
LEMMA ChangeStep ==
    ASSUME MemInv, NEW i \in DOMAIN ram.mem, NEW x, NEW y,
           Change(x, ram.mem[i]), Change(y, wal.mem[i]), BothAlike(wal.mem[i], ram.mem[i], y, x),
           Tables(ram', ram), Embeds(ram', ram, i, x), ram'.mem = [ram.mem EXCEPT ![i] = x],
           Tables(wal', wal), Embeds(wal', wal, i, y), wal'.mem = [wal.mem EXCEPT ![i] = y],
           \/ env'.edited = env.edited /\ x.item = ram.mem[i].item
           \/ env'.edited = env.edited \cup {i},
           Reindexed(i),
           todo' = todo, gap' = gap, SameEnv, env'.bypassed = env.bypassed,
           env'.asked = env.asked
    PROVE  MemInv'
<1> HIDE DEF Change, Tables, Embeds, Reindexed, RowAlike, FenceAlike, TextAlike
<1>1. /\ RowAlike(y, x) /\ (i \notin env'.bypassed => FenceAlike(y, x))
      /\ ~gap => TextAlike(y, x) /\ (i \notin env'.moved => y.item.realm = x.item.realm)
      /\ x.item.realm = ram.mem[i].item.realm /\ x.status = ram.mem[i].status
  BY MemRows DEF BothAlike, SameEnv
<1>2. StatusInv'
  BY <1>1, StatusRow DEF MemInv
<1> QED  BY <1>1, <1>2, RowStep DEF SameEnv

LEMMA ContentStep ==
    ASSUME MemInv, NEW i \in DOMAIN ram.mem, NEW content, NEW vec,
           Mem!UpdateContent(i, content, vec)
    PROVE  MemInv'
<1> DEFINE x == Mem!WithText(ram.mem[i], content, vec)
           y == Mem!WithText(wal.mem[i], content, vec)
           risen == IF i \in Mem!Live(ram) \cap Mem!Live(wal) THEN env.risen ELSE env.risen \cup {i}
<1>0. /\ MemShape(ram) /\ MemShape(wal) /\ MemRow(ram.mem[i]) /\ MemRow(wal.mem[i])
      /\ i \in DOMAIN wal.mem /\ RowAlike(wal.mem[i], ram.mem[i])
  BY MemRows
<1>1. /\ ram' = Mem!Edited(ram, i, content, vec) /\ todo' = todo /\ gap' = gap
      /\ wal' = Mem!Edited(wal, i, content, vec)
      /\ env' = [env EXCEPT !.calls = @ + 1, !.edited = @ \cup {i}, !.risen = risen]
  <2> HIDE DEF Mem!Edited
  <2> QED  BY <1>0 DEF Mem!UpdateContent, Mem!Commit, Mem!Replay
<1>2. /\ Tables(ram', ram) /\ ram'.word = ram.word \cup {i} /\ ram'.mem = [ram.mem EXCEPT ![i] = x]
      /\ Tables(wal', wal) /\ wal'.word = wal.word \cup {i} /\ wal'.mem = [wal.mem EXCEPT ![i] = y]
      /\ ram'.sem = (IF vec = NoVec THEN ram.sem ELSE ram.sem \cup {i})
      /\ wal'.sem = (IF vec = NoVec THEN wal.sem ELSE wal.sem \cup {i})
  <2> HIDE DEF Mem!Edited, Tables, Mem!WithText
  <2> QED  BY <1>0, <1>1, EditedIs
<1>3. /\ Change(x, ram.mem[i]) /\ Change(y, wal.mem[i]) /\ BothAlike(wal.mem[i], ram.mem[i], y, x)
      /\ x.item.vec = (IF vec = NoVec THEN ram.mem[i].item.vec ELSE vec)
      /\ y.item.vec = (IF vec = NoVec THEN wal.mem[i].item.vec ELSE vec)
  <2> HIDE DEF MemRow, RowAlike, BothAlike, Change, Mem!WithText
  <2> QED  BY <1>0, TextIs, TextsAlike
<1> HIDE DEF x, y
<1>4. SameEnv /\ env'.bypassed = env.bypassed /\ env'.asked = env.asked
      /\ env'.edited = env.edited \cup {i} /\ env'.risen = risen
  <2> HIDE DEF risen
  <2> QED  BY <1>1 DEF MemInv, MemEnv, SameEnv
<1>5. Embeds(ram', ram, i, x) /\ Embeds(wal', wal, i, y)
  BY <1>2, <1>3 DEF Embeds
<1>6. Reindexed(i)
  BY <1>2, <1>4 DEF Reindexed
<1> HIDE DEF Change, Tables, Embeds, Reindexed, BothAlike, SameEnv
<1> QED  BY <1>1, <1>2, <1>3, <1>4, <1>5, <1>6, ChangeStep

LEMMA KindStep ==
    ASSUME MemInv, NEW i \in DOMAIN ram.mem, NEW kind, Mem!UpdateKind(i, kind)
    PROVE  MemInv'
<1> DEFINE x == Mem!OfKind(ram.mem[i], kind)
           y == Mem!OfKind(wal.mem[i], kind)
<1>0. /\ MemShape(ram) /\ MemShape(wal) /\ MemRow(ram.mem[i]) /\ MemRow(wal.mem[i])
      /\ i \in DOMAIN wal.mem /\ RowAlike(wal.mem[i], ram.mem[i])
  BY MemRows
<1>1. /\ ram' = [ram EXCEPT !.mem[i] = x] /\ todo' = todo /\ gap' = gap
      /\ wal' = [wal EXCEPT !.mem[i] = y]
      /\ env' = [env EXCEPT !.calls = @ + 1, !.edited = @ \cup {i}]
  <2> HIDE DEF Mem!OfKind
  <2> QED  BY <1>0 DEF Mem!UpdateKind, Mem!Commit, Mem!Replay
<1>2. /\ Rest(ram', ram) /\ ram'.word = ram.word /\ ram'.mem = [ram.mem EXCEPT ![i] = x]
      /\ Rest(wal', wal) /\ wal'.word = wal.word /\ wal'.mem = [wal.mem EXCEPT ![i] = y]
  <2> HIDE DEF x, y, Rest
  <2> QED  BY <1>0, <1>1, RowIs
<1>3. Edit(x, ram.mem[i]) /\ Edit(y, wal.mem[i]) /\ BothAlike(wal.mem[i], ram.mem[i], y, x)
  BY <1>0, EditsAre, ChangesAlike
<1>4. SameEnv /\ env'.bypassed = env.bypassed /\ env'.asked = env.asked
      /\ env'.edited = env.edited \cup {i} /\ env'.risen = env.risen
  BY <1>1 DEF MemInv, MemEnv, SameEnv
<1> HIDE DEF x, y, Edit, Rest, BothAlike, SameEnv
<1>5. /\ Change(x, ram.mem[i]) /\ Tables(ram', ram) /\ Embeds(ram', ram, i, x)
      /\ Change(y, wal.mem[i]) /\ Tables(wal', wal) /\ Embeds(wal', wal, i, y)
      /\ Reindexed(i)
  BY <1>2, <1>3, <1>4, EditBoth
<1> HIDE DEF Change, Tables, Embeds, Reindexed
<1> QED  BY <1>1, <1>2, <1>3, <1>4, <1>5, ChangeStep

\* record_outcome, and run_demotion_pass above the last tier.
LEMMA CountStep ==
    ASSUME MemInv, NEW i \in DOMAIN ram.mem, NEW x, NEW y,
           \/ x = Mem!WithOutcome(ram.mem[i], 1) /\ y = Mem!WithOutcome(wal.mem[i], 1)
           \/ \E tier : x = Mem!InTier(ram.mem[i], tier) /\ y = Mem!InTier(wal.mem[i], tier),
           ram' = [ram EXCEPT !.mem[i] = x], wal' = [wal EXCEPT !.mem[i] = y],
           todo' = todo, gap' = gap, Mem!Called
    PROVE  MemInv'
<1>0. /\ MemShape(ram) /\ MemShape(wal) /\ MemRow(ram.mem[i]) /\ MemRow(wal.mem[i])
      /\ i \in DOMAIN wal.mem /\ RowAlike(wal.mem[i], ram.mem[i])
  BY MemRows
<1>2. /\ Rest(ram', ram) /\ ram'.word = ram.word /\ ram'.mem = [ram.mem EXCEPT ![i] = x]
      /\ Rest(wal', wal) /\ wal'.word = wal.word /\ wal'.mem = [wal.mem EXCEPT ![i] = y]
  <2> HIDE DEF Rest
  <2> QED  BY <1>0, RowIs
<1>3. /\ Edit(x, ram.mem[i]) /\ Edit(y, wal.mem[i]) /\ BothAlike(wal.mem[i], ram.mem[i], y, x)
      /\ x.item = ram.mem[i].item
  <2> HIDE DEF MemRow, RowAlike, Edit, Change, BothAlike
  <2> QED  BY <1>0, EditsAre, ChangesAlike
<1>4. SameEnv /\ env'.bypassed = env.bypassed /\ env'.asked = env.asked
      /\ env'.edited = env.edited /\ env'.risen = env.risen
  BY CalledEnv DEF MemInv
<1> HIDE DEF Edit, Rest, BothAlike, SameEnv
<1>5. /\ Change(x, ram.mem[i]) /\ Tables(ram', ram) /\ Embeds(ram', ram, i, x)
      /\ Change(y, wal.mem[i]) /\ Tables(wal', wal) /\ Embeds(wal', wal, i, y)
      /\ Reindexed(i)
  BY <1>2, <1>3, <1>4, EditBoth
<1> HIDE DEF Change, Tables, Embeds, Reindexed
<1> QED  BY <1>2, <1>3, <1>4, <1>5, ChangeStep

LEMMA OutcomeStep ==
    ASSUME MemInv, NEW i \in DOMAIN ram.mem, Mem!RecordOutcome(i)
    PROVE  MemInv'
<1>1. /\ ram' = [ram EXCEPT !.mem[i] = Mem!WithOutcome(ram.mem[i], 1)]
      /\ wal' = [wal EXCEPT !.mem[i] = Mem!WithOutcome(wal.mem[i], 1)]
      /\ todo' = todo /\ gap' = gap /\ Mem!Called
  <2> HIDE DEF Mem!WithOutcome
  <2> QED  BY MemRows DEF Mem!RecordOutcome, Mem!Commit, Mem!Replay
<1> QED  BY <1>1, CountStep

LEMMA TierStep ==
    ASSUME MemInv, NEW i \in DOMAIN ram.mem, NEW tier, Mem!Called,
           Mem!Commit([ram EXCEPT !.mem[i] = Mem!InTier(@, tier)],
                      [op |-> "demote", id |-> i, tier |-> tier])
    PROVE  MemInv'
<1>1. /\ ram' = [ram EXCEPT !.mem[i] = Mem!InTier(ram.mem[i], tier)]
      /\ wal' = [wal EXCEPT !.mem[i] = Mem!InTier(wal.mem[i], tier)]
      /\ todo' = todo /\ gap' = gap
  <2> HIDE DEF Mem!InTier
  <2> QED  BY MemRows DEF Mem!Commit, Mem!Replay
<1> QED  BY <1>1, CountStep

\* promote_staged_memories: RAM passes the fence, the record may not.
LEMMA PromoteStep ==
    ASSUME MemInv, NEW i \in DOMAIN ram.mem, Mem!PromoteStaged(i)
    PROVE  MemInv'
<1> DEFINE op == Mem!Delta(i, 0, FALSE, "same", TRUE)
           x == Mem!Unstaged(ram.mem[i])
           y == Mem!ApplyDelta(wal.mem[i], op)
<1>0. /\ MemShape(ram) /\ MemShape(wal) /\ MemRow(ram.mem[i]) /\ MemRow(wal.mem[i])
      /\ i \in DOMAIN wal.mem /\ RowAlike(wal.mem[i], ram.mem[i])
  BY MemRows
<1>1. /\ ram' = [ram EXCEPT !.mem[i] = x] /\ todo' = todo /\ gap' = gap
      /\ wal' = Mem!Replay(wal, op)
      /\ env' = [env EXCEPT !.calls = @ + 1, !.bypassed = @ \cup {i}]
  <2> HIDE DEF Mem!Unstaged
  <2> QED  BY DEF Mem!PromoteStaged, Mem!Commit
<1>2. op.op = "delta" /\ op.id = i /\ op.ts = env.now
  BY DEF Mem!Delta
<1> HIDE DEF op
<1>3. wal' = [wal EXCEPT !.mem[i] = y]
  <2> HIDE DEF Mem!ApplyDelta
  <2> QED  BY <1>0, <1>1, <1>2 DEF Mem!Replay
<1>4. op.ts \in Nat \ {0}
  BY <1>2 DEF MemInv, MemEnv
<1>5. /\ Edit(x, ram.mem[i]) /\ x.item = ram.mem[i].item /\ x.pos = ram.mem[i].pos
      /\ x.tier = ram.mem[i].tier /\ x.status = ram.mem[i].status
  <2>1. Edit(x, ram.mem[i])
    BY <1>0, EditsAre
  <2> QED  BY <1>0, <2>1 DEF MemRow, Mem!Unstaged
<1>6. Edit(y, wal.mem[i]) /\ y.item = wal.mem[i].item /\ y.pos = wal.mem[i].pos
      /\ y.tier = wal.mem[i].tier
  BY <1>0, <1>4, DeltaIs
<1>7. RowAlike(y, x)
  BY <1>0, <1>5, <1>6 DEF RowAlike, Edit, Change
<1>8. /\ SameEnv /\ env'.asked = env.asked /\ env'.edited = env.edited /\ env'.risen = env.risen
      /\ env'.bypassed = env.bypassed \cup {i}
  BY <1>1 DEF MemInv, MemEnv, SameEnv
<1>9. ~gap => TextAlike(y, x) /\ (i \notin env'.moved => y.item.realm = x.item.realm)
  BY <1>5, <1>6, <1>8, MemRows DEF TextAlike, Edit, Change, SameEnv
<1>10. /\ Rest(ram', ram) /\ ram'.word = ram.word /\ ram'.mem = [ram.mem EXCEPT ![i] = x]
       /\ Rest(wal', wal) /\ wal'.word = wal.word /\ wal'.mem = [wal.mem EXCEPT ![i] = y]
  <2> HIDE DEF x, y, Rest
  <2> QED  BY <1>0, <1>1, <1>3, RowIs
<1> HIDE DEF x, y, Edit, Rest, RowAlike, FenceAlike, TextAlike
<1>11. StatusInv'
  BY <1>5, <1>8, <1>10, StatusRow DEF MemInv
<1>12. /\ Change(x, ram.mem[i]) /\ Tables(ram', ram) /\ Embeds(ram', ram, i, x)
       /\ Change(y, wal.mem[i]) /\ Tables(wal', wal) /\ Embeds(wal', wal, i, y)
       /\ Reindexed(i)
  BY <1>5, <1>6, <1>8, <1>10, EditBoth
<1> HIDE DEF Change, Tables, Embeds, Reindexed
<1> QED  BY <1>1, <1>5, <1>7, <1>8, <1>9, <1>10, <1>11, <1>12, RowStep DEF SameEnv

LEMMA SoundFields ==
    ASSUME NEW s, NEW t, NEW risen, Sound(s, risen), DOMAIN t = DOMAIN s, t.mem = s.mem,
           t.hash = s.hash, t.sem = s.sem, t.word = s.word, t.time = s.time
    PROVE  Sound(t, risen) /\ Mem!Live(t) = Mem!Live(s)
BY DEF Sound, MemShape, Holds, SemOK, Mem!Live

\* cf_set_realm: RAM only.
LEMMA SetRealmStep ==
    ASSUME MemInv, NEW i \in DOMAIN ram.mem, NEW realm, Mem!SetRealm(i, realm)
    PROVE  MemInv'
<1> DEFINE x == Mem!InRealm(ram.mem[i], realm)
           t == [ram EXCEPT !.mem[i] = x]
<1>0. MemShape(ram) /\ MemRow(ram.mem[i]) /\ Sound(ram, env.risen)
  BY MemRows DEF MemInv
<1>1. /\ ram' = [ram EXCEPT !.mem[i] = x,
                            !.realm = (@ \ {<<ram.mem[i].item.realm, i>>}) \cup {<<realm, i>>}]
      /\ wal' = wal /\ todo' = todo /\ gap' = gap
      /\ env' = [env EXCEPT !.calls = @ + 1, !.moved = @ \cup {i},
                            !.stray = IF ram.mem[i].dead THEN @ \cup {i} ELSE @]
  BY DEF Mem!SetRealm, Mem!Quiet
<1>2. /\ Edit(x, ram.mem[i]) /\ x.item.realm = realm /\ x.status = ram.mem[i].status
      /\ x.fence = ram.mem[i].fence /\ x.pos = ram.mem[i].pos /\ x.tier = ram.mem[i].tier
      /\ x.item.kind = ram.mem[i].item.kind /\ x.item.tag = ram.mem[i].item.tag
      /\ x.item.key = ram.mem[i].item.key /\ x.item.text = ram.mem[i].item.text
  <2>1. Edit(x, ram.mem[i])
    BY <1>0, EditsAre
  <2> QED  BY <1>0, <2>1 DEF MemRow, ItemShape, Mem!InRealm
<1> HIDE DEF x
<1>3. /\ DOMAIN ram' = DOMAIN ram /\ ram'.mem = [ram.mem EXCEPT ![i] = x]
      /\ ram'.realm = (ram.realm \ {<<ram.mem[i].item.realm, i>>}) \cup {<<realm, i>>}
      /\ ram'.hash = ram.hash /\ ram'.sem = ram.sem /\ ram'.word = ram.word
      /\ ram'.time = ram.time /\ ram'.prov = ram.prov /\ ram'.task = ram.task
      /\ ram'.corr = ram.corr
  BY <1>0, <1>1 DEF MemShape, MemFields
<1>4. /\ DOMAIN t = DOMAIN ram /\ t.mem = [ram.mem EXCEPT ![i] = x] /\ t.hash = ram.hash
      /\ t.sem = ram.sem /\ t.word = ram.word /\ t.time = ram.time
      /\ Rest(t, ram)
  BY <1>0, RowIs DEF Rest
<1>5. /\ MemEnv' /\ env'.moved = env.moved \cup {i} /\ env'.bypassed = env.bypassed
      /\ env'.edited = env.edited /\ env'.risen = env.risen
      /\ env'.asked = env.asked /\ env'.cold = env.cold
      /\ env'.stray = IF ram.mem[i].dead THEN env.stray \cup {i} ELSE env.stray
  BY <1>1 DEF MemInv, MemEnv
<1> HIDE DEF t
<1>6. Sound(ram', env'.risen) /\ Mem!Live(ram') = Mem!Live(ram)
  <2>1. Sound(t, env.risen) /\ Mem!Live(t) = Mem!Live(ram)
    <3>1. /\ Change(x, ram.mem[i]) /\ Tables(t, ram) /\ Embeds(t, ram, i, x)
          /\ t.word \in {ram.word, ram.word \cup {i}} /\ env.risen \subseteq env.risen
      BY <1>2, <1>4 DEF Edit, Rest, Embeds
    <3> HIDE DEF Change, Tables, Embeds, Sound
    <3> QED  BY <1>0, <1>4, <3>1, EditSound
  <2> HIDE DEF Sound
  <2> QED  BY <1>3, <1>4, <1>5, <2>1, SoundFields
<1>7. ImageInv'
  <2> SUFFICES ASSUME NEW j \in DOMAIN ram.mem
               PROVE  /\ RowAlike(wal.mem[j], ram'.mem[j])
                      /\ j \notin env.bypassed => FenceAlike(wal.mem[j], ram'.mem[j])
                      /\ ~gap => /\ TextAlike(wal.mem[j], ram'.mem[j])
                                 /\ j \notin env'.moved =>
                                       wal.mem[j].item.realm = ram'.mem[j].item.realm
    BY <1>1, <1>3, <1>5 DEF ImageInv, RowAlike, FenceAlike, TextAlike
  <2>1. CASE j # i
    BY <1>3, <1>5, <2>1, MemRows
  <2>2. CASE j = i
    <3>1. ram'.mem[j] = x
      BY <1>3, <2>2
    <3> QED  BY <1>2, <1>5, <2>2, <3>1, MemRows DEF RowAlike, FenceAlike, TextAlike, Edit, Change
  <2> QED  BY <2>1, <2>2
<1>8. RealmOK(ram', env'.stray)
  <2>1. /\ \A j \in Mem!Live(ram) : j \in DOMAIN ram.mem /\ ~ram.mem[j].dead
        /\ i \in Mem!Live(ram) \/ ram.mem[i].dead
    BY DEF Mem!Live
  <2>2. /\ ram'.mem[i].item.realm = realm
        /\ \A j \in DOMAIN ram.mem : j # i => ram'.mem[j] = ram.mem[j]
        /\ DOMAIN ram'.mem = DOMAIN ram.mem
    BY <1>2, <1>3
  <2>3. ASSUME NEW p \in ram'.realm
        PROVE  /\ p[2] \in DOMAIN ram'.mem /\ p = <<ram'.mem[p[2]].item.realm, p[2]>>
               /\ p[2] \in Mem!Live(ram') \cup env'.stray
    <3>1. CASE p = <<realm, i>>
      BY <1>5, <1>6, <2>1, <2>2, <3>1
    <3>2. CASE p \in ram.realm /\ p # <<ram.mem[i].item.realm, i>>
      <4>1. /\ p[2] \in DOMAIN ram.mem /\ p = <<ram.mem[p[2]].item.realm, p[2]>>
            /\ p[2] \in Mem!Live(ram) \cup env.stray
        BY <3>2 DEF MemInv, RealmOK
      <4>2. p[2] # i
        BY <3>2, <4>1
      <4> QED  BY <1>5, <1>6, <2>2, <4>1, <4>2
    <3> QED  BY <1>3, <3>1, <3>2
  <2>4. ASSUME NEW j \in Mem!Live(ram') PROVE <<ram'.mem[j].item.realm, j>> \in ram'.realm
    <3>1. CASE j = i
      BY <1>3, <2>2, <3>1
    <3>2. CASE j # i
      BY <1>3, <1>6, <2>1, <2>2, <3>2 DEF MemInv, RealmOK
    <3> QED  BY <3>1, <3>2
  <2> QED  BY <2>3, <2>4 DEF RealmOK
<1>9. StatusInv'
  BY <1>2, <1>3, <1>5, StatusRow DEF MemInv
<1>10. ASSUME ~env'.cold PROVE CopyOK(ram')
  BY <1>2, <1>3, <1>5, <1>6, <1>10, CopyRow DEF MemInv, Edit, Change
<1>11. ASSUME env'.edited = {} PROVE LanesOK(ram')
  <2>1. \A j \in Mem!Live(ram) : /\ ram'.mem[j].item.kind = ram.mem[j].item.kind
                                 /\ ram'.mem[j].item.tag = ram.mem[j].item.tag
                                 /\ ram'.mem[j].item.key = ram.mem[j].item.key
    BY <1>2, <1>3 DEF Mem!Live
  <2>2. LanesOK(ram) /\ DOMAIN ram'.mem = DOMAIN ram.mem
    BY <1>3, <1>5, <1>11 DEF MemInv
  <2> QED  BY <1>3, <1>6, <2>1, <2>2, LanesSame
<1> HIDE DEF Sound, RealmOK, CopyOK, LanesOK, MemEnv
<1> QED  BY <1>1, <1>3, <1>5, <1>6, <1>7, <1>8, <1>9, <1>10, <1>11 DEF MemInv

\* Forgetting: out of the realm, no new pair of copies, no new answer of a lane.
LEMMA RealmForgotten ==
    ASSUME NEW s, NEW stray, RealmOK(s, stray), NEW i \in DOMAIN s.mem, NEW t, NEW x,
           t.mem = [s.mem EXCEPT ![i] = x], t.realm = s.realm \ {<<s.mem[i].item.realm, i>>},
           Mem!Live(t) = Mem!Live(s) \ {i}
    PROVE  RealmOK(t, stray)
<1>1. \A p \in t.realm : p \in s.realm /\ p[2] # i
  BY DEF RealmOK
<1>2. \A j \in Mem!Live(s) : j \in DOMAIN s.mem
  BY DEF Mem!Live
<1> QED  BY <1>1, <1>2 DEF RealmOK

LEMMA CopyForgotten ==
    ASSUME NEW s, CopyOK(s), NEW i \in DOMAIN s.mem, NEW t, NEW x,
           t.mem = [s.mem EXCEPT ![i] = x], x.chunk = s.mem[i].chunk, x.dead = TRUE,
           t.hash = s.hash, Mem!Live(t) = Mem!Live(s) \ {i}
    PROVE  CopyOK(t)
<1>1. \A c : Ghosted(s, c) => Ghosted(t, c)
  BY DEF Ghosted
<1>2. \A j \in Mem!Live(s) : j \in DOMAIN s.mem
  BY DEF Mem!Live
<1> QED  BY <1>1, <1>2 DEF CopyOK

LEMMA InCorrections ==
    ASSUME NEW s, NEW p
    PROVE  p \in Mem!Corrections(s) <=>
              \E j \in Mem!Live(s) : \E k \in Mem!CorrKeys(s.mem[j].item) : p = <<k, j>>
BY DEF Mem!Corrections

LEMMA LanesForgotten ==
    ASSUME NEW s, LanesOK(s), NEW i \in DOMAIN s.mem, NEW t, NEW x,
           t.mem = [s.mem EXCEPT ![i] = x], Mem!Live(t) = Mem!Live(s) \ {i},
           t.prov = s.prov, t.task = s.task, t.corr = s.corr
    PROVE  LanesOK(t)
<1>1. DOMAIN t.mem = DOMAIN s.mem /\ \A j \in Mem!Live(t) : t.mem[j] = s.mem[j] /\ j \in Mem!Live(s)
  BY DEF Mem!Live
<1>2. ProvOK(t) /\ TaskOK(t)
  BY <1>1 DEF LanesOK, ProvOK, TaskOK
<1>3. ASSUME NEW p PROVE p \in Mem!Corrections(t) <=> p \in Mem!Corrections(s) /\ p[2] # i
  <2>1. p \in Mem!Corrections(t) <=>
           \E j \in Mem!Live(t) : \E k \in Mem!CorrKeys(t.mem[j].item) : p = <<k, j>>
    BY InCorrections
  <2>2. p \in Mem!Corrections(s) <=>
           \E j \in Mem!Live(s) : \E k \in Mem!CorrKeys(s.mem[j].item) : p = <<k, j>>
    BY InCorrections
  <2> HIDE DEF Mem!CorrKeys
  <2> QED  BY <1>1, <2>1, <2>2
<1>4. CorrOK(t)
  <2> HIDE DEF Mem!Corrections
  <2> QED  BY <1>1, <1>3 DEF LanesOK, CorrOK
<1> QED  BY <1>2, <1>4 DEF LanesOK

LEMMA ForgetStep ==
    ASSUME MemInv, NEW i \in DOMAIN ram.mem, Mem!Forget(i)
    PROVE  MemInv'
<1> DEFINE x == Mem!Deleted(ram.mem[i])
           y == Mem!Deleted(wal.mem[i])
<1>0. /\ MemShape(ram) /\ MemShape(wal) /\ MemRow(ram.mem[i]) /\ MemRow(wal.mem[i])
      /\ i \in DOMAIN wal.mem /\ Sound(ram, env.risen) /\ Sound(wal, env.risen)
      /\ RowAlike(wal.mem[i], ram.mem[i])
  BY MemRows DEF MemInv
<1>1. /\ ram' = Mem!Forgotten(ram, i) /\ wal' = Mem!Forgotten(wal, i)
      /\ todo' = todo /\ gap' = gap
      /\ env' = [env EXCEPT !.calls = @ + 1, !.risen = @ \ {i}]
  <2> HIDE DEF Mem!Forgotten
  <2> QED  BY <1>0 DEF Mem!Forget, Mem!Commit, Mem!Replay
<1>2. /\ SameEnv /\ env'.bypassed = env.bypassed /\ env'.edited = env.edited
      /\ env'.asked = env.asked /\ env'.risen = env.risen \ {i}
  BY <1>1 DEF MemInv, MemEnv, SameEnv
<1>3. /\ ram'.mem = [ram.mem EXCEPT ![i] = x] /\ ram'.hash = ram.hash
      /\ ram'.realm = ram.realm \ {<<ram.mem[i].item.realm, i>>}
      /\ ram'.prov = ram.prov /\ ram'.task = ram.task /\ ram'.corr = ram.corr
      /\ wal'.mem = [wal.mem EXCEPT ![i] = y]
  <2> HIDE DEF x, y, Mem!Forgotten
  <2> QED  BY <1>0, <1>1, ForgottenIs DEF x, y
<1>4. /\ Sound(ram', env'.risen) /\ Mem!Live(ram') = Mem!Live(ram) \ {i}
      /\ Sound(wal', env'.risen)
  <2>1. /\ env.risen \ {i} \subseteq env'.risen /\ Sound(ram, env.risen) /\ Sound(wal, env.risen)
        /\ ram' = Mem!Forgotten(ram, i) /\ wal' = Mem!Forgotten(wal, i) /\ i \in DOMAIN wal.mem
    BY <1>0, <1>1, <1>2
  <2> HIDE DEF Sound, Mem!Forgotten
  <2> QED  BY <2>1, ForgottenSound
<1>5. /\ x.dead = TRUE /\ x.chunk = ram.mem[i].chunk /\ x.status = ram.mem[i].status
      /\ x.fence = ram.mem[i].fence /\ x.pos = ram.mem[i].pos /\ x.tier = ram.mem[i].tier
      /\ x.item = Mem!WithContent(ram.mem[i].item, Mem!Cleared)
  BY <1>0, DeletedIs
<1>6. /\ y.dead = TRUE /\ y.chunk = wal.mem[i].chunk /\ y.status = wal.mem[i].status
      /\ y.fence = wal.mem[i].fence /\ y.pos = wal.mem[i].pos /\ y.tier = wal.mem[i].tier
      /\ y.item = Mem!WithContent(wal.mem[i].item, Mem!Cleared)
  BY <1>0, DeletedIs
<1> HIDE DEF x, y
<1>7. ImageInv'
  <2>1. RowAlike(y, x)
    BY <1>0, <1>5, <1>6 DEF RowAlike, Mem!WithContent
  <2>2. i \notin env'.bypassed => FenceAlike(y, x)
    BY <1>2, <1>5, <1>6, MemRows DEF FenceAlike
  <2>3. ~gap => TextAlike(y, x) /\ (i \notin env'.moved => y.item.realm = x.item.realm)
    <3> SUFFICES ASSUME ~gap
                 PROVE  TextAlike(y, x) /\ (i \notin env'.moved => y.item.realm = x.item.realm)
      OBVIOUS
    <3>1. /\ TextAlike(wal.mem[i], ram.mem[i])
          /\ i \notin env.moved => wal.mem[i].item.realm = ram.mem[i].item.realm
      BY MemRows
    <3>2. env'.moved = env.moved
      BY <1>2 DEF SameEnv
    <3>3. /\ wal.mem[i].item.kind = ram.mem[i].item.kind
          /\ y.dead = x.dead
      BY <1>5, <1>6, <3>1, Zenon DEF TextAlike
    <3>4. /\ y.item.kind = x.item.kind /\ y.item.tag = x.item.tag /\ y.item.key = x.item.key
          /\ y.item.text = x.item.text
          /\ x.item.realm = ram.mem[i].item.realm /\ y.item.realm = wal.mem[i].item.realm
      BY <1>5, <1>6, <3>3 DEF Mem!WithContent
    <3> QED  BY <3>1, <3>2, <3>3, <3>4, Zenon DEF TextAlike
  <2> HIDE DEF RowAlike, FenceAlike, TextAlike
  <2> QED  BY <1>0, <1>1, <1>2, <1>3, <2>1, <2>2, <2>3, ImageRow DEF MemInv, SameEnv
<1>8. RealmOK(ram', env'.stray)
  <2>1. RealmOK(ram, env.stray) /\ env'.stray = env.stray
    BY <1>2 DEF MemInv, SameEnv
  <2>2. /\ ram'.mem = [ram.mem EXCEPT ![i] = x]
        /\ ram'.realm = ram.realm \ {<<ram.mem[i].item.realm, i>>}
        /\ Mem!Live(ram') = Mem!Live(ram) \ {i}
    BY <1>3, <1>4
  <2> HIDE DEF RealmOK
  <2> QED  BY <2>1, <2>2, RealmForgotten
<1>9. StatusInv'
  BY <1>2, <1>3, <1>5, StatusRow DEF MemInv
<1>10. ASSUME ~env'.cold PROVE CopyOK(ram')
  <2>1. CopyOK(ram)
    BY <1>2, <1>10 DEF MemInv, SameEnv
  <2> HIDE DEF CopyOK
  <2> QED  BY <1>3, <1>4, <1>5, <2>1, CopyForgotten
<1>11. ASSUME env'.edited = {} PROVE LanesOK(ram')
  <2>1. LanesOK(ram)
    BY <1>2, <1>11 DEF MemInv
  <2>2. /\ ram'.mem = [ram.mem EXCEPT ![i] = x] /\ Mem!Live(ram') = Mem!Live(ram) \ {i}
        /\ ram'.prov = ram.prov /\ ram'.task = ram.task /\ ram'.corr = ram.corr
    BY <1>3, <1>4
  <2> HIDE DEF LanesOK
  <2> QED  BY <2>1, <2>2, LanesForgotten
<1> HIDE DEF Sound, RealmOK, CopyOK, LanesOK, MemEnv
<1> QED  BY <1>1, <1>2, <1>3, <1>4, <1>7, <1>8, <1>9, <1>10, <1>11 DEF MemInv, SameEnv

\* forget whose sync fails: the log alone forgets.
LEMMA UnsyncedStep ==
    ASSUME MemInv, NEW i \in DOMAIN ram.mem, Mem!ForgetUnsynced(i)
    PROVE  MemInv'
<1> DEFINE y == Mem!Deleted(wal.mem[i])
<1>0. /\ MemShape(wal) /\ MemRow(wal.mem[i]) /\ i \in DOMAIN wal.mem /\ Sound(wal, env.risen)
      /\ RowAlike(wal.mem[i], ram.mem[i])
  BY MemRows DEF MemInv
<1>1. /\ ram' = ram /\ wal' = Mem!Forgotten(wal, i) /\ todo' = todo /\ gap' = TRUE /\ Mem!Called
  <2> HIDE DEF Mem!Forgotten
  <2> QED  BY <1>0 DEF Mem!ForgetUnsynced, Mem!Replay
<1>2. /\ SameEnv /\ env'.bypassed = env.bypassed /\ env'.edited = env.edited
      /\ env'.asked = env.asked /\ env'.risen = env.risen
  BY <1>1, CalledEnv DEF MemInv
<1>3. wal'.mem = [wal.mem EXCEPT ![i] = y]
  <2> HIDE DEF y, Mem!Forgotten
  <2> QED  BY <1>0, <1>1, ForgottenIs DEF y
<1>4. Sound(wal', env'.risen)
  <2>1. env.risen \ {i} \subseteq env.risen
    OBVIOUS
  <2> HIDE DEF Sound, Mem!Forgotten
  <2> QED  BY <1>0, <1>1, <1>2, <2>1, ForgottenSound
<1>5. /\ y.dead = TRUE /\ y.chunk = wal.mem[i].chunk /\ y.status = wal.mem[i].status
      /\ y.fence = wal.mem[i].fence /\ y.pos = wal.mem[i].pos /\ y.tier = wal.mem[i].tier
      /\ y.item.vec = wal.mem[i].item.vec
  BY <1>0, DeletedIs
<1> HIDE DEF y
<1>6. ImageInv'
  <2> SUFFICES ASSUME NEW j \in DOMAIN ram.mem
               PROVE  /\ RowAlike(wal'.mem[j], ram.mem[j])
                      /\ j \notin env.bypassed => FenceAlike(wal'.mem[j], ram.mem[j])
    BY <1>1, <1>2 DEF ImageInv, RowAlike, FenceAlike
  <2>1. CASE j = i
    BY <1>0, <1>3, <1>5, <2>1, MemRows DEF RowAlike, FenceAlike
  <2>2. CASE j # i
    BY <1>3, <2>2, MemRows DEF MemInv
  <2> QED  BY <2>1, <2>2
<1>7. StatusInv'
  BY <1>1, <1>2 DEF MemInv, StatusInv
<1> HIDE DEF Sound, RealmOK, CopyOK, LanesOK, MemEnv
<1> QED  BY <1>1, <1>2, <1>3, <1>4, <1>6, <1>7 DEF MemInv, SameEnv

\* A new memory, the last one so far.
LEMMA LanesNew ==
    ASSUME NEW s, LanesOK(s), NEW n \in Nat, DOMAIN s.mem = 1 .. n, NEW t, NEW i, i = n + 1,
           NEW item, DOMAIN t.mem = DOMAIN s.mem \cup {i}, t.mem[i].item = item,
           \A j \in DOMAIN s.mem : t.mem[j] = s.mem[j],
           Mem!Live(t) = Mem!Live(s) \cup {i},
           t.prov = Mem!OrInsert(s.prov, Mem!ProvKeys(item), i),
           t.task = Mem!InsertAll(s.task, Mem!TaskKeys(item), i),
           t.corr = s.corr \cup (Mem!CorrKeys(item) \X {i})
    PROVE  LanesOK(t)
<1> HIDE DEF Mem!ProvKeys, Mem!TaskKeys, Mem!CorrKeys
<1>1. /\ \A j \in Mem!Live(s) : j \in DOMAIN s.mem
      /\ \A j \in DOMAIN s.mem : j \in Nat /\ j < i
      /\ i \notin DOMAIN s.mem /\ i \in Nat
  BY DEF Mem!Live
<1>2. ProvOK(t)
  <2>1. /\ DOMAIN t.prov = DOMAIN s.prov \cup Mem!ProvKeys(item)
        /\ \A k \in DOMAIN s.prov : t.prov[k] = s.prov[k]
        /\ \A k \in Mem!ProvKeys(item) : k \notin DOMAIN s.prov => t.prov[k] = i
    BY DEF Mem!OrInsert
  <2>2. ASSUME NEW j \in Mem!Live(t), NEW k \in Mem!ProvKeys(t.mem[j].item)
        PROVE  k \in DOMAIN t.prov /\ t.prov[k] <= j
    <3>1. CASE j \in Mem!Live(s)
      BY <1>1, <2>1, <3>1 DEF LanesOK, ProvOK
    <3>2. CASE j = i
      <4>1. k \in DOMAIN s.prov => s.prov[k] \in DOMAIN s.mem
        BY DEF LanesOK, ProvOK
      <4> QED  BY <1>1, <2>1, <3>2, <4>1
    <3> QED  BY <3>1, <3>2
  <2>3. ASSUME NEW k \in DOMAIN t.prov
        PROVE  /\ t.prov[k] \in DOMAIN t.mem
               /\ t.prov[k] \in Mem!Live(t) => k \in Mem!ProvKeys(t.mem[t.prov[k]].item)
    <3>1. CASE k \in DOMAIN s.prov
      <4>1. /\ s.prov[k] \in DOMAIN s.mem
            /\ s.prov[k] \in Mem!Live(s) => k \in Mem!ProvKeys(s.mem[s.prov[k]].item)
        BY <3>1 DEF LanesOK, ProvOK
      <4> QED  BY <1>1, <2>1, <3>1, <4>1
    <3>2. CASE k \notin DOMAIN s.prov
      BY <2>1, <3>2
    <3> QED  BY <3>1, <3>2
  <2> QED  BY <2>2, <2>3 DEF ProvOK
<1>3. TaskOK(t)
  <2>1. /\ DOMAIN t.task = DOMAIN s.task \cup Mem!TaskKeys(item)
        /\ \A k \in Mem!TaskKeys(item) : t.task[k] = i
        /\ \A k \in DOMAIN s.task : k \notin Mem!TaskKeys(item) => t.task[k] = s.task[k]
    BY DEF Mem!InsertAll
  <2>2. ASSUME NEW j \in Mem!Live(t), NEW k \in Mem!TaskKeys(t.mem[j].item)
        PROVE  k \in DOMAIN t.task /\ j <= t.task[k]
    <3>1. CASE j \in Mem!Live(s)
      <4>1. k \in DOMAIN s.task /\ j <= s.task[k]
        BY <1>1, <3>1 DEF LanesOK, TaskOK
      <4>2. CASE k \in Mem!TaskKeys(item)
        BY <1>1, <2>1, <3>1, <4>2
      <4>3. CASE k \notin Mem!TaskKeys(item)
        BY <2>1, <4>1, <4>3
      <4> QED  BY <4>2, <4>3
    <3>2. CASE j = i
      BY <1>1, <2>1, <3>2
    <3> QED  BY <3>1, <3>2
  <2>3. ASSUME NEW k \in DOMAIN t.task
        PROVE  /\ t.task[k] \in DOMAIN t.mem
               /\ t.task[k] \in Mem!Live(t) => k \in Mem!TaskKeys(t.mem[t.task[k]].item)
    <3>1. CASE k \in Mem!TaskKeys(item)
      BY <2>1, <3>1
    <3>2. CASE k \notin Mem!TaskKeys(item)
      <4>1. /\ s.task[k] \in DOMAIN s.mem /\ t.task[k] = s.task[k]
            /\ s.task[k] \in Mem!Live(s) => k \in Mem!TaskKeys(s.mem[s.task[k]].item)
        BY <2>1, <3>2 DEF LanesOK, TaskOK
      <4> QED  BY <1>1, <4>1
    <3> QED  BY <3>1, <3>2
  <2> QED  BY <2>2, <2>3 DEF TaskOK
<1>4. CorrOK(t)
  <2>1. ASSUME NEW p
        PROVE  p \in Mem!Corrections(t) <=>
                  p \in Mem!Corrections(s) \/ \E k \in Mem!CorrKeys(item) : p = <<k, i>>
    <3>1. p \in Mem!Corrections(t) <=>
             \E j \in Mem!Live(t) : \E k \in Mem!CorrKeys(t.mem[j].item) : p = <<k, j>>
      BY InCorrections
    <3>2. p \in Mem!Corrections(s) <=>
             \E j \in Mem!Live(s) : \E k \in Mem!CorrKeys(s.mem[j].item) : p = <<k, j>>
      BY InCorrections
    <3> QED  BY <1>1, <3>1, <3>2
  <2>2. ASSUME NEW p
        PROVE  p \in t.corr /\ p[2] \in Mem!Live(t) <=> p \in Mem!Corrections(t)
    <3> HIDE DEF Mem!Corrections
    <3>1. p \in s.corr => p[2] \in DOMAIN s.mem
      BY DEF LanesOK, CorrOK
    <3>2. p \in s.corr /\ p[2] \in Mem!Live(s) <=> p \in Mem!Corrections(s)
      BY DEF LanesOK, CorrOK
    <3>3. p \in t.corr <=> p \in s.corr \/ \E k \in Mem!CorrKeys(item) : p = <<k, i>>
      OBVIOUS
    <3>4. (\E k \in Mem!CorrKeys(item) : p = <<k, i>>) => p[2] = i
      OBVIOUS
    <3> QED  BY <1>1, <2>1, <3>1, <3>2, <3>3, <3>4
  <2>3. \A p \in t.corr : p[2] \in DOMAIN t.mem
    BY DEF LanesOK, CorrOK
  <2> HIDE DEF Mem!Corrections
  <2> QED  BY <2>2, <2>3 DEF CorrOK
<1> QED  BY <1>2, <1>3, <1>4 DEF LanesOK

LEMMA CopyNew ==
    ASSUME NEW s, NEW risen, CopyOK(s), Sound(s, risen), NEW t, NEW i, i \notin DOMAIN s.mem,
           NEW item, DOMAIN t.mem = DOMAIN s.mem \cup {i}, t.mem[i].chunk = item,
           \A j \in DOMAIN s.mem : t.mem[j] = s.mem[j],
           Mem!Live(t) = Mem!Live(s) \cup {i},
           t.hash = Mem!OrInsert(s.hash, {item}, i),
           ~\E g \in Mem!Live(s) : item \in DOMAIN s.hash /\ s.hash[item] = g
    PROVE  CopyOK(t)
<1>1. \A j \in Mem!Live(s) : j \in DOMAIN s.mem
  BY DEF Mem!Live
<1>2. DOMAIN t.hash = DOMAIN s.hash \cup {item}
  BY DEF Mem!OrInsert
<1>3. \A c : Ghosted(s, c) => Ghosted(t, c)
  BY DEF Ghosted
<1>4. ASSUME NEW j \in Mem!Live(s), s.mem[j].chunk = item PROVE Ghosted(s, item)
  <2>1. item \in DOMAIN s.hash
    BY <1>4 DEF CopyOK
  <2>2. s.hash[item] \in DOMAIN s.mem /\ s.mem[s.hash[item]].chunk = item
    BY <2>1 DEF Sound, Holds
  <2>3. s.hash[item] \notin Mem!Live(s)
    BY <2>1
  <2> QED  BY <2>2, <2>3 DEF Ghosted, Mem!Live
<1>5. \A j \in Mem!Live(t) : t.mem[j].chunk \in DOMAIN t.hash
  BY <1>1, <1>2 DEF CopyOK
<1>6. ASSUME NEW j \in Mem!Live(t), NEW k \in Mem!Live(t), t.mem[j].chunk = t.mem[k].chunk, j # k
      PROVE  Ghosted(t, t.mem[j].chunk)
  <2>1. CASE j = i
    BY <1>1, <1>3, <1>4, <1>6, <2>1
  <2>2. CASE k = i
    BY <1>1, <1>3, <1>4, <1>6, <2>2
  <2>3. CASE j \in Mem!Live(s) /\ k \in Mem!Live(s)
    BY <1>1, <1>3, <1>6, <2>3 DEF CopyOK
  <2> QED  BY <2>1, <2>2, <2>3
<1> QED  BY <1>5, <1>6 DEF CopyOK

LEMMA RealmNew ==
    ASSUME NEW s, NEW stray, RealmOK(s, stray), NEW t, NEW i, i \notin DOMAIN s.mem,
           NEW item, DOMAIN t.mem = DOMAIN s.mem \cup {i}, t.mem[i].item = item,
           \A j \in DOMAIN s.mem : t.mem[j] = s.mem[j],
           Mem!Live(t) = Mem!Live(s) \cup {i}, t.realm = s.realm \cup {<<item.realm, i>>}
    PROVE  RealmOK(t, stray)
<1>1. \A j \in Mem!Live(s) : j \in DOMAIN s.mem
  BY DEF Mem!Live
<1> QED  BY <1>1 DEF RealmOK

\* What a new memory is, in RAM and on the log.
NewIs(i, item, x, y) ==
    /\ todo' = todo /\ gap' = gap /\ env' = env
    /\ FreshRow(x, item) /\ FreshRow(y, item) /\ RowAlike(y, x) /\ FenceAlike(y, x)
    /\ Stores(ram', ram, i, item, x) /\ Stores(wal', wal, i, item, y)
    /\ ram'.prov = Mem!OrInsert(ram.prov, Mem!ProvKeys(item), i)
    /\ ram'.task = Mem!InsertAll(ram.task, Mem!TaskKeys(item), i)
    /\ ram'.corr = ram.corr \cup (Mem!CorrKeys(item) \X {i})

LEMMA NewRows ==
    ASSUME NEW item \in Items, NEW confidence
    PROVE  LET x == Mem!NewState(item, confidence)
               y == Mem!NewState(item, 100)
           IN /\ FreshRow(x, item) /\ FreshRow(y, item)
              /\ RowAlike(y, x) /\ FenceAlike(y, x)
BY StoreAssumption DEF Mem!NewState, MemRow, ItemShape, FreshRow, RowAlike, FenceAlike

LEMMA NewMeans ==
    ASSUME MemShape(ram), MemShape(wal), NEW item \in Items, NEW confidence,
           Mem!NewMemory(item, confidence)
    PROVE  \E x, y : NewIs(Mem!Cardinality(DOMAIN ram.mem) + 1, item, x, y)
<1> DEFINE i == Mem!Cardinality(DOMAIN ram.mem) + 1
           x == Mem!NewState(item, confidence)
           y == Mem!NewState(item, 100)
           words == item.kind # "process"
           stored == Mem!Indexed([ram EXCEPT !.mem = Mem!Insert(@, i, x)], i, item, words)
<1>2. /\ ram' = [stored EXCEPT !.done = Mem!OrInsert(@, Mem!DoneKeys(item), i),
                               !.prov = Mem!OrInsert(@, Mem!ProvKeys(item), i),
                               !.task = Mem!InsertAll(@, Mem!TaskKeys(item), i),
                               !.corr = @ \cup (Mem!CorrKeys(item) \X {i})]
      /\ wal' = Mem!Replay(wal, [op |-> "put", id |-> i, item |-> item])
      /\ todo' = todo /\ gap' = gap /\ env' = env
  BY Zenon DEF Mem!NewMemory, Mem!Commit
<1>3. wal' = Mem!Indexed([wal EXCEPT !.mem = Mem!Insert(@, i, y)], i, item, TRUE)
  <2> HIDE DEF i, Mem!Indexed, Mem!NewState, Mem!Insert
  <2> QED  BY <1>2 DEF Mem!Replay, y
<1>4. FreshRow(x, item) /\ FreshRow(y, item) /\ RowAlike(y, x) /\ FenceAlike(y, x)
  BY NewRows, Zenon
<1>5. words \in BOOLEAN /\ StoredBy(stored, ram, i, item, x, words)
      /\ StoredBy(wal', wal, i, item, y, TRUE)
  <2> HIDE DEF i, x, y
  <2> QED  BY <1>3, Zenon DEF StoredBy
<1> HIDE DEF i, x, y, stored
<1>6. /\ Stores(stored, ram, i, item, x)
      /\ stored.done = ram.done /\ stored.prov = ram.prov /\ stored.task = ram.task
      /\ stored.corr = ram.corr
  <2>1. item.kind # "process" => words
    OBVIOUS
  <2> HIDE DEF words, MemShape
  <2> QED  BY <1>5, <2>1, StoredIs
<1>7. /\ DOMAIN ram' = DOMAIN stored /\ ram'.mem = stored.mem /\ ram'.hash = stored.hash
      /\ ram'.realm = stored.realm /\ ram'.sem = stored.sem /\ ram'.word = stored.word
      /\ ram'.time = stored.time
      /\ ram'.prov = Mem!OrInsert(ram.prov, Mem!ProvKeys(item), i)
      /\ ram'.task = Mem!InsertAll(ram.task, Mem!TaskKeys(item), i)
      /\ ram'.corr = ram.corr \cup (Mem!CorrKeys(item) \X {i})
  <2>1. DOMAIN stored = DOMAIN ram
    BY <1>6 DEF Stores
  <2> HIDE DEF Mem!OrInsert, Mem!InsertAll, Mem!ProvKeys, Mem!DoneKeys, Mem!TaskKeys, Mem!CorrKeys
  <2> QED  BY <1>2, <1>6, <2>1 DEF MemShape, MemFields
<1>8. Stores(wal', wal, i, item, y)
  <2>1. TRUE \in BOOLEAN
    OBVIOUS
  <2> HIDE DEF MemShape
  <2> QED  BY <1>5, <2>1, StoredIs, Zenon
<1>9. Stores(ram', ram, i, item, x)
  BY <1>6, <1>7, Zenon DEF Stores
<1>10. NewIs(i, item, x, y)
  BY <1>2, <1>4, <1>7, <1>8, <1>9, Zenon DEF NewIs
<1> QED  BY <1>10, Zenon DEF i

LEMMA NewStep ==
    ASSUME MemInv, NEW item \in Items, NEW confidence, Mem!HashHit(item) = {},
           Mem!NewMemory(item, confidence)
    PROVE  MemInv'
<1> DEFINE i == Mem!Cardinality(DOMAIN ram.mem) + 1
<1>0. PICK n \in Nat : DOMAIN ram.mem = 1 .. n
  BY DEF MemInv
<1>1. i = n + 1 /\ i \in Nat /\ i \notin DOMAIN ram.mem /\ i \notin DOMAIN wal.mem
  <2>1. Cardinality(1 .. n) = n
    BY FS_Interval, SMT
  <2>2. Mem!Cardinality(DOMAIN ram.mem) = Cardinality(DOMAIN ram.mem)
    BY DEF Mem!Cardinality, Cardinality, Mem!IsFiniteSet, IsFiniteSet
  <2> QED  BY <1>0, <2>1, <2>2 DEF MemInv
<1>2. Sound(ram, env.risen) /\ Sound(wal, env.risen) /\ MemShape(ram) /\ MemShape(wal)
  BY DEF MemInv, Sound
<1>3. PICK x, y : NewIs(i, item, x, y)
  <2> HIDE DEF NewIs, MemShape
  <2> QED  BY <1>2, NewMeans
<1> HIDE DEF i
<1>4. /\ todo' = todo /\ gap' = gap /\ env' = env
      /\ FreshRow(x, item) /\ FreshRow(y, item) /\ RowAlike(y, x) /\ FenceAlike(y, x)
      /\ Stores(ram', ram, i, item, x) /\ Stores(wal', wal, i, item, y)
  BY <1>3, Zenon DEF NewIs
<1>5. /\ Sound(ram', env.risen) /\ Mem!Live(ram') = Mem!Live(ram) \cup {i}
      /\ DOMAIN ram'.mem = DOMAIN ram.mem \cup {i} /\ ram'.mem[i] = x
      /\ \A j \in DOMAIN ram.mem : ram'.mem[j] = ram.mem[j]
  <2>1. /\ Sound(ram, env.risen) /\ i \notin DOMAIN ram.mem /\ FreshRow(x, item)
        /\ Stores(ram', ram, i, item, x)
    BY <1>1, <1>2, <1>4
  <2>2. Sound(ram', env.risen) /\ Mem!Live(ram') = Mem!Live(ram) \cup {i}
    BY <2>1, StoredSound
  <2>3. /\ DOMAIN ram'.mem = DOMAIN ram.mem \cup {i} /\ ram'.mem[i] = x
        /\ \A j \in DOMAIN ram.mem : ram'.mem[j] = ram.mem[j]
    BY <2>1, StoredSound
  <2> QED  BY <2>2, <2>3
<1>6. /\ Sound(wal', env.risen)
      /\ DOMAIN wal'.mem = DOMAIN wal.mem \cup {i} /\ wal'.mem[i] = y
      /\ \A j \in DOMAIN wal.mem : wal'.mem[j] = wal.mem[j]
  <2> HIDE DEF Sound, FreshRow, Stores
  <2> QED  BY <1>1, <1>2, <1>4, StoredSound
<1>7. ImageInv'
  <2> SUFFICES ASSUME NEW j \in DOMAIN ram'.mem
               PROVE  /\ RowAlike(wal'.mem[j], ram'.mem[j])
                      /\ j \notin env.bypassed => FenceAlike(wal'.mem[j], ram'.mem[j])
                      /\ ~gap => /\ TextAlike(wal'.mem[j], ram'.mem[j])
                                 /\ j \notin env.moved =>
                                       wal'.mem[j].item.realm = ram'.mem[j].item.realm
    BY <1>4 DEF ImageInv, RowAlike, FenceAlike, TextAlike
  <2>1. CASE j \in DOMAIN ram.mem
    <3>1. wal'.mem[j] = wal.mem[j] /\ ram'.mem[j] = ram.mem[j]
      BY <1>5, <1>6, <2>1 DEF MemInv
    <3> HIDE DEF RowAlike, FenceAlike, TextAlike
    <3> QED  BY <2>1, <3>1, MemRows
  <2>2. CASE j = i
    BY <1>4, <1>5, <1>6, <2>2 DEF TextAlike, FreshRow
  <2> QED  BY <1>5, <2>1, <2>2
<1>8. RealmOK(ram', env.stray)
  <2>1. ram'.mem[i].item = item /\ ram'.realm = ram.realm \cup {<<item.realm, i>>}
        /\ RealmOK(ram, env.stray)
    BY <1>4, <1>5 DEF MemInv, Stores, FreshRow
  <2> HIDE DEF RealmOK
  <2> QED  BY <1>1, <1>5, <2>1, RealmNew, Zenon
<1>9. StatusInv'
  BY <1>4, <1>5 DEF MemInv, StatusInv
<1>10. ASSUME ~env.cold PROVE CopyOK(ram')
  <2>1. ~\E g \in Mem!Live(ram) : item \in DOMAIN ram.hash /\ ram.hash[item] = g
    BY DEF Mem!HashHit
  <2>2. CopyOK(ram) /\ ram'.hash = Mem!OrInsert(ram.hash, {item}, i) /\ ram'.mem[i].chunk = item
    BY <1>4, <1>5, <1>10 DEF MemInv, Stores, FreshRow
  <2> HIDE DEF CopyOK, Sound, Mem!OrInsert
  <2> QED  BY <1>1, <1>2, <1>5, <2>1, <2>2, CopyNew
<1>11. ASSUME env.edited = {} PROVE LanesOK(ram')
  <2> HIDE DEF LanesOK, Mem!OrInsert, Mem!InsertAll
  <2>1. LanesOK(ram) /\ ram'.mem[i].item = item
    BY <1>4, <1>5, <1>11 DEF MemInv, FreshRow
  <2>2. /\ ram'.prov = Mem!OrInsert(ram.prov, Mem!ProvKeys(item), i)
        /\ ram'.task = Mem!InsertAll(ram.task, Mem!TaskKeys(item), i)
        /\ ram'.corr = ram.corr \cup (Mem!CorrKeys(item) \X {i})
    BY <1>3, Zenon DEF NewIs
  <2> QED  BY <1>0, <1>1, <1>5, <2>1, <2>2, LanesNew
<1>12. n + 1 \in Nat /\ DOMAIN ram'.mem = 1 .. (n + 1) /\ DOMAIN wal'.mem = DOMAIN ram'.mem
  BY <1>0, <1>1, <1>5, <1>6 DEF MemInv
<1> HIDE DEF Sound, RealmOK, CopyOK, LanesOK, MemEnv
<1> QED  BY <1>4, <1>5, <1>6, <1>7, <1>8, <1>9, <1>10, <1>11, <1>12 DEF MemInv, MemEnv

\* A saved body: everything RAM has but chunk_hash_idx.
LEMMA SaveStep ==
    ASSUME MemInv, Mem!Save
    PROVE  MemInv'
<1>1. /\ ram' = ram /\ wal' = Mem!Body(ram) /\ todo' = todo /\ gap' = FALSE
      /\ env' = [env EXCEPT !.moved = {}, !.bypassed = {}]
  BY DEF Mem!Save
<1>2. MemShape(ram) /\ Sound(ram, env.risen) /\ MemEnv
  BY DEF MemInv, Sound
<1>3. wal'.mem = ram.mem /\ Sound(wal', env.risen)
  <2> HIDE DEF Sound, MemShape
  <2> QED  BY <1>1, <1>2, BodyIs, BodySound
<1>4. /\ MemEnv' /\ env'.edited = env.edited /\ env'.stray = env.stray /\ env'.cold = env.cold
      /\ env'.asked = env.asked /\ env'.risen = env.risen
  BY <1>1, <1>2 DEF MemEnv
<1>5. ImageInv'
  BY <1>1, <1>3 DEF ImageInv, RowAlike, FenceAlike, TextAlike
<1>6. StatusInv'
  BY <1>1, <1>4 DEF MemInv, StatusInv
<1> HIDE DEF Sound, RealmOK, CopyOK, LanesOK, MemEnv
<1> QED  BY <1>1, <1>2, <1>3, <1>4, <1>5, <1>6 DEF MemInv

LEMMA TickStep ==
    ASSUME MemInv, Mem!Tick
    PROVE  MemInv'
<1>1. /\ ram' = ram /\ wal' = wal /\ todo' = todo /\ gap' = gap
      /\ env' = [env EXCEPT !.now = @ + 1]
  BY DEF Mem!Tick
<1>2. /\ MemEnv' /\ env'.edited = env.edited /\ env'.stray = env.stray /\ env'.cold = env.cold
      /\ env'.asked = env.asked /\ env'.moved = env.moved /\ env'.bypassed = env.bypassed
      /\ env'.risen = env.risen
  BY <1>1 DEF MemInv, MemEnv
<1>3. ImageInv' /\ StatusInv'
  BY <1>1, <1>2 DEF MemInv, ImageInv, StatusInv, RowAlike, FenceAlike, TextAlike
<1> HIDE DEF Sound, RealmOK, CopyOK, LanesOK, MemEnv
<1> QED  BY <1>1, <1>2, <1>3 DEF MemInv

LEMMA MemStutter ==
    ASSUME MemInv, UNCHANGED Mem!vars
    PROVE  MemInv'
<1>1. ram' = ram /\ wal' = wal /\ todo' = todo /\ gap' = gap /\ env' = env
  BY DEF Mem!vars
<1>2. ImageInv' /\ StatusInv'
  BY <1>1 DEF MemInv, ImageInv, StatusInv, RowAlike, FenceAlike, TextAlike
<1> HIDE DEF Sound, RealmOK, CopyOK, LanesOK
<1> QED  BY <1>1, <1>2 DEF MemInv, MemEnv

\* remap_realms and trim_realm_names: the live memories whose realm is renamed.
\* What a move leaves of a row.
MovedRow(x, st) ==
    /\ Edit(x, st) /\ x.item.kind = st.item.kind /\ x.item.tag = st.item.tag
    /\ x.item.key = st.item.key /\ x.item.text = st.item.text
    /\ x.status = st.status /\ x.fence = st.fence /\ x.pos = st.pos /\ x.tier = st.tier

LEMMA InRealmIs ==
    ASSUME NEW st, MemRow(st), NEW v
    PROVE  LET x == Mem!InRealm(st, v) IN MovedRow(x, st) /\ x.item.realm = v
BY DEF MemRow, ItemShape, MovedRow, Edit, Change, Mem!InRealm

LEMMA RemapIs ==
    ASSUME NEW s, NEW risen, Sound(s, risen), NEW stray, RealmOK(s, stray), NEW map,
           NEW t, t = Mem!Remapped(s, map)
    PROVE  /\ DOMAIN t.mem = DOMAIN s.mem /\ Mem!Live(t) = Mem!Live(s)
           /\ Sound(t, risen) /\ RealmOK(t, stray) /\ t.hash = s.hash
           /\ t.prov = s.prov /\ t.task = s.task /\ t.corr = s.corr
           /\ \A j \in DOMAIN s.mem : /\ MovedRow(t.mem[j], s.mem[j])
                                      /\ j \notin Mem!Moving(s, map) => t.mem[j] = s.mem[j]
<1> DEFINE hit == Mem!Moving(s, map)
           old(j) == s.mem[j].item.realm
           new(j) == map[s.mem[j].item.realm]
           rows == [i \in DOMAIN s.mem |-> IF i \in hit THEN Mem!InRealm(s.mem[i], new(i))
                                           ELSE s.mem[i]]
           realm == (s.realm \ {<<old(i), i>> : i \in hit}) \cup {<<new(i), i>> : i \in hit}
<1>1. t = [s EXCEPT !.mem = rows, !.realm = realm]
  BY Zenon DEF Mem!Remapped
<1>0. \A j \in hit : j \in Mem!Live(s)
  BY DEF Mem!Moving
<1> HIDE DEF hit, new
<1>2. DOMAIN s = MemFields /\ \A j \in DOMAIN s.mem : MemRow(s.mem[j])
  BY DEF Sound, MemShape
<1> HIDE DEF rows, realm
<1>3. /\ DOMAIN t = DOMAIN s /\ t.mem = rows /\ t.realm = realm /\ t.hash = s.hash
      /\ t.sem = s.sem /\ t.word = s.word /\ t.time = s.time
      /\ t.prov = s.prov /\ t.task = s.task /\ t.corr = s.corr
  BY <1>1, <1>2 DEF MemFields
<1>4. \A j \in Mem!Live(s) : j \in DOMAIN s.mem
  BY DEF Mem!Live
<1>5. /\ DOMAIN t.mem = DOMAIN s.mem
      /\ \A j \in DOMAIN s.mem : /\ j \in hit => t.mem[j] = Mem!InRealm(s.mem[j], new(j))
                                 /\ j \notin hit => t.mem[j] = s.mem[j]
  <2> HIDE DEF Mem!InRealm
  <2> QED  BY <1>3 DEF rows
<1>6. ASSUME NEW j \in DOMAIN s.mem
      PROVE  /\ MovedRow(t.mem[j], s.mem[j]) /\ Edit(t.mem[j], s.mem[j])
             /\ j \in hit => t.mem[j].item.realm = new(j)
  <2>1. CASE j \in hit
    <3> HIDE DEF Mem!InRealm, MemRow, Edit
    <3> QED  BY <1>2, <1>5, <2>1, InRealmIs DEF MovedRow
  <2>2. CASE j \notin hit
    BY <1>2, <1>5, <2>2 DEF MovedRow, Edit, Change
  <2> QED  BY <2>1, <2>2
<1>7. Mem!Live(t) = Mem!Live(s)
  BY <1>5, <1>6 DEF Mem!Live, Edit, Change
<1>8. MemShape(t)
  BY <1>2, <1>3, <1>5, <1>6 DEF MemShape, Edit, Change
<1>9. t.time = Mem!Live(t) /\ SemOK(t, risen)
  <2>1. \A j \in DOMAIN s.mem : t.mem[j].item.vec = s.mem[j].item.vec
    BY <1>6 DEF Edit
  <2> QED  BY <1>3, <1>4, <1>5, <1>7, <2>1 DEF Sound, Holds, SemOK
<1>10. /\ t.word \ risen \subseteq Mem!Live(t)
       /\ {j \in Mem!Live(t) : t.mem[j].chunk.kind # "process"} \subseteq t.word
  BY <1>3, <1>4, <1>6, <1>7 DEF Sound, Holds, Edit, Change
<1>11. \A c \in DOMAIN t.hash : t.hash[c] \in DOMAIN t.mem /\ t.mem[t.hash[c]].chunk = c
  BY <1>3, <1>5, <1>6 DEF Sound, Holds, Edit, Change
<1>12. RealmOK(t, stray)
  <2>1. ASSUME NEW j \in Mem!Live(t) PROVE <<t.mem[j].item.realm, j>> \in t.realm
    <3>1. j \in Mem!Live(s) /\ j \in DOMAIN s.mem
      BY <1>4, <1>7
    <3>2. CASE j \in hit
      BY <1>3, <1>6, <3>1, <3>2 DEF realm
    <3>3. CASE j \notin hit
      <4>1. t.mem[j] = s.mem[j] /\ <<s.mem[j].item.realm, j>> \in s.realm
        BY <1>5, <3>1, <3>3 DEF RealmOK
      <4>2. <<s.mem[j].item.realm, j>> \notin {<<old(i), i>> : i \in hit}
        BY <3>3
      <4> QED  BY <1>3, <4>1, <4>2 DEF realm
    <3> QED  BY <3>2, <3>3
  <2>2. ASSUME NEW p \in t.realm
        PROVE  /\ p[2] \in DOMAIN t.mem /\ p = <<t.mem[p[2]].item.realm, p[2]>>
               /\ p[2] \in Mem!Live(t) \cup stray
    <3>1. CASE p \in {<<new(i), i>> : i \in hit}
      <4>1. p = <<new(p[2]), p[2]>> /\ p[2] \in hit
        BY <3>1
      <4>2. p[2] \in Mem!Live(s) /\ p[2] \in DOMAIN s.mem
        BY <1>0, <1>4, <4>1
      <4> QED  BY <1>5, <1>6, <1>7, <4>1, <4>2
    <3>2. CASE p \in s.realm /\ p \notin {<<old(i), i>> : i \in hit}
      <4>1. /\ p[2] \in DOMAIN s.mem /\ p = <<s.mem[p[2]].item.realm, p[2]>>
            /\ p[2] \in Mem!Live(s) \cup stray
        BY <3>2 DEF RealmOK
      <4>2. p[2] \notin hit
        <5> SUFFICES ASSUME p[2] \in hit PROVE FALSE
          OBVIOUS
        <5>1. p = <<old(p[2]), p[2]>>
          BY <4>1
        <5> QED  BY <3>2, <5>1
      <4> QED  BY <1>5, <1>7, <4>1, <4>2
    <3> QED  BY <1>3, <3>1, <3>2 DEF realm
  <2> QED  BY <2>1, <2>2 DEF RealmOK
<1> HIDE DEF MovedRow, Edit
<1> QED  BY <1>3, <1>5, <1>6, <1>7, <1>8, <1>9, <1>10, <1>11, <1>12 DEF Sound, Holds, hit

\* RAM after a move.
LEMMA MovedRam ==
    ASSUME MemInv, NEW map, ram' = Mem!Remapped(ram, map), MemEnv', env'.asked = env.asked,
           env'.edited = env.edited, env'.cold = env.cold
    PROVE  /\ DOMAIN ram'.mem = DOMAIN ram.mem /\ StatusInv'
           /\ Sound(ram', env.risen) /\ RealmOK(ram', env.stray)
           /\ ~env'.cold => CopyOK(ram')
           /\ env'.edited = {} => LanesOK(ram')
           /\ \A j \in DOMAIN ram.mem : /\ MovedRow(ram'.mem[j], ram.mem[j])
                                        /\ j \notin Mem!Moving(ram, map) => ram'.mem[j] = ram.mem[j]
<1>2. Sound(ram, env.risen) /\ RealmOK(ram, env.stray)
  BY DEF MemInv
<1>3. /\ DOMAIN ram'.mem = DOMAIN ram.mem /\ Mem!Live(ram') = Mem!Live(ram)
      /\ Sound(ram', env.risen) /\ RealmOK(ram', env.stray) /\ ram'.hash = ram.hash
      /\ ram'.prov = ram.prov /\ ram'.task = ram.task /\ ram'.corr = ram.corr
  <2> HIDE DEF Mem!Remapped, Sound, RealmOK
  <2> QED  BY <1>2, RemapIs
<1>4. \A j \in DOMAIN ram.mem : /\ MovedRow(ram'.mem[j], ram.mem[j])
                                /\ j \notin Mem!Moving(ram, map) => ram'.mem[j] = ram.mem[j]
  <2> HIDE DEF Mem!Remapped, Sound, RealmOK, MovedRow
  <2> QED  BY <1>2, RemapIs
<1>5. StatusInv'
  BY <1>3, <1>4 DEF MemInv, StatusInv, MovedRow
<1>6. \A j \in Mem!Live(ram) : j \in DOMAIN ram.mem
  BY DEF Mem!Live
<1>7. ASSUME ~env'.cold PROVE CopyOK(ram')
  <2>1. CopyOK(ram)
    BY <1>7 DEF MemInv
  <2>2. \A c : Ghosted(ram', c) = Ghosted(ram, c)
    BY <1>3, <1>4 DEF Ghosted, MovedRow, Edit, Change
  <2>3. \A j \in DOMAIN ram.mem : ram'.mem[j].chunk = ram.mem[j].chunk
    BY <1>4 DEF MovedRow, Edit, Change
  <2> QED  BY <1>3, <1>6, <2>1, <2>2, <2>3 DEF CopyOK
<1>8. ASSUME env'.edited = {} PROVE LanesOK(ram')
  <2>1. LanesOK(ram)
    BY <1>8 DEF MemInv
  <2>2. \A j \in Mem!Live(ram) : /\ ram'.mem[j].item.kind = ram.mem[j].item.kind
                                 /\ ram'.mem[j].item.tag = ram.mem[j].item.tag
                                 /\ ram'.mem[j].item.key = ram.mem[j].item.key
    BY <1>4, <1>6 DEF MovedRow
  <2> HIDE DEF LanesOK
  <2> QED  BY <1>3, <2>1, <2>2, LanesSame
<1> HIDE DEF Sound, RealmOK, CopyOK, LanesOK, MovedRow, StatusInv
<1> QED  BY <1>3, <1>4, <1>5, <1>7, <1>8

\* remap_realms saves what it moved.
LEMMA RemapStep ==
    ASSUME MemInv, NEW map, Mem!RemapRealms(map)
    PROVE  MemInv'
<1>1. /\ ram' = Mem!Remapped(ram, map) /\ wal' = Mem!Body(ram') /\ todo' = todo /\ gap' = FALSE
      /\ env' = [env EXCEPT !.calls = @ + 1, !.moved = {}, !.bypassed = {}]
  BY Zenon DEF Mem!RemapRealms
<1>2. /\ MemEnv' /\ env'.edited = env.edited /\ env'.stray = env.stray /\ env'.cold = env.cold
      /\ env'.asked = env.asked /\ env'.risen = env.risen
  BY <1>1 DEF MemInv, MemEnv
<1>3. /\ DOMAIN ram'.mem = DOMAIN ram.mem /\ StatusInv'
      /\ Sound(ram', env.risen) /\ RealmOK(ram', env.stray)
      /\ ~env'.cold => CopyOK(ram')
      /\ env'.edited = {} => LanesOK(ram')
  <2> HIDE DEF MemInv, MemEnv, Mem!Remapped, Sound, RealmOK, CopyOK, LanesOK, StatusInv, MovedRow
  <2> QED  BY <1>1, <1>2, MovedRam
<1>4. wal'.mem = ram'.mem /\ Sound(wal', env.risen)
  <2>1. MemShape(ram')
    BY <1>3 DEF Sound
  <2> HIDE DEF Sound, MemShape
  <2> QED  BY <1>1, <1>3, <2>1, BodyIs, BodySound
<1>5. ImageInv'
  BY <1>1, <1>4 DEF ImageInv, RowAlike, FenceAlike, TextAlike
<1> HIDE DEF Sound, RealmOK, CopyOK, LanesOK, MemEnv, StatusInv
<1> QED  BY <1>1, <1>2, <1>3, <1>4, <1>5 DEF MemInv

\* trim_realm_names does not, nor remap_realms when its save fails.
LEMMA MoveStep ==
    ASSUME MemInv, NEW map, Mem!MoveUnsaved(map)
    PROVE  MemInv'
<1> DEFINE moving == Mem!Moving(ram, map)
<1>1. /\ ram' = Mem!Remapped(ram, map) /\ wal' = wal /\ todo' = todo /\ gap' = gap
      /\ env' = [env EXCEPT !.calls = @ + 1, !.moved = @ \cup moving]
  BY Zenon DEF Mem!MoveUnsaved, Mem!Quiet
<1> HIDE DEF moving
<1>2. /\ MemEnv' /\ env'.edited = env.edited /\ env'.stray = env.stray /\ env'.cold = env.cold
      /\ env'.asked = env.asked /\ env'.risen = env.risen /\ env'.bypassed = env.bypassed
      /\ env'.moved = env.moved \cup moving
  BY <1>1 DEF MemInv, MemEnv
<1>3. /\ DOMAIN ram'.mem = DOMAIN ram.mem /\ StatusInv'
      /\ Sound(ram', env.risen) /\ RealmOK(ram', env.stray)
      /\ ~env'.cold => CopyOK(ram')
      /\ env'.edited = {} => LanesOK(ram')
      /\ \A j \in DOMAIN ram.mem : /\ MovedRow(ram'.mem[j], ram.mem[j])
                                   /\ j \notin moving => ram'.mem[j] = ram.mem[j]
  <2> HIDE DEF MemInv, MemEnv, Mem!Remapped, Sound, RealmOK, CopyOK, LanesOK, StatusInv, MovedRow
  <2> QED  BY <1>1, <1>2, MovedRam DEF moving
<1>4. ImageInv'
  <2> SUFFICES ASSUME NEW j \in DOMAIN ram.mem
               PROVE  /\ RowAlike(wal.mem[j], ram'.mem[j])
                      /\ j \notin env.bypassed => FenceAlike(wal.mem[j], ram'.mem[j])
                      /\ ~gap => /\ TextAlike(wal.mem[j], ram'.mem[j])
                                 /\ j \notin env'.moved =>
                                       wal.mem[j].item.realm = ram'.mem[j].item.realm
    BY <1>1, <1>2, <1>3 DEF ImageInv, RowAlike, FenceAlike, TextAlike
  <2>1. /\ RowAlike(wal.mem[j], ram.mem[j])
        /\ j \notin env.bypassed => FenceAlike(wal.mem[j], ram.mem[j])
        /\ ~gap => /\ TextAlike(wal.mem[j], ram.mem[j])
                   /\ j \notin env.moved => wal.mem[j].item.realm = ram.mem[j].item.realm
    BY MemRows
  <2>2. MovedRow(ram'.mem[j], ram.mem[j])
    BY <1>3
  <2>3. j \notin env'.moved => j \notin env.moved /\ ram'.mem[j] = ram.mem[j]
    BY <1>2, <1>3
  <2> QED  BY <2>1, <2>2, <2>3 DEF MovedRow, Edit, Change, RowAlike, FenceAlike, TextAlike
<1> HIDE DEF Sound, RealmOK, CopyOK, LanesOK, MemEnv, StatusInv
<1> QED  BY <1>1, <1>2, <1>3, <1>4 DEF MemInv

\* What open() rebuilds: the first done record and the last task record alive.
LEMMA Firsts ==
    ASSUME NEW s, NEW n \in Nat, DOMAIN s.mem = 1 .. n, NEW f,
           f = Mem!Earliest(s, Mem!ProvKeys)
    PROVE  /\ \A j \in Mem!Live(s) : \A k \in Mem!ProvKeys(s.mem[j].item) :
                 k \in DOMAIN f /\ f[k] <= j
           /\ \A k \in DOMAIN f : f[k] \in Mem!Live(s) /\ k \in Mem!ProvKeys(s.mem[f[k]].item)
<1> DEFINE Of(k) == {i \in Mem!Live(s) : k \in Mem!ProvKeys(s.mem[i].item)}
           all == UNION {Mem!ProvKeys(s.mem[i].item) : i \in Mem!Live(s)}
<1>1. f = [k \in all |-> Mem!Min(Of(k))]
  BY Zenon DEF Mem!Earliest, Mem!Keyed, Mem!AllKeys
<1> HIDE DEF Mem!ProvKeys
<1>2. \A k : k \in all <=> \E i \in Mem!Live(s) : k \in Mem!ProvKeys(s.mem[i].item)
  OBVIOUS
<1> HIDE DEF all
<1>3. \A i \in Mem!Live(s) : i \in Nat
  BY DEF Mem!Live
<1>4. ASSUME NEW k \in all
      PROVE  f[k] \in Of(k) /\ \A i \in Of(k) : f[k] <= i
  <2>1. Of(k) \in SUBSET Nat /\ Of(k) # {}
    BY <1>2, <1>3
  <2>2. f[k] = Min(Of(k))
    BY <1>1 DEF Mem!Min, Min
  <2> HIDE DEF Of
  <2> QED  BY <2>1, <2>2, MinOf
<1>5. DOMAIN f = all
  BY <1>1
<1> QED  BY <1>2, <1>4, <1>5

LEMMA Lasts ==
    ASSUME NEW s, NEW n \in Nat, DOMAIN s.mem = 1 .. n, NEW f,
           f = Mem!Latest(s, Mem!TaskKeys)
    PROVE  /\ \A j \in Mem!Live(s) : \A k \in Mem!TaskKeys(s.mem[j].item) :
                 k \in DOMAIN f /\ j <= f[k]
           /\ \A k \in DOMAIN f : f[k] \in Mem!Live(s) /\ k \in Mem!TaskKeys(s.mem[f[k]].item)
<1> DEFINE Of(k) == {i \in Mem!Live(s) : k \in Mem!TaskKeys(s.mem[i].item)}
           all == UNION {Mem!TaskKeys(s.mem[i].item) : i \in Mem!Live(s)}
<1>1. f = [k \in all |-> Mem!Max(Of(k))]
  BY Zenon DEF Mem!Latest, Mem!Keyed, Mem!AllKeys
<1> HIDE DEF Mem!TaskKeys
<1>2. \A k : k \in all <=> \E i \in Mem!Live(s) : k \in Mem!TaskKeys(s.mem[i].item)
  OBVIOUS
<1> HIDE DEF all
<1>3. \A i \in Mem!Live(s) : i \in Nat /\ i <= n
  BY DEF Mem!Live
<1>4. ASSUME NEW k \in all
      PROVE  f[k] \in Of(k) /\ \A i \in Of(k) : i <= f[k]
  <2>1. Of(k) \in SUBSET Nat /\ Of(k) # {} /\ \A i \in Of(k) : i <= n
    BY <1>2, <1>3
  <2>2. f[k] = Max(Of(k))
    BY <1>1 DEF Mem!Max, Max
  <2> HIDE DEF Of
  <2> QED  BY <2>1, <2>2, MaxOf
<1>5. DOMAIN f = all
  BY <1>1
<1> QED  BY <1>2, <1>4, <1>5

LEMMA RebuiltLanes ==
    ASSUME NEW s, MemShape(s), NEW n \in Nat, DOMAIN s.mem = 1 .. n
    PROVE  LanesOK(Mem!Rebuilt(s))
<1> DEFINE t == Mem!Rebuilt(s)
<1>1. /\ t.mem = s.mem /\ Mem!Live(t) = Mem!Live(s)
      /\ t.prov = Mem!Earliest(s, Mem!ProvKeys)
      /\ t.task = Mem!Latest(s, Mem!TaskKeys)
      /\ t.corr = Mem!Corrections(s)
  BY RebuiltIs, Zenon
<1> HIDE DEF t
<1>2. \A j \in Mem!Live(s) : j \in DOMAIN s.mem
  BY DEF Mem!Live
<1>3. ProvOK(t)
  <2>1. /\ \A j \in Mem!Live(s) : \A k \in Mem!ProvKeys(s.mem[j].item) :
              k \in DOMAIN t.prov /\ t.prov[k] <= j
        /\ \A k \in DOMAIN t.prov :
              t.prov[k] \in Mem!Live(s) /\ k \in Mem!ProvKeys(s.mem[t.prov[k]].item)
    BY <1>1, Firsts, Zenon
  <2> QED  BY <1>1, <1>2, <2>1 DEF ProvOK
<1>4. TaskOK(t)
  <2>1. /\ \A j \in Mem!Live(s) : \A k \in Mem!TaskKeys(s.mem[j].item) :
              k \in DOMAIN t.task /\ j <= t.task[k]
        /\ \A k \in DOMAIN t.task :
              t.task[k] \in Mem!Live(s) /\ k \in Mem!TaskKeys(s.mem[t.task[k]].item)
    BY <1>1, Lasts, Zenon
  <2> QED  BY <1>1, <1>2, <2>1 DEF TaskOK
<1>5. CorrOK(t)
  <2>1. Mem!Corrections(t) = Mem!Corrections(s)
    BY <1>1 DEF Mem!Corrections
  <2>2. \A p \in Mem!Corrections(s) : p[2] \in Mem!Live(s)
    <3> TAKE p \in Mem!Corrections(s)
    <3>1. PICK j \in Mem!Live(s) : \E k \in Mem!CorrKeys(s.mem[j].item) : p = <<k, j>>
      BY InCorrections
    <3> QED  BY <3>1
  <2> QED  BY <1>1, <1>2, <2>1, <2>2 DEF CorrOK
<1> QED  BY <1>3, <1>4, <1>5 DEF LanesOK, t

LEMMA ReopenStep ==
    ASSUME MemInv, Mem!Reopen
    PROVE  MemInv'
<1>0. PICK done \in Mem!Provenances(wal) :
        LET new == Mem!Rebuilt([wal EXCEPT !.done = done]) IN ram' = new /\ wal' = new
  BY Zenon DEF Mem!Reopen
<1> DEFINE image == [wal EXCEPT !.done = done]
<1>1. /\ ram' = Mem!Rebuilt(image) /\ wal' = Mem!Rebuilt(image) /\ todo' = <<>> /\ gap' = FALSE
  BY <1>0, Zenon DEF Mem!Reopen
<1>a. Sound(wal, env.risen) /\ MemShape(wal)
  BY DEF MemInv, Sound
<1>b. /\ DOMAIN image = DOMAIN wal /\ image.mem = wal.mem /\ image.hash = wal.hash
      /\ image.sem = wal.sem /\ image.word = wal.word /\ image.time = wal.time
  BY <1>a DEF MemShape, MemFields
<1> HIDE DEF image
<1>c. MemShape(image) /\ Mem!Live(image) = Mem!Live(wal)
  BY <1>a, <1>b DEF MemShape, Mem!Live
<1>d. Sound(image, env.risen)
  BY <1>a, <1>b, <1>c DEF Sound, Holds, SemOK
<1> DEFINE asked == Mem!Restrict(env.asked, DOMAIN env.asked \ env.bypassed)
           lost == \E i \in Mem!Live(wal) : wal.mem[i].chunk \notin DOMAIN wal.hash
<1>2. env' = [env EXCEPT !.moved = {}, !.bypassed = {}, !.stray = {}, !.asked = asked,
                         !.cold = @ \/ lost]
  BY Zenon DEF Mem!Reopen
<1>3. PICK n \in Nat : DOMAIN ram.mem = 1 .. n
  BY DEF MemInv
<1>4. /\ Sound(wal, env.risen) /\ MemShape(wal) /\ DOMAIN wal.mem = DOMAIN ram.mem /\ MemEnv
  BY DEF MemInv, Sound
<1>5. /\ MemEnv' /\ env'.edited = env.edited /\ env'.risen = env.risen /\ env'.stray = {} /\ env'.asked = asked
      /\ env'.moved = {} /\ env'.bypassed = {} /\ env'.cold = (env.cold \/ lost)
  <2> HIDE DEF asked, lost
  <2> QED  BY <1>2, <1>4 DEF MemEnv
<1>6. /\ ram'.mem = wal.mem /\ wal'.mem = wal.mem /\ Mem!Live(ram') = Mem!Live(wal)
      /\ ram'.hash = wal.hash
      /\ ram'.realm = {<<wal.mem[i].item.realm, i>> : i \in Mem!Live(wal)}
  <2> HIDE DEF MemShape
  <2> QED  BY <1>1, <1>b, <1>c, RebuiltIs
<1>7. Sound(ram', env'.risen) /\ Sound(wal', env'.risen)
  <2> HIDE DEF Sound
  <2> QED  BY <1>1, <1>d, <1>5, RebuiltSound
<1>8. ImageInv'
  BY <1>1, <1>6 DEF ImageInv, RowAlike, FenceAlike, TextAlike
<1>9. RealmOK(ram', env'.stray)
  BY <1>5, <1>6 DEF RealmOK, Mem!Live
<1>10. StatusInv'
  <2>1. /\ DOMAIN asked = DOMAIN env.asked \ env.bypassed
        /\ \A i \in DOMAIN asked : asked[i] = env.asked[i]
    BY DEF Mem!Restrict
  <2>2. \A i \in DOMAIN asked : wal.mem[i].status = env.asked[i]
    BY <2>1, MemRows DEF MemInv, StatusInv, FenceAlike
  <2> HIDE DEF asked
  <2> QED  BY <1>4, <1>5, <1>6, <2>1, <2>2 DEF MemInv, StatusInv
<1>11. ASSUME ~env'.cold PROVE CopyOK(ram')
  <2>1. ~env.cold /\ ~lost
    BY <1>5, <1>11
  <2>2. CopyOK(ram)
    BY <2>1 DEF MemInv
  <2>3. \A i \in DOMAIN ram.mem : /\ wal.mem[i].chunk = ram.mem[i].chunk
                                  /\ ram.mem[i].dead => wal.mem[i].dead
    BY MemRows DEF RowAlike
  <2>4. \A i \in Mem!Live(wal) : i \in Mem!Live(ram) /\ i \in DOMAIN ram.mem
    BY <1>4, <2>3 DEF Mem!Live
  <2>5. \A c : Ghosted(ram, c) => Ghosted(ram', c)
    BY <1>4, <1>6, <2>3 DEF Ghosted
  <2>6. \A i \in Mem!Live(ram') : ram'.mem[i].chunk \in DOMAIN ram'.hash
    BY <1>6, <2>1
  <2> QED  BY <1>6, <2>2, <2>3, <2>4, <2>5, <2>6 DEF CopyOK
<1>12. LanesOK(ram')
  <2> HIDE DEF LanesOK, MemShape
  <2>1. DOMAIN image.mem = 1 .. n
    BY <1>3, <1>4, <1>b
  <2> QED  BY <1>1, <1>c, <2>1, RebuiltLanes
<1> HIDE DEF Sound, RealmOK, CopyOK, LanesOK, MemEnv
<1>13. gap' \in BOOLEAN
  BY <1>1
<1> QED  BY <1>1, <1>3, <1>4, <1>5, <1>6, <1>7, <1>8, <1>9, <1>10, <1>11, <1>12, <1>13 DEF MemInv

\* put_memory: what a gate finds is a memory, and a miss of the exact gate is
\* what lets a new one in.
LEMMA PutStep ==
    ASSUME MemInv, NEW item \in Items, NEW confidence, Mem!Put(item, confidence)
    PROVE  MemInv'
<1>1. \A i \in Mem!Live(ram) : i \in DOMAIN ram.mem
  BY DEF Mem!Live
<1>2. \A i \in ram.sem : i \in DOMAIN ram.mem
  BY DEF MemInv, Sound, Holds, SemOK
<1>3. /\ \A i \in Mem!ProvHit(item) : i \in DOMAIN ram.mem
      /\ \A i \in Mem!HashHit(item) : i \in DOMAIN ram.mem
  BY <1>1 DEF Mem!ProvHit, Mem!HashHit
<1>4. \A i \in Mem!Nearest(item) : i \in DOMAIN ram.mem
  BY <1>2 DEF Mem!Nearest
<1>5. CASE \E i \in Mem!ProvHit(item) : Mem!Reinforce(i, 3)
  BY <1>3, <1>5, ReinforceStep
<1>6. CASE \E i \in Mem!HashHit(item) : Mem!Reinforce(i, 5)
  BY <1>3, <1>6, ReinforceStep
<1>7. CASE \E i \in Mem!Nearest(item) : Mem!Reinforce(i, 2)
  BY <1>4, <1>7, ReinforceStep
<1>8. CASE Mem!HashHit(item) = {} /\ Mem!NewMemory(item, confidence)
  BY <1>8, NewStep
<1> QED  BY <1>5, <1>6, <1>7, <1>8, Zenon DEF Mem!Put

LEMMA DemoteStep ==
    ASSUME MemInv, NEW i \in DOMAIN ram.mem, Mem!Demote(i)
    PROVE  MemInv'
<1>1. CASE Mem!Forget(i)
  BY <1>1, ForgetStep
<1>2. CASE /\ Mem!Commit([ram EXCEPT !.mem[i] = Mem!InTier(@, ram.mem[i].tier + 1)],
                         [op |-> "demote", id |-> i, tier |-> ram.mem[i].tier + 1])
           /\ Mem!Called
  BY <1>2, TierStep
<1> QED  BY <1>1, <1>2, Zenon DEF Mem!Demote

LEMMA MemInductive ==
    ASSUME MemInv, [Mem!Next]_(Mem!vars)
    PROVE  MemInv'
<1> HIDE DEF MemInv
<1>1. CASE \E item \in Items, confidence \in {50, 100} : Mem!Put(item, confidence)
  BY <1>1, PutStep
<1>2. ASSUME NEW i \in DOMAIN ram.mem,
             \/ Mem!Forget(i) \/ Mem!ForgetUnsynced(i) \/ Mem!Prune(i)
             \/ \E boost \in {0, 5} : Mem!UpdateState(i, boost)
             \/ \E status \in Mem!Statuses : Mem!SetMemoryStatus(i, status)
             \/ \E item \in Items : \E vec \in {NoVec, item.vec} :
                    Mem!UpdateContent(i, Mem!Content(item), vec)
             \/ \E item \in Items : Mem!UpdateKind(i, item.kind) \/ Mem!SetRealm(i, item.realm)
             \/ Mem!RecordOutcome(i) \/ Mem!Demote(i) \/ Mem!PromoteStaged(i)
      PROVE  MemInv'
  <2>1. CASE Mem!Forget(i) \/ Mem!Prune(i)
    BY <2>1, ForgetStep DEF Mem!Prune
  <2>2. CASE Mem!ForgetUnsynced(i)
    BY <2>2, UnsyncedStep
  <2>3. CASE \E boost \in {0, 5} : Mem!UpdateState(i, boost)
    BY <2>3, ReinforceStep DEF Mem!UpdateState
  <2>4. CASE \E status \in Mem!Statuses : Mem!SetMemoryStatus(i, status)
    BY <2>4, SetStatusStep
  <2>5. CASE \E item \in Items : \E vec \in {NoVec, item.vec} :
                Mem!UpdateContent(i, Mem!Content(item), vec)
    BY <2>5, ContentStep
  <2>6. CASE \E item \in Items : Mem!UpdateKind(i, item.kind)
    BY <2>6, KindStep
  <2>7. CASE \E item \in Items : Mem!SetRealm(i, item.realm)
    BY <2>7, SetRealmStep
  <2>8. CASE Mem!RecordOutcome(i)
    BY <2>8, OutcomeStep
  <2>9. CASE Mem!Demote(i)
    BY <2>9, DemoteStep
  <2>10. CASE Mem!PromoteStaged(i)
    BY <2>10, PromoteStep
  <2> QED  BY <1>2, <2>1, <2>2, <2>3, <2>4, <2>5, <2>6, <2>7, <2>8, <2>9, <2>10
<1>3. CASE \E map \in [Mem!RealmNames -> Mem!RealmNames] :
              Mem!RemapRealms(map) \/ Mem!MoveUnsaved(map)
  BY <1>3, RemapStep, MoveStep, Zenon
<1>4. CASE Mem!Tick \/ Mem!Save \/ Mem!Reopen
  BY <1>4, TickStep, SaveStep, ReopenStep
<1>5. CASE UNCHANGED Mem!vars
  BY <1>5, MemStutter
<1> QED  BY <1>1, <1>2, <1>3, <1>4, <1>5, Zenon DEF Mem!Next

LEMMA MemStart ==
    ASSUME Mem!Init
    PROVE  MemInv
<1>1. /\ ram = Mem!Empty /\ wal = Mem!Empty /\ todo = <<>> /\ gap = FALSE
      /\ env = [now |-> 1, calls |-> 0, asked |-> <<>>, moved |-> {}, edited |-> {},
                risen |-> {}, bypassed |-> {}, stray |-> {}, cold |-> FALSE]
  BY DEF Mem!Init, Mem!Log!LogInit
<1>2. /\ DOMAIN ram = MemFields /\ DOMAIN ram.mem = {} /\ DOMAIN ram.hash = {}
      /\ ram.realm = {} /\ ram.sem = {} /\ ram.word = {} /\ ram.time = {}
      /\ DOMAIN ram.prov = {} /\ DOMAIN ram.task = {} /\ ram.corr = {} /\ wal = ram
  BY <1>1 DEF Mem!Empty, MemFields
<1>3. MemEnv /\ DOMAIN env.asked = {} /\ gap \in BOOLEAN
  <2>1. gap \in BOOLEAN
    BY <1>1
  <2>2. DOMAIN env = {"now", "calls", "asked", "moved", "edited", "risen",
                   "bypassed", "stray", "cold"}
        /\ env.now = 1 /\ env.asked = <<>>
    BY <1>1
  <2>3. env.cold = FALSE
    BY <1>1
  <2>4. env.cold \in BOOLEAN
    BY <2>3, Zenon
  <2> QED  BY <2>1, <2>2, <2>4 DEF MemEnv
<1>4. DOMAIN ram.mem = 1 .. 0 /\ Mem!Live(ram) = {}
  BY <1>2 DEF Mem!Live
<1>5. Sound(ram, env.risen)
  BY <1>2, <1>4 DEF Sound, MemShape, Holds, SemOK
<1>6. Mem!Corrections(ram) = {}
  BY <1>4 DEF Mem!Corrections
<1>7. LanesOK(ram)
  BY <1>2, <1>4, <1>6 DEF LanesOK, ProvOK, TaskOK, CorrOK
<1>8. RealmOK(ram, env.stray) /\ CopyOK(ram) /\ ImageInv /\ StatusInv
  BY <1>2, <1>3, <1>4 DEF RealmOK, CopyOK, ImageInv, StatusInv
<1> HIDE DEF Sound, RealmOK, CopyOK, LanesOK, MemEnv, ImageInv, StatusInv
<1> QED  BY <1>1, <1>2, <1>3, <1>4, <1>5, <1>7, <1>8 DEF MemInv

\* What the invariant is for: the five properties of Memory.
LEMMA KeptMemories ==
    ASSUME MemInv
    PROVE  Mem!MemoriesKept
<1> SUFFICES ASSUME ~gap
             PROVE  /\ Mem!Live(wal) = Mem!Live(ram)
                    /\ \A i \in Mem!Live(ram) :
                         /\ Mem!Content(wal.mem[i].item) = Mem!Content(ram.mem[i].item)
                         /\ i \notin env.moved => wal.mem[i].item = ram.mem[i].item
                         /\ wal.mem[i].pos = ram.mem[i].pos /\ wal.mem[i].tier = ram.mem[i].tier
                         /\ i \notin env.bypassed => /\ wal.mem[i].status = ram.mem[i].status
                                                     /\ wal.mem[i].fence = ram.mem[i].fence
  BY Zenon DEF Mem!MemoriesKept, Mem!Log!Settled
<1>1. \A i \in DOMAIN ram.mem : wal.mem[i].dead = ram.mem[i].dead
  BY MemRows DEF TextAlike
<1>2. Mem!Live(wal) = Mem!Live(ram)
  BY <1>1 DEF MemInv, Mem!Live
<1>3. ASSUME NEW i \in Mem!Live(ram)
      PROVE  /\ Mem!Content(wal.mem[i].item) = Mem!Content(ram.mem[i].item)
             /\ i \notin env.moved => wal.mem[i].item = ram.mem[i].item
             /\ wal.mem[i].pos = ram.mem[i].pos /\ wal.mem[i].tier = ram.mem[i].tier
             /\ i \notin env.bypassed => /\ wal.mem[i].status = ram.mem[i].status
                                         /\ wal.mem[i].fence = ram.mem[i].fence
  <2>1. i \in DOMAIN ram.mem
    BY DEF Mem!Live
  <2>2. /\ MemRow(ram.mem[i]) /\ MemRow(wal.mem[i]) /\ RowAlike(wal.mem[i], ram.mem[i])
        /\ i \notin env.bypassed => FenceAlike(wal.mem[i], ram.mem[i])
        /\ TextAlike(wal.mem[i], ram.mem[i])
        /\ i \notin env.moved => wal.mem[i].item.realm = ram.mem[i].item.realm
    BY <2>1, MemRows
  <2>3. Mem!Content(wal.mem[i].item) = Mem!Content(ram.mem[i].item)
    BY <2>2 DEF TextAlike, Mem!Content
  <2>4. i \notin env.moved => wal.mem[i].item = ram.mem[i].item
    BY <2>2 DEF TextAlike, RowAlike, MemRow, ItemShape
  <2> QED  BY <2>2, <2>3, <2>4 DEF RowAlike, FenceAlike
<1> QED  BY <1>2, <1>3

LEMMA KeptStatus ==
    ASSUME MemInv
    PROVE  Mem!StatusKept
<1>1. \A i \in DOMAIN env.asked : i \in DOMAIN ram.mem /\ ram.mem[i].status = env.asked[i]
  BY DEF MemInv, StatusInv
<1>2. \A i \in DOMAIN env.asked : i \notin env.bypassed => wal.mem[i].status = env.asked[i]
  BY <1>1, MemRows DEF FenceAlike
<1> QED  BY <1>1, <1>2 DEF Mem!StatusKept

LEMMA AgreeingLanes ==
    ASSUME MemInv
    PROVE  Mem!LanesAgree
<1> DEFINE new == Mem!Rebuilt(wal)
<1> SUFFICES ASSUME ~gap, env.edited = {}
             PROVE  /\ \A k \in DOMAIN ram.prov :
                         Mem!Lookup(ram, ram.prov, k) \subseteq Mem!Lookup(new, new.prov, k)
                    /\ \A k \in DOMAIN ram.task :
                         Mem!Lookup(ram, ram.task, k) \subseteq Mem!Lookup(new, new.task, k)
                    /\ {p \in ram.corr : p[2] \in Mem!Live(ram)} = new.corr
  BY Zenon DEF Mem!LanesAgree, Mem!Log!Settled
<1>0. PICK n \in Nat : DOMAIN ram.mem = 1 .. n
  BY DEF MemInv
<1>1. MemShape(wal) /\ DOMAIN wal.mem = 1 .. n
  BY <1>0 DEF MemInv, Sound
<1>2. /\ new.mem = wal.mem /\ Mem!Live(new) = Mem!Live(wal)
      /\ new.corr = Mem!Corrections(wal)
  BY <1>1, RebuiltIs
<1>3. LanesOK(new) /\ LanesOK(ram)
  BY <1>1, RebuiltLanes DEF MemInv
<1> HIDE DEF new
<1>4. Mem!Live(wal) = Mem!Live(ram)
  <2>1. \A i \in DOMAIN ram.mem : wal.mem[i].dead = ram.mem[i].dead
    BY MemRows DEF TextAlike
  <2> QED  BY <2>1 DEF MemInv, Mem!Live
<1>5. \A i \in Mem!Live(ram) : i \in DOMAIN ram.mem /\ i \in Nat
  BY <1>0 DEF Mem!Live
<1>6. \A i \in Mem!Live(ram) :
         /\ Mem!ProvKeys(wal.mem[i].item) = Mem!ProvKeys(ram.mem[i].item)
         /\ Mem!TaskKeys(wal.mem[i].item) = Mem!TaskKeys(ram.mem[i].item)
         /\ Mem!CorrKeys(wal.mem[i].item) = Mem!CorrKeys(ram.mem[i].item)
  <2> TAKE i \in Mem!Live(ram)
  <2>1. TextAlike(wal.mem[i], ram.mem[i])
    BY <1>5, MemRows
  <2> QED  BY <2>1 DEF TextAlike, Mem!ProvKeys, Mem!IsDone, Mem!TaskKeys, Mem!CorrKeys
<1> HIDE DEF Mem!ProvKeys, Mem!TaskKeys, Mem!CorrKeys
<1>7. ASSUME NEW k \in DOMAIN ram.prov, ram.prov[k] \in Mem!Live(ram)
      PROVE  k \in DOMAIN new.prov /\ new.prov[k] = ram.prov[k] /\ new.prov[k] \in Mem!Live(new)
  <2>1. k \in Mem!ProvKeys(wal.mem[ram.prov[k]].item)
    BY <1>3, <1>6, <1>7 DEF LanesOK, ProvOK
  <2>2. k \in DOMAIN new.prov /\ new.prov[k] <= ram.prov[k]
    BY <1>2, <1>3, <1>4, <1>7, <2>1 DEF LanesOK, ProvOK
  <2>3. new.prov[k] \in Mem!Live(ram) /\ k \in Mem!ProvKeys(wal.mem[new.prov[k]].item)
    <3>1. new.prov = Mem!Earliest(wal, Mem!ProvKeys)
      BY <1>1, RebuiltIs DEF new
    <3> QED  BY <1>1, <1>4, <2>2, <3>1, Firsts
  <2>4. ram.prov[k] <= new.prov[k]
    BY <1>3, <1>6, <2>3 DEF LanesOK, ProvOK
  <2> QED  BY <1>2, <1>4, <1>5, <1>7, <2>2, <2>3, <2>4
<1>8. ASSUME NEW k \in DOMAIN ram.task, ram.task[k] \in Mem!Live(ram)
      PROVE  k \in DOMAIN new.task /\ new.task[k] = ram.task[k] /\ new.task[k] \in Mem!Live(new)
  <2>1. k \in Mem!TaskKeys(wal.mem[ram.task[k]].item)
    BY <1>3, <1>6, <1>8 DEF LanesOK, TaskOK
  <2>2. k \in DOMAIN new.task /\ ram.task[k] <= new.task[k]
    BY <1>2, <1>3, <1>4, <1>8, <2>1 DEF LanesOK, TaskOK
  <2>3. new.task[k] \in Mem!Live(ram) /\ k \in Mem!TaskKeys(wal.mem[new.task[k]].item)
    <3>1. new.task = Mem!Latest(wal, Mem!TaskKeys)
      BY <1>1, RebuiltIs DEF new
    <3> QED  BY <1>1, <1>4, <2>2, <3>1, Lasts
  <2>4. new.task[k] <= ram.task[k]
    BY <1>3, <1>6, <2>3 DEF LanesOK, TaskOK
  <2> QED  BY <1>2, <1>4, <1>5, <1>8, <2>2, <2>3, <2>4
<1>9. Mem!Corrections(wal) = Mem!Corrections(ram)
  BY <1>4, <1>6, Zenon DEF Mem!Corrections
<1>10. {p \in ram.corr : p[2] \in Mem!Live(ram)} = new.corr
  BY <1>2, <1>3, <1>9 DEF LanesOK, CorrOK
<1> QED  BY <1>7, <1>8, <1>10 DEF Mem!Lookup

LEMMA ServingIndexes ==
    ASSUME MemInv
    PROVE  Mem!IndexesServe
<1> DEFINE Serves(s) ==
       /\ s.time = Mem!Live(s)
       /\ {i \in Mem!Live(s) : s.mem[i].item.vec # NoVec} \subseteq s.sem
       /\ s.sem \ env.risen \subseteq {i \in Mem!Live(s) : s.mem[i].item.vec # NoVec}
       /\ s.word \ env.risen \subseteq Mem!Live(s)
       /\ {i \in Mem!Live(s) : s.mem[i].chunk.kind # "process"} \subseteq s.word
       /\ \A i \in Mem!Live(s) : <<s.mem[i].item.realm, i>> \in s.realm
       /\ \A p \in s.realm : p[2] \in Mem!Live(s) \cup env.stray
<1>1. Serves(ram)
  BY DEF MemInv, Sound, Holds, SemOK, RealmOK
<1>2. Serves(Mem!Rebuilt(wal))
  <2> DEFINE new == Mem!Rebuilt(wal)
  <2>1. Sound(wal, env.risen) /\ MemShape(wal)
    BY DEF MemInv, Sound
  <2>2. /\ new.mem = wal.mem /\ Mem!Live(new) = Mem!Live(wal)
        /\ new.realm = {<<wal.mem[i].item.realm, i>> : i \in Mem!Live(wal)}
    BY <2>1, RebuiltIs
  <2>3. Sound(new, env.risen)
    BY <2>1, RebuiltSound
  <2> HIDE DEF new
  <2>4. Serves(new)
    BY <2>2, <2>3 DEF Sound, Holds, SemOK
  <2> QED  BY <2>4 DEF new
<1> QED  BY <1>1, <1>2, Zenon DEF Mem!IndexesServe

LEMMA SingleCopies ==
    ASSUME MemInv
    PROVE  Mem!OneCopy
BY DEF MemInv, CopyOK, Ghosted, Mem!OneCopy
-----------------------------------------------------------------------------
(* Code intelligence                                                        *)

CodeFields == {"syms", "name", "dedup", "calls", "callers", "files", "events", "event"}
CodeShape(s) ==
    /\ DOMAIN s = CodeFields
    /\ s.event \in Nat /\ \A x \in s.events : x \in Nat /\ x <= s.event

\* The derived maps are exact, so that a key has one symbol.
Exact(s) ==
    /\ s.name = {<<s.syms[i].key[1], i>> : i \in Code!Ids(s)}
    /\ DOMAIN s.dedup = {s.syms[i].key : i \in Code!Ids(s)}
    /\ \A i \in Code!Ids(s) : s.dedup[s.syms[i].key] = i

Below(s, next) == \A i \in Code!Ids(s) : i \in Nat /\ 0 < i /\ i < next

Mirror(s) ==
    /\ \A e \in s.calls : e = <<e[1], e[2]>> /\ <<e[2], e[1]>> \in s.callers
    /\ \A e \in s.callers : e = <<e[1], e[2]>> /\ <<e[2], e[1]>> \in s.calls

\* An edge that was added between two symbols is between those two.
Means(s, meant) ==
    \A e \in s.calls :
       /\ e \in DOMAIN meant
       /\ meant[e] # <<>> => /\ e[1] \in Code!Ids(s) /\ e[2] \in Code!Ids(s)
                             /\ meant[e] = <<s.syms[e[1]].key, s.syms[e[2]].key>>

GraphOK(s, next, meant) == Exact(s) /\ Below(s, next) /\ Mirror(s) /\ Means(s, meant)

SameGraph(t, s) ==
    /\ t.syms = s.syms /\ t.name = s.name /\ t.dedup = s.dedup
    /\ t.calls = s.calls /\ t.callers = s.callers
FilesAlike(w, r) ==
    /\ DOMAIN w.files = DOMAIN r.files
    /\ \A f \in DOMAIN r.files : /\ w.files[f].project = r.files[f].project
                                 /\ w.files[f].hash \in {r.files[f].hash, Code!NoHash}
SameEvents(t, s) == t.events = s.events /\ t.event = s.event

LEMMA GraphSame ==
    ASSUME NEW s, NEW t, SameGraph(t, s), NEW next, NEW meant, GraphOK(s, next, meant)
    PROVE  GraphOK(t, next, meant)
BY DEF SameGraph, GraphOK, Exact, Below, Mirror, Means, Code!Ids

LEMMA ShapeSame ==
    ASSUME NEW s, NEW t, CodeShape(s), DOMAIN t = CodeFields, SameEvents(t, s)
    PROVE  CodeShape(t)
BY DEF CodeShape, SameEvents

\* A key has one symbol, and the slot names it.
LEMMA OneSymbol ==
    ASSUME NEW s, Exact(s)
    PROVE  /\ \A k \in DOMAIN s.dedup : s.dedup[k] \in Code!Ids(s) /\ s.syms[s.dedup[k]].key = k
           /\ \A i, j \in Code!Ids(s) : s.syms[i].key = s.syms[j].key => i = j
BY DEF Exact

\* The graph is read off the ids and their keys.
LEMMA KeysSame ==
    ASSUME NEW s, NEW t, NEW next, NEW meant, GraphOK(s, next, meant),
           Code!Ids(t) = Code!Ids(s), \A j \in Code!Ids(s) : t.syms[j].key = s.syms[j].key,
           t.name = s.name, t.dedup = s.dedup, t.calls = s.calls, t.callers = s.callers
    PROVE  GraphOK(t, next, meant)
<1>1. Exact(t)
  <2>1. t.name = {<<t.syms[j].key[1], j>> : j \in Code!Ids(t)}
    BY DEF GraphOK, Exact
  <2>2. DOMAIN t.dedup = {t.syms[j].key : j \in Code!Ids(t)}
    BY DEF GraphOK, Exact
  <2>3. \A j \in Code!Ids(t) : t.dedup[t.syms[j].key] = j
    BY DEF GraphOK, Exact
  <2> QED  BY <2>1, <2>2, <2>3 DEF Exact
<1>2. Below(t, next) /\ Means(t, meant)
  BY DEF GraphOK, Below, Means
<1> QED  BY <1>1, <1>2 DEF GraphOK, Mirror

\* upsert: a new symbol, or a known one under its old id.
UpsertTo(t, s, i, key) ==
    LET symbol == [key |-> key, desc |-> FALSE] IN
    /\ key \in DOMAIN s.dedup =>
          /\ t.syms = Code!Insert(s.syms, s.dedup[key], symbol)
          /\ t.name = s.name /\ t.dedup = s.dedup
    /\ key \notin DOMAIN s.dedup =>
          /\ t.syms = Code!Insert(s.syms, i, symbol)
          /\ t.name = s.name \cup {<<key[1], i>>}
          /\ t.dedup = Code!Insert(s.dedup, key, i)

LEMMA UpsertIs ==
    ASSUME NEW s, CodeShape(s), NEW i, NEW key
    PROVE  LET t == Code!Upsert(s, i, key) IN
           /\ DOMAIN t = CodeFields /\ SameEvents(t, s) /\ t.files = s.files
           /\ t.calls = s.calls /\ t.callers = s.callers
           /\ UpsertTo(t, s, i, key)
<1> HIDE DEF Code!Insert
<1>1. CASE key \in DOMAIN s.dedup
  BY <1>1 DEF CodeShape, CodeFields, Code!Upsert, UpsertTo, SameEvents
<1>2. CASE key \notin DOMAIN s.dedup
  BY <1>2 DEF CodeShape, CodeFields, Code!Upsert, UpsertTo, SameEvents
<1> QED  BY <1>1, <1>2

LEMMA UpsertGraph ==
    ASSUME NEW s, NEW t, NEW next \in Nat \ {0}, NEW meant, GraphOK(s, next, meant), NEW key,
           UpsertTo(t, s, next, key), t.calls = s.calls, t.callers = s.callers
    PROVE  GraphOK(t, next + 1, meant)
<1> DEFINE symbol == [key |-> key, desc |-> FALSE]
<1>0. symbol.key = key
  OBVIOUS
<1> HIDE DEF symbol
<1>1. CASE key \in DOMAIN s.dedup
  <2>1. s.dedup[key] \in Code!Ids(s) /\ s.syms[s.dedup[key]].key = key
    BY <1>1, OneSymbol DEF GraphOK
  <2>2. /\ t.syms = Code!Insert(s.syms, s.dedup[key], symbol) /\ t.name = s.name
        /\ t.dedup = s.dedup
    BY <1>1 DEF UpsertTo, symbol
  <2>3. /\ Code!Ids(t) = Code!Ids(s)
        /\ \A j \in Code!Ids(s) : t.syms[j].key = s.syms[j].key
    BY <1>0, <2>1, <2>2 DEF Code!Insert, Code!Ids
  <2>4. Exact(t)
    <3>1. t.name = {<<t.syms[i].key[1], i>> : i \in Code!Ids(t)}
      BY <2>2, <2>3 DEF GraphOK, Exact
    <3>2. DOMAIN t.dedup = {t.syms[i].key : i \in Code!Ids(t)}
      BY <2>2, <2>3 DEF GraphOK, Exact
    <3>3. \A i \in Code!Ids(t) : t.dedup[t.syms[i].key] = i
      BY <2>2, <2>3 DEF GraphOK, Exact
    <3> QED  BY <3>1, <3>2, <3>3 DEF Exact
  <2>5. Below(t, next + 1)
    BY <2>3 DEF GraphOK, Below
  <2>6. Means(t, meant)
    BY <2>3 DEF GraphOK, Means
  <2> QED  BY <2>4, <2>5, <2>6 DEF GraphOK, Mirror
<1>2. CASE key \notin DOMAIN s.dedup
  <2>1. next \notin Code!Ids(s)
    BY DEF GraphOK, Below
  <2>2. /\ t.syms = Code!Insert(s.syms, next, symbol) /\ t.name = s.name \cup {<<key[1], next>>}
        /\ t.dedup = Code!Insert(s.dedup, key, next)
    BY <1>2 DEF UpsertTo, symbol
  <2>3. /\ Code!Ids(t) = Code!Ids(s) \cup {next} /\ t.syms[next].key = key
        /\ \A j \in Code!Ids(s) : t.syms[j].key = s.syms[j].key
    BY <1>0, <2>1, <2>2 DEF Code!Insert, Code!Ids
  <2>4. /\ DOMAIN t.dedup = DOMAIN s.dedup \cup {key} /\ t.dedup[key] = next
        /\ \A k \in DOMAIN s.dedup : t.dedup[k] = s.dedup[k]
    BY <1>2, <2>2 DEF Code!Insert
  <2>5. Exact(t)
    <3>1. t.name = {<<t.syms[i].key[1], i>> : i \in Code!Ids(t)}
      BY <2>2, <2>3 DEF GraphOK, Exact
    <3>2. DOMAIN t.dedup = {t.syms[i].key : i \in Code!Ids(t)}
      BY <2>3, <2>4 DEF GraphOK, Exact
    <3>3. \A i \in Code!Ids(t) : t.dedup[t.syms[i].key] = i
      BY <2>3, <2>4 DEF GraphOK, Exact
    <3> QED  BY <3>1, <3>2, <3>3 DEF Exact
  <2>6. Below(t, next + 1)
    BY <2>3 DEF GraphOK, Below
  <2>7. Means(t, meant)
    BY <2>3 DEF GraphOK, Means
  <2> QED  BY <2>5, <2>6, <2>7 DEF GraphOK, Mirror
<1> QED  BY <1>1, <1>2

\* remove and remove_symbol, for each of a set of ids.
DropTo(t, s, gone) ==
    /\ t.syms = Code!Restrict(s.syms, Code!Ids(s) \ gone)
    /\ t.name = s.name \ {<<s.syms[i].key[1], i>> : i \in gone \cap Code!Ids(s)}
    /\ t.dedup = Code!Restrict(s.dedup, DOMAIN s.dedup \ Code!Owned(s, gone))
    /\ t.calls = {e \in s.calls : e[1] \notin gone
                                    /\ (e[2] \notin gone \/ <<e[2], e[1]>> \notin s.callers)}
    /\ t.callers = {e \in s.callers : e[1] \notin gone
                                        /\ (e[2] \notin gone \/ <<e[2], e[1]>> \notin s.calls)}

LEMMA DroppedIs ==
    ASSUME NEW s, DOMAIN s = CodeFields, NEW gone
    PROVE  LET t == Code!Dropped(s, gone) IN
           /\ DOMAIN t = CodeFields /\ SameEvents(t, s) /\ t.files = s.files
           /\ DropTo(t, s, gone)
<1> DEFINE u == Code!Remove(s, gone)
<1> HIDE DEF Code!Restrict, Code!Owned, Code!Ids
<1>1. /\ DOMAIN u = CodeFields /\ u.events = s.events /\ u.event = s.event /\ u.files = s.files
      /\ u.syms = Code!Restrict(s.syms, Code!Ids(s) \ gone)
      /\ u.name = s.name \ {<<s.syms[i].key[1], i>> : i \in gone \cap Code!Ids(s)}
      /\ u.dedup = Code!Restrict(s.dedup, DOMAIN s.dedup \ Code!Owned(s, gone))
      /\ u.calls = s.calls /\ u.callers = s.callers
  BY DEF Code!Remove, CodeFields
<1> HIDE DEF u
<1>2. LET t == Code!Unlink(u, gone) IN
      /\ DOMAIN t = CodeFields /\ t.events = u.events /\ t.event = u.event /\ t.files = u.files
      /\ t.syms = u.syms /\ t.name = u.name /\ t.dedup = u.dedup
      /\ t.calls = {e \in u.calls : e[1] \notin gone
                                    /\ (e[2] \notin gone \/ <<e[2], e[1]>> \notin u.callers)}
      /\ t.callers = {e \in u.callers : e[1] \notin gone
                                        /\ (e[2] \notin gone \/ <<e[2], e[1]>> \notin u.calls)}
  BY <1>1 DEF Code!Unlink, CodeFields
<1>3. Code!Dropped(s, gone) = Code!Unlink(u, gone)
  BY DEF Code!Dropped, u
<1> QED  BY <1>1, <1>2, <1>3, Zenon DEF DropTo, SameEvents

LEMMA DroppedGraph ==
    ASSUME NEW s, NEW t, NEW next, NEW meant, GraphOK(s, next, meant), NEW gone, DropTo(t, s, gone)
    PROVE  GraphOK(t, next, meant)
<1>1. /\ Code!Ids(t) = Code!Ids(s) \ gone
      /\ \A i \in Code!Ids(t) : t.syms[i] = s.syms[i]
  BY DEF DropTo, Code!Restrict, Code!Ids
<1>2. \A k : k \in Code!Owned(s, gone) <=>
             \E i \in gone \cap Code!Ids(s) : s.syms[i].key = k
  BY DEF GraphOK, Exact, Code!Owned
<1>3. /\ DOMAIN t.dedup = DOMAIN s.dedup \ Code!Owned(s, gone)
      /\ \A k \in DOMAIN t.dedup : t.dedup[k] = s.dedup[k]
  BY DEF DropTo, Code!Restrict
<1>4. \A i, j \in Code!Ids(s) : s.syms[i].key = s.syms[j].key => i = j
  BY OneSymbol DEF GraphOK
<1>5. Exact(t)
  <2>1. t.name = {<<t.syms[i].key[1], i>> : i \in Code!Ids(t)}
    <3>0. /\ s.name = {<<s.syms[i].key[1], i>> : i \in Code!Ids(s)}
          /\ t.name = s.name \ {<<s.syms[i].key[1], i>> : i \in gone \cap Code!Ids(s)}
      BY DEF GraphOK, Exact, DropTo
    <3>1. ASSUME NEW p \in t.name PROVE \E i \in Code!Ids(t) : p = <<t.syms[i].key[1], i>>
      <4>1. PICK i \in Code!Ids(s) : p = <<s.syms[i].key[1], i>>
        BY <3>0
      <4>2. i \notin gone
        BY <3>0, <4>1
      <4> QED  BY <1>1, <4>1, <4>2
    <3>2. ASSUME NEW i \in Code!Ids(t) PROVE <<t.syms[i].key[1], i>> \in t.name
      <4>1. i \in Code!Ids(s) /\ i \notin gone /\ t.syms[i] = s.syms[i]
        BY <1>1
      <4>2. <<s.syms[i].key[1], i>> \in s.name
        BY <3>0, <4>1
      <4>3. <<s.syms[i].key[1], i>> \notin {<<s.syms[j].key[1], j>> : j \in gone \cap Code!Ids(s)}
        BY <4>1
      <4> QED  BY <3>0, <4>1, <4>2, <4>3
    <3> QED  BY <3>1, <3>2
  <2>2. DOMAIN t.dedup = {t.syms[i].key : i \in Code!Ids(t)}
    <3>1. ASSUME NEW k \in DOMAIN t.dedup PROVE \E i \in Code!Ids(t) : t.syms[i].key = k
      <4>1. PICK i \in Code!Ids(s) : s.syms[i].key = k
        BY <1>3 DEF GraphOK, Exact
      <4> QED  BY <1>1, <1>2, <1>3, <4>1
    <3>2. ASSUME NEW i \in Code!Ids(t) PROVE t.syms[i].key \in DOMAIN t.dedup
      <4>1. i \in Code!Ids(s) /\ i \notin gone /\ t.syms[i].key = s.syms[i].key
        BY <1>1
      <4>2. s.syms[i].key \in DOMAIN s.dedup
        BY <4>1 DEF GraphOK, Exact
      <4>3. s.syms[i].key \notin Code!Owned(s, gone)
        BY <1>2, <1>4, <4>1
      <4> QED  BY <1>3, <4>1, <4>2, <4>3
    <3> QED  BY <3>1, <3>2
  <2>3. \A i \in Code!Ids(t) : t.dedup[t.syms[i].key] = i
    BY <1>1, <1>3, <2>2 DEF GraphOK, Exact
  <2> QED  BY <2>1, <2>2, <2>3 DEF Exact
<1>6. Below(t, next)
  BY <1>1 DEF GraphOK, Below
<1>7. /\ \A e : e \in t.calls <=> e \in s.calls /\ e[1] \notin gone /\ e[2] \notin gone
      /\ \A e : e \in t.callers <=> e \in s.callers /\ e[1] \notin gone /\ e[2] \notin gone
  BY DEF GraphOK, Mirror, DropTo
<1>8. Mirror(t)
  <2>1. ASSUME NEW e \in t.calls PROVE e = <<e[1], e[2]>> /\ <<e[2], e[1]>> \in t.callers
    <3>1. e = <<e[1], e[2]>> /\ <<e[2], e[1]>> \in s.callers /\ e[1] \notin gone /\ e[2] \notin gone
      BY <1>7 DEF GraphOK, Mirror
    <3> QED  BY <1>7, <3>1
  <2>2. ASSUME NEW e \in t.callers PROVE e = <<e[1], e[2]>> /\ <<e[2], e[1]>> \in t.calls
    <3>1. e = <<e[1], e[2]>> /\ <<e[2], e[1]>> \in s.calls /\ e[1] \notin gone /\ e[2] \notin gone
      BY <1>7 DEF GraphOK, Mirror
    <3> QED  BY <1>7, <3>1
  <2> QED  BY <2>1, <2>2 DEF Mirror
<1>9. Means(t, meant)
  BY <1>1, <1>7 DEF GraphOK, Means
<1> QED  BY <1>5, <1>6, <1>8, <1>9 DEF GraphOK

\* The other calls, field by field.
LEMMA EdgeIs ==
    ASSUME NEW s, DOMAIN s = CodeFields, NEW a, NEW b
    PROVE  LET t == Code!AddEdge(s, a, b) IN
           /\ DOMAIN t = CodeFields /\ SameEvents(t, s) /\ t.files = s.files
           /\ t.syms = s.syms /\ t.name = s.name /\ t.dedup = s.dedup
           /\ t.calls = s.calls \cup {<<a, b>>} /\ t.callers = s.callers \cup {<<b, a>>}
BY DEF Code!AddEdge, CodeFields, SameEvents

LEMMA FileIs ==
    ASSUME NEW s, DOMAIN s = CodeFields, NEW f, NEW project, NEW hash
    PROVE  LET t == Code!UpsertFile(s, f, project, hash) IN
           /\ DOMAIN t = CodeFields /\ SameEvents(t, s) /\ SameGraph(t, s)
           /\ t.files = Code!Insert(s.files, f, [project |-> project, hash |-> hash])
<1> HIDE DEF Code!Insert
<1> QED  BY DEF Code!UpsertFile, CodeFields, SameEvents, SameGraph

LEMMA DescribedIs ==
    ASSUME NEW s, DOMAIN s = CodeFields, NEW i
    PROVE  LET t == Code!Described(s, i) IN
           /\ DOMAIN t = CodeFields /\ SameEvents(t, s) /\ t.files = s.files
           /\ t.syms = Code!Insert(s.syms, i, [key |-> s.syms[i].key, desc |-> TRUE])
           /\ t.name = s.name /\ t.dedup = s.dedup
           /\ t.calls = s.calls /\ t.callers = s.callers
<1> HIDE DEF Code!Insert
<1> QED  BY DEF Code!Described, CodeFields, SameEvents

LEMMA DescribedGraph ==
    ASSUME NEW s, NEW t, NEW next, NEW meant, GraphOK(s, next, meant), NEW i \in Code!Ids(s),
           t.syms = Code!Insert(s.syms, i, [key |-> s.syms[i].key, desc |-> TRUE]),
           t.name = s.name, t.dedup = s.dedup, t.calls = s.calls, t.callers = s.callers
    PROVE  GraphOK(t, next, meant)
<1>1. /\ Code!Ids(t) = Code!Ids(s)
      /\ \A j \in Code!Ids(s) : t.syms[j].key = s.syms[j].key
  BY DEF Code!Insert, Code!Ids
<1> QED  BY <1>1, KeysSame

\* clear_project: the files and what was in them.
GoneOf(s, project) == {i \in Code!Ids(s) : s.syms[i].key[2] \in Code!PathsOf(s, project)}
LEMMA ClearedIs ==
    ASSUME NEW s, DOMAIN s = CodeFields, NEW project
    PROVE  LET t == Code!Cleared(s, project) IN
           /\ DOMAIN t = CodeFields /\ SameEvents(t, s)
           /\ t.files = Code!Restrict(s.files, DOMAIN s.files \ Code!PathsOf(s, project))
           /\ DropTo(t, s, GoneOf(s, project))
<1> DEFINE paths == Code!PathsOf(s, project)
           gone == GoneOf(s, project)
           u == [s EXCEPT !.files = Code!Restrict(s.files, DOMAIN s.files \ paths)]
<1>1. Code!Cleared(s, project) = Code!Dropped(u, gone)
  BY Zenon DEF Code!Cleared, GoneOf
<1> HIDE DEF paths, gone
<1>2. /\ DOMAIN u = CodeFields /\ u.events = s.events /\ u.event = s.event
      /\ u.files = Code!Restrict(s.files, DOMAIN s.files \ paths)
      /\ u.syms = s.syms /\ u.name = s.name /\ u.dedup = s.dedup
      /\ u.calls = s.calls /\ u.callers = s.callers
  <2> HIDE DEF Code!Restrict
  <2> QED  BY DEF CodeFields
<1> HIDE DEF u
<1>3. Code!Ids(u) = Code!Ids(s) /\ Code!Owned(u, gone) = Code!Owned(s, gone)
  BY <1>2 DEF Code!Owned, Code!Ids
<1>4. LET t == Code!Dropped(u, gone) IN
      DOMAIN t = CodeFields /\ SameEvents(t, u) /\ t.files = u.files /\ DropTo(t, u, gone)
  BY <1>2, DroppedIs
<1>5. SameEvents(Code!Dropped(u, gone), s) /\ DropTo(Code!Dropped(u, gone), s, gone)
  BY <1>2, <1>3, <1>4, Zenon DEF SameEvents, DropTo
<1> QED  BY <1>1, <1>2, <1>4, <1>5, Zenon DEF paths, gone

\* The same call on two stores with the same graph.
LEMMA UpsertSame ==
    ASSUME NEW w, NEW r, SameGraph(w, r), NEW u, NEW t, NEW i, NEW key,
           UpsertTo(u, w, i, key), u.calls = w.calls, u.callers = w.callers,
           UpsertTo(t, r, i, key), t.calls = r.calls, t.callers = r.callers
    PROVE  SameGraph(u, t)
<1>1. CASE key \in DOMAIN r.dedup
  BY <1>1, Zenon DEF SameGraph, UpsertTo
<1>2. CASE key \notin DOMAIN r.dedup
  BY <1>2, Zenon DEF SameGraph, UpsertTo
<1> QED  BY <1>1, <1>2

LEMMA DropSame ==
    ASSUME NEW w, NEW r, SameGraph(w, r), NEW u, NEW t, NEW gone,
           DropTo(u, w, gone), DropTo(t, r, gone)
    PROVE  SameGraph(u, t)
<1>1. Code!Ids(w) = Code!Ids(r) /\ Code!Owned(w, gone) = Code!Owned(r, gone)
  BY DEF SameGraph, Code!Ids, Code!Owned
<1>2. u.syms = t.syms /\ u.dedup = t.dedup
  BY <1>1, Zenon DEF SameGraph, DropTo
<1>3. u.name = t.name
  BY <1>1 DEF SameGraph, DropTo
<1>4. u.calls = t.calls /\ u.callers = t.callers
  BY DEF SameGraph, DropTo
<1> QED  BY <1>2, <1>3, <1>4 DEF SameGraph

\* What open() derives again from by_id is what was there.
LEMMA RebuiltGraph ==
    ASSUME NEW s, DOMAIN s = CodeFields, NEW next \in Nat, NEW meant, GraphOK(s, next, meant)
    PROVE  LET t == Code!RebuildDerived(s) IN
           /\ DOMAIN t = CodeFields /\ SameEvents(t, s) /\ t.files = s.files
           /\ t.syms = s.syms /\ t.calls = s.calls /\ t.callers = s.callers
           /\ GraphOK(t, next, meant)
<1> DEFINE t == Code!RebuildDerived(s)
           name == {<<s.syms[i].key[1], i>> : i \in Code!Ids(s)}
           dedup == [k \in {s.syms[i].key : i \in Code!Ids(s)} |->
                         Code!Max({i \in Code!Ids(s) : s.syms[i].key = k})]
<1>1. t = [s EXCEPT !.name = name, !.dedup = dedup]
  BY Zenon DEF Code!RebuildDerived
<1> HIDE DEF t, name, dedup
<1>2. /\ DOMAIN t = CodeFields /\ t.events = s.events /\ t.event = s.event /\ t.files = s.files
      /\ t.syms = s.syms /\ t.calls = s.calls /\ t.callers = s.callers
      /\ t.name = name /\ t.dedup = dedup
  BY <1>1 DEF CodeFields
<1>3. DOMAIN dedup = {s.syms[i].key : i \in Code!Ids(s)}
  BY DEF dedup
<1>4. ASSUME NEW j \in Code!Ids(s) PROVE dedup[s.syms[j].key] = j
  <2> DEFINE S == {i \in Code!Ids(s) : s.syms[i].key = s.syms[j].key}
  <2>1. dedup[s.syms[j].key] = Max(S)
    BY DEF dedup, Code!Max, Max
  <2>2. j \in Nat /\ S = {j}
    BY OneSymbol DEF GraphOK, Below
  <2> HIDE DEF S
  <2>3. Max(S) \in S
    BY <2>2, MaxOf
  <2> QED  BY <2>1, <2>2, <2>3
<1>5. Code!Ids(t) = Code!Ids(s)
  BY <1>2 DEF Code!Ids
<1>6. Exact(t)
  BY <1>2, <1>3, <1>4, <1>5 DEF Exact, name
<1>7. Below(t, next) /\ Mirror(t) /\ Means(t, meant)
  BY <1>2, <1>5 DEF GraphOK, Below, Mirror, Means
<1> QED  BY <1>2, <1>6, <1>7 DEF GraphOK, SameEvents, t

\* The event log: ids are given out once, and the record that is not on the log
\* yet is the newest.
CodeEnv ==
    /\ DOMAIN env = {"calls", "next", "sweep", "meant", "issued"}
    /\ env.next \in Nat \ {0}
IssuedInv ==
    /\ \A d \in env.issued : d[1] \in Nat /\ d[1] <= ram.event
    /\ \A d, e \in env.issued : d[1] = e[1] => d = e
PendingInv ==
    \/ todo = <<>> /\ (~gap => wal.events = ram.events)
    \/ \E i \in Nat : /\ todo = <<[op |-> "event", id |-> i]>>
                      /\ ~gap => ram.events = wal.events \cup {i}

CodeInv ==
    /\ gap \in BOOLEAN /\ CodeEnv /\ CodeShape(ram) /\ CodeShape(wal)
    /\ GraphOK(ram, env.next, env.meant)
    /\ SameGraph(wal, ram) /\ FilesAlike(wal, ram)
    /\ IssuedInv /\ PendingInv

\* A call that logs its record before it touches RAM, or touches neither.
LEMMA CallStep ==
    ASSUME CodeInv, DOMAIN ram' = CodeFields, DOMAIN wal' = CodeFields,
           SameEvents(ram', ram), SameEvents(wal', wal),
           GraphOK(ram', env'.next, env'.meant), SameGraph(wal', ram'), FilesAlike(wal', ram'),
           todo' = todo, gap' = gap, CodeEnv', env'.issued = env.issued
    PROVE  CodeInv'
<1>1. CodeShape(ram') /\ CodeShape(wal')
  BY ShapeSame DEF CodeInv
<1>2. IssuedInv'
  BY DEF CodeInv, IssuedInv, SameEvents
<1>3. PendingInv'
  BY DEF CodeInv, PendingInv, SameEvents
<1> HIDE DEF CodeShape, GraphOK, SameGraph, FilesAlike, CodeEnv, IssuedInv, PendingInv
<1> QED  BY <1>1, <1>2, <1>3 DEF CodeInv

\* What the invariant says before a call.
LEMMA CodeParts ==
    ASSUME CodeInv
    PROVE  /\ DOMAIN ram = CodeFields /\ DOMAIN wal = CodeFields
           /\ CodeShape(ram) /\ CodeShape(wal) /\ CodeEnv
           /\ GraphOK(ram, env.next, env.meant) /\ SameGraph(wal, ram) /\ FilesAlike(wal, ram)
           /\ Code!Ids(wal) = Code!Ids(ram)
BY DEF CodeInv, CodeShape, SameGraph, Code!Ids

LEMMA SymbolStep ==
    ASSUME CodeInv, NEW key, Code!UpsertSymbol(key)
    PROVE  CodeInv'
<1>1. /\ ram' = Code!Upsert(ram, env.next, key)
      /\ wal' = Code!Replay(wal, [op |-> "symbol", id |-> env.next, key |-> key])
      /\ todo' = todo /\ gap' = gap
      /\ env' = [env EXCEPT !.calls = @ + 1, !.next = @ + 1]
  BY Zenon DEF Code!UpsertSymbol, Code!Commit
<1>2. wal' = Code!Upsert(wal, env.next, key)
  <2> HIDE DEF Code!Upsert
  <2> QED  BY <1>1 DEF Code!Replay
<1>3. CodeEnv' /\ env'.next = env.next + 1 /\ env'.meant = env.meant /\ env'.issued = env.issued
      /\ env.next \in Nat \ {0}
  BY <1>1, CodeParts DEF CodeEnv
<1>4. /\ DOMAIN ram' = CodeFields /\ SameEvents(ram', ram) /\ ram'.files = ram.files
      /\ ram'.calls = ram.calls /\ ram'.callers = ram.callers
      /\ UpsertTo(ram', ram, env.next, key)
  BY <1>1, CodeParts, UpsertIs, Zenon
<1>5. /\ DOMAIN wal' = CodeFields /\ SameEvents(wal', wal) /\ wal'.files = wal.files
      /\ wal'.calls = wal.calls /\ wal'.callers = wal.callers
      /\ UpsertTo(wal', wal, env.next, key)
  BY <1>2, CodeParts, UpsertIs, Zenon
<1>6. GraphOK(ram', env'.next, env'.meant)
  BY <1>3, <1>4, CodeParts, UpsertGraph
<1>7. SameGraph(wal', ram')
  BY <1>4, <1>5, CodeParts, UpsertSame
<1>8. FilesAlike(wal', ram')
  BY <1>4, <1>5, CodeParts DEF FilesAlike
<1> QED  BY <1>1, <1>3, <1>4, <1>5, <1>6, <1>7, <1>8, CallStep

LEMMA RemovalStep ==
    ASSUME CodeInv, NEW i, Code!RemoveStep(i), CodeEnv',
           env'.next = env.next, env'.meant = env.meant, env'.issued = env.issued
    PROVE  CodeInv'
<1>1. /\ ram' = Code!Dropped(ram, {i})
      /\ wal' = Code!Replay(wal, [op |-> "remove", id |-> i])
      /\ todo' = todo /\ gap' = gap
  BY Zenon DEF Code!RemoveStep, Code!Commit
<1>2. wal' = Code!Dropped(wal, {i})
  <2> HIDE DEF Code!Dropped
  <2> QED  BY <1>1 DEF Code!Replay
<1>3. /\ DOMAIN ram' = CodeFields /\ SameEvents(ram', ram) /\ ram'.files = ram.files
      /\ DropTo(ram', ram, {i})
  BY <1>1, CodeParts, DroppedIs, Zenon
<1>4. /\ DOMAIN wal' = CodeFields /\ SameEvents(wal', wal) /\ wal'.files = wal.files
      /\ DropTo(wal', wal, {i})
  BY <1>2, CodeParts, DroppedIs, Zenon
<1>5. GraphOK(ram', env'.next, env'.meant)
  BY <1>3, CodeParts, DroppedGraph
<1>6. SameGraph(wal', ram')
  BY <1>3, <1>4, CodeParts, DropSame
<1>7. FilesAlike(wal', ram')
  BY <1>3, <1>4, CodeParts DEF FilesAlike
<1> QED  BY <1>1, <1>3, <1>4, <1>5, <1>6, <1>7, CallStep

\* What touches neither image: the sweeps' bookkeeping, and a stutter.
LEMMA IdleStep ==
    ASSUME CodeInv, ram' = ram, wal' = wal, todo' = todo, gap' = gap, CodeEnv',
           env'.next = env.next, env'.meant = env.meant, env'.issued = env.issued
    PROVE  CodeInv'
<1>1. SameEvents(ram', ram) /\ SameEvents(wal', wal)
  BY DEF SameEvents
<1> QED  BY <1>1, CodeParts, CallStep

LEMMA EdgeStep ==
    ASSUME CodeInv, NEW a, NEW b, Code!AddCallEdge(a, b)
    PROVE  CodeInv'
<1> DEFINE mean == IF {a, b} \subseteq Code!Ids(ram)
                   THEN <<ram.syms[a].key, ram.syms[b].key>> ELSE <<>>
<1>1. /\ ram' = Code!AddEdge(ram, a, b)
      /\ wal' = Code!Replay(wal, [op |-> "edge", id |-> a, to |-> b])
      /\ todo' = todo /\ gap' = gap
      /\ env' = [env EXCEPT !.calls = @ + 1, !.meant = Code!Insert(@, <<a, b>>, mean)]
  BY Zenon DEF Code!AddCallEdge, Code!Commit
<1>2. wal' = Code!AddEdge(wal, a, b)
  <2> HIDE DEF Code!AddEdge
  <2> QED  BY <1>1 DEF Code!Replay
<1>3. /\ CodeEnv' /\ env'.next = env.next /\ env'.meant = Code!Insert(env.meant, <<a, b>>, mean)
      /\ env'.issued = env.issued
  <2> HIDE DEF mean, Code!Insert
  <2> QED  BY <1>1, CodeParts DEF CodeEnv
<1>4. /\ DOMAIN ram' = CodeFields /\ SameEvents(ram', ram) /\ ram'.files = ram.files
      /\ ram'.syms = ram.syms /\ ram'.name = ram.name /\ ram'.dedup = ram.dedup
      /\ ram'.calls = ram.calls \cup {<<a, b>>} /\ ram'.callers = ram.callers \cup {<<b, a>>}
  BY <1>1, CodeParts, EdgeIs
<1>5. /\ DOMAIN wal' = CodeFields /\ SameEvents(wal', wal) /\ wal'.files = wal.files
      /\ wal'.syms = wal.syms /\ wal'.name = wal.name /\ wal'.dedup = wal.dedup
      /\ wal'.calls = wal.calls \cup {<<a, b>>} /\ wal'.callers = wal.callers \cup {<<b, a>>}
  BY <1>2, CodeParts, EdgeIs
<1>6. Code!Ids(ram') = Code!Ids(ram)
  BY <1>4 DEF Code!Ids
<1>7. Exact(ram') /\ Below(ram', env.next)
  BY <1>4, <1>6, CodeParts DEF GraphOK, Exact, Below
<1>8. Mirror(ram')
  BY <1>4, CodeParts DEF GraphOK, Mirror
<1>9. Means(ram', env'.meant)
  <2>1. /\ DOMAIN env'.meant = DOMAIN env.meant \cup {<<a, b>>} /\ env'.meant[<<a, b>>] = mean
        /\ \A e \in DOMAIN env.meant : e # <<a, b>> => env'.meant[e] = env.meant[e]
    <3> HIDE DEF mean
    <3> QED  BY <1>3 DEF Code!Insert
  <2> SUFFICES ASSUME NEW e \in ram'.calls
               PROVE  /\ e \in DOMAIN env'.meant
                      /\ env'.meant[e] # <<>> =>
                            /\ e[1] \in Code!Ids(ram) /\ e[2] \in Code!Ids(ram)
                            /\ env'.meant[e] = <<ram.syms[e[1]].key, ram.syms[e[2]].key>>
    BY <1>4, <1>6 DEF Means
  <2>2. CASE e = <<a, b>>
    BY <2>1, <2>2
  <2>3. CASE e # <<a, b>>
    <3>1. e \in ram.calls
      BY <1>4, <2>3
    <3> HIDE DEF mean
    <3> QED  BY <2>1, <2>3, <3>1, CodeParts DEF GraphOK, Means
  <2> QED  BY <2>2, <2>3
<1>10. GraphOK(ram', env'.next, env'.meant)
  BY <1>3, <1>7, <1>8, <1>9 DEF GraphOK
<1>11. SameGraph(wal', ram') /\ FilesAlike(wal', ram')
  BY <1>4, <1>5, CodeParts DEF SameGraph, FilesAlike
<1> QED  BY <1>1, <1>3, <1>4, <1>5, <1>10, <1>11, CallStep

LEMMA CodeCalled ==
    ASSUME CodeInv, Code!Called
    PROVE  CodeEnv' /\ env'.next = env.next /\ env'.meant = env.meant /\ env'.issued = env.issued
BY CodeParts DEF Code!Called, CodeEnv

LEMMA FileStep ==
    ASSUME CodeInv, NEW f, NEW hash, Code!UpsertCodeFile(f, hash)
    PROVE  CodeInv'
<1> DEFINE project == ProjectOf(f)
<1>1. /\ ram' = Code!UpsertFile(ram, f, project, hash)
      /\ wal' = Code!Replay(wal, [op |-> "file", file |-> f, project |-> project, hash |-> hash])
      /\ todo' = todo /\ gap' = gap /\ Code!Called
  BY Zenon DEF Code!UpsertCodeFile, Code!Commit
<1> HIDE DEF project
<1>2. wal' = Code!UpsertFile(wal, f, project, hash)
  <2> HIDE DEF Code!UpsertFile
  <2> QED  BY <1>1 DEF Code!Replay
<1> DEFINE file == [project |-> project, hash |-> hash]
<1>3. /\ DOMAIN ram' = CodeFields /\ SameEvents(ram', ram) /\ SameGraph(ram', ram)
      /\ ram'.files = Code!Insert(ram.files, f, file)
  BY <1>1, CodeParts, FileIs, Zenon
<1>4. /\ DOMAIN wal' = CodeFields /\ SameEvents(wal', wal) /\ SameGraph(wal', wal)
      /\ wal'.files = Code!Insert(wal.files, f, file)
  BY <1>2, CodeParts, FileIs, Zenon
<1> HIDE DEF file
<1>5. FilesAlike(wal', ram')
  BY <1>3, <1>4, CodeParts DEF FilesAlike, Code!Insert
<1>6. SameGraph(wal', ram')
  BY <1>3, <1>4, CodeParts DEF SameGraph
<1>7. GraphOK(ram', env'.next, env'.meant)
  BY <1>1, <1>3, CodeParts, CodeCalled, GraphSame
<1> QED  BY <1>1, <1>3, <1>4, <1>5, <1>6, <1>7, CodeCalled, CallStep

LEMMA ClearStep ==
    ASSUME CodeInv, NEW project, Code!ClearProject(project)
    PROVE  CodeInv'
<1>1. /\ ram' = Code!Cleared(ram, project)
      /\ wal' = Code!Replay(wal, [op |-> "clear", project |-> project])
      /\ todo' = todo /\ gap' = gap /\ Code!Called
  BY Zenon DEF Code!ClearProject, Code!Commit
<1>2. wal' = Code!Cleared(wal, project)
  <2> HIDE DEF Code!Cleared
  <2> QED  BY <1>1 DEF Code!Replay
<1>3. /\ DOMAIN ram' = CodeFields /\ SameEvents(ram', ram)
      /\ ram'.files = Code!Restrict(ram.files, DOMAIN ram.files \ Code!PathsOf(ram, project))
      /\ DropTo(ram', ram, GoneOf(ram, project))
  BY <1>1, CodeParts, ClearedIs, Zenon
<1>4. /\ DOMAIN wal' = CodeFields /\ SameEvents(wal', wal)
      /\ wal'.files = Code!Restrict(wal.files, DOMAIN wal.files \ Code!PathsOf(wal, project))
      /\ DropTo(wal', wal, GoneOf(wal, project))
  BY <1>2, CodeParts, ClearedIs, Zenon
<1>5. Code!PathsOf(wal, project) = Code!PathsOf(ram, project)
  BY CodeParts DEF FilesAlike, Code!PathsOf
<1>6. GoneOf(wal, project) = GoneOf(ram, project)
  BY <1>5, CodeParts DEF SameGraph, GoneOf
<1>7. FilesAlike(wal', ram')
  BY <1>3, <1>4, <1>5, CodeParts DEF FilesAlike, Code!Restrict
<1>8. SameGraph(wal', ram')
  BY <1>3, <1>4, <1>6, CodeParts, DropSame
<1>9. GraphOK(ram', env'.next, env'.meant)
  BY <1>1, <1>3, CodeParts, CodeCalled, DroppedGraph
<1> QED  BY <1>1, <1>3, <1>4, <1>7, <1>8, <1>9, CodeCalled, CallStep

LEMMA DescribeStep ==
    ASSUME CodeInv, NEW i, Code!SetSymbolDescription(i)
    PROVE  CodeInv'
<1>1. /\ ram' = Code!Described(ram, i) /\ i \in Code!Ids(ram)
      /\ wal' = Code!Replay(wal, [op |-> "describe", id |-> i])
      /\ todo' = todo /\ gap' = gap /\ Code!Called
  BY Zenon DEF Code!SetSymbolDescription, Code!Commit
<1>2. wal' = Code!Described(wal, i)
  <2>1. i \in Code!Ids(wal)
    BY <1>1, CodeParts
  <2> HIDE DEF Code!Described
  <2> QED  BY <1>1, <2>1 DEF Code!Replay
<1>3. /\ DOMAIN ram' = CodeFields /\ SameEvents(ram', ram) /\ ram'.files = ram.files
      /\ ram'.syms = Code!Insert(ram.syms, i, [key |-> ram.syms[i].key, desc |-> TRUE])
      /\ ram'.name = ram.name /\ ram'.dedup = ram.dedup
      /\ ram'.calls = ram.calls /\ ram'.callers = ram.callers
  BY <1>1, CodeParts, DescribedIs, Zenon
<1>4. /\ DOMAIN wal' = CodeFields /\ SameEvents(wal', wal) /\ wal'.files = wal.files
      /\ wal'.syms = Code!Insert(wal.syms, i, [key |-> wal.syms[i].key, desc |-> TRUE])
      /\ wal'.name = wal.name /\ wal'.dedup = wal.dedup
      /\ wal'.calls = wal.calls /\ wal'.callers = wal.callers
  BY <1>2, CodeParts, DescribedIs, Zenon
<1>5. GraphOK(ram', env'.next, env'.meant)
  <2>1. env'.next = env.next /\ env'.meant = env.meant /\ GraphOK(ram, env.next, env.meant)
    BY <1>1, CodeParts, CodeCalled
  <2>2. GraphOK(ram', env.next, env.meant)
    BY <1>1, <1>3, <2>1, DescribedGraph, Zenon
  <2> QED  BY <2>1, <2>2
<1>6. SameGraph(wal', ram')
  BY <1>3, <1>4, CodeParts, Zenon DEF SameGraph
<1>7. FilesAlike(wal', ram')
  BY <1>3, <1>4, CodeParts DEF FilesAlike
<1> QED  BY <1>1, <1>3, <1>4, <1>5, <1>6, <1>7, CodeCalled, CallStep

\* log_symbol_event: a fresh id in RAM, its record still to be appended.
LEMMA EventStep ==
    ASSUME CodeInv, Code!LogSymbolEvent
    PROVE  CodeInv'
<1> DEFINE i == ram.event + 1
<1>1. /\ todo = <<>> /\ ram' = [ram EXCEPT !.event = i, !.events = @ \cup {i}]
      /\ todo' = <<[op |-> "event", id |-> i]>> /\ wal' = wal /\ gap' = gap
      /\ env' = [env EXCEPT !.calls = @ + 1, !.issued = @ \cup {<<i, env.calls>>}]
  BY Zenon DEF Code!LogSymbolEvent, Code!May, Code!Log!Idle
<1>2. i \in Nat /\ i > ram.event /\ ram.event \in Nat
  BY CodeParts DEF CodeShape
<1> HIDE DEF i
<1>3. /\ DOMAIN ram' = CodeFields /\ SameGraph(ram', ram) /\ ram'.files = ram.files
      /\ ram'.event = i /\ ram'.events = ram.events \cup {i}
  BY <1>1, CodeParts DEF CodeFields, SameGraph
<1>4. /\ CodeEnv' /\ env'.next = env.next /\ env'.meant = env.meant
      /\ env'.issued = env.issued \cup {<<i, env.calls>>}
  BY <1>1, CodeParts DEF CodeEnv
<1>5. CodeShape(ram')
  BY <1>2, <1>3, CodeParts DEF CodeShape
<1>6. IssuedInv'
  <2>1. \A d \in env.issued : d[1] \in Nat /\ d[1] <= ram.event /\ d[1] # i
    BY <1>2 DEF CodeInv, IssuedInv
  <2> QED  BY <1>2, <1>3, <1>4, <2>1 DEF CodeInv, IssuedInv
<1>7. PendingInv'
  <2>1. ~gap => ram.events = wal.events
    BY <1>1 DEF CodeInv, PendingInv
  <2> QED  BY <1>1, <1>2, <1>3, <2>1 DEF PendingInv
<1>8. GraphOK(ram', env'.next, env'.meant)
  BY <1>3, <1>4, CodeParts, GraphSame
<1>9. SameGraph(wal', ram') /\ FilesAlike(wal', ram')
  BY <1>1, <1>3, CodeParts DEF SameGraph, FilesAlike
<1> HIDE DEF CodeShape, GraphOK, SameGraph, FilesAlike, CodeEnv, IssuedInv, PendingInv
<1> QED  BY <1>1, <1>4, <1>5, <1>6, <1>7, <1>8, <1>9 DEF CodeInv

LEMMA LoggedStep ==
    ASSUME CodeInv, Code!Log!Logged, env' = env
    PROVE  CodeInv'
<1>1. /\ todo # <<>> /\ wal' = Code!Replay(wal, Head(todo)) /\ todo' = Tail(todo)
      /\ ram' = ram /\ gap' = gap
  BY DEF Code!Log!Logged, Code!Log!Idle
<1>2. PICK i \in Nat : /\ todo = <<[op |-> "event", id |-> i]>>
                       /\ ~gap => ram.events = wal.events \cup {i}
  BY <1>1 DEF CodeInv, PendingInv
<1>3. wal' = Code!ReplayEvent(wal, i) /\ todo' = <<>>
  <2> HIDE DEF Code!ReplayEvent
  <2> QED  BY <1>1, <1>2 DEF Code!Replay
<1>4. wal.event \in Nat /\ \A x \in wal.events : x \in Nat /\ x <= wal.event
  BY CodeParts DEF CodeShape
<1>5. /\ DOMAIN wal' = CodeFields /\ SameGraph(wal', wal) /\ wal'.files = wal.files
      /\ wal'.events = wal.events \cup {i} /\ wal'.event \in Nat
      /\ i <= wal'.event /\ wal.event <= wal'.event
  BY <1>3, <1>4, CodeParts DEF CodeFields, SameGraph, Code!ReplayEvent
<1>6. CodeShape(wal')
  BY <1>4, <1>5 DEF CodeShape
<1>7. PendingInv'
  BY <1>1, <1>2, <1>3, <1>5 DEF PendingInv
<1>8. SameGraph(wal', ram') /\ FilesAlike(wal', ram')
  BY <1>1, <1>5, CodeParts DEF SameGraph, FilesAlike
<1>9. IssuedInv' /\ CodeEnv'
  BY <1>1 DEF CodeInv, IssuedInv, CodeEnv
<1> HIDE DEF CodeShape, GraphOK, SameGraph, FilesAlike, CodeEnv, IssuedInv, PendingInv
<1> QED  BY <1>1, <1>6, <1>7, <1>8, <1>9 DEF CodeInv

LEMMA LogFailsStep ==
    ASSUME CodeInv, Code!Log!LogFails, env' = env
    PROVE  CodeInv'
<1>1. todo' = <<>> /\ gap' = TRUE /\ ram' = ram /\ wal' = wal
  BY DEF Code!Log!LogFails
<1>2. PendingInv' /\ gap' \in BOOLEAN
  BY <1>1 DEF PendingInv
<1>3. IssuedInv' /\ CodeEnv'
  BY <1>1 DEF CodeInv, IssuedInv, CodeEnv
<1> HIDE DEF CodeShape, GraphOK, SameGraph, FilesAlike, CodeEnv, IssuedInv, PendingInv
<1> QED  BY <1>1, <1>2, <1>3 DEF CodeInv

\* A saved body: no hashes, no events; where that loses something, a gap.
LEMMA CodeSaveStep ==
    ASSUME CodeInv, Code!Save
    PROVE  CodeInv'
<1>1. /\ todo = <<>> /\ todo' = <<>> /\ ram' = ram /\ wal' = Code!Body(ram) /\ env' = env
      /\ gap' = (Code!Body(ram) # ram)
  BY DEF Code!Save, Code!Log!Checkpoint, Code!Log!Idle
<1> DEFINE files == [f \in DOMAIN ram.files |->
                        [project |-> ram.files[f].project, hash |-> Code!NoHash]]
<1>2. wal' = [ram EXCEPT !.files = files, !.events = {}, !.event = 0]
  BY <1>1, Zenon DEF Code!Body
<1> HIDE DEF files
<1>3. /\ DOMAIN wal' = CodeFields /\ SameGraph(wal', ram) /\ wal'.files = files
      /\ wal'.events = {} /\ wal'.event = 0
  BY <1>2, CodeParts DEF CodeFields, SameGraph
<1>4. CodeShape(wal')
  BY <1>3 DEF CodeShape
<1>5. FilesAlike(wal', ram')
  BY <1>1, <1>3 DEF FilesAlike, files
<1>6. gap' \in BOOLEAN
  BY <1>1
<1>7. PendingInv'
  <2>1. ~gap' => wal' = ram
    BY <1>1, Zenon
  <2> QED  BY <1>1, <2>1 DEF PendingInv
<1>8. IssuedInv' /\ CodeEnv'
  BY <1>1 DEF CodeInv, IssuedInv, CodeEnv
<1> HIDE DEF CodeShape, GraphOK, SameGraph, FilesAlike, CodeEnv, IssuedInv, PendingInv
<1> QED  BY <1>1, <1>3, <1>4, <1>5, <1>6, <1>7, <1>8 DEF CodeInv

LEMMA CodeReopenStep ==
    ASSUME CodeInv, Code!Reopen
    PROVE  CodeInv'
<1> DEFINE new == Code!RebuildDerived(wal)
           next == Code!Max(Code!Ids(new) \cup {0}) + 1
           issued == {e \in env.issued : e[1] \in wal.events}
<1>1. /\ ram' = new /\ wal' = new /\ todo' = <<>> /\ gap' = FALSE
      /\ env' = [env EXCEPT !.next = next, !.sweep = {}, !.issued = issued]
  BY Zenon DEF Code!Reopen
<1>2. GraphOK(wal, env.next, env.meant)
  BY CodeParts, GraphSame
<1>3. /\ DOMAIN new = CodeFields /\ SameEvents(new, wal) /\ new.syms = wal.syms
      /\ GraphOK(new, env.next, env.meant)
  BY <1>2, CodeParts, RebuiltGraph DEF CodeEnv
<1> HIDE DEF new
<1>4. next \in Nat \ {0} /\ \A i \in Code!Ids(new) : i < next
  <2> DEFINE S == Code!Ids(new) \cup {0}
  <2>1. S \in SUBSET Nat /\ S # {} /\ env.next \in Nat /\ \A i \in S : i <= env.next
    BY <1>3, CodeParts DEF GraphOK, Below, CodeEnv
  <2>2. Code!Max(S) = Max(S)
    BY DEF Code!Max, Max
  <2> HIDE DEF S
  <2>3. Max(S) \in Nat /\ \A i \in S : i <= Max(S)
    BY <2>1, MaxOf
  <2>4. next = Max(S) + 1
    BY <2>2 DEF S
  <2>5. \A i \in Code!Ids(new) : i \in S
    BY DEF S
  <2>6. ASSUME NEW i \in Code!Ids(new) PROVE i < Max(S) + 1
    <3>1. i \in Nat /\ i <= Max(S) /\ Max(S) \in Nat
      BY <2>1, <2>3, <2>5
    <3> QED  BY <3>1
  <2> HIDE DEF next
  <2> QED  BY <2>3, <2>4, <2>6
<1> HIDE DEF next
<1>5. /\ CodeEnv' /\ env'.next = next /\ env'.meant = env.meant /\ env'.issued = issued
  <2> HIDE DEF issued
  <2> QED  BY <1>1, <1>4, CodeParts DEF CodeEnv
<1>6. GraphOK(ram', env'.next, env'.meant)
  BY <1>1, <1>3, <1>4, <1>5 DEF GraphOK, Below
<1>7. CodeShape(ram') /\ CodeShape(wal')
  BY <1>1, <1>3, CodeParts, ShapeSame
<1>8. SameGraph(wal', ram') /\ FilesAlike(wal', ram')
  BY <1>1 DEF SameGraph, FilesAlike
<1>9. IssuedInv'
  <2>1. \A x \in wal.events : x \in Nat /\ x <= wal.event
    BY CodeParts DEF CodeShape
  <2>2. ram'.event = wal.event
    BY <1>1, <1>3 DEF SameEvents
  <2> QED  BY <1>5, <2>1, <2>2 DEF CodeInv, IssuedInv
<1>10. PendingInv' /\ gap' \in BOOLEAN
  BY <1>1 DEF PendingInv
<1> HIDE DEF CodeShape, GraphOK, SameGraph, FilesAlike, CodeEnv, IssuedInv, PendingInv
<1> QED  BY <1>5, <1>6, <1>7, <1>8, <1>9, <1>10 DEF CodeInv

LEMMA SweepStep ==
    ASSUME CodeInv, NEW ids, Code!StartSweep(ids)
    PROVE  CodeInv'
<1>1. /\ ram' = ram /\ wal' = wal /\ todo' = todo /\ gap' = gap
      /\ env' = [env EXCEPT !.calls = @ + 1, !.sweep = ids]
  BY Zenon DEF Code!StartSweep
<1>2. CodeEnv' /\ env'.next = env.next /\ env'.meant = env.meant /\ env'.issued = env.issued
  BY <1>1, CodeParts DEF CodeEnv
<1> QED  BY <1>1, <1>2, IdleStep

LEMMA CodeInductive ==
    ASSUME CodeInv, [Code!Next]_(Code!vars)
    PROVE  CodeInv'
<1> HIDE DEF CodeInv
<1>1. CASE \E key \in CodeKeys : Code!UpsertSymbol(key)
  BY <1>1, SymbolStep
<1>2. CASE \E i \in Code!Ids(ram) : Code!RemoveSymbol(i)
  BY <1>2, CodeCalled, RemovalStep DEF Code!RemoveSymbol
<1>3. CASE \E i \in Code!Ids(ram) : Code!SetSymbolDescription(i)
  BY <1>3, DescribeStep
<1>4. CASE \E f \in Code!Files : Code!RemoveSymbolsByFile(f) \/ Code!DedupeSymbols(f)
  BY <1>4, SweepStep DEF Code!RemoveSymbolsByFile, Code!DedupeSymbols
<1>5. CASE \E f \in Code!Files : \E hash \in {Code!NoHash, "h"} : Code!UpsertCodeFile(f, hash)
  BY <1>5, FileStep
<1>6. CASE Code!SweepNext
  <2>1. PICK i \in env.sweep : Code!RemoveStep(i) /\ env' = [env EXCEPT !.sweep = @ \ {i}]
    BY <1>6 DEF Code!SweepNext
  <2>2. CodeEnv' /\ env'.next = env.next /\ env'.meant = env.meant /\ env'.issued = env.issued
    BY <2>1, CodeParts DEF CodeEnv
  <2> QED  BY <2>1, <2>2, RemovalStep
<1>7. CASE Code!SweepFails
  <2>1. /\ ram' = ram /\ wal' = wal /\ todo' = todo /\ gap' = gap
        /\ env' = [env EXCEPT !.sweep = {}]
    BY <1>7 DEF Code!SweepFails
  <2>2. CodeEnv' /\ env'.next = env.next /\ env'.meant = env.meant /\ env'.issued = env.issued
    BY <2>1, CodeParts DEF CodeEnv
  <2> QED  BY <2>1, <2>2, IdleStep
<1>8. CASE \E a, b \in 1..(env.next - 1) : Code!AddCallEdge(a, b)
  BY <1>8, EdgeStep
<1>9. CASE \E f \in Code!Files : Code!ClearProject(ProjectOf(f))
  BY <1>9, ClearStep
<1>10. CASE Code!LogSymbolEvent
  BY <1>10, EventStep
<1>11. CASE (Code!Log!Logged \/ Code!Log!LogFails) /\ UNCHANGED env
  BY <1>11, LoggedStep, LogFailsStep
<1>12. CASE Code!Save \/ Code!Reopen
  BY <1>12, CodeSaveStep, CodeReopenStep
<1>13. CASE UNCHANGED Code!vars
  <2>1. ram' = ram /\ wal' = wal /\ todo' = todo /\ gap' = gap /\ env' = env
    BY <1>13 DEF Code!vars
  <2>2. CodeEnv'
    BY <2>1, CodeParts DEF CodeEnv
  <2> QED  BY <2>1, <2>2, IdleStep
<1> QED  BY <1>1, <1>2, <1>3, <1>4, <1>5, <1>6, <1>7, <1>8, <1>9, <1>10, <1>11, <1>12, <1>13,
            Zenon DEF Code!Next

LEMMA CodeStart ==
    ASSUME Code!Init
    PROVE  CodeInv
<1>1. /\ ram = Code!Empty /\ wal = Code!Empty /\ todo = <<>> /\ gap = FALSE
      /\ env = [calls |-> 0, next |-> 1, sweep |-> {}, meant |-> <<>>, issued |-> {}]
  BY DEF Code!Init, Code!Log!LogInit
<1>2. /\ DOMAIN ram = CodeFields /\ DOMAIN ram.syms = {} /\ ram.name = {} /\ DOMAIN ram.dedup = {}
      /\ ram.calls = {} /\ ram.callers = {} /\ DOMAIN ram.files = {} /\ ram.events = {}
      /\ ram.event = 0 /\ wal = ram
  BY <1>1 DEF Code!Empty, CodeFields
<1>3. CodeEnv /\ env.issued = {}
  BY <1>1 DEF CodeEnv
<1>4. gap \in BOOLEAN
  BY <1>1
<1>5. CodeShape(ram)
  BY <1>2 DEF CodeShape
<1>6. GraphOK(ram, env.next, env.meant)
  BY <1>2 DEF GraphOK, Exact, Below, Mirror, Means, Code!Ids
<1>7. SameGraph(wal, ram) /\ FilesAlike(wal, ram)
  BY <1>2 DEF SameGraph, FilesAlike
<1>8. IssuedInv /\ PendingInv
  BY <1>1, <1>2, <1>3 DEF IssuedInv, PendingInv
<1> HIDE DEF CodeShape, GraphOK, SameGraph, FilesAlike, CodeEnv, IssuedInv, PendingInv
<1> QED  BY <1>2, <1>3, <1>4, <1>5, <1>6, <1>7, <1>8 DEF CodeInv

\* What the invariant is for: the three properties of CodeGraph.
LEMMA FoundSymbols ==
    ASSUME CodeInv
    PROVE  Code!SymbolsFound
<1>1. GraphOK(wal, env.next, env.meant)
  BY CodeParts, GraphSame
<1>2. Exact(Code!RebuildDerived(wal))
  BY <1>1, CodeParts, RebuiltGraph DEF CodeEnv, GraphOK
<1>3. Exact(ram) /\ Exact(wal)
  BY <1>1, CodeParts DEF GraphOK
<1> DEFINE Found(s) ==
       /\ s.name = {<<s.syms[i].key[1], i>> : i \in Code!Ids(s)}
       /\ DOMAIN s.dedup = {s.syms[i].key : i \in Code!Ids(s)}
       /\ \A i \in Code!Ids(s) : s.dedup[s.syms[i].key] = i
<1>4. Found(ram) /\ Found(wal) /\ Found(Code!RebuildDerived(wal))
  <2> HIDE DEF Code!RebuildDerived
  <2> QED  BY <1>2, <1>3, Zenon DEF Exact
<1>5. \A s \in {ram, wal, Code!RebuildDerived(wal)} : Found(s)
  <2> HIDE DEF Found
  <2> QED  BY <1>4
<1> QED  BY <1>5 DEF Code!SymbolsFound

LEMMA MeantCalls ==
    ASSUME CodeInv
    PROVE  Code!CallsMean
<1>1. Mirror(ram) /\ Means(ram, env.meant)
  BY CodeParts DEF GraphOK
<1>2. ram.callers = {<<e[2], e[1]>> : e \in ram.calls}
  <2>1. ASSUME NEW c \in ram.callers PROVE \E e \in ram.calls : c = <<e[2], e[1]>>
    <3>1. c = <<c[1], c[2]>> /\ <<c[2], c[1]>> \in ram.calls
      BY <1>1 DEF Mirror
    <3> QED  BY <3>1
  <2>2. \A e \in ram.calls : <<e[2], e[1]>> \in ram.callers
    BY <1>1 DEF Mirror
  <2> QED  BY <2>1, <2>2
<1> QED  BY <1>1, <1>2 DEF Code!CallsMean, Means

LEMMA KeptCode ==
    ASSUME CodeInv
    PROVE  Code!CodeKept
<1>1. GraphOK(wal, env.next, env.meant)
  BY CodeParts, GraphSame
<1>2. Code!RebuildDerived(wal).syms = ram.syms /\ wal.calls = ram.calls
  BY <1>1, CodeParts, RebuiltGraph DEF CodeEnv, SameGraph
<1>3. /\ DOMAIN wal.files = DOMAIN ram.files
      /\ \A f \in DOMAIN ram.files : wal.files[f].hash \in {ram.files[f].hash, Code!NoHash}
  BY CodeParts DEF FilesAlike
<1>4. todo = <<>> => (~gap => wal.events = ram.events)
  BY DEF CodeInv, PendingInv
<1>5. \A d, e \in env.issued : d[1] = e[1] => d = e
  BY DEF CodeInv, IssuedInv
<1> HIDE DEF Code!RebuildDerived
<1> QED  BY <1>2, <1>3, <1>4, <1>5, Zenon DEF Code!CodeKept, Code!Log!Idle
-----------------------------------------------------------------------------
(* Association edges                                                        *)

Weighed(e) == e.type # "CoRetrieved" => e.weight \in 0..100
Placed(E) == /\ \A e \in E : e.at \in Nat /\ Weighed(e)
             /\ \E b \in Nat : \A e \in E : e.at <= b

AssocFields == {"mem", "edges", "coact", "blocked", "ring"}
AssocRow(x) == DOMAIN x = {"profile", "session", "dead"} /\ x.dead \in BOOLEAN
AssocShape(s) ==
    /\ DOMAIN s = AssocFields
    /\ DOMAIN s.mem \subseteq EdgeIds
    /\ \A i \in DOMAIN s.mem : AssocRow(s.mem[i])
    /\ Placed(s.edges)

\* d joins what e joins, and no weaker unless recalls change the weight.
Under(e, d) == /\ e.src = d.src /\ e.dst = d.dst /\ e.type = d.type
               /\ e.type # "CoRetrieved" => e.weight <= d.weight
Covers(E, F) == \A d \in E : \E e \in F : Under(d, e)

\* F is E with the edge k merged or pushed.
Adds(F, E, k) == /\ Covers(E, F)
                 /\ \E d \in F : Under(k, d)
                 /\ \A d \in F : Under(d, k) \/ \E e \in E : Under(d, e)

Touch(e, i) == e.src = i \/ e.dst = i
EdgeKey(e) == <<e.src, e.dst, e.type>>
\* Both ends live, unless a forget of one was logged and did not return.
Ends(mem, U, e) ==
    /\ e.src \in DOMAIN mem /\ e.dst \in DOMAIN mem
    /\ (e.src \in U \/ e.dst \in U) \/ (~mem[e.src].dead /\ ~mem[e.dst].dead)
Permitted(mem, i, j) ==
    /\ ~(mem[i].profile.cand /\ ~mem[j].profile.cand)
    /\ Edge!EdgeLegal(Edge!Infer(mem[i].profile), Edge!Infer(mem[j].profile))
MayHold(mem, U, X, e) ==
    /\ e.type = "CoRetrieved" \/ Ends(mem, U, e)
    /\ e.type \in {"SameSession", "Supports"} => EdgeKey(e) \in X \/ Permitted(mem, e.src, e.dst)
Clean(mem, U, X, E) == \A e \in E : MayHold(mem, U, X, e)

Links == [op : {"edge"}, src : EdgeIds, dst : EdgeIds,
          type : {"SameSession", "Supports", "SemanticNeighbor"}, weight : 0..100]

MemAlike(m, n, U) ==
    /\ DOMAIN m = DOMAIN n
    /\ \A i \in DOMAIN n : i \in U \/ m[i].dead = n[i].dead

\* Two images of one graph, but for the memories in U and the gates of the edges
\* in X.
AssocOK(r, w, g, U, X) ==
    /\ AssocShape(r) /\ AssocShape(w)
    /\ MemAlike(w.mem, r.mem, U)
    /\ Clean(r.mem, U, X, r.edges) /\ Clean(r.mem, U, X, w.edges)
    /\ ~g => Covers(r.edges, w.edges) /\ Covers(w.edges, r.edges)

EdgeInv ==
    /\ AssocOK(ram, wal, gap, env.unsynced, env.outgrown)
    /\ gap \in BOOLEAN /\ todo \in Seq(Links)
    /\ DOMAIN env = {"calls", "unsynced", "outgrown"}

LEMMA LeqTrans ==
    ASSUME NEW a \in 0..100, NEW b \in 0..100, NEW c \in 0..100, a <= b, b <= c
    PROVE  a <= c
OBVIOUS

\* To be covered is transitive; two images that cover each other still do with one more edge.
LEMMA UnderTrans ==
    ASSUME NEW c, NEW d, NEW e, Weighed(c), Weighed(d), Weighed(e), Under(c, d), Under(d, e)
    PROVE  Under(c, e)
<1>1. c.src = e.src /\ c.dst = e.dst /\ c.type = e.type /\ c.type = d.type
  BY DEF Under
<1>2. ASSUME c.type # "CoRetrieved" PROVE c.weight <= e.weight
  <2>1. c.weight \in 0..100 /\ d.weight \in 0..100 /\ e.weight \in 0..100
    BY <1>1, <1>2 DEF Weighed
  <2>2. c.weight <= d.weight /\ d.weight <= e.weight
    BY <1>1, <1>2 DEF Under
  <2> QED  BY <2>1, <2>2, LeqTrans
<1> QED  BY <1>1, <1>2 DEF Under

LEMMA CoversAdds ==
    ASSUME NEW E, NEW F, NEW E2, NEW F2, NEW k,
           Placed(E), Placed(F), Placed(E2), Placed(F2), Weighed(k),
           Covers(E, F), Adds(E2, E, k), Adds(F2, F, k)
    PROVE  Covers(E2, F2)
<1> SUFFICES ASSUME NEW d \in E2 PROVE \E e \in F2 : Under(d, e)
  BY DEF Covers
<1>w. /\ \A e \in E : Weighed(e)
      /\ \A e \in F : Weighed(e)
      /\ \A e \in E2 : Weighed(e)
      /\ \A e \in F2 : Weighed(e)
  BY DEF Placed
<1>1. CASE Under(d, k)
  <2>1. PICK e \in F2 : Under(k, e)
    BY DEF Adds
  <2> QED  BY <1>1, <1>w, <2>1, UnderTrans
<1>2. CASE \E e \in E : Under(d, e)
  <2>1. PICK e \in E : Under(d, e)
    BY <1>2
  <2>2. PICK f \in F : Under(e, f)
    BY DEF Covers
  <2>3. PICK g \in F2 : Under(f, g)
    BY DEF Adds, Covers
  <2>4. Under(d, f)
    BY <1>w, <2>1, <2>2, UnderTrans
  <2> QED  BY <1>w, <2>3, <2>4, UnderTrans
<1> QED  BY <1>1, <1>2 DEF Adds

\* An edge that may be there leaves the gates respected.
LEMMA CleanAdds ==
    ASSUME NEW mem, NEW U, NEW X, NEW E, NEW F, NEW k,
           Adds(F, E, k), Clean(mem, U, X, E), MayHold(mem, U, X, k)
    PROVE  Clean(mem, U, X, F)
<1> SUFFICES ASSUME NEW d \in F PROVE MayHold(mem, U, X, d)
  BY DEF Clean
<1>1. PICK e : Under(d, e) /\ MayHold(mem, U, X, e)
  BY DEF Adds, Clean
<1>2. d.src = e.src /\ d.dst = e.dst /\ d.type = e.type
  BY <1>1 DEF Under
<1>3. EdgeKey(d) = EdgeKey(e) /\ (Ends(mem, U, d) <=> Ends(mem, U, e))
  BY <1>2 DEF EdgeKey, Ends
<1> HIDE DEF Ends, Permitted, EdgeKey
<1> QED  BY <1>1, <1>2, <1>3 DEF MayHold

\* A memory may change under the edges that are then in X.
LEMMA CleanKept ==
    ASSUME NEW m, NEW n, NEW E, NEW U, NEW U2, NEW X, NEW X2, Clean(m, U, X, E), X \subseteq X2,
           \A e \in E : e.type # "CoRetrieved" => Ends(n, U2, e),
           \A i \in DOMAIN m : \/ n[i].profile = m[i].profile
                               \/ \A e \in E : Touch(e, i) => EdgeKey(e) \in X2
    PROVE  Clean(n, U2, X2, E)
<1> SUFFICES ASSUME NEW e \in E PROVE MayHold(n, U2, X2, e)
  BY DEF Clean
<1>1. MayHold(m, U, X, e)
  BY DEF Clean
<1>2. CASE e.type = "CoRetrieved"
  BY <1>2 DEF MayHold
<1>3. CASE e.type # "CoRetrieved"
  <2>1. e.src \in DOMAIN m /\ e.dst \in DOMAIN m
    BY <1>1, <1>3 DEF MayHold, Ends
  <2>2. CASE EdgeKey(e) \in X2
    BY <2>2, <1>3 DEF MayHold
  <2>3. CASE EdgeKey(e) \notin X2
    <3>1. n[e.src].profile = m[e.src].profile /\ n[e.dst].profile = m[e.dst].profile
      BY <2>1, <2>3 DEF Touch
    <3>2. Permitted(m, e.src, e.dst) => Permitted(n, e.src, e.dst)
      BY <3>1 DEF Permitted
    <3>3. EdgeKey(e) \notin X
      BY <2>3
    <3> HIDE DEF Permitted, Ends, EdgeKey
    <3> QED  BY <1>1, <1>3, <3>2, <3>3 DEF MayHold
  <2> QED  BY <2>2, <2>3
<1> QED  BY <1>2, <1>3

\* A new edge has a place, and adds itself.
LEMMA PlaceIs ==
    ASSUME NEW s, AssocShape(s), NEW i
    PROVE  Edge!NextPlace(s, i) \in Nat
<1> DEFINE S == {0} \cup {e.at : e \in {e \in s.edges : e.src = i}}
<1>1. PICK b \in Nat : \A e \in s.edges : e.at <= b
  BY DEF AssocShape, Placed
<1>2. S \in SUBSET Nat /\ S # {} /\ \A x \in S : x <= b
  BY <1>1 DEF AssocShape, Placed
<1>3. Max(S) \in S
  <2> HIDE DEF S
  <2> QED  BY <1>2, MaxOf
<1>4. Max(S) \in Nat
  BY <1>2, <1>3
<1>5. Edge!NextPlace(s, i) = 1 + Max(S)
  BY DEF Edge!NextPlace, Edge!Max, Max
<1> QED  BY <1>4, <1>5

LEMMA NewAdds ==
    ASSUME NEW s, AssocShape(s), NEW k, Weighed(k)
    PROVE  LET F == s.edges \cup {Edge!NewEdge(s, k.src, k.dst, k.type, k.weight)}
           IN  Placed(F) /\ Adds(F, s.edges, k)
<1> DEFINE new == Edge!NewEdge(s, k.src, k.dst, k.type, k.weight)
           F == s.edges \cup {new}
<1>1. new.at \in Nat /\ new.src = k.src /\ new.dst = k.dst /\ new.type = k.type /\ new.weight = k.weight
  BY PlaceIs DEF Edge!NewEdge
<1>2. PICK b \in Nat : \A e \in s.edges : e.at <= b
  BY DEF AssocShape, Placed
<1>3. \A e \in s.edges : e.at \in Nat /\ Weighed(e)
  BY DEF AssocShape, Placed
<1>4. Weighed(new)
  BY <1>1 DEF Weighed
<1>5. b + new.at \in Nat /\ \A e \in F : e.at <= b + new.at
  <2> HIDE DEF new
  <2> QED  BY <1>1, <1>2, <1>3
<1>6. Placed(F)
  <2> HIDE DEF new
  <2> QED  BY <1>1, <1>3, <1>4, <1>5 DEF Placed
<1>7. \A e \in s.edges : Under(e, e)
  BY <1>3 DEF Under, Weighed
<1>8. Under(k, new) /\ Under(new, k)
  <2> HIDE DEF new
  <2> QED  BY <1>1 DEF Under, Weighed
<1>9. Adds(F, s.edges, k)
  <2> HIDE DEF new
  <2> QED  BY <1>7, <1>8 DEF Adds, Covers
<1> QED  BY <1>6, <1>9

\* Merging raises the one edge that the scan meets first.
LEMMA FirstIs ==
    ASSUME NEW s, AssocShape(s), NEW i, NEW j, NEW type, Edge!Between(s, i, j, type) # {}
    PROVE  Edge!First(s, i, j, type) # {}
<1> DEFINE B == Edge!Between(s, i, j, type)
           S == {e.at : e \in B}
<1>1. S \in SUBSET Nat /\ S # {}
  BY DEF AssocShape, Placed, Edge!Between
<1>2. Min(S) \in S /\ \A x \in S : Min(S) <= x
  <2> HIDE DEF S
  <2> QED  BY <1>1, MinOf
<1>3. PICK e \in B : e.at = Min(S)
  BY <1>2
<1>4. \A d \in B : e.at <= d.at
  BY <1>2, <1>3
<1>5. e \in Edge!First(s, i, j, type)
  <2> HIDE DEF S
  <2> QED  BY <1>4 DEF Edge!First
<1> QED  BY <1>5

LEMMA RaiseAdds ==
    ASSUME NEW s, AssocShape(s), NEW k, Weighed(k), NEW G,
           Edge!Between(s, k.src, k.dst, k.type) # {},
           \A e \in Edge!First(s, k.src, k.dst, k.type) :
             \E d \in G : Under(e, d) /\ Under(k, d),
           \A d \in G : \E e \in Edge!First(s, k.src, k.dst, k.type) :
             d.at = e.at /\ Weighed(d) /\ (Under(d, e) \/ Under(d, k))
    PROVE  LET F == (s.edges \ Edge!First(s, k.src, k.dst, k.type)) \cup G
           IN  Placed(F) /\ Adds(F, s.edges, k)
<1> DEFINE first == Edge!First(s, k.src, k.dst, k.type)
           F == (s.edges \ first) \cup G
<1>1. first # {} /\ first \subseteq s.edges
  BY FirstIs DEF Edge!First, Edge!Between
<1>2. PICK b \in Nat : \A e \in s.edges : e.at <= b
  BY DEF AssocShape, Placed
<1>3. \A e \in s.edges : e.at \in Nat /\ Weighed(e)
  BY DEF AssocShape, Placed
<1>4. \A e \in s.edges : Under(e, e)
  BY <1>3 DEF Under, Weighed
<1> HIDE DEF first
<1>5. \A e \in first : \E d \in G : Under(e, d) /\ Under(k, d)
  BY DEF first
<1>6. \A d \in G : \E e \in first : d.at = e.at /\ Weighed(d) /\ (Under(d, e) \/ Under(d, k))
  BY DEF first
<1>7. Placed(F)
  BY <1>1, <1>2, <1>3, <1>6 DEF Placed
<1>8. Adds(F, s.edges, k)
  <2>1. Covers(s.edges, F)
    BY <1>4, <1>5 DEF Covers
  <2>2. \E d \in F : Under(k, d)
    BY <1>1, <1>5
  <2>3. \A d \in F : Under(d, k) \/ \E e \in s.edges : Under(d, e)
    BY <1>1, <1>4, <1>6
  <2> QED  BY <2>1, <2>2, <2>3 DEF Adds
<1> QED  BY <1>7, <1>8 DEF first

LinkOK(k) == k.type # "CoRetrieved" /\ k.weight \in 0..100
\* What a commit leaves of the other fields.
Leaves(t, s) == DOMAIN t = AssocFields /\ t.mem = s.mem

LEMMA PushAdds ==
    ASSUME NEW s, AssocShape(s), NEW k, LinkOK(k)
    PROVE  LET t == Edge!Push(s, k)
           IN  Leaves(t, s) /\ Placed(t.edges) /\ Adds(t.edges, s.edges, k)
<1> DEFINE t == Edge!Push(s, k)
<1>1. DOMAIN t = AssocFields /\ t.mem = s.mem
  BY DEF Edge!Push, AssocShape, AssocFields
<1>2. t.edges = s.edges \cup {Edge!NewEdge(s, k.src, k.dst, k.type, k.weight)}
  BY DEF Edge!Push, AssocShape, AssocFields
<1>3. Weighed(k)
  BY DEF LinkOK, Weighed
<1> HIDE DEF t
<1>4. Placed(t.edges) /\ Adds(t.edges, s.edges, k)
  BY <1>2, <1>3, NewAdds
<1> QED  BY <1>1, <1>4 DEF t, Leaves

LEMMA ReweighedIs ==
    ASSUME NEW e, NEW w
    PROVE  LET d == Edge!Reweighed(e, w)
           IN  d.src = e.src /\ d.dst = e.dst /\ d.type = e.type /\ d.weight = w /\ d.at = e.at
BY DEF Edge!Reweighed

LEMMA MergeAdds ==
    ASSUME NEW s, AssocShape(s), NEW k, LinkOK(k)
    PROVE  LET t == Edge!Merge(s, k)
           IN  Leaves(t, s) /\ Placed(t.edges) /\ Adds(t.edges, s.edges, k)
<1> DEFINE t == Edge!Merge(s, k)
           first == Edge!First(s, k.src, k.dst, k.type)
           G == {Edge!Reweighed(e, Edge!Max({e.weight, k.weight})) : e \in first}
<1>1. CASE Edge!Between(s, k.src, k.dst, k.type) = {}
  <2>1. t = Edge!Push(s, k)
    BY <1>1 DEF Edge!Merge
  <2> QED  BY <2>1, PushAdds
<1>2. CASE Edge!Between(s, k.src, k.dst, k.type) # {}
  <2>1. t = [s EXCEPT !.edges = (@ \ first) \cup G]
    BY <1>2 DEF Edge!Merge
  <2> HIDE DEF G, first
  <2>2. DOMAIN t = AssocFields /\ t.mem = s.mem /\ t.edges = (s.edges \ first) \cup G
    BY <2>1 DEF AssocShape, AssocFields
  <2>3. Weighed(k) /\ k.weight \in Nat
    BY DEF LinkOK, Weighed
  <2>4. ASSUME NEW e \in first, NEW d, d = Edge!Reweighed(e, Edge!Max({e.weight, k.weight}))
        PROVE  /\ d.at = e.at /\ Weighed(d) /\ Under(e, d) /\ Under(k, d)
               /\ Under(d, e) \/ Under(d, k)
    <3>1. e.src = k.src /\ e.dst = k.dst /\ e.type = k.type /\ e \in s.edges
      BY DEF first, Edge!First, Edge!Between
    <3>2. e.weight \in 0..100 /\ k.weight \in 0..100
      <4>1. Weighed(e)
        BY <3>1 DEF AssocShape, Placed
      <4>2. e.type # "CoRetrieved" /\ k.weight \in 0..100
        BY <3>1 DEF LinkOK
      <4> QED  BY <4>1, <4>2 DEF Weighed
    <3>3. Edge!Max({e.weight, k.weight}) = Max({e.weight, k.weight})
      BY DEF Edge!Max, Max
    <3>4. /\ d.src = e.src /\ d.dst = e.dst /\ d.type = e.type /\ d.at = e.at
          /\ d.weight = Max({e.weight, k.weight})
      BY <2>4, <3>3, ReweighedIs
    <3>5. d.weight \in {e.weight, k.weight} /\ e.weight <= d.weight /\ k.weight <= d.weight
      <4>1. e.weight \in Nat /\ k.weight \in Nat
        BY <3>2
      <4> QED  BY <3>4, <4>1, MaxTwo
    <3> QED  BY <3>1, <3>2, <3>4, <3>5 DEF Weighed, Under
  <2>5. \A e \in first : \E d \in G : Under(e, d) /\ Under(k, d)
    BY <2>4 DEF G
  <2>6. \A d \in G : \E e \in first : d.at = e.at /\ Weighed(d) /\ (Under(d, e) \/ Under(d, k))
    BY <2>4 DEF G
  <2>7. Placed(t.edges) /\ Adds(t.edges, s.edges, k)
    <3>1. /\ \A e \in Edge!First(s, k.src, k.dst, k.type) : \E d \in G : Under(e, d) /\ Under(k, d)
          /\ \A d \in G : \E e \in Edge!First(s, k.src, k.dst, k.type) :
               d.at = e.at /\ Weighed(d) /\ (Under(d, e) \/ Under(d, k))
      BY <2>5, <2>6 DEF first
    <3> HIDE DEF t
    <3>2. LET F == (s.edges \ Edge!First(s, k.src, k.dst, k.type)) \cup G
          IN  Placed(F) /\ Adds(F, s.edges, k)
      BY <1>2, <2>3, <3>1, RaiseAdds
    <3> QED  BY <2>2, <3>2 DEF first
  <2> QED  BY <2>2, <2>7 DEF Leaves
<1> QED  BY <1>1, <1>2

CoLink(i, j) == [src |-> i, dst |-> j, type |-> "CoRetrieved", weight |-> 0]

LEMMA StrengthenAdds ==
    ASSUME NEW s, AssocShape(s), NEW i, NEW j, NEW delta
    PROVE  LET t == Edge!Strengthen(s, i, j, delta)
           IN  Leaves(t, s) /\ Placed(t.edges) /\ Adds(t.edges, s.edges, CoLink(i, j))
<1> DEFINE t == Edge!Strengthen(s, i, j, delta)
           k == CoLink(i, j)
           first == Edge!First(s, i, j, "CoRetrieved")
           G == {Edge!Reweighed(e, Edge!Min({100, e.weight + delta})) : e \in first}
<1>k. k.src = i /\ k.dst = j /\ k.type = "CoRetrieved" /\ Weighed(k)
  BY DEF CoLink, Weighed
<1>1. CASE Edge!Between(s, i, j, "CoRetrieved") = {}
  <2> DEFINE l == [src |-> i, dst |-> j, type |-> "CoRetrieved", weight |-> Edge!Min({100, delta})]
  <2>1. t = [s EXCEPT !.edges = @ \cup {Edge!NewEdge(s, i, j, "CoRetrieved", Edge!Min({100, delta}))}]
    BY <1>1 DEF Edge!Strengthen
  <2>2. DOMAIN t = AssocFields /\ t.mem = s.mem
        /\ t.edges = s.edges \cup {Edge!NewEdge(s, l.src, l.dst, l.type, l.weight)}
    BY <2>1 DEF AssocShape, AssocFields
  <2>3. Weighed(l) /\ l.src = k.src /\ l.dst = k.dst /\ l.type = k.type /\ l.type = "CoRetrieved"
    BY <1>k DEF Weighed
  <2> HIDE DEF l, t, k
  <2>4. Placed(t.edges) /\ Adds(t.edges, s.edges, l)
    BY <2>2, <2>3, NewAdds
  <2>5. Adds(t.edges, s.edges, k)
    <3>1. \A d : (Under(l, d) <=> Under(k, d)) /\ (Under(d, l) <=> Under(d, k))
      BY <2>3 DEF Under
    <3> QED  BY <3>1, <2>4 DEF Adds
  <2> QED  BY <2>2, <2>4, <2>5 DEF Leaves, t, k
<1>2. CASE Edge!Between(s, i, j, "CoRetrieved") # {}
  <2>1. t = [s EXCEPT !.edges = (@ \ first) \cup G]
    BY <1>2 DEF Edge!Strengthen
  <2> HIDE DEF G, first, k
  <2>2. DOMAIN t = AssocFields /\ t.mem = s.mem /\ t.edges = (s.edges \ first) \cup G
    BY <2>1 DEF AssocShape, AssocFields
  <2>4. ASSUME NEW e \in first, NEW d, d = Edge!Reweighed(e, Edge!Min({100, e.weight + delta}))
        PROVE  /\ d.at = e.at /\ Weighed(d) /\ Under(e, d) /\ Under(k, d)
               /\ Under(d, e) \/ Under(d, k)
    <3>1. e.src = i /\ e.dst = j /\ e.type = "CoRetrieved"
      BY DEF first, Edge!First, Edge!Between
    <3>2. d.src = e.src /\ d.dst = e.dst /\ d.type = e.type /\ d.at = e.at
      BY <2>4, ReweighedIs
    <3> QED  BY <1>k, <3>1, <3>2 DEF Weighed, Under
  <2>5. \A e \in first : \E d \in G : Under(e, d) /\ Under(k, d)
    BY <2>4 DEF G
  <2>6. \A d \in G : \E e \in first : d.at = e.at /\ Weighed(d) /\ (Under(d, e) \/ Under(d, k))
    BY <2>4 DEF G
  <2>7. Placed(t.edges) /\ Adds(t.edges, s.edges, k)
    <3>1. /\ \A e \in Edge!First(s, k.src, k.dst, k.type) : \E d \in G : Under(e, d) /\ Under(k, d)
          /\ \A d \in G : \E e \in Edge!First(s, k.src, k.dst, k.type) :
               d.at = e.at /\ Weighed(d) /\ (Under(d, e) \/ Under(d, k))
      BY <1>k, <2>5, <2>6 DEF first
    <3> HIDE DEF t
    <3>2. Edge!Between(s, k.src, k.dst, k.type) # {}
      BY <1>2, <1>k
    <3>3. LET F == (s.edges \ Edge!First(s, k.src, k.dst, k.type)) \cup G
          IN  Placed(F) /\ Adds(F, s.edges, k)
      BY <1>k, <3>1, <3>2, RaiseAdds
    <3> QED  BY <1>k, <2>2, <3>3 DEF first
  <2> QED  BY <2>2, <2>7 DEF Leaves, k
<1> QED  BY <1>1, <1>2

LEMMA LeavesShape ==
    ASSUME NEW s, NEW t, AssocShape(s), Leaves(t, s), Placed(t.edges)
    PROVE  AssocShape(t)
BY DEF AssocShape, Leaves

\* The same edge merged or pushed in both images.
LEMMA AddsOK ==
    ASSUME NEW r, NEW w, NEW r2, NEW w2, NEW g \in BOOLEAN, NEW U, NEW X, NEW k,
           AssocOK(r, w, g, U, X), Weighed(k), MayHold(r.mem, U, X, k),
           Leaves(r2, r), Placed(r2.edges), Adds(r2.edges, r.edges, k),
           Leaves(w2, w), Placed(w2.edges), Adds(w2.edges, w.edges, k)
    PROVE  AssocOK(r2, w2, g, U, X)
<1>1. /\ AssocShape(r) /\ AssocShape(w) /\ MemAlike(w.mem, r.mem, U)
      /\ Clean(r.mem, U, X, r.edges) /\ Clean(r.mem, U, X, w.edges)
  BY DEF AssocOK
<1>2. r2.mem = r.mem /\ w2.mem = w.mem
  BY DEF Leaves
<1>3. AssocShape(r2) /\ AssocShape(w2)
  BY <1>1, LeavesShape
<1>4. Clean(r2.mem, U, X, r2.edges) /\ Clean(r2.mem, U, X, w2.edges)
  BY <1>1, <1>2, CleanAdds
<1>5. ~g => Covers(r2.edges, w2.edges) /\ Covers(w2.edges, r2.edges)
  <2>1. Placed(r.edges) /\ Placed(w.edges)
    BY <1>1 DEF AssocShape
  <2> QED  BY <2>1, CoversAdds DEF AssocOK
<1> HIDE DEF AssocShape, MemAlike, Clean, Covers
<1> QED  BY <1>1, <1>2, <1>3, <1>4, <1>5 DEF AssocOK

\* A step that leaves the edges, and of a memory its flag, and its profile unless
\* the edges there are put in X.
LEMMA RowsOK ==
    ASSUME NEW r, NEW w, NEW r2, NEW w2, NEW g, NEW U, NEW X, NEW X2, AssocOK(r, w, g, U, X),
           X \subseteq X2,
           AssocShape(r2), AssocShape(w2), MemAlike(w2.mem, r2.mem, U),
           r2.edges = r.edges, w2.edges = w.edges,
           \A i \in DOMAIN r.mem :
             /\ i \in DOMAIN r2.mem /\ r2.mem[i].dead = r.mem[i].dead
             /\ \/ r2.mem[i].profile = r.mem[i].profile
                \/ \A e \in r.edges \cup w.edges : Touch(e, i) => EdgeKey(e) \in X2
    PROVE  AssocOK(r2, w2, g, U, X2)
<1>1. /\ Clean(r.mem, U, X, r.edges) /\ Clean(r.mem, U, X, w.edges)
      /\ ~g => Covers(r2.edges, w2.edges) /\ Covers(w2.edges, r2.edges)
  BY DEF AssocOK
<1>2. \A e : Ends(r.mem, U, e) => Ends(r2.mem, U, e)
  BY DEF Ends
<1>3. /\ \A e \in r.edges : e.type # "CoRetrieved" => Ends(r2.mem, U, e)
      /\ \A e \in w.edges : e.type # "CoRetrieved" => Ends(r2.mem, U, e)
  BY <1>1, <1>2 DEF Clean, MayHold
<1>4. /\ \A i \in DOMAIN r.mem : \/ r2.mem[i].profile = r.mem[i].profile
                                 \/ \A e \in r.edges : Touch(e, i) => EdgeKey(e) \in X2
      /\ \A i \in DOMAIN r.mem : \/ r2.mem[i].profile = r.mem[i].profile
                                 \/ \A e \in w.edges : Touch(e, i) => EdgeKey(e) \in X2
  BY DEF Touch
<1>5. Clean(r2.mem, U, X2, r2.edges) /\ Clean(r2.mem, U, X2, w2.edges)
  <2> HIDE DEF Clean, Ends, Touch, EdgeKey
  <2> QED  BY <1>1, <1>3, <1>4, CleanKept
<1> HIDE DEF AssocShape, MemAlike, Clean, Covers
<1> QED  BY <1>1, <1>5 DEF AssocOK

LEMMA SameOK ==
    ASSUME NEW r, NEW w, NEW r2, NEW w2, NEW g, NEW U, NEW X, AssocOK(r, w, g, U, X),
           Leaves(r2, r), r2.edges = r.edges, Leaves(w2, w), w2.edges = w.edges
    PROVE  AssocOK(r2, w2, g, U, X)
BY DEF AssocOK, AssocShape, Leaves

\* record_recall_batch and delete, in both images.
LEMMA RecallOK ==
    ASSUME NEW r, NEW w, NEW g \in BOOLEAN, NEW U, NEW X, AssocOK(r, w, g, U, X),
           NEW i, NEW j
    PROVE  AssocOK(Edge!Recalled(r, i, j), Edge!Recalled(w, i, j), g, U, X)
<1>1. ASSUME NEW s, AssocShape(s)
      PROVE  \E c, delta : /\ Leaves(c, s) /\ c.edges = s.edges
                           /\ Edge!Recalled(s, i, j)
                                = Edge!Strengthen(Edge!Strengthen(c, i, j, delta), j, i, delta)
  <2> DEFINE seen == 1 + IF {i, j} \in DOMAIN s.coact THEN s.coact[{i, j}] ELSE 0
             delta == 10 * Edge!Min({16, seen})
             c == [s EXCEPT !.coact = Edge!Insert(@, {i, j}, seen)]
  <2>1. Edge!Recalled(s, i, j) = Edge!Strengthen(Edge!Strengthen(c, i, j, delta), j, i, delta)
    BY DEF Edge!Recalled
  <2> HIDE DEF seen, delta
  <2>2. Leaves(c, s) /\ c.edges = s.edges
    BY <1>1 DEF Leaves, AssocShape, AssocFields
  <2> HIDE DEF c
  <2> QED  BY <2>1, <2>2
<1>2. AssocShape(r) /\ AssocShape(w)
  BY DEF AssocOK
<1>3. PICK a, p : /\ Leaves(a, r) /\ a.edges = r.edges
                  /\ Edge!Recalled(r, i, j) = Edge!Strengthen(Edge!Strengthen(a, i, j, p), j, i, p)
  BY <1>1, <1>2
<1>4. PICK b, q : /\ Leaves(b, w) /\ b.edges = w.edges
                  /\ Edge!Recalled(w, i, j) = Edge!Strengthen(Edge!Strengthen(b, i, j, q), j, i, q)
  BY <1>1, <1>2
<1>5. AssocOK(a, b, g, U, X)
  BY <1>3, <1>4, SameOK
<1>6. ASSUME NEW m, NEW n, NEW x, NEW y, AssocOK(m, n, g, U, X), NEW u, NEW v
      PROVE  AssocOK(Edge!Strengthen(m, x, y, u), Edge!Strengthen(n, x, y, v), g, U, X)
  <2> DEFINE k == CoLink(x, y)
             m2 == Edge!Strengthen(m, x, y, u)
             n2 == Edge!Strengthen(n, x, y, v)
  <2>1. Weighed(k) /\ MayHold(m.mem, U, X, k)
    BY DEF CoLink, Weighed, MayHold
  <2>2. AssocShape(m) /\ AssocShape(n)
    BY <1>6 DEF AssocOK
  <2>3. /\ Leaves(m2, m) /\ Placed(m2.edges) /\ Adds(m2.edges, m.edges, k)
        /\ Leaves(n2, n) /\ Placed(n2.edges) /\ Adds(n2.edges, n.edges, k)
    BY <2>2, StrengthenAdds
  <2> HIDE DEF k, m2, n2
  <2>4. AssocOK(m2, n2, g, U, X)
    BY <1>6, <2>1, <2>3, AddsOK
  <2> QED  BY <2>4 DEF m2, n2
<1>7. AssocOK(Edge!Strengthen(a, i, j, p), Edge!Strengthen(b, i, j, q), g, U, X)
  BY <1>5, <1>6
<1> QED  BY <1>3, <1>4, <1>6, <1>7

LEMMA RowedIs ==
    ASSUME NEW m, NEW i \in DOMAIN m, \A j \in DOMAIN m : AssocRow(m[j]),
           NEW p, NEW d, d \in BOOLEAN, NEW n, n = Edge!Rowed(m, i, p, d)
    PROVE  /\ DOMAIN n = DOMAIN m
           /\ \A j \in DOMAIN n : AssocRow(n[j])
           /\ n[i].profile = p /\ n[i].dead = d
           /\ \A j \in DOMAIN n : j # i => n[j] = m[j]
BY DEF Edge!Rowed, Edge!Insert, AssocRow

LEMMA ForgottenAssoc ==
    ASSUME NEW s, AssocShape(s), NEW i \in DOMAIN s.mem
    PROVE  LET t == Edge!Forgotten(s, i)
           IN  /\ AssocShape(t) /\ DOMAIN t.mem = DOMAIN s.mem
               /\ t.edges = {e \in s.edges : ~Touch(e, i)}
               /\ t.mem[i].dead = TRUE
               /\ \A j \in DOMAIN s.mem : j # i => t.mem[j] = s.mem[j]
<1> DEFINE t == Edge!Forgotten(s, i)
           p == Edge!Cleared(s.mem[i].profile)
           gone == TRUE
<1>1. /\ DOMAIN t = AssocFields /\ t.mem = Edge!Rowed(s.mem, i, p, gone)
      /\ t.edges = {e \in s.edges : ~Touch(e, i)}
  BY DEF Edge!Forgotten, AssocShape, AssocFields, Touch
<1> HIDE DEF t, p
<1>2. /\ DOMAIN t.mem = DOMAIN s.mem
      /\ \A j \in DOMAIN t.mem : AssocRow(t.mem[j])
      /\ t.mem[i].dead = gone
      /\ \A j \in DOMAIN t.mem : j # i => t.mem[j] = s.mem[j]
  <2>1. \A j \in DOMAIN s.mem : AssocRow(s.mem[j])
    BY DEF AssocShape
  <2>2. gone \in BOOLEAN
    OBVIOUS
  <2> HIDE DEF gone
  <2> QED  BY <1>1, <2>1, <2>2, RowedIs
<1>3. Placed(t.edges)
  BY <1>1 DEF AssocShape, Placed
<1>4. AssocShape(t)
  <2> HIDE DEF Placed, AssocRow
  <2> QED  BY <1>1, <1>2, <1>3 DEF AssocShape
<1> QED  BY <1>1, <1>2, <1>4 DEF t

LEMMA ForgottenOK ==
    ASSUME NEW r, NEW w, NEW g \in BOOLEAN, NEW U, NEW X, AssocOK(r, w, g, U, X),
           NEW i \in DOMAIN r.mem
    PROVE  /\ AssocOK(Edge!Forgotten(r, i), Edge!Forgotten(w, i), g, U \ {i}, X)
           /\ AssocOK(r, Edge!Forgotten(w, i), TRUE, U \cup {i}, X)
<1> DEFINE r2 == Edge!Forgotten(r, i)
           w2 == Edge!Forgotten(w, i)
<1>1. /\ AssocShape(r) /\ AssocShape(w) /\ MemAlike(w.mem, r.mem, U)
      /\ Clean(r.mem, U, X, r.edges) /\ Clean(r.mem, U, X, w.edges)
      /\ ~g => Covers(r.edges, w.edges) /\ Covers(w.edges, r.edges)
  BY DEF AssocOK
<1>2. i \in DOMAIN w.mem
  BY <1>1 DEF MemAlike
<1>3. /\ AssocShape(r2) /\ DOMAIN r2.mem = DOMAIN r.mem
      /\ r2.edges = {e \in r.edges : ~Touch(e, i)}
      /\ r2.mem[i].dead = TRUE
      /\ \A j \in DOMAIN r.mem : j # i => r2.mem[j] = r.mem[j]
  BY <1>1, ForgottenAssoc
<1>4. /\ AssocShape(w2) /\ DOMAIN w2.mem = DOMAIN w.mem
      /\ w2.edges = {e \in w.edges : ~Touch(e, i)}
      /\ w2.mem[i].dead = TRUE
      /\ \A j \in DOMAIN w.mem : j # i => w2.mem[j] = w.mem[j]
  BY <1>1, <1>2, ForgottenAssoc
<1> HIDE DEF r2, w2
<1>5. MemAlike(w2.mem, r2.mem, U \ {i}) /\ MemAlike(w2.mem, r.mem, U \cup {i})
  BY <1>1, <1>3, <1>4 DEF MemAlike
<1>6. \A e : ~Touch(e, i) /\ Ends(r.mem, U, e) => Ends(r2.mem, U \ {i}, e)
  BY <1>3 DEF Ends, Touch
<1>7. \A e : Ends(r.mem, U, e) => Ends(r.mem, U \cup {i}, e)
  BY DEF Ends
<1>8. /\ Clean(r.mem, U, X, r2.edges)
      /\ Clean(r.mem, U, X, w2.edges)
  BY <1>1, <1>3, <1>4 DEF Clean
<1>9. /\ \A e \in r2.edges : ~Touch(e, i) /\ (e.type # "CoRetrieved" => Ends(r.mem, U, e))
      /\ \A e \in w2.edges : ~Touch(e, i) /\ (e.type # "CoRetrieved" => Ends(r.mem, U, e))
      /\ \A e \in r.edges : e.type # "CoRetrieved" => Ends(r.mem, U, e)
  BY <1>1, <1>3, <1>4, <1>8 DEF Clean, MayHold
<1>10. Clean(r2.mem, U \ {i}, X, r2.edges) /\ Clean(r2.mem, U \ {i}, X, w2.edges)
  <2>1. /\ \A j \in DOMAIN r.mem : \/ r2.mem[j].profile = r.mem[j].profile
                                  \/ \A e \in r2.edges : Touch(e, j) => EdgeKey(e) \in X
        /\ \A j \in DOMAIN r.mem : \/ r2.mem[j].profile = r.mem[j].profile
                                  \/ \A e \in w2.edges : Touch(e, j) => EdgeKey(e) \in X
    <3> HIDE DEF Touch, EdgeKey
    <3> QED  BY <1>3, <1>9
  <2> HIDE DEF Clean, Ends, Touch, EdgeKey
  <2> QED  BY <1>6, <1>8, <1>9, <2>1, CleanKept
<1>11. Clean(r.mem, U \cup {i}, X, r.edges) /\ Clean(r.mem, U \cup {i}, X, w2.edges)
  <2> HIDE DEF Clean, Ends, Touch, EdgeKey
  <2> QED  BY <1>1, <1>7, <1>8, <1>9, CleanKept
<1>12. ~g => Covers(r2.edges, w2.edges) /\ Covers(w2.edges, r2.edges)
  BY <1>1, <1>3, <1>4 DEF Covers, Under, Touch
<1> HIDE DEF AssocShape, MemAlike, Clean, Covers
<1>13. AssocOK(r2, w2, g, U \ {i}, X) /\ AssocOK(r, w2, TRUE, U \cup {i}, X)
  BY <1>1, <1>3, <1>4, <1>5, <1>10, <1>11, <1>12 DEF AssocOK
<1> QED  BY <1>13 DEF r2, w2

\* The calls of a chain or a backfill are links between memories.
LEMMA LinkIs ==
    ASSUME NEW i \in EdgeIds, NEW j \in EdgeIds,
           NEW t \in {"SameSession", "Supports", "SemanticNeighbor"}, NEW w \in 0..100
    PROVE  Edge!Link(i, j, t, w) \in Links
BY DEF Edge!Link, Links

LEMMA BothIs ==
    ASSUME NEW links \in Seq(Links)
    PROVE  Edge!Both(links) \in Seq(Links)
<1> DEFINE L == Len(links)
           Call(n) == links[(n + 1) \div 2]
           Next(n) == IF n % 2 = 1 THEN Call(n)
                      ELSE Edge!Link(Call(n).dst, Call(n).src, Call(n).type, Call(n).weight)
<1>1. L \in Nat /\ \A m \in 1..L : links[m] \in Links
  OBVIOUS
<1>2. \A n \in 1..(2 * L) : (n + 1) \div 2 \in 1..L
  BY <1>1
<1>3. \A n \in 1..(2 * L) : Call(n) \in Links
  BY <1>1, <1>2
<1>4. \A n \in 1..(2 * L) : Next(n) \in Links
  <2> SUFFICES ASSUME NEW n \in 1..(2 * L) PROVE Next(n) \in Links
    OBVIOUS
  <2> DEFINE c == Call(n)
  <2>1. c \in Links
    BY <1>3
  <2>2. c.src \in EdgeIds /\ c.dst \in EdgeIds /\ c.weight \in 0..100
        /\ c.type \in {"SameSession", "Supports", "SemanticNeighbor"}
    BY <2>1 DEF Links
  <2>3. Edge!Link(c.dst, c.src, c.type, c.weight) \in Links
    <3> HIDE DEF c
    <3> QED  BY <2>2, LinkIs
  <2> QED  BY <2>1, <2>3
<1>5. Edge!Both(links) = [n \in 1..(2 * L) |-> Next(n)]
  BY DEF Edge!Both
<1> HIDE DEF Next, L
<1> QED  BY <1>1, <1>4, <1>5

LEMMA OrdersAre ==
    ASSUME NEW S, IsFiniteSet(S), NEW f \in Edge!Orders(S)
    PROVE  \E n \in Nat : f \in [1..n -> S] /\ DOMAIN f = 1..n /\ Len(f) = n
<1>1. Edge!Cardinality(S) = Cardinality(S)
  BY DEF Edge!Cardinality, Cardinality
<1>2. Cardinality(S) \in Nat
  BY FS_CardinalityType
<1>3. f \in [1..Cardinality(S) -> S]
  BY <1>1 DEF Edge!Orders
<1> HIDE DEF Cardinality
<1> QED  BY <1>2, <1>3

LEMMA WeightIs ==
    ASSUME NEW n \in Nat
    PROVE  Edge!Weight(n) \in 0..100
<1>1. CASE n = 1
  BY <1>1 DEF Edge!Weight
<1>2. CASE n = 2
  BY <1>2 DEF Edge!Weight
<1>3. CASE n # 1 /\ n # 2
  BY <1>3 DEF Edge!Weight
<1> QED  BY <1>1, <1>2, <1>3

LEMMA LiveAre ==
    ASSUME EdgeInv
    PROVE  /\ Edge!Live(ram) \subseteq EdgeIds
           /\ \A S \in SUBSET Edge!Live(ram) : IsFiniteSet(S)
<1>1. Edge!Live(ram) \subseteq EdgeIds
  BY DEF EdgeInv, AssocOK, AssocShape, Edge!Live
<1> QED  BY <1>1, StoreAssumption, FS_Subset

LEMMA ChainIs ==
    ASSUME EdgeInv, NEW i \in EdgeIds, NEW s, NEW realm, NEW c \in Edge!Chain(i, s, realm)
    PROVE  c \in Seq(Links)
<1>1. CASE Edge!InRing(i, s)
  BY <1>1 DEF Edge!Chain
<1>2. CASE ~Edge!InRing(i, s)
  <2> DEFINE S == Edge!Siblings(i, s, realm)
             Row(f) == [b \in 1..Edge!Min({ChainLength, Len(f)}) |->
                          Edge!Link(i, f[b], "SameSession", Edge!Weight(b))]
  <2>1. PICK f \in Edge!Recent(i, s, realm) : c = Edge!Both(Row(f))
    BY <1>2 DEF Edge!Chain
  <2>2. f \in Edge!Orders(S)
    BY DEF Edge!Recent
  <2>3. S \subseteq Edge!Live(ram) /\ S \subseteq EdgeIds
    BY LiveAre DEF Edge!Siblings
  <2>4. IsFiniteSet(S)
    BY <2>3, LiveAre
  <2> HIDE DEF S, Edge!Min
  <2>5. PICK n \in Nat : f \in [1..n -> S] /\ Len(f) = n
    BY <2>2, <2>4, OrdersAre
  <2>6. Edge!Min({ChainLength, n}) \in {ChainLength, n}
        /\ Edge!Min({ChainLength, n}) <= n
    <3>1. ChainLength \in Nat
      BY StoreAssumption
    <3>2. Edge!Min({ChainLength, n}) = Min({ChainLength, n})
      BY DEF Edge!Min, Min
    <3>3. {ChainLength, n} \in SUBSET Nat /\ {ChainLength, n} # {}
      BY <3>1
    <3>4. Min({ChainLength, n}) \in {ChainLength, n} /\ Min({ChainLength, n}) <= n
      BY <3>3, MinOf
    <3> QED  BY <3>2, <3>4
  <2> DEFINE q == Edge!Min({ChainLength, Len(f)})
  <2>7. q \in Nat /\ q <= n
    BY <2>5, <2>6, StoreAssumption
  <2> HIDE DEF q
  <2>8. ASSUME NEW b \in 1..q PROVE Edge!Link(i, f[b], "SameSession", Edge!Weight(b)) \in Links
    <3>1. b \in Nat /\ b \in 1..n
      BY <2>7
    <3>2. f[b] \in EdgeIds
      BY <2>3, <2>5, <3>1
    <3> QED  BY <3>1, <3>2, LinkIs, WeightIs
  <2>9. Row(f) \in Seq(Links)
    <3>1. Row(f) = [b \in 1..q |-> Edge!Link(i, f[b], "SameSession", Edge!Weight(b))]
      BY DEF q
    <3> HIDE DEF Row
    <3> QED  BY <2>7, <2>8, <3>1
  <2> HIDE DEF Row
  <2> QED  BY <2>1, <2>9, BothIs
<1> QED  BY <1>1, <1>2

LEMMA DensifyIs ==
    ASSUME EdgeInv, Edge!DensifyBackfill
    PROVE  todo' \in Seq(Links)
<1> DEFINE S == {i \in Edge!Live(ram) : ram.mem[i].session # "none"}
           Row(rows, backs) ==
             [n \in DOMAIN backs |->
                Edge!Link(rows[backs[n][1]], rows[backs[n][1] - backs[n][2]],
                          "SameSession", Edge!Weight(backs[n][2]))]
<1>1. PICK rows \in Edge!Rows : \E backs \in Edge!Orders(Edge!Backs(rows)) :
        todo' = Edge!Both(Row(rows, backs))
  BY DEF Edge!DensifyBackfill
<1>2. PICK backs \in Edge!Orders(Edge!Backs(rows)) : todo' = Edge!Both(Row(rows, backs))
  BY <1>1
<1>3. rows \in Edge!Orders(S)
  BY DEF Edge!Rows
<1>4. S \subseteq EdgeIds /\ IsFiniteSet(S)
  BY LiveAre
<1> HIDE DEF S
<1>5. PICK n \in Nat : rows \in [1..n -> S] /\ DOMAIN rows = 1..n
  BY <1>3, <1>4, OrdersAre
<1>6. Edge!Backs(rows) \subseteq (1..n) \X (1..ChainLength)
  BY <1>5 DEF Edge!Backs
<1>7. IsFiniteSet(Edge!Backs(rows))
  <2>1. IsFiniteSet(1..n) /\ IsFiniteSet(1..ChainLength)
    BY StoreAssumption, FS_Interval
  <2>2. IsFiniteSet((1..n) \X (1..ChainLength))
    BY <2>1, FS_Product
  <2> QED  BY <1>6, <2>2, FS_Subset
<1>8. PICK m \in Nat : backs \in [1..m -> Edge!Backs(rows)] /\ DOMAIN backs = 1..m
  BY <1>7, OrdersAre
<1>9. ASSUME NEW k \in 1..m
      PROVE  Edge!Link(rows[backs[k][1]], rows[backs[k][1] - backs[k][2]],
                       "SameSession", Edge!Weight(backs[k][2])) \in Links
  <2> DEFINE p == backs[k]
  <2>1. p \in Edge!Backs(rows)
    BY <1>8
  <2>2. p[1] \in 1..n /\ p[2] \in 1..ChainLength /\ p[2] < p[1]
    BY <1>6, <2>1 DEF Edge!Backs
  <2> HIDE DEF p
  <2>3. p[1] - p[2] \in 1..n /\ p[2] \in Nat
    BY <2>2, StoreAssumption
  <2>4. rows[p[1]] \in EdgeIds /\ rows[p[1] - p[2]] \in EdgeIds
    BY <1>4, <1>5, <2>2, <2>3
  <2>5. Edge!Link(rows[p[1]], rows[p[1] - p[2]], "SameSession", Edge!Weight(p[2])) \in Links
    BY <2>3, <2>4, LinkIs, WeightIs
  <2> QED  BY <2>5 DEF p
<1>10. Row(rows, backs) \in Seq(Links)
  <2> DEFINE E(k) == Edge!Link(rows[backs[k][1]], rows[backs[k][1] - backs[k][2]],
                               "SameSession", Edge!Weight(backs[k][2]))
  <2>1. Row(rows, backs) = [k \in 1..m |-> E(k)]
    BY <1>8
  <2>2. \A k \in 1..m : E(k) \in Links
    BY <1>9
  <2> HIDE DEF E, Row
  <2> QED  BY <2>1, <2>2
<1> HIDE DEF Row
<1> QED  BY <1>2, <1>10, BothIs

LEMMA SemanticIs ==
    ASSUME EdgeInv, Edge!SemanticBackfill
    PROVE  todo' \in Seq(Links)
<1> DEFINE Row(pairs) == [n \in DOMAIN pairs |->
                            Edge!Link(pairs[n][1], pairs[n][2], "SemanticNeighbor", 80)]
<1>1. PICK pairs \in Edge!Orders(Edge!Close) : todo' = Edge!Both(Row(pairs))
  BY DEF Edge!SemanticBackfill
<1>2. Edge!Close \subseteq EdgeIds \X EdgeIds
  BY StoreAssumption DEF Edge!Close
<1>3. IsFiniteSet(Edge!Close)
  <2>1. IsFiniteSet(EdgeIds \X EdgeIds)
    BY StoreAssumption, FS_Product
  <2> QED  BY <1>2, <2>1, FS_Subset
<1>4. PICK m \in Nat : pairs \in [1..m -> Edge!Close] /\ DOMAIN pairs = 1..m
  BY <1>3, OrdersAre
<1>5. ASSUME NEW n \in 1..m
      PROVE  Edge!Link(pairs[n][1], pairs[n][2], "SemanticNeighbor", 80) \in Links
  <2>1. pairs[n] \in EdgeIds \X EdgeIds
    BY <1>2, <1>4
  <2>2. pairs[n][1] \in EdgeIds /\ pairs[n][2] \in EdgeIds
    BY <2>1
  <2> QED  BY <2>2, LinkIs
<1>6. Row(pairs) \in Seq(Links)
  <2> DEFINE E(n) == Edge!Link(pairs[n][1], pairs[n][2], "SemanticNeighbor", 80)
  <2>1. Row(pairs) = [n \in 1..m |-> E(n)]
    BY <1>4
  <2>2. \A n \in 1..m : E(n) \in Links
    BY <1>5
  <2> HIDE DEF E, Row
  <2> QED  BY <2>1, <2>2
<1> HIDE DEF Row
<1> QED  BY <1>1, <1>6, BothIs

\* What a step leaves of the history.
SameHistory == /\ env'.unsynced = env.unsynced /\ env'.outgrown = env.outgrown
           /\ DOMAIN env' = {"calls", "unsynced", "outgrown"}

LEMMA EdgeCount ==
    ASSUME NEW U, NEW X, Edge!Count(U, X)
    PROVE  /\ env'.unsynced = U /\ env'.outgrown = X
           /\ DOMAIN env' = {"calls", "unsynced", "outgrown"}
BY DEF Edge!Count

LEMMA EdgeCalled ==
    ASSUME EdgeInv, Edge!Called \/ env' = env
    PROVE  SameHistory
BY EdgeCount DEF EdgeInv, SameHistory, Edge!Called

\* One lemma per action: put_memory, set_source_session, a call of a list.
LEMMA AssocPutStep ==
    ASSUME EdgeInv, NEW i \in EdgeIds, NEW profile, NEW s, Edge!Put(i, profile, s)
    PROVE  EdgeInv'
<1> DEFINE memory == [profile |-> profile, session |-> s, dead |-> FALSE]
           op == [op |-> "put", id |-> i, memory |-> memory]
<1>1. /\ i \notin DOMAIN ram.mem /\ gap' = gap
      /\ wal' = [wal EXCEPT !.mem = Edge!Insert(@, i, memory)]
      /\ \E ring : ram' = [[ram EXCEPT !.mem = Edge!Insert(@, i, memory)] EXCEPT !.ring = ring]
  BY DEF Edge!Put, Edge!Replay, Edge!Apply
<1>2. /\ AssocOK(ram, wal, gap, env.unsynced, env.outgrown)
      /\ AssocShape(ram) /\ AssocShape(wal) /\ MemAlike(wal.mem, ram.mem, env.unsynced)
  BY DEF EdgeInv, AssocOK
<1>e. SameHistory
  BY EdgeCalled DEF Edge!Put
<1>3. AssocRow(memory)
  BY DEF AssocRow
<1> HIDE DEF memory
<1>4. ASSUME NEW s1, AssocShape(s1), NEW t, DOMAIN t = AssocFields, t.edges = s1.edges,
             t.mem = Edge!Insert(s1.mem, i, memory)
      PROVE  AssocShape(t)
  BY <1>3, <1>4 DEF AssocShape, Edge!Insert
<1>5. /\ DOMAIN ram' = AssocFields /\ DOMAIN wal' = AssocFields
      /\ ram'.edges = ram.edges /\ wal'.edges = wal.edges
      /\ ram'.mem = Edge!Insert(ram.mem, i, memory) /\ wal'.mem = Edge!Insert(wal.mem, i, memory)
  BY <1>1, <1>2 DEF AssocShape, AssocFields
<1>6. AssocShape(ram') /\ AssocShape(wal')
  <2> HIDE DEF AssocShape
  <2> QED  BY <1>2, <1>4, <1>5
<1>7. MemAlike(wal'.mem, ram'.mem, env.unsynced)
  BY <1>2, <1>5 DEF MemAlike, Edge!Insert
<1>8. \A j \in DOMAIN ram.mem : /\ j \in DOMAIN ram'.mem
                                /\ ram'.mem[j].profile = ram.mem[j].profile
                                /\ ram'.mem[j].dead = ram.mem[j].dead
  BY <1>1, <1>5 DEF Edge!Insert
<1>9. AssocOK(ram', wal', gap', env'.unsynced, env'.outgrown)
  <2> HIDE DEF AssocShape, MemAlike, AssocOK
  <2>1. gap' = gap /\ ram'.edges = ram.edges /\ wal'.edges = wal.edges
    BY <1>1, <1>5
  <2>2. AssocOK(ram', wal', gap', env.unsynced, env.outgrown)
    BY <1>2, <1>6, <1>7, <1>8, <2>1, RowsOK
  <2> QED  BY <1>e, <2>2 DEF SameHistory
<1>10. todo' \in Seq(Links)
  <2>1. todo' = <<>> \/ todo' \in Edge!Chain(i, s, profile.realm)
    BY DEF Edge!Put
  <2>2. <<>> \in Seq(Links)
    OBVIOUS
  <2>3. ASSUME todo' \in Edge!Chain(i, s, profile.realm) PROVE todo' \in Seq(Links)
    BY <2>3, ChainIs
  <2> QED  BY <2>1, <2>2, <2>3
<1> HIDE DEF AssocOK
<1> QED  BY <1>1, <1>e, <1>9, <1>10 DEF EdgeInv, SameHistory

LEMMA SessionStep ==
    ASSUME EdgeInv, NEW i \in DOMAIN ram.mem, NEW s, Edge!SetSourceSession(i, s)
    PROVE  EdgeInv'
<1> DEFINE x == [ram.mem[i] EXCEPT !.session = s]
<1>1. /\ wal' = wal /\ gap' = gap
      /\ \E ring : ram' = [ram EXCEPT !.mem = Edge!Insert(@, i, x), !.ring = ring]
  BY DEF Edge!SetSourceSession
<1>2. /\ AssocOK(ram, wal, gap, env.unsynced, env.outgrown)
      /\ AssocShape(ram) /\ AssocShape(wal) /\ MemAlike(wal.mem, ram.mem, env.unsynced)
  BY DEF EdgeInv, AssocOK
<1>e. SameHistory
  BY EdgeCalled DEF Edge!SetSourceSession
<1>3. AssocRow(x) /\ x.profile = ram.mem[i].profile /\ x.dead = ram.mem[i].dead
  BY <1>2 DEF AssocRow, AssocShape
<1> HIDE DEF x
<1>5. /\ DOMAIN ram' = AssocFields /\ ram'.edges = ram.edges
      /\ ram'.mem = Edge!Insert(ram.mem, i, x)
  BY <1>1, <1>2 DEF AssocShape, AssocFields
<1>6. AssocShape(ram')
  BY <1>2, <1>3, <1>5 DEF AssocShape, Edge!Insert
<1>8. DOMAIN ram'.mem = DOMAIN ram.mem
      /\ \A j \in DOMAIN ram.mem : /\ ram'.mem[j].profile = ram.mem[j].profile
                                   /\ ram'.mem[j].dead = ram.mem[j].dead
  BY <1>3, <1>5 DEF Edge!Insert
<1>7. MemAlike(wal'.mem, ram'.mem, env.unsynced)
  BY <1>1, <1>2, <1>8 DEF MemAlike
<1>9. AssocOK(ram', wal', gap', env'.unsynced, env'.outgrown)
  <2> HIDE DEF AssocShape, MemAlike, AssocOK
  <2>1. AssocOK(ram', wal', gap', env.unsynced, env.outgrown)
    <3>1. \A j \in DOMAIN ram.mem :
            /\ j \in DOMAIN ram'.mem /\ ram'.mem[j].dead = ram.mem[j].dead
            /\ \/ ram'.mem[j].profile = ram.mem[j].profile
               \/ \A e \in ram.edges \cup wal.edges : Touch(e, j) => EdgeKey(e) \in env.outgrown
      BY <1>8
    <3>2. gap' = gap /\ AssocShape(wal') /\ wal'.edges = wal.edges
      BY <1>1, <1>2
    <3> QED  BY <1>2, <1>5, <1>6, <1>7, <3>1, <3>2, RowsOK
  <2> QED  BY <1>e, <2>1 DEF SameHistory
<1>10. todo' \in Seq(Links)
  <2>1. todo' \in Edge!Chain(i, s, ram.mem[i].profile.realm) /\ i \in EdgeIds
    BY <1>2 DEF Edge!SetSourceSession, AssocShape
  <2> QED  BY <2>1, ChainIs
<1> HIDE DEF AssocOK
<1> QED  BY <1>1, <1>e, <1>9, <1>10 DEF EdgeInv, SameHistory

LEMMA NextEdgeStep ==
    ASSUME EdgeInv, Edge!NextEdge
    PROVE  EdgeInv'
<1> DEFINE k == Head(todo)
<1>1. todo # <<>> /\ todo' = Tail(todo) /\ gap' = gap
  BY DEF Edge!NextEdge, Edge!Resting
<1>2. k \in Links /\ todo' \in Seq(Links)
  BY <1>1 DEF EdgeInv
<1>3. /\ AssocOK(ram, wal, gap, env.unsynced, env.outgrown)
      /\ AssocShape(ram) /\ AssocShape(wal) /\ gap \in BOOLEAN
  BY DEF EdgeInv, AssocOK
<1>e. SameHistory
  BY EdgeCalled DEF Edge!NextEdge
<1>4. /\ k.op = "edge" /\ LinkOK(k) /\ Weighed(k)
      /\ k.type \in {"SameSession", "Supports", "SemanticNeighbor"}
  BY <1>2 DEF Links, LinkOK, Weighed
<1>5. CASE {k.src, k.dst} \subseteq Edge!Live(ram) /\ ~Edge!Refused(k) /\ Edge!Commit(k)
  <2>1. ram' = Edge!Merge(ram, k) /\ wal' = Edge!Push(wal, k)
    BY <1>4, <1>5 DEF Edge!Commit, Edge!Apply, Edge!Replay
  <2>2. /\ Leaves(ram', ram) /\ Placed(ram'.edges) /\ Adds(ram'.edges, ram.edges, k)
        /\ Leaves(wal', wal) /\ Placed(wal'.edges) /\ Adds(wal'.edges, wal.edges, k)
    BY <1>3, <1>4, <2>1, PushAdds, MergeAdds
  <2>3. MayHold(ram.mem, env.unsynced, env.outgrown, k)
    <3>1. Ends(ram.mem, env.unsynced, k)
      BY <1>5 DEF Edge!Live, Ends
    <3>2. k.type \in {"SameSession", "Supports"} => Permitted(ram.mem, k.src, k.dst)
      BY <1>5 DEF Edge!Refused, Permitted
    <3> QED  BY <3>1, <3>2 DEF MayHold
  <2> HIDE DEF k
  <2>4. AssocOK(ram', wal', gap, env.unsynced, env.outgrown)
    BY <1>3, <1>4, <2>2, <2>3, AddsOK
  <2> HIDE DEF AssocOK
  <2> QED  BY <1>1, <1>2, <1>3, <1>e, <2>4 DEF EdgeInv, SameHistory
<1>6. CASE Edge!Commit([k EXCEPT !.op = "blocked"])
  <2> DEFINE b == [k EXCEPT !.op = "blocked"]
  <2>1. b.op = "blocked"
    BY <1>2 DEF Links
  <2> HIDE DEF b
  <2>2. /\ ram' = [ram EXCEPT !.blocked = @ \cup {<<b.src, b.dst>>}]
        /\ wal' = [wal EXCEPT !.blocked = @ \cup {<<b.src, b.dst>>}]
    <3>1. Edge!Commit(b)
      BY <1>6 DEF b
    <3> QED  BY <2>1, <3>1 DEF Edge!Commit, Edge!Apply, Edge!Replay
  <2>3. Leaves(ram', ram) /\ ram'.edges = ram.edges /\ Leaves(wal', wal) /\ wal'.edges = wal.edges
    BY <1>3, <2>2 DEF Leaves, AssocShape, AssocFields
  <2>4. AssocOK(ram', wal', gap, env.unsynced, env.outgrown)
    BY <1>3, <2>3, SameOK
  <2> HIDE DEF AssocOK
  <2> QED  BY <1>1, <1>2, <1>3, <1>e, <2>4 DEF EdgeInv, SameHistory
<1>7. CASE UNCHANGED <<ram, wal>>
  <2> HIDE DEF k
  <2> HIDE DEF AssocOK
  <2> QED  BY <1>1, <1>2, <1>3, <1>e, <1>7 DEF EdgeInv, SameHistory
<1>8. \/ {k.src, k.dst} \subseteq Edge!Live(ram) /\ ~Edge!Refused(k) /\ Edge!Commit(k)
      \/ Edge!Commit([k EXCEPT !.op = "blocked"])
      \/ UNCHANGED <<ram, wal>>
  BY DEF Edge!NextEdge
<1> HIDE DEF k
<1> QED  BY <1>5, <1>6, <1>7, <1>8

LEMMA AssocRecallStep ==
    ASSUME EdgeInv, NEW i, NEW j, Edge!RecordRecall(i, j)
    PROVE  EdgeInv'
<1>1. /\ ram' = Edge!Recalled(ram, i, j) /\ wal' = Edge!Recalled(wal, i, j)
      /\ todo' = todo /\ gap' = gap
  BY DEF Edge!RecordRecall, Edge!Commit, Edge!Apply, Edge!Replay
<1>2. SameHistory
  BY EdgeCalled DEF Edge!RecordRecall
<1>3. AssocOK(ram', wal', gap, env.unsynced, env.outgrown)
  BY <1>1, RecallOK DEF EdgeInv
<1> HIDE DEF AssocOK
<1> QED  BY <1>1, <1>2, <1>3 DEF EdgeInv, SameHistory

LEMMA AssocForgetStep ==
    ASSUME EdgeInv, NEW i \in DOMAIN ram.mem, Edge!Forget(i) \/ Edge!ForgetUnsynced(i)
    PROVE  EdgeInv'
<1>1. AssocOK(ram, wal, gap, env.unsynced, env.outgrown) /\ gap \in BOOLEAN /\ todo \in Seq(Links)
  BY DEF EdgeInv
<1>2. CASE Edge!Forget(i)
  <2>1. /\ ram' = Edge!Forgotten(ram, i) /\ wal' = Edge!Forgotten(wal, i)
        /\ todo' = todo /\ gap' = gap
    BY <1>2 DEF Edge!Forget, Edge!Commit, Edge!Apply, Edge!Replay
  <2>2. /\ env'.unsynced = env.unsynced \ {i} /\ env'.outgrown = env.outgrown
        /\ DOMAIN env' = {"calls", "unsynced", "outgrown"}
    BY <1>2, EdgeCount DEF Edge!Forget
  <2> HIDE DEF AssocOK
  <2>3. AssocOK(Edge!Forgotten(ram, i), Edge!Forgotten(wal, i), gap, env.unsynced \ {i}, env.outgrown)
    BY <1>1, ForgottenOK
  <2> QED  BY <1>1, <2>1, <2>2, <2>3 DEF EdgeInv
<1>3. CASE Edge!ForgetUnsynced(i)
  <2>1. /\ ram' = ram /\ wal' = Edge!Forgotten(wal, i) /\ todo' = todo /\ gap' = TRUE
    BY <1>3 DEF Edge!ForgetUnsynced, Edge!Replay
  <2>2. /\ env'.unsynced = env.unsynced \cup {i} /\ env'.outgrown = env.outgrown
        /\ DOMAIN env' = {"calls", "unsynced", "outgrown"}
    BY <1>3, EdgeCount DEF Edge!ForgetUnsynced
  <2> HIDE DEF AssocOK
  <2>3. AssocOK(ram, Edge!Forgotten(wal, i), TRUE, env.unsynced \cup {i}, env.outgrown)
    BY <1>1, ForgottenOK
  <2> QED  BY <1>1, <2>1, <2>2, <2>3 DEF EdgeInv
<1> QED  BY <1>2, <1>3

\* Calls that change a profile: the edges at the memory are outgrown.
RegradedTo(t, s, i, p) == t = [s EXCEPT !.mem = Edge!Rowed(@, i, p, @[i].dead)]
LEMMA RegradedIs ==
    ASSUME NEW s, AssocShape(s), NEW i \in DOMAIN s.mem, NEW p, NEW t, RegradedTo(t, s, i, p)
    PROVE  /\ AssocShape(t) /\ DOMAIN t.mem = DOMAIN s.mem /\ t.edges = s.edges
           /\ \A j \in DOMAIN s.mem : /\ t.mem[j].dead = s.mem[j].dead
                                      /\ j # i => t.mem[j].profile = s.mem[j].profile
<1>1. DOMAIN t = AssocFields /\ t.edges = s.edges
      /\ t.mem = Edge!Rowed(s.mem, i, p, s.mem[i].dead)
  BY DEF RegradedTo, AssocShape, AssocFields
<1>2. s.mem[i].dead \in BOOLEAN
  BY DEF AssocShape, AssocRow
<1>3. /\ DOMAIN t.mem = DOMAIN s.mem
      /\ \A j \in DOMAIN t.mem : AssocRow(t.mem[j])
      /\ t.mem[i].dead = s.mem[i].dead
      /\ \A j \in DOMAIN t.mem : j # i => t.mem[j] = s.mem[j]
  <2>1. \A j \in DOMAIN s.mem : AssocRow(s.mem[j])
    BY DEF AssocShape
  <2> QED  BY <1>1, <1>2, <2>1, RowedIs
<1>4. AssocShape(t)
  <2> HIDE DEF Placed, AssocRow
  <2> QED  BY <1>1, <1>3 DEF AssocShape
<1> QED  BY <1>1, <1>3, <1>4

LEMMA RegradeStep ==
    ASSUME EdgeInv, NEW i \in DOMAIN ram.mem, todo' = todo, gap' = gap,
           Edge!Count(env.unsynced, env.outgrown \cup Edge!At({i})),
           NEW p, RegradedTo(ram', ram, i, p),
           wal' = wal \/ \E q : RegradedTo(wal', wal, i, q)
    PROVE  EdgeInv'
<1>1. /\ AssocOK(ram, wal, gap, env.unsynced, env.outgrown)
      /\ AssocShape(ram) /\ AssocShape(wal) /\ MemAlike(wal.mem, ram.mem, env.unsynced)
      /\ gap \in BOOLEAN /\ todo \in Seq(Links)
  BY DEF EdgeInv, AssocOK
<1>2. /\ env'.unsynced = env.unsynced /\ env'.outgrown = env.outgrown \cup Edge!At({i})
      /\ DOMAIN env' = {"calls", "unsynced", "outgrown"}
  BY EdgeCount
<1>3. /\ AssocShape(ram') /\ DOMAIN ram'.mem = DOMAIN ram.mem /\ ram'.edges = ram.edges
      /\ \A j \in DOMAIN ram.mem : /\ ram'.mem[j].dead = ram.mem[j].dead
                                   /\ j # i => ram'.mem[j].profile = ram.mem[j].profile
  <2> QED  BY <1>1, RegradedIs
<1>4. /\ AssocShape(wal') /\ DOMAIN wal'.mem = DOMAIN wal.mem /\ wal'.edges = wal.edges
      /\ \A j \in DOMAIN wal.mem : wal'.mem[j].dead = wal.mem[j].dead
  <2>1. CASE wal' = wal
    BY <1>1, <2>1
  <2>2. CASE \E q : RegradedTo(wal', wal, i, q)
    <3>1. i \in DOMAIN wal.mem
      BY <1>1 DEF MemAlike
    <3>2. AssocShape(wal)
      BY <1>1
    <3>3. PICK q : RegradedTo(wal', wal, i, q)
      BY <2>2
    <3> QED  BY <3>1, <3>2, <3>3, RegradedIs
  <2> QED  BY <2>1, <2>2
<1>5. MemAlike(wal'.mem, ram'.mem, env.unsynced)
  BY <1>1, <1>3, <1>4 DEF MemAlike
<1>6. \A e \in ram.edges \cup wal.edges : Touch(e, i) => EdgeKey(e) \in Edge!At({i})
  BY DEF Edge!At, Edge!Keys, Touch, EdgeKey
<1> HIDE DEF AssocOK, AssocShape, MemAlike, Touch, EdgeKey, Edge!At
<1> DEFINE X2 == env.outgrown \cup Edge!At({i})
<1>7. AssocOK(ram', wal', gap', env.unsynced, X2)
  <2>1. \A j \in DOMAIN ram.mem :
          /\ j \in DOMAIN ram'.mem /\ ram'.mem[j].dead = ram.mem[j].dead
          /\ \/ ram'.mem[j].profile = ram.mem[j].profile
             \/ \A e \in ram.edges \cup wal.edges : Touch(e, j) => EdgeKey(e) \in X2
    BY <1>3, <1>6
  <2>2. env.outgrown \subseteq X2 /\ gap' = gap
    OBVIOUS
  <2>3. /\ AssocShape(ram') /\ ram'.edges = ram.edges
        /\ AssocShape(wal') /\ wal'.edges = wal.edges
    BY <1>3, <1>4
  <2>4. AssocOK(ram, wal, gap, env.unsynced, env.outgrown)
    BY <1>1
  <2> HIDE DEF X2
  <2> QED  BY <1>5, <2>1, <2>2, <2>3, <2>4, RowsOK
<1> QED  BY <1>1, <1>2, <1>7 DEF EdgeInv

LEMMA RegradeSteps ==
    ASSUME EdgeInv, NEW i \in DOMAIN ram.mem, NEW p,
           \/ Edge!Regrade("kind", i, p) \/ Edge!Regrade("content", i, p)
           \/ Edge!SetRealm(i, p.realm) \/ Edge!WitnessMemory(i)
    PROVE  EdgeInv'
<1> HIDE DEF EdgeInv
<1>1. CASE Edge!Regrade("kind", i, p)
  BY <1>1, RegradeStep
     DEF Edge!Regrade, Edge!Commit, Edge!Apply, Edge!Replay, Edge!Rekinded, RegradedTo
<1>2. CASE Edge!Regrade("content", i, p)
  BY <1>2, RegradeStep
     DEF Edge!Regrade, Edge!Commit, Edge!Apply, Edge!Replay, Edge!Rewritten, RegradedTo
<1>3. CASE Edge!SetRealm(i, p.realm)
  BY <1>3, RegradeStep DEF Edge!SetRealm, Edge!Unlogged, RegradedTo
<1>4. CASE Edge!WitnessMemory(i)
  BY <1>4, RegradeStep DEF Edge!WitnessMemory, Edge!Unlogged, RegradedTo
<1> QED  BY <1>1, <1>2, <1>3, <1>4

\* The passes that leave no record: edges go or fade.
LEMMA PassStep ==
    ASSUME EdgeInv, NEW E, ram' = [ram EXCEPT !.edges = E], gap' = TRUE,
           wal' = wal, todo' = todo, Edge!Called,
           \A d \in E : \E e \in ram.edges :
             d.src = e.src /\ d.dst = e.dst /\ d.type = e.type /\ d.at = e.at /\ Weighed(d)
    PROVE  EdgeInv'
<1>1. /\ AssocShape(ram) /\ AssocShape(wal) /\ MemAlike(wal.mem, ram.mem, env.unsynced)
      /\ Clean(ram.mem, env.unsynced, env.outgrown, ram.edges)
      /\ Clean(ram.mem, env.unsynced, env.outgrown, wal.edges)
  BY DEF EdgeInv, AssocOK
<1>e. SameHistory
  BY EdgeCalled
<1>2. DOMAIN ram' = AssocFields /\ ram'.mem = ram.mem /\ ram'.edges = E
  BY <1>1 DEF AssocShape, AssocFields
<1>3. Placed(E)
  BY <1>1 DEF AssocShape, Placed
<1>4. AssocShape(ram')
  BY <1>1, <1>2, <1>3 DEF AssocShape
<1>5. Clean(ram.mem, env.unsynced, env.outgrown, E)
  <2> SUFFICES ASSUME NEW d \in E PROVE MayHold(ram.mem, env.unsynced, env.outgrown, d)
    BY DEF Clean
  <2>1. PICK e \in ram.edges : d.src = e.src /\ d.dst = e.dst /\ d.type = e.type
    OBVIOUS
  <2>2. MayHold(ram.mem, env.unsynced, env.outgrown, e)
    BY <1>1 DEF Clean
  <2>3. /\ EdgeKey(d) = EdgeKey(e)
        /\ Ends(ram.mem, env.unsynced, d) <=> Ends(ram.mem, env.unsynced, e)
    BY <2>1 DEF EdgeKey, Ends
  <2> HIDE DEF Ends, Permitted, EdgeKey
  <2> QED  BY <2>1, <2>2, <2>3 DEF MayHold
<1>6. AssocOK(ram', wal', gap', env.unsynced, env.outgrown)
  <2> HIDE DEF AssocShape, MemAlike, Clean, Covers
  <2> QED  BY <1>1, <1>2, <1>4, <1>5 DEF AssocOK
<1> HIDE DEF AssocOK
<1> QED  BY <1>e, <1>6 DEF EdgeInv, SameHistory

LEMMA AssocPasses ==
    ASSUME EdgeInv, NEW type, Edge!RemoveByType(type) \/ Edge!AssocDecay(type, 20)
    PROVE  EdgeInv'
<1>1. \A e \in ram.edges : Weighed(e)
  BY DEF EdgeInv, AssocOK, AssocShape, Placed
<1>2. AssocShape(ram)
  BY DEF EdgeInv, AssocOK
<1>3. CASE Edge!RemoveByType(type)
  <2> DEFINE E == {e \in ram.edges : e.type # type}
  <2>1. ram' = [ram EXCEPT !.edges = E] /\ gap' = TRUE /\ wal' = wal /\ todo' = todo /\ Edge!Called
    BY <1>2, <1>3 DEF Edge!RemoveByType, AssocShape, AssocFields
  <2>2. \A d \in E : \E e \in ram.edges :
          d.src = e.src /\ d.dst = e.dst /\ d.type = e.type /\ d.at = e.at /\ Weighed(d)
    BY <1>1
  <2> HIDE DEF E
  <2> QED  BY <2>1, <2>2, PassStep
<1>4. CASE Edge!AssocDecay(type, 20)
  <2> DEFINE faded == {e \in ram.edges : e.type = type /\ e.weight \div 2 >= 20}
             E == {e \in ram.edges : e.type # type}
                     \cup {Edge!Reweighed(e, e.weight \div 2) : e \in faded}
  <2>1. ram' = [ram EXCEPT !.edges = E] /\ gap' = TRUE /\ wal' = wal /\ todo' = todo /\ Edge!Called
    BY <1>2, <1>4 DEF Edge!AssocDecay, AssocShape, AssocFields
  <2>2. ASSUME NEW e \in ram.edges, NEW d, d = Edge!Reweighed(e, e.weight \div 2)
        PROVE  d.src = e.src /\ d.dst = e.dst /\ d.type = e.type /\ d.at = e.at /\ Weighed(d)
    <3>1. d.src = e.src /\ d.dst = e.dst /\ d.type = e.type /\ d.at = e.at
          /\ d.weight = e.weight \div 2
      BY <2>2, ReweighedIs
    <3>2. e.weight \in 0..100 => e.weight \div 2 \in 0..100
      OBVIOUS
    <3> QED  BY <1>1, <3>1, <3>2 DEF Weighed
  <2>3. \A d \in E : \E e \in ram.edges :
          d.src = e.src /\ d.dst = e.dst /\ d.type = e.type /\ d.at = e.at /\ Weighed(d)
    BY <1>1, <2>2
  <2> HIDE DEF E
  <2> QED  BY <2>1, <2>3, PassStep
<1> QED  BY <1>3, <1>4

LEMMA AssocSaveStep ==
    ASSUME EdgeInv, Edge!Checkpoint
    PROVE  EdgeInv'
<1>1. AssocShape(ram) /\ Clean(ram.mem, env.unsynced, env.outgrown, ram.edges)
  BY DEF EdgeInv, AssocOK
<1>e. SameHistory
  BY EdgeCalled DEF Edge!Checkpoint
<1>2. PICK coact : wal' = [ram EXCEPT !.ring = <<>>, !.coact = coact]
  BY DEF Edge!Checkpoint
<1>3. ram' = ram /\ todo' = todo /\ gap' = FALSE
  BY DEF Edge!Checkpoint
<1>4. DOMAIN wal' = AssocFields /\ wal'.mem = ram.mem /\ wal'.edges = ram.edges
  BY <1>1, <1>2 DEF AssocShape, AssocFields
<1>5. AssocShape(wal') /\ MemAlike(wal'.mem, ram.mem, env.unsynced)
  BY <1>1, <1>4 DEF AssocShape, MemAlike
<1>6. Covers(ram.edges, ram.edges)
  BY <1>1 DEF AssocShape, Placed, Covers, Under, Weighed
<1>7. AssocOK(ram', wal', gap', env.unsynced, env.outgrown)
  <2> HIDE DEF AssocShape, MemAlike, Clean, Covers
  <2> QED  BY <1>1, <1>3, <1>4, <1>5, <1>6 DEF AssocOK
<1> HIDE DEF AssocOK
<1> QED  BY <1>3, <1>e, <1>7 DEF EdgeInv, SameHistory

LEMMA AssocRestartStep ==
    ASSUME EdgeInv, Edge!Restart
    PROVE  EdgeInv'
<1> DEFINE U == env.unsynced
           X == env.outgrown
           X2 == X \cup Edge!At(Edge!Undone)
<1>1. AssocShape(wal) /\ Clean(ram.mem, U, X, wal.edges) /\ MemAlike(wal.mem, ram.mem, U)
  BY DEF EdgeInv, AssocOK
<1>2. PICK coact : ram' = [wal EXCEPT !.coact = coact]
  BY DEF Edge!Restart
<1>3. wal' = wal /\ todo' = <<>> /\ gap' = FALSE
  BY DEF Edge!Restart
<1>e. env'.unsynced = U /\ env'.outgrown = X2 /\ DOMAIN env' = {"calls", "unsynced", "outgrown"}
  BY DEF EdgeInv, Edge!Restart
<1>4. DOMAIN ram' = AssocFields /\ ram'.mem = wal.mem /\ ram'.edges = wal.edges
  BY <1>1, <1>2 DEF AssocShape, AssocFields
<1>5. AssocShape(ram') /\ MemAlike(wal.mem, ram'.mem, U)
  BY <1>1, <1>4 DEF AssocShape, MemAlike
<1>6. Covers(wal.edges, wal.edges)
  BY <1>1 DEF AssocShape, Placed, Covers, Under, Weighed
<1>7. Clean(wal.mem, U, X2, wal.edges)
  <2>1. \A e \in wal.edges : e.type # "CoRetrieved" => Ends(wal.mem, U, e)
    BY <1>1 DEF Clean, MayHold, Ends, MemAlike
  <2>2. ASSUME NEW i \in DOMAIN ram.mem
        PROVE  \/ wal.mem[i].profile = ram.mem[i].profile
               \/ \A e \in wal.edges : Touch(e, i) => EdgeKey(e) \in X2
    BY DEF Edge!At, Edge!Undone, Edge!Keys, Touch, EdgeKey
  <2>3. X \subseteq X2
    OBVIOUS
  <2> HIDE DEF Clean, Ends, Touch, EdgeKey, X2, X, U
  <2> QED  BY <1>1, <2>1, <2>2, <2>3, CleanKept
<1> HIDE DEF U, X, X2
<1>8. AssocOK(ram', wal', gap', U, X2)
  <2> HIDE DEF AssocShape, MemAlike, Clean, Covers
  <2> QED  BY <1>1, <1>3, <1>4, <1>5, <1>6, <1>7 DEF AssocOK
<1>9. todo' \in Seq(Links) /\ gap' \in BOOLEAN
  <2>1. <<>> \in Seq(Links)
    OBVIOUS
  <2> QED  BY <1>3, <2>1, Zenon
<1> HIDE DEF AssocOK
<1> QED  BY <1>e, <1>8, <1>9 DEF EdgeInv

LEMMA TodoStep ==
    ASSUME EdgeInv, ram' = ram, wal' = wal, gap' = gap, todo' \in Seq(Links),
           Edge!Called \/ env' = env
    PROVE  EdgeInv'
<1>1. SameHistory
  BY EdgeCalled
<1> HIDE DEF AssocOK
<1> QED  BY <1>1 DEF EdgeInv, SameHistory

LEMMA EdgeInductive ==
    ASSUME EdgeInv, [Edge!Next]_(Edge!vars)
    PROVE  EdgeInv'
<1> HIDE DEF EdgeInv
<1>1. ASSUME NEW i \in EdgeIds, NEW p \in EdgeProfiles, NEW s \in EdgeSessions \cup {"none"},
             Edge!Put(i, p, s)
      PROVE  EdgeInv'
  BY <1>1, AssocPutStep
<1>2. ASSUME NEW i \in DOMAIN ram.mem, NEW s \in EdgeSessions, Edge!SetSourceSession(i, s)
      PROVE  EdgeInv'
  BY <1>2, SessionStep
<1>3. ASSUME NEW i \in DOMAIN ram.mem, NEW j \in DOMAIN ram.mem, NEW w \in {30, 70},
             Edge!AddAssocEdge(i, j, "Supports", w)
      PROVE  EdgeInv'
  <2>1. /\ ram' = ram /\ wal' = wal /\ gap' = gap /\ Edge!Called
        /\ todo' = <<Edge!Link(i, j, "Supports", w)>>
    BY <1>3 DEF Edge!AddAssocEdge
  <2>2. i \in EdgeIds /\ j \in EdgeIds /\ w \in 0..100
    BY DEF EdgeInv, AssocOK, AssocShape
  <2>3. Edge!Link(i, j, "Supports", w) \in Links
    BY <2>2, LinkIs
  <2>4. todo' \in Seq(Links)
    BY <2>1, <2>3
  <2> QED  BY <2>1, <2>4, TodoStep
<1>4. CASE Edge!NextEdge
  BY <1>4, NextEdgeStep
<1>5. CASE Edge!AppendFails
  <2>1. /\ ram' = ram /\ wal' = wal /\ gap' = gap /\ env' = env
        /\ todo # <<>> /\ todo' = Tail(todo)
    BY <1>5 DEF Edge!AppendFails, Edge!Resting
  <2>2. todo' \in Seq(Links)
    BY <2>1 DEF EdgeInv
  <2> QED  BY <2>1, <2>2, TodoStep
<1>6. CASE Edge!DensifyBackfill
  <2>1. ram' = ram /\ wal' = wal /\ gap' = gap /\ Edge!Called
    BY <1>6 DEF Edge!DensifyBackfill
  <2> QED  BY <1>6, <2>1, DensifyIs, TodoStep
<1>7. CASE Edge!SemanticBackfill
  <2>1. ram' = ram /\ wal' = wal /\ gap' = gap /\ Edge!Called
    BY <1>7 DEF Edge!SemanticBackfill
  <2> QED  BY <1>7, <2>1, SemanticIs, TodoStep
<1>8. ASSUME NEW i \in DOMAIN ram.mem, NEW j \in DOMAIN ram.mem, Edge!RecordRecall(i, j)
      PROVE  EdgeInv'
  BY <1>8, AssocRecallStep
<1>9. ASSUME NEW i \in DOMAIN ram.mem, Edge!Forget(i) \/ Edge!ForgetUnsynced(i)
      PROVE  EdgeInv'
  BY <1>9, AssocForgetStep
<1>14. ASSUME NEW i \in DOMAIN ram.mem, NEW p,
              \/ Edge!Regrade("kind", i, p) \/ Edge!Regrade("content", i, p)
              \/ Edge!SetRealm(i, p.realm) \/ Edge!WitnessMemory(i)
       PROVE  EdgeInv'
  BY <1>14, RegradeSteps
<1>10. ASSUME NEW t \in Edge!Types, Edge!RemoveByType(t) \/ Edge!AssocDecay(t, 20)
       PROVE  EdgeInv'
  BY <1>10, AssocPasses
<1>11. CASE Edge!Checkpoint
  BY <1>11, AssocSaveStep
<1>12. CASE Edge!Restart
  BY <1>12, AssocRestartStep
<1>13. CASE UNCHANGED Edge!vars
  <2>1. ram' = ram /\ wal' = wal /\ gap' = gap /\ todo' = todo /\ env' = env
    BY <1>13 DEF Edge!vars
  <2>2. todo' \in Seq(Links)
    BY <2>1 DEF EdgeInv
  <2> QED  BY <2>1, <2>2, TodoStep
<1> QED  BY <1>1, <1>2, <1>3, <1>4, <1>5, <1>6, <1>7, <1>8, <1>9, <1>10, <1>11, <1>12, <1>13, <1>14
         DEF Edge!Next

LEMMA EdgeStart ==
    ASSUME Edge!Init
    PROVE  EdgeInv
<1>1. /\ DOMAIN ram = AssocFields /\ DOMAIN ram.mem = {} /\ ram.edges = {}
      /\ wal = ram /\ todo = <<>> /\ gap = FALSE
      /\ DOMAIN env = {"calls", "unsynced", "outgrown"}
  BY DEF Edge!Init, Edge!Empty, AssocFields
<1>2. Placed({})
  BY DEF Placed
<1>3. AssocShape(ram)
  BY <1>1, <1>2 DEF AssocShape
<1>4. /\ Clean(ram.mem, env.unsynced, env.outgrown, {}) /\ Covers({}, {})
      /\ MemAlike(ram.mem, ram.mem, env.unsynced)
  BY DEF Clean, Covers, MemAlike
<1>5. AssocOK(ram, wal, gap, env.unsynced, env.outgrown)
  <2> HIDE DEF AssocShape, MemAlike, Clean, Covers
  <2> QED  BY <1>1, <1>3, <1>4 DEF AssocOK
<1>6. todo \in Seq(Links) /\ gap \in BOOLEAN
  <2>1. <<>> \in Seq(Links)
    OBVIOUS
  <2> QED  BY <1>1, <2>1, Zenon
<1> HIDE DEF AssocOK
<1> QED  BY <1>1, <1>5, <1>6 DEF EdgeInv

\* What the invariant is for: the two properties of Edges.
LEMMA SoundEdges ==
    ASSUME EdgeInv
    PROVE  Edge!EdgesSound
<1> DEFINE U == env.unsynced
           X == env.outgrown
<1>1. /\ Clean(ram.mem, U, X, ram.edges) /\ Clean(ram.mem, U, X, wal.edges)
      /\ MemAlike(wal.mem, ram.mem, U)
  BY DEF EdgeInv, AssocOK
<1>2. ASSUME NEW s \in {ram, wal}, NEW e \in s.edges
      PROVE  \/ {e.src, e.dst} \subseteq Edge!Live(s)
             \/ e.type = "CoRetrieved"
             \/ {e.src, e.dst} \cap U # {}
  <2>1. e.type = "CoRetrieved" \/ Ends(ram.mem, U, e)
    BY <1>1 DEF Clean, MayHold
  <2>2. Ends(ram.mem, U, e) => \/ {e.src, e.dst} \subseteq Edge!Live(s)
                               \/ {e.src, e.dst} \cap U # {}
    BY <1>1 DEF Ends, MemAlike, Edge!Live
  <2> QED  BY <2>1, <2>2
<1>3. ASSUME NEW s \in {ram, wal}, NEW e \in s.edges, e.type \in {"SameSession", "Supports"},
             <<e.src, e.dst, e.type>> \notin X
      PROVE  ~Edge!Refused(e)
  <2>1. MayHold(ram.mem, U, X, e)
    BY <1>1 DEF Clean
  <2> QED  BY <1>3, <2>1 DEF MayHold, EdgeKey, Permitted, Edge!Refused
<1> HIDE DEF Edge!Refused
<1> QED  BY <1>2, <1>3 DEF Edge!EdgesSound

LEMMA KeptEdges ==
    ASSUME EdgeInv
    PROVE  Edge!EdgesKept
<1> SUFFICES ASSUME ~gap
             PROVE  /\ Edge!Keys(wal) = Edge!Keys(ram)
                    /\ \A k \in Edge!Keys(ram) : k[3] # "CoRetrieved" =>
                         Edge!Strongest(ram, k) = Edge!Strongest(wal, k)
  BY DEF Edge!EdgesKept
<1>1. /\ Covers(ram.edges, wal.edges) /\ Covers(wal.edges, ram.edges)
      /\ Placed(ram.edges) /\ Placed(wal.edges)
  BY DEF EdgeInv, AssocOK, AssocShape
<1>2. Edge!Keys(wal) = Edge!Keys(ram)
  BY <1>1 DEF Edge!Keys, Covers, Under
<1>3. ASSUME NEW k \in Edge!Keys(ram), k[3] # "CoRetrieved"
      PROVE  Edge!Strongest(ram, k) = Edge!Strongest(wal, k)
  <2> DEFINE A == {e.weight : e \in Edge!Between(ram, k[1], k[2], k[3])}
             B == {e.weight : e \in Edge!Between(wal, k[1], k[2], k[3])}
  <2>1. A \subseteq 0..100 /\ B \subseteq 0..100
    BY <1>1, <1>3 DEF Placed, Weighed, Edge!Between
  <2>2. \A x \in A : \E y \in B : x <= y
    BY <1>1, <1>3 DEF Covers, Under, Edge!Between
  <2>3. \A y \in B : \E x \in A : y <= x
    BY <1>1, <1>3 DEF Covers, Under, Edge!Between
  <2>4. A # {}
    BY DEF Edge!Keys, Edge!Between
  <2>5. Edge!Strongest(ram, k) = Max(A) /\ Edge!Strongest(wal, k) = Max(B)
    BY DEF Edge!Strongest, Edge!Max, Max
  <2> HIDE DEF A, B
  <2>6. B # {}
    BY <2>2, <2>4
  <2>7. /\ A \in SUBSET Nat /\ B \in SUBSET Nat /\ 100 \in Nat
        /\ \A x \in A : x <= 100
        /\ \A x \in B : x <= 100
    BY <2>1
  <2>8. /\ Max(A) \in A /\ \A x \in A : x <= Max(A)
        /\ Max(B) \in B /\ \A x \in B : x <= Max(B)
    BY <2>4, <2>6, <2>7, MaxOf
  <2>9. Max(A) <= Max(B) /\ Max(B) <= Max(A) /\ Max(A) \in Nat /\ Max(B) \in Nat
    <3> DEFINE a == Max(A)
               b == Max(B)
    <3>1. a \in Nat /\ b \in Nat
      BY <2>7, <2>8
    <3> HIDE DEF a, b
    <3>2. PICK y \in B : a <= y
      BY <2>2, <2>8 DEF a
    <3>3. PICK x \in A : b <= x
      BY <2>3, <2>8 DEF b
    <3>4. y \in Nat /\ x \in Nat /\ y <= b /\ x <= a
      BY <2>7, <2>8 DEF a, b
    <3>5. a <= b /\ b <= a
      BY <3>1, <3>2, <3>3, <3>4
    <3> QED  BY <3>1, <3>5 DEF a, b
  <2> QED  BY <2>5, <2>9
<1> QED  BY <1>2, <1>3
-----------------------------------------------------------------------------
(* Facts and replication counts                                             *)

\* What an image believes.
Told(s) == Triplet!Beliefs(s)
Descends == Triplet!Provenance \cup {"replication_session"}

\* A session that a memory counts without its tag.
Witnessed(s, i, x) == x = "" \/ (x \in TripletSessions /\ <<i, "replication_session", x>> \in Told(s))

\* The tags of a memory in two images, which count for the same.
TagsAgree(s, t, i) ==
    \/ s.mem[i].session = t.mem[i].session
    \/ Witnessed(s, i, s.mem[i].session) /\ Witnessed(s, i, t.mem[i].session)

\* Two images of the store that agree about the memories outside F, whose
\* counts depend on nothing inside it.
Apart(s, t, F) ==
    /\ \A x \in TripletIds \ F : x \in Triplet!Known(s) <=> x \in Triplet!Known(t)
    /\ \A x \in Triplet!Known(s) \ F : TagsAgree(s, t, x)
    /\ \A x \in TripletIds \ F, p \in Descends : \A y : <<x, p, y>> \in Told(s) <=> <<x, p, y>> \in Told(t)
    /\ \A x \in TripletIds \ F, y \in TripletIds \cap F, p \in Triplet!Provenance :
          <<x, p, y>> \notin Told(s)
    /\ \A x \in TripletIds \ F, w \in TripletIds :
          <<w, "confirms", x>> \in Told(s) <=> <<w, "confirms", x>> \in Told(t)
    /\ \A x \in TripletIds \ F, w \in TripletIds \cap F : <<w, "confirms", x>> \notin Told(s)

LEMMA ApartSym ==
    ASSUME NEW s, NEW t, NEW F, Apart(s, t, F), DOMAIN t.mem \subseteq TripletIds
    PROVE  Apart(t, s, F)
<1>1. Triplet!Known(t) \subseteq TripletIds
  BY DEF Triplet!Known
<1>2. ASSUME NEW x \in Triplet!Known(t) \ F PROVE TagsAgree(t, s, x)
  <2>1. x \in TripletIds \ F /\ TagsAgree(s, t, x)
    BY <1>1, <1>2 DEF Apart
  <2>2. \A y : <<x, "replication_session", y>> \in Told(s) <=> <<x, "replication_session", y>> \in Told(t)
    <3> HIDE DEF Told
    <3> QED  BY <2>1 DEF Apart, Descends
  <2> QED  BY <2>1, <2>2 DEF TagsAgree, Witnessed
<1>3. Triplet!Provenance \subseteq Descends
  BY DEF Descends
<1> HIDE DEF Told, Descends
<1> QED  BY <1>2, <1>3 DEF Apart

LEMMA ApartAncestry ==
    ASSUME NEW s, NEW t, NEW F, Apart(s, t, F), NEW i \in TripletIds \ F,
           DOMAIN s.mem \subseteq TripletIds, DOMAIN t.mem \subseteq TripletIds
    PROVE  /\ Triplet!Ancestry(s, i) \cap F = {}
           /\ Triplet!Ancestry(s, i) \subseteq Triplet!Ancestry(t, i)
<1> DEFINE Ks == Triplet!Known(s)
           Kt == Triplet!Known(t)
<1>1. Ks \subseteq TripletIds /\ Kt \subseteq TripletIds
  BY DEF Triplet!Known
<1>2. \A x, y \in TripletIds : x \notin F /\ <<x, y>> \in Triplet!Parents(s) =>
         y \notin F /\ <<x, y>> \in Triplet!Parents(t)
  <2> SUFFICES ASSUME NEW x \in TripletIds, NEW y \in TripletIds, x \notin F,
                      <<x, y>> \in Triplet!Parents(s)
               PROVE  y \notin F /\ <<x, y>> \in Triplet!Parents(t)
    OBVIOUS
  <2>1. PICK p \in Triplet!Provenance : <<x, p, y>> \in Told(s)
    BY DEF Triplet!Parents, Told
  <2>2. y \notin F /\ <<x, p, y>> \in Told(t)
    BY <2>1 DEF Apart, Descends
  <2> QED  BY <2>2 DEF Triplet!Parents, Told
<1>3. \A x, y \in TripletIds : x \notin F /\ <<x, y>> \in Triplet!Parents(t) =>
         y \notin F /\ <<x, y>> \in Triplet!Parents(s)
  <2> SUFFICES ASSUME NEW x \in TripletIds, NEW y \in TripletIds, x \notin F,
                      <<x, y>> \in Triplet!Parents(t)
               PROVE  y \notin F /\ <<x, y>> \in Triplet!Parents(s)
    OBVIOUS
  <2>1. PICK p \in Triplet!Provenance : <<x, p, y>> \in Told(t)
    BY DEF Triplet!Parents, Told
  <2>2. y \notin F /\ <<x, p, y>> \in Told(s)
    BY <2>1 DEF Apart, Descends
  <2> QED  BY <2>2 DEF Triplet!Parents, Told
<1>4. \A x \in TripletIds \ F : x \in Ks <=> x \in Kt
  BY DEF Apart
<1> HIDE DEF Ks, Kt
<1>5. \A a \in Triplet!Ancestry(s, i) : a \in Ks /\ a \notin F
  <2> SUFFICES ASSUME NEW a \in Triplet!Ancestry(s, i) PROVE a \in Ks \ F
    OBVIOUS
  <2>1. a \in Triplet!Reached(Ks, {i} \cap Ks, Triplet!Parents(s))
    BY DEF Triplet!Ancestry, Ks
  <2>2. Ks \ F \in SUBSET Ks /\ {i} \cap Ks \subseteq Ks \ F
    OBVIOUS
  <2>3. \A x \in Ks \ F, y \in Ks : <<x, y>> \in Triplet!Parents(s) => y \in Ks \ F
    BY <1>1, <1>2
  <2> QED  BY <2>1, <2>2, <2>3 DEF Triplet!Reached
<1>6. ASSUME NEW a \in Triplet!Ancestry(s, i) PROVE a \in Triplet!Ancestry(t, i)
  <2>1. a \in Triplet!Reached(Ks, {i} \cap Ks, Triplet!Parents(s))
    BY <1>6 DEF Triplet!Ancestry, Ks
  <2>2. a \in Kt
    BY <1>1, <1>4, <1>5, <1>6
  <2>3. ASSUME NEW met \in SUBSET Kt, {i} \cap Kt \subseteq met,
               \A x \in met, y \in Kt : <<x, y>> \in Triplet!Parents(t) => y \in met
        PROVE  a \in met
    <3>1. met \ F \in SUBSET Ks /\ {i} \cap Ks \subseteq met \ F
      BY <1>1, <1>4, <2>3
    <3>2. \A x \in met \ F, y \in Ks : <<x, y>> \in Triplet!Parents(s) => y \in met \ F
      BY <1>1, <1>2, <1>4, <2>3
    <3> QED  BY <2>1, <3>1, <3>2 DEF Triplet!Reached
  <2>4. a \in Triplet!Reached(Kt, {i} \cap Kt, Triplet!Parents(t))
    BY <2>2, <2>3 DEF Triplet!Reached
  <2> QED  BY <2>4 DEF Triplet!Ancestry, Kt
<1> QED  BY <1>5, <1>6

LEMMA ApartVouching ==
    ASSUME NEW s, NEW t, NEW F, Apart(s, t, F), NEW i \in TripletIds \ F,
           DOMAIN s.mem \subseteq TripletIds, DOMAIN t.mem \subseteq TripletIds
    PROVE  Triplet!Vouching(s, i) \subseteq Triplet!Vouching(t, i)
<1>1. /\ Triplet!Ancestry(s, i) \cap F = {} /\ Triplet!Ancestry(s, i) \subseteq Triplet!Ancestry(t, i)
  BY ApartAncestry
<1>2. Triplet!Ancestry(s, i) \subseteq Triplet!Known(s) /\ Triplet!Known(s) \subseteq TripletIds
  BY DEF Triplet!Ancestry, Triplet!Reached, Triplet!Known
<1> DEFINE Own(u, a) == ({u.mem[a].session} \ {""})
                        \cup {x \in TripletSessions : <<a, "replication_session", x>> \in Triplet!Beliefs(u)
                                                   \/ <<a, "derived_from", x>> \in Triplet!Beliefs(u)}
<1>3. ASSUME NEW a \in Triplet!Ancestry(s, i) PROVE Own(s, a) = Own(t, a)
  <2>1. a \in Triplet!Known(s) \ F /\ a \in TripletIds \ F
    BY <1>1, <1>2, <1>3
  <2>2. TagsAgree(s, t, a)
    BY <2>1 DEF Apart
  <2>3. "replication_session" \in Descends /\ "derived_from" \in Descends
    BY DEF Descends, Triplet!Provenance
  <2>4. \A x : /\ <<a, "replication_session", x>> \in Told(s) <=> <<a, "replication_session", x>> \in Told(t)
               /\ <<a, "derived_from", x>> \in Told(s) <=> <<a, "derived_from", x>> \in Told(t)
    <3> HIDE DEF Told, Descends
    <3> QED  BY <2>1, <2>3 DEF Apart
  <2>5. CASE s.mem[a].session = t.mem[a].session
    BY <2>4, <2>5 DEF Told
  <2>6. CASE Witnessed(s, a, s.mem[a].session) /\ Witnessed(s, a, t.mem[a].session)
    <3> DEFINE Wit(u) == {x \in TripletSessions : <<a, "replication_session", x>> \in Triplet!Beliefs(u)
                                                \/ <<a, "derived_from", x>> \in Triplet!Beliefs(u)}
    <3>1. Wit(s) = Wit(t)
      BY <2>4 DEF Told
    <3>2. {s.mem[a].session} \ {""} \subseteq Wit(s) /\ {t.mem[a].session} \ {""} \subseteq Wit(s)
      BY <2>6 DEF Witnessed, Told
    <3> QED  BY <3>1, <3>2
  <2> QED  BY <2>2, <2>5, <2>6 DEF TagsAgree
<1>4. Triplet!Vouching(s, i) = UNION {Own(s, a) : a \in Triplet!Ancestry(s, i)}
  BY DEF Triplet!Vouching
<1>5. Triplet!Vouching(t, i) = UNION {Own(t, a) : a \in Triplet!Ancestry(t, i)}
  BY DEF Triplet!Vouching
<1> HIDE DEF Own
<1> QED  BY <1>1, <1>3, <1>4, <1>5

LEMMA ApartCount ==
    ASSUME NEW s, NEW t, NEW F, Apart(s, t, F), NEW i \in TripletIds \ F,
           DOMAIN s.mem \subseteq TripletIds, DOMAIN t.mem \subseteq TripletIds
    PROVE  Triplet!Replication(s, i) = Triplet!Replication(t, i)
<1>1. Apart(t, s, F)
  BY ApartSym
<1>2. \A j \in TripletIds \ F : Triplet!Vouching(s, j) = Triplet!Vouching(t, j)
  BY <1>1, ApartVouching
<1> DEFINE Ws == {w \in TripletIds : <<w, "confirms", i>> \in Triplet!Beliefs(s)}
           Wt == {w \in TripletIds : <<w, "confirms", i>> \in Triplet!Beliefs(t)}
<1>3. Ws = Wt /\ Ws \cap F = {}
  BY DEF Apart, Told
<1>4. \A w \in Ws : Triplet!Vouching(s, w) = Triplet!Vouching(t, w)
  BY <1>2, <1>3
<1>5. UNION {Triplet!Vouching(s, w) : w \in Ws} = UNION {Triplet!Vouching(t, w) : w \in Wt}
  <2> HIDE DEF Ws, Wt
  <2>1. {Triplet!Vouching(s, w) : w \in Ws} = {Triplet!Vouching(t, w) : w \in Wt}
    BY <1>3, <1>4
  <2> QED  BY <2>1
<1>6. Triplet!Vouching(s, i) = Triplet!Vouching(t, i)
  BY <1>2
<1> QED  BY <1>5, <1>6 DEF Triplet!Replication

LEMMA ReachedIs ==
    ASSUME NEW all, NEW start \in SUBSET all, NEW edges
    PROVE  /\ start \subseteq Triplet!Reached(all, start, edges)
           /\ Triplet!Reached(all, start, edges) \subseteq all
           /\ \A x \in Triplet!Reached(all, start, edges), y \in all :
                 <<x, y>> \in edges => y \in Triplet!Reached(all, start, edges)
BY DEF Triplet!Reached

\* A change that bears on the counts of the seeds first.
Touches(s, t, seeds) ==
    /\ \A x \in TripletIds \ seeds : x \in Triplet!Known(s) <=> x \in Triplet!Known(t)
    /\ \A x \in Triplet!Known(s) \ seeds : s.mem[x].session = t.mem[x].session
    /\ \A x \in TripletIds \ seeds, p \in Descends : \A y : <<x, p, y>> \in Told(s) <=> <<x, p, y>> \in Told(t)
    /\ \A x \in TripletIds \ seeds, w \in TripletIds :
          <<w, "confirms", x>> \in Told(s) <=> <<w, "confirms", x>> \in Told(t)

LEMMA CountKept ==
    ASSUME NEW s, NEW t, NEW seeds \in SUBSET TripletIds, Touches(s, t, seeds),
           DOMAIN s.mem \subseteq TripletIds, DOMAIN t.mem \subseteq TripletIds,
           NEW i \in TripletIds \ Triplet!Affected(t, seeds)
    PROVE  Triplet!Replication(t, i) = Triplet!Replication(s, i)
<1> DEFINE F == Triplet!Affected(t, seeds)
<1>1. /\ seeds \subseteq F
      /\ \A x \in F, y \in TripletIds : <<x, y>> \in Triplet!Dependents(t) => y \in F
  BY ReachedIs DEF Triplet!Affected
<1>2. Told(t) \subseteq Triplet!FactsAt(t, Triplet!Valid(t))
  BY DEF Told, Triplet!Beliefs, Triplet!Active, Triplet!FactsAt
<1>3. \A x \in TripletIds \ F, y \in TripletIds \cap F, p \in Triplet!Provenance : <<x, p, y>> \notin Told(t)
  <2> SUFFICES ASSUME NEW x \in TripletIds, NEW y \in TripletIds \cap F, NEW p \in Triplet!Provenance,
                      <<x, p, y>> \in Told(t)
               PROVE  x \in F
    OBVIOUS
  <2>1. <<y, x>> \in Triplet!Dependents(t)
    BY <1>2 DEF Triplet!Dependents
  <2> QED  BY <1>1, <2>1
<1>4. \A x \in TripletIds \ F, w \in TripletIds \cap F : <<w, "confirms", x>> \notin Told(t)
  <2> SUFFICES ASSUME NEW x \in TripletIds, NEW w \in TripletIds \cap F, <<w, "confirms", x>> \in Told(t)
               PROVE  x \in F
    OBVIOUS
  <2>1. <<w, x>> \in Triplet!Dependents(t)
    BY <1>2 DEF Triplet!Dependents
  <2> QED  BY <1>1, <2>1
<1>5. Triplet!Known(t) \subseteq TripletIds /\ Triplet!Known(s) \subseteq TripletIds
  BY DEF Triplet!Known
<1> HIDE DEF F, Told, Descends
<1>6. Apart(t, s, F)
  BY <1>1, <1>3, <1>4, <1>5 DEF Apart, Touches, TagsAgree
<1>7. i \in TripletIds \ F
  BY DEF F
<1> QED  BY <1>6, <1>7, ApartCount

LEMMA SameCount ==
    ASSUME NEW s, NEW t, Told(s) = Told(t), Triplet!Known(s) = Triplet!Known(t),
           \A x \in Triplet!Known(s) : TagsAgree(s, t, x),
           DOMAIN s.mem \subseteq TripletIds, DOMAIN t.mem \subseteq TripletIds, NEW i \in TripletIds
    PROVE  Triplet!Replication(s, i) = Triplet!Replication(t, i)
<1>1. Apart(s, t, {})
  <2> HIDE DEF Told
  <2> QED  BY DEF Apart
<1> QED  BY <1>1, ApartCount

\* The counts are those of a recount.
CountsOK(s) ==
    /\ s.count = [i \in DOMAIN s.mem |-> s.count[i]] /\ DOMAIN s.mem \subseteq TripletIds
    /\ \A i \in DOMAIN s.mem : s.count[i] = Triplet!Replication(s, i)

TripletFields == {"entries", "over", "clean", "all", "dirty", "mem", "count"}

\* One image is the other but for the counts.
ButCounts(t, s) ==
    /\ DOMAIN t = DOMAIN s /\ t.entries = s.entries /\ t.over = s.over /\ t.mem = s.mem
    /\ t.clean = s.clean /\ t.all = s.all /\ t.dirty = s.dirty

LEMMA ButCountsSame ==
    ASSUME NEW s, NEW t, ButCounts(t, s)
    PROVE  /\ Told(t) = Told(s) /\ Triplet!Known(t) = Triplet!Known(s)
           /\ Triplet!Valid(t) = Triplet!Valid(s) /\ Triplet!Survivors(t) = Triplet!Survivors(s)
           /\ \A f : Triplet!Holding(t, f) = Triplet!Holding(s, f)
<1>1. Triplet!Valid(t) = Triplet!Valid(s) /\ Triplet!Known(t) = Triplet!Known(s)
  BY DEF ButCounts, Triplet!Valid, Triplet!Known
<1>2. \A f : Triplet!Holding(t, f) = Triplet!Holding(s, f)
  BY <1>1 DEF ButCounts, Triplet!Holding
<1>3. Told(t) = Told(s)
  BY <1>1 DEF ButCounts, Told, Triplet!Beliefs, Triplet!FactsAt, Triplet!Active
<1>4. Triplet!Survivors(t) = Triplet!Survivors(s)
  BY <1>1, <1>2 DEF ButCounts, Triplet!Survivors
<1> QED  BY <1>1, <1>2, <1>3, <1>4

LEMMA RefreshIs ==
    ASSUME NEW s, DOMAIN s = TripletFields, NEW seeds
    PROVE  /\ ButCounts(Triplet!Refresh(s, seeds), s)
           /\ Triplet!Refresh(s, seeds).count = [i \in DOMAIN s.count |->
                 IF i \in Triplet!Affected(s, seeds) THEN Triplet!Replication(s, i) ELSE s.count[i]]
<1> HIDE DEF Triplet!Affected, Triplet!Replication
<1> QED  BY DEF Triplet!Refresh, ButCounts, TripletFields

LEMMA RecountedIs ==
    ASSUME NEW s, DOMAIN s = TripletFields
    PROVE  /\ ButCounts(Triplet!Recounted(s), s)
           /\ Triplet!Recounted(s).count = [i \in DOMAIN s.mem |-> Triplet!Replication(s, i)]
<1> HIDE DEF Triplet!Replication
<1> QED  BY DEF Triplet!Recounted, ButCounts, TripletFields

LEMMA ButCountsCount ==
    ASSUME NEW s, NEW t, ButCounts(t, s), DOMAIN s.mem \subseteq TripletIds, NEW i \in TripletIds
    PROVE  Triplet!Replication(t, i) = Triplet!Replication(s, i)
<1>1. Told(t) = Told(s) /\ Triplet!Known(t) = Triplet!Known(s) /\ t.mem = s.mem
  BY ButCountsSame DEF ButCounts
<1>2. \A x : TagsAgree(t, s, x)
  BY <1>1 DEF TagsAgree
<1> HIDE DEF Told
<1> QED  BY <1>1, <1>2, SameCount

LEMMA RefreshOK ==
    ASSUME NEW s, NEW t, NEW seeds \in SUBSET TripletIds, Touches(s, t, seeds), CountsOK(s),
           DOMAIN t = TripletFields, DOMAIN t.mem \subseteq TripletIds, DOMAIN t.count = DOMAIN t.mem,
           \A i \in DOMAIN t.mem \ seeds : i \in DOMAIN s.mem /\ t.count[i] = s.count[i]
    PROVE  CountsOK(Triplet!Refresh(t, seeds))
<1> DEFINE r == Triplet!Refresh(t, seeds)
<1>1. /\ ButCounts(r, t) /\ r.mem = t.mem
      /\ r.count = [i \in DOMAIN t.mem |->
            IF i \in Triplet!Affected(t, seeds) THEN Triplet!Replication(t, i) ELSE t.count[i]]
  BY RefreshIs DEF ButCounts
<1>2. seeds \subseteq Triplet!Affected(t, seeds)
  BY ReachedIs DEF Triplet!Affected
<1> HIDE DEF r
<1>3. ASSUME NEW i \in DOMAIN r.mem PROVE r.count[i] = Triplet!Replication(r, i)
  <2>1. i \in TripletIds /\ i \in DOMAIN t.mem
    BY <1>1, <1>3
  <2>2. Triplet!Replication(r, i) = Triplet!Replication(t, i)
    BY <1>1, <2>1, ButCountsCount
  <2>3. CASE i \in Triplet!Affected(t, seeds)
    BY <1>1, <2>1, <2>2, <2>3
  <2>4. CASE i \notin Triplet!Affected(t, seeds)
    <3>1. i \notin seeds /\ i \in DOMAIN s.mem /\ t.count[i] = s.count[i]
      BY <1>2, <2>1, <2>4
    <3>2. s.count[i] = Triplet!Replication(s, i)
      BY <3>1 DEF CountsOK
    <3>3. Triplet!Replication(t, i) = Triplet!Replication(s, i)
      BY <2>1, <2>4, CountKept DEF CountsOK
    <3> QED  BY <1>1, <2>1, <2>2, <2>4, <3>1, <3>2, <3>3
  <2> QED  BY <2>3, <2>4
<1>4. DOMAIN r.mem \subseteq TripletIds /\ r.count = [i \in DOMAIN r.mem |-> r.count[i]]
  BY <1>1
<1>5. CountsOK(r)
  BY <1>3, <1>4 DEF CountsOK
<1> QED  BY <1>5 DEF r

EntryFields == {"fact", "weight", "from", "ended"}

\* A store of triplets, of which those below n have been added.
TripletShape(s, n) ==
    /\ DOMAIN s = TripletFields /\ s.clean \in BOOLEAN /\ s.all \in BOOLEAN
    /\ s.entries = [k \in DOMAIN s.entries |-> s.entries[k]]
    /\ \A k \in DOMAIN s.entries :
          /\ k \in Nat /\ k < n
          /\ DOMAIN s.entries[k] = EntryFields /\ s.entries[k].ended \in BOOLEAN

\* Every entry that a cleanup of the marked subjects leaves is a survivor.
MarksOK(s) ==
    /\ s.all => ~s.clean
    /\ \A k \in DOMAIN s.entries :
          k \in Triplet!Survivors(s) \/ s.all \/ (~s.clean /\ s.entries[k].fact[1] \in s.dirty)

\* What a change of the entries marks.
Marks(t, s, subjects) ==
    /\ t.clean = (s.clean /\ subjects = {})
    /\ t.all = (s.all /\ (s.clean => subjects = {}))
    /\ t.dirty = (IF s.clean /\ subjects # {} THEN {} ELSE s.dirty) \cup subjects

LEMMA MarkDirtyIs ==
    ASSUME NEW s, NEW subjects, DOMAIN s = TripletFields, s.clean \in BOOLEAN, s.all \in BOOLEAN
    PROVE  LET t == Triplet!MarkDirty(s, subjects) IN
           /\ DOMAIN t = TripletFields /\ t.entries = s.entries /\ t.over = s.over
           /\ t.mem = s.mem /\ t.count = s.count /\ Marks(t, s, subjects)
<1>1. CASE subjects = {}
  BY <1>1, Zenon DEF Triplet!MarkDirty, Marks
<1>2. CASE subjects # {}
  <2> DEFINE t == Triplet!MarkDirty(s, subjects)
  <2>1. t = [s EXCEPT !.clean = FALSE, !.dirty = (IF s.clean THEN {} ELSE s.dirty) \cup subjects,
                      !.all = ~s.clean /\ s.all]
    BY <1>2 DEF Triplet!MarkDirty
  <2>2. /\ DOMAIN t = TripletFields /\ t.entries = s.entries /\ t.over = s.over
        /\ t.mem = s.mem /\ t.count = s.count
        /\ t.clean = FALSE /\ t.dirty = (IF s.clean THEN {} ELSE s.dirty) \cup subjects
        /\ t.all = (~s.clean /\ s.all)
    BY <2>1 DEF TripletFields
  <2> HIDE DEF t
  <2>3. Marks(t, s, subjects)
    BY <1>2, <2>2 DEF Marks
  <2> QED  BY <2>2, <2>3 DEF t
<1> QED  BY <1>1, <1>2

\* The entries of t are those of s, some of them ended.
EndsIn(t, s, hit) ==
    /\ DOMAIN t.entries = DOMAIN s.entries /\ t.over = s.over /\ t.mem = s.mem /\ t.count = s.count
    /\ \A k \in DOMAIN s.entries :
          /\ t.entries[k].fact = s.entries[k].fact /\ t.entries[k].from = s.entries[k].from
          /\ t.entries[k].weight = s.entries[k].weight
          /\ t.entries[k].ended = (s.entries[k].ended \/ k \in hit)

LEMMA EndedIs ==
    ASSUME NEW s, NEW n, NEW hit, TripletShape(s, n), hit \subseteq DOMAIN s.entries
    PROVE  LET t == Triplet!Ended(s, hit) IN
           /\ TripletShape(t, n) /\ EndsIn(t, s, hit)
           /\ Marks(t, s, {s.entries[k].fact[1] : k \in hit})
<1> DEFINE e == [k \in DOMAIN s.entries |->
                   IF k \in hit THEN [s.entries[k] EXCEPT !.ended = TRUE] ELSE s.entries[k]]
           u == [s EXCEPT !.entries = e]
           subjects == {s.entries[k].fact[1] : k \in hit}
           t == Triplet!MarkDirty(u, subjects)
<1>1. Triplet!Ended(s, hit) = t
  BY DEF Triplet!Ended
<1>2. /\ DOMAIN u = TripletFields /\ u.entries = e /\ u.over = s.over /\ u.mem = s.mem /\ u.count = s.count
      /\ u.clean = s.clean /\ u.all = s.all /\ u.dirty = s.dirty
  BY DEF TripletShape, TripletFields
<1>3. \A k \in DOMAIN s.entries :
         /\ DOMAIN e[k] = EntryFields /\ e[k].ended \in BOOLEAN
         /\ e[k].fact = s.entries[k].fact /\ e[k].from = s.entries[k].from /\ e[k].weight = s.entries[k].weight
         /\ e[k].ended = (s.entries[k].ended \/ k \in hit)
  BY DEF TripletShape, EntryFields
<1>4. DOMAIN e = DOMAIN s.entries /\ e = [k \in DOMAIN e |-> e[k]]
  OBVIOUS
<1> HIDE DEF e, u, subjects
<1>5. /\ DOMAIN t = TripletFields /\ t.entries = e /\ t.over = s.over
      /\ t.mem = s.mem /\ t.count = s.count /\ Marks(t, u, subjects)
  BY <1>2, MarkDirtyIs DEF TripletShape
<1> HIDE DEF t
<1>6. Marks(t, s, subjects) /\ t.clean \in BOOLEAN /\ t.all \in BOOLEAN
  BY <1>2, <1>5 DEF Marks
<1>7. TripletShape(t, n)
  BY <1>3, <1>4, <1>5, <1>6 DEF TripletShape
<1>8. EndsIn(t, s, hit)
  BY <1>3, <1>4, <1>5 DEF EndsIn
<1> QED  BY <1>1, <1>6, <1>7, <1>8 DEF subjects

LEMMA EndedHolds ==
    ASSUME NEW s, NEW t, NEW hit, EndsIn(t, s, hit)
    PROVE  /\ Triplet!Valid(t) = Triplet!Valid(s) \ hit
           /\ \A f : Triplet!Holding(t, f) = Triplet!Holding(s, f) \ hit
           /\ Triplet!Survivors(s) \ hit \subseteq Triplet!Survivors(t)
<1>1. Triplet!Valid(t) = Triplet!Valid(s) \ hit
  BY DEF EndsIn, Triplet!Valid
<1>2. \A f : Triplet!Holding(t, f) = Triplet!Holding(s, f) \ hit
  BY <1>1 DEF EndsIn, Triplet!Holding, Triplet!Valid
<1>3. Triplet!Survivors(s) \ hit \subseteq Triplet!Survivors(t)
  <2> SUFFICES ASSUME NEW k \in Triplet!Survivors(s) \ hit PROVE k \in Triplet!Survivors(t)
    OBVIOUS
  <2>1. k \in Triplet!Valid(t) /\ k \in DOMAIN s.entries
    BY <1>1 DEF Triplet!Survivors, Triplet!Valid
  <2>2. ASSUME NEW j \in Triplet!Holding(t, t.entries[k].fact) \ {k}
        PROVE  \/ t.entries[j].weight < t.entries[k].weight
               \/ t.entries[j].weight = t.entries[k].weight /\ k < j
    <3>1. j \in Triplet!Holding(s, s.entries[k].fact) \ {k} /\ j \in DOMAIN s.entries
      BY <1>2, <2>1, <2>2 DEF EndsIn, Triplet!Holding, Triplet!Valid
    <3> QED  BY <2>1, <3>1 DEF EndsIn, Triplet!Survivors
  <2> QED  BY <2>1, <2>2 DEF Triplet!Survivors
<1> QED  BY <1>1, <1>2, <1>3

LEMMA EndedMarks ==
    ASSUME NEW s, NEW t, NEW hit, EndsIn(t, s, hit), hit \subseteq DOMAIN s.entries,
           Marks(t, s, {s.entries[k].fact[1] : k \in hit}), MarksOK(s)
    PROVE  MarksOK(t)
<1> DEFINE subjects == {s.entries[k].fact[1] : k \in hit}
<1>1. Triplet!Survivors(s) \ hit \subseteq Triplet!Survivors(t)
  BY EndedHolds
<1>2. \A k \in hit : s.entries[k].fact[1] \in subjects
  OBVIOUS
<1>3. subjects = {} => hit = {}
  OBVIOUS
<1> HIDE DEF subjects
<1>4. Marks(t, s, subjects)
  BY DEF subjects
<1>5. t.all => ~t.clean
  BY <1>4 DEF Marks, MarksOK
<1>6. ASSUME NEW k \in DOMAIN t.entries
      PROVE  k \in Triplet!Survivors(t) \/ t.all \/ (~t.clean /\ t.entries[k].fact[1] \in t.dirty)
  <2>1. k \in DOMAIN s.entries /\ t.entries[k].fact = s.entries[k].fact
    BY <1>6 DEF EndsIn
  <2>2. CASE k \in hit
    BY <1>2, <1>4, <2>1, <2>2 DEF Marks
  <2>3. CASE k \notin hit
    BY <1>1, <1>4, <2>1, <2>3 DEF Marks, MarksOK
  <2> QED  BY <2>2, <2>3
<1> QED  BY <1>5, <1>6 DEF MarksOK

\* An entry more.
AddsTo(t, s, op) ==
    /\ DOMAIN t.entries = DOMAIN s.entries \cup {op.id}
    /\ t.over = s.over /\ t.mem = s.mem /\ t.count = s.count
    /\ \A k \in DOMAIN s.entries \ {op.id} : t.entries[k] = s.entries[k]
    /\ t.entries[op.id] = [fact |-> op.fact, weight |-> op.weight, from |-> op.from, ended |-> FALSE]

Touched(s, fact) == IF ~s.clean \/ Triplet!Holding(s, fact) # {} THEN {fact[1]} ELSE {}

LEMMA AddedIs ==
    ASSUME NEW s, NEW n \in Nat, NEW op, op.id = n, TripletShape(s, n)
    PROVE  LET t == Triplet!Added(s, op) IN
           /\ TripletShape(t, n + 1) /\ AddsTo(t, s, op) /\ Marks(t, s, Touched(s, op.fact))
<1> DEFINE x == [fact |-> op.fact, weight |-> op.weight, from |-> op.from, ended |-> FALSE]
           e == Triplet!Insert(s.entries, op.id, x)
           u == [s EXCEPT !.entries = e]
           subjects == Touched(s, op.fact)
           t == Triplet!MarkDirty(u, subjects)
<1>1. Triplet!Added(s, op) = t
  BY DEF Triplet!Added, Touched
<1>2. /\ DOMAIN u = TripletFields /\ u.entries = e /\ u.over = s.over /\ u.mem = s.mem /\ u.count = s.count
      /\ u.clean = s.clean /\ u.all = s.all /\ u.dirty = s.dirty
  BY DEF TripletShape, TripletFields
<1>3. DOMAIN x = EntryFields /\ x.ended = FALSE
  BY DEF EntryFields
<1> HIDE DEF x
<1>4. /\ DOMAIN e = DOMAIN s.entries \cup {n} /\ e = [k \in DOMAIN e |-> e[k]]
      /\ \A k \in DOMAIN s.entries \ {n} : e[k] = s.entries[k]
      /\ e[n] = x
  BY DEF Triplet!Insert
<1> HIDE DEF e, u, subjects
<1>5. /\ DOMAIN t = TripletFields /\ t.entries = e /\ t.over = s.over
      /\ t.mem = s.mem /\ t.count = s.count /\ Marks(t, u, subjects)
  BY <1>2, MarkDirtyIs DEF TripletShape
<1> HIDE DEF t
<1>6. Marks(t, s, subjects) /\ t.clean \in BOOLEAN /\ t.all \in BOOLEAN
  BY <1>2, <1>5 DEF Marks
<1>7. ASSUME NEW k \in DOMAIN e
      PROVE  /\ k \in Nat /\ k < n + 1 /\ DOMAIN e[k] = EntryFields /\ e[k].ended \in BOOLEAN
  <2>1. CASE k = n
    <3>1. e[k] = x
      BY <1>4, <2>1
    <3>2. x.ended \in BOOLEAN
      BY <1>3, Zenon
    <3> QED  BY <1>3, <2>1, <3>1, <3>2
  <2>2. CASE k # n
    BY <1>4, <1>7, <2>2 DEF TripletShape
  <2> QED  BY <2>1, <2>2
<1>8. TripletShape(t, n + 1)
  BY <1>4, <1>5, <1>6, <1>7 DEF TripletShape
<1>9. AddsTo(t, s, op)
  BY <1>4, <1>5 DEF AddsTo, x
<1> QED  BY <1>1, <1>6, <1>8, <1>9 DEF subjects

LEMMA AddedHolds ==
    ASSUME NEW s, NEW t, NEW op, AddsTo(t, s, op), op.id \notin DOMAIN s.entries
    PROVE  /\ Triplet!Valid(t) = Triplet!Valid(s) \cup {op.id}
           /\ \A f : Triplet!Holding(t, f) = IF f = op.fact THEN Triplet!Holding(s, f) \cup {op.id}
                                             ELSE Triplet!Holding(s, f)
           /\ t.entries[op.id].fact = op.fact
           /\ \A k \in Triplet!Survivors(s) :
                 s.entries[k].fact # op.fact => k \in Triplet!Survivors(t)
           /\ Triplet!Holding(s, op.fact) = {} => op.id \in Triplet!Survivors(t)
<1>1. /\ t.entries[op.id].fact = op.fact /\ t.entries[op.id].ended = FALSE
      /\ DOMAIN t.entries = DOMAIN s.entries \cup {op.id}
      /\ \A k \in DOMAIN s.entries : k # op.id /\ t.entries[k] = s.entries[k]
  BY DEF AddsTo
<1>2. Triplet!Valid(t) = Triplet!Valid(s) \cup {op.id}
  BY <1>1 DEF Triplet!Valid
<1>3. \A f : Triplet!Holding(t, f) = IF f = op.fact THEN Triplet!Holding(s, f) \cup {op.id}
                                    ELSE Triplet!Holding(s, f)
  BY <1>1, <1>2 DEF Triplet!Holding, Triplet!Valid
<1>4. ASSUME NEW k \in Triplet!Survivors(s), s.entries[k].fact # op.fact
      PROVE  k \in Triplet!Survivors(t)
  <2>1. k \in Triplet!Valid(t) /\ k \in DOMAIN s.entries
    BY <1>2, <1>4 DEF Triplet!Survivors, Triplet!Valid
  <2>2. t.entries[k] = s.entries[k] /\ Triplet!Holding(t, t.entries[k].fact) = Triplet!Holding(s, s.entries[k].fact)
    BY <1>1, <1>3, <1>4, <2>1
  <2>3. \A j \in Triplet!Holding(s, s.entries[k].fact) : t.entries[j] = s.entries[j]
    BY <1>1 DEF Triplet!Holding, Triplet!Valid
  <2> QED  BY <1>4, <2>1, <2>2, <2>3 DEF Triplet!Survivors
<1>5. ASSUME Triplet!Holding(s, op.fact) = {} PROVE op.id \in Triplet!Survivors(t)
  <2>1. op.id \in Triplet!Valid(t) /\ Triplet!Holding(t, t.entries[op.id].fact) \ {op.id} = {}
    BY <1>1, <1>2, <1>3, <1>5
  <2> QED  BY <2>1 DEF Triplet!Survivors
<1> QED  BY <1>1, <1>2, <1>3, <1>4, <1>5

LEMMA AddedMarks ==
    ASSUME NEW s, NEW t, NEW op, AddsTo(t, s, op), op.id \notin DOMAIN s.entries,
           s.clean \in BOOLEAN, s.all \in BOOLEAN,
           Marks(t, s, Touched(s, op.fact)), MarksOK(s)
    PROVE  MarksOK(t)
<1>1. /\ \A k \in Triplet!Survivors(s) : s.entries[k].fact # op.fact => k \in Triplet!Survivors(t)
      /\ Triplet!Holding(s, op.fact) = {} => op.id \in Triplet!Survivors(t)
      /\ t.entries[op.id].fact = op.fact
  BY AddedHolds
<1>2. t.all => ~t.clean
  BY DEF Marks, MarksOK
<1>3. \A k \in DOMAIN s.entries : k # op.id /\ t.entries[k] = s.entries[k]
  BY DEF AddsTo
<1>4. CASE s.clean /\ Triplet!Holding(s, op.fact) = {}
  <2>1. \A k \in DOMAIN s.entries : k \in Triplet!Survivors(s) /\ s.entries[k].fact # op.fact
    BY <1>4 DEF MarksOK, Triplet!Survivors, Triplet!Holding
  <2>2. \A k \in DOMAIN t.entries : k \in Triplet!Survivors(t)
    BY <1>1, <1>4, <2>1 DEF AddsTo
  <2> QED  BY <1>2, <2>2 DEF MarksOK
<1>5. CASE ~s.clean \/ Triplet!Holding(s, op.fact) # {}
  <2>1. Touched(s, op.fact) = {op.fact[1]}
    BY <1>5 DEF Touched
  <2>2. t.clean = FALSE /\ op.fact[1] \in t.dirty /\ (~s.clean => s.dirty \subseteq t.dirty /\ (s.all => t.all))
    BY <2>1 DEF Marks
  <2>3. ASSUME NEW k \in DOMAIN t.entries
        PROVE  k \in Triplet!Survivors(t) \/ t.all \/ (~t.clean /\ t.entries[k].fact[1] \in t.dirty)
    <3>1. CASE t.entries[k].fact = op.fact
      BY <2>2, <3>1
    <3>2. CASE t.entries[k].fact # op.fact
      <4>1. k \in DOMAIN s.entries /\ t.entries[k] = s.entries[k]
        BY <1>1, <1>3, <2>3, <3>2 DEF AddsTo
      <4>2. k \in Triplet!Survivors(s) \/ s.all \/ (~s.clean /\ s.entries[k].fact[1] \in s.dirty)
        BY <4>1 DEF MarksOK
      <4>3. s.all => t.all
        BY <2>2 DEF MarksOK
      <4>4. CASE k \in Triplet!Survivors(s)
        BY <1>1, <3>2, <4>1, <4>4
      <4>5. CASE ~s.clean /\ s.entries[k].fact[1] \in s.dirty
        BY <2>2, <4>1, <4>5
      <4> QED  BY <4>2, <4>3, <4>4, <4>5
    <3> QED  BY <3>1, <3>2
  <2> QED  BY <1>2, <2>3 DEF MarksOK
<1> QED  BY <1>4, <1>5

\* What a cleanup leaves.
Keeps(e, f, kept) ==
    /\ DOMAIN e = kept /\ e = [k \in DOMAIN e |-> e[k]]
    /\ \A k \in kept : e[k] = f[k]

LEMMA KeepIs ==
    ASSUME NEW s, DOMAIN s = TripletFields, NEW kept, NEW t, t = Triplet!Keep(s, kept)
    PROVE  /\ DOMAIN t = TripletFields /\ Keeps(t.entries, s.entries, kept)
           /\ t.over = s.over /\ t.mem = s.mem /\ t.count = s.count
           /\ t.clean = TRUE /\ t.all = FALSE
BY DEF Triplet!Keep, TripletFields, Keeps

LEMMA CleanedIs ==
    ASSUME NEW s, NEW n, TripletShape(s, n), MarksOK(s)
    PROVE  LET t == Triplet!CleanForLoad(s) IN
           /\ t.entries = [k \in Triplet!Survivors(s) |-> s.entries[k]]
           /\ TripletShape(t, n) /\ MarksOK(t)
           /\ t.over = s.over /\ t.mem = s.mem /\ t.count = s.count
<1> DEFINE t == Triplet!CleanForLoad(s)
<1>1. Triplet!Survivors(s) \subseteq DOMAIN s.entries
  BY DEF Triplet!Survivors, Triplet!Valid
<1>2. /\ DOMAIN t = TripletFields /\ t.over = s.over /\ t.mem = s.mem /\ t.count = s.count
      /\ t.clean = TRUE /\ t.all = FALSE /\ Keeps(t.entries, s.entries, Triplet!Survivors(s))
  <2>1. CASE s.clean
    <3>1. s.all = FALSE
      BY <2>1 DEF TripletShape, MarksOK
    <3>2. Triplet!Survivors(s) = DOMAIN s.entries
      BY <1>1, <2>1, <3>1 DEF MarksOK
    <3>3. t = s
      BY <2>1 DEF Triplet!CleanForLoad
    <3> HIDE DEF t
    <3>4. s.clean = TRUE
      BY <2>1 DEF TripletShape
    <3>5. Keeps(s.entries, s.entries, Triplet!Survivors(s)) /\ DOMAIN s = TripletFields
      BY <3>2, Zenon DEF TripletShape, Keeps
    <3> QED  BY <3>1, <3>3, <3>4, <3>5
  <2>2. CASE ~s.clean /\ s.all
    <3>1. t = Triplet!Keep(s, Triplet!Survivors(s))
      BY <2>2 DEF Triplet!CleanForLoad
    <3> HIDE DEF t
    <3>2. DOMAIN s = TripletFields
      BY DEF TripletShape
    <3> QED  BY <3>1, <3>2, KeepIs
  <2>3. CASE ~s.clean /\ ~s.all
    <3> DEFINE kept == {k \in DOMAIN s.entries : s.entries[k].fact[1] \in s.dirty => k \in Triplet!Survivors(s)}
    <3>1. t = Triplet!Keep(s, kept)
      BY <2>3 DEF Triplet!CleanForLoad
    <3>2. kept = Triplet!Survivors(s)
      BY <1>1, <2>3 DEF MarksOK
    <3> HIDE DEF t, kept
    <3>3. DOMAIN s = TripletFields
      BY DEF TripletShape
    <3> QED  BY <3>1, <3>2, <3>3, KeepIs
  <2> QED  BY <2>1, <2>2, <2>3
<1> HIDE DEF t
<1>3. DOMAIN t.entries = Triplet!Survivors(s) /\ \A k \in DOMAIN t.entries : t.entries[k] = s.entries[k]
  BY <1>2 DEF Keeps
<1>4. TripletShape(t, n)
  <2>1. t.entries = [k \in DOMAIN t.entries |-> t.entries[k]]
    BY <1>2 DEF Keeps
  <2>2. t.clean \in BOOLEAN /\ t.all \in BOOLEAN
    BY <1>2, Zenon
  <2> QED  BY <1>1, <1>2, <1>3, <2>1, <2>2 DEF TripletShape
<1>5. \A k \in DOMAIN t.entries : k \in Triplet!Survivors(t)
  <2> SUFFICES ASSUME NEW k \in DOMAIN t.entries PROVE k \in Triplet!Survivors(t)
    OBVIOUS
  <2>1. k \in Triplet!Survivors(s) /\ k \in Triplet!Valid(t)
    BY <1>3 DEF Triplet!Survivors, Triplet!Valid
  <2>2. Triplet!Holding(t, t.entries[k].fact) \subseteq Triplet!Holding(s, s.entries[k].fact)
    BY <1>1, <1>3, <2>1 DEF Triplet!Holding, Triplet!Valid
  <2>3. \A j \in Triplet!Holding(t, t.entries[k].fact) : t.entries[j] = s.entries[j]
    BY <1>3 DEF Triplet!Holding, Triplet!Valid
  <2> QED  BY <1>3, <2>1, <2>2, <2>3 DEF Triplet!Survivors
<1>6. MarksOK(t)
  BY <1>2, <1>5 DEF MarksOK
<1>7. t.entries = [k \in Triplet!Survivors(s) |-> s.entries[k]]
  BY <1>2 DEF Keeps
<1> QED  BY <1>2, <1>4, <1>6, <1>7 DEF t

Recorded(f) == f[2] = "replication_session"

SessionTags == TripletSessions \cup {""}
RowFields == {"session", "dead"}
TripletRows(m) ==
    /\ DOMAIN m \subseteq TripletIds
    /\ \A i \in DOMAIN m : /\ DOMAIN m[i] = RowFields /\ m[i].dead \in BOOLEAN
                           /\ m[i].session \in SessionTags

Single(s, f) == \A j, k \in Triplet!Holding(s, f) : j = k

\* A fact that was never stored twice is held by the same entry in RAM and on
\* the log; where RAM is ahead, the log may still have the facts of a file.
HoldOK(r, w, twice, late) ==
    \A f : f \notin twice =>
       /\ Single(r, f) /\ Single(w, f) /\ Triplet!Holding(r, f) \subseteq Triplet!Holding(w, f)
       /\ \A k \in Triplet!Holding(w, f) \ Triplet!Holding(r, f) : w.entries[k].from \in late

\* The witnesses of replication sessions stay.
WitnessesStay(s) ==
    \A k \in DOMAIN s.entries : Recorded(s.entries[k].fact) =>
       s.entries[k].from = "" /\ ~s.entries[k].ended /\ k \notin s.over

PairOK(r, w, n, twice, late) ==
    /\ TripletShape(r, n) /\ TripletShape(w, n) /\ MarksOK(r) /\ MarksOK(w)
    /\ r.over = w.over /\ (\A k \in r.over : k \in Nat /\ k < n)
    /\ TripletRows(r.mem) /\ TripletRows(w.mem) /\ DOMAIN w.mem = DOMAIN r.mem
    /\ \A k \in DOMAIN r.entries \cap DOMAIN w.entries :
          /\ w.entries[k].fact = r.entries[k].fact /\ w.entries[k].from = r.entries[k].from
    /\ HoldOK(r, w, twice, late)
    /\ WitnessesStay(r) /\ WitnessesStay(w) /\ (\A f \in twice : ~Recorded(f))

\* Of a witness the held entry and the belief are one.
LEMMA RecordHeld ==
    ASSUME NEW s, WitnessesStay(s), NEW f, Recorded(f)
    PROVE  f \in Told(s) <=> Triplet!Holding(s, f) # {}
BY DEF WitnessesStay, Told, Triplet!Beliefs, Triplet!FactsAt, Triplet!Active, Triplet!Holding, Triplet!Valid

LEMMA PairCounts ==
    ASSUME NEW r, NEW w, NEW n, NEW twice, NEW late, NEW q, PairOK(r, w, n, twice, late), ButCounts(q, r)
    PROVE  PairOK(q, w, n, twice, late)
<1>1. Triplet!Survivors(q) = Triplet!Survivors(r) /\ \A f : Triplet!Holding(q, f) = Triplet!Holding(r, f)
  BY ButCountsSame
<1>2. TripletShape(q, n) /\ MarksOK(q) /\ WitnessesStay(q)
  BY <1>1 DEF PairOK, ButCounts, TripletShape, MarksOK, WitnessesStay
<1>3. HoldOK(q, w, twice, late)
  BY <1>1 DEF PairOK, HoldOK, Single
<1>4. q.over = r.over /\ q.mem = r.mem /\ q.entries = r.entries
  BY DEF ButCounts
<1> HIDE DEF TripletShape, MarksOK, WitnessesStay, HoldOK, Recorded
<1> QED  BY <1>2, <1>3, <1>4 DEF PairOK

\* Some entries end in both images.
LEMMA HoldEnds ==
    ASSUME NEW r, NEW w, NEW twice, NEW late, NEW a, NEW b, NEW r2, NEW w2,
           HoldOK(r, w, twice, late), EndsIn(r2, r, a), EndsIn(w2, w, b),
           \A f : f \notin twice => /\ Triplet!Holding(r, f) \cap a = Triplet!Holding(r, f) \cap b
                                    /\ Triplet!Holding(w, f) \cap a \subseteq b
    PROVE  HoldOK(r2, w2, twice, late)
<1> SUFFICES ASSUME NEW f, f \notin twice
             PROVE  /\ Single(r2, f) /\ Single(w2, f) /\ Triplet!Holding(r2, f) \subseteq Triplet!Holding(w2, f)
                    /\ \A k \in Triplet!Holding(w2, f) \ Triplet!Holding(r2, f) : w2.entries[k].from \in late
  BY DEF HoldOK
<1>1. Triplet!Holding(r2, f) = Triplet!Holding(r, f) \ a /\ Triplet!Holding(w2, f) = Triplet!Holding(w, f) \ b
  BY EndedHolds
<1>2. /\ Single(r, f) /\ Single(w, f) /\ Triplet!Holding(r, f) \subseteq Triplet!Holding(w, f)
      /\ \A k \in Triplet!Holding(w, f) \ Triplet!Holding(r, f) : w.entries[k].from \in late
  BY DEF HoldOK
<1>3. \A k \in Triplet!Holding(w, f) : w2.entries[k].from = w.entries[k].from
  BY DEF EndsIn, Triplet!Holding, Triplet!Valid
<1>4. Single(r2, f) /\ Single(w2, f)
  BY <1>1, <1>2 DEF Single
<1>5. Triplet!Holding(r2, f) \subseteq Triplet!Holding(w2, f)
  BY <1>1, <1>2
<1>6. ASSUME NEW k \in Triplet!Holding(w2, f) \ Triplet!Holding(r2, f)
      PROVE  w2.entries[k].from \in late
  <2>1. k \in Triplet!Holding(w, f) /\ k \notin b /\ k \notin Triplet!Holding(r, f)
    BY <1>1, <1>6
  <2> QED  BY <1>2, <1>3, <2>1
<1> QED  BY <1>4, <1>5, <1>6

LEMMA EndedWitnesses ==
    ASSUME NEW s, NEW t, NEW hit, EndsIn(t, s, hit), WitnessesStay(s),
           \A k \in hit : k \in DOMAIN s.entries => ~Recorded(s.entries[k].fact)
    PROVE  WitnessesStay(t)
BY DEF EndsIn, WitnessesStay

\* invalidate: the entry with some id, which is no witness.
LEMMA PairEnds ==
    ASSUME NEW r, NEW w, NEW n, NEW twice, NEW late, PairOK(r, w, n, twice, late),
           NEW i \in DOMAIN r.entries, ~Recorded(r.entries[i].fact)
    PROVE  LET r2 == Triplet!Ended(r, Triplet!WithId(r, i))
               w2 == Triplet!Ended(w, Triplet!WithId(w, i))
           IN  /\ PairOK(r2, w2, n, twice, late)
               /\ EndsIn(r2, r, {i}) /\ EndsIn(w2, w, Triplet!WithId(w, i))
<1> DEFINE a == Triplet!WithId(r, i)
           b == Triplet!WithId(w, i)
           r2 == Triplet!Ended(r, a)
           w2 == Triplet!Ended(w, b)
<1>1. a = {i} /\ b \subseteq {i} /\ a \subseteq DOMAIN r.entries /\ b \subseteq DOMAIN w.entries
      /\ b = {i} \cap DOMAIN w.entries
  BY DEF Triplet!WithId
<1> HIDE DEF a, b
<1>2. /\ TripletShape(r, n) /\ TripletShape(w, n) /\ MarksOK(r) /\ MarksOK(w) /\ HoldOK(r, w, twice, late)
      /\ WitnessesStay(r) /\ WitnessesStay(w)
  BY DEF PairOK
<1>3. /\ TripletShape(r2, n) /\ EndsIn(r2, r, a) /\ Marks(r2, r, {r.entries[k].fact[1] : k \in a})
  BY <1>1, <1>2, EndedIs
<1>4. /\ TripletShape(w2, n) /\ EndsIn(w2, w, b) /\ Marks(w2, w, {w.entries[k].fact[1] : k \in b})
  BY <1>1, <1>2, EndedIs
<1> HIDE DEF r2, w2
<1>5. MarksOK(r2) /\ MarksOK(w2)
  BY <1>1, <1>2, <1>3, <1>4, EndedMarks
<1>6. \A f : f \notin twice => /\ Triplet!Holding(r, f) \cap a = Triplet!Holding(r, f) \cap b
                               /\ Triplet!Holding(w, f) \cap a \subseteq b
  <2> SUFFICES ASSUME NEW f, f \notin twice
               PROVE  /\ Triplet!Holding(r, f) \cap a = Triplet!Holding(r, f) \cap b
                      /\ Triplet!Holding(w, f) \cap a \subseteq b
    OBVIOUS
  <2>1. Triplet!Holding(r, f) \subseteq Triplet!Holding(w, f)
    BY <1>2 DEF HoldOK
  <2>2. Triplet!Holding(w, f) \subseteq DOMAIN w.entries
    BY DEF Triplet!Holding, Triplet!Valid
  <2> QED  BY <1>1, <2>1, <2>2
<1>7. HoldOK(r2, w2, twice, late)
  BY <1>2, <1>3, <1>4, <1>6, HoldEnds
<1>8. WitnessesStay(r2) /\ WitnessesStay(w2)
  <2>1. i \in DOMAIN w.entries => w.entries[i].fact = r.entries[i].fact
    BY DEF PairOK
  <2>2. \A k \in b : k \in DOMAIN w.entries => ~Recorded(w.entries[k].fact)
    BY <1>1, <2>1
  <2>3. \A k \in a : k \in DOMAIN r.entries => ~Recorded(r.entries[k].fact)
    BY <1>1
  <2> QED  BY <1>2, <1>3, <1>4, <2>2, <2>3, EndedWitnesses
<1>9. /\ r2.over = r.over /\ w2.over = w.over /\ r2.mem = r.mem /\ w2.mem = w.mem
      /\ DOMAIN r2.entries = DOMAIN r.entries /\ DOMAIN w2.entries = DOMAIN w.entries
      /\ \A k \in DOMAIN r.entries : /\ r2.entries[k].fact = r.entries[k].fact
                                     /\ r2.entries[k].from = r.entries[k].from
      /\ \A k \in DOMAIN w.entries : /\ w2.entries[k].fact = w.entries[k].fact
                                     /\ w2.entries[k].from = w.entries[k].from
  BY <1>3, <1>4 DEF EndsIn
<1>10. PairOK(r2, w2, n, twice, late)
  <2> HIDE DEF TripletShape, MarksOK, WitnessesStay, HoldOK, Recorded
  <2>1. \A k \in DOMAIN r2.entries \cap DOMAIN w2.entries :
           /\ w2.entries[k].fact = r2.entries[k].fact /\ w2.entries[k].from = r2.entries[k].from
    BY <1>9 DEF PairOK
  <2> QED  BY <1>3, <1>4, <1>5, <1>7, <1>8, <1>9, <2>1 DEF PairOK
<1> QED  BY <1>1, <1>3, <1>4, <1>10 DEF r2, w2, a, b

\* An entry that add_triplet makes; a witness is only recorded once.
AddsFact(op, n, w, twice, twice2) ==
    /\ op.id = n
    /\ Recorded(op.fact) => op.from = "" /\ Triplet!Holding(w, op.fact) = {}
    /\ twice2 = IF Triplet!Holding(w, op.fact) = {} THEN twice ELSE twice \cup {op.fact}

\* add_triplet, in both images.
LEMMA PairAdds ==
    ASSUME NEW r, NEW w, NEW n \in Nat, NEW twice, NEW late, PairOK(r, w, n, twice, late), NEW op,
           NEW twice2, AddsFact(op, n, w, twice, twice2)
    PROVE  LET r2 == Triplet!Added(r, op)
               w2 == Triplet!Added(w, op)
           IN  PairOK(r2, w2, n + 1, twice2, late) /\ AddsTo(r2, r, op)
<1> DEFINE r2 == Triplet!Added(r, op)
           w2 == Triplet!Added(w, op)
<1>1. /\ TripletShape(r, n) /\ TripletShape(w, n) /\ MarksOK(r) /\ MarksOK(w) /\ HoldOK(r, w, twice, late)
      /\ WitnessesStay(r) /\ WitnessesStay(w)
  BY DEF PairOK
<1>0. op.id = n
  BY DEF AddsFact
<1>2. n \notin DOMAIN r.entries /\ n \notin DOMAIN w.entries /\ n \notin r.over /\ n \notin w.over
  <2>1. n \notin DOMAIN r.entries
    BY <1>1 DEF TripletShape
  <2>2. n \notin DOMAIN w.entries
    BY <1>1 DEF TripletShape
  <2>3. r.over = w.over /\ \A k \in r.over : k \in Nat /\ k < n
    BY DEF PairOK
  <2>4. n \notin r.over
    BY <2>3
  <2> QED  BY <2>1, <2>2, <2>3, <2>4
<1>3. TripletShape(r2, n + 1) /\ AddsTo(r2, r, op) /\ Marks(r2, r, Touched(r, op.fact))
  BY <1>0, <1>1, AddedIs
<1>4. TripletShape(w2, n + 1) /\ AddsTo(w2, w, op) /\ Marks(w2, w, Touched(w, op.fact))
  BY <1>0, <1>1, AddedIs
<1> HIDE DEF r2, w2
<1>5. MarksOK(r2) /\ MarksOK(w2)
  <2>1. r.clean \in BOOLEAN /\ r.all \in BOOLEAN /\ w.clean \in BOOLEAN /\ w.all \in BOOLEAN
    BY <1>1 DEF TripletShape
  <2> QED  BY <1>0, <1>1, <1>2, <1>3, <1>4, <2>1, AddedMarks
<1>6. \A f : /\ Triplet!Holding(r2, f) = IF f = op.fact THEN Triplet!Holding(r, f) \cup {n} ELSE Triplet!Holding(r, f)
             /\ Triplet!Holding(w2, f) = IF f = op.fact THEN Triplet!Holding(w, f) \cup {n} ELSE Triplet!Holding(w, f)
  <2>1. \A f : Triplet!Holding(r2, f) = IF f = op.fact THEN Triplet!Holding(r, f) \cup {op.id}
                                        ELSE Triplet!Holding(r, f)
    BY <1>0, <1>2, <1>3, AddedHolds
  <2>2. \A f : Triplet!Holding(w2, f) = IF f = op.fact THEN Triplet!Holding(w, f) \cup {op.id}
                                        ELSE Triplet!Holding(w, f)
    BY <1>0, <1>2, <1>4, AddedHolds
  <2> QED  BY <1>0, <2>1, <2>2, Zenon
<1>7. HoldOK(r2, w2, twice2, late)
  <2> SUFFICES ASSUME NEW f, f \notin twice2
               PROVE  /\ Single(r2, f) /\ Single(w2, f) /\ Triplet!Holding(r2, f) \subseteq Triplet!Holding(w2, f)
                      /\ \A k \in Triplet!Holding(w2, f) \ Triplet!Holding(r2, f) :
                            w2.entries[k].from \in late
    BY DEF HoldOK
  <2>1. f \notin twice
    BY DEF AddsFact
  <2>2. /\ Single(r, f) /\ Single(w, f) /\ Triplet!Holding(r, f) \subseteq Triplet!Holding(w, f)
        /\ \A k \in Triplet!Holding(w, f) \ Triplet!Holding(r, f) : w.entries[k].from \in late
    BY <1>1, <2>1 DEF HoldOK
  <2>3. \A k \in Triplet!Holding(w, f) : w2.entries[k] = w.entries[k]
    BY <1>0, <1>2, <1>4 DEF AddsTo, Triplet!Holding, Triplet!Valid
  <2>4. CASE f = op.fact
    <3>1. Triplet!Holding(w, f) = {} /\ Triplet!Holding(r, f) = {}
      BY <2>2, <2>4 DEF AddsFact
    <3>2. Triplet!Holding(w2, f) = {n} /\ Triplet!Holding(r2, f) = {n}
      BY <1>6, <2>4, <3>1
    <3> QED  BY <3>2 DEF Single
  <2>5. CASE f # op.fact
    <3>1. Triplet!Holding(w2, f) = Triplet!Holding(w, f) /\ Triplet!Holding(r2, f) = Triplet!Holding(r, f)
      BY <1>6, <2>5
    <3> QED  BY <2>2, <2>3, <3>1 DEF Single
  <2> QED  BY <2>4, <2>5
<1>8. /\ r2.over = r.over /\ w2.over = w.over /\ r2.mem = r.mem /\ w2.mem = w.mem
      /\ DOMAIN r2.entries = DOMAIN r.entries \cup {n} /\ DOMAIN w2.entries = DOMAIN w.entries \cup {n}
      /\ \A k \in DOMAIN r.entries : r2.entries[k] = r.entries[k]
      /\ \A k \in DOMAIN w.entries : w2.entries[k] = w.entries[k]
      /\ r2.entries[n] = w2.entries[n] /\ r2.entries[n].fact = op.fact
      /\ r2.entries[n].from = op.from /\ r2.entries[n].ended = FALSE
  <2>1. /\ r2.over = r.over /\ r2.mem = r.mem /\ DOMAIN r2.entries = DOMAIN r.entries \cup {n}
        /\ \A k \in DOMAIN r.entries : r2.entries[k] = r.entries[k]
        /\ r2.entries[n] = [fact |-> op.fact, weight |-> op.weight, from |-> op.from, ended |-> FALSE]
    BY <1>0, <1>2, <1>3 DEF AddsTo
  <2>2. /\ w2.over = w.over /\ w2.mem = w.mem /\ DOMAIN w2.entries = DOMAIN w.entries \cup {n}
        /\ \A k \in DOMAIN w.entries : w2.entries[k] = w.entries[k]
        /\ w2.entries[n] = [fact |-> op.fact, weight |-> op.weight, from |-> op.from, ended |-> FALSE]
    BY <1>0, <1>2, <1>4 DEF AddsTo
  <2> QED  BY <2>1, <2>2
<1>9. WitnessesStay(r2)
  <2>1. Recorded(op.fact) => op.from = ""
    BY DEF AddsFact
  <2> QED  BY <1>1, <1>2, <1>8, <2>1 DEF WitnessesStay
<1>10. WitnessesStay(w2)
  <2>1. Recorded(op.fact) => op.from = ""
    BY DEF AddsFact
  <2> QED  BY <1>1, <1>2, <1>8, <2>1 DEF WitnessesStay
<1>11. \A k \in DOMAIN r2.entries \cap DOMAIN w2.entries :
          /\ w2.entries[k].fact = r2.entries[k].fact /\ w2.entries[k].from = r2.entries[k].from
  <2>1. \A k \in DOMAIN r.entries \cap DOMAIN w.entries :
           /\ w.entries[k].fact = r.entries[k].fact /\ w.entries[k].from = r.entries[k].from
    BY DEF PairOK
  <2> QED  BY <1>2, <1>8, <2>1
<1>12. \A k \in r2.over : k \in Nat /\ k < n + 1
  <2>1. \A k \in r.over : k \in Nat /\ k < n
    BY DEF PairOK
  <2> QED  BY <1>8, <2>1
<1>13. \A f \in twice2 : ~Recorded(f)
  BY DEF PairOK, AddsFact
<1>14. PairOK(r2, w2, n + 1, twice2, late)
  <2> HIDE DEF TripletShape, MarksOK, WitnessesStay, HoldOK, Recorded
  <2> QED  BY <1>3, <1>4, <1>5, <1>7, <1>8, <1>9, <1>10, <1>11, <1>12, <1>13 DEF PairOK
<1> QED  BY <1>3, <1>14 DEF r2, w2

\* No valid entry is of the file.
NoFile(s) == \A k \in Triplet!Valid(s) : s.entries[k].from # File

\* invalidate_by_source_file, in RAM and then on the log.
LEMMA PairFile ==
    ASSUME NEW r, NEW w, NEW n, NEW twice, NEW late, PairOK(r, w, n, twice, late), File # "",
           late \subseteq {File}
    PROVE  LET r2 == Triplet!Ended(r, Triplet!From(r, File))
           IN  PairOK(r2, w, n, twice, {File}) /\ NoFile(r2)
               /\ EndsIn(r2, r, Triplet!From(r, File))
<1> DEFINE a == Triplet!From(r, File)
           r2 == Triplet!Ended(r, a)
<1>1. a \subseteq DOMAIN r.entries /\ \A k \in a : r.entries[k].from = File
  BY DEF Triplet!From, Triplet!Valid
<1>2. /\ TripletShape(r, n) /\ MarksOK(r) /\ HoldOK(r, w, twice, late) /\ WitnessesStay(r)
  BY DEF PairOK
<1>3. \A k \in Triplet!Valid(r) : k \notin a => r.entries[k].from # File
  BY DEF Triplet!From
<1> HIDE DEF a
<1>4. /\ TripletShape(r2, n) /\ EndsIn(r2, r, a) /\ Marks(r2, r, {r.entries[k].fact[1] : k \in a})
  BY <1>1, <1>2, EndedIs
<1> HIDE DEF r2
<1>5. MarksOK(r2)
  BY <1>1, <1>2, <1>4, EndedMarks
<1>6. WitnessesStay(r2)
  <2>1. \A k \in a : k \in DOMAIN r.entries => ~Recorded(r.entries[k].fact)
    BY <1>1, <1>2 DEF WitnessesStay
  <2> QED  BY <1>2, <1>4, <2>1, EndedWitnesses
<1>7. /\ \A f : Triplet!Holding(r2, f) = Triplet!Holding(r, f) \ a
      /\ Triplet!Valid(r2) = Triplet!Valid(r) \ a
  BY ONLY <1>4, EndedHolds
<1>8. HoldOK(r2, w, twice, {File})
  <2> SUFFICES ASSUME NEW f, f \notin twice
               PROVE  /\ Single(r2, f) /\ Single(w, f) /\ Triplet!Holding(r2, f) \subseteq Triplet!Holding(w, f)
                      /\ \A k \in Triplet!Holding(w, f) \ Triplet!Holding(r2, f) : w.entries[k].from = File
    BY DEF HoldOK
  <2>1. /\ Single(r, f) /\ Single(w, f) /\ Triplet!Holding(r, f) \subseteq Triplet!Holding(w, f)
        /\ \A k \in Triplet!Holding(w, f) \ Triplet!Holding(r, f) : w.entries[k].from = File
    BY <1>2 DEF HoldOK
  <2>2. \A k \in Triplet!Holding(r, f) : k \in a => w.entries[k].from = File
    BY <1>1, <2>1 DEF PairOK, Triplet!Holding, Triplet!Valid
  <2> QED  BY <1>7, <2>1, <2>2 DEF Single
<1>9. /\ r2.over = r.over /\ r2.mem = r.mem /\ DOMAIN r2.entries = DOMAIN r.entries
      /\ \A k \in DOMAIN r.entries : /\ r2.entries[k].fact = r.entries[k].fact
                                     /\ r2.entries[k].from = r.entries[k].from
  BY <1>4 DEF EndsIn
<1>10. NoFile(r2)
  BY <1>3, <1>7, <1>9 DEF NoFile, Triplet!Valid
<1>11. PairOK(r2, w, n, twice, {File})
  <2> HIDE DEF TripletShape, MarksOK, WitnessesStay, HoldOK, Recorded
  <2> QED  BY <1>4, <1>5, <1>6, <1>8, <1>9 DEF PairOK
<1> QED  BY <1>4, <1>10, <1>11 DEF r2, a

LEMMA PairFileLogged ==
    ASSUME NEW r, NEW w, NEW n, NEW twice, NEW late, PairOK(r, w, n, twice, late), NoFile(r), File # "",
           late \subseteq {File}, NEW later
    PROVE  PairOK(r, Triplet!Ended(w, Triplet!From(w, File)), n, twice, later)
<1> DEFINE b == Triplet!From(w, File)
           w2 == Triplet!Ended(w, b)
<1>1. b \subseteq DOMAIN w.entries /\ \A k \in b : w.entries[k].from = File
  BY DEF Triplet!From, Triplet!Valid
<1>2. /\ TripletShape(w, n) /\ MarksOK(w) /\ HoldOK(r, w, twice, late) /\ WitnessesStay(w)
  BY DEF PairOK
<1>3. \A k \in Triplet!Valid(w) : w.entries[k].from = File => k \in b
  BY DEF Triplet!From
<1> HIDE DEF b
<1>4. /\ TripletShape(w2, n) /\ EndsIn(w2, w, b) /\ Marks(w2, w, {w.entries[k].fact[1] : k \in b})
  BY <1>1, <1>2, EndedIs
<1> HIDE DEF w2
<1>5. MarksOK(w2)
  BY <1>1, <1>2, <1>4, EndedMarks
<1>6. WitnessesStay(w2)
  <2>1. \A k \in b : k \in DOMAIN w.entries => ~Recorded(w.entries[k].fact)
    BY <1>1, <1>2 DEF WitnessesStay
  <2> QED  BY <1>2, <1>4, <2>1, EndedWitnesses
<1>7. \A f : Triplet!Holding(w2, f) = Triplet!Holding(w, f) \ b
  BY ONLY <1>4, EndedHolds
<1>8. HoldOK(r, w2, twice, later)
  <2> SUFFICES ASSUME NEW f, f \notin twice
               PROVE  /\ Single(r, f) /\ Single(w2, f) /\ Triplet!Holding(r, f) = Triplet!Holding(w2, f)
    BY DEF HoldOK
  <2>1. /\ Single(r, f) /\ Single(w, f) /\ Triplet!Holding(r, f) \subseteq Triplet!Holding(w, f)
        /\ \A k \in Triplet!Holding(w, f) \ Triplet!Holding(r, f) : w.entries[k].from = File
    BY <1>2 DEF HoldOK
  <2>2. \A k \in Triplet!Holding(r, f) : k \notin b
    BY <1>1, <2>1 DEF PairOK, NoFile, Triplet!Holding, Triplet!Valid
  <2>3. Triplet!Holding(w, f) \subseteq Triplet!Valid(w)
    BY DEF Triplet!Holding
  <2> QED  BY <1>3, <1>7, <2>1, <2>2, <2>3 DEF Single
<1>9. /\ w2.over = w.over /\ w2.mem = w.mem /\ DOMAIN w2.entries = DOMAIN w.entries
      /\ \A k \in DOMAIN w.entries : /\ w2.entries[k].fact = w.entries[k].fact
                                     /\ w2.entries[k].from = w.entries[k].from
  BY <1>4 DEF EndsIn
<1>10. PairOK(r, w2, n, twice, later)
  <2> HIDE DEF TripletShape, MarksOK, WitnessesStay, HoldOK, Recorded
  <2> QED  BY <1>4, <1>5, <1>6, <1>8, <1>9 DEF PairOK
<1> QED  BY <1>10 DEF w2, b

\* One image with some fields of its own.
SameEntries(t, s) ==
    /\ DOMAIN t = TripletFields /\ t.entries = s.entries
    /\ t.clean = s.clean /\ t.all = s.all /\ t.dirty = s.dirty

LEMMA SameEntriesIs ==
    ASSUME NEW s, NEW t, SameEntries(t, s)
    PROVE  /\ Triplet!Valid(t) = Triplet!Valid(s) /\ Triplet!Survivors(t) = Triplet!Survivors(s)
           /\ \A f : Triplet!Holding(t, f) = Triplet!Holding(s, f)
           /\ MarksOK(s) => MarksOK(t)
           /\ \A n : TripletShape(s, n) => TripletShape(t, n)
<1>1. Triplet!Valid(t) = Triplet!Valid(s)
  BY DEF SameEntries, Triplet!Valid
<1>2. \A f : Triplet!Holding(t, f) = Triplet!Holding(s, f)
  BY <1>1 DEF SameEntries, Triplet!Holding
<1>3. Triplet!Survivors(t) = Triplet!Survivors(s)
  BY <1>1, <1>2 DEF SameEntries, Triplet!Survivors
<1>4. MarksOK(s) => MarksOK(t)
  BY <1>3 DEF SameEntries, MarksOK
<1>5. ASSUME NEW n, TripletShape(s, n) PROVE TripletShape(t, n)
  BY <1>5, Zenon DEF SameEntries, TripletShape
<1> QED  BY <1>1, <1>2, <1>3, <1>4, <1>5

LEMMA HoldSame ==
    ASSUME NEW r, NEW w, NEW r2, NEW w2, NEW twice, NEW late, HoldOK(r, w, twice, late),
           SameEntries(r2, r), SameEntries(w2, w)
    PROVE  HoldOK(r2, w2, twice, late)
<1>1. \A f : Triplet!Holding(r2, f) = Triplet!Holding(r, f)
  BY ONLY SameEntriesIs, SameEntries(r2, r)
<1>2. \A f : Triplet!Holding(w2, f) = Triplet!Holding(w, f)
  BY ONLY SameEntriesIs, SameEntries(w2, w)
<1>3. w2.entries = w.entries
  BY DEF SameEntries
<1> QED  BY <1>1, <1>2, <1>3 DEF HoldOK, Single

\* supersede: an entry, which is no witness, in both images.
LEMMA PairOver ==
    ASSUME NEW r, NEW w, NEW n, NEW twice, NEW late, PairOK(r, w, n, twice, late), NEW r2, NEW w2,
           NEW i \in DOMAIN r.entries, ~Recorded(r.entries[i].fact),
           SameEntries(r2, r), SameEntries(w2, w), r2.mem = r.mem, w2.mem = w.mem,
           r2.over = r.over \cup {i}, w2.over = w.over \cup {i}
    PROVE  PairOK(r2, w2, n, twice, late)
<1>1. /\ TripletShape(r, n) /\ TripletShape(w, n) /\ MarksOK(r) /\ MarksOK(w) /\ HoldOK(r, w, twice, late)
      /\ WitnessesStay(r) /\ WitnessesStay(w)
  BY DEF PairOK
<1>2. TripletShape(r2, n) /\ MarksOK(r2)
  BY <1>1, SameEntriesIs
<1>3. TripletShape(w2, n) /\ MarksOK(w2)
  BY <1>1, SameEntriesIs
<1>4. HoldOK(r2, w2, twice, late)
  BY <1>1, HoldSame
<1>5. i \in DOMAIN w.entries => w.entries[i].fact = r.entries[i].fact
  BY DEF PairOK
<1>6. r2.entries = r.entries /\ w2.entries = w.entries
  BY DEF SameEntries
<1>7. WitnessesStay(r2) /\ WitnessesStay(w2)
  BY <1>1, <1>5, <1>6 DEF WitnessesStay
<1>8. i \in Nat /\ i < n
  BY <1>1 DEF TripletShape
<1>9. r2.over = w2.over /\ \A k \in r2.over : k \in Nat /\ k < n
  <2>1. r.over = w.over /\ \A k \in r.over : k \in Nat /\ k < n
    BY DEF PairOK
  <2> QED  BY <1>8, <2>1
<1> HIDE DEF TripletShape, MarksOK, WitnessesStay, HoldOK, Recorded
<1> QED  BY <1>2, <1>3, <1>4, <1>6, <1>7, <1>9 DEF PairOK

\* The rows of the memories in both images.
MemsOK(m, k) ==
    TripletRows(m) /\ TripletRows(k) /\ DOMAIN k = DOMAIN m

LEMMA PairRows ==
    ASSUME NEW r, NEW w, NEW n, NEW twice, NEW late, PairOK(r, w, n, twice, late), NEW r2, NEW w2,
           SameEntries(r2, r), SameEntries(w2, w), r2.over = r.over, w2.over = w.over,
           MemsOK(r2.mem, w2.mem)
    PROVE  PairOK(r2, w2, n, twice, late)
<1>1. /\ TripletShape(r, n) /\ TripletShape(w, n) /\ MarksOK(r) /\ MarksOK(w) /\ HoldOK(r, w, twice, late)
      /\ WitnessesStay(r) /\ WitnessesStay(w)
  BY DEF PairOK
<1>2. TripletShape(r2, n) /\ MarksOK(r2)
  BY <1>1, SameEntriesIs
<1>3. TripletShape(w2, n) /\ MarksOK(w2)
  BY <1>1, SameEntriesIs
<1>4. HoldOK(r2, w2, twice, late)
  BY <1>1, HoldSame
<1>5. r2.entries = r.entries /\ w2.entries = w.entries
  BY DEF SameEntries
<1>6. WitnessesStay(r2) /\ WitnessesStay(w2)
  BY <1>1, <1>5 DEF WitnessesStay
<1> HIDE DEF TripletShape, MarksOK, WitnessesStay, HoldOK, Recorded, TripletRows
<1> QED  BY <1>2, <1>3, <1>4, <1>5, <1>6 DEF PairOK, MemsOK

\* A cleaned image beside the one it was made of.
Cleanable(s, n, twice) ==
    /\ TripletShape(s, n) /\ MarksOK(s) /\ WitnessesStay(s) /\ TripletRows(s.mem)
    /\ (\A k \in s.over : k \in Nat /\ k < n) /\ (\A f \in twice : ~Recorded(f))
    /\ \A f : f \notin twice => Single(s, f)

LEMMA PairCleaned ==
    ASSUME NEW s, NEW n, NEW twice, NEW late, Cleanable(s, n, twice)
    PROVE  LET c == Triplet!CleanForLoad(s) IN
           /\ PairOK(s, c, n, twice, late) /\ PairOK(c, s, n, twice, late)
           /\ c.mem = s.mem
           /\ \A f : f \notin twice => Triplet!Holding(c, f) = Triplet!Holding(s, f)
<1> DEFINE c == Triplet!CleanForLoad(s)
<1>1. /\ TripletShape(c, n) /\ MarksOK(c) /\ c.over = s.over /\ c.mem = s.mem
      /\ c.entries = [k \in Triplet!Survivors(s) |-> s.entries[k]]
  BY CleanedIs DEF Cleanable
<1> HIDE DEF c
<1>2. /\ DOMAIN c.entries \subseteq DOMAIN s.entries /\ DOMAIN c.entries = Triplet!Survivors(s)
      /\ \A k \in DOMAIN c.entries : c.entries[k] = s.entries[k]
  BY <1>1 DEF Triplet!Survivors, Triplet!Valid
<1>3. WitnessesStay(c)
  BY <1>1, <1>2 DEF Cleanable, WitnessesStay
<1>4. ASSUME NEW f, f \notin twice
      PROVE  Single(s, f) /\ Triplet!Holding(c, f) = Triplet!Holding(s, f)
  <2>1. Single(s, f)
    BY <1>4 DEF Cleanable
  <2>2. Triplet!Holding(c, f) \subseteq Triplet!Holding(s, f)
    BY <1>2 DEF Triplet!Holding, Triplet!Valid
  <2>3. ASSUME NEW k \in Triplet!Holding(s, f) PROVE k \in Triplet!Holding(c, f)
    <3>1. k \in Triplet!Valid(s) /\ s.entries[k].fact = f /\ k \in DOMAIN s.entries /\ ~s.entries[k].ended
      BY <2>3 DEF Triplet!Holding, Triplet!Valid
    <3>2. Triplet!Holding(s, s.entries[k].fact) \ {k} = {}
      BY <2>1, <2>3, <3>1 DEF Single
    <3>3. k \in Triplet!Survivors(s)
      BY <3>1, <3>2 DEF Triplet!Survivors
    <3> QED  BY <1>2, <3>1, <3>3 DEF Triplet!Holding, Triplet!Valid
  <2> QED  BY <2>1, <2>2, <2>3
<1>5. HoldOK(s, c, twice, late) /\ HoldOK(c, s, twice, late)
  BY <1>4 DEF HoldOK, Single
<1>6. MemsOK(s.mem, s.mem)
  BY DEF MemsOK, Cleanable
<1>7. /\ TripletShape(s, n) /\ MarksOK(s) /\ WitnessesStay(s)
      /\ (\A k \in s.over : k \in Nat /\ k < n) /\ (\A f \in twice : ~Recorded(f))
  BY DEF Cleanable
<1>8. /\ \A k \in DOMAIN s.entries \cap DOMAIN c.entries :
            /\ c.entries[k].fact = s.entries[k].fact /\ c.entries[k].from = s.entries[k].from
      /\ \A k \in DOMAIN c.entries \cap DOMAIN s.entries :
            /\ s.entries[k].fact = c.entries[k].fact /\ s.entries[k].from = c.entries[k].from
  BY <1>2
<1>9. PairOK(s, c, n, twice, late) /\ PairOK(c, s, n, twice, late)
  <2> HIDE DEF TripletShape, MarksOK, WitnessesStay, HoldOK, Recorded, TripletRows
  <2> QED  BY <1>1, <1>3, <1>5, <1>6, <1>7, <1>8 DEF PairOK, MemsOK
<1> QED  BY <1>1, <1>4, <1>9 DEF c

LEMMA PairCleanable ==
    ASSUME NEW r, NEW w, NEW n, NEW twice, NEW late, PairOK(r, w, n, twice, late)
    PROVE  Cleanable(r, n, twice) /\ Cleanable(w, n, twice)
<1>1. \A f : f \notin twice => Single(r, f) /\ Single(w, f)
  BY DEF PairOK, HoldOK
<1> HIDE DEF TripletShape, MarksOK, WitnessesStay, HoldOK, Recorded, TripletRows, Single
<1> QED  BY <1>1 DEF PairOK, Cleanable

\* The images agree about every fact but one, which bears on the seeds.
LEMMA TouchesFact ==
    ASSUME NEW s, NEW t, NEW f, NEW seeds, Triplet!AffectedEdge(f) \subseteq seeds,
           \A g : g # f => (g \in Told(s) <=> g \in Told(t)), t.mem = s.mem
    PROVE  Touches(s, t, seeds)
<1>1. Triplet!Known(t) = Triplet!Known(s)
  BY DEF Triplet!Known
<1>2. ASSUME NEW x \in TripletIds \ seeds, NEW p \in Descends, NEW y
      PROVE  <<x, p, y>> \in Told(s) <=> <<x, p, y>> \in Told(t)
  <2>1. <<x, p, y>> # f
    <3> SUFFICES ASSUME f = <<x, p, y>> PROVE FALSE
      OBVIOUS
    <3>1. f[1] = x /\ f[2] = p
      OBVIOUS
    <3>2. Triplet!AffectedEdge(f) = {x} \cap TripletIds
      BY <3>1 DEF Triplet!AffectedEdge, Descends
    <3> QED  BY <1>2, <3>2
  <2> QED  BY <2>1
<1>3. ASSUME NEW x \in TripletIds \ seeds, NEW v \in TripletIds
      PROVE  <<v, "confirms", x>> \in Told(s) <=> <<v, "confirms", x>> \in Told(t)
  <2>1. <<v, "confirms", x>> # f
    <3> SUFFICES ASSUME f = <<v, "confirms", x>> PROVE FALSE
      OBVIOUS
    <3>1. f[2] = "confirms" /\ f[3] = x
      OBVIOUS
    <3>2. "confirms" \notin Triplet!Provenance \cup {"replication_session"}
      BY DEF Triplet!Provenance
    <3>3. Triplet!AffectedEdge(f) = {x} \cap TripletIds
      BY <3>1, <3>2 DEF Triplet!AffectedEdge
    <3> QED  BY <1>3, <3>3
  <2> QED  BY <2>1
<1> HIDE DEF Told, Descends
<1> QED  BY <1>1, <1>2, <1>3 DEF Touches

\* The images agree about every memory but one, and about all facts.
LEMMA TouchesMemory ==
    ASSUME NEW s, NEW t, NEW i, Told(s) = Told(t), DOMAIN s.mem \subseteq TripletIds,
           \A x : x # i => (x \in DOMAIN s.mem <=> x \in DOMAIN t.mem),
           \A x \in DOMAIN s.mem : x # i => t.mem[x] = s.mem[x]
    PROVE  Touches(s, t, {i})
<1>1. \A x : x # i => (x \in Triplet!Known(s) <=> x \in Triplet!Known(t))
  BY DEF Triplet!Known
<1>2. \A x \in Triplet!Known(s) \ {i} : s.mem[x].session = t.mem[x].session
  BY DEF Triplet!Known
<1> HIDE DEF Told, Descends
<1> QED  BY <1>1, <1>2 DEF Touches

LEMMA ToldIs ==
    ASSUME NEW s, NEW f
    PROVE  f \in Told(s) <=> \E k \in Triplet!Holding(s, f) : k \notin s.over
BY DEF Told, Triplet!Beliefs, Triplet!FactsAt, Triplet!Active, Triplet!Holding, Triplet!Valid

LEMMA EndedTold ==
    ASSUME NEW s, NEW t, NEW i, EndsIn(t, s, {i})
    PROVE  \A g : g # s.entries[i].fact => (g \in Told(s) <=> g \in Told(t))
<1> SUFFICES ASSUME NEW g, g # s.entries[i].fact PROVE g \in Told(s) <=> g \in Told(t)
  OBVIOUS
<1>1. Triplet!Holding(t, g) = Triplet!Holding(s, g) \ {i} /\ t.over = s.over
  <2>1. Triplet!Holding(t, g) = Triplet!Holding(s, g) \ {i}
    BY EndedHolds
  <2> QED  BY <2>1 DEF EndsIn
<1>2. i \notin Triplet!Holding(s, g)
  BY DEF Triplet!Holding
<1>3. Triplet!Holding(t, g) = Triplet!Holding(s, g)
  BY <1>1, <1>2
<1> HIDE DEF Told
<1> QED  BY <1>1, <1>3, ToldIs

LEMMA AddedTold ==
    ASSUME NEW s, NEW t, NEW op, AddsTo(t, s, op), op.id \notin DOMAIN s.entries, op.id \notin s.over
    PROVE  /\ \A g : g # op.fact => (g \in Told(s) <=> g \in Told(t))
           /\ op.fact \in Told(t)
<1>1. \A g : Triplet!Holding(t, g) = IF g = op.fact THEN Triplet!Holding(s, g) \cup {op.id}
                                     ELSE Triplet!Holding(s, g)
  BY AddedHolds
<1>2. t.over = s.over
  BY DEF AddsTo
<1>3. \A g : g # op.fact => Triplet!Holding(t, g) = Triplet!Holding(s, g)
  BY <1>1
<1>4. op.id \in Triplet!Holding(t, op.fact)
  BY <1>1
<1> HIDE DEF Told
<1> QED  BY <1>2, <1>3, <1>4, ToldIs

LEMMA OverTold ==
    ASSUME NEW s, NEW t, NEW i, SameEntries(t, s), t.over = s.over \cup {i}
    PROVE  \A g : g # s.entries[i].fact => (g \in Told(s) <=> g \in Told(t))
<1> SUFFICES ASSUME NEW g, g # s.entries[i].fact PROVE g \in Told(s) <=> g \in Told(t)
  OBVIOUS
<1>1. Triplet!Holding(t, g) = Triplet!Holding(s, g)
  BY SameEntriesIs
<1>2. i \notin Triplet!Holding(s, g)
  BY DEF Triplet!Holding
<1> HIDE DEF Told
<1> QED  BY <1>1, <1>2, ToldIs

LEMMA RowsTold ==
    ASSUME NEW s, NEW t, SameEntries(t, s), t.over = s.over
    PROVE  Told(t) = Told(s)
<1>1. \A f : Triplet!Holding(t, f) = Triplet!Holding(s, f)
  BY ONLY SameEntriesIs, SameEntries(t, s)
<1>2. \A f : f \in Told(t) <=> f \in Told(s)
  <2> HIDE DEF Told
  <2> QED  BY <1>1, ToldIs
<1> HIDE DEF Told
<1>3. Told(t) \subseteq Told(s) /\ Told(s) \subseteq Told(t)
  BY <1>2
<1> QED  BY <1>3

\* The steps that a running call has left.
FileEnd == [op |-> "endfile", file |-> File]
AheadOf(q, g) == IF g = TRUE \/ q = <<FileEnd>> THEN {File} ELSE {}
AddOp(f, v, x) == [op |-> "add", fact |-> f, weight |-> v, from |-> x]
TagOp(i, x) == [op |-> "tag", id |-> i, session |-> x]

\* A witness is of no file and of no memory.
OfNone(f, x) == Recorded(f) => x = ""
AddStep(q) == \E f, v, x : q = <<AddOp(f, v, x)>> /\ OfNone(f, x)

SessionSteps(q, r) ==
    \E i \in DOMAIN r.mem, x \in TripletSessions :
       \/ q = <<Triplet!Record(i, r.mem[i].session), Triplet!Record(i, x), TagOp(i, x)>>
       \/ q = <<Triplet!Record(i, x), TagOp(i, x)>> /\ Witnessed(r, i, r.mem[i].session)
       \/ q = <<TagOp(i, x)>> /\ Witnessed(r, i, r.mem[i].session) /\ Witnessed(r, i, x)

Endable(r) == {k \in DOMAIN r.entries : ~Recorded(r.entries[k].fact)}
EndSteps(q, r) == q \in Seq([op : {"end"}, id : Endable(r)])

TodoOK(q, r) ==
    \/ q = <<>> \/ AddStep(q) \/ SessionSteps(q, r) \/ EndSteps(q, r)
    \/ q = <<FileEnd>> /\ NoFile(r)

TagsOK(r, w) == \A i \in DOMAIN r.mem : TagsAgree(r, w, i)

\* The log knows the same memories forgotten, and those whose forget failed.
DeadOK(m, k, unsynced) == \A i \in DOMAIN m : i \in unsynced \/ k[i].dead = m[i].dead

EnvFields == {"next", "calls", "twice", "stale", "unsynced"}

TripletCore(r, w, q, g, e) ==
    /\ DOMAIN e = EnvFields /\ g \in BOOLEAN /\ e.next \in Nat /\ e.stale \in BOOLEAN
    /\ PairOK(r, w, e.next, e.twice, AheadOf(q, g)) /\ TagsOK(r, w)
    /\ DeadOK(r.mem, w.mem, e.unsynced)
    /\ e.stale = FALSE => CountsOK(r)

LEMMA AheadIs ==
    ASSUME NEW q, NEW g
    PROVE  /\ AheadOf(q, g) \subseteq {File}
           /\ (q = <<>> \/ Head(q).op # "endfile") => \A q2 : AheadOf(q, g) \subseteq AheadOf(q2, g)
<1>1. <<FileEnd>> # <<>> /\ Head(<<FileEnd>>).op = "endfile"
  BY DEF FileEnd
<1>2. AheadOf(q, g) \subseteq {File}
  BY DEF AheadOf
<1>3. ASSUME q = <<>> \/ Head(q).op # "endfile", NEW q2
      PROVE  AheadOf(q, g) \subseteq AheadOf(q2, g)
  <2>1. q # <<FileEnd>>
    BY <1>1, <1>3
  <2> QED  BY <2>1 DEF AheadOf
<1> QED  BY <1>2, <1>3

LEMMA PairAhead ==
    ASSUME NEW r, NEW w, NEW n, NEW twice, NEW a, NEW b, PairOK(r, w, n, twice, a), a \subseteq b
    PROVE  PairOK(r, w, n, twice, b)
<1>1. HoldOK(r, w, twice, b)
  BY DEF PairOK, HoldOK
<1> HIDE DEF TripletShape, MarksOK, WitnessesStay, HoldOK, Recorded, TripletRows
<1> QED  BY <1>1 DEF PairOK

\* A step that keeps the images, and what they are ahead by.
LEMMA CoreKept ==
    ASSUME NEW r, NEW w, NEW q, NEW g, NEW e, TripletCore(r, w, q, g, e),
           NEW q2, NEW e2, DOMAIN e2 = EnvFields, e2.next = e.next, e2.twice = e.twice, e2.stale = e.stale,
           e2.unsynced = e.unsynced, q = <<>> \/ Head(q).op # "endfile"
    PROVE  TripletCore(r, w, q2, g, e2)
<1>1. AheadOf(q, g) \subseteq AheadOf(q2, g)
  BY AheadIs
<1>2. PairOK(r, w, e2.next, e2.twice, AheadOf(q2, g))
  <2> HIDE DEF AheadOf, PairOK
  <2> QED  BY <1>1, PairAhead DEF TripletCore
<1> HIDE DEF PairOK, AheadOf, DeadOK
<1> QED  BY <1>2 DEF TripletCore

RecordsKept(r, r2) == \A f : Recorded(f) /\ f \in Told(r) => f \in Told(r2)

LEMMA WitnessedKept ==
    ASSUME NEW r, NEW r2, RecordsKept(r, r2), NEW i, NEW x, Witnessed(r, i, x)
    PROVE  Witnessed(r2, i, x)
<1>1. Recorded(<<i, "replication_session", x>>)
  BY DEF Recorded
<1> HIDE DEF Recorded, Told
<1> QED  BY <1>1 DEF Witnessed, RecordsKept

LEMMA TagsKept ==
    ASSUME NEW r, NEW w, NEW r2, NEW w2, RecordsKept(r, r2), TagsOK(r, w), r2.mem = r.mem, w2.mem = w.mem
    PROVE  TagsOK(r2, w2)
<1> HIDE DEF Witnessed, RecordsKept
<1> QED  BY WitnessedKept DEF TagsOK, TagsAgree

LEMMA ButCountsTodo ==
    ASSUME NEW s, NEW t, ButCounts(t, s), NEW q, TodoOK(q, s)
    PROVE  TodoOK(q, t)
<1>1. Told(t) = Told(s) /\ Triplet!Valid(t) = Triplet!Valid(s) /\ t.mem = s.mem /\ t.entries = s.entries
  BY ButCountsSame DEF ButCounts
<1>2. NoFile(s) => NoFile(t)
  BY <1>1 DEF NoFile
<1>3. \A i, x : Witnessed(s, i, x) => Witnessed(t, i, x)
  <2> HIDE DEF Told
  <2> QED  BY <1>1 DEF Witnessed
<1>4. Endable(t) = Endable(s)
  BY <1>1 DEF Endable
<1>5. SessionSteps(q, s) => SessionSteps(q, t)
  <2> HIDE DEF Witnessed, Triplet!Record, TagOp
  <2> QED  BY <1>1, <1>3 DEF SessionSteps
<1>6. EndSteps(q, s) => EndSteps(q, t)
  BY <1>4 DEF EndSteps
<1> HIDE DEF SessionSteps, EndSteps, AddStep, NoFile, FileEnd
<1> QED  BY <1>2, <1>5, <1>6 DEF TodoOK

\* What a change does to the counts before they are refreshed.
CountsStep(r, r2, seeds) ==
    /\ seeds \subseteq TripletIds /\ Touches(r, r2, seeds)
    /\ DOMAIN r.count = DOMAIN r.mem =>
         /\ DOMAIN r2.count = DOMAIN r2.mem
         /\ \A i \in DOMAIN r2.mem \ seeds : i \in DOMAIN r.mem /\ r2.count[i] = r.count[i]

TripletInv(r, w, q, g, e) == TripletCore(r, w, q, g, e) /\ TodoOK(q, r)

LEMMA CommitOK ==
    ASSUME NEW r, NEW w, NEW q, NEW g, NEW e, TripletCore(r, w, q, g, e),
           NEW r2, NEW w2, NEW q2, NEW e2, NEW seeds, NEW r3, r3 = Triplet!Refresh(r2, seeds),
           PairOK(r2, w2, e2.next, e2.twice, AheadOf(q2, g)), TagsOK(r2, w2), TodoOK(q2, r2),
           CountsStep(r, r2, seeds), e2.stale = e.stale, e2.next \in Nat, DOMAIN e2 = EnvFields,
           DeadOK(r2.mem, w2.mem, e2.unsynced)
    PROVE  TripletInv(r3, w2, q2, g, e2)
<1>1. DOMAIN r2 = TripletFields /\ DOMAIN r2.mem \subseteq TripletIds
  BY DEF PairOK, TripletShape, TripletRows
<1>2. ButCounts(r3, r2)
  BY <1>1, RefreshIs
<1>3. PairOK(r3, w2, e2.next, e2.twice, AheadOf(q2, g))
  <2> HIDE DEF PairOK, AheadOf
  <2> QED  BY <1>2, PairCounts
<1>4. TodoOK(q2, r3)
  <2> HIDE DEF TodoOK
  <2> QED  BY <1>2, ButCountsTodo
<1>5. TagsOK(r3, w2)
  <2>1. RecordsKept(r2, r3) /\ r3.mem = r2.mem
    BY <1>2, ButCountsSame DEF RecordsKept, ButCounts
  <2> HIDE DEF TagsOK, RecordsKept
  <2> QED  BY <2>1, TagsKept
<1>6. ASSUME CountsOK(r) PROVE CountsOK(r3)
  <2>1. DOMAIN r.count = DOMAIN r.mem
    BY <1>6 DEF CountsOK
  <2>2. /\ seeds \in SUBSET TripletIds /\ Touches(r, r2, seeds) /\ DOMAIN r2.count = DOMAIN r2.mem
        /\ \A i \in DOMAIN r2.mem \ seeds : i \in DOMAIN r.mem /\ r2.count[i] = r.count[i]
    BY <2>1 DEF CountsStep
  <2> HIDE DEF Touches, CountsOK
  <2> QED  BY <1>1, <1>6, <2>2, RefreshOK
<1>7. TripletCore(r3, w2, q2, g, e2)
  <2>1. DeadOK(r3.mem, w2.mem, e2.unsynced)
    BY <1>2 DEF ButCounts, DeadOK
  <2> HIDE DEF PairOK, AheadOf, TagsOK, CountsOK, DeadOK
  <2> QED  BY <1>3, <1>5, <1>6, <2>1 DEF TripletCore
<1> QED  BY <1>4, <1>7 DEF TripletInv

\* What replaying an operation does.
RowPut(k, m, i, x) == k = Triplet!Insert(m, i, [session |-> x, dead |-> FALSE])

LEMMA ReplayPut ==
    ASSUME NEW s, DOMAIN s = TripletFields, NEW i, NEW x, NEW t,
           t = Triplet!Replay(s, [op |-> "put", id |-> i, session |-> x])
    PROVE  /\ SameEntries(t, s) /\ t.over = s.over
           /\ RowPut(t.mem, s.mem, i, x) /\ t.count = Triplet!Insert(s.count, i, 1)
<1>1. t = [s EXCEPT !.mem = Triplet!Insert(@, i, [session |-> x, dead |-> FALSE]),
                    !.count = Triplet!Insert(@, i, 1)]
  BY DEF Triplet!Replay
<1> QED  BY <1>1 DEF SameEntries, TripletFields, RowPut

LEMMA ReplayDelete ==
    ASSUME NEW s, DOMAIN s = TripletFields, NEW i, NEW t, t = Triplet!Replay(s, [op |-> "delete", id |-> i])
    PROVE  /\ SameEntries(t, s) /\ t.over = s.over /\ t.count = s.count
           /\ t.mem = [s.mem EXCEPT ![i].dead = TRUE]
<1>1. t = [s EXCEPT !.mem[i].dead = TRUE]
  BY DEF Triplet!Replay
<1> QED  BY <1>1 DEF SameEntries, TripletFields

LEMMA ReplaySupersede ==
    ASSUME NEW s, DOMAIN s = TripletFields, NEW i, NEW t, t = Triplet!Replay(s, [op |-> "supersede", id |-> i])
    PROVE  SameEntries(t, s) /\ t.mem = s.mem /\ t.count = s.count /\ t.over = s.over \cup {i}
<1>1. t = [s EXCEPT !.over = @ \cup {i}]
  BY DEF Triplet!Replay
<1> QED  BY <1>1 DEF SameEntries, TripletFields

LEMMA ReplayEntries ==
    ASSUME NEW s
    PROVE  /\ \A i : Triplet!Replay(s, [op |-> "end", id |-> i]) = Triplet!Ended(s, Triplet!WithId(s, i))
           /\ \A f : Triplet!Replay(s, [op |-> "endfile", file |-> f]) = Triplet!Ended(s, Triplet!From(s, f))
           /\ \A op : op.op = "add" => Triplet!Replay(s, op) = Triplet!Added(s, op)
<1>1. \A i : Triplet!Replay(s, [op |-> "end", id |-> i]) = Triplet!Ended(s, Triplet!WithId(s, i))
  BY DEF Triplet!Replay
<1>2. \A f : Triplet!Replay(s, [op |-> "endfile", file |-> f]) = Triplet!Ended(s, Triplet!From(s, f))
  BY DEF Triplet!Replay
<1>3. \A op : op.op = "add" => Triplet!Replay(s, op) = Triplet!Added(s, op)
  BY DEF Triplet!Replay
<1> QED  BY <1>1, <1>2, <1>3

TripletSound == TripletInv(ram, wal, todo, gap, env)

\* What the store is like between calls.
LEMMA RestingIs ==
    ASSUME TripletSound, Triplet!Resting, NEW q2
    PROVE  /\ TripletCore(ram, wal, todo, gap, env)
           /\ PairOK(ram, wal, env.next, env.twice, AheadOf(q2, gap))
           /\ DeadOK(ram.mem, wal.mem, env.unsynced)
           /\ TagsOK(ram, wal) /\ DOMAIN ram = TripletFields /\ DOMAIN wal = TripletFields
           /\ TripletRows(ram.mem) /\ TripletRows(wal.mem) /\ DOMAIN wal.mem = DOMAIN ram.mem
<1>1. TripletCore(ram, wal, todo, gap, env)
  BY DEF TripletSound, TripletInv
<1>2. AheadOf(todo, gap) \subseteq AheadOf(q2, gap)
  BY AheadIs DEF Triplet!Resting
<1>3. PairOK(ram, wal, env.next, env.twice, AheadOf(todo, gap)) /\ TagsOK(ram, wal)
      /\ DeadOK(ram.mem, wal.mem, env.unsynced)
  <2> HIDE DEF PairOK, AheadOf, TagsOK, DeadOK
  <2> QED  BY <1>1 DEF TripletCore
<1>4. /\ DOMAIN ram = TripletFields /\ DOMAIN wal = TripletFields
      /\ TripletRows(ram.mem) /\ TripletRows(wal.mem) /\ DOMAIN wal.mem = DOMAIN ram.mem
  BY <1>3 DEF PairOK, TripletShape
<1> HIDE DEF PairOK, AheadOf, TagsOK, TripletRows, DeadOK
<1>5. PairOK(ram, wal, env.next, env.twice, AheadOf(q2, gap))
  BY <1>2, <1>3, PairAhead
<1> QED  BY <1>1, <1>3, <1>4, <1>5

RowAdded(k, m, i, x) ==
    /\ TripletRows(k) /\ DOMAIN k = DOMAIN m \cup {i}
    /\ k[i].session = x /\ k[i].dead = FALSE
    /\ \A j \in DOMAIN m : j # i => k[j] = m[j]

LEMMA InsertRow ==
    ASSUME NEW m, TripletRows(m), NEW i \in TripletIds, NEW x \in SessionTags,
           NEW k, RowPut(k, m, i, x)
    PROVE  RowAdded(k, m, i, x)
<1> DEFINE row == [session |-> x, dead |-> FALSE]
<1>1. DOMAIN row = RowFields /\ row.session = x /\ row.dead = FALSE
  BY DEF RowFields
<1>2. row.dead \in BOOLEAN
  BY <1>1, Zenon
<1>3. /\ DOMAIN k = DOMAIN m \cup {i} /\ k[i] = row
      /\ \A j \in DOMAIN m : j # i => k[j] = m[j]
  BY DEF Triplet!Insert, RowPut
<1> HIDE DEF row
<1>4. TripletRows(k)
  BY <1>1, <1>2, <1>3 DEF TripletRows
<1> QED  BY <1>1, <1>3, <1>4 DEF RowAdded

LEMMA PutSound ==
    ASSUME TripletSound, NEW i \in TripletIds, NEW x \in SessionTags, Triplet!Put(i, x)
    PROVE  TripletSound'
<1> DEFINE op == [op |-> "put", id |-> i, session |-> x]
           r2 == Triplet!Replay(ram, op)
           w2 == Triplet!Replay(wal, op)
<1>1. /\ Triplet!Resting /\ i \notin DOMAIN ram.mem /\ ram' = Triplet!Refresh(r2, {i}) /\ wal' = w2
      /\ todo' = todo /\ gap' = gap /\ env' = env
  BY DEF Triplet!Put, Triplet!Commit
<1>2. /\ TripletCore(ram, wal, todo, gap, env)
      /\ PairOK(ram, wal, env.next, env.twice, AheadOf(todo, gap))
      /\ DeadOK(ram.mem, wal.mem, env.unsynced)
      /\ TagsOK(ram, wal) /\ DOMAIN ram = TripletFields /\ DOMAIN wal = TripletFields
      /\ TripletRows(ram.mem) /\ TripletRows(wal.mem) /\ DOMAIN wal.mem = DOMAIN ram.mem
  BY <1>1, RestingIs
<1>3. /\ SameEntries(r2, ram) /\ r2.over = ram.over
      /\ RowPut(r2.mem, ram.mem, i, x) /\ r2.count = Triplet!Insert(ram.count, i, 1)
  BY <1>2, ReplayPut
<1>4. SameEntries(w2, wal) /\ w2.over = wal.over /\ RowPut(w2.mem, wal.mem, i, x)
  BY <1>2, ReplayPut
<1> HIDE DEF r2, w2
<1>5. /\ TripletRows(r2.mem) /\ DOMAIN r2.mem = DOMAIN ram.mem \cup {i}
      /\ r2.mem[i].session = x /\ r2.mem[i].dead = FALSE
      /\ \A j \in DOMAIN ram.mem : j # i => r2.mem[j] = ram.mem[j]
  <2>1. RowAdded(r2.mem, ram.mem, i, x)
    BY <1>2, <1>3, InsertRow
  <2> HIDE DEF TripletRows
  <2> QED  BY <2>1 DEF RowAdded
<1>6. /\ TripletRows(w2.mem) /\ DOMAIN w2.mem = DOMAIN wal.mem \cup {i}
      /\ w2.mem[i].session = x /\ w2.mem[i].dead = FALSE
      /\ \A j \in DOMAIN wal.mem : j # i => w2.mem[j] = wal.mem[j]
  <2>1. RowAdded(w2.mem, wal.mem, i, x)
    BY <1>2, <1>4, InsertRow
  <2> HIDE DEF TripletRows
  <2> QED  BY <2>1 DEF RowAdded
<1>7. MemsOK(r2.mem, w2.mem)
  <2> HIDE DEF TripletRows
  <2> QED  BY <1>2, <1>5, <1>6 DEF MemsOK
<1>8. PairOK(r2, w2, env.next, env.twice, AheadOf(todo, gap))
  <2> HIDE DEF PairOK, AheadOf
  <2> QED  BY <1>2, <1>3, <1>4, <1>7, PairRows
<1>9. Told(r2) = Told(ram)
  BY <1>3, RowsTold
<1>10. TagsOK(r2, w2)
  <2> SUFFICES ASSUME NEW j \in DOMAIN r2.mem PROVE TagsAgree(r2, w2, j)
    BY DEF TagsOK
  <2>1. CASE j = i
    BY <1>5, <1>6, <2>1 DEF TagsAgree
  <2>2. CASE j # i
    <3>1. TagsAgree(ram, wal, j) /\ r2.mem[j] = ram.mem[j] /\ w2.mem[j] = wal.mem[j]
      BY <1>2, <1>5, <1>6, <2>2 DEF TagsOK
    <3> HIDE DEF Told
    <3> QED  BY <1>9, <3>1 DEF TagsAgree, Witnessed
  <2> QED  BY <2>1, <2>2
<1>11. CountsStep(ram, r2, {i})
  <2>1. DOMAIN ram.mem \subseteq TripletIds
    BY <1>2 DEF TripletRows
  <2>2. Touches(ram, r2, {i})
    <3> HIDE DEF Told
    <3> QED  BY <1>5, <1>9, <2>1, TouchesMemory
  <2>3. /\ DOMAIN r2.count = DOMAIN ram.count \cup {i}
        /\ \A j \in DOMAIN ram.count : j # i => r2.count[j] = ram.count[j]
    BY <1>3 DEF Triplet!Insert
  <2> HIDE DEF Touches
  <2> QED  BY <1>1, <1>5, <2>2, <2>3 DEF CountsStep
<1>12. TodoOK(todo, r2)
  BY <1>1 DEF TodoOK, Triplet!Resting
<1>13. env.next \in Nat /\ DOMAIN env = EnvFields
  BY <1>2 DEF TripletCore
<1>14. DeadOK(r2.mem, w2.mem, env.unsynced)
  <2> HIDE DEF TripletRows, TripletCore, PairOK
  <2> QED  BY <1>2, <1>5, <1>6 DEF DeadOK
<1> HIDE DEF TripletCore, PairOK, AheadOf, TagsOK, TodoOK, CountsStep, TripletInv, DeadOK
<1>15. TripletInv(ram', wal', todo', gap', env')
  BY <1>1, <1>2, <1>8, <1>10, <1>11, <1>12, <1>13, <1>14, CommitOK
<1> QED  BY <1>15 DEF TripletSound

\* A call has begun: its steps are ahead, nothing has changed.
LEMMA CallBegins ==
    ASSUME TripletSound, Triplet!Resting, ram' = ram, wal' = wal, gap' = gap,
           DOMAIN env' = EnvFields, env'.next = env.next, env'.twice = env.twice, env'.stale = env.stale,
           env'.unsynced = env.unsynced, TodoOK(todo', ram)
    PROVE  TripletSound'
<1>1. TripletCore(ram, wal, todo, gap, env) /\ todo = <<>>
  BY DEF TripletSound, TripletInv, Triplet!Resting
<1> HIDE DEF TripletCore, TodoOK
<1>2. TripletCore(ram, wal, todo', gap, env')
  BY <1>1, CoreKept
<1>3. TripletInv(ram', wal', todo', gap', env')
  BY <1>2 DEF TripletInv
<1> HIDE DEF TripletInv
<1> QED  BY <1>3 DEF TripletSound

LEMMA CalledIs ==
    ASSUME TripletSound, Triplet!Called
    PROVE  /\ DOMAIN env' = EnvFields
           /\ env'.next = env.next /\ env'.twice = env.twice /\ env'.stale = env.stale
           /\ env'.unsynced = env.unsynced
<1>1. DOMAIN env = EnvFields
  BY DEF TripletSound, TripletInv, TripletCore
<1>2. env' = [env EXCEPT !.calls = @ + 1]
  BY DEF Triplet!Called
<1> QED  BY <1>1, <1>2 DEF EnvFields

LEMMA EndStepsBegin ==
    ASSUME NEW r, NEW n \in Nat, TripletShape(r, n), NEW ks \in SUBSET Endable(r), NEW q \in Triplet!Ends(ks)
    PROVE  EndSteps(q, r)
<1>1. ks \subseteq 0 .. (n - 1)
  BY DEF TripletShape, Endable
<1>2. IsFiniteSet(ks)
  <2>1. IsFiniteSet(0 .. (n - 1))
    BY FS_Interval
  <2> QED  BY <1>1, <2>1, FS_Subset
<1>3. Cardinality(ks) \in Nat
  BY <1>2, FS_CardinalityType
<1>4. PICK order \in [1 .. Cardinality(ks) -> ks] : q = [m \in DOMAIN order |-> [op |-> "end", id |-> order[m]]]
  <2>1. PICK order \in Triplet!InOrder(ks) : q = Triplet!EndEach(order)
    BY DEF Triplet!Ends
  <2>2. Triplet!Cardinality(ks) = Cardinality(ks)
    BY Zenon DEF Triplet!Cardinality, Cardinality
  <2>3. order \in [1 .. Cardinality(ks) -> ks]
    BY <2>2 DEF Triplet!InOrder
  <2> QED  BY <2>1, <2>3 DEF Triplet!EndEach
<1> DEFINE E == [op : {"end"}, id : Endable(r)]
<1>5. \A m \in 1 .. Cardinality(ks) : [op |-> "end", id |-> order[m]] \in E
  OBVIOUS
<1>6. q \in [1 .. Cardinality(ks) -> E]
  <2> HIDE DEF E
  <2> QED  BY <1>4, <1>5
<1>7. q \in Seq(E)
  <2> HIDE DEF E
  <2> QED  BY <1>3, <1>6
<1> QED  BY <1>7 DEF EndSteps

LEMMA PutAgainSound ==
    ASSUME TripletSound, NEW i, NEW x, Triplet!PutAgain(i, x)
    PROVE  TripletSound'
<1>1. /\ Triplet!Resting /\ Triplet!Called /\ todo' = <<Triplet!Record(i, x)>>
      /\ ram' = ram /\ wal' = wal /\ gap' = gap
  BY DEF Triplet!PutAgain
<1>2. Triplet!Record(i, x) = AddOp(<<i, "replication_session", x>>, 1, "")
  BY DEF Triplet!Record, AddOp
<1>3. AddStep(todo')
  BY <1>1, <1>2 DEF AddStep, OfNone
<1>4. TodoOK(todo', ram)
  BY <1>3 DEF TodoOK
<1> HIDE DEF TodoOK
<1> QED  BY <1>1, <1>4, CalledIs, CallBegins

LEMMA SetSourceSessionSound ==
    ASSUME TripletSound, NEW i \in DOMAIN ram.mem, NEW x \in TripletSessions, Triplet!SetSourceSession(i, x)
    PROVE  TripletSound'
<1> DEFINE old == ram.mem[i].session
<1>1. /\ Triplet!Resting /\ Triplet!Called
      /\ ram' = ram /\ wal' = wal /\ gap' = gap
      /\ todo' = IF old = "" THEN <<Triplet!Record(i, x), TagOp(i, x)>>
                 ELSE <<Triplet!Record(i, old), Triplet!Record(i, x), TagOp(i, x)>>
  BY DEF Triplet!SetSourceSession, TagOp
<1>2. CASE old = ""
  <2>1. todo' = <<Triplet!Record(i, x), TagOp(i, x)>> /\ Witnessed(ram, i, old)
    BY <1>1, <1>2 DEF Witnessed
  <2>2. SessionSteps(todo', ram)
    <3> HIDE DEF Witnessed, TagOp, Triplet!Record
    <3> QED  BY <2>1 DEF SessionSteps
  <2>3. TodoOK(todo', ram)
    BY <2>2 DEF TodoOK
  <2> HIDE DEF TodoOK
  <2> QED  BY <1>1, <2>3, CalledIs, CallBegins
<1>3. CASE old # ""
  <2>1. todo' = <<Triplet!Record(i, old), Triplet!Record(i, x), TagOp(i, x)>>
    BY <1>1, <1>3
  <2>2. SessionSteps(todo', ram)
    <3> HIDE DEF Witnessed, TagOp, Triplet!Record
    <3> QED  BY <2>1 DEF SessionSteps
  <2>3. TodoOK(todo', ram)
    BY <2>2 DEF TodoOK
  <2> HIDE DEF TodoOK
  <2> QED  BY <1>1, <2>3, CalledIs, CallBegins
<1> QED  BY <1>2, <1>3

LEMMA AddTripletSound ==
    ASSUME TripletSound, NEW f \in Facts, NEW v, NEW x, Triplet!AddTriplet(f, v, x)
    PROVE  TripletSound'
<1>1. /\ Triplet!Resting /\ todo' = <<AddOp(f, v, x)>>
      /\ ram' = ram /\ wal' = wal /\ gap' = gap /\ env' = env
  BY DEF Triplet!AddTriplet, AddOp
<1>2. ~Recorded(f)
  BY TripletAssumption DEF Recorded
<1>3. AddStep(todo')
  BY <1>1, <1>2 DEF AddStep, OfNone
<1>4. TodoOK(todo', ram)
  BY <1>3 DEF TodoOK
<1>5. DOMAIN env = EnvFields
  BY DEF TripletSound, TripletInv, TripletCore
<1> HIDE DEF TodoOK
<1> QED  BY <1>1, <1>4, <1>5, CallBegins

LEMMA ForgetTripletSound ==
    ASSUME TripletSound, NEW f \in Facts, Triplet!ForgetTriplet(f)
    PROVE  TripletSound'
<1>1. /\ Triplet!Resting /\ Triplet!Called /\ todo' \in Triplet!Ends(Triplet!Holding(ram, f))
      /\ ram' = ram /\ wal' = wal /\ gap' = gap
  BY DEF Triplet!ForgetTriplet
<1>2. ~Recorded(f)
  BY TripletAssumption DEF Recorded
<1>3. Triplet!Holding(ram, f) \in SUBSET Endable(ram)
  BY <1>2 DEF Endable, Triplet!Holding, Triplet!Valid
<1>4. env.next \in Nat /\ TripletShape(ram, env.next)
  BY DEF TripletSound, TripletInv, TripletCore, PairOK
<1>5. EndSteps(todo', ram)
  BY <1>1, <1>3, <1>4, EndStepsBegin
<1>6. TodoOK(todo', ram)
  BY <1>5 DEF TodoOK
<1> HIDE DEF TodoOK
<1> QED  BY <1>1, <1>6, CalledIs, CallBegins

LEMMA SeedsIs ==
    ASSUME NEW i \in DOMAIN ram.entries
    PROVE  /\ Triplet!SeedsOf(i) \subseteq TripletIds
           /\ Triplet!AffectedEdge(ram.entries[i].fact) \subseteq Triplet!SeedsOf(i)
<1>1. Triplet!WithId(ram, i) = {i}
  BY DEF Triplet!WithId
<1>2. \A f : Triplet!AffectedEdge(f) \subseteq TripletIds
  BY DEF Triplet!AffectedEdge
<1> QED  BY <1>1, <1>2 DEF Triplet!SeedsOf, Triplet!FactsAt

\* One record ends an entry that is no witness.
LEMMA EndOne ==
    ASSUME TripletCore(ram, wal, todo, gap, env), NEW i \in Endable(ram), NEW q2, EndSteps(q2, ram),
           todo = <<>> \/ Head(todo).op # "endfile", NEW e2, DOMAIN e2 = EnvFields,
           e2.next = env.next, e2.twice = env.twice, e2.stale = env.stale, e2.unsynced = env.unsynced, NEW r3, NEW w2,
           r3 = Triplet!Refresh(Triplet!Replay(ram, [op |-> "end", id |-> i]), Triplet!SeedsOf(i)),
           w2 = Triplet!Replay(wal, [op |-> "end", id |-> i])
    PROVE  TripletInv(r3, w2, q2, gap, e2)
<1> DEFINE r2 == Triplet!Ended(ram, Triplet!WithId(ram, i))
<1>1. r3 = Triplet!Refresh(r2, Triplet!SeedsOf(i)) /\ w2 = Triplet!Ended(wal, Triplet!WithId(wal, i))
  BY ReplayEntries
<1>2. i \in DOMAIN ram.entries /\ ~Recorded(ram.entries[i].fact)
  BY DEF Endable
<1>3. PairOK(ram, wal, e2.next, e2.twice, AheadOf(q2, gap))
  <2>1. TripletCore(ram, wal, q2, gap, e2)
    <3> HIDE DEF TripletCore
    <3> QED  BY CoreKept
  <2> HIDE DEF PairOK, AheadOf
  <2> QED  BY <2>1 DEF TripletCore
<1>4. PairOK(r2, w2, e2.next, e2.twice, AheadOf(q2, gap)) /\ EndsIn(r2, ram, {i})
      /\ EndsIn(w2, wal, Triplet!WithId(wal, i))
  <2> HIDE DEF PairOK, AheadOf, EndsIn, Recorded
  <2> QED  BY <1>1, <1>2, <1>3, PairEnds
<1> HIDE DEF r2
<1>5. \A g : g # ram.entries[i].fact => (g \in Told(ram) <=> g \in Told(r2))
  BY <1>4, EndedTold
<1>6. RecordsKept(ram, r2)
  BY <1>2, <1>5 DEF RecordsKept
<1>7. r2.mem = ram.mem /\ w2.mem = wal.mem /\ r2.count = ram.count
  BY <1>4 DEF EndsIn
<1>8. TagsOK(r2, w2)
  <2>1. TagsOK(ram, wal)
    BY DEF TripletCore
  <2> HIDE DEF TagsOK, RecordsKept
  <2> QED  BY <1>6, <1>7, <2>1, TagsKept
<1>9. CountsStep(ram, r2, Triplet!SeedsOf(i))
  <2>1. Touches(ram, r2, Triplet!SeedsOf(i))
    <3> HIDE DEF Told, Touches
    <3> QED  BY <1>2, <1>5, <1>7, SeedsIs, TouchesFact
  <2>2. Triplet!SeedsOf(i) \subseteq TripletIds
    BY <1>2, SeedsIs
  <2> HIDE DEF Touches
  <2> QED  BY <1>7, <2>1, <2>2 DEF CountsStep
<1>10. TodoOK(q2, r2)
  <2>1. Endable(r2) = Endable(ram)
    BY <1>4 DEF Endable, EndsIn
  <2>2. EndSteps(q2, r2)
    BY <2>1 DEF EndSteps
  <2> QED  BY <2>2 DEF TodoOK
<1>11. e2.next \in Nat /\ DeadOK(r2.mem, w2.mem, e2.unsynced)
  BY <1>7 DEF TripletCore
<1> HIDE DEF TripletCore, PairOK, AheadOf, TagsOK, TodoOK, CountsStep, TripletInv, DeadOK
<1> QED  BY <1>1, <1>4, <1>8, <1>9, <1>10, <1>11, CommitOK

LEMMA InvalidateTripletSound ==
    ASSUME TripletSound, NEW i \in DOMAIN ram.entries, ram.entries[i].fact \in Facts, Triplet!InvalidateTriplet(i)
    PROVE  TripletSound'
<1>1. /\ Triplet!Resting /\ Triplet!Called /\ todo' = todo /\ gap' = gap
      /\ ram' = Triplet!Refresh(Triplet!Replay(ram, [op |-> "end", id |-> i]), Triplet!SeedsOf(i))
      /\ wal' = Triplet!Replay(wal, [op |-> "end", id |-> i])
  BY DEF Triplet!InvalidateTriplet, Triplet!Commit
<1>2. i \in Endable(ram)
  BY TripletAssumption DEF Endable, Recorded
<1>3. TripletCore(ram, wal, todo, gap, env) /\ todo = <<>>
  BY <1>1 DEF TripletSound, TripletInv, Triplet!Resting
<1>4. EndSteps(todo', ram)
  BY <1>1, <1>3 DEF EndSteps
<1> HIDE DEF TripletCore, TripletInv, EndSteps
<1>5. TripletInv(ram', wal', todo', gap, env')
  BY <1>1, <1>2, <1>3, <1>4, CalledIs, EndOne
<1> QED  BY <1>1, <1>5 DEF TripletSound

\* The next step tells which call is running.
LEMMA AddHead ==
    ASSUME NEW q, AddStep(q)
    PROVE  Head(q).op = "add"
<1>1. PICK f, v, x : q = <<AddOp(f, v, x)>>
  BY DEF AddStep
<1>2. AddOp(f, v, x).op = "add"
  BY DEF AddOp
<1> HIDE DEF AddOp
<1> QED  BY <1>1, <1>2

LEMMA SessionHead ==
    ASSUME NEW q, NEW r, SessionSteps(q, r)
    PROVE  Head(q).op = "add" \/ Head(q).op = "tag"
<1>1. PICK i, x :
        \/ q = <<Triplet!Record(i, r.mem[i].session), Triplet!Record(i, x), TagOp(i, x)>>
        \/ q = <<Triplet!Record(i, x), TagOp(i, x)>>
        \/ q = <<TagOp(i, x)>>
  <2> HIDE DEF Triplet!Record, TagOp, Witnessed
  <2> QED  BY DEF SessionSteps
<1>2. TagOp(i, x).op = "tag" /\ \A y : Triplet!Record(i, y).op = "add"
  BY DEF TagOp, Triplet!Record
<1> HIDE DEF Triplet!Record, TagOp
<1> QED  BY <1>1, <1>2

LEMMA EndHead ==
    ASSUME NEW q, NEW r, EndSteps(q, r), q # <<>>
    PROVE  /\ \E i \in Endable(r) : Head(q) = [op |-> "end", id |-> i]
           /\ Head(q).op = "end" /\ EndSteps(Tail(q), r)
<1> DEFINE E == [op : {"end"}, id : Endable(r)]
<1>1. q \in Seq(E)
  BY DEF EndSteps
<1> HIDE DEF E
<1>2. Head(q) \in E /\ Tail(q) \in Seq(E)
  BY <1>1
<1> QED  BY <1>2 DEF E, EndSteps

LEMMA FileHead ==
    ASSUME NEW q, q = <<FileEnd>>
    PROVE  Head(q) = FileEnd /\ Head(q).op = "endfile" /\ Tail(q) = <<>>
BY DEF FileEnd

LEMMA StepEndSound ==
    ASSUME TripletSound, Triplet!StepEnd
    PROVE  TripletSound'
<1>1. /\ todo # <<>> /\ Head(todo).op = "end" /\ todo' = Tail(todo) /\ gap' = gap /\ env' = env
      /\ ram' = Triplet!Refresh(Triplet!Replay(ram, Head(todo)), Triplet!SeedsOf(Head(todo).id))
      /\ wal' = Triplet!Replay(wal, Head(todo))
  BY DEF Triplet!StepEnd, Triplet!Commit, Triplet!Resting
<1>2. TripletCore(ram, wal, todo, gap, env) /\ TodoOK(todo, ram)
  BY DEF TripletSound, TripletInv
<1>3. EndSteps(todo, ram)
  <2> HIDE DEF AddStep, SessionSteps, EndSteps, FileEnd
  <2> QED  BY <1>1, <1>2, AddHead, SessionHead, FileHead DEF TodoOK
<1>4. PICK i \in Endable(ram) : Head(todo) = [op |-> "end", id |-> i]
  BY <1>1, <1>3, EndHead
<1>5. EndSteps(todo', ram)
  BY <1>1, <1>3, EndHead
<1>6. Head(todo).id = i /\ Head(todo).op # "endfile" /\ DOMAIN env = EnvFields
  BY <1>1, <1>2, <1>4 DEF TripletCore
<1> HIDE DEF TripletCore, TripletInv, EndSteps
<1>7. TripletInv(ram', wal', todo', gap, env')
  BY <1>1, <1>2, <1>4, <1>5, <1>6, EndOne
<1> QED  BY <1>1, <1>7 DEF TripletSound

LEMMA SupersedeSound ==
    ASSUME TripletSound, NEW i \in DOMAIN ram.entries, ram.entries[i].fact \in Facts, Triplet!Supersede(i)
    PROVE  TripletSound'
<1> DEFINE op == [op |-> "supersede", id |-> i]
           r2 == Triplet!Replay(ram, op)
           w2 == Triplet!Replay(wal, op)
<1>1. /\ Triplet!Resting /\ Triplet!Called /\ todo' = todo /\ gap' = gap
      /\ ram' = Triplet!Refresh(r2, Triplet!SeedsOf(i)) /\ wal' = w2
  BY DEF Triplet!Supersede, Triplet!Commit
<1>2. ~Recorded(ram.entries[i].fact)
  BY TripletAssumption DEF Recorded
<1>3. /\ TripletCore(ram, wal, todo, gap, env)
      /\ PairOK(ram, wal, env.next, env.twice, AheadOf(todo, gap))
      /\ DeadOK(ram.mem, wal.mem, env.unsynced)
      /\ TagsOK(ram, wal) /\ DOMAIN ram = TripletFields /\ DOMAIN wal = TripletFields
  BY <1>1, RestingIs
<1>4. SameEntries(r2, ram) /\ r2.mem = ram.mem /\ r2.count = ram.count /\ r2.over = ram.over \cup {i}
  BY <1>3, ReplaySupersede
<1>5. SameEntries(w2, wal) /\ w2.mem = wal.mem /\ w2.over = wal.over \cup {i}
  BY <1>3, ReplaySupersede
<1> HIDE DEF r2, w2
<1>6. PairOK(r2, w2, env.next, env.twice, AheadOf(todo, gap))
  <2> HIDE DEF PairOK, AheadOf, Recorded
  <2> QED  BY <1>2, <1>3, <1>4, <1>5, PairOver
<1>7. \A g : g # ram.entries[i].fact => (g \in Told(ram) <=> g \in Told(r2))
  BY <1>4, OverTold
<1>8. RecordsKept(ram, r2)
  BY <1>2, <1>7 DEF RecordsKept
<1>9. TagsOK(r2, w2)
  <2> HIDE DEF TagsOK, RecordsKept
  <2> QED  BY <1>3, <1>4, <1>5, <1>8, TagsKept
<1>10. CountsStep(ram, r2, Triplet!SeedsOf(i))
  <2>1. Touches(ram, r2, Triplet!SeedsOf(i))
    <3> HIDE DEF Told, Touches
    <3> QED  BY <1>4, <1>7, SeedsIs, TouchesFact
  <2>2. Triplet!SeedsOf(i) \subseteq TripletIds
    BY SeedsIs
  <2> HIDE DEF Touches
  <2> QED  BY <1>4, <2>1, <2>2 DEF CountsStep
<1>11. TodoOK(todo, r2)
  BY <1>1 DEF TodoOK, Triplet!Resting
<1>12. env.next \in Nat
  BY <1>3 DEF TripletCore
<1>13. DOMAIN env' = EnvFields /\ env'.next = env.next /\ env'.twice = env.twice /\ env'.stale = env.stale
       /\ env'.unsynced = env.unsynced
  BY <1>1, CalledIs
<1>14. DeadOK(r2.mem, w2.mem, env'.unsynced)
  BY <1>3, <1>4, <1>5, <1>13
<1> HIDE DEF TripletCore, PairOK, AheadOf, TagsOK, TodoOK, CountsStep, TripletInv, DeadOK
<1>15. TripletInv(ram', wal', todo', gap', env')
  BY <1>1, <1>3, <1>6, <1>9, <1>10, <1>11, <1>12, <1>13, <1>14, CommitOK
<1> QED  BY <1>15 DEF TripletSound

RowEnded(k, m, i) ==
    /\ TripletRows(k) /\ DOMAIN k = DOMAIN m /\ k[i].dead = TRUE /\ k[i].session = m[i].session
    /\ \A j \in DOMAIN m : j # i => k[j] = m[j]

LEMMA EndRow ==
    ASSUME NEW m, TripletRows(m), NEW i \in DOMAIN m, NEW k, k = [m EXCEPT ![i].dead = TRUE]
    PROVE  RowEnded(k, m, i)
<1>1. /\ DOMAIN k = DOMAIN m /\ \A j \in DOMAIN m : j # i => k[j] = m[j]
      /\ k[i] = [m[i] EXCEPT !.dead = TRUE]
  OBVIOUS
<1>2. DOMAIN k[i] = RowFields /\ k[i].dead = TRUE /\ k[i].session = m[i].session
  BY <1>1 DEF TripletRows, RowFields
<1>3. k[i].dead \in BOOLEAN
  BY <1>2, Zenon
<1>4. TripletRows(k)
  <2> HIDE DEF SessionTags, RowFields
  <2>1. \A j \in DOMAIN m : DOMAIN k[j] = RowFields
    BY <1>1, <1>2 DEF TripletRows
  <2>2. \A j \in DOMAIN m : k[j].dead \in BOOLEAN
    BY <1>1, <1>3 DEF TripletRows
  <2>3. \A j \in DOMAIN m : k[j].session \in SessionTags
    BY <1>1, <1>2 DEF TripletRows
  <2> QED  BY <1>1, <2>1, <2>2, <2>3 DEF TripletRows
<1> QED  BY <1>1, <1>2, <1>4 DEF RowEnded

LEMMA ForgetSound ==
    ASSUME TripletSound, NEW i \in DOMAIN ram.mem, Triplet!Forget(i)
    PROVE  TripletSound'
<1> DEFINE op == [op |-> "delete", id |-> i]
           r2 == Triplet!Replay(ram, op)
           w2 == Triplet!Replay(wal, op)
<1>1. /\ Triplet!Resting /\ env' = [env EXCEPT !.calls = @ + 1, !.unsynced = @ \ {i}] /\ todo' \in Triplet!Ends(Triplet!From(ram, i)) /\ gap' = gap
      /\ ram' = Triplet!Refresh(r2, {i}) /\ wal' = w2
  BY DEF Triplet!Forget, Triplet!Commit
<1>2. /\ TripletCore(ram, wal, todo, gap, env)
      /\ PairOK(ram, wal, env.next, env.twice, AheadOf(todo', gap))
      /\ DeadOK(ram.mem, wal.mem, env.unsynced)
      /\ TagsOK(ram, wal) /\ DOMAIN ram = TripletFields /\ DOMAIN wal = TripletFields
      /\ TripletRows(ram.mem) /\ TripletRows(wal.mem) /\ DOMAIN wal.mem = DOMAIN ram.mem
  BY <1>1, RestingIs
<1>3. /\ SameEntries(r2, ram) /\ r2.over = ram.over /\ r2.count = ram.count
      /\ r2.mem = [ram.mem EXCEPT ![i].dead = TRUE]
  BY <1>2, ReplayDelete
<1>4. /\ SameEntries(w2, wal) /\ w2.over = wal.over /\ w2.mem = [wal.mem EXCEPT ![i].dead = TRUE]
  BY <1>2, ReplayDelete
<1> HIDE DEF r2, w2
<1>5. i \in DOMAIN ram.mem /\ i \in DOMAIN wal.mem /\ i \in TripletIds /\ DOMAIN ram.mem \subseteq TripletIds
  BY <1>2 DEF TripletRows
<1>6. RowEnded(r2.mem, ram.mem, i)
  BY <1>2, <1>3, <1>5, EndRow
<1>7. RowEnded(w2.mem, wal.mem, i)
  BY <1>2, <1>4, <1>5, EndRow
<1>8. MemsOK(r2.mem, w2.mem)
  <2> HIDE DEF TripletRows
  <2> QED  BY <1>2, <1>6, <1>7 DEF MemsOK, RowEnded
<1>9. PairOK(r2, w2, env.next, env.twice, AheadOf(todo', gap))
  <2> HIDE DEF PairOK, AheadOf
  <2> QED  BY <1>2, <1>3, <1>4, <1>8, PairRows
<1>10. Told(r2) = Told(ram)
  BY <1>3, RowsTold
<1>11. TagsOK(r2, w2)
  <2> SUFFICES ASSUME NEW j \in DOMAIN r2.mem PROVE TagsAgree(r2, w2, j)
    BY DEF TagsOK
  <2>1. TagsAgree(ram, wal, j) /\ r2.mem[j].session = ram.mem[j].session /\ w2.mem[j].session = wal.mem[j].session
    BY <1>2, <1>6, <1>7 DEF TagsOK, RowEnded
  <2> HIDE DEF Told
  <2> QED  BY <1>10, <2>1 DEF TagsAgree, Witnessed
<1>12. CountsStep(ram, r2, {i})
  <2>1. Touches(ram, r2, {i})
    <3> HIDE DEF Told
    <3> QED  BY <1>5, <1>6, <1>10, TouchesMemory DEF RowEnded
  <2> HIDE DEF Touches
  <2> QED  BY <1>3, <1>5, <1>6, <2>1 DEF CountsStep, RowEnded
<1>13. TodoOK(todo', r2)
  <2>1. env.next \in Nat /\ TripletShape(ram, env.next) /\ WitnessesStay(ram)
    BY <1>2 DEF TripletCore, PairOK
  <2>2. Triplet!From(ram, i) \in SUBSET Endable(ram)
    <3>1. i # ""
      BY <1>5, TripletAssumption
    <3> QED  BY <2>1, <3>1 DEF Triplet!From, Triplet!Valid, Endable, WitnessesStay
  <2>3. EndSteps(todo', ram)
    BY <1>1, <2>1, <2>2, EndStepsBegin
  <2>4. Endable(r2) = Endable(ram)
    BY <1>3 DEF Endable, SameEntries
  <2>5. EndSteps(todo', r2)
    BY <2>3, <2>4 DEF EndSteps
  <2> QED  BY <2>5 DEF TodoOK
<1>14. env.next \in Nat
  BY <1>2 DEF TripletCore
<1>15. DOMAIN env' = EnvFields /\ env'.next = env.next /\ env'.twice = env.twice /\ env'.stale = env.stale
       /\ env'.unsynced = env.unsynced \ {i}
  <2>1. DOMAIN env = EnvFields
    BY <1>2 DEF TripletCore
  <2> QED  BY <1>1, <2>1 DEF EnvFields
<1>16. DeadOK(r2.mem, w2.mem, env'.unsynced)
  <2> HIDE DEF TripletRows, TripletCore, PairOK
  <2> QED  BY <1>2, <1>5, <1>6, <1>7, <1>15 DEF DeadOK, RowEnded
<1> HIDE DEF TripletCore, PairOK, AheadOf, TagsOK, TodoOK, CountsStep, TripletInv, DeadOK
<1>17. TripletInv(ram', wal', todo', gap', env')
  BY <1>1, <1>2, <1>9, <1>11, <1>12, <1>13, <1>14, <1>15, <1>16, CommitOK
<1> QED  BY <1>17 DEF TripletSound

\* Only the log has the forget, and env says so.
LEMMA ForgetUnsyncedSound ==
    ASSUME TripletSound, NEW i \in DOMAIN ram.mem, Triplet!ForgetUnsynced(i)
    PROVE  TripletSound'
<1> DEFINE w2 == Triplet!Replay(wal, [op |-> "delete", id |-> i])
<1>1. /\ Triplet!Resting /\ env' = [env EXCEPT !.calls = @ + 1, !.unsynced = @ \cup {i}]
      /\ todo' = todo /\ gap' = gap /\ ram' = ram /\ wal' = w2
  BY DEF Triplet!ForgetUnsynced
<1>2. /\ TripletCore(ram, wal, todo, gap, env)
      /\ PairOK(ram, wal, env.next, env.twice, AheadOf(todo, gap))
      /\ DeadOK(ram.mem, wal.mem, env.unsynced)
      /\ TagsOK(ram, wal) /\ DOMAIN ram = TripletFields /\ DOMAIN wal = TripletFields
      /\ TripletRows(ram.mem) /\ TripletRows(wal.mem) /\ DOMAIN wal.mem = DOMAIN ram.mem
  BY <1>1, RestingIs
<1>3. /\ SameEntries(w2, wal) /\ w2.over = wal.over /\ w2.mem = [wal.mem EXCEPT ![i].dead = TRUE]
  BY <1>2, ReplayDelete
<1> HIDE DEF w2
<1>4. RowEnded(w2.mem, wal.mem, i)
  BY <1>2, <1>3, EndRow
<1>5. MemsOK(ram.mem, w2.mem) /\ SameEntries(ram, ram)
  <2>1. SameEntries(ram, ram)
    BY <1>2 DEF SameEntries
  <2> HIDE DEF TripletRows
  <2> QED  BY <1>2, <1>4, <2>1 DEF MemsOK, RowEnded
<1>6. PairOK(ram, w2, env.next, env.twice, AheadOf(todo, gap))
  <2> HIDE DEF PairOK, AheadOf
  <2> QED  BY <1>2, <1>3, <1>5, PairRows
<1>7. TagsOK(ram, w2)
  <2> SUFFICES ASSUME NEW j \in DOMAIN ram.mem PROVE TagsAgree(ram, w2, j)
    BY DEF TagsOK
  <2>1. TagsAgree(ram, wal, j) /\ w2.mem[j].session = wal.mem[j].session
    BY <1>2, <1>4 DEF TagsOK, RowEnded
  <2> HIDE DEF Told
  <2> QED  BY <2>1 DEF TagsAgree, Witnessed
<1>8. /\ DOMAIN env' = EnvFields /\ (env').next = env.next /\ (env').twice = env.twice /\ (env').stale = env.stale
      /\ (env').unsynced = env.unsynced \cup {i}
  <2>1. DOMAIN env = EnvFields
    BY <1>2 DEF TripletCore
  <2> QED  BY <1>1, <2>1 DEF EnvFields
<1>9. DeadOK(ram.mem, w2.mem, (env').unsynced)
  <2> HIDE DEF TripletRows, TripletCore, PairOK
  <2> QED  BY <1>2, <1>4, <1>8 DEF DeadOK, RowEnded
<1>10. gap \in BOOLEAN /\ env.next \in Nat /\ env.stale \in BOOLEAN /\ (env.stale = FALSE => CountsOK(ram))
       /\ TodoOK(todo, ram)
  BY <1>2 DEF TripletCore, TripletSound, TripletInv
<1>11. TripletCore(ram, w2, todo, gap, env')
  <2> HIDE DEF PairOK, AheadOf, TagsOK, CountsOK, DeadOK, TripletCore, TodoOK
  <2> QED  BY <1>6, <1>7, <1>8, <1>9, <1>10 DEF TripletCore
<1> HIDE DEF TripletCore, TodoOK
<1>12. TripletInv(ram', wal', todo', gap', env')
  BY <1>1, <1>10, <1>11 DEF TripletInv
<1> QED  BY <1>12 DEF TripletSound

LEMMA InvalidateBySourceFileSound ==
    ASSUME TripletSound, Triplet!InvalidateBySourceFile
    PROVE  TripletSound'
<1> DEFINE hit == Triplet!From(ram, File)
<1>1. /\ Triplet!Resting /\ ram' = Triplet!Ended(ram, hit) /\ todo' = <<FileEnd>>
      /\ env' = [env EXCEPT !.calls = @ + 1, !.stale = TRUE] /\ wal' = wal /\ gap' = gap
  BY DEF Triplet!InvalidateBySourceFile, FileEnd
<1>2. /\ TripletCore(ram, wal, todo, gap, env)
      /\ PairOK(ram, wal, env.next, env.twice, AheadOf(todo, gap)) /\ TagsOK(ram, wal)
  BY <1>1, RestingIs
<1>3. AheadOf(todo, gap) \subseteq {File} /\ AheadOf(todo', gap') = {File}
  BY <1>1, AheadIs DEF AheadOf
<1>4. File # ""
  BY TripletAssumption
<1> HIDE DEF hit
<1>5. PairOK(ram', wal, env.next, env.twice, {File}) /\ NoFile(ram') /\ EndsIn(ram', ram, hit)
  <2> HIDE DEF PairOK, AheadOf, NoFile, EndsIn
  <2> QED  BY <1>1, <1>2, <1>3, <1>4, PairFile DEF hit
<1>6. RecordsKept(ram, ram')
  <2> SUFFICES ASSUME NEW f, Recorded(f), f \in Told(ram) PROVE f \in Told(ram')
    BY DEF RecordsKept
  <2>1. PICK k \in Triplet!Holding(ram, f) : k \notin ram.over
    BY ToldIs
  <2>2. k \notin hit
    <3>1. WitnessesStay(ram)
      BY <1>2 DEF PairOK
    <3> QED  BY <1>4, <2>1, <3>1 DEF hit, Triplet!From, Triplet!Holding, Triplet!Valid, WitnessesStay
  <2>3. Triplet!Holding(ram', f) = Triplet!Holding(ram, f) \ hit /\ (ram').over = ram.over
    <3>1. Triplet!Holding(ram', f) = Triplet!Holding(ram, f) \ hit
      BY <1>5, EndedHolds
    <3> QED  BY <1>5, <3>1 DEF EndsIn
  <2>4. k \in Triplet!Holding(ram', f) /\ k \notin (ram').over
    BY <2>1, <2>2, <2>3
  <2> HIDE DEF Told
  <2> QED  BY <2>4, ToldIs
<1>7. TagsOK(ram', wal)
  <2>1. (ram').mem = ram.mem
    BY <1>5 DEF EndsIn
  <2> HIDE DEF TagsOK, RecordsKept
  <2> QED  BY <1>2, <1>6, <2>1, TagsKept
<1>8. /\ DOMAIN env' = EnvFields /\ (env').next = env.next /\ (env').twice = env.twice /\ (env').stale = TRUE
      /\ (env').unsynced = env.unsynced
  <2>1. DOMAIN env = EnvFields
    BY <1>2 DEF TripletCore
  <2> QED  BY <1>1, <2>1 DEF EnvFields
<1>9. (env').stale \in BOOLEAN /\ (env').stale # FALSE
  BY <1>8, Zenon
<1>10. gap \in BOOLEAN /\ env.next \in Nat /\ DeadOK((ram').mem, wal.mem, env.unsynced)
  BY <1>2, <1>5 DEF TripletCore, EndsIn
<1>11. TodoOK(todo', ram')
  BY <1>1, <1>5 DEF TodoOK
<1>12. TripletCore(ram', wal', todo', gap', env')
  <2> HIDE DEF PairOK, AheadOf, TagsOK, CountsOK, DeadOK
  <2> QED  BY <1>1, <1>3, <1>5, <1>7, <1>8, <1>9, <1>10 DEF TripletCore
<1> HIDE DEF TripletCore, TodoOK
<1>13. TripletInv(ram', wal', todo', gap', env')
  BY <1>11, <1>12 DEF TripletInv
<1> QED  BY <1>13 DEF TripletSound

LEMMA StepLogSound ==
    ASSUME TripletSound, Triplet!StepLog
    PROVE  TripletSound'
<1>1. /\ todo # <<>> /\ Head(todo).op = "endfile" /\ todo' = Tail(todo) /\ ram' = ram /\ gap' = gap /\ env' = env
      /\ wal' = Triplet!Replay(wal, Head(todo))
  BY DEF Triplet!StepLog, Triplet!Resting
<1>2. TripletCore(ram, wal, todo, gap, env) /\ TodoOK(todo, ram)
  BY DEF TripletSound, TripletInv
<1>3. todo = <<FileEnd>> /\ NoFile(ram)
  <2> HIDE DEF AddStep, SessionSteps, EndSteps, FileEnd, NoFile
  <2> QED  BY <1>1, <1>2, AddHead, SessionHead, EndHead DEF TodoOK
<1>4. todo' = <<>> /\ Head(todo) = FileEnd
  BY <1>1, <1>3, FileHead
<1>5. wal' = Triplet!Ended(wal, Triplet!From(wal, File))
  BY <1>1, <1>4, ReplayEntries DEF FileEnd
<1>6. PairOK(ram, wal, env.next, env.twice, AheadOf(todo, gap)) /\ TagsOK(ram, wal)
  <2> HIDE DEF PairOK, AheadOf, TagsOK
  <2> QED  BY <1>2 DEF TripletCore
<1>7. AheadOf(todo, gap) \subseteq {File} /\ File # ""
  BY AheadIs, TripletAssumption
<1>8. PairOK(ram, wal', env.next, env.twice, AheadOf(todo', gap))
  <2> HIDE DEF PairOK, AheadOf, NoFile
  <2> QED  BY <1>3, <1>5, <1>6, <1>7, PairFileLogged
<1>9. TagsOK(ram, wal') /\ DeadOK(ram.mem, (wal').mem, env.unsynced)
  <2>1. TripletShape(wal, env.next)
    BY <1>6 DEF PairOK
  <2>2. Triplet!From(wal, File) \subseteq DOMAIN wal.entries
    BY DEF Triplet!From, Triplet!Valid
  <2>3. EndsIn(wal', wal, Triplet!From(wal, File))
    BY <1>5, <2>1, <2>2, EndedIs
  <2>4. (wal').mem = wal.mem
    BY <2>3 DEF EndsIn
  <2>5. DeadOK(ram.mem, wal.mem, env.unsynced)
    BY <1>2 DEF TripletCore
  <2> QED  BY <1>6, <2>4, <2>5 DEF TagsOK, TagsAgree
<1>10. TodoOK(todo', ram')
  BY <1>4 DEF TodoOK
<1>11. TripletCore(ram', wal', todo', gap', env')
  <2> HIDE DEF PairOK, AheadOf, TagsOK, CountsOK, DeadOK
  <2> QED  BY <1>1, <1>2, <1>8, <1>9 DEF TripletCore
<1> HIDE DEF TripletCore, TodoOK
<1>12. TripletInv(ram', wal', todo', gap', env')
  BY <1>10, <1>11 DEF TripletInv
<1> QED  BY <1>12 DEF TripletSound

\* A recorded session is one that its memory counts.
LEMMA RecordWitnessed ==
    ASSUME NEW r, NEW i, NEW x \in SessionTags, Triplet!Record(i, x).fact \in Told(r)
    PROVE  Witnessed(r, i, x)
<1>1. Triplet!Record(i, x).fact = <<i, "replication_session", x>>
  BY DEF Triplet!Record
<1> HIDE DEF Told, Triplet!Record
<1> QED  BY <1>1 DEF Witnessed, SessionTags

LEMMA RecordIs ==
    ASSUME NEW i, NEW x
    PROVE  /\ \E f, v, y : Triplet!Record(i, x) = AddOp(f, v, y) /\ OfNone(f, y)
           /\ Recorded(Triplet!Record(i, x).fact)
<1>1. Triplet!Record(i, x) = AddOp(<<i, "replication_session", x>>, 1, "")
  BY DEF Triplet!Record, AddOp
<1>2. Recorded(Triplet!Record(i, x).fact)
  BY DEF Triplet!Record, Recorded
<1>3. OfNone(<<i, "replication_session", x>>, "")
  BY DEF OfNone
<1> QED  BY <1>1, <1>2, <1>3

\* What is left after an addition.
LEMMA AddNext ==
    ASSUME NEW q, NEW r, TodoOK(q, r), q # <<>>, Head(q).op = "add", TripletRows(r.mem)
    PROVE  /\ \E f, v, y : Head(q) = AddOp(f, v, y) /\ OfNone(f, y)
           /\ \A r2 : (r2.mem = r.mem /\ RecordsKept(r, r2)
                       /\ (Recorded(Head(q).fact) => Head(q).fact \in Told(r2))) => TodoOK(Tail(q), r2)
<1>1. AddStep(q) \/ SessionSteps(q, r)
  <2> HIDE DEF AddStep, SessionSteps, EndSteps, FileEnd, NoFile
  <2> QED  BY EndHead, FileHead DEF TodoOK
<1>2. CASE AddStep(q)
  <2>1. PICK f, v, y : q = <<AddOp(f, v, y)>> /\ OfNone(f, y)
    BY <1>2 DEF AddStep
  <2>2. Head(q) = AddOp(f, v, y) /\ Tail(q) = <<>>
    <3> HIDE DEF AddOp
    <3> QED  BY <2>1
  <2>3. \A r2 : TodoOK(Tail(q), r2)
    BY <2>2 DEF TodoOK
  <2> HIDE DEF TodoOK, AddOp, OfNone
  <2> QED  BY <2>1, <2>2, <2>3
<1>3. CASE SessionSteps(q, r)
  <2>1. PICK i \in DOMAIN r.mem, x \in TripletSessions :
       \/ q = <<Triplet!Record(i, r.mem[i].session), Triplet!Record(i, x), TagOp(i, x)>>
       \/ q = <<Triplet!Record(i, x), TagOp(i, x)>> /\ Witnessed(r, i, r.mem[i].session)
       \/ q = <<TagOp(i, x)>> /\ Witnessed(r, i, r.mem[i].session) /\ Witnessed(r, i, x)
    BY <1>3 DEF SessionSteps
  <2>2. TagOp(i, x).op # "add"
    BY DEF TagOp
  <2>3. x \in SessionTags /\ r.mem[i].session \in SessionTags
    BY DEF SessionTags, TripletRows
  <2> HIDE DEF Triplet!Record, TagOp, SessionTags
  <2>4. CASE q = <<Triplet!Record(i, r.mem[i].session), Triplet!Record(i, x), TagOp(i, x)>>
    <3>1. Head(q) = Triplet!Record(i, r.mem[i].session) /\ Tail(q) = <<Triplet!Record(i, x), TagOp(i, x)>>
      BY <2>4
    <3>2. \E f, v, y : Head(q) = AddOp(f, v, y) /\ OfNone(f, y)
      BY <3>1, RecordIs
    <3>3. ASSUME NEW r2, r2.mem = r.mem, RecordsKept(r, r2), Recorded(Head(q).fact) => Head(q).fact \in Told(r2)
          PROVE  TodoOK(Tail(q), r2)
      <4>1. Head(q).fact \in Told(r2)
        BY <3>1, <3>3, RecordIs
      <4>2. Witnessed(r2, i, r2.mem[i].session)
        BY <2>3, <3>1, <3>3, <4>1, RecordWitnessed
      <4>3. SessionSteps(Tail(q), r2)
        <5> HIDE DEF Witnessed
        <5> QED  BY <3>1, <3>3, <4>2 DEF SessionSteps
      <4> QED  BY <4>3 DEF TodoOK
    <3> QED  BY <3>2, <3>3
  <2>5. CASE q = <<Triplet!Record(i, x), TagOp(i, x)>> /\ Witnessed(r, i, r.mem[i].session)
    <3>1. Head(q) = Triplet!Record(i, x) /\ Tail(q) = <<TagOp(i, x)>>
      BY <2>5
    <3>2. \E f, v, y : Head(q) = AddOp(f, v, y) /\ OfNone(f, y)
      BY <3>1, RecordIs
    <3>3. ASSUME NEW r2, r2.mem = r.mem, RecordsKept(r, r2), Recorded(Head(q).fact) => Head(q).fact \in Told(r2)
          PROVE  TodoOK(Tail(q), r2)
      <4>1. Head(q).fact \in Told(r2)
        BY <3>1, <3>3, RecordIs
      <4>2. Witnessed(r2, i, x)
        BY <2>3, <3>1, <4>1, RecordWitnessed
      <4>3. Witnessed(r2, i, r2.mem[i].session)
        <5> HIDE DEF Witnessed, RecordsKept
        <5> QED  BY <2>5, <3>3, WitnessedKept
      <4>4. SessionSteps(Tail(q), r2)
        <5> HIDE DEF Witnessed
        <5> QED  BY <3>1, <3>3, <4>2, <4>3 DEF SessionSteps
      <4> QED  BY <4>4 DEF TodoOK
    <3> QED  BY <3>2, <3>3
  <2>6. q # <<TagOp(i, x)>>
    BY <2>2
  <2> QED  BY <2>1, <2>4, <2>5, <2>6
<1> QED  BY <1>1, <1>2, <1>3

NewOp(o, n) == [op |-> "add", id |-> n, fact |-> o.fact, weight |-> o.weight, from |-> o.from]

LEMMA AddOne ==
    ASSUME TripletSound, todo # <<>>, Head(todo).op = "add", NEW f, NEW v, NEW y, Head(todo) = AddOp(f, v, y),
           OfNone(f, y), Recorded(f) => f \notin Told(ram), NEW e2, DOMAIN e2 = EnvFields, e2.next = env.next + 1,
           e2.stale = env.stale, e2.unsynced = env.unsynced,
           e2.twice = IF Triplet!Holding(wal, f) = {} THEN env.twice ELSE env.twice \cup {f},
           NEW op, op = NewOp(Head(todo), env.next), NEW r3, NEW w2,
           r3 = Triplet!Refresh(Triplet!Replay(ram, op), Triplet!AffectedEdge(f)), w2 = Triplet!Replay(wal, op)
    PROVE  TripletInv(r3, w2, Tail(todo), gap, e2)
<1> DEFINE r2 == Triplet!Added(ram, op)
           q2 == Tail(todo)
<1>1. op.op = "add" /\ op.id = env.next /\ op.fact = f /\ op.weight = v /\ op.from = y /\ Head(todo).fact = f
  BY DEF NewOp, AddOp
<1>2. r3 = Triplet!Refresh(r2, Triplet!AffectedEdge(f)) /\ w2 = Triplet!Added(wal, op)
  BY <1>1, ReplayEntries
<1>3. TripletCore(ram, wal, todo, gap, env) /\ TodoOK(todo, ram)
  BY DEF TripletSound, TripletInv
<1>4. PairOK(ram, wal, env.next, env.twice, AheadOf(q2, gap)) /\ TagsOK(ram, wal) /\ env.next \in Nat
  <2>1. DOMAIN env = EnvFields
    BY <1>3 DEF TripletCore
  <2>2. TripletCore(ram, wal, q2, gap, env)
    <3> HIDE DEF TripletCore
    <3> QED  BY <1>3, <2>1, CoreKept
  <2> HIDE DEF PairOK, AheadOf, TagsOK
  <2> QED  BY <2>2 DEF TripletCore
<1>5. AddsFact(op, env.next, wal, env.twice, e2.twice)
  <2>1. ASSUME Recorded(f) PROVE Triplet!Holding(wal, f) = {}
    <3>1. /\ WitnessesStay(ram) /\ WitnessesStay(wal) /\ HoldOK(ram, wal, env.twice, AheadOf(q2, gap))
          /\ f \notin env.twice
      BY <1>4, <2>1 DEF PairOK
    <3>2. Triplet!Holding(ram, f) = {}
      BY <2>1, <3>1, RecordHeld
    <3>3. \A k \in Triplet!Holding(wal, f) : wal.entries[k].from \in {File}
      BY <3>1, <3>2, AheadIs DEF HoldOK
    <3>4. \A k \in Triplet!Holding(wal, f) : wal.entries[k].from = ""
      BY <2>1, <3>1 DEF WitnessesStay, Triplet!Holding, Triplet!Valid
    <3> QED  BY <3>3, <3>4, TripletAssumption
  <2> HIDE DEF Recorded
  <2> QED  BY <1>1, <2>1 DEF AddsFact, OfNone
<1>6. PairOK(r2, w2, e2.next, e2.twice, AheadOf(q2, gap)) /\ AddsTo(r2, ram, op)
  <2>1. PairOK(r2, w2, env.next + 1, e2.twice, AheadOf(q2, gap)) /\ AddsTo(r2, ram, op)
    <3> HIDE DEF PairOK, AheadOf, AddsTo, AddsFact
    <3> QED  BY <1>2, <1>4, <1>5, PairAdds
  <2> HIDE DEF PairOK, AheadOf, AddsTo, r2, q2
  <2> QED  BY <2>1
<1>7. /\ r2.mem = ram.mem /\ r2.count = ram.count /\ op.id \notin DOMAIN ram.entries /\ op.id \notin ram.over
  <2>1. r2.mem = ram.mem /\ r2.count = ram.count
    BY <1>6 DEF AddsTo
  <2>2. TripletShape(ram, env.next) /\ \A k \in ram.over : k \in Nat /\ k < env.next
    BY <1>4 DEF PairOK
  <2>3. env.next \notin DOMAIN ram.entries
    BY <1>4, <2>2 DEF TripletShape
  <2>4. env.next \notin ram.over
    BY <1>4, <2>2
  <2> QED  BY <1>1, <2>1, <2>3, <2>4
<1> HIDE DEF r2, q2
<1>8. w2.mem = wal.mem
  <2>1. TripletShape(wal, env.next)
    BY <1>4 DEF PairOK
  <2>2. AddsTo(w2, wal, op)
    BY <1>1, <1>2, <1>4, <2>1, AddedIs
  <2> QED  BY <2>2 DEF AddsTo
<1>9. (\A g : g # f => (g \in Told(ram) <=> g \in Told(r2))) /\ f \in Told(r2)
  BY <1>1, <1>6, <1>7, AddedTold
<1>10. RecordsKept(ram, r2)
  BY <1>9 DEF RecordsKept
<1>11. TagsOK(r2, w2)
  <2> HIDE DEF TagsOK, RecordsKept
  <2> QED  BY <1>4, <1>7, <1>8, <1>10, TagsKept
<1>12. CountsStep(ram, r2, Triplet!AffectedEdge(f))
  <2>1. Touches(ram, r2, Triplet!AffectedEdge(f))
    <3> HIDE DEF Told, Touches
    <3> QED  BY <1>7, <1>9, TouchesFact
  <2>2. Triplet!AffectedEdge(f) \subseteq TripletIds
    BY DEF Triplet!AffectedEdge
  <2> HIDE DEF Touches
  <2> QED  BY <1>7, <2>1, <2>2 DEF CountsStep
<1>13. TodoOK(q2, r2)
  <2>1. TripletRows(ram.mem)
    BY <1>4 DEF PairOK
  <2> HIDE DEF TodoOK, RecordsKept, TripletRows, Recorded, Told
  <2> QED  BY <1>1, <1>3, <1>7, <1>9, <1>10, <2>1, AddNext DEF q2
<1>14. e2.next \in Nat /\ DeadOK(r2.mem, w2.mem, e2.unsynced)
  <2>1. DeadOK(ram.mem, wal.mem, env.unsynced)
    BY <1>3 DEF TripletCore
  <2> HIDE DEF DeadOK
  <2> QED  BY <1>4, <1>7, <1>8, <2>1
<1> HIDE DEF TripletCore, PairOK, AheadOf, TagsOK, TodoOK, CountsStep, TripletInv, DeadOK
<1> QED  BY <1>2, <1>3, <1>6, <1>11, <1>12, <1>13, <1>14, CommitOK DEF q2

LEMMA StepAddSound ==
    ASSUME TripletSound, Triplet!StepAdd
    PROVE  TripletSound'
<1> DEFINE op == NewOp(Head(todo), env.next)
           f == Head(todo).fact
<1>1. /\ todo # <<>> /\ Head(todo).op = "add" /\ todo' = Tail(todo) /\ gap' = gap
      /\ \/ f[2] = "replication_session" /\ f \in Triplet!Beliefs(ram) /\ ram' = ram /\ wal' = wal /\ env' = env
         \/ /\ ~(f[2] = "replication_session" /\ f \in Triplet!Beliefs(ram))
            /\ ram' = Triplet!Refresh(Triplet!Replay(ram, op), Triplet!AffectedEdge(f))
            /\ wal' = Triplet!Replay(wal, op)
            /\ env' = [env EXCEPT !.next = @ + 1,
                         !.twice = IF Triplet!Holding(wal, f) = {} THEN @ ELSE @ \cup {f}]
  BY DEF Triplet!StepAdd, Triplet!Resting, Triplet!Commit, NewOp
<1>2. TripletCore(ram, wal, todo, gap, env) /\ TodoOK(todo, ram) /\ DOMAIN env = EnvFields /\ TripletRows(ram.mem)
  BY DEF TripletSound, TripletInv, TripletCore, PairOK
<1>3. PICK g, v, y : Head(todo) = AddOp(g, v, y) /\ OfNone(g, y)
  <2> HIDE DEF TodoOK, OfNone, AddOp, TripletRows
  <2> QED  BY <1>1, <1>2, AddNext
<1>4. f = g
  BY <1>3 DEF AddOp
<1>5. CASE Recorded(f) /\ f \in Told(ram) /\ ram' = ram /\ wal' = wal /\ env' = env
  <2>1. RecordsKept(ram, ram)
    BY DEF RecordsKept
  <2>2. TodoOK(todo', ram)
    <3> HIDE DEF TodoOK, TripletRows, RecordsKept, Recorded, Told
    <3> QED  BY <1>1, <1>2, <1>5, <2>1, AddNext
  <2> HIDE DEF TripletCore, TodoOK, f
  <2>3. TripletCore(ram, wal, todo', gap, env)
    BY <1>1, <1>2, CoreKept
  <2>4. TripletInv(ram', wal', todo', gap', env')
    BY <1>1, <1>5, <2>2, <2>3 DEF TripletInv
  <2> HIDE DEF TripletInv
  <2> QED  BY <2>4 DEF TripletSound
<1>6. CASE /\ ~(Recorded(f) /\ f \in Told(ram))
           /\ ram' = Triplet!Refresh(Triplet!Replay(ram, op), Triplet!AffectedEdge(f))
           /\ wal' = Triplet!Replay(wal, op)
           /\ env' = [env EXCEPT !.next = @ + 1,
                        !.twice = IF Triplet!Holding(wal, f) = {} THEN @ ELSE @ \cup {f}]
  <2>1. /\ DOMAIN env' = EnvFields /\ (env').next = env.next + 1 /\ (env').stale = env.stale
        /\ (env').unsynced = env.unsynced
        /\ (env').twice = IF Triplet!Holding(wal, f) = {} THEN env.twice ELSE env.twice \cup {f}
    <3> HIDE DEF f
    <3> QED  BY <1>2, <1>6 DEF EnvFields
  <2>2. TripletInv(ram', wal', Tail(todo), gap, env')
    <3> HIDE DEF TripletInv, f, OfNone, AddOp, op, Recorded, Told
    <3> QED  BY <1>1, <1>3, <1>4, <1>6, <2>1, AddOne DEF op
  <2> HIDE DEF TripletInv
  <2> QED  BY <1>1, <2>2 DEF TripletSound
<1> QED  BY <1>1, <1>5, <1>6 DEF Recorded, Told

RowTagged(k, m, i, x) ==
    /\ TripletRows(k) /\ DOMAIN k = DOMAIN m /\ k[i].dead = m[i].dead /\ k[i].session = x
    /\ \A j \in DOMAIN m : j # i => k[j] = m[j]

LEMMA TagRow ==
    ASSUME NEW m, TripletRows(m), NEW i \in DOMAIN m, NEW x \in SessionTags, NEW k,
           k = [m EXCEPT ![i].session = x]
    PROVE  RowTagged(k, m, i, x)
<1> HIDE DEF SessionTags
<1>1. /\ DOMAIN k = DOMAIN m /\ \A j \in DOMAIN m : j # i => k[j] = m[j]
      /\ k[i] = [m[i] EXCEPT !.session = x]
  OBVIOUS
<1>2. DOMAIN k[i] = RowFields /\ k[i].dead = m[i].dead /\ k[i].session = x
  BY <1>1 DEF TripletRows, RowFields
<1>3. TripletRows(k)
  <2> HIDE DEF RowFields
  <2>1. \A j \in DOMAIN m : DOMAIN k[j] = RowFields
    BY <1>1, <1>2 DEF TripletRows
  <2>2. \A j \in DOMAIN m : k[j].dead \in BOOLEAN
    BY <1>1, <1>2 DEF TripletRows
  <2>3. \A j \in DOMAIN m : k[j].session \in SessionTags
    BY <1>1, <1>2 DEF TripletRows
  <2> QED  BY <1>1, <2>1, <2>2, <2>3 DEF TripletRows
<1> QED  BY <1>1, <1>2, <1>3 DEF RowTagged

LEMMA StepTagSound ==
    ASSUME TripletSound, Triplet!StepTag
    PROVE  TripletSound'
<1>1. /\ todo # <<>> /\ Head(todo).op = "tag" /\ todo' = Tail(todo) /\ wal' = wal /\ gap' = gap /\ env' = env
      /\ ram' = Triplet!Refresh([ram EXCEPT !.mem[Head(todo).id].session = Head(todo).session], {Head(todo).id})
  BY DEF Triplet!StepTag, Triplet!Resting
<1>2. TripletCore(ram, wal, todo, gap, env) /\ TodoOK(todo, ram) /\ DOMAIN env = EnvFields
  BY DEF TripletSound, TripletInv, TripletCore
<1>3. SessionSteps(todo, ram)
  <2> HIDE DEF AddStep, SessionSteps, EndSteps, FileEnd, NoFile
  <2> QED  BY <1>1, <1>2, AddHead, EndHead, FileHead DEF TodoOK
<1>4. PICK i \in DOMAIN ram.mem, x \in TripletSessions :
        todo = <<TagOp(i, x)>> /\ Witnessed(ram, i, ram.mem[i].session) /\ Witnessed(ram, i, x)
  <2>1. PICK i \in DOMAIN ram.mem, x \in TripletSessions :
       \/ todo = <<Triplet!Record(i, ram.mem[i].session), Triplet!Record(i, x), TagOp(i, x)>>
       \/ todo = <<Triplet!Record(i, x), TagOp(i, x)>> /\ Witnessed(ram, i, ram.mem[i].session)
       \/ todo = <<TagOp(i, x)>> /\ Witnessed(ram, i, ram.mem[i].session) /\ Witnessed(ram, i, x)
    BY <1>3 DEF SessionSteps
  <2>2. \A y : Triplet!Record(i, y).op # "tag"
    BY DEF Triplet!Record
  <2> HIDE DEF Triplet!Record, TagOp, Witnessed
  <2>3. /\ todo # <<Triplet!Record(i, ram.mem[i].session), Triplet!Record(i, x), TagOp(i, x)>>
        /\ todo # <<Triplet!Record(i, x), TagOp(i, x)>>
    BY <1>1, <2>2
  <2> QED  BY <2>1, <2>3
<1>5. Head(todo) = TagOp(i, x) /\ todo' = <<>>
  <2> HIDE DEF TagOp
  <2> QED  BY <1>1, <1>4
<1>6. Head(todo).id = i /\ Head(todo).session = x /\ Head(todo).op # "endfile"
  BY <1>5 DEF TagOp
<1> DEFINE r2 == [ram EXCEPT !.mem[i].session = x]
<1>7. ram' = Triplet!Refresh(r2, {i})
  BY <1>1, <1>6
<1>8. PairOK(ram, wal, env.next, env.twice, AheadOf(todo', gap)) /\ TagsOK(ram, wal) /\ env.next \in Nat
      /\ DeadOK(ram.mem, wal.mem, env.unsynced)
  <2>1. TripletCore(ram, wal, todo', gap, env)
    <3> HIDE DEF TripletCore
    <3> QED  BY <1>2, <1>6, CoreKept
  <2> HIDE DEF PairOK, AheadOf, TagsOK, DeadOK
  <2> QED  BY <2>1 DEF TripletCore
<1>9. /\ DOMAIN ram = TripletFields /\ DOMAIN wal = TripletFields /\ TripletRows(ram.mem) /\ TripletRows(wal.mem)
      /\ DOMAIN wal.mem = DOMAIN ram.mem
  BY <1>8 DEF PairOK, TripletShape
<1>10. /\ SameEntries(r2, ram) /\ r2.over = ram.over /\ r2.count = ram.count
       /\ r2.mem = [ram.mem EXCEPT ![i].session = x]
  BY <1>9 DEF SameEntries, TripletFields
<1> HIDE DEF r2
<1>11. RowTagged(r2.mem, ram.mem, i, x)
  <2>1. x \in SessionTags
    BY DEF SessionTags
  <2> QED  BY <1>9, <1>10, <2>1, TagRow
<1>12. MemsOK(r2.mem, wal.mem)
  <2> HIDE DEF TripletRows
  <2> QED  BY <1>9, <1>11 DEF MemsOK, RowTagged
<1>13. SameEntries(wal, wal)
  BY <1>9 DEF SameEntries
<1>14. PairOK(r2, wal, env.next, env.twice, AheadOf(todo', gap))
  <2> HIDE DEF PairOK, AheadOf
  <2> QED  BY <1>8, <1>10, <1>12, <1>13, PairRows
<1>15. Told(r2) = Told(ram)
  BY <1>10, RowsTold
<1>16. TagsOK(r2, wal)
  <2> SUFFICES ASSUME NEW j \in DOMAIN r2.mem PROVE TagsAgree(r2, wal, j)
    BY DEF TagsOK
  <2>1. j \in DOMAIN ram.mem /\ TagsAgree(ram, wal, j)
    BY <1>8, <1>11 DEF TagsOK, RowTagged
  <2>2. \A y : Witnessed(ram, j, y) => Witnessed(r2, j, y)
    <3> HIDE DEF Told
    <3> QED  BY <1>15 DEF Witnessed
  <2>3. CASE j = i
    <3> HIDE DEF Witnessed
    <3> QED  BY <1>4, <1>11, <2>1, <2>2, <2>3 DEF TagsAgree, RowTagged
  <2>4. CASE j # i
    <3> HIDE DEF Witnessed
    <3> QED  BY <1>11, <2>1, <2>2, <2>4 DEF TagsAgree, RowTagged
  <2> QED  BY <2>3, <2>4
<1>17. CountsStep(ram, r2, {i})
  <2>1. DOMAIN ram.mem \subseteq TripletIds
    BY <1>9 DEF TripletRows
  <2>2. Touches(ram, r2, {i})
    <3> HIDE DEF Told
    <3> QED  BY <1>11, <1>15, <2>1, TouchesMemory DEF RowTagged
  <2> HIDE DEF Touches
  <2> QED  BY <1>10, <1>11, <2>1, <2>2 DEF CountsStep, RowTagged
<1>18. TodoOK(todo', r2)
  BY <1>5 DEF TodoOK
<1>19. DeadOK(r2.mem, wal.mem, env.unsynced)
  <2> HIDE DEF TripletRows
  <2> QED  BY <1>8, <1>11 DEF DeadOK, RowTagged
<1> HIDE DEF TripletCore, PairOK, AheadOf, TagsOK, TodoOK, CountsStep, TripletInv, DeadOK
<1>20. TripletInv(ram', wal, todo', gap, env)
  BY <1>2, <1>7, <1>8, <1>14, <1>16, <1>17, <1>18, <1>19, CommitOK
<1> QED  BY <1>1, <1>20 DEF TripletSound

LEMMA AppendFailsSound ==
    ASSUME TripletSound, Triplet!AppendFails
    PROVE  TripletSound'
<1>1. /\ todo # <<>> /\ Head(todo).op # "tag" /\ gap' = (gap \/ Head(todo).op = "endfile")
      /\ ram' = ram /\ wal' = wal /\ env' = env
      /\ todo' = <<>> \/ (Head(todo).op = "end" /\ todo' = Tail(todo))
  BY DEF Triplet!AppendFails, Triplet!Resting
<1>2. TripletCore(ram, wal, todo, gap, env) /\ TodoOK(todo, ram) /\ DOMAIN env = EnvFields /\ gap \in BOOLEAN
  BY DEF TripletSound, TripletInv, TripletCore
<1>3. TodoOK(todo', ram)
  <2>1. CASE todo' = <<>>
    BY <2>1 DEF TodoOK
  <2>2. CASE Head(todo).op = "end" /\ todo' = Tail(todo)
    <3>1. EndSteps(todo, ram)
      <4> HIDE DEF AddStep, SessionSteps, EndSteps, FileEnd, NoFile
      <4> QED  BY <1>1, <1>2, <2>2, AddHead, SessionHead, FileHead DEF TodoOK
    <3>2. EndSteps(todo', ram)
      BY <1>1, <2>2, <3>1, EndHead
    <3> QED  BY <3>2 DEF TodoOK
  <2> QED  BY <1>1, <2>1, <2>2
<1>4. CASE Head(todo).op # "endfile"
  <2>1. gap' = gap
    BY <1>1, <1>2, <1>4
  <2> HIDE DEF TripletCore, TodoOK
  <2>2. TripletCore(ram, wal, todo', gap, env)
    BY <1>2, <1>4, CoreKept
  <2>3. TripletInv(ram', wal', todo', gap', env')
    BY <1>1, <1>3, <2>1, <2>2 DEF TripletInv
  <2> HIDE DEF TripletInv
  <2> QED  BY <2>3 DEF TripletSound
<1>5. CASE Head(todo).op = "endfile"
  <2>1. gap' = TRUE
    BY <1>1, <1>5
  <2>2. AheadOf(todo', gap') = {File}
    BY <2>1 DEF AheadOf
  <2>3. PairOK(ram, wal, env.next, env.twice, AheadOf(todo, gap))
    <3> HIDE DEF PairOK, AheadOf
    <3> QED  BY <1>2 DEF TripletCore
  <2>4. PairOK(ram, wal, env.next, env.twice, AheadOf(todo', gap'))
    <3>1. AheadOf(todo, gap) \subseteq AheadOf(todo', gap')
      BY <2>2, AheadIs
    <3> HIDE DEF PairOK, AheadOf
    <3> QED  BY <2>3, <3>1, PairAhead
  <2>5. gap' \in BOOLEAN
    BY <2>1, Zenon
  <2>6. TripletCore(ram', wal', todo', gap', env')
    <3> HIDE DEF PairOK, AheadOf, TagsOK, CountsOK, DeadOK
    <3> QED  BY <1>1, <1>2, <2>4, <2>5 DEF TripletCore
  <2> HIDE DEF TripletCore, TodoOK
  <2>7. TripletInv(ram', wal', todo', gap', env')
    BY <1>1, <1>3, <2>6 DEF TripletInv
  <2> HIDE DEF TripletInv
  <2> QED  BY <2>7 DEF TripletSound
<1> QED  BY <1>4, <1>5

\* open(): the cleaned log, recounted.
LEMMA OpenedSound ==
    ASSUME NEW w, NEW e, DOMAIN e = EnvFields, e.next \in Nat, e.stale = FALSE, Cleanable(w, e.next, e.twice), NEW r,
           r = Triplet!Recounted(Triplet!CleanForLoad(w))
    PROVE  TripletInv(r, w, <<>>, FALSE, e)
<1> DEFINE c == Triplet!CleanForLoad(w)
<1>1. PairOK(c, w, e.next, e.twice, AheadOf(<<>>, FALSE)) /\ c.mem = w.mem
  BY PairCleaned
<1> HIDE DEF c
<1>2. DOMAIN c = TripletFields /\ TripletRows(c.mem)
  BY <1>1 DEF PairOK, TripletShape
<1>3. ButCounts(r, c) /\ r.count = [i \in DOMAIN c.mem |-> Triplet!Replication(c, i)]
  BY <1>2, RecountedIs DEF c
<1>4. PairOK(r, w, e.next, e.twice, AheadOf(<<>>, FALSE))
  <2> HIDE DEF PairOK, AheadOf
  <2> QED  BY <1>1, <1>3, PairCounts
<1>5. r.mem = c.mem
  BY <1>3 DEF ButCounts
<1>6. TagsOK(r, w)
  BY <1>1, <1>5 DEF TagsOK, TagsAgree
<1>7. CountsOK(r)
  <2>1. DOMAIN r.mem \subseteq TripletIds
    BY <1>2, <1>5 DEF TripletRows
  <2>2. \A i \in DOMAIN r.mem : Triplet!Replication(r, i) = Triplet!Replication(c, i)
    BY <1>3, <1>5, <2>1, ButCountsCount
  <2>3. \A i \in DOMAIN r.mem : r.count[i] = Triplet!Replication(r, i)
    BY <1>3, <1>5, <2>2
  <2>4. r.count = [i \in DOMAIN r.mem |-> r.count[i]]
    BY <1>3, <1>5
  <2> QED  BY <2>1, <2>3, <2>4 DEF CountsOK
<1>8. TodoOK(<<>>, r)
  BY DEF TodoOK
<1>9. FALSE \in BOOLEAN /\ e.stale \in BOOLEAN
  BY Zenon
<1>10. TripletCore(r, w, <<>>, FALSE, e)
  <2>1. DeadOK(r.mem, w.mem, e.unsynced)
    BY <1>1, <1>5 DEF DeadOK
  <2> HIDE DEF PairOK, AheadOf, TagsOK, CountsOK, DeadOK
  <2> QED  BY <1>4, <1>6, <1>7, <1>9, <2>1 DEF TripletCore
<1> QED  BY <1>8, <1>10 DEF TripletInv

LEMMA RestartSound ==
    ASSUME TripletSound, Triplet!Restart
    PROVE  TripletSound'
<1>1. /\ ram' = Triplet!Recounted(Triplet!CleanForLoad(wal)) /\ todo' = <<>> /\ gap' = FALSE /\ wal' = wal
      /\ env' = [env EXCEPT !.stale = FALSE, !.unsynced = {}]
  BY DEF Triplet!Restart, Triplet!Reopened
<1>2. DOMAIN env = EnvFields /\ env.next \in Nat /\ PairOK(ram, wal, env.next, env.twice, AheadOf(todo, gap))
  <2> HIDE DEF PairOK, AheadOf
  <2> QED  BY DEF TripletSound, TripletInv, TripletCore
<1>3. Cleanable(wal, env.next, env.twice)
  <2> HIDE DEF PairOK, AheadOf, Cleanable
  <2> QED  BY <1>2, PairCleanable
<1>4. DOMAIN env' = EnvFields /\ (env').next = env.next /\ (env').twice = env.twice /\ (env').stale = FALSE
  BY <1>1, <1>2 DEF EnvFields
<1> HIDE DEF TripletInv, Cleanable
<1>5. TripletInv(ram', wal, <<>>, FALSE, env')
  BY <1>1, <1>2, <1>3, <1>4, OpenedSound
<1> QED  BY <1>1, <1>5 DEF TripletSound

LEMMA SaveSound ==
    ASSUME TripletSound, Triplet!Save
    PROVE  TripletSound'
<1>1. /\ Triplet!Resting /\ wal' = Triplet!CleanForLoad(ram) /\ gap' = FALSE
      /\ ram' = ram /\ todo' = todo /\ env' = [env EXCEPT !.unsynced = {}]
  BY DEF Triplet!Save
<1>2. TripletCore(ram, wal, todo, gap, env) /\ TodoOK(todo, ram)
  BY DEF TripletSound, TripletInv
<1>3. Cleanable(ram, env.next, env.twice)
  <2>1. PairOK(ram, wal, env.next, env.twice, AheadOf(todo, gap))
    <3> HIDE DEF PairOK, AheadOf
    <3> QED  BY <1>2 DEF TripletCore
  <2> HIDE DEF PairOK, AheadOf, Cleanable
  <2> QED  BY <2>1, PairCleanable
<1>4. PairOK(ram, wal', env.next, env.twice, AheadOf(todo, FALSE)) /\ (wal').mem = ram.mem
  <2> HIDE DEF PairOK, AheadOf, Cleanable
  <2> QED  BY <1>1, <1>3, PairCleaned
<1>5. TagsOK(ram, wal')
  BY <1>4 DEF TagsOK, TagsAgree
<1>6. FALSE \in BOOLEAN
  BY Zenon
<1>7. TripletCore(ram, wal', todo, FALSE, env')
  <2>1. /\ DOMAIN env = EnvFields /\ env.next \in Nat /\ env.stale \in BOOLEAN
        /\ (env.stale = FALSE => CountsOK(ram))
    BY <1>2 DEF TripletCore
  <2>2. /\ DOMAIN env' = EnvFields /\ (env').next = env.next /\ (env').twice = env.twice /\ (env').stale = env.stale
    BY <1>1, <2>1 DEF EnvFields
  <2>3. DeadOK(ram.mem, (wal').mem, (env').unsynced)
    BY <1>4 DEF DeadOK
  <2> HIDE DEF PairOK, AheadOf, TagsOK, CountsOK, DeadOK, TripletCore
  <2> QED  BY <1>4, <1>5, <1>6, <2>1, <2>2, <2>3 DEF TripletCore
<1> HIDE DEF TripletCore, TodoOK
<1>8. TripletInv(ram', wal', todo', gap', env')
  BY <1>1, <1>2, <1>7 DEF TripletInv
<1> HIDE DEF TripletInv
<1> QED  BY <1>8 DEF TripletSound

LEMMA EmptyCleanable ==
    Cleanable(Triplet!Empty, 3, {})
<1> DEFINE s == Triplet!Empty
<1>1. /\ DOMAIN s = TripletFields /\ DOMAIN s.entries = {} /\ s.over = {} /\ s.clean = TRUE /\ s.all = FALSE
      /\ DOMAIN s.mem = {} /\ s.entries = [k \in DOMAIN s.entries |-> s.entries[k]]
  BY DEF Triplet!Empty, TripletFields
<1>2. s.clean \in BOOLEAN /\ s.all \in BOOLEAN
  BY <1>1, Zenon
<1> HIDE DEF s
<1>3. TripletShape(s, 3)
  BY <1>1, <1>2 DEF TripletShape
<1>4. MarksOK(s) /\ WitnessesStay(s) /\ TripletRows(s.mem)
  BY <1>1 DEF MarksOK, WitnessesStay, TripletRows
<1>5. \A f : Single(s, f)
  BY <1>1 DEF Single, Triplet!Holding, Triplet!Valid
<1>6. Cleanable(s, 3, {})
  <2> HIDE DEF TripletShape, MarksOK, WitnessesStay, TripletRows, Single, Recorded
  <2> QED  BY <1>1, <1>3, <1>4, <1>5 DEF Cleanable
<1> QED  BY <1>6 DEF s

LEMMA LegacyCleanable ==
    ASSUME NEW f \in Facts
    PROVE  Cleanable(Triplet!Legacy(f), 3, {f})
<1> DEFINE s == Triplet!Legacy(f)
           x == [i \in 1..2 |-> [fact |-> f, weight |-> i, from |-> "", ended |-> FALSE]]
<1>1. s = [Triplet!Empty EXCEPT !.entries = x, !.clean = FALSE, !.all = TRUE]
  BY DEF Triplet!Legacy
<1>2. /\ DOMAIN x = 1..2 /\ x = [k \in DOMAIN x |-> x[k]]
      /\ \A k \in 1..2 : DOMAIN x[k] = EntryFields /\ x[k].fact = f /\ x[k].ended = FALSE
  BY DEF EntryFields
<1> HIDE DEF x
<1>3. /\ DOMAIN s = TripletFields /\ s.entries = x /\ s.over = {} /\ s.clean = FALSE /\ s.all = TRUE
      /\ DOMAIN s.mem = {}
  BY <1>1 DEF Triplet!Empty, TripletFields
<1>4. s.clean \in BOOLEAN /\ s.all \in BOOLEAN /\ \A k \in 1..2 : x[k].ended \in BOOLEAN
  BY <1>2, <1>3, Zenon
<1> HIDE DEF s
<1>5. \A k \in 1..2 : k \in Nat /\ k < 3
  OBVIOUS
<1>6. TripletShape(s, 3)
  BY <1>2, <1>3, <1>4, <1>5 DEF TripletShape
<1>7. ~Recorded(f)
  BY TripletAssumption DEF Recorded
<1>8. MarksOK(s) /\ WitnessesStay(s) /\ TripletRows(s.mem)
  BY <1>2, <1>3, <1>7 DEF MarksOK, WitnessesStay, TripletRows
<1>9. \A g : g \notin {f} => Single(s, g)
  BY <1>2, <1>3 DEF Single, Triplet!Holding, Triplet!Valid
<1>10. Cleanable(s, 3, {f})
  <2> HIDE DEF TripletShape, MarksOK, WitnessesStay, TripletRows, Single, Recorded
  <2> QED  BY <1>3, <1>6, <1>7, <1>8, <1>9 DEF Cleanable
<1> QED  BY <1>10 DEF s

LEMMA TripletStart ==
    ASSUME Triplet!Init
    PROVE  TripletSound
<1>1. ram = Triplet!Recounted(Triplet!CleanForLoad(wal)) /\ todo = <<>> /\ gap = FALSE
  BY DEF Triplet!Init
<1>2. \E t : env = Triplet!Fresh(t) /\ Cleanable(wal, 3, t)
  <2> HIDE DEF Cleanable, Triplet!Empty, Triplet!Legacy, Triplet!Fresh
  <2>1. CASE wal = Triplet!Empty /\ env = Triplet!Fresh({})
    BY <2>1, EmptyCleanable
  <2>2. ASSUME NEW f \in Facts, wal = Triplet!Legacy(f), env = Triplet!Fresh({f})
        PROVE  \E t : env = Triplet!Fresh(t) /\ Cleanable(wal, 3, t)
    BY <2>2, LegacyCleanable
  <2> QED  BY <2>1, <2>2 DEF Triplet!Init
<1>3. DOMAIN env = EnvFields /\ env.next \in Nat /\ env.stale = FALSE /\ Cleanable(wal, env.next, env.twice)
  <2>1. DOMAIN env = EnvFields /\ env.next = 3 /\ env.stale = FALSE /\ Cleanable(wal, 3, env.twice)
    <3> HIDE DEF Cleanable
    <3> QED  BY <1>2 DEF EnvFields, Triplet!Fresh
  <2> HIDE DEF Cleanable
  <2> QED  BY <2>1
<1> HIDE DEF Cleanable, TripletInv
<1>4. TripletInv(ram, wal, <<>>, FALSE, env)
  BY <1>1, <1>3, OpenedSound
<1> QED  BY <1>1, <1>4 DEF TripletSound

LEMMA TripletNextSound ==
    ASSUME TripletSound, Triplet!Next
    PROVE  TripletSound'
<1>1. ASSUME NEW i \in TripletIds, NEW x \in TripletSessions \cup {""}, Triplet!Put(i, x) PROVE TripletSound'
  <2>1. x \in SessionTags
    BY DEF SessionTags
  <2> HIDE DEF SessionTags, TripletSound
  <2> QED  BY ONLY TripletSound, Triplet!Put(i, x), i \in TripletIds, <2>1, PutSound
<1>2. ASSUME NEW i \in DOMAIN ram.mem, NEW x \in TripletSessions,
             Triplet!PutAgain(i, x) \/ Triplet!SetSourceSession(i, x)
      PROVE  TripletSound'
  BY <1>2, PutAgainSound, SetSourceSessionSound
<1>3. ASSUME NEW f \in Facts, NEW v, NEW x, Triplet!AddTriplet(f, v, x) PROVE TripletSound'
  BY <1>3, AddTripletSound
<1>4. ASSUME NEW k \in DOMAIN ram.entries, ram.entries[k].fact \in Facts,
             Triplet!InvalidateTriplet(k) \/ Triplet!Supersede(k)
      PROVE  TripletSound'
  BY <1>4, InvalidateTripletSound, SupersedeSound
<1>5. ASSUME NEW f \in Facts, Triplet!ForgetTriplet(f) PROVE TripletSound'
  BY <1>5, ForgetTripletSound
<1>6. ASSUME NEW i \in DOMAIN ram.mem, Triplet!Forget(i) \/ Triplet!ForgetUnsynced(i) PROVE TripletSound'
  BY <1>6, ForgetSound, ForgetUnsyncedSound
<1>7. CASE Triplet!InvalidateBySourceFile
  BY <1>7, InvalidateBySourceFileSound
<1>8. CASE Triplet!StepAdd
  BY <1>8, StepAddSound
<1>9. CASE Triplet!StepEnd
  BY <1>9, StepEndSound
<1>10. CASE Triplet!StepLog
  BY <1>10, StepLogSound
<1>11. CASE Triplet!StepTag
  BY <1>11, StepTagSound
<1>12. CASE Triplet!AppendFails
  BY <1>12, AppendFailsSound
<1>13. CASE Triplet!Save
  BY <1>13, SaveSound
<1>14. CASE Triplet!Restart
  BY <1>14, RestartSound
<1> HIDE DEF TripletSound
<1> QED  BY <1>1, <1>2, <1>3, <1>4, <1>5, <1>6, <1>7, <1>8, <1>9, <1>10, <1>11, <1>12, <1>13, <1>14
         DEF Triplet!Next

LEMMA TripletInductive ==
    ASSUME TripletSound, [Triplet!Next]_(Triplet!vars)
    PROVE  TripletSound'
<1>1. CASE Triplet!Next
  BY <1>1, TripletNextSound
<1>2. CASE UNCHANGED Triplet!vars
  BY <1>2 DEF Triplet!vars, TripletSound
<1> QED  BY <1>1, <1>2

LEMMA KeepsSame ==
    ASSUME NEW a, NEW b, NEW f, NEW kept, Keeps(a, f, kept), Keeps(b, f, kept)
    PROVE  a = b
BY DEF Keeps

LEMMA CleanupOf ==
    ASSUME NEW s, NEW n, NEW twice, Cleanable(s, n, twice)
    PROVE  Triplet!CleanForLoad(s).entries = Triplet!Keep(s, Triplet!Survivors(s)).entries
<1> DEFINE a == Triplet!CleanForLoad(s).entries
           b == Triplet!Keep(s, Triplet!Survivors(s)).entries
<1>1. TripletShape(s, n) /\ MarksOK(s) /\ DOMAIN s = TripletFields
  BY DEF Cleanable, TripletShape
<1>2. a = [k \in Triplet!Survivors(s) |-> s.entries[k]]
  BY <1>1, CleanedIs
<1>3. Keeps(b, s.entries, Triplet!Survivors(s))
  BY <1>1, KeepIs
<1> HIDE DEF a, b
<1>4. Keeps(a, s.entries, Triplet!Survivors(s))
  BY <1>2 DEF Keeps
<1>5. a = b
  BY <1>3, <1>4, KeepsSame
<1> QED  BY <1>5 DEF a, b

LEMMA TripletsExactHere ==
    ASSUME TripletSound
    PROVE  Triplet!CleanupExact /\ Triplet!CountsExact /\ Triplet!BeliefsKept
<1>1. TripletCore(ram, wal, todo, gap, env)
  BY DEF TripletSound, TripletInv
<1>2. PairOK(ram, wal, env.next, env.twice, AheadOf(todo, gap)) /\ TagsOK(ram, wal)
      /\ env.stale \in BOOLEAN /\ (env.stale = FALSE => CountsOK(ram)) /\ gap \in BOOLEAN
  <2> HIDE DEF PairOK, AheadOf, TagsOK, CountsOK
  <2> QED  BY <1>1 DEF TripletCore
<1>3. Cleanable(ram, env.next, env.twice) /\ Cleanable(wal, env.next, env.twice)
  <2> HIDE DEF PairOK, AheadOf, Cleanable
  <2> QED  BY <1>2, PairCleanable
<1>4. Triplet!CleanupExact
  <2> HIDE DEF Cleanable
  <2> QED  BY <1>3, CleanupOf DEF Triplet!CleanupExact
<1>5. Triplet!CountsExact
  BY <1>2 DEF Triplet!CountsExact, CountsOK
<1>6. ASSUME Triplet!Resting, ~gap
      PROVE  /\ \A f \in Triplet!Beliefs(ram) \ Triplet!Beliefs(Triplet!Reopened) : f \in env.twice
             /\ \A f \in Triplet!Beliefs(Triplet!Reopened) \ Triplet!Beliefs(ram) : f \in env.twice
             /\ env.twice = {} /\ ~env.stale /\ env.unsynced = {} => ram.count = Triplet!Reopened.count
  <2> DEFINE c == Triplet!CleanForLoad(wal)
             r == Triplet!Reopened
  <2>1. /\ PairOK(c, wal, env.next, env.twice, {}) /\ c.mem = wal.mem
        /\ \A f : f \notin env.twice => Triplet!Holding(c, f) = Triplet!Holding(wal, f)
    BY <1>3, PairCleaned
  <2>2. r = Triplet!Recounted(c)
    BY DEF Triplet!Reopened
  <2> HIDE DEF c, r
  <2>3. DOMAIN c = TripletFields /\ c.over = wal.over
    BY <2>1 DEF PairOK, TripletShape
  <2>4. ButCounts(r, c) /\ r.count = [i \in DOMAIN c.mem |-> Triplet!Replication(c, i)]
    BY <2>2, <2>3, RecountedIs
  <2>5. \A f : f \notin env.twice => Triplet!Holding(ram, f) = Triplet!Holding(wal, f)
    <3>1. AheadOf(todo, gap) = {}
      <4>1. todo # <<FileEnd>>
        BY <1>6 DEF Triplet!Resting
      <4> QED  BY <1>6, <4>1 DEF AheadOf
    <3>2. HoldOK(ram, wal, env.twice, {})
      <4>1. HoldOK(ram, wal, env.twice, AheadOf(todo, gap))
        BY <1>2 DEF PairOK
      <4> HIDE DEF HoldOK, AheadOf
      <4> QED  BY <3>1, <4>1
    <3> QED  BY <3>2 DEF HoldOK
  <2>6. ram.over = wal.over /\ DOMAIN wal.mem = DOMAIN ram.mem /\ DOMAIN ram.mem \subseteq TripletIds
    BY <1>2 DEF PairOK, TripletRows
  <2>7. r.over = ram.over /\ r.mem = wal.mem /\ \A f : Triplet!Holding(r, f) = Triplet!Holding(c, f)
    <3>1. \A f : Triplet!Holding(r, f) = Triplet!Holding(c, f)
      BY <2>4, ButCountsSame
    <3> QED  BY <2>1, <2>3, <2>4, <2>6, <3>1 DEF ButCounts
  <2>8. \A f : f \notin env.twice => (f \in Told(ram) <=> f \in Told(r))
    <3> SUFFICES ASSUME NEW f, f \notin env.twice PROVE f \in Told(ram) <=> f \in Told(r)
      OBVIOUS
    <3>1. Triplet!Holding(r, f) = Triplet!Holding(ram, f) /\ r.over = ram.over
      BY <2>1, <2>5, <2>7
    <3> HIDE DEF Told
    <3> QED  BY <3>1, ToldIs
  <2>9. ASSUME env.twice = {}, ~env.stale, env.unsynced = {} PROVE ram.count = r.count
    <3>1. Told(ram) = Told(r)
      <4>1. \A f : f \in Told(ram) <=> f \in Told(r)
        <5> HIDE DEF Told
        <5> QED  BY <2>8, <2>9
      <4> HIDE DEF Told
      <4>2. Told(ram) \subseteq Told(r) /\ Told(r) \subseteq Told(ram)
        BY <4>1
      <4> QED  BY <4>2
    <3>2. Triplet!Known(ram) = Triplet!Known(r)
      <4>1. \A j \in DOMAIN ram.mem : wal.mem[j].dead = ram.mem[j].dead
        BY <1>1, <2>9 DEF TripletCore, DeadOK
      <4> QED  BY <2>6, <2>7, <4>1 DEF Triplet!Known
    <3>3. \A x \in Triplet!Known(ram) : TagsAgree(ram, r, x)
      BY <1>2, <2>7 DEF TagsOK, TagsAgree, Triplet!Known
    <3>4. DOMAIN r.mem \subseteq TripletIds
      BY <2>6, <2>7
    <3>5. \A i \in DOMAIN ram.mem : Triplet!Replication(ram, i) = Triplet!Replication(r, i)
      <4> HIDE DEF Told, TagsAgree
      <4> QED  BY <2>6, <3>1, <3>2, <3>3, <3>4, SameCount
    <3>6. \A i \in DOMAIN ram.mem : Triplet!Replication(r, i) = Triplet!Replication(c, i)
      BY <2>1, <2>4, <2>6, ButCountsCount
    <3>7. CountsOK(ram)
      BY <1>2, <2>9
    <3>8. \A i \in DOMAIN ram.mem : ram.count[i] = r.count[i]
      BY <2>1, <2>4, <2>6, <3>5, <3>6, <3>7 DEF CountsOK
    <3>9. ram.count = [i \in DOMAIN ram.mem |-> ram.count[i]]
      BY <3>7 DEF CountsOK
    <3>10. r.count = [i \in DOMAIN ram.mem |-> r.count[i]]
      BY <2>1, <2>4, <2>6
    <3> QED  BY <3>8, <3>9, <3>10
  <2> QED  BY <2>8, <2>9 DEF Told, r
<1>7. Triplet!BeliefsKept
  BY <1>6 DEF Triplet!BeliefsKept
<1> QED  BY <1>4, <1>5, <1>7

-----------------------------------------------------------------------------
(* The stores together                                                      *)

StoreInv ==
    /\ part = "memory" => MemInv
    /\ part = "code" => CodeInv
    /\ part = "edges" => EdgeInv
    /\ part = "triplets" => TripletSound

\* The inductive invariants of the memories, the code index, the edges and the
\* facts.
THEOREM StoreInvariant == StoreSpec => []StoreInv
<1> HIDE DEF MemInv, CodeInv, EdgeInv, TripletSound
<1>1. StoreInit => StoreInv
  BY MemStart, CodeStart, EdgeStart, TripletStart DEF StoreInit, StoreInv
<1>2. StoreInv /\ [StoreNext]_vars => StoreInv'
  <2> SUFFICES ASSUME StoreInv, [StoreNext]_vars PROVE StoreInv'
    OBVIOUS
  <2>1. part' = part
    BY DEF StoreNext, Same, vars
  <2>2. part' = "memory" => MemInv'
    <3>1. part = "memory" => [Mem!Next]_(Mem!vars)
      BY DEF StoreNext, Mem!vars, vars
    <3> QED  BY <2>1, <3>1, MemInductive DEF StoreInv
  <2>3. part' = "code" => CodeInv'
    <3>1. part = "code" => [Code!Next]_(Code!vars)
      BY DEF StoreNext, Code!vars, vars
    <3> QED  BY <2>1, <3>1, CodeInductive DEF StoreInv
  <2>4. part' = "edges" => EdgeInv'
    <3>1. part = "edges" => [Edge!Next]_(Edge!vars)
      BY DEF StoreNext, Edge!vars, vars
    <3> QED  BY <2>1, <3>1, EdgeInductive DEF StoreInv
  <2>5. part' = "triplets" => TripletSound'
    <3>1. part = "triplets" => [Triplet!Next]_(Triplet!vars)
      BY DEF StoreNext, Triplet!vars, vars
    <3> QED  BY <2>1, <3>1, TripletInductive DEF StoreInv
  <2> QED  BY <2>2, <2>3, <2>4, <2>5 DEF StoreInv
<1> QED  BY <1>1, <1>2, PTL DEF StoreSpec

\* A restart serves the live memories as they were, the status that
\* set_memory_status got past the fence, and what provenance_lookup and
\* task_state_lookup answer; the indexes serve the live memories and no others,
\* and put_memory's exact gate leaves one live copy of a chunk: for any items,
\* any number of memories, calls and milliseconds, whatever sync fails and
\* wherever the process saves or dies.
THEOREM MemoriesAreKept == StoreSpec => []MemoriesKept
<1>1. StoreInv => MemoriesKept
  BY KeptMemories, KeptStatus, AgreeingLanes, ServingIndexes, SingleCopies
     DEF StoreInv, MemoriesKept
<1> QED  BY <1>1, StoreInvariant, PTL

\* by_name and dedup answer for exactly the symbols of by_id, a call edge
\* relates the functions it was recorded for though ids are used again, and a
\* restart serves the same symbols, calls and files: for any keys and any number
\* of calls, whatever removal or event fails half way.
THEOREM CodeIsKept == StoreSpec => []CodeKept
<1>1. StoreInv => CodeKept
  BY FoundSymbols, MeantCalls, KeptCode DEF StoreInv, CodeKept
<1> QED  BY <1>1, StoreInvariant, PTL

\* An edge that touches a forgotten memory is a CoRetrieved one, unless the sync
\* after its record failed; no SameSession or Supports edge crosses the lattice of
\* add_assoc_edge between ends that were not regraded since, in RAM or in what a
\* replay builds, and the merged graph of RAM has an edge exactly where replayed
\* pushes leave one, at the weight of the strongest of them: for any memories,
\* profiles, sessions and neighbours, any chain length and any number of calls,
\* whatever append of a chain fails and wherever the process dies in one.
THEOREM EdgesAreSound == StoreSpec => []EdgesSound
<1>1. StoreInv => EdgesSound
  BY SoundEdges, KeptEdges DEF StoreInv, EdgesSound
<1> QED  BY <1>1, StoreInvariant, PTL

\* clean_for_load over the subjects marked dirty leaves what a scan of all
\* entries would; the counts that refresh_replications keeps are those of
\* replication::rebuild, except after the facts of a file ended; and a restart
\* changes neither a belief nor a count, except about facts that were stored
\* twice and after a forget whose sync failed: for any facts, memories and sessions and any number of calls, whatever
\* append fails and wherever the process dies in a call.
THEOREM TripletsAreExact == StoreSpec => []TripletsExact
<1>1. StoreInv => TripletsExact
  BY TripletsExactHere DEF StoreInv, TripletsExact
<1> QED  BY <1>1, StoreInvariant, PTL
=============================================================================
