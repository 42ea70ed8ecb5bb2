------------------------------ MODULE CodeGraph ------------------------------
(***************************************************************************)
(* Code intelligence: the symbol index with its by-name and deduplication  *)
(* maps, the call graph, the code files and the symbol event log.  A       *)
(* symbol is identified by its key, a <<name, file>> pair.  Every call but *)
(* log_symbol_event appends its record before it touches RAM.              *)
(***************************************************************************)
EXTENDS Integers, Sequences, FiniteSets, FiniteSetsExt, Functions

CONSTANTS Keys,           \* <<name, file>> pairs
          Project(_),     \* the project of a file
          MaxCalls        \* bound on calls

VARIABLES ram, wal, todo, gap, env

Files == {k[2] : k \in Keys}
NoHash == "none"

(* syms: key and description by id; name: by_name as <<name, id>>; dedup: id
   by key; calls and callers: the call graph's two maps; files: by path. *)
Empty == [syms |-> <<>>, name |-> {}, dedup |-> <<>>, calls |-> {}, callers |-> {},
          files |-> <<>>, events |-> {}, event |-> 0]

Ids(s) == DOMAIN s.syms
InFile(s, f) == {i \in Ids(s) : s.syms[i].key[2] = f}

Insert(f, k, v) == [j \in DOMAIN f \cup {k} |-> IF j = k THEN v ELSE f[j]]

(* upsert: a known key keeps its id and everything else is replaced. *)
Upsert(s, i, key) ==
  LET symbol == [key |-> key, desc |-> FALSE]
  IN IF key \in DOMAIN s.dedup
     THEN [s EXCEPT !.syms = Insert(@, s.dedup[key], symbol)]
     ELSE [s EXCEPT !.syms = Insert(@, i, symbol),
                    !.name = @ \cup {<<key[1], i>>},
                    !.dedup = Insert(@, key, i)]

(* Mutant: the deduplication slots stay. *)
RemoveListed(s, gone) ==
  [s EXCEPT !.syms = Restrict(@, Ids(s) \ gone),
            !.name = @ \ {<<s.syms[i].key[1], i>> : i \in gone \cap Ids(s)}]

(* remove, for each of a set of ids: a deduplication slot goes only with the id
   that owns it. *)
Owned(s, gone) == {k \in DOMAIN s.dedup : \E i \in gone \cap Ids(s) :
                                            s.syms[i].key = k /\ s.dedup[k] = i}
Remove(s, gone) ==
  [s EXCEPT !.syms = Restrict(@, Ids(s) \ gone),
            !.name = @ \ {<<s.syms[i].key[1], i>> : i \in gone \cap Ids(s)},
            !.dedup = Restrict(@, DOMAIN s.dedup \ Owned(s, gone))]

AddEdge(s, a, b) ==
  [s EXCEPT !.calls = @ \cup {<<a, b>>}, !.callers = @ \cup {<<b, a>>}]

(* CallGraph::remove_symbol for each of a set of ids, both directions; ids need
   not be symbols. *)
Unlink(s, gone) ==
  [s EXCEPT
    !.calls = {e \in @ : e[1] \notin gone /\ (e[2] \notin gone \/ <<e[2], e[1]>> \notin s.callers)},
    !.callers = {e \in @ : e[1] \notin gone /\ (e[2] \notin gone \/ <<e[2], e[1]>> \notin s.calls)}]

Dropped(s, gone) == Unlink(Remove(s, gone), gone)

UpsertFile(s, f, project, hash) ==
  [s EXCEPT !.files = Insert(@, f, [project |-> project, hash |-> hash])]

(* ClearProject: the project's files, then the symbols in them, then their
   call edges. *)
PathsOf(s, project) == {f \in DOMAIN s.files : s.files[f].project = project}
Cleared(s, project) ==
  LET paths == PathsOf(s, project)
      gone == {i \in Ids(s) : s.syms[i].key[2] \in paths}
  IN Dropped([s EXCEPT !.files = Restrict(@, DOMAIN s.files \ paths)], gone)

Described(s, i) == [s EXCEPT !.syms = Insert(@, i, [key |-> s.syms[i].key, desc |-> TRUE])]

(* SymbolEventLog::log with the id of a replayed record. *)
ReplayEvent(s, i) ==
  [s EXCEPT !.events = @ \cup {i}, !.event = IF i >= @ THEN i + 1 ELSE @]

Replay(s, op) ==
  CASE op.op = "symbol" -> Upsert(s, op.id, op.key)
    [] op.op = "remove" -> Dropped(s, {op.id})
    [] op.op = "edge" -> AddEdge(s, op.id, op.to)
    [] op.op = "file" -> UpsertFile(s, op.file, op.project, op.hash)
    [] op.op = "clear" -> Cleared(s, op.project)
    [] op.op = "describe" /\ op.id \in Ids(s) -> Described(s, op.id)
    [] op.op = "event" -> ReplayEvent(s, op.id)
    [] OTHER -> s

(* symbol_idx, call_graph and code_files have sections; a file's content hash
   is not serialised, and the event log has no section. *)
Body(s) ==
  [s EXCEPT !.files = [f \in DOMAIN s.files |->
                         [project |-> s.files[f].project, hash |-> NoHash]],
            !.events = {}, !.event = 0]

Log == INSTANCE OrganLog

vars == <<ram, wal, todo, gap, env>>

(* rebuild_derived: of several ids with one key the highest owns the slot. *)
RebuildDerived(s) ==
  [s EXCEPT !.name = {<<s.syms[i].key[1], i>> : i \in Ids(s)},
            !.dedup = [k \in {s.syms[i].key : i \in Ids(s)} |->
                         Max({i \in Ids(s) : s.syms[i].key = k})]]

(* next: symbol_id_alloc; sweep: ids a removal sweep still has to remove;
   meant: for each call edge the keys of its ends when it was last added, and
   whether both ends were symbols then; issued: highest event id given out
   since the event log was last lost. *)
Init == Log!LogInit /\ env = [calls |-> 0, next |-> 1, sweep |-> {}, meant |-> <<>>,
                              issued |-> {}]

May == Log!Idle /\ env.sweep = {} /\ env.calls < MaxCalls

Commit(new, op) == ram' = new /\ wal' = Replay(wal, op) /\ UNCHANGED <<todo, gap>>
Called == env' = [env EXCEPT !.calls = @ + 1]

(* An id is taken from the allocator even when the key is known. *)
UpsertSymbol(key) ==
  /\ May
  /\ Commit(Upsert(ram, env.next, key), [op |-> "symbol", id |-> env.next, key |-> key])
  /\ env' = [env EXCEPT !.calls = @ + 1, !.next = @ + 1]

RemoveStep(i) == Commit(Dropped(ram, {i}), [op |-> "remove", id |-> i])

RemoveSymbol(i) == May /\ RemoveStep(i) /\ Called

(* remove_symbols_by_file and dedupe_symbols collect ids, then remove them one
   after the other, each with its own record. *)
StartSweep(ids) ==
  /\ May /\ ids # {}
  /\ env' = [env EXCEPT !.calls = @ + 1, !.sweep = ids]
  /\ UNCHANGED <<ram, wal, todo, gap>>

RemoveSymbolsByFile(f) == StartSweep(InFile(ram, f))

Excluded(s, path) == InFile(s, path)
Duplicates(s) ==
  {i \in Ids(s) : \E j \in Ids(s) : j > i /\ s.syms[j].key = s.syms[i].key}
DedupeSymbols(path) == StartSweep(Duplicates(ram) \cup Excluded(ram, path))

SweepNext ==
  \E i \in env.sweep :
    /\ Log!Idle
    /\ RemoveStep(i)
    /\ env' = [env EXCEPT !.sweep = @ \ {i}]

(* The append of one removal fails: the sweep returns. *)
SweepFails ==
  /\ env.sweep # {}
  /\ env' = [env EXCEPT !.sweep = {}]
  /\ UNCHANGED <<ram, wal, todo, gap>>

(* Nothing asks whether the ids are symbols. *)
AddCallEdge(a, b) ==
  /\ May
  /\ Commit(AddEdge(ram, a, b), [op |-> "edge", id |-> a, to |-> b])
  /\ env' = [env EXCEPT !.calls = @ + 1,
       !.meant = Insert(@, <<a, b>>, IF {a, b} \subseteq Ids(ram)
                                     THEN <<ram.syms[a].key, ram.syms[b].key>>
                                     ELSE <<>>)]

UpsertCodeFile(f, hash) ==
  /\ May
  /\ Commit(UpsertFile(ram, f, Project(f), hash),
            [op |-> "file", file |-> f, project |-> Project(f), hash |-> hash])
  /\ Called

ClearProject(project) ==
  /\ May
  /\ Commit(Cleared(ram, project), [op |-> "clear", project |-> project])
  /\ Called

SetSymbolDescription(i) ==
  /\ May /\ i \in Ids(ram)
  /\ Commit(Described(ram, i), [op |-> "describe", id |-> i])
  /\ Called

(* log_symbol_event: RAM first, and a failed append is ignored. *)
LogSymbolEvent ==
  LET i == ram.event + 1
  IN /\ May
     /\ ram' = [ram EXCEPT !.event = i, !.events = @ \cup {i}]
     /\ todo' = <<[op |-> "event", id |-> i]>>
     /\ env' = [env EXCEPT !.calls = @ + 1, !.issued = @ \cup {<<i, env.calls>>}]
     /\ UNCHANGED <<wal, gap>>

(* A full snapshot while the organ is quiet. *)
Save == env.sweep = {} /\ Log!Checkpoint /\ UNCHANGED env

(* open(): the allocator starts above the highest live id. *)
Reopen ==
  LET new == RebuildDerived(wal)
  IN /\ ram' = new /\ wal' = new /\ todo' = <<>> /\ gap' = FALSE
     /\ env' = [env EXCEPT !.next = Max(Ids(new) \cup {0}) + 1, !.sweep = {},
                           !.issued = {e \in @ : e[1] \in wal.events}]

Next ==
  \/ \E key \in Keys : UpsertSymbol(key)
  \/ \E i \in Ids(ram) : RemoveSymbol(i) \/ SetSymbolDescription(i)
  \/ \E f \in Files : RemoveSymbolsByFile(f) \/ DedupeSymbols(f)
                        \/ \E hash \in {NoHash, "h"} : UpsertCodeFile(f, hash)
  \/ SweepNext \/ SweepFails
  \/ \E a, b \in 1..(env.next - 1) : AddCallEdge(a, b)
  \/ \E f \in Files : ClearProject(Project(f))
  \/ LogSymbolEvent
  \/ (Log!Logged \/ Log!LogFails) /\ UNCHANGED env
  \/ Save \/ Reopen

Spec == Init /\ [][Next]_vars
-----------------------------------------------------------------------------
(* The derived maps answer for exactly the symbols of by_id, before and after
   the rebuild on load, whatever ids were burnt, removed or used again: one
   symbol per key, found under its name and its key. *)
SymbolsFound ==
  \A s \in {ram, wal, RebuildDerived(wal)} :
    /\ s.name = {<<s.syms[i].key[1], i>> : i \in Ids(s)}
    /\ DOMAIN s.dedup = {s.syms[i].key : i \in Ids(s)}
    /\ \A i \in Ids(s) : s.dedup[s.syms[i].key] = i

(* A call edge between two symbols relates the functions it was recorded for,
   though ids are used again after a restart, unless an end was no symbol when
   the edge was added.  The two directions of the graph agree. *)
CallsMean ==
  /\ ram.callers = {<<e[2], e[1]>> : e \in ram.calls}
  /\ \A e \in ram.calls :
       (/\ {e[1], e[2]} \subseteq Ids(ram)
        /\ env.meant[e] # <<>>) =>
          env.meant[e] = <<ram.syms[e[1]].key, ram.syms[e[2]].key>>

(* A restart serves the same symbols, calls and files; a file's hash may be
   forgotten, never invented, and an event id is not given out twice. *)
CodeKept ==
  Log!Idle =>
    /\ RebuildDerived(wal).syms = ram.syms
    /\ wal.calls = ram.calls
    /\ DOMAIN wal.files = DOMAIN ram.files
    /\ \A f \in DOMAIN ram.files : wal.files[f].hash \in {ram.files[f].hash, NoHash}
    /\ ~gap => wal.events = ram.events
    /\ \A d, e \in env.issued : d[1] = e[1] => d = e
=============================================================================
