------------------------------- MODULE Debts -------------------------------
(***************************************************************************)
(* Two ledgers whose entries a restart must not move back: epistemic debts *)
(* (open questions, resolved by hand, by evidence, or deferred) and the    *)
(* wisdom candidates that promotion works on.  Evidence is in hundredths.  *)
(***************************************************************************)
EXTENDS Integers, Sequences, FiniteSets, FiniteSetsExt, Functions

CONSTANTS Clusters,       \* cluster keys of wisdom candidates
          MaxEntries,     \* bound on operations
          Threshold       \* auto_resolve_debts' argument

VARIABLES ram, wal, todo, gap, env

Lifecycles == {"candidate", "provisional", "trusted", "demoted"}

(* debts by id, with next_id; candidates by cluster key. *)
Empty == [debts |-> <<>>, next |-> 1, wisdom |-> <<>>]

NewDebt == [status |-> "open", resolved |-> FALSE, text |-> FALSE, evidence |-> 0]
NewCandidate(support) ==
  [support |-> support, lifecycle |-> "candidate", memory |-> FALSE, contra |-> 0]

(* A map's insert. *)
Insert(f, x, v) == [y \in DOMAIN f \cup {x} |-> IF y = x THEN v ELSE f[y]]

AddDebt(s, i) ==
  [s EXCEPT !.debts = Insert(@, i, NewDebt), !.next = Max({@, i + 1})]

(* A debt with another status; a resolution once given is kept. *)
Marked(d, status, resolved, text) ==
  [status |-> status, resolved |-> resolved, text |-> d.text \/ text,
   evidence |-> d.evidence]

(* A candidate in another lifecycle; a memory once promoted to is kept. *)
Moved(c, lifecycle, memory, contra) ==
  [support |-> c.support, lifecycle |-> lifecycle, memory |-> c.memory \/ memory,
   contra |-> contra]

ReplayDebt(s, op) ==
  CASE op.op = "register" -> AddDebt(s, op.id)
    [] op.op = "update" /\ op.id \in DOMAIN s.debts ->
         [s EXCEPT !.debts[op.id] = Marked(@, op.status, op.resolved, op.text)]
    [] op.op = "evidence" /\ op.id \in DOMAIN s.debts ->
         [s EXCEPT !.debts[op.id].evidence = @ + op.confidence]
    [] OTHER -> s

(* replay_upsert stores the logged candidate whole: an existing cluster goes
   back to Candidate. *)
ReplayCandidate(s, op) ==
  CASE op.op = "upsert" ->
         [s EXCEPT !.wisdom = Insert(@, op.key, NewCandidate(op.support))]
    [] op.op = "lifecycle" /\ op.key \in DOMAIN s.wisdom ->
         [s EXCEPT !.wisdom[op.key] = Moved(@, op.lifecycle, op.memory, op.contra)]
    [] OTHER -> s

Replay(s, op) ==
  IF op.op \in {"upsert", "lifecycle"} THEN ReplayCandidate(s, op)
  ELSE ReplayDebt(s, op)

(* Neither ledger has a section in the full snapshot. *)
Body(s) == Empty

Log == INSTANCE OrganLog

vars == <<ram, wal, todo, gap, env>>

Init == Log!LogInit /\ env = [ops |-> 0, again |-> {}]

Do(new, recs) ==
  /\ Log!Idle
  /\ env.ops < MaxEntries
  /\ ram' = new
  /\ todo' = recs
  /\ UNCHANGED <<wal, gap>>

Counted == env' = [env EXCEPT !.ops = @ + 1]

RegisterDebt ==
  /\ Do(AddDebt(ram, ram.next), <<[op |-> "register", id |-> ram.next]>>)
  /\ Counted

ResolveDebt(i) ==
  /\ Do([ram EXCEPT !.debts[i] = Marked(@, "resolved", TRUE, TRUE)],
        <<[op |-> "update", id |-> i, status |-> "resolved", resolved |-> TRUE,
           text |-> TRUE]>>)
  /\ Counted

(* Mutant: the deferral is not logged. *)
DeferDebtUnlogged(i) == Do([ram EXCEPT !.debts[i].status = "deferred"], <<>>) /\ Counted

(* defer() leaves resolved_ms alone, its record carries 0. *)
DeferDebt(i) ==
  /\ Do([ram EXCEPT !.debts[i].status = "deferred"],
        <<[op |-> "update", id |-> i, status |-> "deferred", resolved |-> FALSE,
           text |-> FALSE]>>)
  /\ Counted

AttachDebtEvidence(i, confidence) ==
  /\ Do([ram EXCEPT !.debts[i].evidence = @ + confidence],
        <<[op |-> "evidence", id |-> i, confidence |-> confidence]>>)
  /\ Counted

(* auto_resolve_debts handles the ready debts one after the other, a record
   each; the sweep is a run of these steps, cut short by a failed append. *)
AutoResolveDebt(i) ==
  /\ ram.debts[i].status = "open"
  /\ ram.debts[i].evidence > 0
  /\ ram.debts[i].evidence >= Threshold
  /\ ResolveDebt(i)

(* upsert_candidate keeps lifecycle, memory and contradictions of a known
   cluster; the record does not carry them. *)
UpsertWisdomCandidate(k, support) ==
  /\ Do(IF k \in DOMAIN ram.wisdom THEN [ram EXCEPT !.wisdom[k].support = support]
        ELSE [ram EXCEPT !.wisdom = Insert(@, k, NewCandidate(support))],
        <<[op |-> "upsert", key |-> k, support |-> support]>>)
  /\ env' = [ops |-> env.ops + 1,
             again |-> IF k \in DOMAIN ram.wisdom THEN env.again \cup {k}
                       ELSE env.again]

UpdateWisdomLifecycle(k, lifecycle, memory, contra) ==
  /\ k \in DOMAIN ram.wisdom
  /\ Do([ram EXCEPT !.wisdom[k] = Moved(@, lifecycle, memory, contra)],
        <<[op |-> "lifecycle", key |-> k, lifecycle |-> lifecycle,
           memory |-> memory, contra |-> contra]>>)
  /\ env' = [ops |-> env.ops + 1, again |-> env.again]

Reopen == Log!Restart /\ env' = [env EXCEPT !.again = {}]

Next ==
  \/ RegisterDebt
  \/ \E i \in DOMAIN ram.debts : ResolveDebt(i) \/ AutoResolveDebt(i) \/ DeferDebt(i)
  \/ \E i \in DOMAIN ram.debts, confidence \in {40, 100} :
       AttachDebtEvidence(i, confidence)
  \/ \E k \in Clusters, support \in {1, 4} : UpsertWisdomCandidate(k, support)
  \/ \E k \in Clusters, lifecycle \in Lifecycles, memory \in BOOLEAN,
        contra \in {0, 1} : UpdateWisdomLifecycle(k, lifecycle, memory, contra)
  \/ Reopen
  \/ (Log!Logged \/ Log!LogFails \/ Log!Checkpoint) /\ UNCHANGED env

Spec == Init /\ [][Next]_vars

(* promotable: what the next learning cycle may promote. *)
Promotable(s) ==
  {k \in DOMAIN s.wisdom : /\ s.wisdom[k].lifecycle = "candidate"
                           /\ s.wisdom[k].support >= 4
                           /\ s.wisdom[k].contra = 0}
-----------------------------------------------------------------------------
(* A restart moves no ledger entry back: the same debts with the same status
   and evidence, the same candidates, and promotion would choose the same
   ones.  A candidate upserted again is excluded: its record resets it to
   Candidate, so that a restart promotes it a second time. *)
LedgersKept ==
  Log!Settled =>
    /\ DOMAIN wal.debts = DOMAIN ram.debts
    /\ \A i \in DOMAIN ram.debts :
         /\ wal.debts[i].status = ram.debts[i].status
         /\ wal.debts[i].evidence = ram.debts[i].evidence
         /\ wal.debts[i].status = "resolved" => wal.debts[i] = ram.debts[i]
    /\ DOMAIN wal.wisdom = DOMAIN ram.wisdom
    /\ Restrict(wal.wisdom, DOMAIN wal.wisdom \ env.again)
         = Restrict(ram.wisdom, DOMAIN ram.wisdom \ env.again)
    /\ Promotable(ram) \subseteq Promotable(wal)
=============================================================================
