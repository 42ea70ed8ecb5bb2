--------------------------- MODULE WisdomLineage ---------------------------
(***************************************************************************)
(* The wisdom-lineage organ: a claim that was promoted once is watched,    *)
(* inflamed and demoted as outcomes contradict it, and re-derived.  Masses *)
(* are in hundredths, so that the code's thresholds are exact integers;    *)
(* time is in days.                                                        *)
(***************************************************************************)
EXTENDS Integers, Sequences, FiniteSets, FiniteSetsExt

CONSTANTS Candidates,     \* wisdom candidate ids
          Contexts,       \* <<domain, action>> pairs outcomes come from
          MaxOutcomes,    \* bound on outcomes, re-derivations and enrolments
          MaxDay          \* bound on the clock

VARIABLES ram, wal, todo, gap, env

None == -1
States == {"trusted", "watch", "inflamed", "demoted"}

WATCH_CONTRADICTION_RATIO == 30
INFLAMED_CONTRADICTION_RATIO == 60
WATCH_STALENESS == 40
INFLAMED_STALENESS == 70
STALENESS_GROWTH_PER_TICK == 5
STALENESS_DECAY_PER_SUPPORT == 8
SUPPORT_DELTA_HIT == 12
CONTRADICTION_DELTA_HIT == 18
REDERIVE_TTL_DAYS == 7

Empty == [x \in {} |-> None]

Lesser(a, b) == IF a < b THEN a ELSE b
Greater(a, b) == IF a < b THEN b ELSE a

NewLineage(c, ctxs, day) ==
  [cand |-> c, env |-> ctxs, sup |-> 0, con |-> 0, stale |-> 0,
   seen |-> day, state |-> "trusted", task |-> FALSE, opened |-> None,
   challengers |-> {}]

(* evaluate_transition: ratio = contradiction / (support + 0.01). *)
Ratio(l, limit) == 100 * l.con > limit * (l.sup + 1)

Evaluate(l) ==
  CASE l.state \in {"trusted", "watch"} /\
         (Ratio(l, INFLAMED_CONTRADICTION_RATIO) \/ l.stale > INFLAMED_STALENESS)
           -> "inflamed"
    [] l.state = "trusted" /\ ~Ratio(l, INFLAMED_CONTRADICTION_RATIO) /\
         l.stale <= INFLAMED_STALENESS /\
         (Ratio(l, WATCH_CONTRADICTION_RATIO) \/ l.stale > WATCH_STALENESS)
           -> "watch"
    [] OTHER -> l.state

(* transition_state: false, and nothing recorded, when the state is already
   the wanted one. *)
Transition(l, state, task, day) ==
  IF l.state = state THEN l
  ELSE [l EXCEPT !.state = state,
                 !.task = @ \/ task,
                 !.opened = IF task THEN day ELSE @]

(* adjudicate up to and including the transition it fires. *)
Adjudicate(l, support, contradiction, day) ==
  IF l.state = "demoted" THEN l
  ELSE LET m == [l EXCEPT
                   !.sup = Lesser(@ + support, 1000),
                   !.stale = IF support > 0
                             THEN Greater(@ - STALENESS_DECAY_PER_SUPPORT, 0)
                             ELSE @,
                   !.seen = IF support > 0 THEN day ELSE @,
                   !.con = Lesser(@ + contradiction, 1000)]
       IN  Transition(m, Evaluate(m), FALSE, day)

CloseRederive(l, how, ctxs, day) ==
  LET closed(m) == [m EXCEPT !.task = FALSE, !.opened = None]
      cleared(m) == closed([m EXCEPT !.con = 0, !.stale = 0])
  IN  CASE how = "reaffirm" -> Transition(cleared(l), "trusted", FALSE, day)
        [] how = "narrow" -> Transition(cleared([l EXCEPT !.env = ctxs]),
                                        "trusted", FALSE, day)
        [] how \in {"split", "demote"} ->
             closed(Transition(l, "demoted", FALSE, day))

FindByEnvelope(s, ctx) ==
  {i \in DOMAIN s : s[i].state # "demoted" /\ ctx \in s[i].env}

(* The organ's replay arms. *)
Replay(s, op) ==
  CASE op.op = "upsert" ->
         [i \in DOMAIN s \cup {op.id} |->
            IF i = op.id THEN NewLineage(op.cand, op.env, op.day) ELSE s[i]]
    [] op.op = "adjudicate" /\ op.id \in DOMAIN s ->
         [s EXCEPT ![op.id] = [@ EXCEPT !.sup = op.sup, !.con = op.con,
                                        !.stale = op.stale, !.seen = op.seen]]
    [] op.op = "transition" /\ op.id \in DOMAIN s ->
         [s EXCEPT ![op.id] = Transition(@, op.state, op.task, op.day)]
    [] op.op = "rederive" /\ op.id \in DOMAIN s ->
         [s EXCEPT ![op.id] = CloseRederive(@, op.how, op.env, op.day)]
    [] OTHER -> s

(* The full snapshot's body has no section for this organ. *)
Body(s) == Empty

Log == INSTANCE OrganLog

vars == <<ram, wal, todo, gap, env>>

Init ==
  /\ Log!LogInit
  /\ env = [day |-> 0, ops |-> 0, again |-> {}]

Counted == [env EXCEPT !.ops = @ + 1]
May == Log!Idle /\ env.ops < MaxOutcomes

(* enroll is idempotent by candidate in RAM, but every call is logged. *)
EnrollWisdomLineage(c, ctxs) ==
  LET known == {i \in DOMAIN ram : ram[i].cand = c}
      id == IF known # {} THEN CHOOSE i \in known : TRUE
            ELSE Cardinality(DOMAIN ram) + 1
  IN  /\ May
      /\ ram' = IF known # {} THEN ram
                ELSE [i \in DOMAIN ram \cup {id} |->
                        IF i = id THEN NewLineage(c, ctxs, env.day) ELSE ram[i]]
      /\ todo' = <<[op |-> "upsert", id |-> id, cand |-> c, env |-> ctxs,
                    day |-> env.day]>>
      /\ env' = [Counted EXCEPT !.again = IF known # {} THEN @ \cup {id} ELSE @]
      /\ UNCHANGED <<wal, gap>>

Masses(i, l) == [op |-> "adjudicate", id |-> i, sup |-> l.sup, con |-> l.con,
                 stale |-> l.stale, seen |-> l.seen]
Moved(i, l, task) == [op |-> "transition", id |-> i, state |-> l.state,
                      task |-> task, day |-> env.day]

(* Mutant: the transition is not logged. *)
VerdictUnmoved(i, before, after) == <<Masses(i, after)>>

(* The records of one adjudicated lineage: its masses, then its transition. *)
Verdict(i, before, after) ==
  <<Masses(i, after)>> \o
  (IF before.state = after.state THEN <<>> ELSE <<Moved(i, after, FALSE)>>)

(* The loop over the lineages whose envelope matches, shared by
   record_surprise and close_intervention. *)
AdjudicateMatching(ctx, support, contradiction, challenger) ==
  LET hit == FindByEnvelope(ram, ctx)
      new == [i \in hit |->
                Adjudicate(ram[i], support, contradiction, env.day)]
  IN  /\ ram' = [i \in DOMAIN ram |->
                   IF i \in hit
                   THEN [new[i] EXCEPT !.challengers = @ \cup challenger]
                   ELSE ram[i]]
      /\ todo' = FoldSet(LAMBDA i, recs : recs \o Verdict(i, ram[i], new[i]),
                         <<>>, hit)
      /\ env' = Counted
      /\ UNCHANGED <<wal, gap>>

(* record_surprise: contradiction in proportion to the magnitude (0..100). *)
Surprised(ctx, magnitude) ==
  /\ May
  /\ AdjudicateMatching(ctx, 0, (magnitude * CONTRADICTION_DELTA_HIT) \div 100,
                        {"surprise"})

(* close_intervention's verdict on the lineages. *)
InterventionClosed(ctx, status) ==
  /\ May
  /\ AdjudicateMatching(ctx,
       CASE status = "succeeded" -> SUPPORT_DELTA_HIT
         [] status = "partial" -> (SUPPORT_DELTA_HIT * 3) \div 10
         [] OTHER -> 0,
       CASE status = "failed" -> CONTRADICTION_DELTA_HIT
         [] status = "partial" -> (CONTRADICTION_DELTA_HIT * 3) \div 10
         [] OTHER -> 0,
       IF status = "failed" THEN {"intervention"} ELSE {})

TransitionWisdomLineage(i, state, task) ==
  /\ May
  /\ i \in DOMAIN ram
  /\ ram[i].state # state
  /\ ram' = [ram EXCEPT ![i] = Transition(@, state, task, env.day)]
  /\ todo' = <<[op |-> "transition", id |-> i, state |-> state, task |-> task,
                day |-> env.day]>>
  /\ env' = Counted
  /\ UNCHANGED <<wal, gap>>

Rederived(i, how, ctxs) ==
  /\ May
  /\ i \in DOMAIN ram
  /\ ram' = [ram EXCEPT ![i] = CloseRederive(@, how, ctxs, env.day)]
  /\ todo' = <<[op |-> "rederive", id |-> i, how |-> how, env |-> ctxs,
                day |-> env.day]>>
  /\ env' = Counted
  /\ UNCHANGED <<wal, gap>>

(* tick_lineage_staleness: every lineage without support for three days goes
   stale, only those that changed state are logged. *)
NeedsGrowth(l) == l.state \in {"trusted", "watch"} /\ env.day - l.seen > 3

TickLineageStaleness ==
  LET grown == [i \in DOMAIN ram |->
                  LET m == [ram[i] EXCEPT
                              !.stale = Lesser(@ + STALENESS_GROWTH_PER_TICK, 100)]
                  IN  IF NeedsGrowth(ram[i])
                      THEN Transition(m, Evaluate(m), FALSE, env.day) ELSE ram[i]]
      moved == {i \in DOMAIN ram : grown[i].state # ram[i].state}
  IN  /\ Log!Idle
      /\ \E i \in DOMAIN ram : NeedsGrowth(ram[i])
      /\ ram' = grown
      /\ todo' = FoldSet(LAMBDA i, recs : recs \o
                           <<Masses(i, grown[i]), Moved(i, grown[i], FALSE)>>,
                         <<>>, moved)
      /\ UNCHANGED <<wal, gap, env>>

DaysPass ==
  /\ env.day < MaxDay
  /\ env' = [env EXCEPT !.day = @ + 4]
  /\ UNCHANGED <<ram, wal, todo, gap>>

(* A restart also ends the history of repeated enrolments. *)
Reopen ==
  /\ Log!Restart
  /\ env' = [env EXCEPT !.again = {}]

Next ==
  \/ \E c \in Candidates, ctxs \in SUBSET Contexts : EnrollWisdomLineage(c, ctxs)
  \/ \E ctx \in Contexts, magnitude \in {5, 100} : Surprised(ctx, magnitude)
  \/ \E ctx \in Contexts, status \in {"succeeded", "failed", "partial"} :
       InterventionClosed(ctx, status)
  \/ \E i \in DOMAIN ram, state \in States, task \in BOOLEAN :
       TransitionWisdomLineage(i, state, task)
  \/ \E i \in DOMAIN ram, how \in {"reaffirm", "narrow", "split", "demote"},
        ctxs \in SUBSET Contexts : Rederived(i, how, ctxs)
  \/ TickLineageStaleness
  \/ DaysPass
  \/ Reopen
  \/ (Log!Logged \/ Log!LogFails \/ Log!Checkpoint) /\ UNCHANGED env

Spec == Init /\ [][Next]_vars

ExpiryCheck(s) ==
  {i \in DOMAIN s : /\ s[i].state = "inflamed"
                    /\ s[i].opened # None
                    /\ env.day - s[i].opened > REDERIVE_TTL_DAYS}
-----------------------------------------------------------------------------
(* A restart keeps every verdict: replay gives each lineage the state, the
   masses of contradiction and support and the re-derivation contract that it
   had in RAM.  Excluded are lineages enrolled a second time, whose logged
   upsert makes them trusted again on replay, and staleness, of which only
   growth that led to a transition is logged. *)
VerdictsKept ==
  Log!Settled =>
    /\ DOMAIN wal = DOMAIN ram
    /\ \A i \in DOMAIN ram \ env.again :
         /\ wal[i].state = ram[i].state
         /\ wal[i].con = ram[i].con /\ wal[i].sup = ram[i].sup
         /\ wal[i].task = ram[i].task /\ wal[i].opened = ram[i].opened
         /\ wal[i].stale <= ram[i].stale
=============================================================================
