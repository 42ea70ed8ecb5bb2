------------------------------- MODULE Tapes -------------------------------
(***************************************************************************)
(* The event tape and the organs built over it: the suffix automaton that   *)
(* indexes it, the refutation ledger and market of its rules, the policies  *)
(* proposed from them, and the consolidation pass that mines the tape and   *)
(* then shortens it off-lock while events keep arriving.                    *)
(* Probabilities are abstracted to the counts they compare; credit and      *)
(* Q-values are left out, no guard here reads them.                         *)
(***************************************************************************)
EXTENDS Integers, Sequences, FiniteSets, FiniteSetsExt, TLC

LOCAL Seqs == INSTANCE SequencesExt

CONSTANTS Acts,           \* (tool, entity) pairs
          EventSessions,  \* session ids of events
          Passes,         \* callers of consolidation_pass
          MinSupport,     \* a bigram this frequent becomes a rule
          MinTape,        \* tapes shorter than this are not compressed
          Context,        \* symbols of context in the surprisal sweep
          MinHypotheses,  \* market size that lets the monitor see uncertainty
          LegacyMemories, \* memories a tape is synthesised from
          MaxEvents, MaxPasses, MaxRestarts

VARIABLES ram, env

vars == <<ram, env>>

(* ---- the suffix automaton (state 1 is the initial one, link 0 is NULL) -- *)

NewState(len, turns) ==
  [len |-> len, link |-> 0, next |-> <<>>, endpos |-> turns, kids |-> {}]

NoAutomaton == [states |-> <<NewState(0, {})>>, last |-> 1]

LinkPath(states, p) ==
  LET path[q \in 0..Len(states)] ==
        IF q = 0 THEN <<>> ELSE <<q>> \o path[states[q].link]
  IN path[p]

(* The states of a link path before the first that satisfies Stop. *)
Before(path, Stop(_)) ==
  LET stops == {i \in DOMAIN path : Stop(path[i])}
  IN IF stops = {} THEN path ELSE SubSeq(path, 1, Min(stops) - 1)

Linked(states, cur, q) ==
  [states EXCEPT ![cur].link = q, ![q].kids = @ \cup {cur}]

(* q stands for longer words too: a clone takes the shorter ones, inherits q's
   transitions and positions, and becomes the parent of q and cur. *)
Split(states, cur, p, q, sym) ==
  LET clone == Len(states) + 1
      old == states[q].link
      moved == Seqs!ToSet(Before(LinkPath(states, p),
                 LAMBDA r : sym \notin DOMAIN states[r].next
                            \/ states[r].next[sym] # q))
      grown == Append(states, [states[q] EXCEPT !.len = states[p].len + 1,
                                                !.kids = {q, cur}])
      redirected == [i \in DOMAIN grown |->
                       IF i \in moved THEN [grown[i] EXCEPT !.next[sym] = clone]
                       ELSE grown[i]]
  IN [redirected EXCEPT ![q].link = clone, ![cur].link = clone,
                        ![old].kids = (@ \ {q}) \cup {clone}]

Extend(auto, sym, turn) ==
  LET cur == Len(auto.states) + 1
      grown == Append(auto.states, NewState(auto.states[auto.last].len + 1, {turn}))
      path == LinkPath(auto.states, auto.last)
      bare == Before(path, LAMBDA r : sym \in DOMAIN auto.states[r].next)
      marked == [i \in DOMAIN grown |->
                   IF i \in Seqs!ToSet(bare)
                   THEN [grown[i] EXCEPT !.next = (sym :> cur) @@ @] ELSE grown[i]]
  IN [last |-> cur,
      states |->
        IF Len(bare) = Len(path) THEN Linked(marked, cur, 1)
        ELSE LET p == path[Len(bare) + 1]
                 q == auto.states[p].next[sym]
             IN IF auto.states[q].len = auto.states[p].len + 1
                THEN Linked(marked, cur, q)
                ELSE Split(marked, cur, p, q, sym)]

(* The state a word leads to, 0 when the word never occurred. *)
Walk(auto, word) ==
  LET walk[i \in 0..Len(word)] ==
        IF i = 0 THEN 1
        ELSE IF walk[i - 1] # 0 /\ word[i] \in DOMAIN auto.states[walk[i - 1]].next
             THEN auto.states[walk[i - 1]].next[word[i]] ELSE 0
  IN walk[Len(word)]

(* Positions of a state and of its suffix-link descendants. *)
CollectEndpos(auto, s) ==
  LET under == {r \in DOMAIN auto.states : s \in Seqs!ToSet(LinkPath(auto.states, r))}
  IN UNION {auto.states[r].endpos : r \in under}

(* ppm_predict stops at the first context symbol it cannot follow. *)
PpmPredict(auto, context) ==
  LET state[i \in 0..Len(context)] ==
        IF i = 0 THEN <<1, TRUE>>
        ELSE IF state[i - 1][2]
                /\ context[i] \in DOMAIN auto.states[state[i - 1][1]].next
             THEN <<auto.states[state[i - 1][1]].next[context[i]], TRUE>>
             ELSE <<state[i - 1][1], FALSE>>
  IN DOMAIN auto.states[state[Len(context)][1]].next

(* The distribution is uniform over the transitions and surprisal is its
   natural logarithm, which the sweep raises 2 to: above 0.85 only when one
   transition is left. *)
LowSurprisal(auto, context, sym) == PpmPredict(auto, context) = {sym}

(* ---- the tape ----------------------------------------------------------- *)

(* An event's packed symbol: tool, outcome and entity. *)
Sym(e) == <<e.act, e.ok>>
Syms(tape) == [i \in DOMAIN tape |-> Sym(tape[i])]

Intern(names, act) ==
  IF act \in Seqs!ToSet(names) THEN names ELSE Append(names, act)

(* log numbers the event by the tape's present length. *)
LogTo(tape, act, ok, sess) ==
  Append(tape, [act |-> act, ok |-> ok, sess |-> sess, turn |-> Len(tape)])

SynthesizeLegacy ==
  LET legacy[n \in 0..LegacyMemories] ==
        IF n = 0 THEN <<>> ELSE LogTo(legacy[n - 1], "legacy", FALSE, 0)
  IN legacy[LegacyMemories]

RebuildFromTape(tape) ==
  LET auto[i \in 0..Len(tape)] ==
        IF i = 0 THEN NoAutomaton
        ELSE Extend(auto[i - 1], Sym(tape[i]), tape[i].turn)
  IN auto[Len(tape)]

(* The organs cache answers only for a prefix of the tape; the tail is applied. *)
TryLoadOrgans(cache, tape, names) ==
  LET auto[i \in cache.events..Len(tape)] ==
        IF i = cache.events THEN cache.auto
        ELSE Extend(auto[i - 1], Sym(tape[i]), tape[i].turn)
  IN auto[Len(tape)]

CacheServes(cache, tape, names) ==
  /\ cache.saved
  /\ cache.events <= Len(tape) /\ SubSeq(tape, 1, cache.events) = cache.tape
  /\ Len(cache.names) <= Len(names)
  /\ SubSeq(names, 1, Len(cache.names)) = cache.names

LoadOrRebuildOrgans(cache, tape, names) ==
  IF CacheServes(cache, tape, names) THEN TryLoadOrgans(cache, tape, names)
  ELSE RebuildFromTape(tape)

NoCache == [saved |-> FALSE]

(* First and last event of each run of one session. *)
SessionBounds(tape) ==
  {i \in DOMAIN tape :
     \/ i = 1 \/ tape[i - 1].sess # tape[i].sess
     \/ i = Len(tape) \/ tape[i + 1].sess # tape[i].sess}

(* Mutant: failures are removed as well. *)
RemovalsAny(tape, auto) ==
  IF Len(tape) < MinTape THEN {}
  ELSE {i \in (Context + 1)..(Len(tape) - 1) :
          /\ i \notin SessionBounds(tape)
          /\ LowSurprisal(auto, SubSeq(Syms(tape), i - Context, i - 1), Sym(tape[i]))}

(* compute_low_surprisal_removals, over clones of tape and automaton. *)
Removals(tape, auto) ==
  IF Len(tape) < MinTape THEN {}
  ELSE {i \in (Context + 1)..(Len(tape) - 1) :
          /\ tape[i].ok
          /\ i \notin SessionBounds(tape)
          /\ LowSurprisal(auto, SubSeq(Syms(tape), i - Context, i - 1), Sym(tape[i]))}

(* Events past the mask are kept, turn ids are not renumbered. *)
ApplyRemovals(tape, mask) ==
  LET keep == {i \in DOMAIN tape : i \notin mask}
  IN [j \in 1..Cardinality(keep) |->
        tape[CHOOSE i \in keep : Cardinality({k \in keep : k <= i}) = j]]

(* ---- rules, ledger, market, policies ------------------------------------ *)

Bigrams(tape) ==
  {<<Sym(tape[i]), Sym(tape[i + 1])>> : i \in 1..(Len(tape) - 1)}

Support(tape, b) ==
  Cardinality({i \in 1..(Len(tape) - 1) :
                 <<Sym(tape[i]), Sym(tape[i + 1])>> = b})

(* run_sequitur numbers the frequent bigrams in HashMap order: any order. *)
RunSequitur(tape) ==
  {[i \in DOMAIN order |-> [a |-> order[i][1], b |-> order[i][2],
                            support |-> Support(tape, order[i])]] :
     order \in Seqs!SetToSeqs({b \in Bigrams(tape) : Support(tape, b) >= MinSupport})}

(* Entries are dropped, statuses are kept by rule id. *)
SeedFromRules(s, rules) ==
  [s EXCEPT !.entries = {[id |-> i, a |-> rules[i].a, b |-> rules[i].b,
                          support |-> rules[i].support, contra |-> 0] :
                           i \in DOMAIN rules},
            !.status = @ @@ [i \in DOMAIN rules |-> "live"]]

Ratio(e) == <<e.contra, e.support + e.contra>>
Above(r, num, den) == r[2] > 0 /\ r[1] * den > num * r[2]
Below(r, num, den) == r[2] = 0 \/ r[1] * den < num * r[2]

RefuteRatio(s, rule) ==
  IF \E e \in s.entries : e.id = rule
  THEN Ratio(CHOOSE e \in s.entries : e.id = rule) ELSE <<0, 0>>

Counted(e, b) ==
  IF b = e.b THEN [e EXCEPT !.support = @ + 1] ELSE [e EXCEPT !.contra = @ + 1]

(* Refuted above 0.4, reinstated below 0.2. *)
NextStatus(old, e) ==
  CASE old = "live" /\ Above(Ratio(e), 2, 5) -> "refuted"
    [] old = "refuted" /\ Below(Ratio(e), 1, 5) -> "live"
    [] OTHER -> old

Propose(s, rule) ==
  [s EXCEPT !.policies = Append(@, [rule |-> rule, active |-> FALSE, shadow |-> 0])]

(* observe, and for each newly refuted rule the triplet, the task and the
   shadow policy that log_event files. *)
Observe(s, a, b) ==
  LET hit == {e \in s.entries : e.a = a}
      met == {Counted(e, b) : e \in hit}
      status == [i \in DOMAIN s.status |->
                   IF \E e \in met : e.id = i
                   THEN NextStatus(s.status[i], CHOOSE e \in met : e.id = i)
                   ELSE s.status[i]]
      refuted == {i \in DOMAIN status : status[i] = "refuted" /\ s.status[i] = "live"}
      counted == [s EXCEPT !.entries = (@ \ hit) \cup met, !.status = status,
                           !.tasks = @ \cup refuted]
  IN FoldSet(LAMBDA i, acc : Propose(acc, i), counted, refuted)

(* Rules with at least three observations. *)
UpdateFromLedger(s) ==
  [s EXCEPT !.market = {e \in s.entries : e.support + e.contra >= 3}]

(* probe_value > 0.4: the odds are between one and three quarters. *)
WorthProbing(e) ==
  /\ 4 * e.support >= e.support + e.contra
  /\ 4 * e.contra >= e.support + e.contra

QueueExperiments(s) ==
  LET probes == {e \in s.market : WorthProbing(e)
                                  /\ Below(RefuteRatio(s, e.id), 3, 10)}
  IN FoldSet(LAMBDA e, acc : Propose(acc, e.id), s, probes)

(* shadow_observe has no caller: shadow stays 0 and nothing is promoted. *)
ExecutorFlushed(s) ==
  [s EXCEPT !.policies = [i \in DOMAIN @ |->
     LET p == @[i]
         promoted == p.active \/ p.shadow >= 20
     IN [p EXCEPT !.active = promoted /\ ~Above(RefuteRatio(s, p.rule), 3, 10)]]]

(* ---- state --------------------------------------------------------------- *)

(* Of these only the tape and its dictionaries are in the snapshot. *)
Opened(tape, names, auto) ==
  [tape |-> tape, names |-> names, auto |-> auto, entries |-> {},
   status |-> <<>>, market |-> {}, policies |-> <<>>, tasks |-> {}, kg |-> <<>>]

IdlePass == [pc |-> "idle", rules |-> <<>>, mask |-> {}]
IdleLogger == [pc |-> "idle", turn |-> 0, watch |-> FALSE]

(* logger: the RPC thread's log_event; pass: one record per consolidator;
   flag: CONSOLIDATING; disk: the last full snapshot; all: what was logged
   since the tape was opened; fed: what the automaton was given; shrunk: the
   tape has been shortened at some time. *)
Init ==
  LET tape == SynthesizeLegacy
      names == IF tape = <<>> THEN <<>> ELSE <<"legacy">>
  IN /\ ram = Opened(tape, names, RebuildFromTape(tape))
     /\ env = [logger |-> IdleLogger, pass |-> [p \in Passes |-> IdlePass],
               flag |-> FALSE,
               disk |-> [tape |-> <<>>, names |-> <<>>, cache |-> NoCache],
               all |-> tape, fed |-> tape, shrunk |-> FALSE,
               restarts |-> 0, passes |-> 0]

(* ---- logging --------------------------------------------------------------- *)

(* Under the tape's write lock. watch: log_event, as opposed to log_event_ex
   and put_memory, goes on to tell the refutation ledger. *)
LogAppend(act, ok, sess, watch) ==
  /\ env.logger.pc = "idle"
  /\ Len(env.all) < MaxEvents
  /\ LET tape == LogTo(ram.tape, act, ok, sess)
     IN /\ ram' = [ram EXCEPT !.tape = tape, !.names = Intern(@, act)]
        /\ env' = [env EXCEPT !.all = Append(@, tape[Len(tape)]),
                     !.logger = [pc |-> "extend", turn |-> Len(ram.tape),
                                 watch |-> watch, event |-> tape[Len(tape)]]]

(* Under the automaton's write lock, with the turn read under the other. *)
LogExtend ==
  /\ env.logger.pc = "extend"
  /\ ram' = [ram EXCEPT !.auto = Extend(@, Sym(env.logger.event), env.logger.turn)]
  /\ env' = [env EXCEPT !.fed = Append(@, env.logger.event),
               !.logger = IF @.watch /\ @.turn > 0 THEN [@ EXCEPT !.pc = "observe"]
                          ELSE IdleLogger]

(* The bigram is read again from the tape, which may have been shortened. *)
LogObserve ==
  /\ env.logger.pc = "observe"
  /\ LET t == env.logger.turn
     IN ram' = IF t + 1 \in DOMAIN ram.tape
               THEN Observe(ram, Sym(ram.tape[t]), Sym(ram.tape[t + 1])) ELSE ram
  /\ env' = [env EXCEPT !.logger = IdleLogger]

(* recall_causal, its siblings and record_action_outcome probe with symbol_of,
   which interns what it does not know. *)
Probe(act) ==
  /\ act \notin Seqs!ToSet(ram.names)
  /\ ram' = [ram EXCEPT !.names = Intern(@, act)]
  /\ UNCHANGED env

(* What recall_causal shows for a symbol: the events at its end positions. *)
RecallCausal(s, sym) ==
  LET state == Walk(s.auto, <<sym>>)
      turns == IF state = 0 THEN {} ELSE CollectEndpos(s.auto, state)
  IN {s.tape[t + 1] : t \in {u \in turns : u + 1 \in DOMAIN s.tape}}

(* What precedes a symbol: the events one before its end positions. *)
CausalAntecedents(s, sym) ==
  LET state == Walk(s.auto, <<sym>>)
      turns == IF state = 0 THEN {} ELSE CollectEndpos(s.auto, state)
  IN {Sym(s.tape[t]) : t \in {u \in turns : u >= 1 /\ u \in DOMAIN s.tape}}

(* recall_counterfactual: what else the automaton has seen follow the last
   four symbols (any symbol, where they were never seen). Support is counted
   at the child itself, without its descendants. *)
Alternatives(s, taken) ==
  LET recent == SubSeq(Syms(s.tape), Max({1, Len(s.tape) - 3}), Len(s.tape))
      state == Max({1, Walk(s.auto, recent)})
      next == s.auto.states[state].next
  IN {sym \in DOMAIN next \ {taken} :
        Cardinality(s.auto.states[next[sym]].endpos) >= MinSupport}

(* ---- consolidation ----------------------------------------------------------- *)

PassTo(p, rec) == [env EXCEPT !.pass[p] = rec]

(* The in-flight flag, then rules mined from a clone of the tape. *)
ConsolidateBegin(p) ==
  /\ env.pass[p].pc = "idle"
  /\ ~env.flag
  /\ env.passes < MaxPasses
  /\ \E rules \in RunSequitur(ram.tape) :
       env' = [PassTo(p, [pc |-> "seed", rules |-> rules, mask |-> {}])
                 EXCEPT !.flag = TRUE, !.passes = @ + 1]
  /\ UNCHANGED ram

SeedLedger(p) ==
  /\ env.pass[p].pc = "seed"
  /\ ram' = SeedFromRules(ram, env.pass[p].rules)
  /\ env' = PassTo(p, [env.pass[p] EXCEPT !.pc = "market"])

RebuildMarket(p) ==
  /\ env.pass[p].pc = "market"
  /\ ram' = UpdateFromLedger(ram)
  /\ env' = PassTo(p, [env.pass[p] EXCEPT !.pc = "promote"])

(* A rule whose key has triplets is skipped; otherwise five are appended. The
   first failing skips the rule, a later one leaves it in part. *)
PromoteRules(p, written) ==
  /\ env.pass[p].pc = "promote"
  /\ LET new == {<<r.a, r.b>> : r \in Seqs!ToSet(env.pass[p].rules)} \ DOMAIN ram.kg
     IN ram' = [ram EXCEPT !.kg = @ @@ [k \in IF written = "none" THEN {} ELSE new
                                          |-> written]]
  /\ env' = PassTo(p, [env.pass[p] EXCEPT !.pc = "sweep"])

(* Tape and automaton cloned together; the mask is computed on the clones. *)
SweepMask(p) ==
  /\ env.pass[p].pc = "sweep"
  /\ env' = PassTo(p, [env.pass[p] EXCEPT !.pc = "apply",
                                          !.mask = Removals(ram.tape, ram.auto)])
  /\ UNCHANGED ram

ApplyMask(p) ==
  /\ env.pass[p].pc = "apply"
  /\ ram' = [ram EXCEPT !.tape = ApplyRemovals(@, env.pass[p].mask)]
  /\ env' = [PassTo(p, [env.pass[p] EXCEPT !.pc = "witness", !.mask = {}])
               EXCEPT !.shrunk = @ \/ env.pass[p].mask # {}]

(* The monitor's verdict HighUncertainty: enough hypotheses with a mean probe
   value above 0.65, after the verdicts that come first. *)
HighUncertainty(s) ==
  IF /\ Cardinality(s.market) >= MinHypotheses
     /\ \E e \in s.market : WorthProbing(e)
     /\ 2 * Cardinality({i \in DOMAIN s.status : s.status[i] = "refuted"})
          < Cardinality(s.market)
  THEN BOOLEAN ELSE {FALSE}

(* The prior is rebuilt from the tape, the monitor samples the organs, and
   experiments are queued under high uncertainty. Reconciliation and metrics
   write triplets of their own. *)
Witness(p) ==
  /\ env.pass[p].pc = "witness"
  /\ \E doubtful \in HighUncertainty(ram) :
       ram' = IF doubtful THEN QueueExperiments(ram) ELSE ram
  /\ env' = [PassTo(p, IdlePass) EXCEPT !.flag = FALSE]

(* executor_flush: promotions, then demotions, under the store's lock. *)
ExecutorFlush ==
  /\ ram' = ExecutorFlushed(ram)
  /\ UNCHANGED env

(* ---- snapshot and restart -------------------------------------------------- *)

(* The organs cache beside the snapshot is rebuilt from the saved tape;
   writing it may fail.  Saves are explored as long as a restart can follow. *)
SaveFull(cached) ==
  /\ env.restarts < MaxRestarts
  /\ ram.tape # env.disk.tape
  /\ env' = [env EXCEPT !.disk =
       [tape |-> ram.tape, names |-> ram.names,
        cache |-> IF cached
                  THEN [saved |-> TRUE, events |-> Len(ram.tape), tape |-> ram.tape,
                        names |-> ram.names, auto |-> RebuildFromTape(ram.tape)]
                  ELSE NoCache]]
  /\ UNCHANGED ram

(* Tape events have no log record: what the snapshot lacks is gone. *)
Restart ==
  /\ env.restarts < MaxRestarts
  /\ LET d == env.disk
         empty == d.tape = <<>>
         tape == IF empty THEN SynthesizeLegacy ELSE d.tape
         names == IF empty /\ tape # <<>> THEN <<"legacy">> ELSE d.names
     IN /\ ram' = [Opened(tape, names,
                          LoadOrRebuildOrgans(d.cache, tape, names))
                   EXCEPT !.kg = ram.kg]
        /\ env' = [env EXCEPT !.logger = IdleLogger,
                     !.pass = [p \in Passes |-> IdlePass], !.flag = FALSE,
                     !.all = tape, !.fed = tape, !.restarts = @ + 1]

Next ==
  \/ \E act \in Acts, ok, watch \in BOOLEAN, sess \in EventSessions :
       LogAppend(act, ok, sess, watch)
  \/ LogExtend \/ LogObserve
  \/ \E act \in Acts : Probe(act)
  \/ \E p \in Passes :
       \/ ConsolidateBegin(p) \/ SeedLedger(p) \/ RebuildMarket(p)
       \/ \E written \in {"none", "part", "whole"} : PromoteRules(p, written)
       \/ SweepMask(p) \/ ApplyMask(p) \/ Witness(p)
  \/ ExecutorFlush
  \/ \E cached \in BOOLEAN : SaveFull(cached)
  \/ Restart

Spec == Init /\ [][Next]_vars

(* ---- properties -------------------------------------------------------------- *)

(* What consolidation must never remove from a tape: failures and the edges
   of each session's runs. *)
Precious(tape) ==
  LET keep == {i \in DOMAIN tape : ~tape[i].ok} \cup SessionBounds(tape)
  IN ApplyRemovals(tape, DOMAIN tape \ keep)

(* Compression, whose mask is computed without a lock while events keep
   arriving, removes no failure and no first or last event of a session, in
   every order of appends and overlapping calls of consolidation_pass. *)
SweepKeeps == Precious(ram.tape) = Precious(env.all)

Words == {<<a>> : a \in Seqs!ToSet(Syms(env.fed))}
           \cup {<<a, b>> : a, b \in Seqs!ToSet(Syms(env.fed))}

Occurs(word, i) ==
  /\ i >= Len(word)
  /\ SubSeq(Syms(env.fed), i - Len(word) + 1, i) = word

(* The automaton built online by extend finds exactly the words that occurred,
   each with exactly the turns it ended at, clones included; a restart through
   the organs cache changes nothing. *)
EndposExact ==
  \A w \in Words :
    LET ends == {i \in DOMAIN env.fed : Occurs(w, i)}
    IN IF ends = {} THEN Walk(ram.auto, w) = 0
       ELSE /\ Walk(ram.auto, w) # 0
            /\ CollectEndpos(ram.auto, Walk(ram.auto, w)) = {env.fed[i].turn : i \in ends}

(* While no pass has shortened the tape, recall_causal shows events of the
   symbol it was asked for, causal_antecedents what really came before it, and
   recall_counterfactual what really happened: an end position is an index
   into the tape. *)
CausalHonest ==
  ~env.shrunk =>
    /\ \A sym \in Seqs!ToSet(Syms(ram.tape)) :
         /\ \A hit \in RecallCausal(ram, sym) : Sym(hit) = sym
         /\ \A before \in CausalAntecedents(ram, sym) :
              <<before, sym>> \in Bigrams(ram.tape)
    /\ Alternatives(ram, <<>>) \subseteq Seqs!ToSet(Syms(ram.tape))
=============================================================================
