--------------------------- MODULE Interventions ---------------------------
(***************************************************************************)
(* The intervention ledger and the surprise memory, with the learning they *)
(* drive: surprise credit (one memory's strength is lowered only by a run  *)
(* of surprises) and the integration kernel's source feedback.  Magnitudes *)
(* are in hundredths, credit in thousandths; both call sites pass dir = -1,*)
(* so credit is kept as its absolute value.                                *)
(***************************************************************************)
EXTENDS Integers, Sequences, FiniteSetsExt

CONSTANTS MaxCalls,       \* bound on operations
          MaxFailures     \* repeated_failure_window

VARIABLES ram, wal, todo, gap, env

Sources == {"semantic", "keyword", "memory"}
Verdicts == {"open", "succeeded", "failed", "aborted"}

Empty ==
  [iv |-> <<>>, next |-> 1, open |-> {}, surprises |-> 0, weakened |-> 0, faulted |-> 0,
   credit |-> [c |-> 0, streak |-> 0],
   weight |-> [s \in Sources |-> [ok |-> 0, n |-> 0]],
   failures |-> 0]

(* insert_intervention: the record under its id. *)
Insert(map, key, value) ==
  [k \in DOMAIN map \cup {key} |-> IF k = key THEN value ELSE map[k]]

Opened(s, i) ==
  [s EXCEPT !.iv = Insert(@, i, [status |-> "open", closed |-> FALSE, obs |-> 0,
                                 attr |-> FALSE]),
            !.next = Max({@, i + 1}),
            !.open = @ \cup {i}]

Closed(s, i, status) ==
  [s EXCEPT !.iv[i] = [@ EXCEPT !.status = status, !.closed = TRUE],
            !.open = @ \ {i}]

Replay(s, op) ==
  CASE op.op = "start" -> Opened(s, op.id)
    [] op.op = "observe" /\ op.id \in DOMAIN s.iv -> [s EXCEPT !.iv[op.id].obs = @ + 1]
    [] op.op = "close" /\ op.id \in DOMAIN s.iv -> Closed(s, op.id, op.status)
    [] op.op = "attribute" /\ op.id \in DOMAIN s.iv -> [s EXCEPT !.iv[op.id].attr = TRUE]
    [] op.op = "surprise" -> [s EXCEPT !.surprises = @ + 1]
    [] op.op = "strength" -> [s EXCEPT !.weakened = @ + 1]
    [] op.op = "fault" -> [s EXCEPT !.faulted = @ + 1]
    [] op.op = "credit" -> [s EXCEPT !.credit = op.credit]
    [] op.op = "feedback" -> [s EXCEPT !.weight[op.source] = op.weight]
    [] OTHER -> s

(* None of these stores has a section in the snapshot's body; the strength of
   the memory has. *)
Body(s) == [Empty EXCEPT !.weakened = s.weakened, !.faulted = s.faulted]

Log == INSTANCE OrganLog

vars == <<ram, wal, todo, gap, env>>

Init == Log!LogInit /\ env = [ops |-> 0, evidence |-> 0]

Do(new, recs) ==
  /\ Log!Idle
  /\ env.ops < MaxCalls
  /\ ram' = new
  /\ todo' = recs
  /\ UNCHANGED <<wal, gap>>

(* evidence counts what update_credit accepted for the memory. *)
Weighed(counts) ==
  env' = [ops |-> env.ops + 1,
          evidence |-> IF counts THEN env.evidence + 1 ELSE env.evidence]
Counted == Weighed(FALSE)

StartIntervention == 
  Do(Opened(ram, ram.next), <<[op |-> "start", id |-> ram.next]>>) /\ Counted

AddObservation(i) ==
  /\ Do([ram EXCEPT !.iv[i].obs = @ + 1], <<[op |-> "observe", id |-> i]>>)
  /\ Counted

(* close_intervention checks neither the old status nor the new one. *)
CloseIntervention(i, status) ==
  /\ Do(Closed(ram, i, status), <<[op |-> "close", id |-> i, status |-> status]>>)
  /\ Counted

(* close_stale_interventions sweeps what open_interventions still holds, one
   close and one record after the other. *)
CloseStale(i) == i \in ram.open /\ CloseIntervention(i, "aborted")

(* compute_evidence: quadratic above the ignore threshold of 0.20. *)
Evidence(magnitude) ==
  IF magnitude < 20 THEN 0
  ELSE ((magnitude - 20) * (magnitude - 20) * 1000) \div 6400

(* update_credit without its gate: decay, add, count the run. *)
Credited(credit, e) ==
  [c |-> (85 * credit.c) \div 100 + e,
   streak |-> IF credit.streak < 8 THEN credit.streak + 1 ELSE 8]
(* Mutant: the run of surprises is not asked for. *)
GateAtOnce(credit) == credit.c >= 750

Gate(credit) == credit.c >= 750 /\ credit.streak >= 2
Bled(credit) == [credit EXCEPT !.c = (35 * @) \div 100]

UpdateCredit(s, magnitude) ==
  LET e == Evidence(magnitude)
      c == Credited(s.credit, e)
  IN  IF e = 0 THEN s
      ELSE [s EXCEPT !.credit = IF Gate(c) THEN Bled(c) ELSE c]

GatePassed(s, magnitude) ==
  Evidence(magnitude) > 0 /\ Gate(Credited(s.credit, Evidence(magnitude)))

Feedback(s, source, useful) ==
  [s EXCEPT !.weight[source] = [ok |-> IF useful THEN @.ok + 1 ELSE @.ok,
                                n |-> @.n + 1]]
FeedbackRec(s, source) ==
  <<[op |-> "feedback", source |-> source, weight |-> s.weight[source]]>>

(* record_surprise about one memory: the event, the credit with the strength
   change it releases, then the kernel's feedback in both directions. *)
RecordSurprise(magnitude) ==
  LET passed == GatePassed(ram, magnitude)
      s1 == UpdateCredit([ram EXCEPT !.surprises = @ + 1,
                                     !.weakened = IF passed THEN @ + 1 ELSE @],
                         magnitude)
      neg == magnitude >= 55 \/ (magnitude >= 25 /\ ram.failures >= 2)
      s2 == IF neg
            THEN Feedback([s1 EXCEPT !.failures = IF @ < MaxFailures THEN @ + 1
                                                  ELSE @],
                          "semantic", FALSE)
            ELSE s1
      pos == magnitude >= 30
      s3 == IF pos THEN Feedback(s2, "keyword", TRUE) ELSE s2
  IN  /\ Do(s3, <<[op |-> "surprise"]>>
                \o (IF passed THEN <<[op |-> "strength"],
                                     [op |-> "credit", credit |-> s1.credit]>>
                    ELSE <<>>)
                \o (IF neg THEN FeedbackRec(s3, "semantic") ELSE <<>>)
                \o (IF pos THEN FeedbackRec(s3, "keyword") ELSE <<>>))
      /\ Weighed(Evidence(magnitude) > 0)

(* record_attribution and route_attribution: credit and source trust change
   in RAM only, and the strength change that update_credit releases is
   dropped; a procedure error goes through update_state. *)
RecordAttribution(i, class) ==
  /\ Do(LET s == [ram EXCEPT !.iv[i].attr = TRUE]
        IN  CASE class = "recall" -> UpdateCredit(s, 100)
              [] class = "trust" -> Feedback(s, "memory", FALSE)
              [] class = "procedure" -> [s EXCEPT !.faulted = @ + 1]
              [] OTHER -> s,
        <<[op |-> "attribute", id |-> i]>>
        \o (IF class = "procedure" THEN <<[op |-> "fault"]>> ELSE <<>>))
  /\ Weighed(class = "recall")

Next ==
  \/ StartIntervention
  \/ \E i \in DOMAIN ram.iv :
       \/ AddObservation(i)
       \/ CloseStale(i)
       \/ \E status \in Verdicts : CloseIntervention(i, status)
       \/ \E class \in {"recall", "trust", "procedure", "other"} :
            RecordAttribution(i, class)
  \/ \E magnitude \in {10, 40, 100} : RecordSurprise(magnitude)
  \/ (Log!Logged \/ Log!LogFails \/ Log!Checkpoint \/ Log!Restart)
       /\ UNCHANGED env

Spec == Init /\ [][Next]_vars
-----------------------------------------------------------------------------
(* A restart keeps the ledger (interventions with verdicts, observations and
   the open set), the surprises and what they did to the memory's strength.
   Feedback counters may come back lower, never higher. *)
LedgerKept ==
  Log!Settled =>
    /\ wal.iv = ram.iv /\ wal.open = ram.open
    /\ wal.surprises = ram.surprises /\ wal.weakened = ram.weakened
    /\ wal.faulted = ram.faulted
    /\ \A s \in Sources : wal.weight[s].n <= ram.weight[s].n

(* One surprise alone never lowers a memory's strength, not even when restarts
   lose or restore the credit in between: each lowering by surprise has a
   surprise or recall-error attribution of its own, and the first has two. *)
Hysteresis ==
  ram.weakened > 0 => env.evidence > ram.weakened
=============================================================================
