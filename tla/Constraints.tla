---------------------------- MODULE Constraints ----------------------------
(***************************************************************************)
(* The constraint store: facts on branches.  A fact that contradicts an    *)
(* active fact of its branch goes to a rival branch of its own, and        *)
(* resolving a conflict retracts the loser's facts.  All facts here share  *)
(* subject, predicate and scope and differ in their object, which is the   *)
(* only case where branches matter.                                        *)
(***************************************************************************)
EXTENDS Integers, Sequences, FiniteSetsExt

CONSTANTS Objects, MaxFacts

VARIABLES ram, wal, todo, gap, env

(* Branch 0 is the default and has no Branch record; nor has a branch that a
   caller only named.  facts: by id, with next_id; branches: status by id, with next_branch_id. *)
Empty == [facts |-> <<>>, next |-> 1,
          branches |-> <<>>, nextBranch |-> 1]

Active(s) == {i \in DOMAIN s.facts : s.facts[i].active}

(* detect_conflict: an active fact of this branch with another object. *)
Rivals(s, object, branch) ==
  {i \in Active(s) : s.facts[i].object # object /\ s.facts[i].branch = branch}

(* HashMap::insert. *)
Insert(map, key, value) ==
  [k \in DOMAIN map \cup {key} |-> IF k = key THEN value ELSE map[k]]

AddBranch(s, b) ==
  [s EXCEPT !.branches = Insert(@, b, "active"), !.nextBranch = Max({@, b + 1})]

AddFact(s, i, object, branch) ==
  [s EXCEPT !.facts = Insert(@, i, [object |-> object, branch |-> branch, active |-> TRUE]),
            !.next = Max({@, i + 1})]

(* The facts of a set lose their validity. *)
Retract(facts, ids) ==
  [i \in DOMAIN facts |->
     IF i \in ids THEN [facts[i] EXCEPT !.active = FALSE] ELSE facts[i]]

(* resolve_branch: false, and no change, for an unknown loser. *)
Resolve(s, winner, loser) ==
  IF loser \notin DOMAIN s.branches THEN s
  ELSE [s EXCEPT
          !.branches = [b \in DOMAIN s.branches |->
                          IF b = winner THEN "merged"
                          ELSE IF b = loser THEN "abandoned" ELSE s.branches[b]],
          !.facts = Retract(@, {i \in DOMAIN s.facts : s.facts[i].branch = loser})]

Replay(s, op) ==
  CASE op.op = "assert" -> AddFact(s, op.id, op.object, op.branch)
    [] op.op = "retract" /\ op.id \in DOMAIN s.facts ->
         [s EXCEPT !.facts = Retract(@, {op.id})]
    [] op.op = "branch" -> AddBranch(s, op.id)
    [] op.op = "resolve" -> Resolve(s, op.winner, op.loser)
    [] OTHER -> s

(* The full snapshot's body has no section for this organ. *)
Body(s) == Empty

Log == INSTANCE OrganLog

vars == <<ram, wal, todo, gap, env>>

(* unlogged: branches that a conflict created; inherited: those of them under
   whose number a contradicting fact stood already; merged: a restart has
   happened since one was created, or with records missing from the log. *)
Init ==
  /\ Log!LogInit
  /\ env = [ops |-> 0, unlogged |-> {}, inherited |-> {}, merged |-> FALSE]

Do(new, rec) ==
  /\ Log!Idle
  /\ env.ops < MaxFacts
  /\ ram' = new
  /\ todo' = <<rec>>
  /\ UNCHANGED <<wal, gap>>

Counted == env' = [env EXCEPT !.ops = @ + 1]

(* assert_constraint takes any branch number, made or not.  The record carries
   the branch the caller asked for, not the rival branch that assert_fact made. *)
AssertConstraint(object, branch) ==
  LET rec == [op |-> "assert", id |-> ram.next, object |-> object, branch |-> branch]
  IN  \/ /\ Rivals(ram, object, branch) = {}
         /\ Do(AddFact(ram, ram.next, object, branch), rec)
         /\ Counted
      \/ /\ Rivals(ram, object, branch) # {}
         /\ Do(AddFact(AddBranch(ram, ram.nextBranch), ram.next, object, ram.nextBranch), rec)
         /\ env' = [env EXCEPT
                      !.ops = @ + 1, !.unlogged = @ \cup {ram.nextBranch},
                      !.inherited = IF Rivals(ram, object, ram.nextBranch) = {} THEN @
                                    ELSE @ \cup {ram.nextBranch}]

RetractConstraint(i) ==
  /\ i \in DOMAIN ram.facts
  /\ Do([ram EXCEPT !.facts = Retract(@, {i})], [op |-> "retract", id |-> i])
  /\ Counted

CreateConstraintBranch ==
  /\ Do(AddBranch(ram, ram.nextBranch), [op |-> "branch", id |-> ram.nextBranch])
  /\ Counted

ResolveConstraintBranch(winner, loser) ==
  /\ loser \in DOMAIN ram.branches
  /\ Do(Resolve(ram, winner, loser),
        [op |-> "resolve", winner |-> winner, loser |-> loser])
  /\ Counted

Reopen ==
  /\ Log!Restart
  /\ env' = [env EXCEPT !.unlogged = {}, !.merged = @ \/ gap \/ todo # <<>> \/ env.unlogged # {}]

Next ==
  \/ \E object \in Objects, b \in 0..MaxFacts : AssertConstraint(object, b)
  \/ \E i \in DOMAIN ram.facts : RetractConstraint(i)
  \/ CreateConstraintBranch
  \/ \E winner \in 0..MaxFacts, loser \in DOMAIN ram.branches :
       ResolveConstraintBranch(winner, loser)
  \/ Reopen
  \/ (Log!Logged \/ Log!LogFails \/ Log!Checkpoint) /\ UNCHANGED env

Spec == Init /\ [][Next]_vars
-----------------------------------------------------------------------------
(* No branch holds two active facts that contradict each other, except a rival
   branch whose number callers had used before a conflict handed it out, and up
   to the first restart after a conflict or a failed append: a rival branch is
   never logged, so replay puts the rival back beside the fact it contradicts. *)
BranchesConsistent ==
  ~env.merged =>
    \A i, j \in Active(ram) :
      ram.facts[i].branch = ram.facts[j].branch /\ ram.facts[i].branch \notin env.inherited
        => ram.facts[i].object = ram.facts[j].object

(* A restart keeps every fact's validity and branch, except on the branches
   that conflicts created. *)
FactsKept ==
  Log!Settled =>
    /\ DOMAIN wal.facts = DOMAIN ram.facts
    /\ \A i \in DOMAIN ram.facts :
         ram.facts[i].branch \notin env.unlogged => wal.facts[i] = ram.facts[i]
=============================================================================
