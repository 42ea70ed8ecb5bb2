------------------------------- MODULE Organs -------------------------------
(***************************************************************************)
(* The organs of a field that this project proves theorems about, for      *)
(* every value of their bounds.                                            *)
(***************************************************************************)
EXTENDS Parts, Integers, Sequences

CONSTANTS MaxCalls, MaxEntries,
          TaskIds, Writers, MaxTs,     \* of Tasks
          MaxTriggers, MaxNow,         \* of Triggers
          Objects, MaxFacts,           \* of Constraints
          MaxFailures,                 \* of Interventions
          EvidenceIds, Criteria,       \* of AgentProtocol
          Skills, Agents, Entities,    \* of Registries
          Clusters, Threshold          \* of Debts

\* Time and numbers of triggers and branches are natural; a writer that fences has a token
\* above 0, the token of a caller that does not.
ASSUME OrganAssumption ==
    /\ Writers \subseteq Nat \ {0} /\ MaxTs \in Nat
    /\ MaxTriggers \in Nat /\ MaxFacts \in Nat

Task == INSTANCE Tasks
Trigger == INSTANCE Triggers
Constraint == INSTANCE Constraints
Intervention == INSTANCE Interventions
Agent == INSTANCE AgentProtocol WITH Evidence <- EvidenceIds
Registry == INSTANCE Registries WITH MaxCalls <- MaxEntries
Debt == INSTANCE Debts

OrganInit ==
    \/ part = "tasks" /\ Task!Init
    \/ part = "triggers" /\ Trigger!Init
    \/ part = "constraints" /\ Constraint!Init
    \/ part = "interventions" /\ Intervention!Init
    \/ part = "agents" /\ Agent!Init
    \/ part = "registries" /\ Registry!Init
    \/ part = "debts" /\ Debt!Init

OrganNext ==
    \/ part = "tasks" /\ Task!Next /\ Same
    \/ part = "triggers" /\ Trigger!Next /\ Same
    \/ part = "constraints" /\ Constraint!Next /\ Same
    \/ part = "interventions" /\ Intervention!Next /\ Same
    \/ part = "agents" /\ Agent!Next /\ Same
    \/ part = "registries" /\ Registry!Next /\ Same
    \/ part = "debts" /\ Debt!Next /\ Same

OrganSpec == OrganInit /\ [][OrganNext]_vars
-----------------------------------------------------------------------------
(* A writer with a stale fencing token changes no task, over restarts that
   replay the log. *)
Fenced == part = "tasks" => Task!Fenced

(* check_triggers hands no action to two callers, whatever fails and whenever
   the process restarts. *)
DeliveredOnce == part = "triggers" => Trigger!DeliveredOnce

(* One surprise alone lowers no memory's strength; a belief branch holds no
   contradiction. *)
JudgementsSound ==
    /\ part = "interventions" => Intervention!Hysteresis
    /\ part = "constraints" => Constraint!BranchesConsistent

(* A restart between two full snapshots brings each organ back as it was:
   replay of the records is the operation, up to the differences that the
   modules name. *)
RecordsReplayed ==
    /\ part = "tasks" => Task!TasksKept
    /\ part = "constraints" => Constraint!FactsKept
    /\ part = "interventions" => Intervention!LedgerKept
    /\ part = "agents" => Agent!ContractsKept
    /\ part = "registries" => Registry!RegistriesKept
    /\ part = "debts" => Debt!LedgersKept
=============================================================================
