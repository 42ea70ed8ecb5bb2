------------------------- MODULE InstanceLockProofs -------------------------
(***************************************************************************)
(* Why the instance lock excludes a second instance when the openers'      *)
(* iterations do not overlap, for any number of openers, processes, hosts, *)
(* deaths and orphaned locks.                                              *)
(***************************************************************************)
EXTENDS InstanceLock, TLAPS

\* A holder owns the lock of the inode that the name leads to.
HoldersOwn ==
    \A o \in Holders : path # 0 /\ fd[o] = path /\ owner[path] = o

\* An opener that has not gone runs in a live process.
Running == \A o \in Openers : pc[o] # "gone" => ProcessOf[o] \in alive

\* A lock that is not orphaned belongs to a holder and is not on a file whose
\* name is gone.
OwnersHold ==
    \A i \in Inodes : owner[i] \in Openers => owner[i] \in Holders /\ i = path

\* An opener inside the loop body looks at the inode the name leads to.
InsideOnPath == \A o \in Inside : path # 0 /\ fd[o] = path

OneInside == \A o, q \in Inside : o = q

\* The text of a lock file names nobody but its holder, once that one has
\* truncated it.
Recorded ==
    \A o \in Openers :
       /\ pc[o] = "emptied" => record[path] = NoOne
       /\ pc[o] = "held" => record[path] \in {ProcessOf[o], NoOne}

\* What is about to be unlinked is nobody's lock.
StaleIsFree == \A o \in Openers : pc[o] = "stale" => owner[path] \notin Openers

IInv ==
    /\ TypeOK /\ HoldersOwn /\ OwnersHold /\ InsideOnPath /\ OneInside
    /\ Recorded /\ StaleIsFree /\ Running

(* The type invariant holds in every reachable state of                      *)
(* acquire_instance_lock.                                                    *)
THEOREM LockTypeCorrect == Spec => []TypeOK
<1> USE OpenersAssumption DEF TypeOK, Labels, Inodes
<1>1. Init => TypeOK
  BY DEF Init
<1>2. TypeOK /\ [Next]_vars => TypeOK'
  <2> SUFFICES ASSUME TypeOK, [Next]_vars PROVE TypeOK'
    OBVIOUS
  <2>1. ASSUME NEW o \in Openers, Acquire(o) PROVE TypeOK'
    <3>1. CASE OpenFile(o)
      BY <3>1 DEF OpenFile, Goto
    <3>2. CASE FlockGranted(o)
      BY <3>2 DEF FlockGranted, Goto
    <3>3. CASE FlockRefused(o)
      BY <3>3 DEF FlockRefused, Goto, disk
    <3>4. CASE EmptyRecord(o)
      BY <3>4 DEF EmptyRecord, Goto
    <3>5. CASE WriteRecord(o)
      BY <3>5 DEF WriteRecord, Goto
    <3>6. CASE ReadHolder(o)
      BY <3>6 DEF ReadHolder, Goto, disk
    <3>7. CASE SelfHolder(o)
      BY <3>7 DEF SelfHolder, Goto, disk
    <3>8. CASE Replace(o)
      BY <3>8 DEF Replace, Goto
    <3>9. CASE Poll(o)
      BY <3>9 DEF Poll, Goto, disk
    <3>10. CASE Refuse(o)
      BY <3>10 DEF Refuse, Goto, disk
    <3> QED
      BY <2>1, <3>1, <3>2, <3>3, <3>4, <3>5, <3>6, <3>7, <3>8, <3>9, <3>10
      DEF Acquire
  <2>2. ASSUME NEW o \in Openers, OpenError(o) PROVE TypeOK'
    BY <2>2 DEF OpenError, Goto, disk
  <2>3. ASSUME NEW o \in Openers, Release(o) PROVE TypeOK'
    BY <2>3 DEF Release, Goto
  <2>4. ASSUME NEW p \in Processes, NEW lingers \in BOOLEAN, Exit(p, lingers)
        PROVE TypeOK'
    BY <2>4 DEF Exit
  <2>5. CASE UNCHANGED vars
    BY <2>5 DEF vars, opener, disk
  <2> QED
    BY <2>1, <2>2, <2>3, <2>4, <2>5 DEF Next
<1> QED
  BY <1>1, <1>2, PTL DEF Spec

-----------------------------------------------------------------------------
\* A step of the loop keeps the invariant; its parts are taken together, as
\* they are stated of the same few openers.
LEMMA LoopStep ==
    ASSUME IInv, TypeOK', ~Interleaved, NEW o \in Openers, Acquire(o)
    PROVE  IInv'
<1> USE OpenersAssumption
    DEF IInv, TypeOK, HoldersOwn, OwnersHold, InsideOnPath, OneInside,
        Recorded, StaleIsFree, Running, Holders, Inside, Inodes
<1>1. CASE OpenFile(o)
  BY <1>1 DEF OpenFile, Goto
<1>2. CASE FlockGranted(o)
  <2>1. /\ path \in Inodes /\ owner[path] = NoOne
        /\ owner' = [owner EXCEPT ![path] = o] /\ path' = path /\ fd' = fd
        /\ pc' = [pc EXCEPT ![o] = "locked"] /\ pc[o] = "opened"
        /\ record' = record /\ alive' = alive
    BY <1>2 DEF FlockGranted, Goto
  <2>2. Holders = {} /\ Holders' = {o} /\ Inside' = Inside
    BY <2>1
  <2>3. HoldersOwn' /\ OwnersHold'
    BY <2>1, <2>2
  <2>4. InsideOnPath' /\ OneInside' /\ Recorded' /\ Running'
    BY <2>1
  <2>5. StaleIsFree'
    BY <2>1
  <2> QED
    BY <2>3, <2>4, <2>5
<1>3. CASE FlockRefused(o)
  BY <1>3 DEF FlockRefused, Goto, disk
<1>4. CASE EmptyRecord(o)
  BY <1>4 DEF EmptyRecord, Goto
<1>5. CASE WriteRecord(o)
  BY <1>5 DEF WriteRecord, Goto
<1>6. CASE ReadHolder(o)
  BY <1>6 DEF ReadHolder, IsStale, Goto, disk
<1>7. CASE SelfHolder(o)
  BY <1>7 DEF SelfHolder, Goto, disk
<1>8. CASE Replace(o)
  BY <1>8 DEF Replace, Goto
<1>9. CASE Poll(o)
  BY <1>9 DEF Poll, LiveHolder, Goto, disk
<1>10. CASE Refuse(o)
  BY <1>10 DEF Refuse, LiveHolder, Goto, disk
<1> QED
  BY <1>1, <1>2, <1>3, <1>4, <1>5, <1>6, <1>7, <1>8, <1>9, <1>10 DEF Acquire

\* An I/O error and the Drop of a lock keep the invariant.
LEMMA LeaveStep ==
    ASSUME IInv, TypeOK', NEW o \in Openers, OpenError(o) \/ Release(o)
    PROVE  IInv'
<1> USE OpenersAssumption
    DEF IInv, TypeOK, HoldersOwn, OwnersHold, InsideOnPath, OneInside,
        Recorded, StaleIsFree, Running, Holders, Inside, Inodes
<1>1. CASE OpenError(o)
  BY <1>1 DEF OpenError, Goto, disk
<1>2. CASE Release(o)
  <2>1. /\ path \in Inodes /\ owner[path] = o
        /\ owner' = [owner EXCEPT ![path] = NoOne] /\ path' = path
        /\ fd' = [fd EXCEPT ![o] = 0]
        /\ pc' = [pc EXCEPT ![o] = "closed"] /\ pc[o] = "held"
        /\ record' = record /\ alive' = alive
    BY <1>2 DEF Release, Goto
  <2>2. Holders = {o} /\ Holders' = {} /\ Inside' = Inside
    BY <2>1
  <2>3. HoldersOwn' /\ OwnersHold'
    BY <2>1, <2>2
  <2>4. InsideOnPath' /\ OneInside' /\ Recorded' /\ Running'
    BY <2>1
  <2>5. StaleIsFree'
    BY <2>1
  <2> QED
    BY <2>3, <2>4, <2>5
<1> QED
  BY <1>1, <1>2

\* The death of a process keeps it, whether or not its lock lingers.
LEMMA ExitStep ==
    ASSUME IInv, TypeOK', NEW p \in Processes, NEW lingers \in BOOLEAN,
           Exit(p, lingers)
    PROVE  IInv'
BY OpenersAssumption
   DEF IInv, TypeOK, HoldersOwn, OwnersHold, InsideOnPath, OneInside,
       Recorded, StaleIsFree, Running, Holders, Inside, Inodes, Exit

(* At most one instance has the store as long as no two openers are inside   *)
(* the loop of acquire_instance_lock at once: replacing a stale file never   *)
(* takes the name away from a live holder, whatever dies or is orphaned.     *)
THEOREM LockExclusive == ~Interleaved => (Spec => []Exclusive)
<1> SUFFICES ASSUME ~Interleaved PROVE Spec => []Exclusive
  OBVIOUS
<1>1. Init => IInv
  BY OpenersAssumption
     DEF Init, IInv, TypeOK, Labels, HoldersOwn, OwnersHold, InsideOnPath,
         OneInside, Recorded, StaleIsFree, Running, Holders, Inside,
         Inodes
<1>2. IInv /\ TypeOK' /\ [Next]_vars => IInv'
  <2> SUFFICES ASSUME IInv, TypeOK', [Next]_vars PROVE IInv'
    OBVIOUS
  <2>1. CASE UNCHANGED vars
    BY <2>1 DEF vars, opener, disk, IInv, TypeOK, HoldersOwn, OwnersHold,
                InsideOnPath, OneInside, Recorded, StaleIsFree, Running,
                Holders, Inside
  <2> QED
    BY <2>1, LoopStep, LeaveStep, ExitStep DEF Next
<1>3. IInv => Exclusive
  BY DEF IInv, HoldersOwn, Exclusive
<1> QED
  BY <1>1, <1>2, <1>3, LockTypeCorrect, PTL DEF Spec
=============================================================================
