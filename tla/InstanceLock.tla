---------------------------- MODULE InstanceLock ----------------------------
(***************************************************************************)
(* The instance lock of a store directory (src/field.rs,                   *)
(* acquire_instance_lock and Drop for InstanceLock).                       *)
(*                                                                         *)
(* An opener is one call of ChittaField::open in some process.  It opens   *)
(* <data_dir>/.instance.lock, tries flock() on the inode it got, and       *)
(* records its pid and host in the file once the lock is granted.  A lock  *)
(* whose recorded holder is a dead process of the same host is taken for   *)
(* stale: the file is unlinked and a fresh one is created.                 *)
(*                                                                         *)
(* Inodes are numbered in the order of their creation, inode 0 is none.  A *)
(* process number is never used again.  set_len(0) and remove_file, whose  *)
(* errors the code ignores, are taken to succeed.  CHITTA_STORE_LOCK=0,    *)
(* which skips all this, is left out.                                      *)
(***************************************************************************)
EXTENDS Integers

CONSTANTS
    Openers,     \* calls of open()
    Processes,
    ProcessOf,   \* the process each opener runs in
    HostOf,      \* the host each process runs on
    NoOne,       \* no opener, no process
    Orphan,      \* a server-side lock whose process is gone (NFSv3)
    MaxInodes,   \* lock files created; one more than openers is enough
    MaxPolls,    \* CHITTA_STORE_LOCK_WAIT_S, in polls of 250 ms
    MaxOrphans,  \* deaths that leave a server-side lock behind
    Interleaved  \* whether two openers may be inside the loop body at once

ASSUME OpenersAssumption ==
    /\ ProcessOf \in [Openers -> Processes]
    /\ NoOne \notin Openers \union Processes \union {Orphan}
    /\ Orphan \notin Openers
    /\ MaxInodes \in Nat /\ MaxPolls \in Nat /\ MaxOrphans \in Nat
    /\ Interleaved \in BOOLEAN

VARIABLES
    pc,        \* how far each opener has got
    fd,        \* the inode each opener has open
    replaced,  \* replaced_stale of each opener
    polls,     \* times each opener has slept
    path,      \* the inode the name .instance.lock leads to
    created,   \* inodes created so far
    owner,     \* who holds the flock of each inode
    record,    \* the process each inode's text names
    alive,     \* processes that are running
    orphans

opener == <<pc, fd, replaced, polls>>
disk   == <<path, created, owner, record>>
vars   == <<opener, disk, alive, orphans>>

Inodes == 1 .. MaxInodes

Init ==
    /\ pc = [o \in Openers |-> "opening"]
    /\ fd = [o \in Openers |-> 0]
    /\ replaced = [o \in Openers |-> FALSE]
    /\ polls = [o \in Openers |-> 0]
    /\ path = 0 /\ created = 0
    /\ owner = [i \in Inodes |-> NoOne] /\ record = [i \in Inodes |-> NoOne]
    /\ alive = Processes /\ orphans = 0

-----------------------------------------------------------------------------
\* Openers between the open() of an iteration and its end.
Inside == {o \in Openers :
             pc[o] \in {"opened", "locked", "emptied", "blocked", "stale"}}

Goto(o, label) == pc' = [pc EXCEPT ![o] = label]

\* OpenOptions::create(true).open(): the inode the name leads to, or a new one.
OpenFile(o) ==
    /\ pc[o] = "opening"
    /\ Interleaved \/ Inside = {}
    /\ IF path # 0 THEN UNCHANGED <<path, created>>
       ELSE created < MaxInodes /\ created' = created + 1 /\ path' = created'
    /\ fd' = [fd EXCEPT ![o] = path']
    /\ Goto(o, "opened")
    /\ UNCHANGED <<replaced, polls, owner, record, alive, orphans>>

\* flock(LOCK_EX | LOCK_NB).
FlockGranted(o) ==
    /\ pc[o] = "opened" /\ owner[fd[o]] = NoOne
    /\ owner' = [owner EXCEPT ![fd[o]] = o]
    /\ Goto(o, "locked")
    /\ UNCHANGED <<fd, replaced, polls, path, created, record, alive, orphans>>

FlockRefused(o) ==
    /\ pc[o] = "opened" /\ owner[fd[o]] # NoOne
    /\ Goto(o, "blocked")
    /\ UNCHANGED <<fd, replaced, polls, disk, alive, orphans>>

\* set_len(0), then the pid and the host; an error of the second is ignored.
EmptyRecord(o) ==
    /\ pc[o] = "locked"
    /\ record' = [record EXCEPT ![fd[o]] = NoOne]
    /\ Goto(o, "emptied")
    /\ UNCHANGED <<fd, replaced, polls, path, created, owner, alive, orphans>>

WriteRecord(o) ==
    /\ pc[o] = "emptied"
    /\ \/ record' = [record EXCEPT ![fd[o]] = ProcessOf[o]]
       \/ UNCHANGED record
    /\ Goto(o, "held")
    /\ UNCHANGED <<fd, replaced, polls, path, created, owner, alive, orphans>>

\* open() or flock() fails with another error than EWOULDBLOCK.
OpenError(o) ==
    /\ pc[o] \in {"opening", "opened"}
    /\ Goto(o, "failed")
    /\ fd' = [fd EXCEPT ![o] = 0]
    /\ UNCHANGED <<replaced, polls, disk, alive, orphans>>

\* Mutant: the holder's host is not compared.
MutIsStaleAnyHost(o, holder) ==
    /\ ~replaced[o]
    /\ holder # NoOne
    /\ HostOf[holder] # HostOf[ProcessOf[o]] \/ holder \notin alive

\* The recorded holder ran on this host and kill(pid, 0) says ESRCH.
IsStale(o, holder) ==
    /\ ~replaced[o]
    /\ holder # NoOne
    /\ HostOf[holder] = HostOf[ProcessOf[o]] /\ holder \notin alive

\* After a refused flock(): what the file says of the holder decides.
ReadHolder(o) ==
    /\ pc[o] = "blocked"
    /\ record[fd[o]] # ProcessOf[o] /\ IsStale(o, record[fd[o]])
    /\ Goto(o, "stale")
    /\ UNCHANGED <<fd, replaced, polls, disk, alive, orphans>>

SelfHolder(o) ==
    /\ pc[o] = "blocked" /\ record[fd[o]] = ProcessOf[o]
    /\ Goto(o, "failed")
    /\ fd' = [fd EXCEPT ![o] = 0]
    /\ UNCHANGED <<replaced, polls, disk, alive, orphans>>

\* Mutant: the stale file is opened again instead of being unlinked.
MutReplaceKeepsFile(o) ==
    /\ pc[o] = "stale"
    /\ replaced' = [replaced EXCEPT ![o] = TRUE]
    /\ fd' = [fd EXCEPT ![o] = 0]
    /\ Goto(o, "opening")
    /\ UNCHANGED <<polls, disk, alive, orphans>>

Replace(o) ==
    /\ pc[o] = "stale"
    /\ path' = 0
    /\ replaced' = [replaced EXCEPT ![o] = TRUE]
    /\ fd' = [fd EXCEPT ![o] = 0]
    /\ Goto(o, "opening")
    /\ UNCHANGED <<polls, created, owner, record, alive, orphans>>

LiveHolder(o) ==
    /\ pc[o] = "blocked"
    /\ record[fd[o]] # ProcessOf[o] /\ ~IsStale(o, record[fd[o]])

\* Mutant: the deadline is set anew in every iteration.
MutPollForever(o) ==
    /\ LiveHolder(o) /\ polls[o] < MaxPolls
    /\ fd' = [fd EXCEPT ![o] = 0]
    /\ Goto(o, "opening")
    /\ UNCHANGED <<replaced, polls, disk, alive, orphans>>

\* Mutant: the remaining wait is counted down without a floor.
MutPollCountsDown(o) ==
    /\ LiveHolder(o) /\ polls[o] < MaxPolls
    /\ polls' = [polls EXCEPT ![o] = @ - 1]
    /\ fd' = [fd EXCEPT ![o] = 0]
    /\ Goto(o, "opening")
    /\ UNCHANGED <<replaced, disk, alive, orphans>>

Poll(o) ==
    /\ LiveHolder(o) /\ polls[o] < MaxPolls
    /\ polls' = [polls EXCEPT ![o] = @ + 1]
    /\ fd' = [fd EXCEPT ![o] = 0]
    /\ Goto(o, "opening")
    /\ UNCHANGED <<replaced, disk, alive, orphans>>

Refuse(o) ==
    /\ LiveHolder(o) /\ polls[o] = MaxPolls
    /\ fd' = [fd EXCEPT ![o] = 0]
    /\ Goto(o, "refused")
    /\ UNCHANGED <<replaced, polls, disk, alive, orphans>>

\* Drop for InstanceLock: the explicit LOCK_UN.  The file and its text stay.
Release(o) ==
    /\ pc[o] = "held"
    /\ owner' = [owner EXCEPT ![fd[o]] = NoOne]
    /\ fd' = [fd EXCEPT ![o] = 0]
    /\ Goto(o, "closed")
    /\ UNCHANGED <<replaced, polls, path, created, record, alive, orphans>>

\* A process ends.  The kernel drops its locks; the server of an NFSv3 volume
\* may keep them.
Exit(p, lingers) ==
    LET mine == {o \in Openers : ProcessOf[o] = p}
        held == {i \in Inodes : owner[i] \in mine}
    IN  /\ p \in alive
        /\ lingers => held # {} /\ orphans < MaxOrphans
        /\ alive' = alive \ {p}
        /\ orphans' = IF lingers THEN orphans + 1 ELSE orphans
        /\ owner' = [i \in Inodes |-> IF i \notin held THEN owner[i]
                                      ELSE IF lingers THEN Orphan ELSE NoOne]
        /\ pc' = [o \in Openers |-> IF o \in mine THEN "gone" ELSE pc[o]]
        /\ fd' = [o \in Openers |-> IF o \in mine THEN 0 ELSE fd[o]]
        /\ UNCHANGED <<replaced, polls, path, created, record>>

-----------------------------------------------------------------------------
\* acquire_instance_lock: what it does by itself once called.
Acquire(o) ==
    \/ OpenFile(o) \/ FlockGranted(o) \/ FlockRefused(o)
    \/ EmptyRecord(o) \/ WriteRecord(o)
    \/ ReadHolder(o) \/ SelfHolder(o) \/ Replace(o) \/ Poll(o) \/ Refuse(o)

Next ==
    \/ \E o \in Openers : Acquire(o) \/ OpenError(o) \/ Release(o)
    \/ \E p \in Processes : \E lingers \in BOOLEAN : Exit(p, lingers)

Spec == Init /\ [][Next]_vars

\* The loop has no blocking call: flock() is LOCK_NB and the sleep ends.
FairSpec == Spec /\ \A o \in Openers : WF_vars(Acquire(o))

-----------------------------------------------------------------------------
Labels == {"opening", "opened", "locked", "emptied", "blocked", "stale",
           "held", "closed", "refused", "failed", "gone"}

TypeOK ==
    /\ pc \in [Openers -> Labels]
    /\ fd \in [Openers -> Inodes \union {0}]
    /\ replaced \in [Openers -> BOOLEAN]
    /\ polls \in [Openers -> Nat]
    /\ path \in Inodes \union {0} /\ created \in 0 .. MaxInodes
    /\ owner \in [Inodes -> Openers \union {NoOne, Orphan}]
    /\ record \in [Inodes -> Processes \union {NoOne}]
    /\ alive \subseteq Processes /\ orphans \in Nat

Holders == {o \in Openers : pc[o] \in {"locked", "emptied", "held"}}

(* At most one instance has the store, over any number of releases, deaths,  *)
(* orphaned locks and replacements of the lock file (acquire_instance_lock). *)
Exclusive == \A o, q \in Holders : o = q

\* The name leads to an orphaned lock that opener o can tell is stale.
Stuck(o) ==
    /\ pc[o] = "opening" /\ ~replaced[o]
    /\ path # 0 /\ owner[path] = Orphan /\ record[path] # NoOne
    /\ HostOf[record[path]] = HostOf[ProcessOf[o]]
    /\ record[path] \notin alive

(* A server-side lock that a dead process of this host left behind does not  *)
(* keep an opener out: it is replaced, unless the opener dies or meets an    *)
(* I/O error ("49 restarts failed until the file was renamed by hand").      *)
StaleReplaced ==
    \A o \in Openers :
       Stuck(o) ~> \/ path = 0 \/ owner[path] # Orphan
                   \/ pc[o] \in {"failed", "gone"}

(* Every call of open() gets the lock or returns an error: waiting for a     *)
(* live holder ends at the deadline, replacing happens at most once.         *)
OpenEnds ==
    \A o \in Openers : pc[o] = "opening" ~>
       pc[o] \in {"held", "closed", "refused", "failed", "gone"}
=============================================================================
