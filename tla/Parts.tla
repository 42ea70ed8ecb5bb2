------------------------------- MODULE Parts --------------------------------
(***************************************************************************)
(* The state of one part of a field.  The organs, the indexes and the      *)
(* services keep state of their own behind locks of their own, so that one *)
(* behaviour is a behaviour of one of them, `part'; the modules that       *)
(* compose them (Organs, Services, Stores) share these variables.          *)
(***************************************************************************)
VARIABLES part,      \* the part that this behaviour is of
          ram, wal,  \* its state in memory, and what a reopen would rebuild
          todo, gap, \* records still to be appended, whether one was lost
          env        \* callers, threads and history

vars == <<part, ram, wal, todo, gap, env>>

\* A part that has no records to append, or no log at all.
NoTodo == todo = <<>> /\ gap = FALSE
NoLog == wal = <<>> /\ NoTodo

Same == UNCHANGED part
SameTodo == UNCHANGED <<part, todo, gap>>
SameLog == UNCHANGED wal /\ SameTodo
=============================================================================
