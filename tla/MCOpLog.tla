------------------------------ MODULE MCOpLog ------------------------------
(* Model-checking instance of OpLog, and its refinement of Journal.         *)
EXTENDS OpLog

InFlight == IF pc = "idle" THEN 0 ELSE cur

Abstract == INSTANCE Journal WITH
    up      <- status = "open",
    seen    <- ops,
    asked   <- InFlight,
    journal <- Recoverable \ {InFlight},
    firm    <- durable,
    risk    <- IF vanished THEN Ops(accepted) ELSE {},
    outages <- losses

(* The log with its segments, buffers, rotations, recoveries and torn tails  *)
(* is a journal to its callers: each step of append, sync, flush_buf and     *)
(* open, and each crash between any two of them, accepts, refuses or loses   *)
(* exactly what Journal allows, or changes nothing a caller could see.       *)
ImplementsJournal == Abstract!Spec
=============================================================================
