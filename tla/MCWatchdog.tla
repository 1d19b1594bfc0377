----------------------------- MODULE MCWatchdog -----------------------------
(***************************************************************************)
(* Model values for Watchdog: three nodes, the second of another chain.    *)
(***************************************************************************)
EXTENDS Watchdog

MCGenesis == [i \in 0..2 |-> IF i = 1 THEN "other" ELSE "main"]
=============================================================================
