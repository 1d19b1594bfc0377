--------------------------- MODULE MCMomentumSync ---------------------------
(***************************************************************************)
(* MomentumSync for TLC.                                                   *)
(***************************************************************************)
EXTENDS MomentumSync
=============================================================================
