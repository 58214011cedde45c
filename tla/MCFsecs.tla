------------------------------ MODULE MCFsecs -------------------------------
(***************************************************************************)
(* Small parameters for Fsecs: the least of each is the default, the       *)
(* greatest what init_fsecs sets.                                          *)
(***************************************************************************)
EXTENDS Fsecs

MCSettings ==
  [kbest |-> {2, 3}, maxsamples |-> {1, 4}, epsilon |-> {1},
   compensate |-> {0, 1}, clear_cache |-> {0, 1},
   cache_bytes |-> {8, 16}, cache_block |-> {4}]

MCBuilds ==
  {[use |-> "FCYC", counter |-> TRUE], [use |-> "FCYC", counter |-> FALSE],
   [use |-> "ITIMER", counter |-> FALSE], [use |-> "GETTOD", counter |-> FALSE]}
=============================================================================
