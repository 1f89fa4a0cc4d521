------------------------------ MODULE MCLocking ------------------------------
(***************************************************************************)
(* Two callers with a few calls each, in every overlap.  The sink queries  *)
(* the fabric on the events that are published after the mutex is released *)
(* in the passing instance.                                                *)
(***************************************************************************)
EXTENDS Locking

AllCalls ==
    {"allocate", "observe_pressure", "observe_stale", "register_pool",
     "remove_pool", "set_capacity", "begin_shutdown", "close", "open"}

AfterUnlock ==
    {"DecisionRefused", "PressureUpdated", "PoolRegistered", "PoolRemoved",
     "ShutdownComplete", "EpochAdvanced"}
=============================================================================
