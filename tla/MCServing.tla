------------------------------ MODULE MCServing ------------------------------
(***************************************************************************)
(* Transactions above the storage engine and the guard below it, on small  *)
(* sets.  They share no state and run on different threads, so no step of  *)
(* one matters to the other: a behaviour follows one of them, its focus.   *)
(***************************************************************************)
EXTENDS Transactions, Guard

VARIABLE focus

ServingInit ==
  /\ TxnInit /\ GuardInit
  /\ \/ focus = "transactions" /\ healthy
     \/ focus = "guard" /\ writable

ServingNext ==
  /\ UNCHANGED focus
  /\ \/ focus = "transactions" /\ TxnNext /\ UNCHANGED guardVars
     \/ focus = "guard" /\ GuardNext /\ UNCHANGED txnVars

ServingSpec ==
  ServingInit /\ [][ServingNext]_<<focus, txnVars, guardVars>> /\ GuardFairness
=============================================================================
