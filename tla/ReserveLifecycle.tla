-------------------------- MODULE ReserveLifecycle --------------------------
(***************************************************************************)
(* What setting up a market promises: every reserve is listed, then        *)
(* configured once, and stays so, however often the setup is interrupted   *)
(* and started again.  ReserveSetup implements this.                       *)
(***************************************************************************)
CONSTANT Reserves
VARIABLE stage

Stages == {"unlisted", "listed", "configured"}

LifecycleTypeOK == stage \in [Reserves -> Stages]

LifecycleInit == stage = [r \in Reserves |-> "unlisted"]

List(r) ==
  /\ stage[r] = "unlisted"
  /\ stage' = [stage EXCEPT ![r] = "listed"]

Configure(r) ==
  /\ stage[r] = "listed"
  /\ stage' = [stage EXCEPT ![r] = "configured"]

LifecycleNext == \E r \in Reserves : List(r) \/ Configure(r)

LifecycleSpec == LifecycleInit /\ [][LifecycleNext]_stage
=============================================================================
