------------------------------- MODULE MCAccrual -------------------------------
(* One run of the two sides of the accrual service: a behaviour either serves  *)
(* the requests of MCAccrualService, and then calculates nothing apart, or is  *)
(* one calculation of Calculation, and then serves no request.                 *)
EXTENDS MCAccrualService, Calculation

Serving == goods = <<>> /\ number = <<>>

MCInit ==
  \/ ServiceInit /\ goods = <<>> /\ rows = <<>> /\ number = <<>> /\ cents = NotCalculated
  \/ /\ post = [p \in Posts |-> CHOOSE r \in RulePosts : TRUE]
     /\ ServiceInit /\ RewardsInit

MCNext ==
  \/ Serving /\ ServiceNext /\ UNCHANGED rewardVars
  \/ ~Serving /\ [CalculateAward]_rewardVars /\ UNCHANGED serviceVars

MCSpec == MCInit /\ [][MCNext]_<<serviceVars, rewardVars>>
=============================================================================
