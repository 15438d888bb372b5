---------------------------- MODULE MCDeployment ----------------------------
(* An instance of Deployment for TLC.  Which of two secrets, addresses or   *)
(* thresholds is set at first makes no difference.                          *)
EXTENDS Deployment

InitComplete ==
  /\ Init
  /\ \A n \in Score : n >= env.threshold
  /\ env.secret # None /\ env.key # None
  /\ env.secret = CHOOSE s \in Secret : TRUE
  /\ env.url = CHOOSE u \in Url : TRUE

CompleteSpec == InitComplete /\ [][Next]_vars
CompleteFairSpec == CompleteSpec /\ Progress
=============================================================================
