---------------------------- MODULE MCActorLearner ----------------------------
(* ActorLearner on small instances.                                          *)
EXTENDS ActorLearner
================================================================================
