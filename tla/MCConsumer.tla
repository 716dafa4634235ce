----------------------------- MODULE MCConsumer -----------------------------
(* Instances of SupervisedConsumer for TLC.                                *)
EXTENDS SupervisedConsumerProps
=============================================================================
