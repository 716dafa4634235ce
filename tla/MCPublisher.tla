----------------------------- MODULE MCPublisher ----------------------------
(* Instances of Publisher for TLC.                                         *)
EXTENDS PublisherProps, TLC

CONSTANTS m1, m2, m3

(* The routable messages are alike.                                        *)
RoutedSame == Permutations(Msgs \ Unroutable)
=============================================================================
