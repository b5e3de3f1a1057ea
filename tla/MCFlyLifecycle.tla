--------------------------- MODULE MCFlyLifecycle ---------------------------
(* FlyLifecycle for TLC: two experiments, one or two workers at once.      *)
EXTENDS FlyLifecycle
=============================================================================
