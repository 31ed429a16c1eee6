------------------------------ MODULE MCBroker ------------------------------
(* Model values and symmetry for checking Broker.                          *)
EXTENDS Broker, TLC

Symmetry == Permutations(Clients)
=============================================================================
