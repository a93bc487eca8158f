-------------------------- MODULE MCProviderEvents --------------------------
(* Small instances of ProviderEvents for TLC.                              *)
EXTENDS ProviderEvents

CONSTANT o1

\* Every event is about the one order.
OneRef == [e \in Events |-> o1]
=============================================================================
