--------------------------- MODULE MCProviderSet ---------------------------
(* Instances of module ProviderSet for TLC. *)
EXTENDS ProviderSet
=============================================================================
