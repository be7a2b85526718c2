-------------------------- MODULE MCChainConsumer --------------------------
(* All chains of up to three descriptors of up to two bytes, empty ones and *)
(* interleaved directions included, split up to twice.                      *)
EXTENDS ChainConsumer
=============================================================================
