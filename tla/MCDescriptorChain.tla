------------------------- MODULE MCDescriptorChain -------------------------
(* All contents of a descriptor table of two entries and an indirect table of *)
(* up to two; three ordinary descriptors of the greater length are more than  *)
(* a chain may hold.                                                          *)
EXTENDS DescriptorChain
=============================================================================
