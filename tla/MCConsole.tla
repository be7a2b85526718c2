----------------------------- MODULE MCConsole -----------------------------
(* A buffer of three bytes that five bytes pass through, and three bytes    *)
(* that are transmitted.  One producer that asks for the free space is      *)
(* enough: bytes may be enqueued by anyone.                                 *)
EXTENDS Console
=============================================================================
