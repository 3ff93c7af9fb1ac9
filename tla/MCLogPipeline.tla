---------------------------- MODULE MCLogPipeline ----------------------------
(* Two servers that log to one file: the stderr reader of A and one of its *)
(* notifications, and the stderr reader of B.                              *)
EXTENDS LogPipeline, TLC

CONSTANTS readerA, notificationA, readerB, A, B, log

ServerOf == (readerA :> A) @@ (notificationA :> A) @@ (readerB :> B)
LinesOf == (readerA :> 2) @@ (readerB :> 1)
OneFile == (A :> log) @@ (B :> log)
=============================================================================
