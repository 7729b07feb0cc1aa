----------------------------- MODULE MCFrameCodec -----------------------------
(* Radix 2: lengths up to 7.  Data of 5 units fills a payload to the limit *)
(* and of 6 passes it.                                                     *)
EXTENDS FrameCodec

Msg(t, n, v) == [type |-> t, size |-> n, version |-> v]

MCMessage ==
  {Msg("Data", 0, TRUE), Msg("Data", 2, TRUE), Msg("Data", 5, TRUE), Msg("Data", 6, TRUE),
   Msg("Register", 0, TRUE), Msg("Register", 0, FALSE), Msg("Error", 0, TRUE)}
===============================================================================
