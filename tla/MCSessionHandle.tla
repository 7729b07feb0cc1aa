--------------------------- MODULE MCSessionHandle ---------------------------
(* Two tasks sharing one handle, with calls enough for one of them to      *)
(* orphan, reclaim and orphan again while the other is in the middle of a  *)
(* call.  The times straddle units of the packed timestamp: 5 rounds down  *)
(* to 0, 300 and 700 do not share a unit.                                  *)
EXTENDS SessionHandle

CONSTANTS t1, t2

MCTime == {5, 300, 700}
==============================================================================
