---------------------------- MODULE MCSignaling -----------------------------
(* Both legs, eager or hedged; one stream reconnect, one restart and one       *)
(* failing database call.                                                      *)
EXTENDS Signaling

MCHedges == {TRUE, FALSE}
=============================================================================
