--------------------------- MODULE MCReceiveLoop ----------------------------
(* The loop of main with a few messages and events.                        *)
EXTENDS ReceiveLoop
=============================================================================
