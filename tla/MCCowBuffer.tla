----------------------------- MODULE MCCowBuffer -----------------------------
(* Sizes scaled down by 16: 4 bytes are small, pools hold 8 and 16 bytes.  *)
EXTENDS CowBuffer

CONSTANTS x, y, b1, b2, b3

MCHandles == {x, y}
MCBuffers == {b1, b2, b3}
=============================================================================
