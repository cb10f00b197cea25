------------------------- MODULE MC_UnixDatagramNew -------------------------
(* Instance of UnixDatagramNew: up to two parallel connections.  TLC's     *)
(* integers are 32-bit, so the cast target is narrowed to 4 bits; the byte *)
(* quantities are zero, a small value, exactly 2^width and just above it,  *)
(* the same outcomes as 0, 3, 4 GiB and 4 GiB + 3 under the real u32 cast.  *)
EXTENDS UnixDatagramNew

MCConnections == 0..2
MCCastWidth == 4
MCByteQuantities == {0, 3, 2^MCCastWidth, 2^MCCastWidth + 3}
MCCacheMethods == {"streaming", "fixed"}
=============================================================================
