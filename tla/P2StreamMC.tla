----------------------------- MODULE P2StreamMC -----------------------------
(***************************************************************************)
(* An instance of P2Stream: one DDC with a ring of three slots and a pool  *)
(* of four buffers, the fewest that are always enough.                     *)
(***************************************************************************)
EXTENDS P2Stream, TLC

CONSTANTS iq, b1, b2, b3, b4

OneStream == {iq}
OneList == {<<b1, b2, b3, b4>>}
Sizes == iq :> 3
Skips == iq :> 2
=============================================================================
