--------------------------- MODULE MCMessageRing ---------------------------
(***************************************************************************)
(* Messages without a body, with bodies of one and three bytes, and one    *)
(* that never fits.                                                        *)
(***************************************************************************)
EXTENDS MessageRing

MCMessages == [size : {0, 1, 3, 7}]
=============================================================================
