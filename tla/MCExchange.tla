----------------------------- MODULE MCExchange -----------------------------
(* Small instances of Exchange.                                              *)
EXTENDS Exchange

ThreeLengths == <<5, 12, 2>>
OneLength == <<5>>
=============================================================================
