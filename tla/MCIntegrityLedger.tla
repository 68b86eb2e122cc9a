------------------------- MODULE MCIntegrityLedger -------------------------
(***************************************************************************)
(* IntegrityLedger for TLC.  Writers, records and fields are not told      *)
(* apart; keys are, for their order.                                       *)
(***************************************************************************)
EXTENDS IntegrityLedger, TLC

MCSymmetry == Permutations(Writer) \cup Permutations(Record) \cup Permutations(Value)
=============================================================================
