---------------------------- MODULE Instruments ----------------------------
(***************************************************************************)
(* The instrument tokens the system trades (config.AUTOTRADE_SYMBOLS and   *)
(* the deployed strategies' instruments).                                  *)
(***************************************************************************)
EXTENDS FiniteSets

CONSTANT Symbols

ASSUME SymbolsAssumption == Symbols # {} /\ IsFiniteSet(Symbols)
=============================================================================
