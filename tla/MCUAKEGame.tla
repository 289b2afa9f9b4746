----------------------------- MODULE MCUAKEGame -----------------------------
(* UAKEGame with the schemes of UAKESchemes. *)
EXTENDS UAKEGame, UAKESchemes

\* the scheme of the run is admissible: the theorems about admissible ones apply to it
ASSUME SchemeAdmissible == Admissible(U, T, Rounds, HonestConfigs(U, T, Rounds))
=============================================================================
