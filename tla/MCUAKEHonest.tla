---------------------------- MODULE MCUAKEHonest ----------------------------
(* UAKEHonest with the schemes of UAKESchemes. *)
EXTENDS UAKEHonest, UAKESchemes

\* the scheme of the run is admissible: the theorems about admissible ones apply to it
ASSUME SchemeAdmissible == Admissible(U, T, Rounds, HonestConfigs(U, T, Rounds))

\* from no step at all to one more than a complete run takes
Fuel0To7 == 0 .. 7
=============================================================================
