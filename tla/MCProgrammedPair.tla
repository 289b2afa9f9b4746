------------------------- MODULE MCProgrammedPair -------------------------
(***************************************************************************)
(* All policies and all initial caches over two indices and two answers:   *)
(* a point may be programmed, cached, both or neither, and a programmed    *)
(* value may or may not collide with a fresh sample.  Three queries a side *)
(* let each index be asked, and one of them again.                         *)
(***************************************************************************)
EXTENDS ProgrammedPair

MCPolicies == QueryCache
=============================================================================
