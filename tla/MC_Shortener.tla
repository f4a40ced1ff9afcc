---------------------------- MODULE MC_Shortener ----------------------------
(* Instances of Shortener for TLC: the first two ids and one alias nobody  *)
(* generates; one caller asks for the alias another's id will be encoded to. *)
EXTENDS Shortener

MC_Alias    == {"c2", "promo"}
MC_AutoCode == <<"c1", "c2", "c3">>
MC_Code     == {"c1", "c2", "c3", "promo"}
MC_Ttls     == {{}, {1}}
=============================================================================
