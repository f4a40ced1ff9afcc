------------------------ MODULE MC_ClientNegotiation ------------------------
(* The program's own ceilings and fallbacks; limits at, between and below them. *)
EXTENDS ClientNegotiation

MC_Fallbacks == {32000, 16000, 8192, 4096}
MC_Asked     == {4096, 16000, 32000, 64000}
MC_Limits    == {2048, 4096, 8191, 8192, 16384, 32000, 100000}
MC_StreamAbove == 8192
=============================================================================
