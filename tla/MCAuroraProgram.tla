--------------------------- MODULE MCAuroraProgram ---------------------------
(* AuroraProgram with strings at each length limit and one byte past it.     *)
EXTENDS AuroraProgram, TLC

CONSTANTS alice, bob, h0, h1, s64, s128, s129, s256, s257

MCBytes == s64 :> 64 @@ s128 :> 128 @@ s129 :> 129 @@ s256 :> 256 @@ s257 :> 257
=============================================================================
