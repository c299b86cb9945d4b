------------------------------- MODULE MCStudio -------------------------------
(* An instance of Studio for TLC; the values are in Studio.cfg.              *)
EXTENDS Studio
=============================================================================
