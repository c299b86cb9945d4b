------------------------------ MODULE MCSharing ------------------------------
(* Instances of Sharing for TLC; the values are in Sharing.cfg and           *)
(* PrivateOpens.cfg.                                                         *)
EXTENDS Sharing

ASSUME TheAuthorReads == TheAuthor \in Readers

\* The sets of tokens' callers and lives.
OneTick == {1}
=============================================================================
