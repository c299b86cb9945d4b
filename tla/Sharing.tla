------------------------------- MODULE Sharing -------------------------------
(***************************************************************************)
(* Sharing a private article: what its author and its readers have on      *)
(* screen.                                                                 *)
(*                                                                         *)
(* A tab shows one of these, and they share no state: the lists of the     *)
(* dashboard, the access modal, the page of a private article; or the      *)
(* links, of which only the API knows.  So the behaviours of this module   *)
(* are those of its parts side by side, one of them running in each.       *)
(***************************************************************************)
EXTENDS AccessTokens, Dashboard, DashboardLists, PrivateReader

CONSTANT Parts   \* the parts to run

ASSUME PartsAssumption == Parts \subseteq {"links", "modal", "lists", "reader"}

VARIABLE part

shareVars == <<part, tokenVars, dashVars, listVars, readVars>>

SharingInit ==
  /\ part \in Parts
  /\ TokensInit /\ DashInit /\ (part = "modal" \/ mine)
  /\ IF part = "lists" THEN ListsInit ELSE ListsInit /\ bearer = NoOne
  /\ IF part = "reader" THEN ReaderInit
     ELSE ReaderInit /\ article = "missing" /\ tokenOf = TheAuthor

LinksStep == part = "links" /\ TokensNext /\ UNCHANGED <<part, dashVars, listVars, readVars>>
ModalStep == part = "modal" /\ DashNext /\ UNCHANGED <<part, tokenVars, listVars, readVars>>
ListsStep == part = "lists" /\ ListsNext /\ UNCHANGED <<part, tokenVars, dashVars, readVars>>
ReaderStep == part = "reader" /\ ReaderNext /\ UNCHANGED <<part, tokenVars, dashVars, listVars>>

SharingNext == LinksStep \/ ModalStep \/ ListsStep \/ ReaderStep

\* Requests are answered or fail, and the page goes on with the answer.  No
\* fairness for what the user does, the wallet's prompt included, and none for
\* failures.
SharingFairness ==
  /\ WF_dashVars(part = "modal" /\ MutationProgress)
  /\ \A l \in ListCalls : WF_dashVars(part = "modal" /\ ListProgress(l))
  /\ \A l \in Loads : WF_listVars(part = "lists" /\ LoadProgress(l))
  /\ \A r \in ReaderRuns : /\ WF_readVars(part = "reader" /\ ApiStep(r))
                           /\ WF_readVars(part = "reader" /\ PageStep(r))

SharingSpec == SharingInit /\ [][SharingNext]_shareVars /\ SharingFairness

SharingTypeOK ==
  /\ part \in {"links", "modal", "lists", "reader"}
  /\ TokensTypeOK /\ DashTypeOK /\ ListsTypeOK /\ ReaderTypeOK

-----------------------------------------------------------------------------
(* Properties *)

\* Whatever one of these pages waits for comes to an end: a grant or a
\* revocation in the modal, a load of the lists, the page of a private article
\* unless the wallet asks its user, whatever fails on the way.
SharingSettles == BusyEnds /\ BoardLoads /\ PageSettles
=============================================================================
