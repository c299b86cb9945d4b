----------------------------- MODULE KeyPromise -----------------------------
(***************************************************************************)
(* What the key-delivery endpoints of the API promise, with nothing of     *)
(* how they do it: the key of a private article is handed to a wallet only *)
(* by a claim during which the wallet was seen to have access, and a nonce *)
(* pays for one claim at most.                                             *)
(*                                                                         *)
(* KeyDelivery, the model of access-control.controller.ts, implements this *)
(* specification (KeyDelivery!Promise).                                    *)
(***************************************************************************)
EXTENDS Naturals

CONSTANTS Pairs,     \* (article, viewer) pairs access is granted for
          Requests,  \* the claims that may be in progress together
          Nonces     \* what a claim is paid with

VARIABLES access,    \* access[p]: the viewer of p has access now
          claim,     \* claim[r]: what request r has established so far
          spent,     \* the nonces that have paid for a claim
          handed     \* the <<nonce, pair>>s a key was handed over for

vars == <<access, claim, spent, handed>>

NoClaim == [stage |-> "none", pair |-> <<>>, nonce |-> 0]

Init == /\ access = [p \in Pairs |-> FALSE]
        /\ claim = [r \in Requests |-> NoClaim]
        /\ spent = {}
        /\ handed = {}

\* Owners grant and revoke, and time passes: access may become anything.
AccessChanges ==
  /\ access' \in [Pairs -> BOOLEAN]
  /\ UNCHANGED <<claim, spent, handed>>

\* A claim begins by paying with a nonce that no claim has paid with before.
Begin(r, p, n) ==
  /\ claim[r].stage = "none"
  /\ n \notin spent
  /\ claim' = [claim EXCEPT ![r] = [stage |-> "begun", pair |-> p, nonce |-> n]]
  /\ spent' = spent \cup {n}
  /\ UNCHANGED <<access, handed>>

\* At one instant of the claim the viewer has access.
Witness(r) ==
  /\ claim[r].stage = "begun"
  /\ access[claim[r].pair]
  /\ claim' = [claim EXCEPT ![r].stage = "witnessed"]
  /\ UNCHANGED <<access, spent, handed>>

\* Only such a claim hands the key over; the claim is then at its end.
HandOver(r) ==
  /\ claim[r].stage = "witnessed"
  /\ handed' = handed \cup {<<claim[r].nonce, claim[r].pair>>}
  /\ claim' = [claim EXCEPT ![r] = NoClaim]
  /\ UNCHANGED <<access, spent>>

\* A claim may fail at any time; a restart makes all of them fail. Its nonce
\* stays spent.
Abandon ==
  /\ \E failed \in SUBSET Requests :
       claim' = [r \in Requests |-> IF r \in failed THEN NoClaim ELSE claim[r]]
  /\ UNCHANGED <<access, spent, handed>>

Next ==
  \/ AccessChanges
  \/ \E r \in Requests :
       \/ \E p \in Pairs, n \in Nonces : Begin(r, p, n)
       \/ Witness(r)
       \/ HandOver(r)
  \/ Abandon

Spec == Init /\ [][Next]_vars

=============================================================================
