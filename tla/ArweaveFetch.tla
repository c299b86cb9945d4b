---------------------------- MODULE ArweaveFetch ----------------------------
(***************************************************************************)
(* getContent of storage.service.ts: an upload is asked of each gateway in *)
(* turn, 1 + MaxRetries times each, until one answers with something other *)
(* than 404, a timeout or a network error.  What the answer is worth is    *)
(* told apart only as far as its readers tell it apart.                    *)
(*                                                                         *)
(* A fetch is the place the two loops have come to; asked is a history of  *)
(* how often each gateway was asked.                                       *)
(***************************************************************************)
EXTENDS Integers

CONSTANTS NGateways,   \* gateways in the list
          MaxRetries   \* maxRetries

ASSUME FetchAssumption == NGateways \in Nat \ {0} /\ MaxRetries \in Nat

Gateway == 1..NGateways
Fetch == [gateway: Gateway, attempt: 0..MaxRetries,
          asked: [Gateway -> 0..(MaxRetries + 1)]]

NewFetch == [gateway |-> 1, attempt |-> 0, asked |-> [g \in Gateway |-> 0]]

\* What an attempt can come to.  "article" is the upload; "other" is JSON that
\* is no article, which is returned unchecked when its type is application/json;
\* "miss" is a 404, an abort after ten seconds or a failed connection; "refused"
\* is any other status, an HTML page, text or JSON that does not parse.
Answers == {"article", "other", "miss", "refused"}

\* The attempt that follows a miss, if there is one.
LastAttempt(f) == f.attempt = MaxRetries
LastGateway(f) == f.gateway = NGateways
Asked(f) == [f EXCEPT !.asked[f.gateway] = @ + 1]
NextAttempt(f) == [Asked(f) EXCEPT !.attempt = @ + 1]
NextGateway(f) == [Asked(f) EXCEPT !.gateway = @ + 1, !.attempt = 0]

GivesUpAtFirst(f) == LastAttempt(f)
GivesUp(f) == LastAttempt(f) /\ LastGateway(f)
AfterMissSameGateway(f) == NextAttempt(f)
AfterMiss(f) == IF LastAttempt(f) THEN NextGateway(f) ELSE NextAttempt(f)

\* Every gateway was given all its tries.
TriedAll(f) == \A g \in Gateway : f.asked[g] = MaxRetries + 1
=============================================================================
