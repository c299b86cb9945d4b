-------------------------- MODULE KeyDeliveryProofs --------------------------
(***************************************************************************)
(* Proofs about KeyDelivery, for any articles, wallets, terms, requests    *)
(* and bounds.                                                             *)
(***************************************************************************)
EXTENDS KeyDelivery, TLAPS

\* Nonces are issued in order, each in one challenge.
IssuedInv ==
  /\ \A i \in issued : i.nonce \in 1..lastNonce
  /\ \A i, j \in issued : i.nonce = j.nonce => i = j

\* A challenge in the Map is the newest one issued to its pair, and no claim
\* has used it.
ChallengeInv ==
  \A p \in Pairs : challenges[p].nonce # 0 =>
    /\ [nonce |-> challenges[p].nonce, pair |-> p,
        until |-> challenges[p].until] \in issued
    /\ \A i \in issued : i.pair = p => i.nonce <= challenges[p].nonce
    /\ \A x \in admitted : x.nonce # challenges[p].nonce

\* Claims that were let through used nonces that were issued.
AdmittedInv == \A x \in admitted : x.nonce \in 1..lastNonce

\* The owner of a grant's row, and whoever is about to write one, is the author;
\* a revocation about to be written has a row to write to.
OwnerInv ==
  /\ \A p \in Pairs : grants[p].status # "none" => grants[p].owner = Owner[p[1]]
  /\ \A r \in Requests : req[r].stage \in {"grantUpsert", "revokeUpdate"} =>
       req[r].caller = Owner[req[r].pair[1]]
  /\ \A r \in Requests : req[r].stage = "revokeUpdate" =>
       grants[req[r].pair].status # "none"

\* A claim past its check has a row that opened when it was read.
ReadInv ==
  \A r \in Requests :
    /\ req[r].stage \in {"claimRecheck", "claimSecret"} => req[r].readAt <= now
    /\ req[r].stage = "claimSecret" => Opens(req[r].seen, req[r].readAt)

\* Everything that is known of nonces.
NonceInv == IssuedInv /\ ChallengeInv /\ AdmittedInv /\ NonceServesOneClaim

-----------------------------------------------------------------------------

LEMMA IdleType == /\ Idle \in Request /\ Idle.stage = "idle"
                  /\ NoGrant \in Grant /\ NoChallenge \in Challenge
  BY DEF Idle, Locals, Request, Stages, NoGrant, Grant, Never, NoChallenge, Challenge

LEMMA ExpirationType ==
  ASSUME now \in Nat, NEW term \in Terms
  PROVE  Expiration(term) \in Nat \cup {Never}
  BY TimesAssumption DEF Expiration, Never

\* What the handlers keep in their locals has the type of locals.
ReqOK == /\ req \in [Requests -> Request]
         /\ \A r \in Requests : req[r].stage # "idle" => req[r].pair \in Pairs

LEMMA BecomesType ==
  ASSUME ReqOK, NEW r \in Requests, NEW rec \in Request,
         rec.stage # "idle" => rec.pair \in Pairs, Becomes(r, rec)
  PROVE  ReqOK'
  BY DEF ReqOK, Becomes

LEMMA EndsType ==
  ASSUME ReqOK, NEW r \in Requests, Ends(r)
  PROVE  ReqOK'
  BY BecomesType, IdleType DEF Ends

LEMMA CallType ==
  ASSUME ReqOK, NEW r \in Requests, NEW stage \in Stages, NEW w \in Wallets,
         NEW p \in Pairs, NEW e \in Nat \cup {Never}, NEW n \in Nat,
         Becomes(r, Locals(stage, w, p, e, n))
  PROVE  ReqOK'
<1>1. Locals(stage, w, p, e, n) \in Request /\ Locals(stage, w, p, e, n).pair = p
  BY IdleType DEF Locals, Request
<1> QED
  BY <1>1, BecomesType

\* A handler that goes on with what it holds, and a row it read, keeps its type.
LEMMA MovesOnType ==
  ASSUME ReqOK, NEW r \in Requests, req[r].stage # "idle",
         NEW stage \in Stages, NEW g \in Grant, NEW t \in Nat,
         \/ Becomes(r, [req[r] EXCEPT !.stage = stage])
         \/ Becomes(r, [req[r] EXCEPT !.stage = stage, !.seen = g])
         \/ Becomes(r, [req[r] EXCEPT !.stage = stage, !.seen = g, !.readAt = t])
  PROVE  ReqOK'
<1>1. req[r] \in Request /\ req[r].pair \in Pairs
  BY DEF ReqOK
<1> DEFINE q1 == [req[r] EXCEPT !.stage = stage]
           q2 == [req[r] EXCEPT !.stage = stage, !.seen = g]
           q3 == [req[r] EXCEPT !.stage = stage, !.seen = g, !.readAt = t]
<1>2. /\ q1 \in Request /\ q1.pair \in Pairs
      /\ q2 \in Request /\ q2.pair \in Pairs
      /\ q3 \in Request /\ q3.pair \in Pairs
  <2>1. q1 \in Request /\ q1.pair = req[r].pair
    BY <1>1 DEF Request
  <2>2. q2 \in Request /\ q2.pair = req[r].pair
    BY <1>1 DEF Request
  <2>3. q3 \in Request /\ q3.pair = req[r].pair
    BY <1>1 DEF Request
  <2> QED
    BY <1>1, <2>1, <2>2, <2>3
<1>3. \/ Becomes(r, q1) \/ Becomes(r, q2) \/ Becomes(r, q3)
  OBVIOUS
<1> HIDE DEF q1, q2, q3
<1> QED
  BY <1>2, <1>3, BecomesType

\* The state keeps its types.
THEOREM TypeCorrect == Spec => []TypeOK
<1>1. Init => TypeOK
  BY IdleType, TimesAssumption DEF Init, TypeOK
<1>2. TypeOK /\ [Next]_vars => TypeOK'
  <2> SUFFICES ASSUME TypeOK, [Next]_vars
               PROVE  TypeOK'
    OBVIOUS
  <2> USE IdleType, ArticlesAssumption, TimesAssumption
  <2> USE DEF history
  <2>0. ReqOK
    BY DEF TypeOK, ReqOK
  <2>1. ASSUME NEW r \in Requests, CreateGrantCall(r)
        PROVE  TypeOK'
    <3>1. PICK w \in Wallets, p \in Pairs, term \in Terms :
            Becomes(r, Locals("grantUpsert", w, p, Expiration(term), 0))
      BY <2>1 DEF CreateGrantCall
    <3>2. Expiration(term) \in Nat \cup {Never}
      BY ExpirationType DEF TypeOK
    <3>3. ReqOK'
      BY <2>0, <3>1, <3>2, CallType DEF Stages
    <3> QED
      BY <2>1, <3>3 DEF CreateGrantCall, TypeOK, ReqOK
  <2>2. ASSUME NEW r \in Requests, CreateGrantUpsert(r)
        PROVE  TypeOK'
    <3>1. ReqOK'
      BY <2>0, <2>2, EndsType DEF CreateGrantUpsert
    <3>2. [status |-> "granted", owner |-> req[r].caller,
           expires |-> req[r].expires] \in Grant
      BY <2>0 DEF ReqOK, Request, Grant
    <3> QED
      BY <2>2, <3>1, <3>2 DEF CreateGrantUpsert, TypeOK, ReqOK
  <2>3. ASSUME NEW r \in Requests, RevokeGrantCall(r)
        PROVE  TypeOK'
    <3>1. ReqOK'
      BY <2>0, <2>3, CallType DEF RevokeGrantCall, Stages
    <3> QED
      BY <2>3, <3>1 DEF RevokeGrantCall, TypeOK, ReqOK
  <2>4. ASSUME NEW r \in Requests, RevokeGrantLookup(r)
        PROVE  TypeOK'
    <3>1. ReqOK'
      BY <2>0, <2>4, MovesOnType, EndsType, IdleType
         DEF RevokeGrantLookup, Stages
    <3> QED
      BY <2>4, <3>1 DEF RevokeGrantLookup, TypeOK, ReqOK
  <2>5. ASSUME NEW r \in Requests, RevokeGrantUpdate(r)
        PROVE  TypeOK'
    <3>1. ReqOK'
      BY <2>0, <2>5, EndsType DEF RevokeGrantUpdate
    <3>2. \A g \in Grant : [g EXCEPT !.status = "revoked"] \in Grant
      BY DEF Grant
    <3> QED
      BY <2>5, <3>1, <3>2 DEF RevokeGrantUpdate, TypeOK, ReqOK
  <2>6. ASSUME NEW r \in Requests, KeyChallengeCall(r)
        PROVE  TypeOK'
    <3>1. ReqOK'
      BY <2>0, <2>6, CallType DEF KeyChallengeCall, Stages, Pairs
    <3> QED
      BY <2>6, <3>1 DEF KeyChallengeCall, TypeOK, ReqOK
  <2>7. ASSUME NEW r \in Requests, KeyChallengeLookup(r)
        PROVE  TypeOK'
    <3>1. grants[req[r].pair] \in Grant /\ now \in Nat
      BY <2>7 DEF KeyChallengeLookup, TypeOK
    <3>2. ReqOK'
      BY <2>0, <2>7, <3>1, MovesOnType DEF KeyChallengeLookup, Stages
    <3> QED
      BY <2>7, <3>2 DEF KeyChallengeLookup, TypeOK, ReqOK
  <2>8. ASSUME NEW r \in Requests, KeyChallengeReply(r)
        PROVE  TypeOK'
    <3>1. ReqOK'
      BY <2>0, <2>8, EndsType DEF KeyChallengeReply
    <3>2. req[r].pair \in Pairs
      BY <2>0, <2>8 DEF KeyChallengeReply, ReqOK
    <3>3. CASE ~Passes(req[r].seen, now)
      BY <2>8, <3>1, <3>3 DEF KeyChallengeReply, TypeOK, ReqOK
    <3>4. CASE Passes(req[r].seen, now)
      <4>1. [nonce |-> lastNonce + 1, until |-> now + ChallengeTTL] \in Challenge
        BY DEF TypeOK, Challenge
      <4> QED
        BY <2>8, <3>1, <3>2, <3>4, <4>1 DEF KeyChallengeReply, TypeOK, ReqOK, Nonces
    <3> QED
      BY <3>3, <3>4
  <2>9. ASSUME NEW r \in Requests, KeyClaimCall(r)
        PROVE  TypeOK'
    <3>1. PICK p \in Pairs, n \in 1..lastNonce :
            /\ challenges' = Drop(p)
            /\ admitted' = admitted \cup {[nonce |-> n, pair |-> p, by |-> r]}
            /\ Becomes(r, Locals("claimLookup", p[2], p, Never, n))
      BY <2>9 DEF KeyClaimCall
    <3>2. p[2] \in Wallets /\ n \in Nat
      BY DEF Pairs, TypeOK
    <3>3. ReqOK'
      BY <2>0, <3>1, <3>2, CallType DEF Stages
    <3>4. Drop(p) \in [Pairs -> Challenge]
      BY DEF Drop, TypeOK
    <3> QED
      BY <2>9, <3>1, <3>2, <3>3, <3>4 DEF KeyClaimCall, TypeOK, ReqOK
  <2>10. ASSUME NEW r \in Requests, KeyClaimLookup(r)
         PROVE  TypeOK'
    <3>1. grants[req[r].pair] \in Grant /\ now \in Nat
      BY <2>10 DEF KeyClaimLookup, TypeOK
    <3>2. ReqOK'
      BY <2>0, <2>10, <3>1, MovesOnType DEF KeyClaimLookup, Stages
    <3> QED
      BY <2>10, <3>2 DEF KeyClaimLookup, TypeOK, ReqOK
  <2>11. ASSUME NEW r \in Requests, KeyClaimRecheck(r)
         PROVE  TypeOK'
    <3>1. ReqOK'
      BY <2>0, <2>11, MovesOnType, EndsType, IdleType
         DEF KeyClaimRecheck, Stages
    <3> QED
      BY <2>11, <3>1 DEF KeyClaimRecheck, TypeOK, ReqOK
  <2>12. ASSUME NEW r \in Requests, KeyClaimSecret(r)
         PROVE  TypeOK'
    <3>1. ReqOK'
      BY <2>0, <2>12, EndsType DEF KeyClaimSecret
    <3>2. req[r].pair \in Pairs /\ req[r].nonce \in Nat
      BY <2>0, <2>12 DEF KeyClaimSecret, ReqOK, Request
    <3> QED
      BY <2>12, <3>1, <3>2 DEF KeyClaimSecret, TypeOK, ReqOK
  <2>13. ASSUME NEW r \in Requests, QueryFails(r)
         PROVE  TypeOK'
    <3>1. ReqOK'
      BY <2>0, <2>13, EndsType DEF QueryFails
    <3> QED
      BY <2>13, <3>1 DEF QueryFails, TypeOK, ReqOK
  <2>14. CASE KeyClaimExpired
    BY <2>14 DEF KeyClaimExpired, TypeOK, Drop
  <2>15. CASE Restart
    BY <2>15 DEF Restart, TypeOK
  <2>16. CASE Tick
    BY <2>16 DEF Tick, TypeOK
  <2>17. CASE UNCHANGED vars
    BY <2>17 DEF vars, TypeOK
  <2> QED
    BY <2>1, <2>2, <2>3, <2>4, <2>5, <2>6, <2>7, <2>8, <2>9, <2>10, <2>11, <2>12,
       <2>13, <2>14, <2>15, <2>16, <2>17 DEF Next, Handle
<1>3. QED
  BY <1>1, <1>2, PTL DEF Spec

-----------------------------------------------------------------------------

LEMMA NonceInvStep == TypeOK /\ NonceInv /\ [Next]_vars => NonceInv'
<1> SUFFICES ASSUME TypeOK, NonceInv, [Next]_vars
             PROVE  NonceInv'
  OBVIOUS
<1> USE DEF history
<1>1. ASSUME UNCHANGED <<challenges, history>>
      PROVE  NonceInv'
  BY <1>1 DEF NonceInv, IssuedInv, ChallengeInv, AdmittedInv, NonceServesOneClaim
<1>2. ASSUME NEW r \in Requests, KeyChallengeReply(r)
      PROVE  NonceInv'
  <2>1. CASE ~Passes(req[r].seen, now)
    BY <1>1, <1>2, <2>1 DEF KeyChallengeReply
  <2>2. CASE Passes(req[r].seen, now)
    <3> DEFINE p == req[r].pair
               n == lastNonce + 1
               u == now + ChallengeTTL
    <3>1. /\ lastNonce \in Nat /\ lastNonce' = n /\ admitted' = admitted
          /\ challenges' = [challenges EXCEPT ![p] = [nonce |-> n, until |-> u]]
          /\ issued' = issued \cup {[nonce |-> n, pair |-> p, until |-> u]}
          /\ \A i \in issued : i.nonce \in Nat
          /\ challenges \in [Pairs -> Challenge]
      BY <1>2, <2>2 DEF KeyChallengeReply, TypeOK, Nonces
    <3> HIDE DEF p, u
    <3>2. IssuedInv'
      BY <3>1 DEF NonceInv, IssuedInv
    <3>3. AdmittedInv' /\ NonceServesOneClaim'
      BY <3>1 DEF NonceInv, AdmittedInv, NonceServesOneClaim
    <3>4. ASSUME NEW q \in Pairs, challenges'[q].nonce # 0
          PROVE  /\ [nonce |-> challenges'[q].nonce, pair |-> q,
                     until |-> challenges'[q].until] \in issued'
                 /\ \A i \in issued' : i.pair = q => i.nonce <= challenges'[q].nonce
                 /\ \A x \in admitted' : x.nonce # challenges'[q].nonce
      <4>1. CASE q = p
        BY <3>1, <4>1 DEF NonceInv, IssuedInv, AdmittedInv
      <4>2. CASE q # p
        BY <3>1, <3>4, <4>2 DEF NonceInv, ChallengeInv
      <4> QED
        BY <4>1, <4>2
    <3> QED
      BY <3>2, <3>3, <3>4 DEF NonceInv, ChallengeInv
  <2> QED
    BY <2>1, <2>2
<1>3. ASSUME NEW p \in Pairs, Drop(p) = challenges', UNCHANGED history
      PROVE  NonceInv'
  BY <1>3 DEF Drop, NoChallenge, TypeOK, NonceInv, IssuedInv, ChallengeInv, AdmittedInv,
              NonceServesOneClaim
<1>4. ASSUME NEW r \in Requests, KeyClaimCall(r)
      PROVE  NonceInv'
  <2>1. PICK p \in Pairs, n \in 1..lastNonce :
          /\ challenges[p].nonce = n
          /\ challenges' = [challenges EXCEPT ![p] = NoChallenge]
          /\ admitted' = admitted \cup {[nonce |-> n, pair |-> p, by |-> r]}
    BY <1>4 DEF KeyClaimCall, Answers, Drop
  <2>2. lastNonce' = lastNonce /\ issued' = issued /\ n # 0
    BY <1>4 DEF KeyClaimCall, TypeOK
  <2>3. \A x \in admitted : x.nonce # n
    BY <2>1, <2>2 DEF NonceInv, ChallengeInv
  <2>4. IssuedInv' /\ AdmittedInv' /\ NonceServesOneClaim'
    BY <2>1, <2>2, <2>3 DEF NonceInv, IssuedInv, AdmittedInv, NonceServesOneClaim
  <2>5. ASSUME NEW q \in Pairs, challenges'[q].nonce # 0
        PROVE  q # p /\ challenges'[q] = challenges[q] /\ challenges[q].nonce # n
    <3>1. q # p /\ challenges'[q] = challenges[q]
      BY <2>1, <2>5 DEF NoChallenge, TypeOK
    <3>2. challenges[q].nonce # n
      BY <2>1, <2>2, <2>5, <3>1 DEF NonceInv, ChallengeInv, IssuedInv
    <3> QED
      BY <3>1, <3>2
  <2>6. ChallengeInv'
    BY <2>1, <2>2, <2>5 DEF NonceInv, ChallengeInv
  <2> QED
    BY <2>4, <2>6 DEF NonceInv
<1>5. CASE KeyClaimExpired
  BY <1>3, <1>5 DEF KeyClaimExpired
<1>6. CASE Restart
  BY <1>6 DEF Restart, NoChallenge, NonceInv, IssuedInv, ChallengeInv, AdmittedInv,
              NonceServesOneClaim
<1>7. ASSUME NEW r \in Requests, KeyClaimSecret(r)
      PROVE  NonceInv'
  BY <1>7 DEF KeyClaimSecret, NonceInv, IssuedInv, ChallengeInv, AdmittedInv,
              NonceServesOneClaim
<1> QED
  BY <1>1, <1>2, <1>4, <1>5, <1>6, <1>7
     DEF Next, Handle, vars, Tick, CreateGrantCall, CreateGrantUpsert, RevokeGrantCall,
         RevokeGrantLookup, RevokeGrantUpdate, KeyChallengeCall, KeyChallengeLookup,
         KeyClaimLookup, KeyClaimRecheck, QueryFails

\* No nonce gets two claims past the signature check.
THEOREM SingleUse == Spec => []NonceServesOneClaim
<1>1. Init => NonceInv
  BY DEF Init, NoChallenge, NonceInv, IssuedInv, ChallengeInv, AdmittedInv,
         NonceServesOneClaim
<1>2. NonceInv => NonceServesOneClaim
  BY DEF NonceInv
<1>3. QED
  BY <1>1, <1>2, NonceInvStep, TypeCorrect, PTL DEF Spec

\* A claim that is let through answers the newest challenge of its pair, in time.
THEOREM LatestChallenge == Spec => ClaimAnswersLatestChallenge
<1> DEFINE A == \A x \in admitted' \ admitted :
                  \E i \in issued :
                    /\ i.nonce = x.nonce /\ i.pair = x.pair /\ now <= i.until
                    /\ \A j \in issued : j.pair = x.pair => j.nonce <= i.nonce
<1>1. Init => NonceInv
  BY DEF Init, NoChallenge, NonceInv, IssuedInv, ChallengeInv, AdmittedInv,
         NonceServesOneClaim
<1>2. TypeOK /\ NonceInv /\ [Next]_vars => [A]_vars
  <2> SUFFICES ASSUME TypeOK, NonceInv, [Next]_vars, NEW x \in admitted' \ admitted
               PROVE  \E i \in issued :
                        /\ i.nonce = x.nonce /\ i.pair = x.pair /\ now <= i.until
                        /\ \A j \in issued : j.pair = x.pair => j.nonce <= i.nonce
    OBVIOUS
  <2>1. PICK r \in Requests : KeyClaimCall(r)
    BY DEF Next, Handle, vars, history, Tick, Restart, KeyClaimExpired, CreateGrantCall,
           CreateGrantUpsert, RevokeGrantCall, RevokeGrantLookup, RevokeGrantUpdate,
           KeyChallengeCall, KeyChallengeLookup, KeyChallengeReply, KeyClaimLookup,
           KeyClaimRecheck, KeyClaimSecret, QueryFails
  <2>2. PICK p \in Pairs, n \in 1..lastNonce :
          /\ challenges[p].nonce = n
          /\ ~(challenges[p].until < now)
          /\ admitted' = admitted \cup {[nonce |-> n, pair |-> p, by |-> r]}
    BY <2>1 DEF KeyClaimCall, Answers, Stale
  <2> DEFINE ch == [nonce |-> challenges[p].nonce, pair |-> p,
                    until |-> challenges[p].until]
  <2>3. ch \in issued /\ \A j \in issued : j.pair = p => j.nonce <= n
    BY <2>2 DEF NonceInv, ChallengeInv, TypeOK
  <2>4. x.nonce = n /\ x.pair = p
    BY <2>2
  <2>5. now <= ch.until
    BY <2>2 DEF TypeOK, Challenge
  <2> QED
    BY <2>2, <2>3, <2>4, <2>5
<1>3. QED
  BY <1>1, <1>2, NonceInvStep, TypeCorrect, PTL DEF Spec, ClaimAnswersLatestChallenge

-----------------------------------------------------------------------------

LEMMA OwnerInvStep == TypeOK /\ OwnerInv /\ [Next]_vars => OwnerInv'
<1> SUFFICES ASSUME TypeOK, OwnerInv, [Next]_vars
             PROVE  OwnerInv'
  OBVIOUS
<1> USE DEF OwnerInv, TypeOK
<1>1. ASSUME NEW r \in Requests, NEW q, Becomes(r, q), UNCHANGED grants,
             q.stage \in {"grantUpsert", "revokeUpdate"} => q.caller = Owner[q.pair[1]],
             q.stage = "revokeUpdate" => grants[q.pair].status # "none"
      PROVE  OwnerInv'
  BY <1>1 DEF Becomes
<1>2. ASSUME NEW r \in Requests, Ends(r), UNCHANGED grants
      PROVE  OwnerInv'
  BY <1>1, <1>2 DEF Ends, Idle, Locals
<1>3. ASSUME NEW r \in Requests, CreateGrantCall(r)
      PROVE  OwnerInv'
  BY <1>3 DEF CreateGrantCall, Becomes, Idle, Locals
<1>4. ASSUME NEW r \in Requests, CreateGrantUpsert(r)
      PROVE  OwnerInv'
  BY <1>4 DEF CreateGrantUpsert, Ends, Becomes, Idle, Locals
<1>5. ASSUME NEW r \in Requests, RevokeGrantLookup(r)
      PROVE  OwnerInv'
  BY <1>2, <1>5 DEF RevokeGrantLookup, MayRevoke, Becomes, Request
<1>6. ASSUME NEW r \in Requests, RevokeGrantUpdate(r)
      PROVE  OwnerInv'
  <2>1. /\ grants[req[r].pair].status # "none" /\ req[r].pair \in Pairs
        /\ grants' = [grants EXCEPT ![req[r].pair].status = "revoked"]
        /\ req' = [req EXCEPT ![r] = Idle]
    BY <1>6 DEF RevokeGrantUpdate, Ends, Becomes
  <2>2. \A p \in Pairs : /\ grants'[p].status # "none" <=> grants[p].status # "none"
                         /\ grants'[p].owner = grants[p].owner
    BY <2>1 DEF Grant
  <2> QED
    BY <2>1, <2>2 DEF Idle, Locals
<1>7. ASSUME NEW r \in Requests,
             \/ RevokeGrantCall(r) \/ KeyChallengeCall(r) \/ KeyClaimCall(r)
      PROVE  OwnerInv'
  <2>1. /\ \E q : /\ Becomes(r, q)
                 /\ q.stage \in {"revokeLookup", "challengeLookup", "claimLookup"}
        /\ UNCHANGED grants
    <3>1. CASE RevokeGrantCall(r)
      BY <3>1 DEF RevokeGrantCall, Locals
    <3>2. CASE KeyChallengeCall(r)
      BY <3>2 DEF KeyChallengeCall, Locals
    <3>3. CASE KeyClaimCall(r)
      BY <3>3 DEF KeyClaimCall, Locals
    <3> QED
      BY <1>7, <3>1, <3>2, <3>3
  <2> QED
    BY <1>1, <2>1
<1>8. ASSUME NEW r \in Requests,
             \/ KeyChallengeLookup(r) \/ KeyChallengeReply(r) \/ KeyClaimLookup(r)
             \/ KeyClaimRecheck(r) \/ KeyClaimSecret(r) \/ QueryFails(r)
      PROVE  OwnerInv'
  BY <1>2, <1>8 DEF KeyChallengeLookup, KeyChallengeReply, KeyClaimLookup,
                    KeyClaimRecheck, KeyClaimSecret, QueryFails, Becomes, Request
<1>9. CASE Restart
  BY <1>9 DEF Restart, Idle, Locals
<1>10. CASE Tick \/ KeyClaimExpired \/ UNCHANGED vars
  BY <1>10 DEF Tick, KeyClaimExpired, vars
<1> QED
  BY <1>3, <1>4, <1>5, <1>6, <1>7, <1>8, <1>9, <1>10 DEF Next, Handle

\* Only the author of an article changes who has access to it.
THEOREM OwnerControl == Spec => OwnerControlsGrants
<1> DEFINE A == \A p \in Pairs : grants'[p] # grants[p] =>
                  \E r \in Requests : req[r].caller = Owner[p[1]] /\ req'[r] # req[r]
<1>1. Init => OwnerInv
  BY DEF Init, OwnerInv, NoGrant, Idle, Locals
<1>2. TypeOK /\ OwnerInv /\ [Next]_vars => [A]_vars
  <2> SUFFICES ASSUME TypeOK, OwnerInv, [Next]_vars,
                      NEW p \in Pairs, grants'[p] # grants[p]
               PROVE  \E r \in Requests : req[r].caller = Owner[p[1]] /\ req'[r] # req[r]
    OBVIOUS
  <2>1. PICK r \in Requests : CreateGrantUpsert(r) \/ RevokeGrantUpdate(r)
    BY DEF Next, Handle, vars, Tick, Restart, KeyClaimExpired, CreateGrantCall,
           RevokeGrantCall, RevokeGrantLookup, KeyChallengeCall, KeyChallengeLookup,
           KeyChallengeReply, KeyClaimCall, KeyClaimLookup, KeyClaimRecheck,
           KeyClaimSecret, QueryFails
  <2>2. /\ req[r].stage \in {"grantUpsert", "revokeUpdate"}
        /\ req[r].pair = p
        /\ req'[r] = Idle
    BY <2>1 DEF CreateGrantUpsert, RevokeGrantUpdate, Ends, Becomes, TypeOK
  <2> QED
    BY <2>2 DEF OwnerInv, Idle, Locals
<1>3. QED
  BY <1>1, <1>2, OwnerInvStep, TypeCorrect, PTL DEF Spec, OwnerControlsGrants

-----------------------------------------------------------------------------
(* KeyDelivery implements KeyPromise.                                      *)

LEMMA PassesOpens ==
  ASSUME NEW g \in Grant, NEW t \in Nat, NEW u \in Nat, t <= u, Passes(g, u)
  PROVE  Opens(g, t)
  BY DEF Passes, Opens, Grant, Never

LEMMA ReadInvStep == TypeOK /\ ReadInv /\ [Next]_vars => ReadInv'
<1> SUFFICES ASSUME TypeOK, ReadInv, [Next]_vars
             PROVE  ReadInv'
  OBVIOUS
<1> USE DEF ReadInv, TypeOK
<1>1. ASSUME NEW r \in Requests, NEW q, Becomes(r, q), UNCHANGED now,
             q.stage \notin {"claimRecheck", "claimSecret"}
      PROVE  ReadInv'
  BY <1>1 DEF Becomes
<1>2. ASSUME NEW r \in Requests, Ends(r), UNCHANGED now
      PROVE  ReadInv'
  BY <1>1, <1>2, IdleType DEF Ends
<1>3. ASSUME NEW r \in Requests,
             \/ CreateGrantCall(r) \/ RevokeGrantCall(r)
             \/ KeyChallengeCall(r) \/ KeyClaimCall(r)
      PROVE  ReadInv'
  <2>1. CASE CreateGrantCall(r)
    BY <1>1, <2>1 DEF CreateGrantCall, Locals
  <2>2. CASE RevokeGrantCall(r)
    BY <1>1, <2>2 DEF RevokeGrantCall, Locals
  <2>3. CASE KeyChallengeCall(r)
    BY <1>1, <2>3 DEF KeyChallengeCall, Locals
  <2>4. CASE KeyClaimCall(r)
    BY <1>1, <2>4 DEF KeyClaimCall, Locals
  <2> QED
    BY <1>3, <2>1, <2>2, <2>3, <2>4
<1>4. ASSUME NEW r \in Requests, RevokeGrantLookup(r)
      PROVE  ReadInv'
  BY <1>2, <1>4 DEF RevokeGrantLookup, Becomes, Request
<1>5. ASSUME NEW r \in Requests, KeyChallengeLookup(r)
      PROVE  ReadInv'
  BY <1>5 DEF KeyChallengeLookup, Becomes, Request
<1>6. ASSUME NEW r \in Requests, KeyClaimLookup(r)
      PROVE  ReadInv'
  BY <1>6 DEF KeyClaimLookup, Becomes, Request
<1>7. ASSUME NEW r \in Requests, KeyClaimRecheck(r)
      PROVE  ReadInv'
  <2>1. CASE ~Passes(req[r].seen, now)
    BY <1>2, <1>7, <2>1 DEF KeyClaimRecheck
  <2>2. CASE Passes(req[r].seen, now)
    <3>1. Opens(req[r].seen, req[r].readAt)
      BY <1>7, <2>2, PassesOpens DEF KeyClaimRecheck, Request
    <3> QED
      BY <1>7, <2>2, <3>1 DEF KeyClaimRecheck, Becomes, Request
  <2> QED
    BY <2>1, <2>2
<1>8. ASSUME NEW r \in Requests,
             \/ CreateGrantUpsert(r) \/ RevokeGrantUpdate(r) \/ KeyChallengeReply(r)
             \/ KeyClaimSecret(r) \/ QueryFails(r)
      PROVE  ReadInv'
  BY <1>2, <1>8 DEF CreateGrantUpsert, RevokeGrantUpdate, KeyChallengeReply,
                    KeyClaimSecret, QueryFails
<1>9. CASE Restart
  BY <1>9, IdleType DEF Restart
<1>10. CASE Tick
  BY <1>10 DEF Tick, Request
<1>11. CASE KeyClaimExpired \/ UNCHANGED vars
  BY <1>11 DEF KeyClaimExpired, vars
<1> QED
  BY <1>3, <1>4, <1>5, <1>6, <1>7, <1>8, <1>9, <1>10, <1>11 DEF Next, Handle

\* Every step of the endpoints is a step of the promise, or none.
LEMMA PromiseStep ==
  TypeOK /\ NonceInv /\ ReadInv /\ [Next]_vars => [KP!Next]_(KP!vars)
<1> SUFFICES ASSUME TypeOK, NonceInv, ReadInv, [Next]_vars
             PROVE  KP!Next \/ UNCHANGED KP!vars
  OBVIOUS
<1> DEFINE accessNow == [p \in Pairs |-> Opens(grants[p], now)]
           claims == [r \in Requests |-> ClaimOf(req[r])]
           spent == {x.nonce : x \in admitted}
           none == [stage |-> "none", pair |-> <<>>, nonce |-> 0]
<1> USE DEF history
<1>0. ASSUME UNCHANGED <<req, admitted, delivered>>
      PROVE  KP!Next
  BY <1>0 DEF KP!Next, KP!AccessChanges, Opens
<1>1. ASSUME NEW r \in Requests, NEW q, Becomes(r, q), ClaimOf(q) = ClaimOf(req[r]),
             UNCHANGED <<admitted, delivered>>
      PROVE  KP!Next
  <2>1. claims' = claims
    BY <1>1 DEF Becomes, TypeOK
  <2> QED
    BY <1>1, <2>1 DEF KP!Next, KP!AccessChanges, Opens
<1>2. ASSUME NEW r \in Requests, Ends(r), UNCHANGED <<now, grants, admitted, delivered>>
      PROVE  KP!Next
  <2>1. claims' = [s \in Requests |-> IF s \in {r} THEN none ELSE claims[s]]
    BY <1>2 DEF Ends, Becomes, ClaimOf, Idle, Locals, TypeOK
  <2> QED
    BY <1>2, <2>1 DEF KP!Next, KP!Abandon, KP!NoClaim
<1>3. ASSUME NEW r \in Requests,
             \/ CreateGrantCall(r) \/ RevokeGrantCall(r) \/ KeyChallengeCall(r)
      PROVE  KP!Next
  <2>1. CASE CreateGrantCall(r)
    BY <1>1, <2>1 DEF CreateGrantCall, Locals, ClaimOf
  <2>2. CASE RevokeGrantCall(r)
    BY <1>1, <2>2 DEF RevokeGrantCall, Locals, ClaimOf
  <2>3. CASE KeyChallengeCall(r)
    BY <1>1, <2>3 DEF KeyChallengeCall, Locals, ClaimOf
  <2> QED
    BY <1>3, <2>1, <2>2, <2>3
<1>4. ASSUME NEW r \in Requests, CreateGrantUpsert(r) \/ RevokeGrantUpdate(r)
      PROVE  KP!Next
  BY <1>1, <1>4 DEF CreateGrantUpsert, RevokeGrantUpdate, Ends, Idle, Locals, ClaimOf
<1>5. ASSUME NEW r \in Requests, RevokeGrantLookup(r) \/ KeyChallengeLookup(r)
      PROVE  KP!Next
  <2>1. req[r] \in Request
    BY DEF TypeOK
  <2>2. CASE RevokeGrantLookup(r)
    BY <1>1, <1>2, <2>1, <2>2 DEF RevokeGrantLookup, Request, ClaimOf
  <2>3. CASE KeyChallengeLookup(r)
    BY <1>1, <2>1, <2>3 DEF KeyChallengeLookup, Request, ClaimOf
  <2> QED
    BY <1>5, <2>2, <2>3
<1>6. ASSUME NEW r \in Requests, KeyChallengeReply(r) \/ QueryFails(r)
      PROVE  KP!Next
  BY <1>2, <1>6 DEF KeyChallengeReply, QueryFails
<1>7. ASSUME NEW r \in Requests, KeyClaimCall(r)
      PROVE  KP!Next
  <2>1. PICK p \in Pairs, n \in 1..lastNonce :
          /\ challenges[p].nonce = n
          /\ admitted' = admitted \cup {[nonce |-> n, pair |-> p, by |-> r]}
          /\ req' = [req EXCEPT ![r] = Locals("claimLookup", p[2], p, Never, n)]
    BY <1>7 DEF KeyClaimCall, Answers, Becomes
  <2>2. n \in Nonces /\ n # 0
    BY TimesAssumption DEF TypeOK, Nonces
  <2>3. n \notin spent
    <3> SUFFICES ASSUME NEW x \in admitted, x.nonce = n
                 PROVE  FALSE
      OBVIOUS
    <3> QED
      BY <2>1, <2>2 DEF NonceInv, ChallengeInv
  <2>4. spent' = spent \cup {n}
    <3>1. \A x \in admitted' : x \in admitted \/ x.nonce = n
      BY <2>1
    <3> DEFINE paid == [nonce |-> n, pair |-> p, by |-> r]
    <3>2. paid \in admitted' /\ paid.nonce = n
      BY <2>1
    <3>3. admitted \subseteq admitted'
      BY <2>1
    <3> QED
      BY <3>1, <3>2, <3>3
  <2>5. claims' = [claims EXCEPT ![r] = [stage |-> "begun", pair |-> p, nonce |-> n]]
    BY <2>1 DEF TypeOK, ClaimOf, Locals
  <2>6. claims[r].stage = "none"
    BY <1>7 DEF KeyClaimCall, ClaimOf
  <2>7. KP!Begin(r, p, n)
    BY <1>7, <2>3, <2>4, <2>5, <2>6 DEF KP!Begin, KeyClaimCall
  <2> QED
    BY <2>2, <2>7 DEF KP!Next
<1>8. ASSUME NEW r \in Requests, KeyClaimLookup(r)
      PROVE  KP!Next
  <2> DEFINE p == req[r].pair
             q == [req[r] EXCEPT !.stage = "claimRecheck", !.seen = grants[p],
                                 !.readAt = now]
  <2>1. /\ req[r] \in Request /\ p \in Pairs /\ req[r].stage = "claimLookup"
        /\ Becomes(r, q) /\ UNCHANGED <<now, grants, admitted, delivered>>
    BY <1>8 DEF KeyClaimLookup, TypeOK
  <2>2. /\ q.stage = "claimRecheck" /\ q.pair = p /\ q.nonce = req[r].nonce
        /\ q.seen = grants[p] /\ q.readAt = now
    BY <2>1 DEF Request
  <2> HIDE DEF q, p
  <2>3. CASE ~Opens(grants[p], now)
    BY <1>1, <2>1, <2>2, <2>3 DEF ClaimOf, p
  <2>4. CASE Opens(grants[p], now)
    <3>1. claims[r].stage = "begun" /\ claims[r].pair = p
      BY <2>1 DEF ClaimOf, p
    <3>2. claims' = [claims EXCEPT ![r].stage = "witnessed"]
      BY <2>1, <2>2, <2>4 DEF ClaimOf, Becomes, TypeOK, p
    <3>3. accessNow[claims[r].pair]
      BY <2>1, <2>4, <3>1
    <3> QED
      BY <2>1, <3>1, <3>2, <3>3 DEF KP!Next, KP!Witness
  <2> QED
    BY <2>3, <2>4
<1>9. ASSUME NEW r \in Requests, KeyClaimRecheck(r)
      PROVE  KP!Next
  <2>1. req[r] \in Request
    BY DEF TypeOK
  <2> QED
    BY <1>1, <1>2, <1>9, <2>1 DEF KeyClaimRecheck, Request, ClaimOf
<1>10. ASSUME NEW r \in Requests, KeyClaimSecret(r)
       PROVE  KP!Next
  <2>1. CASE req[r].pair[1] \notin Keyed
    BY <1>2, <1>10, <2>1 DEF KeyClaimSecret
  <2>2. CASE req[r].pair[1] \in Keyed
    <3>1. /\ claims[r].stage = "witnessed" /\ claims[r].pair = req[r].pair
          /\ claims[r].nonce = req[r].nonce
      BY <1>10 DEF KeyClaimSecret, ReadInv, ClaimOf
    <3>2. claims' = [claims EXCEPT ![r] = none]
      BY <1>10 DEF KeyClaimSecret, Ends, Becomes, ClaimOf, Idle, Locals, TypeOK
    <3> QED
      BY <1>10, <2>2, <3>1, <3>2 DEF KeyClaimSecret, KP!Next, KP!HandOver, KP!NoClaim
  <2> QED
    BY <2>1, <2>2
<1>11. CASE Restart
  <2>1. PICK sent \in SUBSET {r \in Requests :
                                req[r].stage \in {"grantUpsert", "revokeUpdate"}} :
          req' = [r \in Requests |-> IF r \in sent THEN req[r] ELSE Idle]
    BY <1>11 DEF Restart
  <2>2. claims' = [r \in Requests |-> IF r \in Requests THEN none ELSE claims[r]]
    BY <2>1 DEF ClaimOf, Idle, Locals
  <2> QED
    BY <1>11, <2>2 DEF Restart, KP!Next, KP!Abandon, KP!NoClaim
<1>12. CASE Tick \/ KeyClaimExpired
  BY <1>0, <1>12 DEF Tick, KeyClaimExpired
<1>13. CASE UNCHANGED vars
  BY <1>0, <1>13 DEF vars
<1> QED
  BY <1>3, <1>4, <1>5, <1>6, <1>7, <1>8, <1>9, <1>10, <1>11, <1>12, <1>13
     DEF Next, Handle

\* The endpoints keep the promise: a key goes only to a claim that saw access
\* open, and a nonce is used once.
THEOREM Implements == Spec => Promise
<1>1. Init => KP!Init
  <2>1. Init => \A r \in Requests : ClaimOf(req[r]) = KP!NoClaim
    BY DEF Init, KP!NoClaim, ClaimOf, Idle, Locals
  <2>2. Init => \A q \in Pairs : Opens(grants[q], now) = FALSE
    BY DEF Init, Opens, NoGrant
  <2> QED
    BY <2>1, <2>2 DEF Init, KP!Init
<1>2. Init => NonceInv /\ ReadInv
  BY DEF Init, NoChallenge, NonceInv, IssuedInv, ChallengeInv, AdmittedInv,
         NonceServesOneClaim, ReadInv, Idle, Locals
<1>3. QED
  BY <1>1, <1>2, NonceInvStep, ReadInvStep, PromiseStep, TypeCorrect, PTL
     DEF Spec, Promise, KP!Spec

=============================================================================
