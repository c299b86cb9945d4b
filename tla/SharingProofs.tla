---------------------------- MODULE SharingProofs ----------------------------
(***************************************************************************)
(* Proofs about Sharing and its parts, for any wallets, articles, viewers, *)
(* links, lifetimes, numbers of requests under way and bounds.             *)
(***************************************************************************)
EXTENDS Sharing, FiniteSetTheorems, TLAPS

(* The access links *)

TokenRequests == Generate \cup Update \cup Revoke \cup Validate \cup Found

\* A time that has come.
Past(e) == e \in Nat /\ e <= tnow

\* What is known of each request besides its type: a token about to be created
\* is nobody's, a revocation carries a time that has come, and a row that was
\* read from a revoked token carries one too, so that it is not found valid.
RequestOK(c) ==
  call[c] # NoCall =>
    /\ call[c].kind = "generate" =>
         /\ tokens[call[c].token] = NoRow
         /\ \A d \in Callers : d # c /\ call[d] # NoCall /\ call[d].kind = "generate" =>
              call[d].token # call[c].token
    /\ call[c].kind = "revoke" => Past(call[c].row.expiresAt)
    /\ call[c].kind = "found" /\ call[c].wasEnded => Past(call[c].row.expiresAt)
    /\ call[c].kind = "valid" => ~call[c].wasEnded

\* A revoked token has a row that is over.
EndedOK == \A t \in ended : tokens[t] # NoRow /\ Past(tokens[t].expiresAt)

IInv == TokensTypeOK /\ EndedOK /\ \A c \in Callers : RequestOK(c)

-----------------------------------------------------------------------------

\* A request is of the set that its kind names.
LEMMA Kinds ==
  ASSUME NEW r \in TokenRequests
  PROVE  /\ r # NoCall
         /\ r.kind = "generate" => r \in Generate
         /\ r.kind = "update" => r \in Update
         /\ r.kind = "revoke" => r \in Revoke
         /\ r.kind = "validate" => r \in Validate
         /\ r.kind \in {"found", "valid"} => r \in Found
  BY NoCallAssumption DEF TokenRequests, Generate, Update, Revoke, Validate, Found

\* A request under way is one of them.
LEMMA UnderWay ==
  ASSUME TokensTypeOK, NEW c \in Callers, call[c] # NoCall
  PROVE  call[c] \in TokenRequests
  BY DEF TokensTypeOK, TokenRequests

\* What calculateExpiration returns, and what a revocation writes.
LEMMA ExpirationType ==
  ASSUME TokensTypeOK
  PROVE  Expirations \subseteq Expiry /\ Now \in Expiry /\ Past(Now)
  BY TokensAssumption DEF TokensTypeOK, Expirations, Expiry, Now, Past

\* updateMany leaves rows where there are rows, with their articles, and writes
\* the expiry to those of the article alone.
LEMMA UpdateManyRows ==
  ASSUME TokensTypeOK, NEW a \in LinkArticles, NEW e \in Expiry, UpdateMany(a, e)
  PROVE  /\ tokens' \in [Tokens -> Row \cup {NoRow}]
         /\ \A t \in Tokens :
              /\ tokens[t] = NoRow => tokens'[t] = NoRow
              /\ tokens[t] # NoRow => /\ tokens'[t] # NoRow
                                      /\ tokens'[t].articleId = tokens[t].articleId
              /\ t \in Of(a) => tokens'[t] # NoRow /\ tokens'[t].expiresAt = e
              /\ t \notin Of(a) => tokens'[t] = tokens[t]
         /\ Of(a) \subseteq Tokens
<1>1. SUFFICES ASSUME NEW t \in Tokens
      PROVE  /\ tokens'[t] \in Row \cup {NoRow}
             /\ tokens[t] = NoRow => tokens'[t] = NoRow
             /\ tokens[t] # NoRow => /\ tokens'[t] # NoRow
                                     /\ tokens'[t].articleId = tokens[t].articleId
             /\ t \in Of(a) => tokens'[t] # NoRow /\ tokens'[t].expiresAt = e
             /\ t \notin Of(a) => tokens'[t] = tokens[t]
  BY DEF UpdateMany, Of
<1>2. CASE t \in Of(a)
  <2>1. tokens[t] \in Row /\ tokens[t] # NoRow
    BY <1>2 DEF TokensTypeOK, Of
  <2>2. tokens'[t] = [tokens[t] EXCEPT !.expiresAt = e]
    BY <1>2 DEF UpdateMany
  <2>3. tokens'[t] \in Row /\ tokens'[t].articleId = tokens[t].articleId
        /\ tokens'[t].expiresAt = e
    BY <2>1, <2>2 DEF Row
  <2>4. QED
    BY <1>2, <2>1, <2>3, NoRowAssumption
<1>3. CASE t \notin Of(a)
  BY <1>3 DEF UpdateMany, TokensTypeOK
<1>4. QED
  BY <1>2, <1>3

-----------------------------------------------------------------------------
(* The invariant *)

LEMMA InvInit == TokensInit => IInv
  BY DEF TokensInit, IInv, TokensTypeOK, EndedOK, RequestOK

\* A request that comes in changes nothing else; each kind brings what RequestOK
\* says of it.
LEMMA CallsInv ==
  ASSUME IInv, NEW c \in Callers, NEW r \in TokenRequests, Calls(c, r),
         r.kind \notin {"found", "valid"},
         r.kind = "revoke" => Past(r.row.expiresAt),
         r.kind = "generate" => Unused(r.token)
  PROVE  IInv'
<1> USE DEF IInv
<1>1. /\ tnow' = tnow /\ tokens' = tokens /\ ended' = ended
      /\ call' = [call EXCEPT ![c] = r]
  BY DEF Calls
<1>2. TokensTypeOK'
  BY <1>1 DEF TokensTypeOK, TokenRequests
<1>3. EndedOK'
  BY <1>1 DEF EndedOK, Past
<1>4. ASSUME NEW d \in Callers PROVE RequestOK(d)'
  <2>1. call'[c] = r /\ \A b \in Callers : b # c => call'[b] = call[b]
    BY <1>1 DEF TokensTypeOK
  <2>2. r.kind = "generate" =>
          /\ tokens[r.token] = NoRow
          /\ \A b \in Callers : call[b] # NoCall /\ call[b].kind = "generate" =>
               call[b].token # r.token
    BY DEF Unused
  <2>3. CASE d = c
    BY <1>1, <2>1, <2>2, <2>3 DEF RequestOK, Past
  <2>4. CASE d # c
    BY <1>1, <2>1, <2>2, <2>4 DEF RequestOK, Past
  <2>5. QED
    BY <2>3, <2>4
<1>5. QED
  BY <1>2, <1>3, <1>4

\* A request that ends, while the rows keep what the others rely on.
LEMMA ReturnsInv ==
  ASSUME IInv, NEW c \in Callers, Returns(c), tnow' = tnow,
         tokens' \in [Tokens -> Row \cup {NoRow}], ended' \subseteq Tokens, EndedOK',
         \A t \in Tokens : tokens[t] = NoRow /\ tokens'[t] # NoRow =>
           call[c] # NoCall /\ call[c].kind = "generate" /\ call[c].token = t
  PROVE  IInv'
<1> USE DEF IInv
<1>1. call' = [call EXCEPT ![c] = NoCall]
  BY DEF Returns
<1>2. TokensTypeOK'
  BY <1>1 DEF TokensTypeOK
<1>3. call'[c] = NoCall /\ \A b \in Callers : b # c => call'[b] = call[b]
  BY <1>1 DEF TokensTypeOK
<1>4. ASSUME NEW d \in Callers PROVE RequestOK(d)'
  <2>1. CASE d = c
    BY <1>3, <2>1 DEF RequestOK
  <2>2. CASE d # c /\ call[d] # NoCall
    <3>1. call[d].kind = "generate" => tokens'[call[d].token] = NoRow
      <4>1. SUFFICES ASSUME call[d].kind = "generate" PROVE tokens'[call[d].token] = NoRow
        OBVIOUS
      <4>2. call[d].token \in Tokens
        BY <2>2, <4>1, UnderWay, Kinds DEF Generate
      <4>3. /\ tokens[call[d].token] = NoRow
            /\ call[c] # NoCall /\ call[c].kind = "generate" => call[c].token # call[d].token
        BY <2>2, <4>1 DEF RequestOK
      <4>4. QED
        BY <4>2, <4>3
    <3>2. QED
      BY <1>3, <2>2, <3>1 DEF RequestOK, Past
  <2>3. CASE d # c /\ call[d] = NoCall
    BY <1>3, <2>3 DEF RequestOK
  <2>4. QED
    BY <2>1, <2>2, <2>3
<1>5. QED
  BY <1>2, <1>4

\* A validation that goes on.
LEMMA AnswersInv ==
  ASSUME IInv, NEW c \in Callers, NEW r \in Found, call' = [call EXCEPT ![c] = r],
         UNCHANGED <<tnow, tokens, ended>>,
         r.kind = "found" /\ r.wasEnded => Past(r.row.expiresAt),
         r.kind = "valid" => ~r.wasEnded
  PROVE  IInv'
<1> USE DEF IInv
<1>1. r \in TokenRequests /\ r.kind \in {"found", "valid"}
  BY DEF TokenRequests, Found
<1>2. TokensTypeOK'
  BY DEF TokensTypeOK
<1>3. EndedOK'
  BY DEF EndedOK, Past
<1>4. call'[c] = r /\ \A b \in Callers : b # c => call'[b] = call[b]
  BY DEF TokensTypeOK
<1>5. ASSUME NEW d \in Callers PROVE RequestOK(d)'
  <2>1. CASE d = c
    BY <1>1, <1>4, <2>1 DEF RequestOK, Past
  <2>2. CASE d # c
    BY <1>1, <1>4, <2>2 DEF RequestOK, Past
  <2>3. QED
    BY <2>1, <2>2
<1>6. QED
  BY <1>2, <1>3, <1>5

\* The requests that come in.
LEMMA CallInv ==
  ASSUME IInv, NEW c \in Callers, TokenCall(c)
  PROVE  IInv'
<1>1. TokensTypeOK /\ Expirations \subseteq Expiry /\ Now \in Expiry /\ Past(Now)
  BY ExpirationType DEF IInv
<1>2. CASE GenerateTokenCall(c)
  <2>1. PICK t \in Tokens, a \in LinkArticles, e \in Expirations :
          /\ Unused(t)
          /\ Calls(c, [kind |-> "generate", token |-> t,
                       row |-> [articleId |-> a, expiresAt |-> e]])
    BY <1>2 DEF GenerateTokenCall
  <2>2. [kind |-> "generate", token |-> t, row |-> [articleId |-> a, expiresAt |-> e]]
          \in TokenRequests
    BY <1>1 DEF TokenRequests, Generate, Row
  <2>3. QED
    BY <2>1, <2>2, CallsInv
<1>3. CASE UpdateTokenCall(c)
  <2>1. PICK a \in LinkArticles, e \in Expirations :
          Calls(c, [kind |-> "update", row |-> [articleId |-> a, expiresAt |-> e]])
    BY <1>3 DEF UpdateTokenCall
  <2>2. [kind |-> "update", row |-> [articleId |-> a, expiresAt |-> e]] \in TokenRequests
    BY <1>1 DEF TokenRequests, Update, Row
  <2>3. QED
    BY <2>1, <2>2, CallsInv
<1>4. CASE RevokeTokenCall(c)
  <2>1. PICK a \in LinkArticles :
          Calls(c, [kind |-> "revoke", row |-> [articleId |-> a, expiresAt |-> Now]])
    BY <1>4 DEF RevokeTokenCall
  <2>2. [kind |-> "revoke", row |-> [articleId |-> a, expiresAt |-> Now]] \in TokenRequests
    BY <1>1 DEF TokenRequests, Revoke, Row
  <2>3. QED
    BY <1>1, <2>1, <2>2, CallsInv
<1>5. CASE ValidateTokenCall(c)
  <2>1. PICK t \in Tokens : Calls(c, [kind |-> "validate", token |-> t])
    BY <1>5 DEF ValidateTokenCall
  <2>2. [kind |-> "validate", token |-> t] \in TokenRequests
    BY DEF TokenRequests, Validate
  <2>3. QED
    BY <2>1, <2>2, CallsInv
<1>6. QED
  BY <1>2, <1>3, <1>4, <1>5 DEF TokenCall

\* The statements that write.
LEMMA WriteInv ==
  ASSUME IInv, NEW c \in Callers, TokenWrite(c)
  PROVE  IInv'
<1>1. TokensTypeOK /\ EndedOK /\ RequestOK(c)
  BY DEF IInv
<1>2. CASE GenerateTokenCreate(c)
  <2>1. /\ call[c] # NoCall /\ call[c].kind = "generate" /\ Returns(c)
        /\ tokens' = [tokens EXCEPT ![call[c].token] = call[c].row]
        /\ tnow' = tnow /\ ended' = ended
    BY <1>2 DEF GenerateTokenCreate
  <2>2. call[c] \in Generate
    BY <1>1, <2>1, UnderWay, Kinds
  <2>3. call[c].token \in Tokens /\ call[c].row \in Row
    BY <2>2 DEF Generate
  <2>4. tokens[call[c].token] = NoRow
    BY <1>1, <2>1 DEF RequestOK
  <2>5. /\ tokens' \in [Tokens -> Row \cup {NoRow}]
        /\ \A t \in Tokens : t # call[c].token => tokens'[t] = tokens[t]
    BY <1>1, <2>1, <2>3 DEF TokensTypeOK
  <2>6. EndedOK'
    BY <1>1, <2>1, <2>4, <2>5 DEF EndedOK, Past, TokensTypeOK
  <2>7. QED
    BY <1>1, <2>1, <2>5, <2>6, ReturnsInv DEF TokensTypeOK
<1>3. CASE UpdateTokenRun(c)
  <2>1. /\ call[c] # NoCall /\ call[c].kind = "update" /\ Returns(c)
        /\ UpdateMany(call[c].row.articleId, call[c].row.expiresAt)
        /\ tnow' = tnow /\ ended' = ended \ Of(call[c].row.articleId)
    BY <1>3 DEF UpdateTokenRun
  <2>2. call[c] \in Update
    BY <1>1, <2>1, UnderWay, Kinds
  <2>3. call[c].row.articleId \in LinkArticles /\ call[c].row.expiresAt \in Expiry
    BY <2>2 DEF Update, Row
  <2>4. /\ tokens' \in [Tokens -> Row \cup {NoRow}]
        /\ \A t \in Tokens :
             /\ tokens[t] = NoRow => tokens'[t] = NoRow
             /\ t \notin Of(call[c].row.articleId) => tokens'[t] = tokens[t]
    BY <1>1, <2>1, <2>3, UpdateManyRows
  <2>5. EndedOK'
    BY <1>1, <2>1, <2>4 DEF EndedOK, Past, TokensTypeOK
  <2>6. QED
    BY <1>1, <2>1, <2>4, <2>5, ReturnsInv DEF TokensTypeOK
<1>4. CASE RevokeTokenRun(c)
  <2>1. /\ call[c] # NoCall /\ call[c].kind = "revoke" /\ Returns(c)
        /\ UpdateMany(call[c].row.articleId, call[c].row.expiresAt)
        /\ tnow' = tnow /\ ended' = ended \cup Of(call[c].row.articleId)
    BY <1>4 DEF RevokeTokenRun
  <2>2. call[c] \in Revoke
    BY <1>1, <2>1, UnderWay, Kinds
  <2>3. /\ call[c].row.articleId \in LinkArticles /\ call[c].row.expiresAt \in Expiry
        /\ Past(call[c].row.expiresAt)
    BY <1>1, <2>1, <2>2 DEF Revoke, Row, RequestOK
  <2>4. /\ tokens' \in [Tokens -> Row \cup {NoRow}]
        /\ Of(call[c].row.articleId) \subseteq Tokens
        /\ \A t \in Tokens :
             /\ tokens[t] = NoRow => tokens'[t] = NoRow
             /\ t \in Of(call[c].row.articleId) =>
                  tokens'[t] # NoRow /\ tokens'[t].expiresAt = call[c].row.expiresAt
             /\ t \notin Of(call[c].row.articleId) => tokens'[t] = tokens[t]
    BY <1>1, <2>1, <2>3, UpdateManyRows
  <2>5. EndedOK' /\ ended' \subseteq Tokens
    BY <1>1, <2>1, <2>3, <2>4 DEF EndedOK, Past, TokensTypeOK
  <2>6. QED
    BY <1>1, <2>1, <2>4, <2>5, ReturnsInv
<1>5. QED
  BY <1>2, <1>3, <1>4 DEF TokenWrite

\* The steps of a validation, and failures.
LEMMA AnswerInv ==
  ASSUME IInv, NEW c \in Callers, TokenAnswer(c)
  PROVE  IInv'
<1>1. TokensTypeOK /\ EndedOK /\ RequestOK(c)
  BY DEF IInv
<1>2. ASSUME Returns(c), UNCHANGED <<tnow, tokens, ended>> PROVE IInv'
  <2>1. EndedOK' /\ ended' \subseteq Tokens /\ tokens' \in [Tokens -> Row \cup {NoRow}]
    BY <1>1, <1>2 DEF EndedOK, Past, TokensTypeOK
  <2>2. QED
    BY <1>2, <2>1, ReturnsInv
<1>3. CASE ValidateTokenFind(c)
  <2>1. call[c] # NoCall /\ call[c].kind = "validate" /\ UNCHANGED <<tnow, tokens, ended>>
    BY <1>3 DEF ValidateTokenFind
  <2>2. call[c].token \in Tokens
    BY <1>1, <2>1, UnderWay, Kinds DEF Validate
  <2>3. CASE tokens[call[c].token] = NoRow
    BY <1>2, <1>3, <2>1, <2>3 DEF ValidateTokenFind
  <2>4. CASE tokens[call[c].token] # NoRow
    <3> DEFINE t == call[c].token
               r == [kind |-> "found", row |-> tokens[t], wasEnded |-> t \in ended]
    <3>1. r \in Found
      BY <1>1, <2>2, <2>4 DEF Found, TokensTypeOK
    <3>2. call' = [call EXCEPT ![c] = r]
      BY <1>3, <2>4 DEF ValidateTokenFind
    <3>3. r.kind = "found" /\ (r.wasEnded => Past(r.row.expiresAt))
      BY <1>1 DEF EndedOK
    <3>4. QED
      BY <2>1, <3>1, <3>2, <3>3, AnswersInv
  <2>5. QED
    BY <2>3, <2>4
<1>4. CASE ValidateTokenReply(c)
  <2>1. call[c] # NoCall /\ call[c].kind = "found" /\ UNCHANGED <<tnow, tokens, ended>>
    BY <1>4 DEF ValidateTokenReply
  <2>2. call[c] \in Found
    BY <1>1, <2>1, UnderWay, Kinds
  <2>3. CASE Over(call[c].row)
    BY <1>2, <1>4, <2>1, <2>3 DEF ValidateTokenReply
  <2>4. CASE ~Over(call[c].row)
    <3> DEFINE r == [call[c] EXCEPT !.kind = "valid"]
    <3>1. r \in Found /\ r.kind = "valid" /\ r.wasEnded = call[c].wasEnded
      BY <2>2 DEF Found
    <3>2. call' = [call EXCEPT ![c] = r]
      BY <1>4, <2>4 DEF ValidateTokenReply
    <3>3. ~call[c].wasEnded
      BY <1>1, <2>1, <2>4, TokensAssumption DEF RequestOK, Over, Past
    <3>4. QED
      BY <2>1, <3>1, <3>2, <3>3, AnswersInv
  <2>5. QED
    BY <2>3, <2>4
<1>5. CASE TokenReplySent(c)
  BY <1>2, <1>5 DEF TokenReplySent
<1>6. CASE TokenQueryFails(c)
  BY <1>2, <1>6 DEF TokenQueryFails
<1>7. QED
  BY <1>3, <1>4, <1>5, <1>6 DEF TokenAnswer

LEMMA TickInv ==
  ASSUME IInv, TokenTick
  PROVE  IInv'
<1>1. tnow \in Nat /\ tnow' = tnow + 1 /\ UNCHANGED <<tokens, call, ended>>
  BY DEF IInv, TokensTypeOK, TokenTick
<1>2. ASSUME NEW e, Past(e) PROVE Past(e)'
  BY <1>1, <1>2 DEF Past
<1>3. TokensTypeOK'
  BY <1>1 DEF IInv, TokensTypeOK
<1>4. EndedOK'
  BY <1>1, <1>2 DEF IInv, EndedOK, Past
<1>5. ASSUME NEW c \in Callers PROVE RequestOK(c)'
  BY <1>1 DEF IInv, RequestOK, Past
<1>6. QED
  BY <1>3, <1>4, <1>5 DEF IInv

LEMMA InvStep == IInv /\ [TokensNext]_tokenVars => IInv'
<1> SUFFICES ASSUME IInv, [TokensNext]_tokenVars PROVE IInv'
  OBVIOUS
<1>1. CASE \E c \in Callers : TokenCall(c) \/ TokenWrite(c) \/ TokenAnswer(c)
  BY <1>1, CallInv, WriteInv, AnswerInv
<1>2. CASE TokenTick
  BY <1>2, TickInv
<1>3. CASE UNCHANGED tokenVars
  BY <1>3 DEF tokenVars, IInv, TokensTypeOK, EndedOK, RequestOK, Past
<1>4. QED
  BY <1>1, <1>2, <1>3 DEF TokensNext

LEMMA Invariance == TokensSpec => []IInv
  BY InvInit, InvStep, PTL DEF TokensSpec

-----------------------------------------------------------------------------
(* The theorems *)

\* The table of links and the requests under way are well-typed, whatever the
\* order in which the API's statements are executed.
THEOREM TokensTypeCorrect == TokensSpec => []TokensTypeOK
<1>1. IInv => TokensTypeOK
  BY DEF IInv
<1>2. QED
  BY <1>1, Invariance, PTL

\* validateToken never says "valid" of a row it read from a revoked link: the
\* time revokeToken wrote had come before the comparison (<=) was made.
THEOREM RevokedStaysClosed == TokensSpec => []NoRevokedLinkOpens
<1>1. IInv => NoRevokedLinkOpens
  BY DEF IInv, RequestOK, NoRevokedLinkOpens
<1>2. QED
  BY <1>1, Invariance, PTL

\* Links stay with their articles, and only a renewal carried out (updateToken)
\* opens a revoked one.
LEMMA ReopenStep == IInv /\ [TokensNext]_tokenVars => [LinksStay]_tokenVars
<1> SUFFICES ASSUME IInv, TokensNext, NEW t \in Tokens, tokens[t] # NoRow
    PROVE  /\ tokens'[t] # NoRow /\ tokens'[t].articleId = tokens[t].articleId
           /\ t \in ended /\ (tokens'[t].expiresAt = Unlimited \/ tokens'[t].expiresAt > tnow) =>
                \E c \in Callers : call[c] # NoCall /\ call[c].kind = "update" /\ call'[c] = NoCall
  BY DEF LinksStay
<1>1. TokensTypeOK /\ EndedOK /\ (\A c \in Callers : RequestOK(c)) /\ tnow \in Nat
  BY DEF IInv, TokensTypeOK
<1>2. ASSUME NEW e, Past(e) PROVE ~(e = Unlimited \/ e > tnow)
  BY <1>1, <1>2, TokensAssumption DEF Past
<1>3. t \in ended => ~(tokens[t].expiresAt = Unlimited \/ tokens[t].expiresAt > tnow)
  BY <1>1, <1>2 DEF EndedOK
<1>4. CASE tokens' = tokens
  BY <1>3, <1>4
<1>5. ASSUME NEW c \in Callers, GenerateTokenCreate(c)
      PROVE  tokens'[t] = tokens[t]
  <2>1. tokens[call[c].token] = NoRow
    BY <1>1, <1>5 DEF GenerateTokenCreate, RequestOK
  <2>2. QED
    BY <1>1, <1>5, <2>1 DEF GenerateTokenCreate, TokensTypeOK
<1>6. ASSUME NEW c \in Callers, UpdateTokenRun(c)
      PROVE  /\ tokens'[t] # NoRow /\ tokens'[t].articleId = tokens[t].articleId
             /\ call[c] # NoCall /\ call[c].kind = "update" /\ call'[c] = NoCall
  <2>1. /\ call[c] # NoCall /\ call[c].kind = "update" /\ Returns(c)
        /\ UpdateMany(call[c].row.articleId, call[c].row.expiresAt)
    BY <1>6 DEF UpdateTokenRun
  <2>2. call[c] \in Update
    BY <1>1, <2>1, UnderWay, Kinds
  <2>3. call[c].row.articleId \in LinkArticles /\ call[c].row.expiresAt \in Expiry
    BY <2>2 DEF Update, Row
  <2>4. tokens'[t] # NoRow /\ tokens'[t].articleId = tokens[t].articleId
    BY <1>1, <2>1, <2>3, UpdateManyRows
  <2>5. call'[c] = NoCall
    BY <1>1, <2>1 DEF Returns, TokensTypeOK
  <2>6. QED
    BY <2>1, <2>4, <2>5
<1>7. ASSUME NEW c \in Callers, RevokeTokenRun(c)
      PROVE  /\ tokens'[t] # NoRow /\ tokens'[t].articleId = tokens[t].articleId
             /\ t \in ended => ~(tokens'[t].expiresAt = Unlimited \/ tokens'[t].expiresAt > tnow)
  <2>1. /\ call[c] # NoCall /\ call[c].kind = "revoke"
        /\ UpdateMany(call[c].row.articleId, call[c].row.expiresAt)
    BY <1>7 DEF RevokeTokenRun
  <2>2. call[c] \in Revoke
    BY <1>1, <2>1, UnderWay, Kinds
  <2>3. /\ call[c].row.articleId \in LinkArticles /\ call[c].row.expiresAt \in Expiry
        /\ Past(call[c].row.expiresAt)
    BY <1>1, <2>1, <2>2 DEF Revoke, Row, RequestOK
  <2>4. /\ tokens'[t] # NoRow /\ tokens'[t].articleId = tokens[t].articleId
        /\ t \in Of(call[c].row.articleId) => tokens'[t].expiresAt = call[c].row.expiresAt
        /\ t \notin Of(call[c].row.articleId) => tokens'[t] = tokens[t]
    BY <1>1, <2>1, <2>3, UpdateManyRows
  <2>5. QED
    BY <1>2, <1>3, <2>3, <2>4
<1>8. \/ tokens' = tokens
      \/ \E c \in Callers : GenerateTokenCreate(c) \/ UpdateTokenRun(c) \/ RevokeTokenRun(c)
  BY DEF TokensNext, TokenCall, TokenWrite, TokenAnswer, TokenTick, Calls,
         GenerateTokenCall, UpdateTokenCall, RevokeTokenCall, ValidateTokenCall,
         ValidateTokenFind, ValidateTokenReply, TokenReplySent, TokenQueryFails
<1>9. QED
  BY <1>3, <1>4, <1>5, <1>6, <1>7, <1>8

THEOREM ReopenedByRenewal == TokensSpec => LinksReopenByRenewal
  BY Invariance, ReopenStep, PTL DEF TokensSpec, LinksReopenByRenewal

-----------------------------------------------------------------------------

(* The access modal *)

\* A request for a list is under way.
Sent(l) == lists[l] # None

\* A list that a mutation awaits is its own, and its only one.
AwaitedOK ==
  /\ \A l \in ListCalls : Sent(l) /\ lists[l].awaited =>
       mutation # None /\ mutation.at = "refreshing"
  /\ \A l, k \in ListCalls :
       Sent(l) /\ Sent(k) /\ lists[l].awaited /\ lists[k].awaited => l = k

\* No mutation was carried out that the page has not gone on from.
Fresh == mutation = None \/ mutation.at # "ok"

\* Unless excused: one list at most is on its way, for the article of the
\* modal and asked for by its author, and what was read for it, or is shown
\* after it, is what listGrants lists of what is stored.
Tidy ==
  /\ \A l, k \in ListCalls : Sent(l) /\ Sent(k) => l = k
  /\ modal # None => \A l \in ListCalls : Sent(l) => lists[l].article = modal
  /\ \A l \in ListCalls : Sent(l) => lists[l].mine
  /\ modal # None /\ Fresh /\ (\A l \in ListCalls : ~Sent(l)) => shown = Listed(modal)
  /\ modal # None /\ Fresh =>
       \A l \in ListCalls : Sent(l) /\ lists[l].rows # None => lists[l].rows = Listed(modal)

DashInv == DashTypeOK /\ AwaitedOK /\ (~excused => Tidy)

LEMMA NoRowsType == NoRows \in Rows
  BY DEF NoRows, Rows, Status

LEMMA ListedType ==
  ASSUME DashTypeOK, NEW a \in MyArticles
  PROVE  Listed(a) \in Rows
<1>1. grants[a] \in Rows
  BY DEF DashTypeOK
<1>2. QED
  BY <1>1 DEF Listed, Rows, Status

\* A list asked for takes a free place; unless excused, it is the only one and
\* for the article of the modal.
LEMMA AskedList ==
  ASSUME DashTypeOK, NEW a \in MyArticles, NEW awaited \in BOOLEAN, NEW m,
         Asks(a, awaited, m)
  PROVE  /\ \E l \in ListCalls :
              /\ lists[l] = None
              /\ lists'[l] # None /\ lists'[l].article = a
              /\ lists'[l].awaited = awaited /\ lists'[l].rows = None
              /\ ~excused' => lists'[l].mine
              /\ lists' \in [ListCalls -> ListCall \cup {None}]
              /\ \A k \in ListCalls : k # l => lists'[k] = lists[k]
         /\ excused' \in BOOLEAN
         /\ ~excused' => m = a /\ \A k \in ListCalls : lists[k] = None
<1> DEFINE l == CHOOSE l \in ListCalls : lists[l] = None
           new == [article |-> a, mine |-> mine, awaited |-> awaited, rows |-> None]
<1>1. l \in ListCalls /\ lists[l] = None
  BY DEF Asks
<1>2. /\ lists' = [lists EXCEPT ![l] = new]
      /\ excused' = (m # a \/ ~mine \/ \E other \in ListCalls : lists[other] # None)
  BY DEF Asks
<1>3. new \in ListCall /\ new # None
  BY NoneAssumption DEF ListCall, DashTypeOK
<1>4. lists \in [ListCalls -> ListCall \cup {None}]
  BY DEF DashTypeOK
<1>5. new.article = a /\ new.mine = mine /\ new.awaited = awaited /\ new.rows = None
  OBVIOUS
<1> HIDE DEF l, new
<1>6. /\ lists'[l] = new /\ lists' \in [ListCalls -> ListCall \cup {None}]
      /\ \A k \in ListCalls : k # l => lists'[k] = lists[k]
  BY <1>1, <1>2, <1>3, <1>4
<1>7. /\ excused' \in BOOLEAN
      /\ ~excused' => m = a /\ mine /\ \A k \in ListCalls : lists[k] = None
  BY <1>2
<1>8. QED
  BY <1>1, <1>3, <1>5, <1>6, <1>7

LEMMA DashInvInit == DashInit => DashInv
<1> SUFFICES ASSUME DashInit
             PROVE  DashInv
  OBVIOUS
<1>1. DashTypeOK
  BY NoRowsType DEF DashInit, DashTypeOK
<1>2. modal = None /\ \A l \in ListCalls : ~Sent(l)
  BY DEF DashInit, Sent
<1>3. QED
  BY <1>1, <1>2 DEF DashInv, AwaitedOK, Tidy

\* OpenModal, Refresh and MutationReplied.
LEMMA AsksInv ==
  ASSUME DashInv, NEW a \in MyArticles, NEW awaited \in BOOLEAN,
         Asks(a, awaited, modal'), grants' = grants, made' = made, mine' = mine,
         modal' \in MyArticles \cup {None}, viewer' \in Viewers \cup {None},
         shown' \in Rows, mutation' \in Mutation \cup {None},
         ~awaited => mutation' = mutation,
         awaited => /\ mutation # None /\ mutation.at = "ok"
                    /\ mutation' # None /\ mutation'.at = "refreshing"
  PROVE  DashInv'
<1>1. DashTypeOK /\ AwaitedOK
  BY DEF DashInv
<1>2. PICK l \in ListCalls :
        /\ lists[l] = None
        /\ lists'[l] # None /\ lists'[l].article = a
        /\ lists'[l].awaited = awaited /\ lists'[l].rows = None
        /\ ~excused' => lists'[l].mine
        /\ lists' \in [ListCalls -> ListCall \cup {None}]
        /\ \A k \in ListCalls : k # l => lists'[k] = lists[k]
  BY <1>1, AskedList
<1>3. /\ excused' \in BOOLEAN
      /\ ~excused' => modal' = a /\ \A k \in ListCalls : lists[k] = None
  BY <1>1, AskedList
<1>4. DashTypeOK'
  BY <1>1, <1>2, <1>3 DEF DashTypeOK
<1>5. awaited => \A k \in ListCalls : ~(Sent(k) /\ lists[k].awaited)
  BY <1>1 DEF AwaitedOK
<1>6. AwaitedOK'
  <2>1. ASSUME NEW k \in ListCalls, Sent(k)', lists'[k].awaited
        PROVE  mutation' # None /\ mutation'.at = "refreshing"
    BY <1>1, <1>2, <2>1 DEF AwaitedOK, Sent
  <2>2. ASSUME NEW k \in ListCalls, Sent(k)', lists'[k].awaited,
               NEW j \in ListCalls, Sent(j)', lists'[j].awaited
        PROVE  k = j
    BY <1>1, <1>2, <1>5, <2>2 DEF AwaitedOK, Sent
  <2>3. QED
    BY <2>1, <2>2 DEF AwaitedOK
<1>7. ~excused' => Tidy'
  BY <1>2, <1>3 DEF Tidy, Sent
<1>8. QED
  BY <1>4, <1>6, <1>7 DEF DashInv

\* ListArrives and ListFails: the request leaves its place, and the mutation
\* that awaited it ends.
LEMMA LeavesInv ==
  ASSUME DashInv, NEW l \in ListCalls, ListArrives(l) \/ ListFails(l)
  PROVE  DashInv'
<1>1. DashTypeOK /\ AwaitedOK
  BY DEF DashInv
<1>2. /\ Sent(l) /\ lists[l] \in ListCall
      /\ lists' = [lists EXCEPT ![l] = None]
      /\ mutation' = (IF lists[l].awaited THEN None ELSE mutation)
      /\ grants' = grants /\ made' = made /\ mine' = mine
      /\ modal' = modal /\ viewer' = viewer
  BY <1>1 DEF ListArrives, ListFails, Settles, Sent, DashTypeOK
<1>3. /\ lists' \in [ListCalls -> ListCall \cup {None}]
      /\ lists'[l] = None /\ ~Sent(l)'
      /\ \A k \in ListCalls : k # l => lists'[k] = lists[k] /\ (Sent(k)' <=> Sent(k))
  BY <1>1, <1>2 DEF DashTypeOK, Sent
<1>4. /\ mutation' \in Mutation \cup {None}
      /\ lists[l].awaited => mutation # None /\ mutation.at = "refreshing" /\ mutation' = None
      /\ ~lists[l].awaited => mutation' = mutation
  BY <1>1, <1>2 DEF DashTypeOK, AwaitedOK
<1>5. shown' \in Rows /\ excused' \in BOOLEAN
  <2>1. CASE ListArrives(l)
    BY <1>1, <1>2, <2>1 DEF ListArrives, DashTypeOK, ListCall
  <2>2. CASE ListFails(l)
    BY <1>1, <2>2 DEF ListFails, DashTypeOK
  <2>3. QED
    BY <2>1, <2>2
<1>6. DashTypeOK'
  BY <1>1, <1>2, <1>3, <1>4, <1>5 DEF DashTypeOK
<1>7. AwaitedOK'
  <2>1. ASSUME NEW k \in ListCalls, Sent(k)', lists'[k].awaited
        PROVE  k # l /\ Sent(k) /\ lists[k].awaited /\ mutation' = mutation
    BY <1>1, <1>2, <1>3, <1>4, <2>1 DEF AwaitedOK
  <2>2. QED
    BY <1>1, <2>1 DEF AwaitedOK
<1>8. ASSUME ~excused'
      PROVE  Tidy'
  <2>1. Tidy /\ ListArrives(l)
    BY <1>1, <1>8 DEF ListArrives, ListFails, DashInv
  <2>2. \A k \in ListCalls : ~Sent(k)'
    BY <1>2, <1>3, <2>1 DEF Tidy
  <2>3. Fresh' => Fresh
    BY <1>4 DEF Fresh
  <2>4. modal # None /\ Fresh => shown' = Listed(modal)
    BY <1>2, <2>1 DEF Tidy, ListArrives
  <2>5. Listed(modal)' = Listed(modal)
    BY <1>2 DEF Listed, OnTheList, Newer
  <2>6. QED
    BY <1>2, <2>2, <2>3, <2>4, <2>5 DEF Tidy
<1>9. QED
  BY <1>6, <1>7, <1>8 DEF DashInv

\* listGrants reads what is stored.
LEMMA ListReadInv ==
  ASSUME DashInv, NEW l \in ListCalls, ListRead(l)
  PROVE  DashInv'
<1>1. DashTypeOK /\ AwaitedOK
  BY DEF DashInv
<1> DEFINE rows == IF lists[l].mine THEN Listed(lists[l].article) ELSE NoRows
           new == [lists[l] EXCEPT !.rows = rows]
<1>2. /\ Sent(l) /\ lists[l] \in ListCall /\ lists' = [lists EXCEPT ![l] = new]
      /\ grants' = grants /\ made' = made /\ mine' = mine
      /\ modal' = modal /\ viewer' = viewer /\ shown' = shown
      /\ mutation' = mutation /\ excused' = excused
  BY <1>1 DEF ListRead, Sent, DashTypeOK
<1>3. rows \in Rows
  BY <1>1, <1>2, ListedType, NoRowsType DEF ListCall
<1>4. /\ new \in ListCall /\ new # None
      /\ new.article = lists[l].article /\ new.awaited = lists[l].awaited
      /\ new.mine = lists[l].mine
      /\ new.rows = rows
  <2> HIDE DEF rows
  <2> QED
    BY <1>2, <1>3, NoneAssumption DEF ListCall
<1> HIDE DEF new
<1>5. /\ lists' \in [ListCalls -> ListCall \cup {None}] /\ lists'[l] = new
      /\ \A k \in ListCalls : k # l => lists'[k] = lists[k]
  BY <1>1, <1>2, <1>4 DEF DashTypeOK
<1>6. \A k \in ListCalls : /\ Sent(k)' <=> Sent(k)
                           /\ Sent(k) => /\ lists'[k].awaited = lists[k].awaited
                                         /\ lists'[k].article = lists[k].article
                                         /\ lists'[k].mine = lists[k].mine
                                         /\ k = l \/ lists'[k].rows = lists[k].rows
  BY <1>2, <1>4, <1>5 DEF Sent
<1>7. DashTypeOK'
  BY <1>1, <1>2, <1>5 DEF DashTypeOK
<1>8. AwaitedOK'
  BY <1>1, <1>2, <1>6 DEF AwaitedOK
<1>9. ASSUME ~excused'
      PROVE  Tidy'
  <2>1. Tidy /\ (Fresh' <=> Fresh)
    BY <1>2, <1>9 DEF DashInv, Fresh
  <2>2. modal # None => rows = Listed(modal)
    BY <1>2, <2>1 DEF Tidy
  <2>3. lists'[l].rows = rows
    BY <1>4, <1>5
  <2>4. Listed(modal)' = Listed(modal)
    BY <1>2 DEF Listed, OnTheList, Newer
  <2> HIDE DEF rows
  <2>5. QED
    BY <1>2, <1>6, <2>1, <2>2, <2>3, <2>4 DEF Tidy
<1>10. QED
  BY <1>7, <1>8, <1>9 DEF DashInv

\* The steps that leave the lists alone: unless they excuse what is shown, or a
\* mutation was carried out and is not gone on from, they change neither what
\* is stored nor what is shown.
LEMMA QuietInv ==
  ASSUME DashInv, UNCHANGED lists, DashTypeOK',
         modal' \in {modal, None},
         mutation' = mutation \/ mutation = None \/ mutation.at # "refreshing",
         ~excused' => /\ ~excused /\ shown' = shown
                      /\ Fresh' => Fresh /\ grants' = grants /\ made' = made
  PROVE  DashInv'
<1>1. AwaitedOK
  BY DEF DashInv
<1>2. \A l \in ListCalls : Sent(l)' <=> Sent(l)
  BY DEF Sent
<1>3. AwaitedOK'
  BY <1>1, <1>2 DEF AwaitedOK
<1>4. ASSUME ~excused'
      PROVE  Tidy'
  <2>1. Tidy
    BY <1>4 DEF DashInv
  <2>2. modal' # None => modal' = modal
    OBVIOUS
  <2>3. Fresh' /\ modal' # None => Listed(modal)' = Listed(modal)
    BY <1>4, <2>2 DEF Listed, OnTheList, Newer
  <2>4. QED
    BY <1>2, <1>4, <2>1, <2>2, <2>3 DEF Tidy
<1>5. QED
  BY <1>3, <1>4 DEF DashInv

LEMMA WriteType ==
  ASSUME DashTypeOK, NEW a \in MyArticles, NEW v \in Viewers,
         NEW status \in {"active", "revoked"}, Write(a, v, status)
  PROVE  /\ grants' \in [MyArticles -> Rows]
         /\ made' \in [MyArticles -> [Viewers -> Nat]]
<1>1. /\ grants \in [MyArticles -> Rows] /\ grants[a] \in Rows
      /\ made \in [MyArticles -> [Viewers -> Nat]] /\ made[a] \in [Viewers -> Nat]
  BY DEF DashTypeOK
<1>2. [grants[a] EXCEPT ![v] = status] \in Rows
  BY <1>1 DEF Rows, Status
<1> DEFINE number == 1 + Cardinality({u \in Viewers : HasRow(a, u)})
<1>3. number \in Nat
  <2>1. IsFiniteSet({u \in Viewers : HasRow(a, u)})
    BY DashAssumption, FS_Subset
  <2>2. Cardinality({u \in Viewers : HasRow(a, u)}) \in Nat
    BY <2>1, FS_CardinalityType
  <2>3. QED
    BY <2>2
<1>4. made' = (IF HasRow(a, v) THEN made ELSE [made EXCEPT ![a][v] = number])
  BY DEF Write
<1> HIDE DEF number
<1>5. [made[a] EXCEPT ![v] = number] \in [Viewers -> Nat]
  BY <1>1, <1>3
<1>6. made' \in [MyArticles -> [Viewers -> Nat]]
  BY <1>1, <1>4, <1>5
<1>7. QED
  BY <1>1, <1>2, <1>6 DEF Write

LEMMA ExecutedType ==
  ASSUME DashTypeOK, mutation # None, Executed
  PROVE  /\ grants' \in [MyArticles -> Rows]
         /\ made' \in [MyArticles -> [Viewers -> Nat]]
<1>1. mutation.article \in MyArticles /\ mutation.viewer \in Viewers
  BY DEF DashTypeOK, Mutation
<1>2. \E status \in {"active", "revoked"} : Write(mutation.article, mutation.viewer, status)
  BY DEF Executed
<1>3. QED
  BY <1>1, <1>2, WriteType

LEMMA DashInvStep == DashInv /\ [DashNext]_dashVars => DashInv'
<1> SUFFICES ASSUME DashInv, [DashNext]_dashVars
             PROVE  DashInv'
  OBVIOUS
<1>1. DashTypeOK
  BY DEF DashInv
<1>2. mutation # None => /\ mutation \in Mutation /\ mutation.article \in MyArticles
                         /\ mutation.viewer \in Viewers
  BY <1>1 DEF DashTypeOK, Mutation
<1>3. ASSUME NEW a \in MyArticles, OpenModal(a)
      PROVE  DashInv'
  <2>1. /\ Asks(a, FALSE, modal') /\ grants' = grants /\ made' = made
        /\ mine' = mine /\ mutation' = mutation
        /\ modal' = a /\ viewer' = None /\ shown' \in Rows
    BY <1>3, NoRowsType DEF OpenModal
  <2>2. mutation' \in Mutation \cup {None}
    BY <1>1, <2>1 DEF DashTypeOK
  <2>3. QED
    BY <2>1, <2>2, AsksInv
<1>4. CASE Refresh
  <2>1. /\ Asks(modal, FALSE, modal') /\ grants' = grants /\ made' = made
        /\ mine' = mine /\ mutation' = mutation
        /\ modal' = modal /\ modal \in MyArticles /\ viewer' = viewer /\ shown' = shown
    BY <1>1, <1>4 DEF Refresh, DashTypeOK
  <2>2. mutation' \in Mutation \cup {None} /\ viewer' \in Viewers \cup {None} /\ shown' \in Rows
    BY <1>1, <2>1 DEF DashTypeOK
  <2>3. QED
    BY <2>1, <2>2, AsksInv
<1>5. CASE MutationReplied
  <2>1. /\ Asks(mutation.article, TRUE, modal')
        /\ grants' = grants /\ made' = made /\ mine' = mine
        /\ mutation # None /\ mutation.at = "ok"
        /\ mutation' = [mutation EXCEPT !.at = "refreshing"]
        /\ modal' = modal /\ shown' = shown
    BY <1>5 DEF MutationReplied, Reloads, isGrantBusy
  <2>2. viewer' \in Viewers \cup {None} /\ modal' \in MyArticles \cup {None} /\ shown' \in Rows
    BY <1>1, <1>5, <2>1 DEF MutationReplied, DashTypeOK
  <2>3. mutation' \in Mutation /\ mutation' # None /\ mutation'.at = "refreshing"
    BY <1>2, <2>1, NoneAssumption DEF Mutation
  <2>4. QED
    BY <1>2, <2>1, <2>2, <2>3, AsksInv
<1>6. CASE CloseModal
  BY <1>1, <1>6, QuietInv DEF CloseModal, DashTypeOK, Fresh
<1>7. CASE TypeViewer
  BY <1>1, <1>7, QuietInv DEF TypeViewer, DashTypeOK, Fresh
<1>8. ASSUME GrantAccess \/ \E v \in Viewers : RevokeAccess(v)
      PROVE  DashInv'
  <2>1. PICK v \in Viewers, kind \in {"create", "revoke"} :
          /\ modal # None /\ mutation = None
          /\ mutation' = [kind |-> kind, article |-> modal, viewer |-> v,
                          mine |-> mine, at |-> "sent"]
          /\ UNCHANGED <<grants, made, mine, modal, viewer, shown, lists, excused>>
    BY <1>1, <1>8, DashAssumption DEF GrantAccess, RevokeAccess, isGrantBusy, DashTypeOK
  <2>2. mutation' \in Mutation
    BY <1>1, <2>1 DEF DashTypeOK, Mutation
  <2>3. DashTypeOK'
    BY <1>1, <2>1, <2>2 DEF DashTypeOK
  <2>4. QED
    BY <2>1, <2>3, QuietInv DEF Fresh
<1>9. CASE MutationExecuted
  <2>1. /\ mutation # None /\ mutation.at = "sent"
        /\ mutation' = [mutation EXCEPT !.at = "ok"]
        /\ UNCHANGED <<mine, modal, viewer, shown, lists, excused>>
    BY <1>9 DEF MutationExecuted, isGrantBusy
  <2>2. grants' \in [MyArticles -> Rows] /\ made' \in [MyArticles -> [Viewers -> Nat]]
    BY <1>1, <1>9, <2>1, ExecutedType DEF MutationExecuted
  <2>3. mutation' \in Mutation /\ mutation'.at = "ok" /\ mutation' # None
    BY <1>2, <2>1, NoneAssumption DEF Mutation
  <2>4. DashTypeOK'
    BY <1>1, <2>1, <2>2, <2>3 DEF DashTypeOK
  <2>5. ~Fresh'
    BY <2>3 DEF Fresh
  <2>6. ~excused' => ~excused
    BY <2>1
  <2>7. QED
    BY <2>1, <2>4, <2>5, <2>6, QuietInv
<1>10. CASE MutationRefused
  <2>1. /\ mutation # None /\ mutation.at = "sent"
        /\ mutation' = [mutation EXCEPT !.at = "failed"]
        /\ UNCHANGED <<grants, made, mine, modal, viewer, shown, lists, excused>>
    BY <1>10 DEF MutationRefused, isGrantBusy
  <2>2. mutation' \in Mutation
    BY <1>2, <2>1 DEF Mutation
  <2>3. DashTypeOK'
    BY <1>1, <2>1, <2>2 DEF DashTypeOK
  <2>4. Fresh
    BY <2>1 DEF Fresh
  <2>5. QED
    BY <2>1, <2>3, <2>4, QuietInv
<1>11. CASE MutationFailed
  BY <1>1, <1>11, QuietInv DEF MutationFailed, Finally, DashTypeOK, Fresh
<1>12. CASE MutationLost
  <2>1. /\ mutation # None /\ mutation.at # "refreshing"
        /\ mutation' = None /\ excused' = TRUE
        /\ UNCHANGED <<mine, modal, viewer, shown, lists>>
    BY <1>12 DEF MutationLost, isGrantBusy
  <2>2. grants' \in [MyArticles -> Rows] /\ made' \in [MyArticles -> [Viewers -> Nat]]
    BY <1>1, <1>12, <2>1, ExecutedType DEF MutationLost, DashTypeOK
  <2>3. DashTypeOK'
    BY <1>1, <2>1, <2>2 DEF DashTypeOK
  <2>4. QED
    BY <2>1, <2>3, QuietInv
<1>13. CASE OtherTab
  <2>1. excused' = TRUE /\ UNCHANGED <<mine, modal, viewer, shown, lists, mutation>>
    BY <1>13 DEF OtherTab
  <2>2. grants' \in [MyArticles -> Rows] /\ made' \in [MyArticles -> [Viewers -> Nat]]
    BY <1>1, <1>13, WriteType, DashAssumption DEF OtherTab
  <2>3. DashTypeOK'
    BY <1>1, <2>1, <2>2 DEF DashTypeOK
  <2>4. QED
    BY <2>1, <2>3, QuietInv
<1>14. ASSUME NEW l \in ListCalls, ListProgress(l) \/ ListFails(l)
       PROVE  DashInv'
  BY <1>14, ListReadInv, LeavesInv DEF ListProgress
<1>15. CASE UNCHANGED dashVars
  BY <1>1, <1>15, QuietInv DEF dashVars, DashTypeOK, Fresh
<1>16. CASE OtherAccount
  BY <1>1, <1>16, QuietInv DEF OtherAccount, DashTypeOK, Fresh
<1>17. QED
  BY <1>3, <1>4, <1>5, <1>6, <1>7, <1>8, <1>9, <1>10, <1>11, <1>12, <1>13, <1>14, <1>15, <1>16
  DEF DashNext, DashAuthor, MutationProgress

-----------------------------------------------------------------------------
(* The lists of the dashboard *)

\* The run that has not been cancelled is for the connected wallet; and until
\* its public list has come the page loads, as it shows an error or says it
\* missed the list when that has not come.
LatestOK ==
  /\ latest # NoOne
  /\ loads[latest] # NoOne => loads[latest].wallet = account
  /\ ~board.missed => \/ board.data = account
                      \/ board.error
                      \/ /\ board.isLoading
                         /\ loads[latest] # NoOne /\ loads[latest].at = "public"

ListsInv == /\ ListsTypeOK
            /\ account = NoOne => latest = NoOne
            /\ account # NoOne => LatestOK

LEMMA NewBoardType == NewBoard \in Board
  BY DEF NewBoard, Board, Owner

LEMMA ListsInvInit == ListsInit => ListsInv
  BY NewBoardType, ListsAssumption DEF ListsInit, ListsInv, ListsTypeOK, Owner

\* MountBoard and ChangeAccount.
LEMMA RunListsInv ==
  ASSUME ListsInv, NEW w \in DashWallets, NEW b \in Board, RunLists(w, b),
         account' = w, bearer' = bearer, accounts' \in 0..MaxAccounts
  PROVE  ListsInv'
<1>1. PICK l \in Loads :
        /\ loads[l] = NoOne
        /\ loads' = [loads EXCEPT ![l] = [wallet |-> w, at |-> "public", sentAs |-> NoOne]]
        /\ latest' = l
        /\ board' = [b EXCEPT !.isLoading = TRUE, !.error = FALSE, !.missed = FALSE]
  BY DEF RunLists
<1> DEFINE new == [wallet |-> w, at |-> "public", sentAs |-> NoOne]
<1>2. new \in Load /\ new # NoOne /\ new.wallet = w /\ new.at = "public"
  BY NoOneAssumption DEF Load, Owner
<1>3. loads' = [loads EXCEPT ![l] = new]
  BY <1>1
<1> HIDE DEF new
<1>4. loads' \in [Loads -> Load \cup {NoOne}] /\ loads'[l] = new
  BY <1>2, <1>3 DEF ListsInv, ListsTypeOK
<1>5. board' \in Board /\ board'.isLoading = TRUE
  BY <1>1 DEF Board
<1>6. ListsTypeOK' /\ account' # NoOne
  BY <1>1, <1>4, <1>5, ListsAssumption DEF ListsInv, ListsTypeOK, Owner
<1>7. latest' # NoOne
  BY <1>1, ListsAssumption
<1>8. QED
  BY <1>1, <1>2, <1>4, <1>5, <1>6, <1>7 DEF ListsInv, LatestOK

\* A run goes on or ends: one that was cancelled leaves the board alone.
LEMMA ApplyInv ==
  ASSUME ListsInv, NEW l \in Loads, loads[l] # NoOne,
         NEW new \in Load \cup {NoOne}, NEW b \in Board,
         loads' = [loads EXCEPT ![l] = new], AppliesTo(l, b),
         new # NoOne => new.wallet = loads[l].wallet /\ new.at = "mine",
         UNCHANGED <<account, bearer, latest, accounts>>,
         \/ b.missed
         \/ b.error
         \/ ~b.missed /\ ~board.missed /\ b.data = board.data /\ b.error = board.error
              /\ loads[l].at = "mine"
         \/ b.data = loads[l].wallet
  PROVE  ListsInv'
<1>1. loads' \in [Loads -> Load \cup {NoOne}] /\ loads'[l] = new
        /\ \A k \in Loads : k # l => loads'[k] = loads[k]
  BY DEF ListsInv, ListsTypeOK
<1>2. board' = IF latest = l THEN b ELSE board
  BY DEF AppliesTo, LatestLoad
<1>3. ListsTypeOK'
  BY <1>1, <1>2 DEF ListsInv, ListsTypeOK
<1>4. ASSUME account' # NoOne PROVE LatestOK'
  <2>1. LatestOK /\ latest' = latest /\ account' = account /\ latest \in Loads
    BY <1>4 DEF ListsInv, ListsTypeOK, LatestOK
  <2>2. CASE latest = l
    BY <1>1, <1>2, <2>1, <2>2 DEF LatestOK
  <2>3. CASE latest # l
    BY <1>1, <1>2, <2>1, <2>3 DEF LatestOK
  <2>4. QED
    BY <2>2, <2>3
<1>5. QED
  BY <1>3, <1>4 DEF ListsInv

LEMMA LoadInv ==
  ASSUME ListsInv, NEW l \in Loads, LoadProgress(l)
  PROVE  ListsInv'
<1>1. /\ loads \in [Loads -> Load \cup {NoOne}] /\ board \in Board /\ bearer \in Owner
      /\ loads[l] # NoOne /\ loads[l] \in Load
  BY DEF ListsInv, ListsTypeOK, LoadProgress, PublicArrives, MineArrives, LoadFails
<1>2. /\ loads[l].wallet \in Owner /\ loads[l].sentAs \in Owner
      /\ loads[l].at \in {"public", "mine"}
  BY <1>1 DEF Load, Owner
<1>3. CASE PublicArrives(l)
  <2> DEFINE new == [loads[l] EXCEPT !.at = "mine", !.sentAs = bearer]
             shown1 == [board EXCEPT !.data = loads[l].wallet]
             shown2 == [board EXCEPT !.missed = TRUE]
  <2>1. /\ loads' = [loads EXCEPT ![l] = new]
        /\ UNCHANGED <<account, bearer, latest, accounts>>
    BY <1>1, <1>3 DEF PublicArrives, NextRequest
  <2>2. new \in Load /\ new.wallet = loads[l].wallet /\ new.at = "mine"
    BY <1>1 DEF Load
  <2>3. /\ shown1 \in Board /\ shown1.data = loads[l].wallet
        /\ shown2 \in Board /\ shown2.missed
    BY <1>1, <1>2 DEF Board
  <2>4. AppliesTo(l, shown1) \/ AppliesTo(l, shown2)
    BY <1>3 DEF PublicArrives
  <2> HIDE DEF new, shown1, shown2
  <2>5. QED
    BY <1>1, <2>1, <2>2, <2>3, <2>4, ApplyInv
<1>4. CASE MineArrives(l)
  <2> DEFINE b == [board EXCEPT !.dbArticles = loads[l].sentAs, !.isLoading = FALSE]
  <2>1. /\ loads' = [loads EXCEPT ![l] = NoOne] /\ AppliesTo(l, b) /\ loads[l].at = "mine"
        /\ UNCHANGED <<account, bearer, latest, accounts>>
    BY <1>4 DEF MineArrives, Leaves
  <2>2. /\ b \in Board /\ b.data = board.data /\ b.error = board.error
        /\ b.missed = board.missed
    BY <1>1, <1>2 DEF Board
  <2>3. NoOne \in Load \cup {NoOne}
    OBVIOUS
  <2> HIDE DEF b
  <2>4. CASE board.missed
    BY <1>1, <2>1, <2>2, <2>3, <2>4, ApplyInv
  <2>5. CASE ~board.missed
    BY <1>1, <2>1, <2>2, <2>3, <2>5, ApplyInv
  <2>6. QED
    BY <2>4, <2>5
<1>5. CASE LoadFails(l)
  <2>1. /\ loads' = [loads EXCEPT ![l] = NoOne] /\ AppliesTo(l, CaughtLoad(l))
        /\ UNCHANGED <<account, bearer, latest, accounts>>
    BY <1>5 DEF LoadFails, Leaves
  <2>2. CaughtLoad(l) \in Board /\ CaughtLoad(l).error
    BY <1>1 DEF CaughtLoad, Board
  <2>3. NoOne \in Load \cup {NoOne}
    OBVIOUS
  <2>4. QED
    BY <1>1, <2>1, <2>2, <2>3, ApplyInv
<1>6. QED
  BY <1>3, <1>4, <1>5 DEF LoadProgress

LEMMA ListsInvStep == ListsInv /\ [ListsNext]_listVars => ListsInv'
<1> SUFFICES ASSUME ListsInv, [ListsNext]_listVars
             PROVE  ListsInv'
  OBVIOUS
<1>1. ListsTypeOK
  BY DEF ListsInv
<1>2. ASSUME NEW w \in DashWallets, MountBoard(w) \/ ChangeAccount(w)
      PROVE  ListsInv'
  <2>1. PICK b \in Board : RunLists(w, b)
    BY <1>1, <1>2, NewBoardType DEF MountBoard, ChangeAccount, ListsTypeOK
  <2>2. account' = w /\ bearer' = bearer /\ accounts' \in 0..MaxAccounts
    BY <1>1, <1>2, ListsAssumption DEF MountBoard, ChangeAccount, ListsTypeOK
  <2>3. QED
    BY <2>1, <2>2, RunListsInv
<1>3. CASE UnmountBoard
  BY <1>1, <1>3, NewBoardType DEF UnmountBoard, ListsInv, ListsTypeOK, Owner
<1>4. ASSUME NEW w \in Owner, TokenChanges(w)
      PROVE  ListsInv'
  BY <1>4 DEF TokenChanges, ListsInv, ListsTypeOK, LatestOK
<1>5. ASSUME NEW l \in Loads, LoadProgress(l)
      PROVE  ListsInv'
  BY <1>5, LoadInv
<1>6. CASE UNCHANGED listVars
  BY <1>6 DEF listVars, ListsInv, ListsTypeOK, LatestOK
<1>7. QED
  BY <1>2, <1>3, <1>4, <1>5, <1>6 DEF ListsNext

-----------------------------------------------------------------------------
(* The page of a private article *)

\* A run that was given a challenge and has no answer to its claim.
Challenged(run) == \/ run.at = "challenge" /\ run.reply = 200
                   \/ run.at = "sign"
                   \/ run.at = "claim" /\ run.reply = Nobody

\* Its challenge, unless disturbed, is the one the API holds for its wallet.
HoldsChallenge(r) ==
  runs[r] # Nobody /\ Challenged(runs[r]) /\ ~runs[r].disturbed =>
    runs[r].sentAs \in Readers /\ keyCh[runs[r].sentAs] = r

Honest(run) == /\ run.at = "claim" /\ ~run.disturbed
               /\ run.wallet = run.sentAs /\ run.signer = run.sentAs

RunOK(r) == /\ HoldsChallenge(r)
            /\ runs[r] # Nobody /\ Honest(runs[r]) => runs[r].reply \notin {400, 401}

\* The run that is not cancelled is for the connected account.
OpenOK == /\ connectedAs = Nobody => open = Nobody
          /\ connectedAs # Nobody /\ open # Nobody /\ runs[open] # Nobody =>
               runs[open].wallet = connectedAs

\* A nonce the API holds is that of a run that goes on, or marked as stale.
NonceOK == \A w \in Readers : keyCh[w] \in ReaderRuns => runs[keyCh[w]] # Nobody

ReaderInv == /\ ReaderTypeOK
             /\ OpenOK
             /\ NonceOK
             /\ VerdictIsForThisAccount
             /\ \A r \in ReaderRuns : RunOK(r)

LEMMA NewPageType == NewPage \in Page
  BY DEF NewPage, Page, ErrorKind, Whom

LEMMA AskingType ==
  ASSUME NEW run \in Run, NEW request \in Requests, tokenOf \in Whom
  PROVE  /\ Asking(run, request) \in Run
         /\ Asking(run, request).at = request
         /\ Asking(run, request).wallet = run.wallet
         /\ Asking(run, request).sentAs = tokenOf
         /\ Asking(run, request).reply = Nobody
         /\ Asking(run, request).disturbed = run.disturbed
  BY DEF Asking, Run

LEMMA NewRunType ==
  ASSUME NEW w \in Readers, tokenOf \in Whom
  PROVE  NewRun(w) \in Run /\ NewRun(w).wallet = w /\ NewRun(w).at = "meta"
<1> DEFINE run == [wallet |-> w, at |-> "meta", sentAs |-> Nobody, reply |-> Nobody,
                   signer |-> Nobody, disturbed |-> FALSE]
<1>1. run \in Run /\ run.wallet = w
  BY DEF Run, Requests, Whom
<1>2. "meta" \in Requests /\ NewRun(w) = Asking(run, "meta")
  BY DEF Requests, NewRun
<1> HIDE DEF run
<1>3. QED
  BY <1>1, <1>2, AskingType

LEMMA ReaderInvInit == ReaderInit => ReaderInv
<1> SUFFICES ASSUME ReaderInit
             PROVE  ReaderInv
  OBVIOUS
<1>1. ReaderTypeOK
  BY NewPageType, ReaderAssumption DEF ReaderInit, ReaderTypeOK, Whom
<1>2. QED
  BY <1>1, ReaderAssumption
  DEF ReaderInit, ReaderInv, OpenOK, NonceOK, VerdictIsForThisAccount, RunOK, HoldsChallenge

\* A run is changed in one place: what the invariant asks of a step of run r
\* that makes it run (Nobody when it ends) and shows p, if the run is open.
LEMMA RunStepInv ==
  ASSUME ReaderInv, NEW r \in ReaderRuns, runs[r] # Nobody,
         NEW run \in Run \cup {Nobody}, NEW p \in Page,
         runs' = [runs EXCEPT ![r] = run], Applies(r, p),
         run # Nobody => run.wallet = runs[r].wallet,
         (p.uiError = page.uiError /\ p.told = page.told) \/ p.told = runs[r].wallet,
         keyCh' \in [Readers -> ReaderRuns \cup {Stale, Nobody}],
         \A w \in Readers : keyCh[w] \in ReaderRuns /\ keyCh[w] # r => keyCh'[w] = keyCh[w],
         \A w \in Readers : keyCh'[w] \in ReaderRuns =>
           keyCh'[w] = keyCh[w] /\ (run = Nobody => keyCh'[w] # r),
         RunOK(r)',
         UNCHANGED <<article, access, tab, open>>
  PROVE  ReaderInv'
<1>1. ReaderTypeOK /\ OpenOK /\ VerdictIsForThisAccount /\ \A s \in ReaderRuns : RunOK(s)
  BY DEF ReaderInv
<1>2. /\ runs' \in [ReaderRuns -> Run \cup {Nobody}] /\ runs'[r] = run
      /\ \A s \in ReaderRuns : s # r => runs'[s] = runs[s]
  BY <1>1 DEF ReaderTypeOK
<1>3. page' = IF open = r THEN p ELSE page
  BY DEF Applies, IsOpen
<1>4. connectedAs' = connectedAs /\ tokenOf' = tokenOf /\ switches' = switches
  BY DEF tab
<1>5. ReaderTypeOK'
  BY <1>1, <1>2, <1>3, <1>4 DEF ReaderTypeOK
<1>6. OpenOK'
  BY <1>1, <1>2, <1>4 DEF OpenOK, ReaderTypeOK
<1>7. VerdictIsForThisAccount'
  <2>1. CASE open = r
    <3>1. connectedAs # Nobody => runs[r].wallet = connectedAs
      BY <1>1, <2>1, ReaderAssumption DEF OpenOK
    <3>2. QED
      BY <1>1, <1>3, <1>4, <2>1, <3>1 DEF VerdictIsForThisAccount
  <2>2. CASE open # r
    BY <1>1, <1>3, <1>4, <2>2 DEF VerdictIsForThisAccount
  <2>3. QED
    BY <2>1, <2>2
<1>8. ASSUME NEW s \in ReaderRuns, s # r
      PROVE  RunOK(s)'
  <2>1. RunOK(s) /\ runs'[s] = runs[s]
    BY <1>1, <1>2, <1>8
  <2>2. QED
    BY <1>8, <2>1 DEF RunOK, HoldsChallenge
<1>9. NonceOK'
  BY <1>1, <1>2 DEF NonceOK, ReaderInv
<1>10. QED
  BY <1>5, <1>6, <1>7, <1>8, <1>9 DEF ReaderInv

\* A run that is neither given a challenge nor claims anything.
LEMMA Harmless ==
  ASSUME NEW r, \/ runs'[r] = Nobody
                \/ /\ runs'[r].at # "sign" /\ runs'[r].at # "claim"
                   /\ runs'[r].at = "challenge" => runs'[r].reply # 200
  PROVE  RunOK(r)'
  BY DEF RunOK, HoldsChallenge, Challenged, Honest

\* A run ends: its nonce, if the API still holds it, is nobody's.
LEMMA GoneInv ==
  ASSUME ReaderInv, NEW r \in ReaderRuns, runs[r] # Nobody, NEW p \in Page,
         Applies(r, p), Gone(r),
         (p.uiError = page.uiError /\ p.told = page.told) \/ p.told = runs[r].wallet
  PROVE  ReaderInv'
<1>1. keyCh \in [Readers -> ReaderRuns \cup {Stale, Nobody}]
      /\ runs \in [ReaderRuns -> Run \cup {Nobody}]
  BY DEF ReaderInv, ReaderTypeOK
<1>2. /\ runs' = [runs EXCEPT ![r] = Nobody]
      /\ keyCh' = [w \in Readers |-> IF keyCh[w] = r THEN Stale ELSE keyCh[w]]
      /\ UNCHANGED <<article, access, tab, open>>
  BY DEF Gone
<1>3. /\ keyCh' \in [Readers -> ReaderRuns \cup {Stale, Nobody}]
      /\ \A w \in Readers : keyCh[w] \in ReaderRuns /\ keyCh[w] # r => keyCh'[w] = keyCh[w]
      /\ \A w \in Readers : keyCh'[w] \in ReaderRuns => keyCh'[w] = keyCh[w] /\ keyCh'[w] # r
      /\ runs'[r] = Nobody
  BY <1>1, <1>2, ReaderAssumption
<1>4. RunOK(r)'
  BY <1>3, Harmless
<1>5. QED
  BY <1>2, <1>3, <1>4, RunStepInv

LEMMA VerdictInv ==
  ASSUME ReaderInv, NEW r \in ReaderRuns, runs[r] # Nobody,
         NEW kind \in ErrorKind, Verdict(r, kind)
  PROVE  ReaderInv'
<1> DEFINE p == Settled([page EXCEPT !.uiError = kind, !.told = runs[r].wallet])
<1>1. page \in Page /\ runs[r].wallet \in Readers
  BY DEF ReaderInv, ReaderTypeOK, Run
<1>2. p \in Page /\ p.told = runs[r].wallet
  BY <1>1 DEF Settled, Page, Whom
<1>3. Applies(r, p) /\ Gone(r)
  BY DEF Verdict
<1> HIDE DEF p
<1>4. QED
  BY <1>2, <1>3, GoneInv

\* Mounts and changes of account start a run, in a place that is free.
LEMMA StartInv ==
  ASSUME ReaderInv, NEW w \in Readers, NEW q \in Page, StartRun(w, q),
         connectedAs' = w, switches' \in 0..MaxSwitches,
         UNCHANGED <<server, tokenOf>>
  PROVE  ReaderInv'
<1>1. ReaderTypeOK /\ \A s \in ReaderRuns : RunOK(s)
  BY DEF ReaderInv
<1>2. PICK r \in ReaderRuns :
        /\ runs[r] = Nobody
        /\ runs' = [runs EXCEPT ![r] = NewRun(w)]
        /\ open' = r
        /\ page' = [q EXCEPT !.isLoading = TRUE, !.uiError = "none"]
  BY DEF StartRun
<1>3. NewRun(w) \in Run /\ NewRun(w).wallet = w /\ NewRun(w).at = "meta"
  BY <1>1, NewRunType DEF ReaderTypeOK
<1>4. page' \in Page /\ page'.uiError = "none"
  BY <1>2 DEF Page, ErrorKind
<1>5. /\ runs' \in [ReaderRuns -> Run \cup {Nobody}] /\ runs'[r] = NewRun(w)
      /\ \A s \in ReaderRuns : s # r => runs'[s] = runs[s]
  BY <1>1, <1>2, <1>3 DEF ReaderTypeOK
<1>6. article' = article /\ access' = access /\ keyCh' = keyCh /\ tokenOf' = tokenOf
  BY DEF server
<1>7. ReaderTypeOK'
  BY <1>1, <1>2, <1>4, <1>5, <1>6 DEF ReaderTypeOK, Whom
<1>8. OpenOK' /\ VerdictIsForThisAccount'
  BY <1>2, <1>3, <1>4, <1>5, ReaderAssumption DEF OpenOK, VerdictIsForThisAccount
<1>9. ASSUME NEW s \in ReaderRuns PROVE RunOK(s)'
  <2>1. CASE s = r
    BY <1>3, <1>5, <2>1, Harmless
  <2>2. CASE s # r
    BY <1>1, <1>5, <1>6, <2>2 DEF RunOK, HoldsChallenge
  <2>3. QED
    BY <2>1, <2>2
<1>10. NonceOK'
  BY <1>3, <1>5, <1>6, NobodyAssumption DEF NonceOK, ReaderInv
<1>11. QED
  BY <1>7, <1>8, <1>9, <1>10 DEF ReaderInv

\* A run goes on with the page's next request or with the wallet's prompt.
LEMMA ContinuesInv ==
  ASSUME ReaderInv, NEW r \in ReaderRuns, runs[r] # Nobody,
         NEW run \in Run, NEW p \in Page, Continues(r, run, p),
         run.wallet = runs[r].wallet,
         p.uiError = page.uiError /\ p.told = page.told,
         RunOK(r)'
  PROVE  ReaderInv'
<1>1. /\ runs' = [runs EXCEPT ![r] = run] /\ Applies(r, p)
      /\ UNCHANGED <<article, access, tab, open>> /\ keyCh' = keyCh
  BY DEF Continues, server
<1>2. keyCh \in [Readers -> ReaderRuns \cup {Stale, Nobody}] /\ run # Nobody
  BY NobodyAssumption DEF ReaderInv, ReaderTypeOK
<1>3. QED
  BY <1>1, <1>2, RunStepInv

LEMMA PageInv ==
  ASSUME ReaderInv, NEW r \in ReaderRuns, PageStep(r) \/ Prompt(r)
  PROVE  ReaderInv'
<1>1. /\ ReaderTypeOK /\ tokenOf \in Whom /\ page \in Page /\ RunOK(r)
      /\ runs \in [ReaderRuns -> Run \cup {Nobody}]
  BY DEF ReaderInv, ReaderTypeOK
<1>2. runs[r] # Nobody /\ runs[r] \in Run /\ runs[r].wallet \in Readers
  BY <1>1 DEF PageStep, Prompt, Refused, MetaArrives, ChallengeArrives, ClaimArrives,
              UploadArrives, Throws, Signs, Declines, Answered, Run
<1>3. ASSUME NEW kind \in ErrorKind, Verdict(r, kind)
      PROVE  ReaderInv'
  BY <1>2, <1>3, VerdictInv
<1>4. CASE Refused(r)
  <2>1. KindOf(runs[r].at, runs[r].reply) \in ErrorKind
    BY DEF KindOf, ErrorKind
  <2>2. QED
    BY <1>3, <1>4, <2>1 DEF Refused
<1>5. CASE MetaArrives(r)
  <2> DEFINE run == Asking(runs[r], "challenge")
             p == [page EXCEPT !.title = TRUE]
  <2>1. run \in Run /\ run.at = "challenge" /\ run.wallet = runs[r].wallet /\ run.reply = Nobody
    BY <1>1, <1>2, AskingType DEF Requests
  <2>2. p \in Page /\ p.uiError = page.uiError /\ p.told = page.told
    BY <1>1 DEF Page
  <2>3. Continues(r, run, p)
    BY <1>5 DEF MetaArrives
  <2> HIDE DEF run, p
  <2>4. runs'[r] = run /\ run.reply # 200
    BY <1>1, <2>1, <2>3, NobodyAssumption DEF Continues, Replies
  <2>5. RunOK(r)'
    BY <2>1, <2>4, Harmless
  <2>6. QED
    BY <1>2, <2>1, <2>2, <2>3, <2>5, ContinuesInv
<1>6. CASE ChallengeArrives(r)
  <2> DEFINE run == [runs[r] EXCEPT !.at = "sign", !.reply = Nobody]
  <2>1. /\ run \in Run /\ run.at = "sign" /\ run.wallet = runs[r].wallet
        /\ run.sentAs = runs[r].sentAs /\ run.disturbed = runs[r].disturbed
    BY <1>2 DEF Run
  <2>2. Continues(r, run, page) /\ Challenged(runs[r])
    BY <1>6 DEF ChallengeArrives, Answered, Challenged
  <2> HIDE DEF run
  <2>3. runs'[r] = run /\ keyCh' = keyCh
    BY <1>1, <2>1, <2>2 DEF Continues, server
  <2>4. RunOK(r)'
    BY <1>1, <1>2, <2>1, <2>2, <2>3 DEF RunOK, HoldsChallenge, Honest
  <2>5. QED
    BY <1>1, <1>2, <2>1, <2>2, <2>4, ContinuesInv
<1>7. CASE Signs(r)
  <2>1. PICK w \in Readers :
          Continues(r, [Asking(runs[r], "claim") EXCEPT
                          !.signer = w, !.disturbed = @ \/ tokenOf # runs[r].sentAs], page)
    BY <1>7 DEF Signs
  <2> DEFINE ask == Asking(runs[r], "claim")
             run == [ask EXCEPT !.signer = w,
                                !.disturbed = ask.disturbed \/ tokenOf # runs[r].sentAs]
  <2>2. /\ ask \in Run /\ ask.at = "claim" /\ ask.wallet = runs[r].wallet
        /\ ask.sentAs = tokenOf /\ ask.reply = Nobody /\ ask.disturbed = runs[r].disturbed
    BY <1>1, <1>2, AskingType DEF Requests
  <2>3. Continues(r, run, page)
    BY <2>1
  <2> HIDE DEF ask
  <2>4. /\ run \in Run /\ run.at = "claim" /\ run.wallet = runs[r].wallet
        /\ run.sentAs = tokenOf /\ run.reply = Nobody
        /\ ~run.disturbed => ~runs[r].disturbed /\ tokenOf = runs[r].sentAs
    BY <2>2 DEF Run, Whom
  <2> HIDE DEF run
  <2>5. runs'[r] = run /\ keyCh' = keyCh /\ runs[r].at = "sign"
    BY <1>1, <1>7, <2>3, <2>4 DEF Continues, server, Signs
  <2>6. ~run.disturbed => run.sentAs \in Readers /\ keyCh[run.sentAs] = r
    BY <1>1, <1>2, <2>4, <2>5 DEF RunOK, HoldsChallenge, Challenged
  <2>7. run.reply \notin {400, 401}
    BY <2>4, NobodyAssumption DEF Replies
  <2>8. RunOK(r)'
    BY <2>5, <2>6, <2>7 DEF RunOK, HoldsChallenge
  <2>9. QED
    BY <1>1, <1>2, <2>3, <2>4, <2>8, ContinuesInv
<1>8. CASE Declines(r)
  BY <1>3, <1>8 DEF Declines, ErrorKind
<1>9. CASE ClaimArrives(r)
  <2> DEFINE new == NewRun(runs[r].wallet)
             run == [new EXCEPT !.at = "upload", !.sentAs = Nobody]
  <2>1. new \in Run /\ new.wallet = runs[r].wallet
    BY <1>1, <1>2, NewRunType
  <2> HIDE DEF new
  <2>2. run \in Run /\ run.at = "upload" /\ run.wallet = runs[r].wallet
    BY <2>1 DEF Run, Requests, Whom
  <2>3. Continues(r, run, page)
    BY <1>9 DEF ClaimArrives, new
  <2> HIDE DEF run
  <2>4. runs'[r] = run
    BY <1>1, <2>2, <2>3 DEF Continues
  <2>5. RunOK(r)'
    BY <2>2, <2>4, Harmless
  <2>6. QED
    BY <1>1, <1>2, <2>2, <2>3, <2>5, ContinuesInv
<1>10. CASE UploadArrives(r)
  <2> DEFINE p == Settled([page EXCEPT !.content = TRUE])
  <2>1. p \in Page /\ p.uiError = page.uiError /\ p.told = page.told
    BY <1>1 DEF Settled, Page
  <2>2. (Applies(r, p) /\ Gone(r)) \/ Verdict(r, "unknown")
    BY <1>10 DEF UploadArrives
  <2> HIDE DEF p
  <2>3. QED
    BY <1>2, <1>3, <2>1, <2>2, GoneInv DEF ErrorKind
<1>11. CASE Throws(r)
  BY <1>3, <1>11 DEF Throws, ErrorKind
<1>12. QED
  BY <1>4, <1>5, <1>6, <1>7, <1>8, <1>9, <1>10, <1>11 DEF PageStep, Prompt

LEMMA AnswerStep ==
  ASSUME ReaderInv, NEW r \in ReaderRuns, runs[r] # Nobody, NEW run \in Run,
         runs' = [runs EXCEPT ![r] = run], run.wallet = runs[r].wallet,
         keyCh' \in [Readers -> ReaderRuns \cup {Stale, Nobody}],
         \A w \in Readers : keyCh[w] \in ReaderRuns /\ keyCh[w] # r => keyCh'[w] = keyCh[w],
         \A w \in Readers : keyCh'[w] \in ReaderRuns => keyCh'[w] = keyCh[w],
         RunOK(r)', UNCHANGED serverRest
  PROVE  ReaderInv'
<1>1. /\ article' = article /\ access' = access /\ tab' = tab /\ open' = open
      /\ page' = page
  BY DEF serverRest
<1>2. page \in Page /\ run # Nobody /\ Applies(r, page)
  BY <1>1, NobodyAssumption DEF ReaderInv, ReaderTypeOK, Applies
<1>3. QED
  BY <1>1, <1>2, RunStepInv

\* An answer of the API to a run's request; the nonces it held may be spent,
\* the run's own only.
LEMMA ReplyInv ==
  ASSUME ReaderInv, NEW r \in ReaderRuns, runs[r] # Nobody,
         NEW status \in Replies, Reply(r, status),
         keyCh' \in [Readers -> ReaderRuns \cup {Stale, Nobody}],
         \A w \in Readers : keyCh'[w] = keyCh[w] \/ (keyCh[w] = r /\ keyCh'[w] = Nobody),
         UNCHANGED serverRest,
         runs[r].at # "sign",
         runs[r].at = "challenge" => status # 200,
         runs[r].at = "claim" /\ Honest(runs[r]) => status \notin {400, 401}
  PROVE  ReaderInv'
<1>1. /\ runs \in [ReaderRuns -> Run \cup {Nobody}] /\ page \in Page
      /\ runs[r] \in Run
  BY DEF ReaderInv, ReaderTypeOK
<1> DEFINE run == [runs[r] EXCEPT !.reply = status]
<1>2. /\ run \in Run /\ run.wallet = runs[r].wallet /\ run.at = runs[r].at
      /\ run.reply = status /\ (Honest(run) => Honest(runs[r])) /\ run # Nobody
  BY <1>1, NobodyAssumption DEF Run, Honest
<1>3. runs' = [runs EXCEPT ![r] = run]
  BY <1>1 DEF Reply
<1> HIDE DEF run
<1>4. runs'[r] = run /\ status # Nobody
  BY <1>1, <1>2, <1>3, NobodyAssumption
<1>5. RunOK(r)'
  <2>1. ~Challenged(run)
    BY <1>2, <1>4 DEF Challenged
  <2>2. Honest(run) => run.reply \notin {400, 401}
    BY <1>2 DEF Honest
  <2>3. QED
    BY <1>4, <2>1, <2>2 DEF RunOK, HoldsChallenge
<1>6. /\ \A w \in Readers : keyCh[w] \in ReaderRuns /\ keyCh[w] # r => keyCh'[w] = keyCh[w]
      /\ \A w \in Readers : keyCh'[w] \in ReaderRuns => keyCh'[w] = keyCh[w]
  BY ReaderAssumption
<1>7. QED
  BY <1>2, <1>3, <1>5, <1>6, AnswerStep

\* A challenge takes the place of the one before, whose run is disturbed; a
\* loss of challenges disturbs their runs.
LEMMA DisturbInv ==
  ASSUME ReaderInv,
         runs' \in [ReaderRuns -> Run \cup {Nobody}],
         keyCh' \in [Readers -> ReaderRuns \cup {Stale, Nobody}],
         \A s \in ReaderRuns : /\ runs'[s] = Nobody <=> runs[s] = Nobody
                               /\ runs'[s] # Nobody => runs'[s].wallet = runs[s].wallet
                               /\ RunOK(s)',
         \A w \in Readers : keyCh'[w] \in ReaderRuns =>
            keyCh'[w] = keyCh[w] \/ runs[keyCh'[w]] # Nobody,
         UNCHANGED serverRest
  PROVE  ReaderInv'
<1>1. ReaderTypeOK /\ OpenOK /\ NonceOK /\ VerdictIsForThisAccount
  BY DEF ReaderInv
<1>2. /\ article' = article /\ access' = access /\ open' = open /\ page' = page
      /\ connectedAs' = connectedAs /\ tokenOf' = tokenOf /\ switches' = switches
  BY DEF serverRest, tab
<1>3. ReaderTypeOK' /\ VerdictIsForThisAccount'
  BY <1>1, <1>2 DEF ReaderTypeOK, VerdictIsForThisAccount
<1>4. OpenOK'
  BY <1>1, <1>2 DEF OpenOK, ReaderTypeOK
<1>5. NonceOK'
  BY <1>1 DEF NonceOK
<1>6. QED
  BY <1>3, <1>4, <1>5 DEF ReaderInv

LEMMA KeyChallengeInv ==
  ASSUME ReaderInv, NEW r \in ReaderRuns, KeyChallenge(r)
  PROVE  ReaderInv'
<1> DEFINE w == runs[r].sentAs
<1>1. /\ runs \in [ReaderRuns -> Run \cup {Nobody}]
      /\ keyCh \in [Readers -> ReaderRuns \cup {Stale, Nobody}]
      /\ NonceOK /\ \A s \in ReaderRuns : RunOK(s)
  BY DEF ReaderInv, ReaderTypeOK
<1>2. /\ runs[r] # Nobody /\ runs[r].at = "challenge" /\ runs[r] \in Run
      /\ w \in Readers
      /\ UNCHANGED serverRest
  BY <1>1 DEF KeyChallenge, Waiting, Run, Whom
<1>3. CASE Reply(r, 403) /\ UNCHANGED keyCh
  BY <1>1, <1>2, <1>3, ReplyInv DEF Replies
<1>4. CASE /\ keyCh' = [keyCh EXCEPT ![w] = r]
           /\ runs' = [s \in ReaderRuns |->
                IF s = r THEN [runs[s] EXCEPT !.reply = 200]
                ELSE IF keyCh[w] = s THEN [runs[s] EXCEPT !.disturbed = TRUE]
                ELSE runs[s]]
  <2> DEFINE run == [runs[r] EXCEPT !.reply = 200]
             disturbedRun(s) == [runs[s] EXCEPT !.disturbed = TRUE]
  <2>1. /\ run \in Run /\ run.wallet = runs[r].wallet /\ run.sentAs = w
        /\ run.at = "challenge" /\ run # Nobody
    BY <1>2, NobodyAssumption DEF Run, Replies
  <2>2. \A s \in ReaderRuns : keyCh[w] = s =>
          /\ runs[s] # Nobody /\ disturbedRun(s) \in Run /\ disturbedRun(s) # Nobody
          /\ disturbedRun(s).wallet = runs[s].wallet /\ disturbedRun(s).disturbed
    BY <1>1, <1>2, NobodyAssumption DEF NonceOK, Run
  <2>3. runs' = [s \in ReaderRuns |-> IF s = r THEN run
                                     ELSE IF keyCh[w] = s THEN disturbedRun(s) ELSE runs[s]]
    BY <1>4
  <2> HIDE DEF run, disturbedRun, w
  <2>4. runs' \in [ReaderRuns -> Run \cup {Nobody}]
    BY <1>1, <2>1, <2>2, <2>3
  <2>5. /\ runs'[r] = run
        /\ \A s \in ReaderRuns : s # r =>
             runs'[s] = IF keyCh[w] = s THEN disturbedRun(s) ELSE runs[s]
    BY <2>3
  <2>6. /\ keyCh' \in [Readers -> ReaderRuns \cup {Stale, Nobody}]
        /\ keyCh'[w] = r /\ \A v \in Readers : v # w => keyCh'[v] = keyCh[v]
    BY <1>1, <1>2, <1>4
  <2>7. ASSUME NEW s \in ReaderRuns PROVE RunOK(s)'
    <3>1. CASE s = r
      BY <1>2, <2>1, <2>5, <2>6, <3>1 DEF RunOK, HoldsChallenge, Honest
    <3>2. CASE s # r /\ keyCh[w] = s
      BY <2>2, <2>5, <3>2 DEF RunOK, HoldsChallenge, Honest
    <3>3. CASE s # r /\ keyCh[w] # s
      <4>1. runs'[s] = runs[s] /\ RunOK(s)
        BY <1>1, <2>5, <3>3
      <4>2. QED
        BY <2>6, <3>3, <4>1 DEF RunOK, HoldsChallenge
    <3>4. QED
      BY <3>1, <3>2, <3>3
  <2>8. \A s \in ReaderRuns : /\ runs'[s] = Nobody <=> runs[s] = Nobody
                              /\ runs'[s] # Nobody => runs'[s].wallet = runs[s].wallet
    BY <1>2, <2>1, <2>2, <2>5
  <2>9. \A v \in Readers : keyCh'[v] \in ReaderRuns =>
            keyCh'[v] = keyCh[v] \/ runs[keyCh'[v]] # Nobody
    BY <1>2, <2>6
  <2>10. QED
    BY <1>2, <2>4, <2>6, <2>7, <2>8, <2>9, DisturbInv
<1>5. QED
  BY <1>3, <1>4 DEF KeyChallenge

\* The nonce of an honest claim is the one the API holds, so nothing refuses
\* it but the grant or a key that is not there.
LEMMA KeyClaimInv ==
  ASSUME ReaderInv, NEW r \in ReaderRuns, KeyClaim(r)
  PROVE  ReaderInv'
<1> DEFINE w == runs[r].sentAs
<1>1. /\ runs \in [ReaderRuns -> Run \cup {Nobody}]
      /\ keyCh \in [Readers -> ReaderRuns \cup {Stale, Nobody}]
      /\ RunOK(r)
  BY DEF ReaderInv, ReaderTypeOK
<1>2. /\ runs[r] # Nobody /\ runs[r].at = "claim" /\ runs[r].reply = Nobody
      /\ runs[r] \in Run /\ w \in Readers /\ UNCHANGED serverRest
  BY <1>1 DEF KeyClaim, Waiting, Run, Whom
<1>3. Honest(runs[r]) => keyCh[w] = r /\ GoodSignature(r)
  BY <1>1, <1>2 DEF RunOK, HoldsChallenge, Challenged, Honest, GoodSignature
<1>4. CASE /\ Reply(r, 400) /\ UNCHANGED keyCh
           /\ keyCh[w] # r
  BY <1>1, <1>2, <1>3, <1>4, ReplyInv DEF Replies
<1>5. CASE /\ Reply(r, 401) /\ UNCHANGED keyCh
           /\ ~GoodSignature(r)
  BY <1>1, <1>2, <1>3, <1>5, ReplyInv DEF Replies
<1>6. CASE /\ keyCh[w] = r /\ keyCh' = Spent(r)
           /\ \E s \in {200, 403, 404} : Reply(r, s)
  <2>1. /\ keyCh' \in [Readers -> ReaderRuns \cup {Stale, Nobody}]
        /\ \A v \in Readers : keyCh'[v] = keyCh[v] \/ (keyCh[v] = r /\ keyCh'[v] = Nobody)
    BY <1>1, <1>2, <1>6 DEF Spent
  <2>2. PICK s \in {200, 403, 404} : Reply(r, s)
    BY <1>6
  <2>3. s \in Replies /\ s \notin {400, 401}
    BY DEF Replies
  <2>4. QED
    BY <1>2, <2>1, <2>2, <2>3, ReplyInv
<1>7. QED
  <2>1. CASE keyCh[w] = Nobody
    BY <1>4, <2>1, ReaderAssumption DEF KeyClaim
  <2>2. CASE keyCh[w] \notin {r, Nobody}
    BY <1>4, <2>2 DEF KeyClaim, AfterBadNonce
  <2>3. CASE keyCh[w] = r
    <3>1. IF GoodSignature(r)
            THEN /\ keyCh' = Spent(r)
                 /\ IF access[w] THEN \E s \in {200, 404} : Reply(r, s) ELSE Reply(r, 403)
            ELSE Reply(r, 401) /\ UNCHANGED keyCh
      BY <2>3, ReaderAssumption DEF KeyClaim
    <3>2. QED
      BY <1>5, <1>6, <2>3, <3>1
  <2>4. QED
    BY <2>1, <2>2, <2>3

LEMMA ApiInv ==
  ASSUME ReaderInv, NEW r \in ReaderRuns, ApiStep(r)
  PROVE  ReaderInv'
<1>1. keyCh \in [Readers -> ReaderRuns \cup {Stale, Nobody}]
      /\ runs \in [ReaderRuns -> Run \cup {Nobody}]
  BY DEF ReaderInv, ReaderTypeOK
<1>2. CASE NoAuth(r)
  <2>1. runs[r] # Nobody /\ runs[r].at \in {"meta", "challenge", "claim"}
        /\ runs[r].sentAs = Nobody /\ Reply(r, 401) /\ UNCHANGED <<keyCh, serverRest>>
    BY <1>2 DEF NoAuth, Waiting
  <2>2. ~Honest(runs[r])
    BY <1>1, <2>1, ReaderAssumption DEF Honest, Run
  <2>3. QED
    BY <1>1, <2>1, <2>2, ReplyInv DEF Replies
<1>3. CASE GetArticleById(r)
  <2>1. runs[r] # Nobody /\ runs[r].at = "meta" /\ UNCHANGED <<keyCh, serverRest>>
    BY <1>3 DEF GetArticleById, Waiting
  <2>2. \E s \in Replies : Reply(r, s)
    BY <1>3 DEF GetArticleById, Replies
  <2>3. QED
    BY <1>1, <2>1, <2>2, ReplyInv
<1>4. CASE Serves(r)
  <2>1. runs[r] # Nobody /\ runs[r].at = "upload" /\ Reply(r, 200)
        /\ UNCHANGED <<keyCh, serverRest>>
    BY <1>4 DEF Serves, Waiting
  <2>2. QED
    BY <1>1, <2>1, ReplyInv DEF Replies
<1>5. QED
  BY <1>2, <1>3, <1>4, KeyChallengeInv, KeyClaimInv DEF ApiStep

LEMMA LosesInv ==
  ASSUME ReaderInv, NEW lost \in SUBSET Readers, Loses(lost)
  PROVE  ReaderInv'
<1>1. /\ runs \in [ReaderRuns -> Run \cup {Nobody}]
      /\ keyCh \in [Readers -> ReaderRuns \cup {Stale, Nobody}]
      /\ \A s \in ReaderRuns : RunOK(s)
  BY DEF ReaderInv, ReaderTypeOK
<1> DEFINE lostRun(s) == runs[s] # Nobody /\ \E w \in lost : keyCh[w] = s
           disturbedRun(s) == [runs[s] EXCEPT !.disturbed = TRUE]
<1>2. /\ runs' = [s \in ReaderRuns |-> IF lostRun(s) THEN disturbedRun(s) ELSE runs[s]]
      /\ keyCh' = [w \in Readers |-> IF w \in lost THEN Nobody ELSE keyCh[w]]
      /\ UNCHANGED serverRest
  BY DEF Loses, Disturb
<1>3. \A s \in ReaderRuns : lostRun(s) =>
        /\ disturbedRun(s) \in Run /\ disturbedRun(s) # Nobody
        /\ disturbedRun(s).wallet = runs[s].wallet /\ disturbedRun(s).disturbed
  BY <1>1, NobodyAssumption DEF Run
<1> HIDE DEF disturbedRun
<1>4. /\ runs' \in [ReaderRuns -> Run \cup {Nobody}]
      /\ \A s \in ReaderRuns : runs'[s] = IF lostRun(s) THEN disturbedRun(s) ELSE runs[s]
  BY <1>1, <1>2, <1>3
<1>5. /\ keyCh' \in [Readers -> ReaderRuns \cup {Stale, Nobody}]
      /\ \A w \in Readers : keyCh'[w] = IF w \in lost THEN Nobody ELSE keyCh[w]
  BY <1>1, <1>2
<1>6. ASSUME NEW s \in ReaderRuns PROVE RunOK(s)'
  <2>1. CASE lostRun(s)
    BY <1>3, <1>4, <2>1 DEF RunOK, HoldsChallenge, Honest
  <2>2. CASE ~lostRun(s)
    BY <1>1, <1>4, <1>5, <2>2 DEF RunOK, HoldsChallenge
  <2>3. QED
    BY <2>1, <2>2
<1>7. \A s \in ReaderRuns : /\ runs'[s] = Nobody <=> runs[s] = Nobody
                            /\ runs'[s] # Nobody => runs'[s].wallet = runs[s].wallet
  BY <1>3, <1>4
<1>8. \A w \in Readers : keyCh'[w] \in ReaderRuns => keyCh'[w] = keyCh[w]
  BY <1>5, ReaderAssumption
<1>9. QED
  BY <1>2, <1>4, <1>5, <1>6, <1>7, <1>8, DisturbInv

LEMMA ReaderInvStep == ReaderInv /\ [ReaderNext]_readVars => ReaderInv'
<1> SUFFICES ASSUME ReaderInv, [ReaderNext]_readVars
             PROVE  ReaderInv'
  OBVIOUS
<1>1. ReaderTypeOK
  BY DEF ReaderInv
<1>2. ASSUME NEW w \in Readers, MountReader(w) \/ SwitchReader(w)
      PROVE  ReaderInv'
  <2>1. PICK q \in Page : StartRun(w, q)
    BY <1>1, <1>2, NewPageType DEF MountReader, SwitchReader, ReaderTypeOK
  <2>2. /\ connectedAs' = w /\ switches' \in 0..MaxSwitches
        /\ UNCHANGED <<server, tokenOf>>
    BY <1>1, <1>2, ReaderAssumption DEF MountReader, SwitchReader, ReaderTypeOK
  <2>3. QED
    BY <2>1, <2>2, StartInv
<1>3. CASE UnmountReader
  BY <1>1, <1>3, NewPageType
  DEF UnmountReader, ReaderInv, ReaderTypeOK, OpenOK, NonceOK, VerdictIsForThisAccount,
      RunOK, HoldsChallenge, Whom, server
<1>4. ASSUME NEW w \in Readers, Access(w)
      PROVE  ReaderInv'
  <2>1. access' \in [Readers -> BOOLEAN]
    BY <1>1, <1>4 DEF Access, ReaderTypeOK
  <2>2. QED
    BY <1>1, <1>4, <2>1
    DEF Access, ReaderInv, ReaderTypeOK, OpenOK, NonceOK, VerdictIsForThisAccount,
        RunOK, HoldsChallenge, tab
<1>5. ASSUME NEW w \in Whom, Token(w)
      PROVE  ReaderInv'
  <2>1. switches' \in 0..MaxSwitches
    BY <1>1, <1>5, ReaderAssumption DEF Token, ReaderTypeOK
  <2>2. QED
    BY <1>1, <1>5, <2>1
    DEF Token, ReaderInv, ReaderTypeOK, OpenOK, NonceOK, VerdictIsForThisAccount,
        RunOK, HoldsChallenge, server
<1>6. ASSUME NEW r \in ReaderRuns, ApiStep(r) \/ PageStep(r) \/ Prompt(r)
      PROVE  ReaderInv'
  BY <1>6, ApiInv, PageInv
<1>7. ASSUME (\E w \in Readers : Loses({w})) \/ Loses(Readers)
      PROVE  ReaderInv'
  <2>1. PICK lost \in SUBSET Readers : Loses(lost)
    BY <1>7
  <2>2. QED
    BY <2>1, LosesInv
<1>8. CASE UNCHANGED readVars
  BY <1>8
  DEF readVars, ReaderInv, ReaderTypeOK, OpenOK, NonceOK, VerdictIsForThisAccount,
      RunOK, HoldsChallenge
<1>9. QED
  BY <1>2, <1>3, <1>4, <1>5, <1>6, <1>7, <1>8 DEF ReaderNext

-----------------------------------------------------------------------------
(* The parts side by side *)

\* A step of Sharing is, for each part, one of its own or none.
LEMMA StepOfParts ==
  ASSUME [SharingNext]_shareVars
  PROVE  /\ [TokensNext]_tokenVars /\ [DashNext]_dashVars
         /\ [ListsNext]_listVars /\ [ReaderNext]_readVars
         /\ UNCHANGED part
<1>1. CASE LinksStep
  BY <1>1 DEF LinksStep
<1>2. CASE ModalStep
  BY <1>2 DEF ModalStep
<1>3. CASE ListsStep
  BY <1>3 DEF ListsStep
<1>4. CASE ReaderStep
  BY <1>4 DEF ReaderStep
<1>5. CASE UNCHANGED shareVars
  BY <1>5 DEF shareVars
<1>6. QED
  BY <1>1, <1>2, <1>3, <1>4, <1>5 DEF SharingNext

LEMMA InitOfParts ==
  SharingInit => TokensInit /\ DashInit /\ ListsInit /\ ReaderInit /\ part \in Parts
  BY DEF SharingInit

\* The links of Sharing are those of AccessTokens: they are a refinement of it.
LEMMA SharingIsTokens == SharingSpec => TokensSpec
<1>1. [SharingNext]_shareVars => [TokensNext]_tokenVars
  BY StepOfParts
<1>2. QED
  BY <1>1, InitOfParts, PTL DEF SharingSpec, TokensSpec

LEMMA PartsInv == SharingSpec => [](DashInv /\ ListsInv /\ ReaderInv)
<1>1. SharingInit => DashInv /\ ListsInv /\ ReaderInv
  BY InitOfParts, DashInvInit, ListsInvInit, ReaderInvInit
<1>2. DashInv /\ ListsInv /\ ReaderInv /\ [SharingNext]_shareVars
        => (DashInv /\ ListsInv /\ ReaderInv)'
  BY StepOfParts, DashInvStep, ListsInvStep, ReaderInvStep
<1>3. QED
  BY <1>1, <1>2, PTL DEF SharingSpec

LEMMA SomePart == SharingSpec => [](part \in Parts)
<1>1. SharingInit => part \in Parts
  BY InitOfParts
<1>2. part \in Parts /\ [SharingNext]_shareVars => (part \in Parts)'
  BY StepOfParts
<1>3. QED
  BY <1>1, <1>2, PTL DEF SharingSpec

\* The state of the links, the access modal, the lists of the dashboard and
\* the private reader's page keeps its types.
THEOREM SharingTypeCorrect == SharingSpec => []SharingTypeOK
<1>1. part \in Parts /\ TokensTypeOK /\ DashInv /\ ListsInv /\ ReaderInv => SharingTypeOK
  BY PartsAssumption DEF SharingTypeOK, DashInv, ListsInv, ReaderInv
<1>2. QED
  BY <1>1, SomePart, SharingIsTokens, TokensTypeCorrect, PartsInv, PTL

\* A revoked link opens nothing, whatever else runs.
THEOREM SharedLinksClose == SharingSpec => []NoRevokedLinkOpens /\ LinksReopenByRenewal
<1>1. QED
  BY SharingIsTokens, RevokedStaysClosed, ReopenedByRenewal, PTL

\* Once nothing is under way, the access modal shows each viewer of its article
\* as he is stored, but for those that listGrants cuts off, unless one of the
\* named excuses stands.
THEOREM ModalShowsStored == SharingSpec => []ShownIsStored
<1>1. DashInv /\ ListSettled => shown = Listed(modal)
  BY DEF DashInv, Tidy, ListSettled, Fresh, Sent, isGrantBusy
<1>2. DashInv => ShownIsStored
  BY <1>1 DEF ShownIsStored, Listed
<1>3. QED
  BY <1>2, PartsInv, PTL

\* The dashboard lists the connected wallet's articles, in whatever order the
\* loads of several accounts end.
THEOREM ListsAreOwn == SharingSpec => []ListedIsTheWallets
<1>1. ListsInv => ListedIsTheWallets
  BY DEF ListsInv, LatestOK, ListedIsTheWallets, ListedOf
<1>2. QED
  BY <1>1, PartsInv, PTL

\* What the private reader's page says of access is about the connected
\* account.
THEOREM VerdictIsOwn == SharingSpec => []VerdictIsForThisAccount
<1>1. ReaderInv => VerdictIsForThisAccount
  BY DEF ReaderInv
<1>2. QED
  BY <1>1, PartsInv, PTL

\* An honest claim whose challenge nothing disturbed is not refused for its
\* nonce or its signature, whatever the claims of other runs.
THEOREM HonestPasses == SharingSpec => []HonestClaimPasses
<1>1. ReaderInv => HonestClaimPasses
  BY DEF ReaderInv, RunOK, Honest, HonestClaimPasses
<1>2. QED
  BY <1>1, PartsInv, PTL

=============================================================================
