---------------------------- MODULE AccessTokens ----------------------------
(***************************************************************************)
(* Access by link: generateToken, updateToken, revokeToken and             *)
(* validateToken of access-control.controller.ts over the AccessToken      *)
(* table.                                                                  *)
(*                                                                         *)
(* A handler computes the expiry it will write when it is called and sends *)
(* its statement then; statements of several requests are executed in any  *)
(* order, and validateToken looks at the clock after its row has come.     *)
(***************************************************************************)
EXTENDS Integers

CONSTANTS LinkArticles,  \* articles
          Tokens,        \* random tokens; none is drawn twice
          Lives,         \* the finite lifetimes
          Callers,       \* requests at a time
          Unlimited,     \* expiresAt: null
          NoRow, NoCall,
          MaxNow         \* bound on time

ASSUME TokensAssumption ==
  /\ Lives \subseteq Nat /\ MaxNow \in Nat
  /\ Unlimited \notin Int

VARIABLES tnow,    \* Date.now()
          tokens,  \* the table: what it holds for each token
          call,    \* the requests under way
          ended    \* history: tokens revoked and not renewed since

tokenVars == <<tnow, tokens, call, ended>>

Expiry == Nat \cup {Unlimited}
Row == [articleId: LinkArticles, expiresAt: Expiry]

\* What each handler has computed before its query.
Generate == [kind: {"generate"}, token: Tokens, row: Row]
Update == [kind: {"update"}, row: Row]
Revoke == [kind: {"revoke"}, row: Row]
\* A validation: before its answer, after it (with the row, and whether the
\* token was revoked when it was read), and replied to.
Validate == [kind: {"validate"}, token: Tokens]
Found == [kind: {"found", "valid"}, row: Row, wasEnded: BOOLEAN]

ASSUME NoRowAssumption == NoRow \notin Row
ASSUME NoCallAssumption == NoCall \notin Generate \cup Update \cup Revoke \cup Validate \cup Found

TokensTypeOK ==
  /\ tnow \in Nat
  /\ tokens \in [Tokens -> Row \cup {NoRow}]
  /\ call \in [Callers -> Generate \cup Update \cup Revoke \cup Validate \cup Found \cup {NoCall}]
  /\ ended \subseteq Tokens

TokensInit ==
  /\ tnow = 0
  /\ tokens = [t \in Tokens |-> NoRow]
  /\ call = [c \in Callers |-> NoCall]
  /\ ended = {}

-----------------------------------------------------------------------------

\* calculateExpiration, at the time of the call.
ExpirationsInThePast == {tnow - life : life \in Lives} \cup {Unlimited}
Expirations == {tnow + life : life \in Lives} \cup {Unlimited}

Calls(c, request) ==
  /\ call[c] = NoCall
  /\ call' = [call EXCEPT ![c] = request]
  /\ UNCHANGED <<tnow, tokens, ended>>
Returns(c) == call' = [call EXCEPT ![c] = NoCall]

\* generateAccessToken draws 32 random bytes: a token that nobody has.
Unused(t) == /\ tokens[t] = NoRow
             /\ \A c \in Callers : call[c] # NoCall =>
                  ~(call[c].kind = "generate" /\ call[c].token = t)
GenerateTokenCall(c) ==
  \E t \in Tokens, a \in LinkArticles, e \in Expirations :
    Unused(t) /\ Calls(c, [kind |-> "generate", token |-> t,
                           row |-> [articleId |-> a, expiresAt |-> e]])
GenerateTokenCreate(c) ==
  /\ call[c] # NoCall /\ call[c].kind = "generate"
  /\ tokens' = [tokens EXCEPT ![call[c].token] = call[c].row]
  /\ Returns(c)
  /\ UNCHANGED <<tnow, ended>>

\* updateMany where articleId: every token of the article.
Of(a) == {t \in Tokens : tokens[t] # NoRow /\ tokens[t].articleId = a}
UpdateMany(a, e) == tokens' = [t \in Tokens |-> IF t \in Of(a) THEN [tokens[t] EXCEPT !.expiresAt = e]
                                                ELSE tokens[t]]

UpdateTokenCall(c) ==
  \E a \in LinkArticles, e \in Expirations :
    Calls(c, [kind |-> "update", row |-> [articleId |-> a, expiresAt |-> e]])
UpdateTokenRun(c) ==
  /\ call[c] # NoCall /\ call[c].kind = "update"
  /\ UpdateMany(call[c].row.articleId, call[c].row.expiresAt)
  /\ ended' = ended \ Of(call[c].row.articleId)
  /\ Returns(c)
  /\ UNCHANGED tnow

\* The moment of the call is what is written.
Later == tnow + 1
Now == tnow
RevokeTokenCall(c) ==
  \E a \in LinkArticles :
    Calls(c, [kind |-> "revoke", row |-> [articleId |-> a, expiresAt |-> Now]])
RevokeTokenRun(c) ==
  /\ call[c] # NoCall /\ call[c].kind = "revoke"
  /\ UpdateMany(call[c].row.articleId, call[c].row.expiresAt)
  /\ ended' = ended \cup Of(call[c].row.articleId)
  /\ Returns(c)
  /\ UNCHANGED tnow

ValidateTokenCall(c) == \E t \in Tokens : Calls(c, [kind |-> "validate", token |-> t])

\* findUnique; a token without a row is a 403.
ValidateTokenFind(c) ==
  /\ call[c] # NoCall /\ call[c].kind = "validate"
  /\ LET t == call[c].token
     IN IF tokens[t] = NoRow THEN Returns(c)
        ELSE call' = [call EXCEPT ![c] = [kind |-> "found", row |-> tokens[t],
                                          wasEnded |-> t \in ended]]
  /\ UNCHANGED <<tnow, tokens, ended>>

\* The clock is compared: a link is over at its expiresAt.
OverOnlyAfter(row) == row.expiresAt # Unlimited /\ row.expiresAt < tnow
Over(row) == row.expiresAt # Unlimited /\ row.expiresAt <= tnow
ValidateTokenReply(c) ==
  /\ call[c] # NoCall /\ call[c].kind = "found"
  /\ IF Over(call[c].row) THEN Returns(c)
     ELSE call' = [call EXCEPT ![c].kind = "valid"]
  /\ UNCHANGED <<tnow, tokens, ended>>

\* The reply is sent; or a query rejects, with or without its effect.
TokenReplySent(c) ==
  /\ call[c] # NoCall /\ call[c].kind = "valid"
  /\ Returns(c)
  /\ UNCHANGED <<tnow, tokens, ended>>
TokenQueryFails(c) ==
  /\ call[c] # NoCall /\ call[c].kind \in {"generate", "update", "revoke", "validate"}
  /\ Returns(c)
  /\ UNCHANGED <<tnow, tokens, ended>>

TokenTick == /\ tnow < MaxNow
             /\ tnow' = tnow + 1
             /\ UNCHANGED <<tokens, call, ended>>

TokenCall(c) == \/ GenerateTokenCall(c) \/ UpdateTokenCall(c)
                \/ RevokeTokenCall(c) \/ ValidateTokenCall(c)
TokenWrite(c) == GenerateTokenCreate(c) \/ UpdateTokenRun(c) \/ RevokeTokenRun(c)
TokenAnswer(c) == \/ ValidateTokenFind(c) \/ ValidateTokenReply(c)
                  \/ TokenReplySent(c) \/ TokenQueryFails(c)

TokensNext == \/ \E c \in Callers : TokenCall(c) \/ TokenWrite(c) \/ TokenAnswer(c)
              \/ TokenTick

TokensSpec == TokensInit /\ [][TokensNext]_tokenVars

-----------------------------------------------------------------------------
(* Properties *)

\* A revoked link opens nothing: no validation that read a token after its
\* revocation was carried out, and before any renewal was, is told it is valid.
\* The revocation wrote a moment that had passed, or is passing, and the
\* comparison counts that moment as over.
NoRevokedLinkOpens ==
  \A c \in Callers : call[c] # NoCall /\ call[c].kind = "valid" => ~call[c].wasEnded

\* A link, once given out, stays and stays with its article; and a revoked one
\* is open again only by a renewal that was carried out after.
LinksStay ==
  \A t \in Tokens : tokens[t] # NoRow =>
    /\ tokens'[t] # NoRow /\ tokens'[t].articleId = tokens[t].articleId
    /\ t \in ended /\ (tokens'[t].expiresAt = Unlimited \/ tokens'[t].expiresAt > tnow) =>
         \E c \in Callers : call[c] # NoCall /\ call[c].kind = "update" /\ call'[c] = NoCall
LinksReopenByRenewal == [][LinksStay]_tokenVars
=============================================================================
