------------------------------ MODULE AiClient -------------------------------
(***************************************************************************)
(* A request to the writing assistant, from the button to the reply:       *)
(* postJson of apps/web/src/lib/api/aiAssistant.ts, refreshAuthToken, and  *)
(* the API's analyzeText and chat over Gemini and the user's sources.      *)
(*                                                                         *)
(* Several requests of one tab may be under way; they share the stored     *)
(* JWT, the wallet and the API's one challenge for it.                     *)
(*                                                                         *)
(* A text is known by what the filter makes of it: "final" text it         *)
(* recognises wherever it stands (a phrase, a long paragraph, sentences);  *)
(* a "section" only by its lines and the words they begin with; the rest   *)
(* is "advice", "nothing", or a "notice" of the program.                   *)
(***************************************************************************)
EXTENDS Naturals

CONSTANTS ChatRuns,   \* calls of handleSend
          Cards,      \* the generative cards: one call each
          TheGate,    \* AuthGate, which signs in too
          NoHolder    \* no challenge is outstanding

ASSUME ClientAssumption == ChatRuns \cap Cards = {}

VARIABLES calls,   \* the calls of postJson
          jwt,     \* localStorage['aurora-auth-token']
          newest,  \* whose challenge the API keeps for the wallet
          gate     \* authenticate of AuthGate

aiVars == <<calls, jwt, newest, gate>>

AiCalls == ChatRuns \cup Cards
Prose == {"nothing", "advice", "section", "final", "notice"}
Jwts == {"none", "old", "good"}
Failures == {"none", "auth", "mentions", "plain"}

\* text: the answer of chat, the suggestions of analyze; failed: how it failed.
Reply == [failed: Failures, text: Prose, warnings: SUBSET Prose]
NoReply == [failed |-> "none", text |-> "nothing", warnings |-> {}]
Places == {"idle", "sent", "sources", "model", "refused", "challenge", "sign", "verify",
           "waiting", "done"}

ClientTypeOK ==
  /\ calls \in [AiCalls -> [at: Places, retryOnAuth: BOOLEAN, bearer: Jwts, reply: Reply]]
  /\ jwt \in Jwts
  /\ newest \in AiCalls \cup {TheGate, NoHolder}
  /\ gate \in {"idle", "challenge", "sign"}

Idle == [at |-> "idle", retryOnAuth |-> TRUE, bearer |-> "none", reply |-> NoReply]
ClientInit ==
  /\ calls = [c \in AiCalls |-> Idle]
  /\ jwt \in {"old", "good"}
  /\ newest = NoHolder /\ gate = "idle"

-----------------------------------------------------------------------------
(* The request *)

Sent(bearer, retryOnAuth) ==
  [at |-> "sent", retryOnAuth |-> retryOnAuth, bearer |-> bearer, reply |-> NoReply]
Post(c) == calls[c].at = "idle" /\ calls' = [calls EXCEPT ![c] = Sent(jwt, TRUE)]

\* What postJson does with a reply: it is the caller's, unless it speaks of a
\* session ("token", "expired") and is the first.
Renews(c, reply) == calls[c].retryOnAuth /\ reply.failed \in {"auth", "mentions"}
Replied(c, reply) ==
  calls' = [calls EXCEPT ![c].at = IF Renews(c, reply) THEN "refused" ELSE "done",
                         ![c].reply = reply]
Failed(why) == [NoReply EXCEPT !.failed = why]
Throws(c) == calls' = [calls EXCEPT ![c].at = "done", ![c].reply = Failed("plain")]

Unreachable(c) == calls[c].at \in {"sent", "sources", "model"} /\ Throws(c)
                  /\ UNCHANGED <<jwt, newest, gate>>

-----------------------------------------------------------------------------
(* The API *)

RequireAuth(c) ==
  /\ calls[c].at = "sent"
  /\ IF calls[c].bearer = "good" THEN calls' = [calls EXCEPT ![c].at = "sources"]
                                 ELSE Replied(c, Failed("auth"))
  /\ UNCHANGED <<jwt, newest, gate>>

\* A source that cannot be read, or not within eight seconds, is left out.
SourcesRead(c) ==
  /\ calls[c].at = "sources"
  /\ calls' = [calls EXCEPT ![c].at = "model"]
  /\ UNCHANGED <<jwt, newest, gate>>

\* detectGhostwriting: some advice is blocked too, when it is long or has many
\* sentences.  analyze gives it one line of JSON with all the texts in it,
\* where no section begins a line; but a few hundred characters are one long
\* paragraph there.
Blocks(recognised) == IF recognised THEN {TRUE} ELSE {TRUE, FALSE}
AnswerBlocked(text) == Blocks(text \in {"section", "final"})
AnalysisBlocked(data) == Blocks("final" \in {data.text} \cup data.warnings)

\* safeJsonParse and the schema's defaults: all of it, the suggestions alone, or
\* a warning that nothing could be read.
Parsed(raw) ==
  CASE raw.form = "json" -> [text |-> raw.text, warnings |-> raw.warnings]
    [] raw.form = "salvaged" -> [text |-> raw.text, warnings |-> {}]
    [] raw.form = "broken" -> [text |-> "nothing", warnings |-> {"notice"}]
ModelText == {"nothing", "advice", "section", "final"}
Raw == [form: {"json", "salvaged", "broken"}, text: ModelText,
        warnings: {{}, {"section"}, {"final"}}]

\* A blocked analysis loses its suggestions and gets a warning more.
HardenedAtHead(data) == [text |-> data.text, warnings |-> data.warnings \cup {"notice"}]
Hardened(data) == [text |-> "nothing", warnings |-> data.warnings \cup {"notice"}]
Analysis(data, blocked) ==
  LET said == IF blocked THEN Hardened(data) ELSE data
  IN [failed |-> "none", text |-> said.text, warnings |-> said.warnings]
\* The safe answer, where the model's is blocked.
Answer(text, blocked) == [NoReply EXCEPT !.text = IF blocked THEN "notice" ELSE text]

ModelAnswers(c) ==
  /\ calls[c].at = "model"
  /\ \/ /\ c \in ChatRuns
        /\ \E text \in ModelText \ {"nothing"} : \E b \in AnswerBlocked(text) :
             Replied(c, Answer(text, b))
     \/ /\ c \in Cards
        /\ \E raw \in Raw : LET data == Parsed(raw) IN
             \E b \in AnalysisBlocked(data) : Replied(c, Analysis(data, b))
  /\ UNCHANGED <<jwt, newest, gate>>
\* Gemini's errors.  One over a limit, or an expired key, speaks of tokens or
\* of expiry; an answer cut before its first word does in chat, where analyze
\* has a text of its own for it.
ModelFails(c) ==
  /\ calls[c].at = "model"
  /\ \/ \E why \in {"mentions", "plain"} : Replied(c, Failed(why))
     \/ Replied(c, Failed(IF c \in ChatRuns THEN "mentions" ELSE "plain"))
  /\ UNCHANGED <<jwt, newest, gate>>

-----------------------------------------------------------------------------
(* The session *)

\* refreshAuthToken by Phantom, which drops the token first.
RefreshWithPhantom(c) ==
  /\ calls[c].at = "refused"
  /\ jwt' = "none"
  /\ calls' = [calls EXCEPT ![c].at = "challenge"]
  /\ UNCHANGED <<newest, gate>>
\* Without it, by AuthGate, where a wallet is connected; it signs in once at a
\* time.  The request waits a second.
RefreshByEvent(c) ==
  /\ calls[c].at = "refused"
  /\ calls' = [calls EXCEPT ![c].at = "waiting"]
  /\ \/ jwt' = "none" /\ gate' = (IF gate = "idle" THEN "challenge" ELSE gate)
     \/ UNCHANGED <<jwt, gate>>
  /\ UNCHANGED newest

ChallengeGiven(c) ==
  /\ calls[c].at = "challenge"
  /\ calls' = [calls EXCEPT ![c].at = "sign"] /\ newest' = c
  /\ UNCHANGED <<jwt, gate>>
UserSigns(c) ==
  /\ calls[c].at = "sign"
  /\ calls' = [calls EXCEPT ![c].at = "verify"]
  /\ UNCHANGED <<jwt, newest, gate>>
\* The request is sent again, once.
AsksForEver == TRUE
AsksAgain == FALSE
Verified(c) ==
  /\ calls[c].at = "verify" /\ newest = c
  /\ newest' = NoHolder /\ jwt' = "good"
  /\ calls' = [calls EXCEPT ![c] = Sent("good", AsksAgain)]
  /\ UNCHANGED gate
WaitEnds(c) ==
  /\ calls[c].at = "waiting"
  /\ IF jwt = "none" THEN Throws(c)
     ELSE calls' = [calls EXCEPT ![c] = Sent(jwt, AsksAgain)]
  /\ UNCHANGED <<jwt, newest, gate>>
\* A request that fails, a rejected prompt, a challenge another one replaced.
RefreshFails(c) ==
  /\ calls[c].at \in {"challenge", "sign", "verify"}
  /\ Throws(c)
  /\ UNCHANGED <<jwt, newest, gate>>

GateChallenged == /\ gate = "challenge" /\ gate' = "sign" /\ newest' = TheGate
                  /\ UNCHANGED <<calls, jwt>>
GateSigns == /\ gate = "sign" /\ newest = TheGate
             /\ gate' = "idle" /\ newest' = NoHolder /\ jwt' = "good"
             /\ UNCHANGED calls
GateFails == /\ gate # "idle" /\ gate' = "idle"
             /\ UNCHANGED <<calls, jwt, newest>>
JwtExpires == /\ jwt = "good" /\ jwt' = "old"
              /\ UNCHANGED <<calls, newest, gate>>

\* What the program does of itself, and what comes from outside.
CallProgress(c) ==
  \/ RequireAuth(c) \/ SourcesRead(c) \/ ModelAnswers(c) \/ ModelFails(c)
  \/ RefreshWithPhantom(c) \/ RefreshByEvent(c) \/ ChallengeGiven(c) \/ Verified(c)
  \/ WaitEnds(c) \/ (calls[c].at = "verify" /\ RefreshFails(c))
CallStep(c) == CallProgress(c) \/ Unreachable(c) \/ UserSigns(c) \/ RefreshFails(c)
SessionStep == GateChallenged \/ GateSigns \/ GateFails \/ JwtExpires
=============================================================================
