------------------------------- MODULE AiChat --------------------------------
(***************************************************************************)
(* The chat: components/editor/AiChatModal.tsx.  Its state lives as long   *)
(* as it is open; a call that outlives it answers nobody.                  *)
(***************************************************************************)
EXTENDS AiClient, Sequences, SequencesExt

CONSTANT MaxQuestions   \* bound on the questions of a behaviour

ASSUME ChatAssumption == MaxQuestions \in Nat

VARIABLES chat,      \* open, input, isLoading, error
          messages,  \* the messages shown
          asks       \* the question of each run; 0: none, or of a chat that is closed

chatVars == <<chat, messages, asks>>

Message == [role: {"user", "assistant"}, about: 0..MaxQuestions, text: Prose]
ChatTypeOK ==
  /\ chat \in [open: BOOLEAN, input: BOOLEAN, isLoading: BOOLEAN, error: BOOLEAN,
               asked: 0..MaxQuestions]
  /\ messages \in Seq(Message)
  /\ asks \in [ChatRuns -> 0..MaxQuestions]

Closed == [open |-> FALSE, input |-> FALSE, isLoading |-> FALSE, error |-> FALSE, asked |-> 0]
Welcome == [role |-> "assistant", about |-> 0, text |-> "notice"]
Question(n) == [role |-> "user", about |-> n, text |-> "nothing"]
ChatInit == chat = Closed /\ messages = <<>> /\ asks = [q \in ChatRuns |-> 0]

OpenChat ==
  /\ ~chat.open
  /\ chat' = [chat EXCEPT !.open = TRUE] /\ messages' = <<Welcome>>
  /\ UNCHANGED <<asks, aiVars>>
CloseChat ==
  /\ chat.open
  /\ chat' = [Closed EXCEPT !.asked = chat.asked] /\ messages' = <<>>
  /\ asks' = [q \in ChatRuns |-> 0]
  /\ UNCHANGED aiVars
TypeQuestion ==
  /\ chat.open
  /\ chat' = [chat EXCEPT !.input = ~@]
  /\ UNCHANGED <<messages, asks, aiVars>>

\* handleSend up to its await.
AtAnyTime == TRUE
MaySend == ~chat.isLoading
HandleSend(q) ==
  /\ chat.open /\ chat.input /\ MaySend /\ chat.asked < MaxQuestions
  /\ Post(q)
  /\ asks' = [asks EXCEPT ![q] = chat.asked + 1]
  /\ messages' = Append(messages, Question(chat.asked + 1))
  /\ chat' = [chat EXCEPT !.input = FALSE, !.isLoading = TRUE, !.error = FALSE, !.asked = @ + 1]
  /\ UNCHANGED <<jwt, newest, gate>>
\* And after it.
Answered(q) ==
  /\ calls[q].at = "done"
  /\ calls' = [calls EXCEPT ![q] = Idle]
  /\ asks' = [asks EXCEPT ![q] = 0]
  /\ LET reply == calls[q].reply IN
       IF asks[q] = 0 THEN UNCHANGED <<chat, messages>>
       ELSE IF reply.failed = "none"
       THEN /\ messages' = Append(messages, [role |-> "assistant", about |-> asks[q],
                                             text |-> reply.text])
            /\ chat' = [chat EXCEPT !.isLoading = FALSE]
       ELSE /\ chat' = [chat EXCEPT !.isLoading = FALSE, !.error = TRUE]
            /\ UNCHANGED messages
  /\ UNCHANGED <<jwt, newest, gate>>

ChatProgress(q) == (CallProgress(q) /\ UNCHANGED chatVars) \/ Answered(q)
ChatNext ==
  \/ OpenChat \/ CloseChat \/ TypeQuestion
  \/ (SessionStep /\ UNCHANGED chatVars)
  \/ \E q \in ChatRuns : HandleSend(q) \/ Answered(q) \/ (CallStep(q) /\ UNCHANGED chatVars)

-----------------------------------------------------------------------------
(* Properties *)

\* An answer stands under the question it answers, also when questions failed,
\* and when the chat was closed and opened during one.
AnswersFollowQuestions ==
  \A i \in DOMAIN messages \ {1} :
    messages[i].role = "assistant" => messages[i - 1] = Question(messages[i].about)

Prompted(callers) == \E c \in callers : calls[c].at = "sign"

\* A chat that waits gets its answer or an error, or the wallet asks its user.
ChatSettles == chat.isLoading ~> (~chat.isLoading \/ Prompted(ChatRuns))

\* No answer is text the filter recognises, on its own or wherever it stands.
NoGhostAnswer == \A i \in DOMAIN messages : messages[i].text \notin {"section", "final"}
=============================================================================
