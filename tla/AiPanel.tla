------------------------------- MODULE AiPanel -------------------------------
(***************************************************************************)
(* The cards "suggest structure" and "check coherence" beside the editor:  *)
(* components/editor/AiGuidancePanel.tsx.                                  *)
(***************************************************************************)
EXTENDS AiClient

CONSTANT Structure   \* the card that suggests structure; the others check coherence

ASSUME PanelAssumption == Structure \in Cards

VARIABLE cards   \* isLoading, result, error and isExpanded of each

\* A result, and where it is from: the program's own words, or the reply.
Result == [from: {"app", "suggestions", "warnings"}, texts: SUBSET Prose]
NoResult == [from |-> "app", texts |-> {}]
Hint == [from |-> "app", texts |-> {"notice"}]

PanelTypeOK ==
  cards \in [Cards -> [isLoading: BOOLEAN, result: Result, error: BOOLEAN,
                       isExpanded: BOOLEAN]]

NewCard == [isLoading |-> FALSE, result |-> NoResult, error |-> FALSE, isExpanded |-> FALSE]
PanelInit == cards = [k \in Cards |-> NewCard]

\* The effect of GenerativeCard: it opens when its result or error changes.
Showing(card, result, error) ==
  [card EXCEPT !.isLoading = FALSE, !.result = result, !.error = error,
               !.isExpanded = @ \/ <<result, error>> # <<card.result, card.error>>]

\* The handlers ask the author for a text, or an intuition, where there is none
\* at the click (an error stays), and the API else.
ClickClosed(k) ==
  /\ ~cards[k].isExpanded /\ ~cards[k].isLoading
  /\ \/ /\ cards' = [cards EXCEPT ![k] = Showing(@, Hint, @.error)]
        /\ UNCHANGED calls
     \/ /\ Post(k)
        /\ cards' = [cards EXCEPT ![k] = [NewCard EXCEPT !.isLoading = TRUE]]
  /\ UNCHANGED <<jwt, newest, gate>>
ClickOpen(k) ==
  /\ cards[k].isExpanded /\ ~cards[k].isLoading
  /\ cards' = [cards EXCEPT ![k].isExpanded = FALSE]
  /\ UNCHANGED aiVars

\* Suggestions; or, of the structure card, warnings; or the program's words.
Outcome(k, reply) ==
  IF reply.text # "nothing" THEN [from |-> "suggestions", texts |-> {reply.text}]
  ELSE IF k = Structure /\ reply.warnings # {}
       THEN [from |-> "warnings", texts |-> reply.warnings \cup {"notice"}]
       ELSE Hint
Generated(k) ==
  /\ calls[k].at = "done"
  /\ calls' = [calls EXCEPT ![k] = Idle]
  /\ LET reply == calls[k].reply IN
       cards' = [cards EXCEPT ![k] =
         IF reply.failed = "none" THEN Showing(@, Outcome(k, reply), FALSE)
                                  ELSE Showing(@, NoResult, TRUE)]
  /\ UNCHANGED <<jwt, newest, gate>>

PanelProgress(k) == (CallProgress(k) /\ UNCHANGED cards) \/ Generated(k)
PanelNext ==
  \/ (SessionStep /\ UNCHANGED cards)
  \/ \E k \in Cards : \/ ClickClosed(k) \/ ClickOpen(k) \/ Generated(k)
                      \/ (CallStep(k) /\ UNCHANGED cards)

-----------------------------------------------------------------------------
(* Properties *)

\* A card that works comes to an end, unless the wallet asks its user.
CardsSettle ==
  \A k \in Cards : cards[k].isLoading ~> (~cards[k].isLoading \/ calls[k].at = "sign")

\* No suggestion is text that the filter recognises wherever it stands, however
\* the model's JSON was read, and after a renewal of the session too.
NoGhostSuggestion ==
  \A k \in Cards : cards[k].result.from = "suggestions" => "final" \notin cards[k].result.texts
=============================================================================
