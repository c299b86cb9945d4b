-------------------------------- MODULE Studio --------------------------------
(***************************************************************************)
(* The editor page, app/editor/page.tsx: the draft, the declared sources,  *)
(* the image dialog, the assistant's chat and its cards.                   *)
(*                                                                         *)
(* What one of them does depends on no other: the draft is given to the    *)
(* assistant by value, a dialog covers the rest.  So the behaviours of     *)
(* this module are those of its parts side by side, one of them running in *)
(* each.  The chat and the cards are calls of one client.                  *)
(***************************************************************************)
EXTENDS EditorDraft, DeclaredSources, ImageDialog, AiChat, AiPanel

CONSTANT StudioParts   \* the parts to run

AllParts == {"draft", "sources", "image", "chat", "panel"}
ASSUME StudioAssumption == StudioParts \subseteq AllParts

VARIABLE at

otherThanDraft == <<srcVars, imageVars, aiVars, chatVars, cards>>
otherThanSources == <<draftVars, imageVars, aiVars, chatVars, cards>>
otherThanImage == <<draftVars, srcVars, aiVars, chatVars, cards>>
otherThanChat == <<draftVars, srcVars, imageVars, cards>>
otherThanPanel == <<draftVars, srcVars, imageVars, chatVars>>
studioVars == <<at, draftVars, otherThanDraft>>

StudioInit ==
  /\ at \in StudioParts
  /\ DraftInit /\ SourcesInit /\ ImageInit /\ ClientInit /\ ChatInit /\ PanelInit
  /\ at \notin {"chat", "panel"} => jwt = "old"

StudioNext ==
  /\ UNCHANGED at
  /\ \/ at = "draft" /\ DraftNext /\ UNCHANGED otherThanDraft
     \/ at = "sources" /\ SourcesNext /\ UNCHANGED otherThanSources
     \/ at = "image" /\ ImageNext /\ UNCHANGED otherThanImage
     \/ at = "chat" /\ ChatNext /\ UNCHANGED otherThanChat
     \/ at = "panel" /\ PanelNext /\ UNCHANGED otherThanPanel

\* Timers fire, requests are answered or fail, and the page goes on with the
\* answer.  No fairness for what the user does, the wallet's prompt included.
StudioFairness ==
  /\ WF_draftVars(at = "draft" /\ TimerFires)
  /\ \A q \in ChatRuns : WF_<<calls, chatVars>>(at = "chat" /\ ChatProgress(q))
  /\ \A k \in Cards : WF_<<calls, cards>>(at = "panel" /\ PanelProgress(k))

StudioSpec == StudioInit /\ [][StudioNext]_studioVars /\ StudioFairness

StudioTypeOK ==
  /\ at \in AllParts
  /\ DraftTypeOK /\ SourcesTypeOK /\ ImageTypeOK
  /\ ClientTypeOK /\ ChatTypeOK /\ PanelTypeOK

-----------------------------------------------------------------------------
(* Properties of the assistant as a whole *)

\* The chat and the cards come to an end: an answer, an error, or a prompt of
\* the wallet, whatever fails and whichever of them renews the session.
AssistantSettles == ChatSettles /\ CardsSettle

\* No answer and no suggestion shown is text to be handed in, as far as the
\* filter can tell from what it is given.
NoGhostwriting == NoGhostAnswer /\ NoGhostSuggestion
=============================================================================
