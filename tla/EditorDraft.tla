----------------------------- MODULE EditorDraft -----------------------------
(***************************************************************************)
(* The draft: state and effects of app/editor/page.tsx, localStorage, and  *)
(* the synchronisation of components/editor/Editor.tsx with the content.   *)
(*                                                                         *)
(* Content is a version of the text; 0 is ''.  An editor that was emptied  *)
(* holds '<p></p>', one more version.  The text is stored a second after   *)
(* the last change, the rest at once.  Other tabs share localStorage.      *)
(***************************************************************************)
EXTENDS Naturals, Sequences

CONSTANTS Titles,        \* titles and declared intuitions other than ''
          DraftSources,  \* declared sources; how they are declared is in DeclaredSources
          Untitled,      \* ''
          MaxEdits       \* bound on versions

ASSUME DraftAssumption == Untitled \notin Titles /\ MaxEdits \in Nat

VARIABLES draft,      \* content, articleTitle, declaredIntuition, sources
          doc,        \* the version the Tiptap editor shows
          stored,     \* the four items of localStorage
          timers,     \* debounces under way: the content each will store
          indicator,  \* isSaving, lastSaved
          phase,      \* where the page is
          clobbered,  \* history: another tab wrote since the page was loaded
          edits

draftVars == <<draft, doc, stored, timers, indicator, phase, clobbered, edits>>

Texts == Titles \cup {Untitled}
Items == [content: 0..MaxEdits, title: Texts, intuition: Texts, sources: SUBSET DraftSources]
Nothing == [content |-> 0, title |-> Untitled, intuition |-> Untitled, sources |-> {}]

DraftTypeOK ==
  /\ draft \in Items /\ stored \in Items
  /\ doc \in 0..MaxEdits
  /\ timers \in Seq(0..MaxEdits) /\ Len(timers) <= 1
  /\ indicator \in [isSaving: BOOLEAN, lastSaved: BOOLEAN]
  /\ phase \in {"closed", "mounting", "open", "publishing", "published"}
  /\ clobbered \in BOOLEAN
  /\ edits \in 0..MaxEdits

NoIndicator == [isSaving |-> FALSE, lastSaved |-> FALSE]
DraftInit ==
  /\ draft = Nothing /\ doc = 0 /\ stored = Nothing
  /\ timers = <<>> /\ indicator = NoIndicator
  /\ phase = "closed" /\ clobbered = FALSE /\ edits = 0

-----------------------------------------------------------------------------

\* The effect on content: the timer before is cleared by the cleanup.
DebounceAlso(content) == Append(timers, content)
DebounceFirst(content) == IF timers = <<>> THEN <<content>> ELSE timers
Debounce(content) == <<content>>
Schedule(content) ==
  IF content = 0 THEN UNCHANGED <<timers, indicator>>
  ELSE /\ timers' = Debounce(content)
       /\ indicator' = [indicator EXCEPT !.isSaving = TRUE]

\* The effects on title and intuition store what is not ''; the one on sources
\* stores or removes.
StoredText(old, new) == IF new = Untitled THEN old ELSE new

\* The first effects: the items are read into the state of the next render, and
\* the sources, none yet, remove their item.
MountPage ==
  /\ phase = "closed"
  /\ phase' = "mounting"
  /\ draft' = stored
  /\ stored' = [stored EXCEPT !.sources = {}]
  /\ clobbered' = FALSE
  /\ UNCHANGED <<doc, timers, indicator, edits>>
\* The effects of the next render; the editor is given the content.
FirstRender ==
  /\ phase = "mounting"
  /\ phase' = "open"
  /\ Schedule(draft.content)
  /\ doc' = draft.content
  /\ stored' = [stored EXCEPT !.sources = draft.sources,
                              !.title = StoredText(@, draft.title),
                              !.intuition = StoredText(@, draft.intuition)]
  /\ UNCHANGED <<draft, clobbered, edits>>

\* onUpdate: every change of the document becomes the content.
Edit ==
  /\ phase = "open" /\ edits < MaxEdits
  /\ edits' = edits + 1
  /\ doc' = edits' /\ draft' = [draft EXCEPT !.content = edits']
  /\ Schedule(edits')
  /\ UNCHANGED <<stored, phase, clobbered>>
TypeTitle(t) ==
  /\ phase = "open"
  /\ draft' = [draft EXCEPT !.title = t]
  /\ stored' = [stored EXCEPT !.title = StoredText(@, t)]
  /\ UNCHANGED <<doc, timers, indicator, phase, clobbered, edits>>
TypeIntuition(t) ==
  /\ phase = "open"
  /\ draft' = [draft EXCEPT !.intuition = t]
  /\ stored' = [stored EXCEPT !.intuition = StoredText(@, t)]
  /\ UNCHANGED <<doc, timers, indicator, phase, clobbered, edits>>
SetSources(new) ==
  /\ phase = "open"
  /\ draft' = [draft EXCEPT !.sources = new]
  /\ stored' = [stored EXCEPT !.sources = new]
  /\ UNCHANGED <<doc, timers, indicator, phase, clobbered, edits>>
AddSource(s) == SetSources(draft.sources \cup {s})
RemoveSource(s) == SetSources(draft.sources \ {s})

\* A debounce comes to its end.
SavingStill == [indicator EXCEPT !.lastSaved = TRUE]
Saved == [isSaving |-> FALSE, lastSaved |-> TRUE]
TimerFires ==
  /\ timers # <<>>
  /\ stored' = [stored EXCEPT !.content = Head(timers)]
  /\ timers' = Tail(timers)
  /\ indicator' = Saved
  /\ UNCHANGED <<draft, doc, phase, clobbered, edits>>

\* The publish modal: its own steps are in Publishing.  It lies over the page.
OpenPublish ==
  /\ phase = "open" /\ draft.content # 0
  /\ phase' = "publishing"
  /\ UNCHANGED <<draft, doc, stored, timers, indicator, clobbered, edits>>
ClosePublish ==
  /\ phase = "publishing"
  /\ phase' = "open"
  /\ UNCHANGED <<draft, doc, stored, timers, indicator, clobbered, edits>>
\* The success comes long after a second: two prompts and a confirmation.
PublishSucceeds ==
  /\ phase = "publishing" /\ timers = <<>>
  /\ phase' = "published"
  /\ stored' = Nothing
  /\ UNCHANGED <<draft, doc, timers, indicator, clobbered, edits>>

\* The redirect after a success, another page, a closed tab: the timer is gone.
Leave ==
  /\ phase # "closed"
  /\ phase' = "closed"
  /\ draft' = Nothing /\ doc' = 0 /\ timers' = <<>> /\ indicator' = NoIndicator
  /\ UNCHANGED <<stored, clobbered, edits>>

\* Another tab stores its own version, title or sources, or publishes.
AnotherTab ==
  /\ \/ \E v \in 1..edits : stored' = [stored EXCEPT !.content = v]
     \/ \E t \in Titles : stored' = [stored EXCEPT !.title = t]
     \/ \E ss \in SUBSET DraftSources : stored' = [stored EXCEPT !.sources = ss]
     \/ stored' = Nothing
  /\ clobbered' = TRUE
  /\ UNCHANGED <<draft, doc, timers, indicator, phase, edits>>

Writing == \/ Edit
           \/ \E t \in Texts : TypeTitle(t) \/ TypeIntuition(t)
           \/ \E s \in DraftSources : AddSource(s) \/ RemoveSource(s)
DraftNext == \/ MountPage \/ FirstRender \/ Writing \/ TimerFires
             \/ OpenPublish \/ ClosePublish \/ PublishSucceeds \/ Leave \/ AnotherTab

-----------------------------------------------------------------------------
(* Properties *)

\* What the page says is saved would come back: with "saved" on the screen the
\* stored text is the text in the editor, and the sources, the title and the
\* intuition are stored as they are, an emptied title or intuition excepted
\* (its item stays, and comes back with the next load).
Kept(field) == draft[field] # Untitled => stored[field] = draft[field]
DraftIsStored ==
  phase \in {"open", "publishing"} /\ ~clobbered =>
    /\ doc = draft.content
    /\ ~indicator.isSaving => stored.content = draft.content
    /\ stored.sources = draft.sources /\ Kept("title") /\ Kept("intuition")

\* "Saving" ends.
DraftSaves == indicator.isSaving ~> ~indicator.isSaving
=============================================================================
