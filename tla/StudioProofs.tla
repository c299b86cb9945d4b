---------------------------- MODULE StudioProofs -----------------------------
(***************************************************************************)
(* Proofs about Studio and its parts, for any titles, sources, files,      *)
(* pictures, calls, cards and bounds.                                      *)
(***************************************************************************)
EXTENDS Studio, ListFilterProofs

(* The draft *)

\* A timer is the one of the text shown, and runs exactly while the page says
\* it is saving; before the first render what was read is what is stored.
TimersOK ==
  /\ phase \in {"closed", "mounting", "published"} => timers = <<>>
  /\ timers = <<>> <=> ~indicator.isSaving
  /\ phase \in {"open", "publishing"} =>
       doc = draft.content /\ timers \in {<<>>, <<draft.content>>}
MountOK == phase = "mounting" /\ ~clobbered => stored = [draft EXCEPT !.sources = {}]
DraftInv == DraftTypeOK /\ TimersOK /\ MountOK /\ DraftIsStored

LEMMA NothingType == Nothing \in Items /\ NoIndicator \in [isSaving: BOOLEAN, lastSaved: BOOLEAN]
  BY DraftAssumption DEF Nothing, Items, Texts, NoIndicator

LEMMA DraftInvInit == DraftInit => DraftInv
<1> SUFFICES ASSUME DraftInit
             PROVE  DraftInv
  OBVIOUS
<1>1. DraftTypeOK
  <2>1. 0 \in 0..MaxEdits
    BY DraftAssumption
  <2>2. <<>> \in Seq(0..MaxEdits) /\ Len(<<>>) <= 1
    OBVIOUS
  <2>3. QED
    BY <2>1, <2>2, NothingType DEF DraftInit, DraftTypeOK
<1>2. TimersOK
  BY DEF DraftInit, TimersOK, NoIndicator
<1>3. MountOK /\ DraftIsStored
  BY DEF DraftInit, MountOK, DraftIsStored
<1>4. QED
  BY <1>1, <1>2, <1>3 DEF DraftInv

\* Writing a text: the one timer is that text's.
LEMMA ScheduleOK ==
  ASSUME DraftTypeOK, TimersOK, phase \in {"mounting", "open"},
         NEW n \in 0..MaxEdits, Schedule(n), n = 0 => timers = <<>>
  PROVE  /\ timers' \in Seq(0..MaxEdits) /\ Len(timers') <= 1
         /\ indicator' \in [isSaving: BOOLEAN, lastSaved: BOOLEAN]
         /\ timers' = <<>> <=> ~indicator'.isSaving
         /\ timers' \in {<<>>, <<n>>}
         /\ timers' = <<>> => n = 0
<1>1. CASE n = 0
  BY <1>1 DEF DraftTypeOK, TimersOK, Schedule
<1>2. CASE n # 0
  <2>1. timers' = <<n>> /\ indicator' = [indicator EXCEPT !.isSaving = TRUE]
    BY <1>2 DEF Schedule, Debounce
  <2>2. indicator \in [isSaving: BOOLEAN, lastSaved: BOOLEAN]
    BY DEF DraftTypeOK
  <2>3. indicator' \in [isSaving: BOOLEAN, lastSaved: BOOLEAN] /\ indicator'.isSaving
    BY <2>1, <2>2
  <2>4. QED
    BY <2>1, <2>3
<1>3. QED
  BY <1>1, <1>2

\* TypeTitle, TypeIntuition and SetSources: one item, kept as it is shown.
LEMMA ItemOK ==
  ASSUME DraftInv, phase = "open", draft' \in Items, stored' \in Items,
         draft'.content = draft.content, stored'.content = stored.content,
         draft.sources = stored.sources => draft'.sources = stored'.sources,
         Kept("title") => Kept("title")', Kept("intuition") => Kept("intuition")',
         UNCHANGED <<doc, timers, indicator, phase, clobbered, edits>>
  PROVE  DraftInv'
  BY DEF DraftInv, DraftTypeOK, TimersOK, MountOK, DraftIsStored, Kept

LEMMA DraftInvStep == DraftInv /\ [DraftNext]_draftVars => DraftInv'
<1> SUFFICES ASSUME DraftInv, [DraftNext]_draftVars
             PROVE  DraftInv'
  OBVIOUS
<1>1. DraftTypeOK /\ TimersOK /\ MountOK /\ DraftIsStored
  BY DEF DraftInv
<1>2. CASE MountPage
  <2>1. DraftTypeOK'
    BY <1>1, <1>2 DEF MountPage, DraftTypeOK, Items
  <2>2. TimersOK' /\ MountOK' /\ DraftIsStored'
    BY <1>1, <1>2 DEF MountPage, TimersOK, MountOK, DraftIsStored
  <2>3. QED
    BY <2>1, <2>2 DEF DraftInv
<1>3. CASE FirstRender
  <2>1. /\ draft \in Items /\ stored \in Items /\ draft.content \in 0..MaxEdits
        /\ timers = <<>>
    BY <1>1, <1>3 DEF FirstRender, DraftTypeOK, TimersOK, Items
  <2>2. /\ timers' \in Seq(0..MaxEdits) /\ Len(timers') <= 1
        /\ indicator' \in [isSaving: BOOLEAN, lastSaved: BOOLEAN]
        /\ timers' = <<>> <=> ~indicator'.isSaving
        /\ timers' \in {<<>>, <<draft.content>>}
        /\ timers' = <<>> => draft.content = 0
    BY <1>1, <1>3, <2>1, ScheduleOK DEF FirstRender
  <2>3. /\ stored' \in Items
        /\ stored'.content = stored.content /\ stored'.sources = draft.sources
        /\ stored'.title = StoredText(stored.title, draft.title)
        /\ stored'.intuition = StoredText(stored.intuition, draft.intuition)
    BY <1>3, <2>1 DEF FirstRender, Items, StoredText
  <2>4. DraftTypeOK'
    BY <1>1, <1>3, <2>1, <2>2, <2>3 DEF FirstRender, DraftTypeOK
  <2>5. TimersOK' /\ MountOK'
    BY <1>3, <2>2 DEF FirstRender, TimersOK, MountOK
  <2>6. ~clobbered => stored.content = draft.content
    BY <1>1, <1>3, <2>1 DEF FirstRender, MountOK, Items
  <2>7. DraftIsStored'
    \* The timer that is not set is that of an empty text, which is stored.
    <3>1. ~clobbered /\ ~indicator'.isSaving => stored'.content = draft.content
      BY <2>2, <2>3, <2>6
    <3>2. Kept("title")' /\ Kept("intuition")' /\ stored'.sources = draft'.sources
      BY <1>3, <2>3 DEF FirstRender, Kept, StoredText
    <3>3. QED
      BY <1>3, <3>1, <3>2 DEF FirstRender, DraftIsStored
  <2>8. QED
    BY <2>4, <2>5, <2>7 DEF DraftInv
<1>4. CASE Edit
  <2>1. edits \in 0..MaxEdits /\ edits < MaxEdits /\ draft \in Items
    BY <1>1, <1>4 DEF Edit, DraftTypeOK
  <2>2. edits' \in 0..MaxEdits /\ edits' # 0
    BY <1>4, <2>1, DraftAssumption DEF Edit
  <2>3. draft' \in Items /\ draft'.content = edits' /\ draft'.sources = draft.sources
        /\ draft'.title = draft.title /\ draft'.intuition = draft.intuition
    BY <1>4, <2>1, <2>2 DEF Edit, Items
  <2>4. /\ timers' \in Seq(0..MaxEdits) /\ Len(timers') <= 1
        /\ indicator' \in [isSaving: BOOLEAN, lastSaved: BOOLEAN]
        /\ timers' = <<>> <=> ~indicator'.isSaving
        /\ timers' \in {<<>>, <<edits'>>}
        /\ timers' # <<>>
    <3>1. Schedule(edits') /\ phase = "open"
      BY <1>4 DEF Edit
    <3>2. QED
      BY <1>1, <2>2, <3>1, ScheduleOK
  <2>5. DraftTypeOK'
    BY <1>1, <1>4, <2>2, <2>3, <2>4 DEF Edit, DraftTypeOK
  <2>6. TimersOK' /\ MountOK'
    BY <1>4, <2>3, <2>4 DEF Edit, TimersOK, MountOK
  <2>7. DraftIsStored'
    BY <1>1, <1>4, <2>3, <2>4 DEF Edit, DraftIsStored, Kept
  <2>8. QED
    BY <2>5, <2>6, <2>7 DEF DraftInv
<1>5. ASSUME NEW t \in Texts, TypeTitle(t) \/ TypeIntuition(t)
      PROVE  DraftInv'
  <2>1. draft \in Items /\ stored \in Items
    BY <1>1 DEF DraftTypeOK
  <2>2. /\ draft' \in Items /\ stored' \in Items
        /\ draft'.content = draft.content /\ stored'.content = stored.content
        /\ draft'.sources = draft.sources /\ stored'.sources = stored.sources
    BY <1>5, <2>1 DEF TypeTitle, TypeIntuition, Items, StoredText
  <2>3. (Kept("title") => Kept("title")') /\ (Kept("intuition") => Kept("intuition")')
    BY <1>5, <2>1 DEF TypeTitle, TypeIntuition, Items, StoredText, Kept
  <2>4. phase = "open" /\ UNCHANGED <<doc, timers, indicator, phase, clobbered, edits>>
    BY <1>5 DEF TypeTitle, TypeIntuition
  <2>5. QED
    BY <2>2, <2>3, <2>4, ItemOK
<1>6. ASSUME NEW s \in DraftSources, AddSource(s) \/ RemoveSource(s)
      PROVE  DraftInv'
  <2>1. draft \in Items /\ stored \in Items
    BY <1>1 DEF DraftTypeOK
  <2>2. PICK new \in SUBSET DraftSources : SetSources(new)
    BY <1>6, <2>1 DEF AddSource, RemoveSource, Items
  <2>3. /\ draft' \in Items /\ stored' \in Items
        /\ draft'.content = draft.content /\ stored'.content = stored.content
        /\ draft'.sources = stored'.sources
    BY <2>1, <2>2 DEF SetSources, Items
  <2>4. (Kept("title") => Kept("title")') /\ (Kept("intuition") => Kept("intuition")')
    BY <2>1, <2>2 DEF SetSources, Items, Kept
  <2>5. phase = "open" /\ UNCHANGED <<doc, timers, indicator, phase, clobbered, edits>>
    BY <2>2 DEF SetSources
  <2>6. QED
    BY <2>3, <2>4, <2>5, ItemOK
<1>7. CASE TimerFires
  <2>1. /\ timers \in Seq(0..MaxEdits) /\ Len(timers) = 1 /\ stored \in Items
        /\ phase \in {"open", "publishing"} /\ timers = <<draft.content>>
    BY <1>1, <1>7 DEF TimerFires, DraftTypeOK, TimersOK
  <2>2. timers' = <<>> /\ Head(timers) = draft.content /\ Head(timers) \in 0..MaxEdits
    BY <1>7, <2>1 DEF TimerFires
  <2>3. /\ stored' \in Items /\ stored'.content = draft.content
        /\ stored'.sources = stored.sources /\ stored'.title = stored.title
        /\ stored'.intuition = stored.intuition
    BY <1>7, <2>1, <2>2 DEF TimerFires, Items
  <2>4. DraftTypeOK'
    BY <1>1, <1>7, <2>2, <2>3 DEF TimerFires, DraftTypeOK, Saved
  <2>5. TimersOK' /\ MountOK'
    BY <1>1, <1>7, <2>1, <2>2 DEF TimerFires, TimersOK, MountOK, Saved
  <2>6. DraftIsStored'
    BY <1>1, <1>7, <2>1, <2>3 DEF TimerFires, DraftIsStored, Kept
  <2>7. QED
    BY <2>4, <2>5, <2>6 DEF DraftInv
<1>8. CASE OpenPublish \/ ClosePublish
  BY <1>1, <1>8
  DEF OpenPublish, ClosePublish, DraftInv, DraftTypeOK, TimersOK, MountOK, DraftIsStored, Kept
<1>9. CASE PublishSucceeds
  BY <1>1, <1>9, NothingType
  DEF PublishSucceeds, DraftInv, DraftTypeOK, TimersOK, MountOK, DraftIsStored, Kept
<1>10. CASE Leave
  BY <1>1, <1>10, NothingType, DraftAssumption
  DEF Leave, DraftInv, DraftTypeOK, TimersOK, MountOK, DraftIsStored, Kept, NoIndicator
<1>11. CASE AnotherTab
  <2>1. stored \in Items /\ edits \in 0..MaxEdits
    BY <1>1 DEF DraftTypeOK
  <2>2. stored' \in Items
    BY <1>11, <2>1, NothingType, DraftAssumption DEF AnotherTab, Items, Texts
  <2>3. QED
    BY <1>1, <1>11, <2>2
    DEF AnotherTab, DraftInv, DraftTypeOK, TimersOK, MountOK, DraftIsStored, Kept
<1>12. CASE UNCHANGED draftVars
  BY <1>1, <1>12
  DEF draftVars, DraftInv, DraftTypeOK, TimersOK, MountOK, DraftIsStored, Kept
<1>13. QED
  BY <1>2, <1>3, <1>4, <1>5, <1>6, <1>7, <1>8, <1>9, <1>10, <1>11, <1>12
  DEF DraftNext, Writing


-----------------------------------------------------------------------------
(* Inserting an image *)

LEMMA RemoveAtElements ==
  ASSUME NEW S, NEW s \in Seq(S), NEW i \in DOMAIN s
  PROVE  /\ RemoveAt(s, i) \in Seq(S)
         /\ \A j \in DOMAIN RemoveAt(s, i) : \E k \in DOMAIN s : RemoveAt(s, i)[j] = s[k]
<1> DEFINE head == SubSeq(s, 1, i - 1)
           tail == SubSeq(s, i + 1, Len(s))
<1>1. i \in 1..Len(s) /\ Len(s) \in Nat /\ DOMAIN s = 1..Len(s)
  BY LenProperties
<1>2. /\ head \in Seq(S) /\ Len(head) = i - 1
      /\ \A j \in 1..(i - 1) : head[j] = s[j]
  BY <1>1, SubSeqProperties
<1>3. /\ tail \in Seq(S) /\ Len(tail) = Len(s) - i
      /\ \A j \in 1..(Len(s) - i) : tail[j] = s[i + j]
  BY <1>1, SubSeqProperties
<1> HIDE DEF head, tail
<1>4. /\ head \o tail \in Seq(S) /\ Len(head \o tail) = Len(s) - 1
      /\ \A j \in 1..Len(head \o tail) :
           (head \o tail)[j] = IF j <= i - 1 THEN head[j] ELSE tail[j - (i - 1)]
  <2>1. /\ head \o tail \in Seq(S)
        /\ Len(head \o tail) = Len(head) + Len(tail)
        /\ \A j \in 1..(Len(head) + Len(tail)) :
             (head \o tail)[j] = IF j <= Len(head) THEN head[j] ELSE tail[j - Len(head)]
    BY <1>2, <1>3, ConcatProperties
  <2>2. Len(head) = i - 1 /\ Len(head) + Len(tail) = Len(s) - 1
    BY <1>1, <1>2, <1>3
  <2>3. QED
    BY <2>1, <2>2
<1>5. ASSUME NEW j \in DOMAIN (head \o tail)
      PROVE  \E k \in DOMAIN s : (head \o tail)[j] = s[k]
  <2>1. j \in 1..(Len(s) - 1) /\ j \in 1..Len(head \o tail)
    BY <1>1, <1>4, LenProperties
  <2>2. CASE j <= i - 1
    BY <1>1, <1>2, <1>4, <2>1, <2>2
  <2>3. CASE ~(j <= i - 1)
    <3>1. j - (i - 1) \in 1..(Len(s) - i) /\ i + (j - (i - 1)) = j + 1 /\ j + 1 \in 1..Len(s)
      BY <1>1, <2>1, <2>3
    <3>2. (head \o tail)[j] = tail[j - (i - 1)]
      BY <1>4, <2>1, <2>3
    <3>3. tail[j - (i - 1)] = s[j + 1]
      BY <1>3, <3>1
    <3>4. QED
      BY <1>1, <3>1, <3>2, <3>3
  <2>4. QED
    BY <2>2, <2>3
<1>6. RemoveAt(s, i) = head \o tail
  BY DEF RemoveAt, head, tail
<1>7. QED
  BY <1>4, <1>5, <1>6

\* The dialog holds a file or a URL, the one that was chosen last; a read that
\* inserts is of what was wanted at its click.
ChosenOK ==
  /\ image.file # NoImage => chosen = image.file /\ image.url = NoImage
  /\ image.file = NoImage /\ image.url # NoImage => chosen = image.url
ReadsOK == \A i \in DOMAIN reads : reads[i].for = "insert" => reads[i].file = reads[i].wanted
ImageInv == ImageTypeOK /\ ChosenOK /\ ReadsOK /\ InsertedWasChosen

LEMMA ImageInvInit == ImageInit => ImageInv
<1> SUFFICES ASSUME ImageInit
             PROVE  ImageInv
  OBVIOUS
<1>1. ImageTypeOK
  BY DEF ImageInit, ImageTypeOK, NoPicture, Images, Insertion
<1>2. ChosenOK /\ ReadsOK /\ InsertedWasChosen
  BY DEF ImageInit, ChosenOK, ReadsOK, InsertedWasChosen, NoPicture
<1>3. QED
  BY <1>1, <1>2 DEF ImageInv

\* A read that starts, to show a file or to insert the one wanted.
LEMMA StartedRead ==
  ASSUME reads \in Seq(Read), ReadsOK, NEW r \in Read, r.for = "insert" => r.file = r.wanted,
         reads' = Append(reads, r)
  PROVE  reads' \in Seq(Read) /\ ReadsOK'
<1>1. /\ reads' \in Seq(Read) /\ DOMAIN reads' = 1..(Len(reads) + 1)
      /\ DOMAIN reads = 1..Len(reads) /\ Len(reads) \in Nat
      /\ reads'[Len(reads) + 1] = r
      /\ \A i \in 1..Len(reads) : reads'[i] = reads[i]
  BY AppendProperties, LenProperties
<1>2. QED
  BY <1>1 DEF ReadsOK

LEMMA ImageInvStep == ImageInv /\ [ImageNext]_imageVars => ImageInv'
<1> SUFFICES ASSUME ImageInv, [ImageNext]_imageVars
             PROVE  ImageInv'
  OBVIOUS
<1> DEFINE Dialog == [open: BOOLEAN, file: Pictures \cup {NoImage}, url: Urls \cup {NoImage},
                      preview: Pictures \cup {NoImage}]
<1>1. ImageTypeOK /\ ChosenOK /\ ReadsOK /\ InsertedWasChosen /\ image \in Dialog
  BY DEF ImageInv, ImageTypeOK
<1>2. NoPicture \in Dialog /\ NoPicture.file = NoImage /\ NoPicture.url = NoImage
  BY DEF NoPicture
<1>3. CASE OpenImage
  <2>1. /\ image' \in Dialog /\ image'.file = image.file /\ image'.url = image.url
        /\ UNCHANGED <<reads, chosen, inserted>>
    BY <1>1, <1>3 DEF OpenImage
  <2>2. QED
    BY <1>1, <2>1 DEF ImageInv, ImageTypeOK, ChosenOK, ReadsOK, InsertedWasChosen
<1>4. CASE CancelImage
  BY <1>1, <1>2, <1>4
  DEF CancelImage, ImageInv, ImageTypeOK, ChosenOK, ReadsOK, InsertedWasChosen, Images
<1>5. ASSUME NEW f \in Pictures, PickFile(f)
      PROVE  ImageInv'
  <2>1. image' \in Dialog /\ image'.file = f /\ image'.url = NoImage /\ chosen' = f
    BY <1>1, <1>5 DEF PickFile
  <2>2. reads' \in Seq(Read) /\ ReadsOK'
    <3> DEFINE r == [for |-> "preview", file |-> f, wanted |-> f]
    <3>1. r \in Read /\ r.for # "insert"
      BY DEF Read, Images
    <3>2. reads' = Append(reads, r)
      BY <1>5 DEF PickFile
    <3>3. reads \in Seq(Read)
      BY <1>1 DEF ImageTypeOK
    <3> HIDE DEF r
    <3>4. QED
      BY <1>1, <3>1, <3>2, <3>3, StartedRead
  <2>3. QED
    BY <1>1, <1>5, <2>1, <2>2, ImageAssumption
    DEF PickFile, ImageInv, ImageTypeOK, ChosenOK, InsertedWasChosen, Images
<1>6. ASSUME NEW u \in Urls \cup {NoImage}, TypeUrl(u)
      PROVE  ImageInv'
  <2>1. image' \in Dialog /\ image'.file = NoImage /\ image'.url = u /\ chosen' = u
    BY <1>1, <1>6 DEF TypeUrl, Typed
  <2>2. QED
    BY <1>1, <1>6, <2>1
    DEF TypeUrl, ImageInv, ImageTypeOK, ChosenOK, ReadsOK, InsertedWasChosen, Images
<1>7. CASE InsertFile
  <2>1. image.file \in Pictures /\ chosen = image.file
    BY <1>1, <1>7 DEF InsertFile, ChosenOK
  <2>2. reads' \in Seq(Read) /\ ReadsOK'
    <3> DEFINE r == [for |-> "insert", file |-> image.file, wanted |-> chosen]
    <3>1. r \in Read /\ r.file = r.wanted
      BY <2>1 DEF Read, Images
    <3>2. reads' = Append(reads, r)
      BY <1>7 DEF InsertFile
    <3>3. reads \in Seq(Read)
      BY <1>1 DEF ImageTypeOK
    <3> HIDE DEF r
    <3>4. QED
      BY <1>1, <3>1, <3>2, <3>3, StartedRead
  <2>3. QED
    BY <1>1, <1>7, <2>2
    DEF InsertFile, ImageInv, ImageTypeOK, ChosenOK, InsertedWasChosen
<1>8. CASE InsertUrl
  <2>1. chosen = image.url /\ image.url \in Urls
    BY <1>1, <1>8 DEF InsertUrl, ChosenOK
  <2>2. image' \in Dialog /\ image'.file = NoImage /\ image'.url = NoImage
    BY <1>1, <1>8 DEF InsertUrl
  <2>3. inserted' \in Insertion /\ inserted'.src = inserted'.wanted
    BY <1>8, <2>1 DEF InsertUrl, Insertion, Images
  <2>4. QED
    BY <1>1, <1>8, <2>2, <2>3
    DEF InsertUrl, ImageInv, ImageTypeOK, ChosenOK, ReadsOK, InsertedWasChosen, Images
<1>9. ASSUME NEW i \in DOMAIN reads, ReadEnds(i)
      PROVE  ImageInv'
  <2>1. reads \in Seq(Read) /\ reads[i] \in Read
    BY <1>1, ElementOfSeq, LenProperties DEF ImageTypeOK
  <2>2. reads' \in Seq(Read) /\ \A j \in DOMAIN reads' : \E k \in DOMAIN reads : reads'[j] = reads[k]
    BY <1>9, <2>1, RemoveAtElements DEF ReadEnds
  <2>3. ReadsOK'
    BY <1>1, <2>2 DEF ReadsOK
  <2>4. CASE reads[i].for = "preview"
    <3>1. /\ image' \in Dialog /\ image'.file = image.file /\ image'.url = image.url
          /\ UNCHANGED <<chosen, inserted>>
      BY <1>1, <1>9, <2>1, <2>4 DEF ReadEnds, Read
    <3>2. QED
      BY <1>1, <2>2, <2>3, <3>1 DEF ImageInv, ImageTypeOK, ChosenOK, InsertedWasChosen
  <2>5. CASE reads[i].for = "insert"
    <3>1. image' \in Dialog /\ image'.file = NoImage /\ image'.url = image.url
      BY <1>1, <1>9, <2>5 DEF ReadEnds
    <3>2. inserted' \in Insertion /\ inserted'.src = inserted'.wanted
      BY <1>1, <1>9, <2>1, <2>5 DEF ReadEnds, ReadsOK, Read, Insertion, Images
    <3>3. chosen' = IF chosen \in Pictures THEN NoImage ELSE chosen
      BY <1>9, <2>5 DEF ReadEnds
    <3>4. ChosenOK' /\ chosen' \in Images
      BY <1>1, <3>1, <3>3, ImageAssumption DEF ChosenOK, ImageTypeOK, Images
    <3>5. QED
      BY <2>2, <2>3, <3>1, <3>2, <3>4 DEF ImageInv, ImageTypeOK, InsertedWasChosen
  <2>6. QED
    BY <2>1, <2>4, <2>5 DEF Read
<1>10. CASE UNCHANGED imageVars
  BY <1>1, <1>10
  DEF imageVars, ImageInv, ImageTypeOK, ChosenOK, ReadsOK, InsertedWasChosen
<1>11. QED
  BY <1>3, <1>4, <1>5, <1>6, <1>7, <1>8, <1>9, <1>10 DEF ImageNext

-----------------------------------------------------------------------------
(* Requests to the assistant *)

Call == [at: Places, retryOnAuth: BOOLEAN, bearer: Jwts, reply: Reply]

\* What is not blocked is nothing that the filter recognises, and what is
\* blocked is replaced by the program's own words.  In a chat it recognises a
\* section too.
CleanReply(c, reply) == /\ reply \in Reply /\ reply.text # "final"
                        /\ c \in ChatRuns => reply.text # "section"
ClientInv == ClientTypeOK /\ \A c \in AiCalls : CleanReply(c, calls[c].reply)

LEMMA CallTypes ==
  /\ \A c \in AiCalls : CleanReply(c, NoReply)
  /\ Idle \in Call /\ Idle.reply = NoReply
  /\ \A c \in AiCalls, why \in Failures : CleanReply(c, Failed(why))
  /\ \A bearer \in Jwts, again \in BOOLEAN :
       Sent(bearer, again) \in Call /\ Sent(bearer, again).reply = NoReply
  BY DEF CleanReply, NoReply, Idle, Call, Places, Jwts, Reply, Failures, Prose, Failed, Sent

LEMMA ClientInvInit == ClientInit => ClientInv
<1> SUFFICES ASSUME ClientInit
             PROVE  ClientInv
  OBVIOUS
<1>1. ClientTypeOK
  BY CallTypes DEF ClientInit, ClientTypeOK, Call, Jwts
<1>2. \A c \in AiCalls : CleanReply(c, calls[c].reply)
  BY CallTypes DEF ClientInit
<1>3. QED
  BY <1>1, <1>2 DEF ClientInv

\* A step of one call: its new value is a call with a clean reply, the rest of
\* the calls is as it was.
LEMMA OneCall ==
  ASSUME ClientInv, NEW c \in AiCalls, NEW new \in Call, CleanReply(c, new.reply),
         calls' = [calls EXCEPT ![c] = new],
         jwt' \in Jwts, newest' \in AiCalls \cup {TheGate, NoHolder},
         gate' \in {"idle", "challenge", "sign"}
  PROVE  ClientInv' /\ \A d \in AiCalls \ {c} : calls'[d] = calls[d]
<1>1. calls \in [AiCalls -> Call] /\ \A d \in AiCalls : CleanReply(d, calls[d].reply)
  BY DEF ClientInv, ClientTypeOK, Call
<1>2. calls' \in [AiCalls -> Call]
  BY <1>1
<1>3. calls'[c] = new /\ \A d \in AiCalls \ {c} : calls'[d] = calls[d]
  BY <1>1
<1>4. ClientTypeOK'
  BY <1>2 DEF ClientTypeOK, Call
<1>5. QED
  BY <1>1, <1>3, <1>4 DEF ClientInv

LEMMA MovedCall ==
  ASSUME ClientInv, NEW c \in AiCalls, NEW place \in Places,
         calls' = [calls EXCEPT ![c].at = place],
         jwt' \in Jwts, newest' \in AiCalls \cup {TheGate, NoHolder},
         gate' \in {"idle", "challenge", "sign"}
  PROVE  ClientInv' /\ \A d \in AiCalls \ {c} : calls'[d] = calls[d]
<1> DEFINE new == [calls[c] EXCEPT !.at = place]
<1>1. calls[c] \in Call /\ CleanReply(c, calls[c].reply)
  BY DEF ClientInv, ClientTypeOK, Call
<1>2. new \in Call /\ new.reply = calls[c].reply
  BY <1>1 DEF Call
<1>3. calls' = [calls EXCEPT ![c] = new]
  OBVIOUS
<1> HIDE DEF new
<1>4. QED
  BY <1>1, <1>2, <1>3, OneCall

LEMMA RepliedCall ==
  ASSUME ClientInv, NEW c \in AiCalls, NEW reply, CleanReply(c, reply), NEW place \in Places,
         calls' = [calls EXCEPT ![c].at = place, ![c].reply = reply],
         UNCHANGED <<jwt, newest, gate>>
  PROVE  ClientInv' /\ \A d \in AiCalls \ {c} : calls'[d] = calls[d]
<1> DEFINE new == [calls[c] EXCEPT !.at = place, !.reply = reply]
<1>1. /\ calls \in [AiCalls -> Call] /\ calls[c] \in Call
      /\ jwt \in Jwts /\ newest \in AiCalls \cup {TheGate, NoHolder}
      /\ gate \in {"idle", "challenge", "sign"}
  BY DEF ClientInv, ClientTypeOK, Call
<1>2. new \in Call /\ new.reply = reply
  BY <1>1 DEF Call, CleanReply
<1>3. calls' = [calls EXCEPT ![c] = new]
  BY <1>1
<1> HIDE DEF new
<1>4. QED
  BY <1>1, <1>2, <1>3, OneCall

LEMMA ThrownCall ==
  ASSUME ClientInv, NEW c \in AiCalls, Throws(c), UNCHANGED <<jwt, newest, gate>>
  PROVE  ClientInv' /\ \A d \in AiCalls \ {c} : calls'[d] = calls[d]
<1>1. CleanReply(c, Failed("plain")) /\ "done" \in Places
  BY CallTypes DEF Failures, Places
<1>2. QED
  BY <1>1, RepliedCall DEF Throws

LEMMA AnsweredCall ==
  ASSUME ClientInv, NEW c \in AiCalls, NEW reply, CleanReply(c, reply), Replied(c, reply),
         UNCHANGED <<jwt, newest, gate>>
  PROVE  ClientInv' /\ \A d \in AiCalls \ {c} : calls'[d] = calls[d]
<1> DEFINE place == IF Renews(c, reply) THEN "refused" ELSE "done"
<1>1. place \in Places /\ calls' = [calls EXCEPT ![c].at = place, ![c].reply = reply]
  BY DEF Replied, Places
<1> HIDE DEF place
<1>2. QED
  BY <1>1, RepliedCall

\* The filter: what it recognises comes through neither as an answer nor, as far
\* as it can be seen in JSON, as a suggestion.
LEMMA FilteredAnswer ==
  ASSUME NEW c, NEW text \in ModelText \ {"nothing"}, NEW b \in AnswerBlocked(text)
  PROVE  CleanReply(c, Answer(text, b))
<1>1. b \in BOOLEAN /\ (text \in {"section", "final"} => b)
  BY DEF AnswerBlocked, Blocks
<1>2. QED
  BY <1>1 DEF Answer, CleanReply, NoReply, Reply, Failures, Prose, ModelText

LEMMA FilteredAnalysis ==
  ASSUME NEW c \in Cards, NEW raw \in Raw, NEW b \in AnalysisBlocked(Parsed(raw))
  PROVE  CleanReply(c, Analysis(Parsed(raw), b))
<1> DEFINE data == Parsed(raw)
           said == {"section", "final", "notice"}
<1>1. data.text \in ModelText /\ data.warnings \in SUBSET said
  <2>1. /\ raw.form \in {"json", "salvaged", "broken"}
        /\ raw.text \in ModelText /\ raw.warnings \in {{}, {"section"}, {"final"}}
    BY DEF Raw
  <2>2. CASE raw.form = "json"
    BY <2>1, <2>2 DEF Parsed
  <2>3. CASE raw.form = "salvaged"
    BY <2>1, <2>3 DEF Parsed
  <2>4. CASE raw.form = "broken"
    BY <2>1, <2>4 DEF Parsed, ModelText
  <2>5. QED
    BY <2>1, <2>2, <2>3, <2>4
<1>2. b \in BOOLEAN /\ (data.text = "final" => b)
  BY DEF AnalysisBlocked, Blocks
<1>3. c \notin ChatRuns
  BY ClientAssumption
<1> HIDE DEF data
<1>4. CASE b
  <2>1. Analysis(data, b) = [failed |-> "none", text |-> "nothing",
                             warnings |-> data.warnings \cup {"notice"}]
    BY <1>4 DEF Analysis, Hardened
  <2>2. data.warnings \cup {"notice"} \in SUBSET said
    BY <1>1
  <2>3. Analysis(data, b) \in Reply
    BY <2>1, <2>2 DEF Reply, Failures, Prose
  <2>4. Analysis(data, b).text # "final"
    BY <2>1
  <2>5. QED
    BY <1>3, <2>3, <2>4 DEF CleanReply, data
<1>5. CASE ~b
  <2>1. Analysis(data, b) = [failed |-> "none", text |-> data.text,
                             warnings |-> data.warnings]
    BY <1>5 DEF Analysis
  <2>2. data.text \in {"nothing", "advice", "section"}
    BY <1>1, <1>2, <1>5 DEF ModelText
  <2>3. Analysis(data, b) \in Reply
    BY <1>1, <2>1, <2>2 DEF Reply, Failures, Prose
  <2>4. Analysis(data, b).text # "final"
    BY <2>1, <2>2
  <2>5. QED
    BY <1>3, <2>3, <2>4 DEF CleanReply, data
<1>6. QED
  BY <1>2, <1>4, <1>5

\* A step of a call keeps the replies clean and leaves the other calls alone.
LEMMA CallStepInv ==
  ASSUME ClientInv, NEW c \in AiCalls, CallStep(c)
  PROVE  ClientInv' /\ \A d \in AiCalls \ {c} : calls'[d] = calls[d]
<1>1. /\ calls \in [AiCalls -> Call]
      /\ jwt \in Jwts /\ newest \in AiCalls \cup {TheGate, NoHolder}
      /\ gate \in {"idle", "challenge", "sign"}
  BY DEF ClientInv, ClientTypeOK, Call
<1>2. CASE RequireAuth(c)
  <2>1. CASE calls' = [calls EXCEPT ![c].at = "sources"]
    <3>1. "sources" \in Places
      BY DEF Places
    <3>2. UNCHANGED <<jwt, newest, gate>>
      BY <1>2 DEF RequireAuth
    <3>3. QED
      BY <1>1, <2>1, <3>1, <3>2, MovedCall
  <2>2. CASE Replied(c, Failed("auth"))
    <3>1. CleanReply(c, Failed("auth"))
      BY CallTypes DEF Failures
    <3>2. UNCHANGED <<jwt, newest, gate>>
      BY <1>2 DEF RequireAuth
    <3>3. QED
      BY <2>2, <3>1, <3>2, AnsweredCall
  <2>3. QED
    BY <1>2, <2>1, <2>2 DEF RequireAuth
<1>3. CASE SourcesRead(c) \/ UserSigns(c)
  <2>1. PICK place \in Places : calls' = [calls EXCEPT ![c].at = place]
    BY <1>3 DEF SourcesRead, UserSigns, Places
  <2>2. UNCHANGED <<jwt, newest, gate>>
    BY <1>3 DEF SourcesRead, UserSigns
  <2>3. QED
    BY <1>1, <2>1, <2>2, MovedCall
<1>4. CASE ModelAnswers(c)
  <2>1. UNCHANGED <<jwt, newest, gate>>
    BY <1>4 DEF ModelAnswers
  <2>2. CASE \E text \in ModelText \ {"nothing"} : \E b \in AnswerBlocked(text) :
               Replied(c, Answer(text, b))
    <3>1. PICK text \in ModelText \ {"nothing"} :
            \E b \in AnswerBlocked(text) : Replied(c, Answer(text, b))
      BY <2>2
    <3>2. PICK b \in AnswerBlocked(text) : Replied(c, Answer(text, b))
      BY <3>1
    <3>3. CleanReply(c, Answer(text, b))
      BY FilteredAnswer
    <3>4. QED
      BY <2>1, <3>2, <3>3, AnsweredCall
  <2>3. CASE c \in Cards /\ \E raw \in Raw : \E b \in AnalysisBlocked(Parsed(raw)) :
               Replied(c, Analysis(Parsed(raw), b))
    <3>1. PICK raw \in Raw :
            \E b \in AnalysisBlocked(Parsed(raw)) : Replied(c, Analysis(Parsed(raw), b))
      BY <2>3
    <3>2. PICK b \in AnalysisBlocked(Parsed(raw)) : Replied(c, Analysis(Parsed(raw), b))
      BY <3>1
    <3>3. CleanReply(c, Analysis(Parsed(raw), b))
      BY <2>3, FilteredAnalysis
    <3>4. QED
      BY <2>1, <3>2, <3>3, AnsweredCall
  <2>4. QED
    BY <1>4, <2>2, <2>3 DEF ModelAnswers
<1>5. CASE ModelFails(c)
  <2>1. PICK why \in Failures : Replied(c, Failed(why))
    BY <1>5 DEF ModelFails, Failures
  <2>2. CleanReply(c, Failed(why)) /\ UNCHANGED <<jwt, newest, gate>>
    BY <1>5, CallTypes DEF ModelFails
  <2>3. QED
    BY <2>1, <2>2, AnsweredCall
<1>6. CASE RefreshWithPhantom(c) \/ RefreshByEvent(c)
  <2>1. PICK place \in Places : calls' = [calls EXCEPT ![c].at = place]
    BY <1>6 DEF RefreshWithPhantom, RefreshByEvent, Places
  <2>2. jwt' \in Jwts /\ newest' = newest /\ gate' \in {"idle", "challenge", "sign"}
    BY <1>1, <1>6 DEF RefreshWithPhantom, RefreshByEvent, Jwts
  <2>3. QED
    BY <1>1, <2>1, <2>2, MovedCall
<1>7. CASE ChallengeGiven(c)
  <2>1. "sign" \in Places /\ calls' = [calls EXCEPT ![c].at = "sign"]
    BY <1>7 DEF ChallengeGiven, Places
  <2>2. jwt' = jwt /\ newest' = c /\ gate' = gate
    BY <1>7 DEF ChallengeGiven
  <2>3. QED
    BY <1>1, <2>1, <2>2, MovedCall
<1>8. CASE Verified(c)
  <2>1. Sent("good", AsksAgain) \in Call /\ CleanReply(c, Sent("good", AsksAgain).reply)
    BY CallTypes DEF Jwts, AsksAgain
  <2>2. jwt' \in Jwts /\ newest' = NoHolder /\ gate' = gate
    BY <1>8 DEF Verified, Jwts
  <2>3. calls' = [calls EXCEPT ![c] = Sent("good", AsksAgain)]
    BY <1>8 DEF Verified
  <2>4. QED
    BY <1>1, <2>1, <2>2, <2>3, OneCall
<1>9. CASE WaitEnds(c)
  <2>1. UNCHANGED <<jwt, newest, gate>>
    BY <1>9 DEF WaitEnds
  <2>2. CASE Throws(c)
    BY <2>1, <2>2, ThrownCall
  <2>3. CASE calls' = [calls EXCEPT ![c] = Sent(jwt, AsksAgain)]
    <3>1. Sent(jwt, AsksAgain) \in Call /\ CleanReply(c, Sent(jwt, AsksAgain).reply)
      BY <1>1, CallTypes DEF AsksAgain
    <3>2. QED
      BY <1>1, <2>1, <2>3, <3>1, OneCall
  <2>4. QED
    BY <1>9, <2>2, <2>3 DEF WaitEnds
<1>10. CASE RefreshFails(c) \/ Unreachable(c)
  BY <1>10, ThrownCall DEF RefreshFails, Unreachable
<1>11. QED
  BY <1>2, <1>3, <1>4, <1>5, <1>6, <1>7, <1>8, <1>9, <1>10 DEF CallStep, CallProgress

LEMMA SessionStepInv ==
  ASSUME ClientInv, SessionStep
  PROVE  ClientInv' /\ calls' = calls
<1>1. calls' = calls
  BY DEF SessionStep, GateChallenged, GateSigns, GateFails, JwtExpires
<1>2. /\ jwt' \in Jwts /\ newest' \in AiCalls \cup {TheGate, NoHolder}
      /\ gate' \in {"idle", "challenge", "sign"}
  BY DEF SessionStep, GateChallenged, GateSigns, GateFails, JwtExpires, ClientInv,
         ClientTypeOK, Jwts
<1>3. QED
  BY <1>1, <1>2 DEF ClientInv, ClientTypeOK

\* A call that is posted, and one whose reply the page has taken.
LEMMA PostInv ==
  ASSUME ClientInv, NEW c \in AiCalls, Post(c), UNCHANGED <<jwt, newest, gate>>
  PROVE  ClientInv'
<1>1. jwt \in Jwts /\ newest \in AiCalls \cup {TheGate, NoHolder}
      /\ gate \in {"idle", "challenge", "sign"}
  BY DEF ClientInv, ClientTypeOK
<1>2. Sent(jwt, TRUE) \in Call /\ CleanReply(c, Sent(jwt, TRUE).reply)
  BY <1>1, CallTypes
<1>3. QED
  BY <1>1, <1>2, OneCall DEF Post

LEMMA TakenInv ==
  ASSUME ClientInv, NEW c \in AiCalls, calls' = [calls EXCEPT ![c] = Idle],
         UNCHANGED <<jwt, newest, gate>>
  PROVE  ClientInv'
<1>1. jwt \in Jwts /\ newest \in AiCalls \cup {TheGate, NoHolder}
      /\ gate \in {"idle", "challenge", "sign"}
  BY DEF ClientInv, ClientTypeOK
<1>2. Idle \in Call /\ CleanReply(c, Idle.reply)
  BY CallTypes
<1>3. QED
  BY <1>1, <1>2, OneCall

-----------------------------------------------------------------------------
(* The chat *)

\* The runs that the open chat still waits for.
Waits(q) == asks[q] # 0

\* There is one at most, for the question asked last, which is the last message.
WaitsOK ==
  \A q \in ChatRuns : Waits(q) =>
    /\ asks[q] = chat.asked /\ chat.open /\ chat.isLoading
    /\ messages # <<>> /\ messages[Len(messages)] = Question(asks[q])
    /\ \A r \in ChatRuns : Waits(r) => r = q
ChatInv == ChatTypeOK /\ WaitsOK /\ AnswersFollowQuestions /\ NoGhostAnswer

LEMMA ChatTypes ==
  /\ Closed \in [open: BOOLEAN, input: BOOLEAN, isLoading: BOOLEAN, error: BOOLEAN,
                 asked: 0..MaxQuestions]
  /\ Welcome \in Message /\ Welcome.text \notin {"section", "final"}
  /\ \A n \in 0..MaxQuestions :
       /\ Question(n) \in Message /\ Question(n).text \notin {"section", "final"}
       /\ Question(n).role # "assistant"
<1>1. 0 \in 0..MaxQuestions
  BY ChatAssumption
<1>2. QED
  BY <1>1 DEF Closed, Welcome, Question, Message, Prose

LEMMA ChatInvInit == ChatInit => ChatInv
<1> SUFFICES ASSUME ChatInit
             PROVE  ChatInv
  OBVIOUS
<1>1. 0 \in 0..MaxQuestions /\ <<>> \in Seq(Message) /\ DOMAIN <<>> = {}
  BY ChatAssumption
<1>2. ChatTypeOK
  BY <1>1, ChatTypes DEF ChatInit, ChatTypeOK
<1>3. WaitsOK
  BY DEF ChatInit, WaitsOK, Waits
<1>4. AnswersFollowQuestions /\ NoGhostAnswer
  BY <1>1 DEF ChatInit, AnswersFollowQuestions, NoGhostAnswer
<1>5. QED
  BY <1>2, <1>3, <1>4 DEF ChatInv

\* One message more keeps the order, if it is the user's or answers the last.
LEMMA OneMessage ==
  ASSUME ChatInv, NEW m \in Message, m.text \notin {"section", "final"},
         messages' = Append(messages, m),
         m.role = "assistant" =>
           messages # <<>> /\ messages[Len(messages)] = Question(m.about)
  PROVE  /\ messages' \in Seq(Message) /\ AnswersFollowQuestions' /\ NoGhostAnswer'
         /\ messages' # <<>> /\ messages'[Len(messages')] = m
<1>1. messages \in Seq(Message)
  BY DEF ChatInv, ChatTypeOK
<1>2. /\ messages' \in Seq(Message) /\ Len(messages') = Len(messages) + 1
      /\ messages'[Len(messages) + 1] = m
      /\ \A i \in 1..Len(messages) : messages'[i] = messages[i]
      /\ DOMAIN messages' = 1..(Len(messages) + 1)
      /\ DOMAIN messages = 1..Len(messages) /\ Len(messages) \in Nat
  BY <1>1, AppendProperties, LenProperties
<1>3. ASSUME NEW i \in DOMAIN messages' \ {1}, messages'[i].role = "assistant"
      PROVE  messages'[i - 1] = Question(messages'[i].about)
  <2>1. CASE i \in 1..Len(messages)
    <3>1. i - 1 \in 1..Len(messages) /\ i \in DOMAIN messages \ {1}
      BY <1>2, <1>3, <2>1
    <3>2. QED
      BY <1>2, <1>3, <2>1, <3>1 DEF ChatInv, AnswersFollowQuestions
  <2>2. CASE i = Len(messages) + 1
    <3>1. i - 1 = Len(messages) /\ i - 1 \in 1..Len(messages)
      BY <1>2, <1>3, <2>2
    <3>2. QED
      BY <1>2, <1>3, <2>2, <3>1
  <2>3. QED
    BY <1>2, <2>1, <2>2
<1>4. NoGhostAnswer'
  BY <1>2 DEF ChatInv, NoGhostAnswer
<1>5. messages' # <<>>
  BY <1>2, EmptySeq
<1>6. QED
  BY <1>2, <1>3, <1>4, <1>5 DEF AnswersFollowQuestions

LEMMA ChatKept ==
  ASSUME ChatInv, UNCHANGED chatVars
  PROVE  ChatInv'
  BY DEF chatVars, ChatInv, ChatTypeOK, WaitsOK, Waits, AnswersFollowQuestions, NoGhostAnswer

LEMMA ChatInvStep ==
  ASSUME ClientInv, ChatInv, [ChatNext]_<<aiVars, chatVars>>
  PROVE  ClientInv' /\ ChatInv'
<1>1. /\ ChatTypeOK /\ WaitsOK /\ AnswersFollowQuestions /\ NoGhostAnswer
      /\ messages \in Seq(Message) /\ asks \in [ChatRuns -> 0..MaxQuestions]
      /\ chat.asked \in 0..MaxQuestions
  BY DEF ChatInv, ChatTypeOK
<1>2. ASSUME UNCHANGED aiVars
      PROVE  ClientInv'
  BY <1>2 DEF aiVars, ClientInv, ClientTypeOK
<1> DEFINE ChatState == [open: BOOLEAN, input: BOOLEAN, isLoading: BOOLEAN, error: BOOLEAN,
                         asked: 0..MaxQuestions]
<1>3. chat \in ChatState
  BY <1>1 DEF ChatTypeOK
<1>4. CASE OpenChat
  <2>1. chat' \in ChatState /\ chat'.asked = chat.asked /\ chat'.isLoading = chat.isLoading
    BY <1>3, <1>4 DEF OpenChat
  <2>2. messages' = <<Welcome>> /\ asks' = asks
    BY <1>4 DEF OpenChat
  <2>3. messages' \in Seq(Message) /\ DOMAIN messages' = {1} /\ messages'[1] = Welcome
    BY <2>2, ChatTypes
  <2>4. \A q \in ChatRuns : ~Waits(q)
    BY <1>1, <1>4 DEF OpenChat, WaitsOK
  <2>5. ChatTypeOK' /\ WaitsOK' /\ AnswersFollowQuestions' /\ NoGhostAnswer'
    BY <1>1, <2>1, <2>2, <2>3, <2>4, ChatTypes
    DEF ChatTypeOK, WaitsOK, Waits, AnswersFollowQuestions, NoGhostAnswer
  <2>6. QED
    BY <1>2, <1>4, <2>5 DEF OpenChat, ChatInv
<1>5. CASE CloseChat
  <2>1. chat' \in ChatState
    BY <1>3, <1>5, ChatTypes DEF CloseChat, Closed
  <2>2. messages' = <<>> /\ asks' = [q \in ChatRuns |-> 0]
    BY <1>5 DEF CloseChat
  <2>3. <<>> \in Seq(Message) /\ DOMAIN <<>> = {} /\ 0 \in 0..MaxQuestions
    BY ChatAssumption
  <2>4. ChatTypeOK' /\ WaitsOK' /\ AnswersFollowQuestions' /\ NoGhostAnswer'
    BY <2>1, <2>2, <2>3 DEF ChatTypeOK, WaitsOK, Waits, AnswersFollowQuestions, NoGhostAnswer
  <2>5. QED
    BY <1>2, <1>5, <2>4 DEF CloseChat, ChatInv
<1>6. CASE TypeQuestion
  <2>1. chat' \in ChatState /\ chat'.asked = chat.asked /\ chat'.open = chat.open
        /\ chat'.isLoading = chat.isLoading
    BY <1>3, <1>6 DEF TypeQuestion
  <2>2. ChatTypeOK' /\ WaitsOK' /\ AnswersFollowQuestions' /\ NoGhostAnswer'
    BY <1>1, <1>6, <2>1
    DEF TypeQuestion, ChatTypeOK, WaitsOK, Waits, AnswersFollowQuestions, NoGhostAnswer
  <2>3. QED
    BY <1>2, <1>6, <2>2 DEF TypeQuestion, ChatInv
<1>7. ASSUME NEW q \in ChatRuns, HandleSend(q)
      PROVE  ClientInv' /\ ChatInv'
  <2> DEFINE n == chat.asked + 1
  <2>1. n \in 0..MaxQuestions /\ n # 0
    BY <1>1, <1>7, ChatAssumption DEF HandleSend
  <2>2. \A r \in ChatRuns : ~Waits(r)
    BY <1>1, <1>7 DEF HandleSend, MaySend, WaitsOK
  <2>3. chat' \in ChatState /\ chat'.asked = n /\ chat'.open /\ chat'.isLoading
    BY <1>3, <1>7, <2>1 DEF HandleSend
  <2>4. asks' = [asks EXCEPT ![q] = n] /\ messages' = Append(messages, Question(n))
    BY <1>7 DEF HandleSend
  <2> HIDE DEF n
  <2>5. asks' \in [ChatRuns -> 0..MaxQuestions]
    BY <1>1, <2>1, <2>4
  <2>6. /\ messages' \in Seq(Message) /\ AnswersFollowQuestions' /\ NoGhostAnswer'
        /\ messages' # <<>> /\ messages'[Len(messages')] = Question(n)
    BY <2>1, <2>4, ChatTypes, OneMessage
  <2>7. WaitsOK'
    BY <1>1, <2>2, <2>3, <2>4, <2>6 DEF WaitsOK, Waits
  <2>8. ClientInv'
    BY <1>7, PostInv DEF HandleSend, AiCalls
  <2>9. QED
    BY <2>3, <2>5, <2>6, <2>7, <2>8 DEF ChatInv, ChatTypeOK
<1>8. ASSUME NEW q \in ChatRuns, Answered(q)
      PROVE  ClientInv' /\ ChatInv'
  <2>1. ClientInv'
    BY <1>8, TakenInv DEF Answered, AiCalls
  <2>2. CleanReply(q, calls[q].reply) /\ calls[q].reply.text \in Prose
    BY DEF ClientInv, AiCalls, CleanReply, Reply
  <2>3. asks' = [asks EXCEPT ![q] = 0] /\ 0 \in 0..MaxQuestions
    BY <1>8, ChatAssumption DEF Answered
  <2>4. /\ asks' \in [ChatRuns -> 0..MaxQuestions] /\ ~Waits(q)'
        /\ \A r \in ChatRuns \ {q} : asks'[r] = asks[r]
    BY <1>1, <2>3 DEF Waits
  <2>5. CASE asks[q] = 0
    <3>1. UNCHANGED <<chat, messages>>
      BY <1>8, <2>5 DEF Answered
    <3>2. WaitsOK'
      BY <1>1, <2>4, <3>1 DEF WaitsOK, Waits
    <3>3. QED
      BY <1>1, <2>1, <2>4, <3>1, <3>2
      DEF ChatInv, ChatTypeOK, AnswersFollowQuestions, NoGhostAnswer
  <2>6. CASE asks[q] # 0
    <3>1. messages # <<>> /\ messages[Len(messages)] = Question(asks[q])
      BY <1>1, <2>6 DEF WaitsOK, Waits
    <3>2. \A r \in ChatRuns : ~Waits(r)'
      BY <1>1, <2>4, <2>6 DEF WaitsOK, Waits
    <3>3. WaitsOK'
      BY <3>2 DEF WaitsOK
    <3>4. CASE calls[q].reply.failed = "none"
      <4> DEFINE m == [role |-> "assistant", about |-> asks[q], text |-> calls[q].reply.text]
      <4>1. messages' = Append(messages, m) /\ chat' = [chat EXCEPT !.isLoading = FALSE]
        BY <1>8, <2>6, <3>4 DEF Answered
      <4>2. m \in Message /\ m.text \notin {"section", "final"} /\ m.about = asks[q]
        BY <1>1, <2>2 DEF Message, CleanReply
      <4>3. chat' \in ChatState
        BY <1>3, <4>1
      <4> HIDE DEF m
      <4>4. messages' \in Seq(Message) /\ AnswersFollowQuestions' /\ NoGhostAnswer'
        BY <3>1, <4>1, <4>2, OneMessage
      <4>5. QED
        BY <2>1, <2>4, <3>3, <4>3, <4>4 DEF ChatInv, ChatTypeOK
    <3>5. CASE calls[q].reply.failed # "none"
      <4>1. /\ messages' = messages
            /\ chat' = [chat EXCEPT !.isLoading = FALSE, !.error = TRUE]
        BY <1>8, <2>6, <3>5 DEF Answered
      <4>2. chat' \in ChatState
        BY <1>3, <4>1
      <4>3. QED
        BY <1>1, <2>1, <2>4, <3>3, <4>1, <4>2
        DEF ChatInv, ChatTypeOK, AnswersFollowQuestions, NoGhostAnswer
    <3>6. QED
      BY <3>4, <3>5
  <2>7. QED
    BY <2>5, <2>6
<1>9. ASSUME NEW q \in ChatRuns, CallStep(q), UNCHANGED chatVars
      PROVE  ClientInv' /\ ChatInv'
  BY <1>9, CallStepInv, ChatKept DEF AiCalls
<1>10. CASE SessionStep /\ UNCHANGED chatVars
  BY <1>10, SessionStepInv, ChatKept
<1>11. CASE UNCHANGED <<aiVars, chatVars>>
  BY <1>2, <1>11, ChatKept
<1>12. QED
  BY <1>4, <1>5, <1>6, <1>7, <1>8, <1>9, <1>10, <1>11 DEF ChatNext

-----------------------------------------------------------------------------
(* The cards *)

CardState == [isLoading: BOOLEAN, result: Result, error: BOOLEAN, isExpanded: BOOLEAN]
CleanResult(result) ==
  result \in Result /\ (result.from = "suggestions" => "final" \notin result.texts)
PanelInv == PanelTypeOK /\ \A k \in Cards : CleanResult(cards[k].result)

LEMMA PanelTypes ==
  /\ CleanResult(NoResult) /\ CleanResult(Hint)
  /\ NewCard \in CardState /\ NewCard.result = NoResult
  BY DEF CleanResult, NoResult, Hint, NewCard, CardState, Result, Prose

LEMMA PanelInvInit == PanelInit => PanelInv
  BY PanelTypes DEF PanelInit, PanelInv, PanelTypeOK, CardState

\* What a clean reply comes to on a card is clean.
LEMMA CleanOutcome ==
  ASSUME NEW k, NEW reply, CleanReply(k, reply)
  PROVE  CleanResult(Outcome(k, reply))
<1>1. reply.text \in Prose \ {"final"} /\ reply.warnings \in SUBSET Prose
  BY DEF CleanReply, Reply
<1>2. CASE reply.text # "nothing"
  BY <1>1, <1>2 DEF Outcome, CleanResult, Result
<1>3. CASE reply.text = "nothing" /\ k = Structure /\ reply.warnings # {}
  BY <1>1, <1>3 DEF Outcome, CleanResult, Result, Prose
<1>4. CASE reply.text = "nothing" /\ ~(k = Structure /\ reply.warnings # {})
  BY <1>4, PanelTypes DEF Outcome
<1>5. QED
  BY <1>2, <1>3, <1>4

LEMMA ShowingType ==
  ASSUME NEW card \in CardState, NEW result, CleanResult(result), NEW error \in BOOLEAN
  PROVE  Showing(card, result, error) \in CardState
         /\ Showing(card, result, error).result = result
  BY DEF CardState, Showing, CleanResult

LEMMA OneCard ==
  ASSUME PanelInv, NEW k \in Cards, NEW card \in CardState, CleanResult(card.result),
         cards' = [cards EXCEPT ![k] = card]
  PROVE  PanelInv'
  BY DEF PanelInv, PanelTypeOK, CardState

LEMMA ShownOutcome ==
  ASSUME PanelInv, NEW k \in Cards, NEW result, CleanResult(result), NEW error \in BOOLEAN,
         cards' = [cards EXCEPT ![k] = Showing(@, result, error)]
  PROVE  PanelInv'
<1>1. cards \in [Cards -> CardState]
  BY DEF PanelInv, PanelTypeOK, CardState
<1>2. /\ Showing(cards[k], result, error) \in CardState
      /\ Showing(cards[k], result, error).result = result
  BY <1>1, ShowingType
<1>3. cards' = [cards EXCEPT ![k] = Showing(cards[k], result, error)]
  BY <1>1
<1>4. QED
  BY <1>2, <1>3, OneCard

LEMMA PanelKept ==
  ASSUME PanelInv, UNCHANGED cards
  PROVE  PanelInv'
  BY DEF PanelInv, PanelTypeOK

LEMMA PanelInvStep ==
  ASSUME ClientInv, PanelInv, [PanelNext]_<<aiVars, cards>>
  PROVE  ClientInv' /\ PanelInv'
<1>1. cards \in [Cards -> CardState] /\ \A k \in Cards : CleanResult(cards[k].result)
  BY DEF PanelInv, PanelTypeOK, CardState
<1>2. ASSUME UNCHANGED aiVars
      PROVE  ClientInv'
  BY <1>2 DEF aiVars, ClientInv, ClientTypeOK
<1>3. ASSUME NEW k \in Cards, ClickClosed(k)
      PROVE  ClientInv' /\ PanelInv'
  <2>1. CASE cards' = [cards EXCEPT ![k] = Showing(@, Hint, @.error)] /\ UNCHANGED calls
    <3>1. cards[k].error \in BOOLEAN
      BY <1>1 DEF CardState
    <3>2. cards' = [cards EXCEPT ![k] = Showing(@, Hint, cards[k].error)]
      BY <1>1, <2>1
    <3>3. UNCHANGED aiVars
      BY <1>3, <2>1 DEF ClickClosed, aiVars
    <3>4. QED
      BY <1>2, <3>1, <3>2, <3>3, ShownOutcome, PanelTypes
  <2>2. CASE Post(k) /\ cards' = [cards EXCEPT ![k] = [NewCard EXCEPT !.isLoading = TRUE]]
    <3> DEFINE card == [NewCard EXCEPT !.isLoading = TRUE]
    <3>1. card \in CardState /\ CleanResult(card.result)
      BY PanelTypes DEF CardState, NewCard
    <3> HIDE DEF card
    <3>2. PanelInv'
      BY <2>2, <3>1, OneCard DEF card
    <3>3. ClientInv'
      BY <1>3, <2>2, PostInv DEF ClickClosed, AiCalls
    <3>4. QED
      BY <3>2, <3>3
  <2>3. QED
    BY <1>3, <2>1, <2>2 DEF ClickClosed
<1>4. ASSUME NEW k \in Cards, ClickOpen(k)
      PROVE  ClientInv' /\ PanelInv'
  <2> DEFINE card == [cards[k] EXCEPT !.isExpanded = FALSE]
  <2>1. card \in CardState /\ card.result = cards[k].result
    BY <1>1 DEF CardState
  <2>2. cards' = [cards EXCEPT ![k] = card]
    BY <1>4 DEF ClickOpen
  <2> HIDE DEF card
  <2>3. QED
    BY <1>1, <1>2, <1>4, <2>1, <2>2, OneCard DEF ClickOpen
<1>5. ASSUME NEW k \in Cards, Generated(k)
      PROVE  ClientInv' /\ PanelInv'
  <2>1. ClientInv'
    BY <1>5, TakenInv DEF Generated, AiCalls
  <2>2. CleanReply(k, calls[k].reply)
    BY DEF ClientInv, AiCalls
  <2>3. CASE calls[k].reply.failed = "none"
    <3>1. cards' = [cards EXCEPT ![k] = Showing(@, Outcome(k, calls[k].reply), FALSE)]
      BY <1>5, <2>3 DEF Generated
    <3>2. CleanResult(Outcome(k, calls[k].reply))
      BY <2>2, CleanOutcome
    <3>3. QED
      BY <2>1, <3>1, <3>2, ShownOutcome
  <2>4. CASE calls[k].reply.failed # "none"
    <3>1. cards' = [cards EXCEPT ![k] = Showing(@, NoResult, TRUE)]
      BY <1>5, <2>4 DEF Generated
    <3>2. QED
      BY <2>1, <3>1, ShownOutcome, PanelTypes
  <2>5. QED
    BY <2>3, <2>4
<1>6. ASSUME NEW k \in Cards, CallStep(k), UNCHANGED cards
      PROVE  ClientInv' /\ PanelInv'
  BY <1>6, CallStepInv, PanelKept DEF AiCalls
<1>7. CASE SessionStep /\ UNCHANGED cards
  BY <1>7, SessionStepInv, PanelKept
<1>8. CASE UNCHANGED <<aiVars, cards>>
  BY <1>2, <1>8, PanelKept
<1>9. QED
  BY <1>3, <1>4, <1>5, <1>6, <1>7, <1>8 DEF PanelNext

-----------------------------------------------------------------------------
(* Declaring sources *)

\* A source is from a click that was made, so a new click's are new.
StampsOK == \A i \in DOMAIN declared : declared[i].id.ms <= clicks
SourcesInv == SourcesTypeOK /\ StampsOK /\ IdsTellApart

LEMMA SourcesInvInit == SourcesInit => SourcesInv
<1> SUFFICES ASSUME SourcesInit
             PROVE  SourcesInv
  OBVIOUS
<1>1. 0 \in 0..MaxClicks /\ 0 \in 0..MaxBatch /\ <<>> \in Seq(Source) /\ DOMAIN <<>> = {}
  BY SourcesAssumption
<1>2. SourcesTypeOK
  BY <1>1 DEF SourcesInit, SourcesTypeOK, Form, EmptyForm
<1>3. StampsOK /\ IdsTellApart
  BY <1>1 DEF SourcesInit, StampsOK, IdsTellApart
<1>4. QED
  BY <1>2, <1>3 DEF SourcesInv

\* The sources of a click: new to the list, and told apart where the places or
\* the files are.
LEMMA AddsInv ==
  ASSUME SourcesInv, NEW n \in Nat, NEW places \in [1..n -> 0..MaxBatch],
         NEW files \in [1..n -> Files \cup {NoFile}],
         NEW type \in {"link", "video", "text", "file"}, Adds(places, files, type),
         adding' \in Form, twins' \in BOOLEAN, ~twins' => ~twins,
         ~twins' => \A i, j \in 1..n : places[i] = places[j] /\ files[i] = files[j] => i = j
  PROVE  SourcesInv'
<1> DEFINE new == [i \in 1..n |-> [id |-> [ms |-> clicks + 1, place |-> places[i],
                                           file |-> files[i]],
                                   type |-> type]]
<1>1. /\ declared \in Seq(Source) /\ clicks \in 0..MaxClicks /\ clicks < MaxClicks
      /\ n \in Nat /\ clicks \in Nat
      /\ StampsOK /\ IdsTellApart
  BY DEF SourcesInv, SourcesTypeOK, Adds
<1>2. clicks' = clicks + 1 /\ clicks + 1 \in 1..MaxClicks /\ clicks' \in 0..MaxClicks
  BY <1>1, SourcesAssumption DEF Adds
<1>3. declared' = declared \o new
  BY DEF Adds
<1>4. ASSUME NEW i \in 1..n
      PROVE  /\ new[i] \in Source
             /\ new[i].id.ms = clicks + 1 /\ new[i].id.place = places[i]
             /\ new[i].id.file = files[i]
  BY <1>2 DEF Source, Id
<1>5. new \in Seq(Source) /\ Len(new) = n
  BY <1>1, <1>4, IsASeq
<1> HIDE DEF new
<1>6. /\ declared' \in Seq(Source) /\ Len(declared') = Len(declared) + n
      /\ Len(declared) \in Nat
      /\ DOMAIN declared' = 1..(Len(declared) + n) /\ DOMAIN declared = 1..Len(declared)
      /\ \A i \in 1..(Len(declared) + n) :
           declared'[i] = IF i <= Len(declared) THEN declared[i] ELSE new[i - Len(declared)]
  <2>1. /\ declared \o new \in Seq(Source)
        /\ Len(declared \o new) = Len(declared) + Len(new)
        /\ \A i \in 1..(Len(declared) + Len(new)) :
             (declared \o new)[i] =
               IF i <= Len(declared) THEN declared[i] ELSE new[i - Len(declared)]
    BY <1>1, <1>5, ConcatProperties
  <2>2. Len(declared) \in Nat /\ DOMAIN declared = 1..Len(declared)
    BY <1>1, LenProperties
  <2>3. DOMAIN (declared \o new) = 1..Len(declared \o new)
    BY <2>1, LenProperties
  <2>4. QED
    BY <1>3, <1>5, <2>1, <2>2, <2>3
<1>7. \A i \in 1..Len(declared) : declared'[i] = declared[i] /\ declared[i].id.ms \in Nat
                                  /\ declared[i].id.ms <= clicks
  <2> SUFFICES ASSUME NEW i \in 1..Len(declared)
               PROVE  declared'[i] = declared[i] /\ declared[i].id.ms \in Nat
                      /\ declared[i].id.ms <= clicks
    OBVIOUS
  <2>1. declared[i] \in Source
    BY <1>1, ElementOfSeq
  <2>2. QED
    <3>1. declared[i].id.ms \in 1..MaxClicks
      BY <2>1 DEF Source, Id
    <3>2. declared[i].id.ms \in Nat
      BY <3>1, SourcesAssumption
    <3>3. declared[i].id.ms <= clicks
      BY <1>1, <1>6 DEF StampsOK
    <3>4. declared'[i] = declared[i]
      BY <1>1, <1>6
    <3>5. QED
      BY <3>2, <3>3, <3>4
<1>8. \A i \in DOMAIN declared' \ DOMAIN declared :
        /\ i - Len(declared) \in 1..n
        /\ declared'[i] = new[i - Len(declared)]
        /\ declared'[i].id.ms = clicks + 1
  BY <1>1, <1>4, <1>6
<1>9. SourcesTypeOK'
  BY <1>2, <1>6 DEF SourcesTypeOK
<1>10. StampsOK'
  <2> SUFFICES ASSUME NEW i \in DOMAIN declared'
               PROVE  declared'[i].id.ms <= clicks'
    BY DEF StampsOK
  <2>1. QED
    BY <1>1, <1>2, <1>6, <1>7, <1>8
<1>11. IdsTellApart'
  <2> SUFFICES ASSUME ~twins', NEW i \in DOMAIN declared', NEW j \in DOMAIN declared',
                      declared'[i].id = declared'[j].id
               PROVE  i = j
    BY DEF IdsTellApart
  <2>1. CASE i \in DOMAIN declared /\ j \in DOMAIN declared
    BY <1>1, <1>6, <1>7, <2>1 DEF IdsTellApart
  <2>2. CASE i \notin DOMAIN declared /\ j \notin DOMAIN declared
    <3> DEFINE k == i - Len(declared)
               l == j - Len(declared)
    <3>1. k \in 1..n /\ l \in 1..n /\ new[k].id = new[l].id
      BY <1>8, <2>2
    <3>2. places[k] = places[l] /\ files[k] = files[l]
      BY <1>4, <3>1
    <3>3. k = l
      BY <3>1, <3>2
    <3>4. QED
      BY <1>6, <3>3
  <2>3. \A k, l \in DOMAIN declared' :
          k \in DOMAIN declared /\ l \notin DOMAIN declared => declared'[k].id # declared'[l].id
    <3> SUFFICES ASSUME NEW k \in DOMAIN declared, NEW l \in DOMAIN declared' \ DOMAIN declared
                 PROVE  declared'[k].id # declared'[l].id
      OBVIOUS
    <3>1. declared'[k].id.ms \in Nat /\ declared'[k].id.ms <= clicks
      BY <1>6, <1>7
    <3>2. declared'[l].id.ms = clicks + 1
      BY <1>8
    <3>3. QED
      BY <1>1, <3>1, <3>2
  <2>4. QED
    BY <2>1, <2>2, <2>3
<1>12. QED
  BY <1>9, <1>10, <1>11 DEF SourcesInv

\* As many names as files: no two files have one name.
LEMMA NamesTellApart ==
  ASSUME NEW n \in Nat, NEW names \in [1..n -> Files],
         ~(Cardinality({names[i] : i \in 1..n}) < n)
  PROVE  \A i, j \in 1..n : names[i] = names[j] => i = j
<1> DEFINE T == {names[i] : i \in 1..n}
<1>1. IsFiniteSet(1..n) /\ Cardinality(1..n) = n
  <2>1. 1 \in Int /\ n \in Int /\ n = (IF 1 > n THEN 0 ELSE n - 1 + 1)
    OBVIOUS
  <2>2. QED
    BY <2>1, FS_Interval
<1>2. names \in Surjection(1..n, T)
  BY DEF Surjection
<1>3. IsFiniteSet(T) /\ Cardinality(T) <= n
      /\ (Cardinality(T) = n <=> names \in Injection(1..n, T))
  BY <1>1, <1>2, FS_Surjection
<1>4. Cardinality(T) \in Nat
  BY <1>3, FS_CardinalityType
<1>5. names \in Injection(1..n, T)
  BY <1>3, <1>4
<1>6. QED
  BY <1>5 DEF Injection, IsInjective

LEMMA SourcesInvStep == SourcesInv /\ [SourcesNext]_srcVars => SourcesInv'
<1> SUFFICES ASSUME SourcesInv, [SourcesNext]_srcVars
             PROVE  SourcesInv'
  OBVIOUS
<1>1. /\ declared \in Seq(Source) /\ adding \in Form /\ clicks \in 0..MaxClicks
      /\ twins \in BOOLEAN /\ StampsOK /\ IdsTellApart
  BY DEF SourcesInv, SourcesTypeOK
<1>2. 0 \in 0..MaxBatch
  BY SourcesAssumption
\* The steps of the form.
<1>3. ASSUME adding' \in Form, UNCHANGED <<declared, clicks, twins>>
      PROVE  SourcesInv'
  BY <1>3 DEF SourcesInv, SourcesTypeOK, StampsOK, IdsTellApart
<1>4. CASE OpenForm \/ CloseForm
  <2>1. adding' \in Form
    <3>1. EmptyForm \in Form
      BY <1>2 DEF EmptyForm, Form
    <3>2. [EmptyForm EXCEPT !.open = TRUE] \in Form
      BY <3>1 DEF Form
    <3>3. QED
      BY <1>4, <3>1, <3>2 DEF OpenForm, CloseForm
  <2>2. QED
    BY <1>3, <1>4, <2>1 DEF OpenForm, CloseForm
<1>5. ASSUME NEW step \in {"main", "link", "youtube", "text"}, GoTo(step)
      PROVE  SourcesInv'
  <2>1. adding' \in Form
    BY <1>1, <1>5 DEF GoTo, Form
  <2>2. QED
    BY <1>3, <1>5, <2>1 DEF GoTo
<1>6. CASE TypeIn
  <2>1. adding' \in Form
    BY <1>1, <1>6 DEF TypeIn, Form
  <2>2. QED
    BY <1>3, <1>6, <2>1 DEF TypeIn
<1>7. CASE AddLinks
  <2> DEFINE n == adding.links
             places == [i \in 1..n |-> Place(i)]
             files == [i \in 1..n |-> NoFile]
  <2>1. n \in 1..MaxBatch
    BY <1>1, <1>7, SourcesAssumption DEF AddLinks, Form
  <2>2. Adds(places, files, "link") /\ twins' = twins
    BY <1>7 DEF AddLinks
  <2>3. adding' \in Form
    BY <1>1, <1>2, <1>7 DEF AddLinks, Form
  <2>4. places \in [1..n -> 0..MaxBatch] /\ files \in [1..n -> Files \cup {NoFile}]
    BY <2>1, SourcesAssumption DEF Place
  <2>5. \A i, j \in 1..n : places[i] = places[j] /\ files[i] = files[j] => i = j
    BY DEF Place
  <2>6. n \in Nat
    BY <2>1
  <2>7. twins' \in BOOLEAN /\ (~twins' => ~twins)
    BY <1>1, <2>2
  <2> HIDE DEF n, places, files
  <2>8. QED
    BY <2>2, <2>3, <2>4, <2>5, <2>6, <2>7, AddsInv
<1>8. ASSUME NEW type \in {"video", "text"}, AddsOne(type), adding' \in Form, twins' = twins
      PROVE  SourcesInv'
  <2> DEFINE places == <<0>>
             files == <<NoFile>>
  <2>1. places \in [1..1 -> 0..MaxBatch] /\ files \in [1..1 -> Files \cup {NoFile}]
    BY <1>2
  <2>2. Adds(places, files, type)
    BY <1>8 DEF AddsOne
  <2>3. 1 \in Nat /\ \A i, j \in 1..1 : places[i] = places[j] /\ files[i] = files[j] => i = j
    OBVIOUS
  <2>4. twins' \in BOOLEAN /\ (~twins' => ~twins)
    BY <1>1, <1>8
  <2> HIDE DEF places, files
  <2>5. QED
    BY <1>8, <2>1, <2>2, <2>3, <2>4, AddsInv
<1>9. CASE AddYouTube \/ AddText
  <2>1. adding' \in Form
    BY <1>1, <1>9 DEF AddYouTube, AddText, Form
  <2>2. QED
    BY <1>8, <1>9, <2>1 DEF AddYouTube, AddText
<1>10. CASE UploadFiles
  <2>1. PICK n \in 1..MaxBatch : \E names \in [1..n -> Files] :
          /\ Adds([i \in 1..n |-> 0], names, "file")
          /\ twins' = (twins \/ Cardinality({names[i] : i \in 1..n}) < n)
    BY <1>10 DEF UploadFiles
  <2>2. PICK names \in [1..n -> Files] :
          /\ Adds([i \in 1..n |-> 0], names, "file")
          /\ twins' = (twins \/ Cardinality({names[i] : i \in 1..n}) < n)
    BY <2>1
  <2> DEFINE places == [i \in 1..n |-> 0]
  <2>3. places \in [1..n -> 0..MaxBatch] /\ names \in [1..n -> Files \cup {NoFile}]
    BY <1>2
  <2>4. adding' \in Form
    BY <1>1, <1>10 DEF UploadFiles, Form
  <2>5. twins' \in BOOLEAN /\ (~twins' => ~twins)
    BY <1>1, <2>2
  <2>6. ~twins' => \A i, j \in 1..n : places[i] = places[j] /\ names[i] = names[j] => i = j
    <3>1. n \in Nat
      OBVIOUS
    <3>2. ~twins' => ~(Cardinality({names[i] : i \in 1..n}) < n)
      BY <2>2
    <3>3. QED
      BY <3>1, <3>2, NamesTellApart
  <2>7. Adds(places, names, "file") /\ n \in Nat
    BY <2>2
  <2> HIDE DEF places
  <2>8. QED
    BY <2>3, <2>4, <2>5, <2>6, <2>7, AddsInv
<1>11. ASSUME NEW id, RemoveDeclared(id)
      PROVE  SourcesInv'
  <2> DEFINE places == {i \in DOMAIN declared : declared[i].id # id}
  <2>1. declared' = Only(declared, places) /\ UNCHANGED <<adding, clicks, twins>>
    BY <1>11 DEF RemoveDeclared
  <2>2. places \in SUBSET DOMAIN declared
    OBVIOUS
  <2> HIDE DEF places
  <2>3. /\ declared' \in Seq(Source) /\ DOMAIN declared' = 1..Cardinality(places)
        /\ \A n \in DOMAIN declared' : /\ NthPlace(places, n) \in DOMAIN declared
                                       /\ declared'[n] = declared[NthPlace(places, n)]
        /\ \A m, n \in DOMAIN declared' :
             NthPlace(places, m) = NthPlace(places, n) => m = n
    <3> DEFINE kept == Only(declared, places)
    <3>1. /\ kept \in Seq(Source) /\ DOMAIN kept = 1..Cardinality(places)
          /\ \A n \in 1..Cardinality(places) :
               NthPlace(places, n) \in places /\ kept[n] = declared[NthPlace(places, n)]
          /\ \A m, n \in 1..Cardinality(places) :
               NthPlace(places, m) = NthPlace(places, n) => m = n
      BY <1>1, <2>2, OnlyProperties
    <3> HIDE DEF kept
    <3>2. declared' = kept
      BY <2>1 DEF kept
    <3>3. QED
      BY <2>2, <3>1, <3>2
  <2>4. StampsOK' /\ IdsTellApart'
    BY <1>1, <2>1, <2>3 DEF StampsOK, IdsTellApart
  <2>5. QED
    BY <1>1, <2>1, <2>3, <2>4 DEF SourcesInv, SourcesTypeOK
<1>12. CASE UNCHANGED srcVars
  BY <1>1, <1>3, <1>12 DEF srcVars
<1>13. QED
  BY <1>4, <1>5, <1>6, <1>7, <1>9, <1>10, <1>11, <1>12 DEF SourcesNext

-----------------------------------------------------------------------------
(* The parts side by side *)

StudioInv ==
  /\ at \in AllParts
  /\ DraftInv /\ SourcesInv /\ ImageInv
  /\ ClientInv /\ ChatInv /\ PanelInv

LEMMA StudioInvInit == StudioInit => StudioInv
  BY StudioAssumption, DraftInvInit, SourcesInvInit, ImageInvInit, ClientInvInit,
     ChatInvInit, PanelInvInit
  DEF StudioInit, StudioInv

\* A step of Studio is a step of one part, and the calls are of the chat or of
\* the cards.
LEMMA StudioInvStep == StudioInv /\ [StudioNext]_studioVars => StudioInv'
<1> SUFFICES ASSUME StudioInv, [StudioNext]_studioVars
             PROVE  StudioInv'
  OBVIOUS
<1>1. /\ at \in AllParts /\ DraftInv /\ SourcesInv /\ ImageInv
      /\ ClientInv /\ ChatInv /\ PanelInv
  BY DEF StudioInv
<1>2. UNCHANGED at
  BY DEF StudioNext, studioVars
<1>3. [DraftNext]_draftVars
  BY DEF StudioNext, studioVars, otherThanSources, otherThanImage, otherThanChat, otherThanPanel
<1>4. [SourcesNext]_srcVars
  BY DEF StudioNext, studioVars, otherThanDraft, otherThanImage, otherThanChat, otherThanPanel
<1>5. [ImageNext]_imageVars
  BY DEF StudioNext, studioVars, otherThanDraft, otherThanSources, otherThanChat, otherThanPanel
<1>6. \/ [ChatNext]_<<aiVars, chatVars>> /\ UNCHANGED cards
      \/ [PanelNext]_<<aiVars, cards>> /\ UNCHANGED chatVars
  BY DEF StudioNext, studioVars, otherThanDraft, otherThanSources, otherThanImage,
         otherThanChat, otherThanPanel
<1>7. DraftInv' /\ SourcesInv' /\ ImageInv'
  BY <1>1, <1>3, <1>4, <1>5, DraftInvStep, SourcesInvStep, ImageInvStep
<1>8. ClientInv' /\ ChatInv' /\ PanelInv'
  BY <1>1, <1>6, ChatInvStep, PanelInvStep, ChatKept, PanelKept
<1>9. QED
  BY <1>1, <1>2, <1>7, <1>8 DEF StudioInv

LEMMA StudioSafe == StudioSpec => []StudioInv
<1>1. QED
  BY StudioInvInit, StudioInvStep, PTL DEF StudioSpec

\* The state of the draft, the sources, the image dialog, the chat and the
\* cards keeps its types.
THEOREM StudioTypeCorrect == StudioSpec => []StudioTypeOK
<1>1. StudioInv => StudioTypeOK
  BY DEF StudioInv, StudioTypeOK, DraftInv, SourcesInv, ImageInv, ClientInv, ChatInv, PanelInv
<1>2. QED
  BY <1>1, StudioSafe, PTL

\* What the page says is saved would come back, whatever is typed, whichever
\* timer fires and however the page is left and opened, unless another tab wrote.
THEOREM DraftComesBack == StudioSpec => []DraftIsStored
<1>1. StudioInv => DraftIsStored
  BY DEF StudioInv, DraftInv
<1>2. QED
  BY <1>1, StudioSafe, PTL

\* Removing a source removes that one, unless files of one name were dropped
\* together.
THEOREM SourcesToldApart == StudioSpec => []IdsTellApart
<1>1. StudioInv => IdsTellApart
  BY DEF StudioInv, SourcesInv
<1>2. QED
  BY <1>1, StudioSafe, PTL

\* What is inserted is what was picked last when Insert was clicked, in
\* whatever order the reads of files end.
THEOREM ChosenIsInserted == StudioSpec => []InsertedWasChosen
<1>1. StudioInv => InsertedWasChosen
  BY DEF StudioInv, ImageInv
<1>2. QED
  BY <1>1, StudioSafe, PTL

\* An answer stands under the question it answers.
THEOREM AnswersInOrder == StudioSpec => []AnswersFollowQuestions
<1>1. StudioInv => AnswersFollowQuestions
  BY DEF StudioInv, ChatInv
<1>2. QED
  BY <1>1, StudioSafe, PTL

\* No answer of the chat is one that the filter recognises, and no suggestion is
\* text that it recognises wherever it stands, whatever the model says and
\* whatever of it could be parsed.
THEOREM NothingToHandIn == StudioSpec => []NoGhostwriting
<1>1. StudioInv => NoGhostwriting
  BY DEF StudioInv, ChatInv, PanelInv, CleanResult, NoGhostwriting, NoGhostSuggestion
<1>2. QED
  BY <1>1, StudioSafe, PTL
=============================================================================
