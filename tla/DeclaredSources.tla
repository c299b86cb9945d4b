--------------------------- MODULE DeclaredSources ---------------------------
(***************************************************************************)
(* Declaring sources: components/editor/DeclaredSources.tsx over           *)
(* handleAddSource and handleRemoveSource of app/editor/page.tsx.          *)
(*                                                                         *)
(* A source is told from another by its id alone, which is made of the     *)
(* milliseconds and, where several are added by one click, of its place or *)
(* its file's name.  Two clicks are never in one millisecond.  The border  *)
(* that shows while a file is dragged is left out.                         *)
(***************************************************************************)
EXTENDS ListFilter

CONSTANTS Files,       \* names of files
          NoFile,      \* the source is no file
          MaxBatch,    \* bound on what one click adds
          MaxClicks    \* bound on clicks that add

ASSUME SourcesAssumption == MaxBatch \in Nat /\ MaxClicks \in Nat

VARIABLES declared,   \* sources
          adding,     \* showAddModal, modalStep and what is typed
          clicks,     \* Date.now(), in clicks
          twins       \* history: two files of one name were dropped together

srcVars == <<declared, adding, clicks, twins>>

\* The two parts of an id: the time, and the place or the name, if any.
Id == [ms: 1..MaxClicks, place: 0..MaxBatch, file: Files \cup {NoFile}]
Source == [id: Id, type: {"link", "video", "text", "file"}]
Form == [open: BOOLEAN, step: {"main", "link", "youtube", "text"},
         links: 0..MaxBatch, link: BOOLEAN, text: BOOLEAN]

SourcesTypeOK ==
  /\ declared \in Seq(Source)
  /\ adding \in Form
  /\ clicks \in 0..MaxClicks
  /\ twins \in BOOLEAN

EmptyForm == [open |-> FALSE, step |-> "main", links |-> 0, link |-> FALSE, text |-> FALSE]
SourcesInit == declared = <<>> /\ adding = EmptyForm /\ clicks = 0 /\ twins = FALSE

-----------------------------------------------------------------------------

OpenForm == /\ ~adding.open
            /\ adding' = [EmptyForm EXCEPT !.open = TRUE]
            /\ UNCHANGED <<declared, clicks, twins>>
CloseForm == /\ adding.open
             /\ adding' = EmptyForm
             /\ UNCHANGED <<declared, clicks, twins>>
\* The options of the first step, and the way back; what is typed stays.
GoTo(step) == /\ adding.open /\ (adding.step = "main") # (step = "main")
              /\ adding' = [adding EXCEPT !.step = step]
              /\ UNCHANGED <<declared, clicks, twins>>
\* links: how many of the words typed are links.
TypeIn == /\ adding.open
          /\ \/ adding.step = "link" /\ \E n \in 0..MaxBatch : adding' = [adding EXCEPT !.links = n]
             \/ adding.step = "youtube" /\ adding' = [adding EXCEPT !.link = ~@]
             \/ adding.step = "text" /\ adding' = [adding EXCEPT !.text = ~@]
          /\ UNCHANGED <<declared, clicks, twins>>

\* onAddSource, once for each source of the click, appends.
Adds(places, files, type) ==
  /\ clicks < MaxClicks
  /\ clicks' = clicks + 1
  /\ declared' = declared \o
       [i \in DOMAIN places |-> [id |-> [ms |-> clicks + 1, place |-> places[i],
                                        file |-> files[i]],
                                type |-> type]]
AddsOne(type) == Adds(<<0>>, <<NoFile>>, type)

\* handleAddMultipleLinks: the place of a link among the click's.
SamePlace(i) == 1
Place(i) == i
AddLinks ==
  /\ adding.open /\ adding.step = "link" /\ adding.links > 0
  /\ Adds([i \in 1..adding.links |-> Place(i)], [i \in 1..adding.links |-> NoFile], "link")
  /\ adding' = [adding EXCEPT !.links = 0, !.step = "main", !.open = FALSE]
  /\ UNCHANGED twins
AddYouTube ==
  /\ adding.open /\ adding.step = "youtube" /\ adding.link
  /\ AddsOne("video")
  /\ adding' = [adding EXCEPT !.link = FALSE, !.step = "main", !.open = FALSE]
  /\ UNCHANGED twins
AddText ==
  /\ adding.open /\ adding.step = "text" /\ adding.text
  /\ AddsOne("text")
  /\ adding' = [adding EXCEPT !.text = FALSE, !.step = "main", !.open = FALSE]
  /\ UNCHANGED twins
\* Files that are chosen or dropped: the form is closed and keeps the rest.
UploadFiles ==
  /\ adding.open /\ adding.step = "main"
  /\ \E n \in 1..MaxBatch : \E names \in [1..n -> Files] :
       /\ Adds([i \in 1..n |-> 0], names, "file")
       /\ twins' = (twins \/ Cardinality({names[i] : i \in 1..n}) < n)
  /\ adding' = [adding EXCEPT !.open = FALSE]

\* handleRemoveSource: every source with that id.
RemoveDeclared(id) ==
  /\ ~adding.open
  /\ declared' = Only(declared, {i \in DOMAIN declared : declared[i].id # id})
  /\ UNCHANGED <<adding, clicks, twins>>

SourcesNext ==
  \/ OpenForm \/ CloseForm \/ TypeIn
  \/ \E step \in {"main", "link", "youtube", "text"} : GoTo(step)
  \/ AddLinks \/ AddYouTube \/ AddText \/ UploadFiles
  \/ \E i \in DOMAIN declared : RemoveDeclared(declared[i].id)

-----------------------------------------------------------------------------
(* Properties *)

\* Removing a source removes that one: no two have one id, unless files of one
\* name were dropped together (from two folders); however the list was put
\* together and taken apart.
IdsTellApart ==
  ~twins => \A i, j \in DOMAIN declared : declared[i].id = declared[j].id => i = j
=============================================================================
