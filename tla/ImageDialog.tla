----------------------------- MODULE ImageDialog -----------------------------
(***************************************************************************)
(* Inserting an image: the image dialog of components/editor/Editor.tsx.   *)
(*                                                                         *)
(* A file is read in the background, to show it and again to insert it;    *)
(* the page does not wait, and reads may end in any order.                 *)
(***************************************************************************)
EXTENDS Naturals, Sequences, SequencesExt

CONSTANTS Pictures,   \* image files
          Urls,       \* addresses of images
          NoImage,    \* null and ''
          MaxReads    \* bound on the reads under way

\* A file and an address are told apart, and both from none.
ASSUME ImageAssumption == Pictures \cap Urls = {} /\ NoImage \notin Pictures \cup Urls

VARIABLES image,     \* showImageModal, imageFile, imageUrl, imagePreview
          reads,     \* FileReaders at work
          chosen,    \* history: the last picture the author picked or typed
          inserted   \* history: the last image inserted, and the one wanted

imageVars == <<image, reads, chosen, inserted>>

Images == Pictures \cup Urls \cup {NoImage}
\* What a read is for: to show the file, or to insert it.
Read == [for: {"preview", "insert"}, file: Pictures, wanted: Images]
Insertion == [src: Images, wanted: Images]

ImageTypeOK ==
  /\ image \in [open: BOOLEAN, file: Pictures \cup {NoImage}, url: Urls \cup {NoImage},
                preview: Pictures \cup {NoImage}]
  /\ reads \in Seq(Read)
  /\ chosen \in Images
  /\ inserted \in Insertion

NoPicture == [open |-> FALSE, file |-> NoImage, url |-> NoImage, preview |-> NoImage]
ImageInit ==
  /\ image = NoPicture /\ reads = <<>> /\ chosen = NoImage
  /\ inserted = [src |-> NoImage, wanted |-> NoImage]

-----------------------------------------------------------------------------

OpenImage == /\ ~image.open
             /\ image' = [image EXCEPT !.open = TRUE]
             /\ UNCHANGED <<reads, chosen, inserted>>
\* Cancel, or a click beside the dialog.  A read under way goes on.
CancelImage == /\ image.open
               /\ image' = NoPicture /\ chosen' = NoImage
               /\ UNCHANGED <<reads, inserted>>
PickFile(f) ==
  /\ image.open /\ Len(reads) < MaxReads
  /\ image' = [image EXCEPT !.file = f, !.url = NoImage]
  /\ chosen' = f
  /\ reads' = Append(reads, [for |-> "preview", file |-> f, wanted |-> f])
  /\ UNCHANGED inserted
TypedOver(u) == [image EXCEPT !.url = u]
Typed(u) == [image EXCEPT !.url = u, !.file = NoImage, !.preview = NoImage]
TypeUrl(u) ==
  /\ image.open
  /\ image' = Typed(u) /\ chosen' = u
  /\ UNCHANGED <<reads, inserted>>
\* handleInsertImage: the file is read again, a URL is taken at once.  The
\* button stays enabled during the read.
InsertFile ==
  /\ image.open /\ image.file # NoImage /\ Len(reads) < MaxReads
  /\ reads' = Append(reads, [for |-> "insert", file |-> image.file, wanted |-> chosen])
  /\ UNCHANGED <<image, chosen, inserted>>
InsertUrl ==
  /\ image.open /\ image.file = NoImage /\ image.url # NoImage
  /\ inserted' = [src |-> image.url, wanted |-> chosen]
  /\ image' = [image EXCEPT !.url = NoImage, !.open = FALSE]
  /\ chosen' = NoImage
  /\ UNCHANGED reads
\* onloadend.  The one that inserts also empties and closes the dialog, also one
\* that was opened since.
ReadEnds(i) ==
  /\ reads' = RemoveAt(reads, i)
  /\ IF reads[i].for = "preview"
     THEN /\ image' = [image EXCEPT !.preview = reads[i].file]
          /\ UNCHANGED <<chosen, inserted>>
     ELSE /\ inserted' = [src |-> reads[i].file, wanted |-> reads[i].wanted]
          /\ image' = [image EXCEPT !.file = NoImage, !.preview = NoImage, !.open = FALSE]
          /\ chosen' = IF chosen \in Pictures THEN NoImage ELSE chosen

ImageNext ==
  \/ OpenImage \/ CancelImage \/ InsertFile \/ InsertUrl
  \/ \E f \in Pictures : PickFile(f)
  \/ \E u \in Urls \cup {NoImage} : TypeUrl(u)
  \/ \E i \in DOMAIN reads : ReadEnds(i)

-----------------------------------------------------------------------------
(* Properties *)

\* What is inserted is what the author had picked last when Insert was clicked,
\* a file or a URL, whatever was picked, typed, read or cancelled around it.
InsertedWasChosen == inserted.src = inserted.wanted
=============================================================================
