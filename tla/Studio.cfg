SPECIFICATION StudioSpec
CONSTANTS
  StudioParts = {"draft", "sources", "image", "chat", "panel"}
  Titles = {t1}
  DraftSources = {s1}
  Untitled = Untitled
  MaxEdits = 3
  Files = {f1, f2}
  NoFile = NoFile
  MaxBatch = 2
  MaxClicks = 2
  Pictures = {p1, p2}
  Urls = {u1}
  NoImage = NoImage
  MaxReads = 3
  ChatRuns = {q1, q2}
  Cards = {k1, k2}
  Structure = k1
  TheGate = TheGate
  NoHolder = NoHolder
  MaxQuestions = 2
INVARIANTS
  StudioTypeOK
  DraftIsStored
  IdsTellApart
  InsertedWasChosen
  AnswersFollowQuestions
  NoGhostwriting
PROPERTIES
  DraftSaves
  AssistantSettles
CHECK_DEADLOCK FALSE
