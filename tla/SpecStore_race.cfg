SPECIFICATION FairSpec
CONSTANTS
  Proc = {p, q}
  Inside = {p, q}
  Mortal = {q}
  Entry = {x}
  None = None
  Legacy = {x}
  MaxUpdates = 2
  MaxEdits = 1
INVARIANTS TypeOK RevisionsWerePublished
PROPERTIES RevisionsNeverChange JournalCatchesUp
