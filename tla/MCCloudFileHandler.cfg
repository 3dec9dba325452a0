SPECIFICATION CloudSpec
CONSTANTS
  t1 = t1
  t2 = t2
  notes = notes
  song = song
  plain = plain
  Threads = {t1, t2}
  Keys = {notes, song, plain}
  Extension <- LetterExtensions
  MaxDownloads = 3
  MaxRestarts = 1
  None = none
SYMMETRY ThreadSymmetry
INVARIANTS BodyIsOwn FilesAreOwned
CHECK_DEADLOCK FALSE
