SPECIFICATION Spec
CONSTANTS
  t1 = t1
  t2 = t2
  page = page
  ins = ins
  para = para
  Threads = {t1, t2}
  Files = {page}
  Texts = {ins, para}
  Extension <- MCExtension
  LookUps <- MCLookUps
  OtherTagInit <- MCOtherTagInit
  BlockTagInit <- MCBlockTagInit
SYMMETRY MCSymmetry
INVARIANTS TypeOK PagesRight
PROPERTY AnswerWasTrue
CHECK_DEADLOCK FALSE
