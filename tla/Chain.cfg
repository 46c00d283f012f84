SPECIFICATION Spec
CONSTANTS
  Request = {q1, q2, q3}
  Compressor = {c1, c2, c3}
  Queries <- SomeQueries
  Answers <- SomeAnswers
  MinSize = 2
  None = None
SYMMETRY Symmetry
INVARIANTS
  AnswerIntact
  CompressorsOwned
  OuterLayersApply
CHECK_DEADLOCK FALSE
