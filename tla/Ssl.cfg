SPECIFICATION FairSpec
CONSTANTS
  Kinds = {"tls13", "tls12", "falseStart", "resumed"}
  Pieces = 6
  LineEnds <- MCLineEnds
  RequestEnds <- MCRequestEnds
  Large = {5}
  Streams <- MCStreams
INVARIANTS TypeOK AnswersInOrder
PROPERTY StallsExplained
CHECK_DEADLOCK FALSE
