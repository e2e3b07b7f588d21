\* Three tokens are enough to be caught.
SPECIFICATION Spec
CONSTANTS
  Sources <- MCSources
  MaxTokens = 3
PROPERTY ParserReturns
CHECK_DEADLOCK FALSE
