\* Six free tokens: each part of the grammar can be read to its end without error.
SPECIFICATION Spec
CONSTANTS
  Sources <- MCSources
  MaxTokens = 6
INVARIANTS
  AcceptedIsBalanced
  GroupsByPrecedence
PROPERTY Ends
CHECK_DEADLOCK FALSE
