CONSTANTS
  Texts <- TextsDef
  Syntaxes <- SyntaxesDef
  CharLimit = 5
  MaxLength = 7
  MaxCalls = 8
SPECIFICATION LexerSpec
INVARIANTS
  PatternsRoundTrip
  RequestsRoundTrip
  OwnTextMatches
  NeverAdvancesBeyondStop
PROPERTY
  ReadersStop
CHECK_DEADLOCK FALSE
