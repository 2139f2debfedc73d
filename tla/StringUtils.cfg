SPECIFICATION SplitSpec
CONSTANTS
  Slash = "/"
  Backslash = "b"
  Dot = "."
  Letter = "x"
  MaxLength = 5
  Strings <- MCStrings
  Slashes = {"/", "b"}
  Delimiters = {"/", "."}
INVARIANTS SplitsBack PathParts
CHECK_DEADLOCK FALSE
