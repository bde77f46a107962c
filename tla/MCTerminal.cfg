SPECIFICATION TerminalSpec
INVARIANTS HistoryIsRecent ChosenIsDrawn KeysAsPressed DigestIsOfMessage ReadsAsWritten
PROPERTIES EditsAreText
CHECK_DEADLOCK FALSE
