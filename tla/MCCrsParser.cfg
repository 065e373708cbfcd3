CONSTANTS
    Sources <- MCSources
    Unreadable = Unreadable
    Absent = Absent
    Numerals <- MCNumerals
    Mangled <- MCMangled
SPECIFICATION ParserSpec
INVARIANTS
    RulesAsWritten
    LinesAreRead
\* The build ends with the last file.
CHECK_DEADLOCK FALSE
