\* Every leaf in three nested statements; three answers, then 0.
\* The system stops where a program ends.
SPECIFICATION MCSpec
CONSTANTS
 Programs = {}
 NProps = 2
 JumpMax = 32767
 Answers = 3
 Outer = {"none", "forin", "with", "switch", "try", "try finally", "finally"}
 Inner = {"none", "while", "forin", "with", "switch", "sparse", "try", "catch", "try finally", "try catch finally", "catch finally", "finally", "labelled while"}
 Core = {"if", "else", "while", "do", "for", "forin", "with", "label", "labelled while", "switch", "sparse", "cases", "try", "catch", "try finally", "try catch finally", "catch finally", "finally"}
 Around = {"none", "with", "forin", "try"}
INVARIANTS RunsAsWritten OperandsFit WithinDepth
PROPERTY Ends
CHECK_DEADLOCK FALSE
