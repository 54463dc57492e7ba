\* Answers of up to four frames, mixed as backends mix them.
SPECIFICATION Spec
CONSTANTS
    text = text  thought = thought  other = other
    Nothing = Nothing  Absent = Absent
    Pieces = {text, thought, other}
    Counts = {0, 2, 3}
    Lines <- SomeLines
    MaxLines = 4
CHECK_DEADLOCK FALSE
INVARIANTS AnswerIsWhatWasSaid BlankIsLoud LastWordReported
PROPERTIES KeepsContract
