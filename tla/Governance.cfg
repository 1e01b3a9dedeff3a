SPECIFICATION LiveSpec
CONSTANTS
    Keys = {pii}
    Seeded = {pii}
    Objects = {ssn}
    MaskIds = {m1}
    RowIds = {}
    Values = {eu}
    Loops = {studio, other}
    Threads = {ctas}
    Readers = {x, y}
    Looked = {"tags"}
    Nobody = Nobody
    MaxSteps = 3
    MaxCalls = 2
CHECK_DEADLOCK FALSE
INVARIANTS
    AnswersAreCurrent
PROPERTIES
    DeletedStaysDeleted
    TagsComeBack
