SPECIFICATION RecordsSpec
CONSTANTS
    Lead = {l1}
    Pipeline = {p1, p2}
    DefaultPipeline = {p1}
    Conversion = {c1, c2}
    Request = {r1, r2}
    Entity = {e1, e2}
    Caller = {h1, h2}
    MaxChanges = 3
    MaxFaults = 1
    None = None
    NoEntity = NoEntity
INVARIANTS TypesOK StepsAreTaken ConvertedIsBacked ConversionIsWhole LogTellsWhatHappened
CHECK_DEADLOCK FALSE
SYMMETRY Symmetry
