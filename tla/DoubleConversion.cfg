SPECIFICATION Spec
CONSTANTS
    Lead = {l1}
    Pipeline = {p1, p2}
    DefaultPipeline = {p1}
    Conversion = {c1, c2}
    Request = {r1, r2}
    None = None
PROPERTY OnlyQualifiedConverted
CHECK_DEADLOCK FALSE
