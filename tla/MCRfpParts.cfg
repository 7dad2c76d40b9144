SPECIFICATION MCSpec
CONSTANTS
    Dept = {warehouse, lastmile, reverse}
    Runs = {g1, g2}
    MaxIterations = 2
    Compliant = {reverse}
INVARIANTS
    IntakeTypeOK
    AnalysedIsComplete
    GenerationTypeOK
    RestingVerdictIsSound
PROPERTIES
    DiscardIsFinal
    UploadSettles
    GenerationSettles
\* A single ticket's pipeline ends.
CHECK_DEADLOCK FALSE
