SPECIFICATION Spec
CONSTANTS
    StunClient = {c1, c2}
    TurnClient = {r1, r2}
    MaxRounds = 3
    StunFails = TRUE
    TurnFails = TRUE
INVARIANTS
    CompleteIsTrue
PROPERTIES
    CompletesUnlessSilent
