\* One question and a round with a call: the configured ratio, and weights that
\* differ.
CONSTANTS
    Weight = {1, 3}
    MaxCalls = 2
    ToolCallLimit = 3
    RatioNum = 7
    RatioDen = 10
    MaxLength = 7
SPECIFICATION Spec
INVARIANTS
    PairedHistory
