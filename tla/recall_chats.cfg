\* Two exchanges over up to two starts: a fact that may be said and echoed,
\* transcripts a turn too long, and prompts that fit, fit in part or not at all.
SPECIFICATION Spec
CONSTANTS
    Fact = {f}
    Invented = Invented
    None = None
    MaxTranscript = 7
    MinWords = 4
    Room = 23
    SystemWords = 2
    Heading = 1
    SnapshotWords = 4
    ProfileWords = 3
    DecisionWords = 7
    RagWords = 4
    WebWords = 4
    HistoryWords = 5
    Inputs <- SomeInputs
    RecapWords = 3
    MaxTurn = 2
    MaxStart = 2
    MaxAgain = 1
INVARIANTS
    TypeOK
    EvidenceWasSaid
    PromptIsBest
CHECK_DEADLOCK FALSE
