SPECIFICATION Spec
CONSTANTS
    Fuel = 12
    Programs <- MCPrograms
    Writer <- WrittenLines
    LexStage <- LexLines
    ParseStage <- ParseTokens
    LowerStage <- LowerItems
    AnalyzeStage <- AnalyzeItems
    FoldStage <- FoldModel
    GenerateStage <- GenerateCode
    RunStage <- RunCode
PROPERTY ParsesBack
PROPERTY FoldPreserves
PROPERTY CodeMeansProgram
INVARIANT AcceptedRunsSafely
PROPERTY SilentMatchesCover
PROPERTY SolverSettled
CHECK_DEADLOCK FALSE
