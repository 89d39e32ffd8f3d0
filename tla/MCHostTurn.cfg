SPECIFICATION Spec
CONSTANTS
    Texts = {"ask-ultrawork", "ask-start-work", "ask-which", "command-ultrawork", "continue"}
    Names <- CommandNames
    Bare = {"ask-ultrawork"}
    Messages = {"command-ultrawork"}
    Continue = "continue"
    MAX_IDLE_CONTINUATIONS = 2
    MaxTurns = 1
    MaxInputs = 2
    MaxRuns = 2
    MaxUpsets = 1
INVARIANTS
    OneActivationPerInput
    ContinuationsBounded
PROPERTIES
    DirectiveStands
CHECK_DEADLOCK FALSE
