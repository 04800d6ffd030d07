SPECIFICATION Spec
CONSTANT Users <- MCUsers
INVARIANTS PromptIsScript TreeIsWhole BindsAsWritten
CHECK_DEADLOCK FALSE
