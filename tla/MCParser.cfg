CONSTANT Files <- MCFiles
SPECIFICATION Spec
CHECK_DEADLOCK FALSE
INVARIANTS  AcceptedIsGrammatical FailuresAreDiagnosed 
