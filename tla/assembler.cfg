SPECIFICATION Spec
CONSTANTS
    Line <- MCLine
    Sources <- MCSources
CHECK_DEADLOCK FALSE
INVARIANT AcceptsTheGrammar
INVARIANT CodeIsTheSource
INVARIANT BindsWhatIsGiven
