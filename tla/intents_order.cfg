\* Two proposals in one question, and an answer to the second.
CONSTANTS
    Turns = {t1}
    Ids = {i1}
    Tasks = {b1}
    Values = {0, 1}
    None = None
    Proposals <- TwoProposals
    Actions <- TwoActions
    MaxActions = 1
    MaxItems = 2
    MaxVersion = 2
    MaxContext = 1
SPECIFICATION Spec
INVARIANT EveryItemAnswerable
