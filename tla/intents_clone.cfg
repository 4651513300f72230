\* An answer that is incomplete and partly rejected.
CONSTANTS
    Turns = {t1}
    Ids = {i1}
    Tasks = {b1}
    Values = {0, 1, 2}
    None = None
    Proposals <- ManyProposals
    Actions <- ManyActions
    MaxActions = 1
    MaxItems = 2
    MaxVersion = 2
    MaxContext = 1
SPECIFICATION Spec
PROPERTY PermissionsNotCloned
