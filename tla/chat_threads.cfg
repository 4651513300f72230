\* Two tabs at one question, or one page's thread of three turns.
CONSTANTS
    Turns = {t1, t2}
    Ids = {i1, i2}
    Tasks = {}
    Values = {0, 1}
    None = None
    Proposals <- OneProposal
    Actions <- OneAction
    MaxActions = 1
    MaxItems = 1
    MaxVersion = 2
    MaxContext = 2
    Titles = {a, b}
    Words = {a}
    MaxBlocks = 2
    MaxMessages = 5
    MaxEdits = 1
SYMMETRY Symmetry
SPECIFICATION MCSpec
INVARIANTS
    QuestionSound
PROPERTIES
    AnsweredInTime
    
    
