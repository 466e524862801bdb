CONSTANTS
    s1 = s1
    s2 = s2
    p = p
    q = q
    A = A
    B = B
    Same = Same
    Operator = Operator
    Sessions <- MCSessions
    Texts <- MCTexts
    Form <- MCForm
    Contexts <- MCContexts
    Units <- MCUnits
    Semantic = TRUE
    MaxUnits <- MCMaxUnits
    MaxNumber = 2
    MaxOps = 3
    MaxIds = 3
SPECIFICATION ControlsSpec
INVARIANTS
    ControlsTypeOK
    OperatorHasLastWord
    LoadChangesNothing
PROPERTIES
    NewIdsAreNew
