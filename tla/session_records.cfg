CONSTANTS
    s1 = s1
    s2 = s2
    k1 = k1
    k2 = k2
    low = low
    cap = cap
    other = other
    Same = Same
    Sessions <- MCSessions
    Texts <- MCTexts
    Form <- MCForm
    Contexts <- MCContexts
    Units <- MCUnits
    Semantic = TRUE
    MaxUnits <- MCMaxUnits
    MaxNumber = 3
SPECIFICATION Spec
INVARIANTS
    TypeOK
    UniqueIds
    SaysWhatSessionsSaid
PROPERTIES
    RetiredNeverReturn
    ReassertedKeepsId
