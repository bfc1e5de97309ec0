\* Inputs as MCCodecs bounds them, and three persons.
CONSTANTS
    LocalHosts <- MCLocalHosts
    PrivateHosts <- MCPrivateHosts
    Bracketed = {"[::1]"}
    Origins <- MCOrigins
    Lines <- MCLines
    Texts <- MCTexts
    Persons = {1, 2, 3}
SPECIFICATION InputSpec
CHECK_DEADLOCK FALSE
INVARIANTS SymbolsRead LayoutIsSound PenaltiesAgree ContentIsAuthentic VaultsOpen PastedUrlsAgree PaintsOnce
