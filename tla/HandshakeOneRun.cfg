SPECIFICATION FairSpec
CONSTANTS
    MaxRestarts = 2
    Duplicating = TRUE
INVARIANTS TypeOK AgreementPastData ServedRunPassedData
PROPERTIES ExchangesIds HandshakeProgress
