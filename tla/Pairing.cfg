\* Two codes: two DSNs of one installation, or one DSN paired twice.
CONSTANTS
    home = home
    Codes = {code1, code2}
    Clis = {k1, k2}
    Installs = {home}
    InstallOf <- MCInstallOf
    Teams = {team1}
    Names = {n1}
    Prints = {p1}
    Checksums = {}
    None = None
SPECIFICATION FairSpec
INVARIANTS
    OneSessionPerCode
    NamesUnique
    PairedOnceUnlessOverlapped
PROPERTIES
    ConsumedForGood
    ImplementsLifecycle
    
CHECK_DEADLOCK FALSE
