CONSTANTS
    mk = mk
    nk = nk
    stale = stale
    t1 = t1
    t2 = t2
    t3 = t3
    h1 = h1
    h2 = h2
    Names = {mk, nk, stale}
    Trainables = {t1, t2, t3}
    Hashes = {h1, h2}
    NameOf <- MCNameOf
    HashOf <- MCHashOf
    Deployments <- MCDeployments
    Tables <- MCTables
SPECIFICATION Spec
CHECK_DEADLOCK FALSE
INVARIANTS
    TypeOK
    EnforcedLoadIsVerified
    LoadReportsDrift
