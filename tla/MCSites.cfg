SPECIFICATION FairSpec
CONSTANTS
    SiteIDs = {s1}
    Calls = {c1, c2}
    MaxEvents = 3
INVARIANTS TypeOK UserRowsGone
PROPERTIES RevocationFinal PacConverges RevocationTakes
