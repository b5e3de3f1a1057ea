SPECIFICATION Spec
CONSTANTS
    c1 = c1
    c2 = c2
    t1 = t1
    t2 = t2
    t3 = t3
    Checkouts = {c1, c2}
    Procs = {t1, t2}
    Home <- TwoInOne
    Serials = {1, 2, 3}
    None = None
    Torn = Torn
    Faults = {}
PROPERTIES RemovalsRecheckToken
