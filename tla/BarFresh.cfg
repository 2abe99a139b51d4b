SPECIFICATION Spec
CONSTANTS
    LastDay = 3
    Holidays = {2}
    Caller = {c1}
PROPERTIES FreshBarCovered
