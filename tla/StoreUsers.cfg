SPECIFICATION StoreSpec
CONSTANTS
    LastDay = 3
    Holidays = {2}
    Caller = {c1, c2}
    Reader = {r1, r2, r3}
    TTL = 2
    EndOfTime = 4
    a = a
    b = b
    c = c
    x = x
    y = y
    Generator = {g1, g2}
    Rule = {a, b, c}
    Wording = {x, y}
    Invalid = Invalid
    Responses <- Menu
    Asked = 2
    MaxRetries = 2
    Seeds <- OneSeed
INVARIANTS StoreTypeOK AnswersComplete NeverOlder IdsNameOneRow RowsKeepTheirSource
PROPERTIES FetchesOnlyMissing RefreshesSpaced StaleIsNewest BatchIsFirstDistinct
