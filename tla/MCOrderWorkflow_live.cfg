CONSTANTS
    s1 = s1
    Trades = {t1, t2}
    Loop = Loop
    Symbols = {s1}
    SymbolOf <- OneSymbol
    Leverages = {10}
    Absent = Absent
    Unusable = Unusable
    Nobody = Nobody
SPECIFICATION FairSpec
PROPERTY
    CallsEnd
