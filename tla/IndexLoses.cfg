SPECIFICATION EvalSpec
CONSTANTS
    None = None
    Args <- MCNaturals
    Win <- MCWin
    Wide <- MCWide
    MaxOps = 3
INVARIANT
    CoversNaturals
