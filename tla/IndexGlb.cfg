SPECIFICATION EvalSpec
CONSTANTS
    None = None
    Args <- MCNaturals
    Win <- MCWin
    Wide <- MCWide
    MaxOps = 2
INVARIANT
    GlbLower
