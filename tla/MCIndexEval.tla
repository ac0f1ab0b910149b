----------------------------- MODULE MCIndexEval -----------------------------
EXTENDS IndexEval, TLC

MCWin == -16 .. 16
MCWide == -24 .. 120

\* Operands over the natural numbers: constants, arrays, ranges, congruences.
MCNaturals ==
    {Bot, Top, NonNeg} \cup {IInt(k) : k \in {0, 1, 3}}
    \cup {MkSequence(0, 4, 0, None), MkSequence(0, 4, 0, 8), MkSequence(1, 2, 1, 9),
          MkGeq(2), MkLeq(7), MkEqMod(1, 2), MkEqMod(0, 3)}

===============================================================================
