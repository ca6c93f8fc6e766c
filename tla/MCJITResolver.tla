---------------------------- MODULE MCJITResolver ----------------------------
EXTENDS JITResolver, TLC

CONSTANTS t1, t2, main, leaf, helper, puts

MCOneThread == {t1}
MCTwoThreads == {t1, t2}

\* Two functions that call a third, which calls an external one.
MCDiamond == {main, helper, leaf, puts}
MCDiamondCalls == (main :> <<leaf, helper>>) @@ (helper :> <<leaf>>) @@ (leaf :> <<puts>>) @@ (puts :> <<>>)
MCExternal == {puts}
\* Only leaf can turn out not to fit.
MCLeafRetries == [f \in Functions |-> IF f = leaf THEN 1 ELSE 0]
=============================================================================
