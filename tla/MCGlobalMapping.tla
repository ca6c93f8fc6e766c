-------------------------- MODULE MCGlobalMapping --------------------------
EXTENDS GlobalMapping, TLC

CONSTANTS g1, g2, g3, m1, m2

MCGlobalValues == {g1, g2, g3}
MCModules      == {m1, m2}

\* Two globals of one module and one of another.
MCModuleOf == (g1 :> m1) @@ (g2 :> m1) @@ (g3 :> m2)

AddressSymmetry == Permutations(Addresses)
=============================================================================
