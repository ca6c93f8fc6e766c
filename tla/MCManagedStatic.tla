-------------------------- MODULE MCManagedStatic --------------------------
EXTENDS ManagedStatic

CONSTANTS t1, t2, t3, GlobalContext, PSVs, TimerLock, TTI

MCThreads == {t1, t2, t3}

\* The constructor of PSVs uses the global context, the destructor of the
\* pass timing report the lock of the timers.
MCStatics == {GlobalContext, PSVs, TimerLock, TTI}
MCCreatorUses == [s \in MCStatics |-> IF s = PSVs THEN {GlobalContext} ELSE {}]
MCDeleterUses == [s \in MCStatics |-> IF s = TTI THEN {TimerLock} ELSE {}]

\* Every call returns: no thread differs from t1.
CallsReturn == CallReturns(t1)
=============================================================================
