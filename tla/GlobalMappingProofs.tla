------------------------ MODULE GlobalMappingProofs ------------------------
(***************************************************************************)
(* Theorems about GlobalMapping, for any globals, modules and addresses.   *)
(***************************************************************************)
EXTENDS GlobalMapping, TLAPS

-----------------------------------------------------------------------------
(* All operations together.  What is known of null entries is in           *)
(* leftBehind, what is known of addresses of several globals in shared.    *)

SharingNoted ==
  Built(GlobalAddressReverseMap) => Crowded(GlobalAddressMap) \subseteq shared

NullLeftBehind ==
  /\ \A gv \in DOMAIN GlobalAddressMap :
       GlobalAddressMap[gv] = Null => <<Null, gv>> \in leftBehind
  /\ Null \in DOMAIN GlobalAddressReverseMap =>
       <<Null, GlobalAddressReverseMap[Null]>> \in leftBehind

Inv ==
  /\ TypeOK
  /\ SharingNoted
  /\ NullLeftBehind
  /\ ReverseComplete
  /\ ReverseSound
  /\ GoneUnmapped

\* In the initial state both maps are empty.
LEMMA InitInv == Init => Inv
BY GlobalMappingAssumption
   DEF Init, Inv, TypeOK, SharingNoted, NullLeftBehind, ReverseComplete, ReverseSound,
       GoneUnmapped, Empty, Built

\* The history takes note of every address of several globals, and forgets
\* none while the reverse map is in use.
LEMMA Noted ==
  ASSUME NoteSharing
  PROVE  /\ SharingNoted'
         /\ TypeOK => shared' \subseteq Addresses
         /\ Built(GlobalAddressReverseMap)' => shared \subseteq shared'
BY DEF NoteSharing, SharingNoted, TypeOK, Crowded, Built

\* Two globals at one address make it one that the history knows.
LEMMA TwoNoted ==
  ASSUME TypeOK, SharingNoted, Built(GlobalAddressReverseMap),
         NEW gv \in DOMAIN GlobalAddressMap, NEW h \in DOMAIN GlobalAddressMap, gv # h,
         GlobalAddressMap[gv] = GlobalAddressMap[h], GlobalAddressMap[gv] # Null
  PROVE  GlobalAddressMap[gv] \in shared
<1>1. GlobalAddressMap[gv] \in Crowded(GlobalAddressMap)
  BY DEF TypeOK, Crowded
<1>. QED BY <1>1 DEF SharingNoted

\* addGlobalMapping with an address keeps the invariant.
LEMMA AddInv ==
  ASSUME Inv, NEW gv \in GlobalValues, NEW a \in Addresses, AddGlobalMapping(gv, a)
  PROVE  Inv'
<1>. DEFINE F == GlobalAddressMap
            R == GlobalAddressReverseMap
<1>1. /\ DOMAIN F' = DOMAIN F \cup {gv}
      /\ F'[gv] = a
      /\ \A x \in DOMAIN F : x # gv => F'[x] = F[x]
  BY DEF AddGlobalMapping, Put
<1>2. \/ R' = R /\ DOMAIN R = {}
      \/ /\ DOMAIN R # {}
         /\ DOMAIN R' = DOMAIN R \cup {a}
         /\ R'[a] = gv
         /\ \A x \in DOMAIN R : x # a => R'[x] = R[x]
  BY DEF AddGlobalMapping, AddReverse, Put, Built
<1>3. UNCHANGED <<leftBehind, module>> /\ NoteSharing
  BY DEF AddGlobalMapping
<1>4. TypeOK'
  <2>1. shared' \subseteq Addresses
    BY <1>3, Noted DEF Inv
  <2>. QED BY <1>1, <1>2, <1>3, <2>1 DEF Inv, TypeOK, AddGlobalMapping
<1>5. NullLeftBehind'
  BY <1>1, <1>2, <1>3, GlobalMappingAssumption DEF Inv, NullLeftBehind
<1>6. SharingNoted'
  BY <1>3, Noted
<1>7. ReverseComplete'
  <2>. SUFFICES ASSUME DOMAIN R' # {}, NEW h \in DOMAIN F', F'[h] \notin shared' \cup {Null}
                PROVE  F'[h] \in DOMAIN R' /\ R'[F'[h]] = h
    BY DEF ReverseComplete, Built
  <2>0. shared \subseteq shared'
    BY <1>3, Noted DEF Built
  <2>1. DOMAIN R # {}
    BY <1>2
  <2>2. CASE h = gv
    BY <1>1, <1>2, <2>1, <2>2
  <2>3. CASE h # gv
    <3>1. h \in DOMAIN F /\ F'[h] = F[h]
      BY <1>1, <2>3
    <3>2. F[h] # a
      <4>1. gv \in DOMAIN F' /\ F'[gv] = a
        BY <1>1
      <4>. QED BY <1>4, <1>6, <2>3, <3>1, <4>1 DEF SharingNoted, Built, Crowded, TypeOK
    <3>3. F[h] \in DOMAIN R /\ R[F[h]] = h
      BY <2>0, <2>1, <3>1 DEF Inv, ReverseComplete, Built
    <3>. QED BY <1>2, <3>1, <3>2, <3>3
  <2>. QED BY <2>2, <2>3
<1>8. ReverseSound'
  <2>1. AddressOf(gv)' = a /\ \A h \in GlobalValues : h # gv => AddressOf(h)' = AddressOf(h)
    BY <1>1 DEF AddressOf
  <2>2. \A x \in DOMAIN R : R[x] = gv => <<x, gv>> \in leftBehind
    BY DEF Inv, ReverseSound, NullLeftBehind, AddGlobalMapping
  <2>. QED BY <1>2, <1>3, <2>1, <2>2 DEF Inv, TypeOK, ReverseSound
<1>9. GoneUnmapped'
  BY <1>1 DEF Inv, GoneUnmapped, AddGlobalMapping, Usable
<1>. QED BY <1>4, <1>5, <1>6, <1>7, <1>8, <1>9 DEF Inv

\* A null mapping keeps the invariant: what it breaks goes to leftBehind.
LEMMA AddNullInv ==
  ASSUME Inv, NEW gv \in GlobalValues, AddNullMapping(gv)
  PROVE  Inv'
<1>. DEFINE F == GlobalAddressMap
            R == GlobalAddressReverseMap
<1>1. /\ DOMAIN F' = DOMAIN F \cup {gv}
      /\ F'[gv] = Null
      /\ \A x \in DOMAIN F : x # gv => F'[x] = F[x]
  BY DEF AddNullMapping, Put
<1>2. \/ R' = R /\ DOMAIN R = {}
      \/ /\ DOMAIN R # {}
         /\ DOMAIN R' = DOMAIN R \cup {Null}
         /\ R'[Null] = gv
         /\ \A x \in DOMAIN R : x # Null => R'[x] = R[x]
  BY DEF AddNullMapping, AddReverse, Put, Built
<1>3. /\ leftBehind' = leftBehind \cup {<<AddressOf(gv), gv>>, <<Null, gv>>}
      /\ NoteSharing
  BY DEF AddNullMapping
<1>4. TypeOK'
  <2>1. shared' \subseteq Addresses
    BY <1>3, Noted DEF Inv
  <2>2. AddressOf(gv) \in Addresses \cup {Null}
    BY DEF Inv, TypeOK, AddressOf
  <2>. QED BY <1>1, <1>2, <1>3, <2>1, <2>2 DEF Inv, TypeOK, AddNullMapping
<1>5. NullLeftBehind'
  BY <1>1, <1>2, <1>3 DEF Inv, NullLeftBehind
<1>6. SharingNoted'
  BY <1>3, Noted
<1>7. ReverseComplete'
  <2>1. DOMAIN R' # {} => shared \subseteq shared'
    BY <1>3, Noted DEF Built
  <2>. QED BY <1>1, <1>2, <2>1 DEF Inv, ReverseComplete, Built
<1>8. ReverseSound'
  <2>1. \A h \in GlobalValues : h # gv => AddressOf(h)' = AddressOf(h)
    BY <1>1 DEF AddressOf
  <2>2. \A x \in DOMAIN R : R[x] = gv => <<x, gv>> \in leftBehind'
    BY <1>3 DEF Inv, ReverseSound
  <2>. QED BY <1>2, <1>3, <2>1, <2>2 DEF Inv, TypeOK, ReverseSound
<1>9. GoneUnmapped'
  BY <1>1 DEF Inv, GoneUnmapped, AddNullMapping, Usable
<1>. QED BY <1>4, <1>5, <1>6, <1>7, <1>8, <1>9 DEF Inv

\* The old address of a global is dropped, whoever else lives there: a global
\* that the reverse map still owes an entry has that address for itself.
LEMMA DroppedAlone ==
  ASSUME Inv, Built(GlobalAddressReverseMap),
         NEW gv \in GlobalValues, NEW h \in DOMAIN GlobalAddressMap, h # gv,
         GlobalAddressMap[h] \notin shared \cup {Null}
  PROVE  GlobalAddressMap[h] # AddressOf(gv)
<1>. SUFFICES ASSUME GlobalAddressMap[h] = AddressOf(gv) PROVE FALSE
  OBVIOUS
<1>1. gv \in DOMAIN GlobalAddressMap /\ GlobalAddressMap[gv] = GlobalAddressMap[h]
  BY DEF AddressOf
<1>. QED BY <1>1, TwoNoted DEF Inv

\* updateGlobalMapping with an address keeps the invariant.
LEMMA UpdateInv ==
  ASSUME Inv, NEW gv \in GlobalValues, NEW a \in Addresses, UpdateGlobalMapping(gv, a)
  PROVE  Inv'
<1>. DEFINE F == GlobalAddressMap
            R == GlobalAddressReverseMap
            D == DropOld(R, AddressOf(gv))
<1>1. /\ DOMAIN F' = DOMAIN F \cup {gv}
      /\ F'[gv] = a
      /\ \A x \in DOMAIN F : x # gv => F'[x] = F[x]
  BY DEF UpdateGlobalMapping, Put
<1>2. /\ DOMAIN D = IF AddressOf(gv) = Null THEN DOMAIN R ELSE DOMAIN R \ {AddressOf(gv)}
      /\ \A x \in DOMAIN D : D[x] = R[x]
  BY DEF DropOld, Drop
<1>3. \/ R' = D /\ DOMAIN D = {}
      \/ /\ DOMAIN R # {}
         /\ DOMAIN R' = DOMAIN D \cup {a}
         /\ R'[a] = gv
         /\ \A x \in DOMAIN D : x # a => R'[x] = D[x]
  BY <1>2 DEF UpdateGlobalMapping, AddReverse, Put, Built
<1>. HIDE DEF D
<1>4. UNCHANGED <<leftBehind, module>> /\ NoteSharing
  BY DEF UpdateGlobalMapping
<1>5. TypeOK'
  <2>1. shared' \subseteq Addresses
    BY <1>4, Noted DEF Inv
  <2>2. asserts' \in BOOLEAN
    BY DEF UpdateGlobalMapping
  <2>. QED BY <1>1, <1>2, <1>3, <1>4, <2>1, <2>2 DEF Inv, TypeOK
<1>6. NullLeftBehind'
  BY <1>1, <1>2, <1>3, <1>4, GlobalMappingAssumption DEF Inv, NullLeftBehind
<1>7. SharingNoted'
  BY <1>4, Noted
<1>8. ReverseComplete'
  <2>. SUFFICES ASSUME DOMAIN R' # {}, NEW h \in DOMAIN F', F'[h] \notin shared' \cup {Null}
                PROVE  F'[h] \in DOMAIN R' /\ R'[F'[h]] = h
    BY DEF ReverseComplete, Built
  <2>0. shared \subseteq shared'
    BY <1>4, Noted DEF Built
  <2>1. DOMAIN R # {}
    BY <1>3
  <2>2. CASE h = gv
    BY <1>1, <1>3, <2>2
  <2>3. CASE h # gv
    <3>1. h \in DOMAIN F /\ F'[h] = F[h]
      BY <1>1, <2>3
    <3>2. F[h] # a
      <4>1. gv \in DOMAIN F' /\ F'[gv] = a
        BY <1>1
      <4>. QED BY <1>5, <1>7, <2>3, <3>1, <4>1 DEF SharingNoted, Built, Crowded, TypeOK
    <3>3. F[h] \in DOMAIN R /\ R[F[h]] = h
      BY <2>0, <2>1, <3>1 DEF Inv, ReverseComplete, Built
    <3>4. F[h] # AddressOf(gv)
      BY <2>0, <2>1, <2>3, <3>1, DroppedAlone DEF Built
    <3>. QED BY <1>2, <1>3, <3>1, <3>2, <3>3, <3>4
  <2>. QED BY <2>2, <2>3
<1>9. ReverseSound'
  <2>1. AddressOf(gv)' = a /\ \A h \in GlobalValues : h # gv => AddressOf(h)' = AddressOf(h)
    BY <1>1 DEF AddressOf
  <2>2. \A x \in DOMAIN D : R[x] = gv => <<x, gv>> \in leftBehind
    BY <1>2 DEF Inv, ReverseSound, NullLeftBehind
  <2>. QED BY <1>2, <1>3, <1>4, <2>1, <2>2 DEF Inv, TypeOK, ReverseSound
<1>10. GoneUnmapped'
  BY <1>1, <1>4 DEF Inv, GoneUnmapped, UpdateGlobalMapping, Usable
<1>. QED BY <1>5, <1>6, <1>7, <1>8, <1>9, <1>10 DEF Inv

\* updateGlobalMapping with null keeps the invariant.
LEMMA RemoveInv ==
  ASSUME Inv, NEW gv \in GlobalValues, RemoveGlobalMapping(gv)
  PROVE  Inv'
<1>. DEFINE F == GlobalAddressMap
            R == GlobalAddressReverseMap
<1>1. /\ DOMAIN F' = DOMAIN F \ {gv}
      /\ \A x \in DOMAIN F' : F'[x] = F[x]
  BY DEF RemoveGlobalMapping, Drop
<1>2. /\ DOMAIN R' = DOMAIN R \ {AddressOf(gv)}
      /\ \A x \in DOMAIN R' : R'[x] = R[x]
  BY DEF RemoveGlobalMapping, Drop
<1>3. UNCHANGED <<leftBehind, module, asserts>> /\ NoteSharing
  BY DEF RemoveGlobalMapping
<1>4. TypeOK'
  <2>1. shared' \subseteq Addresses
    BY <1>3, Noted DEF Inv
  <2>. QED BY <1>1, <1>2, <1>3, <2>1 DEF Inv, TypeOK
<1>5. NullLeftBehind'
  BY <1>1, <1>2, <1>3 DEF Inv, NullLeftBehind
<1>6. SharingNoted'
  BY <1>3, Noted
<1>7. ReverseComplete'
  <2>. SUFFICES ASSUME DOMAIN R' # {}, NEW h \in DOMAIN F', F'[h] \notin shared' \cup {Null}
                PROVE  F'[h] \in DOMAIN R' /\ R'[F'[h]] = h
    BY DEF ReverseComplete, Built
  <2>1. shared \subseteq shared' /\ DOMAIN R # {}
    BY <1>2, <1>3, Noted DEF Built
  <2>2. h \in DOMAIN F /\ h # gv /\ F'[h] = F[h]
    BY <1>1
  <2>3. F[h] # AddressOf(gv)
    BY <2>1, <2>2, DroppedAlone DEF Built
  <2>. QED BY <1>2, <2>1, <2>2, <2>3 DEF Inv, ReverseComplete, Built
<1>8. ReverseSound'
  <2>1. \A h \in GlobalValues : h # gv => AddressOf(h)' = AddressOf(h)
    BY <1>1 DEF AddressOf
  <2>. QED BY <1>2, <1>3, <2>1 DEF Inv, TypeOK, ReverseSound
<1>9. GoneUnmapped'
  BY <1>1, <1>3 DEF Inv, GoneUnmapped, Usable
<1>. QED BY <1>4, <1>5, <1>6, <1>7, <1>8, <1>9 DEF Inv

\* clearAllGlobalMappings keeps the invariant.
LEMMA ClearAllInv == Inv /\ ClearAllGlobalMappings => Inv'
BY DEF ClearAllGlobalMappings, Inv, TypeOK, SharingNoted, NullLeftBehind, NoteSharing,
       ReverseComplete, ReverseSound, GoneUnmapped, Empty, Built

\* A module that leaves takes its forward entries along; the reverse ones
\* that stay go to leftBehind.
LEMMA LeaveInv ==
  ASSUME Inv, NEW m \in Modules, ClearGlobalMappingsFromModule(m), UNCHANGED asserts,
         NoteSharing,
         NEW where \in {"out", "deleted"}, module' = [module EXCEPT ![m] = where]
  PROVE  Inv'
<1>. DEFINE F == GlobalAddressMap
            R == GlobalAddressReverseMap
<1>1. /\ DOMAIN F' = DOMAIN F \ GlobalsOf(m)
      /\ \A x \in DOMAIN F' : F'[x] = F[x]
  BY DEF ClearGlobalMappingsFromModule, Drop
<1>2. /\ DOMAIN R' = DOMAIN R
      /\ \A x \in DOMAIN R' : R'[x] = R[x]
  BY GlobalMappingAssumption
  DEF ClearGlobalMappingsFromModule, Drop, GlobalsOf, Inv, TypeOK
<1>3. leftBehind' = leftBehind \cup
        {<<AddressOf(gv), gv>> : gv \in GlobalsOf(m) \cap DOMAIN F}
  BY DEF ClearGlobalMappingsFromModule
<1>4. TypeOK'
  <2>1. \A gv \in GlobalValues : AddressOf(gv) \in Addresses \cup {Null}
    BY DEF Inv, TypeOK, AddressOf
  <2>2. leftBehind' \subseteq (Addresses \cup {Null}) \X GlobalValues
    BY <1>3, <2>1 DEF Inv, TypeOK, GlobalsOf
  <2>3. module' \in [Modules -> {"in", "out", "deleted"}]
    BY DEF Inv, TypeOK
  <2>4. shared' \subseteq Addresses
    BY Noted DEF Inv
  <2>. QED BY <1>1, <1>2, <2>2, <2>3, <2>4 DEF Inv, TypeOK
<1>5. NullLeftBehind'
  BY <1>1, <1>2, <1>3 DEF Inv, NullLeftBehind
<1>6. SharingNoted'
  BY Noted
<1>7. ReverseComplete'
  <2>1. DOMAIN R' # {} => shared \subseteq shared'
    BY Noted DEF Built
  <2>. QED BY <1>1, <1>2, <2>1 DEF Inv, ReverseComplete, Built
<1>8. ReverseSound'
  <2>1. \A h \in GlobalValues \ GlobalsOf(m) : AddressOf(h)' = AddressOf(h)
    BY <1>1 DEF AddressOf
  <2>2. \A x \in DOMAIN R : R[x] \in GlobalsOf(m) \cap DOMAIN F =>
          <<x, R[x]>> \in leftBehind'
    BY <1>3 DEF Inv, ReverseSound
  <2>3. \A x \in DOMAIN R : R[x] \in GlobalsOf(m) \ DOMAIN F =>
          <<x, R[x]>> \in leftBehind'
    BY <1>3 DEF Inv, ReverseSound, NullLeftBehind, AddressOf
  <2>4. \A x \in DOMAIN R : <<x, R[x]>> \in leftBehind => <<x, R[x]>> \in leftBehind'
    BY <1>3
  <2>. QED BY <1>2, <2>1, <2>2, <2>3, <2>4 DEF Inv, TypeOK, ReverseSound
<1>9. GoneUnmapped'
  BY <1>1, GlobalMappingAssumption DEF Inv, TypeOK, GoneUnmapped, Usable, GlobalsOf
<1>. QED BY <1>4, <1>5, <1>6, <1>7, <1>8, <1>9 DEF Inv

\* addModuleProvider keeps the invariant.
LEMMA AddModuleInv ==
  ASSUME Inv, NEW m \in Modules, AddModuleProvider(m)
  PROVE  Inv'
<1>1. /\ UNCHANGED <<GlobalAddressMap, GlobalAddressReverseMap, asserts, leftBehind>>
      /\ module' = [module EXCEPT ![m] = "in"]
      /\ NoteSharing
  BY DEF AddModuleProvider
<1>2. TypeOK'
  <2>1. shared' \subseteq Addresses
    BY <1>1, Noted DEF Inv
  <2>. QED BY <1>1, <2>1 DEF Inv, TypeOK
<1>3. SharingNoted'
  BY <1>1, Noted
<1>4. NullLeftBehind' /\ ReverseSound'
  BY <1>1 DEF Inv, NullLeftBehind, ReverseSound, AddressOf
<1>5. ReverseComplete'
  BY <1>1, Noted DEF Inv, ReverseComplete, Built
<1>6. GoneUnmapped'
  BY <1>1, GlobalMappingAssumption DEF Inv, TypeOK, GoneUnmapped, Usable
<1>. QED BY <1>2, <1>3, <1>4, <1>5, <1>6 DEF Inv

\* The first lookup builds the reverse map from the forward one.
LEMMA LookupInv ==
  ASSUME Inv, GetGlobalValueAtAddress
  PROVE  Inv'
<1>. DEFINE F == GlobalAddressMap
            R == GlobalAddressReverseMap
<1>1. UNCHANGED <<GlobalAddressMap, module, asserts, leftBehind>> /\ NoteSharing
  BY DEF GetGlobalValueAtAddress
<1>2. SharingNoted' /\ shared' \subseteq Addresses
  BY <1>1, Noted DEF Inv
<1>3. CASE Built(R)
  <2>1. R' = R
    BY <1>3 DEF GetGlobalValueAtAddress, BuiltReverse
  <2>2. TypeOK' /\ NullLeftBehind' /\ ReverseSound' /\ GoneUnmapped'
    BY <1>1, <1>2, <2>1
    DEF Inv, TypeOK, NullLeftBehind, ReverseSound, GoneUnmapped, AddressOf, Usable
  <2>3. ReverseComplete'
    BY <1>1, <2>1, Noted DEF Inv, ReverseComplete, Built
  <2>. QED BY <1>2, <2>2, <2>3 DEF Inv
<1>4. CASE ~ Built(R)
  <2>1. /\ DOMAIN R' = {F[gv] : gv \in DOMAIN F}
        /\ \A a \in DOMAIN R' : R'[a] \in DOMAIN F /\ F[R'[a]] = a
    BY <1>4 DEF GetGlobalValueAtAddress, BuiltReverse
  <2>2. TypeOK'
    BY <1>1, <1>2, <2>1 DEF Inv, TypeOK
  <2>3. NullLeftBehind'
    BY <1>1, <2>1 DEF Inv, NullLeftBehind
  <2>4. ReverseComplete'
    <3>. SUFFICES ASSUME DOMAIN R' # {}, NEW h \in DOMAIN F, F[h] \notin shared' \cup {Null}
                  PROVE  F[h] \in DOMAIN R' /\ R'[F[h]] = h
      BY <1>1 DEF ReverseComplete, Built
    <3>1. F[h] \in DOMAIN R' /\ R'[F[h]] \in DOMAIN F /\ F[R'[F[h]]] = F[h]
      BY <2>1
    <3>2. F[h] \notin Crowded(F)
      BY <1>1, <1>2 DEF SharingNoted, Built
    <3>3. F[h] \in Addresses
      BY DEF Inv, TypeOK
    <3>. QED BY <3>1, <3>2, <3>3 DEF Crowded
  <2>5. ReverseSound'
    BY <1>1, <2>1 DEF ReverseSound, AddressOf
  <2>6. GoneUnmapped'
    BY <1>1 DEF Inv, GoneUnmapped, Usable
  <2>. QED BY <1>2, <2>2, <2>3, <2>4, <2>5, <2>6 DEF Inv
<1>. QED BY <1>3, <1>4

\* Every step of every specification keeps the invariant.
LEMMA NextInv == Inv /\ [NextMapping \/ NextModules \/ NextNull]_vars => Inv'
<1>. SUFFICES ASSUME Inv, [NextMapping \/ NextModules \/ NextNull]_vars
              PROVE  Inv'
  OBVIOUS
<1>1. ASSUME NEW gv \in GlobalValues, NEW a \in Addresses, AddGlobalMapping(gv, a)
      PROVE  Inv'
  BY <1>1, AddInv
<1>2. ASSUME NEW gv \in GlobalValues, NEW a \in Addresses, UpdateGlobalMapping(gv, a)
      PROVE  Inv'
  BY <1>2, UpdateInv
<1>3. ASSUME NEW gv \in GlobalValues, RemoveGlobalMapping(gv)
      PROVE  Inv'
  BY <1>3, RemoveInv
<1>4. CASE ClearAllGlobalMappings
  BY <1>4, ClearAllInv
<1>5. CASE GetGlobalValueAtAddress
  BY <1>5, LookupInv
<1>6. ASSUME NEW m \in Modules, RemoveModuleProvider(m)
      PROVE  Inv'
  BY <1>6, LeaveInv DEF RemoveModuleProvider
<1>7. ASSUME NEW m \in Modules, DeleteModuleProvider(m)
      PROVE  Inv'
  BY <1>7, LeaveInv DEF DeleteModuleProvider
<1>8. ASSUME NEW m \in Modules, AddModuleProvider(m)
      PROVE  Inv'
  BY <1>8, AddModuleInv
<1>9. ASSUME NEW gv \in GlobalValues, AddNullMapping(gv)
      PROVE  Inv'
  BY <1>9, AddNullInv
<1>10. CASE UNCHANGED vars
  BY <1>10
  DEF vars, Inv, TypeOK, SharingNoted, NullLeftBehind, ReverseComplete, ReverseSound,
      GoneUnmapped, AddressOf, Usable, Built
<1>. QED BY <1>1, <1>2, <1>3, <1>4, <1>5, <1>6, <1>7, <1>8, <1>9, <1>10
         DEF NextMapping, NextModules, NextNull

\* The invariant holds in every behaviour.
THEOREM Invariance == Spec => []Inv
BY InitInv, NextInv, PTL DEF Spec

\* Every variable has its type.
THEOREM TypeCorrect == Spec => []TypeOK
<1>1. Inv => TypeOK
  BY DEF Inv
<1>. QED BY <1>1, Invariance, PTL

\* getGlobalValueAtAddress finds a global at the address it lives at, unless
\* the address has been that of several since the reverse map was built; what
\* modules and null mappings left behind does not hide it.
THEOREM AlwaysComplete == Spec => []ReverseComplete
<1>1. Inv => ReverseComplete
  BY DEF Inv
<1>. QED BY <1>1, Invariance, PTL

\* What getGlobalValueAtAddress answers wrongly was left behind by the
\* removal of a module or by a null mapping.
THEOREM AlwaysSound == Spec => []ReverseSound
<1>1. Inv => ReverseSound
  BY DEF Inv
<1>. QED BY <1>1, Invariance, PTL

\* No global of a module outside the engine has an address.
THEOREM AlwaysUnmapped == Spec => []GoneUnmapped
<1>1. Inv => GoneUnmapped
  BY DEF Inv
<1>. QED BY <1>1, Invariance, PTL

-----------------------------------------------------------------------------
(* "GlobalMapping already established!"                                    *)

\* The reverse map grows by one entry, that of a global whose old one is
\* dropped, and the assert asks for room for it.
Files(gv, a) ==
  /\ asserts' = (asserts /\ NotEstablished(DropOld(GlobalAddressReverseMap, AddressOf(gv)), a))
  /\ gv \in DOMAIN GlobalAddressMap' /\ GlobalAddressMap'[gv] = a
  /\ \A h \in DOMAIN GlobalAddressMap' :
       h # gv => h \in DOMAIN GlobalAddressMap /\ GlobalAddressMap'[h] = GlobalAddressMap[h]

\* addGlobalMapping and updateGlobalMapping file a global at an address.
LEMMA AddUpdateFiles ==
  ASSUME NEW gv \in GlobalValues, NEW a \in Addresses,
         AddGlobalMapping(gv, a) \/ UpdateGlobalMapping(gv, a)
  PROVE  Files(gv, a) /\ NoteSharing
<1>1. CASE AddGlobalMapping(gv, a)
  <2>1. DropOld(GlobalAddressReverseMap, AddressOf(gv)) = GlobalAddressReverseMap
    BY <1>1 DEF AddGlobalMapping, DropOld
  <2>. QED BY <1>1, <2>1 DEF AddGlobalMapping, Files, Put
<1>2. CASE UpdateGlobalMapping(gv, a)
  BY <1>2 DEF UpdateGlobalMapping, Files, Put
<1>. QED BY <1>1, <1>2

\* A step files one global at an address, or maps one to null, or leaves the
\* asserts as they are and gives no global an address.
LEMMA StepFiles ==
  ASSUME [NextMapping \/ NextModules \/ NextNull]_vars
  PROVE  \/ \E gv \in GlobalValues, a \in Addresses : Files(gv, a) /\ NoteSharing
         \/ \E gv \in GlobalValues : AddNullMapping(gv)
         \/ /\ asserts' = asserts
            /\ \A gv \in DOMAIN GlobalAddressMap' :
                 /\ gv \in DOMAIN GlobalAddressMap
                 /\ GlobalAddressMap'[gv] = GlobalAddressMap[gv]
            /\ NoteSharing \/ UNCHANGED vars
<1>1. ASSUME NEW gv \in GlobalValues, NEW a \in Addresses,
             AddGlobalMapping(gv, a) \/ UpdateGlobalMapping(gv, a)
      PROVE  Files(gv, a) /\ NoteSharing
  BY <1>1, AddUpdateFiles
<1>2. ASSUME NEW gv \in GlobalValues, RemoveGlobalMapping(gv)
      PROVE  /\ asserts' = asserts
             /\ \A h \in DOMAIN GlobalAddressMap' :
                  h \in DOMAIN GlobalAddressMap /\ GlobalAddressMap'[h] = GlobalAddressMap[h]
             /\ NoteSharing
  BY <1>2 DEF RemoveGlobalMapping, Drop
<1>3. ASSUME NEW m \in Modules, RemoveModuleProvider(m) \/ DeleteModuleProvider(m)
      PROVE  /\ asserts' = asserts
             /\ \A h \in DOMAIN GlobalAddressMap' :
                  h \in DOMAIN GlobalAddressMap /\ GlobalAddressMap'[h] = GlobalAddressMap[h]
             /\ NoteSharing
  BY <1>3 DEF RemoveModuleProvider, DeleteModuleProvider, ClearGlobalMappingsFromModule, Drop
<1>4. ASSUME NEW m \in Modules, AddModuleProvider(m)
      PROVE  UNCHANGED <<asserts, GlobalAddressMap>> /\ NoteSharing
  BY <1>4 DEF AddModuleProvider
<1>5. CASE ClearAllGlobalMappings
  BY <1>5 DEF ClearAllGlobalMappings, Empty
<1>6. CASE GetGlobalValueAtAddress
  BY <1>6 DEF GetGlobalValueAtAddress
<1>7. CASE UNCHANGED vars
  BY <1>7 DEF vars
<1>. QED BY <1>1, <1>2, <1>3, <1>4, <1>5, <1>6, <1>7 DEF NextMapping, NextModules, NextNull

\* A step that gives no global an address crowds none.
LEMMA NoneCrowded ==
  ASSUME \A gv \in DOMAIN GlobalAddressMap' :
           gv \in DOMAIN GlobalAddressMap /\ GlobalAddressMap'[gv] = GlobalAddressMap[gv]
  PROVE  Crowded(GlobalAddressMap)' \subseteq Crowded(GlobalAddressMap)
BY DEF Crowded

\* While the asserts hold, a reverse map in use lets no two globals have an
\* address that was not already theirs together when it was built: the entry
\* of the one is found before that of the other is written.
LEMMA SharingStep ==
  ASSUME Inv, [NextMapping \/ NextModules \/ NextNull]_vars,
         Built(GlobalAddressReverseMap), asserts'
  PROVE  shared' \subseteq shared
<1>. DEFINE F == GlobalAddressMap
            R == GlobalAddressReverseMap
<1>1. Crowded(F) \subseteq shared
  BY DEF Inv, SharingNoted
<1>2. ASSUME Crowded(F)' \subseteq shared, NoteSharing
      PROVE  shared' \subseteq shared
  BY <1>2 DEF NoteSharing
<1>3. ASSUME NEW gv \in GlobalValues, NEW a \in Addresses, Files(gv, a), NoteSharing
      PROVE  shared' \subseteq shared
  <2>. SUFFICES ASSUME NEW b \in Crowded(F)', b \notin shared
                PROVE  FALSE
    BY <1>2, <1>3
  <2>1. PICK g \in DOMAIN F', h \in DOMAIN F' : g # h /\ F'[g] = b /\ F'[h] = b
    BY DEF Crowded
  <2>0. b \in Addresses
    BY DEF Crowded
  <2>2. ~ (g # gv /\ h # gv)
    BY <1>1, <1>3, <2>0, <2>1 DEF Files, Crowded
  <2>3. b = a
    BY <1>3, <2>1, <2>2 DEF Files
  <2>4. PICK k \in DOMAIN F : k # gv /\ F[k] = a
    BY <1>3, <2>1, <2>2, <2>3 DEF Files
  <2>5. a \in DOMAIN R
    BY <2>3, <2>4, GlobalMappingAssumption DEF Inv, ReverseComplete
  <2>6. a # AddressOf(gv)
    BY <2>3, <2>4, DroppedAlone, GlobalMappingAssumption
  <2>7. a \in DOMAIN DropOld(R, AddressOf(gv))
    BY <2>5, <2>6 DEF DropOld, Drop
  <2>. QED BY <1>3, <2>7 DEF Files, NotEstablished, Built
<1>4. ASSUME NEW gv \in GlobalValues, AddNullMapping(gv)
      PROVE  shared' \subseteq shared
  <2>1. Crowded(F)' \subseteq Crowded(F)
    BY <1>4, GlobalMappingAssumption DEF AddNullMapping, Put, Crowded
  <2>. QED BY <1>1, <1>2, <1>4, <2>1 DEF AddNullMapping
<1>5. ASSUME NoteSharing,
             \A gv \in DOMAIN F' : gv \in DOMAIN F /\ F'[gv] = F[gv]
      PROVE  shared' \subseteq shared
  BY <1>1, <1>2, <1>5, NoneCrowded
<1>6. UNCHANGED vars => shared' \subseteq shared
  BY DEF vars
<1>. QED BY <1>3, <1>4, <1>5, <1>6, StepFiles

\* The assert that fires has found the entry of another global, or one that
\* was left behind.
LEMMA AssertStep ==
  ASSUME Inv, [NextMapping \/ NextModules \/ NextNull]_vars, asserts, ~ asserts'
  PROVE  \E gv \in DOMAIN GlobalAddressMap', a \in DOMAIN GlobalAddressReverseMap :
           LET h == GlobalAddressReverseMap[a]
           IN /\ GlobalAddressMap'[gv] = a
              /\ (h # gv /\ AddressOf(h) = a) \/ <<a, h>> \in leftBehind
<1>. DEFINE F == GlobalAddressMap
            R == GlobalAddressReverseMap
<1>1. ASSUME NEW gv \in GlobalValues, NEW a \in Addresses, Files(gv, a)
      PROVE  \E g \in DOMAIN F', b \in DOMAIN R :
               /\ F'[g] = b
               /\ (R[b] # g /\ AddressOf(R[b]) = b) \/ <<b, R[b]>> \in leftBehind
  <2>1. gv \in DOMAIN F' /\ F'[gv] = a /\ a \in DOMAIN DropOld(R, AddressOf(gv))
    BY <1>1 DEF Files, NotEstablished
  <2>2. a \in DOMAIN R /\ AddressOf(gv) # a
    BY <2>1, GlobalMappingAssumption DEF DropOld, Drop
  <2>3. AddressOf(R[a]) = a \/ <<a, R[a]>> \in leftBehind
    BY <2>2 DEF Inv, ReverseSound
  <2>. QED BY <2>1, <2>2, <2>3
<1>2. ASSUME NEW gv \in GlobalValues, AddNullMapping(gv)
      PROVE  \E g \in DOMAIN F', b \in DOMAIN R :
               /\ F'[g] = b
               /\ (R[b] # g /\ AddressOf(R[b]) = b) \/ <<b, R[b]>> \in leftBehind
  <2>1. gv \in DOMAIN F' /\ F'[gv] = Null /\ Null \in DOMAIN R
    BY <1>2 DEF AddNullMapping, NotEstablished, Put
  <2>2. <<Null, R[Null]>> \in leftBehind
    BY <2>1 DEF Inv, NullLeftBehind
  <2>. QED BY <2>1, <2>2
<1>. QED BY <1>1, <1>2, StepFiles

\* "GlobalMapping already established!" misses no address that comes to be
\* that of several globals while the reverse map is in use.
THEOREM NoSharingMissed == Spec => SharingCaught
<1>1. Inv /\ [NextMapping \/ NextModules \/ NextNull]_vars =>
        [Built(GlobalAddressReverseMap) /\ asserts' => shared' \subseteq shared]_vars
  BY SharingStep
<1>. QED BY <1>1, Invariance, PTL DEF Spec, SharingCaught

\* Nor does it fire without such an address, or an entry left behind.
THEOREM NoFalseAlarm == Spec => OnlySharingCaught
<1>1. Inv /\ [NextMapping \/ NextModules \/ NextNull]_vars =>
        [asserts /\ ~asserts' =>
           \E gv \in DOMAIN GlobalAddressMap', a \in DOMAIN GlobalAddressReverseMap :
             LET h == GlobalAddressReverseMap[a]
             IN /\ GlobalAddressMap'[gv] = a
                /\ (h # gv /\ AddressOf(h) = a) \/ <<a, h>> \in leftBehind]_vars
  BY AssertStep
<1>. QED BY <1>1, Invariance, PTL DEF Spec, OnlySharingCaught
=============================================================================
