---------------------------- MODULE GlobalMapping ----------------------------
(***************************************************************************)
(* The two maps of ExecutionEngineState between global values and the      *)
(* addresses they live at (lib/ExecutionEngine/ExecutionEngine.cpp).  The  *)
(* reverse map is built by the first getGlobalValueAtAddress and kept up   *)
(* to date from then on; that it has been built is known from its not      *)
(* being empty.  Every operation runs under ExecutionEngine::lock, so each *)
(* is one step.                                                            *)
(***************************************************************************)
EXTENDS Naturals, FiniteSets

CONSTANTS GlobalValues,  \* functions and global variables
          Modules,       \* the modules they belong to
          ModuleOf,      \* global value |-> its module
          Addresses,     \* where globals can live
          Null           \* the null address

ASSUME GlobalMappingAssumption ==
  /\ ModuleOf \in [GlobalValues -> Modules]
  /\ Null \notin Addresses
  /\ GlobalValues \cap (Addresses \cup {Null}) = {}

VARIABLES
  GlobalAddressMap,         \* global value |-> address
  GlobalAddressReverseMap,  \* address |-> global value
  module,                   \* module |-> where it is: "in" the engine, "out", "deleted"
  asserts,                  \* every assert reached so far held
  leftBehind,               \* history: <<address, global>> pairs that an operation
                            \* took out of the forward map only
  shared                    \* history: addresses several globals had at once since
                            \* the reverse map was last built

vars == <<GlobalAddressMap, GlobalAddressReverseMap, module, asserts, leftBehind, shared>>

-----------------------------------------------------------------------------
Put(f, k, v) == [x \in DOMAIN f \cup {k} |-> IF x = k THEN v ELSE f[x]]
Drop(f, K)   == [x \in DOMAIN f \ K |-> f[x]]
Empty        == [x \in {} |-> Null]

Built(reverse) == DOMAIN reverse # {}

AddressOf(gv) == IF gv \in DOMAIN GlobalAddressMap THEN GlobalAddressMap[gv] ELSE Null

GlobalsOf(m) == {gv \in GlobalValues : ModuleOf[gv] = m}
Usable(gv)   == module[ModuleOf[gv]] = "in"

\* The addresses that are those of several globals: emitGlobals gives the
\* copies of a global in other modules the address of the canonical one, and
\* the JIT gives equal names of several modules one address of the process.
Crowded(forward) ==
  {a \in Addresses : \E gv, h \in DOMAIN forward :
                       gv # h /\ forward[gv] = a /\ forward[h] = a}

Init ==
  /\ GlobalAddressMap = Empty
  /\ GlobalAddressReverseMap = Empty
  /\ module = [m \in Modules |-> "in"]
  /\ asserts = TRUE
  /\ leftBehind = {}
  /\ shared = {}

-----------------------------------------------------------------------------
\* The history of shared goes along with every step and constrains none.
NoteSharing ==
  shared' = IF Built(GlobalAddressReverseMap') THEN shared \cup Crowded(GlobalAddressMap')
            ELSE {}

\* Mutant: the new entry is forgotten.
NeverReverse(reverse, a, gv) == reverse

\* "If we are using the reverse mapping, add it too"
AddReverse(reverse, a, gv) == IF Built(reverse) THEN Put(reverse, a, gv) ELSE reverse

\* The entry the reverse map is about to get is new.
NotEstablished(reverse, a) == Built(reverse) => a \notin DOMAIN reverse

\* addGlobalMapping for a global that has no address, as its callers check.
AddGlobalMapping(gv, a) ==
  /\ Usable(gv) /\ AddressOf(gv) = Null
  /\ GlobalAddressMap' = Put(GlobalAddressMap, gv, a)
  /\ GlobalAddressReverseMap' = AddReverse(GlobalAddressReverseMap, a, gv)
  /\ asserts' = (asserts /\ NotEstablished(GlobalAddressReverseMap, a))
  /\ UNCHANGED <<module, leftBehind>>
  /\ NoteSharing

\* addGlobalMapping(GV, 0): recompileAndRelinkFunction takes the address from
\* a function that way, and the JIT maps external symbols it cannot resolve
\* to null.  The maps get an entry for null.
AddNullMapping(gv) ==
  /\ Usable(gv)
  /\ GlobalAddressMap' = Put(GlobalAddressMap, gv, Null)
  /\ GlobalAddressReverseMap' = AddReverse(GlobalAddressReverseMap, Null, gv)
  /\ asserts' = (asserts /\ NotEstablished(GlobalAddressReverseMap, Null))
  /\ leftBehind' = leftBehind \cup {<<AddressOf(gv), gv>>, <<Null, gv>>}
  /\ UNCHANGED module
  /\ NoteSharing

\* Mutant: the old address keeps its entry.
KeepOld(reverse, old) == reverse

\* The old address of a global no longer leads to it.
DropOld(reverse, old) == IF old = Null THEN reverse ELSE Drop(reverse, {old})

\* Mutant: the old entry is erased last.
UpdateDropsLast(gv, a) ==
  /\ Usable(gv)
  /\ GlobalAddressMap' = Put(GlobalAddressMap, gv, a)
  /\ GlobalAddressReverseMap' =
       DropOld(AddReverse(GlobalAddressReverseMap, a, gv), AddressOf(gv))
  /\ UNCHANGED <<module, asserts, leftBehind>>
  /\ NoteSharing

\* updateGlobalMapping with an address
UpdateGlobalMapping(gv, a) ==
  LET reverse == DropOld(GlobalAddressReverseMap, AddressOf(gv))
  IN /\ Usable(gv)
     /\ GlobalAddressMap' = Put(GlobalAddressMap, gv, a)
     /\ GlobalAddressReverseMap' = AddReverse(reverse, a, gv)
     /\ asserts' = (asserts /\ NotEstablished(reverse, a))
     /\ UNCHANGED <<module, leftBehind>>
     /\ NoteSharing

\* Mutant: the reverse map keeps the entry.
RemoveForwardOnly(gv) ==
  /\ Usable(gv)
  /\ GlobalAddressMap' = Drop(GlobalAddressMap, {gv})
  /\ UNCHANGED <<GlobalAddressReverseMap, module, asserts, leftBehind>>
  /\ NoteSharing

\* updateGlobalMapping(GV, 0)
RemoveGlobalMapping(gv) ==
  /\ Usable(gv)
  /\ GlobalAddressMap' = Drop(GlobalAddressMap, {gv})
  /\ GlobalAddressReverseMap' = Drop(GlobalAddressReverseMap, {AddressOf(gv)})
  /\ UNCHANGED <<module, asserts, leftBehind>>
  /\ NoteSharing

ClearAllGlobalMappings ==
  /\ GlobalAddressMap' = Empty
  /\ GlobalAddressReverseMap' = Empty
  /\ UNCHANGED <<module, asserts, leftBehind>>
  /\ NoteSharing

\* The reverse map is asked to erase the globals, which are no keys of it.
ClearGlobalMappingsFromModule(m) ==
  /\ GlobalAddressMap' = Drop(GlobalAddressMap, GlobalsOf(m))
  /\ GlobalAddressReverseMap' = Drop(GlobalAddressReverseMap, GlobalsOf(m))
  /\ leftBehind' = leftBehind \cup
       {<<AddressOf(gv), gv>> : gv \in GlobalsOf(m) \cap DOMAIN GlobalAddressMap}

\* removeModuleProvider gives the module to the caller, who may add it again.
RemoveModuleProvider(m) ==
  /\ module[m] = "in"
  /\ ClearGlobalMappingsFromModule(m)
  /\ module' = [module EXCEPT ![m] = "out"]
  /\ UNCHANGED asserts
  /\ NoteSharing

AddModuleProvider(m) ==
  /\ module[m] = "out"
  /\ module' = [module EXCEPT ![m] = "in"]
  /\ UNCHANGED <<GlobalAddressMap, GlobalAddressReverseMap, asserts, leftBehind>>
  /\ NoteSharing

\* deleteModuleProvider destroys the module and its globals.
DeleteModuleProvider(m) ==
  /\ module[m] = "in"
  /\ ClearGlobalMappingsFromModule(m)
  /\ module' = [module EXCEPT ![m] = "deleted"]
  /\ UNCHANGED asserts
  /\ NoteSharing

\* Mutant: the pair is inserted the wrong way round.
BuiltReverseSwapped(reverse) == {IF Built(reverse) THEN reverse ELSE GlobalAddressMap}

\* The reverse maps a lookup may read: built from the forward map if it is
\* empty, null entries included.  The first insertion at an address stays, and
\* the order is that of the globals in memory.
BuiltReverse(reverse) ==
  IF Built(reverse) THEN {reverse}
  ELSE LET Used == {GlobalAddressMap[gv] : gv \in DOMAIN GlobalAddressMap}
       IN {r \in [Used -> DOMAIN GlobalAddressMap] :
             \A a \in Used : GlobalAddressMap[r[a]] = a}

GetGlobalValueAtAddress ==
  /\ GlobalAddressReverseMap' \in BuiltReverse(GlobalAddressReverseMap)
  /\ UNCHANGED <<GlobalAddressMap, module, asserts, leftBehind>>
  /\ NoteSharing

-----------------------------------------------------------------------------
\* What the unit tests of the maps do, and the JIT while it compiles.
NextMapping ==
  \/ \E gv \in GlobalValues, a \in Addresses : AddGlobalMapping(gv, a)
  \/ \E gv \in GlobalValues, a \in Addresses : UpdateGlobalMapping(gv, a)
  \/ \E gv \in GlobalValues : RemoveGlobalMapping(gv)
  \/ ClearAllGlobalMappings
  \/ GetGlobalValueAtAddress

\* Modules come and go.
NextModules ==
  \/ \E m \in Modules : RemoveModuleProvider(m)
  \/ \E m \in Modules : AddModuleProvider(m)
  \/ \E m \in Modules : DeleteModuleProvider(m)

NextNull == \E gv \in GlobalValues : AddNullMapping(gv)

SpecModules   == Init /\ [][NextMapping \/ NextModules]_vars
SpecNull      == Init /\ [][NextMapping \/ NextNull]_vars
Spec          == Init /\ [][NextMapping \/ NextModules \/ NextNull]_vars

-----------------------------------------------------------------------------
(* Properties *)

\* Every variable has its type.
TypeOK ==
  /\ DOMAIN GlobalAddressMap \subseteq GlobalValues
  /\ \A gv \in DOMAIN GlobalAddressMap : GlobalAddressMap[gv] \in Addresses \cup {Null}
  /\ DOMAIN GlobalAddressReverseMap \subseteq Addresses \cup {Null}
  /\ \A a \in DOMAIN GlobalAddressReverseMap : GlobalAddressReverseMap[a] \in GlobalValues
  /\ module \in [Modules -> {"in", "out", "deleted"}]
  /\ asserts \in BOOLEAN
  /\ leftBehind \subseteq (Addresses \cup {Null}) \X GlobalValues
  /\ shared \subseteq Addresses

\* "This is the reverse mapping of GlobalAddressMap" (ExecutionEngine.h): an
\* address that several globals have had at once may miss those it still has
\* (the update of one erases the entry of all), but at every other address
\* getGlobalValueAtAddress finds the global that lives there, although the map
\* is not built again, its emptiness, which any removal may bring back, stands
\* for not built, and entries of globals long gone lie in between.
ReverseComplete ==
  Built(GlobalAddressReverseMap) =>
    \A gv \in DOMAIN GlobalAddressMap :
      GlobalAddressMap[gv] \notin shared \cup {Null} =>
        /\ GlobalAddressMap[gv] \in DOMAIN GlobalAddressReverseMap
        /\ GlobalAddressReverseMap[GlobalAddressMap[gv]] = gv

\* "GlobalMapping already established!" misses no sharing: as long as the
\* asserts hold, a reverse map in use lets no two globals have an address that
\* was not already theirs together when it was built.
SharingCaught ==
  [][Built(GlobalAddressReverseMap) /\ asserts' => shared' \subseteq shared]_vars

\* Nor does it fire for nothing: the address that is established already is
\* that of another global, or its entry was left behind by a module or a null
\* mapping.
OnlySharingCaught ==
  [][asserts /\ ~asserts' =>
       \E gv \in DOMAIN GlobalAddressMap', a \in DOMAIN GlobalAddressReverseMap :
         LET h == GlobalAddressReverseMap[a]
         IN /\ GlobalAddressMap'[gv] = a
            /\ (h # gv /\ AddressOf(h) = a) \/ <<a, h>> \in leftBehind]_vars

\* "GlobalMapping already established!" means that: it fires only in a step
\* that gives a global an address.
AssertMeansEstablished ==
  [][asserts /\ ~asserts' =>
       \E gv \in GlobalValues : AddressOf(gv)' \notin {Null, AddressOf(gv)}]_vars

\* A wrong answer of getGlobalValueAtAddress goes back to the removal of a
\* module or to a null mapping, and to nothing else.
ReverseSound ==
  \A a \in DOMAIN GlobalAddressReverseMap :
    LET gv == GlobalAddressReverseMap[a]
    IN AddressOf(gv) = a \/ <<a, gv>> \in leftBehind

\* getPointerToGlobalIfAvailable knows no address of a global whose module
\* has left the engine.
GoneUnmapped == \A gv \in DOMAIN GlobalAddressMap : Usable(gv)

\* "Clear all global mappings that came from a particular module": no map
\* holds an AssertingVH to a global that is destroyed with its module.
NoHandleToDestroyed ==
  \A gv \in GlobalValues : module[ModuleOf[gv]] = "deleted" =>
    /\ gv \notin DOMAIN GlobalAddressMap
    /\ \A a \in DOMAIN GlobalAddressReverseMap : GlobalAddressReverseMap[a] # gv

=============================================================================
