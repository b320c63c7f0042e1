-------------------------- MODULE AddressFilter_proofs --------------------------
(***************************************************************************)
(* For any addresses and any number of reload requests: an address that    *)
(* stays in the account table is never taken for unmonitored.              *)
(***************************************************************************)
EXTENDS AddressFilter, TLAPS

(* The invariant follows a stable address through the places its answer can come  *)
(* from: the table, what a reload has read of it, the filter (but for the moment  *)
(* it is being filled, under the lock), the filter a check holds, the cache, and  *)
(* the result of the query.                                                       *)
TableHasStable == Stable \subseteq monitored

LockIsHeld ==
  \A r \in Request : place[r] \in {"locked", "read", "filling"} => mu = r

LoadedHasStable ==
  \A r \in Request : place[r] \in {"read", "filling"} => Stable \subseteq loaded[r]

FilterHasStable ==
  \/ filter = NoFilter \/ Stable \subseteq filter
  \/ \E r \in Request : place[r] = "filling"

CheckIsSound ==
  /\ phase \in {"cache", "bloom", "query", "store"} => probe \in Address
  /\ phase \in {"cache", "bloom"} => Stable \subseteq seen
  /\ phase = "store" /\ probe \in Stable => found

CacheIsSound == \A a \in DOMAIN cache : a \in Stable => cache[a]

IInv ==
  /\ TypeOK
  /\ TableHasStable /\ LockIsHeld /\ LoadedHasStable /\ FilterHasStable
  /\ CheckIsSound /\ CacheIsSound /\ StableAddressesAreSeen

\* An answer in the cache is sound when it is TRUE for a stable address.
LEMMA CachedAnswer ==
  ASSUME IInv, NEW answer \in BOOLEAN, probe \in Address, probe \in Stable => answer
  PROVE  /\ DOMAIN Cached(answer) \subseteq Address
         /\ Cached(answer) \in [DOMAIN Cached(answer) -> BOOLEAN]
         /\ \A a \in DOMAIN Cached(answer) : a \in Stable => Cached(answer)[a]
<1> DEFINE after == Cached(answer)
<1>1. DOMAIN after = DOMAIN cache \cup {probe}
  BY DEF Cached
<1>2. \A a \in DOMAIN after : after[a] = IF a = probe THEN answer ELSE cache[a]
  BY DEF Cached
<1>3. \A a \in DOMAIN after : after[a] \in BOOLEAN /\ (a \in Stable => after[a])
  BY <1>1, <1>2 DEF IInv, TypeOK, CacheIsSound
<1>4. after = [a \in DOMAIN after |-> after[a]]
  BY DEF Cached
<1> HIDE DEF after
<1>5. after \in [DOMAIN after -> BOOLEAN]
  BY <1>3, <1>4
<1>6. DOMAIN after \subseteq Address
  BY <1>1 DEF IInv, TypeOK
<1> QED
  BY <1>3, <1>5, <1>6 DEF after

LEMMA InitInvariant == Init => IInv
<1> SUFFICES ASSUME Init
             PROVE  IInv
  OBVIOUS
<1>1. TypeOK
  <2>1. DOMAIN cache \subseteq Address /\ cache \in [DOMAIN cache -> BOOLEAN]
    BY DEF Init
  <2>2. filter \in (SUBSET Address) \cup {NoFilter}
    <3>1. CASE filter = NoFilter
      BY <3>1
    <3>2. CASE filter # NoFilter /\ monitored # {}
      BY <3>2 DEF Init, Filters
    <3> QED
      BY <3>1, <3>2 DEF Init
  <2>3. changes \in 0..MaxChanges /\ faults \in 0..MaxFaults
    BY FilterAssumption DEF Init
  <2>4. place \in [Request -> Places] /\ loaded \in [Request -> SUBSET Address]
    BY DEF Init, Places
  <2>5. /\ monitored \subseteq Address /\ rejected \subseteq Address
        /\ reloading \in BOOLEAN /\ mu \in Request \cup {NoOne}
        /\ stale \in BOOLEAN /\ raced \in BOOLEAN
    BY DEF Init
  <2>6. /\ phase \in Phases /\ probe \in Address \cup {NoAddress}
        /\ seen \in (SUBSET Address) \cup {NoFilter} /\ found \in BOOLEAN
    BY DEF Init, Phases
  <2> QED
    BY <2>1, <2>2, <2>3, <2>4, <2>5, <2>6 DEF TypeOK
<1>2. TableHasStable /\ LockIsHeld /\ LoadedHasStable
  BY DEF Init, TableHasStable, LockIsHeld, LoadedHasStable
<1>3. FilterHasStable
  BY DEF Init, FilterHasStable, Filters
<1>4. CheckIsSound /\ CacheIsSound /\ StableAddressesAreSeen
  BY DEF Init, CheckIsSound, CacheIsSound, StableAddressesAreSeen
<1> QED
  BY <1>1, <1>2, <1>3, <1>4 DEF IInv

LEMMA UnchangedKeeps ==
  ASSUME IInv, UNCHANGED vars
  PROVE  IInv'
<1> USE DEF IInv, vars, table, reload, check
<1>1. TypeOK'
  BY DEF TypeOK
<1>2. TableHasStable' /\ LockIsHeld' /\ LoadedHasStable' /\ FilterHasStable'
  BY DEF TableHasStable, LockIsHeld, LoadedHasStable, FilterHasStable
<1>3. CheckIsSound' /\ CacheIsSound' /\ StableAddressesAreSeen'
  BY DEF CheckIsSound, CacheIsSound, StableAddressesAreSeen
<1> QED
  BY <1>1, <1>2, <1>3

(* A step of the scanner that leaves the filter, the table and the requests alone. *)
LEMMA ScannerStep ==
  ASSUME IInv,
         UNCHANGED <<table, filter, reload>>, faults' \in 0..MaxFaults, raced' \in BOOLEAN,
         phase' \in Phases, probe' \in Address \cup {NoAddress},
         seen' \in (SUBSET Address) \cup {NoFilter}, found' \in BOOLEAN,
         DOMAIN cache' \subseteq Address, cache' \in [DOMAIN cache' -> BOOLEAN],
         CacheIsSound', CheckIsSound', rejected' \subseteq Address, StableAddressesAreSeen'
  PROVE  IInv'
<1> USE DEF IInv, table, reload
<1>1. TypeOK'
  BY DEF TypeOK
<1>2. TableHasStable' /\ LockIsHeld' /\ LoadedHasStable' /\ FilterHasStable'
  BY DEF TableHasStable, LockIsHeld, LoadedHasStable, FilterHasStable
<1> QED
  BY <1>1, <1>2

\* An answer that is TRUE for a stable address may be returned.
LEMMA SoundReturn ==
  ASSUME IInv, NEW answer \in BOOLEAN, probe \in Address, probe \in Stable => answer,
         Return(answer)
  PROVE  /\ phase' \in Phases /\ probe' \in Address \cup {NoAddress}
         /\ seen' \in (SUBSET Address) \cup {NoFilter} /\ found' \in BOOLEAN
         /\ rejected' \subseteq Address
         /\ CheckIsSound' /\ StableAddressesAreSeen'
<1>1. rejected' \subseteq Address
  BY DEF Return, IInv, TypeOK
<1>2. StableAddressesAreSeen'
  BY DEF Return, IInv, StableAddressesAreSeen
<1>3. phase' = "scan" /\ probe' = NoAddress /\ seen' = NoFilter /\ found' = FALSE
  BY DEF Return
<1>4. CheckIsSound'
  BY <1>3 DEF CheckIsSound
<1> QED
  BY <1>1, <1>2, <1>3, <1>4 DEF Phases

LEMMA ScannerInvariant ==
  ASSUME IInv, Scanner
  PROVE  IInv'
<1> USE FilterAssumption
<1>1. CASE StartBatch \/ EndBatch
  <2>1. UNCHANGED <<table, filter, cache, reload, probe, seen, found, rejected, faults>>
    BY <1>1 DEF StartBatch, EndBatch
  <2>2. phase' \in {"scan", "gate"}
    BY <1>1 DEF StartBatch, EndBatch
  <2>3. raced' \in BOOLEAN
    BY <1>1 DEF StartBatch, EndBatch, IInv, TypeOK
  <2>4. CheckIsSound' /\ CacheIsSound' /\ StableAddressesAreSeen'
    BY <2>1, <2>2 DEF IInv, CheckIsSound, CacheIsSound, StableAddressesAreSeen
  <2> QED
    BY <2>1, <2>2, <2>3, <2>4, ScannerStep DEF IInv, TypeOK, Phases
<1>2. ASSUME NEW a \in Address, TakeFilter(a)
      PROVE  IInv'
  <2>1. UNCHANGED <<table, filter, cache, reload, found, rejected, raced, faults>>
    BY <1>2 DEF TakeFilter, check
  <2>2. CASE filter = NoFilter
    <3>1. UNCHANGED vars
      BY <1>2, <2>1, <2>2 DEF TakeFilter, vars
    <3> QED
      BY <3>1, UnchangedKeeps
  <2>3. CASE filter # NoFilter
    <3>1. phase' = "cache" /\ probe' = a /\ seen' = filter /\ mu = NoOne
      BY <1>2, <2>3 DEF TakeFilter
    <3>2. Stable \subseteq filter
      BY <2>3, <3>1 DEF IInv, FilterHasStable, LockIsHeld
    <3>3. CheckIsSound' /\ CacheIsSound' /\ StableAddressesAreSeen'
      BY <2>1, <3>1, <3>2 DEF IInv, CheckIsSound, CacheIsSound, StableAddressesAreSeen
    <3> QED
      BY <2>1, <3>1, <3>3, ScannerStep DEF IInv, TypeOK, Phases
  <2> QED
    BY <2>2, <2>3
<1>3. CASE LookInCache
  <2>1. probe \in Address /\ Stable \subseteq seen /\ phase = "cache"
    BY <1>3 DEF LookInCache, IInv, CheckIsSound
  <2>2. UNCHANGED <<table, filter, cache, reload, raced, faults>>
    BY <1>3 DEF LookInCache
  <2>3. CacheIsSound'
    BY <2>2 DEF IInv, CacheIsSound
  <2>4. CASE probe \in DOMAIN cache
    <3> DEFINE answer == cache[probe]
    <3>1. answer \in BOOLEAN /\ (probe \in Stable => answer)
      BY <2>4 DEF IInv, TypeOK, CacheIsSound
    <3>2. Return(answer)
      BY <1>3, <2>4 DEF LookInCache
    <3> HIDE DEF answer
    <3>3. /\ phase' \in Phases /\ probe' \in Address \cup {NoAddress}
          /\ seen' \in (SUBSET Address) \cup {NoFilter} /\ found' \in BOOLEAN
          /\ rejected' \subseteq Address
          /\ CheckIsSound' /\ StableAddressesAreSeen'
      BY <2>1, <3>1, <3>2, SoundReturn
    <3> QED
      BY <2>2, <2>3, <3>3, ScannerStep DEF IInv, TypeOK
  <2>5. CASE probe \notin DOMAIN cache
    <3>1. phase' = "bloom" /\ UNCHANGED <<probe, seen, found, rejected>>
      BY <1>3, <2>5 DEF LookInCache
    <3>2. CheckIsSound' /\ StableAddressesAreSeen'
      BY <2>1, <3>1 DEF IInv, CheckIsSound, StableAddressesAreSeen
    <3> QED
      BY <2>2, <2>3, <3>1, <3>2, ScannerStep DEF IInv, TypeOK, Phases
  <2> QED
    BY <2>4, <2>5
<1>4. CASE AskBloom
  <2>1. probe \in Address /\ Stable \subseteq seen /\ phase = "bloom"
    BY <1>4 DEF AskBloom, IInv, CheckIsSound
  <2>2. UNCHANGED <<table, filter, reload, raced, faults>>
    BY <1>4 DEF AskBloom
  <2>3. CASE probe \in seen
    <3>1. phase' = "query" /\ UNCHANGED <<probe, seen, found, rejected, cache>>
      BY <1>4, <2>3 DEF AskBloom
    <3>2. CheckIsSound' /\ CacheIsSound' /\ StableAddressesAreSeen'
      BY <2>1, <3>1 DEF IInv, CheckIsSound, CacheIsSound, StableAddressesAreSeen
    <3> QED
      BY <2>2, <3>1, <3>2, ScannerStep DEF IInv, TypeOK, Phases
  <2>4. CASE probe \notin seen
    <3>1. cache' = Cached(FALSE) /\ Return(FALSE)
      BY <1>4, <2>4 DEF AskBloom
    <3>2. probe \notin Stable
      BY <2>1, <2>4
    <3>3. /\ DOMAIN cache' \subseteq Address /\ cache' \in [DOMAIN cache' -> BOOLEAN]
          /\ CacheIsSound'
      BY <2>1, <3>1, <3>2, CachedAnswer DEF CacheIsSound
    <3>4. /\ phase' \in Phases /\ probe' \in Address \cup {NoAddress}
          /\ seen' \in (SUBSET Address) \cup {NoFilter} /\ found' \in BOOLEAN
          /\ rejected' \subseteq Address
          /\ CheckIsSound' /\ StableAddressesAreSeen'
      BY <2>1, <3>1, <3>2, SoundReturn
    <3> QED
      BY <2>2, <3>3, <3>4, ScannerStep DEF IInv, TypeOK
  <2> QED
    BY <2>3, <2>4
<1>5. CASE QueryTable
  <2>1. phase = "query" /\ phase' = "store" /\ found' = (probe \in monitored)
    BY <1>5 DEF QueryTable
  <2>2. UNCHANGED <<table, filter, cache, reload, probe, seen, rejected, raced, faults>>
    BY <1>5 DEF QueryTable
  <2>3. probe \in Stable => probe \in monitored
    BY DEF IInv, TableHasStable
  <2>4. CheckIsSound' /\ CacheIsSound' /\ StableAddressesAreSeen'
    BY <2>1, <2>2, <2>3 DEF IInv, CheckIsSound, CacheIsSound, StableAddressesAreSeen
  <2> QED
    BY <2>1, <2>2, <2>4, ScannerStep DEF IInv, TypeOK, Phases
<1>6. CASE QueryFails
  <2>1. probe \in Address /\ Return(TRUE)
    BY <1>6 DEF QueryFails, IInv, CheckIsSound
  <2>2. UNCHANGED <<table, filter, cache, reload, raced>>
    BY <1>6 DEF QueryFails
  <2>3. faults' \in 0..MaxFaults
    BY <1>6 DEF QueryFails, Fault, IInv, TypeOK
  <2>4. /\ phase' \in Phases /\ probe' \in Address \cup {NoAddress}
        /\ seen' \in (SUBSET Address) \cup {NoFilter} /\ found' \in BOOLEAN
        /\ rejected' \subseteq Address
        /\ CheckIsSound' /\ StableAddressesAreSeen'
    BY <2>1, SoundReturn
  <2>5. CacheIsSound'
    BY <2>2 DEF IInv, CacheIsSound
  <2> QED
    BY <2>2, <2>3, <2>4, <2>5, ScannerStep DEF IInv, TypeOK
<1>7. CASE StoreAnswer
  <2>1. probe \in Address /\ found \in BOOLEAN /\ (probe \in Stable => found)
    BY <1>7 DEF StoreAnswer, IInv, TypeOK, CheckIsSound
  <2>2. cache' = Cached(found) /\ Return(found)
    BY <1>7 DEF StoreAnswer
  <2>3. UNCHANGED <<table, filter, reload, raced, faults>>
    BY <1>7 DEF StoreAnswer
  <2>4. /\ DOMAIN cache' \subseteq Address /\ cache' \in [DOMAIN cache' -> BOOLEAN]
        /\ CacheIsSound'
    BY <2>1, <2>2, CachedAnswer DEF CacheIsSound
  <2>5. /\ phase' \in Phases /\ probe' \in Address \cup {NoAddress}
        /\ seen' \in (SUBSET Address) \cup {NoFilter} /\ found' \in BOOLEAN
        /\ rejected' \subseteq Address
        /\ CheckIsSound' /\ StableAddressesAreSeen'
    BY <2>1, <2>2, SoundReturn
  <2> QED
    BY <2>3, <2>4, <2>5, ScannerStep DEF IInv, TypeOK
<1> QED
  BY <1>1, <1>2, <1>3, <1>4, <1>5, <1>6, <1>7 DEF Scanner

(* A step of a reload leaves the check in progress, its answers and the table alone, *)
(* and clears the cache or keeps it.                                                 *)
LEMMA ReloadStep ==
  ASSUME IInv,
         UNCHANGED <<check, rejected, monitored, changes>>,
         faults' \in 0..MaxFaults, raced' \in BOOLEAN, stale' \in BOOLEAN,
         UNCHANGED cache \/ cache' = [a \in {} |-> FALSE],
         filter' \in (SUBSET Address) \cup {NoFilter}, reloading' \in BOOLEAN,
         mu' \in Request \cup {NoOne}, place' \in [Request -> Places],
         loaded' \in [Request -> SUBSET Address],
         LockIsHeld', LoadedHasStable', FilterHasStable'
  PROVE  IInv'
<1>1. DOMAIN cache' \subseteq Address /\ cache' \in [DOMAIN cache' -> BOOLEAN] /\ CacheIsSound'
  <2>1. CASE UNCHANGED cache
    BY <2>1 DEF IInv, TypeOK, CacheIsSound
  <2>2. CASE cache' = [a \in {} |-> FALSE]
    <3>1. DOMAIN cache' = {} /\ cache' \in [{} -> BOOLEAN]
      BY <2>2
    <3> QED
      BY <3>1 DEF CacheIsSound
  <2> QED
    BY <2>1, <2>2
<1>2. TypeOK'
  BY <1>1 DEF IInv, TypeOK, check
<1>3. TableHasStable' /\ CheckIsSound' /\ StableAddressesAreSeen'
  BY DEF IInv, TableHasStable, CheckIsSound, StableAddressesAreSeen, check
<1> QED
  BY <1>1, <1>2, <1>3 DEF IInv

LEMMA ReloadInvariant ==
  ASSUME IInv, NEW r \in Request, PauseScan(r) \/ Reloading(r)
  PROVE  IInv'
<1> USE FilterAssumption
<1> USE DEF IInv, TypeOK, LockIsHeld, LoadedHasStable, FilterHasStable, Move, table, reload
<1>1. CASE PauseScan(r)
  <2>1. UNCHANGED <<table, filter, cache, mu, loaded, check, rejected, raced, faults>>
    BY <1>1 DEF PauseScan
  <2>2. place' = [place EXCEPT ![r] = "flagged"] /\ place[r] = "none" /\ reloading' = TRUE
    BY <1>1 DEF PauseScan
  <2>3. LockIsHeld' /\ LoadedHasStable' /\ FilterHasStable'
    BY <2>1, <2>2
  <2> QED
    BY <2>1, <2>2, <2>3, ReloadStep DEF Places
<1>2. CASE Lock(r)
  <2>1. UNCHANGED <<table, filter, reloading, loaded, check, rejected, faults>>
    BY <1>2 DEF Lock
  <2>2. /\ place' = [place EXCEPT ![r] = "locked"] /\ place[r] = "flagged"
        /\ mu = NoOne /\ mu' = r /\ cache' = [a \in {} |-> FALSE]
    BY <1>2 DEF Lock
  <2>3. raced' \in BOOLEAN
    BY <1>2 DEF Lock, Meets
  <2>4. LockIsHeld' /\ LoadedHasStable' /\ FilterHasStable'
    BY <2>1, <2>2
  <2> QED
    BY <2>1, <2>2, <2>3, <2>4, ReloadStep DEF Places
<1>3. CASE ReadTable(r)
  <2>1. UNCHANGED <<monitored, changes, filter, cache, reloading, mu, check, rejected, raced, faults>>
    BY <1>3 DEF ReadTable
  <2>2. /\ place' = [place EXCEPT ![r] = "read"] /\ place[r] = "locked"
        /\ loaded' = [loaded EXCEPT ![r] = monitored] /\ stale' = FALSE
    BY <1>3 DEF ReadTable
  <2>3. LockIsHeld' /\ FilterHasStable'
    BY <2>1, <2>2
  <2>4. LoadedHasStable'
    BY <2>2 DEF TableHasStable
  <2> QED
    BY <2>1, <2>2, <2>3, <2>4, ReloadStep DEF Places
<1>4. CASE ReadTableFails(r)
  <2>1. UNCHANGED <<table, filter, cache, reloading, loaded, check, rejected, raced>>
    BY <1>4 DEF ReadTableFails
  <2>2. /\ place' = [place EXCEPT ![r] = "loaded"] /\ place[r] = "locked" /\ mu' = NoOne
    BY <1>4 DEF ReadTableFails
  <2>3. faults' \in 0..MaxFaults
    BY <1>4 DEF ReadTableFails, Fault
  <2>4. LockIsHeld' /\ LoadedHasStable' /\ FilterHasStable'
    BY <2>1, <2>2
  <2> QED
    BY <2>1, <2>2, <2>3, <2>4, ReloadStep DEF Places
<1>5. CASE InstallFilter(r)
  <2>1. UNCHANGED <<table, cache, reloading, loaded, check, rejected, raced, faults>>
    BY <1>5 DEF InstallFilter
  <2>2. place[r] = "read" /\ mu = r
    BY <1>5 DEF InstallFilter
  <2>3. CASE loaded[r] = {}
    <3>1. filter' = NoFilter /\ mu' = NoOne /\ place' = [place EXCEPT ![r] = "loaded"]
      BY <1>5, <2>3 DEF InstallFilter
    <3>2. LockIsHeld' /\ LoadedHasStable' /\ FilterHasStable'
      BY <2>1, <2>2, <3>1
    <3> QED
      BY <2>1, <3>1, <3>2, ReloadStep DEF Places
  <2>4. CASE loaded[r] # {}
    <3>1. filter' = {} /\ mu' = mu /\ place' = [place EXCEPT ![r] = "filling"]
      BY <1>5, <2>4 DEF InstallFilter
    <3>2. LockIsHeld' /\ LoadedHasStable' /\ FilterHasStable'
      BY <2>1, <2>2, <3>1
    <3> QED
      BY <2>1, <3>1, <3>2, ReloadStep DEF Places
  <2> QED
    BY <2>3, <2>4
<1>6. CASE FillFilter(r)
  <2>1. UNCHANGED <<table, cache, reloading, loaded, check, rejected, raced, faults>>
    BY <1>6 DEF FillFilter
  <2>2. place[r] = "filling" /\ mu' = NoOne /\ place' = [place EXCEPT ![r] = "loaded"]
    BY <1>6 DEF FillFilter
  <2>3. filter' \in SUBSET Address /\ Stable \subseteq filter'
    BY <1>6, <2>2 DEF FillFilter, Filters
  <2>4. LockIsHeld' /\ LoadedHasStable' /\ FilterHasStable'
    BY <2>1, <2>2, <2>3
  <2> QED
    BY <2>1, <2>2, <2>3, <2>4, ReloadStep DEF Places
<1>7. CASE ResumeScan(r)
  <2>1. UNCHANGED <<table, filter, cache, mu, check, rejected, raced, faults>>
    BY <1>7 DEF ResumeScan
  <2>2. /\ place[r] = "loaded" /\ reloading' = FALSE /\ place' = [place EXCEPT ![r] = "none"]
        /\ loaded' = [loaded EXCEPT ![r] = {}]
    BY <1>7 DEF ResumeScan
  <2>3. LockIsHeld' /\ LoadedHasStable' /\ FilterHasStable'
    BY <2>1, <2>2
  <2> QED
    BY <2>1, <2>2, <2>3, ReloadStep DEF Places
<1> QED
  BY <1>1, <1>2, <1>3, <1>4, <1>5, <1>6, <1>7 DEF Reloading

LEMMA TableInvariant ==
  ASSUME IInv, NEW a \in Address, ChangeTable(a)
  PROVE  IInv'
<1>1. UNCHANGED <<filter, cache, reload, check, rejected, raced, faults>>
  BY DEF ChangeTable
<1>2. monitored' \subseteq Address /\ TableHasStable'
  BY DEF ChangeTable, IInv, TypeOK, TableHasStable
<1>3. stale' \in BOOLEAN /\ changes' \in 0..MaxChanges
  BY FilterAssumption DEF ChangeTable, IInv, TypeOK
<1>4. TypeOK'
  BY <1>1, <1>2, <1>3 DEF IInv, TypeOK, reload, check
<1>5. LockIsHeld' /\ LoadedHasStable' /\ FilterHasStable'
  BY <1>1 DEF IInv, LockIsHeld, LoadedHasStable, FilterHasStable, reload
<1>6. CheckIsSound' /\ CacheIsSound' /\ StableAddressesAreSeen'
  BY <1>1 DEF IInv, CheckIsSound, CacheIsSound, StableAddressesAreSeen, check
<1> QED
  BY <1>2, <1>4, <1>5, <1>6 DEF IInv

LEMMA NextInvariant == IInv /\ [Next]_vars => IInv'
<1> SUFFICES ASSUME IInv, [Next]_vars
             PROVE  IInv'
  OBVIOUS
<1>1. CASE Scanner
  BY <1>1, ScannerInvariant
<1>2. ASSUME NEW r \in Request, PauseScan(r) \/ Reloading(r)
      PROVE  IInv'
  BY <1>2, ReloadInvariant
<1>3. ASSUME NEW a \in Address, ChangeTable(a)
      PROVE  IInv'
  BY <1>3, TableInvariant
<1>4. CASE UNCHANGED vars
  BY <1>4, UnchangedKeeps
<1> QED
  BY <1>1, <1>2, <1>3, <1>4 DEF Next

LEMMA Invariant == Spec => []IInv
BY InitInvariant, NextInvariant, PTL DEF Spec

(* Every variable has its type, for any addresses, requests and bounds. *)
THEOREM TypeCorrect == Spec => []TypeOK
<1>1. IInv => TypeOK
  BY DEF IInv
<1> QED
  BY <1>1, Invariant, PTL

(* An address that stays in the account table is never answered "not monitored",  *)
(* whatever reloads, clears the cache or fails between the steps of a check.       *)
THEOREM StableAlwaysSeen == Spec => []StableAddressesAreSeen
<1>1. IInv => StableAddressesAreSeen
  BY DEF IInv
<1> QED
  BY <1>1, Invariant, PTL

------------------------------------------------------------------------------
(* A reload takes effect.  As long as no reload met a scan or another reload, nobody  *)
(* else works while a request holds the lock: the cache it cleared stays empty until  *)
(* it has read the table and filled the filter.  From then on, and until the table    *)
(* changes again, everything an answer can come from agrees with the table.           *)

Working(r) == place[r] \in {"locked", "read", "filling"}
HasRead(r) == place[r] \in {"read", "filling"}

ScanStandsStill ==
  \A r \in Request :
    /\ Working(r) => phase = "gate" /\ DOMAIN cache = {}
    /\ HasRead(r) /\ ~stale => loaded[r] = monitored

AnswersAreCurrent ==
  /\ \A a \in DOMAIN cache : a \in monitored => cache[a]
  /\ phase \in {"cache", "bloom"} => monitored \subseteq seen
  /\ phase = "store" /\ probe \in monitored => found

FilterIsCurrent ==
  \/ filter = NoFilter \/ monitored \subseteq filter
  \/ \E r \in Request : HasRead(r)

EffectInv ==
  ~raced => ScanStandsStill /\ (~stale => AnswersAreCurrent /\ FilterIsCurrent)

LEMMA RacedForGood == TypeOK /\ [Next]_vars /\ ~raced' => ~raced
  BY DEF TypeOK, Next, Scanner, StartBatch, EndBatch, TakeFilter, LookInCache, AskBloom, QueryTable,
     QueryFails, StoreAnswer, PauseScan, Reloading, Lock, ReadTable, ReadTableFails,
     InstallFilter, FillFilter, ResumeScan, ChangeTable, vars

\* Nobody works while the lock is free, and only its holder otherwise.
LEMMA OneWorker ==
  ASSUME IInv
  PROVE  \A r \in Request : Working(r) => mu = r /\ mu # NoOne
  BY FilterAssumption DEF IInv, LockIsHeld, Working

\* What a step of the scanner has to show when it does not begin a batch.
LEMMA ScannerEffect ==
  ASSUME IInv, EffectInv, [Next]_vars, Scanner, ~raced'
  PROVE  ScanStandsStill' /\ (~stale' => (AnswersAreCurrent /\ FilterIsCurrent)')
<1>1. ~raced
  BY RacedForGood DEF IInv
<1>2. ScanStandsStill /\ (~stale => AnswersAreCurrent /\ FilterIsCurrent)
  BY <1>1 DEF EffectInv
<1>3. UNCHANGED <<table, filter, reload>>
  BY DEF Scanner, StartBatch, EndBatch, TakeFilter, LookInCache, AskBloom, QueryTable,
     QueryFails, StoreAnswer
<1>4. ~stale' => FilterIsCurrent'
  BY <1>2, <1>3 DEF FilterIsCurrent, HasRead, table, reload
<1>5. ASSUME NEW r \in Request, Working(r)
      PROVE  phase' = "gate" /\ UNCHANGED cache
  <2>1. phase = "gate" /\ mu # NoOne /\ raced' = raced
    BY <1>1, <1>2, <1>5, OneWorker DEF ScanStandsStill, IInv, TypeOK, Scanner, StartBatch,
       EndBatch, TakeFilter, LookInCache, AskBloom, QueryTable, QueryFails, StoreAnswer
  <2>2. ~StartBatch
    BY <2>1 DEF StartBatch
  <2> QED
    BY <2>1, <2>2 DEF Scanner, EndBatch, TakeFilter, LookInCache, AskBloom, QueryTable,
       QueryFails, StoreAnswer
<1>6. ScanStandsStill'
  <2> SUFFICES ASSUME NEW r \in Request
               PROVE  (/\ Working(r) => phase = "gate" /\ DOMAIN cache = {}
                       /\ HasRead(r) /\ ~stale => loaded[r] = monitored)'
    BY DEF ScanStandsStill
  <2> QED
    BY <1>2, <1>3, <1>5 DEF ScanStandsStill, Working, HasRead, table, reload
<1>7. ASSUME ~stale
      PROVE  AnswersAreCurrent'
  <2>0. AnswersAreCurrent /\ FilterIsCurrent /\ UNCHANGED monitored
    BY <1>2, <1>3, <1>7 DEF table
  <2>1. CASE StartBatch \/ EndBatch
    BY <2>0, <2>1 DEF StartBatch, EndBatch, AnswersAreCurrent
  <2>2. ASSUME NEW a \in Address, TakeFilter(a)
        PROVE  AnswersAreCurrent'
    <3>1. filter # NoFilter => monitored \subseteq filter
      BY <2>0, <2>2, OneWorker DEF TakeFilter, FilterIsCurrent, HasRead, Working
    <3> QED
      BY <2>0, <2>2, <3>1 DEF TakeFilter, AnswersAreCurrent, check
  <2>3. CASE LookInCache \/ QueryFails
    BY <2>0, <2>3 DEF LookInCache, QueryFails, Return, AnswersAreCurrent
  <2>4. CASE QueryTable
    BY <2>0, <2>4 DEF QueryTable, AnswersAreCurrent
  <2>5. ASSUME NEW answer \in BOOLEAN, probe \in monitored => answer,
               cache' = Cached(answer), phase' = "scan"
        PROVE  AnswersAreCurrent'
    <3>1. \A a \in DOMAIN cache' :
            a \in DOMAIN cache \cup {probe} /\ cache'[a] = (IF a = probe THEN answer ELSE cache[a])
      BY <2>5 DEF Cached
    <3> QED
      BY <2>0, <2>5, <3>1 DEF AnswersAreCurrent
  <2>6. CASE AskBloom
    <3>1. CASE probe \in seen
      BY <2>0, <2>6, <3>1 DEF AskBloom, AnswersAreCurrent
    <3>2. CASE probe \notin seen
      <4>1. probe \notin monitored /\ cache' = Cached(FALSE) /\ phase' = "scan"
        BY <2>0, <2>6, <3>2 DEF AskBloom, AnswersAreCurrent, Return
      <4> QED
        BY <2>5, <4>1
    <3> QED
      BY <3>1, <3>2
  <2>7. CASE StoreAnswer
    <3>1. /\ found \in BOOLEAN /\ (probe \in monitored => found)
          /\ cache' = Cached(found) /\ phase' = "scan"
      BY <2>0, <2>7 DEF StoreAnswer, AnswersAreCurrent, Return, IInv, TypeOK
    <3> QED
      BY <2>5, <3>1
  <2> QED
    BY <2>1, <2>2, <2>3, <2>4, <2>6, <2>7 DEF Scanner
<1> QED
  BY <1>3, <1>4, <1>6, <1>7 DEF table

LEMMA ReloadEffect ==
  ASSUME IInv, EffectInv, [Next]_vars, NEW r \in Request, PauseScan(r) \/ Reloading(r), ~raced'
  PROVE  ScanStandsStill' /\ (~stale' => (AnswersAreCurrent /\ FilterIsCurrent)')
<1>1. ~raced
  BY RacedForGood DEF IInv
<1>2. ScanStandsStill /\ (~stale => AnswersAreCurrent /\ FilterIsCurrent)
  BY <1>1 DEF EffectInv
<1>3. /\ place \in [Request -> Places] /\ loaded \in [Request -> SUBSET Address]
      /\ UNCHANGED <<monitored, check>>
  BY DEF IInv, TypeOK, PauseScan, Reloading, Lock, ReadTable, ReadTableFails, InstallFilter,
     FillFilter, ResumeScan, table
<1>4. \A q \in Request \ {r} : UNCHANGED <<place[q], loaded[q]>>
  BY <1>3 DEF PauseScan, Reloading, Lock, ReadTable, ReadTableFails, InstallFilter,
     FillFilter, ResumeScan, Move
<1> USE DEF Working, HasRead
<1>5. CASE PauseScan(r) \/ ReadTableFails(r) \/ ResumeScan(r)
  <2>1. /\ UNCHANGED <<table, filter, cache>>
        /\ ~Working(r)' /\ ~HasRead(r)
    BY <1>3, <1>5 DEF PauseScan, ReadTableFails, ResumeScan, Move
  <2>2. ScanStandsStill'
    BY <1>2, <1>3, <1>4, <2>1 DEF ScanStandsStill, table, check
  <2>3. ~stale => AnswersAreCurrent' /\ FilterIsCurrent'
    <3>1. ~stale => AnswersAreCurrent'
      BY <1>2, <1>3, <2>1 DEF AnswersAreCurrent, table, check
    <3>2. ~stale => FilterIsCurrent'
      BY <1>2, <1>3, <1>4, <2>1 DEF FilterIsCurrent, table, check
    <3> QED
      BY <3>1, <3>2
  <2> QED
    BY <2>1, <2>2, <2>3 DEF table
<1>6. CASE Lock(r)
  <2>1. /\ phase = "gate" /\ DOMAIN cache' = {} /\ mu = NoOne
        /\ UNCHANGED <<table, filter, loaded>> /\ ~HasRead(r)'
    BY <1>1, <1>3, <1>6 DEF Lock, Meets, Move
  <2>2. \A q \in Request : ~Working(q)
    BY <2>1, OneWorker
  <2>3. ScanStandsStill'
    BY <1>3, <1>4, <2>1, <2>2 DEF ScanStandsStill, check
  <2>4. AnswersAreCurrent'
    BY <1>3, <2>1 DEF AnswersAreCurrent, check
  <2>5. ~stale => FilterIsCurrent'
    BY <1>2, <1>3, <2>1, <2>2 DEF FilterIsCurrent, table
  <2> QED
    BY <2>1, <2>3, <2>4, <2>5 DEF table
<1>7. CASE ReadTable(r)
  <2>1. /\ phase = "gate" /\ DOMAIN cache = {} /\ mu = r /\ UNCHANGED cache
        /\ HasRead(r)' /\ loaded'[r] = monitored
    BY <1>2, <1>3, <1>7, OneWorker DEF ReadTable, Move, ScanStandsStill
  <2>2. \A q \in Request \ {r} : ~Working(q)
    BY <2>1, OneWorker
  <2>3. ScanStandsStill'
    BY <1>3, <1>4, <2>1, <2>2 DEF ScanStandsStill, check
  <2>4. AnswersAreCurrent' /\ FilterIsCurrent'
    BY <1>3, <2>1 DEF AnswersAreCurrent, FilterIsCurrent, check
  <2> QED
    BY <2>3, <2>4
<1>8. CASE InstallFilter(r) \/ FillFilter(r)
  <2>1. /\ HasRead(r) /\ Working(r) /\ mu = r /\ UNCHANGED <<table, cache, loaded>>
        /\ phase = "gate" /\ DOMAIN cache = {} /\ (~stale => loaded[r] = monitored)
    BY <1>2, <1>8, OneWorker DEF InstallFilter, FillFilter, ScanStandsStill
  <2>2. \A q \in Request \ {r} : ~Working(q)
    BY <2>1, OneWorker
  <2>3. ScanStandsStill'
    BY <1>3, <1>4, <2>1, <2>2 DEF ScanStandsStill, check, table
  <2>4. AnswersAreCurrent'
    BY <1>3, <2>1 DEF AnswersAreCurrent, check
  <2>5. filter' = NoFilter \/ HasRead(r)' \/ loaded[r] \subseteq filter'
    BY <1>3, <1>8 DEF InstallFilter, FillFilter, Filters, Move
  <2>6. ~stale => FilterIsCurrent'
    BY <1>3, <2>1, <2>5 DEF FilterIsCurrent
  <2> QED
    BY <2>1, <2>3, <2>4, <2>6 DEF table
<1> QED
  BY <1>5, <1>6, <1>7, <1>8 DEF Reloading

LEMMA EffectStep == IInv /\ EffectInv /\ [Next]_vars => EffectInv'
<1> SUFFICES ASSUME IInv, EffectInv, [Next]_vars, ~raced'
             PROVE  ScanStandsStill' /\ (~stale' => (AnswersAreCurrent /\ FilterIsCurrent)')
  BY DEF EffectInv
<1>1. CASE Scanner
  BY <1>1, ScannerEffect
<1>2. ASSUME NEW r \in Request, PauseScan(r) \/ Reloading(r)
      PROVE  ScanStandsStill' /\ (~stale' => (AnswersAreCurrent /\ FilterIsCurrent)')
  BY <1>2, ReloadEffect
<1>3. ASSUME NEW a \in Address, ChangeTable(a)
      PROVE  ScanStandsStill' /\ stale'
  BY <1>3, RacedForGood
  DEF ChangeTable, EffectInv, ScanStandsStill, Working, HasRead, IInv, reload, check
<1>4. CASE UNCHANGED vars
  BY <1>4 DEF EffectInv, ScanStandsStill, AnswersAreCurrent, FilterIsCurrent, Working, HasRead,
     vars, table, reload, check
<1> QED
  BY <1>1, <1>2, <1>3, <1>4 DEF Next

(* For any addresses, any number of requests and any order of changes, failures and    *)
(* reloads that meet no scan and no other reload: once a reload is over and the table  *)
(* has not changed since, no monitored address is cached as unmonitored or filtered.   *)
THEOREM ReloadsTakeEffect == Spec => []AddressesTakeEffect
<1>1. Init => EffectInv
  BY DEF Init, EffectInv, ScanStandsStill, AnswersAreCurrent, FilterIsCurrent, Working,
     HasRead, Filters
<1>2. Spec => []EffectInv
  BY <1>1, Invariant, EffectStep, PTL DEF Spec
<1>3. EffectInv => AddressesTakeEffect
  BY DEF EffectInv, AnswersAreCurrent, FilterIsCurrent, HasRead, AddressesTakeEffect
<1> QED
  BY <1>2, <1>3, PTL
=================================================================================
