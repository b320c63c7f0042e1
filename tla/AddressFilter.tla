----------------------------- MODULE AddressFilter -----------------------------
(***************************************************************************)
(* Which addresses the scanner takes for monitored                         *)
(* (internal/listener/evm/listener_address.go) while they are reloaded.    *)
(*                                                                         *)
(* The listen goroutine asks isAddressMonitored, which looks at a cache, a *)
(* Bloom filter and the account database in this order.  HTTP handlers of  *)
(* the API replace the filter and the cache (ReloadMonitorAddresses).      *)
(* The filter is guarded by l.mu and the pause flag by l.reloadMu; the     *)
(* cache is guarded by neither.                                            *)
(*                                                                         *)
(* Places of the scanner:      gate   waiting for a tick                   *)
(*                             scan   in a batch of blocks                 *)
(*                             cache, bloom, query, store  in              *)
(*                                    isAddressMonitored(probe)            *)
(* Places of a reload request: none, flagged (pause flag is up), locked    *)
(*                             (holds l.mu, cache is empty), read (has the *)
(*                             addresses), filling, loaded (lock released) *)
(***************************************************************************)
EXTENDS Naturals, FiniteSets

CONSTANTS
  Address,
  Stable,        \* addresses that are in the account table throughout
  Request,       \* HTTP handlers that may run a reload, again and again
  NoFilter,      \* l.bloomFilter = nil: every address counts as monitored
  NoAddress, NoOne,
  MaxChanges,    \* bound: changes of the account table
  MaxFaults      \* bound: failed queries

ASSUME FilterAssumption ==
  /\ Stable \subseteq Address /\ NoAddress \notin Address
  /\ NoOne \notin Request
  /\ MaxChanges \in Nat /\ MaxFaults \in Nat

VARIABLES
  monitored,  \* the account table (web_user_chain_address)
  filter,     \* l.bloomFilter: the addresses it answers "maybe" for
  cache,      \* l.addressCache: address -> answer
  reloading,  \* l.isReloadingAddresses
  mu,         \* the request that holds l.mu for writing, or NoOne
  place, loaded,              \* per request: where it is, the rows it has read
  phase, probe, seen, found,  \* locals of the scanner
  rejected,   \* addresses that were answered "not monitored" at least once
  stale,      \* the account table has changed since it was last loaded
  raced,      \* a reload met a scan or another reload (the pause did not work)
  changes, faults

table == <<monitored, stale, changes>>
check == <<phase, probe, seen, found>>
reload == <<reloading, mu, place, loaded>>
vars == <<table, filter, cache, reload, check, rejected, raced, faults>>

Places == {"none", "flagged", "locked", "read", "filling", "loaded"}
Phases == {"gate", "scan", "cache", "bloom", "query", "store"}

\* A Bloom filter has no false negatives, and may have false positives.
Filters(addresses) == {f \in SUBSET Address : addresses \subseteq f}

\* loadMonitorAddressesFromDB in SetStorage, which may have failed.
Init ==
  /\ monitored \in SUBSET Address /\ Stable \subseteq monitored
  /\ filter \in {NoFilter} \cup (IF monitored = {} THEN {} ELSE Filters(monitored))
  /\ cache = [a \in {} |-> FALSE]
  /\ reloading = FALSE /\ mu = NoOne
  /\ place = [r \in Request |-> "none"] /\ loaded = [r \in Request |-> {}]
  /\ phase = "gate" /\ probe = NoAddress /\ seen = NoFilter /\ found = FALSE
  /\ rejected = {} /\ stale = FALSE /\ raced = FALSE /\ changes = 0 /\ faults = 0

Fault == faults < MaxFaults /\ faults' = faults + 1

------------------------------------------------------------------------------
(* The scanner. *)

\* A tick of listenWithPolling that finds the flag down, and the end of its batch.
StartBatch ==
  /\ phase = "gate" /\ ~reloading /\ phase' = "scan"
  /\ raced' = (raced \/ mu # NoOne)
  /\ UNCHANGED <<table, filter, cache, reload, probe, seen, found, rejected, faults>>

EndBatch ==
  /\ phase = "scan" /\ phase' = "gate"
  /\ UNCHANGED <<table, filter, cache, reload, probe, seen, found, rejected, raced, faults>>

\* isAddressMonitored returns answer for the address in hand.
Return(answer) ==
  /\ rejected' = IF answer THEN rejected ELSE rejected \cup {probe}
  /\ phase' = "scan" /\ probe' = NoAddress /\ seen' = NoFilter /\ found' = FALSE

\* Mutant: the filter is read without the lock.
TakeFilterUnlocked(a) ==
  /\ phase = "scan"
  /\ IF filter = NoFilter THEN UNCHANGED check
     ELSE phase' = "cache" /\ probe' = a /\ seen' = filter /\ UNCHANGED found
  /\ UNCHANGED <<table, filter, cache, reload, rejected, raced, faults>>

\* The filter is read under l.mu.RLock; without one every address is monitored.
TakeFilter(a) ==
  /\ phase = "scan" /\ mu = NoOne
  /\ IF filter = NoFilter THEN UNCHANGED check
     ELSE phase' = "cache" /\ probe' = a /\ seen' = filter /\ UNCHANGED found
  /\ UNCHANGED <<table, filter, cache, reload, rejected, raced, faults>>

LookInCache ==
  /\ phase = "cache"
  /\ IF probe \in DOMAIN cache THEN Return(cache[probe])
     ELSE phase' = "bloom" /\ UNCHANGED <<probe, seen, found, rejected>>
  /\ UNCHANGED <<table, filter, cache, reload, raced, faults>>

Cached(answer) == [a \in DOMAIN cache \cup {probe} |-> IF a = probe THEN answer ELSE cache[a]]

\* A miss is stored and returned at once.
AskBloom ==
  /\ phase = "bloom"
  /\ IF probe \in seen THEN phase' = "query" /\ UNCHANGED <<probe, seen, found, rejected, cache>>
     ELSE cache' = Cached(FALSE) /\ Return(FALSE)
  /\ UNCHANGED <<table, filter, reload, raced, faults>>

\* storage.IsAddressMonitored.
QueryTable ==
  /\ phase = "query"
  /\ found' = (probe \in monitored)
  /\ phase' = "store"
  /\ UNCHANGED <<table, filter, cache, reload, probe, seen, rejected, raced, faults>>

\* On an error the answer is "monitored", and not cached.
QueryFails ==
  /\ phase = "query" /\ Fault
  /\ Return(TRUE)
  /\ UNCHANGED <<table, filter, cache, reload, raced>>

\* Mutant: the result of the query is stored under the key of the next check.
StoreMisplaced ==
  /\ phase = "store"
  /\ cache' = [a \in DOMAIN cache \cup {NoAddress} |-> IF a = NoAddress THEN found ELSE cache[a]]
  /\ Return(found)
  /\ UNCHANGED <<table, filter, reload, raced, faults>>

StoreAnswer ==
  /\ phase = "store"
  /\ cache' = Cached(found) /\ Return(found)
  /\ UNCHANGED <<table, filter, reload, raced, faults>>

------------------------------------------------------------------------------
(* ReloadMonitorAddresses, run by request r. *)

Move(r, p) == place' = [place EXCEPT ![r] = p]

PauseScan(r) ==
  /\ place[r] = "none"
  /\ reloading' = TRUE /\ Move(r, "flagged")
  /\ UNCHANGED <<table, filter, cache, mu, loaded, check, rejected, raced, faults>>

\* The 100 ms were not enough for the batch in progress, or there is another request.
Meets(r) == phase # "gate" \/ \E q \in Request \ {r} : place[q] # "none"

\* Mutant: the cache is kept.
LockKeepsCache(r) ==
  /\ place[r] = "flagged" /\ mu = NoOne
  /\ mu' = r /\ Move(r, "locked")
  /\ raced' = (raced \/ Meets(r))
  /\ UNCHANGED <<table, filter, cache, reloading, loaded, check, rejected, faults>>

\* After the sleep: l.mu.Lock, and the cache is cleared.
Lock(r) ==
  /\ place[r] = "flagged" /\ mu = NoOne
  /\ mu' = r /\ cache' = [a \in {} |-> FALSE] /\ Move(r, "locked")
  /\ raced' = (raced \/ Meets(r))
  /\ UNCHANGED <<table, filter, reloading, loaded, check, rejected, faults>>

\* GetAllMonitorAddresses.
ReadTable(r) ==
  /\ place[r] = "locked"
  /\ loaded' = [loaded EXCEPT ![r] = monitored]
  /\ stale' = FALSE
  /\ Move(r, "read")
  /\ UNCHANGED <<monitored, changes, filter, cache, reloading, mu, check, rejected, raced, faults>>

\* Mutant: the error returns past the code that lifts the pause.
ReadTableFailsPaused(r) ==
  /\ place[r] = "locked" /\ Fault
  /\ mu' = NoOne /\ Move(r, "none")
  /\ UNCHANGED <<table, filter, cache, reloading, loaded, check, rejected, raced>>

\* The old filter stays, the cache has been cleared all the same.
ReadTableFails(r) ==
  /\ place[r] = "locked" /\ Fault
  /\ mu' = NoOne /\ Move(r, "loaded")
  /\ UNCHANGED <<table, filter, cache, reloading, loaded, check, rejected, raced>>

\* No addresses: no filter.  Otherwise the new filter is empty at first.
InstallFilter(r) ==
  /\ place[r] = "read"
  /\ IF loaded[r] = {} THEN filter' = NoFilter /\ mu' = NoOne /\ Move(r, "loaded")
     ELSE filter' = {} /\ UNCHANGED mu /\ Move(r, "filling")
  /\ UNCHANGED <<table, cache, reloading, loaded, check, rejected, raced, faults>>

FillFilter(r) ==
  /\ place[r] = "filling"
  /\ filter' \in Filters(loaded[r])
  /\ mu' = NoOne /\ Move(r, "loaded")
  /\ UNCHANGED <<table, cache, reloading, loaded, check, rejected, raced, faults>>

\* The flag is one bit, whoever put it up.
ResumeScan(r) ==
  /\ place[r] = "loaded"
  /\ reloading' = FALSE /\ Move(r, "none")
  /\ loaded' = [loaded EXCEPT ![r] = {}]
  /\ UNCHANGED <<table, filter, cache, mu, check, rejected, raced, faults>>

------------------------------------------------------------------------------
\* Another program adds an address to the account table, or removes one.
ChangeTable(a) ==
  /\ changes < MaxChanges /\ changes' = changes + 1
  /\ a \notin Stable
  /\ monitored' = IF a \in monitored THEN monitored \ {a} ELSE monitored \cup {a}
  /\ stale' = TRUE
  /\ UNCHANGED <<filter, cache, reload, check, rejected, raced, faults>>

Scanner ==
  \/ StartBatch \/ EndBatch \/ LookInCache \/ AskBloom
  \/ QueryTable \/ QueryFails \/ StoreAnswer
  \/ \E a \in Address : TakeFilter(a)

Reloading(r) ==
  \/ Lock(r) \/ ReadTable(r) \/ ReadTableFails(r)
  \/ InstallFilter(r) \/ FillFilter(r) \/ ResumeScan(r)

Next ==
  \/ Scanner
  \/ \E r \in Request : PauseScan(r) \/ Reloading(r)
  \/ \E a \in Address : ChangeTable(a)

Spec == Init /\ [][Next]_vars

\* A handler that has begun runs on.  l.mu does not starve a writer: its readers
\* hold it for two statements, and another writer for one load.
FairSpec == Spec /\ \A r \in Request : WF_vars(Reloading(r)) /\ SF_vars(Lock(r))

------------------------------------------------------------------------------
(* Properties. *)

\* Every variable has its type.
TypeOK ==
  /\ monitored \subseteq Address /\ filter \in (SUBSET Address) \cup {NoFilter}
  /\ DOMAIN cache \subseteq Address /\ cache \in [DOMAIN cache -> BOOLEAN]
  /\ reloading \in BOOLEAN /\ mu \in Request \cup {NoOne}
  /\ place \in [Request -> Places] /\ loaded \in [Request -> SUBSET Address]
  /\ phase \in Phases /\ probe \in Address \cup {NoAddress}
  /\ seen \in (SUBSET Address) \cup {NoFilter} /\ found \in BOOLEAN
  /\ rejected \subseteq Address /\ stale \in BOOLEAN /\ raced \in BOOLEAN
  /\ changes \in 0..MaxChanges /\ faults \in 0..MaxFaults

\* An address that is in the table all the time is never taken for unmonitored,
\* whatever is reloaded, cleared or failing between the steps of a check: the
\* transaction it belongs to would be lost, as its block is stored all the same.
StableAddressesAreSeen == Stable \cap rejected = {}

\* "Clear address cache (important! Otherwise, old cache will cause new addresses
\* to be ineffective)" (loadMonitorAddressesFromDB): once a reload is over and the
\* table has not changed since, no monitored address is cached or filtered out.
\* "Pause block scanning (to avoid race conditions)" (ReloadMonitorAddresses) is what
\* this rests on: a check that runs on past the pause stores its answer in the new
\* cache, so it holds as long as no reload met a scan or another reload.
AddressesTakeEffect ==
  (~raced /\ ~stale /\ \A r \in Request : place[r] \in {"none", "flagged"}) =>
     \A a \in monitored :
        /\ a \in DOMAIN cache => cache[a]
        /\ filter # NoFilter => a \in filter

\* Whatever fails in a reload, the scan is resumed.
ScanIsResumed == reloading ~> ~reloading
==============================================================================
