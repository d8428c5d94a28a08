----------------------------- MODULE MCResources -----------------------------
(***************************************************************************)
(* Three of the resources a plan manages, a runtime secret, the object     *)
(* storage and the Redis cache, side by side: the initial state says which *)
(* of them moves, and the others stay where they started.                  *)
(***************************************************************************)
EXTENDS ManagedSecrets, TLC
CONSTANTS
  Name, Injected, NoKeys, Cleared,
  MaxBuckets, MaxStorageEdits, MaxApplies, MaxStorageFaults, MaxStorageCrashes, MaxDrifts,
  Provider, Host, NoUrl,
  MaxCaches, MaxCacheEdits, MaxCacheApplies, MaxCacheFaults, MaxCacheCrashes, MaxCacheDrifts
Alike == Permutations(Machine) \cup Permutations(Service)

VARIABLES
  part, \* the resource that moves
  spec, nameOf, buckets, late, access, bound, marker, todo, applied, held, adopted,
  made, waived, lost, unrecorded, rewrites, applies, errors, deaths, drifts,
  cacheSpec, providerOf, caches, lateCaches, url, component, retained, cacheTodo, cacheHeld,
  madeCaches, stray, lostCaches, cacheEdits, cacheApplies, cacheFaults, cacheCrashes, cacheDrifts
storage == <<spec, nameOf, buckets, late, access, bound, marker, todo, applied, held, adopted,
             made, waived, lost, unrecorded, rewrites, applies, errors, deaths, drifts>>
cache == <<cacheSpec, providerOf, caches, lateCaches, url, component, retained, cacheTodo, cacheHeld,
           madeCaches, stray, lostCaches, cacheEdits, cacheApplies, cacheFaults, cacheCrashes, cacheDrifts>>

Storage == INSTANCE StorageLifecycle WITH
  Service <- Injected, edits <- rewrites, faults <- errors, crashes <- deaths,
  MaxEdits <- MaxStorageEdits, MaxFaults <- MaxStorageFaults, MaxCrashes <- MaxStorageCrashes
Cache == INSTANCE CacheLifecycle WITH
  spec <- cacheSpec, late <- lateCaches, todo <- cacheTodo, held <- cacheHeld,
  made <- madeCaches, lost <- lostCaches, edits <- cacheEdits, applies <- cacheApplies,
  faults <- cacheFaults, crashes <- cacheCrashes, drifts <- cacheDrifts,
  MaxEdits <- MaxCacheEdits, MaxApplies <- MaxCacheApplies, MaxFaults <- MaxCacheFaults,
  MaxCrashes <- MaxCacheCrashes, MaxDrifts <- MaxCacheDrifts
ASSUME PartsAssumption == Storage!Assumption /\ Cache!Assumption

MCInit ==
  /\ part \in {"secret", "storage", "cache"} /\ Init /\ Storage!Init /\ Cache!Init
  /\ part # "storage" => spec = <<>>
  /\ part # "cache" => cacheSpec = None
  /\ part # "secret" =>
       slot = (CHOOSE d \in Declaration : TRUE) /\ key = (CHOOSE k \in [Machine -> EncryptionKey] : TRUE)
MCNext ==
  \/ part = "secret" /\ Next /\ UNCHANGED <<part, storage, cache>>
  \/ part = "storage" /\ Storage!Next /\ UNCHANGED <<part, vars, cache>>
  \/ part = "cache" /\ Cache!Next /\ UNCHANGED <<part, vars, storage>>
MCSpec == MCInit /\ [][MCNext]_<<part, vars, storage, cache>>

(* A bucket or a cache Hypervibe created is known, and is the only one of  *)
(* its name or provider; a service has the access of a bucket only if the  *)
(* binding lists it.                                                       *)
ResourcesAreTracked ==
  Storage!BucketsAreKnown /\ Storage!AccessIsRecorded /\ Cache!CachesAreKnown
(* A bucket, or the bound cache, that Hypervibe deletes leaves no service  *)
(* with its variables.                                                     *)
DeletedIsUnwired == Storage!DeletedIsUnwired /\ Cache!BoundIsUnwired
=============================================================================
