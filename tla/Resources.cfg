SPECIFICATION MCSpec
CONSTANTS
  Machine = {m1, m2}
  Service = {web, api}
  EncryptionKey = {k1, k2}
  Principal = {alice}
  Supplied = {v}
  MaxGeneration = 2
  None = None
  Missing = Missing
  Unknown = Unknown
  MaxPlans = 2
  MaxEdits = 2
  MaxFaults = 1
  MaxCrashes = 1
  Name = {uploads, media}
  Injected = {site}
  NoKeys = NoKeys
  Cleared = Cleared
  MaxBuckets = 3
  MaxStorageEdits = 1
  MaxApplies = 2
  MaxStorageFaults = 1
  MaxStorageCrashes = 1
  MaxDrifts = 1
  Provider = {railway, digitalocean}
  Host = railway
  NoUrl = NoUrl
  MaxCaches = 3
  MaxCacheEdits = 2
  MaxCacheApplies = 3
  MaxCacheFaults = 1
  MaxCacheCrashes = 1
  MaxCacheDrifts = 1
SYMMETRY Alike
CHECK_DEADLOCK FALSE
INVARIANTS GenerationsHold ResourcesAreTracked
PROPERTIES SecretsAreRespected DeletedIsUnwired
