-------------------------- MODULE MCStorageLifecycle --------------------------
EXTENDS StorageLifecycle
=============================================================================
