------------------------------- MODULE MvccStore -------------------------------
(***************************************************************************)
(* The multi-version store of synaptica-storage (mvcc.rs), as operators on *)
(* a set of versions.  A version is what RocksDB holds under one versioned *)
(* key: the user key, the commit timestamp and the value, which is         *)
(* Tombstone for a deletion (the empty byte string).  One column family is *)
(* modelled; the byte encoding of versioned keys, which makes a forward    *)
(* scan meet the versions of a key newest first, is the subject of         *)
(* VersionedKeys.                                                          *)
(***************************************************************************)
EXTENDS Integers

CONSTANTS Keys,       \* user keys
          Values,     \* non-empty values a caller may write
          Tombstone,  \* the zero-length value that marks a deletion
          Nothing     \* Rust's None: the answer of a read that finds nothing

ASSUME StoreAssumption ==
    /\ Tombstone \notin Values
    /\ Nothing \notin Values \cup {Tombstone}

Version == [key : Keys, ts : Nat, val : Values \cup {Tombstone}]

(* The versions of k that a snapshot at ts may see.                        *)
VersionsAt(store, k, ts) == {r \in store : r.key = k /\ r.ts <= ts}

(* r is the newest version of its key in S: the first one a scan meets.    *)
NewestIn(S, r) == r \in S /\ \A q \in S : q.ts <= r.ts

(* get_at scans a key's versions newest first, skips the ones above the    *)
(* snapshot and answers with the first that is not above it; a tombstone   *)
(* answers None.                                                           *)
get_at(store, k, ts) ==
    LET vs == VersionsAt(store, k, ts) IN
    IF vs = {} THEN Nothing
    ELSE LET newest == CHOOSE r \in vs : NewestIn(vs, r)
         IN  IF newest.val = Tombstone THEN Nothing ELSE newest.val

(* batch_write_at puts one versioned key per written user key in a single  *)
(* RocksDB write batch.  `writes' maps each written key to its value; a    *)
(* put replaces a version with the same key and timestamp.                 *)
batch_write_at(store, writes, ts) ==
    {r \in store : ~(r.key \in DOMAIN writes /\ r.ts = ts)}
        \cup {[key |-> k, ts |-> ts, val |-> writes[k]] : k \in DOMAIN writes}

(* Faults: the superseding version may lie above the watermark; the newest *)
(* version at the watermark is collected with the older ones.              *)
gc_ignores_watermark(store, prefixKeys, watermark) ==
    {r \in store : /\ r.key \in prefixKeys
                   /\ r.ts <= watermark
                   /\ \E q \in store : q.key = r.key /\ q.ts > r.ts}

gc_keeps_none(store, prefixKeys, watermark) ==
    {r \in store : r.key \in prefixKeys /\ r.ts <= watermark}

(* What one pass of gc_before over the keys of a prefix collects: every    *)
(* version at or below the watermark that a newer version, also at or      *)
(* below the watermark, supersedes.                                        *)
gc_candidates(store, prefixKeys, watermark) ==
    {r \in store : /\ r.key \in prefixKeys
                   /\ r.ts <= watermark
                   /\ \E q \in store : /\ q.key = r.key
                                       /\ q.ts <= watermark
                                       /\ q.ts > r.ts}
================================================================================
