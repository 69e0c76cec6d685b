----------------------------- MODULE VersionedKeys -----------------------------
(***************************************************************************)
(* MvccStore of synaptica-storage (mvcc.rs) at the level of RocksDB: a     *)
(* sorted map from byte strings to values.  A version of key k at ts is    *)
(* stored under k followed by the inverted big-endian timestamp, and       *)
(* get_at, prefix_scan_at and gc_before are forward scans over the sorted  *)
(* map.  Each operation also runs on `store', the set of versions of       *)
(* module MvccStore, which is what the byte-level scans should agree with. *)
(***************************************************************************)
EXTENDS Integers, Sequences, FiniteSets, SequencesExt

CONSTANTS Keys,         \* user keys: sequences of bytes
          Values, Tombstone, Nothing,
          ScanPrefixes,     \* prefixes passed to prefix_scan_at and gc_before
          Base,         \* byte values are 0 .. Base - 1 (256)
          Width,        \* bytes of an encoded timestamp (8)
          MaxVersions   \* bound: versions in the store

Byte == 0 .. Base - 1

ASSUME EncodingAssumption ==
    /\ Base \in Nat \ {0, 1} /\ Width \in Nat \ {0}
    /\ Keys \subseteq Seq(Byte) /\ ScanPrefixes \subseteq Seq(Byte)
    /\ Tombstone \notin Values /\ Nothing \notin Keys \cup Values

VARIABLES db,     \* set of [k: byte string, v: value], one per byte string
          store   \* the versions, as module MvccStore sees them

vars == <<db, store>>

Abstract == INSTANCE MvccStore

Pow[n \in 0 .. Width] == IF n = 0 THEN 1 ELSE Base * Pow[n - 1]
MAX == Pow[Width] - 1                         \* u64::MAX
Timestamps == 0 .. MAX

(* No key begins another one, as with keys of one length or of a self-     *)
(* delimiting layout; what the scans need to meet the versions of a key    *)
(* one after the other.                                                    *)
PrefixFree == \A k, l \in Keys : IsPrefix(k, l) => k = l

--------------------------------------------------------------------------------
(* The digits of n, most significant first (to_be_bytes).                  *)
BigEndian(n) == [i \in 1 .. Width |-> (n \div Pow[Width - i]) % Base]

(* Fault: the timestamp is not inverted.                                   *)
encode_ascending(key, ts) == key \o BigEndian(ts)

encode_versioned_key(key, ts) == key \o BigEndian(MAX - ts)

decode_versioned_timestamp(vk) ==
    LET value[i \in 0 .. Width] ==
            IF i = 0 THEN 0 ELSE value[i - 1] * Base + vk[Len(vk) - Width + i]
    IN  MAX - value[Width]

extract_key_prefix(vk) == SubSeq(vk, 1, Len(vk) - Width)

(* The order of RocksDB's default comparator.                              *)
BytesLess(a, b) ==
    \/ IsStrictPrefix(a, b)
    \/ \E i \in 1 .. Len(a) :
          /\ i <= Len(b)
          /\ a[i] < b[i]
          /\ SubSeq(a, 1, i - 1) = SubSeq(b, 1, i - 1)

(* iterator_cf(From(start, Forward)): the entries at or above `start'.     *)
ScanFrom(start) ==
    LET ahead == {e \in db : ~BytesLess(e.k, start)}
    IN  CHOOSE s \in [1 .. Cardinality(ahead) -> ahead] :
            \A i, j \in DOMAIN s : i < j => BytesLess(s[i].k, s[j].k)

First(positions) == CHOOSE i \in positions : \A j \in positions : i <= j

(* The items a loop sees before it breaks at the first one in `ends'.      *)
Until(seq, ends) ==
    LET stops == {i \in 1 .. Len(seq) : seq[i] \in ends}
    IN  IF stops = {} THEN seq
        ELSE SubSeq(seq, 1, First(stops) - 1)

OptionOf(v) == IF v = Tombstone THEN Nothing ELSE v

--------------------------------------------------------------------------------
get_at(key, ts) ==
    LET items == Until(ScanFrom(encode_versioned_key(key, MAX)),
                       {e \in db : extract_key_prefix(e.k) # key})
        hits  == {i \in 1 .. Len(items) : decode_versioned_timestamp(items[i].k) <= ts}
    IN  IF hits = {} THEN Nothing ELSE OptionOf(items[First(hits)].v)

(* The loop over a prefix, shared by prefix_scan_at and gc_before.         *)
PrefixItems(prefix) ==
    Until(ScanFrom(encode_versioned_key(prefix, MAX)),
          {e \in db : ~IsPrefix(prefix, extract_key_prefix(e.k))})

(* Fault: a deleted key is not remembered, so an older version shows.      *)
ScanForgetsDeleted(acc, e, ts) ==
    LET k == extract_key_prefix(e.k) IN
    IF k = acc.last \/ decode_versioned_timestamp(e.k) > ts \/ e.v = Tombstone
    THEN acc
    ELSE [last |-> k, results |-> Append(acc.results, [key |-> k, val |-> e.v])]

(* prefix_scan_at: `last' is last_key, set once a visible version of the   *)
(* key was met; further versions of that key are skipped.                  *)
ScanStep(acc, e, ts) ==
    LET k == extract_key_prefix(e.k) IN
    IF k = acc.last \/ decode_versioned_timestamp(e.k) > ts
    THEN acc
    ELSE [last    |-> k,
          results |-> IF e.v = Tombstone THEN acc.results
                      ELSE Append(acc.results, [key |-> k, val |-> e.v])]

prefix_scan_at(prefix, ts) ==
    LET items == PrefixItems(prefix)
        loop[i \in 0 .. Len(items)] ==
            IF i = 0 THEN [last |-> Nothing, results |-> <<>>]
            ELSE ScanStep(loop[i - 1], items[i], ts)
    IN  loop[Len(items)].results

(* Fault: found_visible is not reset when a new key group starts.          *)
GcNeverResets(acc, e, watermark) ==
    IF decode_versioned_timestamp(e.k) > watermark
    THEN acc
    ELSE [acc EXCEPT !.found = TRUE,
                     !.dead = IF acc.found THEN @ \cup {e} ELSE @]

(* gc_before: within a key group the first version at or below the         *)
(* watermark stays, later (older) ones are collected.                      *)
GcStep(acc, e, watermark) ==
    LET k     == extract_key_prefix(e.k)
        found == acc.last = k /\ acc.found
    IN  IF decode_versioned_timestamp(e.k) > watermark
        THEN [acc EXCEPT !.last = k, !.found = found]
        ELSE [last  |-> k,
              found |-> TRUE,
              dead  |-> IF found THEN acc.dead \cup {e} ELSE acc.dead]

gc_collect(prefix, watermark) ==
    LET items == PrefixItems(prefix)
        loop[i \in 0 .. Len(items)] ==
            IF i = 0 THEN [last |-> Nothing, found |-> FALSE, dead |-> {}]
            ELSE GcStep(loop[i - 1], items[i], watermark)
    IN  loop[Len(items)].dead

--------------------------------------------------------------------------------
Init == db = {} /\ store = {}

(* put_at, and delete_at with the tombstone.                               *)
put_at(key, val, ts) ==
    /\ Abstract!batch_write_at(store, [k \in {key} |-> val], ts) # store
    /\ store' = Abstract!batch_write_at(store, [k \in {key} |-> val], ts)
    /\ db' = {e \in db : e.k # encode_versioned_key(key, ts)}
                \cup {[k |-> encode_versioned_key(key, ts), v |-> val]}

gc_before(prefix, watermark) ==
    /\ db' = db \ gc_collect(prefix, watermark)
    /\ store' = store \ Abstract!gc_candidates(
                    store, {k \in Keys : IsPrefix(prefix, k)}, watermark)

Next ==
    \/ \E key \in Keys, val \in Values \cup {Tombstone}, ts \in Timestamps :
          Cardinality(db) < MaxVersions /\ put_at(key, val, ts)
    \/ \E prefix \in ScanPrefixes, watermark \in Timestamps : gc_before(prefix, watermark)

Spec == Init /\ [][Next]_vars

--------------------------------------------------------------------------------
(* get_at's scan, with its early break and its first-hit rule, answers     *)
(* what the newest version at or below the snapshot says, for every key    *)
(* and every snapshot ("Read the latest visible version of a key at or     *)
(* before the given snapshot timestamp").                                  *)
GetAgrees ==
    \A key \in Keys, ts \in Timestamps :
        get_at(key, ts) = Abstract!get_at(store, key, ts)

(* prefix_scan_at returns each key with the prefix that is visible at the  *)
(* snapshot exactly once, with the value get_at gives for it.              *)
ScanAgrees ==
    \A prefix \in ScanPrefixes, ts \in Timestamps :
        LET found == prefix_scan_at(prefix, ts) IN
        /\ IsInjective([i \in 1 .. Len(found) |-> found[i].key])
        /\ {found[i] : i \in 1 .. Len(found)} =
               {[key |-> k, val |-> Abstract!get_at(store, k, ts)] :
                   k \in {k \in Keys : /\ IsPrefix(prefix, k)
                                       /\ Abstract!get_at(store, k, ts) # Nothing}}

(* The two ways to read through the byte order agree with the set of       *)
(* versions.                                                               *)
ReadsAgree == GetAgrees /\ ScanAgrees

(* After any sequence of writes and collections the sorted map holds       *)
(* exactly the versions gc_before should have kept.                        *)
DbHoldsVersions ==
    db = {[k |-> encode_versioned_key(r.key, r.ts), v |-> r.val] : r \in store}
================================================================================
