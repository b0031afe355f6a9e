------------------------------- MODULE EcHash -------------------------------
(***************************************************************************)
(* The set and the tag of a key (include/ecache/ec_hash.h), with the casts *)
(* between a signed key type and its unsigned counterpart.  GpuTable has   *)
(* tags of the key's own type.  The cache modules take the tag for the     *)
(* key; what is shown here says that they may.                             *)
(***************************************************************************)
EXTENDS Integers

CONSTANTS Half,        \* 2^(w - 1) for keys of w bits
          num_sets

WidthsOK == Half \in Nat /\ Half > 0 /\ num_sets \in 1 .. Half

KeyRange == 2 * Half
Keys == -Half .. Half - 1
SentinelTag == -1      \* sentinel_key, the tag of a free slot

ToUnsigned(x) == x % KeyRange
ToSigned(u) == IF u < Half THEN u ELSE u - KeyRange

embed_cache_hash_set_idx(key) == ToUnsigned(key) % num_sets

embed_cache_construct_tag(key) == ToSigned(ToUnsigned(key) \div num_sets)

embed_cache_construct_key(tag, set_idx) == ToSigned((ToUnsigned(tag) * num_sets + set_idx) % KeyRange)

----------------------------------------------------------------------------
(* Properties *)

(* "construct_key/construct_tag/hash round-trip for any in-range key": the   *)
(* tag and the set of a key give the key back, negative keys included.       *)
KeyRoundTrips ==
  \A key \in Keys :
    embed_cache_construct_key(embed_cache_construct_tag(key), embed_cache_hash_set_idx(key)) = key

(* A lookup that compares the key a tag stands for finds a way exactly if    *)
(* the tag was written for its key.                                          *)
TagsTellKeysApart ==
  \A key, other \in Keys :
    embed_cache_hash_set_idx(key) = embed_cache_hash_set_idx(other)
      => ((embed_cache_construct_key(embed_cache_construct_tag(other), embed_cache_hash_set_idx(key)) = key)
            <=> (key = other))

(* A free slot is no hit for any key that is not negative: the lookups       *)
(* compare keys and do not look for the sentinel.                            *)
FreeSlotsMiss ==
  \A key \in 0 .. Half - 1 :
    embed_cache_construct_key(SentinelTag, embed_cache_hash_set_idx(key)) # key
=============================================================================
