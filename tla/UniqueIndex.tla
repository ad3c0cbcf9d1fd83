---------------------------- MODULE UniqueIndex ----------------------------
(***************************************************************************)
(* polygen::UniqueIndex<K, V>: a std::unordered_map<K, V*> from a key to   *)
(* the address of one row.  The map is a TLA+ function whose domain is the *)
(* set of keys present in it.                                              *)
(***************************************************************************)
CONSTANTS
    Keys,       \* the key type K
    Values,     \* the row addresses a V* can hold
    Null        \* nullptr

VARIABLE index  \* index_

TypeOK ==
    /\ DOMAIN index \subseteq Keys
    /\ index \in [DOMAIN index -> Values]

EmptyMap == [k \in {} |-> Null]

\* A default-constructed index: an empty map.
Init == index = EmptyMap

\* Faulty variant kept for mutation testing: index_.insert({key, value}),
\* which keeps the existing mapping instead of overwriting it.
insert_keep_first(k, v) ==
    index' = IF k \in DOMAIN index THEN index
             ELSE [x \in DOMAIN index \cup {k} |-> IF x = k THEN v ELSE index[x]]

\* insert(key, value): index_[key] = value; an existing mapping is replaced.
insert(k, v) ==
    index' = [x \in DOMAIN index \cup {k} |-> IF x = k THEN v ELSE index[x]]

\* get(key): the mapped address, or nullptr when the key is absent.
get(k) == IF k \in DOMAIN index THEN index[k] ELSE Null

\* contains(key): index_.find(key) != index_.end().
contains(k) == k \in DOMAIN index

\* Faulty variant kept for mutation testing: a clear() that nulls every
\* pointer but keeps the keys, so contains() still reports them.
clear_keeping_keys == index' = [k \in DOMAIN index |-> Null]

\* clear(): index_.clear().
clear == index' = EmptyMap

=============================================================================
