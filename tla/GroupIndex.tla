---------------------------- MODULE GroupIndex -----------------------------
(***************************************************************************)
(* polygen::GroupIndex<K, V>: a std::unordered_map<K, std::vector<V*>>     *)
(* from a key to the addresses of the rows that share it, in the order     *)
(* they were inserted.                                                     *)
(***************************************************************************)
EXTENDS Sequences

CONSTANTS
    Keys,       \* the key type K
    Values      \* the row addresses a V* can hold

VARIABLE index  \* index_

TypeOK ==
    /\ DOMAIN index \subseteq Keys
    /\ index \in [DOMAIN index -> Seq(Values)]

EmptyMap == [k \in {} |-> <<>>]

\* A default-constructed index: an empty map.
Init == index = EmptyMap

\* get(key): the vector stored for key, or the shared empty vector empty_.
get(k) == IF k \in DOMAIN index THEN index[k] ELSE <<>>

\* Faulty variant kept for mutation testing: new rows put at the front.
insert_front(k, v) ==
    index' = [x \in DOMAIN index \cup {k} |->
                IF x = k THEN <<v>> \o get(k) ELSE index[x]]

\* insert(key, value): index_[key].push_back(value); operator[] first
\* creates an empty vector for a key not yet present.
insert(k, v) ==
    index' = [x \in DOMAIN index \cup {k} |->
                IF x = k THEN Append(get(k), v) ELSE index[x]]

\* contains(key): index_.find(key) != index_.end().
contains(k) == k \in DOMAIN index

\* clear(): index_.clear().
clear == index' = EmptyMap

=============================================================================
