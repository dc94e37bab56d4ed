------------------------------- MODULE LruCache -------------------------------
(* The cache of src/src/lrucache.hpp, which keeps ids, hashes and operation    *)
(* chains of addresses in memory: a list of pairs, the latest used in front,   *)
(* and a map from each key to its place in the list.  It may grow beyond its   *)
(* size until purge is called, once per commit of the import loop.             *)
EXTENDS Integers, Sequences, FiniteSets

CONSTANTS Key, CacheValue,
          MaxSize      \* _max_size

ASSUME CacheAssumption == MaxSize \in Nat

VARIABLES items,       \* _cache_items_list: the nodes, the first one in front
          places,      \* _cache_items_map: the node of a key
          node,        \* the pair in each node of the list
          cached       \* a key's value as its users count on it, by last use

lruVars == <<items, places, node, cached>>

(* A list node stays the same when others come and go; a new one is none of    *)
(* those in the list.                                                          *)
Free == CHOOSE n \in 1..Len(items) + 1 : \A i \in 1..Len(items) : items[i] # n
Place(n) == CHOOSE i \in 1..Len(items) : items[i] = n

Erased(s, i) == SubSeq(s, 1, i - 1) \o SubSeq(s, i + 1, Len(s))
Exists(k) == k \in DOMAIN places
Restricted(f, S) == [k \in S |-> f[k]]

CacheInit == items = <<>> /\ places = <<>> /\ node = <<>> /\ cached = <<>>

(* The uses of a key: what an ideal cache without a size remembers.            *)
Used(s, k, v) ==
    LET of == {i \in 1..Len(s) : s[i].key = k}
    IN  <<[key |-> k, value |-> v]>> \o
           (IF of = {} THEN s ELSE Erased(s, CHOOSE i \in of : TRUE))

(* put: the old node is erased, the new one is pushed to the front. *)
Put(k, v) ==
    LET n == Free
        rest == IF Exists(k) THEN Erased(items, Place(places[k])) ELSE items
    IN  /\ items' = <<n>> \o rest
        /\ places' = [j \in DOMAIN places \cup {k} |-> IF j = k THEN n ELSE places[j]]
        /\ node' = [m \in {n} \cup {rest[i] : i \in 1..Len(rest)} |->
                       IF m = n THEN [key |-> k, value |-> v] ELSE node[m]]
        /\ cached' = Used(cached, k, v)

(* get without the move to the front. *)
GetInPlace(k, v) ==
    /\ Exists(k)
    /\ node' = [node EXCEPT ![places[k]].value = v]
    /\ cached' = Used(cached, k, v)
    /\ UNCHANGED <<items, places>>

(* get: the node moves to the front; the caller may change the value in place, *)
(* as main.cpp:745 does with the chain of an address.                          *)
Get(k, v) ==
    /\ Exists(k)
    /\ items' = <<places[k]>> \o Erased(items, Place(places[k]))
    /\ node' = [node EXCEPT ![places[k]].value = v]
    /\ cached' = Used(cached, k, v)
    /\ UNCHANGED places

(* purge: the last nodes leave, until the map has the size. *)
Purge ==
    LET kept == IF Cardinality(DOMAIN places) > MaxSize THEN SubSeq(items, 1, MaxSize) ELSE items
        gone == {node[items[i]].key : i \in Len(kept)+1..Len(items)}
    IN  /\ items' = kept
        /\ places' = Restricted(places, DOMAIN places \ gone)
        /\ node' = Restricted(node, {kept[i] : i \in 1..Len(kept)})
        /\ cached' = SubSeq(cached, 1, IF Len(cached) < MaxSize THEN Len(cached) ELSE MaxSize)

ClearAll == items' = <<>> /\ places' = <<>> /\ node' = <<>> /\ cached' = <<>>

CacheNext ==
    \/ \E k \in Key, v \in CacheValue : Put(k, v) \/ Get(k, v)
    \/ Purge
    \/ ClearAll

CacheSpec == CacheInit /\ [][CacheNext]_lruVars

-------------------------------------------------------------------------------
(* The list and the map are of the same keys, each with one node; whatever was *)
(* put, looked up, changed in place and purged before, exists(k) tells whether *)
(* k is among the last used, get(k) returns the value it had then, and the     *)
(* next purge removes the keys that were not used for longest                  *)
(* (lrucache.hpp:20-57).                                                       *)
KeepsLastUsed ==
    /\ [i \in DOMAIN items |-> node[items[i]]] = cached
    /\ DOMAIN places = {cached[i].key : i \in DOMAIN cached}
    /\ \A k \in DOMAIN places : node[places[k]].key = k
    /\ \A i, j \in DOMAIN items : items[i] = items[j] => i = j
===============================================================================
