------------------------------- MODULE Cache -------------------------------
(***************************************************************************)
(* services/cache.py: InMemoryCache, the store behind the result cache and   *)
(* the rate limiter when Redis is out of reach. A cache is its entries in    *)
(* the order of the OrderedDict, a frequency for each key, and counters.     *)
(***************************************************************************)
EXTENDS Integers, Sequences, SequencesExt

CONSTANTS Capacity, Policy

ASSUME CacheAssumption == Capacity \in Nat \ {0} /\ Policy \in {"lru", "lfu", "fifo"}

\* A map with one key set.
With(map, key, value) == [k \in DOMAIN map \cup {key} |-> IF k = key THEN value ELSE map[k]]

Empty == [data |-> <<>>, freq |-> <<>>, counters |-> <<>>]

KeysOf(cache) == {cache.data[i].key : i \in DOMAIN cache.data}
Position(data, key) == CHOOSE i \in DOMAIN data : data[i].key = key
Without(data, key) ==
    IF \E i \in DOMAIN data : data[i].key = key THEN RemoveAt(data, Position(data, key)) ELSE data
EntryOf(cache, key) == cache.data[Position(cache.data, key)]
FreqOf(cache, key) == IF key \in DOMAIN cache.freq THEN cache.freq[key] ELSE 0
Touched(cache, key) == With(cache.freq, key, FreqOf(cache, key) + 1)

\* Mutant of Drop: the frequency of the key stays behind.
DropEntry(cache, key) == [cache EXCEPT !.data = Without(@, key)]

Drop(cache, key) ==
    [cache EXCEPT !.data = Without(@, key), !.freq = [k \in DOMAIN @ \ {key} |-> @[k]]]

\* Mutant of Hit: the entry is not asked whether it has expired.
HitForever(cache, key, now) == key \in KeysOf(cache)

Hit(cache, key, now) == key \in KeysOf(cache) /\ EntryOf(cache, key).expires >= now

Found(cache, key, now) ==
    [cache EXCEPT !.freq = Touched(cache, key),
                  !.data = IF Policy = "lru" THEN Append(Without(@, key), EntryOf(cache, key)) ELSE @]

\* get: an entry that has expired is dropped when it is asked for.
Get(cache, key, now) ==
    IF Hit(cache, key, now) THEN Found(cache, key, now)
    ELSE IF key \in KeysOf(cache) THEN Drop(cache, key) ELSE cache

\* The first of the least frequent keys, or the front of the dictionary.
Victim(cache) ==
    IF Policy # "lfu" THEN cache.data[1].key
    ELSE LET least == Min({FreqOf(cache, key) : key \in KeysOf(cache)})
             at == {i \in DOMAIN cache.data : FreqOf(cache, cache.data[i].key) = least}
         IN  cache.data[Min(at)].key

\* set moves a key that is there to the end, and evicts one when the cache is over its capacity.
Set(cache, key, value, expires) ==
    LET stored == [cache EXCEPT !.data = Append(Without(@, key), [key |-> key, value |-> value, expires |-> expires]),
                                !.freq = Touched(cache, key)]
    IN  IF Len(stored.data) > Capacity THEN Drop(stored, Victim(stored)) ELSE stored

\* incr: a counter that has expired starts again. A counter is never removed.
Incr(cache, key, now, ttl) ==
    LET old == IF key \in DOMAIN cache.counters THEN cache.counters[key] ELSE [count |-> 0, expires |-> -1]
        live == IF old.expires < now THEN [count |-> 0, expires |-> now + ttl] ELSE old
    IN  [cache EXCEPT !.counters = With(@, key, [live EXCEPT !.count = @ + 1])]
=============================================================================
