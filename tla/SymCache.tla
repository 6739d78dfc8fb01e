------------------------------- MODULE SymCache -------------------------------
(***************************************************************************)
(* The cache of symbols ("symcache.c"): every symbol and keyword in use is *)
(* in it once, so that symbols are compared by address.  The collector     *)
(* removes the dead ones, leaving tombstones; a search that passes a       *)
(* tombstone moves what it finds there.                                    *)
(***************************************************************************)
EXTENDS Integers, Sequences, FiniteSets

CONSTANTS Names,
          Core,       \* a name the core environment keeps alive
          StringHash, \* janet_string_calchash
          Generated,  \* the names gensym makes, in the order of its counter
          Capacity0,  \* cache_capacity at the start (1024)
          MaxSymbols  \* bound: symbols ever made

ASSUME SymbolAssumption ==
  /\ Core \in Names /\ StringHash \in [Names -> Nat] /\ Generated \in Seq(Names)
  /\ Capacity0 \in Nat /\ Capacity0 >= 4
  /\ MaxSymbols \in Nat /\ 2 * MaxSymbols + 2 <= 2 ^ 30   \* the counts are uint32_t

Vacant == <<"vacant">>
Deleted == <<"deleted">>     \* JANET_SYMCACHE_DELETED

VARIABLES cache,      \* bucket -> Vacant, Deleted or a symbol: <<name, address>>
          cache_count, cache_deleted,
          gensym_counter,
          live,       \* the symbols in the heap
          fresh       \* history: the next address

symvars == <<cache, cache_count, cache_deleted, gensym_counter, live, fresh>>

CacheCap(c) == Cardinality(DOMAIN c)
NewCache(cap) == [b \in 0 .. cap - 1 |-> Vacant]
IsSymbol(x) == x \notin {Vacant, Deleted}

(* janet_tablen: the next power of two above n *)
CacheLen(n) == CHOOSE p \in {2 ^ e : e \in 0 .. 30} : p > n /\ p \div 2 <= n

(* The two ranges of a search: from the hash to the end, then from the start. *)
BucketAt(c, n, d) ==
  LET cap == CacheCap(c)
      i == StringHash[n] % cap
  IN IF i + d < cap THEN i + d ELSE i + d - cap

\* Mutant: the search ends at a tombstone.
Stops_AtTombstone(x, n) == x \in {Vacant, Deleted} \/ x[1] = n

Stops(x, n) == x = Vacant \/ (x # Deleted /\ x[1] = n)

Moved(c, from, to) == [c EXCEPT ![to] = c[from], ![from] = Deleted]

(* How far a search goes: to an empty bucket or to the name, or over all     *)
(* buckets.                                                                  *)
Nearest(S) == CHOOSE d \in S : \A e \in S : d <= e
StopsOf(c, n) == {d \in 0 .. CacheCap(c) - 1 : Stops(c[BucketAt(c, n, d)], n)}
EndOf(c, stops) == IF stops = {} THEN CacheCap(c) ELSE Nearest(stops)

(* The first tombstone on the way, else the empty bucket it ends at.         *)
NoBucket == -1
GravesOf(c, n, end) == {d \in 0 .. end - 1 : c[BucketAt(c, n, d)] = Deleted}
RoomOf(c, n, graves, end) ==
  IF graves # {} THEN BucketAt(c, n, Nearest(graves)) ELSE IF end < CacheCap(c) THEN BucketAt(c, n, end) ELSE NoBucket

(* janet_symcache_findmem: the cache after it, the bucket, and whether the   *)
(* name is there.                                                            *)
FindMem(c, n) ==
  LET stops == StopsOf(c, n)
      end == EndOf(c, stops)
      graves == GravesOf(c, n, end)
      place == RoomOf(c, n, graves, end)
      b == BucketAt(c, n, end)
  IN IF stops # {} /\ IsSymbol(c[b])
     THEN [cache |-> IF graves = {} THEN c ELSE Moved(c, b, place), bucket |-> place, found |-> TRUE]
     ELSE [cache |-> c, bucket |-> place, found |-> FALSE]

(* janet_cache_resize *)
Copied(u, x) == IF IsSymbol(x) THEN [u EXCEPT ![FindMem(u, x[1]).bucket] = x] ELSE u
CacheResized(c, cap) ==
  LET upTo[b \in 0 .. CacheCap(c)] == IF b = 0 THEN NewCache(cap) ELSE Copied(upTo[b - 1], c[b - 1])
  IN upTo[CacheCap(c)]

CacheIsFull(c) == (cache_count + cache_deleted) * 2 > CacheCap(c)

(* janet_symcache_put, after the search: a new symbol in the heap and in the *)
(* cache.                                                                    *)
Added(r, n) ==
  LET c == IF CacheIsFull(r.cache) THEN CacheResized(r.cache, CacheLen(2 * cache_count + 1)) ELSE r.cache
      b == IF CacheIsFull(r.cache) THEN FindMem(c, n).bucket ELSE r.bucket
  IN /\ fresh <= MaxSymbols
     /\ cache' = [c EXCEPT ![b] = <<n, fresh>>]
     /\ cache_count' = cache_count + 1 /\ cache_deleted' = IF CacheIsFull(r.cache) THEN 0 ELSE cache_deleted
     /\ live' = live \cup {<<n, fresh>>} /\ fresh' = fresh + 1

InitSymbols ==
  /\ cache = [NewCache(Capacity0) EXCEPT ![StringHash[Core] % Capacity0] = <<Core, 0>>]
  /\ cache_count = 1 /\ cache_deleted = 0 /\ gensym_counter = 1 /\ live = {<<Core, 0>>} /\ fresh = 1

(* janet_symbol *)
Symbol(n) ==
  LET r == FindMem(cache, n)
  IN /\ IF r.found THEN cache' = r.cache /\ UNCHANGED <<cache_count, cache_deleted, live, fresh>> ELSE Added(r, n)
     /\ UNCHANGED gensym_counter

(* janet_symbol_deinit, from janet_sweep.                                    *)
Deinit(s) ==
  /\ s \in live /\ s[1] # Core /\ live' = live \ {s}
  /\ LET r == FindMem(cache, s[1])
     IN IF r.found
        THEN /\ cache' = [r.cache EXCEPT ![r.bucket] = Deleted]
             /\ cache_count' = cache_count - 1 /\ cache_deleted' = cache_deleted + 1
        ELSE UNCHANGED <<cache, cache_count, cache_deleted>>
  /\ UNCHANGED <<gensym_counter, fresh>>

(* janet_symbol_gen: the counter goes on to the first name not in use, by a  *)
(* search for each.                                                          *)
CounterAfter(k) == ((gensym_counter + k - 2) % Len(Generated)) + 1
NameAfter(k) == Generated[CounterAfter(k)]
Searched ==
  LET searched[k \in 0 .. Len(Generated)] == IF k = 0 THEN cache ELSE FindMem(searched[k - 1], NameAfter(k)).cache
  IN searched
Untaken(searched) == {k \in DOMAIN Generated : ~FindMem(searched[k - 1], NameAfter(k)).found}

Gensym ==
  LET searched == Searched
      k == Nearest(Untaken(searched))
  IN /\ Untaken(searched) # {}     \* 64 ^ 5 names are not all in use
     /\ gensym_counter' = CounterAfter(k) /\ Added(FindMem(searched[k - 1], NameAfter(k)), NameAfter(k))

NextSymbols == Gensym \/ (\E n \in Names : Symbol(n)) \/ (\E s \in live : Deinit(s))

SymbolSpec == InitSymbols /\ [][NextSymbols]_symvars

-----------------------------------------------------------------------------
SymbolTypeOK ==
  /\ \A b \in DOMAIN cache : ~IsSymbol(cache[b]) \/ cache[b] \in live
  /\ cache_count = Cardinality(live)

(* Symbols are equal when their addresses are: through collisions,           *)
(* collections, moves and resizes there is one symbol for each name.         *)
OneSymbolPerName == \A s, t \in live : s[1] = t[1] => s = t

(* The collector cannot leave the address of a dead symbol behind, because a *)
(* symbol is in one bucket only.                                             *)
OneBucketPerSymbol == \A b, c \in DOMAIN cache : IsSymbol(cache[b]) /\ cache[b] = cache[c] => b = c

(* A search ends: there is always an empty bucket, though moves and puts     *)
(* into tombstones are not counted.                                          *)
SearchEnds == \E b \in DOMAIN cache : cache[b] = Vacant

(* There is one symbol for a name, in one bucket, and searches for it end.   *)
SymbolsAreUnique == OneSymbolPerName /\ OneBucketPerSymbol /\ SearchEnds
=============================================================================
