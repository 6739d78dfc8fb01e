--------------------------------- MODULE Values ---------------------------------
(***************************************************************************)
(* Values as the virtual machine sees them, and what the instructions do   *)
(* to them ("value.c", the operators of "vm.c").  Numbers are integers;    *)
(* the contents of arrays and tables are in heap, a sequence: an array's   *)
(* elements, a table's entries.  What would raise an error is Bad.         *)
(***************************************************************************)
EXTENDS Integers, Sequences, FiniteSets, SequencesExt, TLC

(* Functions, arrays and tables are numbers of entries elsewhere.            *)
V(t, n, s, items) == [t |-> t, n |-> n, s |-> s, items |-> items]
Nil == V("nil", 0, "", <<>>)
Num(n) == V("number", n, "", <<>>)
Bool(b) == V("boolean", IF b THEN 1 ELSE 0, "", <<>>)
Kw(s) == V("keyword", 0, s, <<>>)
Tup(items) == V("tuple", 0, "", items)
Array(id) == V("array", id, "", <<>>)
Table(id) == V("table", id, "", <<>>)
Closure(id) == V("function", id, "", <<>>)
Builtin(s) == V("builtin", 0, s, <<>>)
Bad == V("bad", 0, "", <<>>)
Truthy(v) == v # Nil /\ v # Bool(FALSE)

Elements(heap, v) == IF v.t = "array" THEN heap[v.n] ELSE v.items
Entries(heap, v) == IF v.t = "table" THEN heap[v.n] ELSE v.items
IsIndexed(v) == v.t \in {"tuple", "array"}
IsDictionary(v) == v.t \in {"struct", "table"}

(* Entries are pairs in the order in which their keys came.                  *)
At(entries, k) == {i \in DOMAIN entries : entries[i].items[1] = k}
Found(entries, k) == IF At(entries, k) = {} THEN Nil ELSE entries[CHOOSE i \in At(entries, k) : TRUE].items[2]
PutEntry(entries, k, v) ==
  LET others == SelectSeq(entries, LAMBDA e : e.items[1] # k)
      at == CHOOSE i \in At(entries, k) : TRUE
  IN CASE k = Nil \/ (v = Nil /\ At(entries, k) = {}) -> entries
       [] k # Nil /\ v = Nil /\ At(entries, k) # {} -> others
       [] k # Nil /\ v # Nil /\ At(entries, k) = {} -> Append(entries, Tup(<<k, v>>))
       [] k # Nil /\ v # Nil /\ At(entries, k) # {} -> [entries EXCEPT ![at] = Tup(<<k, v>>)]
EntriesOf(vs) == FoldLeft(LAMBDA es, i : PutEntry(es, vs[2 * i - 1], vs[2 * i]), <<>>, [i \in 1 .. Len(vs) \div 2 |-> i])
PutStruct(entries, k, v) == IF v = Nil THEN entries ELSE PutEntry(entries, k, v)
Struct(vs) ==
  V("struct", 0, "", FoldLeft(LAMBDA es, i : PutStruct(es, vs[2 * i - 1], vs[2 * i]), <<>>, [i \in 1 .. Len(vs) \div 2 |-> i]))

(* janet_in, janet_get, janet_getindex, janet_lengthv                        *)
Within(heap, ds, key) == key.t = "number" /\ key.n \in 0 .. Len(Elements(heap, ds)) - 1
In(heap, ds, key) ==
  CASE IsDictionary(ds) -> Found(Entries(heap, ds), key)
    [] IsIndexed(ds) -> IF Within(heap, ds, key) THEN Elements(heap, ds)[key.n + 1] ELSE Bad
    [] OTHER -> Bad
Get(heap, ds, key) ==
  CASE IsDictionary(ds) -> Found(Entries(heap, ds), key)
    [] IsIndexed(ds) /\ Within(heap, ds, key) -> Elements(heap, ds)[key.n + 1]
    [] OTHER -> Nil
GetIndex(heap, ds, i) == IF IsIndexed(ds) \/ IsDictionary(ds) THEN Get(heap, ds, Num(i)) ELSE Bad
Length(heap, v) ==
  CASE IsIndexed(v) -> Num(Len(Elements(heap, v)))
    [] IsDictionary(v) -> Num(Len(Entries(heap, v)))
    [] OTHER -> Bad

(* janet_put and janet_putindex: an array grows to the index.                *)
CanPut(ds, key) == ds.t = "table" \/ (ds.t = "array" /\ key.t = "number" /\ key.n >= 0)
PutIn(heap, ds, key, v) ==
  LET a == heap[ds.n]
      n == IF key.n >= Len(a) THEN key.n + 1 ELSE Len(a)
      grown == [i \in 1 .. n |-> IF i = key.n + 1 THEN v ELSE IF i <= Len(a) THEN a[i] ELSE Nil]
  IN [heap EXCEPT ![ds.n] = IF ds.t = "table" THEN PutEntry(a, key, v) ELSE grown]

(* Arithmetic is for numbers; the order is one of all numbers, nils and      *)
(* booleans, by type first.                                                  *)
Arith(op, x, y) ==
  IF x.t # "number" \/ y.t # "number" THEN Bad
  ELSE Num(CASE op = "add" -> x.n + y.n [] op = "sub" -> x.n - y.n [] op = "mul" -> x.n * y.n)
Rank(v) == CASE v.t = "number" -> 0 [] v.t = "nil" -> 1 [] v.t = "boolean" -> 2 [] OTHER -> 3
Compare(x, y) ==
  LET d == IF Rank(x) # Rank(y) THEN Rank(x) - Rank(y) ELSE x.n - y.n
  IN IF d < 0 THEN -1 ELSE IF d > 0 THEN 1 ELSE 0
Relation(op, x, y) ==
  CASE op = "gt" -> Compare(x, y) > 0 [] op = "lt" -> Compare(x, y) < 0
    [] op = "gte" -> Compare(x, y) >= 0 [] op = "lte" -> Compare(x, y) <= 0
    [] op = "eq" -> x = y [] op = "neq" -> x # y

(* A value as a reader sees it: contents for arrays and tables, the kind for *)
(* functions; two levels deep.                                               *)
Flat(v) == IF v.t \in {"function", "builtin"} THEN V("function", 0, "", <<>>) ELSE IF v.t \in {"array", "table"} THEN [v EXCEPT !.n = 0] ELSE v
Inside(heap, v) ==
  LET items == IF v.t \in {"array", "table"} THEN heap[v.n] ELSE v.items
  IN [Flat(v) EXCEPT !.items = [i \in DOMAIN items |-> Flat(items[i])]]
Shown(heap, v) ==
  LET items == IF v.t \in {"array", "table"} THEN heap[v.n] ELSE v.items
  IN [Flat(v) EXCEPT !.items = [i \in DOMAIN items |-> Inside(heap, items[i])]]
=============================================================================
