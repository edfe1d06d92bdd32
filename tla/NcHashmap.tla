----------------------------- MODULE NcHashmap -----------------------------
(***************************************************************************)
(* The chained hashmap of libnica (src/nica/hashmap.c) the daemon keeps    *)
(* its recent fetches in.  A bucket is a head cell in the array and cells  *)
(* linked behind it; removing a key leaves its cell, unoccupied, in the    *)
(* chain, and inserting takes the last such cell.  A key is a pointer; the *)
(* table compares the texts pointers point to.                             *)
(***************************************************************************)
EXTENDS Integers, Sequences, FiniteSets, SequencesExt

CONSTANTS
  Ptr,           \* addresses of keys
  Text,          \* what a key says
  TextOf,        \* [Ptr -> Text]: an address always holds the same text
  Value,
  Null, Missing,
  MaxHash,       \* hashes are 0 .. MaxHash
  InitialSize,   \* INITIAL_SIZE
  Growth,        \* INCREASE_FACTOR
  OwnsKeys,      \* key_free is set
  MemoryMayFail  \* calloc may return NULL

ASSUME TableAssumption ==
  /\ TextOf \in [Ptr -> Text]
  /\ MaxHash \in Nat
  /\ InitialSize \in Nat \ {0, 1}
  /\ Growth \in Nat \ {0, 1}
  /\ Null \notin Ptr \cup Value
  /\ Missing \notin Value \cup {Null}
  /\ OwnsKeys \in BOOLEAN
  /\ MemoryMayFail \in BOOLEAN

VARIABLES
  hashOf,   \* the hash function, one for the life of the table
  buckets,  \* [0 .. n_buckets - 1 -> Chain]
  size,     \* number of entries
  nextSize, \* next_size: size at which the table grows
  ret,      \* the last call, its key and what it returned
  broken,   \* "no", or why nothing can be said of further calls
  plain     \* history: the program has used this table as the daemon does: it
            \* removed nothing, and put only keys it had not found

vars == <<hashOf, buckets, size, nextSize, ret, broken, plain>>

Cell(k, v) == [key |-> k, val |-> v, occ |-> TRUE]
EmptyCell  == [key |-> Null, val |-> Null, occ |-> FALSE]

\* A chain and, if its last cell is linked back into it, to which cell.
EmptyChain == [cells |-> <<EmptyCell>>, loop |-> 0]

Buckets(n)     == [i \in 0 .. n - 1 |-> EmptyChain]
NBuckets(bs)   == Cardinality(DOMAIN bs)
FullAt(n)      == (n * 7) \div 10               \* FULL_FACTOR 0.7
Slot(bs, t)    == hashOf[t] % NBuckets(bs)
Chain(bs, t)   == bs[Slot(bs, t)]
Looping(bs)    == {i \in DOMAIN bs : bs[i].loop # 0}

\* nc_hashmap_get_entry: the first cell that compares equal, 0 if there is
\* none.  It does not look at occ; the key of a removed cell is NULL.
Found(bs, t) ==
  SelectInSeq(Chain(bs, t).cells, LAMBDA c : c.key # Null /\ TextOf[c.key] = t)

\* Looking for a text that is not in a looping chain never ends.
Endless(t) == Found(buckets, t) = 0 /\ Chain(buckets, t).loop # 0

CellOf(t) == Chain(buckets, t).cells[Found(buckets, t)]

\* The occupied cells among the first so many of a chain.
OccupiedUpTo(ch) ==
  LET upTo[j \in 0 .. Len(ch.cells)] ==
        IF j = 0 THEN <<>>
        ELSE IF ch.cells[j].occ THEN Append(upTo[j - 1], ch.cells[j])
        ELSE upTo[j - 1]
  IN  upTo

\* Those of the first so many buckets.
EntriesUpTo(bs) ==
  LET upTo[i \in 0 .. NBuckets(bs)] ==
        IF i = 0 THEN <<>>
        ELSE upTo[i - 1] \o OccupiedUpTo(bs[i - 1])[Len(bs[i - 1].cells)]
  IN  upTo

\* The occupied cells in the order resize and the iterator meet them.
Entries(bs) == EntriesUpTo(bs)[NBuckets(bs)]

\* Mutant: the cells in the array are skipped.
IterItemBehindHead(bs, b) == 2

\* Where nc_hashmap_iter_next goes on in bucket b.
IterItem(bs, b) == 1

\* What repeated calls of nc_hashmap_iter_next yield: item i of bucket b, if it
\* is occupied, and then what comes behind it; the next bucket where there is no
\* item.  The chains must not loop.
Iterated(bs) ==
  LET from[at \in Nat \X Nat] ==
        LET b == at[1]
            i == at[2]
        IN  IF b >= NBuckets(bs) THEN <<>>
            ELSE IF i > Len(bs[b].cells) THEN from[<<b + 1, IterItem(bs, b)>>]
            ELSE IF bs[b].cells[i].occ THEN <<bs[b].cells[i]>> \o from[<<b, i + 1>>]
            ELSE from[<<b, i + 1>>]
  IN  from[<<0, IterItem(bs, 0)>>]

StoredKeys == {c.key : c \in ToSet(Entries(buckets))}

-----------------------------------------------------------------------------
(* nc_hashmap_insert_bucket.                                               *)

LastTomb(ch)  == SelectLastInSeq(ch.cells, LAMBDA c : ~c.occ)
SamePtr(ch, p) == SelectInSeq(ch.cells, LAMBDA c : c.occ /\ c.key = p)

\* Mutant: the new cell is filled but never linked.
Unlinked(ch, p, v) ==
  LET tomb == LastTomb(ch) IN
    IF tomb = 0 THEN ch
    ELSE [ch EXCEPT !.cells = [ch.cells EXCEPT ![tomb] = Cell(p, v)]]

\* Mutant: the cell is linked although it is the last of the chain itself.
LinkedToItself(ch, p, v) ==
  LET tomb == LastTomb(ch) IN
    IF tomb = 0 THEN [cells |-> Append(ch.cells, Cell(p, v)), loop |-> ch.loop]
    ELSE [cells |-> [ch.cells EXCEPT ![tomb] = Cell(p, v)], loop |-> tomb]

\* The last cell of the chain is linked to the cell that was filled, whether
\* that one is new or was in the chain already.
Linked(ch, p, v) ==
  LET tomb == LastTomb(ch) IN
    IF tomb = 0
    THEN [cells |-> Append(ch.cells, Cell(p, v)), loop |-> ch.loop]
    ELSE [cells |-> [ch.cells EXCEPT ![tomb] = Cell(p, v)],
          loop  |-> IF tomb = Len(ch.cells) THEN ch.loop ELSE tomb]

\* Mutant: the bucket is chosen by the initial size of the table.
InsertedInitially(bs, p, v) ==
  LET i == hashOf[TextOf[p]] % InitialSize IN [bs EXCEPT ![i] = Linked(bs[i], p, v)]

Inserted(bs, p, v) ==
  [bs EXCEPT ![Slot(bs, TextOf[p])] = Linked(Chain(bs, TextOf[p]), p, v)]

NeedsCell(bs, p) == LastTomb(Chain(bs, TextOf[p])) = 0

\* After so many of the entries es have been moved into the buckets bs.
Moved(es, bs) ==
  LET upTo[k \in 0 .. Len(es)] ==
        IF k = 0 THEN bs ELSE Inserted(upTo[k - 1], es[k].key, es[k].val)
  IN  upTo

\* Mutant: one bucket too few.
RehashedShort(es, n) == Moved(es, Buckets(n - 1))[Len(es)]

\* nc_hashmap_resize: the entries es moved into n new buckets.
Rehashed(es, n) == Moved(es, Buckets(n))[Len(es)]

-----------------------------------------------------------------------------
TypeOK ==
  /\ hashOf \in [Text -> 0 .. MaxHash]
  /\ \A i \in DOMAIN buckets :
       /\ Len(buckets[i].cells) > 0
       /\ buckets[i].loop \in 0 .. Len(buckets[i].cells) - 1
       /\ \A c \in ToSet(buckets[i].cells) :
            c \in [key : Ptr, val : Value \cup {Null}, occ : {TRUE}] \cup {EmptyCell}
  /\ DOMAIN buckets = 0 .. NBuckets(buckets) - 1
  /\ size \in Nat
  /\ nextSize = FullAt(NBuckets(buckets))
  /\ ret \in {"put", "get", "ensure_get", "contains", "remove", "new"}
              \X (Text \cup {Null}) \X (BOOLEAN \cup Value \cup {Null})
  /\ broken \in {"no", "loop", "dangling"}
  /\ plain \in BOOLEAN

Init ==
  /\ hashOf \in [Text -> 0 .. MaxHash]
  /\ buckets = Buckets(InitialSize)
  /\ size = 0
  /\ nextSize = FullAt(InitialSize)
  /\ ret = <<"new", Null, TRUE>>
  /\ broken = "no"
  /\ plain = TRUE

Returns(call, t, r) == ret' = <<call, t, r>> /\ UNCHANGED broken
Breaks(why) == broken' = why /\ UNCHANGED ret

\* A key the table owns is not the program's to put again.
MayPut(p) == OwnsKeys => p \notin StoredKeys

Plainly(t) == plain' = (plain /\ Found(buckets, t) = 0)

\* The part of put behind the resize, in the buckets bs with so many items.
PutInto(bs, items, p, v) ==
  LET ch   == Chain(bs, TextOf[p])
      same == SamePtr(ch, p)
  IN  \/ /\ same # 0
         /\ buckets' = [bs EXCEPT ![Slot(bs, TextOf[p])].cells[same] = Cell(p, v)]
         /\ IF OwnsKeys THEN Breaks("dangling") ELSE Returns("put", TextOf[p], FALSE)
         /\ size' = items
      \/ /\ same = 0 /\ ch.loop # 0
         /\ buckets' = bs
         /\ Breaks("loop")
         /\ size' = items
      \/ /\ same = 0 /\ ch.loop = 0
         /\ buckets' = Inserted(bs, p, v)
         /\ size' = items + 1
         /\ Returns("put", TextOf[p], TRUE)
      \/ /\ same = 0 /\ ch.loop = 0
         /\ MemoryMayFail /\ NeedsCell(bs, p)
         /\ buckets' = bs
         /\ Returns("put", TextOf[p], FALSE)
         /\ size' = items

Put(p, v) ==
  /\ broken = "no" /\ MayPut(p)
  /\ size < nextSize
  /\ PutInto(buckets, size, p, v)
  /\ Plainly(TextOf[p])
  /\ UNCHANGED <<hashOf, nextSize>>

PutGrowing(p, v) ==
  /\ broken = "no" /\ MayPut(p)
  /\ size >= nextSize
  /\ Looping(buckets) = {}
  /\ LET es == Entries(buckets)
         n  == NBuckets(buckets) * Growth
     IN  \E grown \in {Rehashed(es, n)} :
           /\ PutInto(grown, Len(es), p, v)
           /\ nextSize' = FullAt(n)
  /\ Plainly(TextOf[p])
  /\ UNCHANGED hashOf

\* No memory for the new array, or for the cell of a later entry: the keys
\* moved until then are freed with the new buckets, and stay in the old ones.
GrowFails(p) ==
  /\ broken = "no" /\ MayPut(p)
  /\ size >= nextSize
  /\ Looping(buckets) = {}
  /\ MemoryMayFail
  /\ LET es == Entries(buckets)
         n  == NBuckets(buckets) * Growth
     IN  \E k \in 0 .. Len(es) - 1 :
           /\ k > 0 => NeedsCell(Rehashed(SubSeq(es, 1, k), n), es[k + 1].key)
           /\ ret' = <<"put", TextOf[p], FALSE>>
           /\ broken' = IF k > 0 /\ OwnsKeys THEN "dangling" ELSE broken
  /\ UNCHANGED <<hashOf, buckets, size, nextSize, plain>>

\* Moving the entries of a looping chain comes to one of them a second time,
\* which counts as a failure, or never ends if the loop has none.
GrowLoops(p) ==
  /\ broken = "no" /\ MayPut(p)
  /\ size >= nextSize
  /\ Looping(buckets) # {}
  /\ LET ch == buckets[CHOOSE i \in Looping(buckets) :
                         \A j \in Looping(buckets) : i <= j]
     IN  IF \A i \in ch.loop .. Len(ch.cells) : ~ch.cells[i].occ
         THEN Breaks("loop")
         ELSE /\ ret' = <<"put", TextOf[p], FALSE>>
              /\ broken' = IF OwnsKeys THEN "dangling" ELSE broken
  /\ UNCHANGED <<hashOf, buckets, size, nextSize, plain>>

\* nc_hashmap_get
Get(t) ==
  /\ broken = "no"
  /\ IF Endless(t) THEN Breaks("loop")
     ELSE Returns("get", t, IF Found(buckets, t) = 0 THEN Null ELSE CellOf(t).val)
  /\ UNCHANGED <<hashOf, buckets, size, nextSize, plain>>

\* nc_hashmap_ensure_get
EnsureGet(t) ==
  /\ broken = "no"
  /\ IF Endless(t) THEN Breaks("loop")
     ELSE Returns("ensure_get", t, Found(buckets, t) # 0)
  /\ UNCHANGED <<hashOf, buckets, size, nextSize, plain>>

\* nc_hashmap_contains
ContainsKey(t) ==
  /\ broken = "no"
  /\ IF Endless(t) THEN Breaks("loop")
     ELSE Returns("contains", t, Found(buckets, t) # 0 /\ CellOf(t).val # Null)
  /\ UNCHANGED <<hashOf, buckets, size, nextSize, plain>>

\* nc_hashmap_remove and nc_hashmap_steal; they differ in who frees the key.
RemoveKey(t) ==
  /\ broken = "no"
  /\ Plainly(t)
  /\ \/ Endless(t) /\ Breaks("loop") /\ UNCHANGED <<buckets, size>>
     \/ /\ ~Endless(t) /\ Found(buckets, t) = 0
        /\ Returns("remove", t, FALSE)
        /\ UNCHANGED <<buckets, size>>
     \/ /\ Found(buckets, t) # 0
        /\ buckets' = [buckets EXCEPT
                         ![Slot(buckets, t)].cells[Found(buckets, t)] = EmptyCell]
        /\ size' = size - 1
        /\ Returns("remove", t, TRUE)
  /\ UNCHANGED <<hashOf, nextSize>>

\* nc_hashmap_free, and a new table; a looping chain is never freed.
FreeAndNew ==
  /\ broken = "no"
  /\ IF Looping(buckets) # {}
     THEN Breaks("loop") /\ UNCHANGED <<buckets, size, nextSize, plain>>
     ELSE /\ buckets' = Buckets(InitialSize)
          /\ size' = 0
          /\ nextSize' = FullAt(InitialSize)
          /\ plain' = TRUE
          /\ Returns("new", Null, TRUE)
  /\ UNCHANGED hashOf

Next ==
  \/ \E p \in Ptr : GrowFails(p) \/ GrowLoops(p)
                    \/ \E v \in Value : Put(p, v) \/ PutGrowing(p, v)
  \/ \E t \in Text : Get(t) \/ EnsureGet(t) \/ ContainsKey(t) \/ RemoveKey(t)
  \/ FreeAndNew

Spec == Init /\ [][Next]_vars

-----------------------------------------------------------------------------
Stored(t) == IF Found(buckets, t) = 0 THEN Missing ELSE CellOf(t).val

\* Used the way the daemon uses it the table is a map: nothing is lost or
\* shadowed by collisions, by moving to a larger array or by failing memory, and
\* the calls return what hashmap.h says (hashmap.h:150-188).
Map == INSTANCE KeyMap WITH
         PutMayFail <- MemoryMayFail, map <- [t \in Text |-> Stored(t)]

ImplementsMap == Map!Spec

\* size is the number of entries, whatever puts, removals, replacements and
\* failures came before (hashmap.c:190-197, 263, 400).
SizeCounts == broken = "no" => size = Len(Entries(buckets))

\* Every entry can be found from its key: it is in the bucket its hash selects
\* in the present array (hashmap.c:129, 209), also after a resize.
Reachable ==
  \A i \in DOMAIN buckets : \A c \in ToSet(buckets[i].cells) :
    c.occ => Slot(buckets, TextOf[c.key]) = i

\* "Iterate every key/value pair in the hashmap" (hashmap.h:231): each entry once,
\* and what a lookup finds among them.
IteratesAll ==
  broken = "no" /\ Looping(buckets) = {} =>
    LET seen == Iterated(buckets) IN
      /\ Len(seen) = size
      /\ \A t \in Text : Found(buckets, t) # 0 =>
           \E c \in ToSet(seen) : TextOf[c.key] = t /\ c.val = Stored(t)

\* A program that removes nothing and puts no key it has found, as the daemon,
\* never meets a chain that is linked into itself (hashmap.c:173-175).
PlainCallsReturn == plain => broken # "loop"

\* "Get the value associated with the unique key. @return The associated value
\* if it exists, otherwise NULL" (hashmap.h:164-168): every lookup returns.
LookupsEnd == broken # "loop"
=============================================================================
