---------------------------- MODULE HashmapProofs ----------------------------
(***************************************************************************)
(* What libnica's hashmap promises, for every hash function, every table   *)
(* and every growth: its counts, where its entries are, what the iterator  *)
(* meets, and that it is a map for a program that uses it plainly.  The    *)
(* model counts and collects entries with recursive functions; what these  *)
(* compute is proved by induction over sets of numbers.                    *)
(***************************************************************************)
EXTENDS NcHashmap, SetInduction, FiniteSetTheorems

-----------------------------------------------------------------------------
CellSet == [key : Ptr, val : Value, occ : {TRUE}] \cup {EmptyCell}

ChainSet == {ch \in [cells : Seq(CellSet), loop : Nat] :
               Len(ch.cells) > 0 /\ ch.loop < Len(ch.cells)}

Tables(n) == [0 .. n - 1 -> ChainSet]

\* A cell is occupied exactly if it has a key; nc_hashmap_remove clears both.
LEMMA Cells ==
  ASSUME NEW c \in CellSet
  PROVE  /\ c.occ \in BOOLEAN
         /\ c.occ => c.key \in Ptr /\ c.val \in Value
         /\ c.occ <=> c.key # Null
         /\ ~c.occ => c = EmptyCell
  <1>1. CASE c \in [key : Ptr, val : Value, occ : {TRUE}]
    BY <1>1, TableAssumption
  <1>2. CASE c = EmptyCell
    BY <1>2 DEF EmptyCell
  <1> QED BY <1>1, <1>2 DEF CellSet

\* What insert_bucket writes into a cell.
LEMMA NewCell ==
  ASSUME NEW p \in Ptr, NEW v \in Value
  PROVE  /\ Cell(p, v) \in CellSet
         /\ Cell(p, v).occ /\ Cell(p, v).key = p /\ Cell(p, v).val = v
  BY DEF CellSet, Cell

\* A chain has a cell, and is linked back, if at all, behind its head.
LEMMA Chains ==
  ASSUME NEW ch \in ChainSet
  PROVE  /\ ch = [cells |-> ch.cells, loop |-> ch.loop]
         /\ ch.cells \in Seq(CellSet) /\ Len(ch.cells) \in Nat \ {0}
         /\ DOMAIN ch.cells = 1 .. Len(ch.cells)
         /\ \A j \in 1 .. Len(ch.cells) : ch.cells[j] \in CellSet
         /\ ch.loop \in 0 .. Len(ch.cells) - 1
  BY DEF ChainSet

LEMMA ChainMade ==
  ASSUME NEW cells \in Seq(CellSet), Len(cells) > 0, NEW l \in 0 .. Len(cells) - 1
  PROVE  [cells |-> cells, loop |-> l] \in ChainSet
  BY DEF ChainSet

\* calloc makes chains.
LEMMA EmptyIsChain == EmptyChain \in ChainSet /\ EmptyCell \in CellSet
  <1>1. EmptyCell \in CellSet
    BY DEF CellSet
  <1>2. <<EmptyCell>> \in Seq(CellSet) /\ Len(<<EmptyCell>>) = 1
    BY <1>1
  <1> QED BY <1>1, <1>2 DEF EmptyChain, ChainSet

LEMMA TableSize ==
  ASSUME NEW n \in Nat, NEW bs \in Tables(n)
  PROVE  NBuckets(bs) = n /\ DOMAIN bs = 0 .. n - 1
  BY FS_Interval DEF Tables, NBuckets

\* A hash selects a bucket of the array.
LEMMA SlotType ==
  ASSUME NEW n \in Nat \ {0}, NEW bs \in Tables(n), hashOf \in [Text -> 0 .. MaxHash],
         NEW t \in Text
  PROVE  Slot(bs, t) \in 0 .. n - 1 /\ Slot(bs, t) = hashOf[t] % n
  BY TableSize DEF Slot

-----------------------------------------------------------------------------
(* The recursive functions of the model satisfy their equations.           *)

\* The occupied cells of a chain, one cell more each time.
LEMMA OccupiedDef ==
  ASSUME NEW ch \in ChainSet
  PROVE  /\ OccupiedUpTo(ch) \in [0 .. Len(ch.cells) -> Seq(CellSet)]
         /\ OccupiedUpTo(ch)[0] = <<>>
         /\ \A j \in 1 .. Len(ch.cells) :
              OccupiedUpTo(ch)[j] =
                IF ch.cells[j].occ THEN Append(OccupiedUpTo(ch)[j - 1], ch.cells[j])
                                   ELSE OccupiedUpTo(ch)[j - 1]
  <1> DEFINE n == Len(ch.cells)
             V == Seq(CellSet)
             Step(j, s) == IF ch.cells[j].occ THEN Append(s, ch.cells[j]) ELSE s
             G == [p \in (1 .. n) \X V |-> Step(p[1], p[2])]
             Is(f) == f = [j \in 0 .. n |-> IF j = 0 THEN <<>> ELSE Step(j, f[j - 1])]
             f == OccupiedUpTo(ch)
             S == {j \in 0 .. n : f[j] \in V}
  <1>1. n \in Nat /\ <<>> \in V
    BY Chains
  <1>2. \A j \in 1 .. n, s \in V : Step(j, s) \in V
    BY Chains
  <1>3. f = CHOOSE g : Is(g)
    BY DEF OccupiedUpTo
  <1> HIDE DEF n, V, Step, f
  <1>4. G \in StepMaps(n, V) /\ \A j \in 1 .. n, s \in V : G[<<j, s>>] = Step(j, s)
    BY <1>2 DEF StepMaps
  <1>5. \E g : Is(g)
    <2> HIDE DEF G
    <2>1. PICK g : Follows(g, n, V, <<>>, G)
      BY <1>1, <1>4, Recursive
    <2>2. \A j \in 1 .. n : j - 1 \in 0 .. n
      BY <1>1
    <2>3. \A j \in 1 .. n : g[j] = Step(j, g[j - 1])
      BY <1>4, <2>1, <2>2 DEF Follows
    <2>4. Is(g)
      BY <1>1, <2>1, <2>3 DEF Follows
    <2> QED BY <2>4
  <1>6. Is(f)
    BY <1>3, <1>5
  <1>7. DOMAIN f = 0 .. n /\ f[0] = <<>> /\ \A j \in 1 .. n : f[j] = Step(j, f[j - 1])
    <2>1. DOMAIN f = 0 .. n /\ \A j \in 0 .. n : f[j] = IF j = 0 THEN <<>> ELSE Step(j, f[j - 1])
      BY <1>6, Zenon
    <2>2. 0 \in 0 .. n /\ \A j \in 1 .. n : j \in 0 .. n /\ j # 0
      BY <1>1
    <2> QED BY <2>1, <2>2, Zenon
  <1>8. 0 .. n \subseteq S
    <2>1. \A j \in 0 .. n : j \in S <=> f[j] \in V
      OBVIOUS
    <2> HIDE DEF S
    <2>2. 0 \in S
      BY <1>1, <1>7, <2>1
    <2>3. ASSUME NEW j \in 1 .. n, j - 1 \in S PROVE j \in S
      BY <1>1, <1>2, <1>7, <2>1, <2>3
    <2> QED BY <1>1, <2>2, <2>3, InductiveUpTo
  <1>9. f \in [0 .. n -> V]
    BY <1>6, <1>7, <1>8
  <1> QED BY <1>7, <1>9 DEF n, V, Step, f

-----------------------------------------------------------------------------
(* First and last of a set of positions.                                   *)

\* What SelectLastInSeq finds.
LEMMA Highest ==
  ASSUME NEW n \in Nat, NEW I, I \subseteq 0 .. n, I # {}
  PROVE  Max(I) \in I /\ \A j \in I : Max(I) >= j
  <1> DEFINE T == {k \in Nat : \E i \in I : k = n - i}
  <1>1. T \subseteq Nat /\ T # {}
    <2>1. PICK i \in I : i \in 0 .. n
      OBVIOUS
    <2>2. n - i \in T
      BY <2>1
    <2> QED BY <2>2
  <1>2. PICK k \in T : \A y \in T : k <= y
    <2> HIDE DEF T
    <2> QED BY <1>1, Least
  <1>3. PICK i \in I : k = n - i
    OBVIOUS
  <1>4. ASSUME NEW j \in I PROVE i >= j
    <2>1. n - j \in T /\ i \in Int /\ j \in Int
      BY <1>4
    <2>2. n - i <= n - j
      BY <1>2, <1>3, <2>1
    <2> QED BY <2>1, <2>2
  <1> QED BY <1>3, <1>4 DEF Max

-----------------------------------------------------------------------------
(* One chain.                                                              *)

\* The cell insert_bucket takes, if there is one, is not occupied.
LEMMA Tombs ==
  ASSUME NEW ch \in ChainSet
  PROVE  \/ LastTomb(ch) = 0 /\ \A j \in 1 .. Len(ch.cells) : ch.cells[j].occ
         \/ LastTomb(ch) \in 1 .. Len(ch.cells) /\ ~ch.cells[LastTomb(ch)].occ
  <1> DEFINE I == {j \in 1 .. Len(ch.cells) : ~ch.cells[j].occ}
  <1>1. LastTomb(ch) = IF I # {} THEN Max(I) ELSE 0
    BY DEF LastTomb, SelectLastInSeq
  <1>2. Len(ch.cells) \in Nat /\ I \subseteq 0 .. Len(ch.cells)
    BY Chains
  <1>3. I # {} => Max(I) \in I
    <2> HIDE DEF I
    <2> QED BY <1>2, Highest
  <1> QED BY <1>1, <1>3

\* The cell put replaces, if there is one, has the same key.
LEMMA SamePtrs ==
  ASSUME NEW ch \in ChainSet, NEW p
  PROVE  \/ SamePtr(ch, p) = 0 /\ \A j \in 1 .. Len(ch.cells) :
                                    ~(ch.cells[j].occ /\ ch.cells[j].key = p)
         \/ /\ SamePtr(ch, p) \in 1 .. Len(ch.cells)
            /\ ch.cells[SamePtr(ch, p)].occ /\ ch.cells[SamePtr(ch, p)].key = p
  <1> DEFINE I == {j \in 1 .. Len(ch.cells) : ch.cells[j].occ /\ ch.cells[j].key = p}
  <1>1. SamePtr(ch, p) = IF I # {} THEN Min(I) ELSE 0
    BY DEF SamePtr, SelectInSeq
  <1>2. I \subseteq Nat
    BY Chains
  <1>3. I # {} => Min(I) \in I
    <2> HIDE DEF I
    <2> QED BY <1>2, Lowest
  <1> QED BY <1>1, <1>3

\* A chain in which a cell that was not occupied, or a new one behind the last,
\* has been filled with c.
FilledAt(ch, new, at, c) ==
  /\ new.cells[at] = c
  /\ Len(new.cells) = IF at = Len(ch.cells) + 1 THEN at ELSE Len(ch.cells)
  /\ \A j \in 1 .. Len(ch.cells) : j # at => new.cells[j] = ch.cells[j]
  /\ IF at = Len(ch.cells) + 1 THEN \A j \in 1 .. Len(ch.cells) : ch.cells[j].occ
                               ELSE ~ch.cells[at].occ
  /\ at >= Len(ch.cells) => new.loop = ch.loop

\* insert_bucket fills one cell and leaves the others (hashmap.c:126-178).
LEMMA Linking ==
  ASSUME NEW ch \in ChainSet, NEW p \in Ptr, NEW v \in Value
  PROVE  /\ Linked(ch, p, v) \in ChainSet
         /\ \E at \in 1 .. Len(ch.cells) + 1 :
              FilledAt(ch, Linked(ch, p, v), at, Cell(p, v))
  <1> DEFINE n    == Len(ch.cells)
             tomb == LastTomb(ch)
             new  == Linked(ch, p, v)
  <1>1. n \in Nat \ {0} /\ ch.cells \in Seq(CellSet) /\ ch.loop \in 0 .. n - 1
        /\ DOMAIN ch.cells = 1 .. n
    BY Chains
  <1>2. Cell(p, v) \in CellSet
    BY NewCell
  <1>3. CASE tomb = 0
    <2> DEFINE cells == Append(ch.cells, Cell(p, v))
    <2>1. new = [cells |-> cells, loop |-> ch.loop]
      BY <1>3 DEF Linked
    <2>2. /\ cells \in Seq(CellSet) /\ Len(cells) = n + 1 /\ cells[n + 1] = Cell(p, v)
          /\ \A j \in 1 .. n : cells[j] = ch.cells[j]
      BY <1>1, <1>2
    <2> HIDE DEF cells
    <2>3. new \in ChainSet
      BY <1>1, <2>1, <2>2, ChainMade
    <2>4. \A j \in 1 .. n : ch.cells[j].occ
      BY <1>3, Tombs
    <2>5. FilledAt(ch, new, n + 1, Cell(p, v))
      BY <1>1, <2>1, <2>2, <2>4 DEF FilledAt
    <2> QED BY <1>1, <2>3, <2>5
  <1>4. CASE tomb # 0
    <2> DEFINE cells == [ch.cells EXCEPT ![tomb] = Cell(p, v)]
               loop  == IF tomb = n THEN ch.loop ELSE tomb
    <2>1. new = [cells |-> cells, loop |-> loop]
      BY <1>4 DEF Linked
    <2>2. tomb \in 1 .. n /\ ~ch.cells[tomb].occ
      BY <1>4, Tombs
    <2>3. /\ cells \in Seq(CellSet) /\ Len(cells) = n /\ cells[tomb] = Cell(p, v)
          /\ \A j \in 1 .. n : j # tomb => cells[j] = ch.cells[j]
      BY <1>1, <1>2, <2>2
    <2>4. loop \in 0 .. n - 1 /\ (tomb >= n => loop = ch.loop)
      BY <1>1, <2>2
    <2> HIDE DEF cells, loop
    <2>5. new \in ChainSet
      BY <1>1, <2>1, <2>3, <2>4, ChainMade
    <2>6. FilledAt(ch, new, tomb, Cell(p, v))
      BY <1>1, <2>1, <2>2, <2>3, <2>4 DEF FilledAt
    <2> QED BY <1>1, <2>2, <2>5, <2>6
  <1> QED BY <1>3, <1>4

-----------------------------------------------------------------------------
(* The table.                                                              *)

\* What is in the table, and at which positions.
CellsOf(bs) ==
  {c \in CellSet : c.occ /\ \E i \in DOMAIN bs : \E j \in DOMAIN bs[i].cells :
                              c = bs[i].cells[j]}

Filled(n, bs) ==
  {q \in (0 .. n - 1) \X Nat :
     q[2] \in 1 .. Len(bs[q[1]].cells) /\ bs[q[1]].cells[q[2]].occ}

\* Every entry is in the bucket its hash selects.
Placed(bs) ==
  \A i \in DOMAIN bs : \A j \in 1 .. Len(bs[i].cells) :
    bs[i].cells[j].occ => Slot(bs, TextOf[bs[i].cells[j].key]) = i

\* A table as the daemon makes it: nothing was removed from a chain.
Shaped(bs) ==
  \A i \in DOMAIN bs :
    /\ bs[i].loop = 0
    /\ Len(bs[i].cells) = 1 \/ \A j \in 1 .. Len(bs[i].cells) : bs[i].cells[j].occ

HashType == hashOf \in [Text -> 0 .. MaxHash]

\* The table new is bs, but for a cell filled with c.
FilledIn(n, bs, new, i, at, c) ==
  /\ i \in 0 .. n - 1 /\ at \in 1 .. Len(bs[i].cells) + 1
  /\ new \in Tables(n)
  /\ \A k \in 0 .. n - 1 : k # i => new[k] = bs[k]
  /\ FilledAt(bs[i], new[i], at, c)

\* The same for the bucket a key belongs to.
LEMMA Inserting ==
  ASSUME NEW n \in Nat \ {0}, NEW bs \in Tables(n), HashType,
         NEW p \in Ptr, NEW v \in Value
  PROVE  \E at : FilledIn(n, bs, Inserted(bs, p, v), Slot(bs, TextOf[p]), at, Cell(p, v))
  <1> DEFINE i  == Slot(bs, TextOf[p])
             ch == bs[i]
             l  == Linked(ch, p, v)
  <1>1. i \in 0 .. n - 1
    BY SlotType, TableAssumption DEF HashType
  <1>2. ch \in ChainSet
    BY <1>1 DEF Tables
  <1>3. l \in ChainSet /\ \E at \in 1 .. Len(ch.cells) + 1 : FilledAt(ch, l, at, Cell(p, v))
    BY <1>2, Linking
  <1>4. Inserted(bs, p, v) = [bs EXCEPT ![i] = l]
    BY DEF Inserted, Chain
  <1> HIDE DEF i, l
  <1>5. [bs EXCEPT ![i] = l] \in Tables(n)
    BY <1>1, <1>3 DEF Tables
  <1>6. [bs EXCEPT ![i] = l][i] = l /\ \A k \in 0 .. n - 1 : k # i => [bs EXCEPT ![i] = l][k] = bs[k]
    BY <1>1 DEF Tables
  <1> QED BY <1>1, <1>3, <1>4, <1>5, <1>6 DEF FilledIn, i

\* What filling one cell means for the rest of the table.
LEMMA FilledFacts ==
  ASSUME NEW n \in Nat, NEW bs \in Tables(n), NEW new, NEW i, NEW at, NEW c,
         FilledIn(n, bs, new, i, at, c)
  PROVE  /\ i \in 0 .. n - 1 /\ at \in Nat
         /\ at \in 1 .. Len(new[i].cells) /\ new[i].cells[at] = c
         /\ Len(bs[i].cells) \in Nat \ {0}
         /\ \A j : j \in 1 .. Len(new[i].cells) <=> j = at \/ j \in 1 .. Len(bs[i].cells)
         /\ \A j \in 1 .. Len(bs[i].cells) : j # at => new[i].cells[j] = bs[i].cells[j]
         /\ at \in 1 .. Len(bs[i].cells) => ~bs[i].cells[at].occ
         /\ at \in 1 .. Len(bs[i].cells) => Len(new[i].cells) = Len(bs[i].cells)
         /\ at >= Len(bs[i].cells) => new[i].loop = bs[i].loop
         /\ \A k \in 0 .. n - 1 : k # i => new[k] = bs[k]
         /\ DOMAIN bs = 0 .. n - 1 /\ DOMAIN new = 0 .. n - 1
         /\ \A k \in 0 .. n - 1 : DOMAIN bs[k].cells = 1 .. Len(bs[k].cells)
                                /\ DOMAIN new[k].cells = 1 .. Len(new[k].cells)
         /\ \A t : Slot(new, t) = Slot(bs, t)
  <1>1. i \in 0 .. n - 1 /\ bs[i] \in ChainSet /\ new[i] \in ChainSet
    BY DEF FilledIn, Tables
  <1>2. Len(bs[i].cells) \in Nat \ {0}
    BY <1>1, Chains
  <1>3. /\ DOMAIN bs = 0 .. n - 1 /\ DOMAIN new = 0 .. n - 1
        /\ \A t : Slot(new, t) = Slot(bs, t)
    BY TableSize DEF FilledIn, Slot
  <1>4. \A k \in 0 .. n - 1 : DOMAIN bs[k].cells = 1 .. Len(bs[k].cells)
                             /\ DOMAIN new[k].cells = 1 .. Len(new[k].cells)
    <2>1. \A k \in 0 .. n - 1 : bs[k] \in ChainSet /\ new[k] \in ChainSet
      BY DEF FilledIn, Tables
    <2> QED BY <2>1, Chains
  <1> QED BY <1>1, <1>2, <1>3, <1>4 DEF FilledIn, FilledAt

LEMMA InFilled ==
  ASSUME NEW n \in Nat, NEW bs
  PROVE  /\ Filled(n, bs) \subseteq (0 .. n - 1) \X Nat
         /\ \A k \in 0 .. n - 1, j \in Nat :
              <<k, j>> \in Filled(n, bs) <=>
                j \in 1 .. Len(bs[k].cells) /\ bs[k].cells[j].occ
  BY DEF Filled

\* Filling a cell adds one position,
LEMMA InsertFilled ==
  ASSUME NEW n \in Nat, NEW bs \in Tables(n), NEW new, NEW i, NEW at, NEW c \in CellSet, c.occ,
         FilledIn(n, bs, new, i, at, c)
  PROVE  <<i, at>> \notin Filled(n, bs) /\ Filled(n, new) = Filled(n, bs) \cup {<<i, at>>}
  <1>1. /\ i \in 0 .. n - 1 /\ at \in Nat
        /\ at \in 1 .. Len(new[i].cells) /\ new[i].cells[at] = c
        /\ \A j : j \in 1 .. Len(new[i].cells) <=> j = at \/ j \in 1 .. Len(bs[i].cells)
        /\ \A j \in 1 .. Len(bs[i].cells) : j # at => new[i].cells[j] = bs[i].cells[j]
        /\ at \in 1 .. Len(bs[i].cells) => ~bs[i].cells[at].occ
        /\ \A k \in 0 .. n - 1 : k # i => new[k] = bs[k]
    BY FilledFacts
  <1>2. ASSUME NEW k \in 0 .. n - 1, NEW j \in Nat
        PROVE <<k, j>> \in Filled(n, new) <=> <<k, j>> \in Filled(n, bs) \/ (k = i /\ j = at)
    <2>1. <<k, j>> \in Filled(n, new) <=>
            j \in 1 .. Len(new[k].cells) /\ new[k].cells[j].occ
      BY InFilled
    <2>2. <<k, j>> \in Filled(n, bs) <=> j \in 1 .. Len(bs[k].cells) /\ bs[k].cells[j].occ
      BY InFilled
    <2> HIDE DEF Filled
    <2>3. CASE k # i
      <3>1. new[k] = bs[k]
        BY <1>1, <2>3
      <3> QED BY <2>1, <2>2, <2>3, <3>1
    <2>4. CASE k = i /\ j # at
      BY <1>1, <2>1, <2>2, <2>4
    <2>5. CASE k = i /\ j = at
      BY <1>1, <2>1, <2>5
    <2> QED BY <2>3, <2>4, <2>5
  <1>3. <<i, at>> \notin Filled(n, bs)
    BY <1>1, InFilled
  <1>4. Filled(n, new) \subseteq (0 .. n - 1) \X Nat /\ Filled(n, bs) \subseteq (0 .. n - 1) \X Nat
    BY InFilled
  <1> QED BY <1>1, <1>2, <1>3, <1>4

LEMMA InCells ==
  ASSUME NEW n \in Nat, NEW bs \in Tables(n), NEW c
  PROVE  c \in CellsOf(bs) <=>
           /\ c \in CellSet /\ c.occ
           /\ \E k \in 0 .. n - 1, j \in Nat : j \in 1 .. Len(bs[k].cells) /\ c = bs[k].cells[j]
  <1>1. DOMAIN bs = 0 .. n - 1
    BY TableSize
  <1>2. \A k \in 0 .. n - 1 : DOMAIN bs[k].cells = 1 .. Len(bs[k].cells)
                              /\ DOMAIN bs[k].cells \subseteq Nat
    BY Chains DEF Tables
  <1> QED BY <1>1, <1>2 DEF CellsOf

\* adds one entry,
LEMMA InsertCells ==
  ASSUME NEW n \in Nat, NEW bs \in Tables(n), NEW new, NEW i, NEW at,
         NEW c \in CellSet, c.occ, FilledIn(n, bs, new, i, at, c)
  PROVE  CellsOf(new) = CellsOf(bs) \cup {c}
  <1>1. /\ i \in 0 .. n - 1 /\ at \in Nat
        /\ at \in 1 .. Len(new[i].cells) /\ new[i].cells[at] = c
        /\ \A j : j \in 1 .. Len(new[i].cells) <=> j = at \/ j \in 1 .. Len(bs[i].cells)
        /\ \A j \in 1 .. Len(bs[i].cells) : j # at => new[i].cells[j] = bs[i].cells[j]
        /\ at \in 1 .. Len(bs[i].cells) => ~bs[i].cells[at].occ
        /\ \A k \in 0 .. n - 1 : k # i => new[k] = bs[k]
    BY FilledFacts
  <1>2. new \in Tables(n)
    BY DEF FilledIn
  <1>3. ASSUME NEW d \in CellsOf(new) PROVE d \in CellsOf(bs) \cup {c}
    <2>1. PICK k \in 0 .. n - 1, j \in Nat : j \in 1 .. Len(new[k].cells) /\ d = new[k].cells[j]
      BY <1>2, InCells
    <2>2. d \in CellSet /\ d.occ
      BY DEF CellsOf
    <2>3. d = c \/ (j \in 1 .. Len(bs[k].cells) /\ d = bs[k].cells[j])
      BY <1>1, <2>1
    <2> QED BY <2>1, <2>2, <2>3, InCells
  <1>4. ASSUME NEW d \in CellsOf(bs) PROVE d \in CellsOf(new)
    <2>1. PICK k \in 0 .. n - 1, j \in Nat : j \in 1 .. Len(bs[k].cells) /\ d = bs[k].cells[j]
      BY InCells
    <2>2. d \in CellSet /\ d.occ
      BY DEF CellsOf
    <2>3. j \in 1 .. Len(new[k].cells) /\ d = new[k].cells[j]
      BY <1>1, <2>1, <2>2
    <2> QED BY <1>2, <2>2, <2>3, InCells
  <1>5. c \in CellsOf(new)
    BY <1>1, <1>2, InCells
  <1> QED BY <1>3, <1>4, <1>5

\* keeps every entry in the bucket of its hash,
LEMMA InsertPlaced ==
  ASSUME NEW n \in Nat, NEW bs \in Tables(n), NEW new, NEW i, NEW at, NEW c,
         FilledIn(n, bs, new, i, at, c), Placed(bs), Slot(bs, TextOf[c.key]) = i
  PROVE  Placed(new)
  <1>1. /\ i \in 0 .. n - 1
        /\ new[i].cells[at] = c
        /\ \A j : j \in 1 .. Len(new[i].cells) <=> j = at \/ j \in 1 .. Len(bs[i].cells)
        /\ \A j \in 1 .. Len(bs[i].cells) : j # at => new[i].cells[j] = bs[i].cells[j]
        /\ \A k \in 0 .. n - 1 : k # i => new[k] = bs[k]
        /\ DOMAIN bs = 0 .. n - 1 /\ DOMAIN new = 0 .. n - 1
        /\ \A t : Slot(new, t) = Slot(bs, t)
    BY FilledFacts
  <1>2. ASSUME NEW k \in 0 .. n - 1, NEW j \in 1 .. Len(new[k].cells), new[k].cells[j].occ
        PROVE Slot(new, TextOf[new[k].cells[j].key]) = k
    <2>1. \/ k = i /\ new[k].cells[j] = c
          \/ j \in 1 .. Len(bs[k].cells) /\ new[k].cells[j] = bs[k].cells[j]
      BY <1>1
    <2> QED BY <1>1, <1>2, <2>1 DEF Placed
  <1> QED BY <1>1, <1>2 DEF Placed

\* and, where nothing was ever removed, links no chain into itself: the cell that
\* is filled is then the last one or a new one.
LEMMA InsertShaped ==
  ASSUME NEW n \in Nat, NEW bs \in Tables(n), NEW new, NEW i, NEW at, NEW c, c.occ,
         FilledIn(n, bs, new, i, at, c), Shaped(bs)
  PROVE  Shaped(new)
  <1>1. /\ i \in 0 .. n - 1 /\ at \in Nat
        /\ new[i].cells[at] = c
        /\ Len(bs[i].cells) \in Nat \ {0}
        /\ \A j : j \in 1 .. Len(new[i].cells) <=> j = at \/ j \in 1 .. Len(bs[i].cells)
        /\ \A j \in 1 .. Len(bs[i].cells) : j # at => new[i].cells[j] = bs[i].cells[j]
        /\ at \in 1 .. Len(bs[i].cells) => ~bs[i].cells[at].occ
        /\ at \in 1 .. Len(bs[i].cells) => Len(new[i].cells) = Len(bs[i].cells)
        /\ at >= Len(bs[i].cells) => new[i].loop = bs[i].loop
        /\ \A k \in 0 .. n - 1 : k # i => new[k] = bs[k]
        /\ DOMAIN bs = 0 .. n - 1 /\ DOMAIN new = 0 .. n - 1
    BY FilledFacts
  <1>2. /\ bs[i].loop = 0
        /\ Len(bs[i].cells) = 1 \/ \A j \in 1 .. Len(bs[i].cells) : bs[i].cells[j].occ
    BY <1>1 DEF Shaped
  <1>3. at >= Len(bs[i].cells)
    BY <1>1, <1>2 DEF FilledIn
  <1>4. new[i].loop = 0
    BY <1>1, <1>2, <1>3
  <1>5. Len(new[i].cells) = 1 \/ \A j \in 1 .. Len(new[i].cells) : new[i].cells[j].occ
    <2>1. CASE at \in 1 .. Len(bs[i].cells)
      BY <1>1, <1>2, <2>1
    <2>2. CASE at \notin 1 .. Len(bs[i].cells)
      <3>1. \A j \in 1 .. Len(bs[i].cells) : bs[i].cells[j].occ
        BY <1>1, <2>2 DEF FilledIn, FilledAt
      <3> QED BY <1>1, <2>2, <3>1
    <2> QED BY <2>1, <2>2
  <1> QED BY <1>1, <1>2, <1>4, <1>5 DEF Shaped
-----------------------------------------------------------------------------
(* The entries.                                                            *)

LEMMA Appended ==
  ASSUME NEW A, NEW s \in Seq(A), NEW c \in A
  PROVE  /\ Append(s, c) \in Seq(A) /\ Len(Append(s, c)) = Len(s) + 1
         /\ ToSet(Append(s, c)) = ToSet(s) \cup {c}
  <1>1. /\ Append(s, c) \in Seq(A) /\ Len(Append(s, c)) = Len(s) + 1
        /\ Append(s, c)[Len(s) + 1] = c /\ Len(s) \in Nat
        /\ \A i \in 1 .. Len(s) : Append(s, c)[i] = s[i]
    OBVIOUS
  <1>2. ASSUME NEW x \in ToSet(Append(s, c)) PROVE x \in ToSet(s) \cup {c}
    <2>1. PICK i \in 1 .. Len(s) + 1 : x = Append(s, c)[i]
      BY <1>1 DEF ToSet
    <2> QED BY <1>1, <2>1 DEF ToSet
  <1>3. ASSUME NEW x \in ToSet(s) PROVE x \in ToSet(Append(s, c))
    <2>1. PICK i \in 1 .. Len(s) : x = s[i]
      BY DEF ToSet
    <2>2. i \in 1 .. Len(Append(s, c)) /\ x = Append(s, c)[i]
      BY <1>1, <2>1
    <2> QED BY <1>1, <2>2 DEF ToSet
  <1>4. c \in ToSet(Append(s, c))
    <2>1. Len(s) + 1 \in 1 .. Len(Append(s, c))
      BY <1>1
    <2> QED BY <1>1, <2>1 DEF ToSet
  <1> QED BY <1>1, <1>2, <1>3, <1>4

LEMMA Joined ==
  ASSUME NEW A, NEW s \in Seq(A), NEW t \in Seq(A)
  PROVE  /\ s \o t \in Seq(A) /\ Len(s \o t) = Len(s) + Len(t)
         /\ ToSet(s \o t) = ToSet(s) \cup ToSet(t)
  <1>1. s \o t \in Seq(A) /\ Len(s \o t) = Len(s) + Len(t)
    OBVIOUS
  <1>2. ASSUME NEW x \in ToSet(s \o t) PROVE x \in ToSet(s) \cup ToSet(t)
    <2>1. PICK i \in 1 .. Len(s) + Len(t) : x = (s \o t)[i]
      BY <1>1 DEF ToSet
    <2>2. CASE i <= Len(s)
      BY <2>1, <2>2 DEF ToSet
    <2>3. CASE i > Len(s)
      <3>1. i - Len(s) \in 1 .. Len(t) /\ x = t[i - Len(s)]
        BY <2>1, <2>3
      <3> QED BY <3>1 DEF ToSet
    <2> QED BY <2>1, <2>2, <2>3
  <1>3. ASSUME NEW x \in ToSet(s) PROVE x \in ToSet(s \o t)
    <2>1. PICK i \in 1 .. Len(s) : x = s[i]
      BY DEF ToSet
    <2>2. i \in 1 .. Len(s \o t) /\ x = (s \o t)[i]
      BY <1>1, <2>1
    <2> QED BY <1>1, <2>2 DEF ToSet
  <1>4. ASSUME NEW x \in ToSet(t) PROVE x \in ToSet(s \o t)
    <2>1. PICK i \in 1 .. Len(t) : x = t[i]
      BY DEF ToSet
    <2>2. i + Len(s) \in 1 .. Len(s \o t) /\ x = (s \o t)[i + Len(s)]
      BY <1>1, <2>1
    <2> QED BY <1>1, <2>2 DEF ToSet
  <1> QED BY <1>1, <1>2, <1>3, <1>4

\* The entries, one bucket more each time.
LEMMA EntriesDef ==
  ASSUME NEW n \in Nat, NEW bs \in Tables(n)
  PROVE  /\ EntriesUpTo(bs) \in [0 .. n -> Seq(CellSet)]
         /\ EntriesUpTo(bs)[0] = <<>>
         /\ \A i \in 1 .. n :
              EntriesUpTo(bs)[i] =
                EntriesUpTo(bs)[i - 1] \o OccupiedUpTo(bs[i - 1])[Len(bs[i - 1].cells)]
  <1> DEFINE V == Seq(CellSet)
             Step(i, s) == s \o OccupiedUpTo(bs[i - 1])[Len(bs[i - 1].cells)]
             G == [p \in (1 .. n) \X V |-> Step(p[1], p[2])]
             Is(f) == f = [i \in 0 .. n |-> IF i = 0 THEN <<>> ELSE Step(i, f[i - 1])]
             f == EntriesUpTo(bs)
             S == {i \in 0 .. n : f[i] \in V}
  <1>1. <<>> \in V
    OBVIOUS
  <1>2. ASSUME NEW i \in 1 .. n, NEW s \in V PROVE Step(i, s) \in V
    <2>1. bs[i - 1] \in ChainSet
      BY DEF Tables
    <2>2. OccupiedUpTo(bs[i - 1]) \in [0 .. Len(bs[i - 1].cells) -> V]
      BY <2>1, OccupiedDef
    <2>3. Len(bs[i - 1].cells) \in 0 .. Len(bs[i - 1].cells)
      BY <2>1, Chains
    <2> HIDE DEF V
    <2>4. OccupiedUpTo(bs[i - 1])[Len(bs[i - 1].cells)] \in V
      BY <2>2, <2>3
    <2> QED BY <2>4 DEF V
  <1>3. f = CHOOSE g : Is(g)
    BY TableSize DEF EntriesUpTo
  <1> HIDE DEF V, Step, f
  <1>4. G \in StepMaps(n, V) /\ \A i \in 1 .. n, s \in V : G[<<i, s>>] = Step(i, s)
    BY <1>2 DEF StepMaps
  <1>5. \E g : Is(g)
    <2> HIDE DEF G
    <2>1. PICK g : Follows(g, n, V, <<>>, G)
      BY <1>1, <1>4, Recursive
    <2>2. \A i \in 1 .. n : i - 1 \in 0 .. n
      OBVIOUS
    <2>3. \A i \in 1 .. n : g[i] = Step(i, g[i - 1])
      BY <1>4, <2>1, <2>2 DEF Follows
    <2>4. g = [i \in 0 .. n |-> g[i]] /\ g[0] = <<>>
      BY <2>1 DEF Follows
    <2>5. \A i \in 0 .. n : g[i] = IF i = 0 THEN <<>> ELSE Step(i, g[i - 1])
      <3>1. \A i \in 0 .. n : i = 0 \/ i \in 1 .. n
        OBVIOUS
      <3> QED BY <2>3, <2>4, <3>1
    <2>6. Is(g)
      BY <2>4, <2>5, Zenon
    <2> QED BY <2>6
  <1>6. Is(f)
    BY <1>3, <1>5
  <1>7. DOMAIN f = 0 .. n /\ f[0] = <<>> /\ \A i \in 1 .. n : f[i] = Step(i, f[i - 1])
    <2>1. DOMAIN f = 0 .. n /\ \A i \in 0 .. n : f[i] = IF i = 0 THEN <<>> ELSE Step(i, f[i - 1])
      BY <1>6, Zenon
    <2>2. 0 \in 0 .. n /\ \A i \in 1 .. n : i \in 0 .. n /\ i # 0
      OBVIOUS
    <2> QED BY <2>1, <2>2, Zenon
  <1>8. 0 .. n \subseteq S
    <2>1. \A i \in 0 .. n : i \in S <=> f[i] \in V
      OBVIOUS
    <2> HIDE DEF S
    <2>2. 0 \in S
      BY <1>1, <1>7, <2>1
    <2>3. ASSUME NEW i \in 1 .. n, i - 1 \in S PROVE i \in S
      BY <1>1, <1>2, <1>7, <2>1, <2>3
    <2> QED BY <2>2, <2>3, InductiveUpTo
  <1>9. f \in [0 .. n -> V]
    BY <1>6, <1>7, <1>8
  <1> QED BY <1>7, <1>9 DEF V, Step, f

\* The entries can be put into a table.
EntrySeqs == {es \in Seq(CellSet) : \A k \in 1 .. Len(es) : es[k].occ}

\* The new array, one entry more each time.
LEMMA MovedDef ==
  ASSUME NEW n \in Nat \ {0}, NEW bs \in Tables(n), HashType, NEW es \in EntrySeqs
  PROVE  /\ Moved(es, bs) \in [0 .. Len(es) -> Tables(n)]
         /\ Moved(es, bs)[0] = bs
         /\ \A k \in 1 .. Len(es) :
              Moved(es, bs)[k] = Inserted(Moved(es, bs)[k - 1], es[k].key, es[k].val)
  <1> DEFINE l == Len(es)
             V == Tables(n)
             Step(k, b) == Inserted(b, es[k].key, es[k].val)
             G == [p \in (1 .. l) \X V |-> Step(p[1], p[2])]
             Is(f) == f = [k \in 0 .. l |-> IF k = 0 THEN bs ELSE Step(k, f[k - 1])]
             f == Moved(es, bs)
             S == {k \in 0 .. l : f[k] \in V}
  <1>1. bs \in V /\ l \in Nat
    BY DEF EntrySeqs
  <1>2. ASSUME NEW k \in 1 .. l, NEW b \in V PROVE Step(k, b) \in V
    <2>1. es[k] \in CellSet /\ es[k].occ
      BY DEF EntrySeqs
    <2>2. es[k].key \in Ptr /\ es[k].val \in Value
      BY <2>1, Cells
    <2> QED BY <2>2, Inserting DEF FilledIn
  <1>3. f = CHOOSE g : Is(g)
    BY DEF Moved
  <1> HIDE DEF V, Step, f, l
  <1>4. G \in StepMaps(l, V) /\ \A k \in 1 .. l, b \in V : G[<<k, b>>] = Step(k, b)
    BY <1>2 DEF StepMaps
  <1>5. \E g : Is(g)
    <2> HIDE DEF G
    <2>1. PICK g : Follows(g, l, V, bs, G)
      BY <1>1, <1>4, Recursive
    <2>2. \A k \in 1 .. l : k - 1 \in 0 .. l
      BY <1>1
    <2>3. \A k \in 1 .. l : g[k] = Step(k, g[k - 1])
      BY <1>4, <2>1, <2>2 DEF Follows
    <2>4. Is(g)
      BY <1>1, <2>1, <2>3 DEF Follows
    <2> QED BY <2>4
  <1>6. Is(f)
    BY <1>3, <1>5
  <1>7. DOMAIN f = 0 .. l /\ f[0] = bs /\ \A k \in 1 .. l : f[k] = Step(k, f[k - 1])
    <2>1. DOMAIN f = 0 .. l /\ \A k \in 0 .. l : f[k] = IF k = 0 THEN bs ELSE Step(k, f[k - 1])
      BY <1>6, Zenon
    <2>2. 0 \in 0 .. l /\ \A k \in 1 .. l : k \in 0 .. l /\ k # 0
      BY <1>1
    <2> QED BY <2>1, <2>2, Zenon
  <1>8. 0 .. l \subseteq S
    <2>1. \A k \in 0 .. l : k \in S <=> f[k] \in V
      OBVIOUS
    <2> HIDE DEF S
    <2>2. 0 \in S
      BY <1>1, <1>7, <2>1
    <2>3. ASSUME NEW k \in 1 .. l, k - 1 \in S PROVE k \in S
      BY <1>1, <1>2, <1>7, <2>1, <2>3
    <2> QED BY <1>1, <2>2, <2>3, InductiveUpTo
  <1>9. f \in [0 .. l -> V]
    BY <1>6, <1>7, <1>8
  <1> QED BY <1>7, <1>9 DEF V, Step, f, l

\* The filled positions before bucket i, and up to cell j of it.
Before(n, bs, i, j) == {q \in Filled(n, bs) : q[1] < i \/ (q[1] = i /\ q[2] <= j)}

At(bs, Q) == {bs[q[1]].cells[q[2]] : q \in Q}

\* One position at a time through the table.
LEMMA BeforeNext ==
  ASSUME NEW n \in Nat, NEW bs \in Tables(n), NEW i \in 0 .. n - 1
  PROVE  /\ Before(n, bs, 0, 0) = {}
         /\ \A j \in 1 .. Len(bs[i].cells) :
              /\ <<i, j>> \notin Before(n, bs, i, j - 1)
              /\ Before(n, bs, i, j) = Before(n, bs, i, j - 1) \cup
                   (IF bs[i].cells[j].occ THEN {<<i, j>>} ELSE {})
         /\ Before(n, bs, i + 1, 0) = Before(n, bs, i, Len(bs[i].cells))
  <1>1. Len(bs[i].cells) \in Nat
    BY Chains DEF Tables
  <1>2. Before(n, bs, 0, 0) = {}
    BY DEF Before, Filled
  <1>3. ASSUME NEW j \in 1 .. Len(bs[i].cells)
        PROVE  /\ <<i, j>> \notin Before(n, bs, i, j - 1)
               /\ Before(n, bs, i, j) = Before(n, bs, i, j - 1) \cup
                    (IF bs[i].cells[j].occ THEN {<<i, j>>} ELSE {})
    <2>1. <<i, j>> \notin Before(n, bs, i, j - 1)
      BY DEF Before
    <2>2. ASSUME NEW q \in Filled(n, bs)
          PROVE  q \in Before(n, bs, i, j) <=> q \in Before(n, bs, i, j - 1) \/ q = <<i, j>>
      <3>1. q \in (0 .. n - 1) \X Nat
        BY InFilled
      <3>2. q = <<q[1], q[2]>> /\ q[1] \in Nat /\ q[2] \in Nat
        BY <3>1
      <3>3. q[2] <= j <=> q[2] <= j - 1 \/ q[2] = j
        BY <3>2
      <3> QED BY <3>2, <3>3 DEF Before
    <2>3. bs[i].cells[j].occ <=> <<i, j>> \in Filled(n, bs)
      BY <1>1, InFilled
    <2>4. Before(n, bs, i, j) \subseteq Filled(n, bs) /\ Before(n, bs, i, j - 1) \subseteq Filled(n, bs)
      BY DEF Before
    <2> QED BY <2>1, <2>2, <2>3, <2>4
  <1>4. Before(n, bs, i + 1, 0) = Before(n, bs, i, Len(bs[i].cells))
    <2>1. ASSUME NEW q \in Filled(n, bs)
          PROVE  q \in Before(n, bs, i + 1, 0) <=> q \in Before(n, bs, i, Len(bs[i].cells))
      <3>1. q[1] \in 0 .. n - 1 /\ q[2] \in 1 .. Len(bs[q[1]].cells)
        BY DEF Filled
      <3> QED BY <1>1, <3>1 DEF Before
    <2> QED BY <2>1 DEF Before
  <1> QED BY <1>2, <1>3, <1>4

\* The entries so far are those of the positions so far.
Counted(bs, s, Q) ==
  /\ s \in Seq(CellSet) /\ IsFiniteSet(Q) /\ Len(s) = Cardinality(Q)
  /\ ToSet(s) = At(bs, Q)

LEMMA CountedNext ==
  ASSUME NEW bs, NEW s, NEW Q, Counted(bs, s, Q),
         NEW i, NEW j, <<i, j>> \notin Q, bs[i].cells[j] \in CellSet
  PROVE  Counted(bs, Append(s, bs[i].cells[j]), Q \cup {<<i, j>>})
  <1>1. /\ Append(s, bs[i].cells[j]) \in Seq(CellSet)
        /\ Len(Append(s, bs[i].cells[j])) = Len(s) + 1
        /\ ToSet(Append(s, bs[i].cells[j])) = ToSet(s) \cup {bs[i].cells[j]}
    BY Appended DEF Counted
  <1>2. IsFiniteSet(Q \cup {<<i, j>>}) /\ Cardinality(Q \cup {<<i, j>>}) = Cardinality(Q) + 1
    BY FS_AddElement DEF Counted
  <1>3. At(bs, Q \cup {<<i, j>>}) = At(bs, Q) \cup {bs[i].cells[j]}
    BY DEF At
  <1> QED BY <1>1, <1>2, <1>3 DEF Counted

\* The occupied cells of one more bucket.
LEMMA CountBucket ==
  ASSUME NEW n \in Nat, NEW bs \in Tables(n), NEW i \in 0 .. n - 1,
         NEW s, Counted(bs, s, Before(n, bs, i, 0))
  PROVE  Counted(bs, s \o OccupiedUpTo(bs[i])[Len(bs[i].cells)], Before(n, bs, i + 1, 0))
  <1> DEFINE l == Len(bs[i].cells)
             O == OccupiedUpTo(bs[i])
             S == {j \in 0 .. l : Counted(bs, s \o O[j], Before(n, bs, i, j))}
  <1>1. bs[i] \in ChainSet
    BY DEF Tables
  <1>2. /\ l \in Nat /\ \A j \in 1 .. l : bs[i].cells[j] \in CellSet
        /\ O \in [0 .. l -> Seq(CellSet)] /\ O[0] = <<>>
        /\ \A j \in 1 .. l :
             O[j] = IF bs[i].cells[j].occ THEN Append(O[j - 1], bs[i].cells[j]) ELSE O[j - 1]
    BY <1>1, Chains, OccupiedDef
  <1>3. s \in Seq(CellSet)
    BY DEF Counted
  <1> HIDE DEF l, O
  <1>4. \A j \in 0 .. l : j \in S <=> Counted(bs, s \o O[j], Before(n, bs, i, j))
    OBVIOUS
  <1> HIDE DEF S
  <1>5. 0 \in S
    <2>1. s \o O[0] = s /\ 0 \in 0 .. l
      BY <1>2, <1>3
    <2>2. Counted(bs, s \o O[0], Before(n, bs, i, 0))
      BY <2>1
    <2> QED BY <1>4, <2>1, <2>2, Zenon
  <1>6. ASSUME NEW j \in 1 .. l, j - 1 \in S PROVE j \in S
    <2> DEFINE c == bs[i].cells[j]
    <2>1. j \in 0 .. l /\ j - 1 \in 0 .. l /\ O[j - 1] \in Seq(CellSet) /\ c \in CellSet
      BY <1>2
    <2>2. Counted(bs, s \o O[j - 1], Before(n, bs, i, j - 1))
      BY <1>4, <1>6, <2>1
    <2>3. /\ <<i, j>> \notin Before(n, bs, i, j - 1)
          /\ Before(n, bs, i, j) = Before(n, bs, i, j - 1) \cup
               (IF c.occ THEN {<<i, j>>} ELSE {})
      BY BeforeNext DEF l
    <2>4. CASE c.occ
      <3>1. O[j] = Append(O[j - 1], c)
        BY <1>2, <2>4
      <3>2. s \o O[j] = Append(s \o O[j - 1], c)
        <4> HIDE DEF c
        <4> QED BY <1>3, <2>1, <3>1
      <3>3. Before(n, bs, i, j) = Before(n, bs, i, j - 1) \cup {<<i, j>>}
        BY <2>3, <2>4
      <3>4. Counted(bs, Append(s \o O[j - 1], c), Before(n, bs, i, j - 1) \cup {<<i, j>>})
        BY <2>1, <2>2, <2>3, CountedNext
      <3> QED BY <1>4, <2>1, <3>2, <3>3, <3>4
    <2>5. CASE ~c.occ
      <3>1. O[j] = O[j - 1] /\ Before(n, bs, i, j) = Before(n, bs, i, j - 1)
        BY <1>2, <2>3, <2>5
      <3> QED BY <1>4, <2>1, <2>2, <3>1
    <2> QED BY <2>4, <2>5
  <1>7. l \in S
    <2>1. l \in Nat
      BY <1>2
    <2>2. 0 .. l \subseteq S
      BY <1>5, <1>6, <2>1, InductiveUpTo
    <2> QED BY <2>1, <2>2
  <1>8. Before(n, bs, i + 1, 0) = Before(n, bs, i, l)
    BY BeforeNext DEF l
  <1> QED BY <1>2, <1>4, <1>7, <1>8 DEF l, O

\* A table has an entry for every filled position, and no others.
LEMMA EntriesCount ==
  ASSUME NEW n \in Nat, NEW bs \in Tables(n)
  PROVE  Counted(bs, Entries(bs), Filled(n, bs))
  <1> DEFINE E == EntriesUpTo(bs)
             S == {i \in 0 .. n : Counted(bs, E[i], Before(n, bs, i, 0))}
  <1>1. /\ E[0] = <<>>
        /\ \A i \in 1 .. n : E[i] = E[i - 1] \o OccupiedUpTo(bs[i - 1])[Len(bs[i - 1].cells)]
    BY EntriesDef
  <1> HIDE DEF E
  <1>2. \A i \in 0 .. n : i \in S <=> Counted(bs, E[i], Before(n, bs, i, 0))
    OBVIOUS
  <1> HIDE DEF S
  <1>3. 0 \in S
    <2>1. Before(n, bs, 0, 0) = {}
      BY DEF Before, Filled
    <2>2. ToSet(<<>>) = {} /\ At(bs, {}) = {} /\ <<>> \in Seq(CellSet) /\ Len(<<>>) = 0
      BY DEF ToSet, At
    <2>3. Counted(bs, <<>>, {})
      BY <2>2, FS_EmptySet DEF Counted
    <2>4. 0 \in 0 .. n
      OBVIOUS
    <2> QED BY <1>1, <1>2, <2>1, <2>3, <2>4, Zenon
  <1>4. ASSUME NEW i \in 1 .. n, i - 1 \in S PROVE i \in S
    <2>1. i - 1 \in 0 .. n - 1 /\ i - 1 \in 0 .. n /\ i \in 0 .. n /\ (i - 1) + 1 = i
      OBVIOUS
    <2>2. Counted(bs, E[i - 1], Before(n, bs, i - 1, 0))
      BY <1>2, <1>4, <2>1
    <2>3. Counted(bs, E[i - 1] \o OccupiedUpTo(bs[i - 1])[Len(bs[i - 1].cells)],
                  Before(n, bs, (i - 1) + 1, 0))
      BY <2>1, <2>2, CountBucket
    <2> QED BY <1>1, <1>2, <2>1, <2>3
  <1>5. n \in S
    BY <1>3, <1>4, InductiveUpTo
  <1>6. Before(n, bs, n, 0) = Filled(n, bs)
    BY DEF Before, Filled
  <1>7. Entries(bs) = E[n]
    BY TableSize DEF Entries, E
  <1> QED BY <1>2, <1>5, <1>6, <1>7

\* resize meets every entry, and counts each position once (hashmap.c:374-393).
LEMMA EntriesAre ==
  ASSUME NEW n \in Nat, NEW bs \in Tables(n)
  PROVE  /\ Entries(bs) \in EntrySeqs
         /\ ToSet(Entries(bs)) = CellsOf(bs)
         /\ IsFiniteSet(Filled(n, bs))
         /\ Len(Entries(bs)) = Cardinality(Filled(n, bs))
  <1>1. Counted(bs, Entries(bs), Filled(n, bs))
    BY EntriesCount
  <1>2. \A c : c \in At(bs, Filled(n, bs)) <=> c \in CellsOf(bs)
    <2>1. ASSUME NEW c \in At(bs, Filled(n, bs)) PROVE c \in CellsOf(bs)
      <3>1. PICK q \in Filled(n, bs) : c = bs[q[1]].cells[q[2]]
        BY DEF At
      <3>2. /\ q[1] \in 0 .. n - 1 /\ q[2] \in Nat /\ q[2] \in 1 .. Len(bs[q[1]].cells)
            /\ bs[q[1]].cells[q[2]].occ
        BY DEF Filled
      <3>3. bs[q[1]].cells[q[2]] \in CellSet
        BY <3>2, Chains DEF Tables
      <3> QED BY <3>1, <3>2, <3>3, InCells
    <2>2. ASSUME NEW c \in CellsOf(bs) PROVE c \in At(bs, Filled(n, bs))
      <3>1. c.occ /\ c \in CellSet
        BY DEF CellsOf
      <3>2. PICK k \in 0 .. n - 1, j \in Nat : j \in 1 .. Len(bs[k].cells) /\ c = bs[k].cells[j]
        BY InCells
      <3>3. <<k, j>> \in Filled(n, bs)
        BY <3>1, <3>2, InFilled
      <3> QED BY <3>2, <3>3 DEF At
    <2> QED BY <2>1, <2>2
  <1>3. ToSet(Entries(bs)) = CellsOf(bs)
    BY <1>1, <1>2 DEF Counted
  <1>4. ASSUME NEW k \in 1 .. Len(Entries(bs)) PROVE Entries(bs)[k].occ
    <2>1. Entries(bs)[k] \in ToSet(Entries(bs))
      BY <1>1 DEF ToSet, Counted
    <2> QED BY <1>3, <2>1 DEF CellsOf
  <1> QED BY <1>1, <1>3, <1>4 DEF Counted, EntrySeqs

-----------------------------------------------------------------------------
(* Moving the entries into a new array.                                    *)

\* A new array holds nothing.
LEMMA NewBuckets ==
  ASSUME NEW n \in Nat
  PROVE  /\ Buckets(n) \in Tables(n) /\ Placed(Buckets(n)) /\ Shaped(Buckets(n))
         /\ Filled(n, Buckets(n)) = {} /\ CellsOf(Buckets(n)) = {}
  <1>1. Buckets(n) \in Tables(n)
    BY EmptyIsChain DEF Buckets, Tables
  <1>2. \A i \in 0 .. n - 1 : /\ Buckets(n)[i].loop = 0
                              /\ Len(Buckets(n)[i].cells) = 1
                              /\ DOMAIN Buckets(n)[i].cells = {1}
                              /\ ~Buckets(n)[i].cells[1].occ
    BY DEF Buckets, EmptyChain, EmptyCell
  <1>3. DOMAIN Buckets(n) = 0 .. n - 1
    BY DEF Buckets
  <1>4. \A j \in 1 .. 1 : j = 1
    OBVIOUS
  <1> HIDE DEF Buckets
  <1>5. Placed(Buckets(n)) /\ Shaped(Buckets(n))
    BY <1>2, <1>3, <1>4 DEF Placed, Shaped
  <1>6. Filled(n, Buckets(n)) = {}
    BY <1>2, <1>4 DEF Filled
  <1>7. CellsOf(Buckets(n)) = {}
    BY <1>2, <1>3 DEF CellsOf
  <1> QED BY <1>1, <1>5, <1>6, <1>7

\* An entry is what inserting its key and value makes.
LEMMA EntryIsCell ==
  ASSUME NEW c \in CellSet, c.occ
  PROVE  c.key \in Ptr /\ c.val \in Value /\ c = Cell(c.key, c.val)
  <1>1. c # EmptyCell
    BY DEF EmptyCell
  <1>2. c \in [key : Ptr, val : Value, occ : {TRUE}]
    BY <1>1 DEF CellSet
  <1> QED BY <1>2 DEF Cell

\* A table that holds the entries of the set C, so many of them.
Holds(n, bs, C, k) ==
  /\ bs \in Tables(n) /\ Placed(bs)
  /\ CellsOf(bs) = C
  /\ IsFiniteSet(Filled(n, bs)) /\ Cardinality(Filled(n, bs)) = k

\* Inserting adds an entry and a position.
LEMMA InsertHolds ==
  ASSUME NEW n \in Nat \ {0}, NEW bs, NEW C, NEW k, Holds(n, bs, C, k), HashType,
         NEW p \in Ptr, NEW v \in Value
  PROVE  /\ Holds(n, Inserted(bs, p, v), C \cup {Cell(p, v)}, k + 1)
         /\ Shaped(bs) => Shaped(Inserted(bs, p, v))
  <1> DEFINE new == Inserted(bs, p, v)
             c   == Cell(p, v)
             i   == Slot(bs, TextOf[p])
  <1>1. bs \in Tables(n) /\ c \in CellSet /\ c.occ /\ c.key = p
    BY NewCell DEF Holds, Cell
  <1>2. PICK at : FilledIn(n, bs, new, i, at, c)
    BY <1>1, Inserting
  <1>3. Slot(bs, TextOf[c.key]) = i
    BY <1>1
  <1> HIDE DEF new, c, i
  <1>4. new \in Tables(n) /\ Placed(new)
    BY <1>1, <1>2, <1>3, InsertPlaced DEF Holds, FilledIn
  <1>5. CellsOf(new) = C \cup {c}
    <2>1. n \in Nat
      OBVIOUS
    <2>2. CellsOf(new) = CellsOf(bs) \cup {c}
      BY <1>1, <1>2, <2>1, InsertCells
    <2> QED BY <2>2 DEF Holds
  <1>6. <<i, at>> \notin Filled(n, bs) /\ Filled(n, new) = Filled(n, bs) \cup {<<i, at>>}
    <2>1. n \in Nat
      OBVIOUS
    <2> QED BY <1>1, <1>2, <2>1, InsertFilled
  <1>7. IsFiniteSet(Filled(n, new)) /\ Cardinality(Filled(n, new)) = k + 1
    BY <1>6, FS_AddElement DEF Holds
  <1>8. Shaped(bs) => Shaped(new)
    BY <1>1, <1>2, InsertShaped
  <1> QED BY <1>4, <1>5, <1>7, <1>8 DEF Holds, new, c

\* Moving loses and invents nothing, and makes a table in which no chain is
\* linked into itself (hashmap.c:369-393).
LEMMA RehashHolds ==
  ASSUME NEW n \in Nat \ {0}, HashType, NEW es \in EntrySeqs
  PROVE  Holds(n, Rehashed(es, n), ToSet(es), Len(es)) /\ Shaped(Rehashed(es, n))
  <1> DEFINE l == Len(es)
             M == Moved(es, Buckets(n))
             C(k) == {es[m] : m \in 1 .. k}
             S == {k \in 0 .. l : Holds(n, M[k], C(k), k) /\ Shaped(M[k])}
  <1>1. /\ M[0] = Buckets(n)
        /\ \A k \in 1 .. l : M[k] = Inserted(M[k - 1], es[k].key, es[k].val)
    BY NewBuckets, MovedDef
  <1>2. l \in Nat
    BY DEF EntrySeqs
  <1> HIDE DEF M
  <1>3. \A k \in 0 .. l : k \in S <=> Holds(n, M[k], C(k), k) /\ Shaped(M[k])
    OBVIOUS
  <1> HIDE DEF S
  <1>4. 0 \in S
    <2>1. C(0) = {} /\ 0 \in 0 .. l
      BY <1>2
    <2> HIDE DEF C
    <2>2. Holds(n, M[0], C(0), 0) /\ Shaped(M[0])
      BY <1>1, <2>1, NewBuckets, FS_EmptySet DEF Holds
    <2> QED BY <1>3, <2>1, <2>2, Zenon
  <1>5. ASSUME NEW k \in 1 .. l, k - 1 \in S PROVE k \in S
    <2>1. k \in 0 .. l /\ k - 1 \in 0 .. l /\ (k - 1) + 1 = k
      BY <1>2
    <2>2. es[k] \in CellSet /\ es[k].occ
      BY DEF EntrySeqs
    <2>3. /\ es[k].key \in Ptr /\ es[k].val \in Value
          /\ es[k] = Cell(es[k].key, es[k].val)
      BY <2>2, EntryIsCell
    <2>4. C(k) = C(k - 1) \cup {es[k]}
      BY <1>2
    <2>5. Holds(n, M[k - 1], C(k - 1), k - 1) /\ Shaped(M[k - 1])
      BY <1>3, <1>5, <2>1
    <2> HIDE DEF C, l
    <2>6. /\ Holds(n, M[k], C(k - 1) \cup {Cell(es[k].key, es[k].val)}, (k - 1) + 1)
          /\ Shaped(M[k])
      <3>1. M[k] = Inserted(M[k - 1], es[k].key, es[k].val)
        BY <1>1
      <3> QED BY <2>3, <2>5, <3>1, InsertHolds
    <2>7. Holds(n, M[k], C(k), k)
      BY <2>1, <2>3, <2>4, <2>6
    <2> QED BY <1>3, <2>1, <2>6, <2>7
  <1>6. l \in S
    <2> HIDE DEF l
    <2> QED BY <1>2, <1>4, <1>5, InductiveUpTo
  <1>7. C(l) = ToSet(es)
    BY DEF EntrySeqs, ToSet
  <1>8. M[l] = Rehashed(es, n)
    BY DEF M, Rehashed
  <1>9. Holds(n, M[l], C(l), l) /\ Shaped(M[l])
    <2>1. l \in 0 .. l
      BY <1>2
    <2> HIDE DEF C, l
    <2> QED BY <1>3, <1>6, <2>1
  <1> QED BY <1>7, <1>8, <1>9

-----------------------------------------------------------------------------
(* Looking a text up.                                                      *)

\* get_entry finds an occupied cell that says t, or there is none in the bucket.
LEMMA Finding ==
  ASSUME NEW n \in Nat \ {0}, NEW bs \in Tables(n), HashType, NEW t \in Text
  PROVE  /\ Slot(bs, t) \in 0 .. n - 1 /\ Chain(bs, t) = bs[Slot(bs, t)]
         /\ Chain(bs, t) \in ChainSet
         /\ \/ /\ Found(bs, t) = 0
               /\ \A j \in 1 .. Len(Chain(bs, t).cells) :
                    ~(Chain(bs, t).cells[j].occ /\ TextOf[Chain(bs, t).cells[j].key] = t)
            \/ /\ Found(bs, t) \in 1 .. Len(Chain(bs, t).cells)
               /\ Chain(bs, t).cells[Found(bs, t)].occ
               /\ TextOf[Chain(bs, t).cells[Found(bs, t)].key] = t
  <1> DEFINE ch == Chain(bs, t)
             I  == {j \in 1 .. Len(ch.cells) : ch.cells[j].key # Null /\ TextOf[ch.cells[j].key] = t}
  <1>1. Slot(bs, t) \in 0 .. n - 1 /\ ch = bs[Slot(bs, t)]
    BY SlotType DEF Chain, HashType
  <1>2. ch \in ChainSet
    BY <1>1 DEF Tables
  <1> HIDE DEF ch
  <1>3. Found(bs, t) = IF I # {} THEN Min(I) ELSE 0
    BY DEF Found, SelectInSeq, ch
  <1>4. Len(ch.cells) \in Nat /\ \A j \in 1 .. Len(ch.cells) : ch.cells[j] \in CellSet
    BY <1>2, Chains
  <1>5. \A j \in 1 .. Len(ch.cells) :
          j \in I <=> ch.cells[j].occ /\ TextOf[ch.cells[j].key] = t
    BY <1>4, Cells
  <1>6. I \subseteq 1 .. Len(ch.cells) /\ I \subseteq Nat
    BY <1>4
  <1> HIDE DEF I
  <1>7. CASE I # {}
    <2>1. Min(I) \in I
      BY <1>6, <1>7, Lowest
    <2>2. Found(bs, t) \in I
      BY <1>3, <1>7, <2>1
    <2> QED BY <1>1, <1>2, <1>5, <1>6, <2>2 DEF ch
  <1>8. CASE I = {}
    <2>1. Found(bs, t) = 0
      BY <1>3, <1>8
    <2> QED BY <1>1, <1>2, <1>5, <1>8, <2>1 DEF ch
  <1> QED BY <1>7, <1>8

\* What is found for t in the table bs.
LookedUp(bs, t) ==
  IF Found(bs, t) = 0 THEN Missing ELSE Chain(bs, t).cells[Found(bs, t)].val

\* Every entry is in the bucket of its hash, so what get_entry does not find is
\* not in the table.
LEMMA FindsCells ==
  ASSUME NEW n \in Nat \ {0}, NEW bs \in Tables(n), HashType, Placed(bs), NEW t \in Text
  PROVE  \/ /\ Found(bs, t) = 0 /\ LookedUp(bs, t) = Missing
            /\ \A c \in CellsOf(bs) : TextOf[c.key] # t
         \/ /\ Found(bs, t) # 0
            /\ \E c \in CellsOf(bs) : TextOf[c.key] = t /\ LookedUp(bs, t) = c.val
  <1> DEFINE i  == Slot(bs, t)
             ch == bs[i]
             f  == Found(bs, t)
  <1>1. i \in 0 .. n - 1 /\ ch \in ChainSet /\ Chain(bs, t) = ch
    BY Finding
  <1>2. /\ Len(ch.cells) \in Nat
        /\ \A j \in 1 .. Len(ch.cells) : ch.cells[j] \in CellSet
    BY <1>1, Chains
  <1>3. CASE f = 0
    <2>1. \A j \in 1 .. Len(ch.cells) : ~(ch.cells[j].occ /\ TextOf[ch.cells[j].key] = t)
      BY <1>1, <1>3, Finding
    <2>2. ASSUME NEW c \in CellsOf(bs), TextOf[c.key] = t PROVE FALSE
      <3>1. c.occ
        BY DEF CellsOf
      <3>2. PICK k \in 0 .. n - 1, j \in Nat : j \in 1 .. Len(bs[k].cells) /\ c = bs[k].cells[j]
        BY InCells
      <3>3. k = i
        BY <2>2, <3>1, <3>2, TableSize DEF Placed
      <3> QED BY <2>1, <2>2, <3>1, <3>2, <3>3
    <2> QED BY <1>3, <2>2 DEF LookedUp
  <1>4. CASE f # 0
    <2> DEFINE c == ch.cells[f]
    <2>1. f \in 1 .. Len(ch.cells) /\ c.occ /\ TextOf[c.key] = t
      BY <1>1, <1>4, Finding
    <2>2. f \in Nat /\ c \in CellSet
      BY <1>2, <2>1
    <2>3. c \in CellsOf(bs)
      BY <1>1, <2>1, <2>2, InCells
    <2>4. LookedUp(bs, t) = c.val
      BY <1>1, <1>4 DEF LookedUp
    <2> QED BY <1>4, <2>1, <2>3, <2>4
  <1> QED BY <1>3, <1>4

\* No two entries say the same.
Unique(bs) == \A c, d \in CellsOf(bs) : TextOf[c.key] = TextOf[d.key] => c = d

\* The lookups depend on the entries only.
LEMMA SameEntries ==
  ASSUME NEW n \in Nat \ {0}, NEW bs \in Tables(n), Placed(bs), Unique(bs),
         NEW m \in Nat \ {0}, NEW cs \in Tables(m), Placed(cs),
         CellsOf(cs) = CellsOf(bs), HashType, NEW t \in Text
  PROVE  LookedUp(cs, t) = LookedUp(bs, t) /\ (Found(cs, t) = 0 <=> Found(bs, t) = 0)
  <1>1. CASE Found(bs, t) = 0
    <2>1. LookedUp(bs, t) = Missing /\ \A c \in CellsOf(bs) : TextOf[c.key] # t
      BY <1>1, FindsCells
    <2>2. LookedUp(cs, t) = Missing /\ Found(cs, t) = 0
      BY <2>1, FindsCells
    <2> QED BY <1>1, <2>1, <2>2
  <1>2. CASE Found(bs, t) # 0
    <2>1. PICK c \in CellsOf(bs) : TextOf[c.key] = t /\ LookedUp(bs, t) = c.val
      BY <1>2, FindsCells
    <2>2. /\ Found(cs, t) # 0
          /\ \E d \in CellsOf(cs) : TextOf[d.key] = t /\ LookedUp(cs, t) = d.val
      BY <2>1, FindsCells
    <2>3. PICK d \in CellsOf(cs) : TextOf[d.key] = t /\ LookedUp(cs, t) = d.val
      BY <2>2
    <2>4. c = d
      BY <2>1, <2>3 DEF Unique
    <2> QED BY <1>2, <2>1, <2>2, <2>3, <2>4
  <1> QED BY <1>1, <1>2

\* An entry of a text that was not found.
LEMMA InsertMaps ==
  ASSUME NEW n \in Nat \ {0}, NEW bs \in Tables(n), Placed(bs), Unique(bs), HashType,
         NEW new \in Tables(n), Placed(new), NEW p \in Ptr, NEW v \in Value,
         CellsOf(new) = CellsOf(bs) \cup {Cell(p, v)}, Found(bs, TextOf[p]) = 0
  PROVE  /\ Unique(new)
         /\ \A t \in Text : LookedUp(new, t) = IF t = TextOf[p] THEN v ELSE LookedUp(bs, t)
  <1> DEFINE c == Cell(p, v)
  <1>1. c.key = p /\ c.val = v
    BY DEF Cell
  <1>2. TextOf[p] \in Text
    BY TableAssumption
  <1>3. \A d \in CellsOf(bs) : TextOf[d.key] # TextOf[p]
    BY <1>2, FindsCells
  <1> HIDE DEF c
  <1>4. CellsOf(new) = CellsOf(bs) \cup {c}
    BY DEF c
  <1>5. Unique(new)
    BY <1>1, <1>3, <1>4 DEF Unique
  <1>6. ASSUME NEW t \in Text
        PROVE  LookedUp(new, t) = IF t = TextOf[p] THEN v ELSE LookedUp(bs, t)
    <2>1. CASE t = TextOf[p]
      <3>1. \E d \in CellsOf(new) : TextOf[d.key] = t /\ LookedUp(new, t) = d.val
        BY <1>1, <1>4, <2>1, FindsCells
      <3> QED BY <1>1, <1>3, <1>4, <2>1, <3>1
    <2>2. CASE t # TextOf[p]
      <3>1. CASE Found(bs, t) = 0
        <4>1. LookedUp(bs, t) = Missing /\ \A d \in CellsOf(bs) : TextOf[d.key] # t
          BY <3>1, FindsCells
        <4>2. \A d \in CellsOf(new) : TextOf[d.key] # t
          BY <1>1, <1>4, <2>2, <4>1
        <4>3. LookedUp(new, t) = Missing
          BY <4>2, FindsCells
        <4> QED BY <2>2, <4>1, <4>3
      <3>2. CASE Found(bs, t) # 0
        <4>1. PICK d \in CellsOf(bs) : TextOf[d.key] = t /\ LookedUp(bs, t) = d.val
          BY <3>2, FindsCells
        <4>2. \E e \in CellsOf(new) : TextOf[e.key] = t /\ LookedUp(new, t) = e.val
          BY <1>4, <4>1, FindsCells
        <4>3. PICK e \in CellsOf(new) : TextOf[e.key] = t /\ LookedUp(new, t) = e.val
          BY <4>2
        <4>4. e = d
          BY <1>4, <1>5, <4>1, <4>3 DEF Unique
        <4> QED BY <2>2, <4>1, <4>3, <4>4
      <3> QED BY <3>1, <3>2
    <2> QED BY <2>1, <2>2
  <1> QED BY <1>5, <1>6

-----------------------------------------------------------------------------
(* Writing an occupied cell anew.                                          *)

Rewritten(n, bs, new, i, j, c) ==
  /\ n \in Nat \ {0} /\ bs \in Tables(n)
  /\ i \in 0 .. n - 1 /\ j \in 1 .. Len(bs[i].cells) /\ bs[i].cells[j].occ
  /\ c \in CellSet
  /\ new = [bs EXCEPT ![i].cells[j] = c]

Replaced(n, bs, new, i, j, c) ==
  /\ new \in Tables(n)
  /\ Placed(bs) /\ (c.occ => Slot(bs, TextOf[c.key]) = i) => Placed(new)
  /\ <<i, j>> \in Filled(n, bs)
  /\ c.occ => Filled(n, new) = Filled(n, bs)
  /\ ~c.occ => Filled(n, new) = Filled(n, bs) \ {<<i, j>>}

\* The rest of the table stays as it was (hashmap.c:192-199, 267-270).
LEMMA Replacing ==
  ASSUME NEW n, NEW bs, NEW new, NEW i, NEW j, NEW c, Rewritten(n, bs, new, i, j, c)
  PROVE  Replaced(n, bs, new, i, j, c)
  <1> DEFINE cells == [bs[i].cells EXCEPT ![j] = c]
  <1> USE DEF Rewritten
  <1>1. bs[i] \in ChainSet
    BY DEF Tables
  <1>2. bs[i] = [cells |-> bs[i].cells, loop |-> bs[i].loop] /\ bs[i].cells \in Seq(CellSet)
        /\ Len(bs[i].cells) \in Nat \ {0} /\ bs[i].loop \in 0 .. Len(bs[i].cells) - 1
    BY <1>1, Chains
  <1>3. /\ cells \in Seq(CellSet) /\ Len(cells) = Len(bs[i].cells) /\ cells[j] = c
        /\ \A k \in 1 .. Len(bs[i].cells) : k # j => cells[k] = bs[i].cells[k]
    BY <1>2
  <1>4. [bs[i] EXCEPT !.cells = cells] = [cells |-> cells, loop |-> bs[i].loop]
    BY <1>2
  <1>5. new = [bs EXCEPT ![i] = [cells |-> cells, loop |-> bs[i].loop]]
    BY <1>4
  <1> HIDE DEF cells
  <1>6. [cells |-> cells, loop |-> bs[i].loop] \in ChainSet
    BY <1>2, <1>3, ChainMade
  <1>7. new \in Tables(n)
    BY <1>5, <1>6 DEF Tables
  <1>8. /\ new[i].cells = cells /\ \A k \in 0 .. n - 1 : k # i => new[k] = bs[k]
    BY <1>5 DEF Tables
  <1>9. DOMAIN bs = 0 .. n - 1 /\ DOMAIN new = 0 .. n - 1 /\ \A t : Slot(new, t) = Slot(bs, t)
    BY <1>7, TableSize DEF Slot
  <1>10. Placed(bs) /\ (c.occ => Slot(bs, TextOf[c.key]) = i) => Placed(new)
    <2> SUFFICES ASSUME Placed(bs), c.occ => Slot(bs, TextOf[c.key]) = i
                 PROVE  Placed(new)
      OBVIOUS
    <2>1. ASSUME NEW k \in 0 .. n - 1, NEW l \in 1 .. Len(new[k].cells), new[k].cells[l].occ
          PROVE  Slot(bs, TextOf[new[k].cells[l].key]) = k
      <3>1. CASE k = i /\ l = j
        BY <1>3, <1>8, <2>1, <3>1
      <3>2. CASE ~(k = i /\ l = j)
        <4>1. l \in 1 .. Len(bs[k].cells) /\ new[k].cells[l] = bs[k].cells[l]
          BY <1>3, <1>8, <3>2
        <4> QED BY <1>9, <2>1, <4>1 DEF Placed
      <3> QED BY <3>1, <3>2
    <2>2. \A k \in 0 .. n - 1 : \A l \in 1 .. Len(new[k].cells) :
            new[k].cells[l].occ => Slot(new, TextOf[new[k].cells[l].key]) = k
      BY <1>9, <2>1
    <2> QED BY <1>9, <2>2, Zenon DEF Placed
  <1>11. n \in Nat /\ j \in Nat
    BY <1>2
  <1>12. <<i, j>> \in Filled(n, bs)
    BY <1>11, InFilled
  <1>13. ASSUME NEW k \in 0 .. n - 1, NEW l \in Nat
         PROVE  <<k, l>> \in Filled(n, new) <=>
                  <<k, l>> \in Filled(n, bs) /\ (c.occ \/ <<k, l>> # <<i, j>>)
    <2>1. <<k, l>> \in Filled(n, new) <=> l \in 1 .. Len(new[k].cells) /\ new[k].cells[l].occ
      BY <1>11, InFilled
    <2>2. <<k, l>> \in Filled(n, bs) <=> l \in 1 .. Len(bs[k].cells) /\ bs[k].cells[l].occ
      BY <1>11, InFilled
    <2>3. CASE k # i
      BY <1>8, <2>1, <2>2, <2>3
    <2>4. CASE k = i /\ l # j
      BY <1>3, <1>8, <2>1, <2>2, <2>4
    <2>5. CASE k = i /\ l = j
      BY <1>3, <1>8, <2>1, <2>2, <2>5
    <2> QED BY <2>3, <2>4, <2>5
  <1>14. /\ Filled(n, new) \subseteq (0 .. n - 1) \X Nat
         /\ Filled(n, bs) \subseteq (0 .. n - 1) \X Nat
    BY <1>11, InFilled
  <1>15. /\ c.occ => Filled(n, new) = Filled(n, bs)
         /\ ~c.occ => Filled(n, new) = Filled(n, bs) \ {<<i, j>>}
    <2>1. CASE c.occ
      <3>1. ASSUME NEW q \in (0 .. n - 1) \X Nat
            PROVE  q \in Filled(n, new) <=> q \in Filled(n, bs)
        <4>1. PICK k \in 0 .. n - 1, l \in Nat : q = <<k, l>>
          OBVIOUS
        <4> QED BY <1>13, <2>1, <4>1
      <3> QED BY <1>14, <2>1, <3>1
    <2>2. CASE ~c.occ
      <3>1. ASSUME NEW q \in (0 .. n - 1) \X Nat
            PROVE  q \in Filled(n, new) <=> q \in Filled(n, bs) /\ q # <<i, j>>
        <4>1. PICK k \in 0 .. n - 1, l \in Nat : q = <<k, l>>
          OBVIOUS
        <4> QED BY <1>13, <2>2, <4>1
      <3> QED BY <1>14, <2>2, <3>1
    <2> QED BY <2>1, <2>2
  <1> QED BY <1>7, <1>10, <1>12, <1>15 DEF Replaced

-----------------------------------------------------------------------------
(* The inductive invariant.                                                *)

Rets == {"put", "get", "ensure_get", "contains", "remove", "new"}
          \X (Text \cup {Null}) \X (BOOLEAN \cup Value \cup {Null})

\* What a table used plainly is besides: no chain is linked into itself.
Plain == plain => Shaped(buckets) /\ Unique(buckets) /\ broken # "loop"

HashInv ==
  /\ HashType
  /\ NBuckets(buckets) \in Nat \ {0}
  /\ buckets \in Tables(NBuckets(buckets))
  /\ Placed(buckets)
  /\ nextSize = FullAt(NBuckets(buckets))
  /\ size \in Nat
  /\ broken = "no" => size = Cardinality(Filled(NBuckets(buckets), buckets))
  /\ ret \in Rets
  /\ broken \in {"no", "loop", "dangling"}
  /\ plain \in BOOLEAN
  /\ Plain

\* The invariant, from what a step does to the table.
LEMMA Established ==
  ASSUME HashType, hashOf' = hashOf,
         NEW n \in Nat \ {0}, buckets' \in Tables(n), Placed(buckets'),
         nextSize' = FullAt(n), size' \in Nat,
         broken' = "no" => size' = Cardinality(Filled(n, buckets')),
         ret' \in Rets, broken' \in {"no", "loop", "dangling"}, plain' \in BOOLEAN,
         plain' => Shaped(buckets') /\ Unique(buckets') /\ broken' # "loop"
  PROVE  HashInv'
  <1>1. NBuckets(buckets') = n
    BY TableSize
  <1>2. NBuckets(buckets)' = n
    BY <1>1 DEF NBuckets
  <1>3. Placed(buckets)'
    BY DEF Placed, Slot
  <1>4. HashType'
    BY DEF HashType
  <1> QED BY <1>2, <1>3, <1>4 DEF HashInv, Plain

LEMMA InvHolds ==
  ASSUME HashInv
  PROVE  /\ Holds(NBuckets(buckets), buckets, CellsOf(buckets),
                  Cardinality(Filled(NBuckets(buckets), buckets)))
         /\ NBuckets(buckets) \in Nat \ {0}
         /\ broken = "no" =>
              Holds(NBuckets(buckets), buckets, CellsOf(buckets), size)
  <1>1. IsFiniteSet(Filled(NBuckets(buckets), buckets))
    BY EntriesAre DEF HashInv
  <1> QED BY <1>1 DEF HashInv, Holds

LEMMA InitInv == Init => HashInv
  <1> SUFFICES ASSUME Init PROVE HashInv
    OBVIOUS
  <1>1. InitialSize \in Nat \ {0} /\ buckets = Buckets(InitialSize)
    BY TableAssumption DEF Init
  <1>2. /\ buckets \in Tables(InitialSize) /\ Placed(buckets) /\ Shaped(buckets)
        /\ Filled(InitialSize, buckets) = {} /\ CellsOf(buckets) = {}
    BY <1>1, NewBuckets
  <1>3. NBuckets(buckets) = InitialSize
    BY <1>1, <1>2, TableSize
  <1>4. Unique(buckets)
    BY <1>2 DEF Unique
  <1>5. ret \in Rets
    BY DEF Init, Rets
  <1> QED BY <1>1, <1>2, <1>3, <1>4, <1>5, FS_EmptySet DEF Init, HashInv, HashType, Plain

\* The part of put behind the resize.
LEMMA PutKeeps ==
  ASSUME HashType, hashOf' = hashOf, broken = "no", ret \in Rets,
         NEW n \in Nat \ {0}, NEW bs, NEW items \in Nat, Holds(n, bs, CellsOf(bs), items),
         NEW p \in Ptr, NEW v \in Value, PutInto(bs, items, p, v),
         nextSize' = FullAt(n), plain' \in BOOLEAN,
         plain' => Shaped(bs) /\ Unique(bs) /\ Found(bs, TextOf[p]) = 0
  PROVE  /\ HashInv'
         /\ plain' => \/ MemoryMayFail /\ buckets' = bs /\ ret' = <<"put", TextOf[p], FALSE>>
                      \/ buckets' = Inserted(bs, p, v) /\ ret' = <<"put", TextOf[p], TRUE>>
  <1> DEFINE t    == TextOf[p]
             i    == Slot(bs, t)
             ch   == Chain(bs, t)
             same == SamePtr(ch, p)
             c    == Cell(p, v)
  <1>1. /\ bs \in Tables(n) /\ Placed(bs) /\ IsFiniteSet(Filled(n, bs))
        /\ Cardinality(Filled(n, bs)) = items
    BY DEF Holds
  <1>2. t \in Text /\ c \in CellSet /\ c.occ /\ c.key = p
    BY TableAssumption, NewCell
  <1>3. i \in 0 .. n - 1 /\ ch = bs[i] /\ ch \in ChainSet
    BY <1>1, <1>2, Finding
  <1>4. \A r \in BOOLEAN : <<"put", t, r>> \in Rets
    BY <1>2 DEF Rets
  <1> HIDE DEF c, i, same, ch
  <1>5. CASE /\ same # 0
             /\ buckets' = [bs EXCEPT ![i].cells[same] = c]
             /\ IF OwnsKeys THEN Breaks("dangling") ELSE Returns("put", t, FALSE)
             /\ size' = items
    <2>1. /\ same \in 1 .. Len(bs[i].cells)
          /\ bs[i].cells[same].occ /\ bs[i].cells[same].key = p
      BY <1>3, <1>5, SamePtrs DEF same
    <2>3. /\ buckets' \in Tables(n) /\ Placed(buckets')
          /\ Filled(n, buckets') = Filled(n, bs)
      <3>1. Rewritten(n, bs, buckets', i, same, c)
        BY <1>1, <1>2, <1>3, <1>5, <2>1 DEF Rewritten
      <3>2. Slot(bs, TextOf[c.key]) = i
        BY <1>2 DEF i
      <3>3. Replaced(n, bs, buckets', i, same, c)
        BY <3>1, Replacing
      <3> QED BY <1>1, <1>2, <3>2, <3>3 DEF Replaced
    <2>4. broken' \in {"no", "loop", "dangling"} /\ ret' \in Rets
      BY <1>4, <1>5 DEF Breaks, Returns
    <2>5. ~plain'
      <3>1. Found(bs, t) # 0
        BY <1>1, <1>2, <1>3, <2>1, Finding DEF ch, i
      <3> QED BY <3>1
    <2>6. HashInv'
      BY <1>1, <1>5, <2>3, <2>4, <2>5, Established
    <2> QED BY <2>5, <2>6
  <1>6. CASE same = 0 /\ ch.loop # 0 /\ buckets' = bs /\ Breaks("loop") /\ size' = items
    <2>1. ~plain'
      BY <1>1, <1>3, <1>6, TableSize DEF Shaped
    <2>2. broken' = "loop" /\ ret' = ret
      BY <1>6 DEF Breaks
    <2>3. HashInv'
      BY <1>1, <1>6, <2>1, <2>2, Established
    <2> QED BY <2>1, <2>3
  <1>7. CASE /\ same = 0 /\ ch.loop = 0
             /\ buckets' = Inserted(bs, p, v)
             /\ size' = items + 1
             /\ Returns("put", t, TRUE)
    <2>1. /\ Holds(n, buckets', CellsOf(bs) \cup {c}, items + 1)
          /\ Shaped(bs) => Shaped(buckets')
      BY <1>7, InsertHolds DEF c
    <2>2. /\ buckets' \in Tables(n) /\ Placed(buckets') /\ CellsOf(buckets') = CellsOf(bs) \cup {c}
          /\ Cardinality(Filled(n, buckets')) = items + 1
      BY <2>1 DEF Holds
    <2>3. plain' => Unique(buckets')
      BY <1>1, <1>2, <2>2, InsertMaps DEF c
    <2>4. broken' = "no" /\ ret' = <<"put", t, TRUE>> /\ ret' \in Rets
      BY <1>4, <1>7 DEF Returns
    <2>5. HashInv'
      <3>1. size' = items + 1 /\ size' \in Nat
        BY <1>7
      <3> QED BY <2>1, <2>2, <2>3, <2>4, <3>1, Established
    <2> QED BY <1>7, <2>4, <2>5
  <1>8. CASE /\ same = 0 /\ ch.loop = 0
             /\ MemoryMayFail
             /\ buckets' = bs
             /\ Returns("put", t, FALSE)
             /\ size' = items
    <2>1. broken' = "no" /\ ret' = <<"put", t, FALSE>> /\ ret' \in Rets
      BY <1>4, <1>8 DEF Returns
    <2>2. HashInv'
      BY <1>1, <1>8, <2>1, Established
    <2> QED BY <1>8, <2>1, <2>2
  <1> QED BY <1>5, <1>6, <1>7, <1>8 DEF PutInto, c, i, same, ch

LEMMA Grows ==
  ASSUME NEW n \in Nat \ {0}
  PROVE  n * Growth \in Nat \ {0}
  BY TableAssumption

\* What PutGrowing puts the key into.
LEMMA GrownTable ==
  ASSUME HashInv
  PROVE  LET n     == NBuckets(buckets) * Growth
             grown == Rehashed(Entries(buckets), n)
         IN  /\ n \in Nat \ {0}
             /\ Holds(n, grown, CellsOf(grown), Len(Entries(buckets)))
             /\ CellsOf(grown) = CellsOf(buckets) /\ Shaped(grown)
             /\ Len(Entries(buckets)) \in Nat
             /\ plain => \A t \in Text :
                  /\ LookedUp(grown, t) = LookedUp(buckets, t)
                  /\ Found(grown, t) = 0 <=> Found(buckets, t) = 0
  <1> DEFINE m     == NBuckets(buckets)
             n     == m * Growth
             es    == Entries(buckets)
             grown == Rehashed(es, n)
  <1>1. m \in Nat \ {0} /\ buckets \in Tables(m) /\ Placed(buckets) /\ HashType
    BY DEF HashInv
  <1>2. n \in Nat \ {0}
    BY <1>1, Grows
  <1>3. es \in EntrySeqs /\ ToSet(es) = CellsOf(buckets)
    BY <1>1, EntriesAre
  <1> HIDE DEF m, n, es
  <1>4. Holds(n, grown, ToSet(es), Len(es)) /\ Shaped(grown)
    BY <1>1, <1>2, <1>3, RehashHolds
  <1>5. CellsOf(grown) = CellsOf(buckets) /\ Holds(n, grown, CellsOf(grown), Len(es))
    BY <1>3, <1>4 DEF Holds
  <1>6. Len(es) \in Nat
    BY <1>3 DEF EntrySeqs
  <1>7. ASSUME plain, NEW t \in Text
        PROVE  /\ LookedUp(grown, t) = LookedUp(buckets, t)
               /\ Found(grown, t) = 0 <=> Found(buckets, t) = 0
    <2>1. Unique(buckets)
      BY <1>7 DEF HashInv, Plain
    <2>2. grown \in Tables(n) /\ Placed(grown)
      BY <1>4 DEF Holds
    <2> HIDE DEF grown
    <2> QED BY <1>1, <1>2, <1>5, <2>1, <2>2, SameEntries
  <1> QED BY <1>2, <1>4, <1>5, <1>6, <1>7 DEF m, n, es

\* A call that leaves the table as it is.
LEMMA SameTable ==
  ASSUME HashInv, UNCHANGED <<hashOf, buckets, size, nextSize>>, broken = "no",
         ret' \in Rets, broken' \in {"no", "loop", "dangling"}, plain' \in BOOLEAN,
         plain' => plain /\ broken' # "loop"
  PROVE  HashInv'
  <1>1. NBuckets(buckets) \in Nat \ {0}
    BY DEF HashInv
  <1> QED BY <1>1, Established DEF HashInv, Plain

\* In a table used plainly every chain ends.
LEMMA PlainEnds ==
  ASSUME HashInv, plain
  PROVE  Looping(buckets) = {} /\ \A t \in Text : ~Endless(t)
  <1>1. Shaped(buckets)
    BY DEF HashInv, Plain
  <1>2. Looping(buckets) = {}
    BY <1>1 DEF Shaped, Looping
  <1>3. ASSUME NEW t \in Text PROVE ~Endless(t)
    <2>1. Slot(buckets, t) \in DOMAIN buckets /\ Chain(buckets, t) = buckets[Slot(buckets, t)]
      BY Finding, TableSize DEF HashInv
    <2> QED BY <1>1, <2>1 DEF Shaped, Endless
  <1> QED BY <1>2, <1>3

\* What is found has a value.
LEMMA CellFound ==
  ASSUME HashInv, NEW t \in Text, Found(buckets, t) # 0
  PROVE  CellOf(t) \in CellSet /\ CellOf(t).occ /\ CellOf(t).val \in Value
  <1>1. /\ Chain(buckets, t) \in ChainSet
        /\ Found(buckets, t) \in 1 .. Len(Chain(buckets, t).cells)
        /\ CellOf(t).occ
    BY Finding DEF HashInv, CellOf
  <1>2. CellOf(t) \in CellSet
    BY <1>1, Chains DEF CellOf
  <1> QED BY <1>1, <1>2, Cells

LEMMA RetIn ==
  ASSUME NEW call \in {"put", "get", "ensure_get", "contains", "remove", "new"},
         NEW t \in Text \cup {Null}, NEW r \in BOOLEAN \cup Value \cup {Null}
  PROVE  <<call, t, r>> \in Rets
  BY DEF Rets

\* nc_hashmap_put with room for one more,
LEMMA PutInv ==
  ASSUME HashInv, NEW p \in Ptr, NEW v \in Value, Put(p, v)
  PROVE  HashInv'
  <1> DEFINE n == NBuckets(buckets)
  <1>1. n \in Nat \ {0} /\ HashType /\ ret \in Rets /\ size \in Nat
    BY DEF HashInv
  <1>2. broken = "no" /\ PutInto(buckets, size, p, v) /\ Plainly(TextOf[p])
        /\ hashOf' = hashOf /\ nextSize' = FullAt(n)
    BY DEF Put, HashInv
  <1>3. Holds(n, buckets, CellsOf(buckets), size)
    BY <1>2, InvHolds
  <1>4. /\ plain' \in BOOLEAN
        /\ plain' => Shaped(buckets) /\ Unique(buckets) /\ Found(buckets, TextOf[p]) = 0
    BY <1>2 DEF Plainly, HashInv, Plain
  <1> HIDE DEF n
  <1> QED BY <1>1, <1>2, <1>3, <1>4, PutKeeps

\* behind a resize,
LEMMA PutGrowingInv ==
  ASSUME HashInv, NEW p \in Ptr, NEW v \in Value, PutGrowing(p, v)
  PROVE  HashInv'
  <1> DEFINE n     == NBuckets(buckets) * Growth
             es    == Entries(buckets)
             grown == Rehashed(es, n)
  <1>1. HashType /\ ret \in Rets /\ TextOf[p] \in Text
    BY TableAssumption DEF HashInv
  <1>2. broken = "no" /\ PutInto(grown, Len(es), p, v) /\ Plainly(TextOf[p])
        /\ hashOf' = hashOf /\ nextSize' = FullAt(n)
    BY DEF PutGrowing
  <1>3. /\ n \in Nat \ {0}
        /\ Holds(n, grown, CellsOf(grown), Len(es))
        /\ CellsOf(grown) = CellsOf(buckets) /\ Shaped(grown)
        /\ Len(es) \in Nat
        /\ plain => \A t \in Text : Found(grown, t) = 0 <=> Found(buckets, t) = 0
    BY GrownTable
  <1> HIDE DEF n, es, grown
  <1>4. /\ plain' \in BOOLEAN
        /\ plain' => Shaped(grown) /\ Unique(grown) /\ Found(grown, TextOf[p]) = 0
    BY <1>1, <1>2, <1>3 DEF Plainly, HashInv, Plain, Unique
  <1> QED BY <1>1, <1>2, <1>3, <1>4, PutKeeps

\* and when the resize fails (hashmap.c:187-191).
LEMMA GrowFailsInv ==
  ASSUME HashInv, NEW p \in Ptr, GrowFails(p) \/ GrowLoops(p)
  PROVE  HashInv'
  <1>1. TextOf[p] \in Text /\ FALSE \in BOOLEAN
    BY TableAssumption
  <1>2. <<"put", TextOf[p], FALSE>> \in Rets
    BY <1>1, RetIn
  <1>3. plain => Looping(buckets) = {}
    BY PlainEnds
  <1>4. UNCHANGED <<hashOf, buckets, size, nextSize, plain>> /\ broken = "no"
    BY DEF GrowFails, GrowLoops
  <1>5. ret' \in Rets /\ broken' \in {"no", "loop", "dangling"}
    BY <1>2, <1>4 DEF GrowFails, GrowLoops, Breaks, HashInv
  <1>6. plain' \in BOOLEAN /\ (plain' => plain /\ broken' # "loop")
    BY <1>3, <1>4 DEF GrowFails, GrowLoops, HashInv
  <1> QED BY <1>4, <1>5, <1>6, SameTable

\* nc_hashmap_get, _ensure_get and _contains.
LEMMA LookupInv ==
  ASSUME HashInv, NEW t \in Text, Get(t) \/ EnsureGet(t) \/ ContainsKey(t)
  PROVE  HashInv'
  <1>1. UNCHANGED <<hashOf, buckets, size, nextSize, plain>> /\ broken = "no"
    BY DEF Get, EnsureGet, ContainsKey
  <1>2. \/ Endless(t) /\ broken' = "loop" /\ ret' = ret
        \/ ~Endless(t) /\ broken' = broken /\ ret' \in Rets
    <2>1. Found(buckets, t) # 0 => CellOf(t).val \in Value
      BY CellFound
    <2>2. CASE Get(t)
      <3> DEFINE r == IF Found(buckets, t) = 0 THEN Null ELSE CellOf(t).val
      <3>1. r \in BOOLEAN \cup Value \cup {Null}
        BY <2>1
      <3>2. <<"get", t, r>> \in Rets
        BY <3>1, RetIn
      <3> QED BY <2>2, <3>2 DEF Get, Breaks, Returns
    <2>3. CASE EnsureGet(t)
      <3>1. <<"ensure_get", t, Found(buckets, t) # 0>> \in Rets
        BY RetIn
      <3> QED BY <2>3, <3>1 DEF EnsureGet, Breaks, Returns
    <2>4. CASE ContainsKey(t)
      <3>1. <<"contains", t, Found(buckets, t) # 0 /\ CellOf(t).val # Null>> \in Rets
        BY RetIn
      <3> QED BY <2>4, <3>1 DEF ContainsKey, Breaks, Returns
    <2> QED BY <2>2, <2>3, <2>4
  <1>3. plain => ~Endless(t)
    BY PlainEnds
  <1>4. ret' \in Rets /\ broken' \in {"no", "loop", "dangling"} /\ plain' \in BOOLEAN
    BY <1>1, <1>2 DEF HashInv
  <1> QED BY <1>1, <1>2, <1>3, <1>4, SameTable

\* nc_hashmap_remove: one position less, and size one less.
LEMMA RemoveInv ==
  ASSUME HashInv, NEW t \in Text, RemoveKey(t)
  PROVE  HashInv'
  <1> DEFINE n == NBuckets(buckets)
             i == Slot(buckets, t)
             f == Found(buckets, t)
  <1>1. /\ n \in Nat \ {0} /\ buckets \in Tables(n) /\ HashType /\ Placed(buckets)
        /\ nextSize = FullAt(n) /\ ret \in Rets
    BY DEF HashInv
  <1>2. broken = "no" /\ hashOf' = hashOf /\ nextSize' = nextSize /\ Plainly(t)
    BY DEF RemoveKey
  <1>3. plain' \in BOOLEAN /\ (plain' => plain /\ f = 0)
    BY <1>2 DEF Plainly, HashInv
  <1>4. <<"remove", t, TRUE>> \in Rets /\ <<"remove", t, FALSE>> \in Rets
    BY RetIn
  <1>5. CASE Endless(t) /\ Breaks("loop") /\ UNCHANGED <<buckets, size>>
    <2>1. ~plain'
      BY <1>3, <1>5, PlainEnds
    <2> QED BY <1>1, <1>2, <1>3, <1>5, <2>1, SameTable DEF Breaks
  <1>6. CASE Returns("remove", t, FALSE) /\ UNCHANGED <<buckets, size>>
    BY <1>1, <1>2, <1>3, <1>4, <1>6, SameTable DEF Returns
  <1>7. CASE /\ f # 0
             /\ buckets' = [buckets EXCEPT ![i].cells[f] = EmptyCell]
             /\ size' = size - 1
             /\ Returns("remove", t, TRUE)
    <2>1. /\ i \in 0 .. n - 1 /\ f \in 1 .. Len(buckets[i].cells)
          /\ buckets[i].cells[f].occ
      BY <1>1, <1>7, Finding
    <2> HIDE DEF n, i, f
    <2>2. Rewritten(n, buckets, buckets', i, f, EmptyCell)
      BY <1>1, <1>7, <2>1, EmptyIsChain DEF Rewritten
    <2>3. Replaced(n, buckets, buckets', i, f, EmptyCell)
      BY <2>2, Replacing
    <2>4. ~EmptyCell.occ
      BY DEF EmptyCell
    <2>5. /\ buckets' \in Tables(n) /\ Placed(buckets') /\ <<i, f>> \in Filled(n, buckets)
          /\ Filled(n, buckets') = Filled(n, buckets) \ {<<i, f>>}
      BY <1>1, <2>3, <2>4 DEF Replaced
    <2>6. IsFiniteSet(Filled(n, buckets)) /\ size = Cardinality(Filled(n, buckets))
      BY <1>1, <1>2, EntriesAre DEF HashInv, n
    <2>7. size' = Cardinality(Filled(n, buckets'))
      BY <1>7, <2>5, <2>6, FS_RemoveElement
    <2>8. size' \in Nat
      <3>1. IsFiniteSet(Filled(n, buckets'))
        BY <1>1, <2>5, EntriesAre
      <3> QED BY <2>7, <3>1, FS_CardinalityType
    <2>9. broken' = "no" /\ ret' \in Rets /\ ~plain'
      BY <1>2, <1>3, <1>4, <1>7 DEF Returns
    <2> QED BY <1>1, <1>2, <1>3, <2>5, <2>7, <2>8, <2>9, Established
  <1> QED BY <1>5, <1>6, <1>7 DEF RemoveKey

\* nc_hashmap_free and a new table.
LEMMA NewInv ==
  ASSUME HashInv, FreeAndNew
  PROVE  HashInv'
  <1> DEFINE n == InitialSize
  <1>1. n \in Nat \ {0} /\ HashType /\ hashOf' = hashOf /\ broken = "no"
    BY TableAssumption DEF FreeAndNew, HashInv
  <1>2. CASE Looping(buckets) # {}
    <2>1. ~plain
      BY <1>2, PlainEnds
    <2> QED BY <1>1, <1>2, <2>1, SameTable DEF FreeAndNew, Breaks, HashInv
  <1>3. CASE Looping(buckets) = {}
    <2>1. /\ buckets' = Buckets(n) /\ size' = 0 /\ nextSize' = FullAt(n) /\ plain' = TRUE
          /\ ret' = <<"new", Null, TRUE>> /\ broken' = "no"
      BY <1>1, <1>3 DEF FreeAndNew, Returns
    <2>2. /\ buckets' \in Tables(n) /\ Placed(buckets') /\ Shaped(buckets')
          /\ Filled(n, buckets') = {} /\ CellsOf(buckets') = {}
      BY <1>1, <2>1, NewBuckets
    <2>3. Unique(buckets')
      BY <2>2 DEF Unique
    <2>4. ret' \in Rets
      BY <2>1, RetIn
    <2>5. size' = Cardinality(Filled(n, buckets')) /\ size' \in Nat
      BY <2>1, <2>2, FS_EmptySet
    <2> HIDE DEF n
    <2> QED BY <1>1, <2>1, <2>2, <2>3, <2>4, <2>5, Established
  <1> QED BY <1>2, <1>3

\* Every call keeps the invariant.
LEMMA NextInv == HashInv /\ [Next]_vars => HashInv'
  <1> SUFFICES ASSUME HashInv, [Next]_vars PROVE HashInv'
    OBVIOUS
  <1>1. ASSUME NEW p \in Ptr, GrowFails(p) \/ GrowLoops(p) PROVE HashInv'
    BY <1>1, GrowFailsInv
  <1>2. ASSUME NEW p \in Ptr, NEW v \in Value, Put(p, v) PROVE HashInv'
    BY <1>2, PutInv
  <1>3. ASSUME NEW p \in Ptr, NEW v \in Value, PutGrowing(p, v) PROVE HashInv'
    BY <1>3, PutGrowingInv
  <1>4. ASSUME NEW t \in Text, Get(t) \/ EnsureGet(t) \/ ContainsKey(t) PROVE HashInv'
    BY <1>4, LookupInv
  <1>5. ASSUME NEW t \in Text, RemoveKey(t) PROVE HashInv'
    BY <1>5, RemoveInv
  <1>6. CASE FreeAndNew
    BY <1>6, NewInv
  <1>7. CASE UNCHANGED vars
    <2> USE <1>7 DEF vars
    <2>1. NBuckets(buckets)' = NBuckets(buckets)
      BY DEF NBuckets
    <2>2. Placed(buckets)' <=> Placed(buckets)
      BY DEF Placed, Slot
    <2> QED BY <2>1, <2>2 DEF HashInv, HashType, Plain
  <1> QED BY <1>1, <1>2, <1>3, <1>4, <1>5, <1>6, <1>7 DEF Next

-----------------------------------------------------------------------------
\* The inductive invariant holds of every table.
THEOREM Invariant == Spec => []HashInv
  BY InitInv, NextInv, PTL DEF Spec

\* The table, its counters and what the calls return are of their types: every
\* bucket has its head cell, and next_size goes with the array.
THEOREM TypeCorrect == Spec => []TypeOK
  <1>1. HashInv => TypeOK
    <2> SUFFICES ASSUME HashInv PROVE TypeOK
      OBVIOUS
    <2> DEFINE n == NBuckets(buckets)
    <2>1. n \in Nat \ {0} /\ buckets \in Tables(n) /\ DOMAIN buckets = 0 .. n - 1
      BY TableSize DEF HashInv
    <2>2. ASSUME NEW i \in DOMAIN buckets
          PROVE  /\ Len(buckets[i].cells) > 0
                 /\ buckets[i].loop \in 0 .. Len(buckets[i].cells) - 1
                 /\ \A c \in ToSet(buckets[i].cells) :
                      c \in [key : Ptr, val : Value \cup {Null}, occ : {TRUE}] \cup {EmptyCell}
      <3>1. buckets[i] \in ChainSet
        BY <2>1 DEF Tables
      <3>2. \A c \in ToSet(buckets[i].cells) : c \in CellSet
        BY <3>1, Chains DEF ToSet
      <3>3. Len(buckets[i].cells) > 0 /\ buckets[i].loop \in 0 .. Len(buckets[i].cells) - 1
        BY <3>1, Chains
      <3>4. ASSUME NEW c \in CellSet
            PROVE  c \in [key : Ptr, val : Value \cup {Null}, occ : {TRUE}] \cup {EmptyCell}
        BY DEF CellSet
      <3> QED BY <3>2, <3>3, <3>4
    <2> QED BY <2>1, <2>2 DEF HashInv, HashType, TypeOK, Rets
  <1> QED BY <1>1, Invariant, PTL

\* size is the number of entries, whatever puts, replacements, removals, moves
\* and failures came before (hashmap.c:190-197, 263, 400).
THEOREM Counts == Spec => []SizeCounts
  <1>1. HashInv => SizeCounts
    BY EntriesAre DEF HashInv, SizeCounts
  <1> QED BY <1>1, Invariant, PTL

\* After any calls, resizes among them, every entry is in the bucket its hash
\* selects now (hashmap.c:129, 209).
THEOREM AllReachable == Spec => []Reachable
  <1>1. HashInv => Reachable
    <2> SUFFICES ASSUME HashInv, NEW i \in DOMAIN buckets,
                        NEW c \in ToSet(buckets[i].cells), c.occ
                 PROVE  Slot(buckets, TextOf[c.key]) = i
      BY DEF Reachable
    <2>1. buckets[i] \in ChainSet
      BY TableSize DEF HashInv, Tables
    <2>2. PICK j \in 1 .. Len(buckets[i].cells) : c = buckets[i].cells[j]
      BY <2>1, Chains DEF ToSet
    <2> QED BY <2>2 DEF HashInv, Placed
  <1> QED BY <1>1, Invariant, PTL

\* Used as the daemon uses it the table never links a chain into itself, so every
\* call returns (hashmap.c:173-175).
THEOREM PlainReturns == Spec => []PlainCallsReturn
  <1>1. HashInv => PlainCallsReturn
    BY DEF HashInv, Plain, PlainCallsReturn
  <1> QED BY <1>1, Invariant, PTL

-----------------------------------------------------------------------------
(* The table is a map.                                                     *)

Mapping(bs) == [t \in Text |-> LookedUp(bs, t)]

LEMMA StoredIs ==
  ASSUME NEW t \in Text
  PROVE  Stored(t) = LookedUp(buckets, t)
  BY DEF Stored, LookedUp, CellOf

\* The hash function stays; what is stored after a step is in the new table.
LEMMA StoredWillBe ==
  ASSUME hashOf' = hashOf, NEW t \in Text
  PROVE  Stored(t)' = LookedUp(buckets', t)
  <1>1. Slot(buckets, t)' = Slot(buckets', t)
    BY DEF Slot, NBuckets
  <1>2. Chain(buckets, t)' = Chain(buckets', t)
    BY <1>1 DEF Chain
  <1>3. Found(buckets, t)' = Found(buckets', t)
    BY <1>2 DEF Found, SelectInSeq
  <1> QED BY <1>2, <1>3 DEF Stored, LookedUp, CellOf

TheMap == [t \in Text |-> Stored(t)]

\* The map before and after a step.
LEMMA MapIs ==
  /\ TheMap = Mapping(buckets)
  /\ hashOf' = hashOf => TheMap' = Mapping(buckets')
  <1>1. TheMap = Mapping(buckets)
    BY StoredIs DEF TheMap, Mapping
  <1>2. ASSUME hashOf' = hashOf PROVE TheMap' = Mapping(buckets')
    <2>1. \A t \in Text : Stored(t)' = LookedUp(buckets', t)
      BY <1>2, StoredWillBe
    <2>2. TheMap' = [t \in Text |-> Stored(t)']
      BY DEF TheMap
    <2> QED BY <2>1, <2>2 DEF Mapping
  <1> QED BY <1>1, <1>2

\* A text is missing from the map exactly if it is not found.
LEMMA MissingIff ==
  ASSUME HashInv, NEW t \in Text
  PROVE  /\ LookedUp(buckets, t) = Missing <=> Found(buckets, t) = 0
         /\ Found(buckets, t) # 0 => /\ LookedUp(buckets, t) \in Value
                                     /\ LookedUp(buckets, t) = CellOf(t).val
  <1>1. Found(buckets, t) # 0 => LookedUp(buckets, t) = CellOf(t).val
    BY DEF LookedUp, CellOf
  <1>2. Found(buckets, t) # 0 => CellOf(t).val \in Value
    BY CellFound
  <1>3. Found(buckets, t) = 0 => LookedUp(buckets, t) = Missing
    BY DEF LookedUp
  <1> QED BY <1>1, <1>2, <1>3, TableAssumption

\* put, into the table that is there or a grown one: an entry of the map, or none
\* for want of memory.
LEMMA PutMaps ==
  ASSUME HashType, hashOf' = hashOf,
         NEW n \in Nat \ {0}, NEW bs \in Tables(n), Placed(bs), Unique(bs),
         NEW p \in Ptr, NEW v \in Value, Found(bs, TextOf[p]) = 0,
         Mapping(bs) = Mapping(buckets),
         NEW C, NEW k, Holds(n, bs, C, k),
         \/ MemoryMayFail /\ buckets' = bs /\ ret' = <<"put", TextOf[p], FALSE>>
         \/ buckets' = Inserted(bs, p, v) /\ ret' = <<"put", TextOf[p], TRUE>>
  PROVE  Map!Call
  <1> DEFINE t == TextOf[p]
  <1>1. t \in Text
    BY TableAssumption
  <1>2. TheMap = Mapping(bs) /\ TheMap' = Mapping(buckets')
    BY MapIs
  <1>3. CASE MemoryMayFail /\ buckets' = bs /\ ret' = <<"put", t, FALSE>>
    <2>1. TheMap' = TheMap
      BY <1>2, <1>3
    <2>2. Map!PutFails(t)
      BY <1>3, <2>1 DEF Map!PutFails, Map!Returns, TheMap
    <2> QED BY <1>1, <2>2 DEF Map!Call
  <1>4. CASE buckets' = Inserted(bs, p, v) /\ ret' = <<"put", t, TRUE>>
    <2>1. Holds(n, buckets', C \cup {Cell(p, v)}, k + 1)
      BY <1>4, InsertHolds
    <2>2. /\ buckets' \in Tables(n) /\ Placed(buckets')
          /\ CellsOf(buckets') = CellsOf(bs) \cup {Cell(p, v)}
      BY <2>1 DEF Holds
    <2>3. \A u \in Text : LookedUp(buckets', u) = IF u = t THEN v ELSE LookedUp(bs, u)
      BY <2>2, InsertMaps
    <2>4. Mapping(buckets') = [Mapping(bs) EXCEPT ![t] = v]
      BY <2>3 DEF Mapping
    <2>5. Mapping(bs)[t] = Missing
      BY <1>1 DEF Mapping, LookedUp
    <2>6. Map!Put(t, v)
      BY <1>2, <1>4, <2>4, <2>5 DEF Map!Put, Map!Returns, TheMap
    <2> QED BY <1>1, <2>6 DEF Map!Call
  <1> QED BY <1>3, <1>4

\* nc_hashmap_put is a step of the map,
LEMMA PutStep ==
  ASSUME HashInv, NEW p \in Ptr, NEW v \in Value, Put(p, v), plain'
  PROVE  plain /\ Map!Call
  <1> DEFINE n == NBuckets(buckets)
  <1>1. n \in Nat \ {0} /\ HashType /\ ret \in Rets /\ size \in Nat /\ buckets \in Tables(n)
        /\ Placed(buckets)
    BY DEF HashInv
  <1>2. broken = "no" /\ PutInto(buckets, size, p, v) /\ Plainly(TextOf[p])
        /\ hashOf' = hashOf /\ nextSize' = FullAt(n)
    BY DEF Put, HashInv
  <1>3. Holds(n, buckets, CellsOf(buckets), size)
    BY <1>2, InvHolds
  <1>4. /\ plain' \in BOOLEAN /\ plain
        /\ Shaped(buckets) /\ Unique(buckets) /\ Found(buckets, TextOf[p]) = 0
    BY <1>2 DEF Plainly, HashInv, Plain
  <1> HIDE DEF n
  <1>5. \/ MemoryMayFail /\ buckets' = buckets /\ ret' = <<"put", TextOf[p], FALSE>>
        \/ buckets' = Inserted(buckets, p, v) /\ ret' = <<"put", TextOf[p], TRUE>>
    BY <1>1, <1>2, <1>3, <1>4, PutKeeps
  <1> QED BY <1>1, <1>2, <1>3, <1>4, <1>5, PutMaps

\* behind a resize too: the grown table finds what the old one found.
LEMMA PutGrowingStep ==
  ASSUME HashInv, NEW p \in Ptr, NEW v \in Value, PutGrowing(p, v), plain'
  PROVE  plain /\ Map!Call
  <1> DEFINE n     == NBuckets(buckets) * Growth
             es    == Entries(buckets)
             grown == Rehashed(es, n)
  <1>1. HashType /\ ret \in Rets /\ TextOf[p] \in Text
    BY TableAssumption DEF HashInv
  <1>2. broken = "no" /\ PutInto(grown, Len(es), p, v) /\ Plainly(TextOf[p])
        /\ hashOf' = hashOf /\ nextSize' = FullAt(n)
    BY DEF PutGrowing
  <1>3. /\ n \in Nat \ {0}
        /\ Holds(n, grown, CellsOf(grown), Len(es))
        /\ CellsOf(grown) = CellsOf(buckets) /\ Shaped(grown)
        /\ Len(es) \in Nat
        /\ plain => \A t \in Text :
             /\ LookedUp(grown, t) = LookedUp(buckets, t)
             /\ Found(grown, t) = 0 <=> Found(buckets, t) = 0
    BY GrownTable
  <1> HIDE DEF n, es, grown
  <1>4. /\ plain' \in BOOLEAN /\ plain
        /\ Shaped(grown) /\ Unique(grown) /\ Found(grown, TextOf[p]) = 0
    BY <1>1, <1>2, <1>3 DEF Plainly, HashInv, Plain, Unique
  <1>5. \/ MemoryMayFail /\ buckets' = grown /\ ret' = <<"put", TextOf[p], FALSE>>
        \/ buckets' = Inserted(grown, p, v) /\ ret' = <<"put", TextOf[p], TRUE>>
    BY <1>1, <1>2, <1>3, <1>4, PutKeeps
  <1>6. grown \in Tables(n) /\ Placed(grown)
    BY <1>3 DEF Holds
  <1>7. Mapping(grown) = Mapping(buckets)
    BY <1>3, <1>4 DEF Mapping
  <1> QED BY <1>1, <1>2, <1>3, <1>4, <1>5, <1>6, <1>7, PutMaps

\* A call that finds and leaves the table as it is.
LEMMA LookupStep ==
  ASSUME HashInv, plain, NEW t \in Text,
         Get(t) \/ EnsureGet(t) \/ ContainsKey(t) \/ (RemoveKey(t) /\ plain')
  PROVE  Map!Call
  <1> DEFINE f == Found(buckets, t)
  <1>1. ~Endless(t)
    BY PlainEnds
  <1>2. RemoveKey(t) /\ plain' => f = 0
    BY DEF RemoveKey, Plainly, HashInv
  <1>3. hashOf' = hashOf /\ buckets' = buckets
    BY <1>1, <1>2 DEF Get, EnsureGet, ContainsKey, RemoveKey
  <1>4. TheMap = Mapping(buckets) /\ TheMap' = TheMap
    BY <1>3, MapIs
  <1>5. TheMap[t] = LookedUp(buckets, t)
    BY <1>4 DEF Mapping
  <1>6. /\ TheMap[t] = Missing <=> f = 0
        /\ f # 0 => TheMap[t] = CellOf(t).val /\ CellOf(t).val # Null
    BY <1>5, MissingIff, TableAssumption
  <1> HIDE DEF f
  <1>7. CASE Get(t)
    <2>1. ret' = <<"get", t, IF f = 0 THEN Null ELSE CellOf(t).val>>
      BY <1>1, <1>7 DEF Get, Returns, f
    <2>2. ret' = <<"get", t, IF TheMap[t] = Missing THEN Null ELSE TheMap[t]>>
      BY <1>6, <2>1
    <2>3. Map!Get(t)
      BY <1>4, <2>2 DEF Map!Get, Map!Returns, TheMap
    <2> QED BY <2>3 DEF Map!Call
  <1>8. CASE EnsureGet(t)
    <2>1. ret' = <<"ensure_get", t, f # 0>>
      BY <1>1, <1>8 DEF EnsureGet, Returns, f
    <2>2. ret' = <<"ensure_get", t, TheMap[t] # Missing>>
      BY <1>6, <2>1
    <2>3. Map!EnsureGet(t)
      BY <1>4, <2>2 DEF Map!EnsureGet, Map!Returns, TheMap
    <2> QED BY <2>3 DEF Map!Call
  <1>9. CASE ContainsKey(t)
    <2>1. ret' = <<"contains", t, f # 0 /\ CellOf(t).val # Null>>
      BY <1>1, <1>9 DEF ContainsKey, Returns, f
    <2>2. ret' = <<"contains", t, TheMap[t] # Missing>>
      BY <1>6, <2>1
    <2>3. Map!Contains(t)
      BY <1>4, <2>2 DEF Map!Contains, Map!Returns, TheMap
    <2> QED BY <2>3 DEF Map!Call
  <1>10. CASE RemoveKey(t) /\ plain'
    <2>1. f = 0 /\ ret' = <<"remove", t, FALSE>>
      BY <1>1, <1>2, <1>10 DEF RemoveKey, Returns, f
    <2>2. Map!Remove(t)
      BY <1>4, <1>6, <2>1 DEF Map!Remove, Map!Returns, TheMap
    <2> QED BY <2>2 DEF Map!Call
  <1> QED BY <1>7, <1>8, <1>9, <1>10

LEMMA EmptyMaps ==
  ASSUME HashType, NEW n \in Nat \ {0}
  PROVE  Mapping(Buckets(n)) = [t \in Text |-> Missing]
  <1>1. Buckets(n) \in Tables(n) /\ Placed(Buckets(n)) /\ CellsOf(Buckets(n)) = {}
    BY NewBuckets
  <1>2. \A t \in Text : LookedUp(Buckets(n), t) = Missing
    BY <1>1, FindsCells
  <1> QED BY <1>2 DEF Mapping

\* Every step of the table is one of the map, or leaves it as it is.
LEMMA MapStep == HashInv /\ [Next]_vars => [Map!Next]_<<TheMap, ret, plain>>
  <1> SUFFICES ASSUME HashInv, [Next]_vars, plain'
               PROVE  \/ Map!New \/ (plain /\ Map!Call)
                      \/ UNCHANGED <<TheMap, ret, plain>>
    BY DEF Map!Next
  <1>1. ASSUME NEW p \in Ptr, NEW v \in Value, Put(p, v) \/ PutGrowing(p, v)
        PROVE  plain /\ Map!Call
    BY <1>1, PutStep, PutGrowingStep
  <1>2. ASSUME NEW p \in Ptr, GrowFails(p) \/ GrowLoops(p)
        PROVE  plain /\ Map!Call
    <2>1. plain /\ hashOf' = hashOf /\ buckets' = buckets
      BY <1>2 DEF GrowFails, GrowLoops
    <2>2. Looping(buckets) = {}
      BY <2>1, PlainEnds
    <2>3. MemoryMayFail /\ ret' = <<"put", TextOf[p], FALSE>>
      BY <1>2, <2>2 DEF GrowFails, GrowLoops
    <2>4. TheMap' = TheMap
      BY <2>1, MapIs
    <2>5. Map!PutFails(TextOf[p])
      BY <2>3, <2>4 DEF Map!PutFails, Map!Returns, TheMap
    <2> QED BY <2>1, <2>5, TableAssumption DEF Map!Call
  <1>3. ASSUME NEW t \in Text, Get(t) \/ EnsureGet(t) \/ ContainsKey(t) \/ RemoveKey(t)
        PROVE  plain /\ Map!Call
    <2>1. plain
      BY <1>3 DEF Get, EnsureGet, ContainsKey, RemoveKey, Plainly, HashInv
    <2> QED BY <1>3, <2>1, LookupStep
  <1>4. CASE FreeAndNew
    <2>1. Looping(buckets) = {}
      BY <1>4, PlainEnds DEF FreeAndNew
    <2>2. hashOf' = hashOf /\ buckets' = Buckets(InitialSize) /\ ret' = <<"new", Null, TRUE>>
      BY <1>4, <2>1 DEF FreeAndNew, Returns
    <2>3. TheMap' = [t \in Text |-> Missing]
      BY <2>2, MapIs, EmptyMaps, TableAssumption DEF HashInv
    <2> QED BY <2>2, <2>3 DEF Map!New, Map!Returns, TheMap
  <1>5. CASE UNCHANGED vars
    BY <1>5, MapIs DEF vars
  <1> QED BY <1>1, <1>2, <1>3, <1>4, <1>5 DEF Next

\* The table implements the map of hashmap.h: for a program that removes nothing
\* and puts no key it has found nothing is lost or shadowed, by collisions,
\* resizes or failing memory, and every call returns what the header says.
THEOREM IsAMap == Spec => ImplementsMap
  <1>1. Init => Map!Init
    <2> SUFFICES ASSUME Init PROVE Map!Init
      OBVIOUS
    <2>1. HashType /\ InitialSize \in Nat \ {0}
      BY TableAssumption DEF Init, HashType
    <2>2. TheMap = [t \in Text |-> Missing]
      BY <2>1, MapIs, EmptyMaps DEF Init
    <2> QED BY <2>2 DEF Map!Init, Init, TheMap
  <1>2. HashInv /\ [Next]_vars => [Map!Next]_<<TheMap, ret, plain>>
    BY MapStep
  <1> QED BY <1>1, <1>2, Invariant, PTL DEF Spec, ImplementsMap, Map!Spec, TheMap

-----------------------------------------------------------------------------
(* The iterator.                                                           *)

\* The equations of Iterated's recursion.
Continues(f, n, bs) ==
  \A b, i \in Nat :
    f[<<b, i>>] =
      IF b >= n THEN <<>>
      ELSE IF i > Len(bs[b].cells) THEN f[<<b + 1, 1>>]
      ELSE IF bs[b].cells[i].occ THEN <<bs[b].cells[i]>> \o f[<<b, i + 1>>]
      ELSE f[<<b, i + 1>>]

\* The same for one bucket, from any item, s behind the last.
Rows == [Nat \ {0} -> Seq(CellSet)]

IsRow(r, ch, s) ==
  /\ r \in Rows
  /\ \A i \in Nat \ {0} :
       r[i] = IF i > Len(ch.cells) THEN s
              ELSE IF ch.cells[i].occ THEN <<ch.cells[i]>> \o r[i + 1]
              ELSE r[i + 1]

\* There is such a row.
LEMMA RowExists ==
  ASSUME NEW ch \in ChainSet, NEW s \in Seq(CellSet)
  PROVE  \E r : IsRow(r, ch, s)
  <1> DEFINE n == Len(ch.cells)
             V == Seq(CellSet)
             Step(i, x) == IF ch.cells[i].occ THEN <<ch.cells[i]>> \o x ELSE x
             G == [p \in (1 .. n) \X V |-> Step(n + 1 - p[1], p[2])]
  <1>1. n \in Nat /\ \A j \in 1 .. n : ch.cells[j] \in CellSet
    BY Chains
  <1>2. \A i \in 1 .. n, x \in V : Step(i, x) \in V
    BY <1>1
  <1> HIDE DEF n, V, Step
  <1>3. \A j \in 1 .. n : n + 1 - j \in 1 .. n
    BY <1>1
  <1>4. G \in StepMaps(n, V) /\ \A j \in 1 .. n, x \in V : G[<<j, x>>] = Step(n + 1 - j, x)
    BY <1>2, <1>3 DEF StepMaps
  <1> HIDE DEF G
  <1>5. s \in V
    BY DEF V
  <1>6. PICK f : Follows(f, n, V, s, G)
    BY <1>1, <1>4, <1>5, Recursive
  <1> DEFINE r == [i \in Nat \ {0} |-> IF i > n THEN s ELSE f[n + 1 - i]]
  <1>7. r \in [Nat \ {0} -> V]
    BY <1>1, <1>5, <1>6 DEF Follows
  <1>8. ASSUME NEW i \in Nat \ {0}
        PROVE  r[i] = IF i > n THEN s ELSE Step(i, r[i + 1])
    <2>1. CASE i > n
      BY <2>1
    <2>2. CASE ~(i > n)
      <3> DEFINE j == n + 1 - i
      <3>1. j \in 1 .. n /\ n + 1 - j = i /\ j - 1 \in 0 .. n /\ j - 1 = n + 1 - (i + 1)
        BY <1>1, <2>2
      <3>2. f[j - 1] \in V
        BY <1>6, <3>1 DEF Follows
      <3>3. f[j] = Step(i, f[j - 1])
        BY <1>4, <1>6, <3>1, <3>2 DEF Follows
      <3>4. r[i + 1] = f[j - 1]
        <4>1. CASE i = n
          <5>1. i + 1 > n /\ j - 1 = 0
            BY <1>1, <4>1
          <5> QED BY <1>6, <5>1 DEF Follows
        <4>2. CASE i # n
          <5>1. ~(i + 1 > n) /\ i + 1 \in Nat \ {0}
            BY <1>1, <2>2, <4>2
          <5> QED BY <3>1, <5>1
        <4> QED BY <4>1, <4>2
      <3>5. r[i] = f[j]
        BY <2>2
      <3> QED BY <2>2, <3>3, <3>4, <3>5
    <2> QED BY <2>1, <2>2
  <1> HIDE DEF r
  <1>9. IsRow(r, ch, s)
    BY <1>7, <1>8 DEF IsRow, Rows, n, V, Step
  <1> QED BY <1>9

\* So the recursion has a solution for the whole table.
LEMMA ContinuesExists ==
  ASSUME NEW n \in Nat, NEW bs \in Tables(n)
  PROVE  \E g : g = [at \in Nat \X Nat |->
                       IF at[1] >= n THEN <<>>
                       ELSE IF at[2] > Len(bs[at[1]].cells) THEN g[<<at[1] + 1, 1>>]
                       ELSE IF bs[at[1]].cells[at[2]].occ
                       THEN <<bs[at[1]].cells[at[2]]>> \o g[<<at[1], at[2] + 1>>]
                       ELSE g[<<at[1], at[2] + 1>>]]
  <1> DEFINE Row(k, row) == CHOOSE r : IsRow(r, bs[n - k], row[1])
             G == [p \in (1 .. n) \X Rows |-> Row(p[1], p[2])]
             none == [i \in Nat \ {0} |-> <<>>]
  <1>1. ASSUME NEW k \in 1 .. n, NEW row \in Rows
        PROVE  IsRow(Row(k, row), bs[n - k], row[1])
    <2>1. bs[n - k] \in ChainSet
      BY DEF Tables
    <2>2. row[1] \in Seq(CellSet)
      BY DEF Rows
    <2>3. \E r : IsRow(r, bs[n - k], row[1])
      BY <2>1, <2>2, RowExists
    <2> QED BY <2>3
  <1> HIDE DEF Row
  <1>2. G \in StepMaps(n, Rows) /\ \A k \in 1 .. n, row \in Rows : G[<<k, row>>] = Row(k, row)
    BY <1>1 DEF StepMaps, IsRow
  <1> HIDE DEF G
  <1>3. none \in Rows
    BY DEF Rows
  <1> HIDE DEF none
  <1>4. PICK h : Follows(h, n, Rows, none, G)
    BY <1>2, <1>3, Recursive
  <1>5. /\ h \in [0 .. n -> Rows] /\ h[0] = none
        /\ \A k \in 1 .. n : IsRow(h[k], bs[n - k], h[k - 1][1])
    <2>1. h \in [0 .. n -> Rows] /\ h[0] = none
      BY <1>4 DEF Follows
    <2>2. ASSUME NEW k \in 1 .. n PROVE IsRow(h[k], bs[n - k], h[k - 1][1])
      <3>1. h[k - 1] \in Rows /\ h[k] = G[<<k, h[k - 1]>>]
        BY <1>4, <2>1 DEF Follows
      <3>2. h[k] = Row(k, h[k - 1])
        BY <1>2, <3>1
      <3> QED BY <1>1, <3>1, <3>2
    <2> QED BY <2>1, <2>2
  <1> DEFINE first(b) == h[n - b][1]
             g == [at \in Nat \X Nat |->
                     IF at[1] >= n THEN <<>>
                     ELSE IF at[2] > 0 THEN h[n - at[1]][at[2]]
                     ELSE IF at[2] > Len(bs[at[1]].cells) THEN first(at[1] + 1)
                     ELSE IF bs[at[1]].cells[at[2]].occ
                     THEN <<bs[at[1]].cells[at[2]]>> \o first(at[1])
                     ELSE first(at[1])]
             Body(at) == IF at[1] >= n THEN <<>>
                         ELSE IF at[2] > Len(bs[at[1]].cells) THEN g[<<at[1] + 1, 1>>]
                         ELSE IF bs[at[1]].cells[at[2]].occ
                         THEN <<bs[at[1]].cells[at[2]]>> \o g[<<at[1], at[2] + 1>>]
                         ELSE g[<<at[1], at[2] + 1>>]
  <1>6. ASSUME NEW b \in 0 .. n PROVE g[<<b, 1>>] = first(b)
    <2>1. <<b, 1>> \in Nat \X Nat
      OBVIOUS
    <2>2. CASE b = n
      <3>1. first(b) = <<>>
        BY <1>5, <2>2 DEF none
      <3> QED BY <2>1, <2>2, <3>1
    <2>3. CASE b # n
      BY <2>1, <2>3
    <2> QED BY <2>2, <2>3
  <1>7. ASSUME NEW at \in Nat \X Nat PROVE g[at] = Body(at)
    <2> DEFINE b == at[1]
               i == at[2]
    <2>1. b \in Nat /\ i \in Nat /\ at = <<b, i>>
      OBVIOUS
    <2>2. CASE b >= n
      BY <2>2
    <2>3. CASE ~(b >= n)
      <3>1. b \in 0 .. n - 1 /\ b + 1 \in 0 .. n /\ b \in 0 .. n
        BY <2>1, <2>3
      <3>2. g[<<b + 1, 1>>] = first(b + 1) /\ g[<<b, 1>>] = first(b)
        BY <1>6, <3>1
      <3>3. CASE i = 0
        <4>1. <<b, i + 1>> = <<b, 1>>
          BY <3>3
        <4> HIDE DEF first
        <4>2. g[at] = IF i > Len(bs[b].cells) THEN first(b + 1)
                      ELSE IF bs[b].cells[i].occ THEN <<bs[b].cells[i]>> \o first(b)
                      ELSE first(b)
          BY <2>3, <3>3
        <4> HIDE DEF g, b, i
        <4> QED BY <2>3, <3>2, <4>1, <4>2 DEF b, i
      <3>4. CASE i # 0
        <4>1. i \in Nat \ {0} /\ i > 0 /\ i + 1 > 0 /\ <<b, i + 1>> \in Nat \X Nat
              /\ n - b \in 1 .. n /\ n - (n - b) = b /\ (n - b) - 1 = n - (b + 1)
          BY <2>1, <3>1, <3>4
        <4>2. IsRow(h[n - b], bs[b], first(b + 1))
          BY <1>5, <4>1
        <4>3. h[n - b][i] = IF i > Len(bs[b].cells) THEN first(b + 1)
                            ELSE IF bs[b].cells[i].occ THEN <<bs[b].cells[i]>> \o h[n - b][i + 1]
                            ELSE h[n - b][i + 1]
          BY <4>1, <4>2 DEF IsRow
        <4>4. g[at] = h[n - b][i]
          BY <2>3, <4>1
        <4>5. g[<<b, i + 1>>] = h[n - b][i + 1]
          BY <2>3, <4>1
        <4> HIDE DEF g, b, i, first
        <4> QED BY <2>3, <3>2, <4>3, <4>4, <4>5 DEF b, i
      <3> QED BY <3>3, <3>4
    <2> QED BY <2>2, <2>3
  <1>8. g = [at \in Nat \X Nat |-> g[at]]
    OBVIOUS
  <1> HIDE DEF g
  <1>9. g = [at \in Nat \X Nat |-> Body(at)]
    BY <1>7, <1>8, Zenon
  <1> QED BY <1>9

\* What the iterator yields satisfies the equations.
LEMMA IteratedDef ==
  ASSUME NEW n \in Nat, NEW bs \in Tables(n)
  PROVE  \E f : Continues(f, n, bs) /\ Iterated(bs) = f[<<0, 1>>]
  <1> DEFINE m == NBuckets(bs)
             Body(f, at) ==
               IF at[1] >= NBuckets(bs) THEN <<>>
               ELSE IF at[2] > Len(bs[at[1]].cells) THEN f[<<at[1] + 1, 1>>]
               ELSE IF bs[at[1]].cells[at[2]].occ
               THEN <<bs[at[1]].cells[at[2]]>> \o f[<<at[1], at[2] + 1>>]
               ELSE f[<<at[1], at[2] + 1>>]
             Is(f) == f = [at \in Nat \X Nat |-> Body(f, at)]
             f == CHOOSE g : Is(g)
  <1>1. \E g : Is(g)
    <2>1. m \in Nat /\ bs \in Tables(m)
      BY TableSize
    <2> QED BY <2>1, ContinuesExists
  <1>2. Is(f)
    BY <1>1
  <1>3. Iterated(bs) = f[<<0, 1>>]
    BY DEF Iterated, IterItem
  <1> HIDE DEF f
  <1>4. \A at \in Nat \X Nat : f[at] = Body(f, at)
    <2> HIDE DEF Body
    <2> QED BY <1>2, Zenon
  <1>5. ASSUME NEW b \in Nat, NEW i \in Nat
        PROVE f[<<b, i>>] =
                IF b >= n THEN <<>>
                ELSE IF i > Len(bs[b].cells) THEN f[<<b + 1, 1>>]
                ELSE IF bs[b].cells[i].occ THEN <<bs[b].cells[i]>> \o f[<<b, i + 1>>]
                ELSE f[<<b, i + 1>>]
    <2>1. <<b, i>> \in Nat \X Nat /\ <<b, i>>[1] = b /\ <<b, i>>[2] = i
      OBVIOUS
    <2> QED BY <1>4, <2>1, TableSize
  <1> QED BY <1>3, <1>5 DEF Continues

\* The filled positions from cell i of bucket b on.
From(n, bs, b, i) == {q \in Filled(n, bs) : q[1] > b \/ (q[1] = b /\ q[2] >= i)}

\* One position at a time, from the end.
LEMMA FromNext ==
  ASSUME NEW n \in Nat, NEW bs \in Tables(n), NEW b \in 0 .. n - 1
  PROVE  /\ \A i \in 1 .. Len(bs[b].cells) :
              /\ <<b, i>> \notin From(n, bs, b, i + 1)
              /\ From(n, bs, b, i) = From(n, bs, b, i + 1) \cup
                   (IF bs[b].cells[i].occ THEN {<<b, i>>} ELSE {})
         /\ From(n, bs, b + 1, 1) = From(n, bs, b, Len(bs[b].cells) + 1)
  <1>1. Len(bs[b].cells) \in Nat
    BY Chains DEF Tables
  <1>2. ASSUME NEW i \in 1 .. Len(bs[b].cells)
        PROVE  /\ <<b, i>> \notin From(n, bs, b, i + 1)
               /\ From(n, bs, b, i) = From(n, bs, b, i + 1) \cup
                    (IF bs[b].cells[i].occ THEN {<<b, i>>} ELSE {})
    <2>1. <<b, i>> \notin From(n, bs, b, i + 1)
      BY DEF From
    <2>2. ASSUME NEW q \in Filled(n, bs)
          PROVE  q \in From(n, bs, b, i) <=> q \in From(n, bs, b, i + 1) \/ q = <<b, i>>
      <3>1. q \in (0 .. n - 1) \X Nat
        BY InFilled
      <3>2. q = <<q[1], q[2]>> /\ q[1] \in Nat /\ q[2] \in Nat
        BY <3>1
      <3>3. q[2] >= i <=> q[2] >= i + 1 \/ q[2] = i
        BY <3>2
      <3> QED BY <3>2, <3>3 DEF From
    <2>3. bs[b].cells[i].occ <=> <<b, i>> \in Filled(n, bs)
      BY <1>1, InFilled
    <2>4. From(n, bs, b, i) \subseteq Filled(n, bs) /\ From(n, bs, b, i + 1) \subseteq Filled(n, bs)
      BY DEF From
    <2> QED BY <2>1, <2>2, <2>3, <2>4
  <1>3. From(n, bs, b + 1, 1) = From(n, bs, b, Len(bs[b].cells) + 1)
    <2>1. ASSUME NEW q \in Filled(n, bs)
          PROVE  q \in From(n, bs, b + 1, 1) <=> q \in From(n, bs, b, Len(bs[b].cells) + 1)
      <3>1. q[1] \in 0 .. n - 1 /\ q[2] \in 1 .. Len(bs[q[1]].cells)
        BY DEF Filled
      <3> QED BY <1>1, <3>1 DEF From
    <2> QED BY <2>1 DEF From
  <1> QED BY <1>2, <1>3

LEMMA CountedFirst ==
  ASSUME NEW bs, NEW s, NEW Q, Counted(bs, s, Q),
         NEW i, NEW j, <<i, j>> \notin Q, bs[i].cells[j] \in CellSet
  PROVE  Counted(bs, <<bs[i].cells[j]>> \o s, Q \cup {<<i, j>>})
  <1> DEFINE c == bs[i].cells[j]
  <1>1. <<c>> \in Seq(CellSet) /\ Len(<<c>>) = 1 /\ s \in Seq(CellSet)
    BY DEF Counted
  <1>2. ToSet(<<c>>) = {c}
    BY DEF ToSet
  <1> HIDE DEF c
  <1>3. /\ <<c>> \o s \in Seq(CellSet) /\ Len(<<c>> \o s) = 1 + Len(s)
        /\ ToSet(<<c>> \o s) = {c} \cup ToSet(s)
    <2>1. ToSet(<<c>> \o s) = ToSet(<<c>>) \cup ToSet(s)
      BY <1>1, Joined
    <2> QED BY <1>1, <1>2, <2>1
  <1>4. /\ IsFiniteSet(Q \cup {<<i, j>>})
        /\ Cardinality(Q \cup {<<i, j>>}) = Cardinality(Q) + 1
        /\ Cardinality(Q) \in Nat
    BY FS_AddElement, FS_CardinalityType DEF Counted
  <1>5. At(bs, Q \cup {<<i, j>>}) = At(bs, Q) \cup {c}
    BY DEF At, c
  <1>6. Counted(bs, <<c>> \o s, Q \cup {<<i, j>>})
    <2>1. Len(s) = Cardinality(Q) /\ ToSet(s) = At(bs, Q)
      BY DEF Counted
    <2>2. Len(<<c>> \o s) = Cardinality(Q \cup {<<i, j>>})
      BY <1>3, <1>4, <2>1
    <2>3. ToSet(<<c>> \o s) = At(bs, Q \cup {<<i, j>>})
      BY <1>3, <1>5, <2>1
    <2> QED BY <1>3, <1>4, <2>2, <2>3, Zenon DEF Counted
  <1> QED BY <1>6 DEF c

\* The items of one more bucket.
LEMMA IterateBucket ==
  ASSUME NEW n \in Nat, NEW bs \in Tables(n), NEW f, Continues(f, n, bs), NEW b \in 0 .. n - 1,
         Counted(bs, f[<<b + 1, 1>>], From(n, bs, b + 1, 1))
  PROVE  Counted(bs, f[<<b, 1>>], From(n, bs, b, 1))
  <1> DEFINE l == Len(bs[b].cells)
             S == {j \in 0 .. l : Counted(bs, f[<<b, l + 1 - j>>], From(n, bs, b, l + 1 - j))}
  <1>1. l \in Nat /\ \A j \in 1 .. l : bs[b].cells[j] \in CellSet
    BY Chains DEF Tables
  <1>2. \A i \in Nat :
          f[<<b, i>>] = IF i > l THEN f[<<b + 1, 1>>]
                        ELSE IF bs[b].cells[i].occ THEN <<bs[b].cells[i]>> \o f[<<b, i + 1>>]
                        ELSE f[<<b, i + 1>>]
    BY DEF Continues
  <1>3. From(n, bs, b + 1, 1) = From(n, bs, b, l + 1)
    BY FromNext
  <1>4. \A i \in 1 .. l : /\ <<b, i>> \notin From(n, bs, b, i + 1)
                          /\ From(n, bs, b, i) = From(n, bs, b, i + 1) \cup
                               (IF bs[b].cells[i].occ THEN {<<b, i>>} ELSE {})
    BY FromNext
  <1> HIDE DEF l
  <1>5. \A j \in 0 .. l :
          j \in S <=> Counted(bs, f[<<b, l + 1 - j>>], From(n, bs, b, l + 1 - j))
    OBVIOUS
  <1> HIDE DEF S
  <1>6. 0 \in S
    <2>1. l + 1 \in Nat /\ l + 1 > l /\ l + 1 - 0 = l + 1 /\ 0 \in 0 .. l
      BY <1>1
    <2>2. f[<<b, l + 1>>] = f[<<b + 1, 1>>]
      BY <1>2, <2>1
    <2>3. Counted(bs, f[<<b, l + 1 - 0>>], From(n, bs, b, l + 1 - 0))
      BY <1>3, <2>1, <2>2
    <2> QED BY <1>5, <2>1, <2>3, Zenon
  <1>7. ASSUME NEW j \in 1 .. l, j - 1 \in S PROVE j \in S
    <2> DEFINE i == l + 1 - j
               c == bs[b].cells[i]
    <2>1. /\ i \in 1 .. l /\ i \in Nat /\ ~(i > l) /\ l + 1 - (j - 1) = i + 1
          /\ j \in 0 .. l /\ j - 1 \in 0 .. l
      BY <1>1
    <2>2. Counted(bs, f[<<b, i + 1>>], From(n, bs, b, i + 1))
      <3>1. Counted(bs, f[<<b, l + 1 - (j - 1)>>], From(n, bs, b, l + 1 - (j - 1)))
        BY <1>5, <1>7, <2>1
      <3> HIDE DEF i
      <3> QED BY <2>1, <3>1
    <2>3. c \in CellSet
      BY <1>1, <2>1
    <2> HIDE DEF i
    <2>4. CASE c.occ
      <3>1. f[<<b, i>>] = <<c>> \o f[<<b, i + 1>>]
        BY <1>2, <2>1, <2>4
      <3>2. From(n, bs, b, i) = From(n, bs, b, i + 1) \cup {<<b, i>>}
        BY <1>4, <2>1, <2>4
      <3>3. <<b, i>> \notin From(n, bs, b, i + 1)
        BY <1>4, <2>1
      <3>4. Counted(bs, <<c>> \o f[<<b, i + 1>>], From(n, bs, b, i + 1) \cup {<<b, i>>})
        BY <2>2, <2>3, <3>3, CountedFirst
      <3>5. Counted(bs, f[<<b, i>>], From(n, bs, b, i))
        BY <3>1, <3>2, <3>4
      <3> QED BY <1>5, <2>1, <3>5 DEF i
    <2>5. CASE ~c.occ
      <3>1. f[<<b, i>>] = f[<<b, i + 1>>]
        BY <1>2, <2>1, <2>5
      <3>2. From(n, bs, b, i) = From(n, bs, b, i + 1)
        <4>1. From(n, bs, b, i) = From(n, bs, b, i + 1) \cup (IF c.occ THEN {<<b, i>>} ELSE {})
          BY <1>4, <2>1
        <4> HIDE DEF c
        <4> QED BY <2>5, <4>1
      <3>3. Counted(bs, f[<<b, i>>], From(n, bs, b, i))
        BY <2>2, <3>1, <3>2
      <3> QED BY <1>5, <2>1, <3>3 DEF i
    <2> QED BY <2>4, <2>5
  <1>8. l \in S
    <2>1. l \in Nat
      BY <1>1
    <2>2. 0 .. l \subseteq S
      BY <1>6, <1>7, <2>1, InductiveUpTo
    <2> QED BY <2>1, <2>2
  <1>9. l + 1 - l = 1 /\ l \in 0 .. l
    BY <1>1
  <1> QED BY <1>5, <1>8, <1>9

\* The iterator meets every filled position, each once (hashmap.c:429-480).
LEMMA IteratedCount ==
  ASSUME NEW n \in Nat, NEW bs \in Tables(n)
  PROVE  Counted(bs, Iterated(bs), Filled(n, bs))
  <1>1. PICK f : Continues(f, n, bs) /\ Iterated(bs) = f[<<0, 1>>]
    BY IteratedDef
  <1> DEFINE S == {k \in 0 .. n : Counted(bs, f[<<n - k, 1>>], From(n, bs, n - k, 1))}
  <1>2. \A k \in 0 .. n : k \in S <=> Counted(bs, f[<<n - k, 1>>], From(n, bs, n - k, 1))
    OBVIOUS
  <1> HIDE DEF S
  <1>3. 0 \in S
    <2>1. n - 0 = n /\ 0 \in 0 .. n
      OBVIOUS
    <2>2. f[<<n, 1>>] = <<>>
      <3>1. n >= n /\ 1 \in Nat
        OBVIOUS
      <3> QED BY <1>1, <3>1 DEF Continues
    <2>3. From(n, bs, n, 1) = {}
      BY DEF From, Filled
    <2>4. ToSet(<<>>) = {} /\ At(bs, {}) = {} /\ <<>> \in Seq(CellSet) /\ Len(<<>>) = 0
      BY DEF ToSet, At
    <2>5. Counted(bs, <<>>, {})
      BY <2>4, FS_EmptySet DEF Counted
    <2>6. Counted(bs, f[<<n - 0, 1>>], From(n, bs, n - 0, 1))
      BY <2>1, <2>2, <2>3, <2>5
    <2> QED BY <1>2, <2>1, <2>6, Zenon
  <1>4. ASSUME NEW k \in 1 .. n, k - 1 \in S PROVE k \in S
    <2> DEFINE b == n - k
    <2>1. b \in 0 .. n - 1 /\ n - (k - 1) = b + 1 /\ k \in 0 .. n /\ k - 1 \in 0 .. n
      OBVIOUS
    <2>2. Counted(bs, f[<<b + 1, 1>>], From(n, bs, b + 1, 1))
      <3>1. Counted(bs, f[<<n - (k - 1), 1>>], From(n, bs, n - (k - 1), 1))
        BY <1>2, <1>4, <2>1
      <3> HIDE DEF b
      <3> QED BY <2>1, <3>1
    <2> HIDE DEF b
    <2>3. Counted(bs, f[<<b, 1>>], From(n, bs, b, 1))
      BY <1>1, <2>1, <2>2, IterateBucket
    <2> QED BY <1>2, <2>1, <2>3 DEF b
  <1>5. n \in S
    BY <1>3, <1>4, InductiveUpTo
  <1>6. From(n, bs, 0, 1) = Filled(n, bs)
    BY DEF From, Filled
  <1>7. n - n = 0 /\ n \in 0 .. n
    OBVIOUS
  <1> QED BY <1>1, <1>2, <1>5, <1>6, <1>7

\* The iterator yields as many items as size says, and among them whatever a
\* lookup would find (hashmap.h:231).
THEOREM IterationComplete == Spec => []IteratesAll
  <1>1. HashInv => IteratesAll
    <2> SUFFICES ASSUME HashInv, broken = "no"
                 PROVE  /\ Len(Iterated(buckets)) = size
                        /\ \A t \in Text : Found(buckets, t) # 0 =>
                             \E c \in ToSet(Iterated(buckets)) :
                               TextOf[c.key] = t /\ c.val = Stored(t)
      BY DEF IteratesAll
    <2> DEFINE n == NBuckets(buckets)
    <2>1. /\ n \in Nat \ {0} /\ buckets \in Tables(n) /\ Placed(buckets) /\ HashType
          /\ size = Cardinality(Filled(n, buckets))
      BY DEF HashInv
    <2> HIDE DEF n
    <2>2. Counted(buckets, Iterated(buckets), Filled(n, buckets))
      BY <2>1, IteratedCount
    <2>3. /\ Counted(buckets, Entries(buckets), Filled(n, buckets))
          /\ ToSet(Entries(buckets)) = CellsOf(buckets)
      BY <2>1, EntriesCount, EntriesAre
    <2>4. ToSet(Iterated(buckets)) = CellsOf(buckets)
      BY <2>2, <2>3 DEF Counted
    <2>5. ASSUME NEW t \in Text, Found(buckets, t) # 0
          PROVE  \E c \in ToSet(Iterated(buckets)) : TextOf[c.key] = t /\ c.val = Stored(t)
      <3>1. PICK c \in CellsOf(buckets) : TextOf[c.key] = t /\ LookedUp(buckets, t) = c.val
        BY <2>1, <2>5, FindsCells
      <3> QED BY <2>4, <3>1, StoredIs
    <2> QED BY <2>1, <2>2, <2>5 DEF Counted
  <1> QED BY <1>1, Invariant, PTL
====
