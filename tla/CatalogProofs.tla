--------------------------- MODULE CatalogProofs ---------------------------
(***************************************************************************)
(* Proofs about the catalog.  What a reload finds and what memory holds    *)
(* are related only through the pages, so the inductive invariant says     *)
(* what is on them: a chain of entry pages that the walk follows whole, a  *)
(* schema page of its own for each table ever created, the definitions     *)
(* page; and what each side keeps of a live entry, whose id and columns    *)
(* stay below the allocators.  That holds even after a dropped table's id  *)
(* has been handed out again.  Until then it is exact as well: an id is    *)
(* stored once, and memory and the pages hold the same entry for it.       *)
(***************************************************************************)
EXTENDS Catalog, FiniteSetTheorems, SequenceTheorems, TLAPS

Entry == [id : Nat \ {0}, name : TableNames, schema : Nat, rows : Nat, active : BOOLEAN]

EntryPages(pgs) == {p \in DOMAIN pgs : pgs[p].kind = "entries"}
Stored(pgs) == UNION {ToSet(pgs[p].entries) : p \in EntryPages(pgs)}
Live(pgs) == {e \in Stored(pgs) : e.active}
Cols(pgs, e) == ToSet(pgs[e.schema].cols)

\* c is the chain of all the entry pages, in the order of their links.
IsChain(c, pgs) ==
    /\ c \in Seq(Nat) /\ Len(c) > 0 /\ c[1] = FirstEntriesPage
    /\ \A k \in 1..Len(c) : c[k] \in EntryPages(pgs) /\ c[k] # NoPage
    /\ \A j, k \in 1..Len(c) : c[j] = c[k] => j = k
    /\ \A k \in 1..(Len(c) - 1) : pgs[c[k]].next = c[k + 1]
    /\ pgs[c[Len(c)]].next = NoPage
    /\ \A p \in EntryPages(pgs) : \E k \in 1..Len(c) : c[k] = p

----------------------------------------------------------------------------
(* The inductive invariant, part by part.                                  *)

MemFields == {"names", "entries", "schemas", "entryPage", "catPage", "nextTable",
              "nextCol", "nextIndex", "nextFree", "indexPage", "indexes"}

Shapes ==
    /\ DOMAIN mem = MemFields
    /\ DOMAIN ghost = {"made", "given", "reused", "complete", "overlap", "marked", "gone"}
    /\ ghost.reused \in BOOLEAN

PagesShape ==
    /\ mem.nextFree \in Nat /\ mem.nextFree >= 2
    /\ DOMAIN pages = 0..(mem.nextFree - 1)
    /\ pages[RootPage] = RootMeta(mem.nextFree, mem.indexPage)
    /\ \A p \in EntryPages(pages) :
          /\ pages[p] = EntriesPage(pages[p].entries, pages[p].next)
          /\ pages[p].entries \in Seq(Entry)

ChainWhole ==
    LET c == Chain(pages, FirstEntriesPage)
    IN  IsChain(c, pages) /\ c[Len(c)] = mem.catPage

\* Each table ever created was given a schema page of its own.
GivenPages ==
    /\ IsFiniteSet(ghost.given) /\ Cardinality(ghost.given) <= MaxTables
    /\ \A g \in ghost.given :
          /\ g = <<g[1], g[2]>> /\ g[1] \in 1..Cardinality(ghost.given)
          /\ g[2] \in 1..(mem.nextFree - 1) /\ pages[g[2]].kind = "schema"
    /\ \A g, h \in ghost.given : g[2] = h[2] => g = h
    /\ \A e \in Stored(pages) : <<e.id, e.schema>> \in ghost.given

\* A live entry's id and columns are below the allocators and nobody else's.
LiveApart ==
    /\ mem.nextTable \in 1..(Cardinality(ghost.given) + 1) /\ mem.nextCol \in Nat \ {0}
    /\ \A e \in Live(pages) : e.id < mem.nextTable /\ Cols(pages, e) \subseteq 1..(mem.nextCol - 1)
    /\ \A e, f \in Live(pages) :
          IF e.id = f.id THEN e.schema = f.schema
          ELSE Cols(pages, e) \cap Cols(pages, f) = {}

\* What memory holds of a table, and that an entry live there is live on the
\* pages.
MemOfPages ==
    /\ DOMAIN mem.names \subseteq TableNames
    /\ \A x \in DOMAIN mem.names : mem.names[x] \in DOMAIN mem.entries
    /\ DOMAIN mem.entryPage = DOMAIN mem.entries
    /\ DOMAIN mem.schemas \subseteq DOMAIN mem.entries
    /\ \A t \in DOMAIN mem.schemas : ToSet(mem.schemas[t]) \subseteq 1..(mem.nextCol - 1)
    /\ \A t \in DOMAIN mem.entries :
          /\ mem.entries[t] \in Entry /\ mem.entries[t].id = t
          /\ <<t, mem.entries[t].schema>> \in ghost.given
          /\ mem.entryPage[t] \in EntryPages(pages)
          /\ mem.entries[t].active =>
                /\ t \in DOMAIN mem.schemas
                /\ mem.schemas[t] = pages[mem.entries[t].schema].cols
                /\ \E e \in Live(pages) : e.id = t /\ e.schema = mem.entries[t].schema

IndexDefs ==
    /\ mem.nextIndex \in Nat \ {0} /\ mem.nextIndex = NextAfter(DOMAIN mem.indexes)
    /\ DOMAIN mem.indexes \subseteq 1..(mem.nextIndex - 1)
    /\ IF mem.indexPage = NoPage THEN mem.indexes = Empty
       ELSE mem.indexPage \in 1..(mem.nextFree - 1) /\ pages[mem.indexPage] = DefsPage(mem.indexes)
    /\ DOMAIN contents = DOMAIN mem.indexes

Statements ==
    /\ \A t \in DOMAIN files : files[t] \in Seq({"blank", "row", "node"})
    /\ \A j \in inserting : j.table \in DOMAIN mem.entries

\* As long as no id was handed out twice, an id is stored once, and memory and
\* the pages hold the same entry for it.
Exact ==
    /\ \A g, h \in ghost.given : g[1] = h[1] => g = h
    /\ \A p, q \in EntryPages(pages) :
          \A i \in DOMAIN pages[p].entries, j \in DOMAIN pages[q].entries :
             pages[p].entries[i].id = pages[q].entries[j].id => p = q /\ i = j
    /\ \A e \in Stored(pages) : e.id \in DOMAIN mem.entries
    /\ \A t \in DOMAIN mem.entries : mem.entries[t] \in ToSet(pages[mem.entryPage[t]].entries)
    /\ \A x \in DOMAIN mem.names :
          mem.entries[mem.names[x]].active /\ mem.entries[mem.names[x]].name = x
    /\ \A t \in DOMAIN mem.entries :
          mem.entries[t].active =>
             mem.entries[t].name \in DOMAIN mem.names /\ mem.names[mem.entries[t].name] = t
    /\ DOMAIN ghost.made = DOMAIN mem.names
    /\ \A x \in DOMAIN mem.names : ghost.made[x] = mem.schemas[mem.names[x]]

IInv ==
    /\ Shapes /\ PagesShape /\ ChainWhole /\ GivenPages
    /\ LiveApart /\ MemOfPages /\ IndexDefs /\ Statements
    /\ ~ghost.reused => Exact

----------------------------------------------------------------------------
(* Greatest and least elements.                                            *)

\* A bounded set of numbers has a greatest: were there none, one more than each
\* number up to a member would again be one, and that is an injection of a finite
\* set into itself that misses 0.
LEMMA Greatest ==
  ASSUME NEW S \in SUBSET Nat, S # {}, NEW b \in Nat, \A n \in S : n <= b
  PROVE  \E m \in S : \A n \in S : n <= m
<1> SUFFICES ASSUME \A m \in S : \E n \in S : n > m
             PROVE  FALSE
  OBVIOUS
<1> DEFINE D == {i \in 0 .. b : \E n \in S : i <= n}
           f == [i \in D |-> i + 1]
<1>1. IsFiniteSet(D)
  <2>1. IsFiniteSet(0 .. b)
    BY FS_Interval
  <2>2. D \in SUBSET (0 .. b)
    OBVIOUS
  <2> HIDE DEF D
  <2> QED
    BY <2>1, <2>2, FS_Subset
<1>2. \A i \in D : i + 1 \in D \ {0}
  OBVIOUS
<1>3. f \in Injection(D, D \ {0})
  BY <1>2 DEF Injection, IsInjective
<1>4. 0 \in D
  <2>1. PICK n \in S : n \in Nat
    OBVIOUS
  <2>2. 0 \in 0 .. b /\ 0 <= n
    BY <2>1
  <2> QED
    BY <2>1, <2>2
<1>5. Cardinality(D \ {0}) = Cardinality(D) - 1 /\ IsFiniteSet(D \ {0})
  BY <1>1, <1>4, FS_RemoveElement
<1>6. Cardinality(D) <= Cardinality(D \ {0}) /\ Cardinality(D) \in Nat
  BY <1>1, <1>3, <1>5, FS_Injection, FS_CardinalityType
<1> QED
  BY <1>5, <1>6

LEMMA MaxIs ==
  ASSUME NEW S \in SUBSET Nat, S # {}, NEW b \in Nat, \A n \in S : n <= b
  PROVE  Max(S) \in S /\ \A n \in S : n <= Max(S)
<1>1. \E m \in S : \A n \in S : m >= n
  BY Greatest
<1>2. Max(S) \in S /\ \A n \in S : Max(S) >= n
  BY <1>1 DEF Max
<1> QED
  BY <1>2

\* The least of a set is b less the greatest distance below a member b.
LEMMA MinIs ==
  ASSUME NEW S \in SUBSET Nat, S # {}
  PROVE  Min(S) \in S /\ \A n \in S : Min(S) <= n
<1>1. PICK b \in S : b \in Nat
  OBVIOUS
<1> DEFINE T == {d \in 0 .. b : b - d \in S}
<1>2. T \in SUBSET Nat /\ 0 \in T /\ \A d \in T : d <= b
  BY <1>1
<1>3. PICK m \in T : \A d \in T : d <= m
  <2> HIDE DEF T
  <2> QED
    BY <1>1, <1>2, Greatest
<1>4. b - m \in S
  BY <1>3
<1>5. ASSUME NEW n \in S PROVE b - m <= n
  <2>1. n \in Nat /\ b \in Nat /\ m \in 0 .. b
    BY <1>1, <1>3
  <2>2. CASE n > b
    BY <2>1, <2>2
  <2>3. CASE n <= b
    <3>1. b - n \in 0 .. b /\ b - (b - n) = n
      BY <2>1, <2>3
    <3>2. b - n \in T
      BY <3>1
    <3> QED
      BY <2>1, <3>1, <3>2, <1>3
  <2> QED
    BY <2>1, <2>2, <2>3
<1>6. \E x \in S : \A n \in S : x <= n
  BY <1>4, <1>5
<1> QED
  BY <1>6 DEF Min

\* NextAfter is above every id and no higher than it must be.
LEMMA NextAfterIs ==
  ASSUME NEW b \in Nat, NEW S \in SUBSET (1 .. b)
  PROVE  NextAfter(S) \in 1 .. (b + 1) /\ \A n \in S : n < NextAfter(S)
<1>1. CASE S = {}
  BY <1>1 DEF NextAfter
<1>2. CASE S # {}
  <2>1. S \in SUBSET Nat /\ \A n \in S : n <= b
    OBVIOUS
  <2>2. Max(S) \in S /\ \A n \in S : n <= Max(S)
    BY <1>2, <2>1, MaxIs
  <2>3. NextAfter(S) = Max(S) + 1
    BY <1>2 DEF NextAfter
  <2>4. Max(S) \in 1 .. b
    BY <2>2
  <2>5. \A n \in S : n \in Nat /\ n < Max(S) + 1
    BY <2>1, <2>2, <2>4
  <2> QED
    BY <2>3, <2>4, <2>5
<1> QED
  BY <1>1, <1>2

LEMMA NextAfterAdd ==
  ASSUME NEW n \in Nat \ {0}, NEW S \in SUBSET (1 .. (n - 1))
  PROVE  NextAfter(S \cup {n}) = n + 1
<1> DEFINE T == S \cup {n}
<1>1. T \in SUBSET (1 .. n) /\ n \in T /\ T # {}
  OBVIOUS
<1> HIDE DEF T
<1>2. T \in SUBSET Nat /\ \A k \in T : k <= n
  BY <1>1
<1>3. Max(T) \in T /\ n <= Max(T)
  BY <1>1, <1>2, MaxIs
<1>4. Max(T) \in 1 .. n
  BY <1>1, <1>3
<1>5. Max(T) = n
  BY <1>3, <1>4
<1>6. NextAfter(T) = n + 1
  BY <1>1, <1>5 DEF NextAfter
<1> QED
  BY <1>6 DEF T

\* The latest of some places is one of them.
LEMMA LatestIn ==
  ASSUME NEW S, S # {}, NEW n \in Nat,
         \A a \in S : a = <<a[1], a[2]>> /\ a[1] \in 1 .. n /\ a[2] \in Nat,
         \A k \in 1 .. n : \E b \in Nat : \A a \in S : a[1] = k => a[2] <= b
  PROVE  Latest(S) \in S
<1> DEFINE K == {a[1] : a \in S}
           k == Max(K)
           T == {b \in S : b[1] = k}
           I == {a[2] : a \in T}
<1>1. K \in SUBSET Nat /\ K # {} /\ \A x \in K : x <= n
  OBVIOUS
<1>2. k \in K
  <2> HIDE DEF K
  <2> QED
    BY <1>1, MaxIs
<1>3. k \in 1 .. n /\ T # {}
  BY <1>2
<1>4. PICK b \in Nat : \A a \in S : a[1] = k => a[2] <= b
  BY <1>3
<1>5. I \in SUBSET Nat /\ I # {} /\ \A x \in I : x <= b
  BY <1>3, <1>4
<1>6. Max(I) \in I
  <2> HIDE DEF I
  <2> QED
    BY <1>5, MaxIs
<1>7. PICK a \in T : a[2] = Max(I)
  BY <1>6
<1>8. a \in S /\ a = <<k, Max(I)>>
  BY <1>7
<1> QED
  BY <1>8 DEF Latest

----------------------------------------------------------------------------
(* The walk along the chain.                                               *)

\* The walk from the first page is the chain: from its k-th page on it can
\* only be the rest of the chain, as a counterexample with the greatest k
\* shows.
LEMMA ChainIs ==
  ASSUME NEW pgs, NEW c, IsChain(c, pgs)
  PROVE  Chain(pgs, FirstEntriesPage) = c
<1> DEFINE n == Len(c)
           P == {r \in DOMAIN pgs : pgs[r].kind = "entries"}
           Rest(k) == SubSeq(c, k, n)
           F(f) == [q \in P |-> IF pgs[q].next = NoPage THEN <<q>> ELSE <<q>> \o f[pgs[q].next]]
           Pos(q) == CHOOSE k \in 1 .. n : c[k] = q
           g == [q \in P |-> Rest(Pos(q))]
<1>1. /\ c \in Seq(Nat) /\ n \in Nat \ {0} /\ c[1] = FirstEntriesPage
      /\ \A k \in 1 .. n : c[k] \in P /\ c[k] # NoPage
      /\ \A j, k \in 1 .. n : c[j] = c[k] => j = k
      /\ \A k \in 1 .. (n - 1) : pgs[c[k]].next = c[k + 1]
      /\ pgs[c[n]].next = NoPage
      /\ \A p \in P : \E k \in 1 .. n : c[k] = p
  BY DEF IsChain, EntryPages
<1> HIDE DEF P
<1>2. Rest(n) = <<c[n]>>
  <2>1. n \in 1 .. n /\ Head(Rest(n)) = c[n] /\ Len(Rest(n)) = 1 /\ Rest(n) \in Seq(Nat)
    BY <1>1, HeadTailOfSubSeq, SubSeqProperties
  <2> HIDE DEF Rest
  <2> QED
    BY <2>1
<1>3. \A k \in 1 .. (n - 1) : Rest(k) = <<c[k]>> \o Rest(k + 1)
  <2>1. \A k \in 1 .. (n - 1) : k \in 1 .. n /\ n \in k .. n
    BY <1>1
  <2> QED
    BY <1>1, <2>1, SubSeqRecursiveFirst
<1>4. Rest(1) = c
  BY <1>1, SubSeqFull
<1> HIDE DEF Rest
<1>5. \A q \in P : Pos(q) \in 1 .. n /\ c[Pos(q)] = q
  BY <1>1
<1>6. \A k \in 1 .. n : Pos(c[k]) = k /\ g[c[k]] = Rest(k)
  BY <1>1, <1>5
<1> HIDE DEF Pos
<1>7. g = F(g)
  <2> SUFFICES ASSUME NEW q \in P
               PROVE  g[q] = IF pgs[q].next = NoPage THEN <<q>> ELSE <<q>> \o g[pgs[q].next]
    OBVIOUS
  <2> DEFINE k == Pos(q)
  <2>1. k \in 1 .. n /\ c[k] = q
    BY <1>5
  <2>2. CASE k = n
    BY <1>1, <1>2, <1>6, <2>1, <2>2
  <2>3. CASE k # n
    <3>1. k \in 1 .. (n - 1) /\ k + 1 \in 1 .. n
      BY <1>1, <2>1, <2>3
    <3>2. pgs[q].next = c[k + 1] /\ c[k + 1] # NoPage
      BY <1>1, <2>1, <3>1
    <3>3. g[q] = Rest(k) /\ g[c[k + 1]] = Rest(k + 1)
      BY <1>6, <2>1, <3>1
    <3> QED
      BY <1>3, <2>1, <3>1, <3>2, <3>3
  <2> QED
    BY <2>2, <2>3
<1>8. ASSUME NEW f, f = F(f)
      PROVE  f[c[1]] = c
  <2> DEFINE B == {k \in 1 .. n : f[c[k]] # Rest(k)}
  <2>1. \A k \in 1 .. n : f[c[k]] = IF pgs[c[k]].next = NoPage THEN <<c[k]>>
                                     ELSE <<c[k]>> \o f[pgs[c[k]].next]
    BY <1>1, <1>8
  <2>2. B = {}
    <3> SUFFICES ASSUME B # {} PROVE FALSE
      OBVIOUS
    <3>1. B \in SUBSET Nat /\ \A k \in B : k <= n
      BY <1>1
    <3>2. PICK m \in B : \A k \in B : k <= m
      <4> HIDE DEF B
      <4> QED
        BY <1>1, <3>1, Greatest
    <3>3. m \in 1 .. n /\ f[c[m]] # Rest(m)
      BY <3>2
    <3>4. CASE m = n
      BY <1>1, <1>2, <2>1, <3>3, <3>4
    <3>5. CASE m # n
      <4>1. m \in 1 .. (n - 1) /\ m + 1 \in 1 .. n /\ ~(m + 1 <= m)
        BY <1>1, <3>3, <3>5
      <4>2. f[c[m + 1]] = Rest(m + 1)
        BY <3>2, <4>1
      <4>3. pgs[c[m]].next = c[m + 1] /\ c[m + 1] # NoPage
        BY <1>1, <4>1
      <4>4. f[c[m]] = <<c[m]>> \o Rest(m + 1)
        BY <2>1, <3>3, <4>2, <4>3
      <4> QED
        BY <1>3, <3>3, <4>1, <4>4
    <3> QED
      BY <3>4, <3>5
  <2>3. f[c[1]] = Rest(1)
    BY <1>1, <2>2
  <2> QED
    BY <1>4, <2>3
<1>9. Chain(pgs, c[1]) = (CHOOSE f : f = F(f))[c[1]]
  BY DEF Chain, P
<1>10. (CHOOSE f : f = F(f)) = F(CHOOSE f : f = F(f))
  BY <1>7
<1> HIDE DEF F
<1> QED
  BY <1>1, <1>8, <1>9, <1>10

----------------------------------------------------------------------------
(* What a load finds.                                                      *)

\* The walk comes to each stored entry, and to nothing else; the latest of some
\* places is one of them.
LEMMA PlacesAre ==
  ASSUME NEW pgs, NEW c, IsChain(c, pgs),
         \A p \in EntryPages(pgs) : pgs[p].entries \in Seq(Entry)
  PROVE  /\ \A a \in Places(pgs, c) :
               /\ a = <<a[1], a[2]>> /\ a[1] \in 1 .. Len(c) /\ c[a[1]] \in EntryPages(pgs)
               /\ a[2] \in DOMAIN pgs[c[a[1]]].entries
               /\ pgs[c[a[1]]].entries[a[2]] \in Stored(pgs)
         /\ \A e \in Stored(pgs) : \E a \in Places(pgs, c) : pgs[c[a[1]]].entries[a[2]] = e
         /\ \A S \in SUBSET Places(pgs, c) : S # {} => Latest(S) \in S
<1> DEFINE n == Len(c)
<1>1. /\ n \in Nat /\ DOMAIN c = 1 .. n
      /\ \A k \in 1 .. n : c[k] \in EntryPages(pgs)
      /\ \A p \in EntryPages(pgs) : \E k \in 1 .. n : c[k] = p
  BY DEF IsChain
<1>2. ASSUME NEW a \in Places(pgs, c)
      PROVE  /\ a = <<a[1], a[2]>> /\ a[1] \in 1 .. n /\ c[a[1]] \in EntryPages(pgs)
             /\ a[2] \in DOMAIN pgs[c[a[1]]].entries
             /\ pgs[c[a[1]]].entries[a[2]] \in Stored(pgs)
  <2>1. PICK k \in 1 .. n : a \in {k} \X DOMAIN pgs[c[k]].entries
    BY <1>1 DEF Places
  <2>2. a = <<k, a[2]>> /\ a[1] = k /\ a[2] \in DOMAIN pgs[c[k]].entries
    BY <2>1
  <2>3. c[k] \in EntryPages(pgs)
    BY <1>1
  <2>4. pgs[c[k]].entries[a[2]] \in ToSet(pgs[c[k]].entries)
    BY <2>2 DEF ToSet
  <2>5. pgs[c[k]].entries[a[2]] \in Stored(pgs)
    BY <2>3, <2>4 DEF Stored
  <2> QED
    BY <2>2, <2>3, <2>5
<1>3. ASSUME NEW e \in Stored(pgs)
      PROVE  \E a \in Places(pgs, c) : pgs[c[a[1]]].entries[a[2]] = e
  <2>1. PICK p \in EntryPages(pgs) : e \in ToSet(pgs[p].entries)
    BY DEF Stored
  <2>2. PICK i \in DOMAIN pgs[p].entries : pgs[p].entries[i] = e
    BY <2>1 DEF ToSet
  <2>3. PICK k \in 1 .. n : c[k] = p
    BY <1>1
  <2> DEFINE a == <<k, i>>
  <2>4. a \in {k} \X DOMAIN pgs[c[k]].entries /\ a[1] = k /\ a[2] = i
    BY <2>2, <2>3
  <2>5. a \in Places(pgs, c)
    BY <1>1, <2>4 DEF Places
  <2> QED
    BY <2>2, <2>3, <2>4, <2>5
<1>4. ASSUME NEW S \in SUBSET Places(pgs, c), S # {}
      PROVE  Latest(S) \in S
  <2>1. \A k \in 1 .. n : /\ Len(pgs[c[k]].entries) \in Nat
                          /\ DOMAIN pgs[c[k]].entries = 1 .. Len(pgs[c[k]].entries)
    BY <1>1, LenProperties
  <2>2. \A a \in S : a = <<a[1], a[2]>> /\ a[1] \in 1 .. n /\ a[2] \in 1 .. Len(pgs[c[a[1]]].entries)
    BY <1>2, <2>1
  <2>3. \A a \in S : a[2] \in Nat
    BY <2>1, <2>2
  <2>4. ASSUME NEW k \in 1 .. n
        PROVE  \E b \in Nat : \A a \in S : a[1] = k => a[2] <= b
    <3>1. \A a \in S : a[1] = k => a[2] <= Len(pgs[c[k]].entries)
      BY <2>1, <2>2
    <3> QED
      BY <2>1, <3>1
  <2> QED
    BY <1>1, <1>4, <2>2, <2>3, <2>4, LatestIn
<1> QED
  BY <1>2, <1>3, <1>4

\* What the walk along c makes of the maps, opened by name where it is needed.
WalkAt(pgs, c, a) == pgs[c[a[1]]].entries[a[2]]
WalkLive(pgs, c) == {a \in Places(pgs, c) : WalkAt(pgs, c, a).active}
WalkOf(pgs, c, S, t) == {a \in S : WalkAt(pgs, c, a).id = t}
WalkNamed(pgs, c, x) == {a \in WalkLive(pgs, c) : WalkAt(pgs, c, a).name = x}
WalkIds(pgs, c, S) == {WalkAt(pgs, c, a).id : a \in S}

WalkNames(pgs, c) ==
    [x \in {WalkAt(pgs, c, a).name : a \in WalkLive(pgs, c)} |->
        WalkAt(pgs, c, Latest(WalkNamed(pgs, c, x))).id]
WalkEntries(pgs, c) ==
    [t \in WalkIds(pgs, c, Places(pgs, c)) |->
        WalkAt(pgs, c, Latest(WalkOf(pgs, c, Places(pgs, c), t)))]
WalkEntryPage(pgs, c) ==
    [t \in WalkIds(pgs, c, Places(pgs, c)) |-> c[Latest(WalkOf(pgs, c, Places(pgs, c), t))[1]]]
WalkSchemas(pgs, c) ==
    [t \in WalkIds(pgs, c, WalkLive(pgs, c)) |->
        pgs[WalkAt(pgs, c, Latest(WalkOf(pgs, c, WalkLive(pgs, c), t))).schema].cols]

\* The record a load builds, field by field.
LEMMA LoadShape ==
  ASSUME NEW pgs, NEW c, IsChain(c, pgs), NEW m, m = LoadFromDisk(pgs)
  PROVE  /\ DOMAIN m = MemFields
         /\ m.names = WalkNames(pgs, c) /\ m.entries = WalkEntries(pgs, c)
         /\ m.entryPage = WalkEntryPage(pgs, c) /\ m.schemas = WalkSchemas(pgs, c)
         /\ m.nextTable = NextAfter(WalkIds(pgs, c, WalkLive(pgs, c)))
         /\ m.catPage = c[Len(c)]
         /\ m.nextFree = pgs[RootPage].total /\ m.indexPage = pgs[RootPage].index
         /\ m.nextCol = NextColumn(m)
         /\ IF m.indexPage = NoPage THEN m.indexes = Empty /\ m.nextIndex = 1
            ELSE /\ m.indexes = pgs[m.indexPage].defs
                 /\ m.nextIndex = NextAfter(DOMAIN pgs[m.indexPage].defs)
<1> DEFINE start == [Blank EXCEPT !.nextFree = pgs[RootPage].total, !.indexPage = pgs[RootPage].index]
           walked == LoadChain(start, pgs)
           tables == LoadTables(pgs)
<1>1. walked =
         [start EXCEPT !.names = WalkNames(pgs, c), !.entries = WalkEntries(pgs, c),
                       !.entryPage = WalkEntryPage(pgs, c), !.schemas = WalkSchemas(pgs, c),
                       !.nextTable = NextAfter(WalkIds(pgs, c, WalkLive(pgs, c))),
                       !.catPage = c[Len(c)]]
  <2>1. Chain(pgs, FirstEntriesPage) = c
    BY ChainIs
  <2> QED
    BY <2>1 DEF LoadChain, WalkNames, WalkEntries, WalkEntryPage, WalkSchemas, WalkAt, WalkLive,
                WalkOf, WalkNamed, WalkIds
<1>2. tables = [walked EXCEPT !.nextCol = NextColumn(walked)]
  BY DEF LoadTables
<1>3. m = IF tables.indexPage = NoPage THEN tables
          ELSE [tables EXCEPT !.indexes = pgs[tables.indexPage].defs,
                              !.nextIndex = NextAfter(DOMAIN pgs[tables.indexPage].defs)]
  BY DEF LoadFromDisk, LoadIndexes
<1>4. /\ DOMAIN start = MemFields /\ start.indexes = Empty /\ start.nextIndex = 1
      /\ start.nextFree = pgs[RootPage].total /\ start.indexPage = pgs[RootPage].index
  BY DEF Blank, MemFields
<1> HIDE DEF start, walked, tables
<1>5. /\ DOMAIN walked = MemFields /\ walked.indexes = Empty /\ walked.nextIndex = 1
      /\ walked.nextFree = pgs[RootPage].total /\ walked.indexPage = pgs[RootPage].index
      /\ walked.names = WalkNames(pgs, c) /\ walked.entries = WalkEntries(pgs, c)
      /\ walked.entryPage = WalkEntryPage(pgs, c) /\ walked.schemas = WalkSchemas(pgs, c)
      /\ walked.nextTable = NextAfter(WalkIds(pgs, c, WalkLive(pgs, c)))
      /\ walked.catPage = c[Len(c)]
  BY <1>1, <1>4 DEF MemFields
<1>6. /\ DOMAIN tables = MemFields /\ tables.indexes = Empty /\ tables.nextIndex = 1
      /\ tables.nextFree = pgs[RootPage].total /\ tables.indexPage = pgs[RootPage].index
      /\ tables.names = WalkNames(pgs, c) /\ tables.entries = WalkEntries(pgs, c)
      /\ tables.entryPage = WalkEntryPage(pgs, c) /\ tables.schemas = WalkSchemas(pgs, c)
      /\ tables.nextTable = NextAfter(WalkIds(pgs, c, WalkLive(pgs, c)))
      /\ tables.catPage = c[Len(c)] /\ tables.nextCol = NextColumn(walked)
  BY <1>2, <1>5 DEF MemFields
<1>7. /\ DOMAIN m = MemFields
      /\ m.nextFree = tables.nextFree /\ m.indexPage = tables.indexPage
      /\ m.names = tables.names /\ m.entries = tables.entries
      /\ m.entryPage = tables.entryPage /\ m.schemas = tables.schemas
      /\ m.nextTable = tables.nextTable
      /\ m.catPage = tables.catPage /\ m.nextCol = tables.nextCol
      /\ IF m.indexPage = NoPage THEN m.indexes = Empty /\ m.nextIndex = 1
         ELSE /\ m.indexes = pgs[m.indexPage].defs
              /\ m.nextIndex = NextAfter(DOMAIN pgs[m.indexPage].defs)
  <2>1. CASE tables.indexPage = NoPage
    BY <1>3, <1>6, <2>1
  <2>2. CASE tables.indexPage # NoPage
    BY <1>3, <1>6, <2>2 DEF MemFields
  <2> QED
    BY <2>1, <2>2
<1>8. NextColumn(m) = NextColumn(walked)
  BY <1>5, <1>6, <1>7 DEF NextColumn
<1> QED
  BY <1>6, <1>7, <1>8

\* What the walk leaves in memory, of the entries on the pages.
HoldsPages(m, pgs) ==
    /\ DOMAIN m.names = {e.name : e \in Live(pgs)}
    /\ \A x \in DOMAIN m.names : \E e \in Live(pgs) : e.name = x /\ m.names[x] = e.id
    /\ DOMAIN m.entries = {e.id : e \in Stored(pgs)} /\ DOMAIN m.entryPage = DOMAIN m.entries
    /\ \A t \in DOMAIN m.entries :
          \E p \in EntryPages(pgs) : \E i \in DOMAIN pgs[p].entries :
             /\ m.entryPage[t] = p /\ m.entries[t] = pgs[p].entries[i]
             /\ m.entries[t].id = t /\ m.entries[t] \in Stored(pgs)
    /\ DOMAIN m.schemas = {e.id : e \in Live(pgs)}
    /\ \A t \in DOMAIN m.schemas :
          \E e \in Live(pgs) : e.id = t /\ m.schemas[t] = pgs[e.schema].cols
    /\ m.nextTable = NextAfter({e.id : e \in Live(pgs)})

\* A load takes from the pages: names, entries and schemas are those of stored
\* entries, the names and schemas of live ones.
LEMMA LoadIs ==
  ASSUME NEW pgs, NEW c, IsChain(c, pgs),
         \A p \in EntryPages(pgs) : pgs[p].entries \in Seq(Entry),
         NEW m, m = LoadFromDisk(pgs)
  PROVE  HoldsPages(m, pgs)
<1> DEFINE At(a) == WalkAt(pgs, c, a)
           found == Places(pgs, c)
           live == WalkLive(pgs, c)
           Of(S, t) == WalkOf(pgs, c, S, t)
           Named(x) == WalkNamed(pgs, c, x)
<1>1. /\ \A a \in found : /\ c[a[1]] \in EntryPages(pgs)
                          /\ a[2] \in DOMAIN pgs[c[a[1]]].entries
                          /\ At(a) \in Stored(pgs)
      /\ \A e \in Stored(pgs) : \E a \in found : At(a) = e
      /\ \A S \in SUBSET found : S # {} => Latest(S) \in S
  BY PlacesAre DEF WalkAt
<1>2. /\ m.names = WalkNames(pgs, c) /\ m.entries = WalkEntries(pgs, c)
      /\ m.entryPage = WalkEntryPage(pgs, c) /\ m.schemas = WalkSchemas(pgs, c)
      /\ m.nextTable = NextAfter(WalkIds(pgs, c, live)) /\ m.catPage = c[Len(c)]
  BY LoadShape
<1>3. /\ m.names = [x \in {At(a).name : a \in live} |-> At(Latest(Named(x))).id]
      /\ m.entries = [t \in {At(a).id : a \in found} |-> At(Latest(Of(found, t)))]
      /\ m.entryPage = [t \in {At(a).id : a \in found} |-> c[Latest(Of(found, t))[1]]]
      /\ m.schemas = [t \in {At(a).id : a \in live} |-> pgs[At(Latest(Of(live, t))).schema].cols]
      /\ m.nextTable = NextAfter({At(a).id : a \in live})
  BY <1>2 DEF WalkNames, WalkEntries, WalkEntryPage, WalkSchemas, WalkIds
<1>4. /\ live = {a \in found : At(a).active}
      /\ \A S, t : Of(S, t) = {a \in S : At(a).id = t}
      /\ \A x : Named(x) = {a \in live : At(a).name = x}
  BY DEF WalkLive, WalkOf, WalkNamed
<1> HIDE DEF found, At, live, Of, Named
<1>5. (\A a \in live : At(a) \in Live(pgs)) /\ \A e \in Live(pgs) : \E a \in live : At(a) = e
  BY <1>1, <1>4 DEF Live
<1>6. /\ {At(a).id : a \in live} = {e.id : e \in Live(pgs)}
      /\ {At(a).name : a \in live} = {e.name : e \in Live(pgs)}
      /\ {At(a).id : a \in found} = {e.id : e \in Stored(pgs)}
  <2>1. {At(a).id : a \in live} = {e.id : e \in Live(pgs)}
    BY <1>5
  <2>2. {At(a).name : a \in live} = {e.name : e \in Live(pgs)}
    BY <1>5
  <2>3. {At(a).id : a \in found} = {e.id : e \in Stored(pgs)}
    BY <1>1
  <2> QED
    BY <2>1, <2>2, <2>3
<1>7. ASSUME NEW x \in {At(a).name : a \in live}
      PROVE  Latest(Named(x)) \in live /\ At(Latest(Named(x))).name = x
  <2>1. Named(x) \in SUBSET found /\ Named(x) # {}
    BY <1>4
  <2> QED
    BY <1>1, <1>4, <2>1
<1>8. ASSUME NEW t \in {At(a).id : a \in found}
      PROVE  Latest(Of(found, t)) \in found /\ At(Latest(Of(found, t))).id = t
  <2>1. Of(found, t) \in SUBSET found /\ Of(found, t) # {}
    BY <1>4
  <2> QED
    BY <1>1, <1>4, <2>1
<1>9. ASSUME NEW t \in {At(a).id : a \in live}
      PROVE  Latest(Of(live, t)) \in live /\ At(Latest(Of(live, t))).id = t
  <2>1. Of(live, t) \in SUBSET found /\ Of(live, t) # {}
    BY <1>4
  <2> QED
    BY <1>1, <1>4, <2>1
<1>10. \A x \in DOMAIN m.names : \E e \in Live(pgs) : e.name = x /\ m.names[x] = e.id
  BY <1>3, <1>5, <1>7
<1>11. ASSUME NEW t \in DOMAIN m.entries
       PROVE  \E p \in EntryPages(pgs) : \E i \in DOMAIN pgs[p].entries :
                  /\ m.entryPage[t] = p /\ m.entries[t] = pgs[p].entries[i]
                  /\ m.entries[t].id = t /\ m.entries[t] \in Stored(pgs)
  <2> DEFINE a == Latest(Of(found, t))
  <2>1. m.entries[t] = At(a) /\ m.entryPage[t] = c[a[1]] /\ a \in found /\ At(a).id = t
    BY <1>3, <1>8
  <2>2. c[a[1]] \in EntryPages(pgs) /\ a[2] \in DOMAIN pgs[c[a[1]]].entries /\ At(a) \in Stored(pgs)
    BY <1>1, <2>1
  <2> QED
    BY <2>1, <2>2 DEF At, WalkAt
<1>12. \A t \in DOMAIN m.schemas :
          \E e \in Live(pgs) : e.id = t /\ m.schemas[t] = pgs[e.schema].cols
  BY <1>3, <1>5, <1>9
<1>13. /\ DOMAIN m.names = {At(a).name : a \in live} /\ DOMAIN m.entries = {At(a).id : a \in found}
       /\ DOMAIN m.entryPage = {At(a).id : a \in found} /\ DOMAIN m.schemas = {At(a).id : a \in live}
  BY <1>3
<1> QED
  BY <1>2, <1>3, <1>6, <1>10, <1>11, <1>12, <1>13 DEF HoldsPages

----------------------------------------------------------------------------
(* What the operations write.                                              *)

\* The fields that PersistNewEntry and PersistUpdatedEntry leave alone.
SameTables(m, n) ==
    /\ m.names = n.names /\ m.entries = n.entries /\ m.schemas = n.schemas
    /\ m.nextTable = n.nextTable /\ m.nextCol = n.nextCol
SameIndexes(m, n) ==
    m.nextIndex = n.nextIndex /\ m.indexPage = n.indexPage /\ m.indexes = n.indexes

\* An object with its pages, as the operations are handed it.
WellFormed(s) ==
    /\ s = [m |-> s.m, pg |-> s.pg] /\ DOMAIN s.m = MemFields
    /\ s.m.nextFree \in Nat /\ s.m.nextFree >= 2 /\ DOMAIN s.pg = 0 .. (s.m.nextFree - 1)
    /\ s.m.catPage \in 1 .. (s.m.nextFree - 1)
    /\ s.pg[s.m.catPage] = EntriesPage(s.pg[s.m.catPage].entries, s.pg[s.m.catPage].next)

\* A new entry goes to the end of the newest page, or to a page linked after it.
LEMMA NewEntryEffect ==
  ASSUME NEW s, WellFormed(s), NEW e, NEW r, r = PersistNewEntry(s, e)
  PROVE  LET cat == s.m.catPage
             free == s.m.nextFree
             old == s.pg[cat]
             full == Len(old.entries) >= PageCapacity
             cur == IF full THEN free ELSE cat
         IN  /\ r = [m |-> r.m, pg |-> r.pg] /\ DOMAIN r.m = MemFields
             /\ SameTables(r.m, s.m) /\ SameIndexes(r.m, s.m)
             /\ r.m.catPage = cur /\ r.m.entryPage = Put(s.m.entryPage, e.id, cur)
             /\ r.m.nextFree = IF full THEN free + 1 ELSE free
             /\ DOMAIN r.pg = 0 .. (r.m.nextFree - 1)
             /\ r.pg[RootPage] = RootMeta(r.m.nextFree, s.m.indexPage)
             /\ \A p \in DOMAIN s.pg \ {RootPage, cat} : r.pg[p] = s.pg[p]
             /\ full => /\ r.pg[cat] = EntriesPage(old.entries, free)
                        /\ r.pg[free] = EntriesPage(<<e>>, NoPage)
             /\ ~full => r.pg[cat] = EntriesPage(Append(old.entries, e), old.next)
<1> DEFINE cat == s.m.catPage
           free == s.m.nextFree
           old == s.pg[cat]
           full == Len(old.entries) >= PageCapacity
           cur == IF full THEN free ELSE cat
           linked == [s EXCEPT !.pg = WritePage(@, cat, [@[cat] EXCEPT !.next = free])]
           l == LinkNewPage(s)
           u == IF full THEN l ELSE s
           w == [m |-> [u.m EXCEPT !.entryPage = Put(@, e.id, u.m.catPage)],
                 pg |-> WritePage(u.pg, u.m.catPage, [u.pg[u.m.catPage] EXCEPT !.entries = Append(@, e)])]
<1>1. r = [w EXCEPT !.pg = WritePage(@, RootPage, RootMeta(w.m.nextFree, w.m.indexPage))]
  BY DEF PersistNewEntry, PersistRootMeta
<1>2. l = [[m |-> [linked.m EXCEPT !.nextFree = @ + 1],
            pg |-> WritePage(linked.pg, linked.m.nextFree, EntriesPage(<<>>, NoPage))]
             EXCEPT !.m.catPage = free]
  BY DEF LinkNewPage, AllocateDiskPage
<1>3. /\ s = [m |-> s.m, pg |-> s.pg] /\ DOMAIN s.m = MemFields
      /\ free \in Nat /\ free >= 2 /\ DOMAIN s.pg = 0 .. (free - 1) /\ cat \in 1 .. (free - 1)
      /\ old = EntriesPage(old.entries, old.next)
  BY DEF WellFormed
<1>4. linked.m = s.m /\ linked.pg = WritePage(s.pg, cat, [old EXCEPT !.next = free])
  BY <1>3
<1> HIDE DEF l, linked, u, w
<1>5. /\ l = [m |-> l.m, pg |-> l.pg]
      /\ l.m = [[s.m EXCEPT !.nextFree = @ + 1] EXCEPT !.catPage = free]
      /\ l.pg = WritePage(linked.pg, free, EntriesPage(<<>>, NoPage))
  BY <1>2, <1>4
<1>6. /\ DOMAIN l.m = MemFields /\ l.m.catPage = free /\ l.m.nextFree = free + 1
      /\ l.m.entryPage = s.m.entryPage /\ SameTables(l.m, s.m) /\ SameIndexes(l.m, s.m)
  BY <1>3, <1>5 DEF MemFields, SameTables, SameIndexes
<1>7. /\ DOMAIN linked.pg = 0 .. (free - 1)
      /\ \A p \in (0 .. (free - 1)) \ {cat} : linked.pg[p] = s.pg[p]
      /\ linked.pg[cat] = EntriesPage(old.entries, free)
  <2>1. [old EXCEPT !.next = free] = EntriesPage(old.entries, free)
    BY <1>3 DEF EntriesPage
  <2> QED
    BY <1>3, <1>4, <2>1 DEF WritePage
<1>8. /\ DOMAIN l.pg = 0 .. free
      /\ \A p \in (0 .. (free - 1)) \ {cat} : l.pg[p] = s.pg[p]
      /\ l.pg[cat] = EntriesPage(old.entries, free) /\ l.pg[free] = EntriesPage(<<>>, NoPage)
  <2>1. /\ l.pg = [q \in DOMAIN linked.pg \cup {free} |->
                    IF q = free THEN EntriesPage(<<>>, NoPage) ELSE linked.pg[q]]
    BY <1>5 DEF WritePage
  <2>2. (0 .. (free - 1)) \cup {free} = 0 .. free /\ free \notin 0 .. (free - 1)
    BY <1>3
  <2> QED
    BY <1>3, <1>7, <2>1, <2>2
<1> DEFINE last == IF full THEN 0 .. free ELSE 0 .. (free - 1)
           kept == IF full THEN <<>> ELSE old.entries
           next == IF full THEN NoPage ELSE old.next
<1>9. /\ u = [m |-> u.m, pg |-> u.pg] /\ DOMAIN u.m = MemFields /\ u.m.catPage = cur
      /\ u.m.nextFree = (IF full THEN free + 1 ELSE free) /\ u.m.entryPage = s.m.entryPage
      /\ SameTables(u.m, s.m) /\ SameIndexes(u.m, s.m)
      /\ DOMAIN u.pg = last /\ u.pg[cur] = EntriesPage(kept, next) /\ cur \in last
      /\ full => u.pg[cat] = EntriesPage(old.entries, free)
      /\ \A p \in (0 .. (free - 1)) \ {cat} : u.pg[p] = s.pg[p]
  <2>1. CASE full
    <3>1. u = l /\ cur = free /\ last = 0 .. free /\ kept = <<>> /\ next = NoPage
      BY <2>1 DEF u
    <3> HIDE DEF cur, last, kept, next
    <3>2. free \in 0 .. free
      BY <1>3
    <3> QED
      BY <1>5, <1>6, <1>8, <2>1, <3>1, <3>2
  <2>2. CASE ~full
    BY <1>3, <2>2 DEF u, SameTables, SameIndexes
  <2> QED
    BY <2>1, <2>2
<1> HIDE DEF last, kept, next, cur
<1>10. /\ w.m = [u.m EXCEPT !.entryPage = Put(@, e.id, u.m.catPage)]
       /\ w.pg = WritePage(u.pg, cur, [u.pg[cur] EXCEPT !.entries = Append(@, e)])
       /\ w = [m |-> w.m, pg |-> w.pg]
  BY <1>9 DEF w
<1>11. /\ DOMAIN w.m = MemFields /\ SameTables(w.m, s.m) /\ SameIndexes(w.m, s.m)
       /\ w.m.catPage = cur /\ w.m.nextFree = u.m.nextFree
       /\ w.m.entryPage = Put(s.m.entryPage, e.id, cur)
  BY <1>9, <1>10 DEF MemFields, SameTables, SameIndexes
<1>12. [u.pg[cur] EXCEPT !.entries = Append(@, e)] = EntriesPage(Append(kept, e), next)
  <2> DEFINE page == u.pg[cur]
  <2>1. page = [kind |-> "entries", entries |-> kept, next |-> next]
    BY <1>9 DEF EntriesPage
  <2> HIDE DEF page
  <2>2. [page EXCEPT !.entries = Append(@, e)] =
           [kind |-> "entries", entries |-> Append(kept, e), next |-> next]
    BY <2>1
  <2> QED
    BY <2>2 DEF page, EntriesPage
<1>13. /\ DOMAIN w.pg = last /\ w.pg[cur] = EntriesPage(Append(kept, e), next)
       /\ \A p \in last \ {cur} : w.pg[p] = u.pg[p]
  BY <1>9, <1>10, <1>12 DEF WritePage
<1>14. /\ r = [m |-> r.m, pg |-> r.pg] /\ r.m = w.m
       /\ r.pg = WritePage(w.pg, RootPage, RootMeta(w.m.nextFree, w.m.indexPage))
  BY <1>1, <1>10
<1>15. /\ DOMAIN r.pg = last /\ r.pg[RootPage] = RootMeta(w.m.nextFree, w.m.indexPage)
       /\ \A p \in last \ {RootPage} : r.pg[p] = w.pg[p]
  BY <1>3, <1>13, <1>14 DEF WritePage, RootPage, last
<1>16. last = 0 .. (r.m.nextFree - 1) /\ cat \in last \ {RootPage} /\ free # cat
  BY <1>3, <1>9, <1>11, <1>14 DEF RootPage, last
<1>17. /\ \A p \in DOMAIN s.pg \ {RootPage, cat} : r.pg[p] = s.pg[p]
       /\ full => /\ r.pg[cat] = EntriesPage(old.entries, free)
                  /\ r.pg[free] = EntriesPage(<<e>>, NoPage)
       /\ ~full => r.pg[cat] = EntriesPage(Append(old.entries, e), old.next)
  <2>1. \A p \in DOMAIN s.pg \ {RootPage, cat} : p \in last \ {RootPage} /\ p # cur
    BY <1>3 DEF last, cur
  <2>2. free \in Nat /\ free # RootPage /\ (full => free \in last)
    BY <1>3 DEF RootPage, last
  <2>3. Append(<<>>, e) = <<e>>
    OBVIOUS
  <2>4. \A p \in DOMAIN s.pg \ {RootPage, cat} : r.pg[p] = s.pg[p]
    BY <1>3, <1>9, <1>13, <1>15, <2>1
  <2>5. ASSUME full PROVE r.pg[cat] = EntriesPage(old.entries, free) /\ r.pg[free] = EntriesPage(<<e>>, NoPage)
    BY <1>9, <1>13, <1>15, <1>16, <2>2, <2>3, <2>5 DEF cur, kept, next
  <2>6. ASSUME ~full PROVE r.pg[cat] = EntriesPage(Append(old.entries, e), old.next)
    BY <1>13, <1>15, <1>16, <2>6 DEF cur, kept, next
  <2> QED
    BY <2>4, <2>5, <2>6
<1>18. w.m.indexPage = s.m.indexPage
  BY <1>11 DEF SameIndexes
<1> QED
  BY <1>9, <1>11, <1>14, <1>15, <1>16, <1>17, <1>18 DEF cur

\* An object with its pages whose map names an entry page for t.
Updatable(s, t) ==
    LET p == s.m.entryPage[t]
    IN  /\ s = [m |-> s.m, pg |-> s.pg] /\ p \in DOMAIN s.pg
        /\ s.pg[p] = EntriesPage(s.pg[p].entries, s.pg[p].next)
        /\ s.pg[p].entries \in Seq(Entry)

WithEntry(es, i, e) == [es EXCEPT ![i] = e]

\* An updated entry replaces one of its id on the page the map names, if there
\* is one, and nothing else changes.
Rewritten(s, t, r) ==
    LET p == s.m.entryPage[t]
        es == s.pg[p].entries
    IN  /\ r = [m |-> r.m, pg |-> r.pg] /\ r.m = s.m /\ DOMAIN r.pg = DOMAIN s.pg
        /\ \A q \in DOMAIN s.pg \ {p} : r.pg[q] = s.pg[q]
        /\ \/ r.pg[p] = s.pg[p] /\ \A i \in DOMAIN es : es[i].id # t
           \/ \E i \in DOMAIN es :
                 /\ es[i].id = t
                 /\ r.pg[p] = EntriesPage(WithEntry(es, i, s.m.entries[t]), s.pg[p].next)

LEMMA UpdatedEffect ==
  ASSUME NEW s, NEW t, Updatable(s, t), NEW r, r = PersistUpdatedEntry(s, t)
  PROVE  Rewritten(s, t, r)
<1> PICK p : p = s.m.entryPage[t]
  OBVIOUS
<1> DEFINE es == s.pg[p].entries
           next == s.pg[p].next
           at == {k \in DOMAIN es : es[k].id = t}
<1>0. /\ s = [m |-> s.m, pg |-> s.pg] /\ p \in DOMAIN s.pg
      /\ s.pg[p] = EntriesPage(es, next) /\ es \in Seq(Entry)
  BY DEF Updatable
<1>1. r = IF at = {} THEN s
          ELSE [s EXCEPT !.pg = WritePage(@, p, [@[p] EXCEPT !.entries[Min(at)] = s.m.entries[t]])]
  BY DEF PersistUpdatedEntry
<1>2. CASE at = {}
  <2>1. r = s
    BY <1>1, <1>2
  <2>2. \A i \in DOMAIN es : es[i].id # t
    BY <1>2
  <2> QED
    BY <1>0, <2>1, <2>2 DEF Rewritten
<1>3. CASE at # {}
  <2> DEFINE i == Min(at)
             page == s.pg[p]
             new == [page EXCEPT !.entries[i] = s.m.entries[t]]
  <2>1. i \in DOMAIN es /\ es[i].id = t
    <3>1. at \in SUBSET Nat
      <4>1. DOMAIN es = 1 .. Len(es)
        BY <1>0, LenProperties
      <4> HIDE DEF es
      <4> QED
        BY <4>1
    <3>2. Min(at) \in at
      BY <1>3, <3>1, MinIs
    <3> QED
      BY <3>2
  <2>2. r = [s EXCEPT !.pg = WritePage(@, p, [@[p] EXCEPT !.entries[i] = s.m.entries[t]])]
    BY <1>1, <1>3
  <2>3. r = [m |-> s.m, pg |-> WritePage(s.pg, p, new)]
    BY <1>0, <2>2
  <2>4. page = [kind |-> "entries", entries |-> es, next |-> next]
    BY <1>0 DEF EntriesPage
  <2> HIDE DEF i, es, next, page
  <2>5. new = [kind |-> "entries", entries |-> [es EXCEPT ![i] = s.m.entries[t]], next |-> next]
    BY <2>4
  <2>6. new = EntriesPage(WithEntry(es, i, s.m.entries[t]), next)
    BY <2>5 DEF EntriesPage, WithEntry
  <2> HIDE DEF new
  <2>7. r = [m |-> r.m, pg |-> r.pg] /\ r.m = s.m /\ r.pg = WritePage(s.pg, p, new)
    BY <2>3
  <2>8. /\ DOMAIN r.pg = DOMAIN s.pg /\ r.pg[p] = new
        /\ \A q \in DOMAIN s.pg \ {p} : r.pg[q] = s.pg[q]
    BY <1>0, <2>7 DEF WritePage
  <2> QED
    BY <2>1, <2>6, <2>7, <2>8 DEF es, next, Rewritten
<1> QED
  BY <1>2, <1>3

\* The definitions go to their page, allocated with the first of them.
LEMMA IndexDefsEffect ==
  ASSUME NEW s, WellFormed(s), s.m.indexPage # NoPage => s.m.indexPage \in 1 .. (s.m.nextFree - 1),
         NEW r, r = PersistIndexDefs(s)
  PROVE  LET free == s.m.nextFree
             first == s.m.indexPage = NoPage
             here == IF first THEN free ELSE s.m.indexPage
         IN  /\ r = [m |-> r.m, pg |-> r.pg] /\ DOMAIN r.m = MemFields
             /\ SameTables(r.m, s.m) /\ r.m.entryPage = s.m.entryPage /\ r.m.catPage = s.m.catPage
             /\ r.m.nextIndex = s.m.nextIndex /\ r.m.indexes = s.m.indexes /\ r.m.indexPage = here
             /\ r.m.nextFree = (IF first THEN free + 1 ELSE free)
             /\ DOMAIN r.pg = 0 .. (r.m.nextFree - 1)
             /\ r.pg[RootPage] = (IF first THEN RootMeta(free + 1, free) ELSE s.pg[RootPage])
             /\ r.pg[here] = DefsPage(s.m.indexes)
             /\ \A p \in DOMAIN s.pg \ {RootPage, here} : r.pg[p] = s.pg[p]
<1> DEFINE free == s.m.nextFree
           first == s.m.indexPage = NoPage
           here == IF first THEN free ELSE s.m.indexPage
           s1 == [s EXCEPT !.m.indexPage = free]
           a == AllocateDiskPage(s1, DefsPage(Empty))
           z == PersistRootMeta(a)
           l == IF first THEN z ELSE s
<1>1. r = [l EXCEPT !.pg = WritePage(@, here, DefsPage(s.m.indexes))]
  BY DEF PersistIndexDefs
<1>2. a = [m |-> [s1.m EXCEPT !.nextFree = @ + 1], pg |-> WritePage(s1.pg, s1.m.nextFree, DefsPage(Empty))]
  BY DEF AllocateDiskPage
<1>3. z = [a EXCEPT !.pg = WritePage(@, RootPage, RootMeta(a.m.nextFree, a.m.indexPage))]
  BY DEF PersistRootMeta
<1>4. /\ s = [m |-> s.m, pg |-> s.pg] /\ DOMAIN s.m = MemFields
      /\ free \in Nat /\ free >= 2 /\ DOMAIN s.pg = 0 .. (free - 1)
  BY DEF WellFormed
<1>5. s1.m = [s.m EXCEPT !.indexPage = free] /\ s1.pg = s.pg
  BY <1>4
<1> HIDE DEF s1, a, z, l
<1>6. DOMAIN s1.m = MemFields /\ s1.m.nextFree = free
  BY <1>4, <1>5 DEF MemFields
<1>7. a.m = [s1.m EXCEPT !.nextFree = @ + 1] /\ a.pg = WritePage(s.pg, free, DefsPage(Empty))
      /\ a = [m |-> a.m, pg |-> a.pg]
  BY <1>2, <1>5, <1>6
<1>8. /\ DOMAIN a.m = MemFields /\ SameTables(a.m, s.m) /\ a.m.entryPage = s.m.entryPage
      /\ a.m.catPage = s.m.catPage /\ a.m.nextIndex = s.m.nextIndex /\ a.m.indexes = s.m.indexes
      /\ a.m.indexPage = free /\ a.m.nextFree = free + 1
  BY <1>4, <1>5, <1>6, <1>7 DEF MemFields, SameTables
<1>9. DOMAIN a.pg = 0 .. free /\ \A p \in 0 .. (free - 1) : a.pg[p] = s.pg[p]
  BY <1>4, <1>7 DEF WritePage
<1>10. z = [m |-> z.m, pg |-> z.pg] /\ z.m = a.m
       /\ z.pg = WritePage(a.pg, RootPage, RootMeta(free + 1, free))
  BY <1>3, <1>7, <1>8
<1>11. /\ DOMAIN z.pg = 0 .. free /\ z.pg[RootPage] = RootMeta(free + 1, free)
       /\ \A p \in 1 .. (free - 1) : z.pg[p] = s.pg[p]
  BY <1>4, <1>9, <1>10 DEF WritePage, RootPage
<1>12. here \in 1 .. free /\ (~first => here \in 1 .. (free - 1))
  BY <1>4
<1>13. /\ l = [m |-> l.m, pg |-> l.pg] /\ DOMAIN l.m = MemFields
       /\ SameTables(l.m, s.m) /\ l.m.entryPage = s.m.entryPage /\ l.m.catPage = s.m.catPage
       /\ l.m.nextIndex = s.m.nextIndex /\ l.m.indexes = s.m.indexes /\ l.m.indexPage = here
       /\ l.m.nextFree = (IF first THEN free + 1 ELSE free)
       /\ DOMAIN l.pg = 0 .. (l.m.nextFree - 1)
       /\ l.pg[RootPage] = (IF first THEN RootMeta(free + 1, free) ELSE s.pg[RootPage])
       /\ \A p \in 1 .. (free - 1) : l.pg[p] = s.pg[p]
  <2>1. CASE first
    <3>1. l = z /\ here = free /\ free + 1 - 1 = free
      BY <1>4, <2>1 DEF l
    <3>2. /\ l.m = a.m /\ l = [m |-> l.m, pg |-> l.pg] /\ DOMAIN l.pg = 0 .. free
          /\ l.pg[RootPage] = RootMeta(free + 1, free)
          /\ \A p \in 1 .. (free - 1) : l.pg[p] = s.pg[p]
      BY <1>10, <1>11, <3>1
    <3> HIDE DEF here
    <3>3. /\ DOMAIN l.m = MemFields /\ SameTables(l.m, s.m) /\ l.m.entryPage = s.m.entryPage
          /\ l.m.catPage = s.m.catPage /\ l.m.nextIndex = s.m.nextIndex
          /\ l.m.indexes = s.m.indexes /\ l.m.indexPage = here /\ l.m.nextFree = free + 1
      BY <1>8, <3>1, <3>2
    <3>4. DOMAIN l.pg = 0 .. (l.m.nextFree - 1)
      <4>1. l.m.nextFree - 1 = free
        BY <1>4, <3>3
      <4> QED
        BY <3>2, <4>1
    <3>5. /\ l.m.nextFree = (IF first THEN free + 1 ELSE free)
          /\ l.pg[RootPage] = (IF first THEN RootMeta(free + 1, free) ELSE s.pg[RootPage])
      BY <2>1, <3>2, <3>3
    <3> QED
      BY <3>2, <3>3, <3>4, <3>5
  <2>2. CASE ~first
    <3>1. l = s /\ here = s.m.indexPage
      BY <2>2 DEF l
    <3>2. \A p \in 1 .. (free - 1) : l.pg[p] = s.pg[p]
      BY <3>1
    <3> QED
      BY <1>4, <2>2, <3>1, <3>2 DEF SameTables
  <2> QED
    BY <2>1, <2>2
<1> HIDE DEF here
<1>14. r = [m |-> r.m, pg |-> r.pg] /\ r.m = l.m /\ r.pg = WritePage(l.pg, here, DefsPage(s.m.indexes))
  BY <1>1, <1>13
<1>15. here \in DOMAIN l.pg /\ here # RootPage /\ RootPage \in DOMAIN l.pg
  BY <1>4, <1>12, <1>13 DEF RootPage, here
<1>16. /\ DOMAIN r.pg = DOMAIN l.pg /\ r.pg[here] = DefsPage(s.m.indexes)
       /\ \A p \in DOMAIN l.pg \ {here} : r.pg[p] = l.pg[p]
  BY <1>14, <1>15 DEF WritePage
<1>17. \A p \in DOMAIN s.pg \ {RootPage, here} : r.pg[p] = s.pg[p]
  <2>1. \A p \in DOMAIN s.pg \ {RootPage, here} : p \in 1 .. (free - 1) /\ p \in DOMAIN l.pg
    BY <1>4, <1>13 DEF RootPage
  <2> QED
    BY <1>13, <1>16, <2>1
<1> QED
  BY <1>13, <1>14, <1>15, <1>16, <1>17 DEF here

----------------------------------------------------------------------------
(* What the pages hold before a step.                                      *)

LEMMA StoredIs ==
  ASSUME NEW pgs, NEW e
  PROVE  e \in Stored(pgs) <=> \E p \in EntryPages(pgs) : \E i \in DOMAIN pgs[p].entries :
                                  pgs[p].entries[i] = e
BY DEF Stored, ToSet

LEMMA PagesFacts ==
  ASSUME PagesShape, ChainWhole
  PROVE  /\ WellFormed([m |-> mem, pg |-> pages]) <=> DOMAIN mem = MemFields
         /\ mem.catPage \in EntryPages(pages) /\ pages[mem.catPage].next = NoPage
         /\ \A p \in EntryPages(pages) :
               /\ p \in 1 .. (mem.nextFree - 1) /\ p # RootPage
               /\ pages[p].entries \in Seq(Entry) /\ Len(pages[p].entries) \in Nat
               /\ DOMAIN pages[p].entries = 1 .. Len(pages[p].entries)
               /\ \A i \in DOMAIN pages[p].entries : pages[p].entries[i] \in Entry
         /\ Stored(pages) \subseteq Entry
<1> DEFINE c == Chain(pages, FirstEntriesPage)
<1>1. mem.catPage \in EntryPages(pages) /\ pages[mem.catPage].next = NoPage
  <2>1. IsChain(c, pages) /\ c[Len(c)] = mem.catPage
    BY DEF ChainWhole
  <2> HIDE DEF c
  <2>2. Len(c) \in 1 .. Len(c)
    BY <2>1 DEF IsChain
  <2> QED
    BY <2>1, <2>2 DEF IsChain
<1>2. ASSUME NEW p \in EntryPages(pages)
      PROVE  /\ p \in 1 .. (mem.nextFree - 1) /\ p # RootPage
             /\ pages[p].entries \in Seq(Entry) /\ Len(pages[p].entries) \in Nat
             /\ DOMAIN pages[p].entries = 1 .. Len(pages[p].entries)
             /\ \A i \in DOMAIN pages[p].entries : pages[p].entries[i] \in Entry
  <2>1. p \in 0 .. (mem.nextFree - 1) /\ mem.nextFree \in Nat /\ pages[p].kind = "entries"
    BY DEF PagesShape, EntryPages
  <2>2. p # RootPage
    BY <2>1 DEF PagesShape, RootMeta
  <2>3. pages[p].entries \in Seq(Entry)
    BY DEF PagesShape
  <2> DEFINE es == pages[p].entries
  <2>4. Len(es) \in Nat /\ DOMAIN es = 1 .. Len(es) /\ \A i \in DOMAIN es : es[i] \in Entry
    <3>1. es \in Seq(Entry)
      BY <2>3
    <3> HIDE DEF es
    <3> QED
      BY <3>1
  <2>5. p \in 1 .. (mem.nextFree - 1)
    BY <2>1, <2>2 DEF RootPage
  <2> QED
    BY <2>2, <2>3, <2>4, <2>5
<1>3. Stored(pages) \subseteq Entry
  BY <1>2, StoredIs
<1>4. WellFormed([m |-> mem, pg |-> pages]) <=> DOMAIN mem = MemFields
  <2>1. mem.nextFree \in Nat /\ mem.nextFree >= 2 /\ DOMAIN pages = 0 .. (mem.nextFree - 1)
    BY DEF PagesShape
  <2>2. mem.catPage \in 1 .. (mem.nextFree - 1)
    BY <1>1, <1>2
  <2>3. pages[mem.catPage] = EntriesPage(pages[mem.catPage].entries, pages[mem.catPage].next)
    BY <1>1 DEF PagesShape
  <2> QED
    BY <2>1, <2>2, <2>3 DEF WellFormed
<1> QED
  BY <1>1, <1>2, <1>3, <1>4

----------------------------------------------------------------------------
(* CREATE TABLE.                                                           *)

NewCols(n) == BuildInitialSchema(mem, n)
NewEntry(name) ==
    [id |-> mem.nextTable, name |-> name, schema |-> mem.nextFree, rows |-> 0, active |-> TRUE]
NewestFull == Len(pages[mem.catPage].entries) >= PageCapacity
EntryGoesTo == IF NewestFull THEN mem.nextFree + 1 ELSE mem.catPage

LEMMA CreateEffect ==
  ASSUME IInv, NEW name \in TableNames, NEW n \in ColumnCounts, CreateTable(name, n)
  PROVE  LET t == mem.nextTable
             free == mem.nextFree
             cat == mem.catPage
             e == NewEntry(name)
             old == pages[cat].entries
         IN  /\ DOMAIN mem' = MemFields /\ mem'.names = Emplace(mem.names, name, t)
             /\ mem'.entries = Emplace(mem.entries, t, e)
             /\ mem'.schemas = Emplace(mem.schemas, t, NewCols(n))
             /\ mem'.entryPage = Put(mem.entryPage, t, EntryGoesTo) /\ mem'.catPage = EntryGoesTo
             /\ mem'.nextTable = t + 1 /\ mem'.nextCol = mem.nextCol + n /\ SameIndexes(mem', mem)
             /\ mem'.nextFree = (IF NewestFull THEN free + 2 ELSE free + 1)
             /\ DOMAIN pages' = 0 .. (mem'.nextFree - 1)
             /\ pages'[RootPage] = RootMeta(mem'.nextFree, mem.indexPage)
             /\ pages'[free] = SchemaPage(NewCols(n))
             /\ NewestFull => /\ pages'[cat] = EntriesPage(old, free + 1)
                              /\ pages'[free + 1] = EntriesPage(<<e>>, NoPage)
             /\ ~NewestFull => pages'[cat] = EntriesPage(Append(old, e), NoPage)
             /\ \A p \in DOMAIN pages \ {RootPage, cat} : pages'[p] = pages[p]
<1> DEFINE t == mem.nextTable
           free == mem.nextFree
           cat == mem.catPage
           e == NewEntry(name)
           old == pages[cat].entries
           cols == NewCols(n)
           h == [Here EXCEPT !.m.nextTable = t + 1, !.m.nextCol = @ + n]
           a == PersistSchema(h, cols)
           s == [a EXCEPT !.m.names = Emplace(@, name, t), !.m.entries = Emplace(@, t, e),
                          !.m.schemas = Emplace(@, t, cols)]
           r == PersistNewEntry(s, e)
<1>1. mem' = r.m /\ pages' = r.pg
  BY DEF CreateTable, Become, NewEntry, NewCols
<1>2. h.m = [mem EXCEPT !.nextTable = t + 1, !.nextCol = @ + n] /\ h.pg = pages
  BY DEF Here
<1>3. a = [m |-> [h.m EXCEPT !.nextFree = @ + 1], pg |-> WritePage(h.pg, h.m.nextFree, SchemaPage(cols))]
  BY DEF PersistSchema, AllocateDiskPage
<1> HIDE DEF h, a, s, r, cols, e
<1>4. /\ DOMAIN mem = MemFields /\ free \in Nat /\ free >= 2 /\ DOMAIN pages = 0 .. (free - 1)
      /\ cat \in 1 .. (free - 1) /\ cat \in EntryPages(pages) /\ pages[cat].next = NoPage
      /\ pages[cat] = EntriesPage(old, NoPage) /\ old \in Seq(Entry)
  <2>1. DOMAIN mem = MemFields /\ PagesShape /\ ChainWhole
    BY DEF IInv, Shapes
  <2>2. /\ free \in Nat /\ free >= 2 /\ DOMAIN pages = 0 .. (free - 1)
        /\ \A p \in EntryPages(pages) : pages[p] = EntriesPage(pages[p].entries, pages[p].next)
    BY <2>1 DEF PagesShape
  <2>3. cat \in EntryPages(pages) /\ pages[cat].next = NoPage
    BY <2>1, PagesFacts
  <2>4. cat \in 1 .. (free - 1) /\ old \in Seq(Entry)
    BY <2>1, <2>3, PagesFacts
  <2> QED
    BY <2>1, <2>2, <2>3, <2>4
<1>5. /\ DOMAIN h.m = MemFields /\ h.m.nextFree = free /\ h.m.names = mem.names
      /\ h.m.entries = mem.entries /\ h.m.schemas = mem.schemas /\ h.m.entryPage = mem.entryPage
      /\ h.m.catPage = cat /\ h.m.nextTable = t + 1 /\ h.m.nextCol = mem.nextCol + n
      /\ SameIndexes(h.m, mem)
  BY <1>2, <1>4 DEF MemFields, SameIndexes
<1>6. /\ a = [m |-> a.m, pg |-> a.pg] /\ a.m = [h.m EXCEPT !.nextFree = @ + 1]
      /\ a.pg = WritePage(pages, free, SchemaPage(cols))
  BY <1>2, <1>3, <1>5
<1>7. /\ DOMAIN a.m = MemFields /\ a.m.nextFree = free + 1 /\ a.m.names = mem.names
      /\ a.m.entries = mem.entries /\ a.m.schemas = mem.schemas /\ a.m.entryPage = mem.entryPage
      /\ a.m.catPage = cat /\ a.m.nextTable = t + 1 /\ a.m.nextCol = mem.nextCol + n
      /\ SameIndexes(a.m, mem)
  BY <1>5, <1>6 DEF MemFields, SameIndexes
<1>8. /\ DOMAIN a.pg = 0 .. free /\ a.pg[free] = SchemaPage(cols)
      /\ \A p \in 0 .. (free - 1) : a.pg[p] = pages[p]
  BY <1>4, <1>6 DEF WritePage
<1>9. s = [m |-> s.m, pg |-> s.pg] /\ s.pg = a.pg
  <2> DEFINE x == Emplace(a.m.names, name, t)
             y == Emplace(a.m.entries, t, e)
             z == Emplace(a.m.schemas, t, cols)
  <2>1. s = [a EXCEPT !.m.names = x, !.m.entries = y, !.m.schemas = z]
    BY <1>6, <1>7 DEF s, MemFields
  <2> HIDE DEF x, y, z
  <2>2. s = [m |-> s.m, pg |-> a.pg]
    BY <1>6, <2>1
  <2> QED
    BY <2>2
<1>10. /\ DOMAIN s.m = MemFields /\ s.m.nextFree = free + 1
       /\ s.m.names = Emplace(mem.names, name, t) /\ s.m.entries = Emplace(mem.entries, t, e)
       /\ s.m.schemas = Emplace(mem.schemas, t, cols) /\ s.m.entryPage = mem.entryPage
       /\ s.m.catPage = cat /\ s.m.nextTable = t + 1 /\ s.m.nextCol = mem.nextCol + n
       /\ SameIndexes(s.m, mem)
  BY <1>6, <1>7 DEF s, MemFields, SameIndexes
<1>11. s.pg[cat] = EntriesPage(old, NoPage) /\ s.pg[cat].entries = old /\ s.pg[cat].next = NoPage
  BY <1>4, <1>8, <1>9 DEF EntriesPage
<1>12. WellFormed(s)
  BY <1>4, <1>8, <1>9, <1>10, <1>11 DEF WellFormed
<1> DEFINE f1 == free + 1
           full == Len(old) >= PageCapacity
           cur == IF full THEN f1 ELSE cat
<1>13. f1 = s.m.nextFree /\ cat = s.m.catPage /\ old = s.pg[cat].entries /\ s.pg[cat].next = NoPage
  BY <1>10, <1>11
<1> HIDE DEF f1, cat, old
<1>14. /\ DOMAIN r.m = MemFields /\ SameTables(r.m, s.m) /\ SameIndexes(r.m, s.m)
       /\ r.m.catPage = cur /\ r.m.entryPage = Put(s.m.entryPage, e.id, cur)
       /\ r.m.nextFree = (IF full THEN f1 + 1 ELSE f1)
       /\ DOMAIN r.pg = 0 .. (r.m.nextFree - 1)
       /\ r.pg[RootPage] = RootMeta(r.m.nextFree, s.m.indexPage)
       /\ \A p \in DOMAIN s.pg \ {RootPage, cat} : r.pg[p] = s.pg[p]
       /\ full => /\ r.pg[cat] = EntriesPage(old, f1) /\ r.pg[f1] = EntriesPage(<<e>>, NoPage)
       /\ ~full => r.pg[cat] = EntriesPage(Append(old, e), NoPage)
  BY <1>12, <1>13, NewEntryEffect DEF r
<1>15. e.id = t /\ full = NewestFull /\ cur = EntryGoesTo
  BY DEF e, NewEntry, NewestFull, EntryGoesTo, f1, cat, old
<1>16. /\ free \in DOMAIN s.pg \ {RootPage, cat}
       /\ \A p \in DOMAIN pages \ {RootPage, cat} : p \in DOMAIN s.pg \ {RootPage, cat} /\ s.pg[p] = pages[p]
  BY <1>4, <1>8, <1>9 DEF RootPage
<1> HIDE DEF full, cur
<1>17. /\ r.pg[free] = SchemaPage(cols)
       /\ \A p \in DOMAIN pages \ {RootPage, cat} : r.pg[p] = pages[p]
  BY <1>8, <1>9, <1>14, <1>16
<1>18. /\ r.m.names = Emplace(mem.names, name, t) /\ r.m.entries = Emplace(mem.entries, t, e)
       /\ r.m.schemas = Emplace(mem.schemas, t, cols)
       /\ r.m.nextTable = t + 1 /\ r.m.nextCol = mem.nextCol + n
       /\ SameIndexes(r.m, mem) /\ s.m.indexPage = mem.indexPage
       /\ r.m.entryPage = Put(mem.entryPage, t, cur)
  BY <1>10, <1>14, <1>15 DEF SameTables, SameIndexes
<1>19. f1 + 1 = free + 2
  BY <1>4 DEF f1
<1> QED
  BY <1>1, <1>14, <1>15, <1>17, <1>18, <1>19 DEF e, cols, f1, cat, old

LEMMA CreatePages ==
  ASSUME IInv, NEW name \in TableNames, NEW n \in ColumnCounts, CreateTable(name, n)
  PROVE  LET e == NewEntry(name)
             cur == EntryGoesTo
         IN  /\ e \in Entry /\ cur \in EntryPages(pages')
             /\ EntryPages(pages') = EntryPages(pages) \cup {cur}
             /\ NewestFull => cur \notin DOMAIN pages
             /\ \A p \in EntryPages(pages') :
                   /\ pages'[p] = EntriesPage(pages'[p].entries, pages'[p].next)
                   /\ pages'[p].entries \in Seq(Entry)
                   /\ \A i \in DOMAIN pages'[p].entries :
                         \/ /\ p \in EntryPages(pages) /\ i \in DOMAIN pages[p].entries
                            /\ pages'[p].entries[i] = pages[p].entries[i]
                         \/ p = cur /\ i = Len(pages'[cur].entries) /\ pages'[p].entries[i] = e
             /\ \A p \in EntryPages(pages) : \A i \in DOMAIN pages[p].entries :
                   i \in DOMAIN pages'[p].entries /\ pages'[p].entries[i] = pages[p].entries[i]
             /\ Len(pages'[cur].entries) \in DOMAIN pages'[cur].entries
             /\ pages'[cur].entries[Len(pages'[cur].entries)] = e
             /\ Stored(pages') = Stored(pages) \cup {e}
             /\ \A p \in DOMAIN pages : pages[p].kind = "schema" => pages'[p] = pages[p]
             /\ pages'[mem.nextFree] = SchemaPage(NewCols(n))
             /\ mem.nextFree \in 2 .. (mem'.nextFree - 1) /\ mem'.nextFree \in Nat
             /\ mem'.nextFree > mem.nextFree
<1> DEFINE e == NewEntry(name)
           cur == EntryGoesTo
           free == mem.nextFree
           f1 == free + 1
           cat == mem.catPage
           old == pages[cat].entries
           es(p) == pages'[p].entries
<1>1. /\ mem'.nextFree = (IF NewestFull THEN free + 2 ELSE free + 1)
      /\ DOMAIN pages' = 0 .. (mem'.nextFree - 1)
      /\ pages'[RootPage] = RootMeta(mem'.nextFree, mem.indexPage)
      /\ pages'[free] = SchemaPage(NewCols(n))
      /\ NewestFull => /\ pages'[cat] = EntriesPage(old, f1)
                       /\ pages'[f1] = EntriesPage(<<e>>, NoPage)
      /\ ~NewestFull => pages'[cat] = EntriesPage(Append(old, e), NoPage)
      /\ \A p \in DOMAIN pages \ {RootPage, cat} : pages'[p] = pages[p]
  BY CreateEffect
<1>2. /\ free \in Nat /\ free >= 2 /\ DOMAIN pages = 0 .. (free - 1)
      /\ pages[RootPage] = RootMeta(free, mem.indexPage)
      /\ \A p \in EntryPages(pages) : pages[p] = EntriesPage(pages[p].entries, pages[p].next)
  BY DEF IInv, PagesShape
<1>3. /\ cat \in EntryPages(pages)
      /\ \A p \in EntryPages(pages) :
               /\ p \in 1 .. (free - 1) /\ p # RootPage
               /\ pages[p].entries \in Seq(Entry) /\ Len(pages[p].entries) \in Nat
               /\ DOMAIN pages[p].entries = 1 .. Len(pages[p].entries)
  BY PagesFacts DEF IInv
<1>4. e \in Entry
  <2>1. mem.nextTable \in Nat \ {0}
    BY DEF IInv, LiveApart
  <2> QED
    BY <1>2, <2>1 DEF NewEntry, Entry
<1>5. /\ mem'.nextFree \in Nat /\ free \in 2 .. (mem'.nextFree - 1) /\ mem'.nextFree > free
      /\ NewestFull => cur = f1 /\ f1 \in DOMAIN pages' /\ f1 \notin DOMAIN pages
      /\ ~NewestFull => cur = cat
      /\ \A p \in DOMAIN pages' : p \in DOMAIN pages \/ p = free \/ (NewestFull /\ p = f1)
      /\ \A p \in DOMAIN pages : p \in DOMAIN pages'
  BY <1>1, <1>2 DEF EntryGoesTo
<1> HIDE DEF e, cur, f1
<1>6. /\ cat \in EntryPages(pages') /\ cur \in EntryPages(pages')
      /\ es(cat) = IF NewestFull THEN old ELSE Append(old, e)
      /\ NewestFull => es(cur) = <<e>>
      /\ pages'[cat] = EntriesPage(es(cat), pages'[cat].next)
      /\ pages'[cur] = EntriesPage(es(cur), pages'[cur].next)
  <2>1. CASE NewestFull
    BY <1>1, <1>3, <1>5, <2>1 DEF EntryPages, EntriesPage
  <2>2. CASE ~NewestFull
    BY <1>1, <1>3, <1>5, <2>2 DEF EntryPages, EntriesPage
  <2> QED
    BY <2>1, <2>2
<1>7. ASSUME NEW p \in EntryPages(pages'), p # cat, p # cur
      PROVE  p \in EntryPages(pages) /\ pages'[p] = pages[p]
  <2>1. p \in DOMAIN pages' /\ pages'[p].kind = "entries"
    BY DEF EntryPages
  <2>2. p # free /\ p # RootPage
    BY <1>1, <2>1 DEF SchemaPage, RootMeta
  <2>3. p \in DOMAIN pages
    BY <1>5, <1>7, <2>1, <2>2
  <2>4. pages'[p] = pages[p]
    BY <1>1, <1>7, <2>2, <2>3
  <2> QED
    BY <2>1, <2>3, <2>4 DEF EntryPages
<1>8. \A p \in EntryPages(pages) : p # cat => pages'[p] = pages[p] /\ p \in EntryPages(pages') /\ p # cur
  BY <1>1, <1>3, <1>5 DEF EntryPages
<1>9. EntryPages(pages') = EntryPages(pages) \cup {cur}
  BY <1>3, <1>6, <1>7, <1>8
<1>10. /\ old \in Seq(Entry) /\ Len(old) \in Nat /\ DOMAIN old = 1 .. Len(old)
       /\ \A i \in 1 .. Len(old) : old[i] \in Entry
  BY <1>3
<1> HIDE DEF old
<1>11. /\ Append(old, e) \in Seq(Entry) /\ Len(Append(old, e)) = Len(old) + 1
       /\ DOMAIN Append(old, e) = 1 .. (Len(old) + 1) /\ Append(old, e)[Len(old) + 1] = e
       /\ \A i \in 1 .. Len(old) : Append(old, e)[i] = old[i]
       /\ <<e>> \in Seq(Entry) /\ Len(<<e>>) = 1 /\ DOMAIN <<e>> = {1} /\ <<e>>[1] = e
  BY <1>4, <1>10
<1> DEFINE last == Len(es(cur))
<1>12. /\ es(cat) \in Seq(Entry) /\ es(cur) \in Seq(Entry)
       /\ last \in DOMAIN es(cur) /\ es(cur)[last] = e
       /\ \A i \in DOMAIN es(cur) : i = last \/ (cur = cat /\ i \in DOMAIN old)
       /\ \A i \in DOMAIN es(cat) : i \in DOMAIN old \/ (cur = cat /\ i = last)
       /\ \A i \in DOMAIN old : i \in DOMAIN es(cat) /\ es(cat)[i] = old[i]
  <2>1. CASE NewestFull
    BY <1>6, <1>10, <1>11, <2>1
  <2>2. CASE ~NewestFull
    <3>1. cur = cat /\ es(cur) = Append(old, e) /\ last = Len(old) + 1
      BY <1>5, <1>6, <1>11, <2>2
    <3>2. \A i \in 1 .. (Len(old) + 1) : i \in 1 .. Len(old) \/ i = Len(old) + 1
      BY <1>10
    <3>3. Len(old) + 1 \in 1 .. (Len(old) + 1) /\ \A i \in 1 .. Len(old) : i \in 1 .. (Len(old) + 1)
      BY <1>10
    <3> QED
      BY <1>10, <1>11, <3>1, <3>2, <3>3
  <2> QED
    BY <2>1, <2>2
<1>13. ASSUME NEW p \in EntryPages(pages')
       PROVE  /\ pages'[p] = EntriesPage(es(p), pages'[p].next) /\ es(p) \in Seq(Entry)
              /\ \A i \in DOMAIN es(p) :
                    \/ /\ p \in EntryPages(pages) /\ i \in DOMAIN pages[p].entries
                       /\ es(p)[i] = pages[p].entries[i]
                    \/ p = cur /\ i = last /\ es(p)[i] = e
  <2>1. CASE p = cat
    BY <1>3, <1>6, <1>12, <2>1 DEF old
  <2>2. CASE p # cat /\ p = cur
    BY <1>6, <1>12, <2>2
  <2>3. CASE p # cat /\ p # cur
    BY <1>2, <1>3, <1>7, <2>3
  <2> QED
    BY <2>1, <2>2, <2>3
<1>14. ASSUME NEW p \in EntryPages(pages), NEW i \in DOMAIN pages[p].entries
       PROVE  i \in DOMAIN es(p) /\ es(p)[i] = pages[p].entries[i]
  <2>1. CASE p = cat
    BY <1>12, <2>1 DEF old
  <2>2. CASE p # cat
    BY <1>8, <2>2
  <2> QED
    BY <2>1, <2>2
<1>15. Stored(pages') = Stored(pages) \cup {e}
  <2>1. ASSUME NEW x \in Stored(pages') PROVE x \in Stored(pages) \cup {e}
    <3>1. PICK p \in EntryPages(pages') : \E i \in DOMAIN es(p) : es(p)[i] = x
      BY StoredIs
    <3> QED
      BY <1>13, <3>1, StoredIs
  <2>2. ASSUME NEW x \in Stored(pages) PROVE x \in Stored(pages')
    <3>1. PICK p \in EntryPages(pages) : \E i \in DOMAIN pages[p].entries : pages[p].entries[i] = x
      BY StoredIs
    <3>2. \E i \in DOMAIN es(p) : es(p)[i] = x
      BY <1>14, <3>1
    <3> QED
      BY <1>9, <3>2, StoredIs
  <2>3. e \in Stored(pages')
    BY <1>6, <1>12, StoredIs
  <2> QED
    BY <2>1, <2>2, <2>3
<1>16. \A p \in DOMAIN pages : pages[p].kind = "schema" => pages'[p] = pages[p]
  <2>1. pages[cat].kind = "entries" /\ pages[RootPage].kind = "root"
    BY <1>2, <1>3 DEF EntryPages, RootMeta
  <2> QED
    BY <1>1, <2>1
<1> QED
  BY <1>1, <1>4, <1>5, <1>6, <1>9, <1>12, <1>13, <1>14, <1>15, <1>16 DEF e, cur

\* The new page is the end of the chain when the newest was full.
LEMMA CreateChain ==
  ASSUME IInv, NEW name \in TableNames, NEW n \in ColumnCounts, CreateTable(name, n)
  PROVE  ChainWhole'
<1> DEFINE c == Chain(pages, FirstEntriesPage)
<1> PICK b : b = c
  OBVIOUS
<1> DEFINE k == Len(b)
           cur == EntryGoesTo
           d == IF NewestFull THEN Append(b, cur) ELSE b
<1>1. IsChain(b, pages) /\ b[k] = mem.catPage
  BY DEF IInv, ChainWhole
<1>2. /\ b \in Seq(Nat) /\ k \in Nat \ {0} /\ b[1] = FirstEntriesPage
      /\ \A j \in 1 .. k : b[j] \in EntryPages(pages) /\ b[j] # NoPage
      /\ \A i, j \in 1 .. k : b[i] = b[j] => i = j
      /\ \A j \in 1 .. (k - 1) : pages[b[j]].next = b[j + 1]
      /\ pages[b[k]].next = NoPage
      /\ \A p \in EntryPages(pages) : \E j \in 1 .. k : b[j] = p
  BY <1>1 DEF IsChain
<1>3. /\ EntryPages(pages') = EntryPages(pages) \cup {cur}
      /\ NewestFull => cur \notin DOMAIN pages
      /\ mem.nextFree \in Nat
  BY CreatePages
<1>4. /\ mem'.catPage = cur
      /\ NewestFull => cur = mem.nextFree + 1 /\ pages'[b[k]].next = cur /\ pages'[cur].next = NoPage
      /\ ~NewestFull => cur = mem.catPage /\ pages'[b[k]].next = NoPage
      /\ \A p \in DOMAIN pages \ {RootPage, mem.catPage} : pages'[p] = pages[p]
  <2> DEFINE cat == mem.catPage
             free == mem.nextFree
             old == pages[cat].entries
             e == NewEntry(name)
  <2>1. /\ mem'.catPage = cur
        /\ NewestFull => /\ pages'[cat] = EntriesPage(old, free + 1)
                         /\ pages'[free + 1] = EntriesPage(<<e>>, NoPage)
        /\ ~NewestFull => pages'[cat] = EntriesPage(Append(old, e), NoPage)
        /\ \A p \in DOMAIN pages \ {RootPage, cat} : pages'[p] = pages[p]
    BY CreateEffect
  <2>2. cur = IF NewestFull THEN free + 1 ELSE cat
    BY DEF EntryGoesTo
  <2>3. \A x, y : EntriesPage(x, y).next = y
    BY DEF EntriesPage
  <2> HIDE DEF e, old, cur
  <2> QED
    BY <1>1, <2>1, <2>2, <2>3
<1>5. \A j \in 1 .. (k - 1) : pages'[b[j]].next = b[j + 1]
  <2> SUFFICES ASSUME NEW j \in 1 .. (k - 1) PROVE pages'[b[j]].next = b[j + 1]
    OBVIOUS
  <2>1. j \in 1 .. k /\ j # k /\ k \in 1 .. k
    BY <1>2
  <2>2. b[j] # mem.catPage /\ b[j] \in DOMAIN pages /\ b[j] # RootPage
    <3>1. b[j] # b[k]
      BY <1>2, <2>1
    <3>2. b[j] \in EntryPages(pages) /\ b[j] # NoPage
      BY <1>2, <2>1
    <3> QED
      BY <1>1, <3>1, <3>2 DEF EntryPages, RootPage, NoPage
  <2>3. pages'[b[j]] = pages[b[j]]
    BY <1>4, <2>2
  <2> QED
    BY <1>2, <2>3
<1> HIDE DEF c, cur
<1>6. CASE ~NewestFull
  <2>1. b[k] = cur /\ EntryPages(pages') = EntryPages(pages)
    <3>1. k \in 1 .. k
      BY <1>2
    <3>2. b[k] = cur
      BY <1>1, <1>4, <1>6
    <3> QED
      BY <1>2, <1>3, <3>1, <3>2
  <2>2. IsChain(b, pages')
    BY <1>2, <1>4, <1>5, <1>6, <2>1 DEF IsChain
  <2>3. Chain(pages', FirstEntriesPage) = b
    BY <2>2, ChainIs
  <2> QED
    BY <1>4, <2>1, <2>2, <2>3 DEF ChainWhole
<1>7. CASE NewestFull
  <2>1. d = Append(b, cur) /\ cur \in Nat
    BY <1>3, <1>4, <1>7
  <2> HIDE DEF d
  <2>2. /\ d \in Seq(Nat) /\ Len(d) = k + 1 /\ d[k + 1] = cur
        /\ \A j \in 1 .. k : d[j] = b[j]
    BY <1>2, <2>1
  <2>3. cur \notin EntryPages(pages) /\ cur # NoPage
    BY <1>3, <1>4, <1>7 DEF EntryPages, NoPage
  <2>4. \A j \in 1 .. (k + 1) : (j \in 1 .. k /\ d[j] = b[j]) \/ (j = k + 1 /\ d[j] = cur)
    <3>1. \A j \in 1 .. (k + 1) : j \in 1 .. k \/ j = k + 1
      BY <1>2
    <3> QED
      BY <2>2, <3>1
  <2>5. 1 \in 1 .. k /\ k \in 1 .. k /\ k + 1 \in 1 .. (k + 1) /\ \A j \in 1 .. k : j \in 1 .. (k + 1)
    BY <1>2
  <2>6. \A j \in 1 .. (k + 1) : d[j] \in EntryPages(pages') /\ d[j] # NoPage
    <3>1. cur \in EntryPages(pages') /\ \A j \in 1 .. k : b[j] \in EntryPages(pages') /\ b[j] # NoPage
      BY <1>2, <1>3
    <3> QED
      BY <2>3, <2>4, <3>1
  <2>7. \A i, j \in 1 .. (k + 1) : d[i] = d[j] => i = j
    <3>1. \A j \in 1 .. k : b[j] # cur
      BY <1>2, <2>3
    <3>2. \A i, j \in 1 .. k : b[i] = b[j] => i = j
      BY <1>2
    <3> QED
      BY <2>4, <3>1, <3>2
  <2>8. \A j \in 1 .. k : pages'[d[j]].next = d[j + 1]
    <3> SUFFICES ASSUME NEW j \in 1 .. k PROVE pages'[d[j]].next = d[j + 1]
      OBVIOUS
    <3>1. CASE j = k
      BY <1>4, <1>7, <2>2, <2>5, <3>1
    <3>2. CASE j # k
      <4>1. j \in 1 .. (k - 1) /\ j + 1 \in 1 .. k
        BY <1>2, <3>2
      <4> QED
        BY <1>5, <2>2, <4>1
    <3> QED
      BY <3>1, <3>2
  <2>9. \A p \in EntryPages(pages') : \E j \in 1 .. (k + 1) : d[j] = p
    <3> SUFFICES ASSUME NEW p \in EntryPages(pages') PROVE \E j \in 1 .. (k + 1) : d[j] = p
      OBVIOUS
    <3>1. CASE p = cur
      BY <2>2, <2>5, <3>1
    <3>2. CASE p # cur
      <4>1. PICK j \in 1 .. k : b[j] = p
        BY <1>2, <1>3, <3>2
      <4> QED
        BY <2>2, <2>5, <4>1
    <3> QED
      BY <3>1, <3>2
  <2>10. k + 1 - 1 = k
    BY <1>2
  <2>11. IsChain(d, pages')
    BY <1>2, <1>4, <1>7, <2>2, <2>5, <2>6, <2>7, <2>8, <2>9, <2>10 DEF IsChain
  <2>12. Chain(pages', FirstEntriesPage) = d
    BY <2>11, ChainIs
  <2> QED
    BY <1>4, <2>2, <2>11, <2>12 DEF ChainWhole
<1> QED
  BY <1>6, <1>7

LEMMA NewColsAre ==
  ASSUME NEW n \in ColumnCounts, mem.nextCol \in Nat \ {0}
  PROVE  /\ n \in Nat \ {0}
         /\ \A x \in ToSet(NewCols(n)) : x \in mem.nextCol .. (mem.nextCol + n - 1)
<1>1. n \in Nat \ {0}
  BY CatalogAssumption
<1>2. NewCols(n) = [k \in 1 .. n |-> mem.nextCol + k - 1]
  BY DEF NewCols, BuildInitialSchema
<1>3. ASSUME NEW x \in ToSet(NewCols(n))
      PROVE  x \in mem.nextCol .. (mem.nextCol + n - 1)
  <2>1. PICK k \in 1 .. n : x = mem.nextCol + k - 1
    BY <1>2 DEF ToSet
  <2> QED
    BY <1>1, <2>1
<1> QED
  BY <1>1, <1>3

\* What an unconditional part says of the ids, columns and pages given so far,
\* after a table has been given its own.
LEMMA CreateGiven ==
  ASSUME IInv, NEW name \in TableNames, NEW n \in ColumnCounts, CreateTable(name, n)
  PROVE  /\ Shapes' /\ PagesShape' /\ GivenPages' /\ LiveApart'
         /\ ghost'.given = ghost.given \cup {<<mem.nextTable, mem.nextFree>>}
         /\ Live(pages') = Live(pages) \cup {NewEntry(name)}
         /\ \A g \in ghost.given : pages'[g[2]] = pages[g[2]]
<1> DEFINE t == mem.nextTable
           free == mem.nextFree
           e == NewEntry(name)
           cols == NewCols(n)
           new == <<t, free>>
<1>1. /\ DOMAIN mem' = MemFields /\ mem'.nextTable = t + 1 /\ mem'.nextCol = mem.nextCol + n
      /\ mem'.indexPage = mem.indexPage
      /\ DOMAIN pages' = 0 .. (mem'.nextFree - 1)
      /\ pages'[RootPage] = RootMeta(mem'.nextFree, mem.indexPage)
  BY CreateEffect DEF SameIndexes
<1>2. /\ \A p \in EntryPages(pages') : /\ pages'[p] = EntriesPage(pages'[p].entries, pages'[p].next)
                                       /\ pages'[p].entries \in Seq(Entry)
      /\ Stored(pages') = Stored(pages) \cup {e}
      /\ \A p \in DOMAIN pages : pages[p].kind = "schema" => pages'[p] = pages[p]
      /\ pages'[free] = SchemaPage(cols)
      /\ free \in 2 .. (mem'.nextFree - 1) /\ mem'.nextFree \in Nat /\ mem'.nextFree > free
  BY CreatePages
<1>3. /\ e.id = t /\ e.schema = free /\ e.active
  BY DEF NewEntry
<1>4. /\ DOMAIN ghost' = DOMAIN ghost /\ ghost'.given = ghost.given \cup {new}
      /\ ghost'.reused = (ghost.reused \/ \E g \in ghost.given : g[1] = t)
  BY DEF CreateTable, IInv, Shapes
<1>5. Shapes'
  <2>1. ghost'.reused \in BOOLEAN
    BY <1>4
  <2> QED
    BY <1>1, <1>4, <2>1 DEF Shapes, IInv
<1>6. PagesShape'
  BY <1>1, <1>2 DEF PagesShape
<1>7. /\ IsFiniteSet(ghost.given) /\ Cardinality(ghost.given) <= MaxTables
      /\ \A g \in ghost.given :
          /\ g = <<g[1], g[2]>> /\ g[1] \in 1..Cardinality(ghost.given)
          /\ g[2] \in 1..(free - 1) /\ pages[g[2]].kind = "schema"
      /\ \A g, h \in ghost.given : g[2] = h[2] => g = h
      /\ \A x \in Stored(pages) : <<x.id, x.schema>> \in ghost.given
      /\ DOMAIN pages = 0 .. (free - 1) /\ free \in Nat
  BY DEF IInv, GivenPages, PagesShape
<1>8. \A g \in ghost.given : g[2] \in DOMAIN pages /\ pages'[g[2]] = pages[g[2]]
  BY <1>2, <1>7
<1>9. t \in 1 .. (Cardinality(ghost.given) + 1) /\ mem.nextCol \in Nat \ {0}
  BY DEF IInv, LiveApart
<1>10. new \notin ghost.given /\ Cardinality(ghost.given) \in Nat
  <2>1. new[2] = free /\ \A g \in ghost.given : g[2] # free
    BY <1>7
  <2> QED
    BY <1>7, <2>1, FS_CardinalityType
<1>11. IsFiniteSet(ghost'.given) /\ Cardinality(ghost'.given) = Cardinality(ghost.given) + 1
  <2> HIDE DEF new
  <2>1. /\ IsFiniteSet(ghost.given \cup {new})
        /\ Cardinality(ghost.given \cup {new}) = Cardinality(ghost.given) + 1
    BY <1>7, <1>10, FS_AddElement
  <2> QED
    BY <1>4, <2>1
<1>12. Cardinality(ghost.given) + 1 <= MaxTables
  BY <1>7, <1>10, CatalogAssumption DEF CreateTable
<1>13. GivenPages'
  <2>1. \A g \in ghost'.given :
          /\ g = <<g[1], g[2]>> /\ g[1] \in 1..Cardinality(ghost'.given)
          /\ g[2] \in 1..(mem'.nextFree - 1) /\ pages'[g[2]].kind = "schema"
    <3> SUFFICES ASSUME NEW g \in ghost'.given
                 PROVE  /\ g = <<g[1], g[2]>> /\ g[1] \in 1..Cardinality(ghost'.given)
                        /\ g[2] \in 1..(mem'.nextFree - 1) /\ pages'[g[2]].kind = "schema"
      OBVIOUS
    <3>1. CASE g \in ghost.given
      <4>1. g[2] \in 1 .. (mem'.nextFree - 1) /\ g[1] \in 1 .. Cardinality(ghost'.given)
        BY <1>2, <1>7, <1>10, <1>11, <3>1
      <4> QED
        BY <1>7, <1>8, <3>1, <4>1
    <3>2. CASE g = new
      <4>1. g[1] = t /\ g[2] = free /\ t \in 1 .. Cardinality(ghost'.given) /\ free \in 1 .. (mem'.nextFree - 1)
        BY <1>2, <1>9, <1>11, <3>2
      <4>2. pages'[free].kind = "schema"
        BY <1>2 DEF SchemaPage
      <4> QED
        BY <3>2, <4>1, <4>2
    <3> QED
      BY <1>4, <3>1, <3>2
  <2>2. \A g, h \in ghost'.given : g[2] = h[2] => g = h
    <3>1. new[2] = free /\ \A g \in ghost.given : g[2] # free
      BY <1>7
    <3> QED
      BY <1>4, <1>7, <3>1
  <2>3. \A x \in Stored(pages') : <<x.id, x.schema>> \in ghost'.given
    BY <1>2, <1>3, <1>4, <1>7
  <2> QED
    BY <1>11, <1>12, <2>1, <2>2, <2>3 DEF GivenPages
<1>14. Live(pages') = Live(pages) \cup {e}
  BY <1>2, <1>3 DEF Live
<1>15. \A x \in Live(pages) : x.schema \in DOMAIN pages /\ Cols(pages', x) = Cols(pages, x)
  <2> SUFFICES ASSUME NEW x \in Live(pages)
               PROVE  x.schema \in DOMAIN pages /\ Cols(pages', x) = Cols(pages, x)
    OBVIOUS
  <2> DEFINE g == <<x.id, x.schema>>
  <2>1. g \in ghost.given /\ g[2] = x.schema
    BY <1>7 DEF Live
  <2> QED
    BY <1>8, <2>1 DEF Cols
<1>16. LiveApart'
  <2>1. /\ \A x \in Live(pages) : x.id < t /\ Cols(pages, x) \subseteq 1..(mem.nextCol - 1)
        /\ \A x, y \in Live(pages) :
              IF x.id = y.id THEN x.schema = y.schema ELSE Cols(pages, x) \cap Cols(pages, y) = {}
    BY DEF IInv, LiveApart
  <2>2. /\ n \in Nat \ {0} /\ Cols(pages', e) = ToSet(cols)
        /\ \A z \in ToSet(cols) : z \in mem.nextCol .. (mem.nextCol + n - 1)
    BY <1>2, <1>3, <1>9, NewColsAre DEF Cols, SchemaPage
  <2>3. \A x \in Live(pages) : x.id \in Nat
    <3>1. Stored(pages) \subseteq Entry
      BY PagesFacts DEF IInv
    <3> QED
      BY <3>1 DEF Live, Entry
  <2> HIDE DEF e, cols
  <2>4. \A x \in Live(pages') : x.id < t + 1 /\ Cols(pages', x) \subseteq 1 .. (mem.nextCol + n - 1)
    <3> SUFFICES ASSUME NEW x \in Live(pages')
                 PROVE  x.id < t + 1 /\ Cols(pages', x) \subseteq 1 .. (mem.nextCol + n - 1)
      OBVIOUS
    <3>1. CASE x \in Live(pages)
      BY <1>9, <1>15, <2>1, <2>2, <2>3, <3>1
    <3>2. CASE x = e
      BY <1>3, <1>9, <2>2, <3>2
    <3> QED
      BY <1>14, <3>1, <3>2
  <2>5. ASSUME NEW x \in Live(pages)
        PROVE  /\ x.id # e.id /\ Cols(pages', x) \cap Cols(pages', e) = {}
               /\ Cols(pages', e) \cap Cols(pages', x) = {}
    <3>1. x.id # e.id
      BY <1>3, <1>9, <2>1, <2>3
    <3>2. \A z \in Cols(pages', x) : z \in Nat /\ z < mem.nextCol
      BY <1>9, <1>15, <2>1
    <3>3. \A z \in Cols(pages', e) : z \in Nat /\ mem.nextCol <= z
      BY <1>9, <2>2
    <3> QED
      BY <1>9, <3>1, <3>2, <3>3
  <2>6. \A x, y \in Live(pages') :
            IF x.id = y.id THEN x.schema = y.schema ELSE Cols(pages', x) \cap Cols(pages', y) = {}
    BY <1>14, <1>15, <2>1, <2>5
  <2>7. mem'.nextTable \in 1 .. (Cardinality(ghost'.given) + 1) /\ mem'.nextCol \in Nat \ {0}
    BY <1>1, <1>9, <1>10, <1>11, <2>2
  <2>8. \A x \in Live(pages') :
            x.id < mem'.nextTable /\ Cols(pages', x) \subseteq 1 .. (mem'.nextCol - 1)
    <3>1. mem'.nextTable = t + 1 /\ mem'.nextCol - 1 = mem.nextCol + n - 1
      BY <1>1, <1>9, <2>2
    <3> QED
      BY <2>4, <3>1
  <2> QED
    BY <2>6, <2>7, <2>8 DEF LiveApart
<1> QED
  BY <1>4, <1>5, <1>6, <1>8, <1>13, <1>14, <1>16

LEMMA CreateMem ==
  ASSUME IInv, NEW name \in TableNames, NEW n \in ColumnCounts, CreateTable(name, n)
  PROVE  MemOfPages'
<1> DEFINE t == mem.nextTable
           e == NewEntry(name)
           cols == NewCols(n)
           cur == EntryGoesTo
<1>1. /\ mem'.names = Emplace(mem.names, name, t) /\ mem'.entries = Emplace(mem.entries, t, e)
      /\ mem'.schemas = Emplace(mem.schemas, t, cols) /\ mem'.entryPage = Put(mem.entryPage, t, cur)
      /\ mem'.nextCol = mem.nextCol + n
  BY CreateEffect
<1>2. /\ EntryPages(pages') = EntryPages(pages) \cup {cur} /\ e \in Entry
      /\ pages'[mem.nextFree] = SchemaPage(cols)
  BY CreatePages
<1>3. /\ ghost'.given = ghost.given \cup {<<t, mem.nextFree>>}
      /\ Live(pages') = Live(pages) \cup {e}
      /\ \A g \in ghost.given : pages'[g[2]] = pages[g[2]]
  BY CreateGiven
<1>4. e.id = t /\ e.schema = mem.nextFree /\ e.active
  BY DEF NewEntry
<1>5. /\ DOMAIN mem.names \subseteq TableNames
      /\ \A x \in DOMAIN mem.names : mem.names[x] \in DOMAIN mem.entries
      /\ DOMAIN mem.entryPage = DOMAIN mem.entries /\ DOMAIN mem.schemas \subseteq DOMAIN mem.entries
      /\ \A s \in DOMAIN mem.schemas : ToSet(mem.schemas[s]) \subseteq 1..(mem.nextCol - 1)
      /\ \A s \in DOMAIN mem.entries :
          /\ mem.entries[s] \in Entry /\ mem.entries[s].id = s
          /\ <<s, mem.entries[s].schema>> \in ghost.given
          /\ mem.entryPage[s] \in EntryPages(pages)
          /\ mem.entries[s].active =>
                /\ s \in DOMAIN mem.schemas
                /\ mem.schemas[s] = pages[mem.entries[s].schema].cols
                /\ \E x \in Live(pages) : x.id = s /\ x.schema = mem.entries[s].schema
  BY DEF IInv, MemOfPages
<1>6. /\ n \in Nat \ {0} /\ mem.nextCol \in Nat \ {0}
      /\ \A z \in ToSet(cols) : z \in mem.nextCol .. (mem.nextCol + n - 1)
  <2>1. mem.nextCol \in Nat \ {0}
    BY DEF IInv, LiveApart
  <2> QED
    BY <2>1, NewColsAre
<1> HIDE DEF e, cols, cur
<1>7. /\ DOMAIN mem'.names = DOMAIN mem.names \cup {name}
      /\ DOMAIN mem'.entries = DOMAIN mem.entries \cup {t}
      /\ DOMAIN mem'.entryPage = DOMAIN mem.entryPage \cup {t}
      /\ DOMAIN mem'.schemas = DOMAIN mem.schemas \cup {t}
      /\ \A s \in DOMAIN mem.entries : mem'.entries[s] = mem.entries[s]
      /\ t \notin DOMAIN mem.entries => mem'.entries[t] = e
      /\ \A s \in DOMAIN mem.schemas : mem'.schemas[s] = mem.schemas[s]
      /\ t \notin DOMAIN mem.schemas => mem'.schemas[t] = cols
      /\ mem'.entryPage[t] = cur
      /\ \A s \in DOMAIN mem.entryPage : s # t => mem'.entryPage[s] = mem.entryPage[s]
      /\ \A x \in DOMAIN mem.names : mem'.names[x] = mem.names[x]
      /\ name \notin DOMAIN mem.names => mem'.names[name] = t
  BY <1>1 DEF Emplace, Put
<1>8. DOMAIN mem'.names \subseteq TableNames
  BY <1>5, <1>7
<1>9. \A x \in DOMAIN mem'.names : mem'.names[x] \in DOMAIN mem'.entries
  BY <1>5, <1>7
<1>10. DOMAIN mem'.entryPage = DOMAIN mem'.entries /\ DOMAIN mem'.schemas \subseteq DOMAIN mem'.entries
  BY <1>5, <1>7
<1>11. ASSUME NEW s \in DOMAIN mem'.schemas
       PROVE  ToSet(mem'.schemas[s]) \subseteq 1..(mem'.nextCol - 1)
  <2>1. mem'.nextCol - 1 = mem.nextCol + n - 1
    BY <1>1, <1>6
  <2>2. CASE s \in DOMAIN mem.schemas
    BY <1>5, <1>6, <1>7, <2>1, <2>2
  <2>3. CASE s \notin DOMAIN mem.schemas
    <3>1. mem'.schemas[s] = cols
      BY <1>7, <2>3
    <3> QED
      BY <1>6, <2>1, <3>1
  <2> QED
    BY <2>2, <2>3
<1>12. ASSUME NEW s \in DOMAIN mem'.entries
       PROVE  /\ mem'.entries[s] \in Entry /\ mem'.entries[s].id = s
              /\ <<s, mem'.entries[s].schema>> \in ghost'.given
              /\ mem'.entryPage[s] \in EntryPages(pages')
              /\ mem'.entries[s].active =>
                    /\ s \in DOMAIN mem'.schemas
                    /\ mem'.schemas[s] = pages'[mem'.entries[s].schema].cols
                    /\ \E x \in Live(pages') : x.id = s /\ x.schema = mem'.entries[s].schema
  <2>1. mem'.entryPage[s] \in EntryPages(pages')
    <3>1. CASE s = t
      BY <1>2, <1>7, <3>1
    <3>2. CASE s # t
      <4>1. s \in DOMAIN mem.entries /\ s \in DOMAIN mem.entryPage
        BY <1>5, <1>7, <3>2
      <4>2. mem'.entryPage[s] = mem.entryPage[s] /\ mem.entryPage[s] \in EntryPages(pages)
        BY <1>5, <1>7, <3>2, <4>1
      <4> QED
        BY <1>2, <4>2
    <3> QED
      BY <3>1, <3>2
  <2>2. CASE s \in DOMAIN mem.entries
    <3>1. mem'.entries[s] = mem.entries[s] /\ <<s, mem.entries[s].schema>> \in ghost.given
      BY <1>5, <1>7, <2>2
    <3>2. pages'[mem.entries[s].schema] = pages[mem.entries[s].schema]
      <4> DEFINE g == <<s, mem.entries[s].schema>>
      <4>1. g[2] = mem.entries[s].schema /\ g \in ghost.given
        BY <3>1
      <4> HIDE DEF g
      <4> QED
        BY <1>3, <4>1
    <3> QED
      BY <1>3, <1>5, <1>7, <2>1, <2>2, <3>1, <3>2
  <2>3. CASE s \notin DOMAIN mem.entries
    <3>1. s = t /\ mem'.entries[s] = e /\ mem'.schemas[s] = cols /\ s \in DOMAIN mem'.schemas
      BY <1>5, <1>7, <2>3
    <3>2. pages'[mem.nextFree].cols = cols
      BY <1>2 DEF SchemaPage
    <3>3. e \in Live(pages')
      BY <1>3
    <3> QED
      BY <1>2, <1>3, <1>4, <2>1, <3>1, <3>2, <3>3
  <2> QED
    BY <2>2, <2>3
<1> QED
  BY <1>8, <1>9, <1>10, <1>11, <1>12 DEF MemOfPages

LEMMA CreateOthers ==
  ASSUME IInv, NEW name \in TableNames, NEW n \in ColumnCounts, CreateTable(name, n)
  PROVE  IndexDefs' /\ Statements'
<1>1. /\ SameIndexes(mem', mem) /\ mem'.entries = Emplace(mem.entries, mem.nextTable, NewEntry(name))
      /\ \A p \in DOMAIN pages \ {RootPage, mem.catPage} : pages'[p] = pages[p]
  BY CreateEffect
<1>2. mem.nextFree \in Nat /\ mem'.nextFree \in Nat /\ mem'.nextFree > mem.nextFree
  BY CreatePages
<1>3. contents' = contents /\ inserting' = inserting /\ files' = Emplace(files, mem.nextTable, <<>>)
  BY DEF CreateTable
<1>4. IndexDefs'
  <2>1. /\ mem.nextIndex \in Nat \ {0} /\ mem.nextIndex = NextAfter(DOMAIN mem.indexes)
        /\ DOMAIN mem.indexes \subseteq 1..(mem.nextIndex - 1)
        /\ DOMAIN contents = DOMAIN mem.indexes
        /\ mem.indexPage = NoPage => mem.indexes = Empty
        /\ mem.indexPage # NoPage => /\ mem.indexPage \in 1..(mem.nextFree - 1)
                                     /\ pages[mem.indexPage] = DefsPage(mem.indexes)
    BY DEF IInv, IndexDefs
  <2>2. ASSUME mem.indexPage # NoPage
        PROVE  mem.indexPage \in 1..(mem'.nextFree - 1) /\ pages'[mem.indexPage] = DefsPage(mem.indexes)
    <3>1. mem.catPage \in EntryPages(pages)
      BY PagesFacts DEF IInv
    <3>2. mem.indexPage # mem.catPage /\ mem.indexPage # RootPage
      BY <2>1, <2>2, <3>1 DEF EntryPages, DefsPage, RootPage
    <3>3. DOMAIN pages = 0 .. (mem.nextFree - 1)
      BY DEF IInv, PagesShape
    <3> QED
      BY <1>1, <1>2, <2>1, <2>2, <3>2, <3>3
  <2> QED
    BY <1>1, <1>3, <2>1, <2>2 DEF IndexDefs, SameIndexes
<1>5. Statements'
  <2>1. /\ \A t \in DOMAIN files : files[t] \in Seq({"blank", "row", "node"})
        /\ \A j \in inserting : j.table \in DOMAIN mem.entries
    BY DEF IInv, Statements
  <2>2. DOMAIN mem.entries \subseteq DOMAIN mem'.entries
    BY <1>1 DEF Emplace, Put
  <2>3. \A t \in DOMAIN files' : files'[t] \in Seq({"blank", "row", "node"})
    <3>1. <<>> \in Seq({"blank", "row", "node"})
      OBVIOUS
    <3> QED
      BY <1>3, <2>1, <3>1 DEF Emplace, Put
  <2> QED
    BY <1>3, <2>1, <2>2, <2>3 DEF Statements
<1> QED
  BY <1>4, <1>5


\* As long as the new table's id is new, what is exact stays exact.
LEMMA CreateExact ==
  ASSUME IInv, NEW name \in TableNames, NEW n \in ColumnCounts, CreateTable(name, n), ~ghost'.reused
  PROVE  Exact'
<1> DEFINE t == mem.nextTable
           e == NewEntry(name)
           cols == NewCols(n)
           cur == EntryGoesTo
           new == <<t, mem.nextFree>>
           last == Len(pages'[cur].entries)
<1>1. /\ mem'.names = Emplace(mem.names, name, t) /\ mem'.entries = Emplace(mem.entries, t, e)
      /\ mem'.schemas = Emplace(mem.schemas, t, cols) /\ mem'.entryPage = Put(mem.entryPage, t, cur)
  BY CreateEffect
<1>2. /\ \A p \in EntryPages(pages') : \A i \in DOMAIN pages'[p].entries :
               \/ /\ p \in EntryPages(pages) /\ i \in DOMAIN pages[p].entries
                  /\ pages'[p].entries[i] = pages[p].entries[i]
               \/ p = cur /\ i = last /\ pages'[p].entries[i] = e
      /\ \A p \in EntryPages(pages) : \A i \in DOMAIN pages[p].entries :
            i \in DOMAIN pages'[p].entries /\ pages'[p].entries[i] = pages[p].entries[i]
      /\ last \in DOMAIN pages'[cur].entries /\ pages'[cur].entries[last] = e
      /\ Stored(pages') = Stored(pages) \cup {e}
  BY CreatePages
<1>3. /\ ghost'.given = ghost.given \cup {new} /\ ghost'.made = Put(ghost.made, name, cols)
      /\ ~ghost.reused /\ \A g \in ghost.given : g[1] # t
      /\ GetTable(mem, name) = {}
  <2>1. /\ ghost' = [ghost EXCEPT !.made = Put(@, name, cols), !.given = @ \cup {new},
                                  !.reused = @ \/ \E g \in ghost.given : g[1] = t]
        /\ GetTable(mem, name) = {}
    BY DEF CreateTable, NewCols
  <2>2. /\ DOMAIN ghost = {"made", "given", "reused", "complete", "overlap", "marked", "gone"}
        /\ ghost.reused \in BOOLEAN
    BY DEF IInv, Shapes
  <2>3. ghost'.reused = (ghost.reused \/ \E g \in ghost.given : g[1] = t)
    BY <2>1, <2>2
  <2> QED
    BY <2>1, <2>2, <2>3
<1>4. /\ \A g, h \in ghost.given : g[1] = h[1] => g = h
      /\ \A p, q \in EntryPages(pages) :
            \A i \in DOMAIN pages[p].entries, j \in DOMAIN pages[q].entries :
               pages[p].entries[i].id = pages[q].entries[j].id => p = q /\ i = j
      /\ \A f \in Stored(pages) : f.id \in DOMAIN mem.entries
      /\ \A s \in DOMAIN mem.entries : mem.entries[s] \in ToSet(pages[mem.entryPage[s]].entries)
      /\ \A x \in DOMAIN mem.names :
            mem.entries[mem.names[x]].active /\ mem.entries[mem.names[x]].name = x
      /\ \A s \in DOMAIN mem.entries :
            mem.entries[s].active =>
               mem.entries[s].name \in DOMAIN mem.names /\ mem.names[mem.entries[s].name] = s
      /\ DOMAIN ghost.made = DOMAIN mem.names
      /\ \A x \in DOMAIN mem.names : ghost.made[x] = mem.schemas[mem.names[x]]
  BY <1>3 DEF IInv, Exact
<1>5. /\ \A x \in DOMAIN mem.names : mem.names[x] \in DOMAIN mem.entries
      /\ DOMAIN mem.entryPage = DOMAIN mem.entries /\ DOMAIN mem.schemas \subseteq DOMAIN mem.entries
      /\ \A s \in DOMAIN mem.entries :
            /\ <<s, mem.entries[s].schema>> \in ghost.given /\ mem.entryPage[s] \in EntryPages(pages)
            /\ mem.entries[s].active => s \in DOMAIN mem.schemas
  BY DEF IInv, MemOfPages
<1>6. t \notin DOMAIN mem.entries /\ t \notin DOMAIN mem.schemas
  <2>1. ASSUME NEW s \in DOMAIN mem.entries PROVE s # t
    <3> DEFINE g == <<s, mem.entries[s].schema>>
    <3>1. g \in ghost.given /\ g[1] = s
      BY <1>5
    <3> HIDE DEF g
    <3> QED
      BY <1>3, <3>1
  <2> QED
    BY <1>5, <2>1
<1>7. name \notin DOMAIN mem.names
  BY <1>3, <1>4, <1>5 DEF GetTable
<1>8. e.id = t /\ e.active /\ e.name = name
  BY DEF NewEntry
<1> HIDE DEF e, cols, cur, last
<1>9. /\ DOMAIN mem'.names = DOMAIN mem.names \cup {name}
      /\ mem'.names[name] = t /\ \A x \in DOMAIN mem.names : mem'.names[x] = mem.names[x]
      /\ DOMAIN mem'.entries = DOMAIN mem.entries \cup {t}
      /\ mem'.entries[t] = e /\ \A s \in DOMAIN mem.entries : mem'.entries[s] = mem.entries[s]
      /\ mem'.schemas[t] = cols /\ \A s \in DOMAIN mem.schemas : mem'.schemas[s] = mem.schemas[s]
      /\ mem'.entryPage[t] = cur
      /\ \A s \in DOMAIN mem.entries : mem'.entryPage[s] = mem.entryPage[s]
      /\ DOMAIN ghost'.made = DOMAIN ghost.made \cup {name}
      /\ ghost'.made[name] = cols /\ \A x \in DOMAIN ghost.made : x # name => ghost'.made[x] = ghost.made[x]
  BY <1>1, <1>3, <1>5, <1>6, <1>7 DEF Emplace, Put
<1>10. \A g, h \in ghost'.given : g[1] = h[1] => g = h
  <2>1. new[1] = t
    OBVIOUS
  <2> HIDE DEF new
  <2> QED
    BY <1>3, <1>4, <2>1
<1>11. ASSUME NEW p \in EntryPages(pages'), NEW q \in EntryPages(pages'),
              NEW i \in DOMAIN pages'[p].entries, NEW j \in DOMAIN pages'[q].entries,
              pages'[p].entries[i].id = pages'[q].entries[j].id
       PROVE  p = q /\ i = j
  <2>1. \A r \in EntryPages(pages) : \A k \in DOMAIN pages[r].entries : pages[r].entries[k].id # t
    BY <1>4, <1>6, StoredIs
  <2> QED
    BY <1>2, <1>4, <1>8, <1>11, <2>1
<1>12. \A f \in Stored(pages') : f.id \in DOMAIN mem'.entries
  BY <1>2, <1>4, <1>8, <1>9
<1>13. ASSUME NEW s \in DOMAIN mem'.entries
       PROVE  mem'.entries[s] \in ToSet(pages'[mem'.entryPage[s]].entries)
  <2>1. CASE s = t
    BY <1>2, <1>9, <2>1 DEF ToSet
  <2>2. CASE s \in DOMAIN mem.entries
    <3>1. mem.entries[s] \in ToSet(pages[mem.entryPage[s]].entries) /\ mem.entryPage[s] \in EntryPages(pages)
      BY <1>4, <1>5, <2>2
    <3>2. mem'.entries[s] = mem.entries[s] /\ mem'.entryPage[s] = mem.entryPage[s]
      BY <1>9, <2>2
    <3>3. ToSet(pages[mem.entryPage[s]].entries) \subseteq ToSet(pages'[mem.entryPage[s]].entries)
      BY <1>2, <3>1 DEF ToSet
    <3> QED
      BY <3>1, <3>2, <3>3
  <2> QED
    BY <1>9, <2>1, <2>2
<1>14. \A x \in DOMAIN mem'.names :
          mem'.entries[mem'.names[x]].active /\ mem'.entries[mem'.names[x]].name = x
  BY <1>4, <1>5, <1>8, <1>9
<1>15. \A s \in DOMAIN mem'.entries :
          mem'.entries[s].active =>
             mem'.entries[s].name \in DOMAIN mem'.names /\ mem'.names[mem'.entries[s].name] = s
  BY <1>4, <1>8, <1>9
<1>16. DOMAIN ghost'.made = DOMAIN mem'.names
  BY <1>4, <1>9
<1>17. ASSUME NEW x \in DOMAIN mem'.names
       PROVE  ghost'.made[x] = mem'.schemas[mem'.names[x]]
  <2>1. CASE x = name
    BY <1>9, <2>1
  <2>2. CASE x # name
    <3>1. x \in DOMAIN mem.names /\ mem.names[x] \in DOMAIN mem.schemas
      BY <1>4, <1>5, <1>9, <2>2
    <3>2. ghost'.made[x] = ghost.made[x] /\ mem'.names[x] = mem.names[x]
      BY <1>4, <1>9, <2>2, <3>1
    <3> QED
      BY <1>4, <1>9, <3>1, <3>2
  <2> QED
    BY <2>1, <2>2
<1> QED
  BY <1>10, <1>11, <1>12, <1>13, <1>14, <1>15, <1>16, <1>17 DEF Exact

LEMMA CreateInv ==
  ASSUME IInv, NEW name \in TableNames, NEW n \in ColumnCounts, CreateTable(name, n)
  PROVE  IInv'
BY CreateGiven, CreateChain, CreateMem, CreateOthers, CreateExact DEF IInv

----------------------------------------------------------------------------
(* DROP TABLE and the row counts: one entry, already stored, is replaced.  *)

SameAllocators(m, n) ==
    /\ m.entryPage = n.entryPage /\ m.catPage = n.catPage /\ m.schemas = n.schemas
    /\ m.nextTable = n.nextTable /\ m.nextCol = n.nextCol /\ m.nextFree = n.nextFree
    /\ SameIndexes(m, n)

\* f takes the place of t's entry, in memory and where the page holds it.
EntryReplaced(t, f) ==
    LET p == mem.entryPage[t]
        es == pages[p].entries
    IN  /\ DOMAIN mem' = MemFields /\ SameAllocators(mem', mem)
        /\ mem'.entries = [mem.entries EXCEPT ![t] = f]
        /\ DOMAIN mem'.names \subseteq DOMAIN mem.names
        /\ \A x \in DOMAIN mem'.names : mem'.names[x] = mem.names[x]
        /\ DOMAIN pages' = DOMAIN pages
        /\ \A q \in DOMAIN pages \ {p} : pages'[q] = pages[q]
        /\ \/ pages'[p] = pages[p] /\ \A i \in DOMAIN es : es[i].id # t
           \/ \E i \in DOMAIN es : /\ es[i].id = t
                                   /\ pages'[p] = EntriesPage(WithEntry(es, i, f), pages[p].next)

LEMMA ReplacedPages ==
  ASSUME IInv, NEW t \in DOMAIN mem.entries, NEW f \in Entry, f.id = t, EntryReplaced(t, f)
  PROVE  /\ EntryPages(pages') = EntryPages(pages)
         /\ \A q \in DOMAIN pages \ EntryPages(pages) : pages'[q] = pages[q]
         /\ \A p \in EntryPages(pages) :
               /\ pages'[p] = EntriesPage(pages'[p].entries, pages[p].next)
               /\ pages'[p].next = pages[p].next
               /\ pages'[p].entries \in Seq(Entry)
               /\ DOMAIN pages'[p].entries = DOMAIN pages[p].entries
               /\ \A i \in DOMAIN pages[p].entries :
                     /\ pages'[p].entries[i].id = pages[p].entries[i].id
                     /\ \/ pages'[p].entries[i] = pages[p].entries[i]
                        \/ pages[p].entries[i].id = t /\ pages'[p].entries[i] = f
<1> DEFINE w == mem.entryPage[t]
           es == pages[w].entries
           next == pages[w].next
<1>1. /\ DOMAIN pages' = DOMAIN pages
      /\ \A q \in DOMAIN pages \ {w} : pages'[q] = pages[q]
      /\ \/ pages'[w] = pages[w] /\ \A i \in DOMAIN es : es[i].id # t
         \/ \E i \in DOMAIN es : es[i].id = t /\ pages'[w] = EntriesPage(WithEntry(es, i, f), next)
  BY DEF EntryReplaced
<1>2. w \in EntryPages(pages)
  BY DEF IInv, MemOfPages
<1>3. \A p \in EntryPages(pages) :
         /\ p \in DOMAIN pages /\ pages[p].kind = "entries"
         /\ pages[p] = EntriesPage(pages[p].entries, pages[p].next) /\ pages[p].entries \in Seq(Entry)
  BY DEF IInv, PagesShape, EntryPages
<1> HIDE DEF w, es, next
<1>4. /\ pages'[w] = EntriesPage(pages'[w].entries, next) /\ pages'[w].kind = "entries"
      /\ pages'[w].next = next
      /\ pages'[w].entries \in Seq(Entry) /\ DOMAIN pages'[w].entries = DOMAIN es
      /\ \A i \in DOMAIN es : /\ pages'[w].entries[i].id = es[i].id
                              /\ \/ pages'[w].entries[i] = es[i]
                                 \/ es[i].id = t /\ pages'[w].entries[i] = f
  <2>1. CASE pages'[w] = pages[w]
    BY <1>2, <1>3, <2>1 DEF es, next
  <2>2. CASE \E i \in DOMAIN es : es[i].id = t /\ pages'[w] = EntriesPage(WithEntry(es, i, f), next)
    <3> PICK i \in DOMAIN es : es[i].id = t /\ pages'[w] = EntriesPage(WithEntry(es, i, f), next)
      BY <2>2
    <3> DEFINE fs == WithEntry(es, i, f)
    <3>1. es \in Seq(Entry)
      BY <1>2, <1>3 DEF es
    <3>2. fs \in Seq(Entry) /\ DOMAIN fs = DOMAIN es
      BY <3>1 DEF WithEntry
    <3>3. \A k \in DOMAIN es : fs[k] = IF k = i THEN f ELSE es[k]
      BY <3>1 DEF WithEntry
    <3> HIDE DEF fs
    <3>4. pages'[w] = EntriesPage(fs, next)
      BY DEF fs
    <3>5. pages'[w].entries = fs /\ pages'[w].kind = "entries" /\ pages'[w].next = next
      BY <3>4 DEF EntriesPage
    <3> QED
      BY <3>2, <3>3, <3>4, <3>5
  <2> QED
    BY <1>1, <2>1, <2>2
<1>5. ASSUME NEW p \in EntryPages(pages), p # w
      PROVE  pages'[p] = pages[p]
  BY <1>1, <1>3, <1>5
<1>6. EntryPages(pages') = EntryPages(pages)
  BY <1>1, <1>2, <1>3, <1>4, <1>5 DEF EntryPages
<1>7. \A q \in DOMAIN pages \ EntryPages(pages) : pages'[q] = pages[q]
  BY <1>1, <1>2
<1>8. ASSUME NEW p \in EntryPages(pages)
      PROVE  /\ pages'[p] = EntriesPage(pages'[p].entries, pages[p].next)
             /\ pages'[p].next = pages[p].next
             /\ pages'[p].entries \in Seq(Entry)
             /\ DOMAIN pages'[p].entries = DOMAIN pages[p].entries
             /\ \A i \in DOMAIN pages[p].entries :
                   /\ pages'[p].entries[i].id = pages[p].entries[i].id
                   /\ \/ pages'[p].entries[i] = pages[p].entries[i]
                      \/ pages[p].entries[i].id = t /\ pages'[p].entries[i] = f
  <2>1. CASE p = w
    BY <1>4, <2>1 DEF es, next
  <2>2. CASE p # w
    BY <1>3, <1>5, <2>2
  <2> QED
    BY <2>1, <2>2
<1> QED
  BY <1>6, <1>7, <1>8

\* Every entry stored or live afterwards stands for one stored or live before,
\* with the same id and the same schema page.
LEMMA ReplacedStored ==
  ASSUME IInv, NEW t \in DOMAIN mem.entries, NEW f \in Entry, f.id = t,
         f.schema = mem.entries[t].schema, f.active => mem.entries[t].active, EntryReplaced(t, f)
  PROVE  /\ \A e \in Stored(pages') : e \in Stored(pages) \/ e = f
         /\ \A e \in Live(pages') :
               \E x \in Live(pages) : /\ x.id = e.id /\ x.schema = e.schema
                                      /\ Cols(pages', e) = Cols(pages, x)
         /\ \A x \in Live(pages) : x.id # t => x \in Live(pages')
         /\ f.active => \E e \in Live(pages') : e.id = t /\ e.schema = f.schema
<1>1. /\ EntryPages(pages') = EntryPages(pages)
      /\ \A q \in DOMAIN pages \ EntryPages(pages) : pages'[q] = pages[q]
      /\ \A p \in EntryPages(pages) :
            /\ DOMAIN pages'[p].entries = DOMAIN pages[p].entries
            /\ \A i \in DOMAIN pages[p].entries :
                  \/ pages'[p].entries[i] = pages[p].entries[i]
                  \/ pages[p].entries[i].id = t /\ pages'[p].entries[i] = f
  BY ReplacedPages
<1>2. ASSUME NEW e \in Stored(pages') PROVE e \in Stored(pages) \/ e = f
  <2>1. PICK p \in EntryPages(pages') : \E i \in DOMAIN pages'[p].entries : pages'[p].entries[i] = e
    BY StoredIs
  <2>2. PICK i \in DOMAIN pages'[p].entries : pages'[p].entries[i] = e
    BY <2>1
  <2> QED
    BY <1>1, <2>1, <2>2, StoredIs
<1>3. \A e \in Stored(pages) : e.schema \in DOMAIN pages \ EntryPages(pages)
  <2>1. ASSUME NEW e \in Stored(pages) PROVE e.schema \in DOMAIN pages \ EntryPages(pages)
    <3> DEFINE g == <<e.id, e.schema>>
    <3>1. g \in ghost.given /\ g[2] = e.schema
      BY DEF IInv, GivenPages
    <3> HIDE DEF g
    <3>2. e.schema \in 1 .. (mem.nextFree - 1) /\ pages[e.schema].kind = "schema"
      BY <3>1 DEF IInv, GivenPages
    <3>3. DOMAIN pages = 0 .. (mem.nextFree - 1) /\ mem.nextFree \in Nat
      BY DEF IInv, PagesShape
    <3> QED
      BY <3>2, <3>3 DEF EntryPages
  <2> QED
    BY <2>1
<1>4. f.active => \E x \in Live(pages) : x.id = t /\ x.schema = f.schema
  <2>1. mem.entries[t].active => \E x \in Live(pages) : x.id = t /\ x.schema = mem.entries[t].schema
    BY DEF IInv, MemOfPages
  <2> QED
    BY <2>1
<1>5. ASSUME NEW e \in Live(pages')
      PROVE  \E x \in Live(pages) : /\ x.id = e.id /\ x.schema = e.schema
                                    /\ Cols(pages', e) = Cols(pages, x)
  <2>1. PICK x \in Live(pages) : x.id = e.id /\ x.schema = e.schema
    <3>1. e \in Stored(pages') /\ e.active
      BY DEF Live
    <3>2. CASE e \in Stored(pages)
      BY <3>1, <3>2 DEF Live
    <3>3. CASE e = f
      BY <1>4, <3>1, <3>3
    <3> QED
      BY <1>2, <3>1, <3>2, <3>3
  <2>2. pages'[x.schema] = pages[x.schema]
    BY <1>1, <1>3 DEF Live
  <2> QED
    BY <2>1, <2>2 DEF Cols
<1>6. \A x \in Live(pages) : \/ x \in Live(pages')
                             \/ x.id = t /\ f \in Stored(pages')
  <2>1. ASSUME NEW x \in Live(pages)
        PROVE  x \in Live(pages') \/ (x.id = t /\ f \in Stored(pages'))
    <3>1. x \in Stored(pages) /\ x.active
      BY DEF Live
    <3>2. PICK p \in EntryPages(pages) : \E i \in DOMAIN pages[p].entries : pages[p].entries[i] = x
      BY <3>1, StoredIs
    <3>3. PICK i \in DOMAIN pages[p].entries : pages[p].entries[i] = x
      BY <3>2
    <3>4. pages'[p].entries[i] \in Stored(pages')
      BY <1>1, StoredIs
    <3> QED
      BY <1>1, <3>1, <3>3, <3>4 DEF Live
  <2> QED
    BY <2>1
<1>7. \A x \in Live(pages) : x.id # t => x \in Live(pages')
  BY <1>6
<1>8. ASSUME f.active
      PROVE  \E e \in Live(pages') : e.id = t /\ e.schema = f.schema
  <2>1. PICK x \in Live(pages) : x.id = t /\ x.schema = f.schema
    BY <1>8, <1>4
  <2>2. CASE x \in Live(pages')
    BY <2>1, <2>2
  <2>3. CASE f \in Stored(pages')
    BY <1>8, <2>3 DEF Live
  <2> QED
    BY <1>6, <2>2, <2>3
<1> QED
  BY <1>2, <1>5, <1>7, <1>8

LEMMA ReplacedKeeps ==
  ASSUME IInv, NEW t \in DOMAIN mem.entries, NEW f \in Entry, f.id = t,
         f.schema = mem.entries[t].schema, f.active => mem.entries[t].active, EntryReplaced(t, f),
         contents' = contents, files' = files, inserting' \in SUBSET inserting,
         DOMAIN ghost' = DOMAIN ghost, ghost'.given = ghost.given, ghost'.reused = ghost.reused
  PROVE  /\ Shapes' /\ PagesShape' /\ ChainWhole' /\ GivenPages'
         /\ LiveApart' /\ MemOfPages' /\ IndexDefs' /\ Statements'
<1>1. /\ DOMAIN mem' = MemFields /\ mem'.entries = [mem.entries EXCEPT ![t] = f]
      /\ DOMAIN mem'.names \subseteq DOMAIN mem.names
      /\ \A x \in DOMAIN mem'.names : mem'.names[x] = mem.names[x]
      /\ DOMAIN pages' = DOMAIN pages
      /\ mem'.entryPage = mem.entryPage /\ mem'.catPage = mem.catPage /\ mem'.schemas = mem.schemas
      /\ mem'.nextTable = mem.nextTable /\ mem'.nextCol = mem.nextCol /\ mem'.nextFree = mem.nextFree
      /\ mem'.nextIndex = mem.nextIndex /\ mem'.indexPage = mem.indexPage /\ mem'.indexes = mem.indexes
  BY DEF EntryReplaced, SameAllocators, SameIndexes
<1>2. /\ EntryPages(pages') = EntryPages(pages)
      /\ \A q \in DOMAIN pages \ EntryPages(pages) : pages'[q] = pages[q]
      /\ \A p \in EntryPages(pages) :
            /\ pages'[p] = EntriesPage(pages'[p].entries, pages[p].next)
            /\ pages'[p].next = pages[p].next
            /\ pages'[p].entries \in Seq(Entry)
  BY ReplacedPages
<1>3. /\ \A e \in Stored(pages') : e \in Stored(pages) \/ e = f
      /\ \A e \in Live(pages') :
            \E x \in Live(pages) : /\ x.id = e.id /\ x.schema = e.schema
                                   /\ Cols(pages', e) = Cols(pages, x)
      /\ \A x \in Live(pages) : x.id # t => x \in Live(pages')
      /\ f.active => \E e \in Live(pages') : e.id = t /\ e.schema = f.schema
  BY ReplacedStored
<1>4. Shapes'
  BY <1>1 DEF IInv, Shapes
<1>5. PagesShape'
  <2>1. /\ mem.nextFree \in Nat /\ mem.nextFree >= 2 /\ DOMAIN pages = 0 .. (mem.nextFree - 1)
        /\ pages[RootPage] = RootMeta(mem.nextFree, mem.indexPage)
    BY DEF IInv, PagesShape
  <2>2. RootPage \in DOMAIN pages \ EntryPages(pages)
    BY <2>1 DEF RootPage, RootMeta, EntryPages
  <2> QED
    BY <1>1, <1>2, <2>1, <2>2 DEF PagesShape
<1>6. ChainWhole'
  <2> PICK c : c = Chain(pages, FirstEntriesPage)
    OBVIOUS
  <2>1. IsChain(c, pages) /\ c[Len(c)] = mem.catPage
    BY DEF IInv, ChainWhole
  <2>2. \A k \in 1 .. Len(c) : pages'[c[k]].next = pages[c[k]].next
    BY <1>2, <2>1 DEF IsChain
  <2>3. Len(c) \in 1 .. Len(c) /\ \A k \in 1 .. (Len(c) - 1) : k \in 1 .. Len(c)
    BY <2>1 DEF IsChain
  <2>4. IsChain(c, pages')
    BY <1>2, <2>1, <2>2, <2>3 DEF IsChain
  <2>5. Chain(pages', FirstEntriesPage) = c
    BY <2>4, ChainIs
  <2>6. Chain(pages', FirstEntriesPage) = Chain(pages, FirstEntriesPage)'
    OBVIOUS
  <2> QED
    BY <1>1, <2>1, <2>4, <2>5, <2>6 DEF ChainWhole
<1>7. \A g \in ghost.given : g[2] \in 1 .. (mem.nextFree - 1) /\ pages'[g[2]] = pages[g[2]]
  <2>1. DOMAIN pages = 0 .. (mem.nextFree - 1) /\ mem.nextFree \in Nat
    BY DEF IInv, PagesShape
  <2>2. \A g \in ghost.given : g[2] \in 1 .. (mem.nextFree - 1) /\ pages[g[2]].kind = "schema"
    BY DEF IInv, GivenPages
  <2> QED
    BY <1>2, <2>1, <2>2 DEF EntryPages
<1>8. GivenPages'
  <2>1. <<f.id, f.schema>> \in ghost.given
    BY DEF IInv, MemOfPages
  <2> QED
    BY <1>1, <1>3, <1>7, <2>1 DEF IInv, GivenPages
<1>9. LiveApart'
  <2>1. /\ mem.nextTable \in 1..(Cardinality(ghost.given) + 1) /\ mem.nextCol \in Nat \ {0}
        /\ \A e \in Live(pages) : e.id < mem.nextTable /\ Cols(pages, e) \subseteq 1..(mem.nextCol - 1)
        /\ \A e, x \in Live(pages) :
              IF e.id = x.id THEN e.schema = x.schema
              ELSE Cols(pages, e) \cap Cols(pages, x) = {}
    BY DEF IInv, LiveApart
  <2>2. \A e \in Live(pages') : e.id < mem.nextTable /\ Cols(pages', e) \subseteq 1..(mem.nextCol - 1)
    BY <1>3, <2>1
  <2>3. ASSUME NEW e \in Live(pages'), NEW h \in Live(pages')
        PROVE  IF e.id = h.id THEN e.schema = h.schema
               ELSE Cols(pages', e) \cap Cols(pages', h) = {}
    <3>1. PICK x \in Live(pages) : x.id = e.id /\ x.schema = e.schema /\ Cols(pages', e) = Cols(pages, x)
      BY <1>3
    <3>2. PICK y \in Live(pages) : y.id = h.id /\ y.schema = h.schema /\ Cols(pages', h) = Cols(pages, y)
      BY <1>3
    <3> QED
      BY <2>1, <3>1, <3>2
  <2> QED
    BY <1>1, <2>1, <2>2, <2>3 DEF LiveApart
<1>10. MemOfPages'
  <2>1. /\ DOMAIN mem.names \subseteq TableNames
        /\ \A x \in DOMAIN mem.names : mem.names[x] \in DOMAIN mem.entries
        /\ DOMAIN mem.entryPage = DOMAIN mem.entries
        /\ DOMAIN mem.schemas \subseteq DOMAIN mem.entries
        /\ \A s \in DOMAIN mem.schemas : ToSet(mem.schemas[s]) \subseteq 1..(mem.nextCol - 1)
        /\ \A s \in DOMAIN mem.entries :
              /\ mem.entries[s] \in Entry /\ mem.entries[s].id = s
              /\ <<s, mem.entries[s].schema>> \in ghost.given
              /\ mem.entryPage[s] \in EntryPages(pages)
              /\ mem.entries[s].active =>
                    /\ s \in DOMAIN mem.schemas
                    /\ mem.schemas[s] = pages[mem.entries[s].schema].cols
                    /\ \E e \in Live(pages) : e.id = s /\ e.schema = mem.entries[s].schema
    BY DEF IInv, MemOfPages
  <2>2. /\ DOMAIN mem'.entries = DOMAIN mem.entries
        /\ \A s \in DOMAIN mem.entries : mem'.entries[s] = IF s = t THEN f ELSE mem.entries[s]
    BY <1>1
  <2>3. \A s \in DOMAIN mem.entries : pages'[mem.entries[s].schema] = pages[mem.entries[s].schema]
    <3>1. ASSUME NEW s \in DOMAIN mem.entries
          PROVE  pages'[mem.entries[s].schema] = pages[mem.entries[s].schema]
      <4> DEFINE g == <<s, mem.entries[s].schema>>
      <4>1. g \in ghost.given /\ g[2] = mem.entries[s].schema
        BY <2>1
      <4> HIDE DEF g
      <4> QED
        BY <1>7, <4>1
    <3> QED
      BY <3>1
  <2>4. ASSUME NEW s \in DOMAIN mem'.entries
        PROVE  /\ mem'.entries[s] \in Entry /\ mem'.entries[s].id = s
               /\ <<s, mem'.entries[s].schema>> \in ghost'.given
               /\ mem'.entryPage[s] \in EntryPages(pages')
               /\ mem'.entries[s].active =>
                     /\ s \in DOMAIN mem'.schemas
                     /\ mem'.schemas[s] = pages'[mem'.entries[s].schema].cols
                     /\ \E e \in Live(pages') : e.id = s /\ e.schema = mem'.entries[s].schema
    <3>1. CASE s = t
      BY <1>1, <1>2, <1>3, <2>1, <2>2, <2>3, <3>1
    <3>2. CASE s # t
      <4>1. mem'.entries[s] = mem.entries[s] /\ s \in DOMAIN mem.entries
        BY <2>2, <3>2
      <4>2. \A e \in Live(pages) : e.id = s => e \in Live(pages')
        BY <1>3, <3>2
      <4> QED
        BY <1>1, <1>2, <2>1, <2>3, <4>1, <4>2
    <3> QED
      BY <3>1, <3>2
  <2> QED
    BY <1>1, <2>1, <2>2, <2>4 DEF MemOfPages
<1>11. IndexDefs'
  <2>1. ASSUME mem.indexPage # NoPage
        PROVE  pages'[mem.indexPage] = pages[mem.indexPage]
    <3>1. mem.indexPage \in 1 .. (mem.nextFree - 1) /\ pages[mem.indexPage] = DefsPage(mem.indexes)
      BY <2>1 DEF IInv, IndexDefs
    <3>2. DOMAIN pages = 0 .. (mem.nextFree - 1) /\ mem.nextFree \in Nat
      BY DEF IInv, PagesShape
    <3> QED
      BY <1>2, <3>1, <3>2 DEF EntryPages, DefsPage
  <2> QED
    BY <1>1, <2>1 DEF IInv, IndexDefs
<1>12. Statements'
  BY <1>1 DEF IInv, Statements
<1> QED
  BY <1>4, <1>5, <1>6, <1>8, <1>9, <1>10, <1>11, <1>12

LEMMA ReplacedExact ==
  ASSUME IInv, Exact, NEW t \in DOMAIN mem.entries, NEW f \in Entry, f.id = t,
         f.name = mem.entries[t].name, f.active => mem.entries[t].active, EntryReplaced(t, f),
         \A x \in DOMAIN mem.names : x \in DOMAIN mem'.names <=> (mem.names[x] = t => f.active),
         ghost'.given = ghost.given, DOMAIN ghost'.made = DOMAIN mem'.names,
         \A x \in DOMAIN mem'.names : ghost'.made[x] = ghost.made[x]
  PROVE  Exact'
<1> DEFINE w == mem.entryPage[t]
           es == pages[w].entries
<1>1. /\ mem'.entries = [mem.entries EXCEPT ![t] = f]
      /\ DOMAIN mem'.names \subseteq DOMAIN mem.names
      /\ \A x \in DOMAIN mem'.names : mem'.names[x] = mem.names[x]
      /\ mem'.entryPage = mem.entryPage /\ mem'.schemas = mem.schemas
      /\ \/ \A i \in DOMAIN es : es[i].id # t
         \/ \E i \in DOMAIN es : /\ es[i].id = t
                                 /\ pages'[w] = EntriesPage(WithEntry(es, i, f), pages[w].next)
  BY DEF EntryReplaced, SameAllocators
<1>2. /\ EntryPages(pages') = EntryPages(pages)
      /\ \A p \in EntryPages(pages) :
            /\ DOMAIN pages'[p].entries = DOMAIN pages[p].entries
            /\ \A i \in DOMAIN pages[p].entries :
                  /\ pages'[p].entries[i].id = pages[p].entries[i].id
                  /\ \/ pages'[p].entries[i] = pages[p].entries[i]
                     \/ pages[p].entries[i].id = t /\ pages'[p].entries[i] = f
  BY ReplacedPages
<1>3. /\ \A g, h \in ghost.given : g[1] = h[1] => g = h
      /\ \A p, q \in EntryPages(pages) :
            \A i \in DOMAIN pages[p].entries, j \in DOMAIN pages[q].entries :
               pages[p].entries[i].id = pages[q].entries[j].id => p = q /\ i = j
      /\ \A e \in Stored(pages) : e.id \in DOMAIN mem.entries
      /\ \A s \in DOMAIN mem.entries : mem.entries[s] \in ToSet(pages[mem.entryPage[s]].entries)
      /\ \A x \in DOMAIN mem.names :
            mem.entries[mem.names[x]].active /\ mem.entries[mem.names[x]].name = x
      /\ \A s \in DOMAIN mem.entries :
            mem.entries[s].active =>
               mem.entries[s].name \in DOMAIN mem.names /\ mem.names[mem.entries[s].name] = s
      /\ DOMAIN ghost.made = DOMAIN mem.names
      /\ \A x \in DOMAIN mem.names : ghost.made[x] = mem.schemas[mem.names[x]]
  BY DEF Exact
<1>4. /\ \A x \in DOMAIN mem.names : mem.names[x] \in DOMAIN mem.entries
      /\ \A s \in DOMAIN mem.entries : mem.entries[s].id = s /\ mem.entryPage[s] \in EntryPages(pages)
  BY DEF IInv, MemOfPages
<1>5. /\ DOMAIN mem'.entries = DOMAIN mem.entries /\ mem'.entries[t] = f
      /\ \A s \in DOMAIN mem.entries : s # t => mem'.entries[s] = mem.entries[s]
  BY <1>1
<1>6. \A p, q \in EntryPages(pages') :
         \A i \in DOMAIN pages'[p].entries, j \in DOMAIN pages'[q].entries :
            pages'[p].entries[i].id = pages'[q].entries[j].id => p = q /\ i = j
  BY <1>2, <1>3
<1>7. \A e \in Stored(pages') : e.id \in DOMAIN mem'.entries
  <2>1. ASSUME NEW e \in Stored(pages') PROVE e.id \in DOMAIN mem'.entries
    <3>1. PICK p \in EntryPages(pages') : \E i \in DOMAIN pages'[p].entries : pages'[p].entries[i] = e
      BY StoredIs
    <3>2. PICK i \in DOMAIN pages'[p].entries : pages'[p].entries[i] = e
      BY <3>1
    <3>3. pages[p].entries[i] \in Stored(pages) /\ pages[p].entries[i].id = e.id
      BY <1>2, <3>1, <3>2, StoredIs
    <3> QED
      BY <1>3, <1>5, <3>3
  <2> QED
    BY <2>1
<1>8. ASSUME NEW s \in DOMAIN mem'.entries
      PROVE  mem'.entries[s] \in ToSet(pages'[mem'.entryPage[s]].entries)
  <2> DEFINE p == mem.entryPage[s]
  <2>1. p \in EntryPages(pages) /\ mem'.entryPage[s] = p
    BY <1>1, <1>4, <1>5
  <2>2. PICK i \in DOMAIN pages[p].entries : pages[p].entries[i] = mem.entries[s]
    BY <1>3, <1>5 DEF ToSet
  <2>3. i \in DOMAIN pages'[p].entries
    BY <1>2, <2>1
  <2>4. mem'.entries[s] = pages'[p].entries[i]
    <3>1. CASE s # t
      BY <1>2, <1>4, <1>5, <2>1, <2>2, <3>1
    <3>2. CASE s = t
      <4>1. p = w /\ i \in DOMAIN es /\ es[i].id = t
        BY <1>4, <2>2, <3>2
      <4>2. PICK k \in DOMAIN es : es[k].id = t /\ pages'[w] = EntriesPage(WithEntry(es, k, f), pages[w].next)
        BY <1>1, <4>1
      <4>3. k = i
        BY <1>3, <2>1, <4>1, <4>2
      <4>4. pages'[w].entries = WithEntry(es, i, f)
        BY <4>2, <4>3 DEF EntriesPage
      <4>5. pages'[w].entries[i] = f
        BY <4>1, <4>4 DEF WithEntry
      <4> QED
        BY <1>5, <3>2, <4>1, <4>5
    <3> QED
      BY <3>1, <3>2
  <2> QED
    BY <2>1, <2>3, <2>4 DEF ToSet
<1>9. ASSUME NEW x \in DOMAIN mem'.names
      PROVE  mem'.entries[mem'.names[x]].active /\ mem'.entries[mem'.names[x]].name = x
  <2>1. x \in DOMAIN mem.names /\ mem'.names[x] = mem.names[x] /\ mem.names[x] \in DOMAIN mem.entries
    BY <1>1, <1>4
  <2>2. mem.entries[mem.names[x]].active /\ mem.entries[mem.names[x]].name = x
    BY <1>3, <2>1
  <2>3. mem.names[x] = t => f.active
    BY <2>1
  <2> QED
    BY <1>5, <2>1, <2>2, <2>3
<1>10. ASSUME NEW s \in DOMAIN mem'.entries, mem'.entries[s].active
       PROVE  mem'.entries[s].name \in DOMAIN mem'.names /\ mem'.names[mem'.entries[s].name] = s
  <2>1. mem.entries[s].active /\ mem'.entries[s].name = mem.entries[s].name /\ s \in DOMAIN mem.entries
    BY <1>5, <1>10
  <2>2. mem.entries[s].name \in DOMAIN mem.names /\ mem.names[mem.entries[s].name] = s
    BY <1>3, <2>1
  <2>3. s = t => f.active
    BY <1>5, <1>10
  <2> PICK x : x = mem.entries[s].name
    OBVIOUS
  <2>4. x \in DOMAIN mem.names /\ mem.names[x] = s /\ mem'.entries[s].name = x
    BY <2>1, <2>2
  <2>5. x \in DOMAIN mem'.names
    BY <2>3, <2>4
  <2>6. mem'.names[x] = s
    BY <1>1, <2>4, <2>5
  <2> QED
    BY <2>4, <2>5, <2>6
<1>11. ASSUME NEW x \in DOMAIN mem'.names
       PROVE  ghost'.made[x] = mem'.schemas[mem'.names[x]]
  <2>1. x \in DOMAIN mem.names /\ mem'.names[x] = mem.names[x] /\ ghost'.made[x] = ghost.made[x]
    BY <1>1
  <2>2. ghost.made[x] = mem.schemas[mem.names[x]]
    BY <1>3, <2>1
  <2> QED
    BY <1>1, <2>1, <2>2
<1> QED
  BY <1>3, <1>6, <1>7, <1>8, <1>9, <1>10, <1>11 DEF Exact

\* The object with its entry of t changed to f, and perhaps names removed.
Changed(s, t, f) ==
    /\ s = [m |-> s.m, pg |-> pages] /\ DOMAIN s.m = MemFields /\ SameAllocators(s.m, mem)
    /\ s.m.entries = [mem.entries EXCEPT ![t] = f]
    /\ DOMAIN s.m.names \subseteq DOMAIN mem.names
    /\ \A x \in DOMAIN s.m.names : s.m.names[x] = mem.names[x]

\* Its write-through replaces the entry.
LEMMA UpdateReplaces ==
  ASSUME IInv, NEW t \in DOMAIN mem.entries, NEW f \in Entry, f.id = t,
         NEW s, Changed(s, t, f), Become(PersistUpdatedEntry(s, t))
  PROVE  EntryReplaced(t, f) /\ mem'.names = s.m.names
<1> PICK p : p = mem.entryPage[t]
  OBVIOUS
<1> PICK r : r = PersistUpdatedEntry(s, t)
  OBVIOUS
<1>1. s.pg = pages /\ s = [m |-> s.m, pg |-> s.pg] /\ p = s.m.entryPage[t] /\ s.m.entries[t] = f
  BY DEF Changed, SameAllocators
<1>2. Updatable(s, t)
  <2>1. p \in EntryPages(pages)
    BY DEF IInv, MemOfPages
  <2> QED
    BY <1>1, <2>1 DEF IInv, PagesShape, EntryPages, Updatable
<1>3. mem' = r.m /\ pages' = r.pg
  BY DEF Become
<1>4. /\ r.m = s.m /\ DOMAIN r.pg = DOMAIN s.pg
      /\ \A q \in DOMAIN s.pg \ {p} : r.pg[q] = s.pg[q]
      /\ \/ r.pg[p] = s.pg[p] /\ \A i \in DOMAIN s.pg[p].entries : s.pg[p].entries[i].id # t
         \/ \E i \in DOMAIN s.pg[p].entries :
               /\ s.pg[p].entries[i].id = t
               /\ r.pg[p] = EntriesPage(WithEntry(s.pg[p].entries, i, s.m.entries[t]), s.pg[p].next)
  <2>1. Rewritten(s, t, r)
    BY <1>2, UpdatedEffect
  <2> QED
    BY <1>1, <2>1 DEF Rewritten
<1>5. DOMAIN pages' = DOMAIN pages /\ \A q \in DOMAIN pages \ {p} : pages'[q] = pages[q]
  BY <1>1, <1>3, <1>4
<1>6. \/ pages'[p] = pages[p] /\ \A i \in DOMAIN pages[p].entries : pages[p].entries[i].id # t
      \/ \E i \in DOMAIN pages[p].entries :
            /\ pages[p].entries[i].id = t
            /\ pages'[p] = EntriesPage(WithEntry(pages[p].entries, i, f), pages[p].next)
  <2>1. ASSUME NEW i \in DOMAIN s.pg[p].entries, s.pg[p].entries[i].id = t,
               r.pg[p] = EntriesPage(WithEntry(s.pg[p].entries, i, s.m.entries[t]), s.pg[p].next)
        PROVE  /\ i \in DOMAIN pages[p].entries /\ pages[p].entries[i].id = t
               /\ pages'[p] = EntriesPage(WithEntry(pages[p].entries, i, f), pages[p].next)
    <3>1. WithEntry(s.pg[p].entries, i, s.m.entries[t]) = WithEntry(pages[p].entries, i, f)
      BY <1>1
    <3> QED
      BY <1>1, <1>3, <2>1, <3>1
  <2> QED
    BY <1>1, <1>3, <1>4, <2>1
<1>7. mem' = s.m
  BY <1>3, <1>4
<1> QED
  BY <1>5, <1>6, <1>7 DEF EntryReplaced, Changed

\* The maps that a load is compared with are functions, key by key.
IsMap(f) == f = [x \in DOMAIN f |-> f[x]]
Maps == IsMap(mem.names) /\ IsMap(mem.entries) /\ IsMap(mem.entryPage)

LEMMA MapOps ==
  ASSUME NEW f, NEW x, NEW y
  PROVE  IsMap(Put(f, x, y)) /\ (IsMap(f) => IsMap(Emplace(f, x, y)))
<1>1. IsMap(Put(f, x, y))
  BY DEF IsMap, Put
<1>2. IsMap(f) => IsMap(Emplace(f, x, y))
  BY <1>1 DEF Emplace
<1> QED
  BY <1>1, <1>2

\* An entry with a field changed is an entry.
LEMMA EntryChanged ==
  ASSUME NEW e \in Entry
  PROVE  /\ [e EXCEPT !.active = FALSE] \in Entry /\ [e EXCEPT !.rows = @ + 1] \in Entry
         /\ \A f \in {[e EXCEPT !.active = FALSE], [e EXCEPT !.rows = @ + 1]} :
               /\ f.id = e.id /\ f.name = e.name /\ f.schema = e.schema /\ (f.active => e.active)
         /\ ~[e EXCEPT !.active = FALSE].active /\ [e EXCEPT !.rows = @ + 1].active = e.active
<1> DEFINE f == [e EXCEPT !.active = FALSE]
           g == [e EXCEPT !.rows = @ + 1]
<1>1. /\ f \in Entry /\ ~f.active
      /\ f.id = e.id /\ f.name = e.name /\ f.schema = e.schema
  BY DEF Entry
<1>2. /\ g \in Entry /\ g.active = e.active
      /\ g.id = e.id /\ g.name = e.name /\ g.schema = e.schema
  <2>1. e.rows \in Nat /\ e.rows + 1 \in Nat
    BY DEF Entry
  <2> QED
    BY <2>1 DEF Entry
<1> HIDE DEF f, g
<1>3. f \in Entry /\ g \in Entry /\ ~f.active /\ g.active = e.active
  BY <1>1, <1>2
<1>4. \A x \in {f, g} : x.id = e.id /\ x.name = e.name /\ x.schema = e.schema /\ (x.active => e.active)
  BY <1>1, <1>2
<1> QED
  BY <1>3, <1>4 DEF f, g

LEMMA DropInv ==
  ASSUME IInv, NEW name \in TableNames, DropTable(name)
  PROVE  /\ IInv' /\ (Maps => Maps')
         /\ \E t \in DOMAIN mem.entries : \E f \in Entry :
               (f.active => mem.entries[t].active) /\ EntryReplaced(t, f)
<1> PICK t : t = mem.names[name]
  OBVIOUS
<1> PICK f : f = [mem.entries[t] EXCEPT !.active = FALSE]
  OBVIOUS
<1> DEFINE left == [x \in DOMAIN mem.names \ {name} |-> mem.names[x]]
           s == [Here EXCEPT !.m.entries[t].active = FALSE, !.m.names = left]
<1>1. /\ name \in DOMAIN mem.names /\ Become(PersistUpdatedEntry(s, t))
      /\ ghost' = [ghost EXCEPT !.made = [x \in DOMAIN @ \ {name} |-> @[x]]]
      /\ contents' = contents /\ files' = files /\ inserting' = inserting
  BY DEF DropTable, Here
<1>2. t \in DOMAIN mem.entries /\ mem.entries[t] \in Entry /\ mem.entries[t].id = t
  BY <1>1 DEF IInv, MemOfPages
<1>3. f \in Entry /\ f.id = t /\ f.name = mem.entries[t].name /\ f.schema = mem.entries[t].schema /\ ~f.active
  BY <1>2, EntryChanged
<1>4. DOMAIN mem = MemFields
  BY DEF IInv, Shapes
<1>5. DOMAIN ghost = {"made", "given", "reused", "complete", "overlap", "marked", "gone"}
  BY DEF IInv, Shapes
<1>6. Changed(s, t, f) /\ s.m.names = left
  <2> HIDE DEF left
  <2>1. s = [m |-> s.m, pg |-> pages]
    <3> DEFINE h == [Here EXCEPT !.m.entries[t].active = FALSE]
    <3>1. h = [m |-> h.m, pg |-> pages]
      BY DEF Here
    <3>2. s = [h EXCEPT !.m.names = left]
      OBVIOUS
    <3> HIDE DEF h, s
    <3> QED
      BY <3>1, <3>2
  <2>2. DOMAIN s.m = MemFields /\ s.m.names = left
    BY <1>4 DEF Here, MemFields
  <2>3. SameAllocators(s.m, mem)
    BY <1>4 DEF Here, MemFields, SameAllocators, SameIndexes
  <2>4. s.m.entries = [mem.entries EXCEPT ![t].active = FALSE]
    BY <1>4 DEF Here, MemFields
  <2> HIDE DEF s
  <2>5. s.m.entries = [mem.entries EXCEPT ![t] = f]
    BY <1>2, <2>4
  <2>6. DOMAIN left = DOMAIN mem.names \ {name} /\ \A x \in DOMAIN left : left[x] = mem.names[x]
    BY DEF left
  <2> QED
    BY <2>1, <2>2, <2>3, <2>5, <2>6 DEF Changed
<1> PICK r : r = s
  OBVIOUS
<1>7. EntryReplaced(t, f) /\ mem'.names = r.m.names
  <2> HIDE DEF s
  <2>1. Changed(r, t, f) /\ Become(PersistUpdatedEntry(r, t))
    BY <1>1, <1>6
  <2> QED
    BY <1>2, <1>3, <2>1, UpdateReplaces
<1>8. DOMAIN mem'.names = DOMAIN mem.names \ {name}
  BY <1>6, <1>7
<1>9. /\ DOMAIN ghost' = DOMAIN ghost /\ ghost'.given = ghost.given /\ ghost'.reused = ghost.reused
      /\ DOMAIN ghost'.made = DOMAIN ghost.made \ {name}
      /\ \A x \in DOMAIN ghost.made \ {name} : ghost'.made[x] = ghost.made[x]
  BY <1>1, <1>5
<1> HIDE DEF s, left
<1>10. /\ Shapes' /\ PagesShape' /\ ChainWhole' /\ GivenPages'
       /\ LiveApart' /\ MemOfPages' /\ IndexDefs' /\ Statements'
  BY <1>1, <1>2, <1>3, <1>7, <1>9, ReplacedKeeps
<1>11. ASSUME ~ghost'.reused PROVE Exact'
  <2>1. Exact
    BY <1>9, <1>11 DEF IInv
  <2>2. ASSUME NEW x \in DOMAIN mem.names
        PROVE  x \in DOMAIN mem'.names <=> (mem.names[x] = t => f.active)
    <3>1. mem.entries[mem.names[x]].name = x /\ mem.entries[t].name = name
      BY <1>1, <2>1 DEF Exact
    <3> QED
      BY <1>3, <1>8, <3>1
  <2>3. DOMAIN ghost.made = DOMAIN mem.names
    BY <2>1 DEF Exact
  <2>4. DOMAIN ghost'.made = DOMAIN mem'.names /\ \A x \in DOMAIN mem'.names : ghost'.made[x] = ghost.made[x]
    BY <1>8, <1>9, <2>3
  <2> QED
    BY <1>2, <1>3, <1>7, <1>9, <2>1, <2>2, <2>4, ReplacedExact
<1>12. ASSUME Maps PROVE Maps'
  <2>1. mem'.names = [x \in DOMAIN mem.names \ {name} |-> mem.names[x]]
    BY <1>6, <1>7 DEF left
  <2>2. mem'.entries = [mem.entries EXCEPT ![t] = f] /\ mem'.entryPage = mem.entryPage
    BY <1>7 DEF EntryReplaced, SameAllocators
  <2>3. IsMap(mem'.names)
    BY <2>1 DEF IsMap
  <2>4. IsMap(mem'.entries)
    BY <2>2 DEF IsMap
  <2>5. IsMap(mem'.entryPage)
    BY <1>12, <2>2 DEF Maps
  <2> QED
    BY <2>3, <2>4, <2>5 DEF Maps
<1> QED
  BY <1>2, <1>3, <1>7, <1>10, <1>11, <1>12 DEF IInv

LEMMA AddRowCountInv ==
  ASSUME IInv, NEW j \in inserting, AddRowCount(j)
  PROVE  /\ IInv' /\ (Maps => Maps')
         /\ \E t \in DOMAIN mem.entries : \E f \in Entry :
               (f.active => mem.entries[t].active) /\ EntryReplaced(t, f)
<1> PICK t : t = j.table
  OBVIOUS
<1> PICK f : f = [mem.entries[t] EXCEPT !.rows = @ + 1]
  OBVIOUS
<1> DEFINE s == [Here EXCEPT !.m.entries[t].rows = @ + 1]
<1>1. /\ Become(PersistUpdatedEntry(s, t)) /\ ghost' = ghost
      /\ contents' = contents /\ files' = files /\ inserting' = {}
  BY DEF AddRowCount
<1>2. t \in DOMAIN mem.entries /\ mem.entries[t] \in Entry /\ mem.entries[t].id = t
  BY DEF IInv, MemOfPages, Statements
<1>3. /\ f \in Entry /\ f.id = t /\ f.name = mem.entries[t].name /\ f.schema = mem.entries[t].schema
      /\ f.active = mem.entries[t].active
  BY <1>2, EntryChanged
<1>4. DOMAIN mem = MemFields
  BY DEF IInv, Shapes
<1>5. Changed(s, t, f) /\ s.m.names = mem.names
  <2>1. s = [m |-> s.m, pg |-> pages]
    BY DEF Here
  <2>2. DOMAIN s.m = MemFields /\ s.m.names = mem.names
    BY <1>4 DEF Here, MemFields
  <2>3. SameAllocators(s.m, mem)
    BY <1>4 DEF Here, MemFields, SameAllocators, SameIndexes
  <2>4. s.m.entries = [mem.entries EXCEPT ![t].rows = @ + 1]
    BY <1>4 DEF Here, MemFields
  <2> HIDE DEF s
  <2>5. s.m.entries = [mem.entries EXCEPT ![t] = f]
    BY <1>2, <2>4
  <2> QED
    BY <2>1, <2>2, <2>3, <2>5 DEF Changed
<1> PICK r : r = s
  OBVIOUS
<1>6. EntryReplaced(t, f) /\ mem'.names = mem.names
  <2> HIDE DEF s
  <2>1. Changed(r, t, f) /\ Become(PersistUpdatedEntry(r, t)) /\ r.m.names = mem.names
    BY <1>1, <1>5
  <2> QED
    BY <1>2, <1>3, <2>1, UpdateReplaces
<1> HIDE DEF s
<1>7. /\ Shapes' /\ PagesShape' /\ ChainWhole' /\ GivenPages'
      /\ LiveApart' /\ MemOfPages' /\ IndexDefs' /\ Statements'
  BY <1>1, <1>2, <1>3, <1>6, ReplacedKeeps
<1>8. ASSUME ~ghost'.reused PROVE Exact'
  <2>1. Exact
    BY <1>1, <1>8 DEF IInv
  <2>2. \A x \in DOMAIN mem.names : x \in DOMAIN mem'.names <=> (mem.names[x] = t => f.active)
    BY <1>3, <1>6, <2>1 DEF Exact
  <2>3. DOMAIN ghost.made = DOMAIN mem.names
    BY <2>1 DEF Exact
  <2> QED
    BY <1>1, <1>2, <1>3, <1>6, <2>1, <2>2, <2>3, ReplacedExact
<1>9. ASSUME Maps PROVE Maps'
  <2>1. mem'.entries = [mem.entries EXCEPT ![t] = f] /\ mem'.entryPage = mem.entryPage
    BY <1>6 DEF EntryReplaced, SameAllocators
  <2>2. IsMap(mem'.entries)
    BY <2>1 DEF IsMap
  <2>3. IsMap(mem'.names) /\ IsMap(mem'.entryPage)
    BY <1>6, <1>9, <2>1 DEF Maps
  <2> QED
    BY <2>2, <2>3 DEF Maps
<1> QED
  BY <1>2, <1>3, <1>6, <1>7, <1>8, <1>9 DEF IInv

----------------------------------------------------------------------------
(* CREATE INDEX.                                                           *)

\* Nothing that holds tables changes.
SamePages ==
    /\ EntryPages(pages') = EntryPages(pages)
    /\ \A p \in EntryPages(pages) : pages'[p] = pages[p]
    /\ \A p \in DOMAIN pages : pages[p].kind = "schema" => pages'[p] = pages[p]

LEMMA SamePagesKeep ==
  ASSUME IInv, SamePages
  PROVE  /\ Stored(pages') = Stored(pages) /\ Live(pages') = Live(pages)
         /\ \A e \in Stored(pages) : pages'[e.schema] = pages[e.schema] /\ Cols(pages', e) = Cols(pages, e)
         /\ \A g \in ghost.given : pages'[g[2]] = pages[g[2]]
<1>1. /\ EntryPages(pages') = EntryPages(pages)
      /\ \A p \in EntryPages(pages) : pages'[p] = pages[p]
      /\ \A p \in DOMAIN pages : pages[p].kind = "schema" => pages'[p] = pages[p]
  BY DEF SamePages
<1>2. Stored(pages') = Stored(pages)
  BY <1>1 DEF Stored
<1>3. Live(pages') = Live(pages)
  BY <1>2 DEF Live
<1>4. \A g \in ghost.given : pages'[g[2]] = pages[g[2]]
  <2>1. \A g \in ghost.given : g[2] \in 1 .. (mem.nextFree - 1) /\ pages[g[2]].kind = "schema"
    BY DEF IInv, GivenPages
  <2>2. DOMAIN pages = 0 .. (mem.nextFree - 1) /\ mem.nextFree \in Nat
    BY DEF IInv, PagesShape
  <2> QED
    BY <1>1, <2>1, <2>2
<1>5. ASSUME NEW e \in Stored(pages)
      PROVE  pages'[e.schema] = pages[e.schema]
  <2> DEFINE g == <<e.id, e.schema>>
  <2>1. g \in ghost.given /\ g[2] = e.schema
    BY DEF IInv, GivenPages
  <2> HIDE DEF g
  <2> QED
    BY <1>4, <2>1
<1> QED
  BY <1>2, <1>3, <1>4, <1>5 DEF Cols

LEMMA TablesKept ==
  ASSUME IInv, SamePages, SameTables(mem', mem),
         mem'.entryPage = mem.entryPage, mem'.catPage = mem.catPage,
         mem'.nextFree \in Nat, mem'.nextFree >= mem.nextFree,
         ghost'.made = ghost.made, ghost'.given = ghost.given, ghost'.reused = ghost.reused
  PROVE  ChainWhole' /\ GivenPages' /\ LiveApart' /\ MemOfPages' /\ (~ghost'.reused => Exact')
<1>1. /\ EntryPages(pages') = EntryPages(pages)
      /\ \A p \in EntryPages(pages) : pages'[p] = pages[p]
  BY DEF SamePages
<1>2. /\ Stored(pages') = Stored(pages) /\ Live(pages') = Live(pages)
      /\ \A e \in Stored(pages) : pages'[e.schema] = pages[e.schema] /\ Cols(pages', e) = Cols(pages, e)
      /\ \A g \in ghost.given : pages'[g[2]] = pages[g[2]]
  BY SamePagesKeep
<1>3. /\ mem'.names = mem.names /\ mem'.entries = mem.entries /\ mem'.schemas = mem.schemas
      /\ mem'.nextTable = mem.nextTable /\ mem'.nextCol = mem.nextCol
  BY DEF SameTables
<1>4. ChainWhole'
  <2> PICK c : c = Chain(pages, FirstEntriesPage)
    OBVIOUS
  <2>1. IsChain(c, pages) /\ c[Len(c)] = mem.catPage
    BY DEF IInv, ChainWhole
  <2>2. IsChain(c, pages')
    <3>1. Len(c) \in 1 .. Len(c) /\ \A k \in 1 .. (Len(c) - 1) : k \in 1 .. Len(c)
      BY <2>1 DEF IsChain
    <3>2. \A k \in 1 .. Len(c) : pages'[c[k]].next = pages[c[k]].next
      BY <1>1, <2>1 DEF IsChain
    <3> QED
      BY <1>1, <2>1, <3>1, <3>2 DEF IsChain
  <2>3. Chain(pages', FirstEntriesPage) = c
    BY <2>2, ChainIs
  <2>4. Chain(pages', FirstEntriesPage) = Chain(pages, FirstEntriesPage)'
    OBVIOUS
  <2> QED
    BY <2>1, <2>2, <2>3, <2>4 DEF ChainWhole
<1>5. GivenPages'
  <2>1. \A n \in 1 .. (mem.nextFree - 1) : n \in 1 .. (mem'.nextFree - 1)
    BY DEF IInv, PagesShape
  <2> QED
    BY <1>2, <2>1 DEF IInv, GivenPages
<1>6. LiveApart'
  <2>1. \A e \in Live(pages) : Cols(pages', e) = Cols(pages, e)
    BY <1>2 DEF Live
  <2> QED
    BY <1>2, <1>3, <2>1 DEF IInv, LiveApart
<1>7. MemOfPages'
  <2>1. ASSUME NEW t \in DOMAIN mem.entries
        PROVE  pages'[mem.entries[t].schema] = pages[mem.entries[t].schema]
    <3> DEFINE g == <<t, mem.entries[t].schema>>
    <3>1. g \in ghost.given /\ g[2] = mem.entries[t].schema
      BY DEF IInv, MemOfPages
    <3> HIDE DEF g
    <3> QED
      BY <1>2, <3>1
  <2> QED
    BY <1>1, <1>2, <1>3, <2>1 DEF IInv, MemOfPages
<1>8. ASSUME ~ghost'.reused PROVE Exact'
  <2>1. Exact
    BY <1>8 DEF IInv
  <2>2. \A t \in DOMAIN mem.entries : mem.entryPage[t] \in EntryPages(pages)
    BY DEF IInv, MemOfPages
  <2>3. \A t \in DOMAIN mem.entries : pages'[mem.entryPage[t]] = pages[mem.entryPage[t]]
    BY <1>1, <2>2
  <2>4. \A p, q \in EntryPages(pages') :
           \A i \in DOMAIN pages'[p].entries, j \in DOMAIN pages'[q].entries :
              pages'[p].entries[i].id = pages'[q].entries[j].id => p = q /\ i = j
    BY <1>1, <2>1 DEF Exact
  <2> QED
    BY <1>2, <1>3, <2>1, <2>3, <2>4 DEF Exact
<1> QED
  BY <1>4, <1>5, <1>6, <1>7, <1>8

LEMMA RegisterEffect ==
  ASSUME IInv, NEW name \in IndexNames, NEW t \in DOMAIN files, NEW disk \in BOOLEAN,
         RegisterIndex(name, t, disk)
  PROVE  LET free == mem.nextFree
             first == mem.indexPage = NoPage
             here == IF first THEN free ELSE mem.indexPage
         IN  /\ DOMAIN mem' = MemFields /\ SameTables(mem', mem)
             /\ mem'.entryPage = mem.entryPage /\ mem'.catPage = mem.catPage
             /\ mem'.nextIndex = mem.nextIndex + 1
             /\ DOMAIN mem'.indexes = DOMAIN mem.indexes \cup {mem.nextIndex}
             /\ \E cols \in GetSchema(mem, t) :
                   mem'.indexes = Emplace(mem.indexes, mem.nextIndex,
                       [name |-> name, table |-> t, col |-> Head(cols), disk |-> disk])
             /\ mem'.indexPage = here /\ mem'.nextFree = (IF first THEN free + 1 ELSE free)
             /\ DOMAIN pages' = 0 .. (mem'.nextFree - 1)
             /\ pages'[RootPage] = (IF first THEN RootMeta(free + 1, free) ELSE pages[RootPage])
             /\ pages'[here] = DefsPage(mem'.indexes)
             /\ \A p \in DOMAIN pages \ {RootPage, here} : pages'[p] = pages[p]
             /\ DOMAIN contents' = DOMAIN contents \cup {mem.nextIndex}
             /\ DOMAIN ghost' = DOMAIN ghost /\ ghost'.made = ghost.made
             /\ ghost'.given = ghost.given /\ ghost'.reused = ghost.reused
<1> PICK i : i = mem.nextIndex
  OBVIOUS
<1>1. PICK cols \in GetSchema(mem, t) :
         LET def == [name |-> name, table |-> t, col |-> Head(cols), disk |-> disk]
         IN  /\ Become(PersistIndexDefs([Here EXCEPT !.m.nextIndex = @ + 1,
                                                     !.m.indexes = Emplace(@, i, def)]))
             /\ contents' = Put(contents, i, EmptyBag)
             /\ ghost' = [ghost EXCEPT !.overlap = @ \cup
                             {<<i, j.page>> : j \in {k \in inserting : k.table = t}}]
  BY DEF RegisterIndex
<1> PICK def : def = [name |-> name, table |-> t, col |-> Head(cols), disk |-> disk]
  OBVIOUS
<1> DEFINE h == [Here EXCEPT !.m.nextIndex = @ + 1]
           defs == Emplace(mem.indexes, i, def)
           s == [h EXCEPT !.m.indexes = defs]
<1>2. DOMAIN mem = MemFields
  BY DEF IInv, Shapes
<1>3. Become(PersistIndexDefs(s))
  <2>1. h.m.indexes = mem.indexes
    BY <1>2 DEF Here, MemFields
  <2> DEFINE full == [Here EXCEPT !.m.nextIndex = @ + 1, !.m.indexes = Emplace(@, i, def)]
  <2>2. Become(PersistIndexDefs(full))
    BY <1>1
  <2>3. full = [h EXCEPT !.m.indexes = Emplace(@, i, def)]
    OBVIOUS
  <2> HIDE DEF full, h
  <2>4. full = s
    BY <2>1, <2>3
  <2> QED
    BY <2>2, <2>4
<1>4. h = [m |-> h.m, pg |-> pages]
  BY DEF Here
<1>5. DOMAIN h.m = MemFields /\ h.m.nextIndex = i + 1 /\ h.m.indexPage = mem.indexPage
  BY <1>2 DEF Here, MemFields
<1>6. /\ SameTables(h.m, mem) /\ h.m.entryPage = mem.entryPage
      /\ h.m.catPage = mem.catPage /\ h.m.nextFree = mem.nextFree
  BY <1>2 DEF Here, MemFields, SameTables
<1> HIDE DEF h, defs
<1>7. s = [m |-> s.m, pg |-> pages]
  BY <1>4
<1>8. /\ DOMAIN s.m = MemFields /\ s.m.indexes = defs
      /\ s.m.nextIndex = i + 1 /\ s.m.indexPage = mem.indexPage
  BY <1>4, <1>5 DEF MemFields
<1>9. /\ SameTables(s.m, mem) /\ s.m.entryPage = mem.entryPage
      /\ s.m.catPage = mem.catPage /\ s.m.nextFree = mem.nextFree
  BY <1>4, <1>5, <1>6 DEF MemFields, SameTables
<1> PICK u : u = s
  OBVIOUS
<1> PICK r : r = PersistIndexDefs(u)
  OBVIOUS
<1> HIDE DEF s
<1>10. /\ u.pg = pages /\ u = [m |-> u.m, pg |-> u.pg] /\ DOMAIN u.m = MemFields /\ u.m.indexes = defs
       /\ u.m.nextIndex = i + 1 /\ u.m.indexPage = mem.indexPage
       /\ SameTables(u.m, mem) /\ u.m.entryPage = mem.entryPage
       /\ u.m.catPage = mem.catPage /\ u.m.nextFree = mem.nextFree
  BY <1>7, <1>8, <1>9
<1>11. mem' = r.m /\ pages' = r.pg
  BY <1>3 DEF Become
<1>12. WellFormed(u) /\ (u.m.indexPage # NoPage => u.m.indexPage \in 1 .. (u.m.nextFree - 1))
  <2>1. /\ mem.nextFree \in Nat /\ mem.nextFree >= 2 /\ DOMAIN pages = 0 .. (mem.nextFree - 1)
        /\ mem.catPage \in EntryPages(pages)
        /\ \A p \in EntryPages(pages) : p \in 1 .. (mem.nextFree - 1)
    BY PagesFacts DEF IInv, PagesShape
  <2>2. pages[mem.catPage] = EntriesPage(pages[mem.catPage].entries, pages[mem.catPage].next)
    BY <2>1 DEF IInv, PagesShape
  <2>3. mem.indexPage # NoPage => mem.indexPage \in 1 .. (mem.nextFree - 1)
    BY DEF IInv, IndexDefs
  <2> QED
    BY <1>10, <2>1, <2>2, <2>3 DEF WellFormed
<1>13. LET free == u.m.nextFree
           first == u.m.indexPage = NoPage
           here == IF first THEN free ELSE u.m.indexPage
       IN  /\ r = [m |-> r.m, pg |-> r.pg] /\ DOMAIN r.m = MemFields
           /\ SameTables(r.m, u.m) /\ r.m.entryPage = u.m.entryPage /\ r.m.catPage = u.m.catPage
           /\ r.m.nextIndex = u.m.nextIndex /\ r.m.indexes = u.m.indexes /\ r.m.indexPage = here
           /\ r.m.nextFree = (IF first THEN free + 1 ELSE free)
           /\ DOMAIN r.pg = 0 .. (r.m.nextFree - 1)
           /\ r.pg[RootPage] = (IF first THEN RootMeta(free + 1, free) ELSE u.pg[RootPage])
           /\ r.pg[here] = DefsPage(u.m.indexes)
           /\ \A p \in DOMAIN u.pg \ {RootPage, here} : r.pg[p] = u.pg[p]
  BY <1>12, IndexDefsEffect
<1>14. DOMAIN defs = DOMAIN mem.indexes \cup {i}
  BY DEF defs, Emplace, Put
<1>15. DOMAIN contents' = DOMAIN contents \cup {i}
  BY <1>1 DEF Put
<1>16. /\ DOMAIN ghost' = DOMAIN ghost /\ ghost'.made = ghost.made
       /\ ghost'.given = ghost.given /\ ghost'.reused = ghost.reused
  <2>1. DOMAIN ghost = {"made", "given", "reused", "complete", "overlap", "marked", "gone"}
    BY DEF IInv, Shapes
  <2> QED
    BY <1>1, <2>1
<1> HIDE DEF defs
<1>17. SameTables(mem', mem) /\ mem'.indexes = defs
  BY <1>10, <1>11, <1>13 DEF SameTables
<1>20. \E x \in GetSchema(mem, t) :
         mem'.indexes = Emplace(mem.indexes, i, [name |-> name, table |-> t, col |-> Head(x), disk |-> disk])
  BY <1>17 DEF defs
<1>18. /\ DOMAIN mem' = MemFields /\ mem'.entryPage = mem.entryPage /\ mem'.catPage = mem.catPage
       /\ mem'.nextIndex = i + 1
  BY <1>10, <1>11, <1>13
<1>19. LET free == mem.nextFree
           first == mem.indexPage = NoPage
           here == IF first THEN free ELSE mem.indexPage
       IN  /\ mem'.indexPage = here /\ mem'.nextFree = (IF first THEN free + 1 ELSE free)
           /\ DOMAIN pages' = 0 .. (mem'.nextFree - 1)
           /\ pages'[RootPage] = (IF first THEN RootMeta(free + 1, free) ELSE pages[RootPage])
           /\ pages'[here] = DefsPage(mem'.indexes)
           /\ \A p \in DOMAIN pages \ {RootPage, here} : pages'[p] = pages[p]
  BY <1>10, <1>11, <1>13
<1> QED
  BY <1>14, <1>15, <1>16, <1>17, <1>18, <1>19, <1>20

LEMMA RegisterInv ==
  ASSUME IInv, NEW name \in IndexNames, NEW t \in DOMAIN files, NEW disk \in BOOLEAN,
         RegisterIndex(name, t, disk)
  PROVE  IInv'
<1> DEFINE free == mem.nextFree
           first == mem.indexPage = NoPage
           here == IF first THEN free ELSE mem.indexPage
<1>1. /\ DOMAIN mem' = MemFields /\ SameTables(mem', mem)
      /\ mem'.entryPage = mem.entryPage /\ mem'.catPage = mem.catPage
      /\ mem'.nextIndex = mem.nextIndex + 1
      /\ DOMAIN mem'.indexes = DOMAIN mem.indexes \cup {mem.nextIndex}
      /\ mem'.indexPage = here /\ mem'.nextFree = (IF first THEN free + 1 ELSE free)
      /\ DOMAIN pages' = 0 .. (mem'.nextFree - 1)
      /\ pages'[RootPage] = (IF first THEN RootMeta(free + 1, free) ELSE pages[RootPage])
      /\ pages'[here] = DefsPage(mem'.indexes)
      /\ \A p \in DOMAIN pages \ {RootPage, here} : pages'[p] = pages[p]
      /\ DOMAIN contents' = DOMAIN contents \cup {mem.nextIndex}
      /\ DOMAIN ghost' = DOMAIN ghost /\ ghost'.made = ghost.made
      /\ ghost'.given = ghost.given /\ ghost'.reused = ghost.reused
  BY RegisterEffect
<1>2. /\ free \in Nat /\ free >= 2 /\ DOMAIN pages = 0 .. (free - 1)
      /\ pages[RootPage] = RootMeta(free, mem.indexPage)
  BY DEF IInv, PagesShape
<1>3. ~first => mem.indexPage \in 1 .. (free - 1) /\ pages[mem.indexPage] = DefsPage(mem.indexes)
  BY DEF IInv, IndexDefs
<1>4. /\ here \in 1 .. (mem'.nextFree - 1) /\ here # NoPage /\ here # RootPage
      /\ mem'.nextFree \in Nat /\ mem'.nextFree >= free
      /\ \A n \in 0 .. (free - 1) : n \in 0 .. (mem'.nextFree - 1)
  BY <1>1, <1>2, <1>3 DEF NoPage, RootPage
<1>5. pages'[RootPage] = RootMeta(mem'.nextFree, mem'.indexPage)
  BY <1>1, <1>2
<1>6. here \in DOMAIN pages => pages[here].kind = "defs"
  BY <1>2, <1>3 DEF DefsPage
<1>7. pages[RootPage].kind = "root" /\ pages'[RootPage].kind = "root" /\ pages'[here].kind = "defs"
  BY <1>1, <1>2, <1>5 DEF RootMeta, DefsPage
<1>8. RootPage \in DOMAIN pages
  BY <1>2 DEF RootPage
<1>9. \A p \in DOMAIN pages' : p \in DOMAIN pages \/ p = here
  BY <1>1, <1>2
<1> PICK w : w = here
  OBVIOUS
<1> HIDE DEF free, first, here
<1>10. /\ \A p \in DOMAIN pages : pages[p].kind \in {"entries", "schema"} => pages'[p] = pages[p]
       /\ \A p \in DOMAIN pages' : pages'[p].kind = "entries" => p \in DOMAIN pages /\ pages'[p] = pages[p]
  <2>1. ASSUME NEW p \in DOMAIN pages, pages[p].kind \in {"entries", "schema"}
        PROVE  pages'[p] = pages[p]
    <3>1. p # RootPage /\ p # here
      BY <1>6, <1>7, <2>1
    <3> QED
      BY <1>1, <3>1
  <2>2. ASSUME NEW p \in DOMAIN pages', pages'[p].kind = "entries"
        PROVE  p \in DOMAIN pages /\ pages'[p] = pages[p]
    <3>1. p # RootPage /\ p # here
      BY <1>7, <2>2
    <3> QED
      BY <1>1, <1>9, <3>1
  <2> QED
    BY <2>1, <2>2
<1>11. DOMAIN pages \subseteq DOMAIN pages'
  BY <1>1, <1>2, <1>4
<1>12. SamePages
  <2>1. EntryPages(pages') = EntryPages(pages)
    BY <1>10, <1>11 DEF EntryPages
  <2> QED
    BY <1>10, <2>1 DEF SamePages, EntryPages
<1>13. ChainWhole' /\ GivenPages' /\ LiveApart' /\ MemOfPages' /\ (~ghost'.reused => Exact')
  BY <1>1, <1>4, <1>12, TablesKept DEF free
<1>14. Shapes'
  BY <1>1 DEF IInv, Shapes
<1>15. PagesShape'
  <2>1. mem'.nextFree >= 2
    BY <1>2, <1>4
  <2>2. \A p \in EntryPages(pages') : /\ pages'[p] = EntriesPage(pages'[p].entries, pages'[p].next)
                                      /\ pages'[p].entries \in Seq(Entry)
    BY <1>12 DEF IInv, PagesShape, SamePages
  <2> QED
    BY <1>1, <1>4, <1>5, <2>1, <2>2 DEF PagesShape
<1>16. IndexDefs'
  <2>1. /\ mem.nextIndex \in Nat \ {0} /\ DOMAIN mem.indexes \subseteq 1..(mem.nextIndex - 1)
        /\ DOMAIN contents = DOMAIN mem.indexes
    BY DEF IInv, IndexDefs
  <2>2. mem'.nextIndex = NextAfter(DOMAIN mem'.indexes)
    <3>1. DOMAIN mem.indexes \in SUBSET (1 .. (mem.nextIndex - 1))
      BY <2>1
    <3> QED
      BY <1>1, <2>1, <3>1, NextAfterAdd
  <2>3. mem'.nextIndex \in Nat \ {0} /\ DOMAIN mem'.indexes \subseteq 1..(mem'.nextIndex - 1)
    <3>1. mem'.nextIndex - 1 = mem.nextIndex
      BY <1>1, <2>1
    <3>2. mem.nextIndex \in 1 .. mem.nextIndex
      BY <2>1
    <3>3. \A n \in 1..(mem.nextIndex - 1) : n \in 1 .. mem.nextIndex
      BY <2>1
    <3>4. mem'.nextIndex \in Nat \ {0}
      BY <1>1, <2>1
    <3> QED
      BY <1>1, <2>1, <3>1, <3>2, <3>3, <3>4
  <2>4. /\ mem'.indexPage # NoPage /\ mem'.indexPage \in 1..(mem'.nextFree - 1)
        /\ pages'[mem'.indexPage] = DefsPage(mem'.indexes)
    BY <1>1, <1>4
  <2> QED
    BY <1>1, <2>1, <2>2, <2>3, <2>4 DEF IndexDefs
<1>17. Statements'
  <2>1. /\ files' = (IF disk THEN [files EXCEPT ![t] = Append(@, "node")] ELSE files)
        /\ inserting' = inserting
    BY DEF RegisterIndex
  <2>2. /\ \A u \in DOMAIN files : files[u] \in Seq({"blank", "row", "node"})
        /\ \A j \in inserting : j.table \in DOMAIN mem.entries
    BY DEF IInv, Statements
  <2>3. DOMAIN files' = DOMAIN files /\ \A u \in DOMAIN files : u # t => files'[u] = files[u]
    BY <2>1
  <2>4. files'[t] = Append(files[t], "node") \/ files'[t] = files[t]
    BY <2>1
  <2>5. files'[t] \in Seq({"blank", "row", "node"})
    <3>1. files[t] \in Seq({"blank", "row", "node"}) /\ "node" \in {"blank", "row", "node"}
      BY <2>2
    <3>2. Append(files[t], "node") \in Seq({"blank", "row", "node"})
      BY <3>1, AppendProperties
    <3> QED
      BY <2>4, <3>1, <3>2
  <2>6. mem'.entries = mem.entries
    BY <1>1 DEF SameTables
  <2> QED
    BY <2>1, <2>2, <2>3, <2>5, <2>6 DEF Statements
<1> QED
  BY <1>13, <1>14, <1>15, <1>16, <1>17 DEF IInv

----------------------------------------------------------------------------
(* The other steps of CREATE INDEX, and DML: neither the object nor its    *)
(* pages change.                                                           *)

LEMMA UntouchedInv ==
  ASSUME IInv, pages' = pages, mem' = mem, DOMAIN contents' = DOMAIN contents, Statements',
         DOMAIN ghost' = DOMAIN ghost, ghost'.made = ghost.made,
         ghost'.given = ghost.given, ghost'.reused = ghost.reused
  PROVE  IInv'
<1>1. Shapes'
  BY DEF IInv, Shapes
<1>2. PagesShape'
  BY DEF IInv, PagesShape
<1>3. SamePages
  BY DEF SamePages
<1>4. mem.nextFree \in Nat
  BY DEF IInv, PagesShape
<1>5. ChainWhole' /\ GivenPages' /\ LiveApart' /\ MemOfPages' /\ (~ghost'.reused => Exact')
  <2>1. mem'.nextFree \in Nat /\ mem'.nextFree >= mem.nextFree /\ SameTables(mem', mem)
    BY <1>4 DEF SameTables
  <2> QED
    BY <1>3, <2>1, TablesKept
<1>6. IndexDefs'
  BY DEF IInv, IndexDefs
<1> QED
  BY <1>1, <1>2, <1>5, <1>6 DEF IInv

LEMMA GhostShape ==
  ASSUME IInv
  PROVE  DOMAIN ghost = {"made", "given", "reused", "complete", "overlap", "marked", "gone"}
BY DEF IInv, Shapes

LEMMA FillInv ==
  ASSUME IInv, NEW j \in indexing, CountPages(j) \/ FillPage(j) \/ EndFill(j)
  PROVE  IInv'
<1>1. /\ pages' = pages /\ mem' = mem /\ files' = files /\ inserting' = inserting
      /\ DOMAIN contents' = DOMAIN contents
  BY DEF CountPages, FillPage, EndFill
<1>2. /\ DOMAIN ghost' = DOMAIN ghost /\ ghost'.made = ghost.made
      /\ ghost'.given = ghost.given /\ ghost'.reused = ghost.reused
  BY GhostShape DEF CountPages, FillPage, EndFill
<1>3. Statements'
  BY <1>1 DEF IInv, Statements
<1> QED
  BY <1>1, <1>2, <1>3, UntouchedInv

LEMMA InsertPageInv ==
  ASSUME IInv, NEW t \in DOMAIN files, InsertNewPage(t)
  PROVE  IInv'
<1>1. /\ pages' = pages /\ mem' = mem /\ contents' = contents /\ GetSchema(mem, t) # {}
      /\ files' = [files EXCEPT ![t] = Append(@, "blank")]
      /\ inserting' = {[table |-> t, page |-> Len(files[t]), step |-> "build"]}
  BY DEF InsertNewPage
<1>2. /\ DOMAIN ghost' = DOMAIN ghost /\ ghost'.made = ghost.made
      /\ ghost'.given = ghost.given /\ ghost'.reused = ghost.reused
  BY GhostShape DEF InsertNewPage
<1>3. Statements'
  <2>1. t \in DOMAIN mem.entries
    BY <1>1 DEF GetSchema
  <2>2. files[t] \in Seq({"blank", "row", "node"}) /\ "blank" \in {"blank", "row", "node"}
    BY DEF IInv, Statements
  <2>3. Append(files[t], "blank") \in Seq({"blank", "row", "node"})
    BY <2>2, AppendProperties
  <2>4. \A u \in DOMAIN files' : files'[u] \in Seq({"blank", "row", "node"})
    BY <1>1, <2>3 DEF IInv, Statements
  <2>5. \A j \in inserting' : j.table \in DOMAIN mem'.entries
    BY <1>1, <2>1
  <2> QED
    BY <2>4, <2>5 DEF Statements
<1> QED
  BY <1>1, <1>2, <1>3, UntouchedInv

LEMMA InsertBuildInv ==
  ASSUME IInv, NEW j \in inserting, InsertBuild(j)
  PROVE  IInv'
<1>1. /\ pages' = pages /\ mem' = mem /\ contents' = contents /\ ghost' = ghost
      /\ files' = [files EXCEPT ![j.table][j.page + 1] = "row"]
      /\ inserting' = {[j EXCEPT !.step = "index"]} /\ j.step = "build"
  BY DEF InsertBuild
<1>2. Statements'
  <2> DEFINE K == {"blank", "row", "node"}
             k == j.page + 1
  <2>1. \A u \in DOMAIN files' : files'[u] \in Seq(K)
    <3>1. ASSUME NEW u \in DOMAIN files' PROVE files'[u] \in Seq(K)
      <4>1. u \in DOMAIN files /\ files[u] \in Seq(K) /\ "row" \in K
        BY <1>1 DEF IInv, Statements
      <4>2. files'[u] = (IF u = j.table THEN [files[u] EXCEPT ![k] = "row"] ELSE files[u])
        BY <1>1, <4>1
      <4> QED
        BY <4>1, <4>2
    <3> QED
      BY <3>1
  <2>2. \A i \in inserting' : i.table \in DOMAIN mem'.entries
    <3>1. j.table \in DOMAIN mem.entries
      BY DEF IInv, Statements
    <3>2. [j EXCEPT !.step = "index"].table = j.table
      OBVIOUS
    <3> QED
      BY <1>1, <3>1, <3>2
  <2> QED
    BY <2>1, <2>2 DEF Statements
<1> QED
  BY <1>1, <1>2, UntouchedInv

LEMMA MaintainInv ==
  ASSUME IInv, NEW j \in inserting, MaintainIndexInsert(j)
  PROVE  IInv'
<1>1. /\ pages' = pages /\ mem' = mem /\ files' = files /\ ghost' = ghost
      /\ DOMAIN contents' = DOMAIN contents
      /\ inserting' = {[j EXCEPT !.step = "count"]}
  BY DEF MaintainIndexInsert
<1>2. Statements'
  <2>1. j.table \in DOMAIN mem.entries
    BY DEF IInv, Statements
  <2>2. [j EXCEPT !.step = "count"].table = j.table
    OBVIOUS
  <2> QED
    BY <1>1, <2>1, <2>2 DEF IInv, Statements
<1> QED
  BY <1>1, <1>2, UntouchedInv

LEMMA DeleteInv ==
  ASSUME IInv, NEW t \in DOMAIN files, NEW p \in Rows(t), DeleteRow(t, p)
  PROVE  IInv'
<1>1. /\ pages' = pages /\ mem' = mem /\ files' = files /\ inserting' = inserting
      /\ DOMAIN contents' = DOMAIN contents
  BY DEF DeleteRow
<1>2. /\ DOMAIN ghost' = DOMAIN ghost /\ ghost'.made = ghost.made
      /\ ghost'.given = ghost.given /\ ghost'.reused = ghost.reused
  BY GhostShape DEF DeleteRow
<1>3. Statements'
  BY <1>1 DEF IInv, Statements
<1> QED
  BY <1>1, <1>2, <1>3, UntouchedInv

----------------------------------------------------------------------------
(* A restart.                                                              *)

\* What the load finds: the page allocator, the chain's end and the indexes as
\* they were, and allocators above everything that is live.
LEMMA LoadAllocators ==
  ASSUME IInv, NEW m, m = LoadFromDisk(pages)
  PROVE  /\ DOMAIN m = MemFields
         /\ m.nextFree = mem.nextFree /\ m.indexPage = mem.indexPage /\ m.catPage = mem.catPage
         /\ m.indexes = mem.indexes /\ m.nextIndex = mem.nextIndex
         /\ m.nextTable \in 1 .. mem.nextTable /\ m.nextCol \in 1 .. mem.nextCol
         /\ \A e \in Live(pages) : e.id < m.nextTable /\ Cols(pages, e) \subseteq 1 .. (m.nextCol - 1)
         /\ \A t \in DOMAIN m.schemas : ToSet(m.schemas[t]) \subseteq 1 .. (m.nextCol - 1)
         /\ DOMAIN m.schemas = {e.id : e \in Live(pages)}
         /\ \A e \in Live(pages) : m.schemas[e.id] = pages[e.schema].cols
<1> PICK c : c = Chain(pages, FirstEntriesPage)
  OBVIOUS
<1> DEFINE ids == {e.id : e \in Live(pages)}
           cols == UNION {ToSet(m.schemas[t]) : t \in DOMAIN m.schemas}
<1>1. IsChain(c, pages) /\ c[Len(c)] = mem.catPage
  BY DEF IInv, ChainWhole
<1>2. /\ DOMAIN m = MemFields /\ m.catPage = c[Len(c)]
      /\ m.nextFree = pages[RootPage].total /\ m.indexPage = pages[RootPage].index
      /\ m.nextCol = NextColumn(m)
      /\ IF m.indexPage = NoPage THEN m.indexes = Empty /\ m.nextIndex = 1
         ELSE /\ m.indexes = pages[m.indexPage].defs
              /\ m.nextIndex = NextAfter(DOMAIN pages[m.indexPage].defs)
  BY <1>1, LoadShape
<1>3. \A p \in EntryPages(pages) : pages[p].entries \in Seq(Entry)
  BY DEF IInv, PagesShape
<1>4. /\ DOMAIN m.schemas = ids
      /\ \A t \in DOMAIN m.schemas : \E e \in Live(pages) : e.id = t /\ m.schemas[t] = pages[e.schema].cols
      /\ m.nextTable = NextAfter(ids)
  <2>1. HoldsPages(m, pages)
    BY <1>1, <1>3, LoadIs
  <2> QED
    BY <2>1 DEF HoldsPages
<1>5. /\ mem.nextTable \in 1..(Cardinality(ghost.given) + 1) /\ mem.nextCol \in Nat \ {0}
      /\ \A e \in Live(pages) : e.id < mem.nextTable /\ Cols(pages, e) \subseteq 1..(mem.nextCol - 1)
      /\ \A e, f \in Live(pages) : e.id = f.id => e.schema = f.schema
  BY DEF IInv, LiveApart
<1>6. m.nextFree = mem.nextFree /\ m.indexPage = mem.indexPage /\ m.catPage = mem.catPage
  BY <1>1, <1>2 DEF IInv, PagesShape, RootMeta
<1>7. m.indexes = mem.indexes /\ m.nextIndex = mem.nextIndex
  <2>1. /\ mem.nextIndex = NextAfter(DOMAIN mem.indexes)
        /\ IF mem.indexPage = NoPage THEN mem.indexes = Empty
           ELSE pages[mem.indexPage] = DefsPage(mem.indexes)
    BY DEF IInv, IndexDefs
  <2>2. CASE mem.indexPage = NoPage
    <3>1. DOMAIN Empty = {}
      BY DEF Empty
    <3>2. NextAfter(DOMAIN Empty) = 1
      BY <3>1 DEF NextAfter
    <3> QED
      BY <1>2, <1>6, <2>1, <2>2, <3>2
  <2>3. CASE mem.indexPage # NoPage
    <3>1. pages[mem.indexPage].defs = mem.indexes
      BY <2>1, <2>3 DEF DefsPage
    <3> QED
      BY <1>2, <1>6, <2>1, <2>3, <3>1
  <2> QED
    BY <2>2, <2>3
<1>8. \A e \in Live(pages) : e.id \in Nat \ {0}
  <2>1. Stored(pages) \subseteq Entry
    BY PagesFacts DEF IInv
  <2> QED
    BY <2>1 DEF Live, Entry
<1>9. mem.nextTable \in Nat /\ mem.nextTable - 1 \in Nat /\ (mem.nextTable - 1) + 1 = mem.nextTable
  <2>1. Cardinality(ghost.given) \in Nat
    BY FS_CardinalityType DEF IInv, GivenPages
  <2> QED
    BY <1>5, <2>1
<1>10. m.nextTable \in 1 .. mem.nextTable /\ \A t \in ids : t < m.nextTable
  <2>1. ids \in SUBSET (1 .. (mem.nextTable - 1))
    BY <1>5, <1>8, <1>9
  <2> HIDE DEF ids
  <2>2. /\ NextAfter(ids) \in 1 .. ((mem.nextTable - 1) + 1)
        /\ \A t \in ids : t < NextAfter(ids)
    BY <1>9, <2>1, NextAfterIs
  <2> QED
    BY <1>4, <1>9, <2>2
<1>11. \A e \in Live(pages) : m.schemas[e.id] = pages[e.schema].cols
  <2>1. ASSUME NEW e \in Live(pages) PROVE m.schemas[e.id] = pages[e.schema].cols
    <3>1. e.id \in DOMAIN m.schemas
      BY <1>4
    <3>2. PICK f \in Live(pages) : f.id = e.id /\ m.schemas[e.id] = pages[f.schema].cols
      BY <1>4, <3>1
    <3> QED
      BY <1>5, <3>2
  <2> QED
    BY <2>1
<1>12. cols \in SUBSET (1 .. (mem.nextCol - 1))
  <2>1. ASSUME NEW t \in DOMAIN m.schemas PROVE ToSet(m.schemas[t]) \subseteq 1 .. (mem.nextCol - 1)
    <3>1. PICK e \in Live(pages) : e.id = t /\ m.schemas[t] = pages[e.schema].cols
      BY <1>4
    <3> QED
      BY <1>5, <3>1 DEF Cols
  <2> QED
    BY <2>1
<1>13. m.nextCol \in 1 .. mem.nextCol /\ cols \subseteq 1 .. (m.nextCol - 1)
  <2>1. mem.nextCol - 1 \in Nat /\ (mem.nextCol - 1) + 1 = mem.nextCol
    BY <1>5
  <2>2. m.nextCol = NextAfter(cols)
    BY <1>2 DEF NextColumn
  <2> HIDE DEF cols
  <2>3. NextAfter(cols) \in 1 .. ((mem.nextCol - 1) + 1) /\ \A n \in cols : n < NextAfter(cols)
    BY <1>12, <2>1, NextAfterIs
  <2>4. m.nextCol \in 1 .. mem.nextCol
    BY <2>1, <2>2, <2>3
  <2>5. \A n \in cols : n \in 1 .. (m.nextCol - 1)
    <3>1. ASSUME NEW n \in cols PROVE n \in 1 .. (m.nextCol - 1)
      <4>1. n \in 1 .. (mem.nextCol - 1) /\ n < m.nextCol
        BY <1>12, <2>2, <2>3
      <4> QED
        BY <1>5, <2>4, <4>1
    <3> QED
      BY <3>1
  <2> QED
    BY <2>4, <2>5
<1>14. \A t \in DOMAIN m.schemas : ToSet(m.schemas[t]) \subseteq 1 .. (m.nextCol - 1)
  BY <1>13
<1>15. \A e \in Live(pages) : Cols(pages, e) \subseteq 1 .. (m.nextCol - 1)
  BY <1>4, <1>11, <1>14 DEF Cols
<1>16. \A e \in Live(pages) : e.id < m.nextTable
  BY <1>10
<1> QED
  BY <1>2, <1>4, <1>6, <1>7, <1>10, <1>11, <1>13, <1>14, <1>15, <1>16

LEMMA RestartKeeps ==
  ASSUME IInv, Restart
  PROVE  /\ Shapes' /\ PagesShape' /\ ChainWhole' /\ GivenPages'
         /\ LiveApart' /\ MemOfPages' /\ IndexDefs' /\ Statements'
<1> PICK m : m = LoadFromDisk(pages)
  OBVIOUS
<1> PICK c : c = Chain(pages, FirstEntriesPage)
  OBVIOUS
<1>1. /\ mem' = m /\ pages' = pages /\ files' = files /\ inserting' = inserting /\ inserting = {}
      /\ DOMAIN contents' = DOMAIN m.indexes
  BY DEF Restart
<1>2. /\ DOMAIN ghost' = DOMAIN ghost
      /\ ghost'.given = ghost.given /\ ghost'.reused = ghost.reused
  BY GhostShape DEF Restart
<1>3. /\ DOMAIN m = MemFields
      /\ m.nextFree = mem.nextFree /\ m.indexPage = mem.indexPage /\ m.catPage = mem.catPage
      /\ m.indexes = mem.indexes /\ m.nextIndex = mem.nextIndex
      /\ m.nextTable \in 1 .. mem.nextTable /\ m.nextCol \in 1 .. mem.nextCol
      /\ \A e \in Live(pages) : e.id < m.nextTable /\ Cols(pages, e) \subseteq 1 .. (m.nextCol - 1)
      /\ \A t \in DOMAIN m.schemas : ToSet(m.schemas[t]) \subseteq 1 .. (m.nextCol - 1)
      /\ DOMAIN m.schemas = {e.id : e \in Live(pages)}
      /\ \A e \in Live(pages) : m.schemas[e.id] = pages[e.schema].cols
  BY LoadAllocators
<1>4. IsChain(c, pages) /\ c[Len(c)] = mem.catPage
  BY DEF IInv, ChainWhole
<1>5. \A p \in EntryPages(pages) : pages[p].entries \in Seq(Entry)
  BY DEF IInv, PagesShape
<1>6. /\ DOMAIN m.names = {e.name : e \in Live(pages)}
      /\ \A x \in DOMAIN m.names : \E e \in Live(pages) : e.name = x /\ m.names[x] = e.id
      /\ DOMAIN m.entries = {e.id : e \in Stored(pages)} /\ DOMAIN m.entryPage = DOMAIN m.entries
      /\ \A t \in DOMAIN m.entries :
            \E p \in EntryPages(pages) : \E i \in DOMAIN pages[p].entries :
               /\ m.entryPage[t] = p /\ m.entries[t] = pages[p].entries[i]
               /\ m.entries[t].id = t /\ m.entries[t] \in Stored(pages)
  <2>1. HoldsPages(m, pages)
    BY <1>4, <1>5, LoadIs
  <2> QED
    BY <2>1 DEF HoldsPages
<1>7. Stored(pages) \subseteq Entry /\ Live(pages) \subseteq Stored(pages)
  BY PagesFacts DEF IInv, Live
<1>8. Shapes'
  BY <1>1, <1>2, <1>3 DEF IInv, Shapes
<1>9. PagesShape'
  BY <1>1, <1>3 DEF IInv, PagesShape
<1>10. ChainWhole'
  BY <1>1, <1>3 DEF IInv, ChainWhole
<1>11. GivenPages'
  BY <1>1, <1>2, <1>3 DEF IInv, GivenPages
<1>12. LiveApart'
  <2>1. /\ mem.nextTable \in 1..(Cardinality(ghost.given) + 1) /\ mem.nextCol \in Nat \ {0}
        /\ \A e, f \in Live(pages) :
              IF e.id = f.id THEN e.schema = f.schema
              ELSE Cols(pages, e) \cap Cols(pages, f) = {}
    BY DEF IInv, LiveApart
  <2>2. Cardinality(ghost.given) \in Nat
    BY FS_CardinalityType DEF IInv, GivenPages
  <2>3. m.nextTable \in 1..(Cardinality(ghost.given) + 1) /\ m.nextCol \in Nat \ {0}
    BY <1>3, <2>1, <2>2
  <2> QED
    BY <1>1, <1>2, <1>3, <2>1, <2>3 DEF LiveApart
<1>13. MemOfPages'
  <2>1. DOMAIN m.names \subseteq TableNames
    BY <1>6, <1>7 DEF Entry
  <2>2. \A x \in DOMAIN m.names : m.names[x] \in DOMAIN m.entries
    BY <1>6, <1>7
  <2>3. DOMAIN m.schemas \subseteq DOMAIN m.entries
    BY <1>3, <1>6, <1>7
  <2>4. ASSUME NEW t \in DOMAIN m.entries
        PROVE  /\ m.entries[t] \in Entry /\ m.entries[t].id = t
               /\ <<t, m.entries[t].schema>> \in ghost.given
               /\ m.entryPage[t] \in EntryPages(pages)
               /\ m.entries[t].active =>
                     /\ t \in DOMAIN m.schemas
                     /\ m.schemas[t] = pages[m.entries[t].schema].cols
                     /\ \E e \in Live(pages) : e.id = t /\ e.schema = m.entries[t].schema
    <3> PICK e : e = m.entries[t]
      OBVIOUS
    <3>1. e.id = t /\ e \in Stored(pages) /\ m.entryPage[t] \in EntryPages(pages)
      BY <1>6
    <3>2. <<e.id, e.schema>> \in ghost.given
      BY <3>1 DEF IInv, GivenPages
    <3>3. ASSUME e.active
          PROVE  t \in DOMAIN m.schemas /\ m.schemas[t] = pages[e.schema].cols /\ e \in Live(pages)
      <4>1. e \in Live(pages)
        BY <3>1, <3>3 DEF Live
      <4> QED
        BY <1>3, <3>1, <4>1
    <3> QED
      BY <1>7, <3>1, <3>2, <3>3
  <2> QED
    BY <1>1, <1>2, <1>3, <1>6, <2>1, <2>2, <2>3, <2>4 DEF MemOfPages
<1>14. IndexDefs'
  BY <1>1, <1>3 DEF IInv, IndexDefs
<1>15. Statements'
  BY <1>1 DEF IInv, Statements
<1> QED
  BY <1>8, <1>9, <1>10, <1>11, <1>12, <1>13, <1>14, <1>15

\* As long as no id was handed out twice, the load finds what memory holds.
LEMMA LoadExact ==
  ASSUME IInv, Exact, NEW m, m = LoadFromDisk(pages)
  PROVE  /\ DOMAIN m.entries = DOMAIN mem.entries
         /\ \A t \in DOMAIN mem.entries : m.entries[t] = mem.entries[t] /\ m.entryPage[t] = mem.entryPage[t]
         /\ DOMAIN m.entryPage = DOMAIN mem.entryPage
         /\ DOMAIN m.names = DOMAIN mem.names
         /\ \A x \in DOMAIN mem.names : m.names[x] = mem.names[x]
         /\ \A t \in DOMAIN mem.entries : mem.entries[t].active => m.schemas[t] = mem.schemas[t]
<1> PICK c : c = Chain(pages, FirstEntriesPage)
  OBVIOUS
<1>1. IsChain(c, pages)
  BY DEF IInv, ChainWhole
<1>2. \A p \in EntryPages(pages) : pages[p].entries \in Seq(Entry)
  BY DEF IInv, PagesShape
<1>3. /\ DOMAIN m.names = {e.name : e \in Live(pages)}
      /\ \A x \in DOMAIN m.names : \E e \in Live(pages) : e.name = x /\ m.names[x] = e.id
      /\ DOMAIN m.entries = {e.id : e \in Stored(pages)} /\ DOMAIN m.entryPage = DOMAIN m.entries
      /\ \A t \in DOMAIN m.entries :
            \E p \in EntryPages(pages) : \E i \in DOMAIN pages[p].entries :
               /\ m.entryPage[t] = p /\ m.entries[t] = pages[p].entries[i]
               /\ m.entries[t].id = t /\ m.entries[t] \in Stored(pages)
  <2>1. HoldsPages(m, pages)
    BY <1>1, <1>2, LoadIs
  <2> QED
    BY <2>1 DEF HoldsPages
<1>4. /\ \A p, q \in EntryPages(pages) :
            \A i \in DOMAIN pages[p].entries, j \in DOMAIN pages[q].entries :
               pages[p].entries[i].id = pages[q].entries[j].id => p = q /\ i = j
      /\ \A e \in Stored(pages) : e.id \in DOMAIN mem.entries
      /\ \A t \in DOMAIN mem.entries : mem.entries[t] \in ToSet(pages[mem.entryPage[t]].entries)
      /\ \A x \in DOMAIN mem.names :
            mem.entries[mem.names[x]].active /\ mem.entries[mem.names[x]].name = x
      /\ \A t \in DOMAIN mem.entries :
            mem.entries[t].active =>
               mem.entries[t].name \in DOMAIN mem.names /\ mem.names[mem.entries[t].name] = t
  BY DEF Exact
<1>5. /\ DOMAIN mem.entryPage = DOMAIN mem.entries
      /\ \A x \in DOMAIN mem.names : mem.names[x] \in DOMAIN mem.entries
      /\ \A t \in DOMAIN mem.entries :
            /\ mem.entries[t].id = t /\ mem.entryPage[t] \in EntryPages(pages)
            /\ mem.entries[t].active => mem.schemas[t] = pages[mem.entries[t].schema].cols
  BY DEF IInv, MemOfPages
<1>6. ASSUME NEW t \in DOMAIN mem.entries
      PROVE  /\ mem.entries[t] \in Stored(pages) /\ t \in DOMAIN m.entries
             /\ m.entries[t] = mem.entries[t] /\ m.entryPage[t] = mem.entryPage[t]
  <2> PICK q : q = mem.entryPage[t]
    OBVIOUS
  <2>1. q \in EntryPages(pages) /\ mem.entries[t] \in ToSet(pages[q].entries)
    BY <1>4, <1>5
  <2>2. PICK j \in DOMAIN pages[q].entries : pages[q].entries[j] = mem.entries[t]
    BY <2>1 DEF ToSet
  <2>3. mem.entries[t] \in Stored(pages)
    BY <2>1, <2>2, StoredIs
  <2>4. t \in DOMAIN m.entries
    BY <1>3, <1>5, <2>3
  <2>5. PICK p \in EntryPages(pages) : \E i \in DOMAIN pages[p].entries :
               /\ m.entryPage[t] = p /\ m.entries[t] = pages[p].entries[i] /\ m.entries[t].id = t
    BY <1>3, <2>4
  <2>6. PICK i \in DOMAIN pages[p].entries :
               /\ m.entryPage[t] = p /\ m.entries[t] = pages[p].entries[i] /\ m.entries[t].id = t
    BY <2>5
  <2>7. pages[p].entries[i].id = pages[q].entries[j].id
    BY <1>5, <2>2, <2>6
  <2>8. p = q /\ i = j
    BY <1>4, <2>1, <2>7
  <2> QED
    BY <2>2, <2>3, <2>4, <2>6, <2>8
<1>7. DOMAIN m.entries = DOMAIN mem.entries
  BY <1>3, <1>4, <1>6
\* A stored entry is what memory holds for its id.
<1>8. ASSUME NEW e \in Stored(pages)
      PROVE  e.id \in DOMAIN mem.entries /\ mem.entries[e.id] = e
  <2>1. e.id \in DOMAIN mem.entries
    BY <1>4
  <2>2. mem.entries[e.id] \in Stored(pages) /\ mem.entries[e.id].id = e.id
    BY <1>5, <1>6, <2>1
  <2> PICK f : f = mem.entries[e.id]
    OBVIOUS
  <2>3. PICK p \in EntryPages(pages) : \E i \in DOMAIN pages[p].entries : pages[p].entries[i] = e
    BY StoredIs
  <2>4. PICK i \in DOMAIN pages[p].entries : pages[p].entries[i] = e
    BY <2>3
  <2>5. f \in Stored(pages) /\ f.id = e.id
    BY <2>2
  <2>6. PICK q \in EntryPages(pages) : \E j \in DOMAIN pages[q].entries : pages[q].entries[j] = f
    BY <2>5, StoredIs
  <2>7. PICK j \in DOMAIN pages[q].entries : pages[q].entries[j] = f
    BY <2>6
  <2>8. p = q /\ i = j
    BY <1>4, <2>4, <2>5, <2>7
  <2> QED
    BY <2>1, <2>4, <2>7, <2>8
<1>9. \A e \in Live(pages) : /\ mem.entries[e.id] = e /\ e.id \in DOMAIN mem.entries
                             /\ e.name \in DOMAIN mem.names /\ mem.names[e.name] = e.id
  <2>1. ASSUME NEW e \in Live(pages)
        PROVE  /\ mem.entries[e.id] = e /\ e.id \in DOMAIN mem.entries
               /\ e.name \in DOMAIN mem.names /\ mem.names[e.name] = e.id
    <3>1. e \in Stored(pages) /\ e.active
      BY DEF Live
    <3>2. e.id \in DOMAIN mem.entries /\ mem.entries[e.id] = e
      BY <1>8, <3>1
    <3> QED
      BY <1>4, <3>1, <3>2
  <2> QED
    BY <2>1
<1>10. ASSUME NEW x \in DOMAIN mem.names PROVE x \in DOMAIN m.names
  <2> PICK t : t = mem.names[x]
    OBVIOUS
  <2>1. t \in DOMAIN mem.entries /\ mem.entries[t].active /\ mem.entries[t].name = x
    BY <1>4, <1>5
  <2>2. mem.entries[t] \in Live(pages)
    BY <1>6, <2>1 DEF Live
  <2> QED
    BY <1>3, <2>1, <2>2
<1>11. \A x \in DOMAIN m.names : x \in DOMAIN mem.names /\ m.names[x] = mem.names[x]
  BY <1>3, <1>9
<1>12. DOMAIN m.names = DOMAIN mem.names /\ \A x \in DOMAIN mem.names : m.names[x] = mem.names[x]
  BY <1>10, <1>11
<1>13. ASSUME NEW t \in DOMAIN mem.entries, mem.entries[t].active
       PROVE  m.schemas[t] = mem.schemas[t]
  <2>1. mem.entries[t] \in Live(pages) /\ mem.entries[t].id = t
    BY <1>5, <1>6, <1>13 DEF Live
  <2>2. \A e \in Live(pages) : m.schemas[e.id] = pages[e.schema].cols
    BY LoadAllocators
  <2>3. m.schemas[t] = pages[mem.entries[t].schema].cols
    BY <2>1, <2>2
  <2> QED
    BY <1>5, <1>13, <2>3
<1> QED
  BY <1>3, <1>5, <1>6, <1>7, <1>12, <1>13

LEMMA RestartInv ==
  ASSUME IInv, Restart
  PROVE  IInv'
<1> PICK m : m = LoadFromDisk(pages)
  OBVIOUS
<1>1. /\ mem' = m /\ pages' = pages
      /\ ghost'.given = ghost.given /\ ghost'.reused = ghost.reused /\ ghost'.made = ghost.made
  BY GhostShape DEF Restart
<1>2. ASSUME ~ghost'.reused PROVE Exact'
  <2>1. Exact
    BY <1>1, <1>2 DEF IInv
  <2>2. /\ DOMAIN m.entries = DOMAIN mem.entries
        /\ \A t \in DOMAIN mem.entries : m.entries[t] = mem.entries[t] /\ m.entryPage[t] = mem.entryPage[t]
        /\ DOMAIN m.names = DOMAIN mem.names
        /\ \A x \in DOMAIN mem.names : m.names[x] = mem.names[x]
        /\ \A t \in DOMAIN mem.entries : mem.entries[t].active => m.schemas[t] = mem.schemas[t]
    BY <2>1, LoadExact
  <2>3. \A x \in DOMAIN mem.names : mem.names[x] \in DOMAIN mem.entries
    BY DEF IInv, MemOfPages
  <2>4. /\ \A g, h \in ghost.given : g[1] = h[1] => g = h
        /\ \A p, q \in EntryPages(pages) :
              \A i \in DOMAIN pages[p].entries, j \in DOMAIN pages[q].entries :
                 pages[p].entries[i].id = pages[q].entries[j].id => p = q /\ i = j
        /\ \A e \in Stored(pages) : e.id \in DOMAIN mem.entries
        /\ \A t \in DOMAIN mem.entries : mem.entries[t] \in ToSet(pages[mem.entryPage[t]].entries)
        /\ \A x \in DOMAIN mem.names :
              mem.entries[mem.names[x]].active /\ mem.entries[mem.names[x]].name = x
        /\ \A t \in DOMAIN mem.entries :
              mem.entries[t].active =>
                 mem.entries[t].name \in DOMAIN mem.names /\ mem.names[mem.entries[t].name] = t
        /\ DOMAIN ghost.made = DOMAIN mem.names
        /\ \A x \in DOMAIN mem.names : ghost.made[x] = mem.schemas[mem.names[x]]
    BY <2>1 DEF Exact
  <2>5. \A t \in DOMAIN m.entries : m.entries[t] \in ToSet(pages[m.entryPage[t]].entries)
    BY <2>2, <2>4
  <2>6. ASSUME NEW x \in DOMAIN m.names
        PROVE  /\ m.entries[m.names[x]].active /\ m.entries[m.names[x]].name = x
               /\ ghost.made[x] = m.schemas[m.names[x]]
    <3> PICK t : t = mem.names[x]
      OBVIOUS
    <3>1. x \in DOMAIN mem.names /\ t \in DOMAIN mem.entries /\ m.names[x] = t /\ m.entries[t] = mem.entries[t]
      BY <2>2, <2>3
    <3>2. mem.entries[t].active /\ mem.entries[t].name = x /\ ghost.made[x] = mem.schemas[t]
      BY <2>4, <3>1
    <3> QED
      BY <2>2, <3>1, <3>2
  <2>7. ASSUME NEW t \in DOMAIN m.entries, m.entries[t].active
        PROVE  m.entries[t].name \in DOMAIN m.names /\ m.names[m.entries[t].name] = t
    <3> PICK x : x = mem.entries[t].name
      OBVIOUS
    <3>1. t \in DOMAIN mem.entries /\ m.entries[t] = mem.entries[t]
      BY <2>2
    <3>2. x \in DOMAIN mem.names /\ mem.names[x] = t
      BY <2>4, <2>7, <3>1
    <3> QED
      BY <2>2, <3>1, <3>2
  <2>8. Exact'
    BY <1>1, <2>2, <2>4, <2>5, <2>6, <2>7 DEF Exact
  <2> QED
    BY <2>8
<1> QED
  BY <1>2, RestartKeeps DEF IInv

\* What a load builds is a map of each kind.
LEMMA RestartMaps ==
  ASSUME IInv, NEW m, m = LoadFromDisk(pages)
  PROVE  IsMap(m.names) /\ IsMap(m.entries) /\ IsMap(m.entryPage)
<1> PICK c : c = Chain(pages, FirstEntriesPage)
  OBVIOUS
<1>1. IsChain(c, pages)
  BY DEF IInv, ChainWhole
<1>2. /\ m.names = WalkNames(pages, c) /\ m.entries = WalkEntries(pages, c)
      /\ m.entryPage = WalkEntryPage(pages, c)
  BY <1>1, LoadShape
<1>3. IsMap(WalkNames(pages, c)) /\ IsMap(WalkEntries(pages, c)) /\ IsMap(WalkEntryPage(pages, c))
  BY DEF IsMap, WalkNames, WalkEntries, WalkEntryPage
<1> QED
  BY <1>2, <1>3

----------------------------------------------------------------------------
(* The invariant.                                                          *)

LEMMA InitInv ==
  ASSUME Init
  PROVE  IInv /\ Maps
<1>1. /\ pages = InitFreshDisk /\ mem = Blank /\ files = Empty /\ contents = Empty /\ inserting = {}
      /\ ghost.made = Empty /\ ghost.given = {} /\ ghost.reused = FALSE
      /\ DOMAIN ghost = {"made", "given", "reused", "complete", "overlap", "marked", "gone"}
  BY DEF Init
<1>2. DOMAIN Empty = {}
  BY DEF Empty
<1>3. /\ DOMAIN pages = {0, 1} /\ pages[0] = RootMeta(2, NoPage) /\ pages[1] = EntriesPage(<<>>, NoPage)
  BY <1>1, <1>2 DEF InitFreshDisk, Put, RootPage, FirstEntriesPage
<1>4. /\ mem.names = Empty /\ mem.entries = Empty /\ mem.schemas = Empty /\ mem.entryPage = Empty
      /\ mem.catPage = 1 /\ mem.nextTable = 1 /\ mem.nextCol = 1 /\ mem.nextIndex = 1
      /\ mem.nextFree = 2 /\ mem.indexPage = NoPage /\ mem.indexes = Empty /\ DOMAIN mem = MemFields
  BY <1>1 DEF Blank, FirstEntriesPage, MemFields
<1>5. EntryPages(pages) = {1} /\ pages[1].entries = <<>> /\ pages[1].next = NoPage
  BY <1>3 DEF EntryPages, RootMeta, EntriesPage
<1>6. <<>> \in Seq(Entry) /\ DOMAIN <<>> = {}
  <2>1. <<>> \in Seq(Entry) /\ Len(<<>>) = 0
    BY EmptySeq
  <2> QED
    OBVIOUS
<1>7. Stored(pages) = {}
  BY <1>5, <1>6, StoredIs
<1>8. Live(pages) = {}
  BY <1>7 DEF Live
<1>9. Shapes
  BY <1>1, <1>4 DEF Shapes
<1>10. PagesShape
  <2>1. DOMAIN pages = 0 .. (mem.nextFree - 1) /\ mem.nextFree \in Nat /\ mem.nextFree >= 2
    BY <1>3, <1>4
  <2>2. pages[RootPage] = RootMeta(mem.nextFree, mem.indexPage)
    BY <1>3, <1>4 DEF RootPage
  <2>3. \A p \in EntryPages(pages) : /\ pages[p] = EntriesPage(pages[p].entries, pages[p].next)
                                     /\ pages[p].entries \in Seq(Entry)
    BY <1>3, <1>5, <1>6
  <2> QED
    BY <2>1, <2>2, <2>3 DEF PagesShape
<1>11. ChainWhole
  <2> PICK c : c = <<1>>
    OBVIOUS
  <2>1. c \in Seq(Nat) /\ Len(c) = 1 /\ c[1] = 1
    OBVIOUS
  <2>2. IsChain(c, pages)
    BY <1>5, <2>1 DEF IsChain, FirstEntriesPage, NoPage
  <2>3. Chain(pages, FirstEntriesPage) = c
    BY <2>2, ChainIs
  <2> QED
    BY <1>4, <2>1, <2>2, <2>3 DEF ChainWhole
<1>12. GivenPages
  <2>1. IsFiniteSet({}) /\ Cardinality({}) = 0
    BY FS_EmptySet
  <2> QED
    BY <1>1, <1>7, <2>1, CatalogAssumption DEF GivenPages
<1>13. LiveApart
  <2>1. Cardinality({}) = 0
    BY FS_EmptySet
  <2> QED
    BY <1>1, <1>4, <1>8, <2>1 DEF LiveApart
<1>14. MemOfPages
  BY <1>2, <1>4 DEF MemOfPages
<1>15. IndexDefs
  BY <1>1, <1>2, <1>4 DEF IndexDefs, NextAfter
<1>16. Statements
  BY <1>1, <1>2 DEF Statements
<1>17. Exact
  BY <1>1, <1>2, <1>4, <1>5, <1>6, <1>7 DEF Exact
<1>18. Maps
  <2>1. IsMap(Empty)
    BY DEF IsMap, Empty
  <2> QED
    BY <1>4, <2>1 DEF Maps
<1> QED
  BY <1>9, <1>10, <1>11, <1>12, <1>13, <1>14, <1>15, <1>16, <1>17, <1>18 DEF IInv

LEMMA NextInv ==
  ASSUME IInv, Maps, [Next]_vars
  PROVE  IInv' /\ Maps'
<1>1. ASSUME NEW name \in TableNames, NEW n \in ColumnCounts, CreateTable(name, n)
      PROVE  IInv' /\ Maps'
  <2>1. /\ \E x, y : mem'.names = Emplace(mem.names, x, y)
        /\ \E x, y : mem'.entries = Emplace(mem.entries, x, y)
        /\ \E x, y : mem'.entryPage = Put(mem.entryPage, x, y)
    <3>1. /\ mem'.names = Emplace(mem.names, name, mem.nextTable)
          /\ mem'.entries = Emplace(mem.entries, mem.nextTable, NewEntry(name))
          /\ mem'.entryPage = Put(mem.entryPage, mem.nextTable, EntryGoesTo)
      BY <1>1, CreateEffect
    <3> QED
      BY <3>1, Zenon
  <2>2. IsMap(mem'.names) /\ IsMap(mem'.entries) /\ IsMap(mem'.entryPage)
    BY <2>1, MapOps DEF Maps
  <2> QED
    BY <1>1, <2>2, CreateInv DEF Maps
<1>2. ASSUME NEW name \in TableNames, DropTable(name)
      PROVE  IInv' /\ Maps'
  BY <1>2, DropInv
<1>3. ASSUME NEW name \in IndexNames, NEW t \in DOMAIN files, NEW disk \in BOOLEAN,
             RegisterIndex(name, t, disk)
      PROVE  IInv' /\ Maps'
  <2>1. mem'.names = mem.names /\ mem'.entries = mem.entries /\ mem'.entryPage = mem.entryPage
    BY <1>3, RegisterEffect DEF SameTables
  <2> QED
    BY <1>3, <2>1, RegisterInv DEF Maps
<1>4. ASSUME NEW j \in indexing, CountPages(j) \/ FillPage(j) \/ EndFill(j)
      PROVE  IInv' /\ Maps'
  <2>1. mem' = mem
    BY <1>4 DEF CountPages, FillPage, EndFill
  <2> QED
    BY <1>4, <2>1, FillInv DEF Maps
<1>5. ASSUME NEW t \in DOMAIN files, InsertNewPage(t)
      PROVE  IInv' /\ Maps'
  BY <1>5, InsertPageInv DEF Maps, InsertNewPage
<1>6. ASSUME NEW j \in inserting, InsertBuild(j)
      PROVE  IInv' /\ Maps'
  BY <1>6, InsertBuildInv DEF Maps, InsertBuild
<1>7. ASSUME NEW j \in inserting, MaintainIndexInsert(j)
      PROVE  IInv' /\ Maps'
  BY <1>7, MaintainInv DEF Maps, MaintainIndexInsert
<1>8. ASSUME NEW j \in inserting, AddRowCount(j)
      PROVE  IInv' /\ Maps'
  BY <1>8, AddRowCountInv
<1>9. ASSUME NEW t \in DOMAIN files, NEW p \in Rows(t), DeleteRow(t, p)
      PROVE  IInv' /\ Maps'
  BY <1>9, DeleteInv DEF Maps, DeleteRow
<1>10. ASSUME Restart
       PROVE  IInv' /\ Maps'
  <2> PICK m : m = LoadFromDisk(pages)
    OBVIOUS
  <2>1. mem' = m
    BY <1>10 DEF Restart
  <2>2. IsMap(m.names) /\ IsMap(m.entries) /\ IsMap(m.entryPage)
    BY RestartMaps
  <2> QED
    BY <1>10, <2>1, <2>2, RestartInv DEF Maps
<1>11. ASSUME UNCHANGED vars
       PROVE  IInv' /\ Maps'
  <2>1. /\ pages' = pages /\ mem' = mem /\ contents' = contents /\ ghost' = ghost
        /\ files' = files /\ inserting' = inserting
    BY <1>11 DEF vars
  <2>2. Statements'
    BY <2>1 DEF IInv, Statements
  <2>3. IInv'
    BY <2>1, <2>2, UntouchedInv
  <2> QED
    BY <2>1, <2>3 DEF Maps
<1> QED
  BY <1>1, <1>2, <1>3, <1>4, <1>5, <1>6, <1>7, <1>8, <1>9, <1>10, <1>11 DEF Next

\* The inductive invariant: the walk follows the whole chain of entry pages, the
\* root page knows the page allocator and the definitions page, every table ever
\* created has a schema page of its own, live ids and columns stay below the
\* allocators, and until an id is handed out twice memory and pages agree.
THEOREM CatalogInvariant == Spec => [](IInv /\ Maps)
<1>1. Init => IInv /\ Maps
  BY InitInv
<1>2. IInv /\ Maps /\ [Next]_vars => (IInv /\ Maps)'
  BY NextInv
<1> QED
  BY <1>1, <1>2, PTL DEF Spec

----------------------------------------------------------------------------
(* The properties.                                                         *)

\* The object's maps agree with each other and the ids stay under their
\* allocators, in memory and on the pages.
THEOREM TypeCorrect == Spec => []TypeOK
<1>1. IInv => TypeOK
  <2> SUFFICES ASSUME IInv PROVE TypeOK
    OBVIOUS
  <2>1. /\ DOMAIN mem.names \subseteq TableNames /\ DOMAIN mem.entryPage = DOMAIN mem.entries
        /\ \A x \in DOMAIN mem.names : mem.names[x] \in DOMAIN mem.entries
        /\ \A t \in DOMAIN mem.schemas : ToSet(mem.schemas[t]) \subseteq 1..(mem.nextCol - 1)
        /\ \A t \in DOMAIN mem.entries : <<t, mem.entries[t].schema>> \in ghost.given
    BY DEF IInv, MemOfPages
  <2>2. DOMAIN mem.entries \subseteq 1..MaxTables
    <3>1. ASSUME NEW t \in DOMAIN mem.entries PROVE t \in 1..MaxTables
      <4> DEFINE g == <<t, mem.entries[t].schema>>
      <4>1. g \in ghost.given /\ g[1] = t
        BY <2>1
      <4> HIDE DEF g
      <4>2. t \in 1..Cardinality(ghost.given) /\ Cardinality(ghost.given) <= MaxTables
        BY <4>1 DEF IInv, GivenPages
      <4>3. Cardinality(ghost.given) \in Nat /\ MaxTables \in Nat
        BY FS_CardinalityType, CatalogAssumption DEF IInv, GivenPages
      <4> QED
        BY <4>2, <4>3
    <3> QED
      BY <3>1
  <2>3. /\ DOMAIN mem.indexes \subseteq 1..(mem.nextIndex - 1)
        /\ DOMAIN contents = DOMAIN mem.indexes
    BY DEF IInv, IndexDefs
  <2>4. DOMAIN pages = 0..(mem.nextFree - 1)
    BY DEF IInv, PagesShape
  <2>5. \A t \in DOMAIN files : files[t] \in Seq({"blank", "row", "node"})
    BY DEF IInv, Statements
  <2> QED
    BY <2>1, <2>2, <2>3, <2>4, <2>5 DEF TypeOK
<1> QED
  BY <1>1, CatalogInvariant, PTL

\* Through creations, drops and restarts a name finds the table created last
\* under it, with its columns, and a dropped name finds nothing, as long as no
\* dropped table's id was handed out again.
THEOREM DirectoryCorrect == Spec => []DirectoryExact
<1>1. IInv => DirectoryExact
  <2> SUFFICES ASSUME IInv, ~ghost.reused, NEW name \in TableNames
               PROVE  IF name \in Names
                      THEN \E t \in GetTable(mem, name) : GetSchema(mem, t) = {ghost.made[name]}
                      ELSE GetTable(mem, name) = {}
    BY DEF DirectoryExact
  <2>1. /\ \A x \in DOMAIN mem.names : mem.entries[mem.names[x]].active
        /\ DOMAIN ghost.made = DOMAIN mem.names
        /\ \A x \in DOMAIN mem.names : ghost.made[x] = mem.schemas[mem.names[x]]
    BY DEF IInv, Exact
  <2>2. /\ \A x \in DOMAIN mem.names : mem.names[x] \in DOMAIN mem.entries
        /\ \A t \in DOMAIN mem.entries : mem.entries[t].active => t \in DOMAIN mem.schemas
    BY DEF IInv, MemOfPages
  <2>3. CASE name \in Names
    <3> DEFINE t == mem.names[name]
    <3>1. name \in DOMAIN mem.names
      BY <2>1, <2>3 DEF Names
    <3>2. t \in GetTable(mem, name)
      BY <2>1, <2>2, <3>1 DEF GetTable
    <3>3. GetSchema(mem, t) = {ghost.made[name]}
      BY <2>1, <2>2, <3>1 DEF GetSchema
    <3> QED
      BY <2>3, <3>2, <3>3
  <2>4. CASE name \notin Names
    BY <2>1, <2>4 DEF Names, GetTable
  <2> QED
    BY <2>3, <2>4
<1> QED
  BY <1>1, CatalogInvariant, PTL

\* A process started now would load from the pages what this one has in memory,
\* but for the schemas of dropped tables and allocators that fall back to ids
\* nothing live has: every operation writes through.
THEOREM ReloadCorrect == Spec => []ReloadExact
<1>1. IInv /\ Maps => ReloadExact
  <2> SUFFICES ASSUME IInv, Maps, ~ghost.reused
               PROVE  ReloadExact
    BY DEF ReloadExact
  <2> PICK m : m = LoadFromDisk(pages)
    OBVIOUS
  <2>1. Exact
    BY DEF IInv
  <2>2. /\ m.nextFree = mem.nextFree /\ m.indexPage = mem.indexPage /\ m.catPage = mem.catPage
        /\ m.indexes = mem.indexes /\ m.nextIndex = mem.nextIndex
        /\ m.nextTable \in 1 .. mem.nextTable /\ m.nextCol \in 1 .. mem.nextCol
    BY LoadAllocators
  <2>3. /\ DOMAIN m.entries = DOMAIN mem.entries
        /\ \A t \in DOMAIN mem.entries : m.entries[t] = mem.entries[t] /\ m.entryPage[t] = mem.entryPage[t]
        /\ DOMAIN m.entryPage = DOMAIN mem.entryPage
        /\ DOMAIN m.names = DOMAIN mem.names
        /\ \A x \in DOMAIN mem.names : m.names[x] = mem.names[x]
        /\ \A t \in DOMAIN mem.entries : mem.entries[t].active => m.schemas[t] = mem.schemas[t]
    BY <2>1, LoadExact
  <2>4. IsMap(m.names) /\ IsMap(m.entries) /\ IsMap(m.entryPage)
    BY RestartMaps
  <2>5. DOMAIN mem.entryPage = DOMAIN mem.entries
    BY DEF IInv, MemOfPages
  <2>6. m.names = mem.names
    BY <2>3, <2>4 DEF Maps, IsMap
  <2>7. m.entries = mem.entries
    BY <2>3, <2>4 DEF Maps, IsMap
  <2>8. m.entryPage = mem.entryPage
    BY <2>3, <2>4, <2>5 DEF Maps, IsMap
  <2>9. m.nextTable <= mem.nextTable /\ m.nextCol <= mem.nextCol
    BY <2>2
  <2> QED
    BY <2>2, <2>3, <2>6, <2>7, <2>8, <2>9 DEF ReloadExact
<1> QED
  BY <1>1, CatalogInvariant, PTL

\* Root, chain, schema and definition pages are pages of their own, below the
\* allocator the root records, and no two tables share a schema page.
THEOREM PagesApart == Spec => []PagesDisjoint
<1>1. IInv => PagesDisjoint
  <2> SUFFICES ASSUME IInv PROVE PagesDisjoint
    OBVIOUS
  <2> PICK c : c = Chain(pages, FirstEntriesPage)
    OBVIOUS
  <2> DEFINE T == DOMAIN mem.entries
             schemas == {mem.entries[t].schema : t \in T}
             f == [t \in T |-> mem.entries[t].schema]
  <2>1. pages[RootPage].kind = "root" /\ pages[RootPage].total = mem.nextFree
    BY DEF IInv, PagesShape, RootMeta
  <2>2. \A p \in ToSet(c) : pages[p].kind = "entries"
    BY DEF IInv, ChainWhole, IsChain, EntryPages, ToSet
  <2>3. \A p \in {mem.indexPage} \ {NoPage} : pages[p].kind = "defs"
    BY DEF IInv, IndexDefs, DefsPage
  <2>4. ASSUME NEW t \in T
        PROVE  /\ pages[mem.entries[t].schema].kind = "schema"
               /\ t \in 1..Cardinality(ghost.given)
               /\ \A u \in T : mem.entries[u].schema = mem.entries[t].schema => u = t
    <3>1. \A u \in T : <<u, mem.entries[u].schema>> \in ghost.given
      BY DEF IInv, MemOfPages
    <3>2. \A g \in ghost.given : g[1] \in 1..Cardinality(ghost.given) /\ pages[g[2]].kind = "schema"
      BY DEF IInv, GivenPages
    <3>3. \A g, h \in ghost.given : g[2] = h[2] => g = h
      BY DEF IInv, GivenPages
    <3> DEFINE G(u) == <<u, mem.entries[u].schema>>
    <3>4. \A u \in T : G(u) \in ghost.given /\ G(u)[1] = u /\ G(u)[2] = mem.entries[u].schema
      BY <3>1
    <3> HIDE DEF G
    <3>5. ASSUME NEW u \in T, mem.entries[u].schema = mem.entries[t].schema PROVE u = t
      <4>1. G(u) = G(t)
        BY <3>3, <3>4, <3>5
      <4> QED
        BY <3>4, <4>1
    <3> QED
      BY <3>2, <3>4, <3>5
  <2>5. IsFiniteSet(T)
    <3>1. Cardinality(ghost.given) \in Nat
      BY FS_CardinalityType DEF IInv, GivenPages
    <3>2. IsFiniteSet(1..Cardinality(ghost.given))
      BY <3>1, FS_Interval
    <3>3. T \in SUBSET (1..Cardinality(ghost.given))
      BY <2>4
    <3> QED
      BY <3>2, <3>3, FS_Subset
  <2>6. f \in Bijection(T, schemas)
    BY <2>4 DEF Bijection, Injection, Surjection, IsInjective
  <2>7. Cardinality(schemas) = Cardinality(T)
    <3>1. ExistsBijection(T, schemas)
      BY <2>6 DEF ExistsBijection
    <3> HIDE DEF T, schemas
    <3> QED
      BY <2>5, <3>1, FS_Bijection
  <2>8. \A p \in schemas : pages[p].kind = "schema"
    BY <2>4
  <2> QED
    BY <2>1, <2>2, <2>3, <2>7, <2>8 DEF PagesDisjoint
<1> QED
  BY <1>1, CatalogInvariant, PTL

\* No two tables that can be found share a column id, even after an id has been
\* handed out twice: what lets joins look columns up by id alone.
THEOREM ColumnsApart == Spec => []ColumnsUnique
<1>1. IInv => ColumnsUnique
  <2> SUFFICES ASSUME IInv, NEW a \in TableNames, NEW b \in TableNames,
                      NEW s \in GetTable(mem, a), NEW t \in GetTable(mem, b), s # t
               PROVE  ToSet(mem.schemas[s]) \cap ToSet(mem.schemas[t]) = {}
    BY DEF ColumnsUnique
  <2>1. \A u \in {s, t} : u \in DOMAIN mem.entries /\ mem.entries[u].active
    BY DEF GetTable
  <2>2. \A u \in {s, t} : \E e \in Live(pages) : e.id = u /\ ToSet(mem.schemas[u]) = Cols(pages, e)
    <3>1. ASSUME NEW u \in {s, t}
          PROVE  \E e \in Live(pages) : e.id = u /\ ToSet(mem.schemas[u]) = Cols(pages, e)
      <4>1. /\ mem.schemas[u] = pages[mem.entries[u].schema].cols
            /\ \E e \in Live(pages) : e.id = u /\ e.schema = mem.entries[u].schema
        BY <2>1 DEF IInv, MemOfPages
      <4> QED
        BY <4>1 DEF Cols
    <3> QED
      BY <3>1
  <2>3. PICK e \in Live(pages) : e.id = s /\ ToSet(mem.schemas[s]) = Cols(pages, e)
    BY <2>2
  <2>4. PICK f \in Live(pages) : f.id = t /\ ToSet(mem.schemas[t]) = Cols(pages, f)
    BY <2>2
  <2>5. Cols(pages, e) \cap Cols(pages, f) = {}
    BY <2>3, <2>4 DEF IInv, LiveApart
  <2> QED
    BY <2>3, <2>4, <2>5
<1> QED
  BY <1>1, CatalogInvariant, PTL
=============================================================================
