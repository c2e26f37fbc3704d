------------------------- MODULE PageManagerProofs -------------------------
(***************************************************************************)
(* Proofs about PageManager, for every number of pages, every size of the  *)
(* pages of the free list and every number of writes, versions and         *)
(* crashes after the first version.                                        *)
(***************************************************************************)
EXTENDS PageManager, FiniteSetTheorems, SequenceTheorems, NaturalsInduction,
        WellFoundedInduction, TLAPS

-----------------------------------------------------------------------------
(* Types                                                                   *)

DataPages == [kind : {"data"}, data : Data \ Raw, value : Nat]
RawPages == [kind : {"raw"}, data : Raw, value : Nat, next : Nat]
Contents == DataPages \cup RawPages
Headers ==
    {h \in [kind : {"header"}, at : [Data -> Nat], content : [Data -> Contents],
            rawData : Raw, named : Nat, freePages : Nat, firstUnusedPage : Nat,
            lastVersion : Nat] :
        h.at[h.rawData] # 0 /\ \A d \in Data : h.content[d].data = d}
ListPages == [kind : {"list"}, previous : Nat, entries : Seq(Nat), stored : Nat]
Pages == Headers \cup Contents \cup ListPages \cup {ZeroPage}

Finite == {T \in SUBSET Nat : IsFiniteSet(T)}
PageSets == UNION {[T -> Pages] : T \in Finite}
Edits == UNION {[T -> Nat] : T \in SUBSET Nat}

Managers == [pages : PageSets, freePages : Seq(Nat), firstUnusedPage : Nat,
             nPages : Nat, editedPages : Edits]

TypeInv ==
    /\ pm \in Managers /\ disk \in PageSets
    /\ 0 \in DOMAIN pm.pages /\ pm.pages[0] \in Headers
    /\ 0 \in DOMAIN disk /\ disk[0] \in Headers
    /\ flushPc \in {"none", "sync", "header", "syncHeader", "release"}
    /\ released \in Seq(Nat)

-----------------------------------------------------------------------------
(* What a version is                                                       *)

\* L is the list of free pages that ends at page p, its first page first.
Chain(P, p, L) ==
    /\ L \in Seq(Nat) /\ Len(L) > 0 /\ L[Len(L)] = p
    /\ \A i \in 1..Len(L) :
          /\ L[i] \in DOMAIN P /\ P[L[i]] \in ListPages
          /\ P[L[i]].stored <= Len(P[L[i]].entries)
          /\ P[L[i]].previous = IF i = 1 THEN 0 ELSE L[i - 1]
    /\ \A i, j \in 1..Len(L) : L[i] = L[j] => i = j
    /\ ReadPage(P, 0).kind # "list"

\* The header h finds every data page, with all it had when h was made.
Holds(P, h) ==
    \A d \in Data : h.at[d] # 0 =>
        h.at[d] \in DOMAIN P /\ Grown(h.content[d], P[h.at[d]])

DataOf(h) == {h.at[d] : d \in Data} \ {0}
Old(h, L) == DataOf(h) \cup Range(L)
Below(n) == 2..(n - 1)

Listed(P, L) == UNION {Range(P[L[i]].entries) : i \in 1..Len(L)}

ListedOnce(P, L) ==
    \A i, j \in 1..Len(L) : \A a \in 1..Len(P[L[i]].entries), b \in 1..Len(P[L[j]].entries) :
        P[L[i]].entries[a] = P[L[j]].entries[b] => i = j /\ a = b

\* The pages that h needs are there, and the list names every other page below
\* firstUnusedPage once, but for what a restart has lost.
Safe(P, h, L, gone) ==
    /\ h \in Headers
    /\ Chain(P, h.freePages, L) /\ Holds(P, h) /\ ListedOnce(P, L)
    /\ Old(h, L) \cup Listed(P, L) \subseteq Below(h.firstUnusedPage)
    /\ Listed(P, L) \cap Old(h, L) = {}
    /\ Below(h.firstUnusedPage) \subseteq Old(h, L) \cup Listed(P, L) \cup gone

\* Q has what P had at the pages of S; more was appended to raw data at most.
Agree(P, Q, S) == S \subseteq DOMAIN P \cap DOMAIN Q /\ \A p \in S : Grown(P[p], Q[p])

-----------------------------------------------------------------------------
(* The inductive invariant                                                 *)

\* No version was flushed yet: the pages of a new database are edited in place.
First == disk[0].lastVersion = 0

\* Where the batch has the data page d, compared with the last version
Moved(s, h, H, first, d) ==
    IF H.at[d] # h.at[d]
    THEN /\ H.at[d] \in DOMAIN s.editedPages /\ s.editedPages[H.at[d]] = H.at[d]
         /\ h.at[d] # 0 => /\ h.at[d] \in DOMAIN s.editedPages
                           /\ s.editedPages[h.at[d]] = H.at[d]
    ELSE IF first
    THEN h.at[d] \in DOMAIN s.editedPages /\ s.editedPages[h.at[d]] = h.at[d]
    ELSE h.at[d] \notin DOMAIN s.editedPages

\* The manager s in a batch with header H, after the version of h with list L
InBatch(s, h, H, L, first, gone) ==
    /\ h \in Headers /\ H \in Headers
    /\ H.freePages = h.freePages /\ H.lastVersion = h.lastVersion
    /\ Chain(s.pages, h.freePages, L) /\ Holds(s.pages, H)
    /\ \A d \in Data : h.at[d] # 0 => H.at[d] # 0
    /\ \A d \in Data : H.at[d] # 0 => Moved(s, h, H, first, d)
    /\ \A d \in Data : H.at[d] # h.at[d] => H.at[d] \notin DataOf(h)
    /\ \A p \in DOMAIN s.editedPages : p >= 2 =>
          s.editedPages[p] = p \/ p \in DataOf(h)
    /\ DataOf(h) \cap Range(L) = {}
    /\ Old(h, L) \cup DataOf(H) \cup Range(s.freePages) \subseteq Below(s.firstUnusedPage)
    /\ IsInjective(s.freePages)
    /\ Range(s.freePages) \cap (Old(h, L) \cup DataOf(H)) = {}
    /\ Below(s.firstUnusedPage) \subseteq
           Old(h, L) \cup DataOf(H) \cup Range(s.freePages) \cup gone

OldList == GetContainerPages(pm.pages, disk[0].freePages)

\* What the disk has until the new header is on it
DiskHas ==
    IF First THEN DOMAIN disk = {0}
    ELSE Safe(disk, disk[0], OldList, lost) /\ Agree(disk, pm.pages, Old(disk[0], OldList))

BatchInv ==
    /\ pm.pages[0] = disk[0] /\ released = <<>>
    /\ 0 \in DOMAIN pm.editedPages => 1 \in DOMAIN pm.pages
    /\ InBatch(pm, disk[0], Header, OldList, First, lost)
    /\ DiskHas

NewList == GetContainerPages(pm.pages, pm.pages[1].freePages)

FlushInv ==
    /\ 0 \in DOMAIN pm.editedPages /\ 1 \in DOMAIN pm.pages
    /\ Safe(pm.pages, pm.pages[1], NewList, lost)
    /\ pm.pages[1].lastVersion > 0 /\ pm.pages[1].firstUnusedPage = pm.firstUnusedPage
    /\ Listed(pm.pages, NewList) = Range(pm.freePages \o released)
    /\ IsInjective(pm.freePages \o released)
    /\ flushPc # "release" =>
          /\ Chain(pm.pages, disk[0].freePages, OldList)
          /\ Range(pm.freePages) \cap Old(disk[0], OldList) = {}
    /\ flushPc = "sync" => pm.pages[0] = disk[0] /\ DiskHas
    /\ flushPc = "header" => disk = pm.pages /\ (First \/ Safe(disk, disk[0], OldList, lost))
    /\ flushPc = "syncHeader" =>
          /\ DOMAIN disk = DOMAIN pm.pages /\ pm.pages[0] = pm.pages[1]
          /\ \A p \in DOMAIN disk : p # 0 => disk[p] = pm.pages[p]
          /\ First \/ Safe(disk, disk[0], OldList, lost)
    /\ flushPc = "release" => disk = pm.pages /\ pm.pages[0] = pm.pages[1]

PageInv ==
    /\ TypeInv
    /\ IF flushPc = "none" THEN BatchInv ELSE FlushInv
-----------------------------------------------------------------------------
(* Induction                                                               *)

\* A set of numbers that is not empty has a least one.
LEMMA SmallestNumber ==
    ASSUME NEW T \in SUBSET Nat, T # {}
    PROVE  \E x \in T : \A y \in T : x <= y
<1> DEFINE R == {ss \in Nat \X Nat : ss[1] < ss[2]}
<1>1. IsWellFoundedOn(R, Nat)
  BY NatLessThanWellFounded DEF OpToRel
<1>2. PICK x \in T : \A y \in T : ~(<<y, x>> \in R)
  BY <1>1, WFMin
<1>3. \A y \in T : ~(y < x)
  BY <1>2
<1> QED
  BY <1>3

\* Going up from the first number.
LEMMA UpFrom ==
    ASSUME NEW a \in Int, NEW z \in Int, NEW U \in SUBSET (a..z),
           a \notin U,
           \A l \in a..z : (a < l /\ l - 1 \notin U) => l \notin U
    PROVE  U = {}
<1> DEFINE T == {n \in Nat : a + n \in U}
<1>1. SUFFICES ASSUME U # {} PROVE FALSE
  OBVIOUS
<1>2. PICK u \in U : TRUE
  BY <1>1
<1>3. u \in a..z /\ u - a \in Nat /\ a + (u - a) = u
  BY <1>2
<1>4. u - a \in T
  BY <1>2, <1>3
<1>5. T \in SUBSET Nat /\ T # {}
  BY <1>4
<1>6. PICK n \in T : \A m \in T : n <= m
  BY <1>5, SmallestNumber
<1>7. n \in Nat /\ a + n \in U /\ a + n \in a..z
  BY <1>6
<1>8. n # 0
  BY <1>7
<1>9. n - 1 \in Nat /\ ~(n <= n - 1) /\ a < a + n /\ (a + n) - 1 = a + (n - 1)
  BY <1>7, <1>8
<1>10. n - 1 \notin T
  BY <1>6, <1>9
<1>11. (a + n) - 1 \notin U
  BY <1>9, <1>10
<1> QED
  BY <1>7, <1>9, <1>11

\* f starts at c and goes from each value to the next one by G.
Iterates(f, n, c, G) == f[0] = c /\ \A i \in 1..n : f[i] = G[<<f[i - 1], i>>]

\* A function defined by recursion on its position exists.
LEMMA IterationExists ==
    ASSUME NEW n \in Nat, NEW D, NEW c \in D, NEW G \in [D \X (1..n) -> D]
    PROVE  \E f \in [0..n -> D] : Iterates(f, n, c, G)
<1> DEFINE U == {l \in 0..n : ~\E f \in [0..l -> D] : Iterates(f, l, c, G)}
<1>1. 0 \notin U
  <2> DEFINE f == [l \in 0..0 |-> c]
  <2>1. f \in [0..0 -> D] /\ f[0] = c /\ 1..0 = {}
    OBVIOUS
  <2>2. Iterates(f, 0, c, G)
    BY <2>1 DEF Iterates
  <2> QED
    BY <2>1, <2>2
<1>2. ASSUME NEW l \in 0..n, 0 < l, l - 1 \notin U
      PROVE  l \notin U
  <2>1. PICK f \in [0..l - 1 -> D] : Iterates(f, l - 1, c, G)
    BY <1>2
  <2>2. PICK x : x = G[<<f[l - 1], l>>]
    OBVIOUS
  <2>3. f[l - 1] \in D /\ l \in 1..n
    BY <1>2
  <2>4. x \in D
    BY <2>2, <2>3
  <2> DEFINE g == [i \in 0..l |-> IF i = l THEN x ELSE f[i]]
  <2>5. g \in [0..l -> D]
    BY <2>4
  <2>6. g[l] = x /\ \A i \in 0..l - 1 : g[i] = f[i]
    BY <1>2
  <2> HIDE DEF g
  <2>7. g[0] = c
    BY <1>2, <2>1, <2>6 DEF Iterates
  <2>8. ASSUME NEW i \in 1..l
        PROVE  g[i] = G[<<g[i - 1], i>>]
    <3>1. i - 1 \in 0..l - 1 /\ g[i - 1] = f[i - 1]
      BY <2>6, <2>8
    <3>2. CASE i = l
      BY <2>2, <2>6, <3>1, <3>2
    <3>3. CASE i # l
      <4>1. i \in 1..l - 1 /\ i \in 0..l - 1
        BY <2>8, <3>3
      <4> QED
        BY <2>1, <2>6, <3>1, <4>1 DEF Iterates
    <3> QED
      BY <3>2, <3>3
  <2>9. Iterates(g, l, c, G)
    BY <2>7, <2>8 DEF Iterates
  <2> QED
    BY <2>5, <2>9
<1>3. U \in SUBSET (0..n) /\ 0 \in Int /\ n \in Int
  OBVIOUS
<1>4. U = {}
  <2> HIDE DEF U
  <2> QED
    BY <1>1, <1>2, <1>3, UpFrom
<1> QED
  BY <1>4

-----------------------------------------------------------------------------
(* The list of free pages                                                  *)

LEMMA PagesAre ==
    ASSUME NEW P \in PageSets
    PROVE  /\ DOMAIN P \in SUBSET Nat /\ IsFiniteSet(DOMAIN P)
           /\ P \in [DOMAIN P -> Pages] /\ \A p \in DOMAIN P : P[p] \in Pages
<1>1. PICK T \in Finite : P \in [T -> Pages]
  BY DEF PageSets
<1> QED
  BY <1>1 DEF Finite

\* A list is at most as long as there are pages.
LEMMA ChainFits ==
    ASSUME NEW P \in PageSets, NEW p, NEW L, Chain(P, p, L)
    PROVE  Len(L) \in Nat /\ Cardinality(DOMAIN P) \in Nat /\ Len(L) <= Cardinality(DOMAIN P)
<1>1. PICK m : m = Len(L)
  OBVIOUS
<1>2. m \in Nat /\ L \in [1..m -> Nat] /\ DOMAIN L = 1..m
  BY <1>1, LenProperties DEF Chain
<1>3. IsFiniteSet(DOMAIN P) /\ Cardinality(DOMAIN P) \in Nat
  BY PagesAre, FS_CardinalityType
<1>4. L \in Injection(1..m, DOMAIN P)
  <2>1. \A i \in 1..m : L[i] \in DOMAIN P
    BY <1>1 DEF Chain
  <2>2. L \in [1..m -> DOMAIN P]
    BY <1>2, <2>1
  <2>3. IsInjective(L)
    BY <1>1, <1>2 DEF Chain, IsInjective
  <2> QED
    BY <2>2, <2>3 DEF Injection
<1>5. Cardinality(1..m) <= Cardinality(DOMAIN P)
  BY <1>3, <1>4, FS_Injection
<1>6. Cardinality(1..m) = IF 1 > m THEN 0 ELSE m - 1 + 1
  BY <1>2, FS_Interval
<1> QED
  BY <1>1, <1>2, <1>3, <1>5, <1>6

\* The last i pages of a list.
Tailing(L, i) == IF i <= Len(L) THEN SubSeq(L, Len(L) - i + 1, Len(L)) ELSE L

\* One step of GetContainerPages.
ReadOn(P, p, found) ==
    LET next == IF found = <<>> THEN p ELSE P[Head(found)].previous
    IN  IF ReadPage(P, next).kind = "list" THEN <<next>> \o found ELSE found

LEMMA ReadsOn ==
    ASSUME NEW P \in PageSets, NEW p, NEW L, Chain(P, p, L), NEW i \in Nat \ {0}
    PROVE  Tailing(L, i) = ReadOn(P, p, Tailing(L, i - 1))
<1>1. PICK m : m = Len(L)
  OBVIOUS
<1>2. m \in Nat /\ m > 0 /\ L \in Seq(Nat)
  BY <1>1, LenProperties DEF Chain
<1>3. CASE i > m
  <2>1. Tailing(L, i) = L
    BY <1>1, <1>3 DEF Tailing
  <2>2. Tailing(L, i - 1) = L
    <3>1. CASE i - 1 > m
      BY <1>1, <1>2, <3>1 DEF Tailing
    <3>2. CASE i - 1 = m
      <4>1. Tailing(L, i - 1) = SubSeq(L, 1, m)
        BY <1>1, <1>2, <3>2 DEF Tailing
      <4> QED
        BY <1>1, <1>2, <4>1, SubSeqFull
    <3> QED
      BY <1>2, <1>3, <3>1, <3>2
  <2>3. L # <<>> /\ Head(L) = L[1]
    BY <1>1, <1>2, EmptySeq
  <2>4. P[Head(L)].previous = 0
    BY <1>1, <1>2, <2>3 DEF Chain
  <2>5. ReadPage(P, 0).kind # "list"
    BY DEF Chain
  <2> QED
    BY <2>1, <2>2, <2>3, <2>4, <2>5 DEF ReadOn
<1>4. CASE i <= m
  <2>1. PICK k : k = m - i + 1
    OBVIOUS
  <2>2. k \in 1..m /\ m - (i - 1) + 1 = k + 1 /\ i - 1 <= m
    BY <1>2, <1>4, <2>1
  <2>3. Tailing(L, i) = SubSeq(L, k, m) /\ Tailing(L, i - 1) = SubSeq(L, k + 1, m)
    BY <1>1, <1>4, <2>1, <2>2 DEF Tailing
  <2>4. SubSeq(L, k, m) = <<L[k]>> \o SubSeq(L, k + 1, m)
    BY <1>1, <1>2, <2>2, SubSeqRecursiveFirst
  <2>5. ReadPage(P, L[k]).kind = "list"
    <3>1. L[k] \in DOMAIN P /\ P[L[k]] \in ListPages
      BY <1>1, <2>2 DEF Chain
    <3> QED
      BY <3>1 DEF ReadPage, ListPages
  <2>6. CASE k = m
    <3>1. SubSeq(L, k + 1, m) = <<>>
      BY <1>2, <2>6, SubSeqEmpty
    <3>2. L[k] = p
      BY <1>1, <2>6 DEF Chain
    <3> QED
      BY <2>3, <2>4, <2>5, <3>1, <3>2 DEF ReadOn
  <2>7. CASE k < m
    <3>1. k + 1 \in 1..Len(L) /\ m \in k + 1..Len(L)
      BY <1>1, <1>2, <2>2, <2>7
    <3>2. Head(SubSeq(L, k + 1, m)) = L[k + 1]
      BY <1>2, <3>1, HeadTailOfSubSeq
    <3>3. SubSeq(L, k + 1, m) # <<>>
      <4>1. PICK q : q = k + 1
        OBVIOUS
      <4>2. q \in Int /\ m \in Int /\ q <= m /\ \A j \in q..m : L[j] \in Nat
        BY <1>1, <1>2, <2>2, <2>7, <4>1, ElementOfSeq
      <4>3. SubSeq(L, q, m) \in Seq(Nat) /\ Len(SubSeq(L, q, m)) = m - q + 1
        BY <4>2, SubSeqProperties
      <4>4. Len(SubSeq(L, q, m)) # 0
        BY <4>2, <4>3
      <4>5. SubSeq(L, q, m) # <<>>
        BY <4>4, EmptySeq
      <4> QED
        BY <4>1, <4>5
    <3>4. P[L[k + 1]].previous = L[k]
      BY <2>2, <3>1 DEF Chain
    <3> QED
      BY <2>3, <2>4, <2>5, <3>2, <3>3, <3>4 DEF ReadOn
  <2> QED
    BY <1>2, <2>2, <2>6, <2>7
<1> QED
  BY <1>2, <1>3, <1>4

\* GetContainerPages reads the list.
LEMMA ListIs ==
    ASSUME NEW P \in PageSets, NEW p, NEW L, Chain(P, p, L)
    PROVE  GetContainerPages(P, p) = L
<1>1. PICK n : n = Cardinality(DOMAIN P)
  OBVIOUS
<1>2. n \in Nat /\ Len(L) \in Nat /\ Len(L) <= n /\ L \in Seq(Nat) /\ Len(L) > 0
  BY <1>1, ChainFits DEF Chain
<1> DEFINE f == [i \in 0..n |-> Tailing(L, i)]
<1>3. f = [i \in 0..n |-> IF i = 0 THEN <<>> ELSE ReadOn(P, p, f[i - 1])]
  <2>1. ASSUME NEW i \in 0..n
        PROVE  Tailing(L, i) = IF i = 0 THEN <<>> ELSE ReadOn(P, p, f[i - 1])
    <3>1. CASE i = 0
      <4>1. Tailing(L, 0) = SubSeq(L, Len(L) + 1, Len(L))
        BY <1>2 DEF Tailing
      <4>2. SubSeq(L, Len(L) + 1, Len(L)) = <<>>
        BY <1>2, SubSeqEmpty
      <4> QED
        BY <3>1, <4>1, <4>2
    <3>2. CASE i # 0
      <4>1. i \in Nat \ {0} /\ i - 1 \in 0..n /\ f[i - 1] = Tailing(L, i - 1)
        BY <1>2, <3>2
      <4> QED
        BY <3>2, <4>1, ReadsOn
    <3> QED
      BY <3>1, <3>2
  <2> QED
    BY <2>1
<1>4. \A i \in 0..n : f[i] = Tailing(L, i)
  OBVIOUS
<1> HIDE DEF f
<1>5. PICK h : h = CHOOSE u : u = [i \in 0..n |-> IF i = 0 THEN <<>> ELSE ReadOn(P, p, u[i - 1])]
  OBVIOUS
<1>6. h = [i \in 0..n |-> IF i = 0 THEN <<>> ELSE ReadOn(P, p, h[i - 1])]
  BY <1>3, <1>5
<1>7. \A i \in 0..n : h[i] = f[i]
  <2> DEFINE U == {i \in 0..n : h[i] # f[i]}
  <2>1. 0 \notin U
    BY <1>2, <1>3, <1>6
  <2>2. ASSUME NEW l \in 0..n, 0 < l, l - 1 \notin U
        PROVE  l \notin U
    <3>1. l # 0 /\ l - 1 \in 0..n
      BY <1>2, <2>2
    <3>2. h[l - 1] = f[l - 1]
      BY <2>2, <3>1
    <3>3. h[l] = ReadOn(P, p, h[l - 1]) /\ f[l] = ReadOn(P, p, f[l - 1])
      BY <1>3, <1>6, <3>1
    <3> QED
      BY <3>2, <3>3
  <2>3. U \in SUBSET (0..n) /\ 0 \in Int /\ n \in Int
    BY <1>2
  <2>4. U = {}
    <3> HIDE DEF U
    <3> QED
      BY <2>1, <2>2, <2>3, UpFrom
  <2> QED
    BY <2>4
<1>8. GetContainerPages(P, p) = h[n]
  BY <1>1, <1>5 DEF GetContainerPages, ReadOn
<1>9. Tailing(L, n) = L
  <2>1. CASE n = Len(L)
    <3>1. Tailing(L, n) = SubSeq(L, 1, Len(L))
      BY <1>2, <2>1 DEF Tailing
    <3> QED
      BY <1>2, <3>1, SubSeqFull
  <2>2. CASE n # Len(L)
    BY <1>2, <2>2 DEF Tailing
  <2> QED
    BY <2>1, <2>2
<1> QED
  BY <1>2, <1>4, <1>7, <1>8, <1>9

-----------------------------------------------------------------------------
(* Pages and edits                                                         *)

LEMMA WithPage ==
    ASSUME NEW P \in PageSets, NEW p \in Nat, NEW page \in Pages
    PROVE  With(P, p, page) \in PageSets
<1>1. PICK T \in Finite : P \in [T -> Pages]
  BY DEF PageSets
<1>2. With(P, p, page) \in [T \cup {p} -> Pages]
  BY <1>1 DEF With
<1>3. T \cup {p} \in Finite
  BY <1>1, FS_AddElement DEF Finite
<1> QED
  BY <1>2, <1>3 DEF PageSets

LEMMA WithEdit ==
    ASSUME NEW E \in Edits, NEW p \in Nat, NEW q \in Nat
    PROVE  With(E, p, q) \in Edits
<1>1. PICK T \in SUBSET Nat : E \in [T -> Nat]
  BY DEF Edits
<1>2. With(E, p, q) \in [T \cup {p} -> Nat] /\ T \cup {p} \in SUBSET Nat
  BY <1>1 DEF With
<1> QED
  BY <1>2 DEF Edits

LEMMA ManagerFields ==
    ASSUME NEW s \in Managers
    PROVE  /\ s.pages \in PageSets /\ s.freePages \in Seq(Nat) /\ s.firstUnusedPage \in Nat
           /\ s.nPages \in Nat /\ s.editedPages \in Edits
  BY DEF Managers

LEMMA ZeroIsAPage == ZeroPage \in Pages
  BY DEF Pages

-----------------------------------------------------------------------------
(* Numbers                                                                 *)

LEMMA Divides ==
    ASSUME NEW x \in Nat, NEW e \in Nat \ {0}
    PROVE  x \div e \in Nat /\ e * (x \div e) <= x /\ x < e * (x \div e) + e
  OBVIOUS

LEMMA TimesGrows ==
    ASSUME NEW a \in Nat, NEW b \in Nat, NEW e \in Nat, a <= b
    PROVE  a * e <= b * e /\ a * e \in Nat /\ b * e \in Nat
  OBVIOUS

LEMMA TimesNext ==
    ASSUME NEW a \in Int, NEW e \in Int
    PROVE  (a + 1) * e = a * e + e /\ a * (e + 1) = a * e + a
  OBVIOUS

LEMMA MinOfTwo ==
    ASSUME NEW a \in Int, NEW b \in Int
    PROVE  Min({a, b}) = IF a <= b THEN a ELSE b
<1>1. PICK x : x = IF a <= b THEN a ELSE b
  OBVIOUS
<1>2. x \in {a, b} /\ \A y \in {a, b} : x <= y
  BY <1>1
<1>3. \A z \in {a, b} : (\A y \in {a, b} : z <= y) => z = x
  BY <1>1
<1> QED
  BY <1>1, <1>2, <1>3 DEF Min

LEMMA MaxOfTwo ==
    ASSUME NEW a \in Int, NEW b \in Int
    PROVE  Max({a, b}) = IF a >= b THEN a ELSE b
<1>1. PICK x : x = IF a >= b THEN a ELSE b
  OBVIOUS
<1>2. x \in {a, b} /\ \A y \in {a, b} : x >= y
  BY <1>1
<1>3. \A z \in {a, b} : (\A y \in {a, b} : z >= y) => z = x
  BY <1>1
<1> QED
  BY <1>1, <1>2, <1>3 DEF Max

\* The containers that ContainersNeeded counts are enough for the free pages
\* that are left after taking them and the others.
LEMMA ContainersAreEnough ==
    ASSUME NEW free \in Nat, NEW others \in Nat, NEW c, c = ContainersNeeded(free, others)
    PROVE  /\ c \in Nat \ {0}
           /\ (IF free >= c THEN free - c ELSE 0) + others <= c * entriesPerPage
<1>1. PICK e : e = entriesPerPage
  OBVIOUS
<1>2. e \in Nat \ {0}
  BY <1>1, PageManagerAssumption
<1>3. PICK all \in Nat : all = free + others
  OBVIOUS
<1>4. PICK n : n = (all + e) \div (e + 1)
  OBVIOUS
<1>5. n \in Nat /\ (e + 1) * n <= all + e /\ all + e < (e + 1) * n + (e + 1)
  <2>1. PICK y, z : y = all + e /\ z = e + 1
    OBVIOUS
  <2>2. y \in Nat /\ z \in Nat \ {0} /\ n = y \div z
    BY <1>2, <1>3, <1>4, <2>1
  <2>3. n \in Nat /\ z * n <= y /\ y < z * n + z
    BY <2>2, Divides
  <2> QED
    BY <2>1, <2>3
<1>6. (e + 1) * n = n * e + n /\ n * e \in Nat
  BY <1>2, <1>5
<1>7. PICK more : more = (all - free * (e + 1) + e - 1) \div e
  OBVIOUS
<1>8. c = Max({1, IF n > free THEN free + more ELSE n})
  BY <1>1, <1>3, <1>4, <1>7 DEF ContainersNeeded
<1>9. CASE n > free
  <2>1. free * (e + 1) = free * e + free /\ free * e \in Nat
    BY <1>2
  <2>2. (free + 1) * e <= n * e /\ (free + 1) * e = free * e + e
    BY <1>2, <1>5, <1>9, TimesGrows, TimesNext
  <2>3. PICK x : x = all - free * (e + 1) + e - 1
    OBVIOUS
  <2>4. x = others - free * e + e - 1 /\ others > free * e /\ x \in Nat
    BY <1>2, <1>3, <1>5, <1>6, <1>9, <2>1, <2>2, <2>3
  <2>5. more \in Nat /\ e * more <= x /\ x < e * more + e
    BY <1>2, <1>7, <2>3, <2>4, Divides
  <2>6. c = free + more \/ (c = 1 /\ free + more = 0)
    BY <1>8, <1>9, <2>5, MaxOfTwo
  <2>7. others - free * e <= more * e
    BY <1>2, <2>1, <2>4, <2>5
  <2>8. (free + more) * e = free * e + more * e
    BY <1>2, <2>5
  <2>9. CASE c = free + more
    BY <1>1, <1>2, <2>1, <2>4, <2>5, <2>7, <2>8, <2>9
  <2>10. CASE c = 1 /\ free + more = 0
    BY <1>1, <1>2, <2>4, <2>5, <2>7, <2>8, <2>10
  <2> QED
    BY <2>6, <2>9, <2>10
<1>10. CASE ~(n > free)
  <2>1. c = IF 1 >= n THEN 1 ELSE n
    BY <1>5, <1>8, <1>10, MaxOfTwo
  <2>2. CASE n >= 1
    BY <1>1, <1>2, <1>3, <1>5, <1>6, <1>10, <2>1, <2>2
  <2>3. CASE n = 0
    BY <1>1, <1>2, <1>3, <1>5, <1>6, <2>1, <2>3
  <2> QED
    BY <1>5, <2>2, <2>3
<1> QED
  BY <1>9, <1>10

-----------------------------------------------------------------------------
(* Getting a free page                                                     *)

RangeOf(q) == {q[i] : i \in 1..Len(q)}

LEMMA SeqFacts ==
    ASSUME NEW q \in Seq(Nat)
    PROVE  /\ Len(q) \in Nat /\ DOMAIN q = 1..Len(q) /\ q \in [1..Len(q) -> Nat]
           /\ Range(q) = RangeOf(q) /\ Range(q) \subseteq Nat
           /\ \A i \in 1..Len(q) : q[i] \in Nat /\ q[i] \in Range(q)
           /\ IsInjective(q) <=> \A i, j \in 1..Len(q) : q[i] = q[j] => i = j
<1>1. Len(q) \in Nat /\ DOMAIN q = 1..Len(q) /\ q \in [1..Len(q) -> Nat]
  BY LenProperties
<1>2. Range(q) = RangeOf(q)
  BY <1>1 DEF Range, RangeOf
<1>3. IsInjective(q) <=> \A i, j \in 1..Len(q) : q[i] = q[j] => i = j
  BY <1>1 DEF IsInjective
<1> QED
  BY <1>1, <1>2, <1>3 DEF RangeOf

LEMMA FrontFacts ==
    ASSUME NEW q \in Seq(Nat), q # <<>>
    PROVE  /\ Len(q) > 0 /\ Front(q) \in Seq(Nat) /\ Len(Front(q)) = Len(q) - 1
           /\ \A i \in 1..Len(q) - 1 : Front(q)[i] = q[i]
           /\ Last(q) = q[Len(q)]
<1>1. PICK m : m = Len(q)
  OBVIOUS
<1>2. m \in Nat /\ m > 0
  BY <1>1, EmptySeq
<1>3. PICK k : k = m - 1
  OBVIOUS
<1>4. k \in Nat /\ 1 \in Int /\ k \in Int /\ \A i \in 1..k : q[i] \in Nat
  BY <1>1, <1>2, <1>3, SeqFacts
<1>5. /\ SubSeq(q, 1, k) \in Seq(Nat)
      /\ Len(SubSeq(q, 1, k)) = IF 1 <= k THEN k - 1 + 1 ELSE 0
      /\ \A i \in 1..k - 1 + 1 : SubSeq(q, 1, k)[i] = q[1 + i - 1]
  BY <1>4, SubSeqProperties
<1>6. Front(q) = SubSeq(q, 1, k)
  BY <1>1, <1>3 DEF Front
<1>7. Len(Front(q)) = k /\ \A i \in 1..k : Front(q)[i] = q[i]
  BY <1>4, <1>5, <1>6
<1> QED
  BY <1>1, <1>2, <1>3, <1>5, <1>6, <1>7 DEF Last

\* The free pages are below the pages never used, and named once.
Unused(s) ==
    /\ IsInjective(s.freePages) /\ Range(s.freePages) \subseteq Below(s.firstUnusedPage)
    /\ s.firstUnusedPage >= 2

LEMMA FrontIsUnused ==
    ASSUME NEW q \in Seq(Nat), q # <<>>, IsInjective(q)
    PROVE  /\ IsInjective(Front(q)) /\ Range(Front(q)) = Range(q) \ {Last(q)}
           /\ Last(q) \in Range(q)
<1>1. PICK m, r, x : m = Len(q) /\ r = Front(q) /\ x = Last(q)
  OBVIOUS
<1>2. /\ m \in Nat /\ m > 0 /\ r \in Seq(Nat) /\ Len(r) = m - 1 /\ x = q[m]
      /\ \A i \in 1..m - 1 : r[i] = q[i]
  BY <1>1, FrontFacts, SeqFacts
<1>3. \A i, j \in 1..m : q[i] = q[j] => i = j
  BY <1>1, SeqFacts
<1>4. Range(q) = {q[i] : i \in 1..m}
  BY <1>1, SeqFacts DEF RangeOf
<1>5. Range(r) = {r[i] : i \in 1..m - 1}
  BY <1>2, SeqFacts DEF RangeOf
<1>6. IsInjective(r)
  BY <1>2, <1>3, SeqFacts
<1>7. Range(r) = Range(q) \ {x}
  <2>1. ASSUME NEW y \in Range(r)
        PROVE  y \in Range(q) /\ y # x
    <3>1. PICK i \in 1..m - 1 : y = r[i]
      BY <1>5
    <3>2. i \in 1..m /\ m \in 1..m /\ y = q[i] /\ i # m
      BY <1>2, <3>1
    <3> QED
      BY <1>2, <1>3, <1>4, <3>2
  <2>2. ASSUME NEW y \in Range(q), y # x
        PROVE  y \in Range(r)
    <3>1. PICK i \in 1..m : y = q[i]
      BY <1>4
    <3>2. i \in 1..m - 1 /\ y = r[i]
      BY <1>2, <2>2, <3>1
    <3> QED
      BY <1>5, <3>2
  <2> QED
    BY <2>1, <2>2
<1>8. x \in Range(q)
  BY <1>2, <1>4
<1> QED
  BY <1>1, <1>6, <1>7, <1>8

\* The manager t after s gave the page p.
Gives(s, p, t) ==
    /\ t.pages = With(s.pages, p, ZeroPage) /\ t.editedPages = With(s.editedPages, p, p)
    /\ IsInjective(t.freePages) /\ p \notin Range(t.freePages) /\ p >= 2
    /\ Range(t.freePages) \subseteq Range(s.freePages)
    /\ Range(s.freePages) \subseteq Range(t.freePages) \cup {p}
    /\ Below(t.firstUnusedPage) = Below(s.firstUnusedPage) \cup {p}
    /\ t.firstUnusedPage >= s.firstUnusedPage
    /\ p \in Range(s.freePages) \/ p \notin Below(s.firstUnusedPage)

LEMMA GetsType ==
    ASSUME NEW s \in Managers
    PROVE  /\ FreePage(s) \in Nat /\ getFreePage(s) \in Managers
           /\ getFreePage(s).pages = With(s.pages, FreePage(s), ZeroPage)
           /\ getFreePage(s).editedPages = With(s.editedPages, FreePage(s), FreePage(s))
           /\ s.freePages # <<>> =>
                 /\ getFreePage(s).freePages = Front(s.freePages)
                 /\ getFreePage(s).firstUnusedPage = s.firstUnusedPage
           /\ s.freePages = <<>> =>
                 /\ getFreePage(s).freePages = <<>>
                 /\ getFreePage(s).firstUnusedPage = s.firstUnusedPage + 1
<1>1. /\ s.pages \in PageSets /\ s.freePages \in Seq(Nat) /\ s.firstUnusedPage \in Nat
      /\ s.nPages \in Nat /\ s.editedPages \in Edits
  BY ManagerFields
<1>2. FreePage(s) \in Nat
  <2>1. CASE s.freePages # <<>>
    <3>1. PICK q, m : q = s.freePages /\ m = Len(q)
      OBVIOUS
    <3>2. q \in Seq(Nat) /\ m \in Nat /\ m > 0 /\ Last(q) = q[m]
      BY <1>1, <2>1, <3>1, FrontFacts, SeqFacts
    <3>3. q[m] \in Nat
      BY <3>1, <3>2, SeqFacts
    <3> QED
      BY <2>1, <3>1, <3>2, <3>3 DEF FreePage
  <2>2. CASE s.freePages = <<>>
    BY <1>1, <2>2 DEF FreePage
  <2> QED
    BY <2>1, <2>2
<1>3. PICK p : p = FreePage(s)
  OBVIOUS
<1>4. PICK Q, E : Q = With(s.pages, p, ZeroPage) /\ E = With(s.editedPages, p, p)
  OBVIOUS
<1>5. Q \in PageSets /\ E \in Edits
  BY <1>1, <1>2, <1>3, <1>4, WithPage, WithEdit, ZeroIsAPage
<1>6. \A t \in Managers :
         t.pages = s.pages /\ t.editedPages = s.editedPages
         => Give(t, p) = [t EXCEPT !.pages = Q, !.editedPages = E]
  BY <1>4 DEF Give
<1>7. CASE s.freePages # <<>>
  <2>1. PICK f : f = Front(s.freePages)
    OBVIOUS
  <2>2. f \in Seq(Nat)
    BY <1>1, <1>7, <2>1, FrontFacts
  <2>3. PICK t : t = [s EXCEPT !.freePages = f]
    OBVIOUS
  <2>4. /\ t \in Managers /\ t.pages = s.pages /\ t.editedPages = s.editedPages
        /\ t.freePages = f /\ t.firstUnusedPage = s.firstUnusedPage
    BY <2>2, <2>3 DEF Managers
  <2>5. getFreePage(s) = Give(t, p)
    BY <1>3, <1>7, <2>1, <2>3 DEF getFreePage
  <2>6. getFreePage(s) = [t EXCEPT !.pages = Q, !.editedPages = E]
    BY <1>6, <2>4, <2>5
  <2>7. /\ getFreePage(s) \in Managers /\ getFreePage(s).pages = Q
        /\ getFreePage(s).editedPages = E /\ getFreePage(s).freePages = f
        /\ getFreePage(s).firstUnusedPage = s.firstUnusedPage
    BY <1>5, <2>4, <2>6 DEF Managers
  <2> QED
    BY <1>2, <1>3, <1>4, <1>7, <2>1, <2>7
<1>8. CASE s.freePages = <<>>
  <2>1. PICK u : u = IF s.firstUnusedPage = s.nPages THEN addFile(s) ELSE s
    OBVIOUS
  <2>2. /\ u \in Managers /\ u.pages = s.pages /\ u.editedPages = s.editedPages
        /\ u.freePages = <<>> /\ u.firstUnusedPage = s.firstUnusedPage
    BY <1>1, <1>8, <2>1, PageManagerAssumption DEF addFile, Managers
  <2>3. PICK t : t = [u EXCEPT !.firstUnusedPage = @ + 1]
    OBVIOUS
  <2>4. /\ t \in Managers /\ t.pages = s.pages /\ t.editedPages = s.editedPages
        /\ t.freePages = <<>> /\ t.firstUnusedPage = s.firstUnusedPage + 1
    BY <1>1, <2>2, <2>3 DEF Managers
  <2>5. getFreePage(s) = Give(t, p)
    BY <1>3, <1>8, <2>1, <2>3 DEF getFreePage
  <2>6. getFreePage(s) = [t EXCEPT !.pages = Q, !.editedPages = E]
    BY <1>6, <2>4, <2>5
  <2>7. /\ getFreePage(s) \in Managers /\ getFreePage(s).pages = Q
        /\ getFreePage(s).editedPages = E /\ getFreePage(s).freePages = <<>>
        /\ getFreePage(s).firstUnusedPage = s.firstUnusedPage + 1
    BY <1>5, <2>4, <2>6 DEF Managers
  <2> QED
    BY <1>2, <1>3, <1>4, <1>8, <2>7
<1> QED
  BY <1>7, <1>8

LEMMA GetsFree ==
    ASSUME NEW s \in Managers, Unused(s)
    PROVE  Gives(s, FreePage(s), getFreePage(s)) /\ Unused(getFreePage(s))
<1>1. PICK p, t : p = FreePage(s) /\ t = getFreePage(s)
  OBVIOUS
<1>2. PICK n : n = s.firstUnusedPage
  OBVIOUS
<1>3. n \in Nat /\ n >= 2 /\ s.freePages \in Seq(Nat) /\ p \in Nat
  BY <1>1, <1>2, ManagerFields, GetsType DEF Unused
<1>4. t.pages = With(s.pages, p, ZeroPage) /\ t.editedPages = With(s.editedPages, p, p)
  BY <1>1, GetsType
<1>5. IsInjective(s.freePages) /\ Range(s.freePages) \subseteq Below(n)
  BY <1>2 DEF Unused
<1>6. CASE s.freePages # <<>>
  <2>1. t.freePages = Front(s.freePages) /\ t.firstUnusedPage = n /\ p = Last(s.freePages)
    BY <1>1, <1>2, <1>6, GetsType DEF FreePage
  <2>2. /\ IsInjective(t.freePages) /\ Range(t.freePages) = Range(s.freePages) \ {p}
        /\ p \in Range(s.freePages)
    BY <1>3, <1>5, <1>6, <2>1, FrontIsUnused
  <2>3. p \in Below(n) /\ p >= 2
    BY <1>3, <1>5, <2>2 DEF Below
  <2> QED
    BY <1>1, <1>2, <1>3, <1>4, <1>5, <2>1, <2>2, <2>3 DEF Gives, Unused
<1>7. CASE s.freePages = <<>>
  <2>1. t.freePages = <<>> /\ t.firstUnusedPage = n + 1 /\ p = n
    BY <1>1, <1>2, <1>7, GetsType DEF FreePage
  <2>2. Range(t.freePages) = {} /\ Range(s.freePages) = {} /\ IsInjective(t.freePages)
    BY <1>5, <1>7, <2>1 DEF Range
  <2>3. p >= 2 /\ p \notin Below(n) /\ Below(n + 1) = Below(n) \cup {p} /\ n + 1 >= 2
    BY <1>3, <2>1 DEF Below
  <2> QED
    BY <1>1, <1>2, <1>3, <1>4, <2>1, <2>2, <2>3 DEF Gives, Unused
<1> QED
  BY <1>1, <1>6, <1>7

-----------------------------------------------------------------------------
(* Taking several free pages                                               *)

LEMMA AppendFacts ==
    ASSUME NEW q \in Seq(Nat), NEW x \in Nat
    PROVE  /\ Append(q, x) \in Seq(Nat) /\ Len(Append(q, x)) = Len(q) + 1
           /\ Range(Append(q, x)) = Range(q) \cup {x}
           /\ (IsInjective(q) /\ x \notin Range(q)) => IsInjective(Append(q, x))
<1>1. PICK m, r : m = Len(q) /\ r = Append(q, x)
  OBVIOUS
<1>2. /\ m \in Nat /\ r \in Seq(Nat) /\ Len(r) = m + 1 /\ r[m + 1] = x
      /\ \A i \in 1..m : r[i] = q[i]
  BY <1>1, AppendProperties, SeqFacts
<1>3. Range(q) = {q[i] : i \in 1..m} /\ Range(r) = {r[i] : i \in 1..m + 1}
  BY <1>1, <1>2, SeqFacts DEF RangeOf
<1>4. 1..m + 1 = (1..m) \cup {m + 1}
  BY <1>2
<1>5. Range(r) = Range(q) \cup {x}
  <2>1. {r[i] : i \in 1..m + 1} = {r[i] : i \in 1..m} \cup {r[m + 1]}
    BY <1>4
  <2>2. {r[i] : i \in 1..m} = {q[i] : i \in 1..m}
    BY <1>2
  <2> QED
    BY <1>2, <1>3, <2>1, <2>2
<1>6. ASSUME IsInjective(q), x \notin Range(q)
      PROVE  IsInjective(r)
  <2>1. \A i, j \in 1..m : q[i] = q[j] => i = j
    BY <1>1, <1>6, SeqFacts
  <2>2. \A i \in 1..m : q[i] # x
    BY <1>3, <1>6
  <2>3. \A i, j \in 1..m + 1 : r[i] = r[j] => i = j
    BY <1>2, <1>4, <2>1, <2>2
  <2> QED
    BY <1>2, <2>3, SeqFacts
<1> QED
  BY <1>1, <1>2, <1>5, <1>6

Taking == [s : Managers, taken : Seq(Nat)]
TakeOne(r) == [s |-> getFreePage(r.s), taken |-> Append(r.taken, FreePage(r.s))]

\* r is the manager after s gave n pages, and the pages.
Taken(s, n, r) ==
    /\ r \in Taking /\ Unused(r.s)
    /\ Len(r.taken) = n /\ IsInjective(r.taken)
    /\ Len(r.s.freePages) = IF Len(s.freePages) >= n THEN Len(s.freePages) - n ELSE 0
    /\ Range(r.taken) \cap Range(r.s.freePages) = {}
    /\ Range(r.s.freePages) \subseteq Range(s.freePages)
    /\ Range(s.freePages) \subseteq Range(r.s.freePages) \cup Range(r.taken)
    /\ Below(r.s.firstUnusedPage) = Below(s.firstUnusedPage) \cup Range(r.taken)
    /\ Range(r.taken) \cap Below(s.firstUnusedPage) \subseteq Range(s.freePages)
    /\ r.s.firstUnusedPage >= s.firstUnusedPage
    /\ DOMAIN r.s.pages = DOMAIN s.pages \cup Range(r.taken)
    /\ \A p \in DOMAIN s.pages : p \notin Range(r.taken) => r.s.pages[p] = s.pages[p]
    /\ DOMAIN s.editedPages \subseteq DOMAIN r.s.editedPages

LEMMA TakeNone ==
    ASSUME NEW s \in Managers, Unused(s)
    PROVE  Taken(s, 0, [s |-> s, taken |-> <<>>])
<1>1. <<>> \in Seq(Nat) /\ Len(<<>>) = 0 /\ Range(<<>>) = {} /\ IsInjective(<<>>)
  BY EmptySeq, SeqFacts DEF Range, IsInjective
<1>2. s.freePages \in Seq(Nat) /\ Len(s.freePages) \in Nat /\ s.firstUnusedPage \in Nat
  BY ManagerFields, SeqFacts
<1>3. PICK r : r = [s |-> s, taken |-> <<>>]
  OBVIOUS
<1>4. r \in Taking /\ r.s = s /\ r.taken = <<>>
  BY <1>1, <1>3 DEF Taking
<1> QED
  BY <1>1, <1>2, <1>3, <1>4 DEF Taken

LEMMA TakesOne ==
    ASSUME NEW r \in Taking
    PROVE  TakeOne(r) \in Taking
<1>1. r.s \in Managers /\ r.taken \in Seq(Nat)
  BY DEF Taking
<1>2. getFreePage(r.s) \in Managers /\ FreePage(r.s) \in Nat
  BY <1>1, GetsType
<1>3. Append(r.taken, FreePage(r.s)) \in Seq(Nat)
  BY <1>1, <1>2, AppendFacts
<1> QED
  BY <1>2, <1>3 DEF TakeOne, Taking

LEMMA TakesAnother ==
    ASSUME NEW s \in Managers, Unused(s), NEW n \in Nat, NEW r, Taken(s, n, r)
    PROVE  Taken(s, n + 1, TakeOne(r))
<1>1. PICK u, v : u = TakeOne(r) /\ v = r.s
  OBVIOUS
<1>2. PICK p, t : p = FreePage(v) /\ t = getFreePage(v)
  OBVIOUS
<1>3. r \in Taking /\ v \in Managers /\ r.taken \in Seq(Nat) /\ Unused(v)
  BY <1>1 DEF Taken, Taking
<1>4. u \in Taking /\ u.s = t /\ u.taken = Append(r.taken, p) /\ p \in Nat /\ t \in Managers
  BY <1>1, <1>2, <1>3, TakesOne, GetsType DEF TakeOne
<1>5. Gives(v, p, t) /\ Unused(t)
  BY <1>2, <1>3, GetsFree
<1>6. PICK R, R2 : R = Range(r.taken) /\ R2 = Range(u.taken)
  OBVIOUS
<1>7. p \notin R
  <2>1. CASE p \in Range(v.freePages)
    BY <1>1, <1>6, <2>1 DEF Taken
  <2>2. CASE p \notin Below(v.firstUnusedPage)
    BY <1>1, <1>6, <2>2 DEF Taken
  <2> QED
    BY <1>5, <2>1, <2>2 DEF Gives
<1>8. Len(u.taken) = n + 1 /\ R2 = R \cup {p} /\ IsInjective(u.taken)
  BY <1>3, <1>4, <1>6, <1>7, AppendFacts DEF Taken
<1>9. Len(t.freePages) = IF Len(s.freePages) >= n + 1 THEN Len(s.freePages) - (n + 1) ELSE 0
  <2>1. /\ v.freePages \in Seq(Nat) /\ Len(v.freePages) \in Nat
        /\ s.freePages \in Seq(Nat) /\ Len(s.freePages) \in Nat
    BY <1>3, ManagerFields, SeqFacts
  <2>2. Len(v.freePages) = IF Len(s.freePages) >= n THEN Len(s.freePages) - n ELSE 0
    BY <1>1 DEF Taken
  <2>3. CASE v.freePages # <<>>
    <3>1. t.freePages = Front(v.freePages)
      BY <1>2, <1>3, <2>3, GetsType
    <3>2. Len(v.freePages) > 0 /\ Len(t.freePages) = Len(v.freePages) - 1
      BY <2>1, <2>3, <3>1, FrontFacts
    <3> QED
      BY <2>1, <2>2, <3>2
  <2>4. CASE v.freePages = <<>>
    <3>1. t.freePages = <<>>
      BY <1>2, <1>3, <2>4, GetsType
    <3>2. Len(v.freePages) = 0 /\ Len(t.freePages) = 0
      BY <2>4, <3>1, EmptySeq
    <3> QED
      BY <2>1, <2>2, <3>2
  <2> QED
    BY <2>3, <2>4
<1>10. /\ R2 \cap Range(t.freePages) = {} /\ Range(t.freePages) \subseteq Range(s.freePages)
       /\ Range(s.freePages) \subseteq Range(t.freePages) \cup R2
       /\ Below(t.firstUnusedPage) = Below(s.firstUnusedPage) \cup R2
       /\ R2 \cap Below(s.firstUnusedPage) \subseteq Range(s.freePages)
  BY <1>1, <1>5, <1>6, <1>8 DEF Taken, Gives
<1>11. t.firstUnusedPage >= s.firstUnusedPage
  <2>1. t.firstUnusedPage \in Nat /\ v.firstUnusedPage \in Nat /\ s.firstUnusedPage \in Nat
    BY <1>3, <1>4, ManagerFields
  <2>2. t.firstUnusedPage >= v.firstUnusedPage /\ v.firstUnusedPage >= s.firstUnusedPage
    BY <1>1, <1>5 DEF Gives, Taken
  <2> QED
    BY <2>1, <2>2
<1>12. /\ DOMAIN t.pages = DOMAIN v.pages \cup {p}
       /\ \A q \in DOMAIN v.pages : q # p => t.pages[q] = v.pages[q]
       /\ DOMAIN t.editedPages = DOMAIN v.editedPages \cup {p}
  <2>1. t.pages = With(v.pages, p, ZeroPage) /\ t.editedPages = With(v.editedPages, p, p)
    BY <1>5 DEF Gives
  <2>2. /\ DOMAIN t.pages = DOMAIN v.pages \cup {p}
        /\ \A q \in DOMAIN v.pages : q # p => t.pages[q] = v.pages[q]
    BY <2>1 DEF With
  <2>3. DOMAIN t.editedPages = DOMAIN v.editedPages \cup {p}
    BY <2>1 DEF With
  <2> QED
    BY <2>2, <2>3
<1>13. /\ DOMAIN t.pages = DOMAIN s.pages \cup R2
       /\ \A q \in DOMAIN s.pages : q \notin R2 => t.pages[q] = s.pages[q]
       /\ DOMAIN s.editedPages \subseteq DOMAIN t.editedPages
  BY <1>1, <1>6, <1>8, <1>12 DEF Taken
<1> QED
  BY <1>1, <1>4, <1>5, <1>6, <1>8, <1>9, <1>10, <1>11, <1>13 DEF Taken

\* What TakePages gives, by the existence of the recursive function in it.
LEMMA TakesIs ==
    ASSUME NEW s \in Managers, Unused(s), NEW n \in Nat
    PROVE  Taken(s, n, TakePages(s, n))
<1>1. PICK none : none = [s |-> s, taken |-> <<>>]
  OBVIOUS
<1>2. Taken(s, 0, none) /\ none \in Taking
  BY <1>1, TakeNone DEF Taken
<1> DEFINE G == [x \in Taking \X (1..n) |-> TakeOne(x[1])]
<1>3. G \in [Taking \X (1..n) -> Taking]
  BY TakesOne
<1>4. PICK f \in [0..n -> Taking] : Iterates(f, n, none, G)
  <2> HIDE DEF G
  <2> QED
    BY <1>2, <1>3, IterationExists
<1>5. f = [i \in 0..n |-> IF i = 0 THEN none ELSE TakeOne(f[i - 1])]
  <2>1. ASSUME NEW i \in 0..n
        PROVE  f[i] = IF i = 0 THEN none ELSE TakeOne(f[i - 1])
    <3>1. CASE i = 0
      BY <1>4, <3>1 DEF Iterates
    <3>2. CASE i # 0
      <4>1. i \in 1..n /\ i - 1 \in 0..n /\ f[i - 1] \in Taking
        BY <3>2
      <4>2. f[i] = G[<<f[i - 1], i>>]
        BY <1>4, <4>1 DEF Iterates
      <4> QED
        BY <3>2, <4>1, <4>2
    <3> QED
      BY <3>1, <3>2
  <2> QED
    BY <1>4, <2>1
<1> HIDE DEF G
<1>6. PICK h : h = CHOOSE u : u = [i \in 0..n |-> IF i = 0 THEN none ELSE TakeOne(u[i - 1])]
  OBVIOUS
<1>7. h = [i \in 0..n |-> IF i = 0 THEN none ELSE TakeOne(h[i - 1])]
  BY <1>5, <1>6
<1>8. \A i \in 0..n : Taken(s, i, h[i])
  <2> DEFINE U == {i \in 0..n : ~Taken(s, i, h[i])}
  <2>1. 0 \notin U
    BY <1>2, <1>7
  <2>2. ASSUME NEW l \in 0..n, 0 < l, l - 1 \notin U
        PROVE  l \notin U
    <3>1. l # 0 /\ l - 1 \in 0..n /\ l - 1 \in Nat /\ (l - 1) + 1 = l
      BY <2>2
    <3>2. h[l] = TakeOne(h[l - 1])
      BY <1>7, <3>1
    <3>3. Taken(s, l - 1, h[l - 1])
      BY <2>2, <3>1
    <3>4. Taken(s, (l - 1) + 1, TakeOne(h[l - 1]))
      BY <3>1, <3>3, TakesAnother
    <3> QED
      BY <3>1, <3>2, <3>4
  <2>3. U \in SUBSET (0..n) /\ 0 \in Int /\ n \in Int
    OBVIOUS
  <2>4. U = {}
    <3> HIDE DEF U
    <3> QED
      BY <2>1, <2>2, <2>3, UpFrom
  <2> QED
    BY <2>4
<1>9. TakePages(s, n) = h[n]
  BY <1>1, <1>6 DEF TakePages, TakeOne
<1> QED
  BY <1>8, <1>9

-----------------------------------------------------------------------------
(* Writing the list                                                        *)

LEMMA ReverseFacts ==
    ASSUME NEW q \in Seq(Nat)
    PROVE  /\ Reverse(q) \in Seq(Nat) /\ Len(Reverse(q)) = Len(q)
           /\ \A i \in 1..Len(q) : Reverse(q)[i] = q[(Len(q) - i) + 1]
           /\ Range(Reverse(q)) = Range(q)
           /\ IsInjective(q) => IsInjective(Reverse(q))
<1>1. PICK m, r : m = Len(q) /\ r = Reverse(q)
  OBVIOUS
<1>2. m \in Nat /\ r = [i \in 1..m |-> q[(m - i) + 1]] /\ \A i \in 1..m : q[i] \in Nat
  BY <1>1, SeqFacts DEF Reverse
<1>3. r \in [1..m -> Nat]
  BY <1>2
<1>4. r \in Seq(Nat) /\ Len(r) = m
  <2>1. r \in Seq(Nat)
    BY <1>2, <1>3, SeqDef
  <2>2. DOMAIN r = 1..m /\ DOMAIN r = 1..Len(r) /\ Len(r) \in Nat
    BY <1>2, <2>1, SeqFacts
  <2> QED
    BY <1>2, <2>1, <2>2
<1>5. Range(r) = {r[i] : i \in 1..m} /\ Range(q) = {q[i] : i \in 1..m}
  BY <1>1, <1>4, SeqFacts DEF RangeOf
<1>6. \A i \in 1..m : (m - i) + 1 \in 1..m /\ (m - ((m - i) + 1)) + 1 = i
  BY <1>2
<1>7. \A i \in 1..m : r[i] = q[(m - i) + 1] /\ q[i] = r[(m - i) + 1]
  BY <1>2, <1>6
<1>8. Range(r) = Range(q)
  <2>1. Range(r) \subseteq Range(q)
    BY <1>5, <1>6, <1>7
  <2>2. Range(q) \subseteq Range(r)
    BY <1>5, <1>6, <1>7
  <2> QED
    BY <2>1, <2>2
<1>9. ASSUME IsInjective(q)
      PROVE  IsInjective(r)
  <2>1. \A i, j \in 1..m : q[i] = q[j] => i = j
    BY <1>1, <1>9, SeqFacts
  <2>2. ASSUME NEW i \in 1..m, NEW j \in 1..m, r[i] = r[j]
        PROVE  i = j
    <3>1. (m - i) + 1 = (m - j) + 1
      BY <1>6, <1>7, <2>1, <2>2
    <3> QED
      BY <1>2, <3>1
  <2> QED
    BY <1>4, <2>2, SeqFacts
<1> QED
  BY <1>1, <1>4, <1>7, <1>8, <1>9

\* The place, among all the entries, of the entry a of the page i of a list.
Slot(e, i, a) == (i - 1) * e + a

LEMMA OneEntry ==
    ASSUME NEW e \in Nat \ {0}, NEW i \in Nat \ {0}, NEW j \in Nat \ {0},
           NEW a \in 1..e, NEW b \in 1..e, Slot(e, i, a) = Slot(e, j, b)
    PROVE  i = j /\ a = b
<1>1. ASSUME NEW x \in Nat \ {0}, NEW y \in Nat \ {0}, NEW c \in 1..e, NEW d \in 1..e, x < y
      PROVE  (x - 1) * e + c # (y - 1) * e + d
  <2>1. x * e <= (y - 1) * e /\ x * e \in Nat /\ (y - 1) * e \in Nat
    BY <1>1, TimesGrows
  <2>2. ((x - 1) + 1) * e = (x - 1) * e + e /\ (x - 1) + 1 = x /\ (x - 1) * e \in Int
    BY TimesNext
  <2> QED
    BY <2>1, <2>2
<1>2. (i - 1) * e + a = (j - 1) * e + b
  BY DEF Slot
<1>3. i = j
  BY <1>1, <1>2
<1>4. (i - 1) * e \in Int
  OBVIOUS
<1> QED
  BY <1>2, <1>3, <1>4

LEMMA EntryOf ==
    ASSUME NEW e \in Nat \ {0}, NEW k \in Nat, NEW n \in Nat \ {0}, n <= k * e
    PROVE  \E i \in 1..k : (i - 1) * e < n /\ n <= i * e
<1> DEFINE T == {i \in Nat : n <= i * e}
<1>1. T \in SUBSET Nat /\ k \in T
  OBVIOUS
<1>2. PICK i \in T : \A x \in T : i <= x
  BY <1>1, SmallestNumber
<1>3. i \in Nat /\ n <= i * e /\ i <= k
  BY <1>1, <1>2
<1>4. i # 0
  <2>1. SUFFICES ASSUME i = 0 PROVE FALSE
    OBVIOUS
  <2>2. i * e = 0
    BY <2>1
  <2> QED
    BY <1>3, <2>2
<1>5. i - 1 \in Nat /\ ~(i <= i - 1)
  BY <1>3, <1>4
<1>6. ~(n <= (i - 1) * e)
  BY <1>2, <1>5
<1>7. (i - 1) * e \in Nat
  BY <1>5, TimesGrows
<1> QED
  BY <1>3, <1>4, <1>6, <1>7

\* The entries of the page i of a list, from all of them.
Entries(q, e, i) == SubSeq(q, (i - 1) * e + 1, Min({i * e, Len(q)}))

LEMMA EntriesAre ==
    ASSUME NEW q \in Seq(Nat), NEW e \in Nat \ {0}, NEW i \in Nat \ {0}
    PROVE  /\ Entries(q, e, i) \in Seq(Nat)
           /\ \A a \in 1..Len(Entries(q, e, i)) :
                 /\ a <= e /\ (i - 1) * e + a \in 1..Len(q)
                 /\ Entries(q, e, i)[a] = q[(i - 1) * e + a]
           /\ \A n \in 1..Len(q) : ((i - 1) * e < n /\ n <= i * e) =>
                 \E a \in 1..Len(Entries(q, e, i)) : Entries(q, e, i)[a] = q[n]
<1>1. PICK m, E : m = Len(q) /\ E = Entries(q, e, i)
  OBVIOUS
<1>2. PICK lo, up : lo = (i - 1) * e /\ up = i * e
  OBVIOUS
<1>3. lo \in Nat /\ up \in Nat /\ up = lo + e /\ m \in Nat
  <2>1. i - 1 \in Nat /\ (i - 1) + 1 = i
    OBVIOUS
  <2>2. (i - 1) * e \in Nat /\ ((i - 1) + 1) * e = (i - 1) * e + e
    BY <2>1, TimesGrows, TimesNext
  <2> QED
    BY <1>1, <1>2, <2>1, <2>2, SeqFacts
<1>4. PICK hi : hi = IF up <= m THEN up ELSE m
  OBVIOUS
<1>5. hi \in Nat /\ hi <= m /\ hi <= up /\ \A n \in 1..m : n <= up => n <= hi
  BY <1>3, <1>4
<1>6. E = SubSeq(q, lo + 1, hi)
  <2>1. Min({up, m}) = hi
    BY <1>3, <1>4, MinOfTwo
  <2> QED
    BY <1>1, <1>2, <2>1 DEF Entries
<1>7. PICK g : g = lo + 1
  OBVIOUS
<1>8. g \in Int /\ hi \in Int /\ \A a \in g..hi : q[a] \in Nat
  BY <1>1, <1>3, <1>5, <1>7, SeqFacts
<1>9. /\ SubSeq(q, g, hi) \in Seq(Nat)
      /\ Len(SubSeq(q, g, hi)) = IF g <= hi THEN hi - g + 1 ELSE 0
      /\ \A a \in 1..hi - g + 1 : SubSeq(q, g, hi)[a] = q[g + a - 1]
  BY <1>8, SubSeqProperties
<1>10. /\ E \in Seq(Nat) /\ Len(E) = IF lo < hi THEN hi - lo ELSE 0
       /\ \A a \in 1..hi - lo : E[a] = q[lo + a]
  BY <1>3, <1>5, <1>6, <1>7, <1>9
<1>11. ASSUME NEW a \in 1..Len(E)
       PROVE  a <= e /\ lo + a \in 1..m /\ E[a] = q[lo + a]
  <2>1. Len(E) \in Nat /\ a \in Nat /\ a >= 1 /\ a <= Len(E)
    BY <1>3, <1>5, <1>10
  <2>2. lo < hi /\ Len(E) = hi - lo
    BY <1>3, <1>5, <1>10, <2>1
  <2>3. a \in 1..hi - lo
    BY <1>3, <1>5, <2>1, <2>2
  <2>4. a <= e /\ lo + a \in 1..m
    BY <1>3, <1>5, <2>1, <2>2
  <2> QED
    BY <1>10, <2>3, <2>4
<1>12. ASSUME NEW n \in 1..m, lo < n, n <= up
       PROVE  \E a \in 1..Len(E) : E[a] = q[n]
  <2>1. n - lo \in 1..Len(E) /\ n - lo \in 1..hi - lo /\ lo + (n - lo) = n
    <3>1. n \in Nat /\ n <= hi /\ lo < n /\ lo < hi
      <4>1. n \in Nat /\ n <= m /\ lo < n /\ n <= up
        BY <1>3, <1>12
      <4> QED
        BY <1>3, <1>4, <4>1
    <3>2. Len(E) = hi - lo
      BY <1>10, <3>1
    <3> QED
      BY <1>3, <1>5, <3>1, <3>2
  <2> QED
    BY <1>10, <2>1
<1> QED
  BY <1>1, <1>2, <1>10, <1>11, <1>12

\* The page i of the list that CreatePages writes.
NewListPage(free, C, i) ==
    LET q == Entries(Reverse(free), entriesPerPage, i)
    IN  ListPage(IF i = Len(C) THEN 0 ELSE C[i + 1], q,
                 IF q = <<>> THEN 0 ELSE Len(q) - 1)

LEMMA NewListPageIs ==
    ASSUME NEW free \in Seq(Nat), NEW C \in Seq(Nat), NEW i \in 1..Len(C)
    PROVE  /\ NewListPage(free, C, i) \in ListPages
           /\ NewListPage(free, C, i).entries = Entries(Reverse(free), entriesPerPage, i)
           /\ NewListPage(free, C, i).previous = IF i = Len(C) THEN 0 ELSE C[i + 1]
           /\ NewListPage(free, C, i).stored <= Len(NewListPage(free, C, i).entries)
<1>1. PICK q, page : q = Entries(Reverse(free), entriesPerPage, i)
                     /\ page = NewListPage(free, C, i)
  OBVIOUS
<1>2. i \in Nat \ {0} /\ entriesPerPage \in Nat \ {0} /\ Reverse(free) \in Seq(Nat)
  BY PageManagerAssumption, ReverseFacts, SeqFacts
<1>3. q \in Seq(Nat)
  BY <1>1, <1>2, EntriesAre
<1>4. PICK previous, stored : /\ previous = IF i = Len(C) THEN 0 ELSE C[i + 1]
                              /\ stored = IF q = <<>> THEN 0 ELSE Len(q) - 1
  OBVIOUS
<1>5. previous \in Nat
  <2>1. CASE i # Len(C)
    <3>1. i + 1 \in 1..Len(C)
      BY <2>1, SeqFacts
    <3> QED
      BY <1>4, <2>1, <3>1, SeqFacts
  <2> QED
    BY <1>4, <2>1
<1>6. stored \in Nat /\ stored <= Len(q)
  BY <1>3, <1>4, EmptySeq, SeqFacts
<1>7. page = [kind |-> "list", previous |-> previous, entries |-> q, stored |-> stored]
  BY <1>1, <1>4 DEF NewListPage, ListPage
<1> QED
  BY <1>1, <1>3, <1>4, <1>5, <1>6, <1>7 DEF ListPages

LEMMA CreatesPoints ==
    ASSUME NEW P \in PageSets, NEW free \in Seq(Nat), NEW C \in Seq(Nat), IsInjective(C)
    PROVE  /\ CreatePages(P, free, C) \in PageSets
           /\ DOMAIN CreatePages(P, free, C) = DOMAIN P \cup Range(C)
           /\ \A p \in DOMAIN P : p \notin Range(C) => CreatePages(P, free, C)[p] = P[p]
           /\ \A i \in 1..Len(C) : CreatePages(P, free, C)[C[i]] = NewListPage(free, C, i)
<1> DEFINE Q == CreatePages(P, free, C)
<1> DEFINE index(p) == CHOOSE i \in DOMAIN C : C[i] = p
<1>1. DOMAIN C = 1..Len(C) /\ Len(C) \in Nat /\ Range(C) \subseteq Nat
  BY SeqFacts
<1>2. \A i \in 1..Len(C) : index(C[i]) = i /\ C[i] \in Range(C)
  BY <1>1, SeqFacts
<1>3. Q = [p \in DOMAIN P \cup Range(C) |->
              IF p \notin Range(C) THEN P[p] ELSE NewListPage(free, C, index(p))]
  BY DEF CreatePages, NewListPage, Entries
<1> HIDE DEF Q
<1>4. \A i \in 1..Len(C) : Q[C[i]] = NewListPage(free, C, i)
  <2> HIDE DEF index
  <2> QED
    BY <1>2, <1>3
<1>5. \A p \in Range(C) : \E i \in 1..Len(C) : p = C[i]
  BY SeqFacts DEF RangeOf
<1> HIDE DEF index
<1>6. \A p \in DOMAIN P \cup Range(C) : Q[p] \in Pages
  <2>1. ASSUME NEW p \in DOMAIN P, p \notin Range(C)
        PROVE  Q[p] \in Pages
    BY <1>3, <2>1, PagesAre
  <2>2. ASSUME NEW p \in Range(C)
        PROVE  Q[p] \in Pages
    <3>1. PICK i \in 1..Len(C) : p = C[i]
      BY <1>5
    <3>2. Q[p] \in ListPages
      BY <1>4, <3>1, NewListPageIs
    <3> QED
      BY <3>2 DEF Pages
  <2> QED
    BY <2>1, <2>2
<1>7. DOMAIN P \cup Range(C) \in Finite
  <2>1. IsFiniteSet(Range(C))
    <3>1. IsFiniteSet(DOMAIN C)
      BY <1>1, FS_Interval
    <3>2. C \in Surjection(DOMAIN C, Range(C))
      BY <1>1, SeqFacts DEF Surjection, Range
    <3> QED
      BY <3>1, <3>2, FS_Surjection
  <2>2. DOMAIN P \in SUBSET Nat /\ IsFiniteSet(DOMAIN P)
    BY PagesAre
  <2> QED
    BY <1>1, <2>1, <2>2, FS_Union DEF Finite
<1>8. Q \in [DOMAIN P \cup Range(C) -> Pages]
  BY <1>3, <1>6
<1> QED
  BY <1>3, <1>4, <1>7, <1>8 DEF PageSets, Q

LEMMA CreatesChain ==
    ASSUME NEW P \in PageSets, NEW free \in Seq(Nat), NEW C \in Seq(Nat), IsInjective(C),
           Len(C) > 0, ReadPage(P, 0).kind # "list", 0 \notin Range(C)
    PROVE  Chain(CreatePages(P, free, C), C[1], Reverse(C))
<1>1. PICK k, R, Q : k = Len(C) /\ R = Reverse(C) /\ Q = CreatePages(P, free, C)
  OBVIOUS
<1>0. /\ DOMAIN Q = DOMAIN P \cup Range(C)
      /\ \A p \in DOMAIN P : p \notin Range(C) => Q[p] = P[p]
      /\ \A i \in 1..k : Q[C[i]] = NewListPage(free, C, i)
  <2>1. DOMAIN CreatePages(P, free, C) = DOMAIN P \cup Range(C)
    BY CreatesPoints
  <2>2. \A p \in DOMAIN P : p \notin Range(C) => CreatePages(P, free, C)[p] = P[p]
    BY CreatesPoints
  <2>3. \A i \in 1..Len(C) : CreatePages(P, free, C)[C[i]] = NewListPage(free, C, i)
    BY CreatesPoints
  <2> QED
    BY <1>1, <2>1, <2>2, <2>3
<1>2. /\ k \in Nat /\ k > 0 /\ R \in Seq(Nat) /\ Len(R) = k
      /\ \A i \in 1..k : R[i] = C[(k - i) + 1]
  BY <1>1, ReverseFacts, SeqFacts
<1>3. \A i \in 1..k : C[i] \in Range(C) /\ Q[C[i]] = NewListPage(free, C, i) /\ C[i] \in DOMAIN Q
  BY <1>0, <1>1, SeqFacts
<1>4. R[Len(R)] = C[1]
  BY <1>2
<1>5. ASSUME NEW i \in 1..k
      PROVE  /\ R[i] \in DOMAIN Q /\ Q[R[i]] \in ListPages
             /\ Q[R[i]].stored <= Len(Q[R[i]].entries)
             /\ Q[R[i]].previous = IF i = 1 THEN 0 ELSE R[i - 1]
  <2>1. PICK j : j = (k - i) + 1
    OBVIOUS
  <2>2. j \in 1..k /\ R[i] = C[j] /\ (j = k <=> i = 1)
    BY <1>2, <2>1
  <2>3. Q[R[i]] = NewListPage(free, C, j) /\ R[i] \in DOMAIN Q
    BY <1>3, <2>2
  <2>4. /\ Q[R[i]] \in ListPages /\ Q[R[i]].stored <= Len(Q[R[i]].entries)
        /\ Q[R[i]].previous = IF j = k THEN 0 ELSE C[j + 1]
    BY <1>1, <2>2, <2>3, NewListPageIs
  <2>5. CASE i = 1
    BY <2>2, <2>3, <2>4, <2>5
  <2>6. CASE i # 1
    <3>1. i - 1 \in 1..k /\ (k - (i - 1)) + 1 = j + 1
      BY <1>2, <2>1, <2>6
    <3>2. R[i - 1] = C[j + 1]
      BY <1>2, <3>1
    <3> QED
      BY <2>2, <2>3, <2>4, <2>6, <3>2
  <2> QED
    BY <2>5, <2>6
<1>6. \A i, j \in 1..k : R[i] = R[j] => i = j
  <2>1. IsInjective(R)
    BY <1>1, ReverseFacts
  <2> QED
    BY <1>2, <2>1, SeqFacts
<1>7. ReadPage(Q, 0).kind # "list"
  BY <1>0 DEF ReadPage
<1> QED
  BY <1>1, <1>2, <1>4, <1>5, <1>6, <1>7 DEF Chain

\* The new list names every free page, once.
LEMMA CreatesList ==
    ASSUME NEW P \in PageSets, NEW free \in Seq(Nat), NEW C \in Seq(Nat), IsInjective(C),
           IsInjective(free), Len(free) <= Len(C) * entriesPerPage
    PROVE  /\ Listed(CreatePages(P, free, C), Reverse(C)) = Range(free)
           /\ ListedOnce(CreatePages(P, free, C), Reverse(C))
<1>1. PICK k, R, Q : k = Len(C) /\ R = Reverse(C) /\ Q = CreatePages(P, free, C)
  OBVIOUS
<1>2. /\ k \in Nat /\ R \in Seq(Nat) /\ Len(R) = k
      /\ \A i \in 1..k : R[i] = C[(k - i) + 1]
  BY <1>1, ReverseFacts, SeqFacts
<1>3. PICK e, q, m : e = entriesPerPage /\ q = Reverse(free) /\ m = Len(free)
  OBVIOUS
<1>4. /\ e \in Nat \ {0} /\ m \in Nat /\ q \in Seq(Nat) /\ Len(q) = m
      /\ Range(q) = Range(free) /\ IsInjective(q) /\ m <= k * e
  BY <1>1, <1>3, PageManagerAssumption, ReverseFacts, SeqFacts
<1>5. \A i \in 1..k : (k - i) + 1 \in 1..k /\ (k - ((k - i) + 1)) + 1 = i
  BY <1>2
<1>6. PICK En : En = [i \in 1..k |-> Entries(q, e, i)]
  OBVIOUS
<1>7. ASSUME NEW i \in 1..k
      PROVE  /\ En[i] \in Seq(Nat) /\ Len(En[i]) \in Nat
             /\ \A a \in 1..Len(En[i]) : /\ a \in 1..e /\ (i - 1) * e + a \in 1..m
                                         /\ En[i][a] = q[(i - 1) * e + a]
             /\ \A n \in 1..m : ((i - 1) * e < n /\ n <= i * e) =>
                                    \E a \in 1..Len(En[i]) : En[i][a] = q[n]
  <2>1. i \in Nat \ {0} /\ En[i] = Entries(q, e, i)
    BY <1>2, <1>6
  <2>2. /\ Entries(q, e, i) \in Seq(Nat)
        /\ \A a \in 1..Len(Entries(q, e, i)) :
              /\ a <= e /\ (i - 1) * e + a \in 1..Len(q)
              /\ Entries(q, e, i)[a] = q[(i - 1) * e + a]
        /\ \A n \in 1..Len(q) : ((i - 1) * e < n /\ n <= i * e) =>
              \E a \in 1..Len(Entries(q, e, i)) : Entries(q, e, i)[a] = q[n]
    BY <1>4, <2>1, EntriesAre
  <2>3. Len(En[i]) \in Nat
    BY <2>1, <2>2, SeqFacts
  <2>4. \A a \in 1..Len(En[i]) : a <= e => a \in 1..e
    BY <1>4, <2>3
  <2> QED
    BY <1>4, <2>1, <2>2, <2>3, <2>4
<1>8. \A i \in 1..k : Q[R[i]].entries = En[(k - i) + 1]
  <2>1. \A i \in 1..k : Q[C[i]] = NewListPage(free, C, i)
    BY <1>1, CreatesPoints
  <2>2. \A i \in 1..k : NewListPage(free, C, i).entries = En[i]
    BY <1>1, <1>3, <1>6, NewListPageIs
  <2> QED
    <3>1. ASSUME NEW i \in 1..k
          PROVE  Q[R[i]].entries = En[(k - i) + 1]
      <4>1. PICK j \in 1..k : j = (k - i) + 1
        BY <1>5
      <4>2. R[i] = C[j]
        BY <1>2, <4>1
      <4> QED
        BY <2>1, <2>2, <4>1, <4>2
    <3> QED
      BY <3>1
<1>9. Range(q) = {q[n] : n \in 1..m}
  BY <1>4, SeqFacts DEF RangeOf
<1>10. Listed(Q, R) \subseteq Range(q)
  <2>1. ASSUME NEW x \in Listed(Q, R)
        PROVE  x \in Range(q)
    <3>1. PICK i \in 1..k : x \in Range(Q[R[i]].entries)
      BY <1>2 DEF Listed
    <3>2. PICK j \in 1..k : j = (k - i) + 1
      BY <1>5
    <3>3. En[j] \in Seq(Nat) /\ x \in Range(En[j])
      BY <1>7, <1>8, <3>1, <3>2
    <3>4. PICK a \in 1..Len(En[j]) : x = En[j][a]
      <4>1. PICK w : w = En[j]
        OBVIOUS
      <4>2. w \in Seq(Nat) /\ x \in Range(w)
        BY <3>3, <4>1
      <4>3. x \in {w[a] : a \in 1..Len(w)}
        BY <4>2, SeqFacts DEF RangeOf
      <4> QED
        BY <4>1, <4>3
    <3>5. (j - 1) * e + a \in 1..m /\ x = q[(j - 1) * e + a]
      BY <1>7, <3>4
    <3> QED
      BY <1>9, <3>5
  <2> QED
    BY <2>1
<1>11. Range(q) \subseteq Listed(Q, R)
  <2>1. ASSUME NEW x \in Range(q)
        PROVE  x \in Listed(Q, R)
    <3>1. PICK n \in 1..m : x = q[n]
      BY <1>9
    <3>2. n \in Nat \ {0} /\ n <= k * e
      <4>1. n \in Nat /\ n # 0 /\ n <= m /\ k * e \in Int
        BY <1>2, <1>4, <3>1
      <4> QED
        BY <1>4, <4>1
    <3>3. PICK j \in 1..k : (j - 1) * e < n /\ n <= j * e
      BY <1>2, <1>4, <3>2, EntryOf
    <3>4. PICK a \in 1..Len(En[j]) : En[j][a] = x
      BY <1>7, <3>1, <3>3
    <3>5. PICK i \in 1..k : i = (k - j) + 1 /\ j = (k - i) + 1
      BY <1>5
    <3>6. En[j] \in Seq(Nat) /\ Q[R[i]].entries = En[j]
      BY <1>7, <1>8, <3>5
    <3>7. x \in Range(Q[R[i]].entries)
      BY <3>4, <3>6, SeqFacts
    <3> QED
      BY <1>2, <3>7 DEF Listed
  <2> QED
    BY <2>1
<1>12. ASSUME NEW i \in 1..k, NEW j \in 1..k, NEW a \in 1..Len(Q[R[i]].entries),
              NEW b \in 1..Len(Q[R[j]].entries), Q[R[i]].entries[a] = Q[R[j]].entries[b]
       PROVE  i = j /\ a = b
  <2>1. PICK x \in 1..k, y \in 1..k : x = (k - i) + 1 /\ y = (k - j) + 1
    BY <1>5
  <2>2. Q[R[i]].entries = En[x] /\ Q[R[j]].entries = En[y]
    BY <1>8, <2>1
  <2>3. a \in 1..Len(En[x]) /\ b \in 1..Len(En[y]) /\ En[x][a] = En[y][b]
    BY <1>12, <2>2
  <2>4. /\ a \in 1..e /\ (x - 1) * e + a \in 1..m /\ En[x][a] = q[(x - 1) * e + a]
        /\ b \in 1..e /\ (y - 1) * e + b \in 1..m /\ En[y][b] = q[(y - 1) * e + b]
    BY <1>7, <2>3
  <2>5. PICK u, v : u = (x - 1) * e + a /\ v = (y - 1) * e + b
    OBVIOUS
  <2>6. u = v
    <3>1. u \in 1..Len(q) /\ v \in 1..Len(q) /\ q[u] = q[v]
      BY <1>4, <2>3, <2>4, <2>5
    <3> QED
      BY <1>4, <3>1, SeqFacts
  <2>7. x \in Nat \ {0} /\ y \in Nat \ {0} /\ (x - 1) * e + a = (y - 1) * e + b
    <3>1. x \in Nat \ {0} /\ y \in Nat \ {0}
      BY <1>2
    <3>2. (x - 1) * e + a = (y - 1) * e + b
      BY <2>5, <2>6, Zenon
    <3> QED
      BY <3>1, <3>2, Zenon
  <2>8. x = y /\ a = b
    <3>1. /\ e \in Nat \ {0} /\ x \in Nat \ {0} /\ y \in Nat \ {0}
          /\ a \in 1..e /\ b \in 1..e
      BY <1>4, <2>4, <2>7
    <3>2. Slot(e, x, a) = Slot(e, y, b)
      BY <2>7 DEF Slot
    <3> QED
      BY <3>1, <3>2, OneEntry
  <2> QED
    BY <1>2, <2>1, <2>8
<1>13. ListedOnce(Q, R)
  BY <1>2, <1>12 DEF ListedOnce
<1> QED
  BY <1>1, <1>3, <1>4, <1>10, <1>11, <1>13

-----------------------------------------------------------------------------
(* Reading the entries of the list                                         *)

LEMMA ConcatFacts ==
    ASSUME NEW q \in Seq(Nat), NEW r \in Seq(Nat)
    PROVE  /\ q \o r \in Seq(Nat) /\ Len(q \o r) = Len(q) + Len(r)
           /\ Range(q \o r) = Range(q) \cup Range(r)
           /\ (IsInjective(q) /\ IsInjective(r) /\ Range(q) \cap Range(r) = {})
              => IsInjective(q \o r)
<1>1. PICK s, m, n : s = q \o r /\ m = Len(q) /\ n = Len(r)
  OBVIOUS
<1>2. /\ m \in Nat /\ n \in Nat /\ s \in Seq(Nat) /\ Len(s) = m + n
      /\ \A i \in 1..m + n : s[i] = IF i <= m THEN q[i] ELSE r[i - m]
  BY <1>1, ConcatProperties, SeqFacts
<1>3. Range(s) = Range(q) \cup Range(r)
  BY <1>1, RangeConcatenation
<1>4. /\ \A i \in 1..m : q[i] \in Range(q)
      /\ \A i \in 1..n : r[i] \in Range(r)
  BY <1>1, SeqFacts
<1>5. ASSUME IsInjective(q), IsInjective(r), Range(q) \cap Range(r) = {}
      PROVE  IsInjective(s)
  <2>1. \A i, j \in 1..m : q[i] = q[j] => i = j
    BY <1>1, <1>5, SeqFacts
  <2>2. \A i, j \in 1..n : r[i] = r[j] => i = j
    BY <1>1, <1>5, SeqFacts
  <2>3. ASSUME NEW i \in 1..m + n, NEW j \in 1..m + n, s[i] = s[j]
        PROVE  i = j
    <3>1. CASE i <= m /\ j <= m
      <4>1. i \in 1..m /\ j \in 1..m /\ s[i] = q[i] /\ s[j] = q[j]
        BY <1>2, <3>1
      <4> QED
        BY <2>1, <2>3, <4>1
    <3>2. CASE i <= m /\ ~(j <= m)
      <4>1. i \in 1..m /\ j - m \in 1..n /\ s[i] = q[i] /\ s[j] = r[j - m]
        BY <1>2, <3>2
      <4> QED
        BY <1>4, <1>5, <2>3, <4>1
    <3>3. CASE ~(i <= m) /\ j <= m
      <4>1. j \in 1..m /\ i - m \in 1..n /\ s[j] = q[j] /\ s[i] = r[i - m]
        BY <1>2, <3>3
      <4> QED
        BY <1>4, <1>5, <2>3, <4>1
    <3>4. CASE ~(i <= m) /\ ~(j <= m)
      <4>1. i - m \in 1..n /\ j - m \in 1..n /\ s[i] = r[i - m] /\ s[j] = r[j - m]
        BY <1>2, <3>4
      <4>2. i - m = j - m
        BY <2>2, <2>3, <4>1
      <4> QED
        BY <1>2, <4>2
    <3> QED
      BY <3>1, <3>2, <3>3, <3>4
  <2> QED
    BY <1>2, <2>3, SeqFacts
<1> QED
  BY <1>1, <1>2, <1>3, <1>5

LEMMA StoredFacts ==
    ASSUME NEW page \in ListPages, page.stored <= Len(page.entries)
    PROVE  /\ PagesStored(page) \in Seq(Nat) /\ Len(PagesStored(page)) = page.stored
           /\ \A a \in 1..page.stored : /\ PagesStored(page)[a] = page.entries[a]
                                        /\ a \in 1..Len(page.entries)
           /\ Range(PagesStored(page)) \subseteq Range(page.entries)
<1>1. PICK q, n, w : q = page.entries /\ n = page.stored /\ w = PagesStored(page)
  OBVIOUS
<1>2. q \in Seq(Nat) /\ n \in Nat /\ n <= Len(q) /\ Len(q) \in Nat
  BY <1>1, SeqFacts DEF ListPages
<1>3. \A a \in 1..n : a \in 1..Len(q)
  BY <1>2
<1>4. 1 \in Int /\ n \in Int /\ \A a \in 1..n : q[a] \in Nat
  BY <1>2, <1>3, SeqFacts
<1>5. /\ SubSeq(q, 1, n) \in Seq(Nat)
      /\ Len(SubSeq(q, 1, n)) = IF 1 <= n THEN n - 1 + 1 ELSE 0
      /\ \A a \in 1..n - 1 + 1 : SubSeq(q, 1, n)[a] = q[1 + a - 1]
  BY <1>4, SubSeqProperties
<1>6. w = SubSeq(q, 1, n)
  BY <1>1 DEF PagesStored
<1>7. w \in Seq(Nat) /\ Len(w) = n /\ \A a \in 1..n : w[a] = q[a]
  BY <1>2, <1>5, <1>6
<1>8. Range(w) \subseteq Range(q)
  <2>1. Range(w) = {w[a] : a \in 1..n}
    BY <1>7, SeqFacts DEF RangeOf
  <2>2. \A a \in 1..n : q[a] \in Range(q)
    BY <1>2, <1>3, SeqFacts
  <2> QED
    BY <1>7, <2>1, <2>2
<1> QED
  BY <1>1, <1>3, <1>7, <1>8

\* What the first i pages of the list L store.
Stored(P, L, i) == UNION {Range(PagesStored(P[L[j]])) : j \in 1..i}

\* q is the entries stored in the first i pages.
Got(P, L, i, q) == q \in Seq(Nat) /\ IsInjective(q) /\ Range(q) = Stored(P, L, i)

LEMMA ChainPages ==
    ASSUME NEW P, NEW p, NEW L, Chain(P, p, L), NEW i \in 1..Len(L)
    PROVE  /\ P[L[i]] \in ListPages /\ P[L[i]].stored <= Len(P[L[i]].entries)
           /\ P[L[i]].entries \in Seq(Nat) /\ L[i] \in DOMAIN P
           /\ L[i] \in Nat /\ L[i] \in Range(L)
  BY SeqFacts DEF Chain, ListPages

LEMMA GetsMore ==
    ASSUME NEW P \in PageSets, NEW p, NEW L, Chain(P, p, L), ListedOnce(P, L),
           NEW i \in 1..Len(L), NEW q, Got(P, L, i - 1, q)
    PROVE  Got(P, L, i, q \o PagesStored(P[L[i]]))
<1>1. PICK w : w = PagesStored(P[L[i]])
  OBVIOUS
<1>2. PICK E : E = P[L[i]].entries
  OBVIOUS
<1>3. PICK n : n = P[L[i]].stored
  OBVIOUS
<1>4. /\ E \in Seq(Nat) /\ n \in Nat /\ w \in Seq(Nat) /\ Len(w) = n
      /\ \A a \in 1..n : w[a] = E[a] /\ a \in 1..Len(E)
  <2>1. P[L[i]] \in ListPages /\ P[L[i]].stored <= Len(P[L[i]].entries) /\ E \in Seq(Nat)
    BY <1>2, ChainPages
  <2>2. /\ w \in Seq(Nat) /\ Len(w) = n
        /\ \A a \in 1..n : w[a] = E[a] /\ a \in 1..Len(E)
    BY <1>1, <1>2, <1>3, <2>1, StoredFacts
  <2> QED
    BY <2>1, <2>2, SeqFacts
<1>5. q \in Seq(Nat) /\ IsInjective(q) /\ Range(q) = Stored(P, L, i - 1)
  BY DEF Got
<1>6. IsInjective(w)
  <2>1. \A a, b \in 1..Len(E) : E[a] = E[b] => a = b
    BY <1>2 DEF ListedOnce
  <2> QED
    BY <1>4, <2>1, SeqFacts
<1>7. Range(q) \cap Range(w) = {}
  <2>1. SUFFICES ASSUME NEW x \in Range(q), x \in Range(w) PROVE FALSE
    OBVIOUS
  <2>2. PICK j \in 1..i - 1 : x \in Range(PagesStored(P[L[j]]))
    BY <1>5 DEF Stored
  <2>3. j \in 1..Len(L) /\ j # i
    <3>1. Len(L) \in Nat
      BY SeqFacts DEF Chain
    <3> QED
      BY <3>1
  <2>4. PICK F : F = P[L[j]].entries
    OBVIOUS
  <2>5. F \in Seq(Nat) /\ x \in Range(F)
    BY <2>2, <2>3, <2>4, ChainPages, StoredFacts
  <2>6. PICK b \in 1..Len(F) : x = F[b]
    BY <2>5, SeqFacts DEF RangeOf
  <2>7. PICK a \in 1..Len(E) : x = E[a]
    <3>1. PICK a \in 1..n : x = w[a]
      BY <1>4, <2>1, SeqFacts DEF RangeOf
    <3> QED
      BY <1>4, <3>1
  <2> QED
    BY <1>2, <2>3, <2>4, <2>6, <2>7 DEF ListedOnce
<1>8. Stored(P, L, i) = Stored(P, L, i - 1) \cup Range(w)
  <2>1. 1..i = (1..i - 1) \cup {i}
    OBVIOUS
  <2> QED
    BY <1>1, <2>1 DEF Stored
<1> QED
  BY <1>1, <1>4, <1>5, <1>6, <1>7, <1>8, ConcatFacts DEF Got

\* GetPages gives the stored entries, each once.
LEMMA GetsPages ==
    ASSUME NEW P \in PageSets, NEW p, NEW L, Chain(P, p, L), ListedOnce(P, L)
    PROVE  Got(P, L, Len(L), GetPages(P, p))
<1>1. PICK n : n = Len(L)
  OBVIOUS
<1>2. n \in Nat /\ L \in Seq(Nat) /\ GetContainerPages(P, p) = L
  BY <1>1, ListIs, SeqFacts DEF Chain
<1> DEFINE G == [x \in Seq(Nat) \X (1..n) |-> x[1] \o PagesStored(P[L[x[2]]])]
<1>3. G \in [Seq(Nat) \X (1..n) -> Seq(Nat)]
  <2>1. ASSUME NEW q \in Seq(Nat), NEW i \in 1..n
        PROVE  q \o PagesStored(P[L[i]]) \in Seq(Nat)
    BY <1>1, ChainPages, StoredFacts, ConcatFacts
  <2> QED
    BY <2>1
<1>4. <<>> \in Seq(Nat)
  BY EmptySeq
<1>5. PICK f \in [0..n -> Seq(Nat)] : Iterates(f, n, <<>>, G)
  <2> HIDE DEF G
  <2> QED
    BY <1>2, <1>3, <1>4, IterationExists
<1>6. f = [i \in 0..n |-> IF i = 0 THEN <<>> ELSE f[i - 1] \o PagesStored(P[L[i]])]
  <2>1. ASSUME NEW i \in 0..n
        PROVE  f[i] = IF i = 0 THEN <<>> ELSE f[i - 1] \o PagesStored(P[L[i]])
    <3>1. CASE i = 0
      BY <1>5, <3>1 DEF Iterates
    <3>2. CASE i # 0
      <4>1. i \in 1..n /\ i - 1 \in 0..n /\ f[i - 1] \in Seq(Nat)
        BY <1>2, <3>2
      <4>2. f[i] = G[<<f[i - 1], i>>]
        BY <1>5, <4>1 DEF Iterates
      <4> QED
        BY <3>2, <4>1, <4>2
    <3> QED
      BY <3>1, <3>2
  <2> QED
    BY <1>5, <2>1
<1> HIDE DEF G
<1>7. PICK h : h = CHOOSE u : u = [i \in 0..n |-> IF i = 0 THEN <<>>
                                                  ELSE u[i - 1] \o PagesStored(P[L[i]])]
  OBVIOUS
<1>8. h = [i \in 0..n |-> IF i = 0 THEN <<>> ELSE h[i - 1] \o PagesStored(P[L[i]])]
  BY <1>6, <1>7
<1>9. \A i \in 0..n : Got(P, L, i, h[i])
  <2> DEFINE U == {i \in 0..n : ~Got(P, L, i, h[i])}
  <2>1. 0 \notin U
    <3>1. h[0] = <<>>
      BY <1>2, <1>8
    <3>2. Range(<<>>) = {} /\ IsInjective(<<>>) /\ Stored(P, L, 0) = {}
      BY DEF Range, IsInjective, Stored
    <3> QED
      BY <1>4, <3>1, <3>2 DEF Got
  <2>2. ASSUME NEW l \in 0..n, 0 < l, l - 1 \notin U
        PROVE  l \notin U
    <3>1. l # 0 /\ l - 1 \in 0..n /\ l \in 1..n
      BY <1>2, <2>2
    <3>2. h[l] = h[l - 1] \o PagesStored(P[L[l]])
      BY <1>8, <3>1
    <3>3. Got(P, L, l - 1, h[l - 1])
      BY <2>2, <3>1
    <3>4. Got(P, L, l, h[l - 1] \o PagesStored(P[L[l]]))
      BY <1>1, <3>1, <3>3, GetsMore
    <3> QED
      BY <3>2, <3>4
  <2>3. U \in SUBSET (0..n) /\ 0 \in Int /\ n \in Int
    BY <1>2
  <2>4. U = {}
    <3> HIDE DEF U
    <3> QED
      BY <2>1, <2>2, <2>3, UpFrom
  <2> QED
    BY <2>4
<1>10. GetPages(P, p) = h[n]
  BY <1>1, <1>2, <1>7 DEF GetPages
<1> QED
  BY <1>1, <1>2, <1>9, <1>10

\* Every entry of the list is stored, or dropped.
LEMMA StoredOrDropped ==
    ASSUME NEW P \in PageSets, NEW p, NEW L, Chain(P, p, L)
    PROVE  /\ Stored(P, L, Len(L)) \subseteq Listed(P, L)
           /\ Listed(P, L) \subseteq Stored(P, L, Len(L)) \cup PagesDropped(P, p)
<1>1. GetContainerPages(P, p) = L /\ Range(L) = {L[i] : i \in 1..Len(L)}
  BY ListIs, SeqFacts DEF Chain, RangeOf
<1>2. \A i \in 1..Len(L) : Range(PagesStored(P[L[i]])) \subseteq Range(P[L[i]].entries)
  BY ChainPages, StoredFacts
<1>3. PagesDropped(P, p) = UNION {Range(P[c].entries) \ Range(PagesStored(P[c])) : c \in Range(L)}
  BY <1>1 DEF PagesDropped
<1>4. Stored(P, L, Len(L)) \subseteq Listed(P, L)
  BY <1>2 DEF Stored, Listed
<1>5. ASSUME NEW x \in Listed(P, L)
      PROVE  x \in Stored(P, L, Len(L)) \cup PagesDropped(P, p)
  <2>1. PICK i \in 1..Len(L) : x \in Range(P[L[i]].entries)
    BY DEF Listed
  <2>2. CASE x \in Range(PagesStored(P[L[i]]))
    BY <2>2 DEF Stored
  <2>3. CASE x \notin Range(PagesStored(P[L[i]]))
    BY <1>1, <1>3, <2>1, <2>3
  <2> QED
    BY <2>2, <2>3
<1> QED
  BY <1>4, <1>5

\* With no list there is nothing to read.
LEMMA NoList ==
    ASSUME NEW P \in PageSets, NEW p, ReadPage(P, p).kind # "list"
    PROVE  GetContainerPages(P, p) = <<>>
<1>1. PICK n : n = Cardinality(DOMAIN P)
  OBVIOUS
<1>2. n \in Nat
  BY <1>1, PagesAre, FS_CardinalityType
<1> DEFINE f == [i \in 0..n |-> <<>>]
<1>3. f = [i \in 0..n |-> IF i = 0 THEN <<>> ELSE ReadOn(P, p, f[i - 1])]
  <2>1. ReadOn(P, p, <<>>) = <<>>
    BY DEF ReadOn
  <2>2. \A i \in 0..n : i # 0 => i - 1 \in 0..n
    BY <1>2
  <2> QED
    BY <2>1, <2>2
<1> HIDE DEF f
<1>4. PICK h : h = CHOOSE u : u = [i \in 0..n |-> IF i = 0 THEN <<>> ELSE ReadOn(P, p, u[i - 1])]
  OBVIOUS
<1>5. h = [i \in 0..n |-> IF i = 0 THEN <<>> ELSE ReadOn(P, p, h[i - 1])]
  BY <1>3, <1>4
<1>6. \A i \in 0..n : h[i] = <<>>
  <2> DEFINE U == {i \in 0..n : h[i] # <<>>}
  <2>1. 0 \notin U
    BY <1>2, <1>5
  <2>2. ASSUME NEW l \in 0..n, 0 < l, l - 1 \notin U
        PROVE  l \notin U
    <3>1. l # 0 /\ l - 1 \in 0..n
      BY <1>2, <2>2
    <3>2. h[l] = ReadOn(P, p, <<>>)
      BY <1>5, <2>2, <3>1
    <3> QED
      BY <3>2 DEF ReadOn
  <2>3. U \in SUBSET (0..n) /\ 0 \in Int /\ n \in Int
    BY <1>2
  <2>4. U = {}
    <3> HIDE DEF U
    <3> QED
      BY <2>1, <2>2, <2>3, UpFrom
  <2> QED
    BY <2>4
<1>7. GetContainerPages(P, p) = h[n]
  BY <1>1, <1>4 DEF GetContainerPages, ReadOn
<1> QED
  BY <1>2, <1>6, <1>7

-----------------------------------------------------------------------------
(* Versions in other pages                                                 *)

LEMMA HeaderIsNoList ==
    ASSUME NEW P, 0 \in DOMAIN P, P[0] \in Headers
    PROVE  ReadPage(P, 0).kind # "list"
  BY DEF ReadPage, Headers

LEMMA ChainMoves ==
    ASSUME NEW P, NEW Q, NEW p, NEW L, Chain(P, p, L), ReadPage(Q, 0).kind # "list",
           \A x \in Range(L) : x \in DOMAIN Q /\ Q[x] = P[x]
    PROVE  /\ Chain(Q, p, L) /\ Listed(Q, L) = Listed(P, L)
           /\ ListedOnce(P, L) => ListedOnce(Q, L)
<1>1. \A i \in 1..Len(L) : L[i] \in DOMAIN Q /\ Q[L[i]] = P[L[i]]
  BY ChainPages
<1>2. Chain(Q, p, L)
  BY <1>1 DEF Chain
<1>3. Listed(Q, L) = Listed(P, L)
  BY <1>1 DEF Listed
<1>4. ListedOnce(P, L) => ListedOnce(Q, L)
  <2>1. SUFFICES ASSUME ListedOnce(P, L),
                        NEW i \in 1..Len(L), NEW j \in 1..Len(L),
                        NEW a \in 1..Len(Q[L[i]].entries), NEW b \in 1..Len(Q[L[j]].entries),
                        Q[L[i]].entries[a] = Q[L[j]].entries[b]
                 PROVE  i = j /\ a = b
    BY DEF ListedOnce
  <2>2. Q[L[i]] = P[L[i]] /\ Q[L[j]] = P[L[j]]
    BY <1>1
  <2>3. /\ a \in 1..Len(P[L[i]].entries) /\ b \in 1..Len(P[L[j]].entries)
        /\ P[L[i]].entries[a] = P[L[j]].entries[b]
    BY <2>1, <2>2
  <2> QED
    BY <2>1, <2>3 DEF ListedOnce
<1> QED
  BY <1>2, <1>3, <1>4

LEMMA ChainInDomain ==
    ASSUME NEW P, NEW p, NEW L, Chain(P, p, L)
    PROVE  /\ \A x \in Range(L) : x \in DOMAIN P /\ P[x] \in ListPages
           /\ Range(L) = {L[i] : i \in 1..Len(L)} /\ L \in Seq(Nat) /\ IsInjective(L)
           /\ p \in Range(L)
<1>1. L \in Seq(Nat) /\ Len(L) > 0 /\ p = L[Len(L)]
      /\ \A i, j \in 1..Len(L) : L[i] = L[j] => i = j
  BY DEF Chain
<1>2. Range(L) = {L[i] : i \in 1..Len(L)} /\ IsInjective(L) /\ Len(L) \in Nat
  BY <1>1, SeqFacts DEF RangeOf
<1>3. \A i \in 1..Len(L) : L[i] \in DOMAIN P /\ P[L[i]] \in ListPages
  BY ChainPages
<1> QED
  BY <1>1, <1>2, <1>3

LEMMA GrowsTwice ==
    ASSUME NEW a \in Pages, NEW b \in Pages, NEW c \in Pages, Grown(a, b), Grown(b, c)
    PROVE  Grown(a, c)
<1>1. CASE a = b \/ b = c
  BY <1>1 DEF Grown
<1>2. CASE a # b /\ b # c
  <2>1. /\ a.kind = "raw" /\ b.kind = "raw" /\ b.data = a.data
        /\ a.value <= b.value /\ a.next \in {0, b.next}
    BY <1>2 DEF Grown
  <2>2. /\ c.kind = "raw" /\ c.data = b.data
        /\ b.value <= c.value /\ b.next \in {0, c.next}
    BY <1>2 DEF Grown
  <2>3. ASSUME NEW x \in Pages, x.kind = "raw" PROVE x.value \in Nat
    BY <2>3 DEF Pages, Contents, RawPages, DataPages, ListPages, Headers, ZeroPage
  <2>4. a.value \in Nat /\ b.value \in Nat /\ c.value \in Nat
    BY <2>1, <2>2, <2>3
  <2> QED
    BY <2>1, <2>2, <2>4 DEF Grown
<1> QED
  BY <1>1, <1>2

LEMMA ListsDoNotGrow ==
    ASSUME NEW a \in ListPages, NEW b, Grown(a, b)
    PROVE  b = a
  BY DEF Grown, ListPages

LEMMA HeaderFields ==
    ASSUME NEW h \in Headers
    PROVE  /\ h.kind = "header" /\ h.at \in [Data -> Nat] /\ h.content \in [Data -> Contents]
           /\ h.rawData \in Raw /\ h.named \in Nat /\ h.freePages \in Nat
           /\ h.firstUnusedPage \in Nat /\ h.lastVersion \in Nat
           /\ h.at[h.rawData] # 0 /\ \A d \in Data : h.content[d].data = d
  BY DEF Headers

LEMMA RawIsData == Raw \subseteq Data /\ 1 \in Data /\ History \in Data
  BY PageManagerAssumption DEF Raw, Data

\* A page that has grown is still for the same data.
LEMMA ContentIs ==
    ASSUME NEW c \in Contents
    PROVE  /\ c \in Pages /\ c.data \in Data /\ c.kind \in {"data", "raw"}
           /\ c.data \in Raw <=> c.kind = "raw"
           /\ \A page : Grown(c, page) => page.data = c.data /\ page.kind = c.kind
<1>1. CASE c \in DataPages
  BY <1>1 DEF DataPages, Pages, Contents, Grown
<1>2. CASE c \in RawPages
  BY <1>2, RawIsData DEF RawPages, Pages, Contents, Grown
<1> QED
  BY <1>1, <1>2 DEF Contents

\* What a header finds at one of its places.
LEMMA FoundAt ==
    ASSUME NEW P, NEW h \in Headers, Holds(P, h), NEW d \in Data, h.at[d] # 0
    PROVE  /\ h.at[d] \in DOMAIN P /\ Grown(h.content[d], P[h.at[d]])
           /\ P[h.at[d]].data = d /\ P[h.at[d]].kind \in {"data", "raw"}
           /\ h.content[d] \in Contents /\ (d \in Raw <=> P[h.at[d]].kind = "raw")
<1>1. h.content[d] \in Contents /\ h.content[d].data = d
  BY HeaderFields
<1>2. h.at[d] \in DOMAIN P /\ Grown(h.content[d], P[h.at[d]])
  BY DEF Holds
<1> QED
  BY <1>1, <1>2, ContentIs

LEMMA HoldsMoves ==
    ASSUME NEW P \in PageSets, NEW Q \in PageSets, NEW h \in Headers, Holds(P, h),
           \A x \in DataOf(h) : x \in DOMAIN Q /\ Grown(P[x], Q[x])
    PROVE  Holds(Q, h)
<1>1. SUFFICES ASSUME NEW d \in Data, h.at[d] # 0
               PROVE  h.at[d] \in DOMAIN Q /\ Grown(h.content[d], Q[h.at[d]])
  BY DEF Holds
<1>2. PICK x : x = h.at[d]
  OBVIOUS
<1>3. /\ x \in DOMAIN P /\ Grown(h.content[d], P[x]) /\ h.content[d] \in Pages
  BY <1>1, <1>2, FoundAt, ContentIs
<1>4. x \in DOMAIN Q /\ Grown(P[x], Q[x])
  BY <1>1, <1>2 DEF DataOf
<1>5. P[x] \in Pages /\ Q[x] \in Pages
  BY <1>3, <1>4, PagesAre
<1> QED
  BY <1>2, <1>3, <1>4, <1>5, GrowsTwice

LEMMA AgreeTwice ==
    ASSUME NEW P \in PageSets, NEW Q \in PageSets, NEW R \in PageSets, NEW S,
           Agree(P, Q, S), Agree(Q, R, S)
    PROVE  Agree(P, R, S)
<1>1. \A x \in S : P[x] \in Pages /\ Q[x] \in Pages /\ R[x] \in Pages
  BY PagesAre DEF Agree
<1> QED
  BY <1>1, GrowsTwice DEF Agree

LEMMA SamePage ==
    ASSUME NEW a
    PROVE  Grown(a, a)
  BY DEF Grown

LEMMA SafeMoves ==
    ASSUME NEW P \in PageSets, NEW Q \in PageSets, NEW h, NEW L, NEW gone, NEW more, Safe(P, h, L, gone),
           Agree(P, Q, Old(h, L)), ReadPage(Q, 0).kind # "list", gone \subseteq more
    PROVE  Safe(Q, h, L, more)
<1>1. \A x \in Old(h, L) : x \in DOMAIN Q /\ Grown(P[x], Q[x])
  BY DEF Agree
<1>2. Chain(P, h.freePages, L) /\ Holds(P, h) /\ ListedOnce(P, L) /\ h \in Headers
  BY DEF Safe
<1>3. \A x \in Range(L) : x \in DOMAIN Q /\ Q[x] = P[x]
  <2>1. \A x \in Range(L) : x \in DOMAIN Q /\ Grown(P[x], Q[x])
    BY <1>1 DEF Old
  <2>2. \A x \in Range(L) : P[x] \in ListPages
    BY <1>2, ChainInDomain
  <2> QED
    BY <2>1, <2>2, ListsDoNotGrow
<1>4. \A x \in DataOf(h) : x \in DOMAIN Q /\ Grown(P[x], Q[x])
  BY <1>1 DEF Old
<1>5. Chain(Q, h.freePages, L) /\ Listed(Q, L) = Listed(P, L) /\ ListedOnce(Q, L)
  BY <1>2, <1>3, ChainMoves
<1>6. Holds(Q, h)
  BY <1>2, <1>4, HoldsMoves
<1> QED
  BY <1>5, <1>6 DEF Safe

\* A page of the list is no data page, and a data page is at one place.
LEMMA DataIsApart ==
    ASSUME NEW P, NEW H \in Headers, NEW p, NEW L, Holds(P, H), Chain(P, p, L)
    PROVE  DataOf(H) \cap Range(L) = {}
<1>1. SUFFICES ASSUME NEW x \in DataOf(H), x \in Range(L) PROVE FALSE
  OBVIOUS
<1>2. PICK d \in Data : x = H.at[d] /\ x # 0
  BY DEF DataOf
<1>3. P[x].kind \in {"data", "raw"}
  BY <1>2, FoundAt
<1>4. PICK i \in 1..Len(L) : x = L[i]
  BY <1>1, SeqFacts DEF Chain, RangeOf
<1>5. P[x] \in ListPages
  BY <1>4, ChainPages
<1> QED
  BY <1>3, <1>5 DEF ListPages

LEMMA OnePlace ==
    ASSUME NEW P, NEW H \in Headers, Holds(P, H), NEW d \in Data, NEW b \in Data,
           H.at[d] # 0, H.at[b] = H.at[d]
    PROVE  b = d
<1>1. P[H.at[d]].data = d
  BY FoundAt
<1>2. P[H.at[b]].data = b
  BY FoundAt
<1> QED
  BY <1>1, <1>2

LEMMA DataOfIs ==
    ASSUME NEW h, NEW d \in Data, h.at[d] # 0
    PROVE  h.at[d] \in DataOf(h)
  BY DEF DataOf

-----------------------------------------------------------------------------
(* The header of the batch                                                 *)

\* t is s, but for the pages 0 and 1.
SameAbove(s, t) ==
    /\ t.freePages = s.freePages /\ t.firstUnusedPage = s.firstUnusedPage
    /\ \A p \in DOMAIN s.pages : p >= 2 => p \in DOMAIN t.pages /\ t.pages[p] = s.pages[p]
    /\ \A p \in DOMAIN s.editedPages : p >= 2 =>
          p \in DOMAIN t.editedPages /\ t.editedPages[p] = s.editedPages[p]
    /\ \A p \in DOMAIN t.editedPages : p >= 2 => p \in DOMAIN s.editedPages

LEMMA BelowIs ==
    ASSUME NEW n \in Nat, NEW p
    PROVE  p \in Below(n) <=> p \in Nat /\ p >= 2 /\ p < n
  BY DEF Below

LEMMA SameBatch ==
    ASSUME NEW s \in Managers, NEW t \in Managers, NEW h, NEW H, NEW L, NEW first, NEW gone,
           InBatch(s, h, H, L, first, gone), SameAbove(s, t), ReadPage(t.pages, 0).kind # "list"
    PROVE  InBatch(t, h, H, L, first, gone)
<1>1. s.firstUnusedPage \in Nat
  BY ManagerFields
<1>2. /\ Chain(s.pages, h.freePages, L) /\ Holds(s.pages, H) /\ H \in Headers
      /\ s.pages \in PageSets /\ t.pages \in PageSets
  BY ManagerFields DEF InBatch
<1>3. \A x \in Old(h, L) \cup DataOf(H) : x \in Nat /\ x >= 2
  <2>1. Old(h, L) \cup DataOf(H) \subseteq Below(s.firstUnusedPage)
    BY DEF InBatch
  <2> QED
    BY <1>1, <2>1, BelowIs
<1>4. \A x \in Range(L) : x \in DOMAIN t.pages /\ t.pages[x] = s.pages[x]
  <2>1. \A x \in Range(L) : x \in DOMAIN s.pages
    BY <1>2, ChainPages, SeqFacts DEF Chain, RangeOf
  <2> QED
    BY <1>3, <2>1 DEF SameAbove, Old
<1>5. Chain(t.pages, h.freePages, L)
  BY <1>2, <1>4, ChainMoves
<1>6. Holds(t.pages, H)
  <2>1. \A x \in DataOf(H) : x \in DOMAIN s.pages
    BY <1>2 DEF Holds, DataOf
  <2>2. \A x \in DataOf(H) : x \in DOMAIN t.pages /\ Grown(s.pages[x], t.pages[x])
    BY <1>3, <2>1 DEF SameAbove, Grown
  <2> QED
    BY <1>2, <2>2, HoldsMoves
<1>7. \A p : p >= 2 => /\ p \in DOMAIN t.editedPages <=> p \in DOMAIN s.editedPages
                       /\ p \in DOMAIN s.editedPages => t.editedPages[p] = s.editedPages[p]
  BY DEF SameAbove
<1>8. ASSUME NEW d \in Data, H.at[d] # 0
      PROVE  Moved(t, h, H, first, d)
  <2>1. Moved(s, h, H, first, d)
    BY <1>8 DEF InBatch
  <2>2. H.at[d] >= 2
    BY <1>3, <1>8, DataOfIs
  <2>3. h.at[d] # 0 => h.at[d] >= 2
    BY <1>3, DataOfIs DEF Old
  <2> QED
    BY <1>7, <2>1, <2>2, <2>3 DEF Moved
<1>9. \A p \in DOMAIN t.editedPages : p >= 2 => t.editedPages[p] = p \/ p \in DataOf(h)
  BY <1>7 DEF InBatch
<1> QED
  BY <1>5, <1>6, <1>8, <1>9 DEF InBatch, SameAbove

LEMMA HeaderEdits ==
    ASSUME TypeInv, 0 \in DOMAIN pm.editedPages => 1 \in DOMAIN pm.pages,
           pm.pages[0] \in Headers
    PROVE  LET s == editPage(pm, headerPageNumber)
           IN  /\ s \in Managers /\ SameAbove(pm, s)
               /\ DOMAIN s.pages = DOMAIN pm.pages \cup {1} /\ s.pages[1] = Header
               /\ s.pages[0] = pm.pages[0] /\ 0 \in DOMAIN s.editedPages
<1> DEFINE s == editPage(pm, headerPageNumber)
<1>1. PICK n : n = headerPageNumber
  OBVIOUS
<1>2. /\ n = IF 0 \in DOMAIN pm.editedPages THEN 1 ELSE 0
      /\ n \in DOMAIN pm.pages /\ Header = pm.pages[n] /\ n \in Nat
  BY <1>1 DEF headerPageNumber, Header, TypeInv
<1>3. pm \in Managers /\ pm.pages \in PageSets /\ pm.editedPages \in Edits /\ 0 \in DOMAIN pm.pages
  BY ManagerFields DEF TypeInv
<1>4. CASE n \in DOMAIN pm.editedPages
  <2>1. s = pm
    BY <1>1, <1>4 DEF editPage
  <2>2. n = 1 /\ 0 \in DOMAIN pm.editedPages
    BY <1>2, <1>4
  <2>3. DOMAIN pm.pages = DOMAIN pm.pages \cup {1}
    BY <1>2, <2>2
  <2> HIDE DEF s
  <2> QED
    BY <1>2, <1>3, <2>1, <2>2, <2>3 DEF SameAbove, s
<1>5. CASE n \notin DOMAIN pm.editedPages
  <2>1. PICK Q, E : Q = With(pm.pages, 1, pm.pages[n]) /\ E = With(pm.editedPages, n, 1)
    OBVIOUS
  <2>2. s = [pm EXCEPT !.pages = Q, !.editedPages = E]
    BY <1>1, <1>2, <1>5, <2>1 DEF editPage
  <2> HIDE DEF s
  <2>3. Q \in PageSets /\ E \in Edits
    BY <1>2, <1>3, <2>1, PagesAre, WithPage, WithEdit
  <2>4. /\ s \in Managers /\ s.pages = Q /\ s.editedPages = E
        /\ s.freePages = pm.freePages /\ s.firstUnusedPage = pm.firstUnusedPage
    BY <1>3, <2>2, <2>3 DEF Managers
  <2>5. /\ DOMAIN Q = DOMAIN pm.pages \cup {1} /\ Q[1] = pm.pages[n]
        /\ \A p \in DOMAIN pm.pages : p # 1 => Q[p] = pm.pages[p]
    BY <2>1 DEF With
  <2>6. /\ DOMAIN E = DOMAIN pm.editedPages \cup {n}
        /\ \A p \in DOMAIN pm.editedPages : p # n => E[p] = pm.editedPages[p]
    BY <2>1 DEF With
  <2>7. n <= 1 /\ 0 \in DOMAIN E
    BY <1>2, <2>6
  <2>8. SameAbove(pm, s)
    BY <1>2, <2>4, <2>5, <2>6, <2>7 DEF SameAbove
  <2> QED
    BY <1>2, <1>3, <2>4, <2>5, <2>7, <2>8 DEF s
<1> QED
  BY <1>4, <1>5

LEMMA BatchIsUnused ==
    ASSUME NEW s \in Managers, NEW h, NEW H, NEW L, NEW first, NEW gone,
           InBatch(s, h, H, L, first, gone)
    PROVE  Unused(s)
<1>1. s.firstUnusedPage \in Nat
  BY ManagerFields
<1>2. Len(L) \in Nat /\ Len(L) > 0 /\ Chain(s.pages, h.freePages, L)
  BY SeqFacts DEF InBatch, Chain
<1>3. L[1] \in Range(L)
  BY <1>2, ChainPages
<1>4. L[1] \in Below(s.firstUnusedPage)
  BY <1>3 DEF InBatch, Old
<1>5. s.firstUnusedPage >= 2
  BY <1>1, <1>4, BelowIs
<1> QED
  BY <1>5 DEF InBatch, Unused

-----------------------------------------------------------------------------
(* Writing a data page                                                     *)

\* The header H once the page has the content.
NewHeader(H, page, content) ==
    [H EXCEPT !.at[content.data] = page, !.content[content.data] = content,
              !.rawData = IF content.data \in Raw THEN content.data ELSE @]

LEMMA NewHeaderIs ==
    ASSUME NEW H \in Headers, NEW page \in Nat, page # 0, NEW content \in Contents,
           NEW d \in Data, d = content.data
    PROVE  /\ NewHeader(H, page, content) \in Headers
           /\ \A b \in Data : b # d =>
                 /\ NewHeader(H, page, content).at[b] = H.at[b]
                 /\ NewHeader(H, page, content).content[b] = H.content[b]
           /\ NewHeader(H, page, content).at[d] = page
           /\ NewHeader(H, page, content).content[d] = content
           /\ NewHeader(H, page, content).freePages = H.freePages
           /\ NewHeader(H, page, content).lastVersion = H.lastVersion
<1>1. /\ H.at \in [Data -> Nat] /\ H.content \in [Data -> Contents] /\ H.rawData \in Raw
      /\ H.at[H.rawData] # 0 /\ \A b \in Data : H.content[b].data = b
  BY HeaderFields
<1>2. PICK r : r = IF d \in Raw THEN d ELSE H.rawData
  OBVIOUS
<1>3. PICK A, C : A = [H.at EXCEPT ![d] = page] /\ C = [H.content EXCEPT ![d] = content]
  OBVIOUS
<1>4. PICK K : K = NewHeader(H, page, content)
  OBVIOUS
<1>5. K = [H EXCEPT !.at = A, !.content = C, !.rawData = r]
  BY <1>2, <1>3, <1>4 DEF NewHeader
<1>6. A \in [Data -> Nat] /\ C \in [Data -> Contents] /\ r \in Raw
  BY <1>1, <1>2, <1>3
<1>7. /\ A[d] = page /\ C[d] = content
      /\ \A b \in Data : b # d => A[b] = H.at[b] /\ C[b] = H.content[b]
  BY <1>1, <1>3
<1>8. \A b \in Data : C[b].data = b
  BY <1>1, <1>7
<1>9. A[r] # 0
  BY <1>1, <1>2, <1>7, RawIsData
<1>10. /\ K \in Headers /\ K.at = A /\ K.content = C
       /\ K.freePages = H.freePages /\ K.lastVersion = H.lastVersion
  BY <1>5, <1>6, <1>8, <1>9 DEF Headers
<1> QED
  BY <1>4, <1>7, <1>10

LEMMA PutIs ==
    ASSUME NEW s \in Managers, 1 \in DOMAIN s.pages, NEW H \in Headers, s.pages[1] = H,
           NEW page \in Nat, page >= 2, NEW content \in Contents
    PROVE  /\ Put(s, page, content) \in Managers
           /\ Put(s, page, content).freePages = s.freePages
           /\ Put(s, page, content).firstUnusedPage = s.firstUnusedPage
           /\ Put(s, page, content).editedPages = s.editedPages
           /\ DOMAIN Put(s, page, content).pages = DOMAIN s.pages \cup {page}
           /\ Put(s, page, content).pages[1] = NewHeader(H, page, content)
           /\ Put(s, page, content).pages[page] = content
           /\ \A p \in DOMAIN s.pages : p # 1 /\ p # page =>
                 Put(s, page, content).pages[p] = s.pages[p]
<1>1. PICK K : K = NewHeader(H, page, content)
  OBVIOUS
<1>2. K \in Headers
  <2>1. PICK d \in Data : d = content.data
    BY ContentIs
  <2> QED
    BY <1>1, <2>1, NewHeaderIs
<1>3. K \in Pages /\ content \in Pages
  BY <1>2 DEF Pages
<1>4. PICK Q, R : Q = With(s.pages, 1, K) /\ R = With(Q, page, content)
  OBVIOUS
<1>5. s.pages \in PageSets
  BY ManagerFields
<1>6. Q \in PageSets
  BY <1>3, <1>4, <1>5, WithPage
<1>7. R \in PageSets
  BY <1>3, <1>4, <1>6, WithPage
<1>8. DOMAIN Q = DOMAIN s.pages /\ Q[1] = K /\ \A p \in DOMAIN s.pages : p # 1 => Q[p] = s.pages[p]
  BY <1>4 DEF With
<1>9. /\ DOMAIN R = DOMAIN Q \cup {page} /\ R[page] = content
      /\ \A p \in DOMAIN Q : p # page => R[p] = Q[p]
  BY <1>4 DEF With
<1>10. Put(s, page, content) = [s EXCEPT !.pages = R]
  BY <1>1, <1>4 DEF Put, NewHeader
<1>11. PICK u : u = Put(s, page, content)
  OBVIOUS
<1>12. /\ u \in Managers /\ u.pages = R /\ u.freePages = s.freePages
       /\ u.firstUnusedPage = s.firstUnusedPage /\ u.editedPages = s.editedPages
  BY <1>7, <1>10, <1>11 DEF Managers
<1> QED
  BY <1>1, <1>8, <1>9, <1>11, <1>12

\* A write to the page where the batch has the data page.
LEMMA WritesInPlace ==
    ASSUME NEW s \in Managers, NEW h, NEW H, NEW L, NEW first, NEW gone,
           InBatch(s, h, H, L, first, gone),
           0 \in DOMAIN s.pages, s.pages[0] \in Headers, 1 \in DOMAIN s.pages, s.pages[1] = H,
           NEW content \in Contents, NEW d \in Data, d = content.data, H.at[d] # 0
    PROVE  /\ InBatch(Put(s, H.at[d], content), h, NewHeader(H, H.at[d], content), L, first, gone)
           /\ H.at[d] \in Nat /\ H.at[d] >= 2 /\ H.at[d] \notin Range(L)
           /\ H.at[d] \in DOMAIN s.editedPages /\ ~first => H.at[d] \notin Old(h, L)
           /\ H.at[d] \in DOMAIN s.editedPages => s.editedPages[H.at[d]] = H.at[d]
<1>1. PICK a, u, K : a = H.at[d] /\ u = Put(s, H.at[d], content)
                     /\ K = NewHeader(H, H.at[d], content)
  OBVIOUS
<1>2. /\ h \in Headers /\ H \in Headers
      /\ H.freePages = h.freePages /\ H.lastVersion = h.lastVersion
      /\ Chain(s.pages, h.freePages, L) /\ Holds(s.pages, H)
  BY DEF InBatch
<1>3. \A x \in Old(h, L) \cup DataOf(H) : x \in Nat /\ x >= 2
  <2>1. Old(h, L) \cup DataOf(H) \subseteq Below(s.firstUnusedPage)
    BY DEF InBatch
  <2>2. s.firstUnusedPage \in Nat
    BY ManagerFields
  <2> QED
    BY <2>1, <2>2, BelowIs
<1>4. a \in DataOf(H) /\ a \in Nat /\ a >= 2 /\ a # 0 /\ a # 1
  BY <1>1, <1>3, DataOfIs
<1>5. Moved(s, h, H, first, d)
  BY DEF InBatch
<1>6. a \in DOMAIN s.editedPages => s.editedPages[a] = a
  BY <1>1, <1>5 DEF Moved
<1>7. DataOf(H) \cap Range(L) = {}
  BY <1>2, DataIsApart
<1>8. a \in DOMAIN s.editedPages /\ ~first => a \notin Old(h, L)
  <2>1. SUFFICES ASSUME a \in DOMAIN s.editedPages, ~first, a \in DataOf(h) PROVE FALSE
    BY <1>4, <1>7 DEF Old
  <2>2. H.at[d] # h.at[d]
    BY <1>1, <1>5, <2>1 DEF Moved
  <2> QED
    BY <1>1, <2>1, <2>2 DEF InBatch
<1>9. /\ u \in Managers /\ u.freePages = s.freePages
      /\ u.firstUnusedPage = s.firstUnusedPage /\ u.editedPages = s.editedPages
      /\ DOMAIN u.pages = DOMAIN s.pages \cup {a} /\ u.pages[1] = K
      /\ u.pages[a] = content
      /\ \A p \in DOMAIN s.pages : p # 1 /\ p # a => u.pages[p] = s.pages[p]
  BY <1>1, <1>2, <1>4, PutIs
<1>10. /\ K \in Headers /\ K.freePages = H.freePages /\ K.lastVersion = H.lastVersion
       /\ K.at[d] = a /\ K.content[d] = content
       /\ \A b \in Data : b # d => K.at[b] = H.at[b] /\ K.content[b] = H.content[b]
  <2>1. PICK N : N = NewHeader(H, a, content)
    OBVIOUS
  <2>2. /\ N \in Headers /\ N.freePages = H.freePages /\ N.lastVersion = H.lastVersion
        /\ N.at[d] = a /\ N.content[d] = content
    BY <1>2, <1>4, <2>1, NewHeaderIs
  <2>3. \A b \in Data : b # d => N.at[b] = H.at[b] /\ N.content[b] = H.content[b]
    <3>1. \A b \in Data : b # d =>
             /\ NewHeader(H, a, content).at[b] = H.at[b]
             /\ NewHeader(H, a, content).content[b] = H.content[b]
      BY <1>2, <1>4, NewHeaderIs
    <3> QED
      BY <2>1, <3>1
  <2>4. K = N
    BY <1>1, <2>1
  <2> QED
    BY <1>1, <2>2, <2>3, <2>4
<1>11. \A b \in Data : K.at[b] = H.at[b]
  BY <1>1, <1>10
<1>12. DataOf(K) = DataOf(H)
  BY <1>11 DEF DataOf
<1>13. Chain(u.pages, h.freePages, L)
  <2>1. \A x \in Range(L) : x \in DOMAIN s.pages /\ x # 1 /\ x # a
    <3>1. \A x \in Range(L) : x \in DOMAIN s.pages
      BY <1>2, ChainInDomain
    <3> QED
      BY <1>3, <1>4, <1>7, <3>1 DEF Old
  <2>2. ReadPage(u.pages, 0).kind # "list"
    <3>1. 0 \in DOMAIN u.pages /\ u.pages[0] \in Headers
      BY <1>4, <1>9
    <3> QED
      BY <3>1, HeaderIsNoList
  <2> QED
    BY <1>2, <1>9, <2>1, <2>2, ChainMoves
<1>14. Holds(u.pages, K)
  <2>1. SUFFICES ASSUME NEW b \in Data, K.at[b] # 0
                 PROVE  K.at[b] \in DOMAIN u.pages /\ Grown(K.content[b], u.pages[K.at[b]])
    BY DEF Holds
  <2>2. CASE b = d
    BY <1>9, <1>10, <2>2, SamePage
  <2>3. CASE b # d
    <3>1. H.at[b] # 0 /\ K.at[b] = H.at[b] /\ K.content[b] = H.content[b]
      BY <1>10, <2>1, <2>3
    <3>2. H.at[b] \in DOMAIN s.pages /\ Grown(H.content[b], s.pages[H.at[b]])
      BY <1>2, <3>1 DEF Holds
    <3>3. H.at[b] # a
      BY <1>1, <1>2, <2>3, <3>1, OnePlace
    <3>4. H.at[b] # 1
      BY <1>3, <3>1, DataOfIs
    <3> QED
      BY <1>9, <3>1, <3>2, <3>3, <3>4
  <2> QED
    BY <2>2, <2>3
<1>15. ASSUME NEW b \in Data, K.at[b] # 0
       PROVE  Moved(u, h, K, first, b)
  <2>1. Moved(s, h, H, first, b) /\ K.at[b] = H.at[b]
    BY <1>11, <1>15 DEF InBatch
  <2> QED
    BY <1>9, <2>1 DEF Moved
<1>16. InBatch(u, h, K, L, first, gone)
  BY <1>2, <1>9, <1>10, <1>11, <1>12, <1>13, <1>14, <1>15 DEF InBatch
<1> QED
  BY <1>1, <1>4, <1>6, <1>7, <1>8, <1>16

\* The manager t after s gave the page c, in the manager g, for the data page d:
\* to copy the page of the last version, or as a new page.
ForCopy(s, c, g, H, d, t) ==
    /\ t \in Managers /\ t.freePages = g.freePages /\ t.firstUnusedPage = g.firstUnusedPage
    /\ DOMAIN t.pages = DOMAIN s.pages \cup {c}
    /\ \A p \in DOMAIN s.pages : p # c => t.pages[p] = s.pages[p]
    /\ DOMAIN t.editedPages = DOMAIN s.editedPages \cup {c} \cup ({H.at[d]} \ {0})
    /\ t.editedPages[c] = c
    /\ H.at[d] # 0 => t.editedPages[H.at[d]] = c
    /\ \A p \in DOMAIN s.editedPages : p # c => t.editedPages[p] = s.editedPages[p]

\* A write to a page that the batch gets for it.
LEMMA WritesElsewhere ==
    ASSUME NEW s \in Managers, NEW h, NEW H, NEW L, NEW first, NEW gone,
           InBatch(s, h, H, L, first, gone),
           0 \in DOMAIN s.pages, s.pages[0] \in Headers, 1 \in DOMAIN s.pages, s.pages[1] = H,
           NEW content \in Contents, NEW d \in Data, d = content.data,
           H.at[d] # 0 => H.at[d] \notin DOMAIN s.editedPages,
           NEW c \in Nat, NEW g, Gives(s, c, g), NEW t, ForCopy(s, c, g, H, d, t)
    PROVE  /\ InBatch(Put(t, c, content), h, NewHeader(H, c, content), L, first, gone)
           /\ c \notin Old(h, L) /\ c >= 2
<1>0. /\ t \in Managers /\ t.freePages = g.freePages /\ t.firstUnusedPage = g.firstUnusedPage
      /\ DOMAIN t.pages = DOMAIN s.pages \cup {c}
      /\ \A p \in DOMAIN s.pages : p # c => t.pages[p] = s.pages[p]
      /\ DOMAIN t.editedPages = DOMAIN s.editedPages \cup {c} \cup ({H.at[d]} \ {0})
      /\ t.editedPages[c] = c
      /\ H.at[d] # 0 => t.editedPages[H.at[d]] = c
      /\ \A p \in DOMAIN s.editedPages : p # c => t.editedPages[p] = s.editedPages[p]
  BY DEF ForCopy
<1>1. PICK a, u, K : a = H.at[d] /\ u = Put(t, c, content) /\ K = NewHeader(H, c, content)
  OBVIOUS
<1>2. /\ h \in Headers /\ H \in Headers
      /\ H.freePages = h.freePages /\ H.lastVersion = h.lastVersion
      /\ Chain(s.pages, h.freePages, L) /\ Holds(s.pages, H)
  BY DEF InBatch
<1>3. \A x \in Old(h, L) \cup DataOf(H) : x \in Nat /\ x >= 2
  <2>1. Old(h, L) \cup DataOf(H) \subseteq Below(s.firstUnusedPage)
    BY DEF InBatch
  <2>2. s.firstUnusedPage \in Nat
    BY ManagerFields
  <2> QED
    BY <2>1, <2>2, BelowIs
<1>4. c >= 2 /\ c # 0 /\ c # 1 /\ c \notin Old(h, L) \cup DataOf(H)
  <2>1. Range(s.freePages) \cap (Old(h, L) \cup DataOf(H)) = {}
    BY DEF InBatch
  <2>2. Old(h, L) \cup DataOf(H) \subseteq Below(s.firstUnusedPage)
    BY DEF InBatch
  <2> QED
    BY <2>1, <2>2 DEF Gives
<1>5. a # 0 => a \in DataOf(H) /\ a # c /\ Moved(s, h, H, first, d)
  BY <1>1, <1>4, DataOfIs DEF InBatch
<1>6. a # 0 => ~first /\ h.at[d] = a
  BY <1>1, <1>5 DEF Moved
<1>7. a = 0 => h.at[d] = 0
  BY <1>1 DEF InBatch
<1>8. h.at[d] = a /\ (a # 0 => a \in DataOf(h))
  BY <1>6, <1>7, DataOfIs
<1>9. /\ u \in Managers /\ u.freePages = g.freePages
      /\ u.firstUnusedPage = g.firstUnusedPage /\ u.editedPages = t.editedPages
      /\ DOMAIN u.pages = DOMAIN s.pages \cup {c} /\ u.pages[1] = K
      /\ u.pages[c] = content
      /\ \A p \in DOMAIN s.pages : p # 1 /\ p # c => u.pages[p] = s.pages[p]
  <2>1. 1 \in DOMAIN t.pages /\ t.pages[1] = H
    BY <1>0, <1>4
  <2>2. /\ u \in Managers /\ u.freePages = t.freePages
        /\ u.firstUnusedPage = t.firstUnusedPage /\ u.editedPages = t.editedPages
        /\ DOMAIN u.pages = DOMAIN t.pages \cup {c} /\ u.pages[1] = K
        /\ u.pages[c] = content
        /\ \A p \in DOMAIN t.pages : p # 1 /\ p # c => u.pages[p] = t.pages[p]
    BY <1>0, <1>1, <1>2, <1>4, <2>1, PutIs
  <2> QED
    BY <1>0, <2>2
<1>10. /\ K \in Headers /\ K.freePages = H.freePages /\ K.lastVersion = H.lastVersion
       /\ K.at[d] = c /\ K.content[d] = content
       /\ \A b \in Data : b # d => K.at[b] = H.at[b] /\ K.content[b] = H.content[b]
  <2>1. PICK N : N = NewHeader(H, c, content)
    OBVIOUS
  <2>2. /\ N \in Headers /\ N.freePages = H.freePages /\ N.lastVersion = H.lastVersion
        /\ N.at[d] = c /\ N.content[d] = content
    BY <1>2, <1>4, <2>1, NewHeaderIs
  <2>3. \A b \in Data : b # d => N.at[b] = H.at[b] /\ N.content[b] = H.content[b]
    <3>1. \A b \in Data : b # d =>
             /\ NewHeader(H, c, content).at[b] = H.at[b]
             /\ NewHeader(H, c, content).content[b] = H.content[b]
      BY <1>2, <1>4, NewHeaderIs
    <3> QED
      BY <2>1, <3>1
  <2>4. K = N
    BY <1>1, <2>1
  <2> QED
    BY <2>2, <2>3, <2>4
<1>11. DataOf(K) \subseteq DataOf(H) \cup {c} /\ DataOf(H) \subseteq DataOf(K) \cup DataOf(h)
       /\ c \in DataOf(K)
  <2>1. ASSUME NEW x \in DataOf(K)
        PROVE  x \in DataOf(H) \cup {c}
    <3>1. PICK b \in Data : x = K.at[b] /\ x # 0
      BY DEF DataOf
    <3> QED
      BY <1>10, <3>1, DataOfIs
  <2>2. ASSUME NEW x \in DataOf(H)
        PROVE  x \in DataOf(K) \cup DataOf(h)
    <3>1. PICK b \in Data : x = H.at[b] /\ x # 0
      BY DEF DataOf
    <3>2. CASE b = d
      BY <1>1, <1>8, <3>1, <3>2
    <3>3. CASE b # d
      <4>1. K.at[b] = x
        BY <1>10, <3>1, <3>3
      <4> QED
        BY <3>1, <4>1, DataOfIs
    <3> QED
      BY <3>2, <3>3
  <2>3. c \in DataOf(K)
    BY <1>4, <1>10, DataOfIs
  <2> QED
    BY <2>1, <2>2, <2>3
<1>12. Chain(u.pages, h.freePages, L)
  <2>1. \A x \in Range(L) : x \in DOMAIN s.pages /\ x # 1 /\ x # c
    <3>1. \A x \in Range(L) : x \in DOMAIN s.pages
      BY <1>2, ChainInDomain
    <3> QED
      BY <1>3, <1>4, <3>1 DEF Old
  <2>2. ReadPage(u.pages, 0).kind # "list"
    <3>1. 0 \in DOMAIN u.pages /\ u.pages[0] \in Headers
      BY <1>4, <1>9
    <3> QED
      BY <3>1, HeaderIsNoList
  <2> QED
    BY <1>2, <1>9, <2>1, <2>2, ChainMoves
<1>13. Holds(u.pages, K)
  <2>1. SUFFICES ASSUME NEW b \in Data, K.at[b] # 0
                 PROVE  K.at[b] \in DOMAIN u.pages /\ Grown(K.content[b], u.pages[K.at[b]])
    BY DEF Holds
  <2>2. CASE b = d
    BY <1>9, <1>10, <2>2, SamePage
  <2>3. CASE b # d
    <3>1. H.at[b] # 0 /\ K.at[b] = H.at[b] /\ K.content[b] = H.content[b]
      BY <1>10, <2>1, <2>3
    <3>2. H.at[b] \in DOMAIN s.pages /\ Grown(H.content[b], s.pages[H.at[b]])
      BY <1>2, <3>1 DEF Holds
    <3>3. H.at[b] # c /\ H.at[b] # 1
      BY <1>3, <1>4, <3>1, DataOfIs
    <3> QED
      BY <1>9, <3>1, <3>2, <3>3
  <2> QED
    BY <2>2, <2>3
<1>14. ASSUME NEW b \in Data, K.at[b] # 0
       PROVE  Moved(u, h, K, first, b)
  <2>1. CASE b = d
    <3>1. c # h.at[d] /\ c \in DOMAIN t.editedPages /\ t.editedPages[c] = c
      BY <1>0, <1>4, <1>5, <1>8
    <3>2. h.at[d] # 0 => h.at[d] \in DOMAIN t.editedPages /\ t.editedPages[h.at[d]] = c
      BY <1>0, <1>1, <1>8
    <3> QED
      BY <1>9, <1>10, <2>1, <3>1, <3>2 DEF Moved
  <2>2. CASE b # d
    <3>1. K.at[b] = H.at[b] /\ K.content[b] = H.content[b] /\ H.at[b] # 0
      BY <1>10, <1>14, <2>2
    <3>2. Moved(s, h, H, first, b)
      BY <3>1 DEF InBatch
    <3>3. H.at[b] # c /\ h.at[b] # c
      <4>1. H.at[b] \in DataOf(H) /\ (h.at[b] # 0 => h.at[b] \in DataOf(h))
        BY <3>1, DataOfIs
      <4> QED
        BY <1>4, <4>1 DEF Old
    <3>4. H.at[b] # a
      BY <1>1, <1>2, <2>2, <3>1, OnePlace
    <3>5. H.at[b] = h.at[b] => h.at[b] # a
      BY <3>4
    <3>6. DOMAIN t.editedPages = DOMAIN s.editedPages \cup {c} \cup ({a} \ {0})
      BY <1>0, <1>1
    <3> QED
      BY <1>0, <1>9, <3>1, <3>2, <3>3, <3>4, <3>5, <3>6 DEF Moved
  <2> QED
    BY <2>1, <2>2
<1>15. \A b \in Data : h.at[b] # 0 => K.at[b] # 0
  <2>1. \A b \in Data : h.at[b] # 0 => H.at[b] # 0
    BY DEF InBatch
  <2> QED
    BY <1>4, <1>10, <2>1
<1>16. \A b \in Data : K.at[b] # h.at[b] => K.at[b] \notin DataOf(h)
  <2>1. \A b \in Data : H.at[b] # h.at[b] => H.at[b] \notin DataOf(h)
    BY DEF InBatch
  <2> QED
    BY <1>4, <1>10, <2>1 DEF Old
<1>17. \A p \in DOMAIN u.editedPages : p >= 2 => u.editedPages[p] = p \/ p \in DataOf(h)
  <2>1. \A p \in DOMAIN s.editedPages : p >= 2 => s.editedPages[p] = p \/ p \in DataOf(h)
    BY DEF InBatch
  <2> QED
    BY <1>0, <1>1, <1>8, <1>9, <2>1
<1>18. /\ DataOf(h) \cap Range(L) = {} /\ IsInjective(u.freePages)
       /\ Old(h, L) \cup DataOf(K) \cup Range(u.freePages) \subseteq Below(u.firstUnusedPage)
       /\ Range(u.freePages) \cap (Old(h, L) \cup DataOf(K)) = {}
       /\ Below(u.firstUnusedPage) \subseteq
              Old(h, L) \cup DataOf(K) \cup Range(u.freePages) \cup gone
  <2>1. /\ IsInjective(g.freePages) /\ c \notin Range(g.freePages)
        /\ Range(g.freePages) \subseteq Range(s.freePages)
        /\ Range(s.freePages) \subseteq Range(g.freePages) \cup {c}
        /\ Below(g.firstUnusedPage) = Below(s.firstUnusedPage) \cup {c}
    BY DEF Gives
  <2>2. /\ DataOf(h) \cap Range(L) = {}
        /\ Old(h, L) \cup DataOf(H) \cup Range(s.freePages) \subseteq Below(s.firstUnusedPage)
        /\ Range(s.freePages) \cap (Old(h, L) \cup DataOf(H)) = {}
        /\ Below(s.firstUnusedPage) \subseteq
               Old(h, L) \cup DataOf(H) \cup Range(s.freePages) \cup gone
    BY DEF InBatch
  <2>3. u.freePages = g.freePages /\ u.firstUnusedPage = g.firstUnusedPage
    BY <1>9
  <2>4. DataOf(h) \subseteq Old(h, L)
    BY DEF Old
  <2> QED
    BY <1>11, <2>1, <2>2, <2>3, <2>4
<1>19. InBatch(u, h, K, L, first, gone)
  BY <1>2, <1>10, <1>12, <1>13, <1>14, <1>15, <1>16, <1>17, <1>18 DEF InBatch
<1> QED
  BY <1>1, <1>4, <1>19

\* The manager u in a batch with header K, as a write leaves it.
Editing(u, K) ==
    /\ u \in Managers /\ InBatch(u, disk[0], K, OldList, First, lost)
    /\ 0 \in DOMAIN u.pages /\ u.pages[0] = pm.pages[0] /\ u.pages[0] \in Headers
    /\ 1 \in DOMAIN u.pages /\ u.pages[1] = K /\ K \in Headers
    /\ 0 \in DOMAIN u.editedPages
    /\ ~First => \A x \in Old(disk[0], OldList) :
                    /\ x \in DOMAIN pm.pages /\ x \in DOMAIN u.pages
                    /\ Grown(pm.pages[x], u.pages[x])

\* The invariant after a write, from what it did to the batch.
LEMMA BatchWrites ==
    ASSUME PageInv, flushPc = "none", UNCHANGED <<disk, flushPc, released, lost>>,
           NEW u, pm' = u, NEW K, Editing(u, K)
    PROVE  PageInv'
<1>1. TypeInv /\ BatchInv
  BY DEF PageInv
<1>0. /\ u \in Managers /\ InBatch(u, disk[0], K, OldList, First, lost)
      /\ 0 \in DOMAIN u.pages /\ u.pages[0] = pm.pages[0] /\ u.pages[0] \in Headers
      /\ 1 \in DOMAIN u.pages /\ u.pages[1] = K /\ K \in Headers
      /\ 0 \in DOMAIN u.editedPages
      /\ ~First => \A x \in Old(disk[0], OldList) :
                      x \in DOMAIN u.pages /\ Grown(pm.pages[x], u.pages[x])
  BY DEF Editing
<1>2. TypeInv'
  BY <1>0, <1>1 DEF TypeInv
<1>3. PICK L : L = OldList
  OBVIOUS
<1>4. disk' = disk /\ flushPc' = "none" /\ released' = <<>> /\ lost' = lost
  BY <1>1 DEF BatchInv
<1>5. OldList' = L
  <2>1. Chain(u.pages, disk[0].freePages, L) /\ u.pages \in PageSets
    BY <1>0, <1>3, ManagerFields DEF InBatch
  <2>2. GetContainerPages(u.pages, disk[0].freePages) = L
    BY <2>1, ListIs
  <2> QED
    BY <1>4, <2>2 DEF OldList
<1>6. Header' = K /\ (First' <=> First)
  BY <1>0, <1>4 DEF Header, headerPageNumber, First
<1>7. InBatch(u, disk[0], K, L, First, lost)
  BY <1>0, <1>3
<1>8. InBatch(pm, disk[0], Header, OldList, First, lost)'
  <2>1. CASE First
    <3>1. InBatch(u, disk[0], K, L, TRUE, lost) /\ First'
      BY <1>6, <1>7, <2>1
    <3> QED
      BY <1>4, <1>5, <1>6, <1>7, <3>1
  <2>2. CASE ~First
    BY <1>4, <1>5, <1>6, <1>7, <2>2
  <2> QED
    BY <2>1, <2>2
<1>9. DiskHas'
  <2>1. CASE First
    BY <1>1, <1>4, <1>6, <2>1 DEF BatchInv, DiskHas
  <2>2. CASE ~First
    <3>1. Safe(disk, disk[0], L, lost) /\ Agree(disk, pm.pages, Old(disk[0], L))
      BY <1>1, <1>3, <2>2 DEF BatchInv, DiskHas
    <3>2. Agree(disk, u.pages, Old(disk[0], L))
      <4>1. Agree(pm.pages, u.pages, Old(disk[0], L))
        BY <1>0, <1>3, <2>2, <3>1 DEF Agree
      <4> QED
        BY <1>0, <1>1, <3>1, <4>1, AgreeTwice, ManagerFields DEF TypeInv
    <3> QED
      BY <1>4, <1>5, <1>6, <2>2, <3>1, <3>2 DEF DiskHas
  <2> QED
    BY <2>1, <2>2
<1>10. BatchInv'
  BY <1>0, <1>1, <1>4, <1>8, <1>9 DEF BatchInv
<1> QED
  BY <1>2, <1>4, <1>10 DEF PageInv

\* What a batch does first: it takes its header.
LEMMA HeaderOfBatch ==
    ASSUME PageInv, flushPc = "none", NEW s, s = editPage(pm, headerPageNumber)
    PROVE  /\ s \in Managers /\ InBatch(s, disk[0], Header, OldList, First, lost)
           /\ 0 \in DOMAIN s.pages /\ s.pages[0] \in Headers /\ s.pages[0] = pm.pages[0]
           /\ 1 \in DOMAIN s.pages /\ s.pages[1] = Header /\ 0 \in DOMAIN s.editedPages
           /\ SameAbove(pm, s) /\ Unused(s) /\ Header \in Headers
           /\ DOMAIN s.pages = DOMAIN pm.pages \cup {1}
           /\ \A x \in Old(disk[0], OldList) :
                 x \in Nat /\ x >= 2 /\ (x \in DOMAIN pm.pages => s.pages[x] = pm.pages[x])
<1>1. TypeInv /\ BatchInv
  BY DEF PageInv
<1>2. /\ 0 \in DOMAIN pm.editedPages => 1 \in DOMAIN pm.pages
      /\ InBatch(pm, disk[0], Header, OldList, First, lost)
      /\ pm \in Managers /\ 0 \in DOMAIN pm.pages /\ pm.pages[0] \in Headers
  BY <1>1 DEF BatchInv, TypeInv
<1>3. /\ s \in Managers /\ SameAbove(pm, s)
      /\ DOMAIN s.pages = DOMAIN pm.pages \cup {1} /\ s.pages[1] = Header
      /\ s.pages[0] = pm.pages[0] /\ 0 \in DOMAIN s.editedPages
  BY <1>1, <1>2, HeaderEdits
<1>4. ReadPage(s.pages, 0).kind # "list"
  <2>1. 0 \in DOMAIN s.pages /\ s.pages[0] \in Headers
    BY <1>2, <1>3
  <2> QED
    BY <2>1, HeaderIsNoList
<1>5. InBatch(s, disk[0], Header, OldList, First, lost)
  BY <1>2, <1>3, <1>4, SameBatch
<1>6. Unused(s) /\ Header \in Headers
  BY <1>3, <1>5, BatchIsUnused DEF InBatch
<1>7. \A x \in Old(disk[0], OldList) :
         x \in Nat /\ x >= 2 /\ (x \in DOMAIN pm.pages => s.pages[x] = pm.pages[x])
  <2>1. Old(disk[0], OldList) \subseteq Below(pm.firstUnusedPage)
    BY <1>2 DEF InBatch
  <2>2. pm.firstUnusedPage \in Nat
    BY <1>2, ManagerFields
  <2> QED
    BY <1>3, <2>1, <2>2, BelowIs DEF SameAbove
<1> QED
  BY <1>2, <1>3, <1>5, <1>6, <1>7

\* What a batch does first: it takes its header, and has the pages of the last
\* version as the disk has them.
LEMMA BatchIsEdited ==
    ASSUME PageInv, flushPc = "none", NEW s, s = editPage(pm, headerPageNumber)
    PROVE  Editing(s, Header)
<1>1. /\ s \in Managers /\ InBatch(s, disk[0], Header, OldList, First, lost)
      /\ 0 \in DOMAIN s.pages /\ s.pages[0] \in Headers /\ s.pages[0] = pm.pages[0]
      /\ 1 \in DOMAIN s.pages /\ s.pages[1] = Header /\ 0 \in DOMAIN s.editedPages
      /\ DOMAIN s.pages = DOMAIN pm.pages \cup {1} /\ Header \in Headers
      /\ \A x \in Old(disk[0], OldList) :
            x \in Nat /\ x >= 2 /\ (x \in DOMAIN pm.pages => s.pages[x] = pm.pages[x])
  BY HeaderOfBatch
<1>2. ~First => \A x \in Old(disk[0], OldList) : x \in DOMAIN pm.pages
  BY DEF PageInv, BatchInv, DiskHas, Agree
<1>3. ~First => \A x \in Old(disk[0], OldList) :
                   x \in DOMAIN s.pages /\ Grown(pm.pages[x], s.pages[x])
  BY <1>1, <1>2, SamePage
<1> QED
  BY <1>1, <1>2, <1>3 DEF Editing

\* A write to a page of the batch, or one that leaves in the page what it had
LEMMA EditsInPlace ==
    ASSUME PageInv, NEW s, NEW H, Editing(s, H),
           NEW content \in Contents, NEW d \in Data, d = content.data, NEW a, a = H.at[d], a # 0,
           a \in DOMAIN s.editedPages \/ Grown(s.pages[a], content)
    PROVE  Editing(Put(s, a, content), NewHeader(H, a, content))
<1>1. /\ s \in Managers /\ InBatch(s, disk[0], H, OldList, First, lost)
      /\ 0 \in DOMAIN s.pages /\ s.pages[0] = pm.pages[0] /\ s.pages[0] \in Headers
      /\ 1 \in DOMAIN s.pages /\ s.pages[1] = H /\ H \in Headers
      /\ 0 \in DOMAIN s.editedPages
      /\ ~First => \A x \in Old(disk[0], OldList) :
                      x \in DOMAIN s.pages /\ Grown(pm.pages[x], s.pages[x])
  BY DEF Editing
<1>2. /\ InBatch(Put(s, a, content), disk[0], NewHeader(H, a, content), OldList, First, lost)
      /\ a \in Nat /\ a >= 2
      /\ a \in DOMAIN s.editedPages /\ ~First => a \notin Old(disk[0], OldList)
  <2>1. PICK h, L, first, gone : h = disk[0] /\ L = OldList /\ first = First /\ gone = lost
    OBVIOUS
  <2>2. InBatch(s, h, H, L, first, gone)
    BY <1>1, <2>1
  <2>3. /\ InBatch(Put(s, H.at[d], content), h, NewHeader(H, H.at[d], content), L, first, gone)
        /\ H.at[d] \in Nat /\ H.at[d] >= 2
        /\ H.at[d] \in DOMAIN s.editedPages /\ ~first => H.at[d] \notin Old(h, L)
    BY <1>1, <2>2, WritesInPlace
  <2> QED
    BY <2>1, <2>3
<1>3. PICK u, K : u = Put(s, a, content) /\ K = NewHeader(H, a, content)
  OBVIOUS
<1>4. /\ u \in Managers /\ u.editedPages = s.editedPages
      /\ DOMAIN u.pages = DOMAIN s.pages \cup {a} /\ u.pages[1] = K
      /\ u.pages[a] = content
      /\ \A p \in DOMAIN s.pages : p # 1 /\ p # a => u.pages[p] = s.pages[p]
  BY <1>1, <1>2, <1>3, PutIs
<1>5. ASSUME ~First, NEW x \in Old(disk[0], OldList)
      PROVE  /\ x \in DOMAIN pm.pages /\ x \in DOMAIN u.pages
             /\ Grown(pm.pages[x], u.pages[x])
  <2>1. x \in DOMAIN s.pages /\ Grown(pm.pages[x], s.pages[x]) /\ x \in DOMAIN pm.pages /\ x # 1
    <3>1. x \in DOMAIN pm.pages
      BY <1>5 DEF Editing
    <3>2. x \in Below(s.firstUnusedPage)
      BY <1>1, <1>5 DEF InBatch
    <3> QED
      BY <1>1, <1>5, <3>1, <3>2, ManagerFields, BelowIs
  <2>2. CASE x # a
    BY <1>4, <2>1, <2>2
  <2>3. CASE x = a
    <3>1. Grown(s.pages[x], content)
      BY <1>2, <1>5, <2>3
    <3>2. pm.pages[x] \in Pages /\ s.pages[x] \in Pages /\ content \in Pages
      <4>1. pm.pages \in PageSets /\ s.pages \in PageSets
        BY <1>1, ManagerFields DEF PageInv, TypeInv
      <4> QED
        BY <2>1, <4>1, PagesAre, ContentIs
    <3> QED
      BY <1>4, <2>1, <2>3, <3>1, <3>2, GrowsTwice
  <2> QED
    BY <2>2, <2>3
<1>6. K \in Headers
  BY <1>2, <1>3 DEF InBatch
<1>7. InBatch(u, disk[0], K, OldList, First, lost)
  BY <1>2, <1>3
<1>8. /\ 0 \in DOMAIN u.pages /\ u.pages[0] = pm.pages[0] /\ u.pages[0] \in Headers
      /\ 1 \in DOMAIN u.pages
  BY <1>1, <1>2, <1>4
<1>9. Editing(u, K)
  BY <1>1, <1>4, <1>5, <1>6, <1>7, <1>8 DEF Editing
<1> QED
  BY <1>3, <1>9

\* A write to a page that the batch gets for it
LEMMA EditsElsewhere ==
    ASSUME PageInv, NEW s, NEW H, Editing(s, H),
           NEW content \in Contents, NEW d \in Data, d = content.data,
           H.at[d] # 0 => H.at[d] \notin DOMAIN s.editedPages,
           NEW c \in Nat, NEW g, Gives(s, c, g), NEW t, ForCopy(s, c, g, H, d, t)
    PROVE  Editing(Put(t, c, content), NewHeader(H, c, content))
<1>1. /\ s \in Managers /\ InBatch(s, disk[0], H, OldList, First, lost)
      /\ 0 \in DOMAIN s.pages /\ s.pages[0] = pm.pages[0] /\ s.pages[0] \in Headers
      /\ 1 \in DOMAIN s.pages /\ s.pages[1] = H /\ H \in Headers
      /\ 0 \in DOMAIN s.editedPages
      /\ ~First => \A x \in Old(disk[0], OldList) :
                      x \in DOMAIN s.pages /\ Grown(pm.pages[x], s.pages[x])
  BY DEF Editing
<1>2. /\ InBatch(Put(t, c, content), disk[0], NewHeader(H, c, content), OldList, First, lost)
      /\ c \notin Old(disk[0], OldList) /\ c >= 2
  <2>1. PICK h, L, first, gone : h = disk[0] /\ L = OldList /\ first = First /\ gone = lost
    OBVIOUS
  <2>2. InBatch(s, h, H, L, first, gone)
    BY <1>1, <2>1
  <2>3. /\ InBatch(Put(t, c, content), h, NewHeader(H, c, content), L, first, gone)
        /\ c \notin Old(h, L) /\ c >= 2
    BY <1>1, <2>2, WritesElsewhere
  <2> QED
    BY <2>1, <2>3
<1>3. PICK u, K : u = Put(t, c, content) /\ K = NewHeader(H, c, content)
  OBVIOUS
<1>4. /\ t \in Managers /\ DOMAIN t.pages = DOMAIN s.pages \cup {c}
      /\ \A p \in DOMAIN s.pages : p # c => t.pages[p] = s.pages[p]
      /\ DOMAIN t.editedPages = DOMAIN s.editedPages \cup {c} \cup ({H.at[d]} \ {0})
  BY DEF ForCopy
<1>5. 1 \in DOMAIN t.pages /\ t.pages[1] = H
  BY <1>1, <1>2, <1>4
<1>6. /\ u \in Managers /\ u.editedPages = t.editedPages
      /\ DOMAIN u.pages = DOMAIN t.pages \cup {c} /\ u.pages[1] = K
      /\ \A p \in DOMAIN t.pages : p # 1 /\ p # c => u.pages[p] = t.pages[p]
  BY <1>1, <1>2, <1>3, <1>4, <1>5, PutIs
<1>7. \A p \in DOMAIN s.pages : p # 1 /\ p # c => p \in DOMAIN u.pages /\ u.pages[p] = s.pages[p]
  BY <1>4, <1>6
<1>8. ASSUME ~First, NEW x \in Old(disk[0], OldList)
      PROVE  /\ x \in DOMAIN pm.pages /\ x \in DOMAIN u.pages
             /\ Grown(pm.pages[x], u.pages[x])
  <2>1. /\ x \in DOMAIN s.pages /\ Grown(pm.pages[x], s.pages[x]) /\ x # c
        /\ x \in DOMAIN pm.pages
    BY <1>1, <1>2, <1>8 DEF Editing
  <2>2. x # 1
    <3>1. x \in Below(s.firstUnusedPage)
      BY <1>1, <1>8 DEF InBatch
    <3> QED
      BY <1>1, <3>1, ManagerFields, BelowIs
  <2> QED
    BY <1>7, <2>1, <2>2
<1>9. K \in Headers
  BY <1>2, <1>3 DEF InBatch
<1>10. InBatch(u, disk[0], K, OldList, First, lost)
  BY <1>2, <1>3
<1>11. /\ 0 \in DOMAIN u.pages /\ u.pages[0] = pm.pages[0] /\ u.pages[0] \in Headers
       /\ 1 \in DOMAIN u.pages /\ 0 \in DOMAIN u.editedPages
  BY <1>1, <1>2, <1>4, <1>5, <1>6, <1>7
<1>12. Editing(u, K)
  BY <1>6, <1>8, <1>9, <1>10, <1>11 DEF Editing
<1> QED
  BY <1>3, <1>12

\* A value after those of the current page of raw data, in place
LEMMA AppendKeeps ==
    ASSUME PageInv, NEW s, NEW H, Editing(s, H), RawData(s).next = 0, NEW next \in Nat
    PROVE  \E K : /\ Editing(AppendRaw(s, next), K)
                  /\ \A d \in Data : K.at[d] = H.at[d]
                  /\ AppendRaw(s, next).freePages = s.freePages
                  /\ AppendRaw(s, next).firstUnusedPage = s.firstUnusedPage
<1>1. /\ s \in Managers /\ InBatch(s, disk[0], H, OldList, First, lost)
      /\ 1 \in DOMAIN s.pages /\ s.pages[1] = H /\ H \in Headers
      /\ s.pages \in PageSets /\ Holds(s.pages, H)
  BY ManagerFields DEF Editing, InBatch
<1>2. PICK r, a : r = H.rawData /\ a = H.at[r]
  OBVIOUS
<1>3. r \in Raw /\ r \in Data /\ a # 0 /\ a \in Nat /\ H.at \in [Data -> Nat]
  BY <1>1, <1>2, HeaderFields, RawIsData
<1>4. PICK page : page = s.pages[a]
  OBVIOUS
<1>5. a \in DOMAIN s.pages /\ page.data = r /\ page.kind = "raw"
  BY <1>1, <1>2, <1>3, <1>4, FoundAt
<1>6. page \in Pages
  BY <1>1, <1>4, <1>5, PagesAre
<1>7. page \in RawPages
  BY <1>5, <1>6 DEF Pages, Contents, DataPages, RawPages, ListPages, Headers, ZeroPage
<1>8. page.next = 0 /\ page.value \in Nat
  BY <1>1, <1>2, <1>4, <1>7 DEF RawData, RawPages
<1>9. PICK content : content = RawPage(r, page.value + 1, next)
  OBVIOUS
<1>10. content \in Contents /\ content.data = r
  BY <1>3, <1>8, <1>9 DEF RawPage, RawPages, Contents
<1>11. Grown(page, content)
  BY <1>5, <1>8, <1>9 DEF RawPage, Grown
<1>12. PICK u, K : u = Put(s, a, content) /\ K = NewHeader(H, a, content)
  OBVIOUS
<1>13. AppendRaw(s, next) = u
  BY <1>1, <1>2, <1>4, <1>9, <1>12 DEF AppendRaw, RawData
<1>14. Editing(u, K)
  BY <1>1, <1>2, <1>3, <1>4, <1>10, <1>11, <1>12, EditsInPlace
<1>15. a >= 2
  <2>1. a \in DataOf(H) /\ DataOf(H) \subseteq Below(s.firstUnusedPage)
    BY <1>1, <1>2, <1>3, DataOfIs DEF InBatch
  <2> QED
    BY <1>1, <2>1, ManagerFields, BelowIs
<1>16. u.freePages = s.freePages /\ u.firstUnusedPage = s.firstUnusedPage
  BY <1>1, <1>3, <1>10, <1>12, <1>15, PutIs
<1>17. \A d \in Data : K.at[d] = H.at[d]
  <2>1. NewHeader(H, a, content).at[r] = a
    BY <1>1, <1>3, <1>10, NewHeaderIs
  <2>2. \A d \in Data : d # r => NewHeader(H, a, content).at[d] = H.at[d]
    BY <1>1, <1>3, <1>10, NewHeaderIs
  <2> QED
    BY <1>2, <1>12, <2>1, <2>2
<1> QED
  BY <1>13, <1>14, <1>16, <1>17

\* What a page that the batch gets does to the maps
LEMMA ForNew ==
    ASSUME PageInv, NEW s, NEW H, Editing(s, H), NEW d \in Data, H.at[d] = 0
    PROVE  /\ FreePage(s) \in Nat /\ Gives(s, FreePage(s), getFreePage(s))
           /\ ForCopy(s, FreePage(s), getFreePage(s), H, d, getFreePage(s))
<1>1. s \in Managers /\ Unused(s)
  BY BatchIsUnused DEF Editing
<1>2. PICK c, g : c = FreePage(s) /\ g = getFreePage(s)
  OBVIOUS
<1>3. /\ c \in Nat /\ g \in Managers /\ Gives(s, c, g)
      /\ g.pages = With(s.pages, c, ZeroPage) /\ g.editedPages = With(s.editedPages, c, c)
  BY <1>1, <1>2, GetsType, GetsFree
<1>4. /\ DOMAIN g.pages = DOMAIN s.pages \cup {c}
      /\ \A p \in DOMAIN s.pages : p # c => g.pages[p] = s.pages[p]
  BY <1>3 DEF With
<1>5. /\ DOMAIN g.editedPages = DOMAIN s.editedPages \cup {c} \cup ({H.at[d]} \ {0})
      /\ g.editedPages[c] = c
      /\ \A p \in DOMAIN s.editedPages : p # c => g.editedPages[p] = s.editedPages[p]
  BY <1>3 DEF With
<1>6. ForCopy(s, c, g, H, d, g)
  BY <1>3, <1>4, <1>5 DEF ForCopy
<1> QED
  BY <1>2, <1>3, <1>6

\* The page of raw data is full: another one is linked to it.
LEMMA LinkKeeps ==
    ASSUME PageInv, NEW s, NEW H, Editing(s, H), RawData(s).next = 0,
           NEW d \in Raw, H.at[d] = 0
    PROVE  \E K : Editing(LinkRaw(s, d), K)
<1>1. s \in Managers /\ Unused(s) /\ d \in Data
  BY BatchIsUnused, RawIsData DEF Editing
<1>2. PICK c : c = FreePage(s)
  OBVIOUS
<1>3. c \in Nat
  BY <1>1, <1>2, GetsType
<1>4. PICK v : v = AppendRaw(s, c)
  OBVIOUS
<1>5. PICK G : /\ Editing(v, G) /\ \A b \in Data : G.at[b] = H.at[b]
               /\ v.freePages = s.freePages /\ v.firstUnusedPage = s.firstUnusedPage
  BY <1>3, <1>4, AppendKeeps
<1>6. FreePage(v) = c /\ G.at[d] = 0
  BY <1>1, <1>2, <1>5 DEF FreePage
<1>7. PICK g : g = getFreePage(v)
  OBVIOUS
<1>8. c \in Nat /\ Gives(v, c, g) /\ ForCopy(v, c, g, G, d, g)
  BY <1>1, <1>5, <1>6, <1>7, ForNew
<1>9. PICK content : content = RawPage(d, 1, 0)
  OBVIOUS
<1>10. content \in Contents /\ content.data = d
  BY <1>9 DEF RawPage, RawPages, Contents
<1>11. Editing(Put(g, c, content), NewHeader(G, c, content))
  BY <1>1, <1>5, <1>6, <1>8, <1>10, EditsElsewhere
<1>12. LinkRaw(s, d) = Put(g, c, content)
  BY <1>2, <1>4, <1>7, <1>9 DEF LinkRaw
<1> QED
  BY <1>11, <1>12

\* The raw data after a write, whether it takes the value or not
LEMMA RawKeeps ==
    ASSUME PageInv, flushPc = "none", UNCHANGED <<disk, flushPc, released, lost>>,
           NEW s, NEW H, Editing(s, H), pm' \in {s} \cup RawWrites(s)
    PROVE  PageInv'
<1>1. CASE pm' = s
  BY <1>1, BatchWrites
<1>2. CASE pm' \in RawWrites(s)
  <2>1. RawData(s).next = 0
    BY <1>2 DEF RawWrites, Accepts
  <2>2. CASE pm' = AppendRaw(s, 0)
    <3>1. \E K : Editing(AppendRaw(s, 0), K)
      BY <2>1, AppendKeeps
    <3> QED
      BY <2>2, <3>1, BatchWrites
  <2>3. CASE pm' # AppendRaw(s, 0)
    <3>1. PICK d \in Raw : s.pages[1].at[d] = 0 /\ pm' = LinkRaw(s, d)
      BY <1>2, <2>1, <2>3 DEF RawWrites, Accepts
    <3>2. H.at[d] = 0
      BY <3>1 DEF Editing
    <3>3. \E K : Editing(LinkRaw(s, d), K)
      BY <2>1, <3>2, LinkKeeps
    <3> QED
      BY <3>1, <3>3, BatchWrites
  <2> QED
    BY <2>2, <2>3
<1> QED
  BY <1>1, <1>2

LEMMA WriteKeeps ==
    ASSUME PageInv, NEW d \in Data \ Raw, Write(d)
    PROVE  PageInv'
<1>1. PICK s, H : s = editPage(pm, headerPageNumber) /\ H = Header
  OBVIOUS
<1>2. PICK a : a = H.at[d]
  OBVIOUS
<1>3. PICK r : r = editPage(s, a)
  OBVIOUS
<1>4. PICK b : b = r.editedPages[a]
  OBVIOUS
<1>5. PICK content : content = DataPage(d, H.content[d].value + 1)
  OBVIOUS
<1>6. /\ flushPc = "none" /\ a # 0 /\ pm' \in PutValue(r, d, b)
      /\ UNCHANGED <<disk, flushPc, released, lost>>
  BY <1>1, <1>2, <1>3, <1>4 DEF Write
<1>7. Editing(s, H)
  BY <1>1, <1>6, BatchIsEdited
<1>8. /\ s \in Managers /\ InBatch(s, disk[0], H, OldList, First, lost) /\ H \in Headers
      /\ 0 \in DOMAIN s.pages /\ s.pages[0] \in Headers
      /\ 1 \in DOMAIN s.pages /\ s.pages[1] = H /\ Unused(s)
  BY <1>7, BatchIsUnused DEF Editing
<1>9. content \in Contents /\ content.data = d
  <2>1. H.content[d] \in Contents /\ H.content[d].data = d
    BY <1>8, HeaderFields
  <2>2. H.content[d].value \in Nat
    BY <2>1 DEF Contents, DataPages, RawPages
  <2> QED
    BY <1>5, <2>2 DEF DataPage, DataPages, Contents
<1>10. CASE a \in DOMAIN s.editedPages
  <2>1. r = s
    BY <1>3, <1>10 DEF editPage
  <2>2. s.editedPages[a] = a
    <3>1. d = content.data /\ H.at[d] # 0 /\ d \in Data
      BY <1>2, <1>6, <1>9
    <3>2. PICK h, L, first, gone : h = disk[0] /\ L = OldList /\ first = First /\ gone = lost
      OBVIOUS
    <3>3. InBatch(s, h, H, L, first, gone)
      BY <1>8, <3>2
    <3>4. H.at[d] \in DOMAIN s.editedPages => s.editedPages[H.at[d]] = H.at[d]
      BY <1>8, <1>9, <3>1, <3>3, WritesInPlace
    <3> QED
      BY <1>2, <1>10, <3>4
  <2>3. Editing(Put(s, a, content), NewHeader(H, a, content))
    BY <1>2, <1>6, <1>7, <1>9, <1>10, EditsInPlace
  <2>4. PICK u : u = Put(s, a, content)
    OBVIOUS
  <2>5. pm' \in {u} \cup RawWrites(u)
    BY <1>4, <1>5, <1>6, <1>8, <2>1, <2>2, <2>4 DEF PutValue
  <2> QED
    BY <1>6, <2>3, <2>4, <2>5, RawKeeps
<1>11. CASE a \notin DOMAIN s.editedPages
  <2>1. PICK c, g : c = FreePage(s) /\ g = getFreePage(s)
    OBVIOUS
  <2>2. /\ c \in Nat /\ g \in Managers /\ Gives(s, c, g)
        /\ g.pages = With(s.pages, c, ZeroPage) /\ g.editedPages = With(s.editedPages, c, c)
    BY <1>8, <2>1, GetsType, GetsFree
  <2>3. a \in DOMAIN s.pages /\ s.pages[a] \in Pages /\ a \in Nat /\ a >= 2 /\ a \in DataOf(H)
    <3>1. a \in DOMAIN s.pages
      BY <1>2, <1>6, <1>8 DEF InBatch, Holds
    <3>2. s.pages[a] \in Pages
      BY <1>8, <3>1, PagesAre, ManagerFields
    <3>3. a \in DataOf(H) /\ DataOf(H) \subseteq Below(s.firstUnusedPage)
      BY <1>2, <1>6, <1>8, DataOfIs DEF InBatch
    <3> QED
      BY <1>8, <3>1, <3>2, <3>3, ManagerFields, BelowIs
  <2>4. PICK Q, E : Q = With(g.pages, c, s.pages[a]) /\ E = With(g.editedPages, a, c)
    OBVIOUS
  <2>5. r = [g EXCEPT !.pages = Q, !.editedPages = E]
    <3>1. ~(a <= 1)
      BY <2>3
    <3> QED
      BY <1>3, <1>11, <2>1, <2>4, <3>1 DEF editPage
  <2>6. Q \in PageSets /\ E \in Edits
    BY <2>2, <2>3, <2>4, ManagerFields, WithPage, WithEdit
  <2>7. /\ r \in Managers /\ r.pages = Q /\ r.editedPages = E
        /\ r.freePages = g.freePages /\ r.firstUnusedPage = g.firstUnusedPage
    BY <2>2, <2>5, <2>6 DEF Managers
  <2>8. c # a /\ c # 1
    <3>1. a \in Below(s.firstUnusedPage) /\ a \notin Range(s.freePages)
      BY <1>8, <2>3 DEF InBatch
    <3> QED
      BY <2>2, <3>1 DEF Gives
  <2>9. /\ DOMAIN r.pages = DOMAIN s.pages \cup {c}
        /\ \A p \in DOMAIN s.pages : p # c => r.pages[p] = s.pages[p]
    BY <2>2, <2>4, <2>7 DEF With
  <2>10. /\ DOMAIN r.editedPages = DOMAIN s.editedPages \cup {c} \cup ({H.at[d]} \ {0})
         /\ r.editedPages[c] = c /\ r.editedPages[a] = c
         /\ \A p \in DOMAIN s.editedPages : p # c => r.editedPages[p] = s.editedPages[p]
    <3>1. /\ DOMAIN g.editedPages = DOMAIN s.editedPages \cup {c}
          /\ g.editedPages[c] = c
          /\ \A p \in DOMAIN s.editedPages : p # c => g.editedPages[p] = s.editedPages[p]
      BY <2>2 DEF With
    <3>2. /\ DOMAIN E = DOMAIN g.editedPages \cup {a} /\ E[a] = c
          /\ \A p \in DOMAIN g.editedPages : p # a => E[p] = g.editedPages[p]
      BY <2>4 DEF With
    <3> QED
      BY <1>2, <1>6, <1>11, <2>7, <2>8, <3>1, <3>2
  <2>11. Editing(Put(r, c, content), NewHeader(H, c, content))
    <3>1. H.at[d] # 0 => H.at[d] \notin DOMAIN s.editedPages
      BY <1>2, <1>11
    <3>2. H.at[d] # 0 => r.editedPages[H.at[d]] = c
      BY <1>2, <2>10
    <3>3. r \in Managers /\ r.freePages = g.freePages /\ r.firstUnusedPage = g.firstUnusedPage
      BY <2>7
    <3>4. ForCopy(s, c, g, H, d, r)
      BY <2>9, <2>10, <3>2, <3>3 DEF ForCopy
    <3>5. c \in Nat /\ Gives(s, c, g)
      BY <2>2
    <3> QED
      BY <1>7, <1>9, <3>1, <3>4, <3>5, EditsElsewhere
  <2>12. r.pages[1] = H
    BY <1>8, <2>8, <2>9
  <2>13. PICK u : u = Put(r, c, content)
    OBVIOUS
  <2>14. pm' \in {u} \cup RawWrites(u)
    BY <1>4, <1>5, <1>6, <2>10, <2>12, <2>13 DEF PutValue
  <2> QED
    BY <1>6, <2>11, <2>13, <2>14, RawKeeps
<1> QED
  BY <1>10, <1>11

LEMMA WriteNewKeeps ==
    ASSUME PageInv, NEW d \in Data \ Raw, WriteNew(d)
    PROVE  PageInv'
<1>1. PICK s, H : s = editPage(pm, headerPageNumber) /\ H = Header
  OBVIOUS
<1>2. PICK c, g : c = FreePage(s) /\ g = getFreePage(s)
  OBVIOUS
<1>3. PICK content : content = DataPage(d, H.content[d].value + 1)
  OBVIOUS
<1>4. /\ flushPc = "none" /\ H.at[d] = 0 /\ pm' \in PutValue(g, d, c)
      /\ UNCHANGED <<disk, flushPc, released, lost>>
  BY <1>1, <1>2 DEF WriteNew
<1>5. Editing(s, H)
  BY <1>1, <1>4, BatchIsEdited
<1>6. H \in Headers /\ 1 \in DOMAIN s.pages /\ s.pages[1] = H
  BY <1>5 DEF Editing
<1>7. content \in Contents /\ content.data = d
  <2>1. H.content[d] \in Contents /\ H.content[d].data = d
    BY <1>6, HeaderFields
  <2>2. H.content[d].value \in Nat
    BY <2>1 DEF Contents, DataPages, RawPages
  <2> QED
    BY <1>3, <2>2 DEF DataPage, DataPages, Contents
<1>8. c \in Nat /\ Gives(s, c, g) /\ ForCopy(s, c, g, H, d, g)
  BY <1>2, <1>4, <1>5, ForNew
<1>9. Editing(Put(g, c, content), NewHeader(H, c, content))
  BY <1>4, <1>5, <1>7, <1>8, EditsElsewhere
<1>10. g.pages[1] = H
  <2>1. c # 1
    BY <1>8 DEF Gives
  <2> QED
    BY <1>6, <1>8, <2>1 DEF ForCopy
<1>11. PICK u : u = Put(g, c, content)
  OBVIOUS
<1>12. pm' \in {u} \cup RawWrites(u)
  BY <1>3, <1>4, <1>10, <1>11 DEF PutValue
<1> QED
  BY <1>4, <1>9, <1>11, <1>12, RawKeeps

-----------------------------------------------------------------------------
(* A flush                                                                 *)

\* The pages that a flush replaces are pages of the last version that the
\* batch no longer has.
LEMMA CopiedPagesAre ==
    ASSUME pm \in Managers, NEW h, NEW H, NEW L, NEW first, NEW gone,
           InBatch(pm, h, H, L, first, gone)
    PROVE  /\ copiedPages \subseteq DataOf(h) /\ copiedPages \cap DataOf(H) = {}
           /\ DataOf(h) \subseteq DataOf(H) \cup copiedPages
           /\ IsFiniteSet(copiedPages) /\ copiedPages \subseteq Nat
<1>1. copiedPages \subseteq DataOf(h)
  BY DEF copiedPages, InBatch
<1>2. copiedPages \cap DataOf(H) = {}
  <2>1. SUFFICES ASSUME NEW d \in Data, H.at[d] # 0, H.at[d] \in copiedPages PROVE FALSE
    BY DEF DataOf
  <2>2. Moved(pm, h, H, first, d)
    BY <2>1 DEF InBatch
  <2>3. H.at[d] \in DOMAIN pm.editedPages /\ pm.editedPages[H.at[d]] # H.at[d]
    BY <2>1 DEF copiedPages
  <2> QED
    BY <2>2, <2>3 DEF Moved
<1>3. DataOf(h) \subseteq DataOf(H) \cup copiedPages
  <2>1. SUFFICES ASSUME NEW d \in Data, h.at[d] # 0, h.at[d] \notin DataOf(H)
                 PROVE  h.at[d] \in copiedPages
    BY DEF DataOf
  <2>2. H.at[d] # 0 /\ H.at[d] # h.at[d]
    BY <2>1, DataOfIs DEF InBatch
  <2>3. Moved(pm, h, H, first, d)
    BY <2>2 DEF InBatch
  <2>4. h.at[d] \in DOMAIN pm.editedPages /\ pm.editedPages[h.at[d]] = H.at[d]
    BY <2>1, <2>2, <2>3 DEF Moved
  <2>5. h.at[d] >= 2
    <3>1. h.at[d] \in Below(pm.firstUnusedPage)
      BY <2>1, DataOfIs DEF InBatch, Old
    <3> QED
      BY <3>1, ManagerFields, BelowIs
  <2> QED
    BY <2>2, <2>4, <2>5 DEF copiedPages
<1>4. IsFiniteSet(DataOf(h)) /\ DataOf(h) \subseteq Nat
  <2>1. h.at \in [Data -> Nat]
    BY DEF InBatch, Headers
  <2>2. IsFiniteSet(Data)
    <3>1. FirstData + NewData + NewRaw \in Int
      BY PageManagerAssumption
    <3> QED
      BY <3>1, FS_Interval DEF Data
  <2>3. PICK T : T = {h.at[d] : d \in Data}
    OBVIOUS
  <2>4. h.at \in Surjection(Data, T)
    BY <2>1, <2>3 DEF Surjection
  <2>5. IsFiniteSet(T)
    BY <2>2, <2>4, FS_Surjection
  <2>6. DataOf(h) \subseteq T /\ T \subseteq Nat
    BY <2>1, <2>3 DEF DataOf
  <2> QED
    BY <2>5, <2>6, FS_Subset
<1>5. IsFiniteSet(copiedPages)
  BY <1>1, <1>4, FS_Subset
<1> QED
  BY <1>1, <1>2, <1>3, <1>4, <1>5

\* A way to go through a finite set of pages.
LEMMA EnumeratedOnce ==
    ASSUME NEW X, IsFiniteSet(X), X \subseteq Nat, NEW q \in Bijection(1..Cardinality(X), X)
    PROVE  q \in Seq(Nat) /\ IsInjective(q) /\ Range(q) = X
<1>1. PICK n : n = Cardinality(X)
  OBVIOUS
<1>2. n \in Nat
  BY <1>1, FS_CardinalityType
<1>3. q \in [1..n -> X] /\ IsInjective(q) /\ \A x \in X : \E i \in 1..n : q[i] = x
  BY <1>1 DEF Bijection, Injection, Surjection
<1>4. q \in [1..n -> Nat]
  BY <1>3
<1>5. q \in Seq(Nat)
  BY <1>2, <1>4, SeqDef
<1>6. Range(q) = X
  BY <1>3 DEF Range
<1> QED
  BY <1>3, <1>5, <1>6

\* A flush of the batch s takes n pages and releases those of the last list and
\* the pages q, so that others come to the list, and then all of free are in it.
Replaces(s, h, H, L, q, n, r, others, free, gone) ==
    /\ s \in Managers /\ \E first : InBatch(s, h, H, L, first, gone)
    /\ q \in Seq(Nat) /\ IsInjective(q)
    /\ Range(q) \subseteq DataOf(h) /\ Range(q) \cap DataOf(H) = {}
    /\ DataOf(h) \subseteq DataOf(H) \cup Range(q)
    /\ n \in Nat \ {0} /\ Taken(s, n, r)
    /\ others = L \o q /\ free = r.s.freePages \o others

\* The pages at the end of a flush: of the new list, free, and to be released.
LEMMA FlushedPages ==
    ASSUME NEW s, NEW h, NEW H, NEW L, NEW q, NEW n, NEW r, NEW others, NEW free, NEW gone,
           Replaces(s, h, H, L, q, n, r, others, free, gone)
    PROVE  /\ others \in Seq(Nat) /\ Len(others) \in Nat /\ Range(others) = Range(L) \cup Range(q)
           /\ free \in Seq(Nat) /\ IsInjective(free)
           /\ Len(free) = Len(r.s.freePages) + Len(others)
           /\ Range(free) = Range(r.s.freePages) \cup Range(L) \cup Range(q)
           /\ DataOf(H) \cup Range(r.taken) \cup Range(free) \subseteq Below(r.s.firstUnusedPage)
           /\ Range(free) \cap (DataOf(H) \cup Range(r.taken)) = {}
           /\ Range(r.taken) \cap (Old(h, L) \cup DataOf(H)) = {}
           /\ Range(r.s.freePages) \cap Old(h, L) = {}
           /\ Below(r.s.firstUnusedPage) \subseteq
                  DataOf(H) \cup Range(r.taken) \cup Range(free) \cup gone
<1>0. PICK first :
         /\ s \in Managers /\ InBatch(s, h, H, L, first, gone)
         /\ q \in Seq(Nat) /\ IsInjective(q)
         /\ Range(q) \subseteq DataOf(h) /\ Range(q) \cap DataOf(H) = {}
         /\ DataOf(h) \subseteq DataOf(H) \cup Range(q)
         /\ n \in Nat \ {0} /\ Taken(s, n, r)
         /\ others = L \o q /\ free = r.s.freePages \o others
  BY DEF Replaces
<1>1. PICK f, C : f = r.s.freePages /\ C = Range(r.taken)
  OBVIOUS
<1>2. f \in Seq(Nat) /\ IsInjective(f)
  BY <1>0, <1>1, ManagerFields DEF Taken, Taking, Unused
<1>3. L \in Seq(Nat) /\ IsInjective(L)
  BY <1>0, ChainInDomain DEF InBatch
<1>4. DataOf(H) \cap Range(L) = {}
  BY <1>0, DataIsApart DEF InBatch
<1>5. /\ DataOf(h) \cap Range(L) = {}
      /\ Old(h, L) \cup DataOf(H) \cup Range(s.freePages) \subseteq Below(s.firstUnusedPage)
      /\ Range(s.freePages) \cap (Old(h, L) \cup DataOf(H)) = {}
      /\ Below(s.firstUnusedPage) \subseteq
             Old(h, L) \cup DataOf(H) \cup Range(s.freePages) \cup gone
  BY <1>0 DEF InBatch
<1>6. /\ C \cap Range(f) = {} /\ Range(f) \subseteq Range(s.freePages)
      /\ Range(s.freePages) \subseteq Range(f) \cup C
      /\ Below(r.s.firstUnusedPage) = Below(s.firstUnusedPage) \cup C
      /\ C \cap Below(s.firstUnusedPage) \subseteq Range(s.freePages)
  BY <1>0, <1>1 DEF Taken
<1>7. /\ others \in Seq(Nat) /\ Range(others) = Range(L) \cup Range(q) /\ IsInjective(others)
      /\ Len(others) \in Nat
  <2>1. Range(L) \cap Range(q) = {}
    BY <1>0, <1>5
  <2>2. others \in Seq(Nat) /\ Range(others) = Range(L) \cup Range(q) /\ IsInjective(others)
    BY <1>0, <1>3, <2>1, ConcatFacts
  <2> QED
    BY <2>2, SeqFacts
<1>8. Range(others) \subseteq Old(h, L)
  BY <1>0, <1>7 DEF Old
<1>9. /\ free \in Seq(Nat) /\ IsInjective(free) /\ Len(free) = Len(f) + Len(others)
      /\ Range(free) = Range(f) \cup Range(L) \cup Range(q)
  <2>1. Range(f) \cap Range(others) = {}
    BY <1>5, <1>6, <1>8
  <2>2. free = f \o others
    BY <1>0, <1>1
  <2>3. /\ f \o others \in Seq(Nat) /\ Len(f \o others) = Len(f) + Len(others)
        /\ Range(f \o others) = Range(f) \cup Range(others)
    BY <1>2, <1>7, ConcatFacts
  <2>4. IsInjective(f \o others)
    BY <1>2, <1>7, <2>1, ConcatFacts
  <2> QED
    BY <1>7, <2>2, <2>3, <2>4
<1>10. C \cap (Old(h, L) \cup DataOf(H)) = {}
  BY <1>5, <1>6
<1>11. Range(free) \cap (DataOf(H) \cup C) = {}
  BY <1>0, <1>4, <1>5, <1>6, <1>7, <1>8, <1>9, <1>10
<1>12. Old(h, L) = DataOf(h) \cup Range(L)
  BY DEF Old
<1>13. DataOf(H) \cup C \cup Range(free) \subseteq Below(r.s.firstUnusedPage)
  BY <1>0, <1>5, <1>6, <1>9, <1>12
<1>14. Below(r.s.firstUnusedPage) \subseteq DataOf(H) \cup C \cup Range(free) \cup gone
  BY <1>0, <1>5, <1>6, <1>9, <1>12
<1>15. Range(f) \cap Old(h, L) = {}
  BY <1>5, <1>6
<1> QED
  BY <1>1, <1>7, <1>9, <1>10, <1>11, <1>13, <1>14, <1>15

\* The header that a flush writes.
NextHeader(H, p, n, v, m) ==
    [H EXCEPT !.freePages = p, !.firstUnusedPage = n, !.lastVersion = v, !.named = m]

\* The containers C, the data pages of H and the free pages are all the pages
\* below n.
Divided(H, C, free, n, gone) ==
    /\ C \in Seq(Nat) /\ Len(C) > 0 /\ IsInjective(C)
    /\ free \in Seq(Nat) /\ IsInjective(free) /\ Len(free) <= Len(C) * entriesPerPage
    /\ DataOf(H) \cup Range(C) \cup Range(free) \subseteq Below(n)
    /\ Range(free) \cap (DataOf(H) \cup Range(C)) = {}
    /\ Range(C) \cap DataOf(H) = {}
    /\ Below(n) \subseteq DataOf(H) \cup Range(C) \cup Range(free) \cup gone

\* The pages Q are those of P with a list of the pages free in the pages C, and
\* with the header K of the batch of H as the new version.
Stores(P, H, C, free, n, v, m, gone, K, Q) ==
    /\ P \in PageSets /\ ReadPage(P, 0).kind # "list" /\ H \in Headers /\ Holds(P, H)
    /\ n \in Nat /\ v \in Nat /\ m \in Nat /\ Divided(H, C, free, n, gone)
    /\ K = NextHeader(H, C[1], n, v, m)
    /\ Q = With(CreatePages(P, free, C), 1, K)

\* Then the header K finds its pages, and the list has the pages free.
NewVersion(P, C, free, n, v, gone, K, Q) ==
    /\ Safe(Q, K, Reverse(C), gone) /\ Listed(Q, Reverse(C)) = Range(free)
    /\ K \in Headers /\ K.firstUnusedPage = n /\ K.lastVersion = v /\ Q \in PageSets
    /\ DOMAIN Q = DOMAIN P \cup Range(C) \cup {1} /\ Q[1] = K
    /\ \A p \in DOMAIN P : p # 1 /\ p \notin Range(C) => Q[p] = P[p]

\* A flush stores a version: the pages of the batch and a list of the others.
LEMMA NewVersionIsSafe ==
    ASSUME NEW P, NEW H, NEW C, NEW free, NEW n, NEW v, NEW m, NEW gone, NEW K, NEW Q,
           Stores(P, H, C, free, n, v, m, gone, K, Q)
    PROVE  NewVersion(P, C, free, n, v, gone, K, Q)
<1>0. /\ P \in PageSets /\ ReadPage(P, 0).kind # "list" /\ H \in Headers /\ Holds(P, H)
      /\ n \in Nat /\ v \in Nat /\ m \in Nat /\ Divided(H, C, free, n, gone)
      /\ K = NextHeader(H, C[1], n, v, m)
      /\ Q = With(CreatePages(P, free, C), 1, K)
  BY DEF Stores
<1>1. /\ C \in Seq(Nat) /\ Len(C) > 0 /\ IsInjective(C)
      /\ free \in Seq(Nat) /\ IsInjective(free) /\ Len(free) <= Len(C) * entriesPerPage
      /\ DataOf(H) \cup Range(C) \cup Range(free) \subseteq Below(n)
      /\ Range(free) \cap (DataOf(H) \cup Range(C)) = {}
      /\ Range(C) \cap DataOf(H) = {}
      /\ Below(n) \subseteq DataOf(H) \cup Range(C) \cup Range(free) \cup gone
  BY <1>0 DEF Divided
<1>2. PICK M, R : M = Reverse(C) /\ R = CreatePages(P, free, C)
  OBVIOUS
<1>3. M \in Seq(Nat) /\ Len(M) = Len(C) /\ Range(M) = Range(C)
  BY <1>0, <1>1, <1>2, ReverseFacts
<1>4. \A x \in DataOf(H) \cup Range(C) \cup Range(free) : x # 0 /\ x # 1
  BY <1>0, <1>1, BelowIs
<1>5. C[1] \in Nat
  BY <1>0, <1>1, SeqFacts
<1>6. /\ K \in Headers /\ K.at = H.at /\ K.content = H.content /\ K.freePages = C[1]
      /\ K.firstUnusedPage = n /\ K.lastVersion = v
  <2>1. PICK c : c = C[1]
    OBVIOUS
  <2>4. c \in Nat
    BY <1>0, <1>5, <2>1
  <2>2. /\ NextHeader(H, c, n, v, m) \in Headers
        /\ NextHeader(H, c, n, v, m).at = H.at
        /\ NextHeader(H, c, n, v, m).content = H.content
        /\ NextHeader(H, c, n, v, m).freePages = c
        /\ NextHeader(H, c, n, v, m).firstUnusedPage = n
        /\ NextHeader(H, c, n, v, m).lastVersion = v
    BY <1>0, <2>4 DEF NextHeader, Headers
  <2>3. K = NextHeader(H, c, n, v, m)
    BY <1>0, <2>1
  <2> QED
    BY <1>0, <2>1, <2>2, <2>3
<1>7. /\ R \in PageSets /\ DOMAIN R = DOMAIN P \cup Range(C)
      /\ \A p \in DOMAIN P : p \notin Range(C) => R[p] = P[p]
  <2>3. C \in Seq(Nat) /\ free \in Seq(Nat) /\ IsInjective(C)
    BY <1>0, <1>1
  <2>1. /\ CreatePages(P, free, C) \in PageSets
        /\ DOMAIN CreatePages(P, free, C) = DOMAIN P \cup Range(C)
    BY <1>0, <2>3, CreatesPoints
  <2>2. \A p \in DOMAIN P : p \notin Range(C) => CreatePages(P, free, C)[p] = P[p]
    BY <1>0, <2>3, CreatesPoints
  <2> QED
    BY <1>0, <1>2, <2>1, <2>2
<1>8. /\ DOMAIN Q = DOMAIN R \cup {1} /\ Q[1] = K
      /\ \A p \in DOMAIN R : p # 1 => Q[p] = R[p]
  BY <1>0, <1>2 DEF With
<1>9. Q \in PageSets
  <2>1. K \in Pages
    BY <1>0, <1>6 DEF Pages
  <2> QED
    BY <1>0, <1>2, <1>7, <2>1, WithPage
<1>10. Chain(R, C[1], M)
  <2>1. 0 \notin Range(C)
    BY <1>0, <1>4
  <2> QED
    BY <1>0, <1>1, <1>2, <2>1, CreatesChain
<1>11. Listed(R, M) = Range(free) /\ ListedOnce(R, M)
  BY <1>0, <1>1, <1>2, CreatesList
<1>12. ReadPage(Q, 0).kind # "list"
  <2>1. ReadPage(Q, 0) = ReadPage(P, 0)
    BY <1>0, <1>4, <1>7, <1>8 DEF ReadPage
  <2> QED
    BY <1>0, <2>1
<1>13. \A x \in Range(M) : x \in DOMAIN Q /\ Q[x] = R[x]
  BY <1>0, <1>3, <1>4, <1>7, <1>8
<1>14. Chain(Q, C[1], M) /\ Listed(Q, M) = Range(free) /\ ListedOnce(Q, M)
  BY <1>0, <1>10, <1>11, <1>12, <1>13, ChainMoves
<1>15. DataOf(K) = DataOf(H)
  BY <1>0, <1>6 DEF DataOf
<1>16. Holds(Q, K)
  <2>1. \A x \in DataOf(H) : x \in DOMAIN P
    BY <1>0 DEF Holds, DataOf
  <2>2. \A x \in DataOf(H) : x \in DOMAIN Q /\ Q[x] = P[x]
    BY <1>0, <1>1, <1>4, <1>7, <1>8, <2>1
  <2>4. \A x \in DataOf(H) : x \in DOMAIN Q /\ Grown(P[x], Q[x])
    BY <2>2, SamePage
  <2>3. Holds(Q, H)
    BY <1>0, <1>9, <2>4, HoldsMoves
  <2> QED
    BY <1>0, <1>6, <2>3 DEF Holds
<1>17. Old(K, M) = DataOf(H) \cup Range(C)
  BY <1>0, <1>3, <1>15 DEF Old
<1>18. Safe(Q, K, M, gone)
  BY <1>0, <1>1, <1>6, <1>14, <1>16, <1>17 DEF Safe
<1> QED
  BY <1>0, <1>2, <1>6, <1>7, <1>8, <1>9, <1>14, <1>18 DEF NewVersion

\* The invariant after the first steps of a flush, from what they did.
LEMMA FlushStarts ==
    ASSUME PageInv, flushPc = "none", UNCHANGED <<disk, lost>>, flushPc' = "sync",
           NEW u \in Managers, pm' = u, NEW K, NEW M, NEW q \in Seq(Nat), released' = q,
           1 \in DOMAIN u.pages, u.pages[1] = K, 0 \in DOMAIN u.editedPages,
           0 \in DOMAIN u.pages, u.pages[0] = pm.pages[0],
           Safe(u.pages, K, M, lost), K.lastVersion > 0,
           K.firstUnusedPage = u.firstUnusedPage,
           Listed(u.pages, M) = Range(u.freePages \o q), IsInjective(u.freePages \o q),
           Range(u.freePages) \cap Old(disk[0], OldList) = {},
           \A x \in Old(disk[0], OldList) :
               x \in DOMAIN pm.pages => x \in DOMAIN u.pages /\ u.pages[x] = pm.pages[x]
    PROVE  PageInv'
<1>1. TypeInv /\ BatchInv
  BY DEF PageInv
<1>2. TypeInv'
  BY <1>1 DEF TypeInv
<1>3. PICK L : L = OldList
  OBVIOUS
<1>4. disk' = disk /\ lost' = lost
  OBVIOUS
<1>5. u.pages \in PageSets
  BY ManagerFields
<1>6. ReadPage(u.pages, 0).kind # "list"
  BY <1>1, HeaderIsNoList DEF TypeInv
<1>7. Chain(u.pages, disk[0].freePages, L)
  <2>1. Chain(pm.pages, disk[0].freePages, L)
    BY <1>1, <1>3 DEF BatchInv, InBatch
  <2>2. \A x \in Range(L) : x \in DOMAIN u.pages /\ u.pages[x] = pm.pages[x]
    BY <1>3, <2>1, ChainInDomain DEF Old
  <2> QED
    BY <1>6, <2>1, <2>2, ChainMoves
<1>8. OldList' = L
  <2>1. GetContainerPages(u.pages, disk[0].freePages) = L
    BY <1>5, <1>7, ListIs
  <2> QED
    BY <1>4, <2>1 DEF OldList
<1>9. NewList' = M
  <2>1. Chain(u.pages, K.freePages, M)
    BY DEF Safe
  <2>2. GetContainerPages(u.pages, K.freePages) = M
    BY <1>5, <2>1, ListIs
  <2> QED
    BY <2>2 DEF NewList
<1>10. DiskHas'
  <2>1. First' <=> First
    BY <1>4 DEF First
  <2>2. CASE First
    BY <1>1, <1>4, <2>1, <2>2 DEF BatchInv, DiskHas
  <2>3. CASE ~First
    <3>1. Safe(disk, disk[0], L, lost) /\ Agree(disk, pm.pages, Old(disk[0], L))
      BY <1>1, <1>3, <2>3 DEF BatchInv, DiskHas
    <3>2. Agree(disk, u.pages, Old(disk[0], L))
      <4>1. \A x \in Old(disk[0], L) : x \in DOMAIN pm.pages
        BY <3>1 DEF Agree
      <4>2. \A x \in Old(disk[0], L) : x \in DOMAIN u.pages /\ u.pages[x] = pm.pages[x]
        BY <1>3, <4>1
      <4> QED
        BY <3>1, <4>2 DEF Agree
    <3> QED
      BY <1>4, <1>8, <2>1, <2>3, <3>1, <3>2 DEF DiskHas
  <2> QED
    BY <2>2, <2>3
<1>11. pm'.pages[0] = disk'[0]
  BY <1>1, <1>4 DEF BatchInv
<1>12. Range(u.freePages) \cap Old(disk[0], L) = {}
  BY <1>3
<1>13. FlushInv'
  BY <1>4, <1>7, <1>8, <1>9, <1>10, <1>11, <1>12 DEF FlushInv
<1> QED
  BY <1>2, <1>13 DEF PageInv

\* What a flush makes of the manager, from what it takes and releases.
Flushed(s, C, free, K) == [s EXCEPT !.pages = With(CreatePages(s.pages, free, C), 1, K)]

LEMMA FlushPagesKeeps ==
    ASSUME PageInv, flushPages
    PROVE  PageInv'
<1>1. PICK s, H, L : s = editPage(pm, headerPageNumber) /\ H = Header /\ L = OldList
  OBVIOUS
<1>2. flushPc = "none" /\ flushPc' = "sync" /\ UNCHANGED <<disk, lost>>
  BY DEF flushPages
<1>3. TypeInv /\ BatchInv
  BY <1>2 DEF PageInv
<1>4. L = GetContainerPages(pm.pages, pm.pages[0].freePages)
  BY <1>1, <1>3 DEF BatchInv, OldList
<1>5. PICK v \in {H.lastVersion, H.lastVersion + 1} \cap (1..MaxVersions),
           q \in Bijection(1..Cardinality(copiedPages), copiedPages) :
           LET t == TakePages(s, ContainersNeeded(Len(pm.freePages), Len(L \o q)))
           IN  /\ pm' = Flushed(t.s, t.taken, t.s.freePages \o (L \o q),
                                [t.s.pages[1] EXCEPT
                                    !.freePages = t.taken[1],
                                    !.firstUnusedPage = t.s.firstUnusedPage,
                                    !.lastVersion = v,
                                    !.named = IF v = H.lastVersion THEN @
                                              ELSE t.s.pages[1].at[History]])
               /\ released' = L \o q
  <2>1. PICK v \in {Header.lastVersion, Header.lastVersion + 1} \cap (1..MaxVersions),
             q \in Bijection(1..Cardinality(copiedPages), copiedPages) :
             LET previous == GetContainerPages(pm.pages, pm.pages[0].freePages)
                 rest == previous \o q
                 t == TakePages(editPage(pm, headerPageNumber),
                                ContainersNeeded(Len(pm.freePages), Len(rest)))
                 batch == t.s.pages[1]
                 header == [batch EXCEPT
                     !.freePages = t.taken[1],
                     !.firstUnusedPage = t.s.firstUnusedPage,
                     !.lastVersion = v,
                     !.named = IF v = Header.lastVersion THEN @ ELSE batch.at[History]]
             IN  /\ pm' = [t.s EXCEPT !.pages =
                               With(CreatePages(@, t.s.freePages \o rest, t.taken), 1, header)]
                 /\ released' = rest
    BY Zenon DEF flushPages
  <2> QED
    BY <1>1, <1>4, <2>1 DEF Flushed
<1>6. PICK others, n : others = L \o q /\ n = ContainersNeeded(Len(pm.freePages), Len(L \o q))
  OBVIOUS
<1>7. PICK t : t = TakePages(s, n)
  OBVIOUS
<1>8. PICK free, C : free = t.s.freePages \o others /\ C = t.taken
  OBVIOUS
<1>9. PICK K : K = [t.s.pages[1] EXCEPT
                       !.freePages = C[1],
                       !.firstUnusedPage = t.s.firstUnusedPage,
                       !.lastVersion = v,
                       !.named = IF v = H.lastVersion THEN @ ELSE t.s.pages[1].at[History]]
  OBVIOUS
<1>10. pm' = Flushed(t.s, C, free, K) /\ released' = others
  BY <1>5, <1>6, <1>7, <1>8, <1>9
<1>11. /\ s \in Managers /\ InBatch(s, disk[0], H, L, First, lost)
       /\ 0 \in DOMAIN s.pages /\ s.pages[0] \in Headers /\ s.pages[0] = pm.pages[0]
       /\ 1 \in DOMAIN s.pages /\ s.pages[1] = H /\ 0 \in DOMAIN s.editedPages
       /\ SameAbove(pm, s) /\ Unused(s) /\ H \in Headers
       /\ \A x \in Old(disk[0], L) :
             x \in Nat /\ x >= 2 /\ (x \in DOMAIN pm.pages => s.pages[x] = pm.pages[x])
  BY <1>1, <1>2, HeaderOfBatch
<1>12. q \in Seq(Nat) /\ IsInjective(q) /\ Range(q) = copiedPages
  <2>1. IsFiniteSet(copiedPages) /\ copiedPages \subseteq Nat
    BY <1>3, CopiedPagesAre DEF TypeInv, BatchInv
  <2> QED
    BY <2>1, EnumeratedOnce
<1>13. /\ copiedPages \subseteq DataOf(disk[0]) /\ copiedPages \cap DataOf(H) = {}
       /\ DataOf(disk[0]) \subseteq DataOf(H) \cup copiedPages
  <2>1. pm \in Managers /\ InBatch(pm, disk[0], H, L, First, lost)
    BY <1>1, <1>3 DEF TypeInv, BatchInv
  <2> QED
    BY <2>1, CopiedPagesAre
<1>14. L \in Seq(Nat) /\ others \in Seq(Nat) /\ Len(others) \in Nat
  <2>1. L \in Seq(Nat)
    BY <1>11, ChainInDomain DEF InBatch
  <2> QED
    BY <1>6, <1>12, <2>1, ConcatFacts, SeqFacts
<1>15. /\ n \in Nat \ {0}
       /\ (IF Len(s.freePages) >= n THEN Len(s.freePages) - n ELSE 0) + Len(others)
              <= n * entriesPerPage
  <2>1. s.freePages = pm.freePages /\ Len(pm.freePages) \in Nat
    BY <1>3, <1>11, ManagerFields, SeqFacts DEF SameAbove, TypeInv
  <2>2. PICK a, b : a = Len(pm.freePages) /\ b = Len(others)
    OBVIOUS
  <2>3. n = ContainersNeeded(a, b) /\ a \in Nat /\ b \in Nat
    BY <1>6, <1>14, <2>1, <2>2
  <2>4. /\ n \in Nat \ {0}
        /\ (IF a >= n THEN a - n ELSE 0) + b <= n * entriesPerPage
    BY <2>3, ContainersAreEnough
  <2> QED
    BY <2>1, <2>2, <2>4
<1>16. Taken(s, n, t)
  BY <1>7, <1>11, <1>15, TakesIs
<1>17. /\ t.s \in Managers /\ C \in Seq(Nat) /\ Len(C) = n /\ Len(C) > 0 /\ IsInjective(C)
       /\ Len(t.s.freePages) = IF Len(s.freePages) >= n THEN Len(s.freePages) - n ELSE 0
       /\ DOMAIN t.s.pages = DOMAIN s.pages \cup Range(C)
       /\ \A p \in DOMAIN s.pages : p \notin Range(C) => t.s.pages[p] = s.pages[p]
       /\ DOMAIN s.editedPages \subseteq DOMAIN t.s.editedPages
  BY <1>8, <1>15, <1>16 DEF Taken, Taking
<1>18. /\ free \in Seq(Nat) /\ IsInjective(free)
       /\ Len(free) = Len(t.s.freePages) + Len(others)
       /\ DataOf(H) \cup Range(C) \cup Range(free) \subseteq Below(t.s.firstUnusedPage)
       /\ Range(free) \cap (DataOf(H) \cup Range(C)) = {}
       /\ Range(C) \cap (Old(disk[0], L) \cup DataOf(H)) = {}
       /\ Range(t.s.freePages) \cap Old(disk[0], L) = {}
       /\ Below(t.s.firstUnusedPage) \subseteq
              DataOf(H) \cup Range(C) \cup Range(free) \cup lost
  <2>1. PICK h, gone : h = disk[0] /\ gone = lost
    OBVIOUS
  <2>2. \E first : InBatch(s, h, H, L, first, gone)
    BY <1>11, <2>1
  <2>3. Replaces(s, h, H, L, q, n, t, others, free, gone)
    BY <1>6, <1>8, <1>11, <1>12, <1>13, <1>15, <1>16, <2>1, <2>2 DEF Replaces
  <2>4. /\ free \in Seq(Nat) /\ IsInjective(free)
        /\ Len(free) = Len(t.s.freePages) + Len(others)
        /\ DataOf(H) \cup Range(t.taken) \cup Range(free) \subseteq Below(t.s.firstUnusedPage)
        /\ Range(free) \cap (DataOf(H) \cup Range(t.taken)) = {}
        /\ Range(t.taken) \cap (Old(h, L) \cup DataOf(H)) = {}
        /\ Range(t.s.freePages) \cap Old(h, L) = {}
        /\ Below(t.s.firstUnusedPage) \subseteq
               DataOf(H) \cup Range(t.taken) \cup Range(free) \cup gone
    BY <2>3, FlushedPages
  <2> QED
    BY <1>8, <2>1, <2>4
<1>19. Divided(H, C, free, t.s.firstUnusedPage, lost)
  <2>1. Len(free) <= Len(C) * entriesPerPage
    BY <1>15, <1>17, <1>18
  <2> QED
    BY <1>17, <1>18, <2>1 DEF Divided
<1>20. \A x \in DataOf(H) \cup Range(C) \cup Old(disk[0], L) : x \in Nat /\ x >= 2
  <2>1. t.s.firstUnusedPage \in Nat
    BY <1>17, ManagerFields
  <2> QED
    BY <1>11, <1>18, <2>1, BelowIs
<1>21. PICK P : P = t.s.pages
  OBVIOUS
<1>22. /\ P \in PageSets /\ 0 \in DOMAIN P /\ P[0] = pm.pages[0] /\ P[0] \in Headers
       /\ 1 \in DOMAIN P /\ P[1] = H
  <2>1. 0 \notin Range(C) /\ 1 \notin Range(C)
    BY <1>20
  <2>2. P \in PageSets
    BY <1>17, <1>21, ManagerFields
  <2>3. 0 \in DOMAIN P /\ P[0] = s.pages[0] /\ 1 \in DOMAIN P /\ P[1] = s.pages[1]
    BY <1>11, <1>17, <1>21, <2>1
  <2>4. P[0] \in Headers
    BY <1>11, <2>3
  <2> QED
    BY <1>11, <2>2, <2>3, <2>4
<1>23. Holds(P, H)
  <2>1. Holds(s.pages, H)
    BY <1>11 DEF InBatch
  <2>2. \A x \in DataOf(H) : x \in DOMAIN s.pages
    BY <2>1 DEF Holds, DataOf
  <2>3. \A x \in DataOf(H) : x \in DOMAIN P /\ P[x] = s.pages[x]
    BY <1>17, <1>18, <1>21, <2>2
  <2>4. \A x \in DataOf(H) : x \in DOMAIN P /\ Grown(s.pages[x], P[x])
    BY <2>3, SamePage
  <2>5. s.pages \in PageSets
    BY <1>11, ManagerFields
  <2> QED
    BY <1>11, <1>22, <2>1, <2>4, <2>5, HoldsMoves
<1>24. v \in Nat /\ v > 0
  BY PageManagerAssumption
<1>25. PICK m : m = t.s.firstUnusedPage
  OBVIOUS
<1>26. m \in Nat
  BY <1>17, <1>25, ManagerFields
<1>36. PICK nm : nm = IF v = H.lastVersion THEN H.named ELSE H.at[History]
  OBVIOUS
<1>37. nm \in Nat
  BY <1>11, <1>36, HeaderFields, RawIsData
<1>27. K = NextHeader(H, C[1], m, v, nm)
  BY <1>9, <1>21, <1>22, <1>25, <1>36 DEF NextHeader
<1>28. PICK Q : Q = With(CreatePages(P, free, C), 1, K)
  OBVIOUS
<1>29. PICK M : M = Reverse(C)
  OBVIOUS
<1>30. /\ Safe(Q, K, M, lost) /\ Listed(Q, M) = Range(free)
       /\ K \in Headers /\ K.firstUnusedPage = m /\ K.lastVersion = v
       /\ Q \in PageSets /\ DOMAIN Q = DOMAIN P \cup Range(C) \cup {1} /\ Q[1] = K
       /\ \A p \in DOMAIN P : p # 1 /\ p \notin Range(C) => Q[p] = P[p]
  <2>1. ReadPage(P, 0).kind # "list"
    BY <1>22, HeaderIsNoList
  <2>2. Divided(H, C, free, m, lost)
    BY <1>19, <1>25
  <2>3. PICK gone : gone = lost
    OBVIOUS
  <2>4. Divided(H, C, free, m, gone)
    BY <2>2, <2>3
  <2>6. Stores(P, H, C, free, m, v, nm, gone, K, Q)
    BY <1>11, <1>22, <1>23, <1>24, <1>26, <1>27, <1>28, <1>37, <2>1, <2>4 DEF Stores
  <2>5. NewVersion(P, C, free, m, v, gone, K, Q)
    BY <2>6, NewVersionIsSafe
  <2> QED
    BY <1>29, <2>3, <2>5 DEF NewVersion
<1>31. PICK u : u = [t.s EXCEPT !.pages = Q]
  OBVIOUS
<1>32. /\ pm' = u /\ u \in Managers /\ u.pages = Q /\ u.freePages = t.s.freePages
       /\ u.firstUnusedPage = m /\ u.editedPages = t.s.editedPages
  <2>1. pm' = u
    BY <1>10, <1>21, <1>28, <1>31 DEF Flushed
  <2> QED
    BY <1>17, <1>25, <1>30, <1>31, <2>1 DEF Managers
<1>33. \A x \in Old(disk[0], L) :
          x \in DOMAIN pm.pages => x \in DOMAIN u.pages /\ u.pages[x] = pm.pages[x]
  <2>1. SUFFICES ASSUME NEW x \in Old(disk[0], L), x \in DOMAIN pm.pages
                 PROVE  x \in DOMAIN u.pages /\ u.pages[x] = pm.pages[x]
    OBVIOUS
  <2>2. x \in DOMAIN s.pages /\ s.pages[x] = pm.pages[x] /\ x # 1
    BY <1>11, <1>20, <2>1 DEF SameAbove
  <2>3. x \notin Range(C)
    BY <1>18, <2>1
  <2> QED
    BY <1>17, <1>21, <1>30, <1>32, <2>2, <2>3
<1>34. /\ 1 \in DOMAIN u.pages /\ u.pages[1] = K /\ 0 \in DOMAIN u.editedPages
       /\ 0 \in DOMAIN u.pages /\ u.pages[0] = pm.pages[0]
       /\ K.lastVersion > 0 /\ K.firstUnusedPage = u.firstUnusedPage
  BY <1>11, <1>17, <1>20, <1>22, <1>24, <1>30, <1>32
<1>35. /\ Safe(u.pages, K, M, lost)
       /\ Listed(u.pages, M) = Range(u.freePages \o others)
       /\ IsInjective(u.freePages \o others)
       /\ Range(u.freePages) \cap Old(disk[0], OldList) = {}
  BY <1>1, <1>8, <1>18, <1>30, <1>32
<1> QED
  BY <1>1, <1>2, <1>10, <1>14, <1>32, <1>33, <1>34, <1>35, FlushStarts

LEMMA FlushSyncKeeps ==
    ASSUME PageInv, flushSync
    PROVE  PageInv'
<1>1. /\ flushPc = "sync" /\ flushPc' = "header" /\ UNCHANGED <<pm, released, lost>>
      /\ disk' = [pm.pages EXCEPT ![0] = disk[0]]
  BY DEF flushSync
<1>2. TypeInv /\ FlushInv
  BY <1>1 DEF PageInv
<1>3. pm.pages[0] = disk[0] /\ DiskHas /\ 0 \in DOMAIN pm.pages /\ pm.pages \in PageSets
  BY <1>1, <1>2, ManagerFields DEF FlushInv, TypeInv
<1>4. disk' = pm.pages
  <2>1. pm.pages \in [DOMAIN pm.pages -> Pages]
    BY <1>3, PagesAre
  <2> QED
    BY <1>1, <1>3, <2>1
<1>5. TypeInv'
  BY <1>1, <1>2, <1>3, <1>4 DEF TypeInv
<1>6. OldList' = OldList /\ NewList' = NewList /\ (First' <=> First)
  BY <1>1, <1>3, <1>4 DEF OldList, NewList, First
<1>7. First' \/ Safe(disk, disk[0], OldList, lost)'
  <2>1. SUFFICES ASSUME ~First PROVE Safe(pm.pages, disk[0], OldList, lost)
    BY <1>1, <1>3, <1>4, <1>6
  <2>2. Safe(disk, disk[0], OldList, lost) /\ Agree(disk, pm.pages, Old(disk[0], OldList))
    BY <1>3, <2>1 DEF DiskHas
  <2>3. ReadPage(pm.pages, 0).kind # "list"
    BY <1>2, <1>3, HeaderIsNoList DEF TypeInv
  <2>4. disk \in PageSets
    BY <1>2 DEF TypeInv
  <2> QED
    BY <1>3, <2>2, <2>3, <2>4, SafeMoves
<1>8. FlushInv'
  BY <1>1, <1>2, <1>3, <1>4, <1>6, <1>7 DEF FlushInv
<1> QED
  BY <1>1, <1>5, <1>8 DEF PageInv

LEMMA FlushHeaderKeeps ==
    ASSUME PageInv, flushHeader
    PROVE  PageInv'
<1>1. /\ flushPc = "header" /\ flushPc' = "syncHeader" /\ UNCHANGED <<disk, released, lost>>
      /\ pm' = [pm EXCEPT !.pages[0] = pm.pages[1]]
  BY DEF flushHeader
<1>2. TypeInv /\ FlushInv
  BY <1>1 DEF PageInv
<1>3. PICK P, K : P = pm.pages /\ K = pm.pages[1]
  OBVIOUS
<1>4. /\ P \in PageSets /\ 0 \in DOMAIN P /\ 1 \in DOMAIN P /\ disk = P
      /\ Safe(P, K, NewList, lost) /\ K \in Headers
      /\ Chain(P, disk[0].freePages, OldList)
  BY <1>1, <1>2, <1>3, ManagerFields DEF FlushInv, TypeInv, Safe
<1>5. PICK Q : Q = [P EXCEPT ![0] = K]
  OBVIOUS
<1>6. /\ Q \in PageSets /\ DOMAIN Q = DOMAIN P /\ Q[0] = K /\ Q[1] = K
      /\ \A p \in DOMAIN P : p # 0 => Q[p] = P[p]
  <2>1. P \in [DOMAIN P -> Pages] /\ \A p \in DOMAIN P : P[p] \in Pages
    BY <1>4, PagesAre
  <2>2. Q \in [DOMAIN P -> Pages]
    BY <1>4, <1>5, <2>1 DEF Pages
  <2>3. DOMAIN P \in Finite
    BY <1>4, PagesAre DEF Finite
  <2>4. Q \in PageSets
    BY <2>2, <2>3 DEF PageSets
  <2> QED
    BY <1>3, <1>4, <1>5, <2>1, <2>4
<1>7. /\ pm' = [pm EXCEPT !.pages = Q] /\ pm' \in Managers /\ pm'.pages = Q
      /\ pm'.freePages = pm.freePages /\ pm'.firstUnusedPage = pm.firstUnusedPage
      /\ pm'.editedPages = pm.editedPages
  <2>1. pm' = [pm EXCEPT !.pages = Q]
    BY <1>1, <1>3, <1>5
  <2> QED
    BY <1>2, <1>6, <2>1 DEF TypeInv, Managers
<1>8. TypeInv'
  BY <1>1, <1>2, <1>4, <1>6, <1>7 DEF TypeInv
<1>9. ReadPage(Q, 0).kind # "list"
  BY <1>4, <1>6, HeaderIsNoList
<1>10. Safe(Q, K, NewList, lost) /\ Listed(Q, NewList) = Listed(P, NewList)
  <2>1. \A x \in Old(K, NewList) : x # 0
    <3>1. Old(K, NewList) \subseteq Below(K.firstUnusedPage) /\ K.firstUnusedPage \in Nat
      BY <1>4 DEF Safe, Headers
    <3> QED
      BY <3>1, BelowIs
  <2>2. Agree(P, Q, Old(K, NewList))
    <3>1. \A x \in Old(K, NewList) : x \in DOMAIN P
      BY <1>4, ChainInDomain DEF Safe, Old, Holds, DataOf
    <3> QED
      BY <1>6, <2>1, <3>1, SamePage DEF Agree
  <2>3. Safe(Q, K, NewList, lost)
    BY <1>4, <1>6, <1>9, <2>2, SafeMoves
  <2>4. Chain(P, K.freePages, NewList) /\ \A x \in Range(NewList) : x \in DOMAIN Q /\ Q[x] = P[x]
    BY <1>4, <1>6, <2>1, ChainInDomain DEF Safe, Old
  <2>5. Listed(Q, NewList) = Listed(P, NewList)
    BY <1>9, <2>4, ChainMoves
  <2> QED
    BY <2>3, <2>5
<1>11. Chain(Q, disk[0].freePages, OldList)
  <2>1. \A x \in Range(OldList) : x \in DOMAIN P /\ P[x] \in ListPages
    BY <1>4, ChainInDomain
  <2>2. P[0] \in Headers
    BY <1>2, <1>3 DEF TypeInv
  <2>3. 0 \notin Range(OldList)
    BY <2>1, <2>2 DEF ListPages, Headers
  <2>4. \A x \in Range(OldList) : x \in DOMAIN Q /\ Q[x] = P[x]
    BY <1>6, <2>1, <2>3
  <2> QED
    BY <1>4, <1>9, <2>4, ChainMoves
<1>12. OldList' = OldList /\ NewList' = NewList
  <2>1. GetContainerPages(Q, disk[0].freePages) = OldList
    BY <1>6, <1>11, ListIs
  <2>2. Chain(Q, K.freePages, NewList)
    BY <1>10 DEF Safe
  <2>3. GetContainerPages(Q, K.freePages) = NewList
    BY <1>6, <2>2, ListIs
  <2> QED
    BY <1>1, <1>6, <1>7, <2>1, <2>3 DEF OldList, NewList
<1>13. (First' <=> First)
  BY <1>1 DEF First
<1>14. First' \/ Safe(disk, disk[0], OldList, lost)'
  BY <1>1, <1>2, <1>12, <1>13 DEF FlushInv
<1>15. FlushInv'
  BY <1>1, <1>2, <1>3, <1>4, <1>6, <1>7, <1>10, <1>11, <1>12, <1>14 DEF FlushInv
<1> QED
  BY <1>1, <1>8, <1>15 DEF PageInv

LEMMA FlushSyncHeaderKeeps ==
    ASSUME PageInv, flushSyncHeader
    PROVE  PageInv'
<1>1. /\ flushPc = "syncHeader" /\ flushPc' = "release" /\ UNCHANGED <<pm, released, lost>>
      /\ disk' = [disk EXCEPT ![0] = pm.pages[0]]
  BY DEF flushSyncHeader
<1>2. TypeInv /\ FlushInv
  BY <1>1 DEF PageInv
<1>3. /\ DOMAIN disk = DOMAIN pm.pages /\ pm.pages[0] = pm.pages[1]
      /\ \A p \in DOMAIN disk : p # 0 => disk[p] = pm.pages[p]
      /\ pm.pages \in PageSets /\ disk \in PageSets
  BY <1>1, <1>2, ManagerFields DEF FlushInv, TypeInv
<1>4. disk' = pm.pages
  <2>1. pm.pages \in [DOMAIN disk -> Pages] /\ disk \in [DOMAIN disk -> Pages]
    BY <1>3, PagesAre
  <2> QED
    BY <1>1, <1>3, <2>1
<1>5. TypeInv'
  BY <1>1, <1>2, <1>3, <1>4 DEF TypeInv
<1>6. NewList' = NewList
  BY <1>1 DEF NewList
<1>7. FlushInv'
  BY <1>1, <1>2, <1>3, <1>4, <1>6 DEF FlushInv
<1> QED
  BY <1>1, <1>5, <1>7 DEF PageInv

\* A manager whose batch is empty, after a version that is safe.
LEMMA EmptyBatch ==
    ASSUME NEW s \in Managers, s.editedPages = NoPages, NEW h, NEW L, NEW gone,
           Safe(s.pages, h, L, gone), h.firstUnusedPage = s.firstUnusedPage,
           IsInjective(s.freePages), Range(s.freePages) \subseteq Listed(s.pages, L),
           Listed(s.pages, L) \subseteq Range(s.freePages) \cup gone
    PROVE  InBatch(s, h, h, L, FALSE, gone)
<1>1. DOMAIN s.editedPages = {}
  BY DEF NoPages
<1>2. /\ h \in Headers /\ Chain(s.pages, h.freePages, L) /\ Holds(s.pages, h)
      /\ Old(h, L) \cup Listed(s.pages, L) \subseteq Below(h.firstUnusedPage)
      /\ Listed(s.pages, L) \cap Old(h, L) = {}
      /\ Below(h.firstUnusedPage) \subseteq Old(h, L) \cup Listed(s.pages, L) \cup gone
  BY DEF Safe
<1>3. DataOf(h) \cap Range(L) = {}
  BY <1>2, DataIsApart
<1>4. \A d \in Data : Moved(s, h, h, FALSE, d)
  BY <1>1 DEF Moved
<1>5. DataOf(h) \subseteq Old(h, L)
  BY DEF Old
<1>6. /\ Old(h, L) \cup DataOf(h) \cup Range(s.freePages) \subseteq Below(s.firstUnusedPage)
      /\ Range(s.freePages) \cap (Old(h, L) \cup DataOf(h)) = {}
      /\ Below(s.firstUnusedPage) \subseteq
             Old(h, L) \cup DataOf(h) \cup Range(s.freePages) \cup gone
  BY <1>2, <1>5
<1> QED
  BY <1>1, <1>2, <1>3, <1>4, <1>6 DEF InBatch

\* The invariant when a batch starts, from a version that is safe on the disk.
LEMMA BatchStarts ==
    ASSUME NEW s \in Managers, s.editedPages = NoPages, pm' = s, disk' = s.pages,
           0 \in DOMAIN s.pages, s.pages[0] \in Headers, s.pages[0].lastVersion > 0,
           s.firstUnusedPage = s.pages[0].firstUnusedPage,
           flushPc' = "none", released' = <<>>,
           NEW L, Safe(s.pages, s.pages[0], L, lost'),
           IsInjective(s.freePages), Range(s.freePages) \subseteq Listed(s.pages, L),
           Listed(s.pages, L) \subseteq Range(s.freePages) \cup lost'
    PROVE  PageInv'
<1>1. PICK P, h : P = s.pages /\ h = s.pages[0]
  OBVIOUS
<1>2. P \in PageSets /\ Chain(P, h.freePages, L) /\ Safe(P, h, L, lost')
  BY <1>1, ManagerFields DEF Safe
<1>3. TypeInv'
  BY <1>1, <1>2, EmptySeq DEF TypeInv
<1>4. OldList' = L
  BY <1>1, <1>2, ListIs DEF OldList
<1>5. Header' = h /\ ~First'
  BY <1>1 DEF Header, headerPageNumber, First, NoPages
<1>6. InBatch(s, h, h, L, FALSE, lost')
  <2>1. PICK gone : gone = lost'
    OBVIOUS
  <2>2. InBatch(s, h, h, L, FALSE, gone)
    BY <1>1, <1>2, <2>1, EmptyBatch
  <2> QED
    BY <2>1, <2>2
<1>7. InBatch(pm, disk[0], Header, OldList, First, lost)'
  <2>1. InBatch(s, h, h, L, First', lost')
    <3>1. First' = FALSE
      BY <1>5 DEF First
    <3> QED
      BY <1>6, <3>1
  <2> QED
    BY <1>1, <1>4, <1>5, <2>1
<1>8. DiskHas'
  <2>1. Old(h, L) \subseteq DOMAIN P
    BY <1>2, ChainInDomain DEF Safe, Old, Holds, DataOf
  <2>2. Agree(P, P, Old(h, L))
    BY <2>1, SamePage DEF Agree
  <2> QED
    BY <1>1, <1>2, <1>4, <1>5, <2>2 DEF DiskHas
<1>9. BatchInv'
  <2>1. 0 \notin DOMAIN s.editedPages
    BY DEF NoPages
  <2> QED
    BY <1>1, <1>7, <1>8, <2>1 DEF BatchInv
<1> QED
  BY <1>3, <1>9 DEF PageInv

LEMMA FlushReleaseKeeps ==
    ASSUME PageInv, flushRelease
    PROVE  PageInv'
<1>1. /\ flushPc = "release" /\ flushPc' = "none" /\ released' = <<>>
      /\ UNCHANGED <<disk, lost>>
      /\ pm' = [releasePages(pm, released) EXCEPT !.editedPages = NoPages]
  BY DEF flushRelease
<1>2. TypeInv /\ FlushInv
  BY <1>1 DEF PageInv
<1>3. PICK s : s = [releasePages(pm, released) EXCEPT !.editedPages = NoPages]
  OBVIOUS
<1>4. pm.freePages \o released \in Seq(Nat)
  BY <1>2, ManagerFields, ConcatFacts DEF TypeInv
<1>5. NoPages \in Edits
  <2>1. NoPages \in [{} -> Nat]
    BY DEF NoPages
  <2> QED
    BY <2>1 DEF Edits
<1>6. /\ s \in Managers /\ s.editedPages = NoPages /\ s.pages = pm.pages
      /\ s.freePages = pm.freePages \o released /\ s.firstUnusedPage = pm.firstUnusedPage
  BY <1>2, <1>3, <1>4, <1>5 DEF TypeInv, Managers, releasePages
<1>7. /\ disk = pm.pages /\ pm.pages[0] = pm.pages[1] /\ 0 \in DOMAIN pm.pages
      /\ pm.pages[0] \in Headers /\ pm.pages[0].lastVersion > 0
      /\ pm.pages[1].firstUnusedPage = pm.firstUnusedPage
      /\ Safe(pm.pages, pm.pages[0], NewList, lost)
      /\ Listed(pm.pages, NewList) = Range(pm.freePages \o released)
      /\ IsInjective(pm.freePages \o released)
  BY <1>1, <1>2 DEF FlushInv, TypeInv
<1>8. pm' = s /\ disk' = s.pages /\ lost' = lost
  BY <1>1, <1>3, <1>6, <1>7
<1>9. /\ Safe(s.pages, s.pages[0], NewList, lost')
      /\ IsInjective(s.freePages) /\ Range(s.freePages) \subseteq Listed(s.pages, NewList)
      /\ Listed(s.pages, NewList) \subseteq Range(s.freePages) \cup lost'
  BY <1>6, <1>7, <1>8
<1>10. /\ 0 \in DOMAIN s.pages /\ s.pages[0] \in Headers /\ s.pages[0].lastVersion > 0
       /\ s.firstUnusedPage = s.pages[0].firstUnusedPage
  BY <1>6, <1>7
<1> QED
  BY <1>1, <1>6, <1>8, <1>9, <1>10, BatchStarts

-----------------------------------------------------------------------------
(* A crash                                                                 *)

\* The pages on the disk after a crash that any of the pages written survived.
After(Q, P, written) == [p \in DOMAIN Q |-> IF p \in written THEN Q[p] ELSE ReadPage(P, p)]

LEMMA AfterIs ==
    ASSUME NEW P \in PageSets, NEW Q \in PageSets, NEW written, NEW A, A = After(Q, P, written)
    PROVE  /\ A \in PageSets /\ DOMAIN A = DOMAIN Q
           /\ \A p \in DOMAIN Q : p \in DOMAIN P => A[p] = Q[p] \/ A[p] = P[p]
<1>1. /\ DOMAIN A = DOMAIN Q
      /\ \A p \in DOMAIN Q : A[p] = IF p \in written THEN Q[p] ELSE ReadPage(P, p)
  BY DEF After
<1>2. /\ \A p \in DOMAIN P : P[p] \in Pages
      /\ \A p \in DOMAIN Q : Q[p] \in Pages
      /\ DOMAIN Q \in Finite
  BY PagesAre DEF Finite
<1>3. \A p \in DOMAIN Q : A[p] \in Pages
  BY <1>1, <1>2, ZeroIsAPage DEF ReadPage
<1>4. A \in [DOMAIN Q -> Pages]
  BY <1>3 DEF After
<1>5. A \in PageSets
  BY <1>2, <1>4 DEF PageSets
<1>6. \A p \in DOMAIN Q : p \in DOMAIN P => A[p] = Q[p] \/ A[p] = P[p]
  BY <1>1 DEF ReadPage
<1> QED
  BY <1>1, <1>5, <1>6

\* A version that is safe in P is safe after the crash, if the pages it uses were
\* not written again.
LEMMA AfterKeeps ==
    ASSUME NEW P \in PageSets, NEW Q \in PageSets, NEW written, NEW A, A = After(Q, P, written),
           NEW h, NEW L, NEW gone, Safe(P, h, L, gone), Agree(P, Q, Old(h, L)),
           0 \in DOMAIN Q, 0 \in DOMAIN P, Q[0] \in Headers, P[0] \in Headers
    PROVE  Safe(A, h, L, gone)
<1>1. /\ DOMAIN A = DOMAIN Q
      /\ \A p \in DOMAIN Q : p \in DOMAIN P => A[p] = Q[p] \/ A[p] = P[p]
  BY AfterIs
<1>2. Agree(P, A, Old(h, L)) /\ A \in PageSets
  BY <1>1, AfterIs, SamePage DEF Agree
<1>3. ReadPage(A, 0).kind # "list"
  <2>1. 0 \in DOMAIN A /\ A[0] \in Headers
    BY <1>1
  <2> QED
    BY <2>1, HeaderIsNoList
<1> QED
  BY <1>2, <1>3, SafeMoves

\* All that a crash leaves of a version: the one of the header on the disk.
Survives(A, gone) ==
    /\ A \in PageSets /\ 0 \in DOMAIN A /\ A[0] \in Headers /\ A[0].lastVersion > 0
    /\ \E L : Safe(A, A[0], L, gone)

LEMMA AfterIsSafe ==
    ASSUME PageInv, ~First, NEW written, NEW A, A = After(pm.pages, disk, written)
    PROVE  Survives(A, lost)
<1>1. /\ TypeInv /\ pm.pages \in PageSets /\ disk \in PageSets
      /\ 0 \in DOMAIN pm.pages /\ pm.pages[0] \in Headers
      /\ 0 \in DOMAIN disk /\ disk[0] \in Headers
  BY ManagerFields DEF PageInv, TypeInv
<1>2. /\ A \in PageSets /\ DOMAIN A = DOMAIN pm.pages
      /\ \A p \in DOMAIN pm.pages : p \in DOMAIN disk => A[p] = pm.pages[p] \/ A[p] = disk[p]
  BY <1>1, AfterIs
<1>3. 0 \in DOMAIN A /\ A[0] \in Headers
  BY <1>1, <1>2
<1>4. disk[0].lastVersion \in Nat /\ disk[0].lastVersion > 0
  BY <1>1 DEF First, Headers
<1>5. CASE flushPc \in {"none", "sync"}
  <2>1. pm.pages[0] = disk[0] /\ DiskHas
    BY <1>5 DEF PageInv, BatchInv, FlushInv
  <2>2. Safe(disk, disk[0], OldList, lost) /\ Agree(disk, pm.pages, Old(disk[0], OldList))
    BY <2>1 DEF DiskHas
  <2>3. Safe(A, disk[0], OldList, lost)
    BY <1>1, <2>2, AfterKeeps
  <2>4. A[0] = disk[0]
    BY <1>1, <1>2, <2>1
  <2> QED
    BY <1>2, <1>3, <1>4, <2>3, <2>4 DEF Survives
<1>6. CASE flushPc \in {"header", "release"}
  <2>1. disk = pm.pages
    BY <1>6 DEF PageInv, FlushInv
  <2>2. A = disk
    <3>1. A \in [DOMAIN disk -> Pages] /\ disk \in [DOMAIN disk -> Pages]
      BY <1>1, <1>2, <2>1, PagesAre
    <3> QED
      BY <1>2, <2>1, <3>1
  <2>3. \E L : Safe(disk, disk[0], L, lost)
    BY <1>6, <2>1 DEF PageInv, FlushInv
  <2> QED
    BY <1>1, <1>4, <2>2, <2>3 DEF Survives
<1>7. CASE flushPc = "syncHeader"
  <2>1. /\ DOMAIN disk = DOMAIN pm.pages /\ pm.pages[0] = pm.pages[1]
        /\ \A p \in DOMAIN disk : p # 0 => disk[p] = pm.pages[p]
        /\ Safe(disk, disk[0], OldList, lost)
        /\ Safe(pm.pages, pm.pages[0], NewList, lost) /\ pm.pages[0].lastVersion > 0
    BY <1>7 DEF PageInv, FlushInv
  <2>2. ASSUME NEW h, NEW L, Safe(disk, h, L, lost) \/ Safe(pm.pages, h, L, lost)
        PROVE  Safe(A, h, L, lost)
    <3>1. PICK P \in {disk, pm.pages} : Safe(P, h, L, lost)
      BY <2>2
    <3>2. \A x \in Old(h, L) : x \in DOMAIN P /\ x # 0
      <4>1. \A x \in Old(h, L) : x \in DOMAIN P
        BY <3>1, ChainInDomain DEF Safe, Old, Holds, DataOf
      <4>2. Old(h, L) \subseteq Below(h.firstUnusedPage) /\ h.firstUnusedPage \in Nat
        BY <3>1 DEF Safe, Headers
      <4> QED
        BY <4>1, <4>2, BelowIs
    <3>3. Agree(P, A, Old(h, L))
      BY <1>2, <2>1, <3>1, <3>2, SamePage DEF Agree
    <3>4. ReadPage(A, 0).kind # "list"
      BY <1>3, HeaderIsNoList
    <3> QED
      BY <1>1, <1>2, <3>1, <3>3, <3>4, SafeMoves
  <2>3. Safe(A, disk[0], OldList, lost) /\ Safe(A, pm.pages[0], NewList, lost)
    BY <2>1, <2>2
  <2>4. A[0] = disk[0] \/ A[0] = pm.pages[0]
    BY <1>1, <1>2
  <2> QED
    BY <1>2, <1>3, <1>4, <2>1, <2>3, <2>4 DEF Survives
<1>8. flushPc \in {"none", "sync", "header", "syncHeader", "release"}
  BY <1>1 DEF TypeInv
<1> QED
  BY <1>5, <1>6, <1>7, <1>8

LEMMA CrashKeeps ==
    ASSUME PageInv, Crash, ~FirstBatchCrashes
    PROVE  PageInv'
<1>1. PICK written :
         LET after == [p \in DOMAIN pm.pages |->
                          IF p \in written THEN pm.pages[p] ELSE ReadPage(disk, p)]
         IN  /\ disk' = after
             /\ pm' = Restart(after, pm.nPages)
             /\ lost' = lost \cup PagesDropped(after, after[0].freePages)
  BY DEF Crash
<1>2. PICK A : A = After(pm.pages, disk, written)
  OBVIOUS
<1>3. /\ disk' = A /\ pm' = Restart(A, pm.nPages)
      /\ lost' = lost \cup PagesDropped(A, A[0].freePages)
  BY <1>1, <1>2 DEF After
<1>4. flushPc' = "none" /\ released' = <<>>
  BY DEF Crash
<1>5. ~First
  BY DEF Crash, First
<1>6. Survives(A, lost)
  BY <1>2, <1>5, AfterIsSafe
<1>7. PICK h : h = A[0]
  OBVIOUS
<1>8. /\ A \in PageSets /\ 0 \in DOMAIN A /\ h \in Headers /\ h.lastVersion > 0
      /\ \E L : Safe(A, h, L, lost)
  BY <1>6, <1>7 DEF Survives
<1>9. PICK L : Safe(A, h, L, lost)
  BY <1>8
<1>10. Chain(A, h.freePages, L) /\ ListedOnce(A, L) /\ h.firstUnusedPage \in Nat
  BY <1>8, <1>9 DEF Safe, Headers
<1>11. PICK q, more : q = GetPages(A, h.freePages) /\ more = lost'
  OBVIOUS
<1>12. q \in Seq(Nat) /\ IsInjective(q) /\ Range(q) = Stored(A, L, Len(L))
  <2>1. Got(A, L, Len(L), q)
    BY <1>8, <1>10, <1>11, GetsPages
  <2> QED
    BY <2>1 DEF Got
<1>13. /\ Stored(A, L, Len(L)) \subseteq Listed(A, L)
       /\ Listed(A, L) \subseteq Stored(A, L, Len(L)) \cup PagesDropped(A, h.freePages)
  BY <1>8, <1>10, StoredOrDropped
<1>14. PICK s : s = Restart(A, pm.nPages)
  OBVIOUS
<1>15. /\ s \in Managers /\ s.pages = A /\ s.freePages = q /\ s.editedPages = NoPages
       /\ s.firstUnusedPage = h.firstUnusedPage
  <2>1. pm.nPages \in Nat
    BY ManagerFields DEF PageInv, TypeInv
  <2>2. NoPages \in Edits
    <3>1. NoPages \in [{} -> Nat]
      BY DEF NoPages
    <3> QED
      BY <3>1 DEF Edits
  <2>3. s = [pages |-> A, freePages |-> q, firstUnusedPage |-> h.firstUnusedPage,
             nPages |-> pm.nPages, editedPages |-> NoPages]
    BY <1>7, <1>11, <1>14 DEF Restart
  <2> QED
    BY <1>8, <1>10, <1>12, <2>1, <2>2, <2>3 DEF Managers
<1>16. Safe(A, h, L, more)
  <2>1. Agree(A, A, Old(h, L))
    <3>1. \A x \in Old(h, L) : x \in DOMAIN A
      BY <1>9, ChainInDomain DEF Safe, Old, Holds, DataOf
    <3> QED
      BY <3>1, SamePage DEF Agree
  <2>2. ReadPage(A, 0).kind # "list" /\ lost \subseteq more
    BY <1>3, <1>7, <1>8, <1>11, HeaderIsNoList
  <2> QED
    BY <1>8, <1>9, <2>1, <2>2, SafeMoves
<1>17. Range(q) \subseteq Listed(A, L) /\ Listed(A, L) \subseteq Range(q) \cup more
  BY <1>3, <1>7, <1>11, <1>12, <1>13
<1>18. /\ s.editedPages = NoPages /\ pm' = s /\ disk' = s.pages
       /\ 0 \in DOMAIN s.pages /\ s.pages[0] \in Headers /\ s.pages[0].lastVersion > 0
       /\ s.firstUnusedPage = s.pages[0].firstUnusedPage
       /\ Safe(s.pages, s.pages[0], L, lost')
       /\ IsInjective(s.freePages) /\ Range(s.freePages) \subseteq Listed(s.pages, L)
       /\ Listed(s.pages, L) \subseteq Range(s.freePages) \cup lost'
  BY <1>3, <1>7, <1>8, <1>11, <1>12, <1>14, <1>15, <1>16, <1>17
<1> QED
  BY <1>4, <1>15, <1>18, BatchStarts

-----------------------------------------------------------------------------
(* A new database                                                          *)

\* The header, the pages and the manager that Init makes
FirstHeader ==
    HeaderPage([d \in Data |-> IF d <= FirstData THEN 1 + d ELSE 0],
               [d \in Data |-> EmptyPage(d)], 1, 0, FirstData + 2, (FirstData + 2) + 1, 0)
FirstPages ==
    With([p \in 2..FirstData + 2 |->
             IF p = FirstData + 2 THEN ListPage(0, <<>>, 0) ELSE EmptyPage(p - 1)],
         0, FirstHeader)

LEMMA EmptyPageIs ==
    ASSUME NEW d \in Data
    PROVE  EmptyPage(d) \in Contents /\ EmptyPage(d).data = d
<1>1. CASE d \in Raw
  BY <1>1 DEF EmptyPage, RawPage, RawPages, Contents
<1>2. CASE d \notin Raw
  BY <1>2 DEF EmptyPage, DataPage, DataPages, Contents
<1> QED
  BY <1>1, <1>2

LEMMA FirstHeaderIs ==
    /\ FirstHeader \in Headers /\ FirstHeader.freePages = FirstData + 2
    /\ FirstHeader.firstUnusedPage = FirstData + 3 /\ FirstHeader.lastVersion = 0
    /\ \A d \in Data : FirstHeader.at[d] = IF d <= FirstData THEN 1 + d ELSE 0
    /\ \A d \in Data : FirstHeader.content[d] = EmptyPage(d)
<1>1. FirstData \in Nat /\ Data \subseteq Nat /\ 1 <= FirstData
  BY PageManagerAssumption DEF Data
<1>2. PICK at, content : at = [d \in Data |-> IF d <= FirstData THEN 1 + d ELSE 0]
                         /\ content = [d \in Data |-> EmptyPage(d)]
  OBVIOUS
<1>3. at \in [Data -> Nat] /\ content \in [Data -> Contents]
  BY <1>1, <1>2, EmptyPageIs
<1>4. PICK h : h = HeaderPage(at, content, 1, 0, FirstData + 2, (FirstData + 2) + 1, 0)
  OBVIOUS
<1>5. FirstHeader = h
  BY <1>2, <1>4 DEF FirstHeader
<1>6. at[1] # 0 /\ \A d \in Data : content[d].data = d
  BY <1>1, <1>2, RawIsData, EmptyPageIs
<1>7. 1 \in Raw
  BY DEF Raw
<1>8. h = [kind |-> "header", at |-> at, content |-> content, rawData |-> 1, named |-> 0,
           freePages |-> FirstData + 2, firstUnusedPage |-> (FirstData + 2) + 1,
           lastVersion |-> 0]
  BY <1>4 DEF HeaderPage
<1>9. /\ h \in Headers /\ h.freePages = FirstData + 2
      /\ h.firstUnusedPage = FirstData + 3 /\ h.lastVersion = 0
      /\ h.at = at /\ h.content = content
  BY <1>1, <1>3, <1>6, <1>7, <1>8 DEF Headers
<1>10. /\ \A d \in Data : at[d] = IF d <= FirstData THEN 1 + d ELSE 0
       /\ \A d \in Data : content[d] = EmptyPage(d)
  BY <1>2
<1> QED
  BY <1>5, <1>9, <1>10

LEMMA FirstPagesAre ==
    /\ FirstPages \in PageSets /\ DOMAIN FirstPages = (2..FirstData + 2) \cup {0}
    /\ FirstPages[0] = FirstHeader /\ FirstPages[FirstData + 2] = ListPage(0, <<>>, 0)
    /\ \A p \in 2..FirstData + 1 : FirstPages[p] = EmptyPage(p - 1)
<1>1. FirstData \in Nat /\ NewData \in Nat /\ NewRaw \in Nat
  BY PageManagerAssumption
<1>2. PICK F : F = [p \in 2..FirstData + 2 |->
                       IF p = FirstData + 2 THEN ListPage(0, <<>>, 0) ELSE EmptyPage(p - 1)]
  OBVIOUS
<1>3. FirstPages = With(F, 0, FirstHeader)
  BY <1>2 DEF FirstPages
<1>4. \A p \in 2..FirstData + 2 : F[p] \in Pages
  <2>1. ListPage(0, <<>>, 0) \in Pages
    BY DEF ListPage, ListPages, Pages
  <2>2. \A p \in 2..FirstData + 1 : EmptyPage(p - 1) \in Pages
    <3>1. \A p \in 2..FirstData + 1 : p - 1 \in Data
      BY <1>1 DEF Data
    <3> QED
      BY <3>1, EmptyPageIs DEF Pages
  <2>3. ASSUME NEW p \in 2..FirstData + 2
        PROVE  F[p] \in Pages
    <3>1. CASE p = FirstData + 2
      BY <1>2, <2>1, <3>1
    <3>2. CASE p # FirstData + 2
      <4>1. p \in 2..FirstData + 1
        BY <1>1, <3>2
      <4>2. F[p] = EmptyPage(p - 1)
        BY <1>2, <3>2
      <4> QED
        BY <2>2, <4>1, <4>2
    <3> QED
      BY <3>1, <3>2
  <2> QED
    BY <2>3
<1>5. F \in [2..FirstData + 2 -> Pages]
  BY <1>2, <1>4
<1>6. 2..FirstData + 2 \in Finite
  <2>1. IsFiniteSet(2..FirstData + 2)
    BY <1>1, FS_Interval
  <2>2. 2..FirstData + 2 \subseteq Nat
    BY <1>1
  <2> QED
    BY <2>1, <2>2 DEF Finite
<1>7. F \in PageSets
  BY <1>5, <1>6 DEF PageSets
<1>8. FirstPages \in PageSets
  <2>1. FirstHeader \in Pages
    BY FirstHeaderIs DEF Pages
  <2> QED
    BY <1>3, <1>7, <2>1, WithPage
<1>9. /\ DOMAIN FirstPages = (2..FirstData + 2) \cup {0}
      /\ FirstPages[0] = FirstHeader /\ \A p \in 2..FirstData + 2 : FirstPages[p] = F[p]
  BY <1>1, <1>2, <1>3 DEF With
<1>10. FirstPages[FirstData + 2] = ListPage(0, <<>>, 0)
  BY <1>1, <1>2, <1>9
<1>11. \A p \in 2..FirstData + 1 : FirstPages[p] = EmptyPage(p - 1)
  BY <1>1, <1>2, <1>9
<1> QED
  BY <1>8, <1>9, <1>10, <1>11

LEMMA FirstList == Chain(FirstPages, FirstData + 2, <<FirstData + 2>>)
<1>1. PICK l, L : l = FirstData + 2 /\ L = <<FirstData + 2>>
  OBVIOUS
<1>2. l \in Nat /\ L \in Seq(Nat) /\ Len(L) = 1 /\ L[1] = l
  BY <1>1, PageManagerAssumption
<1>3. l \in DOMAIN FirstPages /\ FirstPages[l] = ListPage(0, <<>>, 0)
  BY <1>1, <1>2, FirstPagesAre, PageManagerAssumption
<1>4. /\ FirstPages[l] \in ListPages /\ FirstPages[l].stored <= Len(FirstPages[l].entries)
      /\ FirstPages[l].previous = 0
  BY <1>3 DEF ListPage, ListPages
<1>5. ReadPage(FirstPages, 0).kind # "list"
  BY FirstPagesAre, FirstHeaderIs, HeaderIsNoList
<1>6. Chain(FirstPages, l, L)
  BY <1>2, <1>3, <1>4, <1>5 DEF Chain
<1> QED
  BY <1>1, <1>6

LEMMA InitIsGood ==
    ASSUME Init
    PROVE  PageInv
<1>1. PICK l, h, P, L : l = FirstData + 2 /\ h = FirstHeader /\ P = FirstPages
                        /\ L = <<FirstData + 2>>
  OBVIOUS
<1>2. /\ pm = [pages |-> P, freePages |-> <<>>, firstUnusedPage |-> l + 1,
               nPages |-> pagesPerFile, editedPages |-> [p \in 2..l |-> p]]
      /\ disk = With(NoPages, 0, h)
      /\ flushPc = "none" /\ released = <<>> /\ lost = {}
  BY <1>1 DEF Init, FirstPages, FirstHeader
<1>3. /\ l \in Nat /\ pagesPerFile \in Nat /\ FirstData \in Nat /\ NewData \in Nat /\ NewRaw \in Nat
      /\ l = FirstData + 2
  BY <1>1, PageManagerAssumption
<1>4. /\ h \in Headers /\ h.freePages = l /\ h.firstUnusedPage = l + 1 /\ h.lastVersion = 0
      /\ \A d \in Data : h.at[d] = IF d <= FirstData THEN 1 + d ELSE 0
      /\ \A d \in Data : h.content[d] = EmptyPage(d)
  BY <1>1, <1>3, FirstHeaderIs
<1>5. /\ P \in PageSets /\ DOMAIN P = (2..l) \cup {0} /\ P[0] = h
      /\ \A p \in 2..FirstData + 1 : P[p] = EmptyPage(p - 1)
  BY <1>1, FirstPagesAre
<1>6. Chain(P, l, L) /\ Range(L) = {l}
  <2>1. Range(L) = {l}
    BY <1>1 DEF Range
  <2> QED
    BY <1>1, <2>1, FirstList
<1>7. /\ DOMAIN disk = {0} /\ disk[0] = h /\ disk \in PageSets
  <2>1. DOMAIN NoPages = {}
    BY DEF NoPages
  <2>2. DOMAIN disk = {0} /\ disk[0] = h
    BY <1>2, <2>1 DEF With
  <2>3. disk \in [{0} -> Pages]
    BY <1>2, <1>4, <2>1 DEF With, Pages
  <2>4. {0} \in Finite
    BY FS_Singleton DEF Finite
  <2> QED
    BY <2>2, <2>3, <2>4 DEF PageSets
<1>8. pm \in Managers
  <2>1. [p \in 2..l |-> p] \in [2..l -> Nat] /\ 2..l \in SUBSET Nat
    BY <1>3
  <2>2. [p \in 2..l |-> p] \in Edits
    BY <2>1 DEF Edits
  <2>3. <<>> \in Seq(Nat)
    OBVIOUS
  <2> QED
    BY <1>2, <1>3, <1>5, <2>2, <2>3 DEF Managers
<1>9. /\ pm.pages = P /\ pm.freePages = <<>> /\ pm.firstUnusedPage = l + 1
      /\ DOMAIN pm.editedPages = 2..l /\ \A p \in 2..l : pm.editedPages[p] = p
  BY <1>2
<1>10. TypeInv
  BY <1>2, <1>4, <1>5, <1>7, <1>8, <1>9, EmptySeq DEF TypeInv
<1>11. OldList = L /\ Header = h /\ First
  <2>1. GetContainerPages(P, l) = L
    BY <1>5, <1>6, ListIs
  <2>2. 0 \notin DOMAIN pm.editedPages
    BY <1>3, <1>9
  <2> QED
    BY <1>4, <1>5, <1>7, <1>9, <2>1, <2>2 DEF OldList, Header, headerPageNumber, First
<1>12. DataOf(h) = 2..FirstData + 1
  <2>1. ASSUME NEW x \in DataOf(h) PROVE x \in 2..FirstData + 1
    <3>1. PICK d \in Data : x = h.at[d] /\ x # 0
      BY DEF DataOf
    <3> QED
      BY <1>3, <1>4, <3>1 DEF Data
  <2>2. ASSUME NEW x \in 2..FirstData + 1 PROVE x \in DataOf(h)
    <3>1. x - 1 \in Data /\ x - 1 <= FirstData /\ 1 + (x - 1) = x /\ x # 0
      BY <1>3, <2>2 DEF Data
    <3>2. h.at[x - 1] = x
      BY <1>4, <3>1
    <3> QED
      BY <3>1, <3>2 DEF DataOf
  <2> QED
    BY <2>1, <2>2
<1>13. Holds(P, h)
  <2>1. SUFFICES ASSUME NEW d \in Data, h.at[d] # 0
                 PROVE  h.at[d] \in DOMAIN P /\ Grown(h.content[d], P[h.at[d]])
    BY DEF Holds
  <2>2. d \in Nat /\ d >= 1 /\ d <= FirstData /\ h.at[d] = 1 + d
    BY <1>3, <1>4, <2>1 DEF Data
  <2>3. 1 + d \in 2..FirstData + 1 /\ (1 + d) - 1 = d /\ 1 + d \in 2..l
    BY <1>3, <2>2
  <2>4. P[1 + d] = EmptyPage((1 + d) - 1) /\ h.content[d] = EmptyPage(d)
    BY <1>4, <1>5, <2>3
  <2> QED
    BY <1>5, <2>2, <2>3, <2>4, SamePage
<1>14. ASSUME NEW d \in Data, h.at[d] # 0
       PROVE  Moved(pm, h, h, TRUE, d)
  <2>1. h.at[d] \in 2..l
    BY <1>3, <1>12, <1>14, DataOfIs
  <2> QED
    BY <1>9, <2>1 DEF Moved
<1>15. Below(l + 1) = 2..l /\ Old(h, L) = 2..l
  BY <1>3, <1>6, <1>12 DEF Below, Old
<1>16. Range(pm.freePages) = {} /\ IsInjective(pm.freePages)
  BY <1>9 DEF Range, IsInjective
<1>17. InBatch(pm, h, h, L, TRUE, lost)
  <2>1. DataOf(h) \cap Range(L) = {}
    BY <1>3, <1>6, <1>12
  <2>2. DataOf(h) \subseteq 2..l
    BY <1>3, <1>12
  <2> QED
    BY <1>4, <1>6, <1>9, <1>13, <1>14, <1>15, <1>16, <2>1, <2>2 DEF InBatch
<1>18. InBatch(pm, disk[0], Header, OldList, First, lost)
  <2>1. First = TRUE
    BY <1>11 DEF First
  <2> QED
    BY <1>7, <1>11, <1>17, <2>1
<1>19. DiskHas
  BY <1>7, <1>11 DEF DiskHas
<1>20. BatchInv
  <2>1. 0 \notin DOMAIN pm.editedPages
    BY <1>3, <1>9
  <2> QED
    BY <1>2, <1>5, <1>7, <1>9, <1>18, <1>19, <2>1 DEF BatchInv
<1> QED
  BY <1>2, <1>10, <1>20 DEF PageInv

-----------------------------------------------------------------------------
(* The theorems                                                            *)

LEMMA NextKeeps ==
    ASSUME PageInv, [Next]_vars, ~FirstBatchCrashes
    PROVE  PageInv'
<1>1. CASE \E d \in Data \ Raw : Write(d) \/ WriteNew(d)
  BY <1>1, WriteKeeps, WriteNewKeeps
<1>2. CASE flushPages
  BY <1>2, FlushPagesKeeps
<1>3. CASE flushSync
  BY <1>3, FlushSyncKeeps
<1>4. CASE flushHeader
  BY <1>4, FlushHeaderKeeps
<1>5. CASE flushSyncHeader
  BY <1>5, FlushSyncHeaderKeeps
<1>6. CASE flushRelease
  BY <1>6, FlushReleaseKeeps
<1>7. CASE Crash
  BY <1>7, CrashKeeps
<1>8. CASE UNCHANGED vars
  <2>1. UNCHANGED <<pm, disk, flushPc, released, lost>>
    BY <1>8 DEF vars
  <2> QED
    BY <2>1 DEF PageInv, TypeInv, BatchInv, FlushInv, OldList, NewList, Header,
                headerPageNumber, First, DiskHas
<1> QED
  BY <1>1, <1>2, <1>3, <1>4, <1>5, <1>6, <1>7, <1>8 DEF Next

\* Whatever the sizes of the pages, the number of pages, and the order of writes,
\* steps of flushes, crashes and restarts after the first version, the invariant
\* holds.
THEOREM PageInvariant ==
    ASSUME ~FirstBatchCrashes
    PROVE  Spec => []PageInv
<1>1. Init => PageInv
  BY InitIsGood
<1>2. PageInv /\ [Next]_vars => PageInv'
  BY NextKeeps
<1> QED
  BY <1>1, <1>2, PTL DEF Spec

\* What InUse is, of a header with its list.
LEMMA InUseIs ==
    ASSUME NEW P \in PageSets, NEW h, NEW L, Chain(P, h.freePages, L)
    PROVE  InUse(P, h) \ {0} = Old(h, L)
<1>1. GetContainerPages(P, h.freePages) = L
  <2>1. PICK p : p = h.freePages
    OBVIOUS
  <2>2. GetContainerPages(P, p) = L
    BY <2>1, ListIs
  <2> QED
    BY <2>1, <2>2
<1>2. 0 \notin Range(L)
  <2>1. \A x \in Range(L) : x \in DOMAIN P /\ P[x] \in ListPages
    BY ChainInDomain
  <2>2. ReadPage(P, 0).kind # "list"
    BY DEF Chain
  <2> QED
    BY <2>1, <2>2 DEF ReadPage, ListPages
<1> QED
  BY <1>1, <1>2 DEF InUse, Old, DataOf

\* The version on the disk, once there is one
LEMMA DiskIsSafe ==
    ASSUME PageInv, ~First
    PROVE  \E L : Safe(disk, disk[0], L, lost)
<1>1. CASE flushPc = "none"
  BY <1>1 DEF PageInv, BatchInv, DiskHas
<1>2. CASE flushPc = "sync"
  BY <1>2 DEF PageInv, FlushInv, DiskHas
<1>3. CASE flushPc \in {"header", "syncHeader"}
  BY <1>3 DEF PageInv, FlushInv
<1>4. CASE flushPc = "release"
  BY <1>4 DEF PageInv, FlushInv
<1> QED
  BY <1>1, <1>2, <1>3, <1>4 DEF PageInv, TypeInv

\* At every moment, also after a crash between any two steps of a flush with any
\* of its pages on the disk, the header on the disk finds a whole version.
THEOREM DiskStaysWhole ==
    ASSUME ~FirstBatchCrashes
    PROVE  Spec => []DiskIsWhole
<1>1. PageInv => DiskIsWhole
  <2>1. SUFFICES ASSUME PageInv, disk[0].lastVersion > 0
                 PROVE  Whole(disk, disk[0])
    BY DEF DiskIsWhole
  <2>2. ~First /\ disk \in PageSets
    BY <2>1 DEF First, PageInv, TypeInv
  <2>3. PICK L : Safe(disk, disk[0], L, lost)
    BY <2>1, <2>2, DiskIsSafe
  <2>4. Chain(disk, disk[0].freePages, L) /\ Holds(disk, disk[0])
    BY <2>3 DEF Safe
  <2>5. GetContainerPages(disk, disk[0].freePages) = L
    BY <2>2, <2>4, ListIs
  <2>6. L # <<>>
    BY <2>4, EmptySeq DEF Chain
  <2>7. \A d \in Data : disk[0].at[d] # 0 =>
            Grown(disk[0].content[d], ReadPage(disk, disk[0].at[d]))
    BY <2>4 DEF Holds, ReadPage
  <2> QED
    BY <2>5, <2>6, <2>7 DEF Whole
<1> QED
  BY <1>1, PageInvariant, PTL

\* The pages that the version on the disk uses, until the new one is on it
LEMMA DiskUses ==
    ASSUME PageInv, flushPc # "release"
    PROVE  InUse(disk, disk[0]) \ {0} \subseteq Old(disk[0], OldList)
<1>1. /\ TypeInv /\ disk \in PageSets /\ 0 \in DOMAIN disk /\ disk[0] \in Headers
      /\ pm.pages \in PageSets
  BY ManagerFields DEF PageInv, TypeInv
<1>2. CASE flushPc \in {"none", "sync"}
  <2>1. DiskHas
    BY <1>2 DEF PageInv, BatchInv, FlushInv
  <2>2. CASE First
    <3>1. DOMAIN disk = {0}
      BY <2>1, <2>2 DEF DiskHas
    <3>2. PICK p : p = disk[0].freePages
      OBVIOUS
    <3>3. ReadPage(disk, p).kind # "list"
      BY <1>1, <3>1 DEF ReadPage, ZeroPage, Headers
    <3>4. GetContainerPages(disk, disk[0].freePages) = <<>>
      BY <1>1, <3>2, <3>3, NoList
    <3>5. Range(<<>>) = {}
      BY DEF Range
    <3> QED
      BY <3>4, <3>5 DEF InUse, Old, DataOf
  <2>3. CASE ~First
    <3>1. Chain(disk, disk[0].freePages, OldList)
      BY <2>1, <2>3 DEF DiskHas, Safe
    <3> QED
      BY <1>1, <3>1, InUseIs
  <2> QED
    BY <2>2, <2>3
<1>3. CASE flushPc \in {"header", "syncHeader"}
  <2>1. /\ Chain(pm.pages, disk[0].freePages, OldList)
        /\ DOMAIN disk = DOMAIN pm.pages
        /\ \A p \in DOMAIN disk : p # 0 => disk[p] = pm.pages[p]
    BY <1>3 DEF PageInv, FlushInv
  <2>2. ReadPage(disk, 0).kind # "list"
    BY <1>1, HeaderIsNoList
  <2>3. \A x \in Range(OldList) : x \in DOMAIN pm.pages /\ pm.pages[x] \in ListPages
    BY <2>1, ChainInDomain
  <2>4. 0 \notin Range(OldList)
    BY <1>1, <2>3 DEF TypeInv, ListPages, Headers
  <2>5. \A x \in Range(OldList) : x \in DOMAIN disk /\ disk[x] = pm.pages[x]
    BY <2>1, <2>3, <2>4
  <2>6. Chain(disk, disk[0].freePages, OldList)
    BY <2>1, <2>2, <2>5, ChainMoves
  <2> QED
    BY <1>1, <2>6, InUseIs
<1> QED
  BY <1>1, <1>2, <1>3 DEF TypeInv

LEMMA BatchUses ==
    ASSUME PageInv, flushPc = "none"
    PROVE  Used = Old(disk[0], OldList) \cup DataOf(Header)
<1>1. /\ pm.pages[0] = disk[0] /\ pm.pages \in PageSets
      /\ Chain(pm.pages, disk[0].freePages, OldList) /\ Header.freePages = disk[0].freePages
  BY ManagerFields DEF PageInv, TypeInv, BatchInv, InBatch
<1>2. InUse(pm.pages, pm.pages[0]) \ {0} = Old(disk[0], OldList)
  BY <1>1, InUseIs
<1>3. InUse(pm.pages, Header) \ {0} = Old(Header, OldList)
  <2>1. PICK H : H = Header
    OBVIOUS
  <2>2. Chain(pm.pages, H.freePages, OldList)
    BY <1>1, <2>1
  <2> QED
    BY <1>1, <2>1, <2>2, InUseIs
<1>4. InUse(disk, disk[0]) \ {0} \subseteq Old(disk[0], OldList)
  BY DiskUses
<1> QED
  BY <1>2, <1>3, <1>4 DEF Used, Old

LEMMA FlushUses ==
    ASSUME PageInv, flushPc # "none"
    PROVE  /\ Old(pm.pages[1], NewList) \subseteq Used
           /\ Used \subseteq Old(pm.pages[1], NewList) \cup
                  (IF flushPc = "release" THEN {} ELSE Old(disk[0], OldList))
<1>1. FlushInv /\ TypeInv /\ pm.pages \in PageSets
  BY ManagerFields DEF PageInv, TypeInv
<1>2. PICK K : K = pm.pages[1]
  OBVIOUS
<1>3. Header = K /\ Chain(pm.pages, K.freePages, NewList)
  BY <1>1, <1>2 DEF FlushInv, Header, headerPageNumber, Safe
<1>4. InUse(pm.pages, Header) \ {0} = Old(K, NewList)
  BY <1>1, <1>3, InUseIs
<1>5. CASE flushPc = "release"
  <2>1. disk = pm.pages /\ pm.pages[0] = K
    BY <1>1, <1>2, <1>5 DEF FlushInv
  <2> QED
    BY <1>2, <1>3, <1>4, <1>5, <2>1 DEF Used
<1>6. CASE flushPc # "release"
  <2>1. InUse(disk, disk[0]) \ {0} \subseteq Old(disk[0], OldList)
    BY <1>6, DiskUses
  <2>2. CASE flushPc = "syncHeader"
    <3>1. pm.pages[0] = K
      BY <1>1, <1>2, <2>2 DEF FlushInv
    <3> QED
      BY <1>2, <1>3, <1>4, <1>6, <2>1, <3>1 DEF Used
  <2>3. CASE flushPc # "syncHeader"
    <3>1. pm.pages[0] = disk[0] /\ Chain(pm.pages, disk[0].freePages, OldList)
      BY <1>1, <1>6, <2>3 DEF FlushInv, TypeInv
    <3>2. InUse(pm.pages, pm.pages[0]) \ {0} = Old(disk[0], OldList)
      BY <1>1, <3>1, InUseIs
    <3> QED
      BY <1>2, <1>4, <1>6, <2>1, <3>2 DEF Used
  <2> QED
    BY <2>2, <2>3
<1> QED
  BY <1>5, <1>6

LEMMA FirstPartInjective ==
    ASSUME NEW q \in Seq(Nat), NEW r \in Seq(Nat), IsInjective(q \o r)
    PROVE  IsInjective(q)
<1>1. PICK c : c = q \o r
  OBVIOUS
<1>2. /\ c \in Seq(Nat) /\ Len(c) = Len(q) + Len(r) /\ Len(q) \in Nat /\ Len(r) \in Nat
  BY <1>1, ConcatFacts, SeqFacts
<1>3. \A i, j \in 1..Len(c) : c[i] = c[j] => i = j
  BY <1>1, <1>2, SeqFacts
<1>4. \A i \in 1..Len(q) : c[i] = q[i] /\ i \in 1..Len(c)
  BY <1>1, <1>2
<1>5. \A i, j \in 1..Len(q) : q[i] = q[j] => i = j
  BY <1>3, <1>4
<1> QED
  BY <1>5, SeqFacts

\* A page that is free is not used by the last version, by the batch, or by the
\* version on the disk, and is free once.
THEOREM FreePagesStayUnused ==
    ASSUME ~FirstBatchCrashes
    PROVE  Spec => []FreePagesAreUnused
<1>1. PageInv => FreePagesAreUnused
  <2>1. SUFFICES ASSUME PageInv PROVE FreePagesAreUnused
    OBVIOUS
  <2>2. CASE flushPc = "none"
    <3>1. InBatch(pm, disk[0], Header, OldList, First, lost)
      BY <2>1, <2>2 DEF PageInv, BatchInv
    <3>2. /\ IsInjective(pm.freePages)
          /\ Range(pm.freePages) \subseteq Below(pm.firstUnusedPage)
          /\ Range(pm.freePages) \cap (Old(disk[0], OldList) \cup DataOf(Header)) = {}
      BY <3>1 DEF InBatch
    <3>3. Range(pm.freePages) \cap Used = {}
      BY <2>1, <2>2, <3>2, BatchUses
    <3> QED
      BY <3>2, <3>3 DEF FreePagesAreUnused, Below
  <2>3. CASE flushPc # "none"
    <3>1. FlushInv /\ pm.freePages \in Seq(Nat) /\ released \in Seq(Nat)
      BY <2>1, <2>3, ManagerFields DEF PageInv, TypeInv
    <3>2. PICK K, f : K = pm.pages[1] /\ f = pm.freePages
      OBVIOUS
    <3>3. /\ Old(K, NewList) \cup Listed(pm.pages, NewList) \subseteq Below(pm.firstUnusedPage)
          /\ Listed(pm.pages, NewList) \cap Old(K, NewList) = {}
      BY <3>1, <3>2 DEF FlushInv, Safe
    <3>4. /\ Range(f) \subseteq Listed(pm.pages, NewList)
          /\ flushPc # "release" => Range(f) \cap Old(disk[0], OldList) = {}
      BY <3>1, <3>2, ConcatFacts DEF FlushInv
    <3>5. Range(f) \cap Used = {}
      BY <2>1, <2>3, <3>2, <3>3, <3>4, FlushUses
    <3>6. IsInjective(f)
      BY <3>1, <3>2, FirstPartInjective DEF FlushInv
    <3> QED
      BY <3>2, <3>3, <3>4, <3>5, <3>6 DEF FreePagesAreUnused, Below
  <2> QED
    BY <2>2, <2>3
<1> QED
  BY <1>1, PageInvariant, PTL

\* No page leaks: what is not used is free, about to be released, or lost.
THEOREM PagesStayAccounted ==
    ASSUME ~FirstBatchCrashes
    PROVE  Spec => []PagesAreAccounted
<1>1. PageInv => PagesAreAccounted
  <2>1. SUFFICES ASSUME PageInv
                 PROVE  Below(pm.firstUnusedPage) \subseteq
                            Used \cup Range(pm.freePages) \cup Range(released) \cup lost
    BY DEF PagesAreAccounted, Below
  <2>2. CASE flushPc = "none"
    <3>1. Below(pm.firstUnusedPage) \subseteq
              Old(disk[0], OldList) \cup DataOf(Header) \cup Range(pm.freePages) \cup lost
      BY <2>1, <2>2 DEF PageInv, BatchInv, InBatch
    <3> QED
      BY <2>1, <2>2, <3>1, BatchUses
  <2>3. CASE flushPc # "none"
    <3>1. FlushInv /\ pm.freePages \in Seq(Nat) /\ released \in Seq(Nat)
      BY <2>1, <2>3, ManagerFields DEF PageInv, TypeInv
    <3>2. Below(pm.firstUnusedPage) \subseteq
              Old(pm.pages[1], NewList) \cup Listed(pm.pages, NewList) \cup lost
      BY <3>1 DEF FlushInv, Safe
    <3>3. Listed(pm.pages, NewList) = Range(pm.freePages) \cup Range(released)
      <4>1. Range(pm.freePages \o released) = Range(pm.freePages) \cup Range(released)
        BY <3>1, ConcatFacts
      <4> QED
        BY <3>1, <4>1 DEF FlushInv
    <3>4. Old(pm.pages[1], NewList) \subseteq Used
      BY <2>1, <2>3, FlushUses
    <3> QED
      BY <3>2, <3>3, <3>4
  <2> QED
    BY <2>2, <2>3
<1> QED
  BY <1>1, PageInvariant, PTL
=============================================================================
