----------------------------- MODULE PageManager -----------------------------
(***************************************************************************)
(* The page manager of HashDB64 (hashdb64/page/page_manager.cpp) and the   *)
(* list of free pages it keeps in the file (page_list_page.cpp), under the *)
(* writes of Database64 (database_64.cpp).  Pages live in files mapped to  *)
(* memory.  Page 0 is the header of the last version flushed; a batch works*)
(* on a copy of it, page 1, and on copies of the pages it edits.           *)
(*                                                                         *)
(* A page of key-values is what it is for and how often it was written; a  *)
(* page of raw data, to which values are appended in place, is how many    *)
(* were appended and the page after it.  The header locates all of them    *)
(* itself: a page below another one is edited with the pages on the way to *)
(* it.  The root page of the history is also named by the data that a      *)
(* version keeps.  There is one writer (MULTIPLE_WRITES 0).                *)
(***************************************************************************)
EXTENDS Naturals, FiniteSets, SequencesExt

CONSTANTS
    FirstData,       \* how many data pages a new database has; the first is raw
    NewData,         \* how many pages of key-values later writes may add
    NewRaw,          \* how many pages of raw data later writes may add
    History,         \* the page keyValueHistoryPage, one of the first
    entriesPerPage,  \* entries of a page of the free list
    pagesPerFile,
    FirstBatchCrashes,  \* whether a crash may come before the first flush
    MaxWrites, MaxVersions, MaxCrashes  \* bounds

\* The first ones in the order in which HeaderPage::InitEmptyPage takes them
Data == 1..FirstData + NewData + NewRaw

Raw == {1} \cup {d \in Data : d > FirstData + NewData}

ASSUME PageManagerAssumption ==
    /\ {FirstData, NewData, NewRaw} \subseteq Nat /\ History \in 2..FirstData
    /\ entriesPerPage \in Nat \ {0}
    /\ pagesPerFile \in Nat /\ pagesPerFile > FirstData + 2
    /\ FirstBatchCrashes \in BOOLEAN
    /\ {MaxWrites, MaxVersions, MaxCrashes} \subseteq Nat

VARIABLES
    pm,      \* the page manager: the mapped pages, freePages, firstUnusedPage,
             \* nPages and editedPages
    disk,    \* the pages as they are on the disk
    flushPc, \* step of flushPages, or "none"
    released,\* pages that flushPages is about to release
    lost,    \* history: free pages that a restart did not find in the list
    writes, crashes  \* counters, for the bounds

vars == <<pm, disk, flushPc, released, lost, writes, crashes>>

-----------------------------------------------------------------------------
(* Pages *)

ZeroPage == [kind |-> "zero"]
DataPage(d, n) == [kind |-> "data", data |-> d, value |-> n]
RawPage(d, n, next) == [kind |-> "raw", data |-> d, value |-> n, next |-> next]
EmptyPage(d) == IF d \in Raw THEN RawPage(d, 0, 0) ELSE DataPage(d, 0)
ListPage(previous, entries, stored) ==
    [kind |-> "list", previous |-> previous, entries |-> entries, stored |-> stored]

\* The header; content tells what the pages held when it was made, rawData
\* which page of raw data is the current one, and named is the page that the
\* data of the last version names (versionData.keyValueHistoryPage).
HeaderPage(at, content, rawData, named, freePages, firstUnusedPage, lastVersion) ==
    [kind |-> "header", at |-> at, content |-> content, rawData |-> rawData,
     named |-> named, freePages |-> freePages,
     firstUnusedPage |-> firstUnusedPage, lastVersion |-> lastVersion]

ReadPage(pages, p) == IF p \in DOMAIN pages THEN pages[p] ELSE ZeroPage

NoPages == <<>>  \* the function with no pages

\* The map f with x at p
With(f, p, x) == [q \in DOMAIN f \cup {p} |-> IF q = p THEN x ELSE f[q]]

-----------------------------------------------------------------------------
(* The list of free pages, from the first page of it to the one that the   *)
(* header names.  It is no longer than the number of pages.                *)

GetContainerPages(pages, p) ==
    LET read[i \in 0..Cardinality(DOMAIN pages)] ==
            IF i = 0 THEN <<>>
            ELSE LET found == read[i - 1]
                     next == IF found = <<>> THEN p ELSE pages[Head(found)].previous
                 IN  IF ReadPage(pages, next).kind = "list" THEN <<next>> \o found ELSE found
    IN  read[Cardinality(DOMAIN pages)]

\* The entries below the stored offset
PagesStored(page) == SubSeq(page.entries, 1, page.stored)

GetPages(pages, p) ==
    LET list == GetContainerPages(pages, p)
        upTo[i \in 0..Len(list)] ==
            IF i = 0 THEN <<>> ELSE upTo[i - 1] \o PagesStored(pages[list[i]])
    IN  upTo[Len(list)]

\* Entries that are in a page of the list, but not below its offset
PagesDropped(pages, p) ==
    UNION {Range(pages[c].entries) \ Range(PagesStored(pages[c])) :
               c \in Range(GetContainerPages(pages, p))}

\* CreatePages fills the containers from the end of the list; "offset -= 8"
\* leaves the last entry of each of them above the offset.
CreatePages(pages, freePages, containers) ==
    LET list == Reverse(freePages)
        e == entriesPerPage
        entries(i) == SubSeq(list, (i - 1) * e + 1, Min({i * e, Len(list)}))
        offset(i) == IF entries(i) = <<>> THEN 0 ELSE Len(entries(i)) - 1
        previous(i) == IF i = Len(containers) THEN 0 ELSE containers[i + 1]
        index(p) == CHOOSE i \in DOMAIN containers : containers[i] = p
    IN  [p \in DOMAIN pages \cup Range(containers) |->
            IF p \notin Range(containers) THEN pages[p]
            ELSE ListPage(previous(index(p)), entries(index(p)), offset(index(p)))]

-----------------------------------------------------------------------------
(* Operations of the page manager, on a state of it.                       *)

addFile(s) == [s EXCEPT !.nPages = @ + pagesPerFile]

\* The page that getFreePage will give
FreePage(s) == IF s.freePages # <<>> THEN Last(s.freePages) ELSE s.firstUnusedPage

Give(s, p) == [s EXCEPT !.pages = With(@, p, ZeroPage), !.editedPages = With(@, p, p)]

getFreePage(s) ==
    IF s.freePages # <<>> THEN Give([s EXCEPT !.freePages = Front(@)], FreePage(s))
    ELSE LET t == IF s.firstUnusedPage = s.nPages THEN addFile(s) ELSE s
         IN  Give([t EXCEPT !.firstUnusedPage = @ + 1], FreePage(s))

\* After it editedPages[p] is the page to write to.
editPage(s, p) ==
    IF p \in DOMAIN s.editedPages THEN s
    ELSE LET copy == IF p <= 1 THEN 1 ELSE FreePage(s)
             t == IF p <= 1 THEN s ELSE getFreePage(s)
         IN  [t EXCEPT !.pages = With(@, copy, s.pages[p]), !.editedPages = With(@, p, copy)]

\* releasePage for each of the pages, in order
releasePages(s, ps) == [s EXCEPT !.freePages = @ \o ps]

\* Containers for the free pages, given that containers are taken from them
ContainersNeeded(free, others) ==
    LET e == entriesPerPage
        all == free + others
        n == (all + e) \div (e + 1)
        more == (all - free * (e + 1) + e - 1) \div e
    IN  Max({1, IF n > free THEN free + more ELSE n})

\* The manager after n calls of getFreePage, and the pages they gave
TakePages(s, n) ==
    LET take[i \in 0..n] ==
            IF i = 0 THEN [s |-> s, taken |-> <<>>]
            ELSE LET before == take[i - 1]
                 IN  [s |-> getFreePage(before.s),
                      taken |-> Append(before.taken, FreePage(before.s))]
    IN  take[n]

-----------------------------------------------------------------------------
\* init with no file: InitEmptyPage, and only the header is synced.  The
\* pages it takes count as edited.
Init ==
    LET list == FirstData + 2
        header == HeaderPage([d \in Data |-> IF d <= FirstData THEN 1 + d ELSE 0],
                             [d \in Data |-> EmptyPage(d)], 1, 0, list, list + 1, 0)
        fresh == [p \in 2..list |-> IF p = list THEN ListPage(0, <<>>, 0)
                                    ELSE EmptyPage(p - 1)]
    IN  /\ pm = [pages |-> With(fresh, 0, header), freePages |-> <<>>,
                 firstUnusedPage |-> list + 1, nPages |-> pagesPerFile,
                 editedPages |-> [p \in 2..list |-> p]]
        /\ disk = With(NoPages, 0, header)
        /\ flushPc = "none" /\ released = <<>> /\ lost = {}
        /\ writes = 0 /\ crashes = 0

\* Database64::headerPageNumber
headerPageNumber == IF 0 \in DOMAIN pm.editedPages THEN 1 ELSE 0

Header == pm.pages[headerPageNumber]

\* What a page holds after a write to it, and the header that locates it
Put(s, page, content) ==
    LET d == content.data
        header == [s.pages[1] EXCEPT !.at[d] = page, !.content[d] = content,
                                     !.rawData = IF d \in Raw THEN d ELSE @]
    IN  [s EXCEPT !.pages = With(With(@, 1, header), page, content)]

\* The current page of raw data
RawData(s) == s.pages[s.pages[1].at[s.pages[1].rawData]]

\* A value after those that the page has, among them values of a batch that a
\* crash cut short: in place, whoever else locates the page
AppendRaw(s, next) ==
    Put(s, s.pages[1].at[s.pages[1].rawData],
        RawPage(s.pages[1].rawData, RawData(s).value + 1, next))

\* The page is full: another one is linked to it for the rest of the value,
\* and is the current one
LinkRaw(s, d) ==
    Put(getFreePage(AppendRaw(s, FreePage(s))), FreePage(s), RawPage(d, 1, 0))

\* A page that has a next one refuses a value, since it should not be the
\* current one, and so does a page of zeros.
Accepts(page) == page.kind = "raw" /\ page.next = 0

RawWrites(s) ==
    IF ~Accepts(RawData(s)) THEN {}
    ELSE {AppendRaw(s, 0)} \cup
         {LinkRaw(s, d) : d \in {r \in Raw : s.pages[1].at[r] = 0}}

\* A write to a page of key-values, which may be new.  Its value goes to the
\* raw data, unless it is the one the key has or the raw data refuses it.
PutValue(s, d, page) ==
    LET u == Put(s, page, DataPage(d, s.pages[1].content[d].value + 1))
    IN  {u} \cup RawWrites(u)

Write(d) ==
    /\ flushPc = "none" /\ writes < MaxWrites
    /\ Header.at[d] # 0
    /\ LET s == editPage(editPage(pm, headerPageNumber), Header.at[d])
       IN  pm' \in PutValue(s, d, s.editedPages[Header.at[d]])
    /\ writes' = writes + 1
    /\ UNCHANGED <<disk, flushPc, released, lost, crashes>>

\* A page is split, or a page of history is full
WriteNew(d) ==
    /\ flushPc = "none" /\ writes < MaxWrites
    /\ Header.at[d] = 0
    /\ LET s == editPage(pm, headerPageNumber)
       IN  pm' \in PutValue(getFreePage(s), d, FreePage(s))
    /\ writes' = writes + 1
    /\ UNCHANGED <<disk, flushPc, released, lost, crashes>>

-----------------------------------------------------------------------------
(* flushPages, up to each point where a crash makes a difference.          *)

mutReleaseAllEdited == {p \in DOMAIN pm.editedPages : p >= 2}

copiedPages == {p \in DOMAIN pm.editedPages : p >= 2 /\ pm.editedPages[p] # p}

\* Steps 1 to 3, after WriteTree has written key-values and the version with
\* the page of its history, unless the root did not change; a new version is
\* written to the raw data too, which must not have refused it.
flushPages ==
    /\ flushPc = "none"
    /\ Header.content[History] # pm.pages[0].content[History]
    /\ \E version \in {Header.lastVersion, Header.lastVersion + 1} \cap (1..MaxVersions),
          copied \in Bijection(1..Cardinality(copiedPages), copiedPages) :
          /\ version # Header.lastVersion => Accepts(RawData(pm))
          /\ LET previous == GetContainerPages(pm.pages, pm.pages[0].freePages)
                 others == previous \o copied
                 t == TakePages(editPage(pm, headerPageNumber),
                                ContainersNeeded(Len(pm.freePages), Len(others)))
                 batch == t.s.pages[1]
                 header == [batch EXCEPT
                     !.freePages = t.taken[1],
                     !.firstUnusedPage = t.s.firstUnusedPage,
                     !.lastVersion = version,
                     !.named = IF version = Header.lastVersion THEN @ ELSE batch.at[History]]
             IN  /\ pm' = [t.s EXCEPT !.pages =
                               With(CreatePages(@, t.s.freePages \o others, t.taken), 1, header)]
                 /\ released' = others
    /\ flushPc' = "sync"
    /\ UNCHANGED <<disk, lost, writes, crashes>>

mutSyncWithHeader ==
    /\ flushPc = "sync"
    /\ flushPc' = "header"
    /\ UNCHANGED <<pm, disk, released, lost, writes, crashes>>

\* Step 4: everything but the header
flushSync ==
    /\ flushPc = "sync"
    /\ disk' = [pm.pages EXCEPT ![0] = disk[0]]
    /\ flushPc' = "header"
    /\ UNCHANGED <<pm, released, lost, writes, crashes>>

\* Step 5: the header is copied, and synced
flushHeader ==
    /\ flushPc = "header"
    /\ pm' = [pm EXCEPT !.pages[0] = pm.pages[1]]
    /\ flushPc' = "syncHeader"
    /\ UNCHANGED <<disk, released, lost, writes, crashes>>

flushSyncHeader ==
    /\ flushPc = "syncHeader"
    /\ disk' = [disk EXCEPT ![0] = pm.pages[0]]
    /\ flushPc' = "release"
    /\ UNCHANGED <<pm, released, lost, writes, crashes>>

mutReleaseForgets ==
    /\ flushPc = "release"
    /\ pm' = [releasePages(pm, Tail(released)) EXCEPT !.editedPages = NoPages]
    /\ released' = <<>>
    /\ flushPc' = "none"
    /\ UNCHANGED <<disk, lost, writes, crashes>>

\* Steps 6 and 7
flushRelease ==
    /\ flushPc = "release"
    /\ pm' = [releasePages(pm, released) EXCEPT !.editedPages = NoPages]
    /\ released' = <<>>
    /\ flushPc' = "none"
    /\ UNCHANGED <<disk, lost, writes, crashes>>

-----------------------------------------------------------------------------
\* init with files: what the header on the disk says
Restart(pages, nPages) ==
    [pages |-> pages, freePages |-> GetPages(pages, pages[0].freePages),
     firstUnusedPage |-> pages[0].firstUnusedPage, nPages |-> nPages,
     editedPages |-> NoPages]

\* The pages that a header locates
InUse(pages, header) ==
    {header.at[d] : d \in Data} \cup Range(GetContainerPages(pages, header.freePages))

\* The machine stops: any of the pages that were not synced may have reached
\* the disk (all of them, if only the process stopped); and it starts again.
\* A page that neither header locates is zeroed before it is read, so that
\* what the disk holds of it is of no matter.
Crash ==
    /\ crashes < MaxCrashes
    /\ FirstBatchCrashes \/ disk[0].lastVersion > 0
    /\ \E written \in SUBSET {p \in {0} \cup InUse(disk, disk[0]) \cup InUse(pm.pages, pm.pages[0]) :
                                ReadPage(disk, p) # pm.pages[p]} :
          LET after == [p \in DOMAIN pm.pages |->
                           IF p \in written THEN pm.pages[p] ELSE ReadPage(disk, p)]
          IN  /\ disk' = after
              /\ pm' = Restart(after, pm.nPages)
              /\ lost' = lost \cup PagesDropped(after, after[0].freePages)
    /\ flushPc' = "none" /\ released' = <<>>
    /\ crashes' = crashes + 1
    /\ UNCHANGED writes

Next ==
    \/ \E d \in Data \ Raw : Write(d) \/ WriteNew(d)
    \/ flushPages \/ flushSync \/ flushHeader \/ flushSyncHeader \/ flushRelease
    \/ Crash

Spec == Init /\ [][Next]_vars

-----------------------------------------------------------------------------
(* Properties.                                                             *)

\* What a reader of the content finds in the page: the same, or raw data
\* that values were appended to since
Grown(content, page) ==
    \/ page = content
    \/ /\ content.kind = "raw" /\ page.kind = "raw" /\ page.data = content.data
       /\ content.value <= page.value
       /\ content.next \in {0, page.next}

\* Whether the pages hold all that a header says
Whole(pages, header) ==
    /\ \A d \in Data : header.at[d] # 0 =>
          Grown(header.content[d], ReadPage(pages, header.at[d]))
    /\ GetContainerPages(pages, header.freePages) # <<>>

\* At every moment, in particular after a crash between any two steps of a
\* flush with any of its pages on the disk, all that the header on the disk
\* locates is there: no page of key-values was edited in place or given out
\* again, and a page of raw data, which every batch changes in place, has kept
\* what the version appended and the link to the next one.  It says nothing
\* of what is reached through the data of a version (LastVersionIsReadable),
\* nor that more can be appended after a crash.
DiskIsWhole == disk[0].lastVersion > 0 => Whole(disk, disk[0])

Used ==
    (InUse(pm.pages, pm.pages[0]) \cup InUse(pm.pages, Header) \cup InUse(disk, disk[0])) \ {0}

\* A page is never given out while the header of the last version, of the
\* batch, or on the disk locates it, nor given out twice.  The page that the
\* data of a version names is not kept from it once that header has moved on.
FreePagesAreUnused ==
    /\ IsInjective(pm.freePages)
    /\ Range(pm.freePages) \cap Used = {}
    /\ Range(pm.freePages) \subseteq 2..(pm.firstUnusedPage - 1)

\* No page leaks while the process runs, however often pages are copied and
\* the list is rewritten: all that is lost is the last entry of every page of
\* the list, at a restart.
PagesAreAccounted ==
    2..(pm.firstUnusedPage - 1) \subseteq
        Used \cup Range(pm.freePages) \cup Range(released) \cup lost

\* "Many Trees, or states, coexist in the same Forest, or state history; the
\* forest is stored in the database" (database_64.hpp:49): at least the last
\* one can be read, from the page of history that its data names, as readKV
\* does (database_64.cpp:105-124).  VIOLATED: a flush that leaves the root as
\* it was moves that page, writes no new version data, and releases it.
LastVersionIsReadable ==
    flushPc = "none" /\ Header.lastVersion > 0 =>
        LET page == pm.pages[Header.named]
        IN  page.kind = "data" /\ page.data = History
=============================================================================
