------------------------------- MODULE PageHeap -------------------------------
(***************************************************************************)
(* PageHeap (src/kernel/Memory/Heaps/PageHeap.hpp): allocation of whole    *)
(* pages of a page directory, for one caller at a time.  free keeps the    *)
(* record of an allocation, unused, for the next request of its length;    *)
(* alloc also searches the directory for absent pages, whatever unused     *)
(* record they belong to.                                                  *)
(*                                                                         *)
(* Page p stands for the p-th page behind the first table: the search runs *)
(* over the tables as over one row of pages.                               *)
(* page_map is a map that keeps its keys (RBTree says when Utils::map does)*)
(* and finding a page's frame always succeeds, as the code asserts.        *)
(***************************************************************************)
EXTENDS Integers, FiniteSets, Sequences, SequencesExt

CONSTANTS
  Pages,     \* bound: pages in the directory
  Mapped,    \* pages that are present before the heap is made
  Lengths,   \* lengths of requests, in pages
  Records    \* bound: allocations recorded

PageHeapAssumption ==
  /\ Pages \in Nat /\ Mapped \subseteq 1 .. Pages
  /\ Lengths \subseteq Nat \ {0} /\ Records \in Nat

Page == 1 .. Pages
Null == 0

VARIABLES
  present,      \* the present bits of the directory
  allocations,  \* the records: first page, length and whether used
  page_map,     \* the place in allocations of a page's record, or Null
  _free_count, _use_count,
  state         \* "up", "gone" after the destructor, or what stopped it

vars == <<present, allocations, page_map, _free_count, _use_count, state>>

PagesOf(a) == a.page .. a.page + a.length - 1
Used == {i \in DOMAIN allocations : allocations[i].used}

TypeOK ==
  /\ present \subseteq Page
  /\ allocations \in Seq([page : Page, length : Lengths, used : BOOLEAN])
  /\ page_map \in [Page -> 0 .. Records]
  /\ _free_count \in Nat /\ _use_count \in Nat
  /\ state \in {"up", "gone", "present", "absent", "no room"}

Init ==
  /\ present = Mapped /\ allocations = <<>>
  /\ page_map = [p \in Page |-> Null]
  /\ _free_count = 0 /\ _use_count = 0 /\ state = "up"

-----------------------------------------------------------------------------
Reusable(a, n) == ~a.used /\ a.length = n

\* Faulty variant: the pages are not entered.
NotNamed(ps, i) == page_map
Named(ps, i) == [p \in Page |-> IF p \in ps THEN i ELSE page_map[p]]

\* The first unused record of the length, whose pages must all be absent.
AllocRecord(n) ==
  LET i == SelectInSeq(allocations, LAMBDA a : Reusable(a, n))
      a == allocations[i]
  IN /\ state = "up" /\ i # 0
     /\ allocations' = [allocations EXCEPT ![i].used = TRUE]
     /\ IF PagesOf(a) \cap present # {}
          THEN /\ state' = "present"
               /\ UNCHANGED <<present, page_map, _free_count, _use_count>>
          ELSE /\ present' = present \cup PagesOf(a)
               /\ page_map' = Named(PagesOf(a), i)
               /\ _free_count' = _free_count - a.length
               /\ _use_count' = _use_count + a.length
               /\ UNCHANGED state

\* Faulty variant: only the first page is looked at.
FirstFree(p, n) == p \notin present
Free(p, n) == p .. p + n - 1 \cap present = {}
\* Where n absent pages start.
Regions(n) == {p \in 1 .. Pages - n + 1 : Free(p, n)}

\* Without such a record, the first region of absent pages that is large enough.
AllocRegion(n) ==
  LET p == CHOOSE q \in Regions(n) : \A r \in Regions(n) : q <= r
      i == Len(allocations) + 1
  IN /\ state = "up"
     /\ \A j \in DOMAIN allocations : ~Reusable(allocations[j], n)
     /\ Regions(n) # {} /\ i <= Records
     /\ allocations' = Append(allocations, [page |-> p, length |-> n, used |-> TRUE])
     /\ present' = present \cup (p .. p + n - 1)
     /\ page_map' = Named(p .. p + n - 1, i)
     /\ _use_count' = _use_count + n
     /\ UNCHANGED <<_free_count, state>>

AllocFails(n) ==
  /\ state = "up"
  /\ \A j \in DOMAIN allocations : ~Reusable(allocations[j], n)
  /\ Regions(n) = {}
  /\ state' = "no room"
  /\ UNCHANGED <<present, allocations, page_map, _free_count, _use_count>>

-----------------------------------------------------------------------------
\* Faulty variant: only the entry of the address is erased.
OneErased(a) == [page_map EXCEPT ![a.page] = Null]
Erased(a) == [p \in Page |-> IF p \in PagesOf(a) THEN Null ELSE page_map[p]]

\* Faulty variant: the record stays used.
StillUsed(i) == allocations
Returned(i) == [allocations EXCEPT ![i].used = FALSE]

\* free of an address that alloc returned (it returns at once for one that has
\* no entry in the map).
FreePages(p) ==
  LET i == page_map[p]
      a == allocations[i]
  IN /\ state = "up" /\ i # Null
     /\ \E j \in Used : allocations[j].page = p
     /\ IF PagesOf(a) \subseteq present
          THEN /\ present' = present \ PagesOf(a)
               /\ _free_count' = _free_count + a.length
               /\ _use_count' = _use_count - a.length
               /\ page_map' = Erased(a) /\ allocations' = Returned(i)
               /\ UNCHANGED state
          ELSE /\ state' = "absent"
               /\ UNCHANGED <<present, allocations, page_map, _free_count,
                              _use_count>>

\* ~PageHeap: the pages of the used records go back.
Destroy ==
  /\ state = "up"
  /\ LET ps == UNION {PagesOf(allocations[i]) : i \in Used}
     IN IF ps \subseteq present
          THEN present' = present \ ps /\ allocations' = <<>> /\ state' = "gone"
          ELSE state' = "absent" /\ UNCHANGED <<present, allocations>>
  /\ UNCHANGED <<page_map, _free_count, _use_count>>

Next ==
  \/ \E n \in Lengths : AllocRecord(n) \/ AllocRegion(n) \/ AllocFails(n)
  \/ \E p \in Page : FreePages(p)
  \/ Destroy

Spec == Init /\ [][Next]_vars

-----------------------------------------------------------------------------
\* Until an assertion stops it, alloc and free agree on who has a page: a page
\* is present iff it was before or one used record has it, the map names that
\* record, and the two counts are the pages in use and those of unused records.
LengthOf(is) == Cardinality(UNION {{i} \X PagesOf(allocations[i]) : i \in is})
PagesOwned ==
  state = "up" =>
    /\ \A p \in Page :
         LET owners == {i \in Used : p \in PagesOf(allocations[i])}
         IN /\ p \in present <=> p \in Mapped \/ owners # {}
            /\ owners = {page_map[p]} \ {Null}
    /\ _use_count = LengthOf(Used)
    /\ _free_count = LengthOf(DOMAIN allocations \ Used)

\* The destructor leaves the directory as the constructor found it.
LeavesNothing == state = "gone" => present = Mapped

\* assert(!pg->present()) of the pages of an unused record.
RecordAssertion == state # "present"
=============================================================================
