--------------------------- MODULE SearchResults ---------------------------
(***************************************************************************)
(* A page of search results of the program's documentation, as it stands   *)
(* in the frame MSearchResults: html/search/search.js, createResults and   *)
(* class SearchResults.  The page shows rows that match the query of its   *)
(* address; a row with several results can unfold its children.  The arrow *)
(* keys move the focus over what is visible.                               *)
(***************************************************************************)
EXTENDS Integers, Sequences

CONSTANTS
  Sections,      \* indexes of the search filters, from 0
  Texts,         \* what the search field may hold
  Data,          \* searchData of the page for a filter and a text
  Matching       \* texts and the row names that begin with them, as ids

Name(section, query) == [section |-> section, query |-> query]
Names == [section : Sections, query : Texts]

ASSUME PagesAssumption ==
  /\ Sections # {}
  /\ Sections \subseteq Nat
  /\ \A p \in Names :
       /\ Len(Data[p]) \in Nat
       /\ DOMAIN Data[p] = 1 .. Len(Data[p])
       /\ \A i \in DOMAIN Data[p] : Data[p][i].kids \in Nat

\* Rows and the children of a row are numbered from 0; <<>> where
\* searchdata.js knows no page (nomatches.html).
Rows(p) == IF p \in Names THEN 0 .. Len(Data[p]) - 1 ELSE {}
Kids(p, i) == Data[p][i + 1].kids

\* SearchResults.Search, run when the page is loaded.
Visible(p) == { i \in Rows(p) : <<p.query, Data[p][i + 1].name>> \in Matching }

\* The rows of a page stand in the order of their names, so that those that
\* match follow each other.  A title may stand out of the order (all_c.js
\* begins with pse_201_20pg_2004), but a title has no children.  Nav for Up
\* relies on that: it looks for children to lead to under the row just above,
\* not under the row that NavPrev found.
ASSUME GapsAssumption ==
  \A p \in Names : \A i, j \in Visible(p) :
    j + 1 < i /\ Visible(p) \cap (j + 1 .. i - 1) = {} => Kids(p, j) = 0

-----------------------------------------------------------------------------
\* Places of the focus: an item, or a child of it.
Place(row, child) == [row |-> row, child |-> child]
Item(i) == Place(i, -1)
Nowhere == Place(-1, -1)

NavNext(p, index) ==
  LET ahead == { i \in Visible(p) : i >= index }
  IN  IF ahead = {} THEN Nowhere
      ELSE Item(CHOOSE i \in ahead : \A j \in ahead : i <= j)

NavPrev(p, index) ==
  LET before == { i \in Visible(p) : i <= index }
  IN  IF before = {} THEN Nowhere
      ELSE Item(CHOOSE i \in before : \A j \in before : j <= i)

Unfolded(p, open, i) == i \in Rows(p) /\ Kids(p, i) > 0 /\ i \in open

\* Key Up on an item.  The last child is looked for under the row just above,
\* which need not be the row that NavPrev found.
ItemUp(p, open, i) ==
  LET item == NavPrev(p, i - 1)
  IN  IF Unfolded(p, open, item.row) /\ Kids(p, i - 1) > 0
        THEN Place(i - 1, Kids(p, i - 1) - 1)
        ELSE item

ItemDown(p, open, i) ==
  IF Unfolded(p, open, i) THEN Place(i, 0) ELSE NavNext(p, i + 1)

\* NavChild
ChildUp(at) == IF at.child > 0 THEN Place(at.row, at.child - 1) ELSE Item(at.row)

\* Defective variant: the last child leads to the row's own item again.
ChildDownAgain(p, at) ==
  IF at.child + 1 < Kids(p, at.row) THEN Place(at.row, at.child + 1)
                                    ELSE NavNext(p, at.row)

ChildDown(p, at) ==
  IF at.child + 1 < Kids(p, at.row) THEN Place(at.row, at.child + 1)
                                    ELSE NavNext(p, at.row + 1)

Up(p, open, at) == IF at.child = -1 THEN ItemUp(p, open, at.row) ELSE ChildUp(at)
Down(p, open, at) == IF at.child = -1 THEN ItemDown(p, open, at.row) ELSE ChildDown(p, at)

-----------------------------------------------------------------------------
\* Reference definition: what is visible, in the order in which it is read.
Readable(p, open) ==
  { Item(i) : i \in Visible(p) }
    \cup UNION { { Place(i, c) : c \in 0 .. Kids(p, i) - 1 } : i \in Visible(p) \cap open }
Before(a, b) == a.row < b.row \/ (a.row = b.row /\ a.child < b.child)
Neighbours(p, open, a, b) ==
  /\ Before(a, b)
  /\ \A c \in Readable(p, open) : ~(Before(a, c) /\ Before(c, b))
=============================================================================
