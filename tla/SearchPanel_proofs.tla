------------------------- MODULE SearchPanel_proofs -------------------------
(***************************************************************************)
(* For all pages, texts and filters, and whatever the user does: while the *)
(* mouse is on the filters no timer is about to close their window; the    *)
(* arrow keys walk over the results in the order in which they are read,   *)
(* every variable keeps its type, and at rest the results on the screen    *)
(* are those of the word in the field.                                     *)
(***************************************************************************)
EXTENDS SearchPanel, FiniteSetTheorems, WellFoundedInduction, TLAPS

-----------------------------------------------------------------------------
(* The window of the filters.                                              *)

\* The SearchBox has its fields; which values they hold does not matter here.
Fields == {"field", "active", "searchActive", "last", "index", "shown", "target",
           "loading", "keyTimer", "forgotten", "select", "hideTimer"}
IsPanel(b) == b = [f \in Fields |-> b[f]]

\* What a method other than OnSearchSelectHide may do to the timer: stop it.
Keeps(b, after) == IsPanel(after) /\ (after.hideTimer => b.hideTimer)

IInv == IsPanel(panel) /\ HoverKeepsWindow

-----------------------------------------------------------------------------
LEMMA ActivateKeeps ==
  ASSUME NEW b, IsPanel(b), NEW isActive
  PROVE  Keeps(b, Activate(b, isActive))
BY DEF Activate, Keeps, IsPanel, Fields

LEMMA CloseResultsWindowKeeps ==
  ASSUME NEW b, IsPanel(b)
  PROVE  Keeps(b, CloseResultsWindow(b))
<1> DEFINE closed == [b EXCEPT !.shown = FALSE]
<1>1. IsPanel(closed) /\ closed.hideTimer = b.hideTimer
  BY DEF IsPanel, Fields
<1> HIDE DEF closed
<1>2. Keeps(closed, Activate(closed, FALSE))
  BY <1>1, ActivateKeeps
<1> QED  BY <1>1, <1>2 DEF CloseResultsWindow, Keeps, closed

\* Whatever is looked for, wherever it is looked for.
LEMMA SearchKeeps ==
  ASSUME NEW b, IsPanel(b)
  PROVE  Keeps(b, Search(b))
<1> DEFINE untracked == [b EXCEPT !.keyTimer = FALSE,
                                  !.forgotten = @ + IF b.keyTimer THEN 1 ELSE 0]
<1>1. IsPanel(untracked) /\ untracked.hideTimer = b.hideTimer
  BY DEF IsPanel, Fields
<1>2. ASSUME NEW name, NEW word
      PROVE  Keeps(b, [untracked EXCEPT !.target = name, !.loading = TRUE,
                                        !.shown = TRUE, !.last = word])
  <2> HIDE DEF untracked
  <2> QED  BY <1>1 DEF Keeps, IsPanel, Fields
<1>3. Keeps(b, untracked)
  BY <1>1 DEF Keeps
<1>4. Search(b) = IF SectionMissing(b) THEN untracked
                  ELSE [untracked EXCEPT !.target = Name(b.index, Unled[b.field]),
                                         !.loading = TRUE, !.shown = TRUE,
                                         !.last = Unled[b.field]]
  BY DEF Search
<1>5. Keeps(b, [untracked EXCEPT !.target = Name(b.index, Unled[b.field]),
                                 !.loading = TRUE, !.shown = TRUE,
                                 !.last = Unled[b.field]])
  BY <1>2
<1> HIDE DEF untracked
<1> QED  BY <1>3, <1>4, <1>5

LEMMA OnSelectItemKeeps ==
  ASSUME NEW b, IsPanel(b), NEW id
  PROVE  Keeps(b, OnSelectItem(b, id))
<1> DEFINE chosen == [b EXCEPT !.index = id]
<1>1. IsPanel(chosen) /\ chosen.hideTimer = b.hideTimer
  BY DEF IsPanel, Fields
<1>2. OnSelectItem(b, id) = IF SearchesNow(b) THEN Search(chosen) ELSE chosen
  BY DEF OnSelectItem
<1> HIDE DEF chosen
<1> QED  BY <1>1, <1>2, SearchKeeps DEF Keeps

LEMMA CompareFieldKeeps ==
  ASSUME NEW b, IsPanel(b)
  PROVE  Keeps(b, CompareField(b))
<1>1. Keeps(b, [b EXCEPT !.keyTimer = TRUE])
  BY DEF Keeps, IsPanel, Fields
<1>2. Keeps(b, [b EXCEPT !.shown = FALSE, !.last = Empty])
  BY DEF Keeps, IsPanel, Fields
<1>3. \/ CompareField(b) = b
      \/ CompareField(b) = [b EXCEPT !.keyTimer = TRUE]
      \/ CompareField(b) = [b EXCEPT !.shown = FALSE, !.last = Empty]
  BY DEF CompareField
<1> QED  BY <1>1, <1>2, <1>3 DEF Keeps

\* The focus enters or leaves the field.
LEMMA FocusKeeps ==
  ASSUME NEW b, IsPanel(b)
  PROVE  Keeps(b, EnterField(b)) /\ Keeps(b, LeaveField(b))
BY ActivateKeeps DEF EnterField, LeaveField, Keeps

\* One call after another.
LEMMA KeepsBoth ==
  ASSUME NEW a, NEW b, NEW c, Keeps(a, b), Keeps(b, c)
  PROVE  Keeps(a, c)
BY DEF Keeps

-----------------------------------------------------------------------------
\* Each action that does not start the timer and does not move the mouse onto
\* the filters.
LEMMA KeepsInv ==
  ASSUME IInv, Keeps(panel, panel'), hovering' => hovering
  PROVE  IInv'
BY DEF IInv, Keeps, HoverKeepsWindow

LEMMA MouseInv ==
  ASSUME IInv,
         ClickField \/ ClickElsewhere \/ ClickClose
           \/ (\E i \in Rows(page) : ClickRow(i))
           \/ (\E id \in Sections : ClickFilter(id))
  PROVE  IInv'
<1>1. IsPanel(panel)
  BY DEF IInv
<1>2. CASE ClickField
  BY <1>1, <1>2, FocusKeeps, KeepsInv DEF ClickField
<1>3. CASE ClickElsewhere
  BY <1>1, <1>3, FocusKeeps, KeepsInv DEF ClickElsewhere
<1>4. CASE ClickClose
  <2>1. Keeps(panel, LeaveField(panel))
    BY <1>1, FocusKeeps
  <2>2. Keeps(LeaveField(panel), CloseResultsWindow(LeaveField(panel)))
    BY <2>1, CloseResultsWindowKeeps DEF Keeps
  <2> QED  BY <1>4, <2>1, <2>2, KeepsBoth, KeepsInv DEF ClickClose
<1>5. ASSUME NEW i \in Rows(page), ClickRow(i)
      PROVE  IInv'
  BY <1>1, <1>5, FocusKeeps, KeepsInv DEF ClickRow
<1>6. ASSUME NEW id \in Sections, ClickFilter(id)
      PROVE  IInv'
  <2>1. Keeps(panel, LeaveField(panel))
    BY <1>1, FocusKeeps
  <2>2. Keeps(LeaveField(panel), OnSelectItem(LeaveField(panel), id))
    BY <2>1, OnSelectItemKeeps DEF Keeps
  <2>3. panel' = OnSelectItem(LeaveField(panel), id) /\ UNCHANGED hovering
    BY <1>6 DEF ClickFilter
  <2> QED  BY <2>1, <2>2, <2>3, KeepsBoth, KeepsInv
<1> QED  BY <1>2, <1>3, <1>4, <1>5, <1>6

\* The mouse comes and stops the timer, or goes.
LEMMA PointerInv ==
  ASSUME IInv, PointAt \/ PointAway \/ PointerLost
  PROVE  IInv'
<1>1. IsPanel(panel)
  BY DEF IInv
<1>2. CASE PointAt
  <2>1. IsPanel(OnSearchSelectShow(panel)) /\ ~OnSearchSelectShow(panel).hideTimer
    BY <1>1 DEF OnSearchSelectShow, IsPanel, Fields
  <2> QED  BY <1>2, <2>1 DEF PointAt, IInv, HoverKeepsWindow
<1>3. CASE PointAway
  <2>1. IsPanel(OnSearchSelectHide(panel))
    BY <1>1 DEF OnSearchSelectHide, IsPanel, Fields
  <2> QED  BY <1>3, <2>1 DEF PointAway, IInv, HoverKeepsWindow
<1>4. CASE PointerLost
  BY <1>1, <1>4 DEF PointerLost, IInv, HoverKeepsWindow
<1> QED  BY <1>2, <1>3, <1>4

\* Keys in the field, and where nothing listens to them.
LEMMA FieldKeyInv ==
  ASSUME IInv, (\E t \in Texts : EditField(t)) \/ (\E k \in Keys : PressKey(k))
  PROVE  IInv'
<1>1. IsPanel(panel)
  BY DEF IInv
<1>2. ASSUME NEW t \in Texts, EditField(t)
      PROVE  IInv'
  <2>1. Keeps(panel, [panel EXCEPT !.field = t])
    BY <1>1 DEF Keeps, IsPanel, Fields
  <2> QED  BY <1>2, <2>1, KeepsInv DEF EditField
<1>3. ASSUME NEW k \in Keys, PressKey(k)
      PROVE  IInv'
  BY <1>1, <1>3, KeepsInv DEF PressKey, Keeps
<1> QED  BY <1>2, <1>3

\* Keys in the filter window, with which the filter changes or the window
\* closes.
LEMMA SelectKeyInv ==
  ASSUME IInv, NEW k \in Keys, SelectKey(k)
  PROVE  IInv'
<1>1. IsPanel(panel)
  BY DEF IInv
<1>2. ASSUME NEW id
      PROVE  Keeps(panel, OnSelectItem(panel, id))
  BY <1>1, OnSelectItemKeeps
<1>3. Keeps(panel, Activate(CloseSelectionWindow(OnSelectItem(panel, panel.index)), TRUE))
  <2> DEFINE b == OnSelectItem(panel, panel.index)
             closed == CloseSelectionWindow(b)
  <2>1. Keeps(panel, b)
    BY <1>2
  <2> HIDE DEF b
  <2>2. Keeps(b, closed)
    BY <2>1 DEF CloseSelectionWindow, Keeps, IsPanel, Fields
  <2> HIDE DEF closed
  <2>3. Keeps(closed, Activate(closed, TRUE))
    BY <2>2, ActivateKeeps DEF Keeps
  <2>4. Keeps(panel, Activate(closed, TRUE))
    BY <2>1, <2>2, <2>3, KeepsBoth
  <2> QED  BY <2>4 DEF b, closed
<1>4. /\ UNCHANGED hovering
      /\ \/ panel' = OnSelectItem(panel, panel.index + 1)
         \/ panel' = OnSelectItem(panel, panel.index - 1)
         \/ panel' = OnSelectItem(panel, panel.index)
         \/ panel' = Activate(CloseSelectionWindow(OnSelectItem(panel, panel.index)), TRUE)
         \/ panel' = panel
  BY DEF SelectKey
<1>5. Keeps(panel, panel)
  BY <1>1 DEF Keeps
<1> QED  BY <1>2, <1>3, <1>4, <1>5, KeepsInv

\* Keys in the results, with which the focus may return to the field.
LEMMA ResultKeyInv ==
  ASSUME IInv, NEW k \in Keys, ResultKey(k)
  PROVE  IInv'
<1>1. IsPanel(panel)
  BY DEF IInv
<1>2. Keeps(panel, panel) /\ Keeps(panel, EnterField(panel))
  BY <1>1, FocusKeeps DEF Keeps
<1>3. Keeps(panel, EnterField(CloseResultsWindow(panel)))
  <2>1. Keeps(panel, CloseResultsWindow(panel))
    BY <1>1, CloseResultsWindowKeeps
  <2>2. Keeps(CloseResultsWindow(panel), EnterField(CloseResultsWindow(panel)))
    BY <2>1, FocusKeeps DEF Keeps
  <2> QED  BY <2>1, <2>2, KeepsBoth
<1>4. ASSUME NEW place, GoTo(place)
      PROVE  panel' = panel \/ panel' = EnterField(panel)
  BY <1>4 DEF GoTo
<1>5. /\ UNCHANGED hovering
      /\ \/ panel' = panel
         \/ panel' = EnterField(panel)
         \/ panel' = EnterField(CloseResultsWindow(panel))
  <2>1. UNCHANGED hovering
    BY DEF ResultKey
  <2>2. \/ \E place : GoTo(place)
        \/ panel' = panel
        \/ panel' = EnterField(CloseResultsWindow(panel))
    BY DEF ResultKey
  <2> QED  BY <1>4, <2>1, <2>2
<1> QED  BY <1>2, <1>3, <1>5, KeepsInv

\* A key comes up.  Shift+Down opens the filter window and so stops the timer.
LEMMA ReleaseKeyInv ==
  ASSUME IInv, ReleaseKey
  PROVE  IInv'
<1> DEFINE b == [panel EXCEPT !.keyTimer = FALSE]
<1>1. IsPanel(panel) /\ Keeps(panel, panel) /\ Keeps(panel, b)
  BY DEF IInv, Keeps, IsPanel, Fields
<1>2. \/ panel' = Activate(OnSearchSelectShow(b), FALSE)
      \/ panel' = CompareField(Activate(b, FALSE))
      \/ panel' = CloseResultsWindow(b)
      \/ panel' = CompareField(b)
      \/ panel' = panel
  BY DEF ReleaseKey, FieldKeyUp
<1>3. UNCHANGED hovering
  BY DEF ReleaseKey
<1> HIDE DEF b
<1>4. IsPanel(b)
  BY <1>1 DEF Keeps
<1>5. Keeps(b, Activate(OnSearchSelectShow(b), FALSE))
  <2>1. Keeps(b, OnSearchSelectShow(b))
    BY <1>4 DEF OnSearchSelectShow, Keeps, IsPanel, Fields
  <2>2. Keeps(OnSearchSelectShow(b), Activate(OnSearchSelectShow(b), FALSE))
    BY <2>1, ActivateKeeps DEF Keeps
  <2> QED  BY <2>1, <2>2, KeepsBoth
<1>6. Keeps(b, CompareField(Activate(b, FALSE)))
  <2>1. Keeps(b, Activate(b, FALSE))
    BY <1>4, ActivateKeeps
  <2>2. Keeps(Activate(b, FALSE), CompareField(Activate(b, FALSE)))
    BY <2>1, CompareFieldKeeps DEF Keeps
  <2> QED  BY <2>1, <2>2, KeepsBoth
<1>7. Keeps(b, CloseResultsWindow(b)) /\ Keeps(b, CompareField(b))
  BY <1>4, CloseResultsWindowKeeps, CompareFieldKeeps
<1>8. Keeps(b, panel') \/ panel' = panel
  BY <1>2, <1>5, <1>6, <1>7
<1>9. Keeps(panel, panel')
  BY <1>1, <1>8, KeepsBoth
<1> QED  BY <1>3, <1>9, KeepsInv

\* The timers and the frame.
LEMMA BrowserInv ==
  ASSUME IInv, Browser
  PROVE  IInv'
<1>1. IsPanel(panel)
  BY DEF IInv
<1>2. CASE KeyTimerFires
  <2> DEFINE b == [panel EXCEPT !.keyTimer = FALSE]
  <2>1. Keeps(panel, b)
    BY <1>1 DEF Keeps, IsPanel, Fields
  <2>2. panel' = Search(b) /\ UNCHANGED hovering
    BY <1>2 DEF KeyTimerFires
  <2> HIDE DEF b
  <2>3. Keeps(b, Search(b))
    BY <2>1, SearchKeeps DEF Keeps
  <2> QED  BY <2>1, <2>2, <2>3, KeepsBoth, KeepsInv
<1>3. CASE ForgottenFires
  <2> DEFINE b == [panel EXCEPT !.forgotten = @ - 1]
  <2>1. Keeps(panel, b)
    BY <1>1 DEF Keeps, IsPanel, Fields
  <2>2. panel' = Search(b) /\ UNCHANGED hovering
    BY <1>3 DEF ForgottenFires
  <2> HIDE DEF b
  <2>3. Keeps(b, Search(b))
    BY <2>1, SearchKeeps DEF Keeps
  <2> QED  BY <2>1, <2>2, <2>3, KeepsBoth, KeepsInv
<1>4. CASE HideTimerFires
  <2> DEFINE b == [panel EXCEPT !.hideTimer = FALSE]
  <2>1. Keeps(panel, b)
    BY <1>1 DEF Keeps, IsPanel, Fields
  <2>2. Keeps(b, CloseSelectionWindow(b))
    <3> HIDE DEF b
    <3> QED  BY <2>1 DEF CloseSelectionWindow, Keeps, IsPanel, Fields
  <2>3. panel' = CloseSelectionWindow(b) /\ UNCHANGED hovering
    BY <1>4 DEF HideTimerFires
  <2> HIDE DEF b
  <2> QED  BY <2>1, <2>2, <2>3, KeepsBoth, KeepsInv
<1>5. CASE LoadPage
  <2>1. Keeps(panel, [panel EXCEPT !.loading = FALSE])
    BY <1>1 DEF Keeps, IsPanel, Fields
  <2> QED  BY <1>5, <2>1, KeepsInv DEF LoadPage
<1> QED  BY <1>2, <1>3, <1>4, <1>5 DEF Browser

-----------------------------------------------------------------------------
LEMMA InitInv == Init => IInv
BY DEF Init, IInv, IsPanel, Fields, HoverKeepsWindow

LEMMA NextInv == IInv /\ [Next]_vars => IInv'
<1> SUFFICES ASSUME IInv, [Next]_vars
             PROVE  IInv'
  OBVIOUS
<1>1. CASE UNCHANGED vars
  BY <1>1 DEF vars, IInv, IsPanel, HoverKeepsWindow
<1>2. CASE Browser
  BY <1>2, BrowserInv
<1>3. CASE User
  BY <1>3, MouseInv, PointerInv, FieldKeyInv, SelectKeyInv, ResultKeyInv,
     ReleaseKeyInv DEF User
<1> QED  BY <1>1, <1>2, <1>3 DEF Next

\* HoverKeepsWindow: the timer that OnSearchSelectHide starts never runs while
\* the mouse is on the filters; OnSearchSelectShow has stopped it.
THEOREM HoverSafe == Spec => []HoverKeepsWindow
<1>1. IInv => HoverKeepsWindow
  BY DEF IInv
<1> QED  BY <1>1, InitInv, NextInv, PTL DEF Spec

-----------------------------------------------------------------------------
(* Next and previous rows.                                                 *)

\* A set of naturals that is not empty has a least element.
LEMMA LeastExists ==
  ASSUME NEW S \in SUBSET Nat, S # {}
  PROVE  \E m \in S : \A n \in S : m <= n
<1> DEFINE R == OpToRel(<, Nat)
<1>1. IsWellFoundedOn(R, Nat)
  BY NatLessThanWellFounded
<1> HIDE DEF R
<1>2. PICK m \in S : \A n \in S : ~ (<<n, m>> \in R)
  BY <1>1, WFMin
<1>3. ASSUME NEW n \in S, ~ (m <= n)
      PROVE  FALSE
  <2>1. n \in Nat /\ m \in Nat /\ n < m
    BY <1>3
  <2>2. <<n, m>> \in R
    BY <2>1 DEF R, OpToRel
  <2> QED  BY <1>2, <2>2
<1> QED  BY <1>3

\* A set of naturals that has a bound has a greatest element.
LEMMA GreatestExists ==
  ASSUME NEW S \in SUBSET Nat, S # {}, NEW b \in Nat, \A n \in S : n <= b
  PROVE  \E m \in S : \A n \in S : n <= m
<1> DEFINE D == { b - n : n \in S }
<1>1. D \in SUBSET Nat /\ D # {}
  <2>1. \A n \in S : n \in Nat /\ n <= b
    OBVIOUS
  <2>2. \A n \in S : b - n \in Nat
    BY <2>1
  <2>3. PICK n \in S : TRUE
    OBVIOUS
  <2>4. b - n \in D
    OBVIOUS
  <2> QED  BY <2>2, <2>4
<1> HIDE DEF D
<1>2. PICK d \in D : \A e \in D : d <= e
  BY <1>1, LeastExists
<1> USE DEF D
<1>3. PICK m \in S : d = b - m
  BY <1>2
<1>4. ASSUME NEW n \in S
      PROVE  n <= m
  <2>1. b - n \in D
    OBVIOUS
  <2>2. b - m <= b - n
    BY <1>2, <1>3, <2>1
  <2> QED  BY <2>2
<1> QED  BY <1>4

\* The rows of a page and what is visible of them.
LEMMA RowsTyped ==
  ASSUME NEW p
  PROVE  /\ Visible(p) \subseteq Rows(p) /\ Rows(p) \subseteq Nat
         /\ \A i \in Rows(p) : p \in Names /\ Kids(p, i) \in Nat
         /\ \A i \in Rows(p) : i <= Len(Data[p]) /\ Len(Data[p]) \in Nat
<1>1. Visible(p) \subseteq Rows(p)
  BY DEF Visible
<1>2. CASE p \in Names
  <2>1. /\ Len(Data[p]) \in Nat /\ DOMAIN Data[p] = 1 .. Len(Data[p])
        /\ \A i \in DOMAIN Data[p] : Data[p][i].kids \in Nat
    BY <1>2, PagesAssumption
  <2>2. Rows(p) = 0 .. Len(Data[p]) - 1
    BY <1>2 DEF Rows
  <2>3. \A i \in Rows(p) : i \in Nat /\ i + 1 \in DOMAIN Data[p] /\ i <= Len(Data[p])
    BY <2>1, <2>2
  <2> QED  BY <1>1, <1>2, <2>1, <2>3 DEF Kids
<1>3. CASE p \notin Names
  BY <1>1, <1>3 DEF Rows
<1> QED  BY <1>2, <1>3

\* NavNext finds the first visible row from an index on.
LEMMA NavNextFinds ==
  ASSUME NEW p, NEW index \in Int
  PROVE  \/ NavNext(p, index) = Nowhere /\ \A j \in Visible(p) : j < index
         \/ \E i \in Visible(p) :
              /\ NavNext(p, index) = Item(i) /\ index <= i
              /\ \A j \in Visible(p) : index <= j => i <= j
<1> DEFINE ahead == { i \in Visible(p) : i >= index }
<1>0. Visible(p) \subseteq Nat
  BY RowsTyped
<1>1. CASE ahead = {}
  <2>1. NavNext(p, index) = Nowhere
    BY <1>1 DEF NavNext
  <2>2. ASSUME NEW j \in Visible(p) PROVE j < index
    <3>1. j \notin ahead /\ j \in Nat
      BY <1>0, <1>1
    <3> QED  BY <3>1
  <2> QED  BY <2>1, <2>2
<1>2. CASE ahead # {}
  <2>1. \E i \in ahead : \A j \in ahead : i <= j
    <3>1. ahead \in SUBSET Nat
      BY <1>0
    <3> HIDE DEF ahead
    <3> QED  BY <1>2, <3>1, LeastExists
  <2> DEFINE i == CHOOSE i \in ahead : \A j \in ahead : i <= j
  <2>2. i \in ahead /\ \A j \in ahead : i <= j
    BY <2>1
  <2>3. NavNext(p, index) = Item(i)
    BY <1>2 DEF NavNext
  <2> HIDE DEF i
  <2> QED  BY <2>2, <2>3
<1> QED  BY <1>1, <1>2

\* NavPrev finds the last visible row up to an index.
LEMMA NavPrevFinds ==
  ASSUME NEW p, NEW index \in Int
  PROVE  \/ NavPrev(p, index) = Nowhere /\ \A j \in Visible(p) : index < j
         \/ \E i \in Visible(p) :
              /\ NavPrev(p, index) = Item(i) /\ i <= index
              /\ \A j \in Visible(p) : j <= index => j <= i
<1> DEFINE before == { i \in Visible(p) : i <= index }
<1>0. Visible(p) \subseteq Nat
  BY RowsTyped
<1>1. CASE before = {}
  <2>1. NavPrev(p, index) = Nowhere
    BY <1>1 DEF NavPrev
  <2>2. ASSUME NEW j \in Visible(p) PROVE index < j
    <3>1. j \notin before /\ j \in Nat
      BY <1>0, <1>1
    <3> QED  BY <3>1
  <2> QED  BY <2>1, <2>2
<1>2. CASE before # {}
  <2>1. \E i \in before : \A j \in before : j <= i
    <3>1. before \in SUBSET Nat /\ \A j \in before : j <= index
      BY <1>0
    <3>2. index \in Nat
      BY <1>2, <3>1
    <3> HIDE DEF before
    <3> QED  BY <1>2, <3>1, <3>2, GreatestExists
  <2> DEFINE i == CHOOSE i \in before : \A j \in before : j <= i
  <2>2. i \in before /\ \A j \in before : j <= i
    BY <2>1
  <2>3. NavPrev(p, index) = Item(i)
    BY <1>2 DEF NavPrev
  <2> HIDE DEF i
  <2> QED  BY <2>2, <2>3
<1> QED  BY <1>1, <1>2
-----------------------------------------------------------------------------
(* The walk of the arrow keys.                                             *)

\* The parts of a place.
LEMMA PlaceParts ==
  ASSUME NEW i, NEW c
  PROVE  Place(i, c).row = i /\ Place(i, c).child = c
BY DEF Place

\* What can be read is a visible row or a child of one that is unfolded.
LEMMA ReadableIs ==
  ASSUME NEW p, NEW S, NEW a
  PROVE  a \in Readable(p, S) <=>
           \/ \E i \in Visible(p) : a = Place(i, -1)
           \/ \E i \in Visible(p) \cap S : \E c \in 0 .. Kids(p, i) - 1 : a = Place(i, c)
BY DEF Readable, Item

\* The same of the parts of the place.
LEMMA ReadableParts ==
  ASSUME NEW p, NEW S, NEW a \in Readable(p, S)
  PROVE  /\ a.row \in Visible(p) /\ a.row \in Nat /\ a.child \in Int
         /\ a = Place(a.row, a.child) /\ Kids(p, a.row) \in Nat
         /\ a.child = -1 \/ (Unfolded(p, S, a.row) /\ a.child \in 0 .. Kids(p, a.row) - 1)
<1>1. CASE \E i \in Visible(p) : a = Place(i, -1)
  <2>1. PICK i \in Visible(p) : a = Place(i, -1)
    BY <1>1
  <2> QED  BY <2>1, PlaceParts, RowsTyped
<1>2. CASE \E i \in Visible(p) \cap S : \E c \in 0 .. Kids(p, i) - 1 : a = Place(i, c)
  <2>1. PICK i \in Visible(p) \cap S : \E c \in 0 .. Kids(p, i) - 1 : a = Place(i, c)
    BY <1>2
  <2>2. PICK c \in 0 .. Kids(p, i) - 1 : a = Place(i, c)
    BY <2>1
  <2>3. Kids(p, i) \in Nat /\ i \in Rows(p) /\ i \in Nat
    BY RowsTyped
  <2>4. Unfolded(p, S, i)
    BY <2>3 DEF Unfolded
  <2> QED  BY <2>2, <2>3, <2>4, PlaceParts
<1> QED  BY <1>1, <1>2, ReadableIs

\* Where the key Down leads.
Downward(p, S, a, d) ==
  \/ d = Nowhere /\ \A b \in Readable(p, S) : ~Before(a, b)
  \/ d \in Readable(p, S) /\ Neighbours(p, S, a, d)

\* Down from the end of a row, with its children if they are unfolded, leads
\* to the next visible row.
LEMMA NextRow ==
  ASSUME NEW p, NEW S, NEW a \in Readable(p, S),
         \A b \in Readable(p, S) : b.row = a.row => ~Before(a, b)
  PROVE  Downward(p, S, a, NavNext(p, a.row + 1))
<1> DEFINE d == NavNext(p, a.row + 1)
<1>1. \A b \in Readable(p, S) : b.row \in Visible(p) /\ b.row \in Nat /\ b.child \in Int
                                /\ b.child >= -1
  <2> SUFFICES ASSUME NEW b \in Readable(p, S)
               PROVE  b.row \in Visible(p) /\ b.row \in Nat /\ b.child \in Int /\ b.child >= -1
    OBVIOUS
  <2> QED  BY ReadableParts
<1>2. a.row \in Visible(p) /\ a.row \in Nat /\ a.row + 1 \in Int
  BY <1>1
<1>3. CASE d = Nowhere /\ \A j \in Visible(p) : j < a.row + 1
  <2>1. ASSUME NEW b \in Readable(p, S) PROVE ~Before(a, b)
    <3>1. b.row < a.row + 1 /\ b.row \in Nat
      BY <1>1, <1>3
    <3> QED  BY <1>2, <3>1 DEF Before
  <2> QED  BY <1>3, <2>1 DEF Downward
<1>4. ASSUME NEW i \in Visible(p), d = Item(i), a.row + 1 <= i,
             \A j \in Visible(p) : a.row + 1 <= j => i <= j
      PROVE  Downward(p, S, a, d)
  <2>1. d \in Readable(p, S) /\ d.row = i /\ d.child = -1 /\ i \in Nat
    <3>1. d = Place(i, -1)
      BY <1>4 DEF Item
    <3> QED  BY <3>1, ReadableIs, PlaceParts, RowsTyped
  <2>2. Before(a, d)
    BY <1>2, <1>4, <2>1 DEF Before
  <2>3. ASSUME NEW b \in Readable(p, S), Before(a, b), Before(b, d) PROVE FALSE
    <3>1. b.row # a.row
      BY <2>3
    <3>2. a.row + 1 <= b.row
      BY <1>1, <1>2, <2>3, <3>1 DEF Before
    <3>3. i <= b.row
      BY <1>1, <1>4, <3>2
    <3> QED  BY <1>1, <2>1, <2>3, <3>3 DEF Before
  <2> QED  BY <2>1, <2>2, <2>3 DEF Downward, Neighbours
<1> QED  BY <1>2, <1>3, <1>4, NavNextFinds

\* Down leads to the next place, or there is none.
LEMMA DownLeads ==
  ASSUME NEW p, NEW S, NEW a \in Readable(p, S)
  PROVE  Downward(p, S, a, Down(p, S, a))
<1> DEFINE i == a.row
           c == a.child
<1>1. /\ i \in Visible(p) /\ i \in Nat /\ c \in Int /\ a = Place(i, c) /\ Kids(p, i) \in Nat
      /\ c = -1 \/ (Unfolded(p, S, i) /\ c \in 0 .. Kids(p, i) - 1)
  BY ReadableParts
<1>2. \A b \in Readable(p, S) :
        /\ b.row \in Nat /\ b.child \in Int /\ b = Place(b.row, b.child)
        /\ b.child = -1 \/ (Unfolded(p, S, b.row) /\ b.child \in 0 .. Kids(p, b.row) - 1)
  <2> SUFFICES ASSUME NEW b \in Readable(p, S)
               PROVE  /\ b.row \in Nat /\ b.child \in Int /\ b = Place(b.row, b.child)
                      /\ b.child = -1 \/ (Unfolded(p, S, b.row) /\ b.child \in 0 .. Kids(p, b.row) - 1)
    OBVIOUS
  <2> QED  BY ReadableParts
<1>3. ASSUME Unfolded(p, S, i), NEW e \in 0 .. Kids(p, i) - 1, e = c + 1
      PROVE  Downward(p, S, a, Place(i, e))
  <2>1. Place(i, e) \in Readable(p, S)
    BY <1>1, <1>3, ReadableIs DEF Unfolded
  <2>2. Place(i, e).row = i /\ Place(i, e).child = e
    BY PlaceParts
  <2>3. Before(a, Place(i, e))
    BY <1>1, <1>3, <2>2 DEF Before
  <2>4. ASSUME NEW b \in Readable(p, S), Before(a, b), Before(b, Place(i, e)) PROVE FALSE
    BY <1>1, <1>2, <1>3, <2>2, <2>4 DEF Before
  <2> QED  BY <2>1, <2>3, <2>4 DEF Downward, Neighbours
<1>4. CASE c = -1 /\ Unfolded(p, S, i)
  <2>1. Down(p, S, a) = Place(i, 0)
    BY <1>4 DEF Down, ItemDown
  <2>2. 0 \in 0 .. Kids(p, i) - 1 /\ 0 = c + 1
    BY <1>1, <1>4 DEF Unfolded
  <2> QED  BY <1>3, <1>4, <2>1, <2>2
<1>5. CASE c = -1 /\ ~Unfolded(p, S, i)
  <2>1. Down(p, S, a) = NavNext(p, i + 1)
    BY <1>5 DEF Down, ItemDown
  <2>2. \A b \in Readable(p, S) : b.row = i => ~Before(a, b)
    BY <1>1, <1>2, <1>5 DEF Before
  <2> QED  BY <2>1, <2>2, NextRow
<1>6. CASE c # -1 /\ c + 1 < Kids(p, i)
  <2>1. Down(p, S, a) = Place(i, c + 1)
    BY <1>6 DEF Down, ChildDown
  <2>2. c + 1 \in 0 .. Kids(p, i) - 1
    BY <1>1, <1>6
  <2> QED  BY <1>1, <1>3, <1>6, <2>1, <2>2
<1>7. CASE c # -1 /\ ~(c + 1 < Kids(p, i))
  <2>1. Down(p, S, a) = NavNext(p, i + 1)
    BY <1>7 DEF Down, ChildDown
  <2>2. \A b \in Readable(p, S) : b.row = i => ~Before(a, b)
    BY <1>1, <1>2, <1>7 DEF Before
  <2> QED  BY <2>1, <2>2, NextRow
<1> QED  BY <1>4, <1>5, <1>6, <1>7
\* From the next visible row, Up leads back to the end of the row before.
LEMMA RowBack ==
  ASSUME NEW p, NEW S, NEW a \in Readable(p, S), NEW k \in Visible(p),
         a.row + 1 <= k, \A j \in Visible(p) : a.row + 1 <= j => k <= j,
         IF Unfolded(p, S, a.row) THEN a.child = Kids(p, a.row) - 1 ELSE a.child = -1
  PROVE  ItemUp(p, S, k) = a
<1> DEFINE i == a.row
<1>1. /\ i \in Visible(p) /\ i \in Nat /\ a = Place(i, a.child) /\ Kids(p, i) \in Nat
      /\ k \in Nat /\ p \in Names
  BY ReadableParts, RowsTyped
<1>2. NavPrev(p, k - 1) = Item(i)
  <2>1. k - 1 \in Int /\ i <= k - 1
    BY <1>1
  <2>2. PICK m \in Visible(p) : /\ NavPrev(p, k - 1) = Item(m) /\ m <= k - 1
                                /\ \A j \in Visible(p) : j <= k - 1 => j <= m
    <3>1. ~ (\A j \in Visible(p) : k - 1 < j)
      BY <1>1, <2>1
    <3> QED  BY <2>1, <3>1, NavPrevFinds
  <2>3. m \in Nat /\ i <= m
    BY <1>1, <2>1, <2>2, RowsTyped
  <2>4. ~ (i + 1 <= m)
    BY <1>1, <2>2, <2>3
  <2> QED  BY <1>1, <2>2, <2>3, <2>4
<1>3. Item(i).row = i
  BY PlaceParts DEF Item
<1>4. CASE Unfolded(p, S, i)
  <2>1. k - 1 = i
    <3>1. SUFFICES ASSUME i + 1 < k PROVE FALSE
      BY <1>1
    <3>2. \A j \in Visible(p) : j \in Nat /\ ~ (i + 1 <= j /\ j <= k - 1)
      BY <1>1, RowsTyped
    <3>3. Visible(p) \cap (i + 1 .. k - 1) = {}
      BY <3>2
    <3>4. Kids(p, i) = 0
      BY <1>1, <3>1, <3>3, GapsAssumption
    <3> QED  BY <1>4, <3>4 DEF Unfolded
  <2>2. Kids(p, k - 1) > 0
    BY <1>4, <2>1 DEF Unfolded
  <2>3. ItemUp(p, S, k) = Place(k - 1, Kids(p, k - 1) - 1)
    BY <1>2, <1>3, <1>4, <2>2 DEF ItemUp
  <2> QED  BY <1>1, <1>4, <2>1, <2>3
<1>5. CASE ~Unfolded(p, S, i)
  <2>1. ItemUp(p, S, k) = Item(i)
    BY <1>2, <1>3, <1>5 DEF ItemUp
  <2> QED  BY <1>1, <1>5, <2>1 DEF Item
<1> QED  BY <1>4, <1>5

\* Up undoes Down.
LEMMA UpBack ==
  ASSUME NEW p, NEW S, NEW a \in Readable(p, S), Down(p, S, a) # Nowhere
  PROVE  Up(p, S, Down(p, S, a)) = a
<1> DEFINE i == a.row
           c == a.child
<1>1. /\ i \in Visible(p) /\ i \in Nat /\ c \in Int /\ a = Place(i, c) /\ Kids(p, i) \in Nat
      /\ c = -1 \/ (Unfolded(p, S, i) /\ c \in 0 .. Kids(p, i) - 1)
  BY ReadableParts
<1>2. CASE c = -1 /\ Unfolded(p, S, i)
  <2>1. Down(p, S, a) = Place(i, 0)
    BY <1>2 DEF Down, ItemDown
  <2>2. Up(p, S, Place(i, 0)) = Item(i)
    BY PlaceParts DEF Up, ChildUp
  <2> QED  BY <1>1, <1>2, <2>1, <2>2 DEF Item
<1>3. CASE c # -1 /\ c + 1 < Kids(p, i)
  <2>1. Down(p, S, a) = Place(i, c + 1)
    BY <1>3 DEF Down, ChildDown
  <2>2. c + 1 > 0 /\ c + 1 # -1 /\ (c + 1) - 1 = c
    BY <1>1, <1>3
  <2>3. Up(p, S, Place(i, c + 1)) = Place(i, c)
    BY <2>2, PlaceParts DEF Up, ChildUp
  <2> QED  BY <1>1, <2>1, <2>3
<1>4. CASE \/ c = -1 /\ ~Unfolded(p, S, i)
           \/ c # -1 /\ ~(c + 1 < Kids(p, i))
  <2>1. Down(p, S, a) = NavNext(p, i + 1)
    BY <1>4 DEF Down, ItemDown, ChildDown
  <2>2. PICK k \in Visible(p) : /\ NavNext(p, i + 1) = Item(k) /\ i + 1 <= k
                                /\ \A j \in Visible(p) : i + 1 <= j => k <= j
    <3>1. i + 1 \in Int
      BY <1>1
    <3> QED  BY <2>1, <3>1, NavNextFinds
  <2>3. IF Unfolded(p, S, i) THEN c = Kids(p, i) - 1 ELSE c = -1
    BY <1>1, <1>4
  <2>4. ItemUp(p, S, k) = a
    BY <2>2, <2>3, RowBack
  <2>5. Up(p, S, Item(k)) = ItemUp(p, S, k)
    BY PlaceParts DEF Up, Item
  <2> QED  BY <2>1, <2>2, <2>4, <2>5
<1> QED  BY <1>2, <1>3, <1>4

\* Up leaves the results at their first place only.
LEMMA UpLeavesFirst ==
  ASSUME NEW p, NEW S, NEW a \in Readable(p, S), Up(p, S, a) = Nowhere,
         NEW b \in Readable(p, S)
  PROVE  ~Before(b, a)
<1> DEFINE i == a.row
<1>1. /\ i \in Nat /\ a.child \in Int /\ a.child >= -1
  BY ReadableParts
<1>2. /\ b.row \in Visible(p) /\ b.row \in Nat /\ b.child \in Int /\ b.child >= -1
  BY ReadableParts
<1>3. Nowhere.row = -1
  BY PlaceParts DEF Nowhere
<1>4. a.child = -1
  <2>1. SUFFICES ASSUME a.child # -1 PROVE FALSE
    OBVIOUS
  <2>2. Up(p, S, a).row = i
    BY <2>1, PlaceParts DEF Up, ChildUp, Item
  <2> QED  BY <1>1, <1>3, <2>2
<1>5. NavPrev(p, i - 1) = Nowhere
  <2>1. SUFFICES ASSUME NEW m \in Visible(p), NavPrev(p, i - 1) = Item(m), m <= i - 1
                 PROVE  FALSE
    <3>1. i - 1 \in Int
      BY <1>1
    <3> QED  BY <2>1, <3>1, NavPrevFinds
  <2>2. m \in Nat
    BY RowsTyped
  <2>3. Up(p, S, a).row \in {i - 1, m}
    BY <1>4, <2>1, PlaceParts DEF Up, ItemUp, Item
  <2> QED  BY <1>1, <1>3, <2>1, <2>2, <2>3
<1>6. i - 1 < b.row
  <2>1. i - 1 \in Int
    BY <1>1
  <2>2. \A m : Item(m) = Nowhere => m = -1
    BY PlaceParts, <1>3 DEF Item
  <2>3. \A m \in Visible(p) : m \in Nat
    BY RowsTyped
  <2> QED  BY <1>2, <1>5, <2>1, <2>2, <2>3, NavPrevFinds
<1> QED  BY <1>1, <1>2, <1>4, <1>6 DEF Before

\* The arrow keys walk over all that can be read, whatever is shown and
\* unfolded.
LEMMA ArrowsWalk ==
  ASSUME NEW p, NEW S, NEW a \in Readable(p, S)
  PROVE  /\ \/ /\ Down(p, S, a) = Nowhere
               /\ \A b \in Readable(p, S) : ~Before(a, b)
            \/ /\ Down(p, S, a) \in Readable(p, S)
               /\ Neighbours(p, S, a, Down(p, S, a))
               /\ Up(p, S, Down(p, S, a)) = a
         /\ Up(p, S, a) = Nowhere => \A b \in Readable(p, S) : ~Before(b, a)
<1>1. Nowhere \notin Readable(p, S)
  <2>1. SUFFICES ASSUME Nowhere \in Readable(p, S) PROVE FALSE
    OBVIOUS
  <2>2. Nowhere.row \in Nat /\ Nowhere.row = -1
    <3>1. Nowhere.row = -1
      BY PlaceParts DEF Nowhere
    <3> QED  BY <2>1, <3>1, ReadableParts
  <2> QED  BY <2>2
<1>2. Downward(p, S, a, Down(p, S, a))
  BY DownLeads
<1> QED  BY <1>1, <1>2, UpBack, UpLeavesFirst DEF Downward
-----------------------------------------------------------------------------
(* The methods of SearchBox.                                               *)

\* The text without any character, the label, and texts without their spaces.
LEMMA TextsTyped ==
  /\ Empty \in Texts /\ Label \in Texts /\ Spaceless[Empty] = Empty
  /\ \A t \in Texts : /\ Spaceless[t] \in Texts /\ Unled[t] \in Texts
                      /\ Spaceless[Spaceless[t]] = Spaceless[t]
                      /\ Spaceless[Unled[t]] = Spaceless[t]
  /\ Cardinality(Sections) \in Nat
  /\ \A s \in Sections : s \in 0 .. Cardinality(Sections)
BY TextsAssumption, FS_CardinalityType

\* Activate keeps what was looked for in order.
LEMMA ActivateOrderly ==
  ASSUME NEW b, Orderly(b), NEW isActive \in BOOLEAN
  PROVE  /\ Orderly(Activate(b, isActive))
         /\ LookedFor(b) => LookedFor(Activate(b, isActive))
         /\ isActive => Activate(b, isActive).searchActive
<1> DEFINE up == [b EXCEPT !.active = TRUE, !.field = IF @ = Label THEN Empty ELSE @,
                           !.searchActive = @ \/ b.field = Label]
           down == [b EXCEPT !.active = FALSE, !.field = Label, !.searchActive = FALSE,
                             !.last = Empty]
<1>1. b \in Panels /\ ShowsLast(b) /\ (b.searchActive \/ b.field = Label)
  BY DEF Orderly
<1>2. /\ up \in Panels /\ up.searchActive /\ up.shown = b.shown /\ up.last = b.last
      /\ up.loading = b.loading /\ up.target = b.target /\ up.keyTimer = b.keyTimer
      /\ up.forgotten = b.forgotten /\ up.index = b.index
      /\ up.field = IF b.field = Label THEN Empty ELSE b.field
  BY <1>1, TextsTyped DEF Panels
<1>3. /\ down \in Panels /\ ~down.searchActive /\ down.shown = b.shown
      /\ down.last = Empty /\ down.field = Label
  BY <1>1, TextsTyped DEF Panels
<1>4. Activate(b, isActive) = IF isActive \/ b.shown THEN up ELSE down
  BY DEF Activate
<1> HIDE DEF up, down
<1>5. CASE isActive \/ b.shown
  <2>1. LookedFor(b) => LookedFor(up)
    BY <1>1, <1>2, TextsTyped DEF LookedFor, SectionMissing
  <2>2. Orderly(up)
    BY <1>1, <1>2 DEF Orderly, ShowsLast
  <2> QED  BY <1>2, <1>4, <1>5, <2>1, <2>2
<1>6. CASE ~ (isActive \/ b.shown)
  <2>1. LookedFor(down)
    BY <1>3 DEF LookedFor
  <2>2. Orderly(down)
    BY <1>3, <1>6 DEF Orderly, ShowsLast
  <2> QED  BY <1>4, <1>6, <2>1, <2>2
<1> QED  BY <1>5, <1>6

\* CloseResultsWindow forgets what was looked for.
LEMMA CloseOrderly ==
  ASSUME NEW b, b \in Panels
  PROVE  Orderly(CloseResultsWindow(b)) /\ LookedFor(CloseResultsWindow(b))
<1> DEFINE closed == [b EXCEPT !.shown = FALSE]
           down == [closed EXCEPT !.active = FALSE, !.field = Label,
                                  !.searchActive = FALSE, !.last = Empty]
<1>1. closed \in Panels /\ ~closed.shown
  BY DEF Panels
<1> HIDE DEF closed
<1>2. /\ down \in Panels /\ ~down.searchActive /\ ~down.shown /\ down.last = Empty
      /\ down.field = Label
  BY <1>1, TextsTyped DEF Panels
<1>3. CloseResultsWindow(b) = down
  BY <1>1 DEF CloseResultsWindow, Activate, closed
<1> HIDE DEF down
<1> QED  BY <1>2, <1>3 DEF Orderly, ShowsLast, LookedFor

\* After a search the word in the field is looked for.
LEMMA SearchOrderly ==
  ASSUME NEW b, Orderly(b)
  PROVE  /\ Orderly(Search(b)) /\ LookedFor(Search(b))
         /\ Search(b).searchActive = b.searchActive
<1> DEFINE untracked == [b EXCEPT !.keyTimer = FALSE,
                                  !.forgotten = @ + IF b.keyTimer THEN 1 ELSE 0]
           found == [untracked EXCEPT !.target = Name(b.index, Unled[b.field]),
                                      !.loading = TRUE, !.shown = TRUE,
                                      !.last = Unled[b.field]]
<1>1. b \in Panels /\ ShowsLast(b) /\ (b.searchActive \/ b.field = Label)
      /\ b.field \in Texts
  BY DEF Orderly, Panels
<1>2. /\ untracked \in Panels /\ untracked.searchActive = b.searchActive
      /\ untracked.field = b.field /\ untracked.shown = b.shown
      /\ untracked.last = b.last /\ untracked.loading = b.loading
      /\ untracked.target = b.target /\ untracked.index = b.index
  <2>1. b.forgotten + (IF b.keyTimer THEN 1 ELSE 0) \in Nat
    BY <1>1 DEF Panels
  <2> QED  BY <1>1, <2>1 DEF Panels
<1>3. Search(b) = IF SectionMissing(b) THEN untracked ELSE found
  BY DEF Search
<1> HIDE DEF untracked
<1>4. CASE SectionMissing(b)
  <2>1. Orderly(untracked) /\ SectionMissing(untracked)
    BY <1>1, <1>2, <1>4 DEF Orderly, ShowsLast, SectionMissing
  <2> QED  BY <1>2, <1>3, <1>4, <2>1 DEF LookedFor
<1>5. CASE ~SectionMissing(b)
  <2>1. Name(b.index, Unled[b.field]) \in Names
        /\ Name(b.index, Unled[b.field]).query = Unled[b.field] /\ Unled[b.field] \in Texts
    BY <1>1, <1>5, TextsTyped DEF Names, Name, SectionMissing
  <2> PICK n \in Names : n = Name(b.index, Unled[b.field])
    BY <2>1
  <2>2. /\ found \in Panels /\ found.searchActive = b.searchActive
        /\ found.field = b.field /\ found.shown /\ found.loading
        /\ found.last = Unled[b.field] /\ found.target = n
    BY <1>2, <2>1 DEF Panels
  <2> HIDE DEF found
  <2>3. Orderly(found)
    BY <1>1, <2>1, <2>2 DEF Orderly, ShowsLast
  <2>4. LookedFor(found)
    BY <1>1, <2>2, TextsTyped DEF LookedFor
  <2> QED  BY <1>3, <1>5, <2>2, <2>3, <2>4
<1> QED  BY <1>4, <1>5

\* A filter is chosen: the word in the field is looked for once more.
LEMMA SelectOrderly ==
  ASSUME NEW b, Orderly(b), NEW id \in 0 .. Cardinality(Sections)
  PROVE  Orderly(OnSelectItem(b, id)) /\ LookedFor(OnSelectItem(b, id))
<1> DEFINE chosen == [b EXCEPT !.index = id]
<1>1. b \in Panels /\ ShowsLast(b) /\ (b.searchActive \/ b.field = Label)
  BY DEF Orderly
<1>2. /\ chosen \in Panels /\ chosen.searchActive = b.searchActive
      /\ chosen.field = b.field /\ chosen.shown = b.shown
      /\ chosen.last = b.last /\ chosen.loading = b.loading
      /\ chosen.target = b.target
  BY <1>1 DEF Panels
<1>3. OnSelectItem(b, id) = IF SearchesNow(b) THEN Search(chosen) ELSE chosen
  BY DEF OnSelectItem
<1> HIDE DEF chosen
<1>4. Orderly(chosen)
  BY <1>1, <1>2 DEF Orderly, ShowsLast
<1>5. ~SearchesNow(b) => LookedFor(chosen)
  BY <1>2 DEF SearchesNow, LookedFor
<1> QED  BY <1>3, <1>4, <1>5, SearchOrderly

\* OnSearchFieldChange starts the timer unless the word was looked for.
LEMMA CompareOrderly ==
  ASSUME NEW b, Orderly(b)
  PROVE  /\ Orderly(CompareField(b)) /\ LookedFor(CompareField(b))
         /\ CompareField(b).searchActive = b.searchActive
<1> DEFINE started == [b EXCEPT !.keyTimer = TRUE]
           emptied == [b EXCEPT !.shown = FALSE, !.last = Empty]
<1>1. b \in Panels /\ ShowsLast(b) /\ (b.searchActive \/ b.field = Label)
      /\ b.field \in Texts
  BY DEF Orderly, Panels
<1>2. CASE Spaceless[b.field] = b.last
  <2>1. CompareField(b) = b
    BY <1>2 DEF CompareField
  <2>2. LookedFor(b)
    BY <1>1, <1>2, TextsTyped DEF LookedFor
  <2> QED  BY <2>1, <2>2
<1>3. CASE Spaceless[b.field] # b.last /\ Spaceless[b.field] # Empty
  <2>1. CompareField(b) = started
    BY <1>3 DEF CompareField
  <2>2. /\ started \in Panels /\ started.searchActive = b.searchActive
        /\ started.field = b.field /\ started.shown = b.shown
        /\ started.last = b.last /\ started.loading = b.loading
        /\ started.target = b.target /\ started.keyTimer
    BY <1>1 DEF Panels
  <2> HIDE DEF started
  <2> QED  BY <1>1, <2>1, <2>2 DEF Orderly, ShowsLast, LookedFor
<1>4. CASE Spaceless[b.field] # b.last /\ Spaceless[b.field] = Empty
  <2>1. CompareField(b) = emptied
    BY <1>4 DEF CompareField
  <2>2. /\ emptied \in Panels /\ emptied.searchActive = b.searchActive
        /\ emptied.field = b.field /\ ~emptied.shown /\ emptied.last = Empty
    BY <1>1, TextsTyped DEF Panels
  <2> HIDE DEF emptied
  <2> QED  BY <1>1, <1>4, <2>1, <2>2 DEF Orderly, ShowsLast, LookedFor
<1> QED  BY <1>2, <1>3, <1>4

\* What the timers and the filter window hold is no matter of the search.
LEMMA OrderlySame ==
  ASSUME NEW b, Orderly(b), NEW c \in Panels,
         c.searchActive = b.searchActive, c.field = b.field, c.shown = b.shown,
         c.last = b.last, c.loading = b.loading, c.target = b.target
  PROVE  /\ Orderly(c)
         /\ c.keyTimer = b.keyTimer /\ c.forgotten = b.forgotten /\ c.index = b.index
            => (LookedFor(b) => LookedFor(c))
BY DEF Orderly, ShowsLast, LookedFor, SectionMissing

\* The filter window opens and closes.
LEMMA WindowOrderly ==
  ASSUME NEW b, Orderly(b)
  PROVE  \A c \in {OnSearchSelectShow(b), OnSearchSelectHide(b), CloseSelectionWindow(b)} :
           Orderly(c) /\ (LookedFor(b) => LookedFor(c)) /\ c.searchActive = b.searchActive
<1> SUFFICES ASSUME NEW c \in {OnSearchSelectShow(b), OnSearchSelectHide(b),
                               CloseSelectionWindow(b)}
             PROVE  /\ Orderly(c) /\ (LookedFor(b) => LookedFor(c))
                    /\ c.searchActive = b.searchActive
  OBVIOUS
<1>1. b \in Panels
  BY DEF Orderly
<1>2. /\ c \in Panels
      /\ c.searchActive = b.searchActive /\ c.field = b.field /\ c.shown = b.shown
      /\ c.last = b.last /\ c.loading = b.loading /\ c.target = b.target
      /\ c.keyTimer = b.keyTimer /\ c.forgotten = b.forgotten /\ c.index = b.index
  <2>1. CASE c = OnSearchSelectShow(b)
    BY <1>1, <2>1 DEF OnSearchSelectShow, Panels
  <2>2. CASE c = OnSearchSelectHide(b)
    BY <1>1, <2>2 DEF OnSearchSelectHide, Panels
  <2>3. CASE c = CloseSelectionWindow(b)
    BY <1>1, <2>3 DEF CloseSelectionWindow, Panels
  <2> QED  BY <2>1, <2>2, <2>3
<1> QED  BY <1>2, OrderlySame

\* A timer of the field ends.
LEMMA TimerOrderly ==
  ASSUME NEW b, Orderly(b), NEW n \in Nat
  PROVE  /\ Orderly([b EXCEPT !.keyTimer = FALSE])
         /\ [b EXCEPT !.keyTimer = FALSE].searchActive = b.searchActive
         /\ Orderly([b EXCEPT !.forgotten = n])
<1> DEFINE c == [b EXCEPT !.keyTimer = FALSE]
           d == [b EXCEPT !.forgotten = n]
<1>1. b \in Panels
  BY DEF Orderly
<1>2. /\ c \in Panels
      /\ c.searchActive = b.searchActive /\ c.field = b.field /\ c.shown = b.shown
      /\ c.last = b.last /\ c.loading = b.loading /\ c.target = b.target
  BY <1>1 DEF Panels
<1>3. /\ d \in Panels
      /\ d.searchActive = b.searchActive /\ d.field = b.field /\ d.shown = b.shown
      /\ d.last = b.last /\ d.loading = b.loading /\ d.target = b.target
  BY <1>1 DEF Panels
<1> HIDE DEF c, d
<1>4. Orderly(c) /\ c.searchActive = b.searchActive /\ Orderly(d)
  BY <1>2, <1>3, OrderlySame
<1> QED  BY <1>4 DEF c, d

\* The focus enters or leaves the field.
LEMMA FocusOrderly ==
  ASSUME NEW b, Orderly(b), focus = "field" => b.searchActive
  PROVE  /\ Orderly(EnterField(b)) /\ Orderly(LeaveField(b))
         /\ LookedFor(b) => LookedFor(EnterField(b)) /\ LookedFor(LeaveField(b))
         /\ EnterField(b).searchActive
BY ActivateOrderly DEF EnterField, LeaveField

-----------------------------------------------------------------------------
(* The steps of the user and the browser.                                  *)

KeyStates == { Released(k) : k \in Keys } \cup {NoKey}
Focuses == {"nothing", "field", "filters", "results"}

\* What the invariant says of the panel.
LEMMA SearchInvParts ==
  ASSUME SearchInv
  PROVE  /\ panel \in Panels /\ Orderly(panel) /\ focus \in Focuses
         /\ focus = "field" => panel.searchActive
         /\ key = "text" \/ missed \/ LookedFor(panel)
         /\ key \in KeyStates /\ hovering \in BOOLEAN /\ missed \in BOOLEAN
         /\ open \subseteq Rows(page) /\ at.row \in Rows(page) \cup {-1}
BY DEF SearchInv, PanelTypeOK, KeyStates, Focuses

\* A step that leaves the page as it is.
LEMMA SamePage ==
  ASSUME SearchInv, UNCHANGED page, Orderly(panel'), focus' \in Focuses,
         key' \in KeyStates, hovering' \in BOOLEAN, missed' \in BOOLEAN,
         focus' = "field" => panel'.searchActive,
         key' = "text" \/ missed' \/ LookedFor(panel'),
         open' \subseteq Rows(page), at'.row \in Rows(page) \cup {-1},
         focus' = "results" => at' \in Readable(page, open')
  PROVE  SearchInv'
<1>1. PanelTypeOK'
  BY DEF SearchInv, PanelTypeOK, KeyStates, Focuses, Orderly, Panels, Rows, NoPage
<1>2. Orderly(panel)'
  BY DEF Orderly, ShowsLast
<1>3. (key = "text" \/ missed \/ LookedFor(panel))'
  BY DEF LookedFor, SectionMissing
<1>4. FocusReadable'
  BY DEF FocusReadable
<1> QED  BY <1>1, <1>2, <1>3, <1>4 DEF SearchInv

\* A step that leaves the results, and where the user is in them, as they are.
LEMMA SamePlace ==
  ASSUME SearchInv, UNCHANGED <<page, open, at>>, Orderly(panel'), focus' \in Focuses,
         key' \in KeyStates, hovering' \in BOOLEAN, missed' \in BOOLEAN,
         focus' = "field" => panel'.searchActive,
         key' = "text" \/ missed' \/ LookedFor(panel'),
         focus' = "results" => focus = "results"
  PROVE  SearchInv'
<1>1. focus' = "results" => at' \in Readable(page, open')
  BY DEF SearchInv, FocusReadable
<1> QED  BY <1>1, SearchInvParts, SamePage
\* The mouse.
LEMMA MouseOrderly ==
  ASSUME SearchInv,
         ClickField \/ ClickElsewhere \/ ClickClose
           \/ (\E i \in Rows(page) : ClickRow(i))
           \/ (\E id \in Sections : ClickFilter(id))
           \/ PointAt \/ PointAway \/ PointerLost
  PROVE  SearchInv'
<1>1. /\ panel \in Panels /\ Orderly(panel) /\ focus \in Focuses
      /\ focus = "field" => panel.searchActive
      /\ key = "text" \/ missed \/ LookedFor(panel)
      /\ key \in KeyStates /\ hovering \in BOOLEAN /\ missed \in BOOLEAN
      /\ open \subseteq Rows(page) /\ at.row \in Rows(page) \cup {-1}
  BY SearchInvParts
<1>2. /\ Orderly(EnterField(panel)) /\ Orderly(LeaveField(panel))
      /\ LookedFor(panel) => LookedFor(EnterField(panel)) /\ LookedFor(LeaveField(panel))
      /\ EnterField(panel).searchActive
  BY <1>1, FocusOrderly
<1>3. CASE ClickField
  <2>1. /\ UNCHANGED <<page, open, at, key, hovering, missed>>
        /\ focus' = "field" /\ panel' = EnterField(panel)
    BY <1>3 DEF ClickField
  <2> QED  BY <1>1, <1>2, <2>1, SamePlace DEF Focuses
<1>4. CASE ClickElsewhere
  <2>1. /\ UNCHANGED <<page, open, at, key, hovering, missed>>
        /\ focus' = "nothing" /\ panel' = LeaveField(panel)
    BY <1>4 DEF ClickElsewhere
  <2> QED  BY <1>1, <1>2, <2>1, SamePlace DEF Focuses
<1>5. CASE ClickClose
  <2>1. /\ UNCHANGED <<page, open, at, key, hovering, missed>>
        /\ focus' = "nothing" /\ panel' = CloseResultsWindow(LeaveField(panel))
    BY <1>5 DEF ClickClose
  <2>2. Orderly(panel') /\ LookedFor(panel')
    BY <1>2, <2>1, CloseOrderly DEF Orderly
  <2> QED  BY <1>1, <2>1, <2>2, SamePlace DEF Focuses
<1>6. ASSUME NEW i \in Rows(page), ClickRow(i)
      PROVE  SearchInv'
  <2>1. /\ UNCHANGED <<page, key, hovering, missed>> /\ i \in Visible(page)
        /\ focus' = "results" /\ panel' = LeaveField(panel)
        /\ at' = Item(i) /\ open' = Toggle(i)
    BY <1>6 DEF ClickRow
  <2>2. at' \in Readable(page, open') /\ at'.row = i
    BY <2>1, ReadableIs, PlaceParts DEF Item
  <2>3. open' \subseteq Rows(page)
    BY <1>1, <2>1 DEF Toggle
  <2> QED  BY <1>1, <1>2, <2>1, <2>2, <2>3, SamePage DEF Focuses
<1>7. ASSUME NEW id \in Sections, ClickFilter(id)
      PROVE  SearchInv'
  <2>1. /\ UNCHANGED <<page, open, at, key, hovering>> /\ focus' = "filters"
        /\ panel' = OnSelectItem(LeaveField(panel), id) /\ missed' \in BOOLEAN
    BY <1>1, <1>7 DEF ClickFilter, StillMissed
  <2>2. Orderly(panel') /\ LookedFor(panel')
    <3>1. id \in 0 .. Cardinality(Sections)
      BY TextsTyped
    <3> QED  BY <1>2, <2>1, <3>1, SelectOrderly
  <2> QED  BY <1>1, <2>1, <2>2, SamePlace DEF Focuses
<1>8. CASE PointAt \/ PointAway \/ PointerLost
  <2>1. /\ UNCHANGED <<page, open, focus, at, key, missed>> /\ hovering' \in BOOLEAN
        /\ panel' \in {panel, OnSearchSelectShow(panel), OnSearchSelectHide(panel)}
    BY <1>8 DEF PointAt, PointAway, PointerLost
  <2>2. /\ Orderly(panel') /\ (LookedFor(panel) => LookedFor(panel'))
        /\ panel'.searchActive = panel.searchActive
    BY <1>1, <2>1, WindowOrderly
  <2> QED  BY <1>1, <2>1, <2>2, SamePlace
<1> QED  BY <1>3, <1>4, <1>5, <1>6, <1>7, <1>8

\* The keys and what is left of them when they come up.
LEMMA KeysTyped ==
  ASSUME NEW k \in Keys
  PROVE  Released(k) \in KeyStates
         /\ (MayGoDown(k) /\ key = "text" => Released(k) = "text")
BY DEF KeyStates, MayGoDown, NoKey

\* Keys in the field, and where nothing listens to them.
LEMMA FieldKeyOrderly ==
  ASSUME SearchInv, (\E t \in Texts : EditField(t)) \/ (\E k \in Keys : PressKey(k))
  PROVE  SearchInv'
<1>1. /\ panel \in Panels /\ Orderly(panel) /\ focus \in Focuses
      /\ focus = "field" => panel.searchActive
      /\ key = "text" \/ missed \/ LookedFor(panel)
      /\ key \in KeyStates /\ hovering \in BOOLEAN /\ missed \in BOOLEAN
  BY SearchInvParts
<1>2. ASSUME NEW t \in Texts, EditField(t)
      PROVE  SearchInv'
  <2> DEFINE c == [panel EXCEPT !.field = t]
  <2>1. /\ UNCHANGED <<page, open, focus, at, hovering, missed>> /\ focus = "field"
        /\ key' = "text" /\ panel' = c
    BY <1>2 DEF EditField, Released
  <2>2. key' \in KeyStates
    BY <2>1 DEF KeyStates, Released, Keys
  <2>3. /\ c \in Panels /\ c.searchActive = panel.searchActive /\ c.shown = panel.shown
        /\ c.last = panel.last /\ c.loading = panel.loading /\ c.target = panel.target
    BY <1>1 DEF Panels
  <2> HIDE DEF c
  <2>4. Orderly(panel') /\ panel'.searchActive
    BY <1>1, <2>1, <2>3 DEF Orderly, ShowsLast
  <2> QED  BY <1>1, <2>1, <2>2, <2>4, SamePlace
<1>3. ASSUME NEW k \in Keys, PressKey(k)
      PROVE  SearchInv'
  <2>1. /\ UNCHANGED <<panel, page, open, focus, at, hovering, missed>>
        /\ key' = Released(k) /\ key = NoKey
    BY <1>3 DEF PressKey
  <2>2. missed \/ LookedFor(panel)
    BY <1>1, <2>1 DEF NoKey
  <2> QED  BY <1>1, <2>1, <2>2, KeysTyped, SamePlace
<1> QED  BY <1>2, <1>3

\* Keys in the filter window.
LEMMA SelectKeyOrderly ==
  ASSUME SearchInv, NEW k \in Keys, SelectKey(k)
  PROVE  SearchInv'
<1>1. /\ panel \in Panels /\ Orderly(panel) /\ focus \in Focuses
      /\ focus = "field" => panel.searchActive
      /\ key = "text" \/ missed \/ LookedFor(panel)
      /\ key \in KeyStates /\ hovering \in BOOLEAN /\ missed \in BOOLEAN
  BY SearchInvParts
<1>2. /\ UNCHANGED <<page, open, at, hovering>> /\ key' = Released(k) /\ MayGoDown(k)
      /\ focus = "filters"
  BY DEF SelectKey
<1>3. ASSUME NEW id \in 0 .. Cardinality(Sections), panel' = OnSelectItem(panel, id),
             UNCHANGED focus, missed' \in BOOLEAN
      PROVE  SearchInv'
  BY <1>1, <1>2, <1>3, KeysTyped, SelectOrderly, SamePlace
<1>4. panel.index \in 0 .. Cardinality(Sections) /\ Cardinality(Sections) \in Nat
  BY <1>1, TextsTyped DEF Panels
<1>5. CASE /\ k \in {"Down", "ShiftDown"} /\ panel.index < Cardinality(Sections)
           /\ panel' = OnSelectItem(panel, panel.index + 1)
           /\ missed' = StillMissed([panel EXCEPT !.index = @ + 1])
           /\ UNCHANGED focus
  <2>1. panel.index + 1 \in 0 .. Cardinality(Sections) /\ missed' \in BOOLEAN
    BY <1>1, <1>4, <1>5 DEF StillMissed
  <2> QED  BY <1>3, <1>5, <2>1
<1>6. CASE /\ k = "Up" /\ panel.index > 0
           /\ panel' = OnSelectItem(panel, panel.index - 1)
           /\ missed' = StillMissed([panel EXCEPT !.index = @ - 1])
           /\ UNCHANGED focus
  <2>1. panel.index - 1 \in 0 .. Cardinality(Sections) /\ missed' \in BOOLEAN
    BY <1>1, <1>4, <1>6 DEF StillMissed
  <2> QED  BY <1>3, <1>6, <2>1
<1>7. CASE /\ UNCHANGED focus /\ panel' = OnSelectItem(panel, panel.index)
           /\ missed' = StillMissed(panel)
  <2>1. missed' \in BOOLEAN
    BY <1>1, <1>7 DEF StillMissed
  <2> QED  BY <1>3, <1>4, <1>7, <2>1
<1>8. CASE /\ panel' = Activate(CloseSelectionWindow(OnSelectItem(panel, panel.index)), TRUE)
           /\ focus' = "field" /\ missed' = StillMissed(panel)
  <2> DEFINE b == OnSelectItem(panel, panel.index)
             c == CloseSelectionWindow(b)
  <2>1. Orderly(b) /\ LookedFor(b)
    BY <1>1, <1>4, SelectOrderly
  <2> HIDE DEF b
  <2>2. Orderly(c) /\ LookedFor(c)
    BY <2>1, WindowOrderly
  <2>3. panel' = Activate(c, TRUE)
    BY <1>8 DEF b
  <2> HIDE DEF c
  <2>4. Orderly(panel') /\ LookedFor(panel') /\ panel'.searchActive
    BY <2>2, <2>3, ActivateOrderly
  <2>5. missed' \in BOOLEAN
    BY <1>1, <1>8 DEF StillMissed
  <2> QED  BY <1>1, <1>2, <1>8, <2>4, <2>5, KeysTyped, SamePlace DEF Focuses
<1>9. CASE UNCHANGED <<panel, focus, missed>>
  BY <1>1, <1>2, <1>9, KeysTyped, SamePlace
<1> QED  BY <1>5, <1>6, <1>7, <1>8, <1>9 DEF SelectKey
\* Keys in the results.
LEMMA ResultKeyOrderly ==
  ASSUME SearchInv, NEW k \in Keys, ResultKey(k)
  PROVE  SearchInv'
<1>1. /\ panel \in Panels /\ Orderly(panel) /\ focus \in Focuses
      /\ focus = "field" => panel.searchActive
      /\ key = "text" \/ missed \/ LookedFor(panel)
      /\ key \in KeyStates /\ hovering \in BOOLEAN /\ missed \in BOOLEAN
      /\ open \subseteq Rows(page) /\ at.row \in Rows(page) \cup {-1}
  BY SearchInvParts
<1>2. /\ UNCHANGED <<page, hovering, missed>> /\ key' = Released(k) /\ MayGoDown(k)
      /\ focus = "results"
  BY DEF ResultKey
<1>3. at \in Readable(page, open)
  BY <1>2 DEF SearchInv, FocusReadable
<1>4. key' \in KeyStates /\ (key' = "text" \/ missed \/ LookedFor(panel))
  BY <1>1, <1>2, KeysTyped
<1>5. ASSUME NEW place, GoTo(place)
      PROVE  SearchInv'
  <2>1. UNCHANGED open
    BY <1>5 DEF GoTo
  <2>2. CASE place = Nowhere
    <3>1. /\ focus' = "field" /\ panel' = EnterField(panel)
          /\ at' = IF place \in Readable(page, open) THEN place ELSE at
      BY <1>5, <2>2 DEF GoTo
    <3>2. Orderly(panel') /\ (LookedFor(panel) => LookedFor(panel')) /\ panel'.searchActive
      BY <1>1, <3>1, FocusOrderly
    <3>3. at'.row \in Rows(page) \cup {-1}
      BY <1>1, <2>2, <3>1, PlaceParts DEF Nowhere
    <3> QED  BY <1>1, <1>2, <1>4, <2>1, <3>1, <3>2, <3>3, SamePage DEF Focuses
  <2>3. CASE place # Nowhere
    <3>1. /\ UNCHANGED <<focus, panel>>
          /\ at' = IF place \in Readable(page, open) THEN place ELSE at
      BY <1>5, <2>3 DEF GoTo
    <3>2. at' \in Readable(page, open)
      BY <1>3, <3>1
    <3>3. at'.row \in Rows(page)
      BY <3>2, ReadableParts, RowsTyped
    <3> QED  BY <1>1, <1>2, <1>4, <2>1, <3>1, <3>2, <3>3, SamePage
  <2> QED  BY <2>2, <2>3
<1>6. CASE /\ at.child = -1 /\ UNCHANGED <<panel, focus, at>>
           /\ open' \in {open, open \cup {at.row}, open \ {at.row}, Toggle(at.row)}
  <2>1. at.row \in Visible(page) /\ at = Place(at.row, -1)
    BY <1>3, <1>6, ReadableParts
  <2>2. at' \in Readable(page, open')
    BY <1>6, <2>1, ReadableIs
  <2>3. open' \subseteq Rows(page)
    BY <1>1, <1>6, <2>1, RowsTyped DEF Toggle
  <2> QED  BY <1>1, <1>2, <1>4, <1>6, <2>2, <2>3, SamePage
<1>7. CASE /\ panel' = EnterField(CloseResultsWindow(panel)) /\ focus' = "field"
           /\ UNCHANGED <<open, at>>
  <2>1. Orderly(CloseResultsWindow(panel)) /\ LookedFor(CloseResultsWindow(panel))
    BY <1>1, CloseOrderly
  <2>2. Orderly(panel') /\ LookedFor(panel') /\ panel'.searchActive
    BY <1>2, <1>7, <2>1, FocusOrderly
  <2> QED  BY <1>1, <1>2, <1>4, <1>7, <2>2, SamePlace DEF Focuses
<1>8. \/ \E place : GoTo(place)
      \/ /\ at.child = -1 /\ UNCHANGED <<panel, focus, at>>
         /\ open' \in {open, open \cup {at.row}, open \ {at.row}, Toggle(at.row)}
      \/ /\ panel' = EnterField(CloseResultsWindow(panel)) /\ focus' = "field"
         /\ UNCHANGED <<open, at>>
  BY DEF ResultKey
<1> QED  BY <1>5, <1>6, <1>7, <1>8

\* A key comes up.
LEMMA ReleaseKeyOrderly ==
  ASSUME SearchInv, ReleaseKey
  PROVE  SearchInv'
<1>1. /\ panel \in Panels /\ Orderly(panel) /\ focus \in Focuses
      /\ focus = "field" => panel.searchActive
      /\ key = "text" \/ missed \/ LookedFor(panel)
      /\ key \in KeyStates /\ hovering \in BOOLEAN /\ missed \in BOOLEAN
      /\ open \subseteq Rows(page) /\ at.row \in Rows(page) \cup {-1}
  BY SearchInvParts
<1>2. /\ UNCHANGED <<page, open, hovering>> /\ key' = NoKey /\ key' \in KeyStates
  BY DEF ReleaseKey, KeyStates
<1>3. CASE focus # "field"
  <2>1. missed' = (missed \/ key = "text") /\ UNCHANGED <<panel, focus, at>>
    BY <1>3 DEF ReleaseKey
  <2>2. missed' \in BOOLEAN /\ (missed' \/ LookedFor(panel))
    BY <1>1, <2>1
  <2> QED  BY <1>1, <1>2, <2>1, <2>2, SamePlace
<1>4. CASE focus = "field"
  <2> DEFINE b == [panel EXCEPT !.keyTimer = FALSE]
             first == NavNext(page, 0)
  <2>1. Orderly(b) /\ b.searchActive
    BY <1>1, <1>4, TimerOrderly
  <2>2. \/ /\ focus' = "filters" /\ panel' = Activate(OnSearchSelectShow(b), FALSE)
           /\ missed' = TRUE /\ UNCHANGED at
        \/ /\ first # Nowhere /\ focus' = "results" /\ at' = first
           /\ panel' = CompareField(Activate(b, FALSE)) /\ missed' = FALSE
        \/ /\ focus' = "nothing" /\ panel' = CloseResultsWindow(b)
           /\ UNCHANGED <<at, missed>>
        \/ /\ panel' = CompareField(b) /\ missed' = FALSE /\ UNCHANGED <<focus, at>>
    BY <1>4 DEF ReleaseKey, FieldKeyUp
  <2> HIDE DEF b
  <2>3. CASE /\ focus' = "filters" /\ panel' = Activate(OnSearchSelectShow(b), FALSE)
             /\ missed' = TRUE /\ UNCHANGED at
    <3>1. Orderly(OnSearchSelectShow(b))
      BY <2>1, WindowOrderly
    <3>2. Orderly(panel')
      BY <2>3, <3>1, ActivateOrderly
    <3> QED  BY <1>1, <1>2, <2>3, <3>2, SamePlace DEF Focuses
  <2>4. CASE /\ first # Nowhere /\ focus' = "results" /\ at' = first
             /\ panel' = CompareField(Activate(b, FALSE)) /\ missed' = FALSE
    <3>1. Orderly(Activate(b, FALSE))
      BY <2>1, ActivateOrderly
    <3>2. Orderly(panel') /\ LookedFor(panel')
      BY <2>4, <3>1, CompareOrderly
    <3>3. \E i \in Visible(page) : at' = Place(i, -1)
      BY <2>4, NavNextFinds DEF Item
    <3>4. at' \in Readable(page, open') /\ at'.row \in Rows(page)
      BY <3>3, ReadableIs, PlaceParts, RowsTyped
    <3> QED  BY <1>1, <1>2, <2>4, <3>2, <3>4, SamePage DEF Focuses
  <2>5. CASE /\ focus' = "nothing" /\ panel' = CloseResultsWindow(b)
             /\ UNCHANGED <<at, missed>>
    <3>1. Orderly(panel') /\ LookedFor(panel')
      BY <2>1, <2>5, CloseOrderly DEF Orderly
    <3> QED  BY <1>1, <1>2, <2>5, <3>1, SamePlace DEF Focuses
  <2>6. CASE panel' = CompareField(b) /\ missed' = FALSE /\ UNCHANGED <<focus, at>>
    <3>1. Orderly(panel') /\ LookedFor(panel') /\ panel'.searchActive
      BY <2>1, <2>6, CompareOrderly
    <3> QED  BY <1>1, <1>2, <2>6, <3>1, SamePlace
  <2> QED  BY <2>2, <2>3, <2>4, <2>5, <2>6
<1> QED  BY <1>3, <1>4

\* The timers of the field look for the word that stands there when they end.
LEMMA TimersSearch ==
  ASSUME SearchInv, KeyTimerFires \/ ForgottenFires
  PROVE  SearchInv'
<1>1. /\ panel \in Panels /\ Orderly(panel) /\ focus \in Focuses
      /\ focus = "field" => panel.searchActive
      /\ key \in KeyStates /\ hovering \in BOOLEAN /\ missed \in BOOLEAN
  BY SearchInvParts
<1>2. /\ UNCHANGED <<page, open, focus, at, key, hovering>> /\ missed' \in BOOLEAN
  BY <1>1 DEF KeyTimerFires, ForgottenFires
<1>3. \E b : Orderly(b) /\ b.searchActive = panel.searchActive /\ panel' = Search(b)
  <2>1. CASE KeyTimerFires
    BY <1>1, <2>1, TimerOrderly DEF KeyTimerFires
  <2>2. CASE ForgottenFires
    <3> DEFINE b == [panel EXCEPT !.forgotten = @ - 1]
    <3>1. panel.forgotten - 1 \in Nat
      BY <1>1, <2>2 DEF ForgottenFires, Panels
    <3>2. Orderly(b) /\ b.searchActive = panel.searchActive
      BY <1>1, <3>1, TimerOrderly DEF Panels
    <3>3. panel' = Search(b)
      BY <2>2 DEF ForgottenFires
    <3> QED  BY <3>2, <3>3
  <2> QED  BY <2>1, <2>2
<1>4. Orderly(panel') /\ LookedFor(panel') /\ panel'.searchActive = panel.searchActive
  BY <1>3, SearchOrderly
<1> QED  BY <1>1, <1>2, <1>4, SamePlace

\* The filter window closes, and a page arrives.
LEMMA BrowserOrderly ==
  ASSUME SearchInv, Browser
  PROVE  SearchInv'
<1>1. /\ panel \in Panels /\ Orderly(panel) /\ focus \in Focuses
      /\ focus = "field" => panel.searchActive
      /\ key = "text" \/ missed \/ LookedFor(panel)
      /\ key \in KeyStates /\ hovering \in BOOLEAN /\ missed \in BOOLEAN
      /\ open \subseteq Rows(page) /\ at.row \in Rows(page) \cup {-1}
  BY SearchInvParts
<1>2. CASE HideTimerFires
  <2> DEFINE b == [panel EXCEPT !.hideTimer = FALSE]
  <2>1. /\ UNCHANGED <<page, open, at, key, hovering, missed>>
        /\ panel' = CloseSelectionWindow(b)
        /\ focus' \in Focuses /\ (focus' \in {"field", "results"} => focus' = focus)
    BY <1>1, <1>2 DEF HideTimerFires, Focuses
  <2>2. /\ b \in Panels
        /\ b.searchActive = panel.searchActive /\ b.field = panel.field
        /\ b.shown = panel.shown /\ b.last = panel.last /\ b.loading = panel.loading
        /\ b.target = panel.target /\ b.keyTimer = panel.keyTimer
        /\ b.forgotten = panel.forgotten /\ b.index = panel.index
    BY <1>1 DEF Panels
  <2> HIDE DEF b
  <2>3. Orderly(b) /\ (LookedFor(panel) => LookedFor(b))
    BY <1>1, <2>2, OrderlySame
  <2>4. /\ Orderly(panel') /\ (LookedFor(panel) => LookedFor(panel'))
        /\ panel'.searchActive = panel.searchActive
    BY <2>1, <2>2, <2>3, WindowOrderly
  <2> QED  BY <1>1, <2>1, <2>4, SamePlace
<1>3. CASE LoadPage
  <2> DEFINE b == [panel EXCEPT !.loading = FALSE]
  <2>1. /\ panel.loading /\ panel' = b /\ page' = panel.target /\ open' = {}
        /\ focus' \in Focuses /\ focus' # "results" /\ (focus' = "field" => focus = "field")
        /\ at' = Nowhere /\ UNCHANGED <<key, hovering, missed>>
    BY <1>1, <1>3 DEF LoadPage, Focuses
  <2>2. /\ b \in Panels
        /\ b.searchActive = panel.searchActive /\ b.field = panel.field
        /\ b.shown = panel.shown /\ b.last = panel.last /\ ~b.loading
        /\ b.target = panel.target /\ b.keyTimer = panel.keyTimer
        /\ b.forgotten = panel.forgotten /\ b.index = panel.index
    BY <1>1 DEF Panels
  <2> HIDE DEF b
  <2>3. page' \in Names \cup {NoPage} /\ at'.row = -1
    BY <1>1, <2>1, PlaceParts DEF Panels, Nowhere
  <2>4. PanelTypeOK'
    BY <1>1, <2>1, <2>2, <2>3 DEF PanelTypeOK, KeyStates, Focuses
  <2>5. Orderly(panel)'
    BY <1>1, <2>1, <2>2 DEF Orderly, ShowsLast
  <2>6. (key = "text" \/ missed \/ LookedFor(panel))'
    BY <1>1, <2>1, <2>2 DEF LookedFor, SectionMissing
  <2>7. FocusReadable' /\ (focus = "field" => panel.searchActive)'
    BY <1>1, <2>1, <2>2 DEF FocusReadable
  <2> QED  BY <2>4, <2>5, <2>6, <2>7 DEF SearchInv
<1> QED  BY <1>2, <1>3, TimersSearch DEF Browser

-----------------------------------------------------------------------------
\* Before the first search nothing is looked for.
LEMMA SearchInit == Init => SearchInv
<1> SUFFICES ASSUME Init PROVE SearchInv
  OBVIOUS
<1>1. panel \in Panels
  BY TextsTyped DEF Init, Panels
<1>2. /\ ~panel.shown /\ panel.last = Empty /\ panel.field = Label /\ ~panel.searchActive
      /\ page = NoPage /\ open = {} /\ focus = "nothing" /\ at = Nowhere /\ key = NoKey
      /\ hovering = FALSE /\ missed = FALSE
  BY DEF Init
<1>3. PanelTypeOK
  BY <1>1, <1>2, PlaceParts DEF PanelTypeOK, Nowhere
<1> QED  BY <1>1, <1>2, <1>3 DEF SearchInv, Orderly, ShowsLast, LookedFor, FocusReadable

\* Every step keeps the search in order.
LEMMA SearchNext == SearchInv /\ [Next]_vars => SearchInv'
<1> SUFFICES ASSUME SearchInv, [Next]_vars PROVE SearchInv'
  OBVIOUS
<1>1. CASE UNCHANGED vars
  <2>1. UNCHANGED <<panel, page, open, focus, at, key, hovering, missed>>
    BY <1>1 DEF vars
  <2> QED  BY <2>1, SearchInvParts, SamePlace
<1>2. CASE Browser
  BY <1>2, BrowserOrderly
<1>3. CASE User
  BY <1>3, MouseOrderly, FieldKeyOrderly, SelectKeyOrderly, ResultKeyOrderly,
     ReleaseKeyOrderly DEF User
<1> QED  BY <1>1, <1>2, <1>3 DEF Next

\* What was looked for is shown, and what is in the field is looked for unless
\* a key, a timer or a missed change is still in the way.
THEOREM SearchInvariant == Spec => []SearchInv
<1> QED  BY SearchInit, SearchNext, PTL DEF Spec

\* Every variable of the panel keeps its type; searchIndex is at most one past
\* the last filter.
THEOREM PanelTyped == Spec => []PanelTypeOK
<1>1. SearchInv => PanelTypeOK
  BY DEF SearchInv
<1> QED  BY <1>1, SearchInvariant, PTL

\* At rest the results on the screen are those of the word in the field,
\* whatever was typed, clicked and hovered in whatever order.
THEOREM ResultsSettle == Spec => []SettledResults
<1>1. SearchInv => SettledResults
  <2> SUFFICES ASSUME SearchInv, AtRest, key = NoKey, focus = "field",
                      Spaceless[panel.field] # Empty, ~SectionMissing(panel), ~missed
               PROVE  /\ panel.shown /\ page.query = panel.last
                      /\ Spaceless[panel.last] = Spaceless[panel.field]
    BY DEF SettledResults
  <2>1. panel.searchActive /\ Orderly(panel) /\ LookedFor(panel)
    BY SearchInvParts DEF NoKey
  <2>2. Spaceless[panel.last] = Spaceless[panel.field]
    BY <2>1 DEF LookedFor, AtRest
  <2>3. panel.last # Empty
    BY <2>2, TextsTyped
  <2> QED  BY <2>1, <2>2, <2>3 DEF Orderly, ShowsLast, AtRest
<1> QED  BY <1>1, SearchInvariant, PTL

\* The arrow keys walk over the results of every page in their order, and the
\* focus never stands on what cannot be seen.
THEOREM WalkSafe == Spec => []NavInOrder
<1>1. SearchInv => NavInOrder
  BY ArrowsWalk DEF SearchInv, FocusReadable, NavInOrder
<1> QED  BY <1>1, SearchInvariant, PTL
=============================================================================
