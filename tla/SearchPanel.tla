---------------------------- MODULE SearchPanel ----------------------------
(***************************************************************************)
(* The search panel of the program's documentation: class SearchBox of     *)
(* html/search/search.js, wired to the page in html/menu.js and            *)
(* html/index.html.  The handlers run to their end one at a time; between  *)
(* them lie timers and a frame that loads its page in the background.      *)
(*                                                                         *)
(* The user is the environment: a key that goes down in one element may    *)
(* come up in another one.                                                 *)
(***************************************************************************)
EXTENDS SearchResults, FiniteSets

CONSTANTS
  Empty,         \* the text without any character
  Label,         \* searchLabel
  Spaceless,     \* a text without its spaces
  Unled,         \* a text without its leading spaces
  MaxForgotten   \* bound on running timers that keyTimeout has forgotten

ASSUME TextsAssumption ==
  /\ {Empty, Label} \subseteq Texts
  /\ Spaceless \in [Texts -> Texts]
  /\ Unled \in [Texts -> Texts]
  /\ Spaceless[Empty] = Empty
  /\ \A t \in Texts : Spaceless[Spaceless[t]] = Spaceless[t]
                    /\ Spaceless[Unled[t]] = Spaceless[t]
  /\ IsFiniteSet(Sections)
  /\ Sections = 0 .. Cardinality(Sections) - 1
  /\ MaxForgotten \in Nat

VARIABLES
  panel,     \* the SearchBox, and the elements it writes to
  page,      \* the page that the frame shows
  open,      \* its unfolded rows
  focus,     \* nothing of the panel, or its field, filter window or results
  at,        \* the focused place of the results
  key,       \* the key that is down, as far as its release matters
  hovering,  \* the mouse is on the icon or the window of the filters
  missed     \* history: a change of the field that no timer was started for

vars == <<panel, page, open, focus, at, key, hovering, missed>>

Keys == {"text", "Up", "Down", "ShiftDown", "Left", "Right", "Enter", "Esc"}
NoKey == "none"
Released(k) == CASE k \in {"Down", "Enter"} -> "Down"
                 [] k \in {"Up", "Left", "Right"} -> "Up"
                 [] OTHER -> k
NoPage == Name(-1, Empty)   \* the frame before the first search
MayGoDown(k) == key \in {NoKey, Released(k)}

Init ==
  /\ panel = [field |-> Label, active |-> FALSE, searchActive |-> FALSE,
              last |-> Empty, index |-> 0, shown |-> FALSE,
              target |-> NoPage, loading |-> FALSE,
              keyTimer |-> FALSE, forgotten |-> 0,
              select |-> FALSE, hideTimer |-> FALSE]
  /\ page = NoPage
  /\ open = {}
  /\ focus = "nothing"
  /\ at = Nowhere
  /\ key = NoKey
  /\ hovering = FALSE
  /\ missed = FALSE

-----------------------------------------------------------------------------
(***************************************************************************)
(* The methods of SearchBox: b is the panel before the call.               *)
(***************************************************************************)

\* Defective variant: the remembered word survives the removal of the panel.
ActivateKeeping(b, isActive) ==
  IF isActive \/ b.shown
    THEN [b EXCEPT !.active = TRUE,
                   !.field = IF @ = Label THEN Empty ELSE @,
                   !.searchActive = @ \/ b.field = Label]
    ELSE [b EXCEPT !.active = FALSE, !.field = Label, !.searchActive = FALSE]

\* OnSearchFieldFocus(isActive) only calls it.
Activate(b, isActive) ==
  IF isActive \/ b.shown
    THEN [b EXCEPT !.active = TRUE,
                   !.field = IF @ = Label THEN Empty ELSE @,
                   !.searchActive = @ \/ b.field = Label]
    ELSE [b EXCEPT !.active = FALSE, !.field = Label, !.searchActive = FALSE,
                   !.last = Empty]

CloseResultsWindow(b) == Activate([b EXCEPT !.shown = FALSE], FALSE)

\* With no section for searchIndex, Search throws before it shows anything.
SectionMissing(b) == b.index \notin Sections

\* keyTimeout is set to 0 without clearTimeout: a timer that still runs is
\* forgotten.
Search(b) ==
  LET untracked == [b EXCEPT !.keyTimer = FALSE,
                             !.forgotten = @ + IF b.keyTimer THEN 1 ELSE 0]
  IN  IF SectionMissing(b) THEN untracked
      ELSE [untracked EXCEPT !.target = Name(b.index, Unled[b.field]),
                             !.loading = TRUE,
                             !.shown = TRUE,
                             !.last = Unled[b.field]]

SearchesNow(b) == Spaceless[b.field] # Empty /\ b.searchActive

OnSelectItem(b, id) ==
  LET chosen == [b EXCEPT !.index = id]
  IN  IF SearchesNow(b) THEN Search(chosen) ELSE chosen

\* Defective variant: the timer that hides the window goes on.
OnSearchSelectShowStill(b) == [b EXCEPT !.select = TRUE]

OnSearchSelectShow(b) == [b EXCEPT !.select = TRUE, !.hideTimer = FALSE]
OnSearchSelectHide(b) == [b EXCEPT !.hideTimer = TRUE]
CloseSelectionWindow(b) == [b EXCEPT !.select = FALSE]

\* OnSearchFieldChange, after the keys.
CompareField(b) ==
  LET searchValue == Spaceless[b.field]
  IN  CASE searchValue = b.last -> b
        [] searchValue # b.last /\ searchValue # Empty -> [b EXCEPT !.keyTimer = TRUE]
        [] OTHER -> [b EXCEPT !.shown = FALSE, !.last = Empty]

-----------------------------------------------------------------------------
(***************************************************************************)
(* The user.  Where the focus enters or leaves the field, the page calls   *)
(* OnSearchFieldFocus; an element that is not displayed cannot be focused. *)
(***************************************************************************)
EnterField(b) == IF focus = "field" THEN b ELSE Activate(b, TRUE)
LeaveField(b) == IF focus = "field" THEN Activate(b, FALSE) ELSE b

ClickField ==
  /\ focus' = "field"
  /\ panel' = EnterField(panel)
  /\ UNCHANGED <<page, open, at, key, hovering, missed>>

ClickElsewhere ==
  /\ focus # "nothing"
  /\ focus' = "nothing"
  /\ panel' = LeaveField(panel)
  /\ UNCHANGED <<page, open, at, key, hovering, missed>>

\* The link MSearchClose
ClickClose ==
  /\ panel.shown
  /\ focus' = "nothing"
  /\ panel' = CloseResultsWindow(LeaveField(panel))
  /\ UNCHANGED <<page, open, at, key, hovering, missed>>

\* A row with children is a link to Toggle.
Toggle(i) == IF i \in open THEN open \ {i} ELSE open \cup {i}

ClickRow(i) ==
  /\ panel.shown
  /\ i \in Visible(page)
  /\ Kids(page, i) > 0
  /\ focus' = "results"
  /\ at' = Item(i)
  /\ panel' = LeaveField(panel)
  /\ open' = Toggle(i)
  /\ UNCHANGED <<page, key, hovering, missed>>

Bounded(b) == b.forgotten <= MaxForgotten

\* Whether a call left a search behind: then no change is missed any more.
StillMissed(b) == missed /\ ~(SearchesNow(b) /\ ~SectionMissing(b))

ClickFilter(id) ==
  /\ panel.select
  /\ hovering
  /\ focus' = "filters"
  /\ LET b == LeaveField(panel) IN
       /\ panel' = OnSelectItem(b, id)
       /\ missed' = StillMissed([b EXCEPT !.index = id])
  /\ Bounded(panel')
  /\ UNCHANGED <<page, open, at, key, hovering>>

\* onmouseover and onmouseout of the icon and of the filter window; between
\* the two the mouse is on neither.
PointAt ==
  /\ ~hovering
  /\ hovering' = TRUE
  /\ panel' = OnSearchSelectShow(panel)
  /\ UNCHANGED <<page, open, focus, at, key, missed>>

PointAway ==
  /\ hovering
  /\ hovering' = FALSE
  /\ panel' = OnSearchSelectHide(panel)
  /\ UNCHANGED <<page, open, focus, at, key, missed>>

\* The window under the mouse was closed: nothing is called.
PointerLost ==
  /\ hovering
  /\ ~panel.select
  /\ hovering' = FALSE
  /\ UNCHANGED <<panel, page, open, focus, at, key, missed>>

-----------------------------------------------------------------------------
\* A key that changes the text; it may repeat.
EditField(t) ==
  /\ focus = "field"
  /\ MayGoDown("text")
  /\ t # panel.field
  /\ key' = Released("text")
  /\ panel' = [panel EXCEPT !.field = t]
  /\ UNCHANGED <<page, open, focus, at, hovering, missed>>

\* Any other key in the field, and any key where nothing listens to it.
PressKey(k) ==
  /\ \/ focus = "field" /\ k # "text"
     \/ focus = "nothing"
  /\ key = NoKey
  /\ key' = Released(k)
  /\ UNCHANGED <<panel, page, open, focus, at, hovering, missed>>

\* OnSearchSelectKey, bound to onkeydown of the filter window.  An exception
\* in Search leaves the window open and the focus where it is.
SelectKey(k) ==
  /\ focus = "filters"
  /\ MayGoDown(k)
  /\ key' = Released(k)
  /\ \/ /\ k \in {"Down", "ShiftDown"} /\ panel.index < Cardinality(Sections)
        /\ panel' = OnSelectItem(panel, panel.index + 1)
        /\ missed' = StillMissed([panel EXCEPT !.index = @ + 1])
        /\ UNCHANGED focus
     \/ /\ k = "Up" /\ panel.index > 0
        /\ panel' = OnSelectItem(panel, panel.index - 1)
        /\ missed' = StillMissed([panel EXCEPT !.index = @ - 1])
        /\ UNCHANGED focus
     \/ /\ k \in {"Enter", "Esc"}
        /\ LET b == OnSelectItem(panel, panel.index) IN
             IF SearchesNow(panel) /\ SectionMissing(panel)
               THEN panel' = b /\ UNCHANGED focus
               ELSE /\ panel' = Activate(CloseSelectionWindow(b), TRUE)
                    /\ focus' = "field"
        /\ missed' = StillMissed(panel)
     \/ /\ k \in {"text", "Left", "Right"}
        /\ UNCHANGED <<panel, focus, missed>>
  /\ Bounded(panel')
  /\ UNCHANGED <<page, open, at, hovering>>

\* focusItem.focus() or, without one, MSearchField.focus()
GoTo(place) ==
  /\ at' = IF place \in Readable(page, open) THEN place ELSE at
  /\ focus' = IF place = Nowhere THEN "field" ELSE focus
  /\ panel' = IF place = Nowhere THEN EnterField(panel) ELSE panel
  /\ UNCHANGED open

\* Nav and NavChild for keydown.  (ProcessKeys lets no other event through
\* in browsers that send keypress for characters only.)  Enter on a link to
\* a result leaves the page.
ResultKey(k) ==
  /\ focus = "results"
  /\ MayGoDown(k)
  /\ key' = Released(k)
  /\ \/ k = "Up" /\ GoTo(Up(page, open, at))
     \/ /\ k \in {"Down", "ShiftDown"}
        /\ LET place == Down(page, open, at)
           IN  GoTo(IF place = Nowhere THEN at ELSE place)
     \/ /\ k \in {"Right", "Left", "Enter"}
        /\ at.child = -1
        /\ k = "Enter" => Kids(page, at.row) > 0
        /\ open' = CASE Kids(page, at.row) = 0 -> open
                     [] k = "Right" -> open \cup {at.row}
                     [] k = "Left" -> open \ {at.row}
                     [] OTHER -> Toggle(at.row)
        /\ UNCHANGED <<panel, focus, at>>
     \/ /\ k = "Esc"
        /\ panel' = EnterField(CloseResultsWindow(panel))
        /\ focus' = "field"
        /\ UNCHANGED <<open, at>>
  /\ UNCHANGED <<page, hovering, missed>>

\* OnSearchFieldChange, bound to onkeyup of the field.
FieldKeyUp(k) ==
  LET b == [panel EXCEPT !.keyTimer = FALSE]
      first == NavNext(page, 0)
  IN  \/ /\ k = "ShiftDown"
         /\ focus' = "filters"
         /\ panel' = Activate(OnSearchSelectShow(b), FALSE)
         /\ missed' = TRUE
         /\ UNCHANGED at
      \/ /\ k = "Down" /\ panel.shown /\ first # Nowhere
         /\ focus' = "results"
         /\ at' = first
         /\ panel' = CompareField(Activate(b, FALSE))
         /\ missed' = FALSE
      \/ /\ k = "Esc"
         /\ focus' = "nothing"
         /\ panel' = CloseResultsWindow(b)
         /\ UNCHANGED <<at, missed>>
      \/ /\ k \notin {"ShiftDown", "Esc"}
         /\ k = "Down" => ~panel.shown \/ first = Nowhere
         /\ panel' = CompareField(b)
         /\ missed' = FALSE
         /\ UNCHANGED <<focus, at>>

ReleaseKey ==
  /\ key # NoKey
  /\ key' = NoKey
  /\ IF focus = "field" THEN FieldKeyUp(key)
     ELSE /\ missed' = (missed \/ key = "text")
          /\ UNCHANGED <<panel, focus, at>>
  /\ UNCHANGED <<page, open, hovering>>

-----------------------------------------------------------------------------
(***************************************************************************)
(* Timers and the frame.                                                   *)
(***************************************************************************)
\* Defective variant: an interval instead of a timeout.
KeyTimerRepeats ==
  /\ panel.keyTimer
  /\ panel' = [Search([panel EXCEPT !.keyTimer = FALSE]) EXCEPT !.keyTimer = TRUE]
  /\ missed' = (missed /\ SectionMissing(panel))
  /\ UNCHANGED <<page, open, focus, at, key, hovering>>

KeyTimerFires ==
  /\ panel.keyTimer
  /\ panel' = Search([panel EXCEPT !.keyTimer = FALSE])
  /\ missed' = (missed /\ SectionMissing(panel))
  /\ UNCHANGED <<page, open, focus, at, key, hovering>>

ForgottenFires ==
  /\ panel.forgotten > 0
  /\ panel' = Search([panel EXCEPT !.forgotten = @ - 1])
  /\ missed' = (missed /\ SectionMissing(panel))
  /\ UNCHANGED <<page, open, focus, at, key, hovering>>

HideTimerFires ==
  /\ panel.hideTimer
  /\ panel' = CloseSelectionWindow([panel EXCEPT !.hideTimer = FALSE])
  /\ focus' = IF focus = "filters" THEN "nothing" ELSE focus
  /\ UNCHANGED <<page, open, at, key, hovering, missed>>

\* Defective variant: what was unfolded stays so in the next page.
LoadPageInPlace ==
  /\ panel.loading
  /\ panel' = [panel EXCEPT !.loading = FALSE]
  /\ page' = panel.target
  /\ UNCHANGED <<open, focus, at, key, hovering, missed>>

\* The document of the frame is replaced, with whatever was focused in it.
LoadPage ==
  /\ panel.loading
  /\ panel' = [panel EXCEPT !.loading = FALSE]
  /\ page' = panel.target
  /\ open' = {}
  /\ focus' = IF focus = "results" THEN "nothing" ELSE focus
  /\ at' = Nowhere
  /\ UNCHANGED <<key, hovering, missed>>

-----------------------------------------------------------------------------
User ==
  \/ ClickField \/ ClickElsewhere \/ ClickClose
  \/ \E i \in Rows(page) : ClickRow(i)
  \/ \E id \in Sections : ClickFilter(id)
  \/ PointAt \/ PointAway \/ PointerLost
  \/ \E t \in Texts : EditField(t)
  \/ \E k \in Keys : PressKey(k) \/ SelectKey(k) \/ ResultKey(k)
  \/ ReleaseKey

Browser == KeyTimerFires \/ ForgottenFires \/ HideTimerFires \/ LoadPage

Next == User \/ Browser
Spec == Init /\ [][Next]_vars

\* Timers end and pages arrive; the user need not do anything.
Fairness ==
  /\ WF_vars(KeyTimerFires)
  /\ WF_vars(ForgottenFires)
  /\ WF_vars(HideTimerFires)
  /\ WF_vars(LoadPage)
FairSpec == Spec /\ Fairness

-----------------------------------------------------------------------------
Panels ==
  [field : Texts, active : BOOLEAN, searchActive : BOOLEAN, last : Texts,
   index : 0 .. Cardinality(Sections), shown : BOOLEAN,
   target : Names \cup {NoPage}, loading : BOOLEAN, keyTimer : BOOLEAN,
   forgotten : Nat, select : BOOLEAN, hideTimer : BOOLEAN]

PanelTypeOK ==
  /\ panel \in Panels
  /\ page \in Names \cup {NoPage}
  /\ open \subseteq Rows(page)
  /\ focus \in {"nothing", "field", "filters", "results"}
  /\ at.row \in Rows(page) \cup {-1}
  /\ key \in { Released(k) : k \in Keys } \cup {NoKey}
  /\ hovering \in BOOLEAN
  /\ missed \in BOOLEAN

\* While the mouse is on the icon or the filter window, no timer is about to
\* close the window, in whatever order the mouse crossed the two, and
\* whatever the keyboard opened or closed meanwhile (OnSearchSelectShow stops
\* the timer that OnSearchSelectHide started).
HoverKeepsWindow == hovering => ~panel.hideTimer

AtRest ==
  /\ ~panel.keyTimer
  /\ panel.forgotten = 0
  /\ ~panel.hideTimer
  /\ ~panel.loading

\* When no key is down and nothing is under way, the results on the screen
\* are those of the word in the focused field, up to spaces.  Excepted are a
\* filter past the last one, with which Search throws, and changes that no
\* timer was started for: their key came up elsewhere, or Shift+Down ended
\* the timer (OnSearchFieldChange).
SettledResults ==
  /\ AtRest
  /\ key = NoKey
  /\ focus = "field"
  /\ Spaceless[panel.field] # Empty
  /\ ~SectionMissing(panel)
  /\ ~missed
  => /\ panel.shown
     /\ page.query = panel.last
     /\ Spaceless[panel.last] = Spaceless[panel.field]

\* The arrow keys walk over everything that can be read, in its order: Down
\* leads to the next place and Up, from there, back; Up leaves the results at
\* their first place, Down stays at the last (NavNext, NavPrev, Nav and
\* NavChild, with whatever rows are filtered out and unfolded).
NavInOrder ==
  /\ focus = "results" => at \in Readable(page, open)
  /\ \A a \in Readable(page, open) :
       /\ \/ /\ Down(page, open, a) = Nowhere
             /\ \A b \in Readable(page, open) : ~Before(a, b)
          \/ /\ Down(page, open, a) \in Readable(page, open)
             /\ Neighbours(page, open, a, Down(page, open, a))
             /\ Up(page, open, Down(page, open, a)) = a
       /\ Up(page, open, a) = Nowhere =>
            \A b \in Readable(page, open) : ~Before(b, a)

\* Once the user leaves the panel alone, its timers end and its page arrives.
ComesToRest == <>[][Browser]_vars => <>[]AtRest

-----------------------------------------------------------------------------
(* The inductive invariant of the search; b is the panel.                  *)

\* The frame shows, or is about to show, what was looked for last; without
\* results that is forgotten.
ShowsLast(b) ==
  IF b.shown THEN (IF b.loading THEN b.target ELSE page).query = b.last
             ELSE b.last = Empty

\* With no timer left, the word in the field is the one that was looked for.
LookedFor(b) ==
  /\ b.searchActive
  /\ Spaceless[b.field] # Empty
  /\ ~b.keyTimer
  /\ b.forgotten = 0
  /\ ~SectionMissing(b)
  => Spaceless[b.last] = Spaceless[b.field]

\* The search is inactive only while the field shows its label.
Orderly(b) ==
  /\ b \in Panels
  /\ ShowsLast(b)
  /\ b.searchActive \/ b.field = Label

\* The focus of the results is on something that can be read.
FocusReadable == focus = "results" => at \in Readable(page, open)

SearchInv ==
  /\ PanelTypeOK
  /\ Orderly(panel)
  /\ focus = "field" => panel.searchActive
  /\ key = "text" \/ missed \/ LookedFor(panel)
  /\ FocusReadable
=============================================================================
