--------------------------- MODULE HistoryProofs ---------------------------
(***************************************************************************)
(* Theorems about History, for any chain, ledger and provider, any sizes   *)
(* of the terminal, and any number of requests.  Whatever the readers      *)
(* make of a list, it is shown to whom it belongs.                         *)
(*                                                                         *)
(* One slot of App holds the id awaited, and it is not emptied when the    *)
(* screen that asked is left.  What keeps a late answer out is that a      *)
(* screen asks when it opens: the slot then holds an id that is greater    *)
(* than any asked before (Fresh), so whatever is awaited on a screen was   *)
(* asked for its account (Awaiting).                                       *)
(*                                                                         *)
(* The cursor and the window of a screen are numbers, the window is never  *)
(* empty, and the cursor is in it (Windowed).  How many rows there are     *)
(* does not matter to that, which is why no new rows, fewer or none, move  *)
(* the cursor out of its window.                                           *)
(***************************************************************************)
EXTENDS History, TLAPS

Fresh    == /\ next_req \in Nat
            /\ \A ask \in asked : ask.req \in Nat /\ ask.req < next_req
Awaiting == OnHistory => \A ask \in asked : Awaited(ask) => ask.who = screen.who
Parts    == {"at", "who", "entries", "error", "show_dust", "selected", "page", "offset"}
Shaped   == OnHistory => DOMAIN screen = Parts
IInv     == Shaped /\ Fresh /\ Awaiting /\ RowsBelongHere

LEMMA Initially == Init => IInv
  BY DEF Init, IInv, Shaped, Fresh, Awaiting, RowsBelongHere, OnHistory, Assets

\* A screen that asks: its rows are gone, and the slot is its own.
LEMMA FetchingKeeps ==
  ASSUME IInv, NEW h, DOMAIN h = Parts, h.at = "History", Fetching(h)
  PROVE  IInv'
<1>1. Fresh'
  BY DEF Fetching, IInv, Fresh
<1>2. screen' = [h EXCEPT !.entries = None, !.error = FALSE]
  BY DEF Fetching
<1>3. DOMAIN screen' = Parts /\ screen'.who = h.who /\ screen'.entries = None
  BY <1>2 DEF Parts
<1>4. Awaiting'
  <2> SUFFICES ASSUME NEW ask \in asked', ask.req = inflight' PROVE ask.who = h.who
    BY <1>3 DEF Awaiting, Awaited
  <2>1. ask \notin asked
    BY DEF IInv, Fresh, Fetching
  <2> QED
    BY <2>1 DEF Fetching
<1> QED
  BY <1>1, <1>3, <1>4 DEF IInv, Shaped, RowsBelongHere

\* What leaves a screen its account and its rows.
Keeps(h, g) == DOMAIN g = DOMAIN h /\ g.at = h.at /\ g.who = h.who /\ g.entries = h.entries

\* Moving about on a screen changes neither whose it is nor its rows.
LEMMA StayingKeeps ==
  ASSUME IInv, UNCHANGED <<inflight, next_req, asked, heard>>, Keeps(screen, screen')
  PROVE  IInv'
<1>1. Shaped' /\ Fresh'
  BY DEF IInv, Shaped, Fresh, Keeps, OnHistory
<1>2. Awaiting'
  BY DEF IInv, Awaiting, Awaited, Keeps, OnHistory
<1>3. RowsBelongHere'
  BY DEF IInv, RowsBelongHere, Keeps, OnHistory
<1> QED
  BY <1>1, <1>2, <1>3 DEF IInv

LEMMA StepKeeps == IInv /\ [Next]_vars => IInv'
<1> SUFFICES ASSUME IInv, [Next]_vars PROVE IInv'
  OBVIOUS
<1> DEFINE Staying == UNCHANGED <<inflight, next_req, asked, heard>>
<1>0. OnHistory => DOMAIN screen = Parts
  BY DEF IInv, Shaped
<1>1. CASE open_history
  <2>1. DOMAIN NewHistory(screen.who) = Parts /\ NewHistory(screen.who).at = "History"
    BY DEF NewHistory, Parts
  <2> QED
    BY <1>1, <2>1, FetchingKeeps DEF open_history
<1>2. CASE fetch_history
  BY <1>0, <1>2, FetchingKeeps DEF fetch_history, OnHistory
<1>3. CASE Leave \/ OpenOther
  BY <1>3 DEF Leave, OpenOther, IInv, Shaped, Fresh, Awaiting, RowsBelongHere, OnHistory, Assets
<1>4. CASE OnAnswer
  <2>1. PICK ask \in asked :
           /\ asked' = asked \ {ask} /\ UNCHANGED next_req
           /\ \/ UNCHANGED <<screen, inflight, heard>>
              \/ /\ Awaited(ask) /\ inflight' = None /\ OnHistory
                 /\ \E res : screen' = Shown(screen, res)
                 /\ \E outcomes : heard' = [who |-> ask.who, outcomes |-> outcomes]
              \/ inflight' = None /\ UNCHANGED <<screen, heard>>
    BY <1>4, Zenon DEF OnAnswer, Answered
  <2>2. Fresh'
    BY <2>1 DEF IInv, Fresh
  <2>3. inflight' \in {inflight, None}
    BY <2>1
  <2>4. \A a \in asked' : a \in asked /\ a.req # None /\ (a.req = inflight' => Awaited(a))
    BY <2>1, <2>3, NoneAssumption DEF IInv, Fresh, Awaited
  <2>5. CASE UNCHANGED <<screen, heard>>
    BY <2>2, <2>4, <2>5 DEF IInv, Shaped, Awaiting, Awaited, RowsBelongHere, OnHistory
  <2>6. CASE /\ Awaited(ask) /\ inflight' = None /\ OnHistory
             /\ \E res : screen' = Shown(screen, res)
             /\ \E outcomes : heard' = [who |-> ask.who, outcomes |-> outcomes]
    <3>1. heard'.who = ask.who
      BY <2>6
    <3>2. DOMAIN screen' = Parts /\ screen'.who = screen.who
      BY <1>0, <2>6 DEF Shown, Parts
    <3>3. screen.who = ask.who
      BY <2>6 DEF IInv, Awaiting
    <3>4. Awaiting'
      BY <2>4, <2>6, <3>2 DEF IInv, Awaiting, Awaited
    <3> QED
      BY <2>2, <3>1, <3>2, <3>3, <3>4 DEF IInv, Shaped, RowsBelongHere
  <2> QED
    BY <2>1, <2>5, <2>6
<1>5. CASE Move
  <2>1. PICK delta : OnHistory /\ screen' = move_by(screen, delta) /\ Staying
    BY <1>5 DEF Move
  <2>2. Keeps(screen, screen')
    BY <1>0, <2>1 DEF move_by, Keeps, Parts
  <2> QED
    BY <2>1, <2>2, StayingKeeps
<1>6. CASE toggle_dust
  <2>1. PICK n : OnHistory /\ screen' = toggled([screen EXCEPT !.show_dust = ~@], n) /\ Staying
    BY <1>6 DEF toggle_dust
  <2>2. Keeps(screen, screen')
    BY <1>0, <2>1 DEF toggled, Keeps, Parts
  <2> QED
    BY <2>1, <2>2, StayingKeeps
<1>7. CASE set_viewport
  <2>1. PICK page : /\ screen' = IF OnHistory THEN Resized(screen, page) ELSE screen
                    /\ Staying
    BY <1>7 DEF set_viewport
  <2>2. Keeps(screen, screen')
    BY <1>0, <2>1 DEF Resized, Keeps, Parts
  <2> QED
    BY <2>1, <2>2, StayingKeeps
<1>8. CASE UNCHANGED vars
  BY <1>8, StayingKeeps DEF vars, Keeps
<1> QED
  BY <1>1, <1>2, <1>3, <1>4, <1>5, <1>6, <1>7, <1>8 DEF Next

\* The invariant is inductive.
THEOREM Invariance == Spec => []IInv
  BY Initially, StepKeeps, PTL DEF Spec

\* No answer is shown on the screen of another account, however late it comes.
THEOREM AnswersFindTheirScreen == Spec => []RowsBelongHere
<1>1. IInv => RowsBelongHere
  BY DEF IInv
<1> QED
  BY <1>1, Invariance, PTL

---------------------------------------------------------------------------
(* The cursor.                                                             *)

\* A window that is not empty, with the cursor in it.
InWindow(h) == /\ h.selected \in Nat /\ h.offset \in Nat /\ h.page \in Nat \ {0}
               /\ h.offset <= h.selected /\ h.selected < h.offset + h.page

Windowed == height \in Nat /\ (OnHistory => InWindow(screen))

WInv == Shaped /\ Windowed

\* However tall the terminal is, there is room for a row.
LEMMA PageHasRows == ASSUME NEW h \in Nat PROVE history_page_for(h) \in Nat \ {0}
  BY PageAssumption DEF history_page_for, Clamp

\* A screen that is read anew stays where it is, and a new one begins at the top.
LEMMA FetchingWindowed ==
  ASSUME NEW h, DOMAIN h = Parts, InWindow(h), h.at = "History", height \in Nat,
         Fetching(h), UNCHANGED height
  PROVE  WInv'
<1>1. screen' = [h EXCEPT !.entries = None, !.error = FALSE]
  BY DEF Fetching
<1>2. DOMAIN screen' = Parts /\ InWindow(screen')
  BY <1>1 DEF Parts, InWindow
<1> QED
  BY <1>2 DEF WInv, Shaped, Windowed

\* The window goes with the cursor, by a row or by a page, up or down.
LEMMA MovedWindowed ==
  ASSUME NEW h, DOMAIN h = Parts, InWindow(h), NEW delta \in Int
  PROVE  DOMAIN move_by(h, delta) = Parts /\ InWindow(move_by(h, delta))
<1> DEFINE n  == Len(visible(h))
           to == Clamp(h.selected + delta, 0, n - 1)
<1>1. n \in Nat
  OBVIOUS
<1>2. CASE n = 0
  BY <1>2 DEF move_by
<1>3. CASE n # 0
  <2>1. to \in Nat
    BY <1>1, <1>3 DEF Clamp, InWindow
  <2> DEFINE top == IF to < h.offset THEN to
                    ELSE IF to >= h.offset + h.page THEN to + 1 - h.page ELSE h.offset
  <2> HIDE DEF n, to
  <2>2. move_by(h, delta) = [h EXCEPT !.selected = to, !.offset = top]
    BY <1>3 DEF move_by, n, to
  <2>3. top \in Nat /\ top <= to /\ to < top + h.page
    BY <2>1 DEF InWindow
  <2> HIDE DEF top
  <2> QED
    BY <2>1, <2>2, <2>3 DEF InWindow, Parts
<1> QED
  BY <1>2, <1>3

\* With fewer rows the cursor comes up, and the window with it.
LEMMA ToggledWindowed ==
  ASSUME NEW h, DOMAIN h = Parts, InWindow(h), NEW n \in Nat
  PROVE  DOMAIN toggled(h, n) = Parts /\ InWindow(toggled(h, n))
<1> DEFINE to  == IF h.selected < n THEN h.selected ELSE IF n = 0 THEN 0 ELSE n - 1
           top == IF h.offset < to THEN h.offset ELSE to
<1>1. toggled(h, n) = [h EXCEPT !.selected = to, !.offset = top]
  BY DEF toggled
<1>2. to \in Nat /\ to <= h.selected /\ top \in Nat /\ top <= to /\ to < top + h.page
  BY DEF InWindow
<1> HIDE DEF to, top
<1> QED
  BY <1>1, <1>2 DEF InWindow, Parts

\* A lower window is moved down to where the cursor is.
LEMMA ResizedWindowed ==
  ASSUME NEW h, DOMAIN h = Parts, InWindow(h), NEW page \in Nat \ {0}
  PROVE  DOMAIN Resized(h, page) = Parts /\ InWindow(Resized(h, page))
<1> DEFINE top == IF h.selected >= h.offset + page THEN h.selected + 1 - page ELSE h.offset
<1>1. Resized(h, page) = [h EXCEPT !.page = page, !.offset = top]
  BY DEF Resized
<1>2. top \in Nat /\ top <= h.selected /\ h.selected < top + page
  BY DEF InWindow
<1> HIDE DEF top
<1> QED
  BY <1>1, <1>2 DEF InWindow, Parts

LEMMA WindowedNext == WInv /\ [Next]_vars => WInv'
<1> SUFFICES ASSUME WInv, [Next]_vars PROVE WInv'
  OBVIOUS
<1>0. height \in Nat /\ (OnHistory => DOMAIN screen = Parts /\ InWindow(screen))
  BY DEF WInv, Shaped, Windowed
<1> DEFINE Right == OnHistory' => DOMAIN screen' = Parts /\ InWindow(screen')
<1>1. height' \in Nat
  BY <1>0, PageAssumption DEF Next, open_history, fetch_history, Leave, OpenOther, OnAnswer, Move,
        toggle_dust, set_viewport, vars
<1>2. CASE open_history
  <2>1. /\ DOMAIN NewHistory(screen.who) = Parts /\ NewHistory(screen.who).at = "History"
        /\ NewHistory(screen.who).selected = 0 /\ NewHistory(screen.who).offset = 0
        /\ NewHistory(screen.who).page = history_page_for(height)
    BY DEF NewHistory, Parts
  <2>2. InWindow(NewHistory(screen.who))
    BY <1>0, <2>1, PageHasRows DEF InWindow
  <2> QED
    BY <1>0, <1>2, <2>1, <2>2, FetchingWindowed DEF open_history
<1>3. CASE fetch_history
  BY <1>0, <1>3, FetchingWindowed DEF fetch_history, OnHistory
<1>4. CASE Leave \/ OpenOther
  BY <1>1, <1>4 DEF Leave, OpenOther, WInv, Shaped, Windowed, OnHistory, Assets
<1>5. CASE OnAnswer
  <2>1. \/ UNCHANGED screen
        \/ OnHistory /\ \E res : screen' = Shown(screen, res)
    BY <1>5, Zenon DEF OnAnswer, Answered
  <2>2. CASE OnHistory /\ \E res : screen' = Shown(screen, res)
    <3>1. DOMAIN screen' = Parts /\ InWindow(screen')
      BY <1>0, <2>2 DEF Shown, Parts, InWindow
    <3> QED
      BY <1>1, <3>1 DEF WInv, Shaped, Windowed
  <2> QED
    BY <1>0, <1>1, <2>1, <2>2 DEF WInv, Shaped, Windowed, OnHistory
<1>6. CASE Move
  <2>1. PICK delta \in {1, -1, screen.page, -screen.page} :
           OnHistory /\ screen' = move_by(screen, delta)
    BY <1>6 DEF Move
  <2>2. delta \in Int
    BY <1>0, <2>1 DEF InWindow
  <2> QED
    BY <1>0, <1>1, <2>1, <2>2, MovedWindowed DEF WInv, Shaped, Windowed
<1>7. CASE toggle_dust
  <2> DEFINE h == [screen EXCEPT !.show_dust = ~@]
             n == Len(visible(h))
  <2>1. OnHistory /\ screen' = toggled(h, n)
    BY <1>7 DEF toggle_dust
  <2>2. DOMAIN h = Parts /\ InWindow(h)
    BY <1>0, <2>1 DEF Parts, InWindow
  <2>3. n \in Nat
    OBVIOUS
  <2> HIDE DEF h, n
  <2> QED
    BY <1>1, <2>1, <2>2, <2>3, ToggledWindowed DEF WInv, Shaped, Windowed
<1>8. CASE set_viewport
  <2>1. screen' = IF OnHistory THEN Resized(screen, history_page_for(height')) ELSE screen
    BY <1>8 DEF set_viewport
  <2> QED
    BY <1>0, <1>1, <2>1, PageHasRows, ResizedWindowed DEF WInv, Shaped, Windowed, OnHistory
<1>9. CASE UNCHANGED vars
  BY <1>0, <1>9 DEF vars, WInv, Shaped, Windowed, OnHistory
<1> QED
  BY <1>2, <1>3, <1>4, <1>5, <1>6, <1>7, <1>8, <1>9 DEF Next

\* The cursor never leaves the window, whatever is pressed, shown or resized, for any
\* number of rows and any terminal.
THEOREM CursorIsOnScreen == Spec => []CursorOnScreen
<1>1. Init => WInv
  BY PageAssumption DEF Init, WInv, Shaped, Windowed, OnHistory, Assets
<1>2. WInv => CursorOnScreen
  BY DEF WInv, Windowed, InWindow, CursorOnScreen
<1> QED
  BY <1>1, <1>2, WindowedNext, PTL DEF Spec
=============================================================================
