------------------------------ MODULE Navigator ------------------------------
(***************************************************************************)
(* The layout of the main screen: the wide layout, where every pane is shown,*)
(* and the navigator of p4v_tui/narrow_nav.py, which shows one page of a      *)
(* narrow terminal at a time.  The page, the tab of each side and the focused *)
(* widget are three pieces of state that follow each other: a page change     *)
(* activates a tab and asks for the focus, and the focus event that arrives   *)
(* later changes the page and the tab (P4VApp.on_descendant_focus).           *)
(***************************************************************************)
EXTENDS Integers, Sequences, FiniteSets

CONSTANTS
  DisabledPages,  \* the pages taken out of the cycle by the configuration
  SkipEmpty,      \* pages whose table has no rows are left out too
  NoPage          \* no page was chosen yet

NARROW_PAGES == <<"tree", "pending", "history", "submitted", "log">>
PANEL_PAGES  == {"pending", "history", "submitted"}
ALWAYS_ON_PAGES == {"tree", "log"}
LAYOUT_MODES == <<"auto", "narrow", "wide">>
Pages == PANEL_PAGES \cup ALWAYS_ON_PAGES

\* A tree is named after its tab, a table after its tab and page; "headers" are
\* the tab bars, which take the focus when they are clicked.
Trees   == {"depot", "workspace"}
Widgets == Trees \cup PANEL_PAGES \cup {"log"}

\* Of the constants.
NavigatorAssumption ==
  DisabledPages \subseteq PANEL_PAGES /\ SkipEmpty \in BOOLEAN /\ NoPage \notin Pages

VARIABLES
  layout,     \* the pin of the layout
  thin,       \* the terminal is narrower than the threshold
  short,      \* the terminal is lower than the threshold
  narrow,     \* narrow_mode
  page,       \* narrow_page
  lastPanel,  \* the page F3 goes back to
  resume,     \* the page the wide layout interrupted
  leftTab, rightTab,
  focus,      \* the focused widget
  focusing,   \* the focus() calls that have not arrived
  empty,      \* the tables without rows
  crumb,      \* the pages drawn in the breadcrumb
  chosen      \* history: the page the user chose last

window == <<layout, thin, short, narrow>>
tabs   == <<leftTab, rightTab>>
vars   == <<window, page, lastPanel, resume, tabs, focus, focusing, empty, crumb, chosen>>

-----------------------------------------------------------------------------
(* narrow_nav: the decisions.                                              *)

Elements(s) == {s[i] : i \in DOMAIN s}
IndexOf(e, s) == CHOOSE i \in DOMAIN s : s[i] = e

EffectivePages(drop) ==
  LET Kept(p) == IF p \in drop \ ALWAYS_ON_PAGES THEN <<>> ELSE <<p>>
  IN Kept("tree") \o Kept("pending") \o Kept("history") \o Kept("submitted") \o Kept("log")

\* A page that is not in the cycle any more counts as the first.
Resolved(p, s) == IF p \in Elements(s) THEN p ELSE s[1]

CyclePage(p, delta, s) ==
  s[((IndexOf(Resolved(p, s), s) - 1 + delta) % Len(s)) + 1]

ToggleTarget(p, last, s) ==
  IF Resolved(p, s) # "tree" THEN "tree"
  ELSE IF last # "tree" /\ last \in Elements(s) THEN last
  ELSE IF "pending" \in Elements(s) THEN "pending"
  ELSE s[2]

ResolveNarrow(m, t) == m = "narrow" \/ (m = "auto" /\ t)

NextLayout(m) == LAYOUT_MODES[(IndexOf(m, LAYOUT_MODES) % 3) + 1]

-----------------------------------------------------------------------------
(* What is shown.                                                          *)

Cycle == EffectivePages(DisabledPages \cup (IF SkipEmpty THEN empty ELSE {}))

\* The chips of the breadcrumb are the cycle at the time they are drawn.
Breadcrumb == Cycle

\* The widgets on screen.
ShownWidgets ==
  IF narrow
  THEN CASE page = "tree" -> {leftTab, "headers"}
         [] page = "log"  -> {"log"}
         [] OTHER         -> {rightTab, "headers"}
  ELSE {leftTab, rightTab, "headers"} \cup (IF short THEN {} ELSE {"log"})

PaneOfOldTab(p) == CASE p = "tree" -> leftTab [] p = "log" -> "log" [] OTHER -> rightTab

\* The widget a page gives the focus to.
PaneOf(p) == IF p = "tree" THEN leftTab ELSE p

PageOf(w) == IF w \in Trees THEN "tree" ELSE w

Quiet == focusing = <<>>

\* The page is assigned and its watchers run: the panes are shown and hidden,
\* the tab of a table is activated, the breadcrumb is drawn, and the focus is
\* asked for after the requests q.
Land(p, q) ==
  /\ page' = p
  /\ lastPanel' = IF p # "tree" THEN p ELSE lastPanel
  /\ rightTab' = IF p \in PANEL_PAGES THEN p ELSE rightTab
  /\ focusing' = Append(q, PaneOf(p))
  /\ crumb' = Breadcrumb

\* Assigning the value a reactive already has wakes no watcher.
Flip(p, q) ==
  IF p # page THEN Land(p, q)
  ELSE focusing' = q /\ UNCHANGED <<page, lastPanel, rightTab, crumb>>

-----------------------------------------------------------------------------
(* Focus.                                                                  *)

\* The page follows the focused widget, and then the tab that holds it is
\* activated; the log panel is in neither side of the screen.
DescendantFocus(w, q) ==
  IF ~narrow \/ w \notin Trees \cup PANEL_PAGES
  THEN focusing' = q /\ UNCHANGED <<page, lastPanel, tabs, crumb>>
  ELSE IF w \in Trees
  THEN Flip("tree", q) /\ leftTab' = w
  ELSE /\ leftTab' = leftTab
       /\ IF page # w THEN Land(w, q)
          ELSE /\ rightTab' = w /\ focusing' = q
               /\ UNCHANGED <<page, lastPanel, crumb>>

FocusArrives ==
  /\ ~Quiet
  /\ focus' = Head(focusing)
  /\ IF focus' = focus
     THEN focusing' = Tail(focusing) /\ UNCHANGED <<page, lastPanel, tabs, crumb>>
     ELSE DescendantFocus(focus', Tail(focusing))
  /\ UNCHANGED <<window, resume, empty, chosen>>

\* A focused widget that is hidden loses the focus to one that is shown.
FocusLost ==
  /\ focus \notin ShownWidgets
  /\ focus' \in ShownWidgets
  /\ DescendantFocus(focus', focusing)
  /\ UNCHANGED <<window, resume, empty, chosen>>

-----------------------------------------------------------------------------
(* Keys and clicks.  The user presses the next one when the screen has       *)
(* settled.                                                                *)

Choose(p) ==
  /\ Quiet /\ narrow
  /\ Flip(p, <<>>) /\ chosen' = IF p # page THEN p ELSE chosen
  /\ UNCHANGED <<window, resume, leftTab, focus, empty>>

\* Tab, Shift+Tab and the Ctrl+arrows.
StepPage(delta) == Choose(CyclePage(page, delta, Cycle))

\* A digit outside the cycle does nothing.
Digit(n) == n \in DOMAIN Cycle /\ Choose(Cycle[n])

TogglePanels == Choose(ToggleTarget(page, lastPanel, Cycle))

Back == page # "tree" /\ Choose("tree")

Click(w) ==
  /\ Quiet /\ w \in ShownWidgets \ {"headers"}
  /\ focusing' = <<w>>
  /\ chosen' = IF narrow /\ w # "log" THEN PageOf(w) ELSE chosen
  /\ UNCHANGED <<window, page, lastPanel, resume, tabs, focus, empty, crumb>>

\* A click on a tab changes the tab and not the page.
ClickHeader ==
  /\ Quiet /\ "headers" \in ShownWidgets
  /\ focus' = "headers"
  /\ \/ (~narrow \/ page = "tree") /\ leftTab' \in Trees /\ UNCHANGED rightTab
     \/ (~narrow \/ page # "tree") /\ rightTab' \in PANEL_PAGES /\ UNCHANGED leftTab
  /\ UNCHANGED <<window, page, lastPanel, resume, focusing, empty, crumb, chosen>>

\* A tab is activated without a focus() call: if that hides the focused widget
\* the focus goes to the tab bar.
Unhidden(old, new) == focus' = IF focus = old /\ new # old THEN "headers" ELSE focus

\* Going to a row of a table, from a menu or the search dialog: the tab is
\* activated, and where the row is found its table is focused.
FocusRow(t) ==
  /\ Quiet
  /\ rightTab' = t
  /\ \/ /\ t \notin empty
        /\ focusing' = <<t>> /\ chosen' = IF narrow THEN t ELSE chosen
        /\ UNCHANGED focus
     \/ Unhidden(rightTab, t) /\ UNCHANGED <<focusing, chosen>>
  /\ UNCHANGED <<window, page, lastPanel, resume, leftTab, empty, crumb>>

\* Going to a path of a tree; the tree is not focused.
NavigateTree ==
  /\ Quiet
  /\ leftTab' \in Trees /\ Unhidden(leftTab, leftTab')
  /\ UNCHANGED <<window, page, lastPanel, resume, rightTab, focusing, empty, crumb, chosen>>

\* The wide layout: the next tab of the right side, the tree, table and log in
\* turn, and the right pane by F3.
WideTab(delta) ==
  LET tables == SubSeq(NARROW_PAGES, 2, 4) IN
  /\ Quiet /\ ~narrow
  /\ rightTab' = tables[((IndexOf(rightTab, tables) - 1 + delta) % 3) + 1]
  /\ focusing' = <<rightTab'>>
  /\ UNCHANGED <<window, page, lastPanel, resume, leftTab, focus, empty, crumb, chosen>>

FocusChain == <<leftTab, rightTab>> \o (IF short THEN <<>> ELSE <<"log">>)

WideFocus ==
  /\ Quiet /\ ~narrow
  /\ \E delta \in {-1, 1} :
       LET i == IF focus \in Elements(FocusChain) THEN IndexOf(focus, FocusChain) - 1 ELSE -1
       IN focusing' = <<FocusChain[((i + delta) % Len(FocusChain)) + 1]>>
  /\ UNCHANGED <<window, page, lastPanel, resume, tabs, focus, empty, crumb, chosen>>

WidePanels ==
  /\ Quiet /\ ~narrow
  /\ focusing' = <<rightTab>>
  /\ UNCHANGED <<window, page, lastPanel, resume, tabs, focus, empty, crumb, chosen>>

-----------------------------------------------------------------------------
(* The terminal and the tables.                                            *)

RelayoutForgetful(m, t) ==
  /\ narrow' = ResolveNarrow(m, t)
  /\ IF narrow' = narrow
     THEN UNCHANGED <<page, lastPanel, resume, rightTab, focusing, crumb>>
     ELSE IF narrow'
     THEN Land(resume, focusing) /\ UNCHANGED resume
     ELSE /\ resume' = "tree" /\ page' = "tree"
          /\ UNCHANGED <<lastPanel, rightTab, focusing, crumb>>
  /\ UNCHANGED <<leftTab, focus, empty, chosen>>

\* narrow_mode is computed again; where it changes its watcher restores the page
\* that was left, or remembers it and goes to the tree, which asks for no focus
\* in the wide layout.
Relayout(m, t) ==
  /\ narrow' = ResolveNarrow(m, t)
  /\ IF narrow' = narrow
     THEN UNCHANGED <<page, lastPanel, resume, rightTab, focusing, crumb>>
     ELSE IF narrow'
     THEN Land(resume, focusing) /\ UNCHANGED resume
     ELSE /\ resume' = page /\ page' = "tree"
          /\ UNCHANGED <<lastPanel, rightTab, focusing, crumb>>
  /\ UNCHANGED <<leftTab, focus, empty, chosen>>

Resize ==
  /\ Quiet
  /\ thin' \in BOOLEAN /\ short' \in BOOLEAN
  /\ Relayout(layout, thin') /\ UNCHANGED layout

CycleLayout ==
  /\ Quiet
  /\ layout' = NextLayout(layout)
  /\ Relayout(layout', thin) /\ UNCHANGED <<thin, short>>

\* A load ends; the breadcrumb is not drawn again.
Load(t) ==
  /\ empty' \in {empty \cup {t}, empty \ {t}}
  /\ UNCHANGED <<window, page, lastPanel, resume, tabs, focus, focusing, crumb, chosen>>

-----------------------------------------------------------------------------

\* The first layout is followed by the tabs and the focus of the last session.
Init ==
  /\ layout \in Elements(LAYOUT_MODES)
  /\ thin \in BOOLEAN /\ short \in BOOLEAN
  /\ narrow = ResolveNarrow(layout, thin)
  /\ page = "tree" /\ lastPanel = "pending" /\ resume = "tree"
  /\ leftTab \in Trees /\ rightTab \in PANEL_PAGES
  /\ focus = "headers"
  /\ \E w \in Widgets : focusing = IF narrow THEN <<"depot", w>> ELSE <<w>>
  /\ empty = PANEL_PAGES
  /\ crumb = Breadcrumb
  /\ chosen = NoPage

Key ==
  \/ \E d \in {-1, 1} : StepPage(d) \/ WideTab(d)
  \/ \E n \in 1..9 : Digit(n)
  \/ TogglePanels \/ Back \/ WidePanels \/ WideFocus
  \/ NavigateTree \/ ClickHeader
  \/ \E w \in Widgets : Click(w)
  \/ \E t \in PANEL_PAGES : FocusRow(t)

Next ==
  \/ Key \/ FocusArrives \/ FocusLost \/ Resize \/ CycleLayout
  \/ \E t \in PANEL_PAGES : Load(t)

\* The message queue of the screen is served.
Spec == Init /\ [][Next]_vars /\ WF_vars(FocusArrives)

-----------------------------------------------------------------------------

\* The types.
TypeOK ==
  /\ layout \in {"auto", "narrow", "wide"}
  /\ thin \in BOOLEAN /\ short \in BOOLEAN /\ narrow \in BOOLEAN
  /\ page \in Pages /\ lastPanel \in Pages \ {"tree"} /\ resume \in Pages
  /\ leftTab \in Trees /\ rightTab \in PANEL_PAGES
  /\ focus \in Widgets \cup {"headers"} /\ focusing \in Seq(Widgets)
  /\ empty \subseteq PANEL_PAGES /\ crumb \in Seq(Pages)
  /\ chosen \in Pages \cup {NoPage}

\* The page the user chose is the page that is shown once the focus events have
\* arrived, and the keys go to a widget on it, also after the terminal was wide for
\* a while: no late focus event of an older page undoes the navigation
\* (P4VApp.on_descendant_focus, P4VApp._apply_pane_visibility).
ChosenPageStands ==
  narrow /\ Quiet /\ chosen # NoPage => page = chosen /\ focus \in ShownWidgets

\* Focus events and page changes, each of which may cause the other, come to rest.
FocusSettles == ~Quiet ~> Quiet
==============================================================================
