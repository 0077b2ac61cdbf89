------------------------------- MODULE MCScreen -------------------------------
(***************************************************************************)
(* The main screen for TLC: its pending table and detail pane (PaneLoads),    *)
(* and its layout (Navigator), each with a run of its own in which the other  *)
(* stands still.                                                            *)
(***************************************************************************)
EXTENDS PaneLoads

CONSTANTS DisabledPages, SkipEmpty, NoPage

VARIABLES
  layout, thin, short, narrow, page, lastPanel, resume, leftTab, rightTab,
  focus, focusing, empty, crumb, chosen

layoutVars ==
  <<layout, thin, short, narrow, page, lastPanel, resume, leftTab, rightTab, focus, focusing,
    empty, crumb, chosen>>

N == INSTANCE Navigator

ASSUME NavigatorAssumption == N!NavigatorAssumption

-----------------------------------------------------------------------------

TwoChanges == {1, 2}
FirstRemote == {2}
AllOrLocal == {{1, 2}, {1}}

OnePage == {"history"}

-----------------------------------------------------------------------------
(* The runs.                                                               *)

\* Where the layout stands still.
Wide ==
  /\ layout = "wide" /\ thin = FALSE /\ short = FALSE /\ narrow = FALSE
  /\ page = "tree" /\ lastPanel = "pending" /\ resume = "tree"
  /\ leftTab = "depot" /\ rightTab = "pending" /\ focus = "depot" /\ focusing = <<>>
  /\ empty = {} /\ crumb = <<>> /\ chosen = NoPage

PanesStart == Init /\ Wide
PanesNext == Next /\ UNCHANGED layoutVars
PanesSpec == PanesStart /\ [][PanesNext]_<<vars, layoutVars>> /\ Fairness

\* Where the panes do.
Unloaded == Init /\ pending = Listed /\ view = Changes

LayoutStart == N!Init /\ Unloaded
LayoutNext == N!Next /\ UNCHANGED vars
LayoutSpec == LayoutStart /\ [][LayoutNext]_<<vars, layoutVars>> /\ WF_layoutVars(N!FocusArrives)

-----------------------------------------------------------------------------
(* What is checked of the layout.                                          *)

\* The page the user chose stands when the focus events have arrived, also those
\* that were asked for before (P4VApp.on_descendant_focus).
ChosenPageStands == N!ChosenPageStands

\* Page changes and focus events cause each other only so many times
\* (P4VApp._apply_pane_visibility, P4VApp.on_descendant_focus).
FocusSettles == N!FocusSettles
===============================================================================
