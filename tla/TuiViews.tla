------------------------------- MODULE TuiViews -------------------------------
(***************************************************************************)
(* The terminal UI's keys, modes and browsing tabs: App::handle_key and    *)
(* dispatch_action of aether-render/src/tui/app.rs with the modal input of *)
(* input.rs, the Overview, Network, World 3D and Rules tabs and the help   *)
(* overlay.  The two list tabs on which a human decides are TuiApp's.      *)
(*                                                                         *)
(* A key goes through a chain of interceptors, each of which may consume   *)
(* it; what is left is read by the input handler in its mode.  Rows are    *)
(* counted from 1, with 0 for no selection.  No tab has a scroll offset    *)
(* here: it starts at 0 and only ever falls.  The camera is left out: what *)
(* it has in view, nearest to the centre first, is any order of any        *)
(* processes.  n and N after a search do nothing (a TODO), so whether one  *)
(* was made is left out too.                                               *)
(***************************************************************************)
EXTENDS Naturals, FiniteSets, Sequences, TLC, SequencesExt

CONSTANTS
  Processes,            \* the processes that may run
  NoPid,                \* None
  SortKey,              \* column -> pid -> the value in the column, as it compares
  Rate,                 \* pid -> the traffic of its connection; no connection outside the domain
  Matching,             \* query -> the pids whose name or destination contains it
  RuleCount,            \* rules of the engine, listed once at the start
  Keys,                 \* the keys that the user may press
  Texts,                \* bound: what the user may have typed
  TabSets               \* bound: the sets of tabs of which a behaviour visits one

ViewTabs == {"Overview", "World3D", "Network", "Rules"}

ASSUME ViewsAssumption ==
  /\ RuleCount \in Nat /\ NoPid \notin Processes
  /\ DOMAIN Rate \subseteq Processes
  /\ <<>> \in Texts /\ Texts \subseteq DOMAIN Matching
  /\ TabSets \subseteq SUBSET ViewTabs

VARIABLES
  world,                \* the processes of the graph, in the order of their nodes
  visits,               \* the tabs that this behaviour may show
  currentTab,           \* App.current_tab
  startup,              \* App.startup: the phase of the animation
  turn,                 \* where the loop is: "draw", "key" or "stopped"
  mode, buffer,         \* InputHandler.mode and buffer
  help,                 \* HelpOverlay.visible
  sortPending,          \* App.sort_pending
  overview,             \* OverviewTab: selected_row, sort_column, sort_ascending, detail_pid
  network,              \* NetworkTab: selected_row, filter_text
  view3d,               \* World3DTab: sorted_node_pids, selected_pid, selection_index
  rulesRow,             \* RulesTab.selected_rule
  panel                 \* history: the process of which the last frame drew the info panel,
                        \* or on the Overview tab the details

input    == <<mode, buffer>>
tabs     == <<overview, network, view3d, rulesRow>>
viewVars == <<world, visits, currentTab, startup, turn, input, help, sortPending, tabs,
              panel>>

Orders == UNION {{s \in [1 .. n -> Processes] : IsInjective(s)} : n \in 0 .. Cardinality(Processes)}

ViewsInit ==
  /\ world \in Orders
  /\ visits \in TabSets
  /\ currentTab = IF "Overview" \in visits THEN "Overview" ELSE CHOOSE t \in visits : TRUE
  /\ startup = "MatrixRain" /\ turn = "draw"
  /\ mode = "Normal" /\ buffer = <<>>
  /\ help = FALSE /\ sortPending = FALSE
  /\ overview = [row |-> 0, column |-> "Cpu", ascending |-> FALSE, detail |-> NoPid]
  /\ network = [row |-> 0, filter |-> <<>>]
  /\ view3d = [order |-> <<>>, selected |-> NoPid, index |-> 0]
  /\ rulesRow = 0
  /\ panel = NoPid

WorldChanges ==
  /\ world' \in Orders
  /\ UNCHANGED <<visits, currentTab, startup, turn, input, help, sortPending, tabs, panel>>
-----------------------------------------------------------------------------
(* The frame.                                                              *)

StartupPhases == <<"MatrixRain", "TitleType", "FadeIn", "Done">>

\* A frame of the animation; a key plays the rest of it at once.
StartupFrame ==
  /\ turn = "draw" /\ startup # "Done"
  /\ \E i \in 1 .. 3 : /\ startup = StartupPhases[i]
                       /\ startup' \in {startup, StartupPhases[i + 1], "Done"}
  /\ UNCHANGED <<world, visits, currentTab, turn, input, help, sortPending, tabs, panel>>

\* Mutant: a process that is gone stays selected.
KeepSelection(v) == v

\* update_sorted_pids: a selected process that is no longer in view is not
\* selected any more.
DropSelection(v) ==
  IF v.selected \in ToSet(v.order) THEN v
  ELSE [v EXCEPT !.selected = NoPid, !.index = 0]

\* The orders that the distances to the centre may give.
InView == {l \in Orders : ToSet(l) \subseteq ToSet(world)}

\* A panel on a process that is not there is not drawn, or says that it exited.
InfoPanel(pid)   == IF pid \in ToSet(world) THEN pid ELSE NoPid
DetailPanel(pid) == IF pid \in ToSet(world) THEN pid ELSE NoPid

Draw3D ==
  /\ currentTab = "World3D"
  /\ \E order \in InView :
       view3d' = IF view3d.selected = NoPid THEN [view3d EXCEPT !.order = order]
                 ELSE DropSelection([view3d EXCEPT !.order = order])
  /\ panel' = InfoPanel(view3d'.selected)

DrawOverview ==
  /\ currentTab = "Overview"
  /\ panel' = DetailPanel(overview.detail)
  /\ UNCHANGED view3d

DrawOther == currentTab \notin {"World3D", "Overview"} /\ panel' = NoPid /\ UNCHANGED view3d

DrawView ==
  /\ turn = "draw" /\ startup = "Done" /\ turn' = "key"
  /\ Draw3D \/ DrawOverview \/ DrawOther
  /\ UNCHANGED <<world, visits, currentTab, startup, input, help, sortPending, overview,
                 network, rulesRow>>
-----------------------------------------------------------------------------
(* The rows of the tables.                                                 *)

SortColumn == "p" :> "Pid" @@ "n" :> "Name" @@ "c" :> "Cpu" @@ "m" :> "Mem"
              @@ "t" :> "State" @@ "h" :> "Hp"

\* The processes in the order of a key, largest first unless ascending; those
\* with equal keys stay in the order of the graph.
Sorted(ps, key, ascending) ==
  LET Before(i, j) == \/ IF ascending THEN key[ps[i]] < key[ps[j]]
                                      ELSE key[ps[i]] > key[ps[j]]
                      \/ key[ps[i]] = key[ps[j]] /\ i < j
      rank == SortSeq([i \in DOMAIN ps |-> i], Before)
  IN  [i \in DOMAIN ps |-> ps[rank[i]]]

\* collect_sorted_pids on the graph as it is when the key is handled.
OverviewRows == Sorted(world, SortKey[overview.column], overview.ascending)

\* collect_connection_rows: the connections that the filter lets through, the
\* busiest first.
NetworkRows ==
  LET shown == SelectSeq(world, LAMBDA p : p \in DOMAIN Rate
                                           /\ (network.filter = <<>>
                                               \/ p \in Matching[network.filter]))
  IN  Sorted(shown, Rate, FALSE)

\* move_selection_down wraps, move_selection_up does not, and neither looks
\* whether the row it leaves was still there.
Down(row, n) == IF n = 0 THEN row ELSE IF row < n THEN row + 1 ELSE 1
Up(row)      == IF row <= 1 THEN 1 ELSE row - 1
-----------------------------------------------------------------------------
(* A key: the interceptors of App::handle_key, in their order.             *)

Press(k) == turn = "key" /\ k \in Keys /\ UNCHANGED <<world, visits, startup, panel>>
Continue == turn' = "draw"

\* KeyEvent.code: the key without its modifiers, which only the input handler
\* looks at, so that Ctrl-c is a 'c' to the interceptors and to a text.
Code(k) == IF k = "Ctrl-c" THEN "c" ELSE k

\* Any key closes the help, and does nothing else.
HelpKey(k) ==
  /\ Press(k) /\ Continue
  /\ help /\ help' = FALSE
  /\ UNCHANGED <<currentTab, input, sortPending, tabs>>

\* The key after 's': a column, chosen again to turn the order round.
SortTakes(k) == sortPending /\ currentTab = "Overview" /\ Code(k) \in DOMAIN SortColumn

SortChoice(k) ==
  /\ Press(k) /\ Continue
  /\ ~help /\ SortTakes(k)
  /\ sortPending' = FALSE
  /\ overview' = LET c == SortColumn[Code(k)]
                 IN  [overview EXCEPT !.column = c,
                                      !.ascending = overview.column = c /\ ~overview.ascending]
  /\ UNCHANGED <<currentTab, input, help, network, view3d, rulesRow>>

\* A key that gets past the two: a sort that was pending is forgotten.
Passes(k) == Press(k) /\ ~help /\ ~SortTakes(k)

\* Mutant: the tabs take their keys in every mode.
TabTakesAlways(t) == currentTab = t

\* A tab sees a key before the input handler in Normal mode only.
TabTakes(t) == currentTab = t /\ mode = "Normal"

World3DKeys == {"w", "s", "a", "d", "+", "=", "-", " ", "r", "c", "Tab", "Enter", "Esc"}

World3DSelects(k) ==
  view3d' =
    CASE k = "Esc" -> [view3d EXCEPT !.selected = NoPid, !.index = 0]
      [] k = "Enter" /\ view3d.order # <<>> ->
           [view3d EXCEPT !.selected = view3d.order[1], !.index = 1]
      [] k = "Tab" /\ view3d.order # <<>> ->
           LET next == (view3d.index % Len(view3d.order)) + 1
           IN  [view3d EXCEPT !.selected = view3d.order[next], !.index = next]
      [] OTHER -> view3d

World3DKey(k) ==
  /\ Passes(k) /\ Continue
  /\ TabTakes("World3D") /\ Code(k) \in World3DKeys
  /\ World3DSelects(k)
  /\ sortPending' = FALSE
  /\ UNCHANGED <<currentTab, input, help, overview, network, rulesRow>>

World3DInspect(k) ==
  /\ Passes(k) /\ Continue
  /\ TabTakes("World3D") /\ k = "i" /\ view3d.selected # NoPid
  /\ "Overview" \in visits /\ currentTab' = "Overview"
  /\ overview' = [overview EXCEPT !.detail = view3d.selected]
  /\ sortPending' = FALSE
  /\ UNCHANGED <<input, help, network, view3d, rulesRow>>

RulesKey(k) ==
  /\ Passes(k) /\ Continue
  /\ TabTakes("Rules") /\ k \in {"j", "k"}
  /\ rulesRow' = IF k = "j" THEN Down(rulesRow, RuleCount)
                 ELSE IF rulesRow <= 1 THEN RuleCount ELSE rulesRow - 1
  /\ sortPending' = FALSE
  /\ UNCHANGED <<currentTab, input, help, overview, network, view3d>>

Intercepted(k) ==
  \/ TabTakes("World3D") /\ (Code(k) \in World3DKeys \/ (k = "i" /\ view3d.selected # NoPid))
  \/ TabTakes("Rules") /\ k \in {"j", "k"}
-----------------------------------------------------------------------------
(* What reaches the input handler.                                         *)

Handled(k) == Passes(k) /\ ~Intercepted(k)

Function == "F1" :> "Overview" @@ "F2" :> "World3D" @@ "F3" :> "Network" @@ "F5" :> "Rules"

Quit == turn' = "stopped"

NormalKey(k) ==
  /\ Handled(k) /\ mode = "Normal"
  /\ IF k \in {"q", "Ctrl-c"} THEN Quit ELSE Continue
  /\ currentTab' = IF k \in DOMAIN Function THEN Function[k] ELSE currentTab
  /\ currentTab' \in visits
  /\ mode' = CASE k = ":" -> "Command" [] k = "/" -> "Search" [] OTHER -> "Normal"
  /\ buffer' = IF k \in {":", "/"} THEN <<>> ELSE buffer
  /\ help' = (k = "?")
  /\ sortPending' = (k = "s" /\ currentTab = "Overview")
  /\ overview' =
       IF currentTab # "Overview" THEN overview
       ELSE CASE k = "j" -> [overview EXCEPT !.row = Down(@, Len(world))]
              [] k = "k" -> [overview EXCEPT !.row = Up(@)]
              [] k = "Enter" /\ overview.row \in DOMAIN OverviewRows ->
                   [overview EXCEPT !.detail = OverviewRows[overview.row]]
              [] k = "Esc" -> [overview EXCEPT !.detail = NoPid]
              [] OTHER -> overview
  /\ network' =
       IF currentTab # "Network" THEN network
       ELSE CASE k = "j" -> [network EXCEPT !.row = Down(@, Len(NetworkRows))]
              [] k = "k" -> [network EXCEPT !.row = Up(@)]
              [] OTHER -> network
  /\ UNCHANGED <<view3d, rulesRow>>

NotTyped == {"F1", "F2", "F3", "F5", "Tab"}

InText(k) == Handled(k) /\ mode # "Normal" /\ sortPending' = FALSE

\* set_filter and clear_filter, on the Network tab only.
Filter(query) ==
  network' = IF currentTab = "Network" THEN [row |-> 0, filter |-> query] ELSE network

TypeKey(k) ==
  /\ InText(k) /\ Continue
  /\ k \notin {"Enter", "Esc", "Backspace"}
  /\ buffer' = IF k \in NotTyped THEN buffer ELSE Append(buffer, Code(k))
  /\ buffer' \in Texts
  /\ UNCHANGED <<currentTab, mode, help, tabs>>

\* Esc, and Backspace once nothing is left, cancel: in either mode this clears
\* the Network tab's filter.
CancelKey(k) ==
  /\ InText(k) /\ Continue
  /\ k = "Esc" \/ (k = "Backspace" /\ Len(buffer) <= 1)
  /\ mode' = "Normal" /\ buffer' = <<>>
  /\ Filter(<<>>)
  /\ UNCHANGED <<currentTab, help, overview, view3d, rulesRow>>

EraseKey(k) ==
  /\ InText(k) /\ Continue
  /\ k = "Backspace" /\ Len(buffer) > 1
  /\ buffer' = Front(buffer) /\ buffer' \in Texts
  /\ UNCHANGED <<currentTab, mode, help, tabs>>

\* :q is the one command that does something.
EnterKey(k) ==
  /\ InText(k) /\ k = "Enter"
  /\ mode' = "Normal" /\ buffer' = <<>>
  /\ IF mode = "Search" THEN Filter(buffer) ELSE UNCHANGED network
  /\ IF mode = "Command" /\ buffer = <<"q">> THEN Quit ELSE Continue
  /\ UNCHANGED <<currentTab, help, overview, view3d, rulesRow>>

NoKeyPress ==
  /\ turn = "key" /\ Continue
  /\ UNCHANGED <<world, visits, currentTab, startup, input, help, sortPending, tabs, panel>>

KeyPress ==
  \/ NoKeyPress
  \/ \E k \in Keys :
       \/ HelpKey(k) \/ SortChoice(k) \/ World3DKey(k) \/ World3DInspect(k)
       \/ RulesKey(k) \/ NormalKey(k)
       \/ TypeKey(k) \/ CancelKey(k) \/ EraseKey(k) \/ EnterKey(k)

ViewsNext == WorldChanges \/ StartupFrame \/ DrawView \/ KeyPress

ViewsSpec == ViewsInit /\ [][ViewsNext]_viewVars
-----------------------------------------------------------------------------
\* As long as a text mode stays open a key edits the text and nothing else,
\* whatever it means to the tab behind; and at most one of the help, the sort
\* choice and a text mode waits for the next key.
EditsTextOnly ==
  /\ turn = "key" /\ mode # "Normal" /\ mode' = mode
       => UNCHANGED <<currentTab, help, sortPending, tabs>>
  /\ ~(help' /\ sortPending')
  /\ help' \/ sortPending' => mode' = "Normal"

TextStaysText == [][EditsTextOnly]_viewVars

\* 'i' in the 3D view opens the details of the process that the last frame
\* showed as selected, however processes come, go and move in the meantime.
OpensWhatIsDrawn ==
  currentTab = "World3D" /\ currentTab' = "Overview" /\ overview' # overview
    => panel # NoPid /\ overview'.detail = panel

InspectsWhatIsDrawn == [][OpensWhatIsDrawn]_viewVars
=============================================================================
