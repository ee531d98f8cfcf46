-------------------------------- MODULE TuiApp --------------------------------
(***************************************************************************)
(* The terminal UI where a human acts on findings and on agent actions:    *)
(* the event loop of aether-render/src/tui/app.rs with the Diagnostics tab *)
(* (tui/diagnostics.rs) and the Arbiter tab with its own queue             *)
(* (tui/arbiter.rs).  One turn of the loop samples the diagnostics that    *)
(* the rest of the program shares with it (about once a second, so not in  *)
(* every turn), draws a frame and handles at most one key.                 *)
(*                                                                         *)
(* A diagnostic is its id.  An entry of the tab's queue is numbered in the *)
(* order of submission.  Lists are drawn from their indexes, so a          *)
(* selection is an index, counted from 1 here, with 0 for none.  The tab   *)
(* "Overview" stands for the four tabs that have neither list.             *)
(***************************************************************************)
EXTENDS Naturals, FiniteSets, Sequences, SequencesExt

CONSTANTS
  Diags,                \* the ids of the diagnostics
  Executable,           \* those whose recommendation converts to an action
  HistoryCapacity,      \* HISTORY_CAPACITY: resolved entries that are kept
  VisibleRows,          \* the rows of the terminal that a list is drawn in
  MaxEntries            \* bound: submissions to the tab's queue

ASSUME TuiAssumption ==
  /\ Executable \subseteq Diags
  /\ {HistoryCapacity, VisibleRows, MaxEntries} \subseteq Nat

VARIABLES
  source,               \* the shared diagnostics vector: written by others
  diagnostics,          \* App.diagnostics: the last sample of source
  diagSelected,         \* DiagnosticsTab.selected
  diagScroll,           \* DiagnosticsTab.scroll_offset: the rows above the first one drawn
  entries,              \* the tab's ArbiterQueue.entries
  arbSelected,          \* ArbiterTab.selected_action
  tab,                  \* App.current_tab
  pc,                   \* where the loop is: "sample", "draw" or "key"
  frame,                \* history: the selections of the last frame and the rows drawn
  submissions,          \* history: how many entries were submitted
  decisions             \* history: the entries decided, in order, with verdict

vars == <<source, diagnostics, diagSelected, diagScroll, entries, arbSelected, tab, pc,
          frame, submissions, decisions>>

Tabs == {"Overview", "Diagnostics", "Arbiter"}

Entry == [num : 1 .. MaxEntries, diag : Diags,
          status : {"Pending", "Approved", "Denied"}]

\* A change of the shared vector: any diagnostics, in any order, without
\* repetition, for upserts, dismissals and the eviction's sort may all happen
\* between two samples.
Lists == UNION {{s \in [1 .. n -> Diags] : IsInjective(s)} : n \in 0 .. Cardinality(Diags)}

\* Iterator::filter and Vec::retain: the elements at the indexes I, in their order.
Filtered(es, I) ==
  [k \in 1 .. Cardinality(I) |-> es[CHOOSE i \in I : Cardinality({j \in I : j <= i}) = k]]

Pending(es)  == Filtered(es, {i \in DOMAIN es : es[i].status = "Pending"})
Resolved(es) == Filtered(es, {i \in DOMAIN es : es[i].status # "Pending"})

Init ==
  /\ source = <<>> /\ diagnostics = <<>>
  /\ diagSelected = 1 /\ diagScroll = 0
  /\ entries = <<>> /\ arbSelected = 0
  /\ tab = "Overview"
  /\ pc = "sample"
  /\ frame = [diag |-> {}, entry |-> {}, rows |-> {}]
  /\ submissions = 0 /\ decisions = <<>>
-----------------------------------------------------------------------------
(* The turn of the loop.                                                   *)

SourceChanges ==
  /\ source' \in Lists
  /\ UNCHANGED <<diagnostics, diagSelected, diagScroll, entries, arbSelected, tab, pc,
                 frame, submissions, decisions>>

Sample ==
  /\ pc = "sample" /\ pc' = "draw"
  /\ diagnostics' \in {source, diagnostics}
  /\ UNCHANGED <<source, diagSelected, diagScroll, entries, arbSelected, tab,
                 frame, submissions, decisions>>

\* What a tab shows as selected: the element at the selected index, when there
\* is one.
RowAt(s, i) == IF i \in DOMAIN s THEN {s[i]} ELSE {}

\* The rows of a list that fit the terminal, after the offset.  The list of
\* pending actions is a paragraph that does not scroll.
Window(s, offset) == {s[i] : i \in DOMAIN s \cap (offset + 1 .. offset + VisibleRows)}

DiagnosticsFrame ==
  [diag |-> RowAt(diagnostics, diagSelected), entry |-> {},
   rows |-> Window(diagnostics, diagScroll)]

ArbiterFrame ==
  [diag |-> {},
   entry |-> {e.num : e \in RowAt(Pending(entries), arbSelected)},
   rows |-> {e.num : e \in Window(Pending(entries), 0)}]

Draw ==
  /\ pc = "draw" /\ pc' = "key"
  /\ frame' = CASE tab = "Diagnostics" -> DiagnosticsFrame
                [] tab = "Arbiter"     -> ArbiterFrame
                [] OTHER               -> [diag |-> {}, entry |-> {}, rows |-> {}]
  /\ UNCHANGED <<source, diagnostics, diagSelected, diagScroll, entries, arbSelected, tab,
                 submissions, decisions>>

Key == pc = "key" /\ pc' = "sample" /\ UNCHANGED <<source, diagnostics, frame>>

\* No key within the tick, or one that neither tab acts on.
NoKey ==
  /\ Key
  /\ UNCHANGED <<diagSelected, diagScroll, entries, arbSelected, tab, submissions, decisions>>

SwitchTab ==
  /\ Key
  /\ tab' \in Tabs \ {tab}
  /\ UNCHANGED <<diagSelected, diagScroll, entries, arbSelected, submissions, decisions>>

\* The rows after and before row i of a list of n > 0 rows, wrapping round; a
\* row beyond the end wraps as the last one does going down.
RowDown(i, n) == IF i < n THEN i + 1 ELSE 1
RowUp(i, n)   == IF i <= 1 THEN n ELSE i - 1

\* adjust_scroll: the offset follows the selection upwards.
ScrollAfter(i) == IF i <= diagScroll THEN i - 1 ELSE diagScroll

DiagMove ==
  /\ Key /\ tab = "Diagnostics"
  /\ diagnostics # <<>>
  /\ diagSelected' \in {RowDown(diagSelected, Len(diagnostics)),
                        RowUp(diagSelected, Len(diagnostics))}
  /\ diagScroll' = ScrollAfter(diagSelected')
  /\ UNCHANGED <<entries, arbSelected, tab, submissions, decisions>>

\* The tab's ArbiterQueue::submit.
Submit(d) == Append(entries, [num |-> submissions + 1, diag |-> d, status |-> "Pending"])

\* Mutant: the row is looked up in the shared vector and not in the sample.
DiagExecuteShared ==
  /\ Key /\ tab = "Diagnostics"
  /\ submissions < MaxEntries
  /\ \E d \in RowAt(source, diagSelected) \cap Executable :
       entries' = Submit(d)
  /\ submissions' = submissions + 1
  /\ UNCHANGED <<diagSelected, diagScroll, arbSelected, tab, decisions>>

\* Enter on a diagnostic: look the selected row's id up in the sample and
\* submit its action to the tab's own queue.
DiagExecute ==
  /\ Key /\ tab = "Diagnostics"
  /\ submissions < MaxEntries
  /\ \E d \in RowAt(diagnostics, diagSelected) \cap Executable :
       entries' = Submit(d)
  /\ submissions' = submissions + 1
  /\ UNCHANGED <<diagSelected, diagScroll, arbSelected, tab, decisions>>

\* 'd' on a diagnostic: the tab answers Dismiss(id), and the event loop, which
\* looks for Execute only, drops the answer: the diagnostic stays.
DiagDismiss ==
  /\ Key /\ tab = "Diagnostics"
  /\ diagSelected \in DOMAIN diagnostics
  /\ UNCHANGED <<diagSelected, diagScroll, entries, arbSelected, tab, submissions, decisions>>

ArbMove ==
  /\ Key /\ tab = "Arbiter"
  /\ LET n == Len(Pending(entries))
     IN  /\ n > 0
         /\ arbSelected' \in {RowDown(arbSelected, n), RowUp(arbSelected, n)}
  /\ UNCHANGED <<diagSelected, diagScroll, entries, tab, submissions, decisions>>

\* 'i' on a pending action that names a process: show the process instead.
ArbInspect ==
  /\ Key /\ tab = "Arbiter"
  /\ RowAt(Pending(entries), arbSelected) # {}
  /\ tab' = "Overview"
  /\ UNCHANGED <<diagSelected, diagScroll, entries, arbSelected, submissions, decisions>>

\* Mutant: what stands before the first entry to be kept goes, pending or not.
TrimFront(es) ==
  LET excess == Len(Resolved(es)) - HistoryCapacity
  IN  Filtered(es, {i \in DOMAIN es : Len(Resolved(SubSeq(es, 1, i))) > excess})

\* trim_history: drop the excess of resolved entries from the front of the
\* vector, whatever stands between them.
TrimHistory(es) ==
  LET excess == Len(Resolved(es)) - HistoryCapacity
      Old(i) == /\ es[i].status # "Pending"
                /\ Len(Resolved(SubSeq(es, 1, i))) <= excess
  IN  Filtered(es, {i \in DOMAIN es : ~Old(i)})

\* clamp_selection on a queue with n pending entries.
Clamp(i, n) == IF i <= n THEN i ELSE n

\* approve and deny of the tab's queue on the entry at index i.
Judged(i, verdict) == TrimHistory([entries EXCEPT ![i].status = verdict])

\* 'y' or 'n' on the selected pending entry: mark it, trim the history and
\* pull the selection back into the list.
Decide(verdict) ==
  /\ Key /\ tab = "Arbiter"
  /\ arbSelected # 0
  /\ \E i \in DOMAIN entries :
       /\ entries[i].status = "Pending"
       /\ Len(Pending(SubSeq(entries, 1, i))) = arbSelected
       /\ entries' = Judged(i, verdict)
       /\ decisions' = Append(decisions, [num |-> entries[i].num, verdict |-> verdict])
  /\ arbSelected' = Clamp(arbSelected, Len(Pending(entries')))
  /\ UNCHANGED <<diagSelected, diagScroll, tab, submissions>>

KeyTurn ==
  \/ NoKey \/ SwitchTab \/ DiagMove \/ DiagExecute \/ DiagDismiss \/ ArbMove
  \/ ArbInspect
  \/ \E v \in {"Approved", "Denied"} : Decide(v)

Next == SourceChanges \/ Sample \/ Draw \/ KeyTurn

Spec == Init /\ [][Next]_vars
-----------------------------------------------------------------------------
\* Trimming the history never takes an undecided action away, keeps at most
\* HISTORY_CAPACITY decided ones, and the verdict an entry shows is the one
\* that was given to it.
HistoryTrimmedSafely ==
  /\ Len(Resolved(entries)) <= HistoryCapacity
  /\ {e.num : e \in ToSet(Pending(entries))}
       = (1 .. submissions) \ {d.num : d \in ToSet(decisions)}
  /\ \A e \in ToSet(Resolved(entries)) :
       \E d \in ToSet(decisions) : d.num = e.num /\ d.verdict = e.status

\* A key acts on what the last frame had as its selection: Enter submits the
\* diagnostic that the detail panel described and y/n decides the action that
\* was selected then, however the shared vector changes meanwhile.
KeyActsOnFrame ==
  [][/\ submissions' # submissions => Last(entries').diag \in frame.diag
     /\ decisions' # decisions => Last(decisions').num \in frame.entry]_vars
=============================================================================
