-------------------------------- MODULE Scene --------------------------------
(***************************************************************************)
(* The 3D view of the process graph (aether-render/src/engine and          *)
(* effects.rs): the layout that gives every process a place, the effect of *)
(* a process that dies, the camera, and the frame: edges, processes and    *)
(* dying processes painted into a z-buffer.                                *)
(*                                                                         *)
(* The screen is one row of dots, two in a cell.  A place has an x, which  *)
(* becomes a column, and a z, which becomes a depth; the camera looks      *)
(* along z, and its angles, which only turn the places, are left out, as   *)
(* are shading and the swelling of a busy process.  The forces of the      *)
(* layout move a process by any amount up to the temperature, which in the *)
(* end is too small to move anything by a dot.                             *)
(***************************************************************************)
EXTENDS Integers, FiniteSets, Sequences, SequencesExt, Functions

CONSTANTS
  Worlds,               \* graphs: pid -> [parent, zombie, hp, to], to the dots on each edge
  Places,               \* bound: where processes may be laid out, <<x, z>>
  Origin,               \* where one without a parent is put
  Predicted,            \* the processes with a predicted anomaly
  Lasts,                \* the 500 ms of a death, in units of the clock
  Grain,                \* column -> the age at which a dying process loses the dot there
  NearLimit, FarLimit,  \* of the distance of the camera, 1.0 and 50.0
  Phases,               \* bound: sixths of an edge that its dots may have covered
  Widths,               \* of the area, in cells
  MaxClock              \* bound

ASSUME SceneAssumption ==
  /\ Origin \in Int \X Int /\ Places \subseteq Int \X Int
  /\ {NearLimit, FarLimit} \subseteq Int /\ Phases \subseteq Int
  /\ Widths \subseteq Nat /\ Lasts \in Nat \ {0}
  /\ \A world \in Worlds :
       /\ IsFiniteSet(DOMAIN world)
       /\ \A p \in DOMAIN world :
            IsFiniteSet(DOMAIN world[p].to) /\ world[p].to \in [DOMAIN world[p].to -> Nat]

VARIABLES
  graph,
  layout,               \* ForceLayout.positions
  temperature,
  ghosts,               \* DeathEffect.dying_nodes: pid -> [place, since]
  clock,
  camera,               \* [centre, distance]
  canvas,               \* BrailleCanvas and ZBuffer: dot -> [pid, colour, depth]
  exits                 \* history: those found gone: [pid, place, at, again]

sceneVars == <<graph, layout, temperature, ghosts, clock, camera, canvas, exits>>

\* Behind everything.
Blank == [pid |-> 0, colour |-> "none", depth |-> 0]
Empty == [p \in {} |-> 0]
DefaultCamera == [centre |-> Origin, distance |-> NearLimit + 1]

Columns(width) == 0 .. 2 * width - 1

SceneInit ==
  /\ graph \in Worlds
  /\ layout = Empty /\ temperature = 2
  /\ ghosts = Empty /\ clock = 0
  /\ camera = DefaultCamera
  /\ canvas = [x \in Columns(1) |-> Blank]
  /\ exits = {}

GraphChanges ==
  /\ graph' \in Worlds
  /\ UNCHANGED <<layout, temperature, ghosts, clock, camera, canvas, exits>>

\* Between two frames, or while another tab is shown.
TimePasses ==
  /\ clock < MaxClock /\ clock' = clock + 1
  /\ UNCHANGED <<graph, layout, temperature, ghosts, camera, canvas, exits>>
-----------------------------------------------------------------------------
(* The layout.                                                             *)

\* A new process is put next to its parent, by an offset smaller than a dot.
PlaceNext(places, new) ==
  LET parent == graph[new].parent
      place == IF parent \in DOMAIN places THEN places[parent] ELSE Origin
  IN  [p \in DOMAIN places \cup {new} |-> IF p = new THEN place ELSE places[p]]

PlaceAll(places, new) ==
  LET placed[k \in 0 .. Len(new)] ==
        IF k = 0 THEN places ELSE PlaceNext(placed[k - 1], new[k])
  IN  placed[Len(new)]

\* sync_with_graph: the dead are removed, the others placed in the order of
\* the graph.
SyncWithGraph(places) ==
  {PlaceAll(Restrict(places, DOMAIN places \cap DOMAIN graph), new) :
     new \in SetToSeqs(DOMAIN graph \ DOMAIN places)}

Apart(a, b) == IF a < b THEN b - a ELSE a - b

\* step: with one process nothing moves and nothing cools down.
LayoutStep(places) ==
  IF Cardinality(DOMAIN places) < 2 THEN {places}
  ELSE {moved \in [DOMAIN places -> Places] :
          \A p \in DOMAIN places :
            Apart(places[p][1], moved[p][1]) + Apart(places[p][2], moved[p][2]) <= temperature}

Cooler == IF Cardinality(DOMAIN graph) < 2 THEN temperature ELSE temperature \div 2
-----------------------------------------------------------------------------
(* The dying.                                                              *)

\* Mutant: looked for after the layout was brought up to date.
NobodyDied(dead) == ghosts

\* mark_dying keeps the first death of a pid.
MarkDying(dead) ==
  [p \in DOMAIN ghosts \cup dead |->
     IF p \in DOMAIN ghosts THEN ghosts[p] ELSE [place |-> layout[p], since |-> clock]]

\* detect_deaths, then the effects that are over are removed.
Dying ==
  LET marked == MarkDying(DOMAIN layout \ DOMAIN graph)
  IN  Restrict(marked, {p \in DOMAIN marked : clock - marked[p].since < Lasts})

Found ==
  {[pid |-> p, place |-> layout[p], at |-> clock, again |-> p \in DOMAIN ghosts] :
     p \in DOMAIN layout \ DOMAIN graph}
-----------------------------------------------------------------------------
(* Painting.                                                               *)

Depth(place) == place[2] - camera.centre[2] + camera.distance
InFront(place) == Depth(place) > 0
Column(place, width) == width + (2 * (place[1] - camera.centre[1])) \div Depth(place)

\* Near processes are larger.
Radius(depth) == IF depth <= 2 THEN 2 ELSE 1

Disc(p, colour, place, radius, width) ==
  LET centre == Column(place, width)
  IN  [pid |-> p, colour |-> colour,
       depth |-> [c \in centre - radius .. centre + radius |-> Depth(place)]]

ColourForHp(hp) == IF hp > 50 THEN "healthy" ELSE IF hp > 20 THEN "warning" ELSE "critical"

\* A zombie is drawn in every other half second (lit).  The outline of a
\* prediction and the bloom of a critical process are larger discs under it.
NodeShapes(p, places, lit, width) ==
  LET place == places[p]
      radius == Radius(Depth(place))
  IN  IF ~InFront(place) \/ (graph[p].zombie /\ ~lit) THEN <<>>
      ELSE (IF p \in Predicted THEN <<Disc(p, "prediction", place, radius + 1, width)>> ELSE <<>>)
        \o (IF graph[p].hp < 20 THEN <<Disc(p, "bloom", place, radius + 1, width)>> ELSE <<>>)
        \o <<Disc(p, ColourForHp(graph[p].hp), place, radius, width)>>

Lesser(a, b) == IF a < b THEN a ELSE b
Greater(a, b) == IF a < b THEN b ELSE a

\* draw_line: the depth runs from the one end's to the other's.
Line(p, q, places, width) ==
  LET from == Column(places[p], width)
      to == Column(places[q], width)
      steps == Greater(from, to) - Lesser(from, to)
      Done(c) == IF from < to THEN c - from ELSE from - c
  IN  [pid |-> p, colour |-> "edge",
       depth |-> [c \in Lesser(from, to) .. Greater(from, to) |->
                    IF steps = 0 THEN Depth(places[p])
                    ELSE Depth(places[p])
                         + ((Depth(places[q]) - Depth(places[p])) * Done(c)) \div steps]]

\* The dots of an edge with traffic, 1 or 3, are on their way at any sixth of it; one
\* that is left of the screen is painted at its margin.
FlowDots(p, q, places, phase, width) ==
  LET sixth(i) == (phase + 2 * i) % 6
      Along(a, b, i) == a + ((b - a) * sixth(i)) \div 6
      column(i) == Greater(0, Along(Column(places[p], width), Column(places[q], width), i))
  IN  [i \in 1 .. graph[p].to[q] |->
         [pid |-> p, colour |-> "data",
          depth |-> [c \in {column(i)} |-> Along(Depth(places[p]), Depth(places[q]), i)]]]

EdgeShapes(p, places, phase, width) ==
  LET ends == SetToSeq({q \in DOMAIN graph[p].to \cap DOMAIN places :
                          InFront(places[p]) /\ InFront(places[q])})
  IN  FlattenSeq([i \in DOMAIN ends |->
        <<Line(p, ends[i], places, width)>> \o FlowDots(p, ends[i], places, phase, width)])

\* A dying process shrinks and crumbles.
GhostShapes(p, dying, width) ==
  LET age == clock - dying[p].since
      whole == Disc(p, "dying", dying[p].place,
                    (Radius(Depth(dying[p].place)) * (Lasts - age)) \div Lasts, width)
  IN  IF ~InFront(dying[p].place) THEN <<>>
      ELSE <<[whole EXCEPT !.depth =
                Restrict(@, {c \in DOMAIN @ : c \notin DOMAIN Grain \/ age < Grain[c]})]>>

\* Edges, then processes, then the dying.
Shapes(places, dying, lit, phase, width) ==
  LET living == SetToSeq(DOMAIN graph)
      gone == SetToSeq(DOMAIN dying)
  IN     FlattenSeq([i \in DOMAIN living |-> EdgeShapes(living[i], places, phase, width)])
      \o FlattenSeq([i \in DOMAIN living |-> NodeShapes(living[i], places, lit, width)])
      \o FlattenSeq([i \in DOMAIN gone |-> GhostShapes(gone[i], dying, width)])

\* Which zombies are drawn, and where the dots are, is a matter of the time.
Frames(places, dying, width) ==
  {Shapes(places, dying, lit, phase, width) : lit \in BOOLEAN, phase \in Phases}

\* test_and_set: what is as near as what is there already stays hidden.
Paint(x, there, shape) ==
  IF x \in DOMAIN shape.depth /\ (there = Blank \/ shape.depth[x] < there.depth)
  THEN [pid |-> shape.pid, colour |-> shape.colour, depth |-> shape.depth[x]] ELSE there

\* The canvas and the z-buffer are cleared, and each shape is painted in turn.
Dot(x, shapes) ==
  LET after[k \in 0 .. Len(shapes)] ==
        IF k = 0 THEN Blank ELSE Paint(x, after[k - 1], shapes[k])
  IN  after[Len(shapes)]

Painted(width, shapes) == [x \in Columns(width) |-> Dot(x, shapes)]

\* A frame of an area of that width; a narrower one than two cells is left
\* alone.
Render(width) ==
  /\ width >= 2
  /\ ghosts' = Dying
  /\ exits' = {e \in exits : clock < e.at + Lasts} \cup Found
  /\ \E places \in UNION {LayoutStep(synced) : synced \in SyncWithGraph(layout)} :
     \E shapes \in Frames(places, Dying, width) :
       /\ layout' = places
       /\ canvas' = Painted(width, shapes)
  /\ temperature' = Cooler
  /\ UNCHANGED <<graph, clock, camera>>
-----------------------------------------------------------------------------
(* The keys.                                                               *)

Zoom ==
  /\ \E delta \in {-1, 1} :
       camera' = [camera EXCEPT !.distance = Greater(NearLimit, Lesser(FarLimit, @ + delta))]
  /\ UNCHANGED <<graph, layout, temperature, ghosts, clock, canvas, exits>>

\* Of the coordinates i of all places.
Average(i) ==
  LET pids == SetToSeq(DOMAIN layout)
      total[k \in 0 .. Len(pids)] == IF k = 0 THEN 0 ELSE total[k - 1] + layout[pids[k]][i]
  IN  total[Len(pids)] \div Len(pids)

\* On the selected process, or on the middle of them all.
Centre ==
  /\ \/ \E p \in DOMAIN layout : camera' = [camera EXCEPT !.centre = layout[p]]
     \/ /\ DOMAIN layout # {}
        /\ camera' = [camera EXCEPT !.centre = <<Average(1), Average(2)>>]
  /\ UNCHANGED <<graph, layout, temperature, ghosts, clock, canvas, exits>>

Reset ==
  /\ camera' = DefaultCamera
  /\ UNCHANGED <<graph, layout, temperature, ghosts, clock, canvas, exits>>

SceneNext == GraphChanges \/ TimePasses \/ (\E width \in Widths : Render(width)) \/ Zoom \/ Centre \/ Reset

SceneSpec == SceneInit /\ [][SceneNext]_sceneVars
-----------------------------------------------------------------------------
\* A dot belongs to the nearest of the shapes that are there, and is blank if there is
\* none.
DotIsNearest(x, dot, shapes) ==
  LET here == {s \in shapes : x \in DOMAIN s.depth}
  IN  IF here = {} THEN dot = Blank
      ELSE \E s \in here : /\ dot = [pid |-> s.pid, colour |-> s.colour, depth |-> s.depth[x]]
                           /\ \A t \in here : s.depth[x] <= t.depth[x]

\* Of the world, the camera and this layout and these dying: nothing is left of the
\* frame before.
FrameIsNearest(dots, places, dying) ==
  \E shapes \in {ToSet(s) : s \in Frames(places, dying, Cardinality(DOMAIN dots) \div 2)} :
    \A x \in DOMAIN dots : DotIsNearest(x, dots[x], shapes)

\* A process that was found gone dies where the last frame had it, for its
\* 500 ms, unless a former process of that pid was still held as dying.
ExitIsShown(e) ==
  ~e.again /\ clock < e.at + Lasts =>
    e.pid \in DOMAIN ghosts /\ ghosts[e.pid] = [place |-> e.place, since |-> e.at]

ShowsTheWorld ==
  /\ canvas' # canvas =>
       \E dots \in {canvas'}, places \in {layout'}, dying \in {ghosts'} :
         FrameIsNearest(dots, places, dying)
  /\ \A e \in exits' : ExitIsShown(e)'

FrameShowsTheWorld == [][ShowsTheWorld]_sceneVars
=============================================================================
