------------------------------- MODULE MCTuiApp -------------------------------
(***************************************************************************)
(* The parts of the terminal UI on small instances.  They share the loop   *)
(* and nothing else that a property reads, so each is checked for itself:  *)
(* a behaviour is one of the lists on which a human decides (TuiApp), of   *)
(* the browsing tabs and modes (TuiViews), of the frames of the 3D view    *)
(* (Scene) or of the prediction engine and the copy of its verdicts that   *)
(* the screen shows (Prediction).                                          *)
(***************************************************************************)
EXTENDS TuiApp, TuiViews, Prediction, Scene

CONSTANTS d1, d2, p1, p2, none

MCDiags == {d1, d2}
MCExecutable == {d1}

MCPids == {p1, p2}

\* p1 is busier, both have one name.
MCSortKey == "Pid" :> (p1 :> 1 @@ p2 :> 2) @@ "Name" :> (p1 :> 1 @@ p2 :> 1)
             @@ "Cpu" :> (p1 :> 2 @@ p2 :> 1)
MCRate == p1 :> 1 @@ p2 :> 2
MCKeys == {"j", "k", "q", "s", "c", "Ctrl-c", "n", "i", "?", ":", "/", "Enter", "Esc",
           "Backspace", "Tab", "F1", "F2", "F3", "F5"}
MCTexts == {<<>>, <<"j">>, <<"q">>, <<"c">>, <<"i">>, <<"q", "j">>}
MCMatching == [q \in MCTexts |-> IF q = <<"j">> THEN {p1} ELSE IF q = <<"q">> THEN {}
                                 ELSE MCPids]
MCTabSets == {{"Overview", "World3D"}, {"Network", "Rules"}}

VARIABLE part

\* The half that is not run is left at one of its initial states.
ViewsIdle ==
  /\ ViewsInit
  /\ visits = CHOOSE s \in MCTabSets : TRUE
  /\ world = <<>>

\* p1 is the parent of p2; they talk; p1 exits and leaves p2 a zombie, or both are gone.
Of(parent, zombie, hp, to) == [parent |-> parent, zombie |-> zombie, hp |-> hp, to |-> to]
MCWorlds == {p1 :> Of(none, FALSE, 40, <<>>) @@ p2 :> Of(p1, FALSE, 10, p1 :> 1),
             p2 :> Of(p1, TRUE, 100, <<>>), <<>>}
MCPlaces == {<<0, 0>>, <<1, 1>>}

MCOrigin == <<0, 0>>
MCPredicted == {p2}
MCGrain == 2 :> 1

SceneIdle ==
  /\ SceneInit
  /\ graph = <<>>

\* Scores just below a threshold and above them all.
Usage == {[cpu |-> 1, mem |-> 2], [cpu |-> 3, mem |-> 1]}
MCScores == {69, 70, 100}

AppInit ==
  /\ Init /\ PredictInit
  /\ \/ part \in {"lists", "predictions"} /\ ViewsIdle /\ SceneIdle
     \/ part = "views" /\ ViewsInit /\ SceneIdle
     \/ part = "scene" /\ ViewsIdle /\ SceneInit

AppNext ==
  \/ part = "lists" /\ Next /\ UNCHANGED <<part, viewVars, sceneVars, predictVars>>
  \/ part = "views" /\ ViewsNext /\ UNCHANGED <<part, vars, sceneVars, predictVars>>
  \/ part = "scene" /\ SceneNext /\ UNCHANGED <<part, vars, viewVars, predictVars>>
  \/ part = "predictions" /\ PredictNext /\ UNCHANGED <<part, vars, viewVars, sceneVars>>

AppSpec == AppInit /\ [][AppNext]_<<part, vars, viewVars, sceneVars, predictVars>>
=============================================================================
