-------------------------------- MODULE MCPage --------------------------------
(* Five components of a gadget's page that share no state: the table, the     *)
(* rows chosen in it, the choice of snapshots, the local plugins and replay.  *)
(* One run explores each by itself; the others keep their initial state.      *)
EXTENDS EventTable, SnapshotSelection, PluginRegistry, Replay, RowSelection

VARIABLE part  \* the component that is explored

partVars == <<tableVars, selectionVars, pluginVars, replayVars, rowVars, part>>

PartInit ==
  /\ part \in {"table", "selection", "plugins", "replay", "rows"}
  /\ TableInit /\ SelectionInit /\ PluginInit /\ ReplayInit /\ RowInit
  /\ part # "table" => snapshotData = undefined
  /\ part # "selection" => activeTab = "chart"
  /\ part # "plugins" => disk = [d \in 1..NumDirs |-> None]

Table == part = "table" /\ UNCHANGED <<selectionVars, pluginVars, replayVars, rowVars, part>>
Selection == part = "selection" /\ UNCHANGED <<tableVars, pluginVars, replayVars, rowVars, part>>
Plugins == part = "plugins" /\ UNCHANGED <<tableVars, selectionVars, replayVars, rowVars, part>>
Playback == part = "replay" /\ UNCHANGED <<tableVars, selectionVars, pluginVars, rowVars, part>>
Choosing == part = "rows" /\ UNCHANGED <<tableVars, selectionVars, pluginVars, replayVars, part>>

PartNext ==
  \/ Table /\ TableNext
  \/ Selection /\ SelectionNext
  \/ Plugins /\ PluginNext
  \/ Playback /\ ReplayNext
  \/ Choosing /\ RowNext

\* The fairness of each component, for the one that is explored.
PartSpec ==
  /\ PartInit /\ [][PartNext]_partVars
  /\ TableFairness
  /\ WF_pluginVars(part = "plugins" /\ Load)
  /\ WF_pluginVars(\E label \in DOMAIN timers : CompileTimeout(label))
  /\ ReplayFairness

-----------------------------------------------------------------------------
\* The table: "a" is a text of the odd items in the first column and of the
\* third in the second column; "b" of all but the first.
TextIn(item, query, columns) ==
  \/ query = "a" /\ 1 \in columns /\ item % 2 = 1
  \/ query = "a" /\ 2 \in columns /\ item = 3
  \/ query = "b" /\ item # 1
TwoSnapshots == {undefined, <<2, 1>>, <<3, 2, 1>>}

\* The plugins: two versions of a plugin with one component, which serves a
\* visualizer and a route, one whose manifest names two components of the same
\* files, one that needs none and one without a version.
Cap(kind, name, component) == [kind |-> kind, name |-> name, component |-> component]
Single(v) == [id |-> "p", valid |-> TRUE, files |-> v,
              caps |-> <<Cap("visualizer", "v", "A"), Cap("route", "r", "A")>>]
Double == [Single(1) EXCEPT !.caps = <<Cap("visualizer", "v", "B"), Cap("hook", "h", "A")>>]
Unversioned == [id |-> "u", valid |-> FALSE, files |-> 1, caps |-> <<>>]
Plain == [id |-> "e", valid |-> TRUE, files |-> 1, caps |-> <<>>]
SomeContents == {Single(1), Single(2), Double, Unversioned, Plain}

\* The replay: a stream, and a run that also has arrays.
TwoRuns == {"a", "b"}
Recordings == [r \in TwoRuns |-> IF r = "a" THEN <<"event", "event">> ELSE <<"event", "array">>]
=============================================================================
