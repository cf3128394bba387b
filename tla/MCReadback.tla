----------------------------- MODULE MCReadback -----------------------------
(***************************************************************************)
(* How results come back through the D3D11 immediate context: queries that *)
(* count (occlusion and predicates), queries that end (timestamps and      *)
(* events), and mapped buffers, model-checked one after the other.  A      *)
(* behaviour picks one of the three; the rest stays as it was built.       *)
(***************************************************************************)
EXTENDS GpuQuery

CONSTANTS
  TimerCalls,                                   \* bound of the model: calls for queries that end
  SliceCount, MapChunkSize, MapFlushType, MapCalls   \* ResourceMap

VARIABLES
  which,  \* what the application reads back
  mapContext, usage, cached, seq, ptr, value, mapCalls, pc, map, drawing, storage, mapCmd,
  mapLists, memory, mapCompleted

queryVars == vars
mapVars ==
  <<mapContext, usage, cached, seq, ptr, value, mapCalls, pc, map, drawing, storage, mapCmd,
    mapLists, memory, mapCompleted>>
readbackVars == <<which, queryVars, mapVars>>

Map == INSTANCE ResourceMap WITH
  ChunkSize <- MapChunkSize, MaxFlushType <- MapFlushType, MaxCalls <- MapCalls,
  context <- mapContext, calls <- mapCalls, cmd <- mapCmd, lists <- mapLists,
  completed <- mapCompleted

\* What the modules say of their constants.
ASSUME ReadbackAssumption ==
  /\ QueryAssumption /\ ContextAssumption
  /\ Map!MapAssumption /\ Map!ContextAssumption

ReadbackInit ==
  /\ which \in {"counters", "timers", "map"}
  /\ Init /\ Map!Init
  /\ which # "map" => usage = "staging" /\ ~cached

\* The application uses the queries that count, or those that end.
UsesCounters ==
  which = "counters" /\ UNCHANGED <<which, mapVars>>
  /\ \A q \in Timestamps \union Events : app'[q] = app[q]
UsesTimers ==
  which = "timers" /\ UNCHANGED <<which, mapVars>>
  /\ calls' <= TimerCalls /\ \A q \in Scoped : app'[q] = app[q]
QueriesRun(A) == which # "map" /\ A /\ (UsesCounters \/ UsesTimers)
MapRuns(A) == which = "map" /\ A /\ UNCHANGED <<which, queryVars>>

ReadbackNext == QueriesRun(Next) \/ MapRuns(Map!Next)

\* The fairness that the modules state, of whichever part runs.
ReadbackSpec ==
  /\ ReadbackInit /\ [][ReadbackNext]_readbackVars
  /\ WF_readbackVars(QueriesRun(Background) \/ MapRuns(Map!Background))
  /\ WF_readbackVars(MapRuns(Map!MapStep))
  /\ WF_readbackVars(MapRuns(Map!MapStart("read", TRUE)))
  /\ \A q \in Queries : WF_readbackVars(QueriesRun(Poll(q)))

-----------------------------------------------------------------------------
(* Properties: what the modules state of each part *)

ReadbackTypeOK == TypeOK /\ Map!TypeOK

SequentialMemory == Map!SequentialMemory

\* Whoever reads something back gets it.
ReadbacksEnd == PollingEnds /\ Map!MapsEnd
=============================================================================
