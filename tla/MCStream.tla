------------------------------ MODULE MCStream ------------------------------
(***************************************************************************)
(* The threads that work for the thread that records, model-checked one    *)
(* after the other: the command stream thread, the thread that it hands    *)
(* descriptor updates to, and the threads that tell the latency tracker    *)
(* what became of a frame.  A behaviour picks one; the others stay as they *)
(* were built.                                                             *)
(***************************************************************************)
EXTENDS CsThread

CONSTANTS
  BlockCount, RangeCount, MaxEntries, MaxLists,  \* DescriptorWorker
  FrameCount, MaxFrames                          \* LatencyTracker

VARIABLES
  which,  \* the part that runs
  blocks, blockIndex, entries, append, consume, csPc, ringPc, batch, written, lists, submitted,
  lowLatency2, presentWait, frames, rangeBegin, rangeEnd, frameId, appPc, asleep, presents,
  submitPc, shows, presented, shown, lost

streamVars == vars
ringVars ==
  <<blocks, blockIndex, entries, append, consume, csPc, ringPc, batch, written, lists, submitted>>
latencyVars ==
  <<lowLatency2, presentWait, frames, rangeBegin, rangeEnd, frameId, appPc, asleep, presents,
    submitPc, shows, presented, shown, lost>>
allVars == <<which, streamVars, ringVars, latencyVars>>

Ring == INSTANCE DescriptorWorker WITH workerPc <- ringPc

Latency == INSTANCE LatencyTracker

\* What the modules say of their constants.
ASSUME MCStreamAssumption == Ring!RingAssumption /\ Latency!LatencyAssumption

StreamInit ==
  /\ which \in {"stream", "ring", "latency"}
  /\ Init /\ Ring!Init /\ Latency!Init
  /\ lowLatency2 \/ presentWait => which = "latency"

\* A part runs and the others stay.
StreamRuns == which = "stream" /\ UNCHANGED <<which, ringVars, latencyVars>>
RingRuns == which = "ring" /\ UNCHANGED <<which, streamVars, latencyVars>>
LatencyRuns == which = "latency" /\ UNCHANGED <<which, streamVars, ringVars>>

StreamNext ==
  \/ StreamRuns /\ Next
  \/ RingRuns /\ Ring!Next
  \/ LatencyRuns /\ Latency!Next

\* The fairness that the modules state, of whichever part runs.
StreamSpec ==
  /\ StreamInit /\ [][StreamNext]_allVars
  /\ WF_allVars(\/ StreamRuns /\ WorkerStep
                \/ RingRuns /\ Ring!WorkerStep
                \/ LatencyRuns /\ Latency!AppStep)
  /\ WF_allVars((RingRuns /\ Ring!FlushStep) \/ (LatencyRuns /\ Latency!SubmitStep))
  /\ WF_allVars((RingRuns /\ Ring!Submit) \/ (LatencyRuns /\ Latency!NotifyGpuPresentEnd))
  /\ \A t \in Clients : WF_allVars(StreamRuns /\ Wait(t))

-----------------------------------------------------------------------------
(* Properties: what the modules state of each part *)

StreamTypeOK == TypeOK /\ Ring!TypeOK /\ Latency!TypeOK

RingSafe == Ring!RingSafe
TimingsSound == Latency!TimingsSound

\* Nobody waits for ever for any of these threads.
WaitsAllEnd == CallsEnd /\ Ring!RingDrains /\ Latency!SleepEnds
=============================================================================
