--------------------------- MODULE LatencyTracker ---------------------------
(***************************************************************************)
(* DxvkBuiltInLatencyTracker (src/src/dxvk/dxvk_latency_builtin.cpp): the  *)
(* application's thread sleeps at the end of D3D11SwapChain::Present until *)
(* the timings of earlier frames are there, which the submission thread    *)
(* and, at the end of a frame, the frame thread or the queue thread report *)
(* to it.                                                                  *)
(*                                                                         *)
(* Entries are a ring; the tracker knows the range of frames they are for. *)
(* A time stamp is a boolean: it is there or not.  Of the presenter only   *)
(* the order of the reports is kept, Presenter has the rest; its wait for  *)
(* the frame latency may end at any time here.                             *)
(***************************************************************************)
EXTENDS Naturals, Sequences

CONSTANTS
  FrameCount,  \* entries of the ring
  MaxFrames    \* bound of the model: frames ever presented

\* What the constants are.
LatencyAssumption == FrameCount \in Nat \ {0, 1} /\ MaxFrames \in Nat

VARIABLES
  lowLatency2,   \* m_useNvLowLatency2
  presentWait,   \* the device has VK_KHR_present_wait
  frames,        \* m_frames
  rangeBegin,    \* m_validRangeBegin
  rangeEnd,      \* m_validRangeEnd
  frameId,       \* m_frameId of the swap chain: the last frame presented
  appPc,         \* where the application is
  asleep,        \* it sleeps on m_cond
  presents,      \* presents in the submission queue
  submitPc,      \* where the submission thread is
  shows,         \* frames whose end is still to be reported, by the other thread
  presented,     \* last frame whose present was reported
  shown,         \* last frame whose end was reported
  lost           \* "no", the device is "lost", and it is "known" to be

rangeVars == <<rangeBegin, rangeEnd>>
appVars == <<frameId, appPc>>
reportVars == <<presents, submitPc, shows, presented, shown, lost>>
options == <<lowLatency2, presentWait>>
vars == <<options, frames, rangeVars, appVars, asleep, reportVars>>

NewFrame(f) == [id |-> f, cpuPresentEnd |-> FALSE, presentStatus |-> FALSE, frameEnd |-> FALSE]

Init ==
  /\ lowLatency2 \in BOOLEAN /\ presentWait \in BOOLEAN
  /\ frames = [n \in 0..(FrameCount - 1) |-> NewFrame(0)]
  /\ rangeBegin = 0 /\ rangeEnd = 0
  /\ frameId = 0 /\ appPc = "idle" /\ asleep = FALSE
  /\ presents = <<>> /\ submitPc = "fetch" /\ shows = <<>>
  /\ presented = 0 /\ shown = 0
  /\ lost = "no"

\* findFrame, where it returns an entry.
Found(f) == f >= rangeBegin /\ f <= rangeEnd
Entry(f) == frames[f % FrameCount]

\* Store a time stamp, if the frame is still known.
Stamp(f, stamp) ==
  frames' = IF Found(f) THEN [frames EXCEPT ![f % FrameCount][stamp] = TRUE] ELSE frames

-----------------------------------------------------------------------------
(* The application: D3D11SwapChain::Present *)

\* discardTimings
DiscardTimings == rangeBegin' = rangeEnd + 1 /\ UNCHANGED rangeEnd

\* No image could be acquired; Present returns without a frame.
PresentFails ==
  /\ appPc = "idle"
  /\ DiscardTimings
  /\ UNCHANGED <<options, frames, appVars, asleep, reportVars>>

\* An image was acquired, maybe with VK_SUBOPTIMAL_KHR, and the frame goes its way.
PresentImage ==
  /\ appPc = "idle" /\ frameId < MaxFrames
  /\ \/ DiscardTimings
     \/ UNCHANGED rangeVars
  /\ frameId' = frameId + 1
  /\ presents' = Append(presents, frameId + 1)
  /\ appPc' = "presented"
  /\ UNCHANGED <<options, frames, asleep, submitPc, shows, presented, shown, lost>>

\* notifyCpuPresentEnd
NotifyCpuPresentEnd ==
  /\ appPc = "presented"
  /\ Stamp(frameId, "cpuPresentEnd")
  /\ appPc' = "sleep"
  /\ UNCHANGED <<options, rangeVars, frameId, asleep, reportVars>>

\* A frame that the sleep does not wait for: findFrame(frameId + 1 - i) finds none, or
\* one that was not presented.
Unknown(i) ==
  i > frameId + 1 \/ ~Found(frameId + 1 - i) \/ ~Entry(frameId + 1 - i).cpuPresentEnd

\* The loop of sleepBuiltin goes back one frame after the other, and gives up at one
\* that is unknown.
GivesUp ==
  \E i \in 2..FrameCount :
    Unknown(i) /\ \A j \in 2..(i - 1) : Entry(frameId + 1 - j).frameEnd
WaitsForEnd ==
  \E i \in 2..FrameCount :
    /\ ~Entry(frameId + 1 - i).frameEnd
    /\ \A j \in 2..i : ~Unknown(j)
    /\ \A j \in 2..(i - 1) : Entry(frameId + 1 - j).frameEnd
WaitsForPresent == ~Unknown(1) /\ ~Entry(frameId).presentStatus

Blocked ==
  IF lowLatency2 THEN WaitsForPresent
  ELSE WaitsForEnd \/ (~GivesUp /\ WaitsForPresent)

\* sleepAndBeginFrame(frameId + 1), up to the end of its waits.
SleepBegins ==
  /\ appPc = "sleep" /\ ~asleep
  /\ IF Blocked THEN asleep' = TRUE /\ UNCHANGED appPc
                ELSE appPc' = "begin" /\ UNCHANGED asleep
  /\ UNCHANGED <<options, frames, rangeVars, frameId, reportVars>>

RangeBeginMutant(f) ==
  LET begin == IF rangeEnd + 1 # f THEN f ELSE rangeBegin
  IN  IF begin + FrameCount < f THEN f + 1 - FrameCount ELSE begin
\* The first frame that is still known once frame f is.
RangeBegin(f) ==
  LET begin == IF rangeEnd + 1 # f THEN f ELSE rangeBegin
  IN  IF begin + FrameCount <= f THEN f + 1 - FrameCount ELSE begin

\* The end of sleepAndBeginFrame, initFrame.
InitFrame ==
  /\ appPc = "begin"
  /\ rangeBegin' = RangeBegin(frameId + 1)
  /\ rangeEnd' = frameId + 1
  /\ frames' = [frames EXCEPT ![(frameId + 1) % FrameCount] = NewFrame(frameId + 1)]
  /\ appPc' = "idle"
  /\ UNCHANGED <<options, frameId, asleep, reportVars>>

-----------------------------------------------------------------------------
(* The submission thread, and the frame thread or the queue thread *)

\* presentImage hands the frame to the frame thread.  After a device loss the entry is
\* dropped with no report.
QueuePresent ==
  /\ submitPc = "fetch" /\ presents # <<>>
  /\ IF lost = "known"
       THEN presents' = Tail(presents) /\ UNCHANGED <<submitPc, shows>>
       ELSE /\ submitPc' = "report"
            /\ shows' = IF presentWait THEN Append(shows, Head(presents)) ELSE shows
            /\ UNCHANGED presents
  /\ UNCHANGED <<options, frames, rangeVars, appVars, asleep, presented, shown, lost>>

\* notifyQueuePresentEnd; without the frame thread it is the queue thread that reports
\* the end of the frame, unless the device turned out to be lost.
NotifyQueuePresentEnd ==
  /\ submitPc = "report"
  /\ Stamp(Head(presents), "presentStatus")
  /\ asleep' = FALSE
  /\ submitPc' = "fetch"
  /\ presented' = Head(presents)
  /\ presents' = Tail(presents)
  /\ \/ /\ shows' = IF presentWait THEN shows ELSE Append(shows, Head(presents))
        /\ UNCHANGED lost
     \/ lost = "lost" /\ lost' = "known" /\ UNCHANGED shows
  /\ UNCHANGED <<options, rangeVars, appVars, shown>>

\* notifyGpuPresentEnd
NotifyGpuPresentEnd ==
  /\ shows # <<>>
  /\ Stamp(Head(shows), "frameEnd")
  /\ asleep' = FALSE
  /\ shown' = Head(shows)
  /\ shows' = Tail(shows)
  /\ UNCHANGED <<options, rangeVars, appVars, presents, submitPc, presented, lost>>

\* The queue thread may be the first to know.
LoseDevice ==
  /\ lost = "no" /\ lost' \in {"lost", "known"}
  /\ UNCHANGED <<options, frames, rangeVars, appVars, asleep, presents, submitPc, shows,
                 presented, shown>>

AppStep == NotifyCpuPresentEnd \/ SleepBegins \/ InitFrame
SubmitStep == QueuePresent \/ NotifyQueuePresentEnd

Next ==
  \/ PresentFails \/ PresentImage \/ AppStep
  \/ SubmitStep \/ NotifyGpuPresentEnd
  \/ LoseDevice

\* The threads run; nobody has to present.
FairSpec ==
  /\ Init /\ [][Next]_vars
  /\ WF_vars(AppStep)
  /\ WF_vars(SubmitStep)
  /\ WF_vars(NotifyGpuPresentEnd)

-----------------------------------------------------------------------------
(* Properties *)

\* The values the variables take.
TypeOK ==
  /\ \A n \in DOMAIN frames : frames[n].id \in 0..(MaxFrames + 1)
  /\ rangeEnd \in 0..(MaxFrames + 1) /\ rangeBegin \in 0..(MaxFrames + 2)
  /\ frameId \in 0..MaxFrames /\ presented \in 0..frameId /\ shown \in 0..frameId
  /\ appPc \in {"idle", "presented", "sleep", "begin"}
  /\ submitPc \in {"fetch", "report"}
  /\ asleep => appPc = "sleep"

\* A frame that the tracker knows has an entry of its own, whose time stamps are those
\* of this frame: what was reported of it has been stored, and nothing is left of the
\* frame that had the entry before.
TimingsSound ==
  \A f \in 1..(MaxFrames + 1) : Found(f) =>
    /\ Entry(f).id = f
    /\ Entry(f).frameEnd <=> f <= shown
    /\ Entry(f).presentStatus <=> f <= presented

\* Present goes on, as long as the device is not lost: sleepAndBeginFrame never waits for
\* a report that was made already or will not be made.
SleepEnds == appPc = "sleep" ~> appPc # "sleep" \/ lost # "no"
=============================================================================
