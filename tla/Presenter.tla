----------------------------- MODULE Presenter -----------------------------
(***************************************************************************)
(* Presenter (src/src/dxvk/dxvk_presenter.cpp) under D3D11SwapChain, from  *)
(* the application's Present to the signal of the frame.                   *)
(*                                                                         *)
(* The application acquires an image and has the CS thread queue a present *)
(* (csQ); the submission thread presents it (submitQ); the queue thread    *)
(* signals the frame once the GPU is through with it (finishQ); the frame  *)
(* thread "dxvk-frame" waits for the display (frameQ).  Of the submission  *)
(* queue only the presents are kept; SubmissionQueue has the rest.         *)
(*                                                                         *)
(* m_surfaceMutex is held by the application where its pc is in Locked;    *)
(* every other critical section of it, and each of m_frameMutex, is one    *)
(* step.  The surface is created and lost together with the swap chain.    *)
(***************************************************************************)
EXTENDS Naturals, Sequences, FiniteSets

CONSTANTS
  MaxFrames,  \* bound of the model: frames ever presented
  Latency,    \* GetActualFrameLatency()
  Events,     \* first count of the frame latency event, m_frameLatency
  Failures    \* results other than success Vulkan may return in this instance

ASSUME PresenterAssumption ==
  /\ MaxFrames \in Nat
  /\ Latency \in Nat /\ Events \in Nat \ {0}
  /\ Failures \subseteq {"DEVICE_LOST", "OUT_OF_DATE", "SUBOPTIMAL", "NOT_READY"}

Frames  == 1..MaxFrames
Results == {"SUCCESS", "SUBOPTIMAL", "OUT_OF_DATE", "NOT_READY", "DEVICE_LOST"}

VARIABLES
  presentWait,    \* the device has VK_KHR_present_wait
  maintenance,    \* the device has VK_EXT_swapchain_maintenance1
  waitable,       \* the application asked for a frame latency event, and waits on it
  lost,           \* the device is lost
  status,         \* getDeviceStatus(), m_lastError of the submission queue
  swapchain,      \* m_swapchain is a valid handle
  acquireStatus,  \* m_acquireStatus
  dirty,          \* m_dirtySwapchain, m_dirtySurface
  pending,        \* m_presentPending
  surfaceCond,    \* the application sleeps on m_surfaceCond
  frameDrain,     \* the application sleeps on m_frameDrain
  frameCond,      \* the frame thread sleeps on m_frameCond
  frameQ,         \* m_frameQueue: frame id, and whether the present succeeded
  lastSignaled,   \* m_lastSignaled
  lastCompleted,  \* m_lastCompleted
  signal,         \* value of m_signal, the swap chain's m_frameLatencySignal
  callbacks,      \* its callbacks: the frame each waits for, and its number among those
  events,         \* count of the semaphore m_frameLatencyEvent
  pc,             \* where the application is
  after,          \* where it goes on after destroySwapchain
  frameId,        \* D3D11SwapChain::m_frameId
  csQ,            \* presents in the CS thread
  submitQ,        \* presents in m_submitQueue
  finishQ,        \* presents in m_finishQueue
  submitPc,       \* where the submission thread is
  result,         \* result of its present
  finishPc,       \* where the queue thread is
  framePc         \* where the frame thread is

chainVars  == <<swapchain, acquireStatus, dirty, pending>>
frameVars  == <<frameQ, frameDrain, frameCond, lastSignaled, lastCompleted>>
appVars    == <<pc, after, frameId>>
queueVars  == <<csQ, submitQ, finishQ>>
submitVars == <<submitPc, result>>
deviceVars == <<presentWait, maintenance, waitable, lost>>
signalVars == <<signal, callbacks, events>>

vars == <<deviceVars, status, chainVars, surfaceCond, frameVars, signalVars, appVars,
          queueVars, submitVars, finishPc, framePc>>

Init ==
  /\ presentWait \in BOOLEAN /\ maintenance \in BOOLEAN /\ waitable \in BOOLEAN
  /\ lost = FALSE /\ status = "SUCCESS"
  /\ swapchain = FALSE /\ acquireStatus = "NOT_READY"
  /\ dirty = FALSE /\ pending = FALSE
  /\ surfaceCond = FALSE /\ frameDrain = FALSE /\ frameCond = FALSE
  /\ frameQ = <<>> /\ lastSignaled = 0 /\ lastCompleted = 0
  /\ signal = 0 /\ callbacks = {} /\ events = Events
  /\ pc = "idle" /\ after = "idle" /\ frameId = 0
  /\ csQ = <<>> /\ submitQ = <<>> /\ finishQ = <<>>
  /\ submitPc = "fetch" /\ result = "SUCCESS"
  /\ finishPc = "fetch"
  /\ framePc = IF presentWait THEN "wait" ELSE "none"

\* What the driver may answer, given the results it may return anyway.
Answer(errors) ==
  {"SUCCESS"} \union (Failures \intersect errors)
              \union (IF lost THEN {"DEVICE_LOST"} ELSE {})
AcquireResults == Answer({"SUBOPTIMAL", "OUT_OF_DATE"})
Ok(r) == r \in {"SUCCESS", "SUBOPTIMAL"}

-----------------------------------------------------------------------------
(* The application *)

Locked == pc \in {"update", "waitIdle", "waitFinish", "drain", "acquireImage", "create"}
App(from, to) == pc = from /\ pc' = to

Unchanged(chain) ==
  UNCHANGED <<deviceVars, status, surfaceCond, submitVars, finishPc, framePc, chain>>

\* D3D11SwapChain::Present, after the application's wait for the event.
Present ==
  /\ frameId < MaxFrames
  /\ IF waitable THEN events > 0 /\ events' = events - 1 ELSE UNCHANGED events
  /\ UNCHANGED <<signal, callbacks>>
  /\ App("idle", IF status = "SUCCESS" THEN "acquire" ELSE "latency")
  /\ UNCHANGED <<after, frameId, queueVars, frameVars>> /\ Unchanged(chainVars)

\* Setters that have the swap chain replaced on the next acquire.
SetProperties ==
  /\ pc = "idle" /\ ~dirty
  /\ dirty' = TRUE
  /\ UNCHANGED <<swapchain, acquireStatus, pending, appVars, queueVars, frameVars>>
  /\ Unchanged(signalVars)

\* checkSwapChainStatus, which a Present with DXGI_PRESENT_TEST calls.
CheckSwapChainStatus ==
  /\ pc = "idle" /\ ~swapchain /\ status = "SUCCESS"
  /\ swapchain' = TRUE
  /\ UNCHANGED <<acquireStatus, dirty, pending, appVars, queueVars, frameVars>>
  /\ Unchanged(signalVars)

\* The predicate of both waits on m_surfaceCond.
NoPresentInFlight == ~pending \/ status # "SUCCESS"

\* acquireNextImage, up to the end of its wait.
Acquire ==
  /\ pc = "acquire" /\ ~surfaceCond
  /\ IF NoPresentInFlight
       THEN pc' = (IF status = "SUCCESS" THEN "update" ELSE "latency") /\ UNCHANGED surfaceCond
       ELSE surfaceCond' = TRUE /\ UNCHANGED pc
  /\ UNCHANGED <<deviceVars, status, chainVars, frameVars, signalVars, after, frameId,
                 queueVars, submitVars, finishPc, framePc>>

\* Enter destroySwapchain; without present fences it waits for the device first.
Teardown(to) ==
  /\ pc' = IF maintenance THEN "drain" ELSE "waitIdle"
  /\ after' = to

UpdateSwapChain ==
  /\ pc = "update"
  /\ IF dirty THEN Teardown("acquireImage") ELSE pc' = "acquireImage" /\ UNCHANGED after
  /\ dirty' = FALSE
  /\ UNCHANGED <<swapchain, acquireStatus, pending, frameId, queueVars, frameVars>>
  /\ Unchanged(signalVars)

\* DxvkDevice::waitForIdle inside destroySwapchain: first one queue, then the other.
WaitForIdle ==
  /\ \/ App("waitIdle", "waitFinish") /\ submitQ = <<>>
     \/ App("waitFinish", "drain") /\ finishQ = <<>>
  /\ UNCHANGED <<after, frameId, queueVars, frameVars>> /\ Unchanged(<<chainVars, signalVars>>)

DrainedMutant == Len(frameQ) <= 1
Drained == frameQ = <<>>

\* The rest of destroySwapchain: the frame thread must not use the swap chain.
DestroySwapchain ==
  /\ pc = "drain" /\ ~frameDrain
  /\ IF Drained
       THEN /\ pc' = after
            /\ swapchain' = FALSE /\ acquireStatus' = "NOT_READY" /\ pending' = FALSE
            /\ UNCHANGED frameDrain
       ELSE frameDrain' = TRUE /\ UNCHANGED <<pc, swapchain, acquireStatus, pending>>
  /\ UNCHANGED <<dirty, after, frameId, queueVars, frameQ, frameCond, lastSignaled, lastCompleted>>
  /\ Unchanged(signalVars)

\* An image was acquired: the frame is emitted to the CS thread.
EmitPresent(s) ==
  /\ pending' = TRUE
  /\ acquireStatus' = s
  /\ frameId' = frameId + 1
  /\ csQ' = Append(csQ, frameId + 1)
  /\ pc' = "latency"

\* Use the image acquired after the last present, or acquire one now; without a
\* swap chain, or with any result but success, recreate the swap chain.
AcquireImage ==
  /\ pc = "acquireImage"
  /\ \E s \in IF acquireStatus = "NOT_READY" /\ swapchain THEN AcquireResults ELSE {acquireStatus} :
       \/ /\ s = "SUCCESS" /\ swapchain
          /\ EmitPresent(s)
          /\ UNCHANGED after
       \/ /\ ~(s = "SUCCESS" /\ swapchain)
          /\ acquireStatus' = s
          /\ IF swapchain THEN Teardown("create") ELSE pc' = "create" /\ UNCHANGED after
          /\ UNCHANGED <<pending, frameId, csQ>>
  /\ UNCHANGED <<swapchain, dirty, submitQ, finishQ, frameVars>> /\ Unchanged(signalVars)

\* createSwapChain and the acquire from the fresh swap chain.  Errors are soft:
\* the application's Present goes on without an image.
CreateSwapChain ==
  /\ pc = "create"
  /\ \/ /\ "NOT_READY" \in Failures \/ lost
        /\ pc' = "latency"
        /\ UNCHANGED <<swapchain, acquireStatus, pending, frameId, csQ>>
     \/ \E s \in AcquireResults :
          /\ swapchain' = TRUE
          /\ IF Ok(s) THEN EmitPresent(s)
                      ELSE /\ acquireStatus' = s /\ pc' = "latency"
                           /\ UNCHANGED <<pending, frameId, csQ>>
  /\ UNCHANGED <<dirty, after, submitQ, finishQ, frameVars>> /\ Unchanged(signalVars)

\* setCallback; the second component only tells the callbacks of one frame apart.
NewCallback(f) == <<f, Cardinality({c \in callbacks : c[1] = f}) + 1>>

SyncFrameLatencyMutant ==
  /\ App("latency", "idle")
  /\ signal + Latency >= frameId
  /\ IF waitable /\ signal < frameId THEN callbacks' = callbacks \union {NewCallback(frameId)}
                                     ELSE UNCHANGED callbacks
  /\ UNCHANGED <<signal, events, after, frameId, queueVars, frameVars>> /\ Unchanged(chainVars)
\* D3D11SwapChain::SyncFrameLatency.  The callback is called at once if the frame
\* was signaled already, whether or not this Present had one.
SyncFrameLatency ==
  /\ App("latency", "idle")
  /\ signal + Latency >= frameId
  /\ \/ waitable /\ signal < frameId
        /\ callbacks' = callbacks \union {NewCallback(frameId)} /\ UNCHANGED events
     \/ waitable /\ signal >= frameId
        /\ events' = events + 1 /\ UNCHANGED callbacks
     \/ ~waitable /\ UNCHANGED <<callbacks, events>>
  /\ UNCHANGED <<signal, after, frameId, queueVars, frameVars>> /\ Unchanged(chainVars)

\* ~D3D11SwapChain calls destroyResources; like acquire it waits first.
Release ==
  /\ App("idle", "destroy")
  /\ UNCHANGED <<after, frameId, queueVars, frameVars>> /\ Unchanged(<<chainVars, signalVars>>)

DestroyResources ==
  /\ pc = "destroy" /\ ~surfaceCond
  /\ IF NoPresentInFlight
       THEN Teardown("released") /\ UNCHANGED surfaceCond
       ELSE surfaceCond' = TRUE /\ UNCHANGED <<pc, after>>
  /\ UNCHANGED <<deviceVars, status, chainVars, frameVars, signalVars, frameId,
                 queueVars, submitVars, finishPc, framePc>>

\* ~Presenter, when the last entry that refers to it is gone; its own
\* destroySwapchain only waits for the frame thread.  Frame 0 ends that thread.
Destruct ==
  /\ App("released", "gone")
  /\ csQ = <<>> /\ submitQ = <<>> /\ finishQ = <<>>
  /\ Drained
  /\ IF presentWait THEN frameQ' = Append(frameQ, [id |-> 0, ok |-> FALSE]) /\ frameCond' = FALSE
                    ELSE UNCHANGED <<frameQ, frameCond>>
  /\ UNCHANGED <<after, frameId, queueVars, frameDrain, lastSignaled, lastCompleted>>
  /\ Unchanged(<<chainVars, signalVars>>)

-----------------------------------------------------------------------------
(* The CS thread and the submission thread *)

\* The command emitted by PresentImage, up to DxvkSubmissionQueue::present.
CsPresent ==
  /\ csQ # <<>>
  /\ submitQ' = Append(submitQ, Head(csQ))
  /\ csQ' = Tail(csQ)
  /\ UNCHANGED <<deviceVars, status, chainVars, surfaceCond, frameVars, signalVars, appVars,
                 finishQ, submitVars, finishPc, framePc>>

Submit(from, to) == submitPc = from /\ submitPc' = to
SubmitUnchanged ==
  UNCHANGED <<deviceVars, swapchain, signalVars, appVars, csQ, finishPc, framePc>>

\* After a device loss nothing is presented.
SubmitFetch ==
  /\ submitQ # <<>>
  /\ IF status = "DEVICE_LOST" THEN Submit("fetch", "retire") /\ result' = "DEVICE_LOST"
                               ELSE Submit("fetch", "present") /\ UNCHANGED result
  /\ UNCHANGED <<status, acquireStatus, dirty, pending, surfaceCond, frameVars, submitQ, finishQ>>
  /\ SubmitUnchanged

\* presentImage, vkQueuePresentKHR and what depends on its result.
QueuePresent ==
  /\ Submit("present", "push")
  /\ result' \in AcquireResults
  /\ acquireStatus' = IF Ok(result') THEN "NOT_READY" ELSE acquireStatus
  /\ UNCHANGED <<status, dirty, pending, surfaceCond, frameVars, submitQ, finishQ>>
  /\ SubmitUnchanged

PresenterFrameMutant == [id |-> Head(submitQ) + 1, ok |-> Ok(result)]
PresenterFrame == [id |-> Head(submitQ), ok |-> Ok(result)]

\* presentImage hands the frame to the frame thread, whatever the result.
PushFrame ==
  /\ Submit("push", IF result = "SUCCESS" THEN "acquireNext" ELSE "finish")
  /\ IF presentWait
       THEN /\ frameQ' = Append(frameQ, PresenterFrame)
            /\ frameCond' = FALSE
       ELSE UNCHANGED <<frameQ, frameCond>>
  /\ UNCHANGED <<status, acquireStatus, dirty, pending, surfaceCond, frameDrain, lastSignaled,
                 lastCompleted, result, submitQ, finishQ>>
  /\ SubmitUnchanged

\* presentImage acquires the next image already.
AcquireEarly ==
  /\ Submit("acquireNext", "finish")
  /\ acquireStatus' \in AcquireResults
  /\ UNCHANGED <<status, dirty, pending, surfaceCond, frameVars, result, submitQ, finishQ>>
  /\ SubmitUnchanged

\* The end of presentImage, under m_surfaceMutex.
FinishPresent ==
  /\ Submit("finish", "retire")
  /\ ~Locked
  /\ dirty' = (dirty \/ result # "SUCCESS")
  /\ pending' = FALSE
  /\ surfaceCond' = FALSE
  /\ UNCHANGED <<status, acquireStatus, frameVars, result, submitQ, finishQ>>
  /\ SubmitUnchanged

\* A present that the window system refused still goes to the queue thread.
Forwarded(r) == r # "DEVICE_LOST"

\* submitCmdLists after presentImage, under m_mutex.
Retire ==
  /\ Submit("retire", "fetch")
  /\ submitQ' = Tail(submitQ)
  /\ IF Forwarded(result)
       THEN finishQ' = Append(finishQ, Head(submitQ)) /\ UNCHANGED status
       ELSE status' = result /\ UNCHANGED finishQ
  /\ UNCHANGED <<acquireStatus, dirty, pending, surfaceCond, frameVars, result>>
  /\ SubmitUnchanged

-----------------------------------------------------------------------------
(* The queue thread and the frame thread *)

DisplayedMutant(f) == TRUE
\* The frame thread is through with frame f.
Displayed(f) == lastCompleted >= f
ExecutedMutant(f) == TRUE
\* The queue thread is through with frame f.
Executed(f) == lastSignaled >= f

\* The callbacks that signal(f) calls; each releases the frame latency event.
Called(f) == {c \in callbacks : c[1] <= f}

Signal(f) ==
  /\ signal' = f
  /\ callbacks' = callbacks \ Called(f)
  /\ events' = events + Cardinality(Called(f))

QueueUnchanged ==
  UNCHANGED <<deviceVars, status, chainVars, surfaceCond, appVars, csQ, submitQ, submitVars, framePc>>

\* signalFrame: with present wait, whichever thread comes second signals.
SignalFrame ==
  /\ finishPc = "fetch" /\ finishQ # <<>>
  /\ IF presentWait
       THEN /\ lastSignaled' = Head(finishQ)
            /\ finishPc' = IF Displayed(Head(finishQ)) THEN "signal" ELSE "pop"
       ELSE finishPc' = "signal" /\ UNCHANGED lastSignaled
  /\ UNCHANGED <<frameQ, frameDrain, frameCond, lastCompleted, signalVars, finishQ>>
  /\ QueueUnchanged

QueueSignal ==
  /\ finishPc = "signal" /\ finishPc' = "pop"
  /\ Signal(Head(finishQ))
  /\ UNCHANGED <<frameVars, finishQ>>
  /\ QueueUnchanged

FinishPop ==
  /\ finishPc = "pop" /\ finishPc' = "fetch"
  /\ finishQ' = Tail(finishQ)
  /\ UNCHANGED <<frameVars, signalVars>>
  /\ QueueUnchanged

FrameUnchanged ==
  UNCHANGED <<deviceVars, status, chainVars, surfaceCond, appVars, queueVars, submitVars, finishPc>>

\* runFrameThread sleeps, ends at frame 0, or starts on the next frame.  Only a
\* frame whose present succeeded is waited for, and in the FIFO modes alone.
FrameWait ==
  /\ framePc = "wait" /\ ~frameCond
  /\ \/ frameQ = <<>> /\ frameCond' = TRUE /\ UNCHANGED <<framePc, frameQ>>
     \/ /\ frameQ # <<>> /\ Head(frameQ).id = 0
        /\ framePc' = "exited" /\ frameQ' = Tail(frameQ) /\ UNCHANGED frameCond
     \/ /\ frameQ # <<>> /\ Head(frameQ).id # 0
        /\ framePc' \in {"complete"} \union (IF Head(frameQ).ok THEN {"waitPresent"} ELSE {})
        /\ UNCHANGED <<frameQ, frameCond>>
  /\ UNCHANGED <<frameDrain, lastSignaled, lastCompleted, signalVars>>
  /\ FrameUnchanged

\* vkWaitForPresentKHR returns.
PresentDone ==
  /\ framePc = "waitPresent" /\ framePc' = "complete"
  /\ UNCHANGED <<frameVars, signalVars>>
  /\ FrameUnchanged

FrameCompleteMutant ==
  /\ framePc = "complete"
  /\ frameQ' = Tail(frameQ)
  /\ lastCompleted' = Head(frameQ).id
  /\ framePc' = IF Executed(Head(frameQ).id) THEN "signal" ELSE "wait"
  /\ UNCHANGED <<frameDrain, frameCond, lastSignaled, signalVars>>
  /\ FrameUnchanged
FrameComplete ==
  /\ framePc = "complete"
  /\ frameQ' = Tail(frameQ)
  /\ frameDrain' = FALSE
  /\ lastCompleted' = Head(frameQ).id
  /\ framePc' = IF Executed(Head(frameQ).id) THEN "signal" ELSE "wait"
  /\ UNCHANGED <<frameCond, lastSignaled, signalVars>>
  /\ FrameUnchanged

FrameSignal ==
  /\ framePc = "signal" /\ framePc' = "wait"
  /\ Signal(lastCompleted)
  /\ UNCHANGED frameVars
  /\ FrameUnchanged

-----------------------------------------------------------------------------
(* The device *)

LoseDevice ==
  /\ "DEVICE_LOST" \in Failures /\ ~lost
  /\ lost' = TRUE
  /\ UNCHANGED <<presentWait, maintenance, waitable, status, chainVars, surfaceCond, frameVars, signalVars,
                 appVars, queueVars, submitVars, finishPc, framePc>>

\* A command list between two presents meets the loss, at its submission or in
\* the wait for its completion.
NoticeLoss ==
  /\ lost /\ status = "SUCCESS"
  /\ submitPc = "fetch" \/ finishPc = "fetch"
  /\ status' = "DEVICE_LOST"
  /\ UNCHANGED <<deviceVars, chainVars, surfaceCond, frameVars, signalVars, appVars,
                 queueVars, submitVars, finishPc, framePc>>

AppStep ==
  \/ Acquire \/ UpdateSwapChain \/ WaitForIdle \/ DestroySwapchain
  \/ AcquireImage \/ CreateSwapChain \/ SyncFrameLatency
  \/ DestroyResources \/ Destruct
Choose == Present \/ SetProperties \/ CheckSwapChainStatus \/ Release
SubmitStep ==
  SubmitFetch \/ QueuePresent \/ PushFrame \/ AcquireEarly \/ FinishPresent \/ Retire
FinishStep == SignalFrame \/ QueueSignal \/ FinishPop
FrameStep  == FrameWait \/ PresentDone \/ FrameComplete \/ FrameSignal

Next ==
  \/ AppStep \/ Choose \/ CsPresent \/ SubmitStep \/ FinishStep \/ FrameStep
  \/ LoseDevice \/ NoticeLoss

Spec == Init /\ [][Next]_vars

\* Each thread keeps running; what the application chooses to do, and the loss
\* of the device, are never forced.
Fairness ==
  /\ WF_vars(AppStep) /\ WF_vars(CsPresent) /\ WF_vars(SubmitStep)
  /\ WF_vars(FinishStep) /\ WF_vars(FrameStep)
FairSpec == Spec /\ Fairness

-----------------------------------------------------------------------------
(* Properties *)

\* Every variable stays in its domain.
TypeOK ==
  /\ {presentWait, maintenance, waitable, lost} \subseteq BOOLEAN
  /\ status \in {"SUCCESS", "DEVICE_LOST"}
  /\ swapchain \in BOOLEAN /\ acquireStatus \in Results
  /\ dirty \in BOOLEAN /\ pending \in BOOLEAN
  /\ surfaceCond \in BOOLEAN /\ frameDrain \in BOOLEAN /\ frameCond \in BOOLEAN
  /\ frameQ \in Seq([id : Frames \union {0}, ok : BOOLEAN])
  /\ {lastSignaled, lastCompleted, signal, frameId} \subseteq Frames \union {0}
  /\ callbacks \subseteq Frames \X (1..Events) /\ events \in 0..Events
  /\ pc \in {"idle", "acquire", "latency", "destroy", "released", "gone"}
            \union {"update", "waitIdle", "waitFinish", "drain", "acquireImage", "create"}
  /\ after \in {"idle", "acquireImage", "create", "released"}
  /\ csQ \in Seq(Frames) /\ submitQ \in Seq(Frames) /\ finishQ \in Seq(Frames)
  /\ submitPc \in {"fetch", "present", "push", "acquireNext", "finish", "retire"}
  /\ result \in Results
  /\ finishPc \in {"fetch", "signal", "pop"}
  /\ framePc \in {"none", "wait", "waitPresent", "complete", "signal", "exited"}

\* The swap chain's frame signal, which the application waits on for its frame
\* latency, reaches a frame only once the GPU is through with it (queue thread)
\* and, where the device has present wait, the display is too (frame thread).
NoEarlyFrame == presentWait => signal <= lastSignaled /\ signal <= lastCompleted

\* The frame signal takes every value once, in order: of the two threads that
\* may signal a frame exactly one does, and never after a later frame was.
FramesInOrder == [][signal' = signal + 1]_signal

\* presentImage and the frame thread use m_swapchain without m_surfaceMutex, so
\* nothing may destroy it under them while the device lives.
SwapchainInUse ==
  /\ status = "SUCCESS"
  /\ submitPc \in {"present", "acquireNext"} \/ framePc = "waitPresent"
  => swapchain

\* Presents emitted whose presentImage has not ended.
Unfinished == Len(csQ) + Len(submitQ) - (IF submitPc = "retire" THEN 1 ELSE 0)

\* "Don't acquire more than one image at a time": m_presentPending stands for the
\* only present between acquireNextImage and the end of presentImage.
AtMostOnePresent == status = "SUCCESS" => Unfinished = (IF pending THEN 1 ELSE 0)

\* Who uses the swap chain, and for how many images at a time.
SwapchainSafe == SwapchainInUse /\ AtMostOnePresent

\* The frame latency event is released once for each Present, occluded or failed
\* ones included, and never more often: its count, the callbacks that wait and
\* the Present under way add up to its first count.
EventBalance ==
  waitable =>
    LET presents == IF pc \in {"idle", "destroy", "released", "gone"} \/ after = "released"
                      THEN 0 ELSE 1
    IN  events + Cardinality(callbacks) + presents = Events

\* While the device lives every Present returns, as the waits for the last present,
\* for the frame thread and for the frame latency all end; so does a wait for the
\* frame latency event ("applications using the semaphore may deadlock" otherwise),
\* even if no image could be acquired; the release of the swap chain ends, and with
\* it the frame thread; and every frame that was presented is signaled, whatever its
\* present returned ("Always signal even on error").
CallsReturn ==
  /\ pc = "acquire" ~> pc = "idle" \/ lost
  /\ events = 0 ~> events > 0 \/ lost
  /\ pc = "destroy" ~> (pc = "gone" /\ framePc \in {"none", "exited"}) \/ lost
  /\ \A f \in Frames : frameId = f ~> signal >= f \/ lost
=============================================================================
