-------------------------- MODULE PresenterProofs --------------------------
(***************************************************************************)
(* The safety properties of Presenter, for any number of frames, frame     *)
(* latency, count of the frame latency event and set of failures, with and *)
(* without present wait, swap chain maintenance and a latency event.       *)
(*                                                                         *)
(* Frames pass through the queues in the order of their ids.  The          *)
(* invariants say which frame each thread has in hand, from the lengths of *)
(* the queues alone (QueuesInv, FinishInv, FramesInv); from that follows   *)
(* which of the two threads signals a frame (SignalInv).  AppInv ties the  *)
(* application's place to the swap chain and to the presents in flight,    *)
(* CountsInv to the frame latency event.                                   *)
(***************************************************************************)
EXTENDS Presenter, SequenceTheorems, FiniteSetTheorems, TLAPS

\* The application is inside destroySwapchain.
TearingDown == pc \in {"waitIdle", "waitFinish", "drain"}

\* The application is inside a Present that may still emit a frame.
Presenting ==
  pc \in {"acquire", "update", "acquireImage", "create"} \/ (TearingDown /\ after # "released")

\* Where the application is.
PlaceInv ==
  /\ TearingDown => after # "idle"
  /\ pc \in {"released", "gone"} => after = "released"
  /\ after = "released" => TearingDown \/ pc \in {"released", "gone"}
  /\ Presenting => frameId < MaxFrames

\* The frames in the CS thread and in the submission queue are the last ones
\* emitted, in order.
QueuesInv ==
  /\ Len(csQ) + Len(submitQ) <= frameId
  /\ \A i \in 1..Len(csQ) : csQ[i] + Len(csQ) = frameId + i
  /\ \A i \in 1..Len(submitQ) : submitQ[i] + Len(submitQ) + Len(csQ) = frameId + i
  /\ submitPc # "fetch" => submitQ # <<>>
  /\ pc = "gone" => csQ = <<>> /\ submitQ = <<>> /\ finishQ = <<>>

\* After a device loss presents are dropped, and nothing reaches the queue thread.
Stopped == status = "DEVICE_LOST" /\ result = "DEVICE_LOST" /\ submitPc \in {"fetch", "retire"}

\* The last frame the queue thread took; it leaves the queue some steps later.
Taken == IF presentWait THEN lastSignaled ELSE signal
InHand == finishPc = "pop" \/ (presentWait /\ finishPc = "signal")
Offset == IF InHand THEN 1 ELSE 0

\* The frames in the finish queue follow the last one the queue thread was through with.
FinishInv ==
  /\ finishPc # "fetch" => finishQ # <<>>
  /\ Offset <= Taken
  /\ \A i \in 1..Len(finishQ) : finishQ[i] + Offset = Taken + i
  /\ Taken + Len(finishQ) + Len(submitQ) + Len(csQ) <= frameId + Offset
  /\ ~Stopped => Taken + Len(finishQ) + Len(submitQ) + Len(csQ) = frameId + Offset

\* The frame at the head of the submission queue was handed to the frame thread.
Pushed == IF submitPc \in {"acquireNext", "finish", "retire"} THEN 1 ELSE 0

\* The frames of the frame thread follow the last one it was through with; frame 0
\* comes after the last of all.
FramesInv ==
  /\ ~presentWait => /\ frameQ = <<>> /\ framePc = "none"
                     /\ lastCompleted = 0 /\ lastSignaled = 0
  /\ presentWait => framePc # "none"
  /\ framePc \in {"waitPresent", "complete"} => frameQ # <<>> /\ pc # "gone"
  /\ pc = "gone" => frameQ \in {<<>>, <<[id |-> 0, ok |-> FALSE]>>}
  /\ pc # "gone" => \A i \in 1..Len(frameQ) : frameQ[i].id = lastCompleted + i
  /\ pc # "gone" => lastCompleted + Len(frameQ) <= frameId
  /\ presentWait /\ ~Stopped /\ pc # "gone" =>
       lastCompleted + Len(frameQ) + Len(submitQ) + Len(csQ) = frameId + Pushed

\* Of the two threads the one that comes second signals the frame, and until it has,
\* the signal is one frame behind.
SignalInv ==
  presentWait =>
    /\ finishPc = "signal" =>
         lastSignaled <= lastCompleted /\ signal + 1 = lastSignaled /\ framePc # "signal"
    /\ framePc = "signal" => lastCompleted <= lastSignaled /\ signal + 1 = lastCompleted
    /\ finishPc # "signal" /\ framePc # "signal" =>
         \/ signal = lastSignaled /\ lastSignaled <= lastCompleted
         \/ signal = lastCompleted /\ lastCompleted <= lastSignaled

\* No present is in flight, and none starts, once the application has waited for
\* the last one; until then the swap chain stays.
ChainInv ==
  status = "SUCCESS" =>
    /\ Locked \/ pc \in {"released", "gone"} => ~pending
    /\ pending \/ (frameQ # <<>> /\ pc # "gone") => swapchain
    /\ Unfinished = (IF pending THEN 1 ELSE 0)

\* The callbacks of one frame are numbered, and without a frame latency event there is none.
CountsInv ==
  /\ \A c \in callbacks : c[2] <= Cardinality({d \in callbacks : d[1] = c[1]})
  /\ ~waitable => callbacks = {} /\ events = Events

Inv == TypeOK /\ PlaceInv /\ QueuesInv /\ FinishInv /\ FramesInv /\ SignalInv /\ ChainInv
       /\ EventBalance /\ CountsInv

-----------------------------------------------------------------------------
(* Parts of the type invariant, and what holds because nothing it is about changed *)

\* The parts of TypeOK: the device and the swap chain with the submission thread
\* that uses it, the application, the queues, and the signals of a frame.
ChainTypes ==
  /\ presentWait \in BOOLEAN /\ maintenance \in BOOLEAN
  /\ waitable \in BOOLEAN /\ lost \in BOOLEAN
  /\ status \in {"SUCCESS", "DEVICE_LOST"}
  /\ swapchain \in BOOLEAN /\ acquireStatus \in Results
  /\ dirty \in BOOLEAN /\ pending \in BOOLEAN
  /\ surfaceCond \in BOOLEAN /\ frameDrain \in BOOLEAN /\ frameCond \in BOOLEAN
  /\ submitPc \in {"fetch", "present", "push", "acquireNext", "finish", "retire"}
  /\ result \in Results

AppTypes ==
  /\ frameId \in 0..MaxFrames
  /\ pc \in {"idle", "acquire", "latency", "destroy", "released", "gone", "update", "waitIdle",
             "waitFinish", "drain", "acquireImage", "create"}
  /\ after \in {"idle", "acquireImage", "create", "released"}

QueueTypes ==
  /\ frameQ \in Seq([id : 0..MaxFrames, ok : BOOLEAN])
  /\ csQ \in Seq(Frames) /\ submitQ \in Seq(Frames) /\ finishQ \in Seq(Frames)

SignalTypes ==
  /\ lastSignaled \in 0..MaxFrames /\ lastCompleted \in 0..MaxFrames /\ signal \in 0..MaxFrames
  /\ callbacks \subseteq Frames \X (1..Events) /\ events \in 0..Events
  /\ finishPc \in {"fetch", "signal", "pop"}
  /\ framePc \in {"none", "wait", "waitPresent", "complete", "signal", "exited"}

LEMMA TypeParts == TypeOK <=> (ChainTypes /\ AppTypes /\ QueueTypes /\ SignalTypes)
<1>1. Frames \union {0} = 0..MaxFrames
  BY PresenterAssumption DEF PresenterAssumption, Frames
<1> QED
  BY <1>1 DEF TypeOK, ChainTypes, AppTypes, QueueTypes, SignalTypes

LEMMA TypePartsNext == TypeOK' <=> (ChainTypes' /\ AppTypes' /\ QueueTypes' /\ SignalTypes')
<1>1. Frames \union {0} = 0..MaxFrames
  BY PresenterAssumption DEF PresenterAssumption, Frames
<1> QED
  BY <1>1 DEF TypeOK, ChainTypes, AppTypes, QueueTypes, SignalTypes

\* The types that a step of the application on the swap chain keeps.
LEMMA ChainTypesKept ==
  ASSUME ChainTypes,
         UNCHANGED <<deviceVars, status, frameDrain, frameCond, submitVars>>,
         swapchain' \in BOOLEAN, acquireStatus' \in Results, dirty' \in BOOLEAN,
         pending' \in BOOLEAN, surfaceCond' \in BOOLEAN
  PROVE  ChainTypes'
<1>1. UNCHANGED <<presentWait, maintenance, waitable, lost, status>>
  BY DEF deviceVars
<1>2. UNCHANGED <<frameDrain, frameCond, submitPc, result>>
  BY DEF submitVars
<1> QED
  BY <1>1, <1>2 DEF ChainTypes

\* A step that leaves the queues and their threads alone.
LEMMA QueuesUntouched ==
  ASSUME Inv,
         UNCHANGED <<presentWait, status, queueVars, frameQ, lastSignaled, lastCompleted, signal,
                     submitVars, finishPc, framePc, frameId>>,
         (pc' = "gone") <=> (pc = "gone")
  PROVE  QueueTypes' /\ QueuesInv' /\ FinishInv' /\ FramesInv' /\ SignalInv'
<1> USE DEF Inv, queueVars, submitVars
<1>1. QueueTypes'
  BY TypeParts DEF QueueTypes
<1>2. QueuesInv'
  BY DEF QueuesInv
<1>3. FinishInv'
  BY DEF FinishInv, Taken, Offset, InHand, Stopped
<1>4. FramesInv'
  BY DEF FramesInv, Pushed, Stopped
<1>5. SignalInv'
  BY DEF SignalInv
<1> QED
  BY <1>1, <1>2, <1>3, <1>4, <1>5

\* A step that leaves the application and its frame latency event alone.
LEMMA AppUntouched ==
  ASSUME Inv, UNCHANGED <<waitable, appVars, callbacks, events>>
  PROVE  AppTypes' /\ PlaceInv' /\ EventBalance' /\ CountsInv'
<1> USE DEF Inv, appVars
<1>1. AppTypes' /\ PlaceInv'
  BY TypeParts DEF AppTypes, PlaceInv, Presenting, TearingDown
<1>2. EventBalance' /\ CountsInv'
  BY DEF EventBalance, CountsInv
<1> QED
  BY <1>1, <1>2

\* A step that leaves the event alone and does not begin or end a Present.
LEMMA EventUntouched ==
  ASSUME Inv, UNCHANGED <<waitable, callbacks, events>>,
         (pc' \in {"idle", "destroy", "released", "gone"} \/ after' = "released")
           <=> (pc \in {"idle", "destroy", "released", "gone"} \/ after = "released")
  PROVE  EventBalance' /\ CountsInv'
  BY DEF Inv, EventBalance, CountsInv

-----------------------------------------------------------------------------
(* The callbacks of the frame latency event *)

LEMMA CallbacksFinite ==
  ASSUME SignalTypes, NEW S \in SUBSET callbacks
  PROVE  IsFiniteSet(S) /\ Cardinality(S) \in Nat /\ Cardinality(S) <= Cardinality(callbacks)
         /\ Cardinality(callbacks) \in Nat
<1>1. IsFiniteSet(Frames) /\ IsFiniteSet(1..Events)
  BY PresenterAssumption, FS_Interval DEF PresenterAssumption, Frames
<1>2. IsFiniteSet(Frames \X (1..Events))
  BY <1>1, FS_Product
<1>3. IsFiniteSet(callbacks)
  BY <1>2, FS_Subset DEF SignalTypes
<1> QED
  BY <1>3, FS_Subset, FS_CardinalityType

\* A new callback differs from those there are, and keeps them numbered.
LEMMA CallbackAdded ==
  ASSUME SignalTypes, CountsInv, NEW f \in Frames,
         callbacks' = callbacks \union {NewCallback(f)}, Cardinality(callbacks) < Events
  PROVE  /\ callbacks' \subseteq Frames \X (1..Events)
         /\ Cardinality(callbacks') = Cardinality(callbacks) + 1
         /\ \A c \in callbacks' : c[2] <= Cardinality({d \in callbacks' : d[1] = c[1]})
<1> DEFINE Own == {c \in callbacks : c[1] = f}
<1> DEFINE new == <<f, Cardinality(Own) + 1>>
<1>1. NewCallback(f) = new
  BY DEF NewCallback
<1>2. /\ IsFiniteSet(Own) /\ Cardinality(Own) \in Nat /\ Cardinality(Own) <= Cardinality(callbacks)
      /\ IsFiniteSet(callbacks) /\ Cardinality(callbacks) \in Nat
  BY CallbacksFinite
<1>3. new \notin callbacks
  <2> SUFFICES ASSUME new \in callbacks PROVE FALSE
    OBVIOUS
  <2>1. new[2] <= Cardinality({d \in callbacks : d[1] = new[1]})
    BY DEF CountsInv
  <2>2. new[1] = f /\ new[2] = Cardinality(Own) + 1
    OBVIOUS
  <2> QED
    BY <1>2, <2>1, <2>2
<1>4. Cardinality(callbacks') = Cardinality(callbacks) + 1
  BY <1>1, <1>2, <1>3, FS_AddElement
<1>5. new \in Frames \X (1..Events)
  BY <1>2, PresenterAssumption DEF PresenterAssumption
<1>6. callbacks' \subseteq Frames \X (1..Events)
  BY <1>1, <1>5 DEF SignalTypes
<1>7. Cardinality(Own \union {new}) = Cardinality(Own) + 1
  BY <1>2, <1>3, FS_AddElement
<1>8. \A c \in callbacks' : c[2] <= Cardinality({d \in callbacks' : d[1] = c[1]})
  <2> TAKE c \in callbacks'
  <2>1. CASE c[1] = f
    <3>1. {d \in callbacks' : d[1] = c[1]} = Own \union {new}
      BY <1>1, <2>1
    <3>2. c[2] <= Cardinality(Own) + 1
      <4>1. CASE c = new
        BY <1>2, <4>1
      <4>2. CASE c \in Own
        <5>1. c[2] <= Cardinality({d \in callbacks : d[1] = c[1]}) /\ c[2] \in 1..Events
          BY <4>2 DEF CountsInv, SignalTypes
        <5>2. {d \in callbacks : d[1] = c[1]} = Own
          BY <2>1
        <5> QED
          BY <1>2, <5>1, <5>2, PresenterAssumption DEF PresenterAssumption
      <4> QED
        BY <1>1, <2>1, <4>1, <4>2
    <3> QED
      BY <1>7, <3>1, <3>2
  <2>2. CASE c[1] # f
    <3>1. {d \in callbacks' : d[1] = c[1]} = {d \in callbacks : d[1] = c[1]} /\ c \in callbacks
      BY <1>1, <2>2
    <3> QED
      BY <3>1 DEF CountsInv
  <2> QED
    BY <2>1, <2>2
<1> QED
  BY <1>4, <1>6, <1>8

\* signal(f) calls every callback that is due once; the others keep their numbers.
LEMMA CallbacksCalled ==
  ASSUME Inv, NEW f \in Frames \union {0}, Signal(f), UNCHANGED <<waitable, appVars>>
  PROVE  /\ callbacks' \subseteq Frames \X (1..Events) /\ events' \in 0..Events
         /\ EventBalance' /\ CountsInv'
<1>1. SignalTypes /\ f \in Nat
  BY TypeParts, PresenterAssumption DEF Inv, Frames, PresenterAssumption
<1>2. callbacks' = callbacks \ Called(f) /\ events' = events + Cardinality(Called(f))
  BY DEF Signal
<1>3. callbacks' \subseteq Frames \X (1..Events) /\ Called(f) \subseteq callbacks
  BY <1>1, <1>2 DEF SignalTypes, Called
<1>4. /\ IsFiniteSet(callbacks) /\ Cardinality(callbacks) \in Nat
      /\ IsFiniteSet(Called(f)) /\ Cardinality(Called(f)) \in Nat
      /\ IsFiniteSet(callbacks \ Called(f)) /\ Cardinality(callbacks \ Called(f)) \in Nat
  BY <1>1, <1>3, CallbacksFinite
<1>5. Cardinality(callbacks') = Cardinality(callbacks) - Cardinality(Called(f))
  <2>1. callbacks \intersect Called(f) = Called(f)
    BY <1>3
  <2>2. Cardinality(callbacks \ Called(f))
          = Cardinality(callbacks) - Cardinality(callbacks \intersect Called(f))
    <3>1. IsFiniteSet(callbacks)
      BY <1>4
    <3> QED
      BY <3>1, FS_Difference
  <2> QED
    BY <1>2, <2>1, <2>2
<1>6. events' + Cardinality(callbacks') = events + Cardinality(callbacks)
  BY <1>1, <1>2, <1>4, <1>5, PresenterAssumption DEF SignalTypes, PresenterAssumption
<1>7. EventBalance'
  BY <1>6 DEF Inv, EventBalance, appVars
<1>8. events' \in 0..Events
  <2>1. CASE waitable
    <3>1. events + Cardinality(callbacks) <= Events
      BY <1>1, <1>4, <2>1, PresenterAssumption
      DEF Inv, EventBalance, SignalTypes, PresenterAssumption
    <3>2. Cardinality(callbacks') \in Nat /\ events' \in Nat
      BY <1>1, <1>2, <1>4, PresenterAssumption DEF SignalTypes, PresenterAssumption
    <3>3. PICK e \in Nat : e = events'
      BY <3>2
    <3>4. e <= Events
      BY <1>6, <1>1, <1>4, <3>1, <3>2, <3>3, PresenterAssumption DEF SignalTypes, PresenterAssumption
    <3> QED
      BY <3>3, <3>4, PresenterAssumption DEF PresenterAssumption
  <2>2. CASE ~waitable
    <3>1. Called(f) = {} /\ events = Events
      BY <2>2 DEF Inv, CountsInv, Called
    <3> QED
      BY <1>2, <3>1, FS_EmptySet, PresenterAssumption DEF PresenterAssumption
  <2> QED
    BY <2>1, <2>2
<1>9. CountsInv'
  <2>1. ASSUME NEW c \in callbacks' PROVE c[2] <= Cardinality({d \in callbacks' : d[1] = c[1]})
    <3>1. c \in callbacks /\ ~(c[1] <= f)
      BY <1>2, <2>1 DEF Called
    <3>2. {d \in callbacks' : d[1] = c[1]} = {d \in callbacks : d[1] = c[1]}
      BY <1>2, <3>1 DEF Called
    <3> QED
      BY <3>1, <3>2 DEF Inv, CountsInv
  <2>2. CASE ~waitable
    <3>1. Called(f) = {} /\ callbacks = {} /\ events = Events
      BY <2>2 DEF Inv, CountsInv, Called
    <3> QED
      BY <1>2, <2>1, <3>1, FS_EmptySet, PresenterAssumption DEF PresenterAssumption, CountsInv
  <2> QED
    BY <2>1, <2>2 DEF CountsInv
<1> QED
  BY <1>3, <1>7, <1>8, <1>9
-----------------------------------------------------------------------------
(* The application *)

LEMMA PresentStep ==
  ASSUME Inv, Present
  PROVE  Inv'
<1> USE DEF Inv, Present, App, Unchanged, deviceVars, chainVars, frameVars, appVars, queueVars, submitVars, signalVars
<1>1. ChainTypes'
  BY TypeParts DEF ChainTypes
<1>2. AppTypes' /\ PlaceInv'
  BY TypeParts DEF AppTypes, PlaceInv, Presenting, TearingDown
<1>3. QueueTypes' /\ QueuesInv' /\ FinishInv' /\ FramesInv' /\ SignalInv'
  BY <1>2, QueuesUntouched DEF AppTypes, PlaceInv
<1>4. ChainInv'
  BY TypeParts DEF ChainInv, Unfinished, Locked, PlaceInv, AppTypes
<1>5. /\ events \in Nat /\ Cardinality(callbacks) \in Nat
      /\ waitable => events + Cardinality(callbacks) = Events /\ events > 0
  BY TypeParts, CallbacksFinite, PresenterAssumption
  DEF SignalTypes, EventBalance, PlaceInv, TearingDown, PresenterAssumption
<1>6. events' \in 0..Events /\ callbacks' = callbacks
  BY <1>5, TypeParts, PresenterAssumption DEF SignalTypes, PresenterAssumption
<1>7. SignalTypes'
  BY <1>6, TypeParts DEF SignalTypes
<1>8. EventBalance' /\ CountsInv'
  <2>1. CASE waitable
    <3>1. events' = events - 1 /\ pc' \notin {"idle", "destroy", "released", "gone"} /\ after' # "released"
      BY <2>1 DEF PlaceInv, TearingDown
    <3>2. events' + Cardinality(callbacks) + 1 = Events
      BY <1>5, <2>1, <3>1, PresenterAssumption DEF PresenterAssumption
    <3> QED
      BY <1>6, <2>1, <3>1, <3>2 DEF EventBalance, CountsInv
  <2>2. CASE ~waitable
    BY <2>2, TypeParts DEF EventBalance, CountsInv, ChainTypes
  <2> QED
    BY <2>1, <2>2
<1> QED
  BY <1>1, <1>2, <1>3, <1>4, <1>7, <1>8, TypePartsNext

LEMMA SetPropertiesStep ==
  ASSUME Inv, SetProperties
  PROVE  Inv'
<1> USE DEF Inv, SetProperties, Unchanged, deviceVars, chainVars, frameVars, appVars, queueVars, submitVars, signalVars
<1>1. ChainTypes'
  BY TypeParts DEF ChainTypes
<1>2. AppTypes' /\ PlaceInv'
  BY TypeParts DEF AppTypes, PlaceInv, Presenting, TearingDown
<1>3. QueueTypes' /\ QueuesInv' /\ FinishInv' /\ FramesInv' /\ SignalInv'
  BY <1>2, QueuesUntouched DEF AppTypes, PlaceInv
<1>4. ChainInv'
  BY TypeParts DEF ChainInv, Unfinished, Locked, PlaceInv, AppTypes
<1>5. EventBalance' /\ CountsInv'
  BY AppUntouched
<1>6. SignalTypes'
  BY TypeParts DEF SignalTypes
<1> QED
  BY <1>1, <1>2, <1>3, <1>4, <1>5, <1>6, TypePartsNext

LEMMA CheckSwapChainStatusStep ==
  ASSUME Inv, CheckSwapChainStatus
  PROVE  Inv'
<1> USE DEF Inv, CheckSwapChainStatus, Unchanged, deviceVars, chainVars, frameVars, appVars, queueVars, submitVars, signalVars
<1>1. ChainTypes'
  BY TypeParts DEF ChainTypes
<1>2. AppTypes' /\ PlaceInv'
  BY TypeParts DEF AppTypes, PlaceInv, Presenting, TearingDown
<1>3. QueueTypes' /\ QueuesInv' /\ FinishInv' /\ FramesInv' /\ SignalInv'
  BY <1>2, QueuesUntouched DEF AppTypes, PlaceInv
<1>4. ChainInv'
  BY TypeParts DEF ChainInv, Unfinished, Locked, PlaceInv, AppTypes
<1>5. EventBalance' /\ CountsInv'
  BY AppUntouched
<1>6. SignalTypes'
  BY TypeParts DEF SignalTypes
<1> QED
  BY <1>1, <1>2, <1>3, <1>4, <1>5, <1>6, TypePartsNext

LEMMA ReleaseStep ==
  ASSUME Inv, Release
  PROVE  Inv'
<1> USE DEF Inv, Release, App, Unchanged, deviceVars, chainVars, frameVars, appVars, queueVars, submitVars, signalVars
<1>1. ChainTypes'
  BY TypeParts DEF ChainTypes
<1>2. AppTypes' /\ PlaceInv'
  BY TypeParts DEF AppTypes, PlaceInv, Presenting, TearingDown
<1>3. QueueTypes' /\ QueuesInv' /\ FinishInv' /\ FramesInv' /\ SignalInv'
  BY <1>2, QueuesUntouched DEF AppTypes, PlaceInv
<1>4. ChainInv'
  BY TypeParts DEF ChainInv, Unfinished, Locked, PlaceInv, AppTypes
<1>5. EventBalance' /\ CountsInv'
  BY EventUntouched, TypeParts DEF PlaceInv, TearingDown, AppTypes
<1>6. SignalTypes'
  BY TypeParts DEF SignalTypes
<1> QED
  BY <1>1, <1>2, <1>3, <1>4, <1>5, <1>6, TypePartsNext

LEMMA AcquireStep ==
  ASSUME Inv, Acquire
  PROVE  Inv'
<1> USE DEF Inv, Acquire, NoPresentInFlight, deviceVars, chainVars, frameVars, appVars, queueVars, submitVars, signalVars
<1>1. ChainTypes'
  <2>1. ChainTypes
    BY TypeParts
  <2>2. UNCHANGED <<deviceVars, status, frameDrain, frameCond, submitVars>>
    OBVIOUS
  <2>3. UNCHANGED <<swapchain, acquireStatus, dirty, pending>>
    OBVIOUS
  <2>4. surfaceCond' = surfaceCond \/ surfaceCond' = TRUE
    OBVIOUS
  <2>5. surfaceCond' \in BOOLEAN
    BY <2>1, <2>4 DEF ChainTypes
  <2>6. /\ swapchain' \in BOOLEAN /\ acquireStatus' \in Results
        /\ dirty' \in BOOLEAN /\ pending' \in BOOLEAN
    BY <2>1, <2>3 DEF ChainTypes
  <2> HIDE DEF Inv, Acquire, deviceVars, chainVars, frameVars, submitVars
  <2> QED
    BY <2>1, <2>2, <2>3, <2>4, <2>5, <2>6, ChainTypesKept
<1>2. AppTypes' /\ PlaceInv'
  BY TypeParts DEF AppTypes, PlaceInv, Presenting, TearingDown
<1>3. QueueTypes' /\ QueuesInv' /\ FinishInv' /\ FramesInv' /\ SignalInv'
  BY <1>2, QueuesUntouched DEF AppTypes, PlaceInv
<1>4. ChainInv'
  BY TypeParts DEF ChainInv, Unfinished, Locked, PlaceInv, AppTypes
<1>5. EventBalance' /\ CountsInv'
  BY EventUntouched, TypeParts DEF PlaceInv, TearingDown, AppTypes
<1>6. SignalTypes'
  BY TypeParts DEF SignalTypes
<1> QED
  BY <1>1, <1>2, <1>3, <1>4, <1>5, <1>6, TypePartsNext

LEMMA UpdateSwapChainStep ==
  ASSUME Inv, UpdateSwapChain
  PROVE  Inv'
<1> USE DEF Inv, UpdateSwapChain, Teardown, Unchanged, deviceVars, chainVars, frameVars, appVars, queueVars, submitVars, signalVars
<1>1. ChainTypes'
  <2>1. ChainTypes
    BY TypeParts
  <2>2. UNCHANGED <<deviceVars, status, frameDrain, frameCond, submitVars>>
    OBVIOUS
  <2>3. UNCHANGED <<swapchain, acquireStatus, pending, surfaceCond>> /\ dirty' = FALSE
    OBVIOUS
  <2>4. /\ swapchain' \in BOOLEAN /\ acquireStatus' \in Results
        /\ dirty' \in BOOLEAN /\ pending' \in BOOLEAN /\ surfaceCond' \in BOOLEAN
    BY <2>1, <2>3 DEF ChainTypes
  <2> HIDE DEF Inv, UpdateSwapChain, Unchanged, deviceVars, chainVars, frameVars, submitVars
  <2> QED
    BY <2>1, <2>2, <2>3, <2>4, ChainTypesKept
<1>2. AppTypes' /\ PlaceInv'
  BY TypeParts DEF AppTypes, PlaceInv, Presenting, TearingDown
<1>3. QueueTypes' /\ QueuesInv' /\ FinishInv' /\ FramesInv' /\ SignalInv'
  BY <1>2, QueuesUntouched DEF AppTypes, PlaceInv
<1>4. ChainInv'
  BY TypeParts DEF ChainInv, Unfinished, Locked, PlaceInv, AppTypes
<1>5. EventBalance' /\ CountsInv'
  BY EventUntouched, TypeParts DEF PlaceInv, TearingDown, AppTypes
<1>6. SignalTypes'
  BY TypeParts DEF SignalTypes
<1> QED
  BY <1>1, <1>2, <1>3, <1>4, <1>5, <1>6, TypePartsNext

LEMMA WaitForIdleStep ==
  ASSUME Inv, WaitForIdle
  PROVE  Inv'
<1> USE DEF Inv, WaitForIdle, App, Unchanged, deviceVars, chainVars, frameVars, appVars, queueVars, submitVars, signalVars
<1>1. ChainTypes'
  BY TypeParts DEF ChainTypes
<1>2. AppTypes' /\ PlaceInv'
  BY TypeParts DEF AppTypes, PlaceInv, Presenting, TearingDown
<1>3. QueueTypes' /\ QueuesInv' /\ FinishInv' /\ FramesInv' /\ SignalInv'
  BY <1>2, QueuesUntouched DEF AppTypes, PlaceInv
<1>4. ChainInv'
  BY TypeParts DEF ChainInv, Unfinished, Locked, PlaceInv, AppTypes
<1>5. EventBalance' /\ CountsInv'
  BY EventUntouched, TypeParts DEF PlaceInv, TearingDown, AppTypes
<1>6. SignalTypes'
  BY TypeParts DEF SignalTypes
<1> QED
  BY <1>1, <1>2, <1>3, <1>4, <1>5, <1>6, TypePartsNext

LEMMA DestroySwapchainStep ==
  ASSUME Inv, DestroySwapchain
  PROVE  Inv'
<1> USE DEF Inv, DestroySwapchain, Drained, Unchanged, deviceVars, chainVars, frameVars, appVars, queueVars, submitVars, signalVars
<1>1. ChainTypes'
  <2>1. CASE frameQ = <<>>
    <3>1. /\ acquireStatus' = "NOT_READY" /\ swapchain' = FALSE /\ pending' = FALSE
          /\ UNCHANGED <<dirty, surfaceCond>>
          /\ UNCHANGED <<deviceVars, status, frameDrain, frameCond, submitVars>>
      BY <2>1
    <3>2. ChainTypes
      BY TypeParts
    <3>3. /\ swapchain' \in BOOLEAN /\ acquireStatus' \in Results
          /\ dirty' \in BOOLEAN /\ pending' \in BOOLEAN /\ surfaceCond' \in BOOLEAN
      BY <3>1, <3>2 DEF ChainTypes, Results
    <3> HIDE DEF Inv, DestroySwapchain, Drained, Unchanged, deviceVars, chainVars, frameVars, submitVars
    <3> QED
      BY <3>1, <3>2, <3>3, ChainTypesKept
  <2>2. CASE frameQ # <<>>
    BY <2>2, TypeParts DEF ChainTypes
  <2> QED
    BY <2>1, <2>2
<1>2. AppTypes' /\ PlaceInv'
  BY TypeParts DEF AppTypes, PlaceInv, Presenting, TearingDown
<1>3. QueueTypes' /\ QueuesInv' /\ FinishInv' /\ FramesInv' /\ SignalInv'
  BY <1>2, QueuesUntouched DEF AppTypes, PlaceInv
<1>4. ChainInv'
  BY TypeParts DEF ChainInv, Unfinished, Locked, PlaceInv, AppTypes
<1>5. EventBalance' /\ CountsInv'
  BY EventUntouched, TypeParts DEF PlaceInv, TearingDown, AppTypes
<1>6. SignalTypes'
  BY TypeParts DEF SignalTypes
<1> QED
  BY <1>1, <1>2, <1>3, <1>4, <1>5, <1>6, TypePartsNext

LEMMA SyncFrameLatencyStep ==
  ASSUME Inv, SyncFrameLatency
  PROVE  Inv'
<1> USE DEF Inv, SyncFrameLatency, App, Unchanged, deviceVars, chainVars, frameVars, appVars, queueVars, submitVars, signalVars
<1>1. ChainTypes'
  BY TypeParts DEF ChainTypes
<1>2. AppTypes' /\ PlaceInv'
  BY TypeParts DEF AppTypes, PlaceInv, Presenting, TearingDown
<1>3. QueueTypes' /\ QueuesInv' /\ FinishInv' /\ FramesInv' /\ SignalInv'
  BY <1>2, QueuesUntouched DEF AppTypes, PlaceInv
<1>4. ChainInv'
  BY TypeParts DEF ChainInv, Unfinished, Locked, PlaceInv, AppTypes
<1>5. /\ events \in Nat /\ Cardinality(callbacks) \in Nat /\ frameId \in Nat /\ signal \in Nat
      /\ waitable => events + Cardinality(callbacks) + 1 = Events
  BY TypeParts, CallbacksFinite, PresenterAssumption
  DEF SignalTypes, AppTypes, EventBalance, PlaceInv, TearingDown, PresenterAssumption
<1>6. pc' \in {"idle", "destroy", "released", "gone"}
  OBVIOUS
<1>7. CASE waitable /\ signal < frameId /\ callbacks' = callbacks \union {NewCallback(frameId)} /\ events' = events
  <2>1. frameId \in Frames
    BY <1>5, <1>7, TypeParts, PresenterAssumption DEF AppTypes, Frames, PresenterAssumption
  <2>2. /\ callbacks' \subseteq Frames \X (1..Events)
        /\ Cardinality(callbacks') = Cardinality(callbacks) + 1
        /\ \A c \in callbacks' : c[2] <= Cardinality({d \in callbacks' : d[1] = c[1]})
    <3>1. Cardinality(callbacks) < Events
      BY <1>5, <1>7, PresenterAssumption DEF PresenterAssumption
    <3>2. SignalTypes /\ CountsInv
      BY TypeParts
    <3> HIDE DEF Inv, SyncFrameLatency
    <3> QED
      BY <1>7, <2>1, <3>1, <3>2, CallbackAdded
  <2>3. SignalTypes'
    BY <1>7, <2>2, TypeParts DEF SignalTypes
  <2>4. events' + Cardinality(callbacks') = Events
    BY <1>5, <1>7, <2>2, PresenterAssumption DEF PresenterAssumption
  <2>5. EventBalance' /\ CountsInv'
    BY <1>6, <1>7, <2>2, <2>4, PresenterAssumption DEF EventBalance, CountsInv, PresenterAssumption
  <2> QED
    BY <1>1, <1>2, <1>3, <1>4, <2>3, <2>5, TypePartsNext
<1>8. CASE waitable /\ callbacks' = callbacks /\ events' = events + 1
  <2>1. events' \in 0..Events /\ events' + Cardinality(callbacks') = Events
    BY <1>5, <1>8, PresenterAssumption DEF PresenterAssumption
  <2>2. SignalTypes'
    BY <1>8, <2>1, TypeParts DEF SignalTypes
  <2>3. EventBalance' /\ CountsInv'
    BY <1>5, <1>6, <1>8, <2>1, PresenterAssumption DEF EventBalance, CountsInv, PresenterAssumption
  <2> QED
    BY <1>1, <1>2, <1>3, <1>4, <2>2, <2>3, TypePartsNext
<1>9. CASE ~waitable /\ callbacks' = callbacks /\ events' = events
  <2>1. SignalTypes' /\ EventBalance' /\ CountsInv'
    BY <1>9, TypeParts DEF SignalTypes, EventBalance, CountsInv
  <2> QED
    BY <1>1, <1>2, <1>3, <1>4, <2>1, TypePartsNext
<1> QED
  BY <1>7, <1>8, <1>9

LEMMA DestroyResourcesStep ==
  ASSUME Inv, DestroyResources
  PROVE  Inv'
<1> USE DEF Inv, DestroyResources, NoPresentInFlight, Teardown, deviceVars, chainVars, frameVars, appVars, queueVars, submitVars, signalVars
<1>1. ChainTypes'
  <2>1. ChainTypes
    BY TypeParts
  <2>2. UNCHANGED <<deviceVars, status, chainVars, frameVars, submitVars>>
    OBVIOUS
  <2>3. surfaceCond' = surfaceCond \/ surfaceCond' = TRUE
    OBVIOUS
  <2>4. surfaceCond' \in BOOLEAN
    BY <2>1, <2>3 DEF ChainTypes
  <2> HIDE DEF DestroyResources, Inv
  <2> QED
    BY <2>1, <2>2, <2>4 DEF ChainTypes
<1>2. AppTypes' /\ PlaceInv'
  BY TypeParts DEF AppTypes, PlaceInv, Presenting, TearingDown
<1>3. QueueTypes' /\ QueuesInv' /\ FinishInv' /\ FramesInv' /\ SignalInv'
  BY <1>2, QueuesUntouched DEF AppTypes, PlaceInv
<1>4. ChainInv'
  BY TypeParts DEF ChainInv, Unfinished, Locked, PlaceInv, AppTypes
<1>5. EventBalance' /\ CountsInv'
  BY EventUntouched, TypeParts DEF PlaceInv, TearingDown, AppTypes
<1>6. SignalTypes'
  BY TypeParts DEF SignalTypes
<1> QED
  BY <1>1, <1>2, <1>3, <1>4, <1>5, <1>6, TypePartsNext
\* What the driver answers is a result.
LEMMA AnswersAreResults == AcquireResults \subseteq Results
  BY DEF AcquireResults, Answer, Results

LEMMA Lengths ==
  ASSUME TypeOK
  PROVE  /\ Len(csQ) \in Nat /\ Len(submitQ) \in Nat /\ Len(finishQ) \in Nat /\ Len(frameQ) \in Nat
         /\ frameId \in Nat /\ signal \in Nat /\ lastSignaled \in Nat /\ lastCompleted \in Nat
         /\ Taken \in Nat /\ Offset \in {0, 1} /\ Pushed \in {0, 1} /\ MaxFrames \in Nat
  BY TypeParts, LenProperties, PresenterAssumption
  DEF QueueTypes, AppTypes, SignalTypes, Taken, Offset, Pushed, PresenterAssumption

LEMMA Entries ==
  ASSUME TypeOK
  PROVE  /\ \A i \in 1..Len(csQ) : csQ[i] \in Frames /\ csQ[i] \in Nat
         /\ \A i \in 1..Len(submitQ) : submitQ[i] \in Frames /\ submitQ[i] \in Nat
         /\ \A i \in 1..Len(finishQ) : finishQ[i] \in Frames /\ finishQ[i] \in Nat
         /\ \A i \in 1..Len(frameQ) : frameQ[i] \in [id : 0..MaxFrames, ok : BOOLEAN]
         /\ \A i \in 1..Len(frameQ) : frameQ[i].id \in Nat
<1>1. Frames \subseteq Nat /\ 0..MaxFrames \subseteq Nat
  BY PresenterAssumption DEF PresenterAssumption, Frames
<1>2. QueueTypes
  BY TypeParts
<1> HIDE DEF Frames
<1>3. /\ \A i \in 1..Len(csQ) : csQ[i] \in Frames
      /\ \A i \in 1..Len(submitQ) : submitQ[i] \in Frames
      /\ \A i \in 1..Len(finishQ) : finishQ[i] \in Frames
      /\ \A i \in 1..Len(frameQ) : frameQ[i] \in [id : 0..MaxFrames, ok : BOOLEAN]
  BY <1>2, ElementOfSeq DEF QueueTypes
<1> QED
  BY <1>1, <1>3

\* A frame emitted to the CS thread takes its place behind all the others.
LEMMA EmitStep ==
  ASSUME Inv, pc \in {"acquireImage", "create"}, NEW s \in Results, EmitPresent(s),
         UNCHANGED <<presentWait, status, submitQ, finishQ, frameQ, lastSignaled, lastCompleted,
                     signal, submitVars, finishPc, framePc, after>>
  PROVE  AppTypes' /\ PlaceInv' /\ QueueTypes' /\ QueuesInv' /\ FinishInv' /\ FramesInv'
         /\ SignalInv'
<1> USE DEF Inv, submitVars
<1>0. frameId' = frameId + 1 /\ csQ' = Append(csQ, frameId + 1) /\ pc' = "latency"
  BY DEF EmitPresent
<1>a. /\ Len(csQ) \in Nat /\ Len(submitQ) \in Nat /\ Len(finishQ) \in Nat /\ Len(frameQ) \in Nat
      /\ frameId \in Nat /\ Taken \in Nat /\ Offset \in Nat /\ Pushed \in Nat /\ lastCompleted \in Nat
  BY Lengths
<1>1. frameId < MaxFrames /\ after # "released"
  BY DEF PlaceInv, Presenting, TearingDown
<1>2. frameId + 1 \in Frames /\ frameId' \in 0..MaxFrames
  BY <1>0, <1>1, Lengths DEF Frames
<1>3. AppTypes' /\ PlaceInv'
  BY <1>0, <1>1, <1>2, TypeParts DEF AppTypes, PlaceInv, Presenting, TearingDown
<1>4. /\ csQ' \in Seq(Frames) /\ Len(csQ') = Len(csQ) + 1
      /\ \A i \in 1..Len(csQ) : csQ'[i] = csQ[i]
      /\ csQ'[Len(csQ) + 1] = frameId + 1
  BY <1>0, <1>2, TypeParts, AppendProperties DEF QueueTypes
<1>5. QueueTypes'
  BY <1>4, TypeParts DEF QueueTypes
<1>6. QueuesInv'
  <2>1. ASSUME NEW i \in 1..(Len(csQ) + 1)
        PROVE  csQ'[i] + (Len(csQ) + 1) = (frameId + 1) + i
    <3>1. CASE i = Len(csQ) + 1
      BY <1>4, <3>1, Lengths
    <3>2. CASE i # Len(csQ) + 1
      <4>1. i \in 1..Len(csQ) /\ csQ[i] \in Nat
        BY <3>2, Lengths, Entries
      <4>2. csQ[i] + Len(csQ) = frameId + i
        BY <4>1 DEF QueuesInv
      <4> QED
        BY <1>4, <1>a, <4>1, <4>2
    <3> QED
      BY <3>1, <3>2
  <2>2. ASSUME NEW i \in 1..Len(submitQ)
        PROVE  submitQ[i] + Len(submitQ) + (Len(csQ) + 1) = (frameId + 1) + i
    <3>1. submitQ[i] + Len(submitQ) + Len(csQ) = frameId + i /\ submitQ[i] \in Nat
      BY <2>2, Entries DEF QueuesInv
    <3> QED
      BY <1>a, <3>1, SMTT(30)
  <2>3. (Len(csQ) + 1) + Len(submitQ) <= frameId + 1
    BY <1>a DEF QueuesInv
  <2> QED
    BY <1>0, <1>4, <2>1, <2>2, <2>3 DEF QueuesInv
<1>7. FinishInv'
  <2>1. Taken' = Taken /\ Offset' = Offset /\ (Stopped' <=> Stopped)
    BY DEF Taken, Offset, InHand, Stopped
  <2>2. /\ Taken + Len(finishQ) + Len(submitQ) + (Len(csQ) + 1) <= (frameId + 1) + Offset
        /\ ~Stopped => Taken + Len(finishQ) + Len(submitQ) + (Len(csQ) + 1) = (frameId + 1) + Offset
    BY <1>a DEF FinishInv
  <2> QED
    BY <1>0, <1>4, <2>1, <2>2 DEF FinishInv
<1>8. FramesInv'
  <2>1. Pushed' = Pushed /\ (Stopped' <=> Stopped)
    BY DEF Pushed, Stopped
  <2>2. lastCompleted + Len(frameQ) <= frameId + 1
    BY <1>a DEF FramesInv
  <2>3. presentWait /\ ~Stopped =>
          lastCompleted + Len(frameQ) + Len(submitQ) + (Len(csQ) + 1) = (frameId + 1) + Pushed
    <3> SUFFICES ASSUME presentWait, ~Stopped
                 PROVE  lastCompleted + Len(frameQ) + Len(submitQ) + (Len(csQ) + 1)
                          = (frameId + 1) + Pushed
      OBVIOUS
    <3>1. lastCompleted + Len(frameQ) + Len(submitQ) + Len(csQ) = frameId + Pushed
      BY DEF FramesInv
    <3> QED
      BY <1>a, <3>1
  <2> QED
    BY <1>0, <1>4, <2>1, <2>2, <2>3 DEF FramesInv
<1>9. SignalInv'
  BY DEF SignalInv
<1> QED
  BY <1>3, <1>5, <1>6, <1>7, <1>8, <1>9

\* At that time no present is in flight.
LEMMA EmitChain ==
  ASSUME Inv, pc \in {"acquireImage", "create"}, NEW s, EmitPresent(s),
         swapchain' = TRUE \/ (swapchain /\ UNCHANGED swapchain),
         UNCHANGED <<status, submitQ, frameQ, submitVars>>
  PROVE  ChainInv'
<1> SUFFICES ASSUME status = "SUCCESS" PROVE ChainInv'
  BY DEF ChainInv
<1>1. ~pending /\ Unfinished = 0
  BY DEF Inv, ChainInv, Locked
<1>2. Len(csQ') = Len(csQ) + 1
  BY TypeParts, Lengths, AppendProperties DEF Inv, EmitPresent, QueueTypes, AppTypes, Frames
<1>3. Unfinished' = 1
  BY <1>1, <1>2, Lengths DEF Inv, Unfinished, submitVars
<1> QED
  BY <1>3 DEF ChainInv, EmitPresent, Locked

LEMMA AcquireImageStep ==
  ASSUME Inv, AcquireImage
  PROVE  Inv'
<1> USE DEF Inv, Unchanged, deviceVars, chainVars, frameVars, appVars, queueVars, submitVars, signalVars
<1>1. PICK s \in Results :
        \/ s = "SUCCESS" /\ swapchain /\ EmitPresent(s) /\ UNCHANGED after
        \/ /\ ~(s = "SUCCESS" /\ swapchain) /\ acquireStatus' = s
           /\ IF swapchain THEN Teardown("create") ELSE pc' = "create" /\ UNCHANGED after
           /\ UNCHANGED <<pending, frameId, csQ>>
  BY AnswersAreResults, TypeParts DEF AcquireImage, ChainTypes
<1>2. /\ UNCHANGED <<swapchain, dirty, submitQ, finishQ, frameVars, signalVars, deviceVars, status,
                     surfaceCond, submitVars, finishPc, framePc>>
      /\ pc = "acquireImage"
  BY DEF AcquireImage
<1>3. ChainTypes'
  <2>1. ChainTypes
    BY TypeParts
  <2>2. acquireStatus' = s /\ pending' \in BOOLEAN
    BY <1>1, <2>1 DEF EmitPresent, ChainTypes
  <2> QED
    BY <1>2, <2>1, <2>2 DEF ChainTypes
<1>4. SignalTypes'
  BY <1>2, TypeParts DEF SignalTypes
<1>5. CASE swapchain /\ EmitPresent(s) /\ UNCHANGED after
  <2>1. AppTypes' /\ PlaceInv' /\ QueueTypes' /\ QueuesInv' /\ FinishInv' /\ FramesInv' /\ SignalInv'
    BY <1>2, <1>5, EmitStep
  <2>2. ChainInv'
    BY <1>2, <1>5, EmitChain
  <2>3. EventBalance' /\ CountsInv'
    BY <1>2, <1>5, EventUntouched, TypeParts DEF EmitPresent, AppTypes
  <2> QED
    BY <1>3, <1>4, <2>1, <2>2, <2>3, TypePartsNext
<1>6. CASE /\ UNCHANGED <<pending, frameId, csQ>>
           /\ IF swapchain THEN Teardown("create") ELSE pc' = "create" /\ UNCHANGED after
  <2> USE <1>2, <1>6 DEF Teardown
  <2>1. AppTypes' /\ PlaceInv'
    BY TypeParts DEF AppTypes, PlaceInv, Presenting, TearingDown
  <2>2. QueueTypes' /\ QueuesInv' /\ FinishInv' /\ FramesInv' /\ SignalInv'
    BY <2>1, QueuesUntouched DEF AppTypes, PlaceInv
  <2>3. ChainInv'
    BY TypeParts DEF ChainInv, Unfinished, Locked, PlaceInv, AppTypes
  <2>4. EventBalance' /\ CountsInv'
    BY EventUntouched, TypeParts DEF PlaceInv, TearingDown, AppTypes
  <2> QED
    BY <1>3, <1>4, <2>1, <2>2, <2>3, <2>4, TypePartsNext
<1> QED
  BY <1>1, <1>5, <1>6

LEMMA CreateSwapChainStep ==
  ASSUME Inv, CreateSwapChain
  PROVE  Inv'
<1> USE DEF Inv, Unchanged, deviceVars, chainVars, frameVars, appVars, queueVars, submitVars, signalVars
<1>1. /\ UNCHANGED <<dirty, after, submitQ, finishQ, frameVars, signalVars, deviceVars, status,
                     surfaceCond, submitVars, finishPc, framePc>>
      /\ pc = "create"
  BY DEF CreateSwapChain
<1>2. SignalTypes'
  BY <1>1, TypeParts DEF SignalTypes
<1>3. PICK s \in Results :
        \/ pc' = "latency" /\ UNCHANGED <<swapchain, acquireStatus, pending, frameId, csQ>>
        \/ swapchain' = TRUE /\ EmitPresent(s)
        \/ /\ swapchain' = TRUE /\ acquireStatus' = s /\ pc' = "latency"
           /\ UNCHANGED <<pending, frameId, csQ>>
  BY AnswersAreResults DEF CreateSwapChain, Results
<1>4. ChainTypes'
  <2>1. ChainTypes
    BY TypeParts
  <2>2. acquireStatus' \in Results /\ pending' \in BOOLEAN /\ swapchain' \in BOOLEAN
    BY <1>3, <2>1 DEF EmitPresent, ChainTypes
  <2> QED
    BY <1>1, <2>1, <2>2 DEF ChainTypes
<1>5. CASE swapchain' = TRUE /\ EmitPresent(s)
  <2>1. AppTypes' /\ PlaceInv' /\ QueueTypes' /\ QueuesInv' /\ FinishInv' /\ FramesInv' /\ SignalInv'
    BY <1>1, <1>5, EmitStep
  <2>2. ChainInv'
    BY <1>1, <1>5, EmitChain
  <2>3. EventBalance' /\ CountsInv'
    BY <1>1, <1>5, EventUntouched, TypeParts DEF EmitPresent, AppTypes
  <2> QED
    BY <1>2, <1>4, <2>1, <2>2, <2>3, TypePartsNext
<1>6. CASE pc' = "latency" /\ UNCHANGED <<pending, frameId, csQ>> /\ (swapchain' = TRUE \/ swapchain' = swapchain)
  <2> USE <1>1, <1>6
  <2>1. AppTypes' /\ PlaceInv'
    BY TypeParts DEF AppTypes, PlaceInv, Presenting, TearingDown
  <2>2. QueueTypes' /\ QueuesInv' /\ FinishInv' /\ FramesInv' /\ SignalInv'
    BY <2>1, QueuesUntouched DEF AppTypes, PlaceInv
  <2>3. ChainInv'
    BY TypeParts DEF ChainInv, Unfinished, Locked, PlaceInv, AppTypes
  <2>4. EventBalance' /\ CountsInv'
    BY EventUntouched, TypeParts DEF PlaceInv, TearingDown, AppTypes
  <2> QED
    BY <1>2, <1>4, <2>1, <2>2, <2>3, <2>4, TypePartsNext
<1> QED
  BY <1>3, <1>5, <1>6

LEMMA DestructStep ==
  ASSUME Inv, Destruct
  PROVE  Inv'
<1> USE DEF Inv, Destruct, App, Unchanged, Drained, deviceVars, chainVars, frameVars, appVars,
     queueVars, submitVars, signalVars
<1>1. AppTypes' /\ PlaceInv' /\ after = "released"
  BY TypeParts DEF AppTypes, PlaceInv, Presenting, TearingDown
<1>2. ChainTypes'
  <2>1. ChainTypes
    BY TypeParts
  <2>2. frameCond' \in BOOLEAN
    BY <2>1 DEF ChainTypes
  <2> QED
    BY <2>1, <2>2 DEF ChainTypes
<1>3. SignalTypes'
  BY TypeParts DEF SignalTypes
<1>4. frameQ' \in {<<>>, <<[id |-> 0, ok |-> FALSE]>>} /\ (~presentWait => frameQ' = <<>>)
  OBVIOUS
<1>5. QueueTypes'
  <2>1. MaxFrames \in Nat /\ QueueTypes
    BY TypeParts, Lengths
  <2>2. frameQ' \in Seq([id : 0..MaxFrames, ok : BOOLEAN])
    <3> DEFINE Entry == [id : 0..MaxFrames, ok : BOOLEAN]
               last  == [id |-> 0, ok |-> FALSE]
    <3>1. last \in Entry
      BY <2>1
    <3> HIDE DEF last, Entry
    <3>2. <<>> \in Seq(Entry) /\ <<last>> \in Seq(Entry)
      BY <3>1
    <3> QED
      BY <1>4, <3>2 DEF last, Entry
  <2> QED
    BY <2>1, <2>2 DEF QueueTypes
<1>6. QueuesInv' /\ FinishInv' /\ SignalInv'
  BY <1>1 DEF QueuesInv, FinishInv, SignalInv, Taken, Offset, InHand, Stopped
<1>7. FramesInv'
  BY <1>4 DEF FramesInv, Stopped, Pushed
<1>8. ChainInv'
  BY DEF ChainInv, Locked, Unfinished
<1>9. EventBalance' /\ CountsInv'
  BY EventUntouched
<1> QED
  BY <1>1, <1>2, <1>3, <1>5, <1>6, <1>7, <1>8, <1>9, TypePartsNext

-----------------------------------------------------------------------------
(* The CS thread and the submission thread *)

LEMMA TailFacts ==
  ASSUME NEW S, NEW q \in Seq(S), q # <<>>
  PROVE  /\ Len(q) \in Nat \ {0} /\ Tail(q) \in Seq(S) /\ Len(Tail(q)) = Len(q) - 1
         /\ Head(q) = q[1] /\ Head(q) \in S /\ 1 \in 1..Len(q)
         /\ \A i \in 1..(Len(q) - 1) : Tail(q)[i] = q[i + 1] /\ i + 1 \in 1..Len(q)
<1>1. Len(q) \in Nat \ {0}
  BY EmptySeq, LenProperties
<1> QED
  BY <1>1, HeadTailProperties, ElementOfSeq

\* The next frame to be presented is the one behind all that were.
LEMMA HeadOfSubmission ==
  ASSUME Inv, submitQ # <<>>
  PROVE  /\ Head(submitQ) \in Frames /\ Head(submitQ) \in Nat /\ pc # "gone"
         /\ Len(submitQ) >= 1
         /\ Head(submitQ) + Len(submitQ) + Len(csQ) = frameId + 1
  BY TailFacts, Entries, TypeParts DEF Inv, QueuesInv, QueueTypes

LEMMA CsPresentStep ==
  ASSUME Inv, CsPresent
  PROVE  Inv'
<1> USE DEF Inv, deviceVars, chainVars, frameVars, appVars, submitVars, signalVars
<1>1. /\ csQ # <<>> /\ submitQ' = Append(submitQ, Head(csQ)) /\ csQ' = Tail(csQ)
      /\ UNCHANGED <<deviceVars, status, chainVars, surfaceCond, frameVars, signalVars, appVars,
                     finishQ, submitVars, finishPc, framePc>>
  BY DEF CsPresent
<1>2. /\ Len(csQ) \in Nat /\ Len(submitQ) \in Nat /\ Len(finishQ) \in Nat /\ frameId \in Nat
      /\ Len(frameQ) \in Nat /\ Taken \in Nat /\ Offset \in Nat /\ Pushed \in Nat
      /\ lastCompleted \in Nat
  BY Lengths
<1>3. csQ \in Seq(Frames) /\ submitQ \in Seq(Frames)
  BY TypeParts DEF QueueTypes
<1>4. /\ csQ' \in Seq(Frames) /\ Len(csQ') = Len(csQ) - 1 /\ Head(csQ) \in Frames
      /\ Len(csQ) >= 1 /\ Head(csQ) = csQ[1] /\ 1 \in 1..Len(csQ)
      /\ \A i \in 1..(Len(csQ) - 1) : csQ'[i] = csQ[i + 1] /\ i + 1 \in 1..Len(csQ)
  BY <1>1, <1>3, TailFacts
<1>5. /\ submitQ' \in Seq(Frames) /\ Len(submitQ') = Len(submitQ) + 1
      /\ \A i \in 1..Len(submitQ) : submitQ'[i] = submitQ[i]
      /\ submitQ'[Len(submitQ) + 1] = Head(csQ) /\ submitQ' # <<>>
  BY <1>1, <1>3, <1>4, AppendProperties
<1>6. ChainTypes' /\ SignalTypes' /\ QueueTypes'
  BY <1>1, <1>4, <1>5, TypeParts DEF ChainTypes, SignalTypes, QueueTypes
<1>7. AppTypes' /\ PlaceInv' /\ EventBalance' /\ CountsInv'
  BY <1>1, AppUntouched
<1>8. QueuesInv'
  <2>1. ASSUME NEW i \in 1..(Len(csQ) - 1)
        PROVE  csQ'[i] + (Len(csQ) - 1) = frameId + i
    <3>1. csQ[i + 1] + Len(csQ) = frameId + (i + 1) /\ csQ[i + 1] \in Nat
      BY <1>4, Entries DEF QueuesInv
    <3>2. csQ[i + 1] + (Len(csQ) - 1) = frameId + i
      BY <1>2, <3>1
    <3> QED
      BY <1>4, <3>2
  <2>2. ASSUME NEW i \in 1..(Len(submitQ) + 1)
        PROVE  submitQ'[i] + (Len(submitQ) + 1) + (Len(csQ) - 1) = frameId + i
    <3>1. CASE i = Len(submitQ) + 1
      <4>1. csQ[1] + Len(csQ) = frameId + 1 /\ csQ[1] \in Nat
        BY <1>4, Entries DEF QueuesInv
      <4>2. csQ[1] + (Len(submitQ) + 1) + (Len(csQ) - 1) = frameId + (Len(submitQ) + 1)
        BY <1>2, <4>1, SMTT(30)
      <4> QED
        BY <1>4, <1>5, <3>1, <4>2
    <3>2. CASE i # Len(submitQ) + 1
      <4>1. i \in 1..Len(submitQ)
        BY <1>2, <3>2
      <4>2. submitQ[i] + Len(submitQ) + Len(csQ) = frameId + i /\ submitQ[i] \in Nat
        BY <4>1, Entries DEF QueuesInv
      <4> QED
        BY <1>2, <1>5, <4>1, <4>2
    <3> QED
      BY <3>1, <3>2
  <2>3. (Len(csQ) - 1) + (Len(submitQ) + 1) <= frameId
    BY <1>2 DEF QueuesInv
  <2> QED
    BY <1>1, <1>4, <1>5, <2>1, <2>2, <2>3 DEF QueuesInv
<1>9. Taken' = Taken /\ Offset' = Offset /\ Pushed' = Pushed /\ (Stopped' <=> Stopped)
  BY <1>1 DEF Taken, Offset, InHand, Pushed, Stopped
<1>10. FinishInv'
  <2>1. /\ Taken + Len(finishQ) + (Len(submitQ) + 1) + (Len(csQ) - 1) <= frameId + Offset
        /\ ~Stopped =>
             Taken + Len(finishQ) + (Len(submitQ) + 1) + (Len(csQ) - 1) = frameId + Offset
    BY <1>2, SMTT(30) DEF FinishInv
  <2> QED
    BY <1>1, <1>4, <1>5, <1>9, <2>1 DEF FinishInv
<1>11. FramesInv'
  <2>1. ASSUME presentWait, ~Stopped, pc # "gone"
        PROVE  lastCompleted + Len(frameQ) + (Len(submitQ) + 1) + (Len(csQ) - 1) = frameId + Pushed
    <3>1. lastCompleted + Len(frameQ) + Len(submitQ) + Len(csQ) = frameId + Pushed
      BY <2>1 DEF FramesInv
    <3> QED
      BY <1>2, <3>1
  <2> QED
    BY <1>1, <1>4, <1>5, <1>9, <2>1 DEF FramesInv
<1>12. SignalInv'
  BY <1>1 DEF SignalInv
<1>13. ChainInv'
  <2>1. Unfinished' = Unfinished
    BY <1>1, <1>2, <1>4, <1>5 DEF Unfinished
  <2> QED
    BY <1>1, <2>1 DEF ChainInv, Locked
<1> QED
  BY <1>6, <1>7, <1>8, <1>10, <1>11, <1>12, <1>13, TypePartsNext

LEMMA SubmitFetchStep ==
  ASSUME Inv, SubmitFetch
  PROVE  Inv'
<1> USE DEF Inv, SubmitFetch, Submit, SubmitUnchanged, deviceVars, chainVars, frameVars, appVars,
     queueVars, submitVars, signalVars
<1>1. ChainTypes'
  BY TypeParts DEF ChainTypes, Results
<1>2. SignalTypes' /\ QueueTypes'
  BY TypeParts DEF SignalTypes, QueueTypes
<1>3. AppTypes' /\ PlaceInv' /\ EventBalance' /\ CountsInv'
  BY AppUntouched
<1>4. QueuesInv' /\ SignalInv'
  BY DEF QueuesInv, SignalInv
<1>5. Taken' = Taken /\ Offset' = Offset /\ Pushed = 0 /\ (Stopped => Stopped')
      /\ (~Stopped' => Pushed' = 0)
  BY DEF Taken, Offset, InHand, Pushed, Stopped
<1>6. FinishInv' /\ FramesInv'
  BY <1>5 DEF FinishInv, FramesInv
<1>7. ChainInv'
  <2>1. status = "SUCCESS" => Unfinished' = Unfinished
    BY DEF Unfinished
  <2> QED
    BY <2>1 DEF ChainInv, Locked
<1> QED
  BY <1>1, <1>2, <1>3, <1>4, <1>6, <1>7, TypePartsNext

LEMMA QueuePresentStep ==
  ASSUME Inv, QueuePresent
  PROVE  Inv'
<1> USE DEF Inv, QueuePresent, Submit, SubmitUnchanged, deviceVars, chainVars, frameVars, appVars,
     queueVars, submitVars, signalVars
<1>1. ChainTypes'
  <2>1. result' \in Results /\ acquireStatus' \in Results
    BY AnswersAreResults, TypeParts DEF ChainTypes, Results
  <2> QED
    BY <2>1, TypeParts DEF ChainTypes
<1>2. SignalTypes' /\ QueueTypes'
  BY TypeParts DEF SignalTypes, QueueTypes
<1>3. AppTypes' /\ PlaceInv' /\ EventBalance' /\ CountsInv'
  BY AppUntouched
<1>4. QueuesInv' /\ SignalInv'
  BY DEF QueuesInv, SignalInv
<1>5. Taken' = Taken /\ Offset' = Offset /\ Pushed' = Pushed /\ ~Stopped /\ ~Stopped'
  BY DEF Taken, Offset, InHand, Pushed, Stopped
<1>6. FinishInv' /\ FramesInv'
  BY <1>5 DEF FinishInv, FramesInv
<1>7. ChainInv'
  BY DEF ChainInv, Locked, Unfinished
<1> QED
  BY <1>1, <1>2, <1>3, <1>4, <1>6, <1>7, TypePartsNext

LEMMA PushFrameStep ==
  ASSUME Inv, PushFrame
  PROVE  Inv'
<1> USE DEF Inv, SubmitUnchanged, deviceVars, chainVars, frameVars, appVars, submitVars, signalVars
<1>1. /\ submitPc = "push" /\ submitPc' \in {"acquireNext", "finish"} /\ submitQ # <<>>
      /\ UNCHANGED <<status, acquireStatus, dirty, pending, surfaceCond, frameDrain, lastSignaled,
                     lastCompleted, result, submitQ, finishQ, csQ, deviceVars, swapchain, signalVars,
                     appVars, finishPc, framePc>>
  BY DEF PushFrame, Submit, QueuesInv
<1>2. \/ /\ presentWait /\ frameCond' = FALSE
         /\ frameQ' = Append(frameQ, [id |-> Head(submitQ), ok |-> Ok(result)])
      \/ ~presentWait /\ UNCHANGED <<frameQ, frameCond>>
  BY DEF PushFrame, PresenterFrame
<1>3. /\ Len(csQ) \in Nat /\ Len(submitQ) \in Nat /\ frameId \in Nat /\ Len(frameQ) \in Nat
      /\ lastCompleted \in Nat /\ MaxFrames \in Nat
  BY Lengths
<1>4. /\ Head(submitQ) \in Frames /\ Head(submitQ) \in Nat /\ pc # "gone" /\ Len(submitQ) >= 1
      /\ Head(submitQ) + Len(submitQ) + Len(csQ) = frameId + 1
  BY <1>1, HeadOfSubmission
<1>5. ChainTypes'
  <2>1. ChainTypes
    BY TypeParts
  <2>2. frameCond' \in BOOLEAN
    BY <1>2, <2>1 DEF ChainTypes
  <2> QED
    BY <1>1, <2>1, <2>2 DEF ChainTypes
<1>6. SignalTypes'
  BY <1>1, TypeParts DEF SignalTypes
<1>7. AppTypes' /\ PlaceInv' /\ EventBalance' /\ CountsInv'
  BY <1>1, AppUntouched
<1>8. QueuesInv' /\ SignalInv'
  BY <1>1 DEF QueuesInv, SignalInv
<1>9. /\ Taken' = Taken /\ Offset' = Offset /\ Pushed = 0 /\ Pushed' = 1
      /\ ~Stopped /\ ~Stopped'
  BY <1>1 DEF Taken, Offset, InHand, Pushed, Stopped
<1>10. FinishInv'
  BY <1>1, <1>9 DEF FinishInv
<1>11. (status = "SUCCESS" => swapchain /\ pending) /\ Unfinished' = Unfinished
  <2>1. Unfinished = Len(csQ) + Len(submitQ) /\ Unfinished' = Unfinished
    BY <1>1 DEF Unfinished
  <2>2. Unfinished # 0
    BY <1>3, <1>4, <2>1
  <2> QED
    BY <2>1, <2>2 DEF ChainInv
<1>12. ChainInv'
  BY <1>1, <1>11 DEF ChainInv, Locked
<1>13. CASE presentWait
  <2> DEFINE e == [id |-> Head(submitQ), ok |-> Ok(result)]
  <2>1. e \in [id : 0..MaxFrames, ok : BOOLEAN] /\ e.id = Head(submitQ)
    BY <1>3, <1>4 DEF Frames, Ok
  <2>2. frameQ' = Append(frameQ, e)
    BY <1>2, <1>13
  <2> HIDE DEF e
  <2>3. /\ frameQ' \in Seq([id : 0..MaxFrames, ok : BOOLEAN]) /\ Len(frameQ') = Len(frameQ) + 1
        /\ \A i \in 1..Len(frameQ) : frameQ'[i] = frameQ[i]
        /\ frameQ'[Len(frameQ) + 1] = e /\ frameQ' # <<>>
    <3>1. frameQ \in Seq([id : 0..MaxFrames, ok : BOOLEAN])
      BY TypeParts DEF QueueTypes
    <3> QED
      BY <2>1, <2>2, <3>1, AppendProperties
  <2>4. QueueTypes'
    BY <1>1, <2>3, TypeParts DEF QueueTypes
  <2>5. lastCompleted + Len(frameQ) + Len(submitQ) + Len(csQ) = frameId
    BY <1>3, <1>4, <1>9, <1>13 DEF FramesInv
  <2>6. ASSUME NEW i \in 1..(Len(frameQ) + 1)
        PROVE  frameQ'[i].id = lastCompleted + i
    <3>1. CASE i = Len(frameQ) + 1
      <4>1. Head(submitQ) = lastCompleted + (Len(frameQ) + 1)
        BY <1>3, <1>4, <2>5
      <4> QED
        BY <2>1, <2>3, <3>1, <4>1
    <3>2. CASE i # Len(frameQ) + 1
      <4>1. i \in 1..Len(frameQ)
        BY <1>3, <3>2
      <4> QED
        BY <1>4, <2>3, <4>1 DEF FramesInv
    <3> QED
      BY <3>1, <3>2
  <2>7. /\ lastCompleted + (Len(frameQ) + 1) <= frameId
        /\ lastCompleted + (Len(frameQ) + 1) + Len(submitQ) + Len(csQ) = frameId + 1
    BY <1>3, <1>4, <2>5
  <2>8. FramesInv'
    BY <1>1, <1>4, <1>9, <1>13, <2>3, <2>6, <2>7 DEF FramesInv
  <2> QED
    BY <1>5, <1>6, <1>7, <1>8, <1>10, <1>12, <2>4, <2>8, TypePartsNext
<1>14. CASE ~presentWait
  <2>1. QueueTypes' /\ FramesInv'
    BY <1>1, <1>2, <1>14, TypeParts DEF QueueTypes, FramesInv
  <2> QED
    BY <1>5, <1>6, <1>7, <1>8, <1>10, <1>12, <2>1, TypePartsNext
<1> QED
  BY <1>13, <1>14

LEMMA AcquireEarlyStep ==
  ASSUME Inv, AcquireEarly
  PROVE  Inv'
<1> USE DEF Inv, AcquireEarly, Submit, SubmitUnchanged, deviceVars, chainVars, frameVars, appVars,
     queueVars, submitVars, signalVars
<1>1. ChainTypes'
  <2>1. acquireStatus' \in Results
    BY AnswersAreResults
  <2> QED
    BY <2>1, TypeParts DEF ChainTypes
<1>2. SignalTypes' /\ QueueTypes'
  BY TypeParts DEF SignalTypes, QueueTypes
<1>3. AppTypes' /\ PlaceInv' /\ EventBalance' /\ CountsInv'
  BY AppUntouched
<1>4. QueuesInv' /\ SignalInv'
  BY DEF QueuesInv, SignalInv
<1>5. Taken' = Taken /\ Offset' = Offset /\ Pushed' = Pushed /\ ~Stopped /\ ~Stopped'
  BY DEF Taken, Offset, InHand, Pushed, Stopped
<1>6. FinishInv' /\ FramesInv'
  BY <1>5 DEF FinishInv, FramesInv
<1>7. ChainInv'
  BY DEF ChainInv, Locked, Unfinished
<1> QED
  BY <1>1, <1>2, <1>3, <1>4, <1>6, <1>7, TypePartsNext

LEMMA FinishPresentStep ==
  ASSUME Inv, FinishPresent
  PROVE  Inv'
<1> USE DEF Inv, FinishPresent, Submit, SubmitUnchanged, deviceVars, chainVars, frameVars, appVars,
     queueVars, submitVars, signalVars
<1>1. ChainTypes'
  <2>1. dirty' \in BOOLEAN
    OBVIOUS
  <2> QED
    BY <2>1, TypeParts DEF ChainTypes
<1>2. SignalTypes' /\ QueueTypes'
  BY TypeParts DEF SignalTypes, QueueTypes
<1>3. AppTypes' /\ PlaceInv' /\ EventBalance' /\ CountsInv'
  BY AppUntouched
<1>4. QueuesInv' /\ SignalInv'
  BY DEF QueuesInv, SignalInv
<1>5. Taken' = Taken /\ Offset' = Offset /\ Pushed' = Pushed /\ ~Stopped
  BY DEF Taken, Offset, InHand, Pushed, Stopped
<1>6. FinishInv' /\ FramesInv'
  BY <1>5 DEF FinishInv, FramesInv
<1>7. ChainInv'
  <2>1. /\ Len(csQ) \in Nat /\ Len(submitQ) \in Nat /\ Len(submitQ) >= 1
        /\ Unfinished = Len(csQ) + Len(submitQ) /\ Unfinished' = Len(csQ) + Len(submitQ) - 1
    BY Lengths, HeadOfSubmission DEF Unfinished, QueuesInv
  <2>2. status = "SUCCESS" => Unfinished = 1
    BY <2>1 DEF ChainInv
  <2>3. status = "SUCCESS" => Unfinished' = 0
    BY <2>1, <2>2
  <2> QED
    BY <2>3 DEF ChainInv, Locked
<1> QED
  BY <1>1, <1>2, <1>3, <1>4, <1>6, <1>7, TypePartsNext

LEMMA RetireStep ==
  ASSUME Inv, Retire
  PROVE  Inv'
<1> USE DEF Inv, SubmitUnchanged, deviceVars, chainVars, frameVars, appVars, signalVars
<1>1. /\ submitPc = "retire" /\ submitPc' = "fetch" /\ submitQ # <<>> /\ submitQ' = Tail(submitQ)
      /\ UNCHANGED <<acquireStatus, dirty, pending, surfaceCond, frameVars, result, deviceVars,
                     swapchain, signalVars, appVars, csQ, finishPc, framePc>>
  BY DEF Retire, Submit, QueuesInv
<1>2. \/ result # "DEVICE_LOST" /\ finishQ' = Append(finishQ, Head(submitQ)) /\ status' = status
      \/ result = "DEVICE_LOST" /\ status' = "DEVICE_LOST" /\ finishQ' = finishQ
  BY DEF Retire, Forwarded
<1>3. /\ Len(csQ) \in Nat /\ Len(submitQ) \in Nat /\ Len(finishQ) \in Nat /\ frameId \in Nat
      /\ Len(frameQ) \in Nat /\ Taken \in Nat /\ Offset \in Nat /\ lastCompleted \in Nat
  BY Lengths
<1>4. /\ Head(submitQ) \in Frames /\ Head(submitQ) \in Nat /\ pc # "gone" /\ Len(submitQ) >= 1
      /\ Head(submitQ) + Len(submitQ) + Len(csQ) = frameId + 1
  BY <1>1, HeadOfSubmission
<1>5. /\ submitQ' \in Seq(Frames) /\ Len(submitQ') = Len(submitQ) - 1
      /\ \A i \in 1..(Len(submitQ) - 1) : submitQ'[i] = submitQ[i + 1] /\ i + 1 \in 1..Len(submitQ)
  BY <1>1, TypeParts, TailFacts DEF QueueTypes
<1>6. finishQ \in Seq(Frames)
  BY TypeParts DEF QueueTypes
<1>7. ChainTypes' /\ SignalTypes'
  BY <1>1, <1>2, TypeParts DEF ChainTypes, SignalTypes
<1>8. AppTypes' /\ PlaceInv' /\ EventBalance' /\ CountsInv'
  BY <1>1, AppUntouched
<1>9. QueuesInv'
  <2>1. ASSUME NEW i \in 1..(Len(submitQ) - 1)
        PROVE  submitQ'[i] + (Len(submitQ) - 1) + Len(csQ) = frameId + i
    <3>1. submitQ[i + 1] + Len(submitQ) + Len(csQ) = frameId + (i + 1) /\ submitQ[i + 1] \in Nat
      BY <1>5, Entries DEF QueuesInv
    <3>2. submitQ[i + 1] + (Len(submitQ) - 1) + Len(csQ) = frameId + i
      BY <1>3, <3>1, SMTT(30)
    <3> QED
      BY <1>5, <3>2
  <2>2. Len(csQ) + (Len(submitQ) - 1) <= frameId
    BY <1>3, <1>4 DEF QueuesInv
  <2> QED
    BY <1>1, <1>4, <1>5, <2>1, <2>2 DEF QueuesInv
<1>10. SignalInv'
  BY <1>1 DEF SignalInv
<1>11. Taken' = Taken /\ Offset' = Offset /\ Pushed = 1 /\ Pushed' = 0
  BY <1>1 DEF Taken, Offset, InHand, Pushed
<1>12. CASE result # "DEVICE_LOST"
  <2>1. finishQ' = Append(finishQ, Head(submitQ)) /\ status' = status /\ ~Stopped /\ ~Stopped'
    BY <1>1, <1>2, <1>12 DEF Stopped
  <2>2. /\ finishQ' \in Seq(Frames) /\ Len(finishQ') = Len(finishQ) + 1
        /\ \A i \in 1..Len(finishQ) : finishQ'[i] = finishQ[i]
        /\ finishQ'[Len(finishQ) + 1] = Head(submitQ) /\ finishQ' # <<>>
    BY <1>4, <1>6, <2>1, AppendProperties
  <2>3. QueueTypes'
    BY <1>1, <1>5, <2>2, TypeParts DEF QueueTypes
  <2>4. Taken + Len(finishQ) + Len(submitQ) + Len(csQ) = frameId + Offset
    BY <2>1 DEF FinishInv
  <2>5. ASSUME NEW i \in 1..(Len(finishQ) + 1)
        PROVE  finishQ'[i] + Offset = Taken + i
    <3>1. CASE i = Len(finishQ) + 1
      BY <1>3, <1>4, <2>2, <2>4, <3>1, SMTT(30)
    <3>2. CASE i # Len(finishQ) + 1
      <4>1. i \in 1..Len(finishQ)
        BY <1>3, <3>2
      <4> QED
        BY <2>2, <4>1 DEF FinishInv
    <3> QED
      BY <3>1, <3>2
  <2>6. Taken + (Len(finishQ) + 1) + (Len(submitQ) - 1) + Len(csQ) = frameId + Offset
    BY <1>3, <2>4
  <2>7. frameId + Offset <= frameId + Offset
    BY <1>3
  <2>8. FinishInv'
    BY <1>1, <1>5, <1>11, <2>2, <2>5, <2>6, <2>7 DEF FinishInv
  <2>9. presentWait =>
          lastCompleted + Len(frameQ) + (Len(submitQ) - 1) + Len(csQ) = frameId + 0
    <3> SUFFICES ASSUME presentWait
                 PROVE  lastCompleted + Len(frameQ) + (Len(submitQ) - 1) + Len(csQ) = frameId + 0
      OBVIOUS
    <3>1. lastCompleted + Len(frameQ) + Len(submitQ) + Len(csQ) = frameId + 1
      BY <1>4, <1>11, <2>1 DEF FramesInv
    <3> QED
      BY <1>3, <3>1
  <2>10. FramesInv'
    BY <1>1, <1>4, <1>5, <1>11, <2>9 DEF FramesInv
  <2>11. ChainInv'
    <3>1. Unfinished' = Unfinished
      BY <1>1, <1>3, <1>5 DEF Unfinished
    <3> QED
      BY <1>1, <2>1, <3>1 DEF ChainInv, Locked
  <2> QED
    BY <1>7, <1>8, <1>9, <1>10, <2>3, <2>8, <2>10, <2>11, TypePartsNext
<1>13. CASE result = "DEVICE_LOST"
  <2>1. finishQ' = finishQ /\ status' = "DEVICE_LOST" /\ Stopped'
    BY <1>1, <1>2, <1>13 DEF Stopped
  <2>2. QueueTypes'
    BY <1>1, <1>5, <2>1, TypeParts DEF QueueTypes
  <2>3. Taken + Len(finishQ) + (Len(submitQ) - 1) + Len(csQ) <= frameId + Offset
    BY <1>3, <1>4 DEF FinishInv
  <2>4. FinishInv' /\ FramesInv'
    BY <1>1, <1>5, <1>11, <2>1, <2>3 DEF FinishInv, FramesInv
  <2>5. ChainInv'
    BY <2>1 DEF ChainInv
  <2> QED
    BY <1>7, <1>8, <1>9, <1>10, <2>2, <2>4, <2>5, TypePartsNext
<1> QED
  BY <1>12, <1>13

-----------------------------------------------------------------------------
(* The queue thread *)

\* The frame the queue thread takes or has in hand.
LEMMA HeadOfFinish ==
  ASSUME Inv, finishQ # <<>>
  PROVE  /\ Head(finishQ) \in Frames /\ Head(finishQ) \in Nat
         /\ Head(finishQ) + Offset = Taken + 1
  BY TailFacts, Entries, TypeParts DEF Inv, FinishInv, QueueTypes

LEMMA SignalFrameStep ==
  ASSUME Inv, SignalFrame
  PROVE  Inv'
<1> USE DEF Inv, QueueUnchanged, deviceVars, chainVars, frameVars, appVars, submitVars, signalVars
<1>1. /\ finishPc = "fetch" /\ finishQ # <<>>
      /\ UNCHANGED <<frameQ, frameDrain, frameCond, lastCompleted, signalVars, finishQ, deviceVars,
                     status, chainVars, surfaceCond, appVars, csQ, submitQ, submitVars, framePc>>
  BY DEF SignalFrame
<1>2. /\ Offset = 0 /\ Head(finishQ) = Taken + 1 /\ Head(finishQ) \in Frames
      /\ Taken \in Nat /\ Len(finishQ) \in Nat /\ Len(submitQ) \in Nat /\ Len(csQ) \in Nat
      /\ frameId \in Nat /\ MaxFrames \in Nat /\ lastCompleted \in Nat /\ signal \in Nat
      /\ lastSignaled \in Nat
  BY <1>1, HeadOfFinish, Lengths DEF Offset, InHand
<1>3. ChainTypes' /\ QueueTypes'
  BY <1>1, TypeParts DEF ChainTypes, QueueTypes
<1>4. AppTypes' /\ PlaceInv' /\ EventBalance' /\ CountsInv'
  BY <1>1, AppUntouched
<1>5. QueuesInv' /\ ChainInv'
  BY <1>1 DEF QueuesInv, ChainInv, Locked, Unfinished
<1>6. Stopped' <=> Stopped
  BY <1>1 DEF Stopped
<1>7. CASE presentWait
  <2>1. /\ Taken = lastSignaled /\ Taken' = Taken + 1 /\ Offset' = 1 /\ lastSignaled' = lastSignaled + 1
        /\ lastSignaled' \in Frames /\ finishPc' \in {"signal", "pop"}
        /\ finishPc' = IF lastCompleted >= Head(finishQ) THEN "signal" ELSE "pop"
    BY <1>1, <1>2, <1>7 DEF SignalFrame, Displayed, Taken, Offset, InHand
  <2>2. SignalTypes'
    BY <1>1, <1>2, <2>1, TypeParts DEF SignalTypes, Frames
  <2>3. ASSUME NEW i \in 1..Len(finishQ) PROVE finishQ[i] + 1 = (Taken + 1) + i
    <3>1. finishQ[i] + Offset = Taken + i /\ finishQ[i] \in Nat
      BY Entries DEF FinishInv
    <3> QED
      BY <1>2, <3>1
  <2>4. /\ (Taken + 1) + Len(finishQ) + Len(submitQ) + Len(csQ) <= frameId + 1
        /\ ~Stopped => (Taken + 1) + Len(finishQ) + Len(submitQ) + Len(csQ) = frameId + 1
    BY <1>2 DEF FinishInv
  <2>5. 1 <= Taken + 1
    BY <1>2
  <2>6. FinishInv'
    BY <1>1, <1>6, <2>1, <2>3, <2>4, <2>5 DEF FinishInv
  <2>7. FramesInv'
    BY <1>1, <1>6, <1>7 DEF FramesInv, Pushed
  <2>8. SignalInv'
    <3>1. CASE lastCompleted >= lastSignaled + 1
      <4>1. finishPc' = "signal" /\ framePc # "signal"
        BY <1>2, <1>7, <2>1, <3>1 DEF SignalInv
      <4>2. signal = lastSignaled /\ lastSignaled + 1 <= lastCompleted
        BY <1>1, <1>2, <1>7, <3>1, <4>1 DEF SignalInv
      <4> QED
        BY <1>1, <2>1, <4>1, <4>2 DEF SignalInv
    <3>2. CASE ~(lastCompleted >= lastSignaled + 1)
      <4>1. finishPc' = "pop" /\ lastCompleted <= lastSignaled + 1 /\ lastCompleted <= lastSignaled
        BY <1>2, <2>1, <3>2
      <4>2. framePc # "signal" => signal = lastCompleted
        BY <1>1, <1>2, <1>7, <4>1 DEF SignalInv
      <4>3. framePc = "signal" => signal + 1 = lastCompleted
        BY <1>7 DEF SignalInv
      <4> QED
        BY <1>1, <2>1, <4>1, <4>2, <4>3 DEF SignalInv
    <3> QED
      BY <3>1, <3>2
  <2> QED
    BY <1>3, <1>4, <1>5, <2>2, <2>6, <2>7, <2>8, TypePartsNext
<1>8. CASE ~presentWait
  <2>1. finishPc' = "signal" /\ lastSignaled' = lastSignaled /\ Taken' = Taken /\ Offset' = 0
    BY <1>1, <1>8 DEF SignalFrame, Taken, Offset, InHand
  <2>2. SignalTypes'
    BY <1>1, <2>1, TypeParts DEF SignalTypes
  <2>3. FinishInv' /\ FramesInv' /\ SignalInv'
    BY <1>1, <1>2, <1>6, <1>8, <2>1 DEF FinishInv, FramesInv, SignalInv, Pushed
  <2> QED
    BY <1>3, <1>4, <1>5, <2>2, <2>3, TypePartsNext
<1> QED
  BY <1>7, <1>8

LEMMA QueueSignalStep ==
  ASSUME Inv, QueueSignal
  PROVE  Inv' /\ signal' = signal + 1
<1> USE DEF Inv, QueueUnchanged, deviceVars, chainVars, frameVars, appVars, submitVars
<1>1. /\ finishPc = "signal" /\ finishPc' = "pop" /\ finishQ # <<>> /\ Signal(Head(finishQ))
      /\ UNCHANGED <<frameVars, finishQ, deviceVars, status, chainVars, surfaceCond, appVars, csQ,
                     submitQ, submitVars, framePc>>
  BY DEF QueueSignal, FinishInv
<1>2. /\ Head(finishQ) \in Frames /\ Head(finishQ) \in Nat /\ Head(finishQ) + Offset = Taken + 1
      /\ Taken \in Nat /\ Len(finishQ) \in Nat /\ Len(submitQ) \in Nat /\ Len(csQ) \in Nat
      /\ frameId \in Nat /\ MaxFrames \in Nat /\ lastCompleted \in Nat /\ signal \in Nat
      /\ lastSignaled \in Nat
  BY <1>1, HeadOfFinish, Lengths
<1>3. /\ callbacks' \subseteq Frames \X (1..Events) /\ events' \in 0..Events
      /\ EventBalance' /\ CountsInv'
  BY <1>1, <1>2, CallbacksCalled
<1>4. signal' = Head(finishQ)
  BY <1>1 DEF Signal
<1>5. Head(finishQ) = signal + 1
  <2>1. CASE presentWait
    <3>1. Offset = 1 /\ Taken = lastSignaled /\ signal + 1 = lastSignaled
      BY <1>1, <2>1 DEF Offset, InHand, Taken, SignalInv
    <3> QED
      BY <1>2, <3>1
  <2>2. CASE ~presentWait
    <3>1. Offset = 0 /\ Taken = signal
      BY <1>1, <2>2 DEF Offset, InHand, Taken
    <3> QED
      BY <1>2, <3>1
  <2> QED
    BY <2>1, <2>2
<1>6. ChainTypes' /\ QueueTypes' /\ AppTypes' /\ PlaceInv'
  BY <1>1, TypeParts DEF ChainTypes, QueueTypes, AppTypes, PlaceInv, Presenting, TearingDown
<1>7. SignalTypes'
  BY <1>1, <1>2, <1>3, <1>4, TypeParts DEF SignalTypes, Frames
<1>8. QueuesInv' /\ ChainInv' /\ (Stopped' <=> Stopped)
  BY <1>1 DEF QueuesInv, ChainInv, Locked, Unfinished, Stopped
<1>9. FramesInv'
  BY <1>1, <1>8 DEF FramesInv, Pushed
<1>10. SignalInv'
  <2> SUFFICES ASSUME presentWait PROVE SignalInv'
    BY <1>1 DEF SignalInv
  <2>1. lastSignaled <= lastCompleted /\ signal + 1 = lastSignaled /\ framePc # "signal"
    BY <1>1 DEF SignalInv
  <2> QED
    BY <1>1, <1>4, <1>5, <2>1 DEF SignalInv
<1>11. FinishInv'
  <2>1. CASE presentWait
    <3>1. Taken' = Taken /\ Offset' = Offset
      BY <1>1, <2>1 DEF Taken, Offset, InHand
    <3> QED
      BY <1>1, <1>8, <3>1 DEF FinishInv
  <2>2. CASE ~presentWait
    <3>1. Offset = 0 /\ Offset' = 1 /\ Taken' = Taken + 1
      BY <1>1, <1>4, <1>5, <2>2 DEF Taken, Offset, InHand
    <3>2. ASSUME NEW i \in 1..Len(finishQ) PROVE finishQ[i] + 1 = (Taken + 1) + i
      <4>1. finishQ[i] + Offset = Taken + i /\ finishQ[i] \in Nat
        BY Entries DEF FinishInv
      <4> QED
        BY <1>2, <3>1, <4>1
    <3>3. /\ (Taken + 1) + Len(finishQ) + Len(submitQ) + Len(csQ) <= frameId + 1
          /\ ~Stopped => (Taken + 1) + Len(finishQ) + Len(submitQ) + Len(csQ) = frameId + 1
      <4>1. /\ Taken + Len(finishQ) + Len(submitQ) + Len(csQ) <= frameId + 0
            /\ ~Stopped => Taken + Len(finishQ) + Len(submitQ) + Len(csQ) = frameId + 0
        BY <3>1 DEF FinishInv
      <4> QED
        BY <1>2, <4>1
    <3>4. 1 <= Taken + 1
      BY <1>2
    <3> QED
      BY <1>1, <1>8, <3>1, <3>2, <3>3, <3>4 DEF FinishInv
  <2> QED
    BY <2>1, <2>2
<1> QED
  BY <1>3, <1>4, <1>5, <1>6, <1>7, <1>8, <1>9, <1>10, <1>11, TypePartsNext

LEMMA FinishPopStep ==
  ASSUME Inv, FinishPop
  PROVE  Inv'
<1> USE DEF Inv, QueueUnchanged, deviceVars, chainVars, frameVars, appVars, submitVars, signalVars
<1>1. /\ finishPc = "pop" /\ finishPc' = "fetch" /\ finishQ # <<>> /\ finishQ' = Tail(finishQ)
      /\ UNCHANGED <<frameVars, signalVars, deviceVars, status, chainVars, surfaceCond, appVars, csQ,
                     submitQ, submitVars, framePc>>
  BY DEF FinishPop, FinishInv
<1>2. /\ Taken \in Nat /\ Len(finishQ) \in Nat /\ Len(submitQ) \in Nat /\ Len(csQ) \in Nat
      /\ frameId \in Nat
  BY Lengths
<1>3. /\ finishQ' \in Seq(Frames) /\ Len(finishQ') = Len(finishQ) - 1 /\ Len(finishQ) >= 1
      /\ \A i \in 1..(Len(finishQ) - 1) : finishQ'[i] = finishQ[i + 1] /\ i + 1 \in 1..Len(finishQ)
  BY <1>1, TypeParts, TailFacts DEF QueueTypes
<1>4. ChainTypes' /\ SignalTypes' /\ QueueTypes'
  BY <1>1, <1>3, TypeParts DEF ChainTypes, SignalTypes, QueueTypes
<1>5. AppTypes' /\ PlaceInv' /\ EventBalance' /\ CountsInv'
  BY <1>1, AppUntouched
<1>6. ChainInv' /\ SignalInv' /\ (Stopped' <=> Stopped)
  BY <1>1 DEF ChainInv, Locked, Unfinished, SignalInv, Stopped
<1>7. QueuesInv'
  BY <1>1 DEF QueuesInv
<1>8. FramesInv'
  BY <1>1, <1>6 DEF FramesInv, Pushed
<1>9. Taken' = Taken /\ Offset = 1 /\ Offset' = 0
  BY <1>1 DEF Taken, Offset, InHand
<1>10. ASSUME NEW i \in 1..(Len(finishQ) - 1) PROVE finishQ[i + 1] + 0 = Taken + i
  <2>1. finishQ[i + 1] + 1 = Taken + (i + 1) /\ finishQ[i + 1] \in Nat
    BY <1>3, <1>9, Entries DEF FinishInv
  <2> QED
    BY <1>2, <2>1
<1>11. /\ Taken + (Len(finishQ) - 1) + Len(submitQ) + Len(csQ) <= frameId + 0
       /\ ~Stopped => Taken + (Len(finishQ) - 1) + Len(submitQ) + Len(csQ) = frameId + 0
  BY <1>2, <1>3, <1>9 DEF FinishInv
<1>12. FinishInv'
  BY <1>1, <1>2, <1>3, <1>6, <1>9, <1>10, <1>11 DEF FinishInv
<1> QED
  BY <1>4, <1>5, <1>6, <1>7, <1>8, <1>12, TypePartsNext

-----------------------------------------------------------------------------
(* The frame thread and the device *)

\* The frame the frame thread takes or has in hand, while the presenter lives.
LEMMA HeadOfFrames ==
  ASSUME Inv, frameQ # <<>>
  PROVE  /\ Len(frameQ) \in Nat /\ Len(frameQ) >= 1 /\ Head(frameQ) = frameQ[1]
         /\ Head(frameQ).id \in Nat
         /\ frameQ' = Tail(frameQ) =>
              /\ frameQ' \in Seq([id : 0..MaxFrames, ok : BOOLEAN])
              /\ Len(frameQ') = Len(frameQ) - 1
              /\ \A i \in 1..(Len(frameQ) - 1) :
                   frameQ'[i] = frameQ[i + 1] /\ i + 1 \in 1..Len(frameQ)
         /\ pc # "gone" => Head(frameQ).id = lastCompleted + 1 /\ Head(frameQ).id # 0
         /\ pc = "gone" => Head(frameQ).id = 0 /\ Tail(frameQ) = <<>>
<1>1. frameQ \in Seq([id : 0..MaxFrames, ok : BOOLEAN])
  BY TypeParts DEF Inv, QueueTypes
<1> DEFINE Entry == [id : 0..MaxFrames, ok : BOOLEAN]
<1> HIDE DEF Entry
<1>2. frameQ \in Seq(Entry)
  BY <1>1 DEF Entry
<1>3. /\ Len(frameQ) \in Nat \ {0} /\ Tail(frameQ) \in Seq(Entry)
      /\ Len(Tail(frameQ)) = Len(frameQ) - 1 /\ Head(frameQ) = frameQ[1] /\ 1 \in 1..Len(frameQ)
      /\ \A i \in 1..(Len(frameQ) - 1) :
           Tail(frameQ)[i] = frameQ[i + 1] /\ i + 1 \in 1..Len(frameQ)
  BY <1>2, TailFacts
<1>4. Head(frameQ).id \in Nat
  BY <1>3, Entries DEF Inv
<1>5. pc # "gone" => Head(frameQ).id = lastCompleted + 1 /\ Head(frameQ).id # 0
  BY <1>3, Lengths DEF Inv, FramesInv
<1>6. pc = "gone" => Head(frameQ).id = 0 /\ Tail(frameQ) = <<>>
  <2> SUFFICES ASSUME pc = "gone" PROVE Head(frameQ).id = 0 /\ Tail(frameQ) = <<>>
    OBVIOUS
  <2>1. frameQ = <<[id |-> 0, ok |-> FALSE]>>
    BY DEF Inv, FramesInv
  <2>2. frameQ[1].id = 0 /\ Len(frameQ) = 1
    BY <2>1
  <2> QED
    <3>1. Tail(frameQ) \in Seq(Entry) /\ Len(Tail(frameQ)) = 0
      BY <1>3, <2>2
    <3>2. Tail(frameQ) = <<>>
      BY <3>1, EmptySeq
    <3> QED
      BY <1>3, <2>2, <3>2
<1>7. frameQ' = Tail(frameQ) =>
        /\ frameQ' \in Seq([id : 0..MaxFrames, ok : BOOLEAN])
        /\ Len(frameQ') = Len(frameQ) - 1
        /\ \A i \in 1..(Len(frameQ) - 1) : frameQ'[i] = frameQ[i + 1] /\ i + 1 \in 1..Len(frameQ)
  BY <1>3 DEF Entry
<1>8. Len(frameQ) \in Nat /\ Len(frameQ) >= 1 /\ Head(frameQ) = frameQ[1]
  BY <1>3
<1> QED
  BY <1>4, <1>5, <1>6, <1>7, <1>8

LEMMA FrameWaitStep ==
  ASSUME Inv, FrameWait
  PROVE  Inv'
<1> USE DEF Inv, FrameUnchanged, deviceVars, chainVars, appVars, queueVars, submitVars, signalVars
<1>1. /\ framePc = "wait" /\ presentWait
      /\ UNCHANGED <<frameDrain, lastSignaled, lastCompleted, signalVars, deviceVars, status,
                     chainVars, surfaceCond, appVars, queueVars, submitVars, finishPc>>
  BY DEF FrameWait, FramesInv
<1>2. \/ frameQ = <<>> /\ frameCond' = TRUE /\ UNCHANGED <<framePc, frameQ>>
      \/ /\ frameQ # <<>> /\ pc = "gone" /\ framePc' = "exited" /\ frameQ' = Tail(frameQ)
         /\ UNCHANGED frameCond
      \/ /\ frameQ # <<>> /\ pc # "gone" /\ framePc' \in {"complete", "waitPresent"}
         /\ UNCHANGED <<frameQ, frameCond>>
  BY HeadOfFrames DEF FrameWait
<1>3. framePc' \in {"wait", "exited", "complete", "waitPresent"}
  BY <1>1, <1>2
<1>4. ChainTypes'
  <2>1. ChainTypes
    BY TypeParts
  <2>2. frameCond' \in BOOLEAN
    BY <1>2, <2>1 DEF ChainTypes
  <2> QED
    BY <1>1, <2>1, <2>2 DEF ChainTypes
<1>5. SignalTypes'
  BY <1>1, <1>3, TypeParts DEF SignalTypes
<1>6. QueueTypes' /\ (frameQ' = frameQ \/ (pc = "gone" /\ frameQ' = <<>>))
  BY <1>1, <1>2, HeadOfFrames, TypeParts DEF QueueTypes
<1>7. AppTypes' /\ PlaceInv' /\ EventBalance' /\ CountsInv'
  BY <1>1, AppUntouched
<1>8. QueuesInv' /\ (Stopped' <=> Stopped)
  BY <1>1 DEF QueuesInv, Stopped
<1>9. FinishInv'
  BY <1>1, <1>8 DEF FinishInv, Taken, Offset, InHand
<1>10. FramesInv'
  BY <1>1, <1>2, <1>3, <1>6, <1>8 DEF FramesInv, Pushed
<1>11. SignalInv'
  BY <1>1, <1>3 DEF SignalInv
<1>12. ChainInv'
  BY <1>1, <1>6 DEF ChainInv, Locked, Unfinished
<1> QED
  BY <1>4, <1>5, <1>6, <1>7, <1>8, <1>9, <1>10, <1>11, <1>12, TypePartsNext

LEMMA PresentDoneStep ==
  ASSUME Inv, PresentDone
  PROVE  Inv'
<1> USE DEF Inv, PresentDone, FrameUnchanged, deviceVars, chainVars, frameVars, appVars, queueVars,
     submitVars, signalVars
<1>1. ChainTypes' /\ SignalTypes' /\ QueueTypes'
  BY TypeParts DEF ChainTypes, SignalTypes, QueueTypes
<1>2. AppTypes' /\ PlaceInv' /\ EventBalance' /\ CountsInv'
  BY AppUntouched
<1>3. QueuesInv' /\ FinishInv' /\ FramesInv'
  BY DEF QueuesInv, FinishInv, FramesInv, Taken, Offset, InHand, Stopped, Pushed
<1>4. SignalInv' /\ ChainInv'
  BY DEF SignalInv, ChainInv, Locked, Unfinished
<1> QED
  BY <1>1, <1>2, <1>3, <1>4, TypePartsNext

LEMMA FrameCompleteStep ==
  ASSUME Inv, FrameComplete
  PROVE  Inv'
<1> USE DEF Inv, FrameUnchanged, deviceVars, chainVars, appVars, queueVars, submitVars, signalVars
<1>1. /\ framePc = "complete" /\ frameQ # <<>> /\ pc # "gone" /\ presentWait
      /\ frameQ' = Tail(frameQ) /\ frameDrain' = FALSE
      /\ UNCHANGED <<frameCond, lastSignaled, signalVars, deviceVars, status, chainVars, surfaceCond,
                     appVars, queueVars, submitVars, finishPc>>
  BY DEF FrameComplete, FramesInv
<1>2. /\ Len(frameQ) \in Nat /\ Len(frameQ) >= 1 /\ Head(frameQ).id = lastCompleted + 1
      /\ frameQ' \in Seq([id : 0..MaxFrames, ok : BOOLEAN]) /\ Len(frameQ') = Len(frameQ) - 1
      /\ \A i \in 1..(Len(frameQ) - 1) : frameQ'[i] = frameQ[i + 1] /\ i + 1 \in 1..Len(frameQ)
  BY <1>1, HeadOfFrames
<1>3. /\ lastCompleted' = lastCompleted + 1
      /\ framePc' = IF lastSignaled >= lastCompleted + 1 THEN "signal" ELSE "wait"
  BY <1>2 DEF FrameComplete, Executed
<1>4. /\ lastCompleted \in Nat /\ lastSignaled \in Nat /\ signal \in Nat /\ frameId \in Nat
      /\ MaxFrames \in Nat /\ Len(submitQ) \in Nat /\ Len(csQ) \in Nat /\ Pushed \in Nat
  BY Lengths
<1>5. lastCompleted + 1 \in 0..MaxFrames
  <2>1. lastCompleted + Len(frameQ) <= frameId /\ frameId <= MaxFrames
    BY <1>1, TypeParts DEF FramesInv, AppTypes
  <2> QED
    BY <1>2, <1>4, <2>1
<1>6. ChainTypes' /\ QueueTypes'
  <2>1. ChainTypes /\ QueueTypes
    BY TypeParts
  <2>2. ChainTypes'
    <3>1. UNCHANGED <<deviceVars, status, submitVars, swapchain, acquireStatus, dirty, pending, surfaceCond>>
      BY <1>1
    <3>2. frameCond' \in BOOLEAN /\ frameDrain' \in BOOLEAN
      BY <1>1, <2>1 DEF ChainTypes
    <3>3. /\ UNCHANGED <<presentWait, maintenance, waitable, lost>>
          /\ UNCHANGED <<submitPc, result>>
      BY <3>1 DEF deviceVars, submitVars
    <3> QED
      BY <2>1, <3>1, <3>2, <3>3 DEF ChainTypes
  <2>3. QueueTypes'
    BY <1>1, <1>2, <2>1 DEF QueueTypes
  <2> QED
    BY <2>2, <2>3
<1>7. SignalTypes'
  BY <1>1, <1>3, <1>5, TypeParts DEF SignalTypes
<1>8. AppTypes' /\ PlaceInv' /\ EventBalance' /\ CountsInv'
  BY <1>1, AppUntouched
<1>9. QueuesInv' /\ (Stopped' <=> Stopped) /\ Pushed' = Pushed
  BY <1>1 DEF QueuesInv, Stopped, Pushed
<1>10. FinishInv'
  BY <1>1, <1>9 DEF FinishInv, Taken, Offset, InHand
<1>11. ASSUME NEW i \in 1..(Len(frameQ) - 1)
       PROVE  frameQ[i + 1].id = (lastCompleted + 1) + i
  <2>1. frameQ[i + 1].id = lastCompleted + (i + 1)
    BY <1>1, <1>2 DEF FramesInv
  <2> QED
    BY <1>2, <1>4, <2>1
<1>12. /\ (lastCompleted + 1) + (Len(frameQ) - 1) <= frameId
       /\ ~Stopped => (lastCompleted + 1) + (Len(frameQ) - 1) + Len(submitQ) + Len(csQ) = frameId + Pushed
  <2>1. /\ lastCompleted + Len(frameQ) <= frameId
        /\ ~Stopped => lastCompleted + Len(frameQ) + Len(submitQ) + Len(csQ) = frameId + Pushed
    BY <1>1 DEF FramesInv
  <2>2. /\ (lastCompleted + 1) + (Len(frameQ) - 1) = lastCompleted + Len(frameQ)
        /\ (lastCompleted + 1) + (Len(frameQ) - 1) + Len(submitQ) + Len(csQ)
             = lastCompleted + Len(frameQ) + Len(submitQ) + Len(csQ)
    BY <1>2, <1>4
  <2> QED
    BY <2>1, <2>2
<1>13. FramesInv'
  BY <1>1, <1>2, <1>3, <1>9, <1>11, <1>12 DEF FramesInv
<1>14. SignalInv'
  <2>1. CASE lastSignaled >= lastCompleted + 1
    <3>1. finishPc # "signal" /\ framePc' = "signal"
      BY <1>1, <1>3, <1>4, <2>1 DEF SignalInv
    <3>2. signal = lastCompleted /\ lastCompleted + 1 <= lastSignaled
      BY <1>1, <1>4, <2>1, <3>1 DEF SignalInv
    <3> QED
      BY <1>1, <1>3, <3>1, <3>2 DEF SignalInv
  <2>2. CASE ~(lastSignaled >= lastCompleted + 1)
    <3>1. framePc' = "wait" /\ lastSignaled <= lastCompleted + 1 /\ lastSignaled <= lastCompleted
      BY <1>3, <1>4, <2>2
    <3>2. finishPc # "signal" => signal = lastSignaled
      BY <1>1, <1>4, <3>1 DEF SignalInv
    <3>3. finishPc = "signal" => signal + 1 = lastSignaled
      BY <1>1 DEF SignalInv
    <3> QED
      BY <1>1, <1>3, <3>1, <3>2, <3>3 DEF SignalInv
  <2> QED
    BY <2>1, <2>2
<1>15. ChainInv'
  BY <1>1 DEF ChainInv, Locked, Unfinished
<1> QED
  BY <1>6, <1>7, <1>8, <1>9, <1>10, <1>13, <1>14, <1>15, TypePartsNext

LEMMA FrameSignalStep ==
  ASSUME Inv, FrameSignal
  PROVE  Inv' /\ signal' = signal + 1
<1> USE DEF Inv, FrameUnchanged, deviceVars, chainVars, frameVars, appVars, queueVars, submitVars
<1>1. /\ framePc = "signal" /\ framePc' = "wait" /\ presentWait /\ Signal(lastCompleted)
      /\ UNCHANGED <<frameVars, deviceVars, status, chainVars, surfaceCond, appVars, queueVars,
                     submitVars, finishPc>>
  BY DEF FrameSignal, FramesInv
<1>2. lastCompleted <= lastSignaled /\ signal + 1 = lastCompleted /\ finishPc # "signal"
  BY <1>1 DEF SignalInv
<1>3. signal' = lastCompleted /\ lastCompleted \in Frames \union {0}
  BY <1>1 DEF Signal, TypeOK
<1>4. /\ callbacks' \subseteq Frames \X (1..Events) /\ events' \in 0..Events
      /\ EventBalance' /\ CountsInv'
  BY <1>1, <1>3, CallbacksCalled
<1>5. ChainTypes' /\ QueueTypes' /\ AppTypes' /\ PlaceInv'
  BY <1>1, TypeParts DEF ChainTypes, QueueTypes, AppTypes, PlaceInv, Presenting, TearingDown
<1>6. SignalTypes'
  BY <1>1, <1>3, <1>4, TypeParts DEF SignalTypes
<1>7. QueuesInv' /\ FinishInv' /\ FramesInv'
  BY <1>1 DEF QueuesInv, FinishInv, FramesInv, Taken, Offset, InHand, Stopped, Pushed
<1>8. SignalInv'
  BY <1>1, <1>2, <1>3 DEF SignalInv
<1>9. ChainInv'
  BY <1>1 DEF ChainInv, Locked, Unfinished
<1> QED
  BY <1>2, <1>3, <1>4, <1>5, <1>6, <1>7, <1>8, <1>9, TypePartsNext

LEMMA LoseDeviceStep ==
  ASSUME Inv, LoseDevice
  PROVE  Inv'
<1> USE DEF Inv, LoseDevice, chainVars, frameVars, appVars, queueVars, submitVars, signalVars
<1>1. ChainTypes' /\ SignalTypes'
  BY TypeParts DEF ChainTypes, SignalTypes
<1>2. AppTypes' /\ PlaceInv' /\ EventBalance' /\ CountsInv'
  BY AppUntouched
<1>3. QueueTypes' /\ QueuesInv' /\ FinishInv' /\ FramesInv' /\ SignalInv'
  BY QueuesUntouched
<1>4. ChainInv'
  BY DEF ChainInv, Locked, Unfinished
<1> QED
  BY <1>1, <1>2, <1>3, <1>4, TypePartsNext

LEMMA NoticeLossStep ==
  ASSUME Inv, NoticeLoss
  PROVE  Inv'
<1> USE DEF Inv, NoticeLoss, deviceVars, chainVars, frameVars, appVars, queueVars, submitVars,
     signalVars
<1>1. ChainTypes' /\ SignalTypes' /\ QueueTypes'
  BY TypeParts DEF ChainTypes, SignalTypes, QueueTypes
<1>2. AppTypes' /\ PlaceInv' /\ EventBalance' /\ CountsInv'
  BY AppUntouched
<1>3. QueuesInv' /\ SignalInv' /\ ChainInv'
  BY DEF QueuesInv, SignalInv, ChainInv
<1>4. Taken' = Taken /\ Offset' = Offset /\ Pushed' = Pushed /\ ~Stopped
  BY DEF Taken, Offset, InHand, Pushed, Stopped
<1>5. FinishInv' /\ FramesInv'
  BY <1>4 DEF FinishInv, FramesInv
<1> QED
  BY <1>1, <1>2, <1>3, <1>5, TypePartsNext

-----------------------------------------------------------------------------
(* The invariant, and what follows from it *)

LEMMA InvInit == Init => Inv
<1> SUFFICES ASSUME Init PROVE Inv
  OBVIOUS
<1> USE PresenterAssumption DEF PresenterAssumption, Init
<1>1. ChainTypes
  BY DEF ChainTypes, Results
<1>2. AppTypes /\ QueueTypes /\ SignalTypes
  BY DEF AppTypes, QueueTypes, SignalTypes
<1>3. PlaceInv /\ SignalInv
  BY DEF PlaceInv, Presenting, TearingDown, SignalInv
<1>4. Len(csQ) = 0 /\ Len(submitQ) = 0 /\ Len(finishQ) = 0 /\ Len(frameQ) = 0
  OBVIOUS
<1>5. QueuesInv /\ FinishInv /\ FramesInv
  BY <1>4 DEF QueuesInv, FinishInv, FramesInv, Taken, Offset, InHand, Stopped, Pushed
<1>6. ChainInv
  BY <1>4 DEF ChainInv, Unfinished, Locked
<1>7. EventBalance /\ CountsInv
  BY FS_EmptySet DEF EventBalance, CountsInv
<1> QED
  BY <1>1, <1>2, <1>3, <1>5, <1>6, <1>7, TypeParts DEF Inv

LEMMA InvStep ==
  ASSUME Inv, [Next]_vars
  PROVE  Inv'
<1>1. CASE AppStep
  BY <1>1, AcquireStep, UpdateSwapChainStep, WaitForIdleStep, DestroySwapchainStep,
     AcquireImageStep, CreateSwapChainStep, SyncFrameLatencyStep, DestroyResourcesStep, DestructStep
  DEF AppStep
<1>2. CASE Choose
  BY <1>2, PresentStep, SetPropertiesStep, CheckSwapChainStatusStep, ReleaseStep DEF Choose
<1>3. CASE SubmitStep
  BY <1>3, SubmitFetchStep, QueuePresentStep, PushFrameStep, AcquireEarlyStep, FinishPresentStep,
     RetireStep
  DEF SubmitStep
<1>4. CASE FinishStep
  BY <1>4, SignalFrameStep, QueueSignalStep, FinishPopStep DEF FinishStep
<1>5. CASE FrameStep
  BY <1>5, FrameWaitStep, PresentDoneStep, FrameCompleteStep, FrameSignalStep DEF FrameStep
<1>6. CASE UNCHANGED vars
  <2> USE <1>6 DEF Inv, vars, deviceVars, chainVars, frameVars, appVars, queueVars, submitVars,
       signalVars
  <2>1. ChainTypes' /\ SignalTypes'
    BY TypeParts DEF ChainTypes, SignalTypes
  <2>2. AppTypes' /\ PlaceInv' /\ EventBalance' /\ CountsInv'
    BY AppUntouched
  <2>3. QueueTypes' /\ QueuesInv' /\ FinishInv' /\ FramesInv' /\ SignalInv'
    BY QueuesUntouched
  <2>4. ChainInv'
    BY DEF ChainInv, Locked, Unfinished
  <2> QED
    BY <2>1, <2>2, <2>3, <2>4, TypePartsNext
<1> QED
  BY <1>1, <1>2, <1>3, <1>4, <1>5, <1>6, CsPresentStep, LoseDeviceStep, NoticeLossStep DEF Next

LEMMA InvCorrect == Spec => []Inv
<1>1. Inv /\ [Next]_vars => Inv'
  BY InvStep
<1> QED
  BY <1>1, InvInit, PTL DEF Spec

\* The variables keep their types.  In particular no frame beyond the bound is
\* emitted, and the count of the frame latency event never exceeds its first value.
THEOREM TypeCorrect == Spec => []TypeOK
<1>1. Inv => TypeOK
  BY DEF Inv
<1> QED
  BY <1>1, InvCorrect, PTL

\* For any number of frames the frame signal runs ahead neither of the queue thread
\* nor, with present wait, of the frame thread.
THEOREM FrameCorrect == Spec => []NoEarlyFrame
<1>1. Inv => NoEarlyFrame
  <2> SUFFICES ASSUME Inv, presentWait PROVE signal <= lastSignaled /\ signal <= lastCompleted
    BY DEF NoEarlyFrame
  <2>1. signal \in Nat /\ lastSignaled \in Nat /\ lastCompleted \in Nat
    BY Lengths DEF Inv
  <2> QED
    BY <2>1 DEF Inv, SignalInv
<1> QED
  BY <1>1, InvCorrect, PTL

\* The swap chain is there while the submission thread or the frame thread uses it,
\* and at most one image is presented at a time.
THEOREM SwapchainCorrect == Spec => []SwapchainSafe
<1>1. Inv => SwapchainSafe
  <2> SUFFICES ASSUME Inv, status = "SUCCESS"
               PROVE  /\ submitPc \in {"present", "acquireNext"} \/ framePc = "waitPresent" => swapchain
                      /\ Unfinished = (IF pending THEN 1 ELSE 0)
    BY DEF SwapchainSafe, SwapchainInUse, AtMostOnePresent
  <2>1. Unfinished = (IF pending THEN 1 ELSE 0)
    BY DEF Inv, ChainInv
  <2>2. CASE submitPc \in {"present", "acquireNext"}
    <3>1. submitQ # <<>> /\ Unfinished = Len(csQ) + Len(submitQ)
      BY <2>2 DEF Inv, QueuesInv, Unfinished
    <3>2. Unfinished # 0
      BY <3>1, HeadOfSubmission, Lengths DEF Inv
    <3> QED
      BY <2>1, <3>2 DEF Inv, ChainInv
  <2>3. CASE framePc = "waitPresent"
    BY <2>1, <2>3 DEF Inv, ChainInv, FramesInv
  <2> QED
    BY <2>1, <2>2, <2>3
<1> QED
  BY <1>1, InvCorrect, PTL

\* The frame latency event, its callbacks and the Present under way always add up.
THEOREM EventCorrect == Spec => []EventBalance
<1>1. Inv => EventBalance
  BY DEF Inv
<1> QED
  BY <1>1, InvCorrect, PTL

\* Of the two threads that may signal a frame exactly one does, in the order of the
\* frames.
THEOREM OrderCorrect == Spec => FramesInOrder
<1>1. Inv /\ [Next]_vars => [signal' = signal + 1]_signal
  <2> SUFFICES ASSUME Inv, [Next]_vars, signal' # signal PROVE signal' = signal + 1
    OBVIOUS
  <2>1. QueueSignal \/ FrameSignal
    BY DEF Next, vars, signalVars, deviceVars, chainVars, frameVars, appVars, queueVars, submitVars,
       AppStep, Choose, SubmitStep, FinishStep, FrameStep, Acquire, UpdateSwapChain, WaitForIdle,
       DestroySwapchain, AcquireImage, CreateSwapChain, SyncFrameLatency, DestroyResources, Destruct,
       Present, SetProperties, CheckSwapChainStatus, Release, Unchanged, CsPresent, SubmitFetch,
       QueuePresent, PushFrame, AcquireEarly, FinishPresent, Retire, SubmitUnchanged, SignalFrame,
       FinishPop, FrameWait, PresentDone, FrameComplete, LoseDevice, NoticeLoss
  <2> QED
    BY <2>1, QueueSignalStep, FrameSignalStep
<1> QED
  BY <1>1, InvCorrect, PTL DEF Spec, FramesInOrder
=============================================================================
