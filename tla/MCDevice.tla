------------------------------ MODULE MCDevice ------------------------------
(***************************************************************************)
(* The services of DxvkDevice that do not call each other, model-checked   *)
(* one after the other: fences with events, CPU fences, the sampler pool,  *)
(* the submission of command lists and the two allocators.  A behaviour    *)
(* picks one; the others stay as they were built.                          *)
(***************************************************************************)
EXTENDS DxvkFence, SamplerPool, Sequences

CONSTANTS
  Callbacks, MaxSignal,                             \* CallbackFence
  MaxLists, MaxSubmissions, MaxIssued,              \* CommandListSubmission
  ChunkPages, MaxChunks, Alignments,                \* PageAllocator
  MaskBits, SizeClasses, PageCount, MaxObjects      \* PoolAllocator

VARIABLES
  which,   \* the service that runs
  cbValue, cbList, cbDue, cbAsleep, cbPc, target, hand, cbUsed, called, calledAt,
  dedicated, timelines, carried, list, index, issued, batches, semaphore, fence, done, finish,
  retired, failed,
  freeList, pageLut, chunks, freeChunk, allocated,
  closed, taken, pageMask, pagePool, pools, freePool, pageLists, objects

fenceVars == vars
callbackVars ==
  <<cbValue, cbList, cbDue, cbAsleep, cbPc, target, hand, cbUsed, called, calledAt>>
submissionVars ==
  <<dedicated, timelines, carried, list, index, issued, batches, semaphore, fence, done, finish,
    retired, failed>>
pageVars == <<freeList, pageLut, chunks, freeChunk, allocated>>
poolVars == <<closed, taken, pageMask, pagePool, pools, freePool, pageLists, objects>>
memoryVars == <<pageVars, poolVars>>
deviceVars ==
  <<which, fenceVars, callbackVars, samplerVars, submissionVars, memoryVars>>

Callback == INSTANCE CallbackFence WITH
  Users <- Callers, MaxValue <- MaxSignal, value <- cbValue, list <- cbList, due <- cbDue,
  asleep <- cbAsleep, pc <- cbPc, used <- cbUsed

Lists == INSTANCE CommandListSubmission

PageSource == INSTANCE PageAllocator

ItemSource == INSTANCE PoolAllocator

\* What the modules say of their constants.
ASSUME DeviceAssumption ==
  /\ Callback!CallbackFenceAssumption
  /\ Lists!SubmissionAssumption
  /\ PageSource!PageAssumption /\ ItemSource!PoolMasksAssumption

DeviceInit ==
  /\ which \in {"fence", "callback", "samplers", "submission", "pages", "pools"}
  /\ Init /\ Callback!Init /\ SamplerInit /\ Lists!Init
  /\ PageSource!Init /\ ItemSource!Init
  /\ dedicated => which = "submission"

\* A service runs and the others stay.
FenceRuns ==
  /\ which = "fence"
  /\ UNCHANGED <<which, callbackVars, samplerVars, submissionVars, memoryVars>>
CallbackRuns ==
  /\ which = "callback"
  /\ UNCHANGED <<which, fenceVars, samplerVars, submissionVars, memoryVars>>
SamplersRun ==
  /\ which = "samplers"
  /\ UNCHANGED <<which, fenceVars, callbackVars, submissionVars, memoryVars>>
SubmissionRuns ==
  /\ which = "submission"
  /\ UNCHANGED <<which, fenceVars, callbackVars, samplerVars, memoryVars>>
PagesRun ==
  /\ which = "pages"
  /\ UNCHANGED <<which, fenceVars, callbackVars, samplerVars, submissionVars, poolVars>>
PoolsRun ==
  /\ which = "pools"
  /\ UNCHANGED <<which, fenceVars, callbackVars, samplerVars, submissionVars, pageVars>>

DeviceNext ==
  \/ FenceRuns /\ Next
  \/ CallbackRuns /\ Callback!Next
  \/ SamplersRun /\ SamplerNext
  \/ SubmissionRuns /\ Lists!Next
  \/ PagesRun /\ PageSource!Next
  \/ PoolsRun /\ ItemSource!Next

\* The fairness that the services state, of whichever runs.
DeviceSpec ==
  /\ DeviceInit /\ [][DeviceNext]_deviceVars
  /\ WF_deviceVars(FenceRuns /\ WorkerStep)
  /\ \A t \in Callers :
       WF_deviceVars(
         \/ FenceRuns /\ Enqueue(t)
         \/ CallbackRuns /\ (Callback!WaitLocked(t) \/ Callback!SetCallbackLocked(t)))

-----------------------------------------------------------------------------
(* Properties: what the modules state of each service *)

DeviceTypeOK ==
  /\ TypeOK /\ Callback!TypeOK /\ SamplerTypeOK /\ Lists!TypeOK
  /\ PageSource!TypeOK /\ ItemSource!TypeOK

CalledExactlyWhenReached == Callback!CalledExactlyWhenReached
ListsInOrder == Lists!ListsInOrder
QueuesMoveOn == Lists!QueuesMoveOn

\* Memory is given out once, and the books of both allocators say what is.
MemorySound == PageSource!PagesSound /\ ItemSource!ItemsSound

\* Nobody is left waiting for any of them.
ServicesProgress == WorkerProgresses /\ Callback!WaitsEnd
=============================================================================
