# Formal models of DXVK

TLA+ models of the parts of DXVK where threads meet: the queues between the
application, the command stream thread, the submission threads and the GPU, and
the fences that tie them together.  Paths below are those of the repository,
under `src/`; `dxvk_queue.cpp` without a directory is `src/src/dxvk/dxvk_queue.cpp`.

## 1. Inventory

### How the parts interact

```
 application threads                    "dxvk-cs"            "dxvk-submit"        "dxvk-queue"
 D3D11 / D3D9 front end
   record --- CsThread queues ---> execute chunk on
   (chunks)                        DxvkContext
                                     | DxvkCommandList, present
                                     +---- m_submitQueue ---> vkQueueSubmit2
   synchronize <--- sequence no. ----+                        vkQueuePresentKHR
                                                                | m_finishQueue
   waitForSubmission <------------ result ----------------------+------> wait for the GPU
   waitForResource, waitForIdle <-- wakeup -------------------------------- release objects
   frame latency <--------- sync::CallbackFence <--- Presenter::signalFrame --- pop, recycle
   SetEventOnCompletion <------ DxvkFence worker <---- timeline semaphore <---- GPU
```

### Components

**Submission queue** (`dxvk_queue.cpp/.h`, and the waiting functions of
`dxvk_device.cpp/.h`).  State: two queues of entries, each a command list or a
present; a result per entry; the last error; one mutex for the queues and one for
the Vulkan queue; three condition variables.  Operations: `submit`, `present`,
`synchronizeSubmission`, `synchronize`, `synchronizeUntil`, `waitForIdle`,
`lockDeviceQueue`, the two thread loops, the destructor.  Hard: three kinds of
threads, three condition variables with different predicates, an entry that is
executed with no lock while it keeps its place in the queue, results that are
written with no lock, errors at three places with three different reactions.
Correct when: results and retirement follow the order of the calls; nothing is
released, signaled or recycled before the GPU is through with it; back-pressure
bounds the command lists; every wait ends.

**Command stream thread** (`dxvk_cs.cpp/.h`).  State: an ordered and a
high-priority queue of chunks, a flag that says the second is not empty, two
sequence counters each for dispatch and execution, two mutexes, two condition
variables.  Operations: `dispatchChunk`, `injectChunk` with and without a wait,
`synchronize`, the thread loop, the destructor.  Hard: chunks sit in two copies of
two queues, the flag and the dispatch counter are read with no lock, counters and
queues have different mutexes.  Correct when: each queue executes in order, an
injected chunk overtakes all ordered ones that have not begun, a wait ends after,
and only after, the chunk is executed.

**GPU fences** (`dxvk_fence.cpp/.h`).  State: a timeline semaphore, a heap of
events, a worker that is started by the first event.  Operations: `enqueueWait`,
the worker, the destructor.  Hard: the value is read before the lock, the worker
sleeps on a condition variable or polls with a timeout.  Correct when: each event
is called once, not early, and in the end.

**CPU signals** (`util/sync/sync_signal.h`).  `sync::Fence`: an atomic value with
a mutex and a condition variable.  `sync::CallbackFence`: the same with a list of
callbacks.  Hard: the value is read before the lock.  Correct when: no callback is
lost, doubled or early and no waiter is left asleep.

**Locks and lists** (`util/sync/sync_spinlock.h`, `sync_ticketlock.h`,
`sync_recursive.cpp`, `sync_list.h`).  A few atomics each.

**Presenter and frame thread** (`dxvk_presenter.cpp/.h`).  State: surface, swap
chain, acquired image, dirty flags, `m_presentPending`, a queue of frames, the
last signaled and the last completed frame.  Operations: `acquireNextImage`,
`presentImage`, `signalFrame`, `destroyResources`, the frame thread.  Hard: the
application's thread acquires, the submission thread presents, the queue thread
signals, and the frame thread waits for the display; the swap chain may be
recreated at any acquire and the device lost at any time.  Correct when: the swap
chain is not destroyed during a present, a frame is signaled once, in order, after
both the GPU and the display are through with it.

**Swap chains of the front ends** (`d3d11/d3d11_swapchain.cpp`,
`d3d9/d3d9_swapchain.cpp`, `dxgi/dxgi_swapchain.cpp`).  State: frame id, frame
latency, waitable handle.  Hard: callbacks that outlive the swap chain, waits for
frames that are dropped.

**Command list** (`dxvk_cmdlist.cpp/.h`).  Command buffers for up to three Vulkan
queues, submitted with timeline semaphores between them; a tracker of the used
objects; signals.  Hard: a list becomes several `vkQueueSubmit2` calls on queues that
run on their own, any of which may fail.  Correct when: the device's work is in the
order of the program, no queue waits for a value that nobody signals, and a list is
released only when all its queues are through with it.

**Resource tracking and recycling** (`dxvk_sparse.h`, `dxvk_recycler.h`).  Use
counts for reading and writing in one 64-bit atomic, held from the recording of a
command to the end of its command list; a lock-protected list of free objects.
Correct when: a map never gives the application memory that the device, or a command
not yet recorded, still uses.

**Sampler pool** (`dxvk_sampler.cpp/.h`).  Samplers with a reference count, a
table from keys to samplers, an LRU list of those with count zero.  Hard: the count
is decremented before the lock is taken.

**GPU queries and events** (`dxvk_gpu_query.cpp/.h`, `dxvk_gpu_event.cpp/.h`,
`d3d11/d3d11_query.cpp`).  Query objects made of several pool slots, begun and
ended by the CS thread at render pass boundaries, read by the application, recycled by
the queue thread.  Hard: four threads, and a slot that is reset in a command list that
may be in flight with another one that uses it.  Correct when: a result that is called
available counts what lies between Begin and End, and polling ends.

**Memory** (`dxvk_memory.cpp/.h`, `dxvk_allocator.cpp/.h`, `dxvk_sparse.cpp`).
Page and pool allocators in chunks, a cache shared by threads, relocation of
allocations, sparse page tables.  Hard: redundant indices (a sorted list with a
look-up table, masks of masks, free lists threaded through arrays) that must agree
after every sequence of calls.

**Descriptors** (`dxvk_descriptor_pool.cpp`, `dxvk_descriptor_worker.cpp/.h`,
`dxvk_descriptor_heap.cpp`).  Pools, heaps and a worker thread that copies
descriptors from a ring of blocks.  Hard: two fence values are all that keeps the two
threads apart.  Correct when: updates are written in order and before the submission
of the list that needs them.

**Pipeline manager and workers** (`dxvk_pipemanager.cpp/.h`, `dxvk_graphics.cpp/.h`,
`dxvk_compute.cpp`).  State: three priority buckets of tasks, each with a condition
variable and a count of idle workers; per pipeline a use count and an instance per
state vector, with a base handle linked from libraries and a fast handle compiled
later.  Operations: requests, the worker loop, `stopWorkers`; look-up and creation of
instances, `acquirePipeline`, `releasePipeline`.  Hard: a worker may take tasks of
several buckets but sleeps on the condition variable of one, and the notifier
chooses one; handles are read with no lock while workers store them; uses are
dropped by workers and by the queue thread in any order.  Correct when: no task is
left to sleeping workers, no base pipeline is destroyed while a command list binds
it or before an optimized one replaces it.

**Barriers and access tracking** (`dxvk_barrier.cpp`, `dxvk_access.cpp`).  A tree
of accessed ranges; correct when it reports a hazard exactly where one is.

**Recording context** (`dxvk_context.cpp/.h`): Vulkan state and commands of one
thread, `dxvk-cs`.

**Flush heuristics and staging** (`util/util_flush.cpp`, `dxvk_staging.cpp`).  Counts
of pending chunks and submissions.  Correct when: commands that somebody waits for are
submitted in the end.

**Latency trackers and pacing** (`dxvk_latency_builtin.cpp`,
`dxvk_latency_reflex.cpp`, `util/util_fps_limiter.cpp`).  A ring of frames with time
stamps.  Hard: the application sleeps in Present, with no timeout, until two other
threads have reported on earlier frames, and discards frames meanwhile.  Correct when:
a time stamp belongs to its frame, and the sleep ends.

**Front ends**: D3D11 (`d3d11/`), D3D9 (`d3d9/`), D3D8, D3D10, DXGI.  They record
chunks, keep resource sequence numbers, and call the waiting functions above.

**Compilers** (`dxbc/`, `dxso/`, `spirv/`) and **platform** (`wsi/`, `vulkan/`,
`dxvk/hud/`, `util/`): sequential code and system bindings.

`dxvk_query_async.h` and `d3d11/d3d11_cbuffer_batch.h` are included by no file of
the repository; what OPTIMIZATIONS.md says of them is not what the program does.

The hazards of this code, each at its line, are the list `hazards` of PROJECT.json.

## 2. Plan

| # | modules | composes | abstract specification | state |
|---|---|---|---|---|
| 1 | SubmissionQueue | clients, both threads, the GPU | InOrderPipeline | done, proved |
| 2 | CsThread | application, injectors, worker | CommandStream | done, proved |
| 3 | DxvkFence | callers, worker, GPU | | done, proved |
| 4 | CallbackFence | users, signaler | | done, proved |
| 5 | Presenter | application, CS, submission, queue and frame threads | frames signaled in order | done, proved |
| 6 | SamplerPool | acquiring and releasing threads | SamplerCache | done, proved |
| 7 | PipelineWorkers | CS thread, workers of three priorities, the device | | done, proved |
| 8 | ImmediateContext, GpuQuery | application, CS thread, device, queue thread | exact counts | done, proved |
| 9 | ResourceMap, on ImmediateContext | application, CS thread, device | sequential memory | done, proved |
| 10 | DescriptorWorker | CS thread, worker, submission thread over two `sync::Fence` | bounded FIFO | done, proved |
| 11 | CommandListSubmission | graphics, transfer and sparse queue | program order | done, proved |
| 12 | PageAllocator, PoolAllocator | DxvkMemoryAllocator's calls | | done, proved |
| 13 | LatencyTracker | application, submission, queue and frame threads | | done, proved |
| 14 | DeviceProofs | `QueuesMoveOn`, `ListsInOrder` | | done |
| 15 | GpuQueryProofs, ReadbackProofs | `ResultExact`, `UsedOncePerReset`, `SequentialMemory`, `ReadbackTypeOK` | | done |
| 16 | DeviceProofs, MemoryProofs | `MemorySound`, `DeviceTypeOK` | | done |

"Proved": the module's safety properties are theorems; section 6 names the exceptions.

## 3. Modules and how they correspond to the code

A critical section that does not block inside is one action.  A thread is a
program counter and its local variables.  A condition variable is the set of the
threads that sleep on it: `wait` with a false predicate puts the thread into the
set, `notify_all` empties it, `notify_one` removes any one element, and a thread
that is not in the set evaluates its predicate when it holds the mutex.  Spurious
wakeups add nothing, as each wait is in a predicate loop.  What a read outside of
the lock returns is decided by an action of its own, so that everything can happen
between it and the lock.

**SubmissionQueue** models `DxvkSubmissionQueue`.  Entries are numbers in the order
of the calls.  `submitQ`, `finishQ`, `lastError`, `stopped` are the members of the
same names; `status` is both the `DxvkSubmitStatus` a client holds and the result
in the entry; `appendCond`, `submitCond`, `finishCond` are the condition variables.
`mutex` is the holder of `m_mutex` only where a thread blocks with it;
`queueOwner` is the holder of `m_mutexQueue`.  The actions of the submission thread
are `FetchSubmit` (the wait and the move out of the slot), `CheckError` (the read of
`m_lastError`), `Execute` (submit or present under the queue lock and the store of
the result), then `RetireSubmit`, `DropSubmit` with `ReleaseDropped`, or
`FailSubmit`.  Those of the queue thread are `FetchFinish`, `LoadError`,
`WaitSemaphores` or `FailFinish`, `NotifyObjects` or `SignalFrame`, `PopFinish`,
`Recycle`.  Client calls are actions named after the function, one per critical
section.  The GPU (`GpuSignal`, `GpuLose`) signals the values in order until it is
lost, which is what Vulkan says of one timeline.  `released`, `frames` and
`recycled` record what has been released, signaled and handed back; `snapshot`
records what was queued when a client began to wait for everything.  They exist for
the properties only.

**InOrderPipeline** is what the queue promises: entries enter at one end, move to
the GPU and retire in order, and may be refused only when the device fails.

**CsThread** models `DxvkCsThread`.  Chunks are numbers.  `queue`, `seqDispatch`,
`hasHighPrio`, `counter` are the members; `local` is the two vectors the worker
swaps into, from its loop index on.  `FetchChunks`, `PickChunk`, `ExecuteChunk`,
`Throw`, `FinishChunk`, `LeaveChunks`, `CheckStopped` are the worker's loop.
`Apps` dispatch and synchronize, `Injectors` inject as `D3D11Initializer` does,
`Lockers` inject and wait as `LockImage` and `LockBuffer` do.

**CommandStream** is what the thread promises: two FIFO sequences and the chunk that is
being executed; an ordered chunk is begun only when no injected one waits, whenever that
was queued.  What waits is a local vector with the queue behind it (`Items`), and a chunk
is begun with `PickChunk`, where the refill (`dxvk_cs.cpp:232`) lets a chunk overtake
that was injected after the worker had fetched its chunks.  `PickChunk` reads
`m_hasHighPrio` and takes the chunk in one step: a chunk that is injected right after the
read counts as injected after the pick.

**DxvkFence** models `DxvkFence`: `EnqueueWait` is the part of `enqueueWait` before
the lock, `Enqueue` the rest, `Scan` the worker's critical section, `TimedWait` its
`vkWaitSemaphores` with a timeout, `Fail` the error returns, `Destroy` the
destructor.  The heap is a set with the order of `QueueItem::operator<`: what the
loop pops is a function of set and value (`Reached`).

**CallbackFence** models `sync::CallbackFence`; `sync::Fence` is the same without
callbacks.

**Presenter** models `Presenter` under `D3D11SwapChain`, from the application's
Present to the signal of the frame.  The application's thread goes through `Acquire`
(`acquireNextImage` up to the wait for `m_presentPending`), `UpdateSwapChain`,
`WaitForIdle` and `DestroySwapchain`, `AcquireImage`, `CreateSwapChain`, then
`SyncFrameLatency`; `Release`, `DestroyResources` and `Destruct` are the end of the
swap chain.  `CsPresent` is the CS thread, `SubmitFetch` to `Retire` the submission
thread with `presentImage` inside, `SignalFrame` to `FinishPop` the queue thread,
`FrameWait` to `FrameSignal` the frame thread.  Of the submission queue only the
presents are kept (`submitQ`, `finishQ`).  Of the swap chain's `CallbackFence` it keeps
the value and the set of callbacks that wait.  `m_surfaceMutex` is held by the
application where its program counter is in `Locked`; `surfaceCond`, `frameDrain` and
`frameCond` say who sleeps on which condition variable.  Which Vulkan extensions
there are (`presentWait`, `maintenance`) and whether the application uses the frame
latency event (`waitable`) are chosen in the initial state.

**SamplerPool** models `DxvkSamplerPool` and the reference count of `DxvkSampler`.
A handle is one `Rc<DxvkSampler>`.  `createSampler` is `Find`, `FallBack`, `Replace` or
`FailReplace`, by the branch it takes under the lock and whether `vkCreateSampler`
succeeds in the last; `emptied` has the slots that lost their sampler to a creation that
failed; `DecRef` takes no lock and leaves
the handle in `release` when the count reaches zero, so that anything may happen
before `ReleaseSampler`.  The links of the list are the indices of the code.
`DxvkSampler::release` reads its own index with no lock, in a race with the
placement-new of the next sampler in the slot: `Raced` lets such a reader see either
index.  A releaser whose slot was emptied dereferences the empty `std::optional`
(`dxvk_sampler.cpp:388`); the model gives it what the storage holds, a count of zero, so
that the slot returns to the list.  **SamplerCache** is what the pool promises: a
least-recently-used cache that loses the sampler it was to replace when the driver fails
to make the next one.

**PipelineWorkers** models `DxvkPipelineWorkers` and the pipelines of one
`DxvkGraphicsPipeline`.  `queue`, `idle`, `running` are the members of the workers;
`asleep` is who sleeps on the condition variable of its own bucket.  A request is
`Push` with `StartWorkers` and `NotifyWorkers`; `Fetch` is the critical section of
`runWorker`, then `CompileLibrary`, or `CompilePipeline` and `ReleaseTask`.
`getPipelineHandle` is `FindInstance`, `CreateInstance`, `CompileGraphicsPipeline`,
and the loads of `getHandle`: `LoadFast`, `TestFast`, `LoadBase`.
`TrackGraphicsPipeline`, `SubmitCommandList` and `ResetCommandList` are the command
list as a user of the pipeline; `Acquire` and `Release` are `acquirePipeline` and
`releasePipeline`.  A base pipeline is bound only in a command list that tracks the
pipeline, as `updateGraphicsPipeline` runs before `updateGraphicsPipelineState`.
`track` and `libraryOnly` are the two options that decide about the lifetime, chosen
in the initial state.

**ImmediateContext** has the recording side of `D3D11ImmediateContext` as functions of
one record (`chunk`, `stream`, `seq`, `flushSeq`, `submission`, `missed`):
`EmitCs`, `FlushChunk`, `ExecuteFlush`, `ConsiderFlush` with `GpuFlushTracker`,
`NotifyRenderPassBoundary`, and the sequence numbers.  A module that extends it gives
the commands a meaning and adds the CS thread, of which CsThread shows that it takes
the chunks in order.

**GpuQuery** models a set of `D3D11Query` objects of four types.  `app` is what the
application's thread keeps, `query` what the lock of a `DxvkQuery` protects, `active`
and `inPass` are the query manager with the render pass it is in, `cmd` the current
command list, `lists` those in flight, `gpu` the Vulkan queries and events.  `Begin`,
`End`, `GetData`, `Draw`, `SetRenderTargets`, `Flush` are calls of the application;
`CsBegin` to `CsFlush` execute their commands; `Execute` is the device, operation by
operation; `Release` is `finishCmdLists`.  `CsEndTimestamp` and `CsStamp` are the two
halves of `writeTimestamp`, between which others see the query.  A query that restarts
at a render pass boundary gets another Vulkan query, and beyond `EmbeddedCapacity`
those that are available are accumulated early.

**ResourceMap** models `MapBuffer` for one buffer: `ptr` is the slice the application
sees, `storage` the slice the CS thread works on, `accesses` and `slices` what a
command list holds.  `MapDiscard`, `MapPromote` (the read-only shortcut of a write map
that copies into a new slice), `MapWait`, `MapRecorded`, `MapBusy`, `MapDrained` are
`MapBuffer` and `WaitForResource`, step by step; the sequence number of the resource
is tracked for staging buffers only.

**DescriptorWorker** models `DxvkDescriptorCopyWorker`: `AllocEntry`, `GetSyncHandle`,
`SignalAppend`, `NextBlock`, `ReturnFromFlush` are the CS thread, `WorkerWait`,
`ProcessBlock`, `SignalConsume` the worker, `Submit` the wait in
`DxvkCommandList::submit`, `Destroy` the destructor.

**CommandListSubmission** models `DxvkCommandList::submit`.  `Iteration` is what one
turn of its loop hands to Vulkan: at most five calls of `vkQueueSubmit2`, in the order
`SparseBatch`, `UploadBatch`, `ExecBatch`, `WsiBatch`, `SyncBatch`, each a batch with its
waits, its work and the value it signals.  `Submit` makes all the calls, `Fail` those
before the one that fails, which may be the first.  A batch carries the number of its
call, so that `batches` may be a set: a queue is the batches that name it, in the order
of their calls (`First`).  `dedicated` says whether the transfer queue is one of its
own.

**PageAllocator** and **PoolAllocator** model the two classes of `dxvk_allocator.cpp`
with their index structures: list positions count from zero, and `insertFreeRange`,
the bisection, the merge with the neighbours, and the chunks' free list are as in the
code.  A mask is the set of its bits.

**LatencyTracker** models `DxvkBuiltInLatencyTracker` under `D3D11SwapChain::Present`.
`PresentImage`, `PresentFails`, `NotifyCpuPresentEnd`, `SleepBegins`, `InitFrame` are
the application; `SleepBegins` evaluates the loop of `sleepBuiltin` (or the wait of
`sleepNv`) up to the first wait that does not pass, and the thread is `asleep` until
somebody notifies.  It may be evaluated from the start since only the application
itself changes which frames are known, and a time stamp that is there stays.
`QueuePresent`, `NotifyQueuePresentEnd` and `NotifyGpuPresentEnd` are the reports of
the other threads, the last of the frame thread or, without present wait, of the queue
thread.  Of a time stamp only its presence is kept.

**MCDevice**, **MCStream** and **MCReadback** put services side by side that do not
call each other.  A variable `which`, chosen in the initial state, names the one that
runs; the variables of the others keep their initial values.  A run of such a module
therefore checks each service in all its behaviours and nothing about their
combination.  MCDevice extends DxvkFence and SamplerPool, so that the theorems and the
run speak of the same definitions (which is why SamplerPool prefixes the names they
would share); the others are instances.  MCReadback extends GpuQuery for the same reason:
its steps are those of GpuQuery, restricted to the queries that count (`UsesCounters`) or
to those that end (`UsesTimers`), so that every theorem about GpuQuery's `Spec` holds of
the run.

**SubmissionQueueProofs**, **PresenterProofs**, **PipelineWorkersProofs** and
**GpuQueryProofs** hold the proofs about the module of their name;
**DeviceProofs** those about DxvkFence, CallbackFence, SamplerPool, CommandListSubmission
and PoolAllocator as parts of MCDevice, and **MemoryProofs**, which extends it, those
about PageAllocator and the two theorems that need all of them;
**StreamProofs** those about CsThread, and about DescriptorWorker and LatencyTracker as
instances of MCStream; **ReadbackProofs** those about ResourceMap as an instance of
MCReadback.

## 4. Runs

Bounds are constants: entries, chunks, events and values ever made.  Each system
retires what it is given and keeps nothing of it, so that a behaviour with more of
them repeats what a short one shows; the bounds are the smallest at which every
wait blocks, every queue holds two entries at once and every error comes at every
place.  The systems may stop (no client is obliged to call), so that deadlock is not
an error of the runs; that nobody is left waiting is what the liveness properties
say.

| run | configuration | shows |
|---|---|---|
| queue | one producer, one waiter, limit 0, two entries, all errors | all safety properties of the queue and its refinement of InOrderPipeline; every call returns unless the device is lost, and those that wait for submissions even then; both joins return |
| queue_error_hang | one entry, out-of-memory | violation: `waitForIdle` never returns after such an error (finding 1) |
| queue_lost_wakeup | one entry, device loss | violation: a wait for a resource sleeps for ever (finding 2) |
| stream | CS thread: one application, one injecting, one locking thread, three chunks, exceptions | flag, order within a queue, no ordered chunk before a waiting injected one, meaning of a wait, refinement of CommandStream; every wait ends as long as no two threads wait at once; every chunk is executed, join returns |
| | descriptor ring: three blocks of two updates, seven updates, two lists | updates in order and before their list is submitted; neither side waits for ever, join returns |
| | latency tracker: three entries, five frames, both algorithms, with and without present wait, device loss | time stamps belong to their frame; Present goes on while the device lives |
| cs_lost_wakeup | one application, one locking thread, two chunks | violation: `notify_one` wakes the wrong waiter (finding 3) |
| device | fences: two callers, three events, values to 2, errors | events once, not early, and in the end; the worker is not asleep with events queued, and ends |
| | CPU fences: two users, two callbacks, values to 2 | no callback lost, doubled or early, no waiter asleep |
| | samplers: three handles, four keys, three slots, creations that fail | no sampler in use is replaced, none is lost but by a failed creation, table, counter and list agree, refinement of SamplerCache |
| | submission: two submissions with any flags, in one list or two, with and without a transfer queue, failures | program order over three queues, nobody waits for what nobody signals, a list is released after its work |
| | pages: two chunks of four pages, alignments 1 and 2 | pages are partitioned, the list and its table agree, an allocation fails only when there is no room |
| | pools: masks of two bits, two sizes, two pages, four objects | items are partitioned, the lists have the pages with room, no shared PagePool |
| fence_order | one caller, two events | violation: a reached event stays queued (finding 4) |
| sparse_before_fence | one list with one submission | violation: sparse bindings do not wait for the list's fence (finding 6) |
| presenter | two frames, latency 1, event count 2, all failures | the frame signal is not early and in order, the swap chain is not destroyed in use, one present at a time, the event is released once per Present; while the device lives every call returns and every frame is signaled |
| pipelines | a worker of each priority, one state, two library tasks, one command list in flight, compile failures | base pipelines live as long as they are bound or needed, no task is left to sleepers, all tasks are compiled, stopWorkers returns |
| pipeline_found | one worker, one state | violation: `getHandle` finds no pipeline though two exist (finding 5) |
| readback | occlusion query and predicate: four calls, chunks of two commands, only strong hints flush | results are exact, no Vulkan query is reset in flight, polling ends |
| | timestamp and event: three calls, the same | the same |
| | buffer maps: three calls, three slices, each usage, cached or not | every read sees the write before it, every map ends, polling ends |

The three runs of several services have one property for what the services state
together: `FencePromises` is once, not early and not forgotten; `BooksBalance` is
table, counter and list of the samplers; `MemorySound` the two allocators;
`ServicesProgress`, `WaitsAllEnd` and `ReadbacksEnd` are liveness.  `CallsReturn` of
SubmissionQueue and of Presenter, and `SwapchainSafe`, join properties of one module in
the same way.

In `queue` the limit is 0, so that the second command list meets back-pressure, with
an entry in either queue, and all three errors may come at each place.  One waiter is
enough: waiters change nothing but the sets they sleep in and the queue lock, and the
theorems of section 6 hold for any number.  With two waiters a call can wait for ever
for `m_mutexQueue` while others take it in turn, since a C++ mutex is not fair; that
is not a defect of this code, and liveness is therefore checked with one.

In `stream` the chunks of one run fill both queues and both local copies, and a chunk can
be injected while another one executes.  `WaitsEnd` speaks of behaviours in which no
two threads sleep on `m_condOnSync` at once (`crowded` records it), since the run
`cs_lost_wakeup` shows what happens otherwise.

In `presenter` two frames are enough for the second to wait for the first by the frame
latency and to find a swap chain that has to be replaced while the first is still in the
frame thread's queue. In `device` one slot of the samplers is the default sampler's, so
that two are left for three keys, and a sampler can be dropped, found, dropped again and
replaced while its first releaser is on its way to the lock. In `pipelines` one state
is enough for the lifetime, since the use count does not tell states apart; two states
were checked for the safety properties only, which the theorems give for any number.

The ring of `stream` goes round once and half again, with the CS thread blocked on a
full one, and both lists may be taken before or after a block is handed over. The
frames of the latency tracker go round its ring of three, so that entries are used again
while reports on their former frames are still to come. In `device` the two submissions
are in one list or in two, each with any combination of sparse bindings, uploads, a
barrier, a fence and window system semaphores; three were out of reach. Two chunks of
four pages give every case of the merge with neighbours, and masks of two bits give both
representations of a page; four objects fill the larger page, or the smaller one and
then go to another. In `readback` four calls are enough for a query that is spread over
a render pass boundary or over two command lists, or used again while its first list is
in flight; three slices are one for the application, one for the CS thread and one for
the device.

## 5. Fairness

Weak fairness of each thread's steps (`SubmitStep`, `FinishStep`, `WorkerStep`,
`FrameStep`, `CsPresent`): the operating system runs threads. Weak fairness of the
steps of a client that is inside a call (`AppStep`, `CallStep`). None for starting a
call: an application may stop calling, so that `Choose` of Presenter and
PipelineWorkers, `Release` and `StopWorkers` among them, is never forced. `GpuSignal`
and `ResetCommandList` are weakly fair: the device executes what it was given, unless it
is lost; `GpuLose`, `LoseDevice` and all errors have no fairness. In DxvkFence and
CallbackFence nothing obliges anyone to signal. `Background` of GpuQuery and
ResourceMap is the CS thread, the device and the queue thread, one of which moves as
long as one of them can: they form a pipeline in which each only waits for the one
before, and the bound on calls ends the work. `Poll` says that an application which
polls goes on doing so; that it calls anything else is never forced. The steps of the
descriptor ring (`WorkerStep`, `FlushStep`, `Submit`) are those of its three threads,
and the latency tracker's are `AppStep` inside Present, `SubmitStep` and the frame
thread's report. In MCDevice, MCStream and MCReadback one weak fairness condition
covers the corresponding steps of several services, which is the same as one for each,
since only one service runs. `TimedWait` may end at any time, which covers a timeout
and a signal. `vkWaitForPresentKHR` of the frame thread (`PresentDone`) ends, as the
code waits without a timeout; after a loss Presenter's liveness properties promise
nothing.

## 6. Proofs

`SubmissionQueueProofs` proves, for all values of the constants: `TypeOK`,
`ResultsInOrder`, `RetiredOnlyWhenDone`, `IdleMeansRetired`, `OwnerSeesSubmissions`,
`BoundedCommandLists`, and that the queue implements InOrderPipeline.  The only
assumption is `SubmissionAssumption`: the bounds are naturals, and clients, producers
and the two threads are distinct.

The properties are not inductive.  The invariant is built in layers, each proved
with the help of those below:

* `TypeInv`: the types, and where a thread with a current entry is.
* `OrderInv`: the two queues are intervals in the numbering, every entry in
  `finishQ` before every entry in `submitQ`, and the current entries are the heads.
  Everything said of order follows from it.
* `ResultInv`: entries still to be executed have no result, the others have one.
  It gives `ResultsInOrder`.
* `TimelineInv`: timeline values grow with the entries, and what the GPU still has
  to signal is what was taken and is larger than its value.
* `ReleaseInv`: an entry is released, signaled or recycled only by the thread that
  holds it and after the wait; what has left both queues is done.  It gives
  `RetiredOnlyWhenDone`, which is the conjunction of `NoEarlyRelease`,
  `FrameAfterItsCommands` and `RecycleSafe`.
* `SnapshotInv`: what a client queued before it began to wait is out of the queues
  its program counter says it has seen empty.  It gives `IdleMeansRetired` and
  `OwnerSeesSubmissions`.
* `ForwardInv`: what leaves `submitQ` without being forwarded does so only after a
  device loss.  With `OrderInv` it gives the refinement.
* `LimitInv`: the bound on command lists, which a present may not disturb and a
  submission only establishes.

`StreamProofs` proves for any clients and number of chunks `TypeOK`,
`FlagMatchesQueue`, `SyncMeansExecuted`, and that the thread implements CommandStream.
`CsAssumption` asks that no thread is both an application and a locker: a thread that
dispatches and locks is two clients of the model, as it is never in two calls at once.
The refinement maps the two queues of the abstract stream to what is in the worker's
local vectors and in the queues (`Items`), and the chunk it executes to the one in its
hand.  Swap and refill move chunks along `Items` only since a local vector is filled when
it is empty.  That an ordered chunk is picked only when no injected one waits in either
copy (`PickWaiting`) rests on `FlagMatchesQueue`: if the flag is down the shared queue is
empty, and if it is up the refill has emptied it.  `SyncMeansExecuted` follows
from the counters: the sequence number the worker publishes is the number of chunks of
the queue it has executed, so that those up to it are in `executed`.

`PresenterProofs` proves for any number of frames, latency, event count and failures
`TypeOK`, `NoEarlyFrame`, `FramesInOrder`, `SwapchainSafe` and `EventBalance`; all five
need the same invariant. The ids of the frames in the four queues are consecutive, so
that the lengths of the queues tell which frame each thread has in hand; the sums are
equations until a present is dropped after a device loss, and inequalities from then
on. From this, `SignalInv`: of `lastSignaled` and `lastCompleted`, which two threads
write, the smaller is the value of the signal, or one more than it while the thread that
came second is about to signal it; the two threads never are at once. For the swap
chain, `ChainInv`: past its wait for `m_presentPending` the application finds no present
in flight, and the swap chain outlives every present and every frame in the frame
thread's queue.

`StreamProofs` also proves for any number of blocks, entries and flushes `RingSafe`: the blocks
between the two fences hold consecutive intervals of updates, at most `BlockCount` of
them, so that two block numbers never share a slot of the ring; and for any number of
frames `TimingsSound`, where the same argument holds for the tracker's ring of frames.
`StreamTypesCorrect` has their types.

`DeviceProofs` proves `CalledExactlyWhenReached` for any users and callbacks; the
invariant adds that a callback on its way into the list is in the hands of one thread
only.  And it proves for any callers and events that no event is called early or twice
or lost and that the worker does not sleep while an event is queued (`FencePromises`);
its invariant adds that an event in a queue or in a hand was used, and that two hands
never hold the same one.

It also proves, for any slots, keys and handles of the sampler pool (finitely many), the
pool's types, that a sampler in use is not replaced (`UsedNotRecycled`, `HeldHasKey`),
that none is lost but by a creation that fails, and that table, counter and list agree
(`BooksBalance`, whichever creations fail). Two facts make them inductive: the links
are inverse to each other, link by link, from which follows what a removal and an
insertion do to the set of slots on the list; and a reference count is the number of
handles that refer to the slot, so that a slot with count zero is in nobody's
hands. That the list is in the order of the releases (`ImplementsCache`) is only
model-checked: it follows the links recursively.

`DeviceProofs` also proves for any number of command lists, of submissions of each and
of submissions in all, with a transfer queue of its own or without, and whichever Vulkan
call fails, `ListsInOrder` and `QueuesMoveOn`.  Its invariant says, for each kind of
batch that is left, which batch holds up those after it:

* `SparseInv` and `SparseStalls`: sparse bindings wait for all batches before them,
  and the first batch of their submission on the queue of its waits (`Gate`) waits for
  them;
* `UploadStalls`: the commands of a submission wait for its uploads, so that no later
  command passes them on the graphics queue;
* `BarrierStalls`: between the commands before a submission barrier and the uploads
  after it the transfer queue has a batch that waits, or, while there is none yet, the
  wait is in `carried` and makes the next submission send one;
* `FenceStalls`: the gate of a submission with a fence wait is left until the fence is
  signaled.

A batch that is ready is first in its queue, and nothing earlier that it is ordered
after can be left: it or a batch in front of it would wait for that
(`StalledByEarlier`, `ExecuteInOrder`).  `AllDone` says where the work is that is not
executed; what a failed call gives up comes after everything else, so that it has
nothing to be before.  `FinishInv` makes the values the queue thread waits for cover
the list.  For `QueuesMoveOn`, the batch of the first call among those left
is first in its queue, and what it waits for only an earlier call could signal
(`WaitsInv`), so that it waits for nothing but the fence; that there is such a batch is
the well-ordering of the natural numbers (`NatMin`), which the library states without an
operator parameter and so can be used.

`MemoryProofs` proves `MemorySound`, for any number and size of chunks, any alignments
that divide a chunk's size, and any number of pages, sizes and objects of the pools.  The
assumptions are `PageAssumption` and `PoolMasksAssumption`: a mask has as many bits as
some size has items, a power of two, so that a page's items fill its masks exactly.

The invariant of the page allocator, `PageInv`, has a part that each operation needs:

* `SoundList`: the list of free ranges is sorted by descending size, and the table
  has the position of a range at its two ends and nothing at any other page.
  `insertFreeRange` moves a range past those that are larger or smaller and corrects the
  table as it goes; the proof describes the result by where each position comes from
  (`From`), and reads off the list and the table what it says (`InsertRange`).  The table
  being right is what makes `freePages` find the neighbours.
* `PageSets`: the ranges of the callers and the free ranges share the pages of the
  chunks out (`Partition`: no page is in two of them, every page is in one, and none
  reaches over the end of its chunk), and no two free ranges of a chunk touch
  (`Apart`). An allocation replaces a range by the part of it that the caller gets and
  the rest at either side, a free does the opposite with up to two neighbours; both are
  lemmas about sets of ranges, without the list (`AllocSets`, `FreeSets`), so that list
  and sets are tied together only once.
* `UsedPages`: a chunk's counter is the number of pages its allocations have, by which
  `freeEmptyChunksInPool` knows that it can go.
* `UnusedChunks`: the numbers of removed chunks are in the list of `m_freeChunk`, none of
  them twice, link by link as for the sampler pool.

That an allocation fails only when no open chunk has room (`FailsOnlyWhenFull`) follows
since pages that are free one after the other are in one free range, which the search
reaches: `searchFreeList` returns the number of ranges that are large enough.  Its
bisection is a recursive function, and the proof does not need induction over data: the
function that returns that number, clamped to the two bounds, solves the equation
that defines the bisection, and the well-ordering of the natural numbers shows that no
other function does.  The same argument gives the powers of two of `Capacity`.

The invariant of the pool allocator, `ItemInv`, says of each page (`PageSound`) that its
objects have one size, that its masks have exactly the items that no object is, and that
it is on the list of that size, and on no other, as long as there is such an item.
`FreePools` says that no two pages share a PagePool, and that a pool without a page is
as it was built and once in the free list; without it `alloc` would find masks of a former
page.  That the summary mask of a PagePool has a bit for each mask with a free one
(`PoolHas`) makes the item that is found exist, and the other summary, of the masks that
are not full, tells `free` when the page has no object left.

`TypesCorrect` joins the types of all six services (`DeviceTypeOK`).  They are not a
matter of shape: that the table has positions of the list, that a chunk counts at most its
pages and that a semaphore is not ahead of what was taken of its timeline follow
only from the invariants.

`PipelineWorkersProofs` proves for any number of workers of each kind, states,
libraries and command lists, from `WorkerAssumption` (at least one low-priority worker,
as `startWorkers` makes) and `TaskAssumption`: `TypeOK`, `NoStuckTask`, `BaseAlive` and
`HandleAvailable`.  For the workers the invariant says that `idleWorkers` is the number
of those that wait, and that whoever sleeps waits: a bucket that `notifyWorkers` passes
over has no sleeper, and where the first bucket with idle workers has none either, one
of its workers was woken already and will look.  For the pipeline it says that the use
count is at least the number of users (the command list being recorded, those in
flight, queued tasks, busy workers), and that a state with neither an optimized
pipeline nor a failure has a base pipeline and either a task under way or, once the
workers were stopped and dropped it, a use that nobody will give back.  The step that
destroys the base pipelines takes the last use, so that there is no other user and no
such state.

`ReadbackProofs` proves `SequentialMemory` of the mapped buffer for any number of
slices and calls, any size of a chunk and any limits of the flush heuristic.  Between a
call and what it does to the memory lie the chunks of the context, the current command
list and the submitted ones.  The proof reads each of them as a sequence of relations
between states of the buffer (the CS thread's slice and the contents of the slices): a
write changes the state, and a read is a step only from a state that has the value the
application had last written before it.  `Behaves`, the heart of the invariant, says
that there is a path through all that is pending, from what the memory has now to a
state in which the slice of `m_mapPtr` has what was written last.  So neither the CS
thread nor the device can disturb it: they only move a step from the front of one
sequence to the end of the next.  A call adds a step at the end, which the last state
permits.  What is difficult is a call that writes memory at once, past all that is
pending.  That every pending step permits this is shown by carrying the whole path over
to changed states (`PathTransport`): a discard or a promoted map writes a slice that
nobody holds (`FreshSlice`), where `HoldsInv` says that the slices of pending operations
are held; a direct one writes when no list uses the buffer and the CS thread has passed
the buffer's sequence number (`UnusedSlice`), where `UsesUpTo` says that no command that
uses the buffer comes after that number, and `TracksInv` that the lists track what they
do.  A path is a function on an interval, so that nothing recursive is in the way, and
its induction is the well-ordering of the natural numbers (`FirstFailure`).

`GpuQueryProofs` proves `ResultExact` and `UsedOncePerReset` for any queries of the four
types, any number of Vulkan objects and calls, any size of a chunk and any limits of the
flush heuristic and of the objects a query keeps.  `QueryAssumption` asks that the types
of queries are apart and that the stall mask has a bit.  Paths are used as for the buffer,
here twice, as a draw is counted by an object first and by the query later:

* `Sound`: the operations of the command lists in flight and of the current one lead from
  what the Vulkan objects have now to a state `d` in which the device is done with them,
  and in which the one open object is that of the active queries;
* `Linked`: in `d`, what a virtual query took early and what its objects have add up to
  what is known of the query (`Sums`; the sum is a sequence of partial sums, so that a
  result that is taken from the front, or an object that is added at the end, changes one
  of them), and a timestamp's only object has its time;
* `Whole`: the commands in the context's chunks lead from what is known in `d` to what is
  known in the end;
* `Agrees`: that is what the application expects: a query that began has counted the draws
  since then, and one that ended those up to its end.

`QueryInv` says that there are such a `d` and such an end.  `Draw` adds one to the
expectation and to the end of `Whole`; the CS thread takes a step from `Whole` and adds
operations to `Sound` that do the same, where what is hard is the pass boundary, which
ends one object, starts another one for all active queries and takes what is available
(`RestartQueries`); the device executes the first step of `Sound`, which leaves `d` as it
is.  `GetData` is exact since no `End` of its query is pending then (`Settled`), so that
nothing that is pending for this query changes the count, and an object with its result
keeps it up to `d` (`DoneKeeps`).  `UsedOncePerReset` follows from `Sound` and `Fresh`:
all operations for an object are in one command list, begin before end, after a reset,
and an object is handed out again only when no list has any.
`ReadbackTypes` puts the types of the queries and of the buffer together.

Only model-checked: all liveness (the proof system has no rule for fairness that
its provers can apply here), and `ImplementsCache`, which follows links and needs
induction over data, out of the provers' reach.

## 7. Findings

1. `waitForIdle` in the error paths of both queue threads waits for the calling
   thread itself (`dxvk_queue.cpp:207`, `:271`).
2. Entries dropped after device loss do not notify `m_finishCond`
   (`dxvk_queue.cpp:211`).
3. `notify_one` with several waiters (`dxvk_cs.cpp:260`).
4. The heap of `DxvkFence` is ordered by the largest value (`dxvk_fence.cpp:129`).
5. `getHandle` loads the fast handle twice; a worker that stores it in between makes it
   return no pipeline although both exist (`dxvk_graphics.h:386`, `:390`).
6. The sparse bindings of a list's first submission are executed before the fence that
   `waitFence` promises to stall the list for (`dxvk_cmdlist.cpp:286`).

Each has a run whose counterexample shows it; PROJECT.json quotes the sentence of the
code it disagrees with.  Three more points are modelled as the code has them and
need no counterexample, since one action shows each:

* A sequence number of 0 waits for nothing (`dxvk_cs.cpp:169`: its condition is false at
  once), while `dxvk_cs.h:556` says that "If the sequence number is 0, this will wait
  for all pending chunks to complete execution". `Synchronize` follows the code, and
  `SyncMeansExecuted` promises nothing for that number. Callers that want everything
  pass `SynchronizeAll`.
* `createSampler` of the pool throws when `vkCreateSampler` fails
  (`dxvk_sampler.cpp:169`, through `:367`), after the old sampler, its table entry and
  its place in the list are gone (`:360` to `:364`), while the comment at
  `dxvk_sampler.cpp:304` says of the default sampler that it is "used for null
  descriptors or when creating additional samplers fails for any reason". `FailReplace`
  follows the code: the caller gets an exception, and the slot is lost unless a releaser
  is still on its way to it. `BooksBalance` says what holds all the same: no other slot
  is lost, the lost ones have neither key nor user, and the counter stays right.
* A failed Vulkan call leaves `m_running` of a DxvkFence set, so that events that are
  queued afterwards have no worker (`dxvk_fence.cpp:122`); `FencePromises` holds, as
  nothing says what should become of them.

## 8. Abstractions and what is not modelled

In SubmissionQueue one timeline stands for those of the several Vulkan queues, which
CommandListSubmission has.  The chunk pool, the recording of commands and everything a
chunk does when it runs are left out of CsThread: a chunk is a number.  Names and log
output are left out everywhere.

Presenter leaves out surface and mode selection, HDR metadata, the frame rate limiter,
`SetFrameLatency`, and a surface that is lost.  Its properties say little of a device
that is lost, where reading the code shows more than they do: nothing notifies
`m_surfaceCond` when the device is lost; `destroyResources` no longer waits for the
submission thread and destroys the swap chain while `presentImage` may use it (the
comment at `dxvk_presenter.h:211` excludes that); and without
`VK_EXT_swapchain_maintenance1` its wait for the device can meet the submission thread
waiting for `m_surfaceMutex`.  Outside of a loss, `createSwapChain` leaves the new handle
valid when it fails after `vkCreateSwapchainKHR`.

PipelineWorkers leaves out the look-up tables of the manager, the use counts of the
shader libraries, compute pipelines, which have no base pipelines, and what is
compiled.  SamplerPool leaves out the descriptor heap and the pool's own destructor, and
the constructor's default sampler is always created.  DescriptorWorker has one of the two
limits of a block, the number of updates, and not that of descriptors
(`dxvk_descriptor_worker.h:92`); a block that is full by the other is flushed in the same way.

LatencyTracker leaves out the durations, and promises nothing after a device loss: a
present that is dropped then is never reported, and an application that is asleep in
`sleepBuiltin` or `sleepNv` for it does not wake up. GpuQuery leaves out predication
and the query types that count as occlusion does. Its device lives and its Vulkan calls
succeed: that `vkGetQueryPoolResults` or `vkGetEventStatus` returns an error
(`dxvk_gpu_query.cpp:103`, `dxvk_gpu_event.cpp:64`), and with it the
`DXGI_ERROR_INVALID_CALL` of `D3D11Query::GetData`, is left out, so that `ResultExact`,
`UsedOncePerReset` and the end of polling speak of a device that is not
lost. ResourceMap has one buffer with one value; images, deferred contexts and the
initializer are left out, as is the flush type of the option
`reproducibleCommandStream`. PageAllocator and PoolAllocator leave out what is above
them: memory types, the allocation cache, relocation.

The map covers a small share of the repository's lines, and will keep doing so.  Four
fifths of the implementation translate data on one thread: the shader compilers
(`dxbc/`, `dxso/`, `spirv/`), the state and format tables of the D3D front ends, the
recording of Vulkan commands in `dxvk_context.cpp`, vendored headers.  What they could
get wrong is the value they compute, which needs a specification of shader models or of
Vulkan and not of interleavings; a model of them would repeat the source.  What is left
and has control of its own:

* Locks (`sync_spinlock.h`, `sync_list.h`): a few atomics each; the models take their
  critical sections as atomic.
* `DxvkStatCounters`: `submitCommandList` merges the statistics of a command list after
  the queue has it, when the queue thread may already reset it (`dxvk_device.cpp:566`),
  and `waitForFence` updates the counters without `m_statLock` (`:594`).  Nothing
  depends on them but the overlay.
* Reference counts (`com_object.h`, `util_rc.h`): single atomic operations.
  `ComObjectClamp::Release` reads the count and then decrements it
  (`com_object.h:103`), so that two threads that drop the last two references may both
  read two, and neither drops the private reference.
* `dxvk_query_async.h` and `d3d11_cbuffer_batch.h`: no file includes them.
* The access tracker of `dxvk_access.cpp` and the descriptor pools: containers of one
  thread.

The other components with state "not_modelled" in PROJECT.json have the reason there.
