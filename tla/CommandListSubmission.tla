----------------------- MODULE CommandListSubmission -----------------------
(***************************************************************************)
(* DxvkCommandList::submit (src/src/dxvk/dxvk_cmdlist.cpp): one command    *)
(* list becomes batches for up to three Vulkan queues, ordered by two      *)
(* timeline semaphores, which the queue thread waits for before it         *)
(* releases the list.                                                      *)
(*                                                                         *)
(* The submission thread hands over the submissions of a list one after    *)
(* the other; here one step per loop iteration.  The device executes the   *)
(* batches of a queue in order, each once its semaphore waits are met.     *)
(***************************************************************************)
EXTENDS Naturals, Sequences

CONSTANTS
  MaxLists,       \* bound of the model: command lists
  MaxSubmissions, \* bound of the model: submissions of a command list
  MaxIssued       \* bound of the model: submissions in all

\* What the constants are.
SubmissionAssumption ==
  /\ MaxLists \in Nat
  /\ MaxSubmissions \in Nat \ {0}
  /\ MaxIssued \in Nat

VARIABLES
  dedicated,   \* hasDedicatedTransferQueue()
  timelines,   \* m_timelines: last value taken of each semaphore
  carried,     \* semaphore waits that m_commandSubmission holds between submissions
  list,        \* number of the current or next command list
  index,       \* submissions of the current list handed over
  issued,      \* what has been handed over, in order
  batches,     \* batches that were submitted and not yet executed
  semaphore,   \* the value of each timeline semaphore
  fence,       \* the fence that lists wait for has been signaled
  done,        \* work that the device has executed
  finish,      \* timelines of the lists the queue thread waits for
  retired,     \* lists it has released
  failed       \* a Vulkan call failed: nothing is submitted any more

submitVars == <<timelines, carried, list, index, issued, finish, failed>>
gpuVars == <<batches, semaphore, done>>
vars == <<dedicated, submitVars, gpuVars, fence, retired>>

Semaphores == {"graphics", "transfer"}
Queues == {"graphics", "transfer", "sparse"}

Init ==
  /\ dedicated \in BOOLEAN
  /\ timelines = [s \in Semaphores |-> 0] /\ semaphore = timelines
  /\ carried = {}
  /\ list = 1 /\ index = 0
  /\ issued = <<>> /\ done = {}
  /\ batches = {}
  /\ fence = FALSE
  /\ finish = <<>> /\ retired = 0
  /\ failed = FALSE

CanSubmit == ~failed /\ list <= MaxLists /\ Len(issued) < MaxIssued

\* A submission as the context has recorded it: its flags, and for the first of a
\* list whether the list waits for a fence, for the last whether it has semaphores
\* of the window system.
Submissions ==
  {c \in [sparse : BOOLEAN, sdma : BOOLEAN, syncSdma : BOOLEAN, fence : BOOLEAN,
          wsi : BOOLEAN, last : BOOLEAN] :
     /\ c.fence => index = 0
     /\ c.wsi => c.last
     /\ index = MaxSubmissions - 1 => c.last}

\* A batch, as one call of vkQueueSubmit2 hands it over: the number of the call, of
\* which a submission makes at most Calls, the Vulkan queue, and the values that its
\* semaphores wait for and are signaled to.
Calls == 5
NoSignal == <<"none", 0>>
Batch(k, q, waits, work, signal) ==
  [call |-> Calls * Len(issued) + k,
   queue |-> IF q = "transfer" /\ ~dedicated THEN "graphics" ELSE q,
   waits |-> waits, work |-> work, signal |-> signal]
Work(kind) == <<list, index + 1, kind>>

\* The values that an iteration of the loop of submit() takes of the timelines: for the
\* sparse bindings, the transfer queue, the commands, and the semaphores of the window
\* system, in this order.
SparseValue(c) == timelines["graphics"] + (IF c.sparse THEN 1 ELSE 0)
Sdma(c) == IF c.sdma THEN {Work("sdma")} ELSE {}
Waits(c) == carried \union (IF c.sparse THEN {<<"graphics", SparseValue(c)>>} ELSE {})
                    \union (IF c.fence THEN {<<"fence", 1>>} ELSE {})
Uploads(c) == dedicated /\ (Waits(c) # {} \/ Sdma(c) # {})
UploadValue(c) == timelines["transfer"] + (IF Uploads(c) THEN 1 ELSE 0)
ExecValue(c) == SparseValue(c) + 1
LastValue(c) == ExecValue(c) + (IF c.wsi THEN 1 ELSE 0)

SparseWaitsMutant == {<<"transfer", timelines["transfer"]>>}
\* "wait for any prior submissions, then block any subsequent ones"
SparseWaits == {<<s, timelines[s]>> : s \in Semaphores}

SyncWaitsMutant(c) == IF c.syncSdma THEN {<<"graphics", LastValue(c) + 1>>} ELSE {}
\* The wait that stalls the transfer queue after this submission.
SyncWaits(c) == IF c.syncSdma THEN {<<"graphics", LastValue(c)>>} ELSE {}

SparseBatch(c) ==
  Batch(1, "sparse", SparseWaits, {Work("sparse")}, <<"graphics", SparseValue(c)>>)
UploadBatch(c) ==
  Batch(2, "transfer", Waits(c), Sdma(c), <<"transfer", UploadValue(c)>>)
ExecBatch(c) ==
  LET exec == {Work("exec")} \union (IF c.last THEN {Work("signal")} ELSE {})
  IN Batch(3, "graphics",
           IF Uploads(c) THEN {<<"transfer", UploadValue(c)>>} ELSE Waits(c),
           IF Uploads(c) THEN exec ELSE Sdma(c) \union exec,
           <<"graphics", ExecValue(c)>>)
WsiBatch(c) == Batch(4, "graphics", {}, {}, <<"graphics", LastValue(c)>>)
SyncBatch(c) == Batch(5, "transfer", SyncWaits(c), {}, NoSignal)

\* The Vulkan calls of one iteration.
Iteration(c) ==
  {ExecBatch(c)}
    \union (IF c.sparse THEN {SparseBatch(c)} ELSE {})
    \union (IF Uploads(c) THEN {UploadBatch(c)} ELSE {})
    \union (IF c.wsi THEN {WsiBatch(c)} ELSE {})
    \union (IF c.syncSdma /\ c.last THEN {SyncBatch(c)} ELSE {})

\* What both outcomes have in common.
Take(c) ==
  /\ CanSubmit
  /\ timelines' = [graphics |-> LastValue(c), transfer |-> UploadValue(c)]
  /\ issued' = Append(issued, [list |-> list, index |-> index + 1, flags |-> c])
  /\ UNCHANGED <<dedicated, semaphore, fence, done, retired>>

\* The list is finished with the last submission: it goes to the queue thread with
\* the timeline values, and its waits are gone.
Submit(c) ==
  /\ Take(c)
  /\ batches' = batches \union Iteration(c)
  /\ carried' = IF c.last THEN {} ELSE SyncWaits(c)
  /\ IF c.last
       THEN list' = list + 1 /\ index' = 0 /\ finish' = Append(finish, timelines')
       ELSE index' = index + 1 /\ UNCHANGED <<list, finish>>
  /\ UNCHANGED failed

\* A call fails: submit() returns, with the calls before it made and timeline values
\* taken that nothing will signal; the list is not passed on.
Fail(c) ==
  /\ Take(c)
  /\ \E failing \in Iteration(c) :
       batches' = batches \union {b \in Iteration(c) : b.call < failing.call}
  /\ failed' = TRUE
  /\ UNCHANGED <<carried, list, index, finish>>

\* The device executes the batches of a queue in the order of the calls, each once its
\* waits are met.
Met(w) == IF w[1] = "fence" THEN fence ELSE semaphore[w[1]] >= w[2]
First(b) == \A d \in batches : d.queue = b.queue => b.call <= d.call
Ready(b) == First(b) /\ \A w \in b.waits : Met(w)

Execute(b) ==
  /\ Ready(b)
  /\ done' = done \union b.work
  /\ semaphore' = [s \in Semaphores |-> IF b.signal[1] = s THEN b.signal[2] ELSE semaphore[s]]
  /\ batches' = batches \ {b}
  /\ UNCHANGED <<dedicated, submitVars, fence, retired>>

SignalFence ==
  /\ ~fence /\ fence' = TRUE
  /\ UNCHANGED <<dedicated, submitVars, gpuVars, retired>>

\* vkWaitSemaphores of the queue thread, on the values the list was passed on with.
Finished(t) == \A s \in Semaphores : semaphore[s] >= t[s]

Retire ==
  /\ retired < Len(finish) /\ Finished(finish[retired + 1])
  /\ retired' = retired + 1
  /\ UNCHANGED <<dedicated, submitVars, gpuVars, fence>>

Next ==
  \/ \E c \in Submissions : Submit(c) \/ Fail(c)
  \/ \E b \in batches : Execute(b)
  \/ SignalFence
  \/ Retire

Spec == Init /\ [][Next]_vars

-----------------------------------------------------------------------------
(* Properties *)

\* The values the variables take; the values taken of a timeline are never behind
\* those it has reached.
TypeOK ==
  /\ dedicated \in BOOLEAN /\ fence \in BOOLEAN /\ failed \in BOOLEAN
  /\ \A s \in Semaphores : semaphore[s] \in Nat /\ semaphore[s] <= timelines[s]
  /\ carried \subseteq {"graphics"} \X Nat
  /\ list \in 1..(MaxLists + 1) /\ index \in 0..(MaxSubmissions - 1)
  /\ done \subseteq (1..MaxLists) \X (1..MaxSubmissions) \X {"sparse", "sdma", "exec", "signal"}
  /\ \A b \in batches : b.queue \in Queues /\ (b.queue = "transfer" => dedicated)
  /\ retired \in 0..Len(finish) /\ Len(finish) < list

\* The work handed over: x[1] is the list, x[2] the submission, x[3] the kind.
Order == [sparse |-> 1, sdma |-> 2, exec |-> 3, signal |-> 4]
WorkOf(s) ==
  {<<s.list, s.index, "exec">>}
    \union (IF s.flags.sparse THEN {<<s.list, s.index, "sparse">>} ELSE {})
    \union (IF s.flags.sdma THEN {<<s.list, s.index, "sdma">>} ELSE {})
    \union (IF s.flags.last THEN {<<s.list, s.index, "signal">>} ELSE {})
AllWork == UNION {WorkOf(issued[n]) : n \in DOMAIN issued}

\* Program order, which the context relies on.
Earlier(x, y) ==
  \/ x[1] < y[1]
  \/ x[1] = y[1] /\ x[2] < y[2]
  \/ x[1] = y[1] /\ x[2] = y[2] /\ Order[x[3]] < Order[y[3]]

\* A submission barrier lies between the execution of x and the upload y.
Barrier(x, y) ==
  \E n \in DOMAIN issued :
    /\ issued[n].flags.syncSdma
    /\ Earlier(x, <<issued[n].list, issued[n].index, "signal">>)
    /\ Earlier(<<issued[n].list, issued[n].index, "signal">>, y)

\* The device executes what it is given in program order, over all its queues; only
\* an upload may overtake the execution of earlier submissions, and not past a
\* submission barrier.  Sparse bindings in particular exclude everything else.
ProgramOrder ==
  \A y \in done, x \in AllWork :
    Earlier(x, y) /\ (y[3] = "sdma" /\ x[3] \in {"exec", "signal"} => Barrier(x, y))
      => x \in done

\* DxvkContext::waitFence: "Stalls current command list execution until the fence
\* reaches the given value or higher".
Stalled(w) == \E n \in DOMAIN issued : issued[n].list = w[1] /\ issued[n].flags.fence
FenceStallsList == \A w \in done : Stalled(w) => fence

\* What holds of it: everything but the sparse bindings of the first submission waits.
FenceStallsCommands ==
  \A w \in done : Stalled(w) /\ ~(w[2] = 1 /\ w[3] = "sparse") => fence

\* The queue thread releases a command list only when the device is through with all
\* of its work, on whichever queue.
RetiredMeansDone ==
  \A w \in AllWork : w[1] <= retired => w \in done

\* What a list is submitted for: its work is ordered against everything else, and over
\* when the list is released.
ListsInOrder == ProgramOrder /\ FenceStallsCommands /\ RetiredMeansDone

\* The queues never wait for each other in a circle or for a value that nobody has
\* been told to signal, and a semaphore is never signaled to a value it has already
\* reached, which Vulkan forbids: also when a call has failed half way.
QueuesMoveOn ==
  /\ batches # {} =>
       \E b \in batches : Ready(b) \/ (~fence /\ First(b) /\ <<"fence", 1>> \in b.waits)
  /\ \A b \in batches : Ready(b) /\ b.signal # NoSignal => b.signal[2] > semaphore[b.signal[1]]
=============================================================================
