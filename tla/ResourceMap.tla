---------------------------- MODULE ResourceMap ----------------------------
(***************************************************************************)
(* D3D11ImmediateContext::MapBuffer                                        *)
(* (src/src/d3d11/d3d11_context_imm.cpp): the application's thread maps a  *)
(* buffer that commands use which the CS thread has still to record and    *)
(* the device has still to execute.                                        *)
(*                                                                         *)
(* The D3D11Buffer has a pointer to its newest slice, m_mapPtr; the        *)
(* DxvkBuffer the CS thread works on gets that slice later, in its place   *)
(* among the commands.  Whether the device still uses the buffer is known  *)
(* from the references that command lists hold on it; that commands which  *)
(* use it wait for the CS thread, from a sequence number.                  *)
(*                                                                         *)
(* The buffer has one value, which is replaced by every write.             *)
(***************************************************************************)
EXTENDS ImmediateContext, FiniteSets, SequencesExt

CONSTANTS
  SliceCount, \* bound of the model: allocations for the buffer
  MaxCalls    \* bound of the model: calls, other than maps that poll

\* What the constants are.
MapAssumption ==
  /\ SliceCount \in Nat \ {0}
  /\ MaxCalls \in Nat

Slices == 1..SliceCount

VARIABLES
  context,  \* the immediate context, see ImmediateContext
  usage,    \* staging and default buffers are mapped to read and write, dynamic ones to discard
  cached,   \* its memory is VK_MEMORY_PROPERTY_HOST_CACHED_BIT
  seq,      \* m_seq
  ptr,      \* the slice m_mapPtr points to
  value,    \* what the application has last written, itself or by a command
  calls,    \* calls made so far
  pc,       \* where the application is in MapBuffer
  map,      \* the arguments of the call
  drawing,  \* the last map returned DXGI_ERROR_WAS_STILL_DRAWING
  storage,  \* the slice the CS thread works on
  cmd,      \* the current command list: operations, accesses it tracks, slices it holds
  lists,    \* submitted lists that are not yet released
  memory,   \* the value in each slice
  completed \* m_submissionFence->value()

bufferVars == <<usage, cached>>
appVars == <<value, calls, drawing>>
callVars == <<pc, map>>
csVars == <<storage, cmd>>
vars == <<context, bufferVars, seq, ptr, appVars, callVars, csVars, lists, memory, completed>>

EmptyList == [ops |-> <<>>, accesses |-> {}, slices |-> {}, id |-> 0]

Init ==
  /\ context = NewContext
  /\ usage \in {"staging", "default", "dynamic"} /\ cached \in BOOLEAN
  /\ seq = 0 /\ ptr = 1 /\ storage = 1
  /\ value = 0 /\ calls = 0 /\ drawing = FALSE
  /\ pc = "idle" /\ map = [type |-> "read", doNotWait |-> FALSE]
  /\ cmd = EmptyList /\ lists = <<>>
  /\ memory = [s \in Slices |-> 0]
  /\ completed = 0

\* The slices that somebody refers to: the buffer, a command list, a command that is
\* to give it to the buffer.  m_mapPtr is a plain pointer.
Commands == UNION {Range(chunk) : chunk \in Range(Append(context.stream, context.chunk))}
Carried == {c[2] : c \in {d \in Commands : d[1] = "invalidate"}}
Held == {storage} \union Carried \union cmd.slices \union UNION {lists[i].slices : i \in DOMAIN lists}
FreeSlices == Slices \ Held
NewSlice == Min(FreeSlices)

HasSequenceNumber == usage = "staging"

-----------------------------------------------------------------------------
(* Commands of the application that use the buffer. *)

Call == pc = "idle" /\ calls < MaxCalls /\ calls' = calls + 1

TrackedNumberMutant(c) == CurrentSequence(c) + 1
\* The number that TrackBufferSequenceNumber stores, before it considers a flush.
TrackedNumber(c) == CurrentSequence(c)

Use(command) ==
  LET c == EmitCs(context, command, completed)
  IN IF HasSequenceNumber
       THEN seq' = TrackedNumber(c) /\ context' = ConsiderFlush(c, Strong, completed)
       ELSE context' = c /\ UNCHANGED seq

CopyTo ==
  /\ Call /\ usage # "dynamic"
  /\ value' = calls' /\ drawing' = FALSE
  /\ Use(<<"write", calls'>>)
  /\ UNCHANGED <<bufferVars, ptr, callVars, csVars, lists, memory, completed>>

CopyFrom ==
  /\ Call
  /\ drawing' = FALSE
  /\ Use(<<"read", value>>)
  /\ UNCHANGED <<bufferVars, value, ptr, callVars, csVars, lists, memory, completed>>

Flush ==
  /\ Call
  /\ drawing' = FALSE
  /\ context' = ExecuteFlush(context)
  /\ UNCHANGED <<bufferVars, seq, value, ptr, callVars, csVars, lists, memory, completed>>

-----------------------------------------------------------------------------
(* MapBuffer *)

\* isInUse: a buffer that is written is in use for reading, too.
InUse(access) ==
  \E l \in Range(Append(lists, cmd)) : "write" \in l.accesses \/ access \in l.accesses
Access == IF map.type = "read" THEN "write" ELSE "read"

\* SynchronizeCsThread(GetSequenceNumber()): dispatch, then wait until Arrived.
Target(c) == IF HasSequenceNumber THEN seq ELSE CurrentSequence(c)
Synchronize(c) == context' = Dispatched(c, Target(c))
Arrived == ExecutedChunks(context) >= Target(context)

\* The map returns the slice; the application then writes to it or, which shows in
\* what the buffer had, leaves it as it is.
Return(slice, content) ==
  /\ pc' = "idle" /\ drawing' = FALSE
  /\ ptr' = slice
  /\ \/ UNCHANGED value /\ memory' = [memory EXCEPT ![slice] = content]
     \/ map.type = "write" /\ value' = calls /\ memory' = [memory EXCEPT ![slice] = calls]

Refuse == pc' = "idle" /\ drawing' = TRUE /\ UNCHANGED <<ptr, value>>

\* The command that hands the new slice to the CS thread.
Invalidate == context' = EmitCs(context, <<"invalidate", NewSlice>>, completed)

MapDiscard ==
  /\ Call /\ usage = "dynamic" /\ FreeSlices # {}
  /\ value' = calls' /\ drawing' = FALSE
  /\ ptr' = NewSlice /\ memory' = [memory EXCEPT ![NewSlice] = calls']
  /\ Invalidate
  /\ UNCHANGED <<bufferVars, seq, callVars, csVars, lists, completed>>

\* WaitForResource, up to the wait for the CS thread if there is one.
WaitForResource ==
  IF InUse(Access) THEN pc' = "busy" /\ UNCHANGED context
                   ELSE pc' = "recorded" /\ Synchronize(context)

MapStart(type, doNotWait) ==
  /\ pc = "idle" /\ usage # "dynamic"
  /\ map' = [type |-> type, doNotWait |-> doNotWait]
  /\ IF type = "read" /\ doNotWait THEN UNCHANGED calls ELSE Call
  /\ IF type = "write" /\ ~doNotWait
       THEN pc' = "promote" /\ Synchronize(context)
       ELSE pc' = "wait" /\ UNCHANGED context
  /\ UNCHANGED <<bufferVars, seq, ptr, value, drawing, csVars, lists, memory, completed>>

PromotesMutant == InUse("read") /\ cached
\* "if there are no pending GPU writes to the resource, we can promote it to
\* MAP_WRITE_DISCARD, but preserve the data"
Promotes == InUse("read") /\ ~InUse("write") /\ cached

MapPromote ==
  /\ pc = "promote" /\ Arrived /\ FreeSlices # {}
  /\ IF Promotes
       THEN Return(NewSlice, memory[ptr]) /\ Invalidate
       ELSE pc' = "wait" /\ UNCHANGED <<context, memory, ptr, value, drawing>>
  /\ UNCHANGED <<bufferVars, seq, calls, map, csVars, lists, completed>>

MapWait ==
  /\ pc = "wait" /\ WaitForResource
  /\ UNCHANGED <<bufferVars, seq, ptr, appVars, map, csVars, lists, memory, completed>>

\* The map returns the slice m_mapPtr points to.
MapDirect == Return(ptr, memory[ptr])

MapRecorded ==
  /\ pc = "recorded" /\ Arrived
  /\ IF InUse(Access) THEN pc' = "busy" /\ UNCHANGED <<memory, ptr, value, drawing>> ELSE MapDirect
  /\ UNCHANGED <<context, bufferVars, seq, calls, map, csVars, lists, completed>>

\* The resource is in use: try to get it out of use, and give up or wait for that.
MapBusy ==
  /\ pc = "busy"
  /\ IF map.doNotWait
       THEN Refuse /\ context' = ConsiderFlush(context, Synchronization, completed)
       ELSE pc' = "drain" /\ Synchronize(ExecuteFlush(context)) /\ UNCHANGED <<ptr, value, drawing>>
  /\ UNCHANGED <<bufferVars, seq, calls, map, csVars, lists, memory, completed>>

\* waitForResource
MapDrained ==
  /\ pc = "drain" /\ Arrived /\ ~InUse(Access)
  /\ MapDirect
  /\ UNCHANGED <<context, bufferVars, seq, calls, map, csVars, lists, completed>>

MapStep == MapPromote \/ MapWait \/ MapRecorded \/ MapBusy \/ MapDrained

-----------------------------------------------------------------------------
(* The CS thread, the device and the queue thread. *)

NextIs(name) == HasCommand(context) /\ NextCommand(context)[1] = name

\* copyBuffer records an operation on the current storage and tracks the access.
CsCopy(access) ==
  /\ NextIs(access)
  /\ cmd' = [cmd EXCEPT !.ops = Append(@, <<access, storage, NextCommand(context)[2]>>),
                        !.accesses = @ \union {access}]
  /\ context' = DropCommand(context)
  /\ UNCHANGED <<bufferVars, seq, ptr, appVars, callVars, storage, lists, memory, completed>>

\* invalidateBuffer: the list keeps the slice that assignStorage returns until it is
\* through.
CsInvalidate ==
  /\ NextIs("invalidate")
  /\ storage' = NextCommand(context)[2]
  /\ cmd' = [cmd EXCEPT !.slices = @ \union {storage}]
  /\ context' = DropCommand(context)
  /\ UNCHANGED <<bufferVars, seq, ptr, appVars, callVars, lists, memory, completed>>

CsFlush ==
  /\ NextIs("flush")
  /\ lists' = Append(lists, [cmd EXCEPT !.id = NextCommand(context)[2]])
  /\ cmd' = EmptyList
  /\ context' = DropCommand(context)
  /\ UNCHANGED <<bufferVars, seq, ptr, appVars, callVars, storage, memory, completed>>

CsStep == CsCopy("write") \/ CsCopy("read") \/ CsInvalidate \/ CsFlush

IsNext(i) == lists[i].ops # <<>> /\ \A j \in 1..(i - 1) : lists[j].ops = <<>>

Execute ==
  \E i \in DOMAIN lists :
    /\ IsNext(i)
    /\ LET op == Head(lists[i].ops)
       IN memory' = IF op[1] = "write" THEN [memory EXCEPT ![op[2]] = op[3]] ELSE memory
    /\ lists' = [lists EXCEPT ![i].ops = Tail(@)]
    /\ UNCHANGED <<context, bufferVars, seq, ptr, appVars, callVars, csVars, completed>>

\* notifyObjects
Release ==
  /\ lists # <<>> /\ Head(lists).ops = <<>>
  /\ completed' = Head(lists).id
  /\ lists' = Tail(lists)
  /\ UNCHANGED <<context, bufferVars, seq, ptr, appVars, callVars, csVars, memory>>

\* What goes on without the application.
Background == CsStep \/ Execute \/ Release

Next ==
  \/ CopyTo \/ CopyFrom \/ Flush \/ MapDiscard
  \/ \E type \in {"read", "write"}, doNotWait \in BOOLEAN : MapStart(type, doNotWait)
  \/ MapStep
  \/ Background

Spec == Init /\ [][Next]_vars

\* The threads and the device do not all rest while one of them has something to do;
\* the application finishes its call, and polls.
FairSpec ==
  Spec /\ WF_vars(Background) /\ WF_vars(MapStep) /\ WF_vars(MapStart("read", TRUE))

-----------------------------------------------------------------------------
(* Properties *)

\* The values the variables take.
TypeOK ==
  /\ calls \in 0..MaxCalls /\ value \in 0..calls
  /\ ptr \in Slices /\ storage \in Slices
  /\ pc \in {"idle", "promote", "wait", "recorded", "busy", "drain"}
  /\ map \in [type : {"read", "write"}, doNotWait : BOOLEAN] /\ drawing \in BOOLEAN
  /\ seq \in 0..CurrentSequence(context)
  /\ \A s \in Slices : memory[s] \in 0..MaxCalls
  /\ \A l \in Range(Append(lists, cmd)) : l.accesses \subseteq {"read", "write"}
  /\ completed \in 0..context.submission

\* A copy from the buffer reads what the application had written before it, by
\* whichever way, although it is executed later: no map lets the application write a
\* slice that the device has still to read.
DeviceReadsInOrder ==
  \A i \in DOMAIN lists : IsNext(i) =>
    LET op == Head(lists[i].ops) IN op[1] = "read" => memory[op[2]] = op[3]

\* A map for reading is about to return.
ReadReturns ==
  /\ map.type = "read" /\ ~InUse("write")
  /\ pc \in {"recorded", "drain"} /\ Arrived

\* It shows what was last written, by a command or by the application.
MapReadsLatest == ReadReturns => memory[ptr] = value

\* The slice that m_mapPtr points to, and those that the device has still to work on,
\* are not free, so that nobody else gets them.
SlicesAlive ==
  /\ ptr \in Held
  /\ \A l \in Range(Append(lists, cmd)) : \A i \in DOMAIN l.ops : l.ops[i][2] \in Held

\* The buffer behaves as if every call was executed at once.
SequentialMemory == DeviceReadsInOrder /\ MapReadsLatest /\ SlicesAlive

\* Every map returns, and an application that polls with DO_NOT_WAIT gets its data.
MapsEnd ==
  /\ pc # "idle" ~> pc = "idle"
  /\ drawing ~> ~drawing
=============================================================================
