------------------------------ MODULE GpuQuery ------------------------------
(***************************************************************************)
(* D3D11 queries: the application begins, ends and polls D3D11Query        *)
(* objects (src/src/d3d11/d3d11_query.cpp), the CS thread turns each       *)
(* into a sequence of Vulkan queries (DxvkQuery and DxvkGpuQueryManager,   *)
(* src/src/dxvk/dxvk_gpu_query.cpp) or into a Vulkan event (DxvkEvent,     *)
(* src/src/dxvk/dxvk_gpu_event.cpp), the device executes them, and the     *)
(* queue thread releases the command lists that used them.                 *)
(*                                                                         *)
(* A Vulkan query or event is an object <<pool, n>>.  It goes back to its  *)
(* pool when nobody refers to it, and is reset by the CPU when it is       *)
(* taken from the pool again.  Every draw passes one sample; the clock     *)
(* that timestamps read counts draws.                                      *)
(***************************************************************************)
EXTENDS ImmediateContext, FiniteSets, SequencesExt

CONSTANTS
  Occlusion,    \* queries of type D3D11_QUERY_OCCLUSION
  Predicates,   \* ... OCCLUSION_PREDICATE
  Timestamps,   \* ... TIMESTAMP
  Events,       \* ... EVENT
  PoolSize,     \* bound of the model: Vulkan objects of each pool
  EmbeddedCapacity, \* of m_queries: beyond it, results are collected early
  StallBits,    \* width of m_stallMask
  StallLimit,   \* stalls among the last StallBits uses that set m_stallFlag
  MaxCalls      \* bound of the model: calls other than GetData

Scoped == Occlusion \union Predicates
Queries == Scoped \union Timestamps \union Events
Pools == {"occlusion", "timestamp", "event"}
Objects == Pools \X (1..PoolSize)

\* What the constants are.
QueryAssumption ==
  /\ IsFiniteSet(Queries)
  /\ Occlusion \intersect Predicates = {} /\ Timestamps \intersect Events = {}
  /\ Scoped \intersect (Timestamps \union Events) = {}
  /\ {PoolSize, EmbeddedCapacity, StallLimit, MaxCalls} \subseteq Nat /\ StallBits \in Nat \ {0}

VARIABLES
  context,   \* the immediate context, see ImmediateContext
  app,       \* of each D3D11Query, what the application's thread keeps
  calls,     \* calls made so far
  draws,     \* draws among them
  query,     \* of each DxvkQuery or DxvkEvent, what its lock protects
  resetCtr,  \* m_resetCtr of each D3D11Query
  active,    \* m_activeQueries: the queries, and their common Vulkan query
  inPass,    \* GpRenderPassBound
  stamping,  \* what writeTimestamp is about to reset
  cmd,       \* the current command list: operations, and objects it tracks
  lists,     \* submitted lists that are not yet released
  gpu,       \* the state and result of each Vulkan object
  clock,     \* draws that the device has executed
  completed  \* m_submissionFence->value()

appVars == <<app, calls, draws>>
csVars == <<active, inPass, stamping, cmd>>
deviceVars == <<gpu, clock>>
vars == <<context, appVars, query, resetCtr, csVars, lists, deviceVars, completed>>

NoObject == <<"none", 0>>
EmptyList == [ops |-> <<>>, tracked |-> {}, id |-> 0]

Init ==
  /\ context = NewContext
  /\ app = [q \in Queries |->
       [state |-> "initial", expected |-> 0, stalls |-> {}, stalling |-> FALSE]]
  /\ calls = 0 /\ draws = 0
  /\ query = [q \in Queries |-> [objects |-> <<>>, data |-> 0, ended |-> FALSE]]
  /\ resetCtr = [q \in Queries |-> 0]
  /\ active = [queries |-> {}, object |-> NoObject]
  /\ inPass = FALSE /\ stamping = NoObject
  /\ cmd = EmptyList /\ lists = <<>>
  /\ gpu = [g \in Objects |-> [state |-> "reset", value |-> 0]]
  /\ clock = 0 /\ completed = 0

-----------------------------------------------------------------------------
(* The virtual query. *)

\* accumulateQueryDataLocked: take the results of the leading Vulkan queries that
\* have one.  A timestamp replaces what it is added to.
Available(objects) ==
  LET prefixes == {n \in 0..Len(objects) : \A i \in 1..n : gpu[objects[i]].state = "done"}
  IN Max(prefixes)

\* What the values add up to, on top of d.
Total(d, values) ==
  LET total[n \in 0..Len(values)] == IF n = 0 THEN d ELSE total[n - 1] + values[n]
  IN total[Len(values)]

Accumulate(q, v) ==
  LET n == Available(v.objects)
      taken == [i \in 1..n |-> gpu[v.objects[i]].value]
  IN [v EXCEPT !.objects = SubSeq(@, n + 1, Len(@)),
               !.data = IF q \in Timestamps /\ n > 0 THEN taken[n] ELSE Total(@, taken)]

AddObject(q, v, g) ==
  LET w == IF Len(v.objects) >= EmbeddedCapacity THEN Accumulate(q, v) ELSE v
  IN [w EXCEPT !.objects = Append(@, g)]

Begun(v) == [v EXCEPT !.objects = <<>>, !.data = 0, !.ended = FALSE]
Ended(v) == [v EXCEPT !.ended = TRUE]

\* DxvkQuery::getData and, for an event, DxvkEvent::test, whose cached VK_EVENT_SET
\* is an ended query without objects.  Reading the result never fails here; where Vulkan
\* returns an error, the code says Failed or Invalid and GetData an error.
Status(q, v) ==
  IF ~v.ended THEN "invalid"
  ELSE IF v.objects = <<>> \/ (q \in Predicates /\ v.data > 0) THEN "available"
  ELSE "pending"

ResetsMutant(q) == FALSE
\* A CS thread that has an End still to execute may change the query.
Resets(q) == resetCtr[q] # 0

\* D3D11Query::GetData
Result(q) ==
  IF app[q].state # "ended" THEN "invalid"
  ELSE IF Resets(q) THEN "pending"
  ELSE Status(q, Accumulate(q, query[q]))
Value(q) == Accumulate(q, query[q]).data

-----------------------------------------------------------------------------
(* The application.  Its calls are bounded, except for the polling. *)

Call == calls < MaxCalls /\ calls' = calls + 1

Begin(q) ==
  /\ Call
  /\ q \in Scoped /\ app[q].state # "begun"
  /\ app' = [app EXCEPT ![q].state = "begun", ![q].expected = draws]
  /\ context' = EmitCs(context, <<"begin", q>>, completed)
  /\ UNCHANGED <<draws, query, resetCtr, csVars, lists, deviceVars, completed>>

\* NotifyEnd shifts the mask: what is left counts the uses since then.
Shift(mask) == {n + 1 : n \in mask} \intersect 0..(StallBits - 1)

\* What the query has to report: the draws since its Begin, which is implied if there
\* was none, the time for a timestamp, and for an event that it is reached.
Expected(q) ==
  CASE q \in Scoped /\ app[q].state = "begun" -> draws - app[q].expected
    [] q \in Timestamps -> draws
    [] OTHER -> 0

EndNotes(q) ==
  [app[q] EXCEPT !.state = "ended", !.expected = Expected(q),
                 !.stalls = IF q \in Scoped THEN @ ELSE Shift(@)]

ConsiderEndFlush(q, c) ==
  IF q \in Scoped THEN c
  ELSE IF app[q].stalling THEN ExecuteFlush(c)
  ELSE IF q \in Events THEN ConsiderFlush(c, Strong, completed)
  ELSE c

End(q) ==
  /\ Call
  /\ app' = [app EXCEPT ![q] = EndNotes(q)]
  /\ resetCtr' = [resetCtr EXCEPT ![q] = @ + 1]
  /\ LET begun == IF q \in Scoped /\ app[q].state # "begun"
                    THEN EmitCs(context, <<"begin", q>>, completed) ELSE context
     IN context' = ConsiderEndFlush(q, EmitCs(begun, <<"end", q>>, completed))
  /\ UNCHANGED <<draws, query, csVars, lists, deviceVars, completed>>

PollTypeMutant == Weak
\* The hint that a failed GetData gives to the flush tracker.
PollType == Synchronization

\* GetData keeps the results it has found, and an unsuccessful one may flush.  The
\* stall mask of a scoped query is never looked at and is left out.
GetData(q, doNotFlush) ==
  LET stalls == IF doNotFlush \/ q \in Scoped THEN app[q].stalls ELSE app[q].stalls \union {0}
  IN
  /\ app[q].state = "ended"
  /\ query' = IF Resets(q) THEN query ELSE [query EXCEPT ![q] = Accumulate(q, @)]
  /\ IF Result(q) = "pending"
       THEN /\ context' = ConsiderFlush(context, PollType, completed)
            /\ app' = [app EXCEPT ![q].stalls = stalls,
                                  ![q].stalling = @ \/ Cardinality(stalls) >= StallLimit]
       ELSE UNCHANGED <<context, app>>
  /\ UNCHANGED <<calls, draws, resetCtr, csVars, lists, deviceVars, completed>>

Draw ==
  /\ Call
  /\ draws' = draws + 1
  /\ context' = EmitCs(context, <<"draw">>, completed)
  /\ UNCHANGED <<app, query, resetCtr, csVars, lists, deviceVars, completed>>

\* For every command that cannot be executed in the current render pass.
SetRenderTargets ==
  /\ Call
  /\ context' = NotifyRenderPassBoundary(EmitCs(context, <<"targets">>, completed), completed)
  /\ UNCHANGED <<app, draws, query, resetCtr, csVars, lists, deviceVars, completed>>

Flush ==
  /\ Call
  /\ context' = ExecuteFlush(context)
  /\ UNCHANGED <<app, draws, query, resetCtr, csVars, lists, deviceVars, completed>>

-----------------------------------------------------------------------------
(* The CS thread: DxvkContext and its DxvkGpuQueryManager. *)

TrackedMutant == {}
\* What the references from command lists keep alive.
Tracked == cmd.tracked \union UNION {lists[i].tracked : i \in DOMAIN lists}
Held ==
  {active.object, stamping} \union Tracked \union UNION {Range(query[q].objects) : q \in Queries}
Free(pool) == {n \in 1..PoolSize : <<pool, n>> \notin Held}

\* The free list may yield any free object; the first one is reused the soonest.
Alloc(pool) == <<pool, Min(Free(pool))>>
ResetObject(g) == [gpu EXCEPT ![g] = [state |-> "reset", value |-> 0]]

Next1(command) == HasCommand(context) /\ stamping = NoObject /\ NextCommand(context) = command
Record(ops, objects) == [cmd EXCEPT !.ops = @ \o ops, !.tracked = @ \union objects]

\* restartQueries for the given active queries, when the render pass is active or not
\* as given, and the virtual queries have become v; and what is recorded after it.  The
\* new Vulkan query is added to every active virtual query.
RestartQueries(queries, pass, v, after) ==
  LET starts == pass /\ queries # {}
      g == Alloc("occlusion")
      end == IF active.object = NoObject THEN <<>> ELSE <<<<"end", active.object>>>>
      begin == IF starts THEN <<<<"begin", g>>>> ELSE <<>>
  IN /\ starts => Free("occlusion") # {}
     /\ active' = [queries |-> queries, object |-> IF starts THEN g ELSE NoObject]
     /\ inPass' = pass
     /\ query' = [q \in Queries |->
                    IF starts /\ q \in queries THEN AddObject(q, v[q], g) ELSE v[q]]
     /\ gpu' = IF starts THEN ResetObject(g) ELSE gpu
     /\ cmd' = Record(end \o begin \o after, IF starts THEN {g} ELSE {})

\* enableQuery
CsBegin(q) ==
  /\ Next1(<<"begin", q>>)
  /\ RestartQueries(active.queries \union {q}, inPass, [query EXCEPT ![q] = Begun(@)], <<>>)
  /\ context' = DropCommand(context)
  /\ UNCHANGED <<appVars, resetCtr, stamping, lists, clock, completed>>

\* disableQuery, and what D3D11Query::End does after it
CsEndScoped(q) ==
  /\ q \in Scoped /\ Next1(<<"end", q>>)
  /\ RestartQueries(active.queries \ {q}, inPass, [query EXCEPT ![q] = Ended(@)], <<>>)
  /\ resetCtr' = [resetCtr EXCEPT ![q] = @ - 1]
  /\ context' = DropCommand(context)
  /\ UNCHANGED <<appVars, stamping, lists, clock, completed>>

\* writeTimestamp: the query is ready to be read ...
CsEndTimestamp(q) ==
  /\ q \in Timestamps /\ Next1(<<"end", q>>)
  /\ Free("timestamp") # {}
  /\ stamping' = Alloc("timestamp")
  /\ query' = [query EXCEPT ![q] = Ended(AddObject(q, Begun(@), Alloc("timestamp")))]
  /\ UNCHANGED <<context, appVars, resetCtr, active, inPass, cmd, lists, deviceVars, completed>>

\* ... before the result of whoever had the Vulkan query is reset.
CsStamp(q) ==
  /\ stamping # NoObject /\ NextCommand(context) = <<"end", q>>
  /\ gpu' = ResetObject(stamping)
  /\ cmd' = Record(<<<<"stamp", stamping>>>>, {stamping})
  /\ stamping' = NoObject
  /\ resetCtr' = [resetCtr EXCEPT ![q] = @ - 1]
  /\ context' = DropCommand(context)
  /\ UNCHANGED <<appVars, query, active, inPass, lists, clock, completed>>

\* signalGpuEvent, which ends the render pass
CsEndEvent(q) ==
  /\ q \in Events /\ Next1(<<"end", q>>)
  /\ Free("event") # {}
  /\ LET g == Alloc("event")
         end == IF active.object = NoObject THEN <<>> ELSE <<<<"end", active.object>>>>
     IN /\ query' = [query EXCEPT ![q] = Ended(AddObject(q, Begun(@), g))]
        /\ gpu' = ResetObject(g)
        /\ cmd' = Record(end \o <<<<"set", g>>>>, {g})
  /\ active' = [active EXCEPT !.object = NoObject]
  /\ inPass' = FALSE
  /\ resetCtr' = [resetCtr EXCEPT ![q] = @ - 1]
  /\ context' = DropCommand(context)
  /\ UNCHANGED <<appVars, stamping, lists, clock, completed>>

\* A draw begins a render pass if there is none.
CsDraw ==
  /\ Next1(<<"draw">>)
  /\ IF inPass
       THEN cmd' = Record(<<<<"draw", NoObject>>>>, {}) /\ UNCHANGED <<active, inPass, query, gpu>>
       ELSE RestartQueries(active.queries, TRUE, query, <<<<"draw", NoObject>>>>)
  /\ context' = DropCommand(context)
  /\ UNCHANGED <<appVars, resetCtr, stamping, lists, clock, completed>>

\* spillRenderPass
CsTargets ==
  /\ Next1(<<"targets">>)
  /\ RestartQueries(active.queries, FALSE, query, <<>>)
  /\ context' = DropCommand(context)
  /\ UNCHANGED <<appVars, resetCtr, stamping, lists, clock, completed>>

\* flushCommandList: endCurrentCommands spills the render pass
CsFlush(n) ==
  /\ Next1(<<"flush", n>>)
  /\ LET end == IF active.object = NoObject THEN <<>> ELSE <<<<"end", active.object>>>>
     IN lists' = Append(lists, [Record(end, {}) EXCEPT !.id = n])
  /\ cmd' = EmptyList
  /\ active' = [active EXCEPT !.object = NoObject]
  /\ inPass' = FALSE
  /\ context' = DropCommand(context)
  /\ UNCHANGED <<appVars, query, resetCtr, stamping, deviceVars, completed>>

CsStep ==
  \/ \E q \in Queries : CsBegin(q) \/ CsEndScoped(q) \/ CsEndTimestamp(q) \/ CsStamp(q) \/ CsEndEvent(q)
  \/ CsDraw \/ CsTargets
  \/ \E n \in 1..context.submission : CsFlush(n)

-----------------------------------------------------------------------------
(* The device executes the lists in order; the queue thread releases them. *)

Execute ==
  \E i \in DOMAIN lists :
    /\ lists[i].ops # <<>> /\ \A j \in 1..(i - 1) : lists[j].ops = <<>>
    /\ LET op == Head(lists[i].ops)[1]
           g == Head(lists[i].ops)[2]
           Counts(h) == op = "draw" /\ gpu[h].state = "open"
           After(h) ==
             IF h # g THEN [gpu[h] EXCEPT !.value = IF Counts(h) THEN @ + 1 ELSE @]
             ELSE [state |-> IF op = "begin" THEN "open" ELSE "done",
                   value |-> IF op = "stamp" THEN clock ELSE gpu[h].value]
       IN /\ gpu' = [h \in Objects |-> After(h)]
          /\ clock' = IF op = "draw" THEN clock + 1 ELSE clock
    /\ lists' = [lists EXCEPT ![i].ops = Tail(@)]
    /\ UNCHANGED <<context, appVars, query, resetCtr, csVars, completed>>

\* notifyObjects
Release ==
  /\ lists # <<>> /\ Head(lists).ops = <<>>
  /\ completed' = Head(lists).id
  /\ lists' = Tail(lists)
  /\ UNCHANGED <<context, appVars, query, resetCtr, csVars, deviceVars>>

Poll(q) == GetData(q, TRUE) \/ GetData(q, FALSE)

\* What goes on without the application.
Background == CsStep \/ Execute \/ Release

Next ==
  \/ \E q \in Queries : Begin(q) \/ End(q) \/ Poll(q)
  \/ Draw \/ SetRenderTargets \/ Flush
  \/ Background

Spec == Init /\ [][Next]_vars

\* The threads and the device do not all rest while one of them has something to do,
\* and the application polls the queries it has ended.
FairSpec ==
  Spec /\ WF_vars(Background) /\ \A q \in Queries : WF_vars(Poll(q))

-----------------------------------------------------------------------------
(* Properties *)

\* The values the variables take.
TypeOK ==
  /\ calls \in 0..MaxCalls /\ draws \in 0..calls /\ clock \in 0..draws
  /\ \A q \in Queries :
       /\ app[q].state \in {"initial", "begun", "ended"} /\ app[q].expected \in 0..MaxCalls
       /\ app[q].stalls \subseteq 0..(StallBits - 1) /\ app[q].stalling \in BOOLEAN
       /\ query[q].objects \in Seq(Objects) /\ query[q].data \in Nat /\ query[q].ended \in BOOLEAN
       /\ resetCtr[q] \in 0..MaxCalls
  /\ active.queries \subseteq Scoped /\ active.object \in Objects \union {NoObject}
  /\ active.object # NoObject <=> inPass /\ active.queries # {}
  /\ stamping \in Objects \union {NoObject}
  /\ \A g \in Objects : gpu[g].state \in {"reset", "open", "done"} /\ gpu[g].value \in 0..MaxCalls
  /\ completed \in 0..context.submission

\* A query that GetData calls available has counted every draw between the last Begin
\* and End, and no other, over all render passes and command lists these are spread
\* over; a timestamp is the time of the last End.  A query that was ended is never
\* called invalid, as long as Vulkan returns no error when its result is read (a lost
\* device).
ResultExact ==
  \A q \in Queries : app[q].state = "ended" =>
    /\ Result(q) # "invalid"
    /\ Result(q) = "available" =>
         \/ q \in Events
         \/ q \in Predicates /\ (Value(q) # 0) = (app[q].expected # 0)
         \/ q \in Occlusion \union Timestamps /\ Value(q) = app[q].expected

\* The commands for an object that the device has still to execute: the list and the place
\* in it.
Pending == Append(lists, cmd)
Uses(g) ==
  UNION {{<<i, k>> : k \in {j \in DOMAIN Pending[i].ops : Pending[i].ops[j][2] = g}} : i \in DOMAIN Pending}
Kind(u) == Pending[u[1]].ops[u[2]][1]
Precedes(u, v) == u[1] < v[1] \/ (u[1] = v[1] /\ u[2] < v[2])

\* A Vulkan query or event is reset only when the device has no command left for it,
\* and is used once between two resets.
UsedOncePerReset ==
  \A g \in Objects : \A u \in Uses(g) :
    IF Kind(u) = "end"
      THEN \/ gpu[g].state = "open" /\ Uses(g) = {u}
           \/ /\ gpu[g].state = "reset"
              /\ \E v \in Uses(g) : Uses(g) = {v, u} /\ Kind(v) = "begin" /\ Precedes(v, u)
      ELSE /\ gpu[g].state = "reset"
           /\ \A v \in Uses(g) \ {u} : Kind(u) = "begin" /\ Kind(v) = "end"

\* An application that polls a query, and does nothing else, gets its result: the
\* flush tracker does not keep back the commands it waits for.
Waiting(q) == app[q].state = "ended" /\ Result(q) # "available"
PollingEnds == \A q \in Queries : Waiting(q) ~> ~Waiting(q)
=============================================================================
