-------------------------- MODULE InOrderPipeline --------------------------
(***************************************************************************)
(* What the submission queue promises to the code above it: entries enter  *)
(* in the order of the calls, are either handed to the device or refused   *)
(* in that order, and the ones handed over are retired in that same order, *)
(* each of them exactly once.  Only a lost device refuses entries.         *)
(*                                                                         *)
(* Entries are numbered in call order, so that the promise "in order" is   *)
(* that each stage sees increasing numbers.                                *)
(***************************************************************************)
EXTENDS Naturals, Sequences

CONSTANT MaxEntries  \* number of entries the clients ever queue

VARIABLES
  next,       \* number of the next entry
  pending,    \* entries that wait for the device, oldest first
  inflight,   \* entries handed to the device, oldest first
  retired,    \* entries whose resources have been given back
  lost        \* the device is lost

pipelineVars == <<next, pending, inflight, retired, lost>>

PipelineInit ==
  /\ next = 1
  /\ pending = <<>>
  /\ inflight = <<>>
  /\ retired = {}
  /\ lost = FALSE

Enqueue ==
  /\ next <= MaxEntries
  /\ pending' = Append(pending, next)
  /\ next' = next + 1
  /\ UNCHANGED <<inflight, retired, lost>>

\* The oldest waiting entry goes to the device.
HandOver ==
  /\ pending # <<>>
  /\ inflight' = Append(inflight, Head(pending))
  /\ pending' = Tail(pending)
  /\ UNCHANGED <<next, retired, lost>>

\* The oldest waiting entry is refused, which only a lost device does.
Refuse ==
  /\ pending # <<>>
  /\ lost
  /\ pending' = Tail(pending)
  /\ UNCHANGED <<next, inflight, retired, lost>>

Retire ==
  /\ inflight # <<>>
  /\ retired' = retired \union {Head(inflight)}
  /\ inflight' = Tail(inflight)
  /\ UNCHANGED <<next, pending, lost>>

Lose ==
  /\ lost' = TRUE
  /\ UNCHANGED <<next, pending, inflight, retired>>

PipelineNext == Enqueue \/ HandOver \/ Refuse \/ Retire \/ Lose

PipelineSpec == PipelineInit /\ [][PipelineNext]_pipelineVars
=============================================================================
