---------------------------- MODULE LayoutWorker ----------------------------
(***************************************************************************)
(* useLayout: the positions of the nodes of a canvas, computed in place    *)
(* for a small graph and by one shared Web Worker for a large one.  An     *)
(* input is an array by its identity.  The worker lays out the requests in *)
(* order; a canvas that shows another input no longer listens for the one  *)
(* before, and paints nothing until its own has come.  A worker that fails *)
(* after it was made is left out: the hook has no onerror, and would wait. *)
(***************************************************************************)
EXTENDS Naturals, Sequences

CONSTANTS
  Inputs,       \* the arrays of nodes a canvas is given
  Large,        \* those above WORKER_THRESHOLD
  NoInput,
  MaxRequests   \* bound on the requests

VARIABLES
  nodes,        \* the input of the canvas
  worked,       \* the positions that came: the input they are filed under, and theirs
  awaited,      \* the id of the request listened for, or 0
  nextRequestId,
  queue,        \* the requests the worker has not read
  results,      \* the messages it has posted back
  worker        \* "ready", or "unavailable" where the runtime makes none

layoutVars == <<nodes, worked, awaited, nextRequestId, queue, results, worker>>

Unworked == [nodes |-> NoInput, positions |-> NoInput]

LayoutInit ==
  /\ nodes \in Inputs \ Large
  /\ worked = Unworked
  /\ awaited = 0 /\ nextRequestId = 0
  /\ queue = <<>> /\ results = <<>>
  /\ worker \in {"ready", "unavailable"}

\* The canvas is given another array: the effect of the old one is cleaned up,
\* and the effect of the new one runs.
Show(a) ==
  /\ a # nodes
  /\ nodes' = a
  /\ IF a \notin Large
     THEN awaited' = 0 /\ UNCHANGED <<worked, nextRequestId, queue>>
     ELSE IF worker = "unavailable"
     THEN /\ awaited' = 0
          /\ worked' = [nodes |-> a, positions |-> a]
          /\ UNCHANGED <<nextRequestId, queue>>
     ELSE /\ nextRequestId < MaxRequests
          /\ nextRequestId' = nextRequestId + 1
          /\ awaited' = nextRequestId'
          /\ queue' = Append(queue, [id |-> nextRequestId', nodes |-> a])
          /\ UNCHANGED worked
  /\ UNCHANGED <<results, worker>>

\* The worker's only handler.
LayOut ==
  /\ queue # <<>>
  /\ results' = Append(results, [id |-> Head(queue).id, positions |-> Head(queue).nodes])
  /\ queue' = Tail(queue)
  /\ UNCHANGED <<nodes, worked, awaited, nextRequestId, worker>>

\* A fault of the next: whatever comes is taken for what was asked for last.
OnMessageOfAny ==
  /\ results # <<>>
  /\ results' = Tail(results)
  /\ worked' = IF awaited # 0
               THEN [nodes |-> nodes, positions |-> Head(results).positions] ELSE worked
  /\ UNCHANGED <<nodes, awaited, nextRequestId, queue, worker>>

OnMessage ==
  /\ results # <<>>
  /\ results' = Tail(results)
  /\ worked' = IF Head(results).id = awaited
               THEN [nodes |-> nodes, positions |-> Head(results).positions] ELSE worked
  /\ UNCHANGED <<nodes, awaited, nextRequestId, queue, worker>>

LayoutNext == (\E a \in Inputs : Show(a)) \/ LayOut \/ OnMessage

\* What useLayout returns: whose positions, or NoInput while they are pending.
Painted == IF nodes \notin Large THEN nodes
           ELSE IF worked.nodes = nodes THEN worked.positions ELSE NoInput

\* No canvas is painted with the positions of other nodes than its own, however
\* late a layout comes and whatever was shown in between; and when nothing is
\* under way any more, the last input has its layout (useLayout).
LayoutFits == /\ Painted \in {nodes, NoInput}
              /\ (queue = <<>> /\ results = <<>>) => Painted = nodes
=============================================================================
