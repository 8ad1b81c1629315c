----------------------------- MODULE TaskQueue -----------------------------
(***************************************************************************)
(* A value set in one task and observed in another: SafeQueue and          *)
(* TaskQueueProducer (src/sensesp/system/task_queue_producer.h).           *)
(*                                                                         *)
(* set() appends to a bounded queue under its mutex and drops the oldest   *)
(* value when it is full; the consumer's event loop takes the values one by*)
(* one, each as the output of the producer, and observers run.             *)
(***************************************************************************)
EXTENDS Naturals, Sequences

CONSTANT MaxSize  \* max_size_

ASSUME MaxSizeAssumption == MaxSize \in Nat \ {0}

VARIABLES
    queue,   \* queue_
    output,  \* output_ of the producer: the value last emitted
    lastSet  \* history: the value set last

queueVars == <<queue, output, lastSet>>

QueueTypeOK(Values) ==
    /\ queue \in Seq(Values) /\ Len(queue) <= MaxSize
    /\ {output, lastSet} \subseteq Values

QueueInit(v) == queue = <<>> /\ output = v /\ lastSet = v

\* A mistake: a full queue refuses the new value.
VariantStored(v) == IF Len(queue) >= MaxSize THEN queue ELSE Append(queue, v)

\* SafeQueue::push drops the oldest value of a full queue.
Stored(v) == Append(IF Len(queue) >= MaxSize THEN Tail(queue) ELSE queue, v)

Push(v) == queue' = Stored(v) /\ lastSet' = v /\ UNCHANGED output

\* One turn of the loop that polls the queue: SafeQueue::pop and emit.
Pop ==
    /\ queue # <<>>
    /\ queue' = Tail(queue)
    /\ output' = Head(queue)
    /\ UNCHANGED lastSet
=============================================================================
