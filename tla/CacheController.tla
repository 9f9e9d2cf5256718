--------------------------- MODULE CacheController ---------------------------
(***************************************************************************)
(* The registry of the cluster's cache controller and the worker agents    *)
(* that feed it (infinikv/v1/cache_controller).  Every engine process runs *)
(* a InfiniKVWorker: it queues its registration when it starts and its     *)
(* deregistration when it closes, and its loop pushes the queue in batches *)
(* over a ZeroMQ PUSH socket.  The controller keeps the workers of each    *)
(* instance, a socket to each worker, and the instance of each ip.         *)
(*                                                                         *)
(* One connection is FIFO; the connections of two workers, and those of    *)
(* two successive lives of one worker, are not ordered.  A process that    *)
(* stops or is killed loses its queue and whatever its socket had not sent *)
(* yet (the sockets close with LINGER 0).  A batch is handled without a    *)
(* suspension of the controller's event loop, so it is one step.           *)
(*                                                                         *)
(* The controller's pool of chunks is not part of the model: no code sends *)
(* it a message.  GeminiFSBackend.insert_key, the only sender of KVAdmit,  *)
(* has no caller and reads an attribute that does not exist; remove raises *)
(* before it sends KVEvict; and KVController.lookup raises before it looks *)
(* at the pool.  An ip stands for its instance: all the workers of an      *)
(* instance run on one host, and no other does.                            *)
(***************************************************************************)
EXTENDS Integers, Sequences, SequencesExt, FiniteSets

CONSTANTS
    Workers,     \* the (instance, worker id) pairs
    Instances,   \* the instance ids
    Placements,  \* the assignments of workers to instances to look at
    MaxBatch,    \* max_bsz of batched_get_msg (50 in the code)
    MaxStarts,   \* bound: starts of worker processes
    MaxOnWire    \* bound: multipart messages on one connection

ASSUME ControllerAssumption ==
    /\ Placements \subseteq [Workers -> Instances]
    /\ MaxBatch \in Nat \ {0}
    /\ MaxStarts \in Nat \ {0}
    /\ MaxOnWire \in Nat \ {0}

VARIABLES
    instance,    \* config.infinikv_instance_id of each worker's process
    phase,       \* "down", "running" or "closing"
    life,        \* how often the worker's process has been started
    starts,      \* how often any has
    queue,       \* msg_queue, with the puts its loop has not run yet
    wire,        \* per worker and life: the multipart messages on their way
    ctl          \* the controller's registry

vars == <<instance, phase, life, starts, queue, wire, ctl>>

Lives == 1..MaxStarts

Message == [type : {"Register", "DeRegister"}, worker : Workers]

-----------------------------------------------------------------------------
(* The controller's handlers.  Each takes the controller's state and a     *)
(* message and returns the new state.                                      *)

\* Mutant: the socket is kept under the instance id alone.
registerByInstance(c, m) ==
    LET i == instance[m.worker] IN
    [c EXCEPT !.instance_mapping = @ \cup {i},
              !.socket_mapping = @ \cup {i},
              !.worker_mapping[i] = Append(@, m.worker)]

(* RegistrationController.register.  The list is appended to whatever it   *)
(* holds: a worker that was killed and started again is listed twice.      *)
register(c, m) ==
    LET i == instance[m.worker] IN
    [c EXCEPT !.instance_mapping = @ \cup {i},
              !.socket_mapping = @ \cup {m.worker},
              !.worker_mapping[i] = Append(@, m.worker)]

\* Mutant: every listing of the worker goes, but its socket stays.
deregisterKeepsSocket(c, m) ==
    LET i == instance[m.worker] IN
    [c EXCEPT !.instance_mapping = @ \ {i},
              !.worker_mapping[i] = SelectSeq(@, LAMBDA w : w # m.worker)]

(* RegistrationController.deregister.  list.remove drops the first listing *)
(* and raises when there is none, before the socket is looked at.  (The    *)
(* call of KVController.deregister creates a coroutine nobody awaits.)     *)
deregister(c, m) ==
    LET i == instance[m.worker]
        popped == [c EXCEPT !.instance_mapping = @ \ {i}]
    IN  IF c.worker_mapping[i] # <<>> /\ ~Contains(c.worker_mapping[i], m.worker)
        THEN [popped EXCEPT !.raised = TRUE]
        ELSE [popped EXCEPT
                !.worker_mapping[i] = RemoveFirst(@, m.worker),
                !.socket_mapping = @ \ {m.worker}]

(* InfiniKVControllerManager.handle_worker_message; a handler that raises  *)
(* ends the batch, so the parts behind it are dropped.                     *)
handle_worker_message(c, m) ==
    CASE c.raised -> c
      [] ~c.raised /\ m.type = "Register" -> register(c, m)
      [] ~c.raised /\ m.type = "DeRegister" -> deregister(c, m)

-----------------------------------------------------------------------------

Init ==
    /\ instance \in Placements
    /\ phase = [w \in Workers |-> "down"]
    /\ life = [w \in Workers |-> 0]
    /\ starts = 0
    /\ queue = [w \in Workers |-> <<>>]
    /\ wire = [c \in Workers \X Lives |-> <<>>]
    /\ ctl = [worker_mapping |-> [i \in Instances |-> <<>>],
              socket_mapping |-> {},
              instance_mapping |-> {},
              raised |-> FALSE]

(* InfiniKVWorker.__init__ ends by queueing its registration.              *)
StartWorker(w) ==
    /\ phase[w] = "down"
    /\ starts < MaxStarts
    /\ starts' = starts + 1
    /\ phase' = [phase EXCEPT ![w] = "running"]
    /\ life' = [life EXCEPT ![w] = @ + 1]
    /\ queue' = [queue EXCEPT ![w] = <<[type |-> "Register", worker |-> w]>>]
    /\ UNCHANGED <<instance, wire, ctl>>

\* Mutant: the message that get() waited for is not put into the batch.
BatchWithoutFirst(q, n) == SubSeq(q, 2, n)

(* The n messages batched_get_msg takes, the first by the blocking get.    *)
Batch(q, n) == SubSeq(q, 1, n)

(* What batched_get_msg leaves in the queue when it takes n messages.      *)
Rest(q, n) == SubSeq(q, n + 1, Len(q))

(* InfiniKVWorker.push with batched_get_msg: it takes what its loop has    *)
(* put into the queue so far, at least one message and at most MaxBatch.   *)
push(w) ==
    /\ phase[w] \in {"running", "closing"}
    /\ Len(wire[<<w, life[w]>>]) < MaxOnWire
    /\ \E n \in 1..MaxBatch :
        /\ n <= Len(queue[w])
        /\ wire' = [wire EXCEPT ![<<w, life[w]>>] = Append(@, Batch(queue[w], n))]
        /\ queue' = [queue EXCEPT ![w] = Rest(@, n)]
    /\ UNCHANGED <<instance, phase, life, starts, ctl>>

(* InfiniKVWorker.close: the deregistration is queued, and the loop told   *)
(* to stop; whether its push task runs once more before that is open.      *)
close(w) ==
    /\ phase[w] = "running"
    /\ phase' = [phase EXCEPT ![w] = "closing"]
    /\ queue' = [queue EXCEPT ![w] = Append(@, [type |-> "DeRegister", worker |-> w])]
    /\ UNCHANGED <<instance, life, starts, wire, ctl>>

(* The process ends, after close or because it is killed: the queue is     *)
(* lost, and so is the tail of what the socket has not sent.               *)
End(w) ==
    /\ phase[w] \in {"running", "closing"}
    /\ phase' = [phase EXCEPT ![w] = "down"]
    /\ queue' = [queue EXCEPT ![w] = <<>>]
    /\ \E n \in 0..Len(wire[<<w, life[w]>>]) :
         wire' = [wire EXCEPT ![<<w, life[w]>>] = SubSeq(@, 1, n)]
    /\ UNCHANGED <<instance, life, starts, ctl>>

\* Mutant: the parts of a multipart message are handled last to first.
handle_batch_backwards(w, l) ==
    /\ wire[<<w, l>>] # <<>>
    /\ ctl' = FoldLeft(handle_worker_message, [ctl EXCEPT !.raised = FALSE],
                       Reverse(Head(wire[<<w, l>>])))
    /\ wire' = [wire EXCEPT ![<<w, l>>] = Tail(@)]
    /\ UNCHANGED <<instance, phase, life, starts, queue>>

(* One round of InfiniKVControllerManager.handle_batched_request.          *)
handle_batched_request(w, l) ==
    /\ wire[<<w, l>>] # <<>>
    /\ ctl' = FoldLeft(handle_worker_message, [ctl EXCEPT !.raised = FALSE],
                       Head(wire[<<w, l>>]))
    /\ wire' = [wire EXCEPT ![<<w, l>>] = Tail(@)]
    /\ UNCHANGED <<instance, phase, life, starts, queue>>

Next ==
    \/ \E w \in Workers : StartWorker(w) \/ push(w) \/ close(w) \/ End(w)
    \/ \E w \in Workers, l \in Lives : handle_batched_request(w, l)

(* The agents' push tasks and the controller's receive loop keep running.  *)
(* The processes queue boundedly many messages, so it is enough that       *)
(* somebody makes progress while there is anything to send or handle.      *)
Work ==
    \/ \E w \in Workers : push(w)
    \/ \E w \in Workers, l \in Lives : handle_batched_request(w, l)

Spec == Init /\ [][Next]_vars /\ WF_vars(Work)

-----------------------------------------------------------------------------
(* Properties                                                              *)

TypeOK ==
    /\ instance \in [Workers -> Instances]
    /\ phase \in [Workers -> {"down", "running", "closing"}]
    /\ life \in [Workers -> 0..MaxStarts]
    /\ \A w \in Workers : queue[w] \in Seq(Message)
    /\ \A w \in Workers, l \in Lives : wire[<<w, l>>] \in Seq(Seq(Message))
    /\ \A i \in Instances : ctl.worker_mapping[i] \in Seq(Workers)
    /\ ctl.socket_mapping \subseteq Workers
    /\ ctl.instance_mapping \subseteq Instances
    /\ ctl.raised \in BOOLEAN

(* The worker is in its first life and has not begun to end it.            *)
FirstLife(w) == life[w] = 1 /\ phase[w] = "running"

(* Nothing the worker sent or will send is still unhandled.                *)
Drained(w) == queue[w] = <<>> /\ \A l \in Lives : wire[<<w, l>>] = <<>>

Listed(w) == Contains(ctl.worker_mapping[instance[w]], w)

(* No worker message makes its handler raise, and so no part of a batch is *)
(* dropped: list.remove in RegistrationController.deregister always finds  *)
(* the worker, whatever lives of it are mixed up and whichever messages    *)
(* were lost with a process.                                               *)
NoHandlerRaises == ~ctl.raised

(* The registry's three maps agree: whoever has a socket is listed, and an *)
(* instance that an ip resolves to has a worker.  A worker in its first    *)
(* life whose messages are handled is listed once and can be reached.      *)
RegistryAgrees ==
    /\ \A w \in ctl.socket_mapping : Listed(w)
    /\ \A i \in ctl.instance_mapping : ctl.worker_mapping[i] # <<>>
    /\ \A w \in Workers : FirstLife(w) /\ Drained(w) =>
         /\ w \in ctl.socket_mapping
         /\ Cardinality({j \in DOMAIN ctl.worker_mapping[instance[w]] :
                            ctl.worker_mapping[instance[w]][j] = w}) = 1

(* A worker that starts and goes on running is given a socket: its         *)
(* registration does not stay in its queue, is in a batch, and is handled  *)
(* whatever else the controller receives.                                  *)
RegistrationArrives ==
    \A w \in Workers : FirstLife(w) ~> (~FirstLife(w) \/ w \in ctl.socket_mapping)

=============================================================================
