------------------------------- MODULE IoPool -------------------------------
(***************************************************************************)
(* The pool of batch I/O entries and the batched transfers that use them   *)
(* (libgeminifs: BatchIoPool in gpu_file_manager.cuh, geminifs_batched_xfer *)
(* and release_ioctx in geminifs.cu).  One thread issues transfers; every  *)
(* CUDA stream works off its queue and runs the release callbacks, those   *)
(* of different streams at the same time.                                  *)
(*                                                                         *)
(* One action is one access to the stack's head, with the access to a      *)
(* node's next field that only its owner can make.  compare_exchange_weak  *)
(* fails only when the head differs, as on x86-64.  The checks of tensors  *)
(* and files that come before the first acquire change nothing and are     *)
(* left out.                                                               *)
(***************************************************************************)
EXTENDS Integers, FiniteSets, Sequences, SequencesExt

CONSTANTS
    Streams,
    Capacity,    \* entries of the pool, 65536 in the code
    PerEntry,    \* MAX_IOCTX_PER_BATCH, 512 in the code
    MaxCtx,      \* bound: I/O contexts of a transfer
    MaxXfers     \* bound: transfers issued

ASSUME PoolAssumption ==
    /\ Capacity \in Nat \ {0}
    /\ PerEntry \in Nat \ {0}
    /\ MaxCtx \in Nat \ {0}
    /\ MaxXfers \in Nat

Nil == -1
Nodes == 0 .. Capacity - 1

VARIABLES
    head,      \* top of the stack of free entries
    next,      \* node -> node below it
    \* The issuing thread.
    pc,
    stream,    \* stream of the transfer
    ctxs,      \* number of I/O contexts of the transfer
    node,      \* head loaded by acquire
    below,     \* next of that node
    got,       \* batch_entries acquired so far
    sent,      \* ranges of contexts copied and launched so far
    issued,
    \* Streams and their callbacks.
    queue,     \* stream -> work not yet begun
    cb,        \* stream -> entries its running callback has still to release
    old,       \* stream -> head loaded by release, or NotLoaded
    leaked     \* entries whose release callback could not be launched

main == <<pc, stream, ctxs, node, below, got, sent, issued>>
vars == <<head, next, main, queue, cb, old, leaked>>

NotLoaded == -2
Kernel(e) == [kind |-> "kernel", entries |-> <<e>>]
Release(es) == [kind |-> "release", entries |-> es]

\* The constructor releases the entries one after the other.
Init ==
    /\ head = Capacity - 1
    /\ next = [x \in Nodes |-> x - 1]
    /\ pc = "idle"
    /\ stream \in Streams
    /\ ctxs = 0
    /\ node = Nil
    /\ below = Nil
    /\ got = << >>
    /\ sent = << >>
    /\ issued = 0
    /\ queue = [s \in Streams |-> << >>]
    /\ cb = [s \in Streams |-> << >>]
    /\ old = [s \in Streams |-> NotLoaded]
    /\ leaked = {}

-----------------------------------------------------------------------------
(* geminifs_batched_xfer *)

\* Mutant: the last, partly filled batch is not counted.
WholeBatches(c) == IF c < PerEntry THEN 1 ELSE c \div PerEntry

batch_loop_size(c) == (c + PerEntry - 1) \div PerEntry

Least(a, b) == IF a < b THEN a ELSE b
ioctxs_per_batch(c) == Least(PerEntry, c)
this_batch_size(c, i) == Least(ioctxs_per_batch(c), c - ioctxs_per_batch(c) * i)

Begin(s, c) ==
    /\ pc = "idle"
    /\ issued < MaxXfers
    /\ stream' = s
    /\ ctxs' = c
    /\ issued' = issued + 1
    /\ pc' = "load"
    /\ UNCHANGED <<head, next, node, below, got, sent, queue, cb, old, leaked>>

\* acquire: an empty pool ends the transfer, after what it got is released.
LoadHead ==
    /\ pc = "load"
    /\ node' = head
    /\ pc' = IF head = Nil THEN "release" ELSE "next"
    /\ UNCHANGED <<head, next, stream, ctxs, below, got, sent, issued, queue, cb, old, leaked>>

LoadNext ==
    /\ pc = "next"
    /\ below' = next[node]
    /\ pc' = "swap"
    /\ UNCHANGED <<head, next, stream, ctxs, node, got, sent, issued, queue, cb, old, leaked>>

\* Mutant: the head is stored whatever it has become.
PopUnconditionally ==
    /\ pc = "swap"
    /\ head' = below
    /\ got' = Append(got, node)
    /\ pc' = IF Len(got') = batch_loop_size(ctxs) THEN "launch" ELSE "load"
    /\ node' = Nil
    /\ below' = Nil
    /\ UNCHANGED <<next, stream, ctxs, sent, issued, queue, cb, old, leaked>>

\* The compare-and-swap of acquire.
Pop ==
    /\ pc = "swap"
    /\ IF head = node
       THEN /\ head' = below
            /\ got' = Append(got, node)
            /\ pc' = IF Len(got') = batch_loop_size(ctxs) THEN "launch" ELSE "load"
       ELSE /\ pc' = "load"
            /\ UNCHANGED <<head, got>>
    /\ node' = Nil
    /\ below' = Nil
    /\ UNCHANGED <<next, stream, ctxs, sent, issued, queue, cb, old, leaked>>

\* One round of the launch loop: copy the contexts, launch the kernel.
Launch ==
    /\ pc = "launch"
    /\ LET i == Len(sent)
       IN  /\ queue' = [queue EXCEPT ![stream] = Append(@, Kernel(got[i + 1]))]
           /\ sent' = Append(sent, [first |-> i * ioctxs_per_batch(ctxs),
                                    n |-> this_batch_size(ctxs, i)])
    /\ pc' = IF Len(sent') = batch_loop_size(ctxs) THEN "release" ELSE "launch"
    /\ UNCHANGED <<head, next, stream, ctxs, node, below, got, issued, cb, old, leaked>>

\* The copy fails: the batches launched before stay in the stream.
CopyFails ==
    /\ pc = "launch"
    /\ pc' = "release"
    /\ UNCHANGED <<head, next, stream, ctxs, node, below, got, sent, issued, queue, cb, old, leaked>>

Return ==
    /\ pc' = "idle"
    /\ got' = << >>
    /\ sent' = << >>
    /\ ctxs' = 0
    /\ node' = Nil
    /\ UNCHANGED <<head, next, stream, below, issued, cb, old>>

\* Mutant: the release callback runs at once instead of behind the kernels.
CallbackFirst ==
    /\ pc = "release"
    /\ queue' = [queue EXCEPT ![stream] = <<Release(got)>> \o @]
    /\ Return
    /\ UNCHANGED leaked

\* The release callback goes behind the kernels in the stream.
LaunchCallback ==
    /\ pc = "release"
    /\ queue' = [queue EXCEPT ![stream] = Append(@, Release(got))]
    /\ Return
    /\ UNCHANGED leaked

\* cudaLaunchHostFunc fails: nobody will release the entries.
CallbackFails ==
    /\ pc = "release"
    /\ leaked' = leaked \cup Range(got)
    /\ Return
    /\ UNCHANGED queue

-----------------------------------------------------------------------------
(* Streams *)

RunKernel(s) ==
    /\ cb[s] = << >>
    /\ queue[s] # << >>
    /\ Head(queue[s]).kind = "kernel"
    /\ queue' = [queue EXCEPT ![s] = Tail(@)]
    /\ UNCHANGED <<head, next, main, cb, old, leaked>>

release_ioctx(s) ==
    /\ cb[s] = << >>
    /\ queue[s] # << >>
    /\ Head(queue[s]).kind = "release"
    /\ cb' = [cb EXCEPT ![s] = Head(queue[s]).entries]
    /\ queue' = [queue EXCEPT ![s] = Tail(@)]
    /\ UNCHANGED <<head, next, main, old, leaked>>

\* release: load the head and hang the node above it ...
Hang(s) ==
    /\ cb[s] # << >>
    /\ old[s] = NotLoaded
    /\ old' = [old EXCEPT ![s] = head]
    /\ next' = [next EXCEPT ![Head(cb[s])] = head]
    /\ UNCHANGED <<head, main, queue, cb, leaked>>

\* Mutant: the entry is pushed and stays on the callback's list.
PushTwice(s) ==
    /\ old[s] # NotLoaded
    /\ head' = IF head = old[s] THEN Head(cb[s]) ELSE head
    /\ old' = [old EXCEPT ![s] = NotLoaded]
    /\ UNCHANGED <<next, main, queue, cb, leaked>>

\* Mutant: a failed swap is tried again with the head loaded before.
PushStaleHead(s) ==
    /\ old[s] # NotLoaded
    /\ IF head = old[s]
       THEN /\ head' = Head(cb[s])
            /\ cb' = [cb EXCEPT ![s] = Tail(@)]
            /\ old' = [old EXCEPT ![s] = NotLoaded]
       ELSE UNCHANGED <<head, cb, old>>
    /\ UNCHANGED <<next, main, queue, leaked>>

\* ... and swap it in, or start again.
Push(s) ==
    /\ old[s] # NotLoaded
    /\ IF head = old[s]
       THEN /\ head' = Head(cb[s])
            /\ cb' = [cb EXCEPT ![s] = Tail(@)]
       ELSE UNCHANGED <<head, cb>>
    /\ old' = [old EXCEPT ![s] = NotLoaded]
    /\ UNCHANGED <<next, main, queue, leaked>>

-----------------------------------------------------------------------------

Issue ==
    \/ LoadHead \/ LoadNext \/ Pop \/ Launch \/ CopyFails
    \/ LaunchCallback \/ CallbackFails

Work(s) == RunKernel(s) \/ release_ioctx(s) \/ Hang(s) \/ Push(s)

\* The bounded run is over.
Done ==
    /\ pc = "idle"
    /\ issued = MaxXfers
    /\ \A s \in Streams : queue[s] = << >> /\ cb[s] = << >>
    /\ UNCHANGED vars

Next ==
    \/ \E s \in Streams, c \in 1 .. MaxCtx : Begin(s, c)
    \/ Issue
    \/ \E s \in Streams : Work(s)
    \/ Done

Spec == Init /\ [][Next]_vars /\ WF_vars(Issue) /\ \A s \in Streams : WF_vars(Work(s))

-----------------------------------------------------------------------------
(* Properties *)

\* The nodes met on the way down from the head.
Walk[k \in 0 .. Capacity] ==
    IF k = 0 THEN head
    ELSE IF Walk[k - 1] = Nil THEN Nil ELSE next[Walk[k - 1]]

Free == {Walk[k] : k \in 0 .. Capacity} \ {Nil}

\* Entries owned by work in a stream: the callback that will release them.
ItemsOf(s) == Range(queue[s])
OwnedBy(s) ==
    Range(cb[s]) \cup UNION {Range(x.entries) : x \in {y \in ItemsOf(s) : y.kind = "release"}}

\* Nodes, positions and counts stay in the pool, a walk down the stack ends.
TypeOK ==
    /\ head \in Nodes \cup {Nil}
    /\ next \in [Nodes -> Nodes \cup {Nil}]
    /\ pc \in {"idle", "load", "next", "swap", "launch", "release"}
    /\ stream \in Streams
    /\ ctxs \in 0 .. MaxCtx
    /\ node \in Nodes \cup {Nil}
    /\ below \in Nodes \cup {Nil}
    /\ got \in Seq(Nodes)
    /\ sent \in Seq([first : 0 .. MaxCtx, n : 0 .. MaxCtx])
    /\ issued \in 0 .. MaxXfers
    /\ \A s \in Streams : \A k \in DOMAIN queue[s] :
          queue[s][k] \in [kind : {"kernel", "release"}, entries : Seq(Nodes)]
    /\ \A s \in Streams : cb[s] \in Seq(Nodes)
    /\ old \in [Streams -> Nodes \cup {Nil, NotLoaded}]
    /\ leaked \subseteq Nodes
    /\ Walk[Capacity] = Nil

\* Every entry has one owner: the free stack, the transfer being issued, the
\* release callback of one transfer, or nobody since a callback was refused.
\* None is lost to or duplicated by pushes and pops that cross.
OneOwner ==
    /\ Free \cup Range(got) \cup leaked \cup UNION {OwnedBy(s) : s \in Streams} = Nodes
    /\ Free \cap (Range(got) \cup leaked \cup UNION {OwnedBy(s) : s \in Streams}) = {}
    /\ Range(got) \cap (leaked \cup UNION {OwnedBy(s) : s \in Streams}) = {}
    /\ \A s, u \in Streams : s # u => OwnedBy(s) \cap OwnedBy(u) = {}

\* No entry is free while a kernel that reads it is still in a stream.
KernelsReadOwnEntries ==
    \A s \in Streams : \A x \in ItemsOf(s) :
        x.kind = "kernel" => Range(x.entries) \cap Free = {}

\* When all batches of a transfer are launched, they cover each of its
\* contexts exactly once, and none is larger than an entry.
BatchesCover ==
    pc = "release" /\ got # << >> /\ Len(sent) = Len(got) =>
        /\ \A i \in DOMAIN sent : sent[i].n \in 1 .. PerEntry
        /\ \A c \in 0 .. ctxs - 1 :
              Cardinality({i \in DOMAIN sent :
                  sent[i].first <= c /\ c < sent[i].first + sent[i].n}) = 1

\* In the end every entry is back in the pool, except those whose callback
\* was refused.
EntriesComeBack == <>[](Free = Nodes \ leaked)
=============================================================================
