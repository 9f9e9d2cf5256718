------------------------------ MODULE NvmQueue ------------------------------
(***************************************************************************)
(* The lock-free submission and completion queues that the GPU threads of  *)
(* a batched transfer share (libnvm/include/nvm_parallel_queue.h, used by  *)
(* issue_nvme_cmd and poll in libgeminifs/include/helper.cuh), and the     *)
(* NVMe device behind them.                                                *)
(*                                                                         *)
(* One action is one access to shared memory that another thread or the    *)
(* device can tell from its neighbours.  Accesses are merged only where    *)
(* what lies between them is read by nobody else: a slot and its mark, a   *)
(* doorbell, the tail and the tail lock, the head store and the head lock; *)
(* and the increments of ReleaseSlots, each of which commutes with every   *)
(* step but the wait for that very slot.  Two counters the code adds to    *)
(* and never reads (the submission queue's head_lock in move_tail, the     *)
(* completion queue's tail in cq_dequeue) are left out.  Memory is         *)
(* sequentially consistent and every thread keeps running.  The device     *)
(* completes every command with success: on an error status cq_poll stops  *)
(* the kernel with an assertion, after which nothing runs.                 *)
(***************************************************************************)
EXTENDS Integers, Sequences, FiniteSets

CONSTANTS
    Threads,
    QS,        \* entries of the submission queue, a power of two
    CQS,       \* entries of the completion queue, a power of two
    NumCids,   \* command identifiers, 65536 in the code
    MaxCmds,   \* bound: commands issued over the whole run
    NoCmd      \* an empty slot

ASSUME SizeAssumption ==
    /\ QS \in Nat \ {0, 1}
    /\ CQS \in Nat \ {0, 1}
    /\ NumCids \in Nat \ {0}
    /\ MaxCmds \in Nat

VARIABLES
    \* Per thread: where it is, the command it issues, the loop it runs.
    pc,           \* name of the next access
    cid,          \* command identifier held
    ticket,       \* submission ticket held
    base,         \* the head or tail a loop started from
    count,        \* iterations of that loop
    loc,          \* completion slot found by cq_poll
    \* Shared by the threads: submission side.
    cid_ticket,   \* next identifier to try, modulo NumCids
    cid_locked,   \* identifiers in use
    in_ticket,    \* next submission ticket
    tickets,      \* slot -> turn: 2 * lap when free for that lap
    tail_mark,    \* slots written and not yet passed by the tail
    tail_lock,
    sq_tail,
    sq_head,
    \* Shared by the threads: completion side.
    head_mark,    \* entries consumed and not yet passed by the head
    head_lock,
    pos_locks,
    cq_head,
    \* Memory and registers shared with the device.
    sq,           \* slot -> command
    sq_db,        \* submission doorbell
    cq,           \* slot -> completion entry
    cq_db,        \* completion doorbell
    \* The device.
    dev_fetched,  \* commands fetched so far
    dev_posted,   \* completions posted so far
    executing,    \* commands fetched and not completed
    completed     \* tickets completed

locals == <<pc, cid, ticket, base, count, loc>>
subVars == <<cid_ticket, cid_locked, in_ticket, tickets, tail_mark,
             tail_lock, sq_tail, sq_head>>
cplVars == <<head_mark, head_lock, pos_locks, cq_head>>
memVars == <<sq, sq_db, cq, cq_db>>
devVars == <<dev_fetched, dev_posted, executing, completed>>
vars == <<locals, subVars, cplVars, memVars, devVars>>

Slots == 0 .. QS - 1
Entries == 0 .. CQS - 1

pos(t) == ticket[t] % QS

\* The turn of a slot on which the ticket k may use it: every lap takes two
\* increments, one by the thread that filled the slot, one for the device.
get_id(k) == 2 * (k \div QS)

\* Phase bit that the entry at a running position carries when it is valid.
search_phase(p) == (1 + p \div CQS) % 2

Init ==
    /\ pc = [t \in Threads |-> "idle"]
    /\ cid = [t \in Threads |-> 0]
    /\ ticket = [t \in Threads |-> 0]
    /\ base = [t \in Threads |-> 0]
    /\ count = [t \in Threads |-> 0]
    /\ loc = [t \in Threads |-> 0]
    /\ cid_ticket = 0
    /\ cid_locked = {}
    /\ in_ticket = 0
    /\ tickets = [s \in Slots |-> 0]
    /\ tail_mark = {}
    /\ tail_lock = FALSE
    /\ sq_tail = 0
    /\ sq_head = 0
    /\ head_mark = {}
    /\ head_lock = FALSE
    /\ pos_locks = {}
    /\ cq_head = 0
    /\ sq = [s \in Slots |-> NoCmd]
    /\ sq_db = 0
    /\ cq = [e \in Entries |-> [cid |-> 0, phase |-> 0, sqhd |-> 0, ticket |-> -1]]
    /\ cq_db = 0
    /\ dev_fetched = 0
    /\ dev_posted = 0
    /\ executing = {}
    /\ completed = {}

goto(t, label) == pc' = [pc EXCEPT ![t] = label]

-----------------------------------------------------------------------------
(* issue_nvme_cmd: get_cid and sq_enqueue *)

\* Threads in get_cid, or just out of it.
Beginning == {t \in Threads : pc[t] \in {"lock_cid", "next_cid", "take_ticket"}}

\* Commands begun, for the bound.
Begun == in_ticket + Cardinality(Beginning)

\* Mutant: the identifier counter is not reduced to the number of identifiers.
NextCidUnbounded == cid_ticket + 1

NextCid == (cid_ticket + 1) % NumCids

\* get_cid takes the next identifier off the counter ...
TakeCid(t) ==
    /\ cid' = [cid EXCEPT ![t] = cid_ticket]
    /\ cid_ticket' = NextCid
    /\ goto(t, "lock_cid")
    /\ UNCHANGED <<ticket, base, count, loc, cid_locked, in_ticket, tickets,
                   tail_mark, tail_lock, sq_tail, sq_head, cplVars, memVars, devVars>>

\* ... when a command is issued ...
IssueCmd(t) ==
    /\ pc[t] = "idle"
    /\ Begun < MaxCmds
    /\ TakeCid(t)

\* ... and again when the last one was in use.
RetryCid(t) ==
    /\ pc[t] = "next_cid"
    /\ TakeCid(t)

\* Locks the identifier, unless another command has it: two identifiers are
\* locked in any order, and this one may have been put back since.
LockCid(t) ==
    /\ pc[t] = "lock_cid"
    /\ cid_locked' = cid_locked \cup {cid[t]}
    /\ goto(t, IF cid[t] \in cid_locked THEN "next_cid" ELSE "take_ticket")
    /\ UNCHANGED <<cid, ticket, base, count, loc, cid_ticket, in_ticket, tickets,
                   tail_mark, tail_lock, sq_tail, sq_head, cplVars, memVars, devVars>>

TakeTicket(t) ==
    /\ pc[t] = "take_ticket"
    /\ ticket' = [ticket EXCEPT ![t] = in_ticket]
    /\ in_ticket' = in_ticket + 1
    /\ goto(t, "fill")
    /\ UNCHANGED <<cid, base, count, loc, cid_ticket, cid_locked, tickets,
                   tail_mark, tail_lock, sq_tail, sq_head, cplVars, memVars, devVars>>

\* Waits for its turn on the slot, writes the command and marks the slot.
Fill(t) ==
    /\ pc[t] = "fill"
    /\ tickets[pos(t)] = get_id(ticket[t])
    /\ sq' = [sq EXCEPT ![pos(t)] = [cid |-> cid[t], ticket |-> ticket[t]]]
    /\ tail_mark' = tail_mark \cup {pos(t)}
    /\ goto(t, "tail_marked")
    /\ UNCHANGED <<cid, ticket, base, count, loc, cid_ticket, cid_locked,
                   in_ticket, tickets, tail_lock, sq_tail, sq_head, cplVars,
                   sq_db, cq, cq_db, devVars>>

\* While its mark is set the thread tries to move the tail itself.
SeeTailMark(t) ==
    /\ pc[t] = "tail_marked"
    /\ pos(t) \in tail_mark
    /\ goto(t, "lock_tail")
    /\ UNCHANGED <<cid, ticket, base, count, loc, subVars, cplVars, memVars, devVars>>

LockTail(t) ==
    /\ pc[t] = "lock_tail"
    /\ IF tail_lock
       THEN /\ goto(t, "tail_marked")
            /\ UNCHANGED <<base, tail_lock>>
       ELSE /\ tail_lock' = TRUE
            /\ base' = [base EXCEPT ![t] = sq_tail]
            /\ goto(t, "move_tail")
    /\ UNCHANGED <<cid, ticket, count, loc, cid_ticket, cid_locked, in_ticket,
                   tickets, tail_mark, sq_tail, sq_head, cplVars, memVars, devVars>>

\* Mutant: the last free slot is passed too.
RoomForAll(next) == TRUE

\* One slot stays free between tail and head.
HasRoom(next) == (next + 1) % QS # sq_head % QS

\* One round of move_tail: passes a marked slot while the queue has room.
move_tail(t) ==
    LET next == base[t] + count[t]
    IN  /\ pc[t] = "move_tail"
        /\ IF HasRoom(next) /\ next % QS \in tail_mark
           THEN /\ tail_mark' = tail_mark \ {next % QS}
                /\ count' = [count EXCEPT ![t] = @ + 1]
                /\ UNCHANGED pc
           ELSE /\ goto(t, "ring_sq")
                /\ UNCHANGED <<tail_mark, count>>
        /\ UNCHANGED <<cid, ticket, base, loc, cid_ticket, cid_locked, in_ticket,
                       tickets, tail_lock, sq_tail, sq_head, cplVars, memVars, devVars>>

\* Writes the doorbell and stores the tail when it moved (otherwise both keep
\* the values they have), and unlocks.
RingSq(t) ==
    /\ pc[t] = "ring_sq"
    /\ sq_tail' = base[t] + count[t]
    /\ sq_db' = sq_tail' % QS
    /\ tail_lock' = FALSE
    /\ base' = [base EXCEPT ![t] = 0]
    /\ count' = [count EXCEPT ![t] = 0]
    /\ goto(t, "tail_marked")
    /\ UNCHANGED <<cid, ticket, loc, cid_ticket, cid_locked, in_ticket, tickets,
                   tail_mark, sq_head, cplVars, sq, cq, cq_db, devVars>>

\* Somebody passed the slot: the thread gives up its half of the turn.
LeaveSlot(t) ==
    /\ pc[t] = "tail_marked"
    /\ pos(t) \notin tail_mark
    /\ tickets' = [tickets EXCEPT ![pos(t)] = @ + 1]
    /\ goto(t, "poll")
    /\ UNCHANGED <<cid, ticket, base, count, loc, cid_ticket, cid_locked,
                   in_ticket, tail_mark, tail_lock, sq_tail, sq_head,
                   cplVars, memVars, devVars>>

-----------------------------------------------------------------------------
(* poll: cq_poll, cq_dequeue and put_cid *)

LoadCqHead(t) ==
    /\ pc[t] = "poll"
    /\ base' = [base EXCEPT ![t] = cq_head]
    /\ goto(t, "scan")
    /\ UNCHANGED <<cid, ticket, count, loc, subVars, cplVars, memVars, devVars>>

\* Mutant: any valid entry will do.
AnyEntry(t, e) == TRUE

IsMine(t, e) == e.cid = cid[t]

\* One round of cq_poll's inner loop.
cq_poll(t) ==
    LET p == base[t] + count[t]
        e == cq[p % CQS]
        valid == e.phase = search_phase(p)
    IN  /\ pc[t] = "scan"
        /\ \/ /\ valid
              /\ IsMine(t, e)
              /\ loc' = [loc EXCEPT ![t] = p % CQS]
              /\ base' = [base EXCEPT ![t] = 0]
              /\ count' = [count EXCEPT ![t] = 0]
              /\ goto(t, "dequeue")
           \/ /\ valid
              /\ ~IsMine(t, e)
              /\ count[t] + 1 < CQS - 1
              /\ count' = [count EXCEPT ![t] = @ + 1]
              /\ UNCHANGED <<pc, base, loc>>
           \/ /\ ~valid \/ (~IsMine(t, e) /\ count[t] + 1 = CQS - 1)
              /\ base' = [base EXCEPT ![t] = 0]
              /\ count' = [count EXCEPT ![t] = 0]
              /\ goto(t, "poll")
              /\ UNCHANGED loc
        /\ UNCHANGED <<cid, ticket, subVars, cplVars, memVars, devVars>>

\* Takes the position lock and marks the entry as consumed.
MarkEntry(t) ==
    /\ pc[t] = "dequeue"
    /\ loc[t] \notin pos_locks
    /\ pos_locks' = pos_locks \cup {loc[t]}
    /\ head_mark' = head_mark \cup {loc[t]}
    /\ goto(t, "head_marked")
    /\ UNCHANGED <<cid, ticket, base, count, loc, subVars, head_lock, cq_head,
                   memVars, devVars>>

SeeHeadMark(t) ==
    /\ pc[t] = "head_marked"
    /\ loc[t] \in head_mark
    /\ goto(t, "lock_head")
    /\ UNCHANGED <<cid, ticket, base, count, loc, subVars, cplVars, memVars, devVars>>

LockHead(t) ==
    /\ pc[t] = "lock_head"
    /\ IF head_lock
       THEN /\ goto(t, "head_marked")
            /\ UNCHANGED <<base, head_lock>>
       ELSE /\ head_lock' = TRUE
            /\ base' = [base EXCEPT ![t] = cq_head]
            /\ goto(t, "move_head")
    /\ UNCHANGED <<cid, ticket, count, loc, subVars, head_mark, pos_locks, cq_head,
                   memVars, devVars>>

\* Mutant: a thread that found no marked entry at the head keeps the lock.
MoveHeadKeepsLock(t) ==
    LET next == (base[t] + count[t]) % CQS
    IN  /\ pc[t] = "move_head"
        /\ IF next \in head_mark
           THEN /\ head_mark' = head_mark \ {next}
                /\ count' = [count EXCEPT ![t] = @ + 1]
                /\ UNCHANGED pc
           ELSE /\ goto(t, IF count[t] > 0 THEN "release_slots" ELSE "head_marked")
                /\ UNCHANGED <<head_mark, count>>
        /\ UNCHANGED <<cid, ticket, base, loc, subVars, head_lock, pos_locks, cq_head,
                       memVars, devVars>>

\* One round of move_head_cq's first loop; without a marked entry at the head
\* the lock is released and nothing moves.
move_head_cq(t) ==
    LET next == (base[t] + count[t]) % CQS
    IN  /\ pc[t] = "move_head"
        /\ \/ /\ next \in head_mark
              /\ head_mark' = head_mark \ {next}
              /\ count' = [count EXCEPT ![t] = @ + 1]
              /\ UNCHANGED <<pc, base, head_lock>>
           \/ /\ next \notin head_mark
              /\ count[t] > 0
              /\ goto(t, "release_slots")
              /\ UNCHANGED <<base, count, head_mark, head_lock>>
           \/ /\ next \notin head_mark
              /\ count[t] = 0
              /\ head_lock' = FALSE
              /\ base' = [base EXCEPT ![t] = 0]
              /\ goto(t, "head_marked")
              /\ UNCHANGED <<count, head_mark>>
        /\ UNCHANGED <<cid, ticket, loc, subVars, pos_locks, cq_head, memVars, devVars>>

\* Submission slots that the last consumed completion reports as fetched.
NewSqHead(t) == cq[(base[t] + count[t] - 1) % CQS].sqhd

\* Mutant: the reported head itself is taken as fetched too.
FetchedInclusive(t) == (NewSqHead(t) + 1 - sq_head) % QS

Fetched(t) == (NewSqHead(t) - sq_head) % QS

\* The device's half of the turn of every fetched slot is given up ...
ReleaseSlots(t) ==
    /\ pc[t] = "release_slots"
    /\ tickets' = [s \in Slots |-> IF (s - sq_head) % QS < Fetched(t)
                                   THEN tickets[s] + 1 ELSE tickets[s]]
    /\ goto(t, "move_sq_head")
    /\ UNCHANGED <<cid, ticket, base, count, loc, cid_ticket, cid_locked,
                   in_ticket, tail_mark, tail_lock, sq_tail, sq_head,
                   cplVars, memVars, devVars>>

\* ... and only then the head moves over them.
MoveSqHead(t) ==
    /\ pc[t] = "move_sq_head"
    /\ sq_head' = sq_head + Fetched(t)
    /\ goto(t, "ring_cq")
    /\ UNCHANGED <<cid, ticket, base, count, loc, cid_ticket, cid_locked,
                   in_ticket, tickets, tail_mark, tail_lock, sq_tail,
                   cplVars, memVars, devVars>>

\* Mutant: the doorbell gives back one entry more than was consumed.
CqDoorbellOneMore(t) == (base[t] + count[t] + 1) % CQS

CqDoorbell(t) == (base[t] + count[t]) % CQS

RingCq(t) ==
    /\ pc[t] = "ring_cq"
    /\ cq_db' = CqDoorbell(t)
    /\ goto(t, "store_head")
    /\ UNCHANGED <<cid, ticket, base, count, loc, subVars, cplVars, sq, sq_db, cq, devVars>>

StoreCqHead(t) ==
    /\ pc[t] = "store_head"
    /\ cq_head' = base[t] + count[t]
    /\ head_lock' = FALSE
    /\ base' = [base EXCEPT ![t] = 0]
    /\ count' = [count EXCEPT ![t] = 0]
    /\ goto(t, "head_marked")
    /\ UNCHANGED <<cid, ticket, loc, subVars, head_mark, pos_locks, memVars, devVars>>

\* Mutant: put_cid is not called.
FinishKeepsCid(t) ==
    /\ pc[t] = "head_marked"
    /\ loc[t] \notin head_mark
    /\ cq_head > 0
    /\ pos_locks' = pos_locks \ {loc[t]}
    /\ cid' = [cid EXCEPT ![t] = 0]
    /\ ticket' = [ticket EXCEPT ![t] = 0]
    /\ loc' = [loc EXCEPT ![t] = 0]
    /\ goto(t, "idle")
    /\ UNCHANGED <<base, count, cid_ticket, cid_locked, in_ticket, tickets,
                   tail_mark, tail_lock, sq_tail, sq_head, head_mark, head_lock, cq_head,
                   memVars, devVars>>

\* Leaves cq_dequeue and puts the identifier back.  The wait at its end
\* compares with the default arguments 0 and 0, so all it waits for is that
\* the head has moved at all.
Finish(t) ==
    /\ pc[t] = "head_marked"
    /\ loc[t] \notin head_mark
    /\ cq_head > 0
    /\ pos_locks' = pos_locks \ {loc[t]}
    /\ cid_locked' = cid_locked \ {cid[t]}
    /\ cid' = [cid EXCEPT ![t] = 0]
    /\ ticket' = [ticket EXCEPT ![t] = 0]
    /\ loc' = [loc EXCEPT ![t] = 0]
    /\ goto(t, "idle")
    /\ UNCHANGED <<base, count, cid_ticket, in_ticket, tickets, tail_mark,
                   tail_lock, sq_tail, sq_head, head_mark, head_lock, cq_head,
                   memVars, devVars>>

-----------------------------------------------------------------------------
(* The device *)

DeviceFetch ==
    /\ dev_fetched % QS # sq_db
    /\ executing' = executing \cup {sq[dev_fetched % QS]}
    /\ dev_fetched' = dev_fetched + 1
    /\ UNCHANGED <<locals, subVars, cplVars, memVars, dev_posted, completed>>

\* Completions are posted in any order, while the queue has a free entry.
DeviceComplete(c) ==
    /\ c \in executing
    /\ (dev_posted + 1) % CQS # cq_db
    /\ executing' = executing \ {c}
    /\ completed' = completed \cup {c.ticket}
    /\ cq' = [cq EXCEPT ![dev_posted % CQS] =
                 [cid |-> c.cid, phase |-> search_phase(dev_posted),
                  sqhd |-> dev_fetched % QS, ticket |-> c.ticket]]
    /\ dev_posted' = dev_posted + 1
    /\ UNCHANGED <<locals, subVars, cplVars, sq, sq_db, cq_db, dev_fetched>>

-----------------------------------------------------------------------------

ThreadStep(t) ==
    \/ LockCid(t) \/ RetryCid(t) \/ TakeTicket(t) \/ Fill(t) \/ SeeTailMark(t) \/ LockTail(t)
    \/ move_tail(t) \/ RingSq(t) \/ LeaveSlot(t) \/ LoadCqHead(t) \/ cq_poll(t)
    \/ MarkEntry(t) \/ SeeHeadMark(t) \/ LockHead(t) \/ move_head_cq(t)
    \/ ReleaseSlots(t) \/ MoveSqHead(t) \/ RingCq(t) \/ StoreCqHead(t) \/ Finish(t)

\* The bounded run is over.
Done ==
    /\ Begun = MaxCmds
    /\ \A t \in Threads : pc[t] = "idle"
    /\ UNCHANGED vars

Next ==
    \/ \E t \in Threads : IssueCmd(t) \/ ThreadStep(t)
    \/ DeviceFetch
    \/ \E c \in executing : DeviceComplete(c)
    \/ Done

Fairness ==
    /\ \A t \in Threads : WF_vars(ThreadStep(t))
    /\ WF_vars(DeviceFetch)
    /\ WF_vars(\E c \in executing : DeviceComplete(c))

Spec == Init /\ [][Next]_vars /\ Fairness

-----------------------------------------------------------------------------
(* Properties *)

\* Between taking a ticket and returning from poll.
Holding(t) == pc[t] \notin {"idle", "lock_cid", "next_cid", "take_ticket"}

\* Tickets whose thread has returned from poll.
Returned ==
    {k \in 0 .. in_ticket - 1 :
        \A t \in Threads : ~Holding(t) \/ ticket[t] # k}

\* Commands between the device's position and the doorbell.
Waiting == (sq_db - dev_fetched) % QS

Service == INSTANCE QueuePairService WITH
    Capacity  <- QS - 1,
    announced <- dev_fetched + Waiting,
    ring      <- [i \in 1 .. Waiting |-> sq[(dev_fetched + i - 1) % QS].ticket],
    executing <- {c.ticket : c \in executing},
    completed <- completed,
    returned  <- Returned

\* The queue pair gives the service of QueuePairService: the slots between the
\* device and the doorbell hold the commands in ticket order and are never
\* overwritten before the device fetched them, and a thread returns from poll
\* only when its own command is completed.
ImplementsService == Service!Spec

\* Positions, identifiers and doorbells stay within their queues; a thread is
\* always at an access of issue_nvme_cmd or poll.
TypeOK ==
    /\ pc \in [Threads -> {"idle", "lock_cid", "next_cid", "take_ticket",
                            "fill", "tail_marked", "lock_tail", "move_tail",
                            "ring_sq", "poll", "scan", "dequeue", "head_marked",
                            "lock_head", "move_head", "release_slots", "move_sq_head",
                            "ring_cq", "store_head"}]
    /\ cid \in [Threads -> 0 .. NumCids - 1]
    /\ ticket \in [Threads -> Nat]
    /\ base \in [Threads -> Nat]
    /\ count \in [Threads -> Nat]
    /\ loc \in [Threads -> Entries]
    /\ cid_ticket \in 0 .. NumCids - 1
    /\ cid_locked \subseteq 0 .. NumCids - 1
    /\ in_ticket \in Nat
    /\ tickets \in [Slots -> Nat]
    /\ tail_mark \subseteq Slots
    /\ tail_lock \in BOOLEAN
    /\ sq_tail \in Nat
    /\ sq_head \in Nat
    /\ head_mark \subseteq Entries
    /\ head_lock \in BOOLEAN
    /\ pos_locks \subseteq Entries
    /\ cq_head \in Nat
    /\ sq \in [Slots -> [cid : 0 .. NumCids - 1, ticket : Nat] \cup {NoCmd}]
    /\ sq_db \in Slots
    /\ cq \in [Entries -> [cid : 0 .. NumCids - 1, phase : {0, 1}, sqhd : Slots, ticket : Int]]
    /\ cq_db \in Entries
    /\ dev_fetched \in Nat
    /\ dev_posted \in Nat
    /\ executing \subseteq [cid : 0 .. NumCids - 1, ticket : Nat]
    /\ completed \subseteq Nat

\* Position up to which the doorbell has given entries back to the device; the
\* head is stored a moment later.
CqReleased == cq_head + ((cq_db - cq_head) % CQS)

\* A completion that its thread has not consumed stays where cq_poll will look
\* for it: in an entry with the phase of its lap, at most CQS - 2 behind what
\* was given back.  A completion overwritten or passed early is never found.
CompletionStays ==
    \A t \in Threads :
        pc[t] \in {"poll", "scan", "dequeue"} /\ ticket[t] \in completed =>
            \E p \in CqReleased .. CqReleased + CQS - 2 :
                /\ cq[p % CQS].ticket = ticket[t]
                /\ cq[p % CQS].phase = search_phase(p)

\* The heads and tails of both sides stay in order, whatever wraps: the doorbell
\* stands for the tail, the host's copy of the device's position is never ahead
\* of the device, and at most QS - 1 slots are between head and tail.
QueueOrder ==
    /\ sq_head <= dev_fetched
    /\ dev_fetched + Waiting = sq_tail
    /\ sq_tail - sq_head <= QS - 1
    /\ sq_tail <= in_ticket
    /\ cq_head <= dev_posted
    /\ dev_posted <= dev_fetched

\* A thread that issues a command returns.
EveryCommandReturns == \A t \in Threads : pc[t] # "idle" ~> pc[t] = "idle"
=============================================================================
