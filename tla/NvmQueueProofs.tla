--------------------------- MODULE NvmQueueProofs ---------------------------
(***************************************************************************)
(* Proofs about the NVMe queue pair, for every number of threads, every    *)
(* queue size and every number of commands.                                *)
(*                                                                         *)
(* A thread that holds the tail lock or the head lock is ahead of the      *)
(* stored positions: the invariant speaks of the positions it has reached, *)
(* et, ec, ac, cr and rh below, and says of every ticket which half of its *)
(* slot's turn is still out, of every mark which position it stands for    *)
(* and of every entry of the completion queue whose it is.                 *)
(***************************************************************************)
EXTENDS NvmQueue, SequenceFacts, SequenceTheorems

-----------------------------------------------------------------------------
(* Threads *)

\* Between locking an identifier and putting it back.
HasCid(t) == pc[t] \notin {"idle", "lock_cid", "next_cid"}

USE DEF HasCid

\* Still to give up its half of its slot's turn.
Submitting(t) == pc[t] \in {"fill", "tail_marked", "lock_tail", "move_tail", "ring_sq"}

\* Has marked its completion as consumed.
Consumed(t) ==
    pc[t] \in {"head_marked", "lock_head", "move_head", "release_slots", "move_sq_head",
               "ring_cq", "store_head"}

\* Holds the tail lock, the head lock.
AtTail(t) == pc[t] \in {"move_tail", "ring_sq"}

AtHead(t) ==
    pc[t] \in {"move_head", "release_slots", "move_sq_head", "ring_cq", "store_head"}

\* The command c is that of a thread that has not returned.
Issued(c) == \E t \in Threads : Holding(t) /\ ticket[t] = c.ticket /\ cid[t] = c.cid

\* No identifier is handed out while a completion that carries it is between the
\* stored head and the device's position.
FreshIds ==
    \A t \in Threads : pc[t] = "take_ticket" =>
        \A p \in Nat : cq_head <= p /\ p < dev_posted => cq[p % CQS].cid # cid[t]

-----------------------------------------------------------------------------
(* Positions *)

\* et: where the tail is, seen by the thread that moves it.
IsTail(et) ==
    /\ \A t \in Threads : AtTail(t) => base[t] = sq_tail /\ et = base[t] + count[t]
    /\ ~tail_lock => et = sq_tail

\* ec: where the head of the completion queue is, seen by the thread that
\* moves it; ac: entries below it are in sq_head; cr: the doorbell's position;
\* rh: submission slots below it have got the device's half of their turn.
IsHead(ec, ac, cr, rh) ==
    /\ \A t \in Threads : AtHead(t) =>
          /\ base[t] = cq_head
          /\ ec = base[t] + count[t]
          /\ count[t] <= CQS - 1
          /\ pc[t] # "move_head" => count[t] > 0
          /\ ac = IF pc[t] \in {"ring_cq", "store_head"} THEN ec ELSE cq_head
          /\ cr = IF pc[t] = "store_head" THEN ec ELSE cq_head
          /\ rh = IF pc[t] = "move_sq_head" THEN sq_head + Fetched(t) ELSE sq_head
    /\ ~head_lock => ec = cq_head /\ ac = cq_head /\ cr = cq_head /\ rh = sq_head

Order(et, ec, ac, cr, rh) ==
    /\ sq_head <= rh /\ rh <= dev_fetched
    /\ dev_fetched <= sq_tail /\ sq_tail <= et
    /\ et <= sq_head + QS - 1
    /\ sq_db = sq_tail % QS
    /\ cq_head <= cr /\ cr <= ac /\ ac <= ec /\ ec <= dev_posted
    /\ cr <= cq_head + CQS - 1
    /\ dev_posted <= cr + CQS - 1
    /\ cq_db = cr % CQS

-----------------------------------------------------------------------------
(* Locks, tickets and identifiers *)

Owners ==
    /\ \A t \in Threads : Holding(t) => ticket[t] < in_ticket
    /\ \A t, u \in Threads : Holding(t) /\ Holding(u) /\ ticket[t] = ticket[u] => t = u
    /\ \A t \in Threads : HasCid(t) => cid[t] \in cid_locked
    /\ \A t, u \in Threads : HasCid(t) /\ HasCid(u) /\ cid[t] = cid[u] => t = u

Counters == \A t \in Threads : ~AtTail(t) /\ ~AtHead(t) /\ pc[t] # "scan" => count[t] = 0

TailLocked ==
    /\ \A t \in Threads : AtTail(t) => tail_lock
    /\ \A t, u \in Threads : AtTail(t) /\ AtTail(u) => t = u

HeadLocked ==
    /\ \A t \in Threads : AtHead(t) => head_lock
    /\ \A t, u \in Threads : AtHead(t) /\ AtHead(u) => t = u

Locals == Owners /\ Counters /\ TailLocked /\ HeadLocked

-----------------------------------------------------------------------------
(* Submission slots *)

\* The command of ticket k is written; its thread has left the slot.
Filled(k) == k < in_ticket /\ \A t \in Threads : Holding(t) /\ ticket[t] = k => pc[t] # "fill"

Left(k) == k < in_ticket /\ \A t \in Threads : Holding(t) /\ ticket[t] = k => ~Submitting(t)

\* The turn of k's slot: below get_id(k) while it is another ticket's, and
\* past it by the halves given up for k.
Turn(k, rh) ==
    LET turn == tickets[k % QS]
    IN  /\ ~Left(k) /\ k >= rh => turn <= get_id(k)
        /\ Filled(k) /\ ~Left(k) /\ k >= rh => turn = get_id(k)
        /\ Left(k) /\ k >= rh => turn = get_id(k) + 1
        /\ ~Left(k) /\ k < rh => turn = get_id(k) + 1
        /\ Left(k) /\ k < rh => turn >= get_id(k) + 2

Turns(rh) == \A k \in Nat : Turn(k, rh)

Command == [cid : 0 .. NumCids - 1, ticket : Nat]

\* A slot holds its command until the device has fetched it.
Written(rh) ==
    \A k \in Nat : Filled(k) /\ k >= rh =>
        /\ sq[k % QS] \in Command
        /\ sq[k % QS].ticket = k
        /\ k >= dev_fetched => Issued(sq[k % QS])

TailMarks(et) ==
    /\ \A k \in Nat : k < et => Filled(k)
    /\ \A k \in Nat : Filled(k) /\ k >= et => k % QS \in tail_mark
    /\ \A s \in tail_mark : \E k \in Nat : k >= et /\ Filled(k) /\ k % QS = s

-----------------------------------------------------------------------------
(* The device and the completion queue *)

Device ==
    /\ IsFiniteSet(executing)
    /\ Cardinality(executing) + dev_posted = dev_fetched
    /\ \A c \in executing : c.ticket < dev_fetched /\ c.ticket \notin completed /\ Issued(c)
    /\ \A c, d \in executing : c.ticket = d.ticket => c = d
    /\ \A k \in completed : k < dev_fetched

\* The entries the device has written: the last CQS positions.
Posted(p) == p < dev_posted /\ dev_posted <= p + CQS

Posts ==
    /\ \A e \in Entries : e >= dev_posted => cq[e].phase = 0 /\ cq[e].ticket = -1
    /\ \A p \in Nat : Posted(p) =>
          cq[p % CQS].phase = search_phase(p) /\ cq[p % CQS].ticket \in completed
    /\ \A p, q \in Nat : Posted(p) /\ Posted(q) /\ cq[p % CQS].ticket = cq[q % CQS].ticket => p = q

\* Commands fetched when the entry at p was posted.
FetchedAt(p) == sq_head + ((cq[p % CQS].sqhd - sq_head) % QS)

Heads(ac) ==
    /\ \A p \in Nat : ac <= p /\ p < dev_posted => FetchedAt(p) <= dev_fetched
    /\ \A p, q \in Nat : ac <= p /\ p <= q /\ q < dev_posted => FetchedAt(p) <= FetchedAt(q)

\* An entry with a thread's identifier is that thread's or lies behind where it
\* will look.
Mine(t, p) == Holding(t) /\ cq[p % CQS].ticket = ticket[t]

Stale ==
    \A t \in Threads, p \in Nat :
        HasCid(t) /\ Posted(p) /\ cq[p % CQS].cid = cid[t] /\ ~Mine(t, p) =>
            p < cq_head /\ (pc[t] = "scan" => p < base[t])

Scans ==
    \A t \in Threads : pc[t] = "scan" =>
        /\ base[t] <= dev_posted
        /\ count[t] <= CQS - 2
        /\ dev_posted < CQS => base[t] + count[t] <= dev_posted

\* A completion nobody has marked is at or above the head.
Unconsumed(ec) ==
    \A t \in Threads : Holding(t) /\ ~Consumed(t) /\ ticket[t] \in completed =>
        \E p \in Nat : ec <= p /\ p < dev_posted /\ cq[p % CQS].ticket = ticket[t]

HeadMarks(ec) ==
    /\ \A t \in Threads : Consumed(t) => ticket[t] \in completed
    /\ \A t \in Threads : pc[t] = "dequeue" =>
          ticket[t] \in completed /\ cq[loc[t]].ticket = ticket[t]
    /\ \A e \in head_mark :
          /\ \E p \in Nat : ec <= p /\ p < dev_posted /\ p % CQS = e
          /\ \E t \in Threads : Consumed(t) /\ loc[t] = e /\ cq[e].ticket = ticket[t]

SubmitInv(et, rh) == Turns(rh) /\ Written(rh) /\ TailMarks(et)

PollInv(ec, ac) == Device /\ Posts /\ Heads(ac) /\ Stale /\ Scans /\ Unconsumed(ec) /\ HeadMarks(ec)

At(et, ec, ac, cr, rh) ==
    /\ IsTail(et)
    /\ IsHead(ec, ac, cr, rh)
    /\ Order(et, ec, ac, cr, rh)
    /\ SubmitInv(et, rh)
    /\ PollInv(ec, ac)

QueueInv ==
    /\ TypeOK
    /\ Locals
    /\ \E et, ec, ac, cr, rh \in Nat : At(et, ec, ac, cr, rh)

-----------------------------------------------------------------------------
(* Remainders *)

LEMMA SizesAre ==
    /\ QS \in Nat \ {0} /\ CQS \in Nat \ {0} /\ QS >= 2 /\ CQS >= 2
    /\ NumCids \in Nat \ {0} /\ MaxCmds \in Nat
BY SizeAssumption

\* Division with remainder.
LEMMA ModRange ==
    ASSUME NEW x \in Int, NEW n \in Nat \ {0}
    PROVE  x % n \in 0 .. n - 1
OBVIOUS

LEMMA DivMod ==
    ASSUME NEW x \in Int, NEW n \in Nat \ {0}
    PROVE  \E d \in Int, m \in 0 .. n - 1 : d = x \div n /\ m = x % n /\ x = n * d + m
<1>1. x \div n \in Int /\ x % n \in 0 .. n - 1
    OBVIOUS
<1>2. PICK d \in Int, m \in 0 .. n - 1 : d = x \div n /\ m = x % n
    BY <1>1
<1>3. m = x - d * n
    BY <1>2
<1>4. x = n * d + m
    BY <1>3
<1> QED BY <1>2, <1>4

LEMMA DivLow ==
    ASSUME NEW x \in Nat, NEW n \in Nat \ {0}
    PROVE  x \div n \in Nat
OBVIOUS

\* A product of factors that differ is off by the fixed factor at least.
LEMMA Spread ==
    ASSUME NEW n \in Nat \ {0}, NEW a \in Int, NEW b \in Int, a < b
    PROVE  n * a + n <= n * b
<1>1. PICK d \in Nat : b = a + 1 + d
  <2>1. b - a - 1 \in Nat /\ b = a + 1 + (b - a - 1)
      OBVIOUS
  <2> QED BY <2>1
<1>2. n * b = n * a + n + n * d /\ n * d \in Nat /\ n * a \in Int
    BY <1>1
<1> QED BY <1>2

\* Quotient and remainder are unique.
LEMMA ModIs ==
    ASSUME NEW x \in Int, NEW n \in Nat \ {0}, NEW q \in Int, NEW r \in 0 .. n - 1,
           x = n * q + r
    PROVE  x % n = r /\ x \div n = q
<1>1. PICK d \in Int, m \in 0 .. n - 1 : d = x \div n /\ m = x % n /\ x = n * d + m
    BY DivMod
<1>2. n * q \in Int /\ n * d \in Int
    OBVIOUS
<1>3. ~(d < q)
  <2> SUFFICES ASSUME d < q PROVE FALSE
      OBVIOUS
  <2>1. n * d + n <= n * q
      BY Spread
  <2> QED BY <1>1, <1>2, <2>1
<1>4. ~(q < d)
  <2> SUFFICES ASSUME q < d PROVE FALSE
      OBVIOUS
  <2>1. n * q + n <= n * d
      BY Spread
  <2> QED BY <1>1, <1>2, <2>1
<1>5. q = d
    BY <1>3, <1>4
<1> QED BY <1>1, <1>2, <1>5

\* Different positions of one slot are a lap apart.
LEMMA SameMod ==
    ASSUME NEW a \in Nat, NEW b \in Nat, NEW n \in Nat \ {0}, a % n = b % n, a < b
    PROVE  a + n <= b /\ a \div n + 1 <= b \div n
<1>1. PICK d \in Int, m \in 0 .. n - 1 : d = a \div n /\ m = a % n /\ a = n * d + m
    BY DivMod
<1>2. PICK e \in Int, l \in 0 .. n - 1 : e = b \div n /\ l = b % n /\ b = n * e + l
    BY DivMod
<1>3. n * d \in Int /\ n * e \in Int /\ l = m
    BY <1>1, <1>2
<1>4. d < e
  <2> SUFFICES ASSUME ~(d < e) PROVE FALSE
      OBVIOUS
  <2>1. CASE d = e
      BY <1>1, <1>2, <1>3, <2>1
  <2>2. CASE e < d
    <3>1. n * e + n <= n * d
      <4>1. e < d
          BY <2>2
      <4> HIDE <2>2
      <4> QED BY <4>1, Spread
    <3> QED BY <1>1, <1>2, <1>3, <3>1
  <2> QED BY <2>1, <2>2
<1>5. n * d + n <= n * e
    BY <1>4, Spread
<1> QED BY <1>1, <1>2, <1>3, <1>4, <1>5

LEMMA NextLap ==
    ASSUME NEW a \in Nat, NEW n \in Nat \ {0}
    PROVE  (a + n) % n = a % n /\ (a + n) \div n = a \div n + 1
<1>1. PICK d \in Int, m \in 0 .. n - 1 : d = a \div n /\ m = a % n /\ a = n * d + m
    BY DivMod
<1>2. PICK x \in Int, e \in Int : x = a + n /\ e = d + 1
    OBVIOUS
<1>3. x = n * e + m
  <2>1. n * (d + 1) = n * d + n
      OBVIOUS
  <2> QED BY <1>1, <1>2, <2>1
<1>4. x % n = m /\ x \div n = e
    BY <1>3, ModIs
<1> QED BY <1>1, <1>2, <1>4

\* The position of slot s in the window of n positions that begins at h.
LEMMA WindowMod ==
    ASSUME NEW n \in Nat \ {0}, NEW s \in 0 .. n - 1, NEW h \in Nat
    PROVE  /\ (s - h) % n \in 0 .. n - 1
           /\ (h + ((s - h) % n)) % n = s
<1>1. PICK d \in Int, m \in 0 .. n - 1 : d = (s - h) \div n /\ m = (s - h) % n /\ s - h = n * d + m
  <2>1. s - h \in Int
      OBVIOUS
  <2> QED BY <2>1, DivMod
<1>2. n * d \in Int /\ n * (-d) = -(n * d) /\ -d \in Int
    OBVIOUS
<1>3. h + m = n * (-d) + s /\ h + m \in Int
    BY <1>1, <1>2
<1>4. (h + m) % n = s
    BY <1>2, <1>3, ModIs
<1> QED BY <1>1, <1>4

\* How far a is above h, from a's slot.
LEMMA WindowIs ==
    ASSUME NEW n \in Nat \ {0}, NEW a \in Nat, NEW h \in Nat, h <= a, a < h + n
    PROVE  ((a % n) - h) % n = a - h
<1>1. PICK d \in Int, m \in 0 .. n - 1 : d = a \div n /\ m = a % n /\ a = n * d + m
    BY DivMod
<1>2. n * d \in Int /\ n * (-d) = -(n * d) /\ -d \in Int
    OBVIOUS
<1>3. m - h = n * (-d) + (a - h) /\ m - h \in Int /\ a - h \in 0 .. n - 1
    BY <1>1, <1>2
<1>4. (m - h) % n = a - h
    BY <1>2, <1>3, ModIs
<1> QED BY <1>1, <1>4

\* The same position from another beginning of the window.
LEMMA Rebase ==
    ASSUME NEW n \in Nat \ {0}, NEW x \in Int, NEW h \in Nat, NEW g \in Nat,
           g <= h + ((x - h) % n), h + ((x - h) % n) < g + n
    PROVE  g + ((x - g) % n) = h + ((x - h) % n)
<1>1. PICK d \in Int, m \in 0 .. n - 1 : d = (x - h) \div n /\ m = (x - h) % n /\ x - h = n * d + m
  <2>1. x - h \in Int
      OBVIOUS
  <2> QED BY <2>1, DivMod
<1>2. n * d \in Int
    OBVIOUS
<1>3. PICK r \in 0 .. n - 1 : r = h + m - g
  <2>1. h + m - g \in 0 .. n - 1
      BY <1>1
  <2> QED BY <2>1
<1>4. x - g = n * d + r /\ x - g \in Int
    BY <1>1, <1>2, <1>3
<1>5. (x - g) % n = r
    BY <1>4, ModIs
<1> QED BY <1>1, <1>3, <1>5

LEMMA PhaseFlips ==
    ASSUME NEW p \in Nat
    PROVE  search_phase(p + CQS) # search_phase(p)
<1>1. PICK d \in Nat : d = p \div CQS
    BY SizesAre, DivLow
<1>2. (p + CQS) \div CQS = d + 1
    BY <1>1, SizesAre, NextLap
<1>3. (1 + (d + 1)) % 2 # (1 + d) % 2
    OBVIOUS
<1> QED BY <1>1, <1>2, <1>3 DEF search_phase

LEMMA FirstPhase ==
    ASSUME NEW p \in Nat, p < CQS
    PROVE  search_phase(p) = 1 /\ p % CQS = p
<1>1. p = CQS * 0 + p /\ p \in 0 .. CQS - 1 /\ p \in Int /\ 0 \in Int
    BY SizesAre
<1>2. p % CQS = p /\ p \div CQS = 0
    BY <1>1, SizesAre, ModIs
<1> QED BY <1>2 DEF search_phase

LEMMA PhaseType == ASSUME NEW p \in Nat PROVE search_phase(p) \in {0, 1}
<1>1. PICK d \in Nat : d = p \div CQS
    BY SizesAre, DivLow
<1> QED BY <1>1 DEF search_phase

LEMMA IndexType ==
    ASSUME NEW p \in Nat
    PROVE  p % QS \in Slots /\ p % CQS \in Entries
BY SizesAre, ModRange DEF Slots, Entries

\* Two tickets of one slot: the later one's turn is two increments later.
LEMMA SameSlot ==
    ASSUME NEW j \in Nat, NEW k \in Nat, j % QS = k % QS, j < k
    PROVE  j + QS <= k /\ get_id(j) + 2 <= get_id(k)
<1>1. j + QS <= k /\ j \div QS + 1 <= k \div QS
    BY SizesAre, SameMod
<1>2. j \div QS \in Nat /\ k \div QS \in Nat
    BY SizesAre, DivLow
<1> QED BY <1>1, <1>2 DEF get_id

LEMMA IdNat == ASSUME NEW k \in Nat PROVE get_id(k) \in Nat
<1>1. k \div QS \in Nat
    BY SizesAre, DivLow
<1> QED BY <1>1 DEF get_id

\* Entries of one place: positions less than a lap apart are the same.
LEMMA SameEntry ==
    ASSUME NEW p \in Nat, NEW q \in Nat, p % CQS = q % CQS, p < q + CQS, q < p + CQS
    PROVE  p = q
<1>1. ASSUME p < q PROVE FALSE
  <2>1. p + CQS <= q
      BY <1>1, SizesAre, SameMod
  <2> QED BY <2>1, SizesAre
<1>2. ASSUME q < p PROVE FALSE
  <2>1. q + CQS <= p
      BY <1>2, SizesAre, SameMod
  <2> QED BY <2>1, SizesAre
<1> QED BY <1>1, <1>2

LEMMA SameSlotNear ==
    ASSUME NEW p \in Nat, NEW q \in Nat, p % QS = q % QS, p < q + QS, q < p + QS
    PROVE  p = q
<1>1. ASSUME p < q PROVE FALSE
  <2>1. p + QS <= q
      BY <1>1, SizesAre, SameMod
  <2> QED BY <2>1, SizesAre
<1>2. ASSUME q < p PROVE FALSE
  <2>1. q + QS <= p
      BY <1>2, SizesAre, SameMod
  <2> QED BY <2>1, SizesAre
<1> QED BY <1>1, <1>2

-----------------------------------------------------------------------------
(* What a step leaves alone *)

Stages ==
    {{"fill"}, {"tail_marked", "lock_tail", "move_tail", "ring_sq"},
     {"poll", "scan", "dequeue"},
     {"head_marked", "lock_head", "move_head", "release_slots", "move_sq_head", "ring_cq",
      "store_head"}}

\* No thread takes a ticket, marks its completion or returns.
KeepsHolders ==
    \A t \in Threads :
        /\ Holding(t)' <=> Holding(t)
        /\ Consumed(t)' <=> Consumed(t)
        /\ Holding(t) => ticket'[t] = ticket[t] /\ cid'[t] = cid[t]

\* No thread goes on to another stage of its command.
KeepsStages ==
    \A t \in Threads :
        /\ Holding(t)' <=> Holding(t)
        /\ Submitting(t)' <=> Submitting(t)
        /\ Consumed(t)' <=> Consumed(t)
        /\ pc'[t] = "fill" <=> pc[t] = "fill"
        /\ Holding(t) => ticket'[t] = ticket[t] /\ cid'[t] = cid[t]

LEMMA SameStage ==
    ASSUME NEW t \in Threads, NEW S \in Stages, pc[t] \in S, pc'[t] \in S,
           \A u \in Threads : u # t => pc'[u] = pc[u], UNCHANGED <<cid, ticket>>
    PROVE  KeepsStages /\ KeepsHolders
<1> SUFFICES ASSUME NEW u \in Threads
             PROVE  /\ Holding(u)' <=> Holding(u)
                    /\ Submitting(u)' <=> Submitting(u)
                    /\ Consumed(u)' <=> Consumed(u)
                    /\ pc'[u] = "fill" <=> pc[u] = "fill"
    BY DEF KeepsStages, KeepsHolders
<1>1. CASE u # t
    BY <1>1 DEF Holding, Submitting, Consumed
<1>2. CASE u = t
    BY <1>2 DEF Holding, Submitting, Consumed, Stages
<1> QED BY <1>1, <1>2

LEMMA NoStage ==
    ASSUME UNCHANGED <<pc, cid, ticket>>
    PROVE  KeepsStages /\ KeepsHolders
BY DEF KeepsStages, KeepsHolders, Holding, Submitting, Consumed

LEMMA FilledSame ==
    ASSUME KeepsStages, in_ticket' = in_ticket, NEW k
    PROVE  (Filled(k)' <=> Filled(k)) /\ (Left(k)' <=> Left(k))
BY DEF KeepsStages, Filled, Left

LEMMA IssuedSame ==
    ASSUME KeepsHolders, NEW c
    PROVE  Issued(c)' <=> Issued(c)
BY DEF KeepsHolders, Issued

LEMMA TurnsFrame ==
    ASSUME KeepsStages, NEW rh, Turns(rh), UNCHANGED <<in_ticket, tickets>>
    PROVE  Turns(rh)'
<1> SUFFICES ASSUME NEW k \in Nat PROVE Turn(k, rh)'
    BY DEF Turns
<1>1. Turn(k, rh)
    BY DEF Turns
<1> QED BY <1>1, FilledSame DEF Turn

LEMMA TailMarksFrame ==
    ASSUME KeepsStages, NEW et, TailMarks(et), UNCHANGED <<in_ticket, tail_mark>>
    PROVE  TailMarks(et)'
BY FilledSame DEF TailMarks

LEMMA WrittenFrame ==
    ASSUME KeepsStages, NEW rh, Written(rh), UNCHANGED <<in_ticket, sq, dev_fetched>>
    PROVE  Written(rh)'
<1> SUFFICES ASSUME NEW k \in Nat, Filled(k)', k >= rh
             PROVE  /\ sq'[k % QS] \in Command
                    /\ sq'[k % QS].ticket = k
                    /\ k >= dev_fetched' => Issued(sq[k % QS])'
    BY DEF Written, Command
<1>1. Filled(k)
    BY FilledSame
<1>2. /\ sq[k % QS] \in Command
      /\ sq[k % QS].ticket = k
      /\ k >= dev_fetched => Issued(sq[k % QS])
    BY <1>1 DEF Written
<1>3. PICK c : c = sq[k % QS]
    OBVIOUS
<1>4. sq'[k % QS] = c
    BY <1>3
<1>5. Issued(c) => Issued(c)'
    BY DEF KeepsStages, Issued
<1>6. Issued(c)' => Issued(sq[k % QS])'
    BY <1>4 DEF Issued, Holding
<1> QED BY <1>2, <1>3, <1>4, <1>5, <1>6

LEMMA SubmitFrame ==
    ASSUME KeepsStages, NEW et, NEW rh, SubmitInv(et, rh),
           UNCHANGED <<in_ticket, tickets, tail_mark, sq, dev_fetched>>
    PROVE  SubmitInv(et, rh)'
BY TurnsFrame, TailMarksFrame, WrittenFrame DEF SubmitInv

LEMMA DeviceFrame ==
    ASSUME KeepsHolders, Device, UNCHANGED devVars
    PROVE  Device'
<1>1. UNCHANGED <<executing, dev_posted, dev_fetched, completed>>
    BY DEF devVars
<1>2. \A c \in executing : Issued(c)'
    BY IssuedSame DEF Device
<1> QED BY <1>1, <1>2 DEF Device

LEMMA PostsFrame ==
    ASSUME Posts, UNCHANGED <<cq, dev_posted, completed>>
    PROVE  Posts'
BY DEF Posts, Posted

LEMMA HeadsFrame ==
    ASSUME NEW ac, Heads(ac), UNCHANGED <<cq, sq_head, dev_posted, dev_fetched>>
    PROVE  Heads(ac)'
BY DEF Heads, FetchedAt

LEMMA StaleFrame ==
    ASSUME Stale, KeepsHolders, UNCHANGED <<cq, dev_posted, cid, ticket>>, cq_head \in Nat, cq_head' \in Nat,
           cq_head' >= cq_head, \A t \in Threads : HasCid(t)' => HasCid(t),
           \A t \in Threads : pc'[t] = "scan" =>
               (pc[t] = "scan" /\ base'[t] = base[t]) \/ base'[t] = cq_head
    PROVE  Stale'
<1> SUFFICES ASSUME NEW t \in Threads, NEW p \in Nat,
                    HasCid(t)', Posted(p)', cq'[p % CQS].cid = cid'[t], ~Mine(t, p)'
             PROVE  p < cq_head' /\ (pc'[t] = "scan" => p < base'[t])
    BY DEF Stale
<1>1. Posted(p) /\ HasCid(t) /\ cq[p % CQS].cid = cid[t]
    BY DEF Posted
<1>2. ~Mine(t, p)
    BY DEF Mine, KeepsHolders
<1>3. p < cq_head /\ (pc[t] = "scan" => p < base[t])
    BY <1>1, <1>2 DEF Stale
<1> QED BY <1>3

LEMMA ScansFrame ==
    ASSUME Scans, dev_posted' = dev_posted,
           \A t \in Threads : pc'[t] = "scan" =>
               pc[t] = "scan" /\ base'[t] = base[t] /\ count'[t] = count[t]
    PROVE  Scans'
BY DEF Scans

LEMMA UnconsumedFrame ==
    ASSUME KeepsHolders, NEW ec, Unconsumed(ec), UNCHANGED <<completed, cq, dev_posted>>
    PROVE  Unconsumed(ec)'
BY DEF Unconsumed, KeepsHolders

LEMMA HeadMarksFrame ==
    ASSUME KeepsHolders, NEW ec, HeadMarks(ec), UNCHANGED <<completed, cq, dev_posted, head_mark>>,
           \A t \in Threads : Consumed(t) => loc'[t] = loc[t],
           \A t \in Threads : pc'[t] = "dequeue" =>
               ticket'[t] \in completed /\ cq[loc'[t]].ticket = ticket'[t]
    PROVE  HeadMarks(ec)'
<1>1. \A t \in Threads : Consumed(t) => ticket'[t] = ticket[t]
    BY DEF KeepsHolders, Consumed, Holding
<1>2. \A t \in Threads : Consumed(t)' => ticket'[t] \in completed'
    BY <1>1 DEF HeadMarks, KeepsHolders
<1>3. ASSUME NEW e \in head_mark
      PROVE  \E t \in Threads : Consumed(t)' /\ loc'[t] = e /\ cq'[e].ticket = ticket'[t]
  <2>1. PICK t \in Threads : Consumed(t) /\ loc[t] = e /\ cq[e].ticket = ticket[t]
      BY <1>3 DEF HeadMarks
  <2> QED BY <1>1, <2>1 DEF KeepsHolders
<1>4. \A e \in head_mark' : \E p \in Nat : ec <= p /\ p < dev_posted' /\ p % CQS = e
    BY DEF HeadMarks
<1> QED BY <1>2, <1>3, <1>4 DEF HeadMarks

LEMMA TailFrame ==
    ASSUME NEW et, IsTail(et), UNCHANGED <<sq_tail, tail_lock>>,
           \A t \in Threads : AtTail(t)' => AtTail(t) /\ base'[t] = base[t] /\ count'[t] = count[t]
    PROVE  IsTail(et)'
BY DEF IsTail

LEMMA HeadFrame ==
    ASSUME NEW ec, NEW ac, NEW cr, NEW rh, IsHead(ec, ac, cr, rh),
           UNCHANGED <<cq_head, sq_head, head_lock, cq>>,
           \A t \in Threads : AtHead(t)' => pc'[t] = pc[t] /\ base'[t] = base[t] /\ count'[t] = count[t]
    PROVE  IsHead(ec, ac, cr, rh)'
<1>1. \A t \in Threads : AtHead(t)' => AtHead(t)
    BY DEF AtHead
<1>2. \A t \in Threads : AtHead(t)' => Fetched(t)' = Fetched(t)
    BY DEF Fetched, NewSqHead
<1> QED BY <1>1, <1>2 DEF IsHead

LEMMA OrderFrame ==
    ASSUME NEW et, NEW ec, NEW ac, NEW cr, NEW rh, Order(et, ec, ac, cr, rh),
           UNCHANGED <<sq_head, dev_fetched, sq_tail, sq_db, cq_head, dev_posted, cq_db>>
    PROVE  Order(et, ec, ac, cr, rh)'
BY DEF Order

LEMMA OwnersFrame ==
    ASSUME KeepsHolders, Owners, UNCHANGED <<cid, ticket, in_ticket, cid_locked>>,
           \A t \in Threads : HasCid(t)' => HasCid(t)
    PROVE  Owners'
BY DEF Owners, KeepsHolders

\* A step that leaves the completion side alone, one that leaves the submission
\* side alone.
LEMMA PollFrame ==
    ASSUME KeepsHolders, NEW ec, NEW ac, PollInv(ec, ac), cq_head \in Nat,
           UNCHANGED <<cq, sq_head, head_mark, cq_head, loc, cid, ticket>>, UNCHANGED devVars,
           \A t \in Threads : HasCid(t)' => HasCid(t),
           \A t \in Threads : pc'[t] \in {"scan", "dequeue"} =>
               pc'[t] = pc[t] /\ base'[t] = base[t] /\ count'[t] = count[t]
    PROVE  PollInv(ec, ac)'
<1>1. UNCHANGED <<dev_fetched, dev_posted, executing, completed>>
    BY DEF devVars
<1>2. Device' /\ Posts' /\ Heads(ac)' /\ Unconsumed(ec)'
    BY <1>1, DeviceFrame, PostsFrame, HeadsFrame, UnconsumedFrame DEF PollInv
<1>3. Stale'
  <2>1. cq_head' \in Nat /\ cq_head' >= cq_head
      OBVIOUS
  <2> QED BY <1>1, <2>1, StaleFrame DEF PollInv
<1>4. Scans'
    BY <1>1, ScansFrame DEF PollInv
<1>5. HeadMarks(ec)'
  <2>1. \A t \in Threads : pc'[t] = "dequeue" =>
            ticket'[t] \in completed /\ cq[loc'[t]].ticket = ticket'[t]
      BY DEF PollInv, HeadMarks
  <2> QED BY <1>1, <2>1, HeadMarksFrame DEF PollInv
<1> QED BY <1>2, <1>3, <1>4, <1>5 DEF PollInv

LEMMA PollSideFrame ==
    ASSUME KeepsHolders, NEW ec, NEW ac, NEW cr, NEW rh,
           PollInv(ec, ac), IsHead(ec, ac, cr, rh), HeadLocked, cq_head \in Nat,
           UNCHANGED <<cq, sq_head, head_mark, head_lock, cq_head, loc, cid, ticket>>,
           UNCHANGED devVars,
           \A t \in Threads : HasCid(t)' => HasCid(t),
           \A t \in Threads : pc'[t] \in {"scan", "dequeue"} \/ AtHead(t)' =>
               pc'[t] = pc[t] /\ base'[t] = base[t] /\ count'[t] = count[t]
    PROVE  PollInv(ec, ac)' /\ IsHead(ec, ac, cr, rh)' /\ HeadLocked'
<1>1. PollInv(ec, ac)'
    BY PollFrame
<1>2. IsHead(ec, ac, cr, rh)'
    BY HeadFrame
<1>3. \A t \in Threads : AtHead(t)' => AtHead(t)
    BY DEF AtHead
<1> QED BY <1>1, <1>2, <1>3 DEF HeadLocked

LEMMA SubmitSideFrame ==
    ASSUME KeepsStages, NEW et, NEW rh, SubmitInv(et, rh), IsTail(et), TailLocked,
           UNCHANGED <<in_ticket, tickets, tail_mark, tail_lock, sq_tail, sq, dev_fetched>>,
           \A t \in Threads : AtTail(t)' =>
               AtTail(t) /\ base'[t] = base[t] /\ count'[t] = count[t]
    PROVE  SubmitInv(et, rh)' /\ IsTail(et)' /\ TailLocked'
<1>1. SubmitInv(et, rh)'
    BY SubmitFrame
<1>2. IsTail(et)'
    BY TailFrame
<1> QED BY <1>1, <1>2 DEF TailLocked

\* A step of thread t leaves the other threads where they are.
OthersStay(t) ==
    \A u \in Threads : u # t =>
        /\ pc'[u] = pc[u] /\ base'[u] = base[u] /\ count'[u] = count[u] /\ loc'[u] = loc[u]
        /\ cid'[u] = cid[u] /\ ticket'[u] = ticket[u]

-----------------------------------------------------------------------------
(* Steps on the submission side *)

LEMMA SeeTailMarkKeeps ==
    ASSUME TypeOK, Locals, NEW et \in Nat, NEW ec \in Nat, NEW ac \in Nat, NEW cr \in Nat,
           NEW rh \in Nat, At(et, ec, ac, cr, rh), NEW t \in Threads, SeeTailMark(t)
    PROVE  TypeOK' /\ Locals' /\ At(et, ec, ac, cr, rh)'
<1>1. /\ pc[t] = "tail_marked" /\ pc'[t] = "lock_tail"
      /\ UNCHANGED <<cid, ticket, base, count, loc, subVars, cplVars, memVars, devVars>>
      /\ OthersStay(t)
    BY DEF SeeTailMark, goto, TypeOK, OthersStay
<1>2. UNCHANGED <<cid_ticket, cid_locked, in_ticket, tickets, tail_mark, tail_lock, sq_tail, sq_head,
                  head_mark, head_lock, pos_locks, cq_head, sq, sq_db, cq, cq_db,
                  dev_fetched, dev_posted, executing, completed>>
    BY <1>1 DEF subVars, cplVars, memVars, devVars
<1>3. TypeOK'
    BY <1>1, <1>2 DEF TypeOK, SeeTailMark, goto
<1>4. KeepsStages /\ KeepsHolders
    BY <1>1, SameStage DEF Stages, OthersStay
<1>5. Owners' /\ Counters'
    BY <1>1, <1>2, <1>4, OwnersFrame DEF Locals, OthersStay, Counters, AtTail, AtHead
<1>6. PollInv(ec, ac)' /\ IsHead(ec, ac, cr, rh)' /\ HeadLocked'
    BY <1>1, <1>2, <1>4, PollSideFrame DEF At, Locals, OthersStay, AtHead, TypeOK
<1>7. SubmitInv(et, rh)' /\ IsTail(et)' /\ TailLocked'
    BY <1>1, <1>2, <1>4, SubmitSideFrame DEF At, Locals, OthersStay, AtTail
<1>8. Order(et, ec, ac, cr, rh)'
    BY <1>2, OrderFrame DEF At
<1> QED BY <1>3, <1>5, <1>6, <1>7, <1>8 DEF At, Locals

LEMMA LockTailKeeps ==
    ASSUME TypeOK, Locals, NEW et \in Nat, NEW ec \in Nat, NEW ac \in Nat, NEW cr \in Nat,
           NEW rh \in Nat, At(et, ec, ac, cr, rh), NEW t \in Threads, LockTail(t)
    PROVE  TypeOK' /\ Locals' /\ At(et, ec, ac, cr, rh)'
<1>1. /\ pc[t] = "lock_tail" /\ pc'[t] \in {"tail_marked", "move_tail"}
      /\ UNCHANGED <<cid, ticket, count, loc, cid_ticket, cid_locked, in_ticket,
                     tickets, tail_mark, sq_tail, sq_head, cplVars, memVars, devVars>>
      /\ OthersStay(t)
    BY DEF LockTail, goto, TypeOK, OthersStay
<1>2. UNCHANGED <<head_mark, head_lock, pos_locks, cq_head, sq, sq_db, cq, cq_db,
                  dev_fetched, dev_posted, executing, completed>>
    BY <1>1 DEF cplVars, memVars, devVars
<1>3. TypeOK'
  <2>1. tail_lock' \in BOOLEAN /\ base' \in [Threads -> Nat]
      BY DEF LockTail, TypeOK
  <2> HIDE DEF LockTail
  <2>2. pc' = [pc EXCEPT ![t] = "tail_marked"] \/ pc' = [pc EXCEPT ![t] = "move_tail"]
      BY DEF LockTail, goto
  <2> QED BY <1>1, <1>2, <2>1, <2>2 DEF TypeOK
<1>4. KeepsStages /\ KeepsHolders
    BY <1>1, SameStage DEF Stages, OthersStay
<1>5. Owners'
    BY <1>1, <1>2, <1>4, OwnersFrame DEF Locals, OthersStay
<1>6. PollInv(ec, ac)' /\ IsHead(ec, ac, cr, rh)' /\ HeadLocked'
    BY <1>1, <1>2, <1>4, PollSideFrame DEF At, Locals, OthersStay, AtHead, TypeOK
<1>7. SubmitInv(et, rh)'
    BY <1>1, <1>2, <1>4, SubmitFrame DEF At
<1>8. Order(et, ec, ac, cr, rh)'
    BY <1>1, <1>2, OrderFrame DEF At
<1>9. Counters' /\ IsTail(et)' /\ TailLocked'
  <2>1. CASE tail_lock
    <3>1. pc'[t] = "tail_marked" /\ UNCHANGED <<base, tail_lock>>
        BY <2>1 DEF LockTail, goto, TypeOK
    <3>2. \A u \in Threads : AtTail(u)' => AtTail(u) /\ base'[u] = base[u] /\ count'[u] = count[u]
        BY <1>1, <3>1 DEF AtTail, OthersStay
    <3> QED BY <1>1, <3>1, <3>2, TailFrame DEF At, Locals, Counters, TailLocked, AtTail, AtHead, OthersStay
  <2>2. CASE ~tail_lock
    <3>1. pc'[t] = "move_tail" /\ base'[t] = sq_tail /\ tail_lock'
        BY <2>2 DEF LockTail, goto, TypeOK
    <3>2. \A u \in Threads : AtTail(u)' => u = t
        BY <1>1, <2>2 DEF Locals, TailLocked, AtTail, OthersStay
    <3>3. et = sq_tail /\ count[t] = 0 /\ sq_tail \in Nat
        BY <1>1, <2>2 DEF At, IsTail, Locals, Counters, AtTail, AtHead, TypeOK
    <3> QED BY <1>1, <3>1, <3>2, <3>3 DEF Locals, Counters, TailLocked, IsTail, AtTail, AtHead, OthersStay
  <2> QED BY <2>1, <2>2
<1> QED BY <1>3, <1>5, <1>6, <1>7, <1>8, <1>9 DEF At, Locals

\* A slot is written at most one lap ahead of what the device has released.
LEMMA FilledBound ==
    ASSUME NEW rh \in Nat, Turns(rh), NEW k \in Nat, Filled(k), tickets \in [Slots -> Nat]
    PROVE  k < rh + QS
<1> SUFFICES ASSUME k >= rh + QS PROVE FALSE
    BY SizesAre
<1>1. PICK j \in Nat : k = j + QS
  <2>1. k - QS \in Nat /\ k = (k - QS) + QS
      BY SizesAre
  <2> QED BY <2>1
<1>2. j >= rh /\ k >= rh
    BY <1>1, SizesAre
<1>3. j % QS = k % QS
    BY <1>1, SizesAre, NextLap
<1>4. j < k
    BY <1>1, SizesAre
<1>5. get_id(j) + 2 <= get_id(k) /\ get_id(j) \in Nat /\ get_id(k) \in Nat
    BY <1>3, <1>4, SameSlot, IdNat
<1>6. tickets[j % QS] \in Nat
    BY IndexType
<1>7. tickets[j % QS] <= get_id(j) + 1
    BY <1>2, <1>5, <1>6 DEF Turns, Turn
<1>8. tickets[k % QS] >= get_id(k)
    BY <1>2, <1>3, <1>5, <1>6 DEF Turns, Turn
<1> QED BY <1>3, <1>5, <1>6, <1>7, <1>8

LEMMA moveTailKeeps ==
    ASSUME TypeOK, Locals, NEW et \in Nat, NEW ec \in Nat, NEW ac \in Nat, NEW cr \in Nat,
           NEW rh \in Nat, At(et, ec, ac, cr, rh), NEW t \in Threads, move_tail(t)
    PROVE  TypeOK' /\ Locals' /\ (At(et, ec, ac, cr, rh)' \/ At(et + 1, ec, ac, cr, rh)')
<1>1. /\ pc[t] = "move_tail" /\ pc'[t] \in {"move_tail", "ring_sq"}
      /\ UNCHANGED <<cid, ticket, base, loc, cid_ticket, cid_locked, in_ticket,
                     tickets, tail_lock, sq_tail, sq_head, cplVars, memVars, devVars>>
      /\ OthersStay(t)
    BY DEF move_tail, goto, TypeOK, OthersStay
<1>2. UNCHANGED <<head_mark, head_lock, pos_locks, cq_head, sq, sq_db, cq, cq_db,
                  dev_fetched, dev_posted, executing, completed>>
    BY <1>1 DEF cplVars, memVars, devVars
<1>3. TypeOK'
  <2>1. tail_mark' \subseteq Slots /\ count' \in [Threads -> Nat]
    <3>1. tail_mark' \subseteq tail_mark /\ (count' = count \/ count' = [count EXCEPT ![t] = @ + 1])
        BY Zenon DEF move_tail
    <3> QED BY <3>1 DEF TypeOK
  <2>2. pc' = pc \/ pc' = [pc EXCEPT ![t] = "ring_sq"]
      BY DEF move_tail, goto
  <2> QED BY <1>1, <1>2, <2>1, <2>2 DEF TypeOK
<1>4. KeepsStages /\ KeepsHolders
    BY <1>1, SameStage DEF Stages, OthersStay
<1>5. Owners' /\ Counters' /\ TailLocked'
  <2>1. Owners'
      BY <1>1, <1>2, <1>4, OwnersFrame DEF Locals, OthersStay
  <2>2. \A u \in Threads : AtTail(u)' <=> AtTail(u)
      BY <1>1 DEF OthersStay, AtTail
  <2>3. TailLocked'
      BY <1>1, <2>2 DEF Locals, TailLocked
  <2>4. Counters'
      BY <1>1, <2>2 DEF Locals, Counters, AtTail, AtHead, OthersStay
  <2> QED BY <2>1, <2>3, <2>4
<1>6. PollInv(ec, ac)' /\ IsHead(ec, ac, cr, rh)' /\ HeadLocked'
    BY <1>1, <1>2, <1>4, PollSideFrame DEF At, Locals, OthersStay, AtHead, TypeOK
<1>7. base[t] = sq_tail /\ et = base[t] + count[t] /\ base[t] \in Nat /\ count[t] \in Nat
    BY <1>1 DEF At, IsTail, AtTail, TypeOK
<1>8. \A u \in Threads : AtTail(u)' => u = t
    BY <1>1 DEF Locals, TailLocked, AtTail, OthersStay
<1>9. CASE (et + 1) % QS # sq_head % QS /\ et % QS \in tail_mark
  <2>1. /\ tail_mark' = tail_mark \ {et % QS}
        /\ count'[t] = count[t] + 1
      BY <1>7, <1>9 DEF move_tail, HasRoom, TypeOK
  <2>2. sq_head \in Nat /\ et <= sq_head + QS - 1
      BY DEF At, Order, TypeOK
  <2>3. et + 1 <= sq_head + QS - 1
    <3> SUFFICES ASSUME et + 1 = sq_head + QS PROVE FALSE
        BY <2>2, SizesAre
    <3>1. (sq_head + QS) % QS = sq_head % QS
        BY <2>2, SizesAre, NextLap
    <3> QED BY <1>9, <3>1
  <2>4. Order(et + 1, ec, ac, cr, rh)'
    <3>1. sq_tail \in Nat /\ sq_tail <= et
        BY DEF At, Order, TypeOK
    <3>2. Order(et, ec, ac, cr, rh)'
        BY <1>1, <1>2, OrderFrame DEF At
    <3> QED BY <1>1, <2>2, <2>3, <3>1, <3>2, SizesAre DEF Order
  <2>5. IsTail(et + 1)'
    <3>1. tail_lock
        BY <1>1 DEF Locals, TailLocked, AtTail
    <3> QED BY <1>1, <1>7, <1>8, <2>1, <3>1 DEF IsTail
  <2>6. \A k \in Nat : Filled(k) => k < et + QS
    <3> SUFFICES ASSUME NEW k \in Nat, Filled(k) PROVE k < et + QS
        OBVIOUS
    <3>1. k < rh + QS
        BY FilledBound DEF At, SubmitInv, TypeOK
    <3>2. rh <= et
        BY DEF At, Order, TypeOK
    <3> QED BY <3>1, <3>2, SizesAre
  <2>7. Filled(et)
    <3>1. PICK k \in Nat : k >= et /\ Filled(k) /\ k % QS = et % QS
        BY <1>9 DEF At, SubmitInv, TailMarks
    <3>2. k < et + QS /\ et < k + QS
        BY <2>6, <3>1, SizesAre
    <3>3. k = et
        BY <3>1, <3>2, SameSlotNear
    <3> QED BY <3>1, <3>3
  <2>8. TailMarks(et + 1)'
    <3>1. ASSUME NEW k \in Nat, k < et + 1 PROVE Filled(k)'
      <4>1. k < et \/ k = et
          BY <3>1
      <4>2. Filled(k)
          BY <2>7, <4>1 DEF At, SubmitInv, TailMarks
      <4> QED BY <1>1, <1>4, <4>2, FilledSame
    <3>2. ASSUME NEW k \in Nat, Filled(k)', k >= et + 1 PROVE k % QS \in tail_mark'
      <4>1. Filled(k)
          BY <1>1, <1>4, <3>2, FilledSame
      <4>2. k % QS \in tail_mark
          BY <3>2, <4>1 DEF At, SubmitInv, TailMarks
      <4>3. k % QS # et % QS
        <5>1. k < et + QS /\ et < k + QS
            BY <2>6, <3>2, <4>1, SizesAre
        <5>2. k # et
            BY <3>2
        <5> QED BY <5>1, <5>2, SameSlotNear
      <4> QED BY <2>1, <4>2, <4>3
    <3>3. ASSUME NEW s \in tail_mark'
          PROVE  \E k \in Nat : k >= et + 1 /\ Filled(k)' /\ k % QS = s
      <4>1. PICK k \in Nat : k >= et /\ Filled(k) /\ k % QS = s
          BY <2>1, <3>3 DEF At, SubmitInv, TailMarks
      <4>2. k # et
          BY <2>1, <3>3, <4>1
      <4>3. Filled(k)'
          BY <1>1, <1>4, <4>1, FilledSame
      <4> QED BY <4>1, <4>2, <4>3
    <3> QED BY <3>1, <3>2, <3>3 DEF TailMarks
  <2>9. SubmitInv(et + 1, rh)'
      BY <1>1, <1>2, <1>4, <2>8, TurnsFrame, WrittenFrame DEF At, SubmitInv
  <2> QED BY <1>3, <1>5, <1>6, <2>4, <2>5, <2>9 DEF At, Locals
<1>10. CASE ~((et + 1) % QS # sq_head % QS /\ et % QS \in tail_mark)
  <2>1. UNCHANGED <<tail_mark, count>>
      BY <1>7, <1>10 DEF move_tail, HasRoom
  <2>2. SubmitInv(et, rh)'
      BY <1>1, <1>2, <1>4, <2>1, SubmitFrame DEF At
  <2>3. IsTail(et)'
    <3>1. \A u \in Threads : AtTail(u)' => AtTail(u) /\ base'[u] = base[u] /\ count'[u] = count[u]
        BY <1>1, <2>1 DEF AtTail, OthersStay
    <3> QED BY <1>1, <3>1, TailFrame DEF At
  <2>4. Order(et, ec, ac, cr, rh)'
      BY <1>1, <1>2, OrderFrame DEF At
  <2> QED BY <1>3, <1>5, <1>6, <2>2, <2>3, <2>4 DEF At, Locals
<1> QED BY <1>9, <1>10

LEMMA RingSqKeeps ==
    ASSUME TypeOK, Locals, NEW et \in Nat, NEW ec \in Nat, NEW ac \in Nat, NEW cr \in Nat,
           NEW rh \in Nat, At(et, ec, ac, cr, rh), NEW t \in Threads, RingSq(t)
    PROVE  TypeOK' /\ Locals' /\ At(et, ec, ac, cr, rh)' /\ sq_tail' = et
<1>1. /\ pc[t] = "ring_sq" /\ pc'[t] = "tail_marked"
      /\ UNCHANGED <<cid, ticket, loc, cid_ticket, cid_locked, in_ticket, tickets,
                     tail_mark, sq_head, cplVars, sq, cq, cq_db, devVars>>
      /\ tail_lock' = FALSE /\ base'[t] = 0 /\ count'[t] = 0
      /\ sq_tail' = base[t] + count[t] /\ sq_db' = sq_tail' % QS
      /\ OthersStay(t)
    BY DEF RingSq, goto, TypeOK, OthersStay
<1>2. UNCHANGED <<head_mark, head_lock, pos_locks, cq_head, dev_fetched, dev_posted,
                  executing, completed>>
    BY <1>1 DEF cplVars, devVars
<1>3. et = base[t] + count[t] /\ sq_tail' = et
    BY <1>1 DEF At, IsTail, AtTail
<1>4. et % QS \in Slots
    BY IndexType
<1>5. TypeOK'
  <2>1. /\ pc' = [pc EXCEPT ![t] = "tail_marked"]
        /\ base' = [base EXCEPT ![t] = 0] /\ count' = [count EXCEPT ![t] = 0]
      BY DEF RingSq, goto
  <2>2. base' \in [Threads -> Nat] /\ count' \in [Threads -> Nat]
      BY <2>1 DEF TypeOK
  <2> QED BY <1>1, <1>2, <1>3, <1>4, <2>1, <2>2 DEF TypeOK
<1>6. KeepsStages /\ KeepsHolders
    BY <1>1, SameStage DEF Stages, OthersStay
<1>7. \A u \in Threads : ~AtTail(u)'
    BY <1>1 DEF Locals, TailLocked, AtTail, OthersStay
<1>8. Owners'
    BY <1>1, <1>2, <1>6, OwnersFrame DEF Locals, OthersStay
<1>9. Counters' /\ TailLocked' /\ IsTail(et)'
    BY <1>1, <1>3, <1>7 DEF Locals, Counters, TailLocked, IsTail, AtTail, AtHead, OthersStay
<1>10. PollInv(ec, ac)' /\ IsHead(ec, ac, cr, rh)' /\ HeadLocked'
    BY <1>1, <1>2, <1>6, PollSideFrame DEF At, Locals, OthersStay, AtHead, TypeOK
<1>11. SubmitInv(et, rh)'
    BY <1>1, <1>2, <1>6, SubmitFrame DEF At
<1>12. Order(et, ec, ac, cr, rh)'
    BY <1>1, <1>2, <1>3 DEF At, Order, TypeOK
<1> QED BY <1>3, <1>5, <1>8, <1>9, <1>10, <1>11, <1>12 DEF At, Locals

-----------------------------------------------------------------------------
(* Steps on the completion side *)

LEMMA SeeHeadMarkKeeps ==
    ASSUME TypeOK, Locals, NEW et \in Nat, NEW ec \in Nat, NEW ac \in Nat, NEW cr \in Nat,
           NEW rh \in Nat, At(et, ec, ac, cr, rh), NEW t \in Threads, SeeHeadMark(t)
    PROVE  TypeOK' /\ Locals' /\ At(et, ec, ac, cr, rh)'
<1>1. /\ pc[t] = "head_marked" /\ pc'[t] = "lock_head"
      /\ UNCHANGED <<cid, ticket, base, count, loc, subVars, cplVars, memVars, devVars>>
      /\ OthersStay(t)
    BY DEF SeeHeadMark, goto, TypeOK, OthersStay
<1>2. UNCHANGED <<cid_ticket, cid_locked, in_ticket, tickets, tail_mark, tail_lock, sq_tail, sq_head,
                  head_mark, head_lock, pos_locks, cq_head, sq, sq_db, cq, cq_db,
                  dev_fetched, dev_posted, executing, completed>>
    BY <1>1 DEF subVars, cplVars, memVars, devVars
<1>3. TypeOK'
    BY <1>1, <1>2 DEF TypeOK, SeeHeadMark, goto
<1>4. KeepsStages /\ KeepsHolders
    BY <1>1, SameStage DEF Stages, OthersStay
<1>5. Owners' /\ Counters'
    BY <1>1, <1>2, <1>4, OwnersFrame DEF Locals, OthersStay, Counters, AtTail, AtHead
<1>6. PollInv(ec, ac)' /\ IsHead(ec, ac, cr, rh)' /\ HeadLocked'
    BY <1>1, <1>2, <1>4, PollSideFrame DEF At, Locals, OthersStay, AtHead, TypeOK
<1>7. SubmitInv(et, rh)' /\ IsTail(et)' /\ TailLocked'
    BY <1>1, <1>2, <1>4, SubmitSideFrame DEF At, Locals, OthersStay, AtTail
<1>8. Order(et, ec, ac, cr, rh)'
    BY <1>2, OrderFrame DEF At
<1> QED BY <1>3, <1>5, <1>6, <1>7, <1>8 DEF At, Locals

LEMMA LoadCqHeadKeeps ==
    ASSUME TypeOK, Locals, NEW et \in Nat, NEW ec \in Nat, NEW ac \in Nat, NEW cr \in Nat,
           NEW rh \in Nat, At(et, ec, ac, cr, rh), NEW t \in Threads, LoadCqHead(t)
    PROVE  TypeOK' /\ Locals' /\ At(et, ec, ac, cr, rh)'
<1>1. /\ pc[t] = "poll" /\ pc'[t] = "scan" /\ base'[t] = cq_head
      /\ UNCHANGED <<cid, ticket, count, loc, subVars, cplVars, memVars, devVars>>
      /\ OthersStay(t)
    BY DEF LoadCqHead, goto, TypeOK, OthersStay
<1>2. UNCHANGED <<cid_ticket, cid_locked, in_ticket, tickets, tail_mark, tail_lock, sq_tail, sq_head,
                  head_mark, head_lock, pos_locks, cq_head, sq, sq_db, cq, cq_db,
                  dev_fetched, dev_posted, executing, completed>>
    BY <1>1 DEF subVars, cplVars, memVars, devVars
<1>3. TypeOK'
  <2>1. pc' = [pc EXCEPT ![t] = "scan"] /\ base' = [base EXCEPT ![t] = cq_head]
      BY DEF LoadCqHead, goto
  <2>2. base' \in [Threads -> Nat]
      BY <2>1 DEF TypeOK
  <2> QED BY <1>1, <1>2, <2>1, <2>2 DEF TypeOK
<1>4. KeepsStages /\ KeepsHolders
    BY <1>1, SameStage DEF Stages, OthersStay
<1>5. Owners' /\ Counters'
    BY <1>1, <1>2, <1>4, OwnersFrame DEF Locals, OthersStay, Counters, AtTail, AtHead
<1>6. SubmitInv(et, rh)' /\ IsTail(et)' /\ TailLocked'
    BY <1>1, <1>2, <1>4, SubmitSideFrame DEF At, Locals, OthersStay, AtTail
<1>7. IsHead(ec, ac, cr, rh)' /\ HeadLocked'
  <2>1. \A u \in Threads : AtHead(u)' => pc'[u] = pc[u] /\ base'[u] = base[u] /\ count'[u] = count[u]
      BY <1>1 DEF OthersStay, AtHead
  <2>2. \A u \in Threads : AtHead(u)' => AtHead(u)
      BY <2>1 DEF AtHead
  <2> QED BY <1>2, <2>1, <2>2, HeadFrame DEF At, Locals, HeadLocked
<1>8. Order(et, ec, ac, cr, rh)'
    BY <1>2, OrderFrame DEF At
<1>9. Device' /\ Posts' /\ Heads(ac)' /\ Unconsumed(ec)'
  <2>1. UNCHANGED devVars
      BY <1>1
  <2> QED BY <1>2, <1>4, <2>1, DeviceFrame, PostsFrame, HeadsFrame, UnconsumedFrame DEF At, PollInv
<1>10. Stale'
  <2>1. \A u \in Threads : HasCid(u)' => HasCid(u)
      BY <1>1 DEF OthersStay
  <2>2. \A u \in Threads : pc'[u] = "scan" => (pc[u] = "scan" /\ base'[u] = base[u]) \/ base'[u] = cq_head
      BY <1>1 DEF OthersStay
  <2>3. cq_head \in Nat /\ cq_head' \in Nat /\ cq_head' >= cq_head
      BY <1>2 DEF TypeOK
  <2> QED BY <1>1, <1>2, <1>4, <2>1, <2>2, <2>3, StaleFrame DEF At, PollInv
<1>11. Scans'
  <2>1. count[t] = 0
      BY <1>1 DEF Locals, Counters, AtTail, AtHead
  <2>2. cq_head <= dev_posted /\ cq_head \in Nat /\ dev_posted \in Nat
      BY DEF At, Order, TypeOK
  <2>3. base'[t] <= dev_posted /\ count'[t] <= CQS - 2 /\ base'[t] + count'[t] <= dev_posted
      BY <1>1, <2>1, <2>2, SizesAre
  <2> QED BY <1>1, <1>2, <2>3 DEF At, PollInv, Scans, OthersStay
<1>12. HeadMarks(ec)'
  <2>1. \A u \in Threads : pc'[u] = "dequeue" =>
            ticket'[u] \in completed /\ cq[loc'[u]].ticket = ticket'[u]
      BY <1>1 DEF At, PollInv, HeadMarks, OthersStay
  <2>2. \A u \in Threads : Consumed(u) => loc'[u] = loc[u]
      BY <1>1
  <2> QED BY <1>2, <1>4, <2>1, <2>2, HeadMarksFrame DEF At, PollInv
<1> QED BY <1>3, <1>5, <1>6, <1>7, <1>8, <1>9, <1>10, <1>11, <1>12 DEF At, Locals, PollInv

\* Every entry below the device's position is one of the last CQS posted.
LEMMA PostedAt ==
    ASSUME NEW s \in Entries, dev_posted \in Nat, dev_posted >= CQS
    PROVE  \E q \in Nat : Posted(q) /\ q % CQS = s
<1>1. PICK h \in Nat : dev_posted = h + CQS
  <2>1. dev_posted - CQS \in Nat /\ dev_posted = (dev_posted - CQS) + CQS
      BY SizesAre
  <2> QED BY <2>1
<1>2. PICK m \in 0 .. CQS - 1 : m = (s - h) % CQS /\ (h + m) % CQS = s
    BY SizesAre, WindowMod DEF Entries
<1>3. h + m \in Nat /\ Posted(h + m)
    BY <1>1, <1>2, SizesAre DEF Posted
<1> QED BY <1>2, <1>3

\* An entry with the phase that a thread looks for was posted no earlier than
\* the position it looks at.
LEMMA ValidEntry ==
    ASSUME NEW t \in Threads, NEW p \in Nat, p = base[t] + count[t], pc[t] = "scan",
           Posts, Scans, dev_posted \in Nat, base[t] \in Nat, count[t] \in Nat,
           cq[p % CQS].phase = search_phase(p)
    PROVE  /\ \E q \in Nat : Posted(q) /\ q % CQS = p % CQS /\ q >= p
           /\ dev_posted < CQS => p < dev_posted
<1>1. base[t] <= dev_posted /\ count[t] <= CQS - 2 /\ (dev_posted < CQS => p <= dev_posted)
    BY DEF Scans
<1>2. CASE dev_posted < CQS
  <2>1. p < CQS
      BY <1>1, <1>2, SizesAre
  <2>2. search_phase(p) = 1 /\ p % CQS = p
      BY <2>1, FirstPhase
  <2>3. p \in Entries
      BY <2>1, SizesAre DEF Entries
  <2>4. p < dev_posted
      BY <2>2, <2>3 DEF Posts
  <2>5. Posted(p)
      BY <1>2, <2>4, SizesAre DEF Posted
  <2> QED BY <2>4, <2>5
<1>3. CASE dev_posted >= CQS
  <2>1. PICK q \in Nat : Posted(q) /\ q % CQS = p % CQS
      BY <1>3, IndexType, PostedAt
  <2>2. cq[q % CQS].phase = search_phase(q)
      BY <2>1 DEF Posts
  <2>3. ASSUME q < p PROVE FALSE
    <3>1. q + CQS <= p
        BY <2>1, <2>3, SizesAre, SameMod
    <3>2. PICK r \in Nat : r = q + CQS
        BY SizesAre
    <3>3. r % CQS = p % CQS
        BY <2>1, <3>2, SizesAre, NextLap
    <3>4. dev_posted <= r
        BY <2>1, <3>2 DEF Posted
    <3>5. p < r + CQS /\ r < p + CQS
        BY <1>1, <3>1, <3>2, <3>4, SizesAre
    <3>6. r = p
        BY <3>3, <3>5, SameEntry
    <3> QED BY <2>1, <2>2, <3>2, <3>6, PhaseFlips
  <2> QED BY <1>3, <2>1, <2>3, SizesAre
<1> QED BY <1>2, <1>3, SizesAre

\* The entry that cq_poll takes is its thread's own.
LEMMA OwnEntry ==
    ASSUME NEW t \in Threads, NEW p \in Nat, p = base[t] + count[t], pc[t] = "scan",
           Posts, Scans, Stale, dev_posted \in Nat, base[t] \in Nat, count[t] \in Nat,
           cq[p % CQS].phase = search_phase(p), cq[p % CQS].cid = cid[t]
    PROVE  ticket[t] \in completed /\ cq[p % CQS].ticket = ticket[t]
<1>1. PICK q \in Nat : Posted(q) /\ q % CQS = p % CQS /\ q >= p
    BY ValidEntry
<1>2. ~(q < base[t])
    BY <1>1
<1>3. Mine(t, q)
    BY <1>1, <1>2 DEF Stale
<1> QED BY <1>1, <1>3 DEF Mine, Posts

LEMMA cqPollKeeps ==
    ASSUME TypeOK, Locals, NEW et \in Nat, NEW ec \in Nat, NEW ac \in Nat, NEW cr \in Nat,
           NEW rh \in Nat, At(et, ec, ac, cr, rh), NEW t \in Threads, cq_poll(t)
    PROVE  TypeOK' /\ Locals' /\ At(et, ec, ac, cr, rh)'
<1>1. /\ pc[t] = "scan" /\ pc'[t] \in {"scan", "poll", "dequeue"}
      /\ UNCHANGED <<cid, ticket, subVars, cplVars, memVars, devVars>>
      /\ OthersStay(t)
    BY DEF cq_poll, goto, TypeOK, OthersStay
<1>2. UNCHANGED <<cid_ticket, cid_locked, in_ticket, tickets, tail_mark, tail_lock, sq_tail, sq_head,
                  head_mark, head_lock, pos_locks, cq_head, sq, sq_db, cq, cq_db,
                  dev_fetched, dev_posted, executing, completed>>
    BY <1>1 DEF subVars, cplVars, memVars, devVars
<1>3. PICK p \in Nat : p = base[t] + count[t]
    BY DEF TypeOK
<1>4. \/ /\ pc' = [pc EXCEPT ![t] = "dequeue"]
         /\ cq[p % CQS].phase = search_phase(p) /\ cq[p % CQS].cid = cid[t]
         /\ loc' = [loc EXCEPT ![t] = p % CQS]
         /\ base' = [base EXCEPT ![t] = 0] /\ count' = [count EXCEPT ![t] = 0]
      \/ /\ cq[p % CQS].phase = search_phase(p)
         /\ count[t] + 1 < CQS - 1
         /\ count' = [count EXCEPT ![t] = @ + 1]
         /\ UNCHANGED <<pc, base, loc>>
      \/ /\ base' = [base EXCEPT ![t] = 0] /\ count' = [count EXCEPT ![t] = 0]
         /\ pc' = [pc EXCEPT ![t] = "poll"]
         /\ UNCHANGED loc
    BY <1>3 DEF cq_poll, goto, IsMine
<1>5. TypeOK'
  <2>1. base' \in [Threads -> Nat] /\ count' \in [Threads -> Nat]
    <3>1. base' = base \/ base' = [base EXCEPT ![t] = 0]
        BY <1>4, Zenon
    <3>2. count' = [count EXCEPT ![t] = 0] \/ count' = [count EXCEPT ![t] = count[t] + 1]
      <4>1. CASE count' = [count EXCEPT ![t] = 0]
          BY <4>1
      <4>2. CASE count' = [count EXCEPT ![t] = @ + 1]
          BY <4>2
      <4> QED BY <1>4, <4>1, <4>2, Zenon
    <3>3. base \in [Threads -> Nat] /\ count \in [Threads -> Nat]
        BY DEF TypeOK
    <3>4. base' \in [Threads -> Nat]
        BY <3>1, <3>3
    <3>5. count' \in [Threads -> Nat]
        BY <3>2, <3>3
    <3> QED BY <3>4, <3>5
  <2>2. loc' \in [Threads -> Entries]
      BY <1>4, IndexType DEF TypeOK
  <2>3. pc' = pc \/ pc' = [pc EXCEPT ![t] = "dequeue"] \/ pc' = [pc EXCEPT ![t] = "poll"]
      BY <1>4
  <2> QED BY <1>1, <1>2, <2>1, <2>2, <2>3 DEF TypeOK
<1>6. KeepsStages /\ KeepsHolders
    BY <1>1, SameStage DEF Stages, OthersStay
<1>7. Owners'
    BY <1>1, <1>2, <1>6, OwnersFrame DEF Locals, OthersStay
<1>8. Counters'
  <2>1. pc'[t] # "scan" => count'[t] = 0
      BY <1>1, <1>4 DEF TypeOK
  <2> QED BY <1>1, <2>1 DEF Locals, OthersStay, Counters, AtTail, AtHead
<1>9. SubmitInv(et, rh)' /\ IsTail(et)' /\ TailLocked'
    BY <1>1, <1>2, <1>6, SubmitSideFrame DEF At, Locals, OthersStay, AtTail
<1>10. IsHead(ec, ac, cr, rh)' /\ HeadLocked'
  <2>1. \A u \in Threads : AtHead(u)' => pc'[u] = pc[u] /\ base'[u] = base[u] /\ count'[u] = count[u]
      BY <1>1 DEF OthersStay, AtHead
  <2>2. \A u \in Threads : AtHead(u)' => AtHead(u)
      BY <2>1 DEF AtHead
  <2> QED BY <1>2, <2>1, <2>2, HeadFrame DEF At, Locals, HeadLocked
<1>11. Order(et, ec, ac, cr, rh)'
    BY <1>2, OrderFrame DEF At
<1>12. Device' /\ Posts' /\ Heads(ac)' /\ Unconsumed(ec)'
  <2>1. UNCHANGED devVars
      BY <1>1
  <2> QED BY <1>2, <1>6, <2>1, DeviceFrame, PostsFrame, HeadsFrame, UnconsumedFrame DEF At, PollInv
<1>13. Stale'
  <2>1. \A u \in Threads : HasCid(u)' => HasCid(u)
      BY <1>1 DEF OthersStay
  <2>2. pc'[t] = "scan" => base' = base
      BY <1>1, <1>4 DEF TypeOK
  <2>3. \A u \in Threads : pc'[u] = "scan" => (pc[u] = "scan" /\ base'[u] = base[u]) \/ base'[u] = cq_head
      BY <1>1, <2>2 DEF OthersStay
  <2>4. cq_head \in Nat /\ cq_head' \in Nat /\ cq_head' >= cq_head
      BY <1>2 DEF TypeOK
  <2> QED BY <1>1, <1>2, <1>6, <2>1, <2>3, <2>4, StaleFrame DEF At, PollInv
<1>14. base[t] \in Nat /\ count[t] \in Nat /\ dev_posted \in Nat
    BY DEF TypeOK
<1>15. Scans'
  <2>1. pc'[t] = "scan" => /\ base'[t] <= dev_posted
                           /\ count'[t] <= CQS - 2
                           /\ dev_posted < CQS => base'[t] + count'[t] <= dev_posted
    <3> SUFFICES ASSUME pc'[t] = "scan"
                 PROVE  /\ base'[t] <= dev_posted
                        /\ count'[t] <= CQS - 2
                        /\ dev_posted < CQS => base'[t] + count'[t] <= dev_posted
        OBVIOUS
    <3>1. /\ cq[p % CQS].phase = search_phase(p) /\ count[t] + 1 < CQS - 1
          /\ count'[t] = count[t] + 1 /\ base'[t] = base[t]
        BY <1>4 DEF TypeOK
    <3>2. dev_posted < CQS => p < dev_posted
        BY <1>1, <1>3, <1>14, <3>1, ValidEntry DEF At, PollInv
    <3>3. base[t] <= dev_posted
        BY <1>1 DEF At, PollInv, Scans
    <3> QED BY <1>3, <1>14, <3>1, <3>2, <3>3, SizesAre
  <2> QED BY <1>1, <1>2, <2>1 DEF At, PollInv, Scans, OthersStay
<1>16. HeadMarks(ec)'
  <2>1. pc'[t] = "dequeue" => ticket[t] \in completed /\ cq[loc'[t]].ticket = ticket[t]
    <3> SUFFICES ASSUME pc'[t] = "dequeue" PROVE ticket[t] \in completed /\ cq[loc'[t]].ticket = ticket[t]
        OBVIOUS
    <3>1. /\ cq[p % CQS].phase = search_phase(p) /\ cq[p % CQS].cid = cid[t]
          /\ loc'[t] = p % CQS
        BY <1>1, <1>4 DEF TypeOK
    <3> QED BY <1>1, <1>3, <1>14, <3>1, OwnEntry DEF At, PollInv
  <2>2. \A u \in Threads : pc'[u] = "dequeue" =>
            ticket'[u] \in completed /\ cq[loc'[u]].ticket = ticket'[u]
      BY <1>1, <2>1 DEF At, PollInv, HeadMarks, OthersStay
  <2>3. \A u \in Threads : Consumed(u) => loc'[u] = loc[u]
      BY <1>1 DEF Consumed, OthersStay
  <2> QED BY <1>2, <1>6, <2>2, <2>3, HeadMarksFrame DEF At, PollInv
<1> QED BY <1>5, <1>7, <1>8, <1>9, <1>10, <1>11, <1>12, <1>13, <1>15, <1>16 DEF At, Locals, PollInv

LEMMA LockHeadKeeps ==
    ASSUME TypeOK, Locals, NEW et \in Nat, NEW ec \in Nat, NEW ac \in Nat, NEW cr \in Nat,
           NEW rh \in Nat, At(et, ec, ac, cr, rh), NEW t \in Threads, LockHead(t)
    PROVE  TypeOK' /\ Locals' /\ At(et, ec, ac, cr, rh)'
<1>1. /\ pc[t] = "lock_head" /\ pc'[t] \in {"head_marked", "move_head"}
      /\ UNCHANGED <<cid, ticket, count, loc, subVars, head_mark, pos_locks, cq_head,
                     memVars, devVars>>
      /\ OthersStay(t)
    BY DEF LockHead, goto, TypeOK, OthersStay
<1>2. UNCHANGED <<cid_ticket, cid_locked, in_ticket, tickets, tail_mark, tail_lock, sq_tail, sq_head,
                  sq, sq_db, cq, cq_db, dev_fetched, dev_posted, executing, completed>>
    BY <1>1 DEF subVars, memVars, devVars
<1>3. TypeOK'
  <2>1. head_lock' \in BOOLEAN /\ base' \in [Threads -> Nat]
      BY DEF LockHead, TypeOK
  <2>2. pc' = [pc EXCEPT ![t] = "head_marked"] \/ pc' = [pc EXCEPT ![t] = "move_head"]
      BY DEF LockHead, goto
  <2> QED BY <1>1, <1>2, <2>1, <2>2 DEF TypeOK
<1>4. KeepsStages /\ KeepsHolders
    BY <1>1, SameStage DEF Stages, OthersStay
<1>5. Owners'
    BY <1>1, <1>2, <1>4, OwnersFrame DEF Locals, OthersStay
<1>6. PollInv(ec, ac)'
    BY <1>1, <1>2, <1>4, PollFrame DEF At, OthersStay, TypeOK
<1>7. SubmitInv(et, rh)' /\ IsTail(et)' /\ TailLocked'
    BY <1>1, <1>2, <1>4, SubmitSideFrame DEF At, Locals, OthersStay, AtTail
<1>8. Order(et, ec, ac, cr, rh)'
    BY <1>1, <1>2, OrderFrame DEF At
<1>9. Counters' /\ IsHead(ec, ac, cr, rh)' /\ HeadLocked'
  <2>1. CASE head_lock
    <3>1. pc'[t] = "head_marked" /\ UNCHANGED <<base, head_lock>>
        BY <2>1 DEF LockHead, goto, TypeOK
    <3>2. \A u \in Threads : AtHead(u)' => pc'[u] = pc[u] /\ base'[u] = base[u] /\ count'[u] = count[u]
        BY <1>1, <3>1 DEF AtHead, OthersStay
    <3>3. IsHead(ec, ac, cr, rh)'
        BY <1>1, <1>2, <3>1, <3>2, HeadFrame DEF At
    <3>4. \A u \in Threads : AtHead(u)' => AtHead(u)
        BY <3>2 DEF AtHead
    <3> QED BY <1>1, <3>1, <3>3, <3>4 DEF Locals, Counters, HeadLocked, AtTail, AtHead, OthersStay
  <2>2. CASE ~head_lock
    <3>1. pc'[t] = "move_head" /\ base'[t] = cq_head /\ head_lock'
        BY <2>2 DEF LockHead, goto, TypeOK
    <3>2. \A u \in Threads : AtHead(u)' => u = t
        BY <1>1, <2>2 DEF Locals, HeadLocked, AtHead, OthersStay
    <3>3. count[t] = 0 /\ cq_head \in Nat /\ ec = cq_head /\ ac = cq_head /\ cr = cq_head /\ rh = sq_head
        BY <1>1, <2>2 DEF At, IsHead, Locals, Counters, AtTail, AtHead, TypeOK
    <3>4. IsHead(ec, ac, cr, rh)'
        BY <1>1, <1>2, <3>1, <3>2, <3>3, SizesAre DEF IsHead
    <3> QED BY <1>1, <3>1, <3>2, <3>3, <3>4 DEF Locals, Counters, HeadLocked, AtTail, AtHead, OthersStay
  <2> QED BY <2>1, <2>2
<1> QED BY <1>3, <1>5, <1>6, <1>7, <1>8, <1>9 DEF At, Locals

LEMMA moveHeadKeeps ==
    ASSUME TypeOK, Locals, NEW et \in Nat, NEW ec \in Nat, NEW ac \in Nat, NEW cr \in Nat,
           NEW rh \in Nat, At(et, ec, ac, cr, rh), NEW t \in Threads, move_head_cq(t)
    PROVE  TypeOK' /\ Locals' /\ (At(et, ec, ac, cr, rh)' \/ At(et, ec + 1, ac, cr, rh)')
<1>1. /\ pc[t] = "move_head" /\ pc'[t] \in {"move_head", "release_slots", "head_marked"}
      /\ UNCHANGED <<cid, ticket, loc, subVars, pos_locks, cq_head, memVars, devVars>>
      /\ OthersStay(t)
    BY DEF move_head_cq, goto, TypeOK, OthersStay
<1>2. UNCHANGED <<cid_ticket, cid_locked, in_ticket, tickets, tail_mark, tail_lock, sq_tail, sq_head,
                  sq, sq_db, cq, cq_db, dev_fetched, dev_posted, executing, completed>>
    BY <1>1 DEF subVars, memVars, devVars
<1>3. /\ base[t] = cq_head /\ ec = base[t] + count[t] /\ base[t] \in Nat /\ count[t] \in Nat
      /\ ac = cq_head /\ cr = cq_head /\ rh = sq_head /\ count[t] <= CQS - 1
    BY <1>1 DEF At, IsHead, AtHead, TypeOK
<1>4. \/ /\ ec % CQS \in head_mark
         /\ head_mark' = head_mark \ {ec % CQS}
         /\ count' = [count EXCEPT ![t] = @ + 1]
         /\ UNCHANGED <<pc, base, head_lock>>
      \/ /\ count[t] > 0
         /\ pc' = [pc EXCEPT ![t] = "release_slots"]
         /\ UNCHANGED <<base, count, head_mark, head_lock>>
      \/ /\ count[t] = 0
         /\ head_lock' = FALSE
         /\ base' = [base EXCEPT ![t] = 0]
         /\ pc' = [pc EXCEPT ![t] = "head_marked"]
         /\ UNCHANGED <<count, head_mark>>
    BY <1>3 DEF move_head_cq, goto
<1>5. TypeOK'
  <2>1. /\ base' = base \/ base' = [base EXCEPT ![t] = 0]
        /\ count' = count \/ count' = [count EXCEPT ![t] = @ + 1]
        /\ pc' = pc \/ pc' = [pc EXCEPT ![t] = "release_slots"] \/ pc' = [pc EXCEPT ![t] = "head_marked"]
        /\ head_mark' \subseteq head_mark
        /\ head_lock' = head_lock \/ head_lock' = FALSE
      BY <1>4, Zenon
  <2>2. base' \in [Threads -> Nat] /\ count' \in [Threads -> Nat]
    <3>1. base \in [Threads -> Nat] /\ count \in [Threads -> Nat]
        BY DEF TypeOK
    <3> QED BY <2>1, <3>1
  <2>3. head_mark' \subseteq Entries /\ head_lock' \in BOOLEAN
      BY <2>1 DEF TypeOK
  <2>4. pc' \in [Threads -> {"idle", "lock_cid", "next_cid", "take_ticket",
                            "fill", "tail_marked", "lock_tail", "move_tail",
                            "ring_sq", "poll", "scan", "dequeue", "head_marked",
                            "lock_head", "move_head", "release_slots", "move_sq_head",
                            "ring_cq", "store_head"}]
      BY <2>1 DEF TypeOK
  <2> QED BY <1>1, <1>2, <2>2, <2>3, <2>4 DEF TypeOK
<1>6. KeepsStages /\ KeepsHolders
    BY <1>1, SameStage DEF Stages, OthersStay
<1>7. Owners'
    BY <1>1, <1>2, <1>6, OwnersFrame DEF Locals, OthersStay
<1>8. SubmitInv(et, rh)' /\ IsTail(et)' /\ TailLocked'
    BY <1>1, <1>2, <1>6, SubmitSideFrame DEF At, Locals, OthersStay, AtTail
<1>9. \A u \in Threads : AtHead(u)' => u = t
    BY <1>1 DEF Locals, HeadLocked, AtHead, OthersStay
<1>10. head_lock
    BY <1>1 DEF Locals, HeadLocked, AtHead
<1>11. CASE /\ ec % CQS \in head_mark
            /\ head_mark' = head_mark \ {ec % CQS}
            /\ count' = [count EXCEPT ![t] = @ + 1]
            /\ UNCHANGED <<pc, base, head_lock>>
  <2>1. count'[t] = count[t] + 1 /\ pc'[t] = "move_head" /\ base'[t] = base[t]
      BY <1>1, <1>11 DEF TypeOK
  <2>2. \A p \in Nat : ec <= p /\ p < dev_posted => p < ec + CQS
      BY SizesAre DEF At, Order, TypeOK
  <2>3. ec < dev_posted
    <3>1. PICK p \in Nat : ec <= p /\ p < dev_posted /\ p % CQS = ec % CQS
        BY <1>11 DEF At, PollInv, HeadMarks
    <3>2. p < ec + CQS /\ ec < p + CQS
        BY <2>2, <3>1, SizesAre
    <3>3. p = ec
        BY <3>1, <3>2, SameEntry
    <3> QED BY <3>1, <3>3
  <2>4. PICK v \in Threads : Consumed(v) /\ loc[v] = ec % CQS /\ cq[ec % CQS].ticket = ticket[v]
      BY <1>11 DEF At, PollInv, HeadMarks
  <2>5. Order(et, ec + 1, ac, cr, rh)'
    <3>1. Order(et, ec, ac, cr, rh)'
        BY <1>1, <1>2, OrderFrame DEF At
    <3>2. ac <= ec /\ dev_posted \in Nat
        BY DEF At, Order, TypeOK
    <3> QED BY <1>2, <2>3, <3>1, <3>2 DEF Order
  <2>6. IsHead(ec + 1, ac, cr, rh)'
    <3>1. count'[t] <= CQS - 1
      <4>1. dev_posted <= cr + CQS - 1 /\ dev_posted \in Nat
          BY DEF At, Order, TypeOK
      <4> QED BY <1>3, <2>1, <2>3, <4>1, SizesAre
    <3>2. ec + 1 = base'[t] + count'[t]
        BY <1>3, <2>1
    <3> QED BY <1>1, <1>2, <1>3, <1>9, <1>10, <1>11, <2>1, <3>1, <3>2 DEF IsHead
  <2>7. HeadLocked' /\ Counters'
      BY <1>1, <1>9, <1>10, <1>11, <2>1 DEF Locals, HeadLocked, Counters, AtTail, AtHead, OthersStay
  <2>8. Device' /\ Posts' /\ Heads(ac)'
    <3>1. UNCHANGED devVars
        BY <1>1
    <3> QED BY <1>2, <1>6, <3>1, DeviceFrame, PostsFrame, HeadsFrame DEF At, PollInv
  <2>9. Stale' /\ Scans'
    <3>1. \A u \in Threads : pc'[u] = "scan" => pc[u] = "scan" /\ base'[u] = base[u] /\ count'[u] = count[u]
        BY <1>1, <2>1 DEF OthersStay
    <3>2. \A u \in Threads : HasCid(u)' => HasCid(u)
        BY <1>11
    <3>3. cq_head \in Nat /\ cq_head' \in Nat /\ cq_head' >= cq_head
        BY <1>1 DEF TypeOK
    <3> QED BY <1>1, <1>2, <1>6, <3>1, <3>2, <3>3, StaleFrame, ScansFrame DEF At, PollInv
  <2>10. Unconsumed(ec + 1)'
    <3> SUFFICES ASSUME NEW u \in Threads, Holding(u)', ~Consumed(u)', ticket'[u] \in completed'
                 PROVE  \E p \in Nat : ec + 1 <= p /\ p < dev_posted' /\ cq'[p % CQS].ticket = ticket'[u]
        BY DEF Unconsumed
    <3>1. Holding(u) /\ ~Consumed(u) /\ ticket[u] \in completed
        BY <1>1, <1>2, <1>6 DEF KeepsStages
    <3>2. PICK p \in Nat : ec <= p /\ p < dev_posted /\ cq[p % CQS].ticket = ticket[u]
        BY <3>1 DEF At, PollInv, Unconsumed
    <3>3. p # ec
      <4>1. Holding(v) /\ u # v
          BY <2>4, <3>1 DEF Consumed, Holding
      <4>2. ticket[u] # ticket[v]
          BY <3>1, <4>1 DEF Locals, Owners
      <4> QED BY <2>4, <3>2, <4>2
    <3> QED BY <1>1, <1>2, <3>2, <3>3
  <2>11. HeadMarks(ec + 1)'
    <3>1. \A u \in Threads : Consumed(u)' => Consumed(u)
        BY <1>6 DEF KeepsStages
    <3>2. \A u \in Threads : Consumed(u)' => ticket'[u] \in completed'
        BY <1>1, <1>2, <3>1 DEF At, PollInv, HeadMarks
    <3>3. \A u \in Threads : pc'[u] = "dequeue" =>
              ticket'[u] \in completed' /\ cq'[loc'[u]].ticket = ticket'[u]
        BY <1>1, <1>2, <1>11 DEF At, PollInv, HeadMarks
    <3>4. ASSUME NEW e \in head_mark'
          PROVE  /\ \E p \in Nat : ec + 1 <= p /\ p < dev_posted' /\ p % CQS = e
                 /\ \E u \in Threads : Consumed(u)' /\ loc'[u] = e /\ cq'[e].ticket = ticket'[u]
      <4>1. e \in head_mark /\ e # ec % CQS
          BY <1>11, <3>4
      <4>2. PICK p \in Nat : ec <= p /\ p < dev_posted /\ p % CQS = e
          BY <4>1 DEF At, PollInv, HeadMarks
      <4>3. p # ec
          BY <4>1, <4>2
      <4>4. PICK u \in Threads : Consumed(u) /\ loc[u] = e /\ cq[e].ticket = ticket[u]
          BY <4>1 DEF At, PollInv, HeadMarks
      <4>5. Consumed(u)'
          BY <1>6, <4>4 DEF KeepsStages
      <4> QED BY <1>1, <1>2, <4>2, <4>3, <4>4, <4>5
    <3> QED BY <3>2, <3>3, <3>4 DEF HeadMarks
  <2> QED BY <1>5, <1>7, <1>8, <2>5, <2>6, <2>7, <2>8, <2>9, <2>10, <2>11 DEF At, Locals, PollInv
<1>12. ASSUME head_mark' = head_mark /\ pc'[t] # "scan" /\ pc'[t] # "dequeue" /\ HasCid(t)'
       PROVE  PollInv(ec, ac)' /\ Order(et, ec, ac, cr, rh)'
  <2>1. \A u \in Threads : HasCid(u)' => HasCid(u)
      BY <1>1 DEF OthersStay
  <2>2. \A u \in Threads : pc'[u] \in {"scan", "dequeue"} =>
            pc'[u] = pc[u] /\ base'[u] = base[u] /\ count'[u] = count[u]
      BY <1>1, <1>12 DEF OthersStay
  <2>3. UNCHANGED devVars /\ cq_head \in Nat
      BY <1>1 DEF TypeOK
  <2> QED BY <1>1, <1>2, <1>6, <1>12, <2>1, <2>2, <2>3, PollFrame, OrderFrame DEF At
<1>13. CASE /\ count[t] > 0
            /\ pc' = [pc EXCEPT ![t] = "release_slots"]
            /\ UNCHANGED <<base, count, head_mark, head_lock>>
  <2>1. pc'[t] = "release_slots"
      BY <1>13 DEF TypeOK
  <2>2. IsHead(ec, ac, cr, rh)'
      BY <1>1, <1>2, <1>3, <1>9, <1>10, <1>13, <2>1 DEF IsHead
  <2>3. HeadLocked' /\ Counters'
      BY <1>1, <1>9, <1>10, <1>13, <2>1 DEF Locals, HeadLocked, Counters, AtTail, AtHead, OthersStay
  <2>4. PollInv(ec, ac)' /\ Order(et, ec, ac, cr, rh)'
      BY <1>12, <1>13, <2>1
  <2> QED BY <1>5, <1>7, <1>8, <2>2, <2>3, <2>4 DEF At, Locals
<1>14. CASE /\ count[t] = 0
            /\ head_lock' = FALSE
            /\ base' = [base EXCEPT ![t] = 0]
            /\ pc' = [pc EXCEPT ![t] = "head_marked"]
            /\ UNCHANGED <<count, head_mark>>
  <2>1. pc'[t] = "head_marked"
      BY <1>14 DEF TypeOK
  <2>2. \A u \in Threads : ~AtHead(u)'
      BY <1>9, <2>1 DEF AtHead
  <2>3. IsHead(ec, ac, cr, rh)'
      BY <1>1, <1>2, <1>3, <1>14, <2>2 DEF IsHead
  <2>4. HeadLocked' /\ Counters'
      BY <1>1, <1>14, <2>1, <2>2 DEF Locals, HeadLocked, Counters, AtTail, AtHead, OthersStay
  <2>5. PollInv(ec, ac)' /\ Order(et, ec, ac, cr, rh)'
      BY <1>12, <1>14, <2>1
  <2> QED BY <1>5, <1>7, <1>8, <2>3, <2>4, <2>5 DEF At, Locals
<1> QED BY <1>4, <1>11, <1>13, <1>14

\* What the thread that moves the head takes as fetched is what the last entry
\* it consumed reports, and the device has fetched that much.
LEMMA FetchedReported ==
    ASSUME TypeOK, NEW et \in Nat, NEW ec \in Nat, NEW ac \in Nat, NEW cr \in Nat, NEW rh \in Nat,
           At(et, ec, ac, cr, rh), NEW t \in Threads, pc[t] \in {"release_slots", "move_sq_head"}
    PROVE  /\ Fetched(t) \in 0 .. QS - 1
           /\ ec > 0 /\ FetchedAt(ec - 1) = sq_head + Fetched(t)
           /\ sq_head + Fetched(t) <= dev_fetched
           /\ ac <= ec - 1
           /\ ec - 1 < dev_posted
<1>1. /\ base[t] = cq_head /\ ec = base[t] + count[t] /\ count[t] > 0 /\ ac = cq_head
      /\ base[t] \in Nat /\ count[t] \in Nat
    BY DEF At, IsHead, AtHead, TypeOK
<1>2. PICK p \in Nat : p = ec - 1
    BY <1>1
<1>3. cq[p % CQS].sqhd \in Slots /\ cq[p % CQS].sqhd \in Int
  <2>1. cq[p % CQS].sqhd \in Slots
      BY IndexType DEF TypeOK
  <2> QED BY <2>1 DEF Slots
<1>4. Fetched(t) = (cq[p % CQS].sqhd - sq_head) % QS
    BY <1>1, <1>2 DEF Fetched, NewSqHead
<1>5. FetchedAt(p) = sq_head + Fetched(t)
    BY <1>4 DEF FetchedAt
<1>6. ac <= p /\ p < dev_posted
    BY <1>1, <1>2 DEF At, Order, TypeOK
<1>7. FetchedAt(p) <= dev_fetched
    BY <1>6 DEF At, PollInv, Heads
<1>8. Fetched(t) \in 0 .. QS - 1
  <2>1. cq[p % CQS].sqhd - sq_head \in Int
      BY <1>3 DEF TypeOK
  <2> QED BY <1>4, <2>1, SizesAre, ModRange
<1> QED BY <1>1, <1>2, <1>5, <1>6, <1>7, <1>8

LEMMA ReleaseSlotsKeeps ==
    ASSUME TypeOK, Locals, NEW et \in Nat, NEW ec \in Nat, NEW ac \in Nat, NEW cr \in Nat,
           NEW rh \in Nat, At(et, ec, ac, cr, rh), NEW t \in Threads, ReleaseSlots(t)
    PROVE  TypeOK' /\ Locals' /\ \E r \in Nat : At(et, ec, ac, cr, r)'
<1>1. /\ pc[t] = "release_slots" /\ pc'[t] = "move_sq_head"
      /\ UNCHANGED <<cid, ticket, base, count, loc, cid_ticket, cid_locked,
                     in_ticket, tail_mark, tail_lock, sq_tail, sq_head,
                     cplVars, memVars, devVars>>
      /\ OthersStay(t)
    BY DEF ReleaseSlots, goto, TypeOK, OthersStay
<1>2. UNCHANGED <<head_mark, head_lock, pos_locks, cq_head, sq, sq_db, cq, cq_db,
                  dev_fetched, dev_posted, executing, completed>>
    BY <1>1 DEF cplVars, memVars, devVars
<1>3. PICK f \in 0 .. QS - 1 : f = Fetched(t)
    BY <1>1, FetchedReported
<1>4. sq_head + f <= dev_fetched
    BY <1>1, <1>3, FetchedReported
<1>5. PICK r \in Nat : r = sq_head + f
    BY <1>3 DEF TypeOK
<1>6. \A s \in Slots : tickets'[s] = IF (s - sq_head) % QS < f THEN tickets[s] + 1 ELSE tickets[s]
    BY <1>3 DEF ReleaseSlots
<1>7. TypeOK'
  <2>1. tickets' \in [Slots -> Nat]
    <3>1. tickets' = [s \in Slots |-> IF (s - sq_head) % QS < f THEN tickets[s] + 1 ELSE tickets[s]]
        BY <1>3 DEF ReleaseSlots
    <3> QED BY <3>1 DEF TypeOK
  <2>2. pc' = [pc EXCEPT ![t] = "move_sq_head"]
      BY DEF ReleaseSlots, goto
  <2> QED BY <1>1, <1>2, <2>1, <2>2 DEF TypeOK
<1>8. KeepsStages /\ KeepsHolders
    BY <1>1, SameStage DEF Stages, OthersStay
<1>9. Owners'
    BY <1>1, <1>2, <1>8, OwnersFrame DEF Locals, OthersStay
<1>10. PollInv(ec, ac)'
    BY <1>1, <1>2, <1>8, PollFrame DEF At, OthersStay, TypeOK
<1>11. \A u \in Threads : AtHead(u)' => u = t
    BY <1>1 DEF Locals, HeadLocked, AtHead, OthersStay
<1>12. HeadLocked' /\ Counters' /\ TailLocked'
  <2>1. head_lock
      BY <1>1 DEF Locals, HeadLocked, AtHead
  <2> QED BY <1>1, <1>2, <1>11, <2>1 DEF Locals, HeadLocked, TailLocked, Counters, AtTail, AtHead, OthersStay
<1>13. /\ base[t] = cq_head /\ ec = base[t] + count[t] /\ count[t] > 0 /\ count[t] <= CQS - 1
       /\ ac = cq_head /\ cr = cq_head /\ rh = sq_head
    BY <1>1 DEF At, IsHead, AtHead
<1>14. IsHead(ec, ac, cr, r)'
  <2>1. Fetched(t)' = f
      BY <1>1, <1>2, <1>3 DEF Fetched, NewSqHead
  <2>2. head_lock'
      BY <1>1, <1>12 DEF HeadLocked, AtHead
  <2> QED BY <1>1, <1>2, <1>5, <1>11, <1>13, <2>1, <2>2 DEF IsHead
<1>15. IsTail(et)'
  <2>1. \A u \in Threads : AtTail(u)' => AtTail(u) /\ base'[u] = base[u] /\ count'[u] = count[u]
      BY <1>1 DEF AtTail, OthersStay
  <2> QED BY <1>1, <2>1, TailFrame DEF At
<1>16. sq_head \in Nat /\ dev_fetched \in Nat /\ sq_tail \in Nat
    BY DEF TypeOK
<1>17. rh <= r /\ r <= dev_fetched /\ dev_fetched <= et /\ et <= sq_head + QS - 1
    BY <1>3, <1>4, <1>5, <1>13, <1>16, SizesAre DEF At, Order
<1>18. Order(et, ec, ac, cr, r)'
  <2>1. Order(et, ec, ac, cr, rh)'
      BY <1>1, <1>2, OrderFrame DEF At
  <2> QED BY <1>1, <1>2, <1>13, <1>17, <2>1 DEF Order
<1>19. Turns(r)'
  <2> SUFFICES ASSUME NEW k \in Nat PROVE Turn(k, r)'
      BY DEF Turns
  <2>1. (Filled(k)' <=> Filled(k)) /\ (Left(k)' <=> Left(k))
      BY <1>1, <1>8, FilledSame
  <2>2. PICK s \in Slots : s = k % QS
      BY IndexType
  <2>3. PICK m \in 0 .. QS - 1 : m = (s - sq_head) % QS /\ (sq_head + m) % QS = s
      BY <1>16, SizesAre, WindowMod, ZenonT(60) DEF Slots
  <2>4. PICK j \in Nat : j = sq_head + m
      BY <1>16, <2>3
  <2>5. rh <= j /\ j < rh + QS /\ j % QS = k % QS
      BY <1>13, <1>16, <2>2, <2>3, <2>4, SizesAre
  <2>6. Turn(k, rh) /\ Turn(j, rh)
      BY DEF At, SubmitInv, Turns
  <2>7. PICK n \in Nat : n = tickets[s]
      BY <2>2 DEF TypeOK
  <2>8. PICK g \in Nat, i \in Nat : g = get_id(k) /\ i = get_id(j)
      BY IdNat
  <2>9. CASE ~(m < f)
    <3>1. tickets'[s] = n
        BY <1>6, <2>3, <2>7, <2>9
    <3>2. k < r <=> k < rh
      <4>1. ASSUME k < r, rh <= k PROVE FALSE
        <5>1. k < j + QS /\ j < k + QS
            BY <1>13, <1>16, <1>17, <2>5, <4>1, SizesAre
        <5>2. k = j
            BY <2>5, <5>1, SameSlotNear
        <5> QED BY <1>5, <1>16, <2>4, <2>9, <4>1, <5>2
      <4> QED BY <1>17, <4>1
    <3>3. k >= r <=> k >= rh
        BY <3>2
    <3> QED BY <2>1, <2>2, <2>6, <2>7, <3>1, <3>2, <3>3 DEF Turn
  <2>10. CASE m < f
    <3>1. tickets'[s] = n + 1
        BY <1>6, <2>3, <2>7, <2>10
    <3>2. j < r
        BY <1>5, <1>16, <2>4, <2>10
    <3>3. Filled(j)
      <4>1. j < et
          BY <1>16, <1>17, <3>2
      <4> QED BY <4>1 DEF At, SubmitInv, TailMarks
    <3>4. (~Left(j) => n = i) /\ (Left(j) => n = i + 1)
        BY <2>2, <2>5, <2>6, <2>7, <2>8, <3>3 DEF Turn
    <3>5. CASE k = j
        BY <2>1, <2>2, <2>8, <3>1, <3>2, <3>4, <3>5 DEF Turn
    <3>6. CASE k < j
      <4>1. k + QS <= j /\ g + 2 <= i
          BY <2>5, <2>8, <3>6, SameSlot
      <4>2. k < rh /\ k < r
          BY <2>5, <3>2, <4>1, SizesAre
      <4>3. Left(k)
        <5>1. ~Left(k) => n = g + 1
            BY <2>2, <2>6, <2>7, <2>8, <4>2 DEF Turn
        <5> QED BY <3>4, <4>1, <5>1
      <4>4. n + 1 >= g + 2
          BY <3>4, <4>1
      <4> QED BY <2>1, <2>2, <2>8, <3>1, <4>2, <4>3, <4>4 DEF Turn
    <3>7. CASE j < k
      <4>1. j + QS <= k /\ i + 2 <= g
          BY <2>5, <2>8, <3>7, SameSlot
      <4>2. k >= rh + QS /\ k >= r
          BY <1>13, <1>16, <1>17, <2>5, <4>1, SizesAre
      <4>3. ~Filled(k) /\ ~Left(k)
        <5>1. ~Filled(k)
            BY <4>2, FilledBound, SizesAre DEF At, SubmitInv, TypeOK
        <5>2. Left(k) => Filled(k)
            BY DEF Left, Filled, Submitting
        <5> QED BY <5>1, <5>2
      <4>4. n + 1 <= g
          BY <3>4, <4>1
      <4> QED BY <2>1, <2>2, <2>8, <3>1, <4>2, <4>3, <4>4 DEF Turn
    <3> QED BY <3>5, <3>6, <3>7
  <2> QED BY <2>9, <2>10
<1>20. Written(r)'
  <2>1. Written(rh)'
      BY <1>1, <1>2, <1>8, WrittenFrame DEF At, SubmitInv
  <2>2. \A k \in Nat : k >= r => k >= rh
      BY <1>17
  <2> QED BY <2>1, <2>2 DEF Written
<1>21. TailMarks(et)'
    BY <1>1, <1>8, TailMarksFrame DEF At, SubmitInv
<1>22. At(et, ec, ac, cr, r)'
    BY <1>10, <1>14, <1>15, <1>18, <1>19, <1>20, <1>21 DEF At, SubmitInv
<1> QED BY <1>7, <1>9, <1>12, <1>22 DEF Locals

LEMMA MoveSqHeadKeeps ==
    ASSUME TypeOK, Locals, NEW et \in Nat, NEW ec \in Nat, NEW ac \in Nat, NEW cr \in Nat,
           NEW rh \in Nat, At(et, ec, ac, cr, rh), NEW t \in Threads, MoveSqHead(t)
    PROVE  TypeOK' /\ Locals' /\ At(et, ec, ec, cr, rh)'
<1>1. /\ pc[t] = "move_sq_head" /\ pc'[t] = "ring_cq"
      /\ UNCHANGED <<cid, ticket, base, count, loc, cid_ticket, cid_locked,
                     in_ticket, tickets, tail_mark, tail_lock, sq_tail,
                     cplVars, memVars, devVars>>
      /\ sq_head' = sq_head + Fetched(t)
      /\ OthersStay(t)
    BY DEF MoveSqHead, goto, TypeOK, OthersStay
<1>2. UNCHANGED <<head_mark, head_lock, pos_locks, cq_head, sq, sq_db, cq, cq_db,
                  dev_fetched, dev_posted, executing, completed>>
    BY <1>1 DEF cplVars, memVars, devVars
<1>3. /\ base[t] = cq_head /\ ec = base[t] + count[t] /\ count[t] > 0 /\ count[t] <= CQS - 1
      /\ ac = cq_head /\ cr = cq_head /\ rh = sq_head + Fetched(t)
    BY <1>1 DEF At, IsHead, AtHead
<1>4. sq_head' = rh
    BY <1>1, <1>3
<1>5. TypeOK'
  <2>1. pc' = [pc EXCEPT ![t] = "ring_cq"]
      BY DEF MoveSqHead, goto
  <2> QED BY <1>1, <1>2, <1>4, <2>1 DEF TypeOK
<1>6. KeepsStages /\ KeepsHolders
    BY <1>1, SameStage DEF Stages, OthersStay
<1>7. Owners'
    BY <1>1, <1>2, <1>6, OwnersFrame DEF Locals, OthersStay
<1>8. \A u \in Threads : AtHead(u)' => u = t
    BY <1>1 DEF Locals, HeadLocked, AtHead, OthersStay
<1>9. head_lock
    BY <1>1 DEF Locals, HeadLocked, AtHead
<1>10. HeadLocked' /\ Counters'
    BY <1>1, <1>2, <1>8, <1>9 DEF Locals, HeadLocked, Counters, AtTail, AtHead, OthersStay
<1>11. IsHead(ec, ec, cr, rh)'
    BY <1>1, <1>2, <1>3, <1>4, <1>8, <1>9 DEF IsHead
<1>12. SubmitInv(et, rh)' /\ IsTail(et)' /\ TailLocked'
    BY <1>1, <1>2, <1>6, SubmitSideFrame DEF At, Locals, OthersStay, AtTail
<1>13. sq_head \in Nat /\ dev_fetched \in Nat /\ dev_posted \in Nat /\ cq_head \in Nat
    BY DEF TypeOK
<1>14. sq_head <= rh /\ rh <= dev_fetched /\ dev_fetched <= et /\ et <= sq_head + QS - 1
    BY <1>13 DEF At, Order, TypeOK
<1>15. Order(et, ec, ec, cr, rh)'
    BY <1>1, <1>2, <1>4, <1>13, <1>14, SizesAre DEF At, Order, TypeOK
<1>16. /\ ec > 0 /\ FetchedAt(ec - 1) = rh /\ ac <= ec - 1 /\ ec - 1 < dev_posted
    BY <1>1, <1>3, FetchedReported
<1>17. ASSUME NEW p \in Nat, ec <= p, p < dev_posted
       PROVE  FetchedAt(p)' = FetchedAt(p) /\ ac <= p
  <2>1. ac <= p /\ ec - 1 <= p /\ ec - 1 \in Nat
      BY <1>16, <1>17
  <2>2. FetchedAt(ec - 1) <= FetchedAt(p)
      BY <1>16, <1>17, <2>1 DEF At, PollInv, Heads
  <2>3. FetchedAt(p) <= dev_fetched
      BY <1>17, <2>1 DEF At, PollInv, Heads
  <2>4. PICK x \in Int : x = cq[p % CQS].sqhd
    <3>1. cq[p % CQS].sqhd \in Slots
        BY IndexType DEF TypeOK
    <3> QED BY <3>1 DEF Slots
  <2>5. FetchedAt(p) = sq_head + ((x - sq_head) % QS)
      BY <2>4 DEF FetchedAt
  <2>6. PICK m \in 0 .. QS - 1 : m = (x - sq_head) % QS
    <3>1. x - sq_head \in Int
        BY <1>13
    <3> QED BY <3>1, SizesAre, ModRange
  <2>7. rh <= sq_head + m /\ sq_head + m < rh + QS
      BY <1>13, <1>14, <1>16, <2>2, <2>3, <2>5, <2>6, SizesAre
  <2>8. rh + ((x - rh) % QS) = sq_head + ((x - sq_head) % QS)
    <3>1. rh <= sq_head + ((x - sq_head) % QS) /\ sq_head + ((x - sq_head) % QS) < rh + QS
        BY <2>6, <2>7
    <3>2. sq_head \in Nat /\ QS \in Nat \ {0}
        BY <1>13, SizesAre
    <3> QED BY <3>1, <3>2, Rebase, Zenon
  <2>9. FetchedAt(p)' = rh + ((x - rh) % QS)
      BY <1>2, <1>4, <2>4 DEF FetchedAt
  <2> QED BY <2>1, <2>5, <2>8, <2>9
<1>18. Heads(ec)'
  <2>1. ASSUME NEW p \in Nat, ec <= p, p < dev_posted'
        PROVE  FetchedAt(p)' <= dev_fetched'
    <3>1. p < dev_posted
        BY <1>2, <2>1
    <3>2. FetchedAt(p)' = FetchedAt(p) /\ ac <= p
        BY <1>17, <2>1, <3>1
    <3> QED BY <1>2, <3>1, <3>2 DEF At, PollInv, Heads
  <2>2. ASSUME NEW p \in Nat, NEW q \in Nat, ec <= p, p <= q, q < dev_posted'
        PROVE  FetchedAt(p)' <= FetchedAt(q)'
    <3>1. q < dev_posted /\ p < dev_posted /\ ec <= q
        BY <1>2, <1>13, <2>2
    <3>2. FetchedAt(p)' = FetchedAt(p) /\ FetchedAt(q)' = FetchedAt(q) /\ ac <= p
        BY <1>17, <2>2, <3>1
    <3> QED BY <2>2, <3>1, <3>2 DEF At, PollInv, Heads
  <2> QED BY <2>1, <2>2 DEF Heads
<1>19. Device' /\ Posts' /\ Unconsumed(ec)'
  <2>1. UNCHANGED devVars
      BY <1>1
  <2> QED BY <1>2, <1>6, <2>1, DeviceFrame, PostsFrame, UnconsumedFrame DEF At, PollInv
<1>20. Stale' /\ Scans'
  <2>1. \A u \in Threads : pc'[u] = "scan" => pc[u] = "scan" /\ base'[u] = base[u] /\ count'[u] = count[u]
      BY <1>1 DEF OthersStay
  <2>2. \A u \in Threads : HasCid(u)' => HasCid(u)
      BY <1>1 DEF OthersStay
  <2>3. cq_head' \in Nat /\ cq_head' >= cq_head
      BY <1>2, <1>13
  <2> QED BY <1>1, <1>2, <1>6, <1>13, <2>1, <2>2, <2>3, StaleFrame, ScansFrame DEF At, PollInv
<1>21. HeadMarks(ec)'
  <2>1. \A u \in Threads : pc'[u] = "dequeue" =>
            ticket'[u] \in completed /\ cq[loc'[u]].ticket = ticket'[u]
      BY <1>1 DEF At, PollInv, HeadMarks, OthersStay
  <2>2. \A u \in Threads : Consumed(u) => loc'[u] = loc[u]
      BY <1>1
  <2> QED BY <1>2, <1>6, <2>1, <2>2, HeadMarksFrame DEF At, PollInv
<1> QED BY <1>5, <1>7, <1>10, <1>11, <1>12, <1>15, <1>18, <1>19, <1>20, <1>21 DEF At, Locals, PollInv

LEMMA RingCqKeeps ==
    ASSUME TypeOK, Locals, NEW et \in Nat, NEW ec \in Nat, NEW ac \in Nat, NEW cr \in Nat,
           NEW rh \in Nat, At(et, ec, ac, cr, rh), NEW t \in Threads, RingCq(t)
    PROVE  TypeOK' /\ Locals' /\ At(et, ec, ac, ec, rh)'
<1>1. /\ pc[t] = "ring_cq" /\ pc'[t] = "store_head"
      /\ UNCHANGED <<cid, ticket, base, count, loc, subVars, cplVars, sq, sq_db, cq, devVars>>
      /\ cq_db' = (base[t] + count[t]) % CQS
      /\ OthersStay(t)
    BY DEF RingCq, CqDoorbell, goto, TypeOK, OthersStay
<1>2. UNCHANGED <<cid_ticket, cid_locked, in_ticket, tickets, tail_mark, tail_lock, sq_tail, sq_head,
                  head_mark, head_lock, pos_locks, cq_head,
                  dev_fetched, dev_posted, executing, completed>>
    BY <1>1 DEF subVars, cplVars, devVars
<1>3. /\ base[t] = cq_head /\ ec = base[t] + count[t] /\ count[t] > 0 /\ count[t] <= CQS - 1
      /\ ac = ec /\ cr = cq_head /\ rh = sq_head
    BY <1>1 DEF At, IsHead, AtHead
<1>4. cq_db' = ec % CQS /\ ec % CQS \in Entries
    BY <1>1, <1>3, IndexType
<1>5. TypeOK'
  <2>1. pc' = [pc EXCEPT ![t] = "store_head"]
      BY DEF RingCq, goto
  <2> QED BY <1>1, <1>2, <1>4, <2>1 DEF TypeOK
<1>6. KeepsStages /\ KeepsHolders
    BY <1>1, SameStage DEF Stages, OthersStay
<1>7. Owners'
    BY <1>1, <1>2, <1>6, OwnersFrame DEF Locals, OthersStay
<1>8. \A u \in Threads : AtHead(u)' => u = t
    BY <1>1 DEF Locals, HeadLocked, AtHead, OthersStay
<1>9. head_lock
    BY <1>1 DEF Locals, HeadLocked, AtHead
<1>10. HeadLocked' /\ Counters'
    BY <1>1, <1>2, <1>8, <1>9 DEF Locals, HeadLocked, Counters, AtTail, AtHead, OthersStay
<1>11. IsHead(ec, ac, ec, rh)'
    BY <1>1, <1>2, <1>3, <1>8, <1>9 DEF IsHead
<1>12. SubmitInv(et, rh)' /\ IsTail(et)' /\ TailLocked'
    BY <1>1, <1>2, <1>6, SubmitSideFrame DEF At, Locals, OthersStay, AtTail
<1>13. PollInv(ec, ac)'
    BY <1>1, <1>2, <1>6, PollFrame DEF At, OthersStay, TypeOK
<1>14. Order(et, ec, ac, ec, rh)'
  <2>1. cq_head \in Nat /\ dev_posted \in Nat /\ count[t] \in Nat
      BY DEF TypeOK
  <2>2. cq_head <= ec /\ ec <= dev_posted /\ dev_posted <= ec + CQS - 1 /\ ec <= cq_head + CQS - 1
      BY <1>3, <2>1, SizesAre DEF At, Order
  <2> QED BY <1>1, <1>2, <1>3, <1>4, <2>2 DEF At, Order
<1> QED BY <1>5, <1>7, <1>10, <1>11, <1>12, <1>13, <1>14 DEF At, Locals

LEMMA StoreCqHeadKeeps ==
    ASSUME TypeOK, Locals, NEW et \in Nat, NEW ec \in Nat, NEW ac \in Nat, NEW cr \in Nat,
           NEW rh \in Nat, At(et, ec, ac, cr, rh), NEW t \in Threads, StoreCqHead(t)
    PROVE  TypeOK' /\ Locals' /\ At(et, ec, ac, cr, rh)'
<1>1. /\ pc[t] = "store_head" /\ pc'[t] = "head_marked"
      /\ UNCHANGED <<cid, ticket, loc, subVars, head_mark, pos_locks, memVars, devVars>>
      /\ cq_head' = base[t] + count[t] /\ head_lock' = FALSE
      /\ base'[t] = 0 /\ count'[t] = 0
      /\ OthersStay(t)
    BY DEF StoreCqHead, goto, TypeOK, OthersStay
<1>2. UNCHANGED <<cid_ticket, cid_locked, in_ticket, tickets, tail_mark, tail_lock, sq_tail, sq_head,
                  sq, sq_db, cq, cq_db, dev_fetched, dev_posted, executing, completed>>
    BY <1>1 DEF subVars, memVars, devVars
<1>3. /\ base[t] = cq_head /\ ec = base[t] + count[t] /\ ac = ec /\ cr = ec /\ rh = sq_head
      /\ cq_head' = ec
    BY <1>1 DEF At, IsHead, AtHead
<1>4. TypeOK'
  <2>1. /\ pc' = [pc EXCEPT ![t] = "head_marked"]
        /\ base' = [base EXCEPT ![t] = 0] /\ count' = [count EXCEPT ![t] = 0]
      BY DEF StoreCqHead, goto
  <2>2. base' \in [Threads -> Nat] /\ count' \in [Threads -> Nat]
      BY <2>1 DEF TypeOK
  <2> QED BY <1>1, <1>2, <1>3, <2>1, <2>2 DEF TypeOK
<1>5. KeepsStages /\ KeepsHolders
    BY <1>1, SameStage DEF Stages, OthersStay
<1>6. Owners'
    BY <1>1, <1>2, <1>5, OwnersFrame DEF Locals, OthersStay
<1>7. \A u \in Threads : ~AtHead(u)'
    BY <1>1 DEF Locals, HeadLocked, AtHead, OthersStay
<1>8. HeadLocked' /\ Counters'
    BY <1>1, <1>7 DEF Locals, HeadLocked, Counters, AtTail, AtHead, OthersStay
<1>9. IsHead(ec, ac, cr, rh)'
    BY <1>1, <1>2, <1>3, <1>7 DEF IsHead
<1>10. SubmitInv(et, rh)' /\ IsTail(et)' /\ TailLocked'
    BY <1>1, <1>2, <1>5, SubmitSideFrame DEF At, Locals, OthersStay, AtTail
<1>11. cq_head \in Nat /\ cq_head' \in Nat /\ cq_head' >= cq_head /\ dev_posted \in Nat
  <2>1. cq_head \in Nat /\ dev_posted \in Nat /\ cq_head <= cr
      BY DEF At, Order, TypeOK
  <2> QED BY <1>3, <2>1
<1>12. Order(et, ec, ac, cr, rh)'
    BY <1>1, <1>2, <1>3, <1>11, SizesAre DEF At, Order
<1>13. Device' /\ Posts' /\ Heads(ac)' /\ Unconsumed(ec)'
  <2>1. UNCHANGED devVars
      BY <1>1
  <2> QED BY <1>2, <1>5, <2>1, DeviceFrame, PostsFrame, HeadsFrame, UnconsumedFrame DEF At, PollInv
<1>14. Stale' /\ Scans'
  <2>1. \A u \in Threads : pc'[u] = "scan" => pc[u] = "scan" /\ base'[u] = base[u] /\ count'[u] = count[u]
      BY <1>1 DEF OthersStay
  <2>2. \A u \in Threads : HasCid(u)' => HasCid(u)
      BY <1>1 DEF OthersStay
  <2> QED BY <1>1, <1>2, <1>5, <1>11, <2>1, <2>2, StaleFrame, ScansFrame DEF At, PollInv
<1>15. HeadMarks(ec)'
  <2>1. \A u \in Threads : pc'[u] = "dequeue" =>
            ticket'[u] \in completed /\ cq[loc'[u]].ticket = ticket'[u]
      BY <1>1 DEF At, PollInv, HeadMarks, OthersStay
  <2>2. \A u \in Threads : Consumed(u) => loc'[u] = loc[u]
      BY <1>1
  <2> QED BY <1>1, <1>2, <1>5, <2>1, <2>2, HeadMarksFrame DEF At, PollInv
<1> QED BY <1>4, <1>6, <1>8, <1>9, <1>10, <1>12, <1>13, <1>14, <1>15 DEF At, Locals, PollInv

-----------------------------------------------------------------------------
(* Steps of the device *)

LEMMA DeviceFetchKeeps ==
    ASSUME TypeOK, Locals, NEW et \in Nat, NEW ec \in Nat, NEW ac \in Nat, NEW cr \in Nat,
           NEW rh \in Nat, At(et, ec, ac, cr, rh), DeviceFetch
    PROVE  /\ TypeOK' /\ Locals' /\ At(et, ec, ac, cr, rh)'
           /\ dev_fetched < sq_tail
           /\ sq[dev_fetched % QS] \in Command
           /\ sq[dev_fetched % QS].ticket = dev_fetched
<1>1. /\ dev_fetched % QS # sq_db
      /\ dev_fetched' = dev_fetched + 1
      /\ UNCHANGED <<pc, cid, ticket, base, count, loc, cid_ticket, cid_locked, in_ticket,
                     tickets, tail_mark, tail_lock, sq_tail, sq_head,
                     head_mark, head_lock, pos_locks, cq_head, sq, sq_db, cq, cq_db,
                     dev_posted, completed>>
    BY DEF DeviceFetch, locals, subVars, cplVars, memVars
<1>2. dev_fetched \in Nat /\ sq_tail \in Nat
    BY DEF TypeOK
<1>3. dev_fetched < sq_tail /\ dev_fetched < et /\ rh <= dev_fetched
    BY <1>1, <1>2 DEF At, Order
<1>4. PICK c : c = sq[dev_fetched % QS]
    OBVIOUS
<1>5. c \in Command /\ c.ticket = dev_fetched /\ Issued(c)
  <2>1. Filled(dev_fetched)
      BY <1>2, <1>3 DEF At, SubmitInv, TailMarks
  <2> QED BY <1>2, <1>3, <1>4, <2>1 DEF At, SubmitInv, Written
<1>6. executing' = executing \cup {c}
    BY <1>4 DEF DeviceFetch
<1>7. TypeOK'
    BY <1>1, <1>5, <1>6 DEF TypeOK, Command
<1>8. KeepsStages /\ KeepsHolders
    BY <1>1, NoStage
<1>9. Locals' /\ IsTail(et)' /\ IsHead(ec, ac, cr, rh)'
  <2>1. Owners' /\ Counters' /\ TailLocked' /\ HeadLocked' /\ IsTail(et)'
      BY <1>1 DEF Locals, Owners, Counters, TailLocked, HeadLocked, Holding, AtTail, AtHead, At, IsTail
  <2>2. \A u \in Threads : AtHead(u)' => pc'[u] = pc[u] /\ base'[u] = base[u] /\ count'[u] = count[u]
      BY <1>1
  <2>3. IsHead(ec, ac, cr, rh)'
      BY <1>1, <2>2, HeadFrame DEF At
  <2> QED BY <2>1, <2>3 DEF Locals
<1>10. Order(et, ec, ac, cr, rh)'
    BY <1>1, <1>2, <1>3 DEF At, Order
<1>11. SubmitInv(et, rh)'
  <2>1. Turns(rh)' /\ TailMarks(et)'
      BY <1>1, <1>8, TurnsFrame, TailMarksFrame DEF At, SubmitInv
  <2>2. Written(rh)'
    <3> SUFFICES ASSUME NEW k \in Nat, Filled(k)', k >= rh
                 PROVE  /\ sq'[k % QS] \in Command
                        /\ sq'[k % QS].ticket = k
                        /\ k >= dev_fetched' => Issued(sq[k % QS])'
        BY DEF Written, Command
    <3>1. Filled(k)
        BY <1>1, <1>8, FilledSame
    <3>2. /\ sq[k % QS] \in Command
          /\ sq[k % QS].ticket = k
          /\ k >= dev_fetched => Issued(sq[k % QS])
        BY <3>1 DEF At, SubmitInv, Written
    <3>3. Issued(sq[k % QS]) => Issued(sq[k % QS])'
        BY <1>1 DEF Issued, Holding
    <3> QED BY <1>1, <1>2, <3>2, <3>3
  <2> QED BY <2>1, <2>2 DEF SubmitInv
<1>12. Device'
  <2>1. \A d \in executing : d.ticket < dev_fetched
      BY DEF At, PollInv, Device
  <2>2. c \notin executing
      BY <1>2, <1>5, <2>1
  <2>3. IsFiniteSet(executing) /\ Cardinality(executing) + dev_posted = dev_fetched
      BY DEF At, PollInv, Device
  <2>4. IsFiniteSet(executing') /\ Cardinality(executing') = Cardinality(executing) + 1
      BY <1>6, <2>2, <2>3, FS_AddElement
  <2>5. Cardinality(executing') + dev_posted' = dev_fetched'
    <3>1. Cardinality(executing) \in Nat /\ dev_posted \in Nat
        BY <2>3, FS_CardinalityType DEF TypeOK
    <3> QED BY <1>1, <1>2, <2>3, <2>4, <3>1
  <2>6. \A k \in completed : k < dev_fetched
      BY DEF At, PollInv, Device
  <2>7. ASSUME NEW d \in executing'
        PROVE  d.ticket < dev_fetched' /\ d.ticket \notin completed' /\ Issued(d)'
    <3>1. CASE d \in executing
      <4>1. d.ticket < dev_fetched /\ d.ticket \notin completed /\ Issued(d)
          BY <3>1 DEF At, PollInv, Device
      <4>2. Issued(d)'
          BY <1>8, <4>1, IssuedSame
      <4>3. d.ticket \in Nat
          BY <3>1 DEF TypeOK
      <4> QED BY <1>1, <1>2, <4>1, <4>2, <4>3
    <3>2. CASE d = c
      <4>1. Issued(d)'
          BY <1>5, <1>8, <3>2, IssuedSame
      <4>2. dev_fetched \notin completed
          BY <1>2, <2>6
      <4> QED BY <1>1, <1>2, <1>5, <3>2, <4>1, <4>2
    <3> QED BY <1>6, <3>1, <3>2
  <2>8. \A d, g \in executing' : d.ticket = g.ticket => d = g
    <3>1. \A d, g \in executing : d.ticket = g.ticket => d = g
        BY DEF At, PollInv, Device
    <3>2. \A d \in executing : d.ticket # c.ticket
        BY <1>2, <1>5, <2>1
    <3> QED BY <1>6, <3>1, <3>2
  <2>9. \A k \in completed' : k < dev_fetched'
    <3>1. completed \subseteq Nat
        BY DEF TypeOK
    <3> QED BY <1>1, <1>2, <2>6, <3>1
  <2> QED BY <2>4, <2>5, <2>7, <2>8, <2>9 DEF Device
<1>13. Heads(ac)'
  <2>1. ASSUME NEW p \in Nat PROVE FetchedAt(p)' = FetchedAt(p)
      BY <1>1 DEF FetchedAt
  <2>2. ASSUME NEW p \in Nat PROVE FetchedAt(p) \in Int
    <3>1. cq[p % CQS].sqhd \in Slots
        BY IndexType DEF TypeOK
    <3>2. cq[p % CQS].sqhd - sq_head \in Int /\ sq_head \in Nat
        BY <3>1 DEF TypeOK, Slots
    <3>3. (cq[p % CQS].sqhd - sq_head) % QS \in 0 .. QS - 1
        BY <3>2, SizesAre, ModRange
    <3> QED BY <3>2, <3>3 DEF FetchedAt
  <2> QED BY <1>1, <1>2, <2>1, <2>2 DEF At, PollInv, Heads
<1>14. Posts' /\ Stale' /\ Scans' /\ Unconsumed(ec)' /\ HeadMarks(ec)'
  <2>1. Posts' /\ Unconsumed(ec)' /\ Scans'
      BY <1>1, <1>8, PostsFrame, UnconsumedFrame, ScansFrame DEF At, PollInv
  <2>2. cq_head \in Nat /\ cq_head' \in Nat /\ cq_head' >= cq_head
      BY <1>1 DEF TypeOK
  <2>3. Stale'
      BY <1>1, <1>8, <2>2, StaleFrame DEF At, PollInv
  <2>4. \A u \in Threads : pc'[u] = "dequeue" =>
            ticket'[u] \in completed /\ cq[loc'[u]].ticket = ticket'[u]
      BY <1>1 DEF At, PollInv, HeadMarks
  <2>5. HeadMarks(ec)'
      BY <1>1, <1>8, <2>4, HeadMarksFrame DEF At, PollInv
  <2> QED BY <2>1, <2>3, <2>5
<1> QED BY <1>3, <1>4, <1>5, <1>7, <1>9, <1>10, <1>11, <1>12, <1>13, <1>14 DEF At, PollInv

\* An entry that carries a ticket was posted.
LEMMA EntryPosted ==
    ASSUME NEW e \in Entries, Posts, dev_posted \in Nat, cq[e].ticket \in Nat
    PROVE  \E q \in Nat : Posted(q) /\ q % CQS = e
<1>1. CASE dev_posted >= CQS
    BY <1>1, PostedAt
<1>2. CASE dev_posted < CQS
  <2>1. e \in Nat /\ e < CQS
      BY SizesAre DEF Entries
  <2>2. ~(e >= dev_posted)
    <3>1. -1 \notin Nat
        OBVIOUS
    <3> QED BY <3>1 DEF Posts
  <2>3. Posted(e)
      BY <1>2, <2>1, <2>2, SizesAre DEF Posted
  <2>4. e % CQS = e
      BY <2>1, FirstPhase
  <2> QED BY <2>1, <2>3, <2>4
<1> QED BY <1>1, <1>2, SizesAre

LEMMA DeviceCompleteKeeps ==
    ASSUME TypeOK, Locals, NEW et \in Nat, NEW ec \in Nat, NEW ac \in Nat, NEW cr \in Nat,
           NEW rh \in Nat, At(et, ec, ac, cr, rh), NEW c \in executing, DeviceComplete(c)
    PROVE  TypeOK' /\ Locals' /\ At(et, ec, ac, cr, rh)'
<1>1. /\ (dev_posted + 1) % CQS # cq_db
      /\ executing' = executing \ {c}
      /\ completed' = completed \cup {c.ticket}
      /\ dev_posted' = dev_posted + 1
      /\ UNCHANGED <<pc, cid, ticket, base, count, loc, cid_ticket, cid_locked, in_ticket,
                     tickets, tail_mark, tail_lock, sq_tail, sq_head,
                     head_mark, head_lock, pos_locks, cq_head, sq, sq_db, cq_db, dev_fetched>>
    BY DEF DeviceComplete, locals, subVars, cplVars
<1>2. PICK d \in Nat : d = dev_posted
    BY DEF TypeOK
<1>3. c.cid \in 0 .. NumCids - 1 /\ c.ticket \in Nat /\ dev_fetched \in Nat
    BY DEF TypeOK
<1>4. PICK w : w = [cid |-> c.cid, phase |-> search_phase(d), sqhd |-> dev_fetched % QS, ticket |-> c.ticket]
    OBVIOUS
<1>5. cq' = [cq EXCEPT ![d % CQS] = w]
    BY <1>2, <1>4 DEF DeviceComplete
<1>6. d % CQS \in Entries /\ dev_fetched % QS \in Slots /\ search_phase(d) \in {0, 1}
    BY <1>3, IndexType, PhaseType
<1>7. TypeOK'
  <2>1. w \in [cid : 0 .. NumCids - 1, phase : {0, 1}, sqhd : Slots, ticket : Int]
      BY <1>3, <1>4, <1>6
  <2>2. cq' \in [Entries -> [cid : 0 .. NumCids - 1, phase : {0, 1}, sqhd : Slots, ticket : Int]]
      BY <1>5, <2>1 DEF TypeOK
  <2>3. executing' \subseteq [cid : 0 .. NumCids - 1, ticket : Nat]
      BY <1>1, Zenon DEF TypeOK
  <2>4. completed' \subseteq Nat
      BY <1>1, <1>3, Zenon DEF TypeOK
  <2>5. dev_posted' \in Nat
      BY <1>1, <1>2
  <2> QED BY <1>1, <2>2, <2>3, <2>4, <2>5 DEF TypeOK
<1>8. /\ cq'[d % CQS].cid = c.cid /\ cq'[d % CQS].phase = search_phase(d)
      /\ cq'[d % CQS].sqhd = dev_fetched % QS /\ cq'[d % CQS].ticket = c.ticket
    BY <1>4, <1>5, <1>6 DEF TypeOK
<1>9. \A e \in Entries : e # d % CQS => cq'[e] = cq[e]
    BY <1>5 DEF TypeOK
<1>10. cq_head \in Nat /\ sq_head \in Nat /\ sq_tail \in Nat
    BY DEF TypeOK
<1>11. d + 1 <= cr + CQS - 1 /\ cr <= ac /\ ac <= ec /\ ec <= d /\ cq_head <= cr
  <2>1. d <= cr + CQS - 1 /\ cq_db = cr % CQS /\ cr <= ac /\ ac <= ec /\ ec <= d /\ cq_head <= cr
      BY <1>2 DEF At, Order
  <2>2. d + 1 # cr + CQS
    <3>1. (cr + CQS) % CQS = cr % CQS
        BY SizesAre, NextLap
    <3> QED BY <1>1, <1>2, <2>1, <3>1
  <2> QED BY <2>1, <2>2, SizesAre
<1>12. ASSUME NEW p \in Nat, p < d, d < p + CQS PROVE cq'[p % CQS] = cq[p % CQS]
  <2>1. p % CQS # d % CQS
    <3>1. p < d + CQS /\ p # d
        BY <1>12, SizesAre
    <3> QED BY <1>12, <3>1, SameEntry
  <2> QED BY <1>9, <2>1, IndexType
<1>13. ASSUME NEW p \in Nat, cr <= p, p < d PROVE cq'[p % CQS] = cq[p % CQS]
  <2>1. d < p + CQS
      BY <1>11, <1>13, SizesAre
  <2> QED BY <1>12, <1>13, <2>1
<1>14. ASSUME NEW p \in Nat, Posted(p)'
       PROVE  p = d \/ (p < d /\ Posted(p) /\ cq'[p % CQS] = cq[p % CQS])
  <2>1. p < d + 1 /\ d + 1 <= p + CQS
      BY <1>1, <1>2, <1>14 DEF Posted
  <2>2. p # d => p < d /\ d < p + CQS
      BY <2>1, SizesAre
  <2>3. p # d => Posted(p)
      BY <1>2, <2>2, SizesAre DEF Posted
  <2> QED BY <1>12, <2>2, <2>3
<1>15. Locals' /\ IsTail(et)'
    BY <1>1 DEF Locals, Owners, Counters, TailLocked, HeadLocked, Holding, AtTail, AtHead, At, IsTail
<1>16. IsHead(ec, ac, cr, rh)'
  <2>1. ASSUME NEW u \in Threads, pc[u] = "move_sq_head"
        PROVE  Fetched(u)' = Fetched(u)
    <3>1. /\ base[u] = cq_head /\ ec = base[u] + count[u] /\ count[u] > 0 /\ cr = cq_head
          /\ base[u] \in Nat /\ count[u] \in Nat
        BY <2>1 DEF At, IsHead, AtHead, TypeOK
    <3>2. PICK p \in Nat : p = base[u] + count[u] - 1
        BY <3>1
    <3>3. cr <= p /\ p < d
        BY <1>10, <1>11, <3>1, <3>2
    <3>4. cq'[p % CQS] = cq[p % CQS]
        BY <1>13, <3>3
    <3>5. NewSqHead(u)' = NewSqHead(u)
        BY <1>1, <3>2, <3>4 DEF NewSqHead
    <3> QED BY <1>1, <3>5 DEF Fetched
  <2>2. \A u \in Threads : AtHead(u)' <=> AtHead(u)
      BY <1>1 DEF AtHead
  <2> QED BY <1>1, <2>1, <2>2 DEF At, IsHead
<1>17. Order(et, ec, ac, cr, rh)'
    BY <1>1, <1>2, <1>11 DEF At, Order
<1>18. KeepsStages /\ KeepsHolders
    BY <1>1, NoStage
<1>19. SubmitInv(et, rh)'
    BY <1>1, <1>18, SubmitFrame DEF At
<1>20. Device'
  <2>1. IsFiniteSet(executing) /\ Cardinality(executing) + dev_posted = dev_fetched
      BY DEF At, PollInv, Device
  <2>2. IsFiniteSet(executing') /\ Cardinality(executing') = Cardinality(executing) - 1
      BY <1>1, <2>1, FS_RemoveElement
  <2>3. Cardinality(executing') + dev_posted' = dev_fetched'
    <3>1. Cardinality(executing) \in Nat
        BY <2>1, FS_CardinalityType
    <3> QED BY <1>1, <1>2, <1>3, <2>1, <2>2, <3>1
  <2>4. ASSUME NEW g \in executing'
        PROVE  g.ticket < dev_fetched' /\ g.ticket \notin completed' /\ Issued(g)'
    <3>1. g \in executing /\ g # c
        BY <1>1, <2>4
    <3>2. g.ticket < dev_fetched /\ g.ticket \notin completed /\ Issued(g) /\ g.ticket # c.ticket
        BY <3>1 DEF At, PollInv, Device
    <3>3. Issued(g)'
        BY <1>18, <3>2, IssuedSame
    <3> QED BY <1>1, <3>2, <3>3
  <2>5. \A g, h \in executing' : g.ticket = h.ticket => g = h
      BY <1>1 DEF At, PollInv, Device
  <2>6. \A k \in completed' : k < dev_fetched'
      BY <1>1 DEF At, PollInv, Device
  <2> QED BY <2>2, <2>3, <2>4, <2>5, <2>6 DEF Device
<1>21. c.ticket \notin completed /\ Issued(c)
    BY DEF At, PollInv, Device
<1>22. Posts'
  <2>1. ASSUME NEW e \in Entries, e >= dev_posted' PROVE cq'[e].phase = 0 /\ cq'[e].ticket = -1
    <3>1. e \in Nat /\ e < CQS /\ e > d
        BY <1>1, <1>2, <2>1, SizesAre DEF Entries
    <3>2. d % CQS = d
        BY <3>1, FirstPhase, SizesAre
    <3>3. cq'[e] = cq[e]
        BY <1>9, <3>1, <3>2
    <3>4. e >= dev_posted
        BY <1>2, <3>1
    <3> QED BY <3>3, <3>4 DEF At, PollInv, Posts
  <2>2. ASSUME NEW p \in Nat, Posted(p)'
        PROVE  cq'[p % CQS].phase = search_phase(p) /\ cq'[p % CQS].ticket \in completed'
    <3>1. CASE p = d
        BY <1>1, <1>8, <3>1
    <3>2. CASE p # d
        BY <1>1, <1>14, <2>2, <3>2 DEF At, PollInv, Posts
    <3> QED BY <3>1, <3>2
  <2>3. ASSUME NEW p \in Nat, Posted(p)', p # d
        PROVE  cq'[p % CQS].ticket # c.ticket
      BY <1>14, <1>21, <2>3 DEF At, PollInv, Posts
  <2>4. ASSUME NEW p \in Nat, NEW q \in Nat, Posted(p)', Posted(q)', cq'[p % CQS].ticket = cq'[q % CQS].ticket
        PROVE  p = q
    <3>1. CASE p = d /\ q # d
        BY <1>8, <2>3, <2>4, <3>1
    <3>2. CASE q = d /\ p # d
        BY <1>8, <2>3, <2>4, <3>2
    <3>3. CASE p # d /\ q # d
        BY <1>14, <2>4, <3>3 DEF At, PollInv, Posts
    <3> QED BY <3>1, <3>2, <3>3
  <2> QED BY <1>1, <2>1, <2>2, <2>4 DEF Posts, Posted
<1>23. Heads(ac)'
  <2>1. ASSUME NEW p \in Nat, ac <= p, p < d
        PROVE  FetchedAt(p)' = FetchedAt(p)
    <3>1. cr <= p
        BY <1>11, <2>1
    <3> QED BY <1>1, <1>13, <2>1, <3>1 DEF FetchedAt
  <2>2. FetchedAt(d)' = dev_fetched
    <3>1. sq_head <= dev_fetched /\ dev_fetched < sq_head + QS
        BY <1>3, <1>10, SizesAre DEF At, Order
    <3>2. ((dev_fetched % QS) - sq_head) % QS = dev_fetched - sq_head
      <4>1. QS \in Nat \ {0} /\ sq_head \in Nat /\ dev_fetched \in Nat
          BY <1>3, <1>10, SizesAre
      <4> QED BY <3>1, <4>1, WindowIs, Zenon
    <3>3. FetchedAt(d)' = sq_head + (((dev_fetched % QS) - sq_head) % QS)
        BY <1>1, <1>8 DEF FetchedAt
    <3> QED BY <1>3, <1>10, <3>2, <3>3
  <2>3. ASSUME NEW p \in Nat, ac <= p, p < dev_posted'
        PROVE  FetchedAt(p)' <= dev_fetched'
    <3>1. p < d \/ p = d
        BY <1>1, <1>2, <2>3
    <3>2. CASE p < d
        BY <1>1, <1>2, <2>1, <2>3, <3>2 DEF At, PollInv, Heads
    <3>3. CASE p = d
        BY <1>1, <1>3, <2>2, <3>3
    <3> QED BY <3>1, <3>2, <3>3
  <2>4. ASSUME NEW p \in Nat, NEW q \in Nat, ac <= p, p <= q, q < dev_posted'
        PROVE  FetchedAt(p)' <= FetchedAt(q)'
    <3>1. q < d \/ q = d
        BY <1>1, <1>2, <2>4
    <3>2. CASE q < d
        BY <1>2, <2>1, <2>4, <3>2 DEF At, PollInv, Heads
    <3>3. CASE q = d
      <4>1. FetchedAt(p)' <= dev_fetched'
          BY <1>1, <1>2, <2>3, <2>4, <3>3
      <4> QED BY <1>1, <2>2, <3>3, <4>1
    <3> QED BY <3>1, <3>2, <3>3
  <2> QED BY <2>3, <2>4 DEF Heads
<1>24. Stale'
  <2> SUFFICES ASSUME NEW t \in Threads, NEW p \in Nat,
                      HasCid(t)', Posted(p)', cq'[p % CQS].cid = cid'[t], ~Mine(t, p)'
               PROVE  p < cq_head' /\ (pc'[t] = "scan" => p < base'[t])
      BY DEF Stale
  <2>1. CASE p = d
    <3>1. PICK u \in Threads : Holding(u) /\ ticket[u] = c.ticket /\ cid[u] = c.cid
        BY <1>21 DEF Issued
    <3>2. t = u
        BY <1>1, <1>8, <2>1, <3>1 DEF Locals, Owners, Holding
    <3>3. Mine(t, p)'
        BY <1>1, <1>8, <2>1, <3>1, <3>2 DEF Mine, Holding
    <3> QED BY <3>3
  <2>2. CASE p # d
    <3>1. Posted(p) /\ cq'[p % CQS] = cq[p % CQS]
        BY <1>14, <2>2
    <3>2. ~Mine(t, p)
        BY <1>1, <3>1 DEF Mine, Holding
    <3>3. cq[p % CQS].cid = cid[t] /\ HasCid(t)
        BY <1>1, <3>1
    <3>4. p < cq_head /\ (pc[t] = "scan" => p < base[t])
        BY <3>1, <3>2, <3>3 DEF At, PollInv, Stale
    <3> QED BY <1>1, <3>4
  <2> QED BY <2>1, <2>2
<1>25. Scans'
  <2> SUFFICES ASSUME NEW t \in Threads, pc'[t] = "scan"
               PROVE  /\ base'[t] <= dev_posted'
                      /\ count'[t] <= CQS - 2
                      /\ dev_posted' < CQS => base'[t] + count'[t] <= dev_posted'
      BY DEF Scans
  <2>1. base[t] \in Nat /\ count[t] \in Nat
      BY DEF TypeOK
  <2>2. /\ base[t] <= d
        /\ count[t] <= CQS - 2
        /\ d < CQS => base[t] + count[t] <= d
      BY <1>1, <1>2 DEF At, PollInv, Scans
  <2> QED BY <1>1, <1>2, <2>1, <2>2, SizesAre
<1>26. Unconsumed(ec)'
  <2> SUFFICES ASSUME NEW u \in Threads, Holding(u)', ~Consumed(u)', ticket'[u] \in completed'
               PROVE  \E p \in Nat : ec <= p /\ p < dev_posted' /\ cq'[p % CQS].ticket = ticket'[u]
      BY DEF Unconsumed
  <2>1. Holding(u) /\ ~Consumed(u)
      BY <1>18 DEF KeepsStages
  <2>2. CASE ticket[u] = c.ticket
      BY <1>1, <1>2, <1>8, <1>11, <2>2
  <2>3. CASE ticket[u] \in completed
    <3>1. PICK p \in Nat : ec <= p /\ p < d /\ cq[p % CQS].ticket = ticket[u]
        BY <1>2, <2>1, <2>3 DEF At, PollInv, Unconsumed
    <3>2. cr <= p
        BY <1>11, <3>1
    <3>3. cq'[p % CQS] = cq[p % CQS]
        BY <1>13, <3>1, <3>2
    <3> QED BY <1>1, <1>2, <3>1, <3>3
  <2> QED BY <1>1, <2>2, <2>3
<1>27. HeadMarks(ec)'
  <2>1. \A u \in Threads : Consumed(u)' => ticket'[u] \in completed'
      BY <1>1, <1>18 DEF At, PollInv, HeadMarks, KeepsStages
  <2>2. ASSUME NEW u \in Threads, pc'[u] = "dequeue"
        PROVE  ticket'[u] \in completed' /\ cq'[loc'[u]].ticket = ticket'[u]
    <3>1. pc[u] = "dequeue" /\ ticket[u] \in Nat /\ loc[u] \in Entries
        BY <1>1, <2>2 DEF TypeOK
    <3>2. ticket[u] \in completed /\ cq[loc[u]].ticket = ticket[u]
        BY <3>1 DEF At, PollInv, HeadMarks
    <3>3. PICK p \in Nat : ec <= p /\ p < d /\ cq[p % CQS].ticket = ticket[u]
        BY <1>2, <3>1, <3>2 DEF At, PollInv, Unconsumed, Holding, Consumed
    <3>4. PICK q \in Nat : Posted(q) /\ q % CQS = loc[u]
        BY <1>2, <3>1, <3>2, EntryPosted DEF At, PollInv
    <3>5. Posted(p)
        BY <1>2, <1>11, <3>3, SizesAre DEF Posted
    <3>6. p = q
        BY <3>2, <3>3, <3>4, <3>5 DEF At, PollInv, Posts
    <3>7. cr <= p
        BY <1>11, <3>3
    <3>8. cq'[loc[u]] = cq[loc[u]]
        BY <1>13, <3>3, <3>4, <3>6, <3>7
    <3> QED BY <1>1, <3>2, <3>8
  <2>3. ASSUME NEW e \in head_mark'
        PROVE  /\ \E p \in Nat : ec <= p /\ p < dev_posted' /\ p % CQS = e
               /\ \E u \in Threads : Consumed(u)' /\ loc'[u] = e /\ cq'[e].ticket = ticket'[u]
    <3>1. PICK p \in Nat : ec <= p /\ p < d /\ p % CQS = e
        BY <1>1, <1>2, <2>3 DEF At, PollInv, HeadMarks
    <3>2. cr <= p
        BY <1>11, <3>1
    <3>3. cq'[e] = cq[e]
        BY <1>13, <3>1, <3>2
    <3>4. PICK u \in Threads : Consumed(u) /\ loc[u] = e /\ cq[e].ticket = ticket[u]
        BY <1>1, <2>3 DEF At, PollInv, HeadMarks
    <3>5. Consumed(u)'
        BY <1>18, <3>4 DEF KeepsStages
    <3> QED BY <1>1, <1>2, <3>1, <3>3, <3>4, <3>5
  <2> QED BY <2>1, <2>2, <2>3 DEF HeadMarks
<1> QED BY <1>7, <1>15, <1>16, <1>17, <1>19, <1>20, <1>22, <1>23, <1>24, <1>25, <1>26, <1>27 DEF At, PollInv

-----------------------------------------------------------------------------
(* Steps to another stage *)

\* In get_cid.
Outside == {"idle", "lock_cid", "next_cid", "take_ticket"}

\* A step of get_cid that does not disturb who owns what.
LEMMA OutsideFrame ==
    ASSUME TypeOK, Locals, NEW et \in Nat, NEW ec \in Nat, NEW ac \in Nat, NEW cr \in Nat,
           NEW rh \in Nat, At(et, ec, ac, cr, rh), NEW t \in Threads, FreshIds',
           pc[t] \in Outside, pc'[t] \in Outside,
           \A u \in Threads : u # t => pc'[u] = pc[u] /\ cid'[u] = cid[u],
           UNCHANGED <<ticket, base, count, loc, in_ticket, tickets,
                       tail_mark, tail_lock, sq_tail, sq_head, cplVars, memVars, devVars>>,
           Owners'
    PROVE  Locals' /\ At(et, ec, ac, cr, rh)'
<1>2. UNCHANGED <<head_mark, head_lock, pos_locks, cq_head, sq, sq_db, cq, cq_db,
                  dev_fetched, dev_posted, executing, completed>>
    BY DEF cplVars, memVars, devVars
<1>6. KeepsStages /\ KeepsHolders
    BY DEF KeepsStages, KeepsHolders, Holding, Submitting, Consumed, Outside
<1>8. Counters' /\ TailLocked' /\ HeadLocked' /\ IsTail(et)'
  <2>1. \A u \in Threads : /\ AtTail(u)' <=> AtTail(u)
                           /\ AtHead(u)' <=> AtHead(u)
                           /\ pc'[u] = "scan" <=> pc[u] = "scan"
      BY DEF AtTail, AtHead, Outside
  <2> QED BY <1>2, <2>1 DEF Locals, Counters, TailLocked, HeadLocked, At, IsTail
<1>9. IsHead(ec, ac, cr, rh)'
  <2>1. \A u \in Threads : AtHead(u)' => pc'[u] = pc[u] /\ base'[u] = base[u] /\ count'[u] = count[u]
      BY DEF AtHead, Outside
  <2> QED BY <1>2, <2>1, HeadFrame DEF At
<1>10. Order(et, ec, ac, cr, rh)'
    BY <1>2, OrderFrame DEF At
<1>11. SubmitInv(et, rh)'
    BY <1>2, <1>6, SubmitFrame DEF At
<1>12. Device' /\ Posts' /\ Heads(ac)' /\ Unconsumed(ec)'
  <2>1. UNCHANGED devVars
      OBVIOUS
  <2> QED BY <1>2, <1>6, <2>1, DeviceFrame, PostsFrame, HeadsFrame, UnconsumedFrame DEF At, PollInv
<1>13. Scans'
    BY <1>2 DEF At, PollInv, Scans, Outside
<1>14. Stale'
  <2> SUFFICES ASSUME NEW u \in Threads, NEW p \in Nat,
                      HasCid(u)', Posted(p)', cq'[p % CQS].cid = cid'[u], ~Mine(u, p)'
               PROVE  p < cq_head' /\ (pc'[u] = "scan" => p < base'[u])
      BY DEF Stale
  <2>1. CASE u # t
    <3>1. pc'[u] = pc[u] /\ cid'[u] = cid[u] /\ Posted(p) /\ cq[p % CQS].cid = cid[u] /\ ~Mine(u, p)
        BY <1>2, <2>1 DEF Posted, Mine, Holding
    <3>2. p < cq_head /\ (pc[u] = "scan" => p < base[u])
        BY <3>1 DEF At, PollInv, Stale
    <3> QED BY <1>2, <3>1, <3>2
  <2>2. CASE u = t
    <3>1. pc'[t] = "take_ticket"
        BY <2>2 DEF Outside
    <3>2. p < dev_posted' /\ dev_posted' \in Nat /\ cq_head' \in Nat
        BY <1>2 DEF Posted, TypeOK
    <3>3. ~(cq_head' <= p /\ p < dev_posted')
        BY <2>2, <3>1 DEF FreshIds
    <3> QED BY <2>2, <3>1, <3>2, <3>3
  <2> QED BY <2>1, <2>2
<1>15. HeadMarks(ec)'
  <2>1. \A u \in Threads : pc'[u] = "dequeue" =>
            ticket'[u] \in completed /\ cq[loc'[u]].ticket = ticket'[u]
      BY DEF At, PollInv, HeadMarks, Outside
  <2>2. \A u \in Threads : Consumed(u) => loc'[u] = loc[u]
      OBVIOUS
  <2> QED BY <1>2, <1>6, <2>1, <2>2, HeadMarksFrame DEF At, PollInv
<1> QED BY <1>8, <1>9, <1>10, <1>11, <1>12, <1>13, <1>14, <1>15 DEF At, Locals, PollInv

LEMMA TakeCidKeeps ==
    ASSUME TypeOK, Locals, NEW et \in Nat, NEW ec \in Nat, NEW ac \in Nat, NEW cr \in Nat,
           NEW rh \in Nat, At(et, ec, ac, cr, rh), NEW t \in Threads, TakeCid(t), FreshIds',
           pc[t] \in {"idle", "next_cid"}
    PROVE  TypeOK' /\ Locals' /\ At(et, ec, ac, cr, rh)'
<1>1. /\ cid' = [cid EXCEPT ![t] = cid_ticket]
      /\ cid_ticket' = (cid_ticket + 1) % NumCids
      /\ pc' = [pc EXCEPT ![t] = "lock_cid"]
      /\ UNCHANGED <<ticket, base, count, loc, cid_locked, in_ticket, tickets,
                     tail_mark, tail_lock, sq_tail, sq_head, cplVars, memVars, devVars>>
    BY DEF TakeCid, NextCid, goto
<1>2. UNCHANGED <<head_mark, head_lock, pos_locks, cq_head, sq, sq_db, cq, cq_db,
                  dev_fetched, dev_posted, executing, completed>>
    BY <1>1 DEF cplVars, memVars, devVars
<1>3. cid_ticket \in 0 .. NumCids - 1 /\ (cid_ticket + 1) % NumCids \in 0 .. NumCids - 1
  <2>1. cid_ticket \in 0 .. NumCids - 1
      BY DEF TypeOK
  <2>2. cid_ticket + 1 \in Int
      BY <2>1
  <2> QED BY <2>1, <2>2, SizesAre, ModRange
<1>4. /\ pc'[t] = "lock_cid"
      /\ \A u \in Threads : u # t => pc'[u] = pc[u] /\ cid'[u] = cid[u]
    BY <1>1 DEF TypeOK
<1>5. TypeOK'
  <2>1. cid' \in [Threads -> 0 .. NumCids - 1]
      BY <1>1, <1>3 DEF TypeOK
  <2> QED BY <1>1, <1>2, <1>3, <2>1 DEF TypeOK
<1>6. Owners'
    BY <1>1, <1>4 DEF Locals, Owners, Holding
<1> QED BY <1>1, <1>4, <1>5, <1>6, OutsideFrame DEF Outside

LEMMA LockCidKeeps ==
    ASSUME TypeOK, Locals, NEW et \in Nat, NEW ec \in Nat, NEW ac \in Nat, NEW cr \in Nat,
           NEW rh \in Nat, At(et, ec, ac, cr, rh), NEW t \in Threads, LockCid(t), FreshIds'
    PROVE  TypeOK' /\ Locals' /\ At(et, ec, ac, cr, rh)'
<1>1. /\ pc[t] = "lock_cid"
      /\ cid_locked' = cid_locked \cup {cid[t]}
      /\ \/ cid[t] \in cid_locked /\ pc' = [pc EXCEPT ![t] = "next_cid"]
         \/ cid[t] \notin cid_locked /\ pc' = [pc EXCEPT ![t] = "take_ticket"]
      /\ UNCHANGED <<cid, ticket, base, count, loc, cid_ticket, in_ticket, tickets,
                     tail_mark, tail_lock, sq_tail, sq_head, cplVars, memVars, devVars>>
    BY DEF LockCid, goto
<1>2. UNCHANGED <<head_mark, head_lock, pos_locks, cq_head, sq, sq_db, cq, cq_db,
                  dev_fetched, dev_posted, executing, completed>>
    BY <1>1 DEF cplVars, memVars, devVars
<1>3. cid[t] \in 0 .. NumCids - 1
    BY DEF TypeOK
<1>4. /\ pc'[t] \in {"next_cid", "take_ticket"}
      /\ \A u \in Threads : u # t => pc'[u] = pc[u] /\ cid'[u] = cid[u]
    BY <1>1 DEF TypeOK
<1>5. TypeOK'
  <2>1. pc' = [pc EXCEPT ![t] = "next_cid"] \/ pc' = [pc EXCEPT ![t] = "take_ticket"]
      BY <1>1
  <2>2. cid_locked' \subseteq 0 .. NumCids - 1
      BY <1>1, <1>3 DEF TypeOK
  <2> QED BY <1>1, <1>2, <2>1, <2>2 DEF TypeOK
<1>6. Owners'
  <2>1. \A u \in Threads : Holding(u)' => Holding(u) /\ u # t
      BY <1>4 DEF Holding
  <2>2. \A u \in Threads : u # t /\ HasCid(u)' => HasCid(u) /\ cid[u] \in cid_locked
      BY <1>4 DEF Locals, Owners
  <2>3. HasCid(t)' => cid[t] \notin cid_locked
      BY <1>1, <1>4 DEF TypeOK
  <2>4. \A u, v \in Threads : HasCid(u)' /\ HasCid(v)' /\ cid'[u] = cid'[v] => u = v
    <3> SUFFICES ASSUME NEW u \in Threads, NEW v \in Threads,
                        HasCid(u)', HasCid(v)', cid[u] = cid[v]
                 PROVE  u = v
        BY <1>1
    <3>1. CASE u = t \/ v = t
        BY <2>2, <2>3, <3>1
    <3>2. CASE u # t /\ v # t
        BY <2>2, <3>2 DEF Locals, Owners
    <3> QED BY <3>1, <3>2
  <2>5. \A u \in Threads : HasCid(u)' => cid'[u] \in cid_locked'
      BY <1>1, <2>2
  <2> QED BY <1>1, <2>1, <2>4, <2>5 DEF Locals, Owners
<1> QED BY <1>1, <1>4, <1>5, <1>6, OutsideFrame DEF Outside

\* The tail never passes the tickets handed out, so nothing beyond them is
\* completed.
LEMMA IssuedBefore ==
    ASSUME TypeOK, NEW et \in Nat, NEW ec \in Nat, NEW ac \in Nat, NEW cr \in Nat,
           NEW rh \in Nat, At(et, ec, ac, cr, rh)
    PROVE  et <= in_ticket /\ \A k \in completed : k < in_ticket
<1>1. in_ticket \in Nat /\ dev_fetched \in Nat /\ completed \subseteq Nat
    BY DEF TypeOK
<1>2. et <= in_ticket
  <2> SUFFICES ASSUME in_ticket < et PROVE FALSE
      BY <1>1
  <2>1. Filled(in_ticket)
      BY <1>1 DEF At, SubmitInv, TailMarks
  <2> QED BY <1>1, <2>1 DEF Filled
<1>3. dev_fetched <= et
    BY <1>1 DEF At, Order, TypeOK
<1>4. \A k \in completed : k < dev_fetched
    BY DEF At, PollInv, Device
<1> QED BY <1>1, <1>2, <1>3, <1>4

LEMMA TakeTicketKeeps ==
    ASSUME TypeOK, Locals, NEW et \in Nat, NEW ec \in Nat, NEW ac \in Nat, NEW cr \in Nat,
           NEW rh \in Nat, At(et, ec, ac, cr, rh), NEW t \in Threads, TakeTicket(t)
    PROVE  TypeOK' /\ Locals' /\ At(et, ec, ac, cr, rh)'
<1>1. /\ pc[t] = "take_ticket" /\ pc'[t] = "fill"
      /\ ticket'[t] = in_ticket /\ in_ticket' = in_ticket + 1
      /\ UNCHANGED <<cid, base, count, loc, cid_ticket, cid_locked, tickets,
                     tail_mark, tail_lock, sq_tail, sq_head, cplVars, memVars, devVars>>
      /\ OthersStay(t)
    BY DEF TakeTicket, goto, TypeOK, OthersStay
<1>2. UNCHANGED <<head_mark, head_lock, pos_locks, cq_head, sq, sq_db, cq, cq_db,
                  dev_fetched, dev_posted, executing, completed>>
    BY <1>1 DEF cplVars, memVars, devVars
<1>3. PICK n \in Nat : n = in_ticket
    BY DEF TypeOK
<1>4. TypeOK'
  <2>1. pc' = [pc EXCEPT ![t] = "fill"] /\ ticket' = [ticket EXCEPT ![t] = n]
      BY <1>3 DEF TakeTicket, goto
  <2>2. ticket' \in [Threads -> Nat]
      BY <2>1 DEF TypeOK
  <2> QED BY <1>1, <1>2, <1>3, <2>1, <2>2 DEF TypeOK
<1>5. \A u \in Threads : Holding(u)' <=> Holding(u) \/ u = t
    BY <1>1 DEF OthersStay, Holding
<1>6. \A u \in Threads : Holding(u) => u # t /\ ticket'[u] = ticket[u] /\ pc'[u] = pc[u] /\ ticket[u] < n
    BY <1>1, <1>3 DEF OthersStay, Holding, Locals, Owners
<1>7. \A u \in Threads : ticket[u] \in Nat
    BY DEF TypeOK
<1>8. ASSUME NEW k \in Nat
      PROVE  (Filled(k)' <=> Filled(k)) /\ (Left(k)' <=> Left(k))
  <2>1. CASE k < n
    <3>1. k < in_ticket' /\ k < in_ticket
        BY <1>1, <1>3, <2>1
    <3>2. \A u \in Threads : Holding(u)' /\ ticket'[u] = k <=> Holding(u) /\ ticket[u] = k
        BY <1>1, <1>3, <1>5, <1>6, <2>1
    <3>3. \A u \in Threads : Holding(u) => (pc'[u] = pc[u] /\ (Submitting(u)' <=> Submitting(u)))
        BY <1>6 DEF Submitting
    <3> QED BY <3>1, <3>2, <3>3 DEF Filled, Left
  <2>2. CASE k = n
    <3>1. ~Filled(k) /\ ~Left(k)
        BY <1>3, <2>2 DEF Filled, Left
    <3>2. Holding(t)' /\ ticket'[t] = k /\ pc'[t] = "fill" /\ Submitting(t)'
        BY <1>1, <1>3, <2>2 DEF Holding, Submitting
    <3>3. ~Filled(k)' /\ ~Left(k)'
        BY <3>2 DEF Filled, Left
    <3> QED BY <3>1, <3>3
  <2>3. CASE k > n
    <3>1. ~(k < in_ticket) /\ ~(k < in_ticket')
        BY <1>1, <1>3, <2>3
    <3> QED BY <3>1 DEF Filled, Left
  <2> QED BY <2>1, <2>2, <2>3
<1>9. ASSUME NEW c, Issued(c) PROVE Issued(c)'
    BY <1>1, <1>5, <1>6, <1>9 DEF Issued
<1>10. Owners'
  <2>1. \A u \in Threads : Holding(u)' => ticket'[u] < in_ticket'
    <3> SUFFICES ASSUME NEW u \in Threads, Holding(u)' PROVE ticket'[u] < in_ticket'
        OBVIOUS
    <3> QED BY <1>1, <1>3, <1>5, <1>6, <1>7
  <2>2. \A u, v \in Threads : Holding(u)' /\ Holding(v)' /\ ticket'[u] = ticket'[v] => u = v
    <3> SUFFICES ASSUME NEW u \in Threads, NEW v \in Threads, Holding(u)', Holding(v)', ticket'[u] = ticket'[v]
                 PROVE  u = v
        OBVIOUS
    <3>1. CASE u # t /\ v # t
        BY <1>5, <1>6, <3>1 DEF Locals, Owners
    <3>2. CASE u = t /\ v # t
        BY <1>1, <1>3, <1>5, <1>6, <1>7, <3>2
    <3>3. CASE v = t /\ u # t
        BY <1>1, <1>3, <1>5, <1>6, <1>7, <3>3
    <3> QED BY <3>1, <3>2, <3>3
  <2>3. \A u \in Threads : HasCid(u)' => HasCid(u)
      BY <1>1 DEF OthersStay
  <2> QED BY <1>1, <2>1, <2>2, <2>3 DEF Locals, Owners
<1>11. Counters' /\ TailLocked' /\ HeadLocked' /\ IsTail(et)'
  <2>1. \A u \in Threads : /\ AtTail(u)' <=> AtTail(u)
                           /\ AtHead(u)' <=> AtHead(u)
                           /\ pc'[u] = "scan" <=> pc[u] = "scan"
      BY <1>1 DEF AtTail, AtHead, OthersStay
  <2> QED BY <1>1, <1>2, <2>1 DEF Locals, Counters, TailLocked, HeadLocked, At, IsTail
<1>12. IsHead(ec, ac, cr, rh)'
  <2>1. \A u \in Threads : AtHead(u)' => pc'[u] = pc[u] /\ base'[u] = base[u] /\ count'[u] = count[u]
      BY <1>1 DEF AtHead, OthersStay
  <2> QED BY <1>1, <1>2, <2>1, HeadFrame DEF At
<1>13. Order(et, ec, ac, cr, rh)'
    BY <1>1, <1>2, OrderFrame DEF At
<1>14. SubmitInv(et, rh)'
  <2>1. Turns(rh)'
    <3> SUFFICES ASSUME NEW k \in Nat PROVE Turn(k, rh)'
        BY DEF Turns
    <3>1. Turn(k, rh)
        BY DEF At, SubmitInv, Turns
    <3> QED BY <1>1, <1>8, <3>1 DEF Turn
  <2>2. TailMarks(et)'
      BY <1>1, <1>8 DEF At, SubmitInv, TailMarks
  <2>3. Written(rh)'
    <3> SUFFICES ASSUME NEW k \in Nat, Filled(k)', k >= rh
                 PROVE  /\ sq'[k % QS] \in Command
                        /\ sq'[k % QS].ticket = k
                        /\ k >= dev_fetched' => Issued(sq[k % QS])'
        BY DEF Written, Command
    <3>1. Filled(k)
        BY <1>8
    <3>2. PICK c : c = sq[k % QS]
        OBVIOUS
    <3>3. /\ c \in Command
          /\ c.ticket = k
          /\ k >= dev_fetched => Issued(c)
        BY <3>1, <3>2 DEF At, SubmitInv, Written
    <3>4. sq'[k % QS] = c
        BY <1>2, <3>2
    <3>5. Issued(c)' => Issued(sq[k % QS])'
        BY <3>4 DEF Issued, Holding
    <3> QED BY <1>2, <1>9, <3>3, <3>4, <3>5
  <2> QED BY <2>1, <2>2, <2>3 DEF SubmitInv
<1>15. Device'
  <2>1. \A c \in executing : Issued(c)'
      BY <1>9 DEF At, PollInv, Device
  <2> QED BY <1>2, <2>1 DEF At, PollInv, Device
<1>16. Posts' /\ Heads(ac)'
    BY <1>1, <1>2, PostsFrame, HeadsFrame DEF At, PollInv
<1>17. Scans'
    BY <1>1, <1>2 DEF At, PollInv, Scans, OthersStay
<1>18. Stale'
  <2> SUFFICES ASSUME NEW u \in Threads, NEW p \in Nat,
                      HasCid(u)', Posted(p)', cq'[p % CQS].cid = cid'[u], ~Mine(u, p)'
               PROVE  p < cq_head' /\ (pc'[u] = "scan" => p < base'[u])
      BY DEF Stale
  <2>1. Posted(p) /\ cq[p % CQS].cid = cid[u] /\ HasCid(u)
      BY <1>1, <1>2 DEF Posted, OthersStay
  <2>2. ~Mine(u, p)
    <3>1. CASE u = t
        BY <1>1, <3>1 DEF Mine, Holding
    <3>2. CASE u # t
        BY <1>1, <1>2, <3>2 DEF Mine, Holding, OthersStay
    <3> QED BY <3>1, <3>2
  <2>3. p < cq_head /\ (pc[u] = "scan" => p < base[u])
      BY <2>1, <2>2 DEF At, PollInv, Stale
  <2> QED BY <1>1, <1>2, <2>3 DEF OthersStay
<1>19. Unconsumed(ec)'
  <2> SUFFICES ASSUME NEW u \in Threads, Holding(u)', ~Consumed(u)', ticket'[u] \in completed'
               PROVE  \E p \in Nat : ec <= p /\ p < dev_posted' /\ cq'[p % CQS].ticket = ticket'[u]
      BY DEF Unconsumed
  <2>1. \A k \in completed : k < n
      BY <1>3, IssuedBefore
  <2>2. u # t
      BY <1>1, <1>2, <1>3, <2>1
  <2>3. Holding(u) /\ ticket'[u] = ticket[u] /\ pc'[u] = pc[u]
      BY <1>5, <1>6, <2>2
  <2>4. ~Consumed(u)
      BY <2>3 DEF Consumed
  <2> QED BY <1>2, <2>3, <2>4 DEF At, PollInv, Unconsumed
<1>20. HeadMarks(ec)'
  <2>1. \A u \in Threads : Consumed(u)' <=> Consumed(u)
      BY <1>1 DEF Consumed, OthersStay
  <2>2. \A u \in Threads : Consumed(u) => ticket'[u] = ticket[u]
      BY <1>6 DEF Consumed, Holding
  <2>3. \A u \in Threads : pc'[u] = "dequeue" => pc[u] = "dequeue" /\ ticket'[u] = ticket[u]
      BY <1>1 DEF OthersStay
  <2>4. \A u \in Threads : pc'[u] = "dequeue" =>
            ticket'[u] \in completed' /\ cq'[loc'[u]].ticket = ticket'[u]
      BY <1>1, <1>2, <2>3 DEF At, PollInv, HeadMarks
  <2>5. ASSUME NEW e \in head_mark'
        PROVE  \E u \in Threads : Consumed(u)' /\ loc'[u] = e /\ cq'[e].ticket = ticket'[u]
    <3>1. PICK u \in Threads : Consumed(u) /\ loc[u] = e /\ cq[e].ticket = ticket[u]
        BY <1>2, <2>5 DEF At, PollInv, HeadMarks
    <3> QED BY <1>1, <1>2, <2>1, <2>2, <3>1
  <2>6. \A u \in Threads : Consumed(u)' => ticket'[u] \in completed'
      BY <1>2, <2>1, <2>2 DEF At, PollInv, HeadMarks
  <2>7. \A e \in head_mark' : \E p \in Nat : ec <= p /\ p < dev_posted' /\ p % CQS = e
      BY <1>2 DEF At, PollInv, HeadMarks
  <2> QED BY <2>4, <2>5, <2>6, <2>7 DEF HeadMarks
<1> QED BY <1>4, <1>10, <1>11, <1>12, <1>13, <1>14, <1>15, <1>16, <1>17, <1>18, <1>19, <1>20
        DEF At, Locals, PollInv

LEMMA FillKeeps ==
    ASSUME TypeOK, Locals, NEW et \in Nat, NEW ec \in Nat, NEW ac \in Nat, NEW cr \in Nat,
           NEW rh \in Nat, At(et, ec, ac, cr, rh), NEW t \in Threads, Fill(t)
    PROVE  TypeOK' /\ Locals' /\ At(et, ec, ac, cr, rh)'
<1>1. /\ pc[t] = "fill" /\ pc'[t] = "tail_marked"
      /\ UNCHANGED <<cid, ticket, base, count, loc, cid_ticket, cid_locked,
                     in_ticket, tickets, tail_lock, sq_tail, sq_head, cplVars,
                     sq_db, cq, cq_db, devVars>>
      /\ OthersStay(t)
    BY DEF Fill, goto, TypeOK, OthersStay
<1>2. UNCHANGED <<head_mark, head_lock, pos_locks, cq_head, dev_fetched, dev_posted,
                  executing, completed>>
    BY <1>1 DEF cplVars, devVars
<1>3. PICK n \in Nat : n = ticket[t]
    BY DEF TypeOK
<1>4. PICK s \in Slots : s = n % QS
    BY IndexType
<1>5. PICK w : w = [cid |-> cid[t], ticket |-> n]
    OBVIOUS
<1>6. /\ tickets[s] = get_id(n) /\ tail_mark' = tail_mark \cup {s}
      /\ sq' = [sq EXCEPT ![s] = w]
    BY <1>3, <1>4, <1>5 DEF Fill, pos
<1>7. w \in Command /\ w.ticket = n /\ w.cid = cid[t]
    BY <1>5 DEF Command, TypeOK
<1>8. TypeOK'
  <2>1. sq' \in [Slots -> [cid : 0 .. NumCids - 1, ticket : Nat] \cup {NoCmd}]
      BY <1>6, <1>7 DEF TypeOK, Command
  <2>2. tail_mark' \subseteq Slots
      BY <1>6 DEF TypeOK
  <2>3. pc' = [pc EXCEPT ![t] = "tail_marked"]
      BY DEF Fill, goto
  <2> QED BY <1>1, <1>2, <2>1, <2>2, <2>3 DEF TypeOK
<1>9. KeepsHolders
    BY <1>1 DEF KeepsHolders, Holding, Consumed, OthersStay
<1>10. \A u \in Threads : Submitting(u)' <=> Submitting(u)
    BY <1>1 DEF Submitting, OthersStay
<1>11. Owners'
    BY <1>1, <1>2, <1>9, OwnersFrame DEF Locals, OthersStay
<1>12. PollInv(ec, ac)' /\ IsHead(ec, ac, cr, rh)' /\ HeadLocked'
    BY <1>1, <1>2, <1>9, PollSideFrame DEF At, Locals, OthersStay, AtHead, TypeOK
<1>13. Counters' /\ TailLocked' /\ IsTail(et)'
  <2>1. \A u \in Threads : /\ AtTail(u)' <=> AtTail(u)
                           /\ AtHead(u)' <=> AtHead(u)
                           /\ pc'[u] = "scan" <=> pc[u] = "scan"
      BY <1>1 DEF AtTail, AtHead, OthersStay
  <2> QED BY <1>1, <2>1 DEF Locals, Counters, TailLocked, At, IsTail
<1>14. Order(et, ec, ac, cr, rh)'
    BY <1>1, <1>2, OrderFrame DEF At
<1>15. Holding(t) /\ n < in_ticket /\ Submitting(t)
    BY <1>1, <1>3 DEF Holding, Submitting, Locals, Owners
<1>16. ~Filled(n) /\ ~Left(n)
    BY <1>1, <1>3, <1>15 DEF Filled, Left
<1>17. ASSUME NEW k \in Nat
       PROVE  (Filled(k)' <=> Filled(k) \/ k = n) /\ (Left(k)' <=> Left(k))
  <2>1. Left(k)' <=> Left(k)
      BY <1>1, <1>9, <1>10 DEF Left, KeepsHolders
  <2>2. CASE k = n
    <3>1. \A u \in Threads : Holding(u)' /\ ticket'[u] = k => u = t
        BY <1>1, <1>3, <1>9, <1>15, <2>2 DEF KeepsHolders, Locals, Owners
    <3>2. Filled(k)'
        BY <1>1, <1>15, <2>2, <3>1 DEF Filled
    <3> QED BY <2>1, <2>2, <3>2
  <2>3. CASE k # n
    <3>1. \A u \in Threads : Holding(u) /\ ticket[u] = k => u # t
        BY <1>3, <2>3
    <3>2. \A u \in Threads : Holding(u)' /\ ticket'[u] = k <=> Holding(u) /\ ticket[u] = k
        BY <1>1, <1>9 DEF KeepsHolders
    <3>3. Filled(k)' <=> Filled(k)
        BY <1>1, <3>1, <3>2 DEF Filled, OthersStay
    <3> QED BY <2>1, <2>3, <3>3
  <2> QED BY <2>2, <2>3
<1>18. get_id(n) \in Nat
    BY IdNat
<1>19. n >= rh
  <2> SUFFICES ASSUME n < rh PROVE FALSE
      OBVIOUS
  <2>1. tickets[s] = get_id(n) + 1
      BY <1>4, <1>16 DEF At, SubmitInv, Turns, Turn
  <2> QED BY <1>6, <1>18, <2>1
<1>20. n >= et
  <2> SUFFICES ASSUME n < et PROVE FALSE
      OBVIOUS
  <2> QED BY <1>16 DEF At, SubmitInv, TailMarks
<1>21. n < rh + QS
  <2> SUFFICES ASSUME n >= rh + QS PROVE FALSE
      BY SizesAre
  <2>1. PICK j \in Nat : n = j + QS
    <3>1. n - QS \in Nat /\ n = (n - QS) + QS
        BY SizesAre
    <3> QED BY <3>1
  <2>2. j >= rh /\ j < n
      BY <2>1, SizesAre
  <2>3. j % QS = n % QS
      BY <2>1, SizesAre, NextLap
  <2>4. get_id(j) + 2 <= get_id(n) /\ get_id(j) \in Nat
      BY <2>2, <2>3, SameSlot, IdNat
  <2>5. tickets[j % QS] \in Nat
      BY IndexType DEF TypeOK
  <2>6. tickets[j % QS] <= get_id(j) + 1
      BY <2>2, <2>4, <2>5 DEF At, SubmitInv, Turns, Turn
  <2> QED BY <1>4, <1>6, <1>18, <2>3, <2>4, <2>5, <2>6
<1>22. Turns(rh)'
  <2> SUFFICES ASSUME NEW k \in Nat PROVE Turn(k, rh)'
      BY DEF Turns
  <2>1. Turn(k, rh)
      BY DEF At, SubmitInv, Turns
  <2>2. CASE k = n
      BY <1>1, <1>4, <1>6, <1>16, <1>17, <1>18, <1>19, <2>2 DEF Turn
  <2>3. CASE k # n
      BY <1>1, <1>17, <2>1, <2>3 DEF Turn
  <2> QED BY <2>2, <2>3
<1>23. TailMarks(et)'
  <2>1. \A k \in Nat : k < et => Filled(k)'
      BY <1>17 DEF At, SubmitInv, TailMarks
  <2>2. \A k \in Nat : Filled(k)' /\ k >= et => k % QS \in tail_mark'
      BY <1>4, <1>6, <1>17 DEF At, SubmitInv, TailMarks
  <2>3. ASSUME NEW x \in tail_mark' PROVE \E k \in Nat : k >= et /\ Filled(k)' /\ k % QS = x
    <3>1. CASE x = s
        BY <1>4, <1>17, <1>20, <3>1
    <3>2. CASE x \in tail_mark
      <4>1. PICK k \in Nat : k >= et /\ Filled(k) /\ k % QS = x
          BY <3>2 DEF At, SubmitInv, TailMarks
      <4> QED BY <1>17, <4>1
    <3> QED BY <1>6, <2>3, <3>1, <3>2
  <2> QED BY <2>1, <2>2, <2>3 DEF TailMarks
<1>24. Written(rh)'
  <2> SUFFICES ASSUME NEW k \in Nat, Filled(k)', k >= rh
               PROVE  /\ sq'[k % QS] \in Command
                      /\ sq'[k % QS].ticket = k
                      /\ k >= dev_fetched' => Issued(sq[k % QS])'
      BY DEF Written, Command
  <2>1. PICK x \in Slots : x = k % QS
      BY IndexType
  <2>2. CASE k = n
    <3>1. sq'[x] = w
        BY <1>4, <1>6, <2>1, <2>2 DEF TypeOK
    <3>2. Holding(t)' /\ ticket'[t] = n /\ cid'[t] = cid[t]
        BY <1>1, <1>3, <1>9, <1>15 DEF KeepsHolders
    <3>3. Issued(w)'
        BY <1>7, <3>2 DEF Issued
    <3>4. Issued(w)' => Issued(sq[k % QS])'
        BY <2>1, <3>1 DEF Issued, Holding
    <3> QED BY <1>7, <2>1, <2>2, <3>1, <3>3, <3>4
  <2>3. CASE k # n
    <3>1. Filled(k)
        BY <1>17, <2>3
    <3>2. k < rh + QS
        BY <3>1, FilledBound DEF At, SubmitInv, TypeOK
    <3>3. k < n + QS /\ n < k + QS
        BY <1>19, <1>21, <3>2, SizesAre
    <3>4. x # s
        BY <1>4, <2>1, <2>3, <3>3, SameSlotNear
    <3>5. PICK c : c = sq[x]
        OBVIOUS
    <3>6. sq'[x] = c
        BY <1>6, <3>4, <3>5 DEF TypeOK
    <3>7. c \in Command /\ c.ticket = k /\ (k >= dev_fetched => Issued(c))
        BY <2>1, <3>1, <3>5 DEF At, SubmitInv, Written
    <3>8. Issued(c) => Issued(c)'
        BY <1>9, IssuedSame
    <3>9. Issued(c)' => Issued(sq[k % QS])'
        BY <2>1, <3>6 DEF Issued, Holding
    <3> QED BY <1>2, <2>1, <3>6, <3>7, <3>8, <3>9
  <2> QED BY <2>2, <2>3
<1> QED BY <1>8, <1>11, <1>12, <1>13, <1>14, <1>22, <1>23, <1>24 DEF At, Locals, SubmitInv

LEMMA LeaveSlotKeeps ==
    ASSUME TypeOK, Locals, NEW et \in Nat, NEW ec \in Nat, NEW ac \in Nat, NEW cr \in Nat,
           NEW rh \in Nat, At(et, ec, ac, cr, rh), NEW t \in Threads, LeaveSlot(t)
    PROVE  TypeOK' /\ Locals' /\ At(et, ec, ac, cr, rh)'
<1>1. /\ pc[t] = "tail_marked" /\ pc'[t] = "poll"
      /\ UNCHANGED <<cid, ticket, base, count, loc, cid_ticket, cid_locked,
                     in_ticket, tail_mark, tail_lock, sq_tail, sq_head,
                     cplVars, memVars, devVars>>
      /\ OthersStay(t)
    BY DEF LeaveSlot, goto, TypeOK, OthersStay
<1>2. UNCHANGED <<head_mark, head_lock, pos_locks, cq_head, sq, sq_db, cq, cq_db,
                  dev_fetched, dev_posted, executing, completed>>
    BY <1>1 DEF cplVars, memVars, devVars
<1>3. PICK n \in Nat : n = ticket[t]
    BY DEF TypeOK
<1>4. PICK s \in Slots : s = n % QS
    BY IndexType
<1>5. PICK m \in Nat : m = tickets[s]
    BY DEF TypeOK
<1>6. tickets' = [tickets EXCEPT ![s] = m + 1]
    BY <1>3, <1>4, <1>5 DEF LeaveSlot, pos
<1>7. TypeOK'
  <2>1. tickets' \in [Slots -> Nat]
      BY <1>6 DEF TypeOK
  <2>2. pc' = [pc EXCEPT ![t] = "poll"]
      BY DEF LeaveSlot, goto
  <2> QED BY <1>1, <1>2, <2>1, <2>2 DEF TypeOK
<1>8. KeepsHolders
    BY <1>1 DEF KeepsHolders, Holding, Consumed, OthersStay
<1>9. Owners'
    BY <1>1, <1>2, <1>8, OwnersFrame DEF Locals, OthersStay
<1>10. PollInv(ec, ac)' /\ IsHead(ec, ac, cr, rh)' /\ HeadLocked'
    BY <1>1, <1>2, <1>8, PollSideFrame DEF At, Locals, OthersStay, AtHead, TypeOK
<1>11. Counters' /\ TailLocked' /\ IsTail(et)'
  <2>1. \A u \in Threads : /\ AtTail(u)' <=> AtTail(u)
                           /\ AtHead(u)' <=> AtHead(u)
                           /\ pc'[u] = "scan" <=> pc[u] = "scan"
      BY <1>1 DEF AtTail, AtHead, OthersStay
  <2> QED BY <1>1, <2>1 DEF Locals, Counters, TailLocked, At, IsTail
<1>12. Order(et, ec, ac, cr, rh)'
    BY <1>1, <1>2, OrderFrame DEF At
<1>13. Holding(t) /\ n < in_ticket /\ Submitting(t)
    BY <1>1, <1>3 DEF Holding, Submitting, Locals, Owners
<1>14. \A u \in Threads : Holding(u) /\ ticket[u] = n => u = t
    BY <1>3, <1>13 DEF Locals, Owners
<1>15. Filled(n) /\ ~Left(n)
  <2>1. Filled(n)
      BY <1>1, <1>13, <1>14 DEF Filled
  <2> QED BY <1>3, <1>13, <2>1 DEF Left
<1>16. \A u \in Threads : pc'[u] = "fill" <=> pc[u] = "fill"
    BY <1>1 DEF OthersStay
<1>17. ASSUME NEW k \in Nat
       PROVE  (Filled(k)' <=> Filled(k)) /\ (Left(k)' <=> Left(k) \/ k = n)
  <2>1. \A u \in Threads : Holding(u)' /\ ticket'[u] = k <=> Holding(u) /\ ticket[u] = k
      BY <1>1, <1>8 DEF KeepsHolders
  <2>2. Filled(k)' <=> Filled(k)
      BY <1>1, <1>16, <2>1 DEF Filled
  <2>3. CASE k = n
    <3>1. ~Submitting(t)'
        BY <1>1 DEF Submitting
    <3>2. Left(k)'
        BY <1>1, <1>13, <1>14, <2>1, <2>3, <3>1 DEF Left
    <3> QED BY <2>2, <2>3, <3>2
  <2>4. CASE k # n
    <3>1. \A u \in Threads : Holding(u) /\ ticket[u] = k => u # t
        BY <1>3, <2>4
    <3>2. \A u \in Threads : u # t => (Submitting(u)' <=> Submitting(u))
        BY <1>1 DEF Submitting, OthersStay
    <3>3. Left(k)' <=> Left(k)
        BY <1>1, <2>1, <3>1, <3>2 DEF Left
    <3> QED BY <2>2, <2>4, <3>3
  <2> QED BY <2>3, <2>4
<1>18. PICK i \in Nat : i = get_id(n)
    BY IdNat
<1>19. (n >= rh => m = i) /\ (n < rh => m = i + 1)
    BY <1>4, <1>5, <1>15, <1>18 DEF At, SubmitInv, Turns, Turn
<1>20. Turns(rh)'
  <2> SUFFICES ASSUME NEW k \in Nat PROVE Turn(k, rh)'
      BY DEF Turns
  <2>1. Turn(k, rh)
      BY DEF At, SubmitInv, Turns
  <2>2. PICK x \in Slots : x = k % QS
      BY IndexType
  <2>3. CASE x # s
    <3>1. tickets'[x] = tickets[x] /\ k # n
        BY <1>4, <1>6, <2>2, <2>3 DEF TypeOK
    <3> QED BY <1>17, <2>1, <2>2, <3>1 DEF Turn
  <2>4. CASE x = s
    <3>1. tickets'[x] = m + 1 /\ tickets[x] = m
        BY <1>5, <1>6, <2>4 DEF TypeOK
    <3>2. PICK g \in Nat : g = get_id(k)
        BY IdNat
    <3>3. CASE k = n
        BY <1>17, <1>18, <1>19, <2>2, <3>1, <3>3 DEF Turn
    <3>4. CASE k < n
      <4>1. g + 2 <= i
          BY <1>4, <1>18, <2>2, <2>4, <3>2, <3>4, SameSlot
      <4>2. m >= i
          BY <1>19
      <4>3. k < rh
          BY <2>1, <2>2, <3>1, <3>2, <4>1, <4>2 DEF Turn
      <4>4. Left(k)
          BY <2>1, <2>2, <3>1, <3>2, <4>1, <4>2, <4>3 DEF Turn
      <4> QED BY <1>17, <2>2, <3>1, <3>2, <4>1, <4>2, <4>3, <4>4 DEF Turn
    <3>5. CASE n < k
      <4>1. i + 2 <= g
          BY <1>4, <1>18, <2>2, <2>4, <3>2, <3>5, SameSlot
      <4>2. m <= i + 1
          BY <1>19
      <4>3. ~Left(k)
          BY <2>1, <2>2, <3>1, <3>2, <4>1, <4>2 DEF Turn
      <4>4. k >= rh
          BY <2>1, <2>2, <3>1, <3>2, <4>1, <4>2, <4>3 DEF Turn
      <4>5. ~Filled(k)
          BY <2>1, <2>2, <3>1, <3>2, <4>1, <4>2, <4>3, <4>4 DEF Turn
      <4> QED BY <1>17, <2>2, <3>1, <3>2, <3>5, <4>1, <4>2, <4>3, <4>4, <4>5 DEF Turn
    <3> QED BY <3>3, <3>4, <3>5
  <2> QED BY <2>3, <2>4
<1>21. TailMarks(et)'
    BY <1>1, <1>17 DEF At, SubmitInv, TailMarks
<1>22. Written(rh)'
  <2> SUFFICES ASSUME NEW k \in Nat, Filled(k)', k >= rh
               PROVE  /\ sq'[k % QS] \in Command
                      /\ sq'[k % QS].ticket = k
                      /\ k >= dev_fetched' => Issued(sq[k % QS])'
      BY DEF Written, Command
  <2>1. Filled(k)
      BY <1>17
  <2>2. PICK c : c = sq[k % QS]
      OBVIOUS
  <2>3. c \in Command /\ c.ticket = k /\ (k >= dev_fetched => Issued(c))
      BY <2>1, <2>2 DEF At, SubmitInv, Written
  <2>4. sq'[k % QS] = c
      BY <1>2, <2>2
  <2>5. Issued(c) => Issued(c)'
      BY <1>8, IssuedSame
  <2>6. Issued(c)' => Issued(sq[k % QS])'
      BY <2>4 DEF Issued, Holding
  <2> QED BY <1>2, <2>3, <2>4, <2>5, <2>6
<1> QED BY <1>7, <1>9, <1>10, <1>11, <1>12, <1>20, <1>21, <1>22 DEF At, Locals, SubmitInv

LEMMA MarkEntryKeeps ==
    ASSUME TypeOK, Locals, NEW et \in Nat, NEW ec \in Nat, NEW ac \in Nat, NEW cr \in Nat,
           NEW rh \in Nat, At(et, ec, ac, cr, rh), NEW t \in Threads, MarkEntry(t)
    PROVE  TypeOK' /\ Locals' /\ At(et, ec, ac, cr, rh)'
<1>1. /\ pc[t] = "dequeue" /\ pc'[t] = "head_marked"
      /\ head_mark' = head_mark \cup {loc[t]}
      /\ UNCHANGED <<cid, ticket, base, count, loc, subVars, head_lock, cq_head,
                     memVars, devVars>>
      /\ OthersStay(t)
    BY DEF MarkEntry, goto, TypeOK, OthersStay
<1>2. UNCHANGED <<cid_ticket, cid_locked, in_ticket, tickets, tail_mark, tail_lock, sq_tail, sq_head,
                  sq, sq_db, cq, cq_db, dev_fetched, dev_posted, executing, completed>>
    BY <1>1 DEF subVars, memVars, devVars
<1>3. loc[t] \in Entries /\ ticket[t] \in Nat /\ dev_posted \in Nat
    BY DEF TypeOK
<1>4. TypeOK'
  <2>1. head_mark' \subseteq Entries /\ pos_locks' \subseteq Entries
      BY <1>3 DEF MarkEntry, TypeOK
  <2>2. pc' = [pc EXCEPT ![t] = "head_marked"]
      BY DEF MarkEntry, goto
  <2> QED BY <1>1, <1>2, <2>1, <2>2 DEF TypeOK
<1>5. \A u \in Threads : /\ Holding(u)' <=> Holding(u)
                         /\ Submitting(u)' <=> Submitting(u)
                         /\ Consumed(u)' <=> Consumed(u) \/ u = t
                         /\ AtTail(u)' <=> AtTail(u)
                         /\ AtHead(u)' <=> AtHead(u)
                         /\ pc'[u] = "scan" <=> pc[u] = "scan"
                         /\ pc'[u] = "fill" <=> pc[u] = "fill"
                         /\ HasCid(u)' <=> HasCid(u)
    BY <1>1 DEF Holding, Submitting, Consumed, AtTail, AtHead, OthersStay
<1>6. Locals' /\ IsTail(et)'
    BY <1>1, <1>2, <1>5 DEF Locals, Owners, Counters, TailLocked, HeadLocked, At, IsTail
<1>7. IsHead(ec, ac, cr, rh)'
  <2>1. \A u \in Threads : AtHead(u)' => pc'[u] = pc[u] /\ base'[u] = base[u] /\ count'[u] = count[u]
      BY <1>1 DEF AtHead, OthersStay
  <2> QED BY <1>1, <1>2, <2>1, HeadFrame DEF At
<1>8. Order(et, ec, ac, cr, rh)'
    BY <1>1, <1>2, OrderFrame DEF At
<1>9. \A k : (Filled(k)' <=> Filled(k)) /\ (Left(k)' <=> Left(k))
    BY <1>1, <1>2, <1>5 DEF Filled, Left
<1>10. ASSUME NEW c, Issued(c) PROVE Issued(c)'
    BY <1>1, <1>5, <1>10 DEF Issued
<1>11. SubmitInv(et, rh)'
  <2>1. Turns(rh)'
    <3> SUFFICES ASSUME NEW k \in Nat PROVE Turn(k, rh)'
        BY DEF Turns
    <3>1. Turn(k, rh)
        BY DEF At, SubmitInv, Turns
    <3> QED BY <1>2, <1>9, <3>1 DEF Turn
  <2>2. TailMarks(et)'
      BY <1>2, <1>9 DEF At, SubmitInv, TailMarks
  <2>3. Written(rh)'
    <3> SUFFICES ASSUME NEW k \in Nat, Filled(k)', k >= rh
                 PROVE  /\ sq'[k % QS] \in Command
                        /\ sq'[k % QS].ticket = k
                        /\ k >= dev_fetched' => Issued(sq[k % QS])'
        BY DEF Written, Command
    <3>1. Filled(k)
        BY <1>9
    <3>2. PICK c : c = sq[k % QS]
        OBVIOUS
    <3>3. c \in Command /\ c.ticket = k /\ (k >= dev_fetched => Issued(c))
        BY <3>1, <3>2 DEF At, SubmitInv, Written
    <3>4. sq'[k % QS] = c
        BY <1>2, <3>2
    <3>5. Issued(c)' => Issued(sq[k % QS])'
        BY <3>4 DEF Issued, Holding
    <3> QED BY <1>2, <1>10, <3>3, <3>4, <3>5
  <2> QED BY <2>1, <2>2, <2>3 DEF SubmitInv
<1>12. Device'
  <2>1. \A c \in executing : Issued(c)'
      BY <1>10 DEF At, PollInv, Device
  <2> QED BY <1>2, <2>1 DEF At, PollInv, Device
<1>13. Posts' /\ Heads(ac)'
    BY <1>1, <1>2, PostsFrame, HeadsFrame DEF At, PollInv
<1>14. Scans'
    BY <1>1, <1>2, <1>5 DEF At, PollInv, Scans
<1>15. Stale'
    BY <1>1, <1>2, <1>5 DEF At, PollInv, Stale, Posted, Mine
<1>16. Unconsumed(ec)'
    BY <1>1, <1>2, <1>5 DEF At, PollInv, Unconsumed
<1>17. HeadMarks(ec)'
  <2>1. ticket[t] \in completed /\ cq[loc[t]].ticket = ticket[t]
      BY <1>1 DEF At, PollInv, HeadMarks
  <2>2. \A u \in Threads : Consumed(u)' => ticket'[u] \in completed'
      BY <1>1, <1>2, <1>5, <2>1 DEF At, PollInv, HeadMarks
  <2>3. \A u \in Threads : pc'[u] = "dequeue" =>
            ticket'[u] \in completed' /\ cq'[loc'[u]].ticket = ticket'[u]
      BY <1>1, <1>2 DEF At, PollInv, HeadMarks, OthersStay
  <2>4. \E p \in Nat : ec <= p /\ p < dev_posted /\ p % CQS = loc[t]
    <3>1. PICK p \in Nat : ec <= p /\ p < dev_posted /\ cq[p % CQS].ticket = ticket[t]
        BY <1>1, <2>1 DEF At, PollInv, Unconsumed, Holding, Consumed
    <3>2. PICK q \in Nat : Posted(q) /\ q % CQS = loc[t]
        BY <1>3, <2>1, EntryPosted DEF At, PollInv
    <3>3. Posted(p)
        BY <1>3, <3>1, SizesAre DEF Posted, At, Order
    <3>4. p = q
        BY <2>1, <3>1, <3>2, <3>3 DEF At, PollInv, Posts
    <3> QED BY <3>1, <3>2, <3>4
  <2>5. ASSUME NEW e \in head_mark'
        PROVE  /\ \E p \in Nat : ec <= p /\ p < dev_posted' /\ p % CQS = e
               /\ \E u \in Threads : Consumed(u)' /\ loc'[u] = e /\ cq'[e].ticket = ticket'[u]
    <3>1. CASE e \in head_mark
      <4>1. PICK u \in Threads : Consumed(u) /\ loc[u] = e /\ cq[e].ticket = ticket[u]
          BY <3>1 DEF At, PollInv, HeadMarks
      <4>2. \E p \in Nat : ec <= p /\ p < dev_posted /\ p % CQS = e
          BY <3>1 DEF At, PollInv, HeadMarks
      <4> QED BY <1>1, <1>2, <1>5, <4>1, <4>2
    <3>2. CASE e = loc[t]
        BY <1>1, <1>2, <1>5, <2>1, <2>4, <3>2
    <3> QED BY <1>1, <2>5, <3>1, <3>2
  <2> QED BY <2>2, <2>3, <2>5 DEF HeadMarks
<1> QED BY <1>4, <1>6, <1>7, <1>8, <1>11, <1>12, <1>13, <1>14, <1>15, <1>16, <1>17 DEF At, PollInv

LEMMA FinishKeeps ==
    ASSUME TypeOK, Locals, NEW et \in Nat, NEW ec \in Nat, NEW ac \in Nat, NEW cr \in Nat,
           NEW rh \in Nat, At(et, ec, ac, cr, rh), NEW t \in Threads, Finish(t)
    PROVE  TypeOK' /\ Locals' /\ At(et, ec, ac, cr, rh)'
<1>1. /\ pc[t] = "head_marked" /\ pc'[t] = "idle" /\ loc[t] \notin head_mark
      /\ cid_locked' = cid_locked \ {cid[t]}
      /\ UNCHANGED <<base, count, cid_ticket, in_ticket, tickets, tail_mark,
                     tail_lock, sq_tail, sq_head, head_mark, head_lock, cq_head,
                     memVars, devVars>>
      /\ OthersStay(t)
    BY DEF Finish, goto, TypeOK, OthersStay
<1>2. UNCHANGED <<sq, sq_db, cq, cq_db, dev_fetched, dev_posted, executing, completed>>
    BY <1>1 DEF memVars, devVars
<1>3. PICK n \in Nat : n = ticket[t]
    BY DEF TypeOK
<1>4. TypeOK'
  <2>1. /\ pc' = [pc EXCEPT ![t] = "idle"] /\ cid' = [cid EXCEPT ![t] = 0]
        /\ ticket' = [ticket EXCEPT ![t] = 0] /\ loc' = [loc EXCEPT ![t] = 0]
        /\ pos_locks' \subseteq pos_locks
      BY DEF Finish, goto
  <2>2. 0 \in 0 .. NumCids - 1 /\ 0 \in Entries
      BY SizesAre DEF Entries
  <2>3. cid' \in [Threads -> 0 .. NumCids - 1] /\ loc' \in [Threads -> Entries]
      BY <2>1, <2>2 DEF TypeOK
  <2>4. ticket' \in [Threads -> Nat]
      BY <2>1 DEF TypeOK
  <2>5. pos_locks' \subseteq Entries /\ cid_locked' \subseteq 0 .. NumCids - 1
      BY <1>1, <2>1, Zenon DEF TypeOK
  <2> QED BY <1>1, <1>2, <2>1, <2>3, <2>4, <2>5 DEF TypeOK
<1>5. \A u \in Threads : u # t =>
          /\ Holding(u)' <=> Holding(u)
          /\ Submitting(u)' <=> Submitting(u)
          /\ Consumed(u)' <=> Consumed(u)
          /\ AtTail(u)' <=> AtTail(u)
          /\ AtHead(u)' <=> AtHead(u)
    BY <1>1 DEF Holding, Submitting, Consumed, AtTail, AtHead, OthersStay
<1>6. /\ ~Holding(t)' /\ ~Submitting(t)' /\ ~Consumed(t)' /\ ~AtTail(t)' /\ ~AtHead(t)'
      /\ Holding(t) /\ ~Submitting(t) /\ Consumed(t) /\ ~AtTail(t) /\ ~AtHead(t)
    BY <1>1 DEF Holding, Submitting, Consumed, AtTail, AtHead
<1>7. n < in_ticket /\ n \in completed
    BY <1>3, <1>6 DEF Locals, Owners, At, PollInv, HeadMarks
<1>8. Owners'
  <2>1. \A u \in Threads : u # t /\ HasCid(u) => cid[u] \in cid_locked /\ cid[u] # cid[t]
      BY <1>1 DEF Locals, Owners
  <2>2. \A u \in Threads : HasCid(u)' => u # t /\ HasCid(u) /\ cid'[u] = cid[u]
      BY <1>1 DEF OthersStay
  <2>3. \A u \in Threads : Holding(u)' => u # t /\ Holding(u) /\ ticket'[u] = ticket[u]
      BY <1>1, <1>5, <1>6 DEF OthersStay
  <2> QED BY <1>1, <2>1, <2>2, <2>3 DEF Locals, Owners
<1>9. Counters' /\ TailLocked' /\ HeadLocked' /\ IsTail(et)'
    BY <1>1, <1>5, <1>6 DEF Locals, Counters, TailLocked, HeadLocked, At, IsTail, OthersStay
<1>10. IsHead(ec, ac, cr, rh)'
  <2>1. \A u \in Threads : AtHead(u)' => pc'[u] = pc[u] /\ base'[u] = base[u] /\ count'[u] = count[u]
      BY <1>1, <1>6 DEF OthersStay
  <2> QED BY <1>1, <1>2, <2>1, HeadFrame DEF At
<1>11. Order(et, ec, ac, cr, rh)'
    BY <1>1, <1>2, OrderFrame DEF At
<1>12. \A u \in Threads : Holding(u) /\ ticket[u] = n => u = t
    BY <1>3, <1>6 DEF Locals, Owners
<1>13. ASSUME NEW k \in Nat
       PROVE  (Filled(k)' <=> Filled(k)) /\ (Left(k)' <=> Left(k))
  <2>1. CASE k = n
    <3>1. Filled(k) /\ Left(k)
        BY <1>1, <1>6, <1>7, <1>12, <2>1 DEF Filled, Left
    <3>2. \A u \in Threads : Holding(u)' => ticket'[u] # n
        BY <1>1, <1>5, <1>6, <1>12 DEF OthersStay
    <3>3. Filled(k)' /\ Left(k)'
        BY <1>1, <1>7, <2>1, <3>2 DEF Filled, Left
    <3> QED BY <3>1, <3>3
  <2>2. CASE k # n
    <3>1. \A u \in Threads : Holding(u)' /\ ticket'[u] = k <=> Holding(u) /\ ticket[u] = k
        BY <1>1, <1>3, <1>5, <1>6, <2>2 DEF OthersStay
    <3>2. \A u \in Threads : Holding(u) /\ ticket[u] = k => u # t
        BY <1>3, <2>2
    <3>3. \A u \in Threads : u # t => pc'[u] = pc[u]
        BY <1>1 DEF OthersStay
    <3> QED BY <1>1, <1>5, <3>1, <3>2, <3>3 DEF Filled, Left
  <2> QED BY <2>1, <2>2
<1>14. ASSUME NEW c, Issued(c), c.ticket \notin completed PROVE Issued(c)'
  <2>1. PICK u \in Threads : Holding(u) /\ ticket[u] = c.ticket /\ cid[u] = c.cid
      BY <1>14 DEF Issued
  <2>2. u # t
      BY <1>3, <1>7, <1>14, <2>1
  <2>3. Holding(u)' /\ ticket'[u] = c.ticket /\ cid'[u] = c.cid
      BY <1>1, <1>5, <2>1, <2>2 DEF OthersStay
  <2> QED BY <2>3 DEF Issued
<1>15. \A k \in completed : k < dev_fetched
    BY DEF At, PollInv, Device
<1>16. SubmitInv(et, rh)'
  <2>1. Turns(rh)'
    <3> SUFFICES ASSUME NEW k \in Nat PROVE Turn(k, rh)'
        BY DEF Turns
    <3>1. Turn(k, rh)
        BY DEF At, SubmitInv, Turns
    <3> QED BY <1>1, <1>13, <3>1 DEF Turn
  <2>2. TailMarks(et)'
      BY <1>1, <1>13 DEF At, SubmitInv, TailMarks
  <2>3. Written(rh)'
    <3> SUFFICES ASSUME NEW k \in Nat, Filled(k)', k >= rh
                 PROVE  /\ sq'[k % QS] \in Command
                        /\ sq'[k % QS].ticket = k
                        /\ k >= dev_fetched' => Issued(sq[k % QS])'
        BY DEF Written, Command
    <3>1. Filled(k)
        BY <1>13
    <3>2. PICK c : c = sq[k % QS]
        OBVIOUS
    <3>3. c \in Command /\ c.ticket = k /\ (k >= dev_fetched => Issued(c))
        BY <3>1, <3>2 DEF At, SubmitInv, Written
    <3>4. sq'[k % QS] = c
        BY <1>2, <3>2
    <3>5. k >= dev_fetched => c.ticket \notin completed
        BY <1>15, <3>3 DEF TypeOK
    <3>6. Issued(c)' => Issued(sq[k % QS])'
        BY <3>4 DEF Issued, Holding
    <3> QED BY <1>2, <1>14, <3>3, <3>4, <3>5, <3>6
  <2> QED BY <2>1, <2>2, <2>3 DEF SubmitInv
<1>17. Device'
  <2>1. \A c \in executing : Issued(c)'
      BY <1>14 DEF At, PollInv, Device
  <2> QED BY <1>2, <2>1 DEF At, PollInv, Device
<1>18. Posts' /\ Heads(ac)'
    BY <1>1, <1>2, PostsFrame, HeadsFrame DEF At, PollInv
<1>19. Scans'
    BY <1>1, <1>2 DEF At, PollInv, Scans, OthersStay
<1>20. Stale'
  <2> SUFFICES ASSUME NEW u \in Threads, NEW p \in Nat,
                      HasCid(u)', Posted(p)', cq'[p % CQS].cid = cid'[u], ~Mine(u, p)'
               PROVE  p < cq_head' /\ (pc'[u] = "scan" => p < base'[u])
      BY DEF Stale
  <2>1. u # t
      BY <1>1
  <2>2. pc'[u] = pc[u] /\ Posted(p) /\ cq[p % CQS].cid = cid[u] /\ ~Mine(u, p) /\ base'[u] = base[u]
      BY <1>1, <1>2, <1>5, <2>1 DEF Posted, Mine, OthersStay
  <2> QED BY <1>1, <2>2 DEF At, PollInv, Stale
<1>21. Unconsumed(ec)'
  <2> SUFFICES ASSUME NEW u \in Threads, Holding(u)', ~Consumed(u)', ticket'[u] \in completed'
               PROVE  \E p \in Nat : ec <= p /\ p < dev_posted' /\ cq'[p % CQS].ticket = ticket'[u]
      BY DEF Unconsumed
  <2>1. u # t
      BY <1>6
  <2>2. Holding(u) /\ ~Consumed(u) /\ ticket'[u] = ticket[u]
      BY <1>1, <1>5, <2>1 DEF OthersStay
  <2> QED BY <1>2, <2>2 DEF At, PollInv, Unconsumed
<1>22. HeadMarks(ec)'
  <2>1. \A u \in Threads : Consumed(u)' => ticket'[u] \in completed'
    <3> SUFFICES ASSUME NEW u \in Threads, Consumed(u)' PROVE ticket'[u] \in completed'
        OBVIOUS
    <3>1. u # t /\ Consumed(u) /\ ticket'[u] = ticket[u]
        BY <1>1, <1>5, <1>6 DEF OthersStay
    <3> QED BY <1>2, <3>1 DEF At, PollInv, HeadMarks
  <2>2. \A u \in Threads : pc'[u] = "dequeue" =>
            ticket'[u] \in completed' /\ cq'[loc'[u]].ticket = ticket'[u]
      BY <1>1, <1>2 DEF At, PollInv, HeadMarks, OthersStay
  <2>3. ASSUME NEW e \in head_mark'
        PROVE  /\ \E p \in Nat : ec <= p /\ p < dev_posted' /\ p % CQS = e
               /\ \E u \in Threads : Consumed(u)' /\ loc'[u] = e /\ cq'[e].ticket = ticket'[u]
    <3>1. PICK u \in Threads : Consumed(u) /\ loc[u] = e /\ cq[e].ticket = ticket[u]
        BY <1>1, <2>3 DEF At, PollInv, HeadMarks
    <3>2. u # t
        BY <1>1, <2>3, <3>1
    <3>3. Consumed(u)' /\ loc'[u] = e /\ ticket'[u] = ticket[u]
        BY <1>1, <1>5, <3>1, <3>2 DEF OthersStay
    <3>4. \E p \in Nat : ec <= p /\ p < dev_posted /\ p % CQS = e
        BY <1>1, <2>3 DEF At, PollInv, HeadMarks
    <3> QED BY <1>2, <3>1, <3>3, <3>4
  <2> QED BY <2>1, <2>2, <2>3 DEF HeadMarks
<1> QED BY <1>4, <1>8, <1>9, <1>10, <1>11, <1>16, <1>17, <1>18, <1>19, <1>20, <1>21, <1>22
        DEF At, Locals, PollInv

-----------------------------------------------------------------------------
(* The invariant *)

LEMMA Positions ==
    ASSUME NEW et \in Nat, NEW ec \in Nat, NEW ac \in Nat, NEW cr \in Nat, NEW rh \in Nat,
           TypeOK', Locals', At(et, ec, ac, cr, rh)'
    PROVE  QueueInv'
BY DEF QueueInv

LEMMA QueueInit == Init => QueueInv
<1> SUFFICES ASSUME Init PROVE QueueInv
    OBVIOUS
<1>1. 0 \in 0 .. NumCids - 1 /\ 0 \in Slots /\ 0 \in Entries /\ 0 \in Nat /\ -1 \in Int
    BY SizesAre DEF Slots, Entries
<1>2. TypeOK
    BY <1>1, Zenon DEF Init, TypeOK
<1>3. \A t \in Threads : pc[t] = "idle" /\ count[t] = 0
    BY DEF Init
<1>4. \A t \in Threads : ~Holding(t) /\ ~AtTail(t) /\ ~AtHead(t) /\ ~Consumed(t)
    BY <1>3 DEF Holding, AtTail, AtHead, Consumed
<1>5. Locals
    BY <1>3, <1>4 DEF Locals, Owners, Counters, TailLocked, HeadLocked
<1>6. \A k \in Nat : ~Filled(k) /\ ~Left(k)
    BY DEF Init, Filled, Left
<1>7. IsTail(0) /\ IsHead(0, 0, 0, 0)
    BY <1>4 DEF Init, IsTail, IsHead
<1>8. 0 % QS = 0 /\ 0 % CQS = 0
    BY SizesAre
<1>9. Order(0, 0, 0, 0, 0)
    BY <1>8, SizesAre DEF Init, Order
<1>10. Turns(0)
  <2> SUFFICES ASSUME NEW k \in Nat PROVE Turn(k, 0)
      BY DEF Turns
  <2>1. tickets[k % QS] = 0
      BY IndexType DEF Init
  <2>2. get_id(k) \in Nat
      BY IdNat
  <2> QED BY <1>6, <2>1, <2>2 DEF Turn
<1>11. Written(0) /\ TailMarks(0)
    BY <1>6 DEF Init, Written, TailMarks
<1>12. Device
    BY FS_EmptySet DEF Init, Device
<1>13. \A p \in Nat : ~Posted(p) /\ ~(p < dev_posted)
    BY DEF Init, Posted
<1>14. Posts
    BY <1>13 DEF Init, Posts
<1>15. Heads(0) /\ Stale /\ Scans /\ Unconsumed(0) /\ HeadMarks(0)
    BY <1>3, <1>4, <1>13 DEF Init, Heads, Stale, Scans, Unconsumed, HeadMarks
<1>16. At(0, 0, 0, 0, 0)
    BY <1>7, <1>9, <1>10, <1>11, <1>12, <1>14, <1>15 DEF At, SubmitInv, PollInv
<1> QED BY <1>1, <1>2, <1>5, <1>16 DEF QueueInv

LEMMA QueueStep == QueueInv /\ FreshIds' /\ [Next]_vars => QueueInv'
<1> SUFFICES ASSUME QueueInv, FreshIds', [Next]_vars PROVE QueueInv'
    OBVIOUS
<1>1. TypeOK /\ Locals
    BY DEF QueueInv
<1>2. PICK et \in Nat, ec \in Nat, ac \in Nat, cr \in Nat, rh \in Nat : At(et, ec, ac, cr, rh)
    BY DEF QueueInv
<1>3. CASE UNCHANGED vars
  <2>1. UNCHANGED <<pc, cid, ticket, base, count, loc, cid_ticket, cid_locked, in_ticket,
                    tickets, tail_mark, tail_lock, sq_tail, sq_head,
                    head_mark, head_lock, pos_locks, cq_head, sq, sq_db, cq, cq_db,
                    dev_fetched, dev_posted, executing, completed>>
      BY <1>3 DEF vars, locals, subVars, cplVars, memVars, devVars
  <2>2. TypeOK'
      BY <1>1, <2>1 DEF TypeOK
  <2>3. Locals' /\ IsTail(et)'
      BY <1>1, <1>2, <2>1 DEF Locals, Owners, Counters, TailLocked, HeadLocked, Holding, AtTail, AtHead, At, IsTail
  <2>4. KeepsStages /\ KeepsHolders
      BY <2>1, NoStage
  <2>5. SubmitInv(et, rh)'
      BY <1>2, <2>1, <2>4, SubmitFrame DEF At
  <2>6. PollInv(ec, ac)' /\ IsHead(ec, ac, cr, rh)'
    <3>1. cq_head \in Nat /\ HeadLocked /\ UNCHANGED devVars
        BY <1>1, <2>1 DEF TypeOK, Locals, devVars
    <3> QED BY <1>2, <2>1, <2>4, <3>1, PollSideFrame DEF At
  <2>7. Order(et, ec, ac, cr, rh)'
      BY <1>2, <2>1, OrderFrame DEF At
  <2>8. At(et, ec, ac, cr, rh)'
      BY <2>3, <2>5, <2>6, <2>7 DEF At
  <2> QED BY <2>2, <2>3, <2>8, Positions
<1>4. CASE DeviceFetch
  <2>1. TypeOK' /\ Locals' /\ At(et, ec, ac, cr, rh)'
      BY <1>1, <1>2, <1>4, DeviceFetchKeeps
  <2> QED BY <2>1, Positions
<1>5. ASSUME NEW c \in executing, DeviceComplete(c) PROVE QueueInv'
    BY <1>1, <1>2, <1>5, DeviceCompleteKeeps, Positions
<1>6. ASSUME NEW t \in Threads, IssueCmd(t) PROVE QueueInv'
    BY <1>1, <1>2, <1>6, TakeCidKeeps, Positions DEF IssueCmd
<1>7. ASSUME NEW t \in Threads, ThreadStep(t) PROVE QueueInv'
  <2>1. CASE TakeTicket(t)
      BY <1>1, <1>2, <2>1, TakeTicketKeeps, Positions
  <2>2. CASE Fill(t)
      BY <1>1, <1>2, <2>2, FillKeeps, Positions
  <2>3. CASE SeeTailMark(t)
      BY <1>1, <1>2, <2>3, SeeTailMarkKeeps, Positions
  <2>4. CASE LockTail(t)
      BY <1>1, <1>2, <2>4, LockTailKeeps, Positions
  <2>5. CASE move_tail(t)
    <3>1. TypeOK' /\ Locals' /\ (At(et, ec, ac, cr, rh)' \/ At(et + 1, ec, ac, cr, rh)')
        BY <1>1, <1>2, <2>5, moveTailKeeps
    <3>2. PICK x \in Nat : At(x, ec, ac, cr, rh)'
        BY <3>1
    <3> QED BY <3>1, <3>2, Positions
  <2>6. CASE RingSq(t)
      BY <1>1, <1>2, <2>6, RingSqKeeps, Positions
  <2>7. CASE LeaveSlot(t)
      BY <1>1, <1>2, <2>7, LeaveSlotKeeps, Positions
  <2>8. CASE LoadCqHead(t)
      BY <1>1, <1>2, <2>8, LoadCqHeadKeeps, Positions
  <2>9. CASE cq_poll(t)
      BY <1>1, <1>2, <2>9, cqPollKeeps, Positions
  <2>10. CASE MarkEntry(t)
      BY <1>1, <1>2, <2>10, MarkEntryKeeps, Positions
  <2>11. CASE SeeHeadMark(t)
      BY <1>1, <1>2, <2>11, SeeHeadMarkKeeps, Positions
  <2>12. CASE LockHead(t)
      BY <1>1, <1>2, <2>12, LockHeadKeeps, Positions
  <2>13. CASE move_head_cq(t)
    <3>1. TypeOK' /\ Locals' /\ (At(et, ec, ac, cr, rh)' \/ At(et, ec + 1, ac, cr, rh)')
        BY <1>1, <1>2, <2>13, moveHeadKeeps
    <3>2. PICK x \in Nat : At(et, x, ac, cr, rh)'
        BY <3>1
    <3> QED BY <3>1, <3>2, Positions
  <2>14. CASE ReleaseSlots(t)
    <3>1. TypeOK' /\ Locals' /\ \E r \in Nat : At(et, ec, ac, cr, r)'
        BY <1>1, <1>2, <2>14, ReleaseSlotsKeeps
    <3>2. PICK r \in Nat : At(et, ec, ac, cr, r)'
        BY <3>1
    <3> QED BY <3>1, <3>2, Positions
  <2>15. CASE MoveSqHead(t)
      BY <1>1, <1>2, <2>15, MoveSqHeadKeeps, Positions
  <2>16. CASE RingCq(t)
      BY <1>1, <1>2, <2>16, RingCqKeeps, Positions
  <2>17. CASE StoreCqHead(t)
      BY <1>1, <1>2, <2>17, StoreCqHeadKeeps, Positions
  <2>18. CASE Finish(t)
      BY <1>1, <1>2, <2>18, FinishKeeps, Positions
  <2>19. CASE LockCid(t)
      BY <1>1, <1>2, <2>19, LockCidKeeps, Positions
  <2>20. CASE RetryCid(t)
      BY <1>1, <1>2, <2>20, TakeCidKeeps, Positions DEF RetryCid
  <2> QED BY <1>7, <2>1, <2>2, <2>3, <2>4, <2>5, <2>6, <2>7, <2>8, <2>9, <2>10, <2>11, <2>12,
             <2>13, <2>14, <2>15, <2>16, <2>17, <2>18, <2>19, <2>20 DEF ThreadStep
<1>8. CASE Done
    BY <1>3, <1>8 DEF Done
<1> QED BY <1>3, <1>4, <1>5, <1>6, <1>7, <1>8 DEF Next

\* While identifiers are not handed out before the head has passed the last
\* completion that carried them, the invariant holds for any number of commands.
THEOREM QueueInvariant == Spec /\ []FreshIds => []QueueInv
<1>1. Init => QueueInv
    BY QueueInit
<1>2. QueueInv /\ FreshIds' /\ [Next]_vars => QueueInv'
    BY QueueStep
<1> QED BY <1>1, <1>2, PTL DEF Spec

-----------------------------------------------------------------------------
(* The first NumCids commands *)

\* Until the identifiers wrap, the next one has never been used and nobody tries
\* for one that is locked.
FirstLap ==
    /\ IsFiniteSet(Beginning)
    /\ Begun <= MaxCmds
    /\ Begun < NumCids => cid_ticket = Begun
    /\ \A i \in cid_locked : i < Begun
    /\ \A p \in Nat : p < dev_posted => cq[p % CQS].cid < Begun
    /\ \A t \in Beginning, p \in Nat : p < dev_posted => cq[p % CQS].cid # cid[t]
    /\ \A t \in Beginning : cid[t] < Begun /\ pc[t] # "next_cid"
    /\ \A t \in Beginning : pc[t] = "lock_cid" =>
          cid[t] \notin cid_locked /\ \A u \in Beginning : cid[u] = cid[t] => u = t

\* What the steps of a thread from filling its slot on leave alone.
LEMMA QuietForTakers ==
    ASSUME TypeOK, NEW t \in Threads, ThreadStep(t), ~TakeTicket(t), ~LockCid(t), ~RetryCid(t)
    PROVE  /\ UNCHANGED <<in_ticket, cid_ticket, cq, dev_posted, dev_fetched, executing, completed>>
           /\ cid_locked' \subseteq cid_locked
           /\ pc[t] \notin {"lock_cid", "next_cid", "take_ticket"}
           /\ pc'[t] \notin {"lock_cid", "next_cid", "take_ticket"}
           /\ \A u \in Threads : u # t => pc'[u] = pc[u] /\ cid'[u] = cid[u] /\ ticket'[u] = ticket[u]
<1> USE DEF goto, TypeOK, subVars, cplVars, memVars, devVars
<1>1. CASE Fill(t)
    BY <1>1 DEF Fill
<1>2. CASE SeeTailMark(t)
    BY <1>2 DEF SeeTailMark
<1>3. CASE LockTail(t)
    BY <1>3 DEF LockTail
<1>4. CASE move_tail(t)
    BY <1>4 DEF move_tail
<1>5. CASE RingSq(t)
    BY <1>5 DEF RingSq
<1>6. CASE LeaveSlot(t)
    BY <1>6 DEF LeaveSlot
<1>7. CASE LoadCqHead(t)
    BY <1>7 DEF LoadCqHead
<1>8. CASE cq_poll(t)
    BY <1>8 DEF cq_poll
<1>9. CASE MarkEntry(t)
    BY <1>9 DEF MarkEntry
<1>10. CASE SeeHeadMark(t)
    BY <1>10 DEF SeeHeadMark
<1>11. CASE LockHead(t)
    BY <1>11 DEF LockHead
<1>12. CASE move_head_cq(t)
    BY <1>12 DEF move_head_cq
<1>13. CASE ReleaseSlots(t)
    BY <1>13 DEF ReleaseSlots
<1>14. CASE MoveSqHead(t)
    BY <1>14 DEF MoveSqHead
<1>15. CASE RingCq(t)
    BY <1>15 DEF RingCq
<1>16. CASE StoreCqHead(t)
    BY <1>16 DEF StoreCqHead
<1>17. CASE Finish(t)
    BY <1>17 DEF Finish
<1> QED BY <1>1, <1>2, <1>3, <1>4, <1>5, <1>6, <1>7, <1>8, <1>9, <1>10, <1>11, <1>12,
           <1>13, <1>14, <1>15, <1>16, <1>17 DEF ThreadStep

LEMMA FirstLapFrame ==
    ASSUME FirstLap, Beginning' = Beginning, UNCHANGED <<in_ticket, cid_ticket, cq, dev_posted>>,
           cid_locked' \subseteq cid_locked,
           \A t \in Beginning : cid'[t] = cid[t] /\ pc'[t] = pc[t]
    PROVE  FirstLap'
<1>1. Begun' = Begun
    BY DEF Begun
<1> QED BY <1>1 DEF FirstLap

LEMMA FirstLapInit == Init => FirstLap
<1> SUFFICES ASSUME Init PROVE FirstLap
    OBVIOUS
<1>1. Beginning = {}
    BY DEF Init, Beginning
<1>2. IsFiniteSet(Beginning) /\ Cardinality(Beginning) = 0
    BY <1>1, FS_EmptySet
<1>3. Begun = 0
    BY <1>2 DEF Begun, Init
<1>4. \A p \in Nat : ~(p < dev_posted)
    BY DEF Init
<1> QED BY <1>1, <1>2, <1>3, <1>4, SizesAre DEF FirstLap, Init

LEMMA FirstLapStep ==
    ASSUME MaxCmds <= NumCids, QueueInv, FirstLap, [Next]_vars
    PROVE  FirstLap'
<1>1. TypeOK /\ Locals
    BY DEF QueueInv
<1>2. PICK et \in Nat, ec \in Nat, ac \in Nat, cr \in Nat, rh \in Nat : At(et, ec, ac, cr, rh)
    BY DEF QueueInv
<1>3. PICK n \in Nat : n = Cardinality(Beginning)
    BY FS_CardinalityType DEF FirstLap
<1>4. PICK m \in Nat : m = in_ticket
    BY <1>1 DEF TypeOK
<1>5. Begun = m + n
    BY <1>3, <1>4 DEF Begun
<1>6. CASE UNCHANGED vars
    BY <1>6, FirstLapFrame DEF vars, locals, subVars, cplVars, memVars, devVars, Beginning
<1>7. CASE DeviceFetch
    BY <1>7, FirstLapFrame DEF DeviceFetch, locals, subVars, cplVars, memVars, Beginning
<1>8. ASSUME NEW c \in executing, DeviceComplete(c) PROVE FirstLap'
  <2>1. UNCHANGED <<pc, cid, in_ticket, cid_ticket, cid_locked>>
      BY <1>8 DEF DeviceComplete, locals, subVars
  <2>2. Beginning' = Beginning /\ Begun' = Begun
      BY <2>1 DEF Beginning, Begun
  <2>3. PICK d \in Nat : d = dev_posted
      BY <1>1 DEF TypeOK
  <2>4. dev_posted' = d + 1
      BY <1>8, <2>3 DEF DeviceComplete
  <2>5. cq'[d % CQS].cid = c.cid
      BY <1>1, <1>8, <2>3, IndexType DEF DeviceComplete, TypeOK
  <2>6. \A e \in Entries : e # d % CQS => cq'[e] = cq[e]
      BY <1>1, <1>8, <2>3 DEF DeviceComplete, TypeOK
  <2>7. PICK u \in Threads : Holding(u) /\ cid[u] = c.cid
      BY <1>2 DEF At, PollInv, Device, Issued
  <2>8. cid[u] \in cid_locked /\ \A t \in Beginning : cid[t] # cid[u]
    <3>1. cid[u] \in cid_locked /\ HasCid(u) /\ u \notin Beginning
        BY <1>1, <2>7 DEF Locals, Owners, Holding, Beginning
    <3>2. ASSUME NEW t \in Beginning PROVE cid[t] # cid[u]
      <4>1. pc[t] = "lock_cid" \/ HasCid(t)
          BY DEF FirstLap, Beginning
      <4>2. CASE pc[t] = "lock_cid"
          BY <3>1, <4>2 DEF FirstLap
      <4>3. CASE HasCid(t)
          BY <1>1, <3>1, <4>3 DEF Locals, Owners, Beginning
      <4> QED BY <4>1, <4>2, <4>3
    <3> QED BY <3>1, <3>2
  <2>9. c.cid < Begun
      BY <2>7, <2>8 DEF FirstLap
  <2>10. ASSUME NEW p \in Nat, p < d + 1
         PROVE  cq'[p % CQS].cid < Begun /\ \A t \in Beginning : cq'[p % CQS].cid # cid[t]
    <3>1. CASE p % CQS = d % CQS
        BY <2>5, <2>7, <2>8, <2>9, <3>1
    <3>2. CASE p % CQS # d % CQS
      <4>1. cq'[p % CQS] = cq[p % CQS]
          BY <2>6, <3>2, IndexType
      <4>2. p < dev_posted
          BY <2>3, <2>10, <3>2
      <4> QED BY <4>1, <4>2 DEF FirstLap
    <3> QED BY <3>1, <3>2
  <2> QED BY <2>1, <2>2, <2>4, <2>10 DEF FirstLap
<1>9. ASSUME NEW t \in Threads, IssueCmd(t) PROVE FirstLap'
  <2>1. Begun < MaxCmds /\ pc[t] = "idle" /\ cid_ticket' = (cid_ticket + 1) % NumCids
        /\ UNCHANGED <<in_ticket, cid_locked, memVars, devVars>>
      BY <1>9 DEF IssueCmd, TakeCid, NextCid
  <2>2. UNCHANGED <<cq, dev_posted>>
      BY <2>1 DEF memVars, devVars
  <2>3. Begun < NumCids /\ cid_ticket = Begun
      BY <1>5, <2>1, SizesAre DEF FirstLap
  <2>4. cid_ticket \notin cid_locked
      BY <1>5, <2>3 DEF FirstLap
  <2>5. pc' = [pc EXCEPT ![t] = "lock_cid"] /\ cid' = [cid EXCEPT ![t] = cid_ticket]
      BY <1>9 DEF IssueCmd, TakeCid, goto
  <2>6. Beginning' = Beginning \cup {t} /\ t \notin Beginning
      BY <1>1, <2>1, <2>5 DEF Beginning, TypeOK
  <2>7. IsFiniteSet(Beginning') /\ Cardinality(Beginning') = n + 1
      BY <1>3, <2>6, FS_AddElement DEF FirstLap
  <2>8. Begun' = Begun + 1
    <3>1. Begun' = in_ticket' + Cardinality(Beginning')
        BY DEF Begun
    <3> QED BY <1>4, <1>5, <2>1, <2>7, <3>1
  <2>9. Begun + 1 < NumCids => cid_ticket' = Begun + 1
    <3> SUFFICES ASSUME m + n + 1 < NumCids PROVE (m + n + 1) % NumCids = m + n + 1
        BY <1>5, <2>1, <2>3
    <3> PICK x \in Nat : x = m + n + 1
        OBVIOUS
    <3>1. x = NumCids * 0 + x /\ x \in 0 .. NumCids - 1 /\ x \in Int /\ 0 \in Int
        BY SizesAre
    <3>2. x % NumCids = x
        BY <3>1, SizesAre, ModIs
    <3> QED BY <3>2
  <2>10. \A i \in cid_locked' : i < Begun + 1
      BY <1>1, <1>5, <2>1, <2>3 DEF FirstLap, TypeOK
  <2>11. ASSUME NEW p \in Nat, p < dev_posted
         PROVE  cq[p % CQS].cid < Begun + 1 /\ \A u \in Beginning' : cq[p % CQS].cid # cid'[u]
    <3>1. cq[p % CQS].cid \in Int
      <4>1. cq[p % CQS].cid \in 0 .. NumCids - 1
          BY <1>1, IndexType DEF TypeOK
      <4> QED BY <4>1
    <3>2. cq[p % CQS].cid < Begun
        BY <2>11 DEF FirstLap
    <3>3. cid'[t] = Begun /\ \A u \in Threads : u # t => cid'[u] = cid[u]
        BY <1>1, <2>3, <2>5 DEF TypeOK
    <3>4. \A u \in Beginning : cq[p % CQS].cid # cid[u] /\ u \in Threads
        BY <2>11 DEF FirstLap, Beginning
    <3> QED BY <1>5, <2>6, <3>1, <3>2, <3>3, <3>4
  <2>12. Begun + 1 <= MaxCmds
      BY <1>5, <2>1, SizesAre
  <2>13. /\ pc'[t] = "lock_cid" /\ cid'[t] = Begun
         /\ \A u \in Threads : u # t => pc'[u] = pc[u] /\ cid'[u] = cid[u]
      BY <1>1, <2>3, <2>5 DEF TypeOK
  <2>14. \A u \in Beginning : u \in Threads /\ u # t /\ cid[u] \in Int /\ cid[u] < Begun
                              /\ pc[u] # "next_cid"
      BY <1>1, <2>6 DEF FirstLap, Beginning, TypeOK
  <2>15. \A u \in Beginning' : cid'[u] < Begun + 1 /\ pc'[u] # "next_cid"
      BY <1>5, <2>6, <2>13, <2>14
  <2>16. ASSUME NEW u \in Beginning', pc'[u] = "lock_cid"
         PROVE  cid'[u] \notin cid_locked' /\ \A v \in Beginning' : cid'[v] = cid'[u] => v = u
    <3>1. CASE u = t
        BY <1>5, <2>1, <2>3, <2>4, <2>6, <2>13, <2>14, <3>1
    <3>2. CASE u # t
      <4>1. u \in Beginning /\ pc[u] = "lock_cid" /\ cid'[u] = cid[u] /\ cid[u] # Begun
          BY <1>5, <2>6, <2>13, <2>14, <2>16, <3>2
      <4> QED BY <2>1, <2>6, <2>13, <2>14, <4>1 DEF FirstLap
    <3> QED BY <3>1, <3>2
  <2> QED BY <2>2, <2>7, <2>8, <2>9, <2>10, <2>11, <2>12, <2>15, <2>16 DEF FirstLap
<1>10. ASSUME NEW t \in Threads, TakeTicket(t) PROVE FirstLap'
  <2>1. /\ pc[t] = "take_ticket" /\ pc' = [pc EXCEPT ![t] = "fill"] /\ in_ticket' = m + 1
        /\ UNCHANGED <<cid, cid_ticket, cid_locked, memVars, devVars>>
      BY <1>4, <1>10 DEF TakeTicket, goto
  <2>2. UNCHANGED <<cq, dev_posted>>
      BY <2>1 DEF memVars, devVars
  <2>3. Beginning' = Beginning \ {t} /\ t \in Beginning
      BY <1>1, <2>1 DEF Beginning, TypeOK
  <2>4. IsFiniteSet(Beginning') /\ Cardinality(Beginning') = n - 1
      BY <1>3, <2>3, FS_RemoveElement DEF FirstLap
  <2>5. Begun' = Begun
    <3>1. Begun' = in_ticket' + Cardinality(Beginning')
        BY DEF Begun
    <3> QED BY <1>5, <2>1, <2>4, <3>1
  <2>6. \A u \in Beginning' : u \in Beginning /\ pc'[u] = pc[u]
      BY <1>1, <2>1, <2>3 DEF Beginning, TypeOK
  <2> QED BY <2>1, <2>2, <2>3, <2>4, <2>5, <2>6 DEF FirstLap
<1>11. ASSUME NEW t \in Threads, ThreadStep(t), ~TakeTicket(t), ~LockCid(t), ~RetryCid(t)
       PROVE  FirstLap'
  <2>1. /\ UNCHANGED <<in_ticket, cid_ticket, cq, dev_posted>>
        /\ cid_locked' \subseteq cid_locked
        /\ pc[t] \notin {"lock_cid", "next_cid", "take_ticket"}
        /\ pc'[t] \notin {"lock_cid", "next_cid", "take_ticket"}
        /\ \A u \in Threads : u # t => pc'[u] = pc[u] /\ cid'[u] = cid[u]
      BY <1>1, <1>11, QuietForTakers
  <2>2. Beginning' = Beginning /\ \A u \in Beginning : cid'[u] = cid[u] /\ pc'[u] = pc[u]
      BY <2>1 DEF Beginning
  <2> QED BY <2>1, <2>2, FirstLapFrame
<1>12. CASE Done
    BY <1>6, <1>12 DEF Done
<1>13. ASSUME NEW t \in Threads, RetryCid(t) PROVE FirstLap'
  <2>1. t \in Beginning /\ pc[t] = "next_cid"
      BY <1>13 DEF RetryCid, Beginning
  <2> QED BY <2>1 DEF FirstLap
<1>14. ASSUME NEW t \in Threads, LockCid(t) PROVE FirstLap'
  <2>1. pc[t] = "lock_cid" /\ t \in Beginning
      BY <1>14 DEF LockCid, Beginning
  <2>2. cid[t] \notin cid_locked /\ cid[t] < Begun
      BY <2>1 DEF FirstLap
  <2>3. /\ pc' = [pc EXCEPT ![t] = "take_ticket"] /\ cid_locked' = cid_locked \cup {cid[t]}
        /\ UNCHANGED <<cid, cid_ticket, in_ticket, memVars, devVars>>
      BY <1>14, <2>2 DEF LockCid, goto
  <2>4. UNCHANGED <<cq, dev_posted>>
      BY <2>3 DEF memVars, devVars
  <2>5. Beginning' = Beginning
      BY <1>1, <2>1, <2>3 DEF Beginning, TypeOK
  <2>6. Begun' = Begun
      BY <2>3, <2>5 DEF Begun
  <2>7. \A u \in Beginning : pc'[u] = "lock_cid" => pc[u] = "lock_cid" /\ u # t
      BY <1>1, <2>3 DEF Beginning, TypeOK
  <2>8. \A u \in Beginning : pc'[u] # "next_cid"
      BY <1>1, <2>3 DEF FirstLap, Beginning, TypeOK
  <2>9. \A u \in Beginning : pc'[u] = "lock_cid" => cid[u] \notin cid_locked'
      BY <2>1, <2>3, <2>7 DEF FirstLap
  <2>10. \A i \in cid_locked' : i < Begun
      BY <2>2, <2>3 DEF FirstLap
  <2> QED BY <2>3, <2>4, <2>5, <2>6, <2>7, <2>8, <2>9, <2>10 DEF FirstLap
<1> QED BY <1>6, <1>7, <1>8, <1>9, <1>10, <1>11, <1>12, <1>13, <1>14 DEF Next

LEMMA FirstLapFresh == FirstLap => FreshIds
BY DEF FirstLap, FreshIds, Beginning

\* The hypothesis of QueueInvariant holds until the identifiers wrap: the first
\* NumCids commands of a queue pair, 65536 in the code, get one each.
THEOREM FreshUntilWrap ==
    ASSUME MaxCmds <= NumCids
    PROVE  Spec => [](QueueInv /\ FreshIds)
<1>1. Init => QueueInv /\ FirstLap
    BY QueueInit, FirstLapInit
<1>2. QueueInv /\ FirstLap /\ [Next]_vars => FirstLap'
    BY FirstLapStep
<1>3. FirstLap => FreshIds
    BY FirstLapFresh
<1>4. QueueInv /\ FreshIds' /\ [Next]_vars => QueueInv'
    BY QueueStep
<1> QED BY <1>1, <1>2, <1>3, <1>4, PTL DEF Spec

-----------------------------------------------------------------------------
(* What the invariant says *)

\* The doorbell stands for the tail, and so does its distance from the device.
LEMMA WaitingIs ==
    ASSUME QueueInv
    PROVE  /\ Waiting = sq_tail - dev_fetched
           /\ sq_tail \in Nat /\ dev_fetched \in Nat /\ dev_fetched <= sq_tail
           /\ sq_tail - dev_fetched <= QS - 1
<1>1. TypeOK
    BY DEF QueueInv
<1>2. PICK et \in Nat, ec \in Nat, ac \in Nat, cr \in Nat, rh \in Nat : At(et, ec, ac, cr, rh)
    BY DEF QueueInv
<1>3. sq_tail \in Nat /\ dev_fetched \in Nat /\ sq_head \in Nat
    BY <1>1 DEF TypeOK
<1>4. dev_fetched <= sq_tail /\ sq_tail <= et /\ et <= sq_head + QS - 1 /\ sq_head <= dev_fetched
    BY <1>2, <1>3 DEF At, Order
<1>5. sq_tail < dev_fetched + QS /\ QS \in Nat \ {0}
    BY <1>3, <1>4, SizesAre
<1>6. ((sq_tail % QS) - dev_fetched) % QS = sq_tail - dev_fetched
    BY <1>3, <1>4, <1>5, WindowIs, Zenon
<1>7. sq_db = sq_tail % QS
    BY <1>2 DEF At, Order
<1> QED BY <1>3, <1>4, <1>5, <1>6, <1>7 DEF Waiting

LEMMA InvOrder == QueueInv => QueueOrder
<1> SUFFICES ASSUME QueueInv PROVE QueueOrder
    OBVIOUS
<1>1. TypeOK
    BY DEF QueueInv
<1>2. PICK et \in Nat, ec \in Nat, ac \in Nat, cr \in Nat, rh \in Nat : At(et, ec, ac, cr, rh)
    BY DEF QueueInv
<1>3. /\ Waiting = sq_tail - dev_fetched
      /\ sq_tail \in Nat /\ dev_fetched \in Nat
    BY WaitingIs
<1>4. et <= in_ticket
    BY <1>1, <1>2, IssuedBefore
<1>5. sq_head \in Nat /\ cq_head \in Nat /\ dev_posted \in Nat /\ in_ticket \in Nat
    BY <1>1 DEF TypeOK
<1>6. /\ sq_head <= rh /\ rh <= dev_fetched /\ sq_tail <= et /\ et <= sq_head + QS - 1
      /\ cq_head <= cr /\ cr <= ac /\ ac <= ec /\ ec <= dev_posted
    BY <1>2 DEF At, Order
<1>7. dev_posted <= dev_fetched
  <2>1. IsFiniteSet(executing) /\ Cardinality(executing) + dev_posted = dev_fetched
      BY <1>2 DEF At, PollInv, Device
  <2>2. Cardinality(executing) \in Nat
      BY <2>1, FS_CardinalityType
  <2> QED BY <1>3, <1>5, <2>1, <2>2
<1>8. sq_head <= dev_fetched /\ sq_tail <= in_ticket /\ cq_head <= dev_posted
    BY <1>3, <1>4, <1>5, <1>6
<1>9. sq_tail - sq_head <= QS - 1
    BY <1>3, <1>5, <1>6, SizesAre
<1>10. dev_fetched + Waiting = sq_tail
    BY <1>3
<1> QED BY <1>7, <1>8, <1>9, <1>10 DEF QueueOrder

LEMMA InvStays == QueueInv => CompletionStays
<1> SUFFICES ASSUME QueueInv, NEW t \in Threads, pc[t] \in {"poll", "scan", "dequeue"},
                    ticket[t] \in completed
             PROVE  \E p \in CqReleased .. CqReleased + CQS - 2 :
                        /\ cq[p % CQS].ticket = ticket[t]
                        /\ cq[p % CQS].phase = search_phase(p)
    BY DEF CompletionStays
<1>1. TypeOK
    BY DEF QueueInv
<1>2. PICK et \in Nat, ec \in Nat, ac \in Nat, cr \in Nat, rh \in Nat : At(et, ec, ac, cr, rh)
    BY DEF QueueInv
<1>3. cq_head \in Nat /\ dev_posted \in Nat
    BY <1>1 DEF TypeOK
<1>4. /\ cq_head <= cr /\ cr <= ac /\ ac <= ec /\ cr <= cq_head + CQS - 1
      /\ dev_posted <= cr + CQS - 1 /\ cq_db = cr % CQS
    BY <1>2 DEF At, Order
<1>5. CqReleased = cr
  <2>1. cr < cq_head + CQS /\ CQS \in Nat \ {0}
      BY <1>3, <1>4, SizesAre
  <2>2. ((cr % CQS) - cq_head) % CQS = cr - cq_head
      BY <1>3, <1>4, <2>1, WindowIs, Zenon
  <2> QED BY <1>3, <1>4, <2>2 DEF CqReleased
<1>6. PICK p \in Nat : ec <= p /\ p < dev_posted /\ cq[p % CQS].ticket = ticket[t]
    BY <1>2 DEF At, PollInv, Unconsumed, Holding, Consumed
<1>7. Posted(p)
    BY <1>3, <1>4, <1>6, SizesAre DEF Posted
<1>8. cq[p % CQS].phase = search_phase(p)
    BY <1>2, <1>7 DEF At, PollInv, Posts
<1>9. p \in cr .. cr + CQS - 2
    BY <1>3, <1>4, <1>6, SizesAre
<1> QED BY <1>5, <1>6, <1>8, <1>9

\* nvm_parallel_queue.h: positions, marks and doorbells stay within the queues
\* and every command the device fetches was written by a thread.
THEOREM QueueTypeOK == Spec /\ []FreshIds => []TypeOK
<1>1. QueueInv => TypeOK
    BY DEF QueueInv
<1> QED BY <1>1, QueueInvariant, PTL

\* move_tail, move_head_cq: the heads and tails of both queues stay in order
\* and the submission queue never holds more than QS - 1 commands, whichever
\* threads move them.
THEOREM PositionsInOrder == Spec /\ []FreshIds => []QueueOrder
BY QueueInvariant, InvOrder, PTL

\* cq_poll, cq_dequeue: a completion that its thread has not consumed is not
\* overwritten and is not passed by the head.
THEOREM CompletionsStay == Spec /\ []FreshIds => []CompletionStays
BY QueueInvariant, InvStays, PTL

\* All three without the hypothesis, for the first NumCids commands.
THEOREM FirstCommands ==
    ASSUME MaxCmds <= NumCids
    PROVE  Spec => [](TypeOK /\ QueueOrder /\ CompletionStays)
<1>1. QueueInv => TypeOK /\ QueueOrder /\ CompletionStays
    BY InvOrder, InvStays DEF QueueInv
<1> QED BY <1>1, FreshUntilWrap, PTL

-----------------------------------------------------------------------------
(* Refinement of QueuePairService *)

\* The commands between the device and the doorbell, by their tickets.
Ring == [i \in 1 .. Waiting |-> sq[(dev_fetched + i - 1) % QS].ticket]

Plain(from, to) == [i \in 1 .. to - from |-> from + i - 1]

LEMMA RingIs == QueueInv => Ring = Plain(dev_fetched, sq_tail) /\ dev_fetched + Waiting = sq_tail
<1> SUFFICES ASSUME QueueInv PROVE Ring = Plain(dev_fetched, sq_tail) /\ dev_fetched + Waiting = sq_tail
    OBVIOUS
<1>1. PICK et \in Nat, ec \in Nat, ac \in Nat, cr \in Nat, rh \in Nat : At(et, ec, ac, cr, rh)
    BY DEF QueueInv
<1>2. /\ Waiting = sq_tail - dev_fetched
      /\ sq_tail \in Nat /\ dev_fetched \in Nat
    BY WaitingIs
<1>3. rh <= dev_fetched /\ sq_tail <= et
    BY <1>1 DEF At, Order
<1>4. ASSUME NEW i \in 1 .. sq_tail - dev_fetched
      PROVE  sq[(dev_fetched + i - 1) % QS].ticket = dev_fetched + i - 1
  <2>1. PICK k \in Nat : k = dev_fetched + i - 1
      BY <1>2, <1>4
  <2>2. k < et /\ k >= rh
      BY <1>2, <1>3, <2>1
  <2>3. Filled(k)
      BY <1>1, <2>2 DEF At, SubmitInv, TailMarks
  <2> QED BY <1>1, <2>1, <2>2, <2>3 DEF At, SubmitInv, Written
<1>5. Ring = Plain(dev_fetched, sq_tail)
    BY <1>2, <1>4 DEF Ring, Plain
<1> QED BY <1>2, <1>5

LEMMA PlainSeq ==
    ASSUME NEW a \in Nat, NEW b \in Nat, a <= b
    PROVE  /\ Plain(a, b) \in Seq(Nat) /\ Len(Plain(a, b)) = b - a
           /\ \A i \in 1 .. b - a : Plain(a, b)[i] = a + i - 1
<1>1. b - a \in Nat
    OBVIOUS
<1>2. \A i \in 1 .. b - a : a + i - 1 \in Nat
    OBVIOUS
<1> QED BY <1>1, <1>2 DEF Plain

LEMMA PlainAppend ==
    ASSUME NEW a \in Nat, NEW b \in Nat, NEW c \in Nat, a <= b, b <= c
    PROVE  Plain(a, c) = Plain(a, b) \o Plain(b, c)
<1>1. PICK x \in Seq(Nat) : x = Plain(a, b) /\ Len(x) = b - a /\ \A i \in 1 .. b - a : x[i] = a + i - 1
    BY PlainSeq
<1>2. PICK y \in Seq(Nat) : y = Plain(b, c) /\ Len(y) = c - b /\ \A i \in 1 .. c - b : y[i] = b + i - 1
    BY PlainSeq
<1>3. PICK z \in Seq(Nat) : z = Plain(a, c) /\ Len(z) = c - a /\ \A i \in 1 .. c - a : z[i] = a + i - 1
  <2>1. a <= c
      OBVIOUS
  <2> QED BY <2>1, PlainSeq
<1>4. /\ x \o y \in Seq(Nat) /\ Len(x \o y) = Len(x) + Len(y)
      /\ \A i \in 1 .. Len(x) + Len(y) : (x \o y)[i] = IF i <= Len(x) THEN x[i] ELSE y[i - Len(x)]
    BY ConcatProperties, Zenon
<1>7. PICK w \in Seq(Nat) : w = x \o y
    BY <1>4
<1>8. /\ Len(w) = Len(x) + Len(y)
      /\ \A i \in 1 .. Len(x) + Len(y) : w[i] = IF i <= Len(x) THEN x[i] ELSE y[i - Len(x)]
    BY <1>4, <1>7, Zenon
<1>9. PICK m \in Nat, n \in Nat : m = b - a /\ n = c - b
    OBVIOUS
<1>10. c - a = m + n /\ a + m = b
    BY <1>9
<1>11. /\ Len(x) = m /\ \A i \in 1 .. m : x[i] = a + i - 1
       /\ Len(y) = n /\ \A i \in 1 .. n : y[i] = b + i - 1
       /\ Len(z) = m + n /\ \A i \in 1 .. m + n : z[i] = a + i - 1
    BY <1>1, <1>2, <1>3, <1>9, <1>10, Zenon
<1>5. ASSUME NEW i \in 1 .. m + n PROVE w[i] = z[i]
  <2>1. w[i] = IF i <= m THEN x[i] ELSE y[i - m]
      BY <1>8, <1>11
  <2>2. z[i] = a + i - 1
      BY <1>11
  <2>3. i <= m => x[i] = a + i - 1
    <3>1. i <= m => i \in 1 .. m
        OBVIOUS
    <3> QED BY <3>1, <1>11, Zenon
  <2>4. i > m => y[i - m] = a + i - 1
    <3>1. i > m => i - m \in 1 .. n
        OBVIOUS
    <3>2. b + (i - m) - 1 = a + i - 1
        BY <1>10
    <3>3. i > m => y[i - m] = b + (i - m) - 1
        BY <3>1, <1>11, Zenon
    <3> QED BY <3>2, <3>3
  <2>5. i <= m \/ i > m
      OBVIOUS
  <2>6. ~(i <= m /\ i > m)
      OBVIOUS
  <2> QED BY <2>1, <2>2, <2>3, <2>4, <2>5, <2>6, Zenon
<1>6. w = z
  <2>1. Len(w) = Len(z) /\ \A i \in 1 .. Len(w) : w[i] = z[i]
      BY <1>5, <1>8, <1>11
  <2> QED BY <2>1, SeqEqual
<1> QED BY <1>1, <1>2, <1>3, <1>6, <1>7, Zenon

LEMMA PlainTail ==
    ASSUME NEW a \in Nat, NEW b \in Nat, a < b
    PROVE  Plain(a, b) # << >> /\ Head(Plain(a, b)) = a /\ Tail(Plain(a, b)) = Plain(a + 1, b)
<1>1. PICK x \in Seq(Nat) : x = Plain(a, b) /\ Len(x) = b - a /\ \A i \in 1 .. b - a : x[i] = a + i - 1
    BY PlainSeq
<1>2. PICK z \in Seq(Nat) : z = Plain(a + 1, b) /\ Len(z) = b - a - 1 /\ \A i \in 1 .. b - a - 1 : z[i] = a + i
  <2>1. a + 1 \in Nat /\ a + 1 <= b
      OBVIOUS
  <2>2. /\ Plain(a + 1, b) \in Seq(Nat) /\ Len(Plain(a + 1, b)) = b - (a + 1)
        /\ \A i \in 1 .. b - (a + 1) : Plain(a + 1, b)[i] = (a + 1) + i - 1
      BY <2>1, PlainSeq
  <2>3. PICK z \in Seq(Nat) : z = Plain(a + 1, b)
      BY <2>2
  <2>4. Len(z) = b - a - 1 /\ \A i \in 1 .. b - a - 1 : z[i] = a + i
      BY <2>2, <2>3
  <2> QED BY <2>3, <2>4
<1>3. x # << >> /\ Head(x) = a
    BY <1>1
<1>4. Tail(x) \in Seq(Nat) /\ Len(Tail(x)) = b - a - 1 /\ \A i \in 1 .. b - a - 1 : Tail(x)[i] = x[i + 1]
    BY <1>1
<1>5. \A i \in 1 .. b - a - 1 : Tail(x)[i] = z[i]
    BY <1>1, <1>2, <1>4
<1>6. Tail(x) = z
  <2>1. PICK w \in Seq(Nat) : w = Tail(x)
      BY <1>4
  <2>2. Len(w) = Len(z) /\ \A i \in 1 .. Len(w) : w[i] = z[i]
      BY <1>2, <1>4, <1>5, <2>1
  <2>3. w = z
      BY <2>2, SeqEqual
  <2> QED BY <2>1, <2>3
<1> QED BY <1>1, <1>2, <1>3, <1>6

\* Steps that the service does not see.
LEMMA Unseen ==
    ASSUME QueueInv, QueueInv', Returned' = Returned,
           UNCHANGED <<sq_tail, dev_fetched, executing, completed>>
    PROVE  UNCHANGED Service!vars
<1>1. Ring = Plain(dev_fetched, sq_tail) /\ dev_fetched + Waiting = sq_tail
    BY RingIs
<1>2. QueueInv' => (Ring = Plain(dev_fetched, sq_tail) /\ dev_fetched + Waiting = sq_tail)'
    BY RingIs, PTL
<1>3. Ring' = Plain(dev_fetched', sq_tail') /\ (dev_fetched + Waiting)' = sq_tail'
    BY <1>2 DEF Plain
<1>4. Ring' = Ring /\ (dev_fetched + Waiting)' = dev_fetched + Waiting
    BY <1>1, <1>3
<1>5. {c.ticket : c \in executing}' = {c.ticket : c \in executing}
    OBVIOUS
<1> QED BY <1>4, <1>5 DEF Service!vars, Ring

\* What the service sees of two states of the queue pair.
LEMMA BothMapped ==
    ASSUME QueueInv, QueueInv'
    PROVE  /\ Ring = Plain(dev_fetched, sq_tail) /\ dev_fetched + Waiting = sq_tail
           /\ Ring' = Plain(dev_fetched', sq_tail') /\ (dev_fetched + Waiting)' = sq_tail'
<1>1. Ring = Plain(dev_fetched, sq_tail) /\ dev_fetched + Waiting = sq_tail
    BY RingIs
<1>2. QueueInv' => (Ring = Plain(dev_fetched, sq_tail) /\ dev_fetched + Waiting = sq_tail)'
    BY RingIs, PTL
<1>3. Ring' = Plain(dev_fetched', sq_tail') /\ (dev_fetched + Waiting)' = sq_tail'
    BY <1>2 DEF Plain
<1> QED BY <1>1, <1>3

LEMMA ReturnedSame ==
    ASSUME in_ticket' = in_ticket,
           \A u \in Threads : ~Holding(u)' <=> ~Holding(u),
           \A u \in Threads : Holding(u) => ticket'[u] = ticket[u]
    PROVE  Returned' = Returned
<1>1. \A k : (\A u \in Threads : ~Holding(u)' \/ ticket'[u] # k)
             <=> (\A u \in Threads : ~Holding(u) \/ ticket[u] # k)
    BY Zenon
<1>2. Returned = {k \in 0 .. in_ticket - 1 :
                    \A u \in Threads : ~Holding(u) \/ ticket[u] # k}
    BY DEF Returned
<1>3. Returned' = {k \in 0 .. in_ticket - 1 :
                     \A u \in Threads : ~Holding(u)' \/ ticket'[u] # k}
    BY DEF Returned
<1> QED BY <1>1, <1>2, <1>3, Zenon

\* The steps of a thread that neither take a ticket, ring the doorbell nor return.
LEMMA QuietForService ==
    ASSUME TypeOK, NEW t \in Threads, ThreadStep(t), ~TakeTicket(t), ~RingSq(t), ~Finish(t),
           ~LockCid(t), ~RetryCid(t)
    PROVE  UNCHANGED <<sq_tail, ticket>> /\ Holding(t) /\ Holding(t)'
<1> USE DEF goto, TypeOK, subVars, cplVars, memVars, devVars, Holding
<1>1. CASE Fill(t)
    BY <1>1 DEF Fill
<1>2. CASE SeeTailMark(t)
    BY <1>2 DEF SeeTailMark
<1>3. CASE LockTail(t)
    BY <1>3 DEF LockTail
<1>4. CASE move_tail(t)
    BY <1>4 DEF move_tail
<1>6. CASE LeaveSlot(t)
    BY <1>6 DEF LeaveSlot
<1>7. CASE LoadCqHead(t)
    BY <1>7 DEF LoadCqHead
<1>8. CASE cq_poll(t)
    BY <1>8 DEF cq_poll
<1>9. CASE MarkEntry(t)
    BY <1>9 DEF MarkEntry
<1>10. CASE SeeHeadMark(t)
    BY <1>10 DEF SeeHeadMark
<1>11. CASE LockHead(t)
    BY <1>11 DEF LockHead
<1>12. CASE move_head_cq(t)
    BY <1>12 DEF move_head_cq
<1>13. CASE ReleaseSlots(t)
    BY <1>13 DEF ReleaseSlots
<1>14. CASE MoveSqHead(t)
    BY <1>14 DEF MoveSqHead
<1>15. CASE RingCq(t)
    BY <1>15 DEF RingCq
<1>16. CASE StoreCqHead(t)
    BY <1>16 DEF StoreCqHead
<1> QED BY <1>1, <1>2, <1>3, <1>4, <1>6, <1>7, <1>8, <1>9, <1>10, <1>11, <1>12,
           <1>13, <1>14, <1>15, <1>16 DEF ThreadStep

LEMMA QuietStep ==
    ASSUME QueueInv, QueueInv', NEW t \in Threads, ThreadStep(t),
           ~TakeTicket(t), ~RingSq(t), ~Finish(t), ~LockCid(t), ~RetryCid(t)
    PROVE  UNCHANGED Service!vars
<1>1. TypeOK
    BY DEF QueueInv
<1>2. /\ UNCHANGED <<in_ticket, dev_fetched, executing, completed>>
      /\ \A u \in Threads : u # t => pc'[u] = pc[u] /\ ticket'[u] = ticket[u]
    BY <1>1, QuietForTakers
<1>3. UNCHANGED <<sq_tail, ticket>> /\ Holding(t) /\ Holding(t)'
    BY <1>1, QuietForService
<1>4. \A u \in Threads : (~Holding(u)' <=> ~Holding(u))
    BY <1>2, <1>3 DEF Holding
<1>6. Returned' = Returned
    BY <1>2, <1>3, <1>4, ReturnedSame
<1> QED BY <1>2, <1>3, <1>6, Unseen

LEMMA TakeTicketUnseen ==
    ASSUME QueueInv, QueueInv', NEW t \in Threads, TakeTicket(t)
    PROVE  UNCHANGED Service!vars
<1>1. TypeOK /\ Owners
    BY DEF QueueInv, Locals
<1>2. /\ pc[t] = "take_ticket" /\ pc'[t] = "fill" /\ ticket'[t] = in_ticket
      /\ in_ticket' = in_ticket + 1 /\ in_ticket \in Nat
      /\ UNCHANGED <<sq_tail, dev_fetched, executing, completed>>
      /\ \A u \in Threads : u # t => pc'[u] = pc[u] /\ ticket'[u] = ticket[u]
    BY <1>1 DEF TakeTicket, goto, TypeOK, devVars
<1>3. ASSUME NEW k \in 0 .. in_ticket - 1
      PROVE  (\A u \in Threads : ~Holding(u)' \/ ticket'[u] # k)
             <=> (\A u \in Threads : ~Holding(u) \/ ticket[u] # k)
  <2>1. k # in_ticket
      BY <1>2
  <2> QED BY <1>2, <2>1 DEF Holding
<1>4. ~ \A u \in Threads : ~Holding(u)' \/ ticket'[u] # in_ticket
    BY <1>2 DEF Holding
<1>5. 0 .. in_ticket' - 1 = (0 .. in_ticket - 1) \cup {in_ticket}
    BY <1>2
<1>6. Returned' = Returned
    BY <1>3, <1>4, <1>5 DEF Returned
<1> QED BY <1>2, <1>6, Unseen

LEMMA RingSqAnnounces ==
    ASSUME QueueInv, QueueInv', NEW t \in Threads, RingSq(t)
    PROVE  [Service!Next]_(Service!vars)
<1>1. TypeOK /\ Locals
    BY DEF QueueInv
<1>2. PICK et \in Nat, ec \in Nat, ac \in Nat, cr \in Nat, rh \in Nat : At(et, ec, ac, cr, rh)
    BY DEF QueueInv
<1>3. sq_tail' = et
    BY <1>1, <1>2, RingSqKeeps
<1>4. /\ UNCHANGED <<dev_fetched, executing, completed, in_ticket, ticket>>
      /\ pc[t] = "ring_sq" /\ pc'[t] = "tail_marked"
      /\ \A u \in Threads : u # t => pc'[u] = pc[u]
    BY <1>1 DEF RingSq, goto, TypeOK, devVars
<1>6. Returned' = Returned
    BY <1>4, ReturnedSame DEF Holding
<1>7. CASE et = sq_tail
    BY <1>3, <1>4, <1>6, <1>7, Unseen
<1>8. CASE et # sq_tail
  <2>1. /\ sq_tail \in Nat /\ dev_fetched \in Nat /\ sq_head \in Nat
        /\ dev_fetched <= sq_tail /\ sq_tail <= et /\ et <= sq_head + QS - 1 /\ sq_head <= dev_fetched
      BY <1>1, <1>2 DEF At, Order, TypeOK
  <2>2. PICK n \in Nat : n = et - sq_tail
      BY <2>1
  <2>3. n \in 1 .. QS - 1
      BY <1>8, <2>1, <2>2, SizesAre
  <2>4. /\ Ring = Plain(dev_fetched, sq_tail) /\ dev_fetched + Waiting = sq_tail
        /\ Ring' = Plain(dev_fetched', sq_tail') /\ (dev_fetched + Waiting)' = sq_tail'
      BY BothMapped
  <2>5. Len(Ring) + n <= QS - 1
    <3>1. Len(Ring) = sq_tail - dev_fetched
        BY <2>1, <2>4, PlainSeq
    <3> QED BY <2>1, <2>2, <3>1, SizesAre
  <2>6. Plain(dev_fetched, et) = Plain(dev_fetched, sq_tail) \o Plain(sq_tail, et)
    <3>1. PICK a \in Nat, b \in Nat : a = dev_fetched /\ b = sq_tail
        BY <2>1
    <3>2. a <= b /\ b <= et
        BY <2>1, <3>1
    <3>3. Plain(a, et) = Plain(a, b) \o Plain(b, et)
        BY <3>2, PlainAppend, ZenonT(60)
    <3> QED BY <3>1, <3>3, Zenon
  <2>7. Ring' = Ring \o [i \in 1 .. n |-> dev_fetched + Waiting + i - 1]
    <3>1. Plain(sq_tail, et) = [i \in 1 .. n |-> sq_tail + i - 1]
        BY <2>2, Zenon DEF Plain
    <3> QED BY <1>3, <1>4, <2>4, <2>6, <3>1, Zenon
  <2>8. (dev_fetched + Waiting)' = dev_fetched + Waiting + n
      BY <1>3, <2>1, <2>2, <2>4
  <2>9. {c.ticket : c \in executing}' = {c.ticket : c \in executing}
      BY <1>4
  <2>10. Service!Announce(n)
      BY <1>4, <1>6, <2>5, <2>7, <2>8, <2>9, Zenon DEF Service!Announce, Ring
  <2> QED BY <2>3, <2>10 DEF Service!Next
<1> QED BY <1>7, <1>8

LEMMA DeviceFetchFetches ==
    ASSUME QueueInv, QueueInv', DeviceFetch
    PROVE  Service!Fetch
<1>1. TypeOK /\ Locals
    BY DEF QueueInv
<1>2. PICK et \in Nat, ec \in Nat, ac \in Nat, cr \in Nat, rh \in Nat : At(et, ec, ac, cr, rh)
    BY DEF QueueInv
<1>3. dev_fetched < sq_tail /\ sq[dev_fetched % QS].ticket = dev_fetched
    BY <1>1, <1>2, DeviceFetchKeeps
<1>4. /\ UNCHANGED <<sq_tail, completed, pc, ticket, in_ticket>>
      /\ dev_fetched' = dev_fetched + 1
      /\ executing' = executing \cup {sq[dev_fetched % QS]}
      /\ dev_fetched \in Nat /\ sq_tail \in Nat
    BY <1>1 DEF DeviceFetch, TypeOK, locals, subVars
<1>5. Returned' = Returned
    BY <1>4 DEF Returned, Holding
<1>6. /\ Ring = Plain(dev_fetched, sq_tail) /\ dev_fetched + Waiting = sq_tail
      /\ Ring' = Plain(dev_fetched', sq_tail') /\ (dev_fetched + Waiting)' = sq_tail'
    BY BothMapped
<1>7. Ring # << >> /\ Head(Ring) = dev_fetched /\ Ring' = Tail(Ring)
  <2>1. /\ Plain(dev_fetched, sq_tail) # << >> /\ Head(Plain(dev_fetched, sq_tail)) = dev_fetched
        /\ Tail(Plain(dev_fetched, sq_tail)) = Plain(dev_fetched + 1, sq_tail)
      BY <1>3, <1>4, PlainTail
  <2> QED BY <1>4, <1>6, <2>1
<1>8. (dev_fetched + Waiting)' = dev_fetched + Waiting
    BY <1>4, <1>6
<1>9. {c.ticket : c \in executing}' = {c.ticket : c \in executing} \cup {Head(Ring)}
    BY <1>3, <1>4, <1>7
<1> QED BY <1>4, <1>5, <1>7, <1>8, <1>9, Zenon DEF Service!Fetch, Ring

LEMMA DeviceCompleteCompletes ==
    ASSUME QueueInv, QueueInv', NEW c \in executing, DeviceComplete(c)
    PROVE  Service!Complete(c.ticket)
<1>1. \A d \in executing : d.ticket = c.ticket => d = c
    BY DEF QueueInv, At, PollInv, Device
<1>2. /\ UNCHANGED <<sq_tail, dev_fetched, pc, ticket, in_ticket>>
      /\ executing' = executing \ {c}
      /\ completed' = completed \cup {c.ticket}
    BY DEF DeviceComplete, locals, subVars
<1>3. Returned' = Returned
    BY <1>2 DEF Returned, Holding
<1>4. Ring' = Ring /\ (dev_fetched + Waiting)' = dev_fetched + Waiting
    BY <1>2, BothMapped
<1>5. {d.ticket : d \in executing}' = {d.ticket : d \in executing} \ {c.ticket}
    BY <1>1, <1>2
<1>6. c.ticket \in {d.ticket : d \in executing}
    OBVIOUS
<1> QED BY <1>2, <1>3, <1>4, <1>5, <1>6, Zenon DEF Service!Complete, Ring

LEMMA FinishReturns ==
    ASSUME QueueInv, QueueInv', NEW t \in Threads, Finish(t)
    PROVE  ticket[t] \in completed /\ Service!Return(ticket[t])
<1>1. TypeOK /\ Owners
    BY DEF QueueInv, Locals
<1>2. PICK et \in Nat, ec \in Nat, ac \in Nat, cr \in Nat, rh \in Nat : At(et, ec, ac, cr, rh)
    BY DEF QueueInv
<1>3. /\ UNCHANGED <<sq_tail, dev_fetched, executing, completed, in_ticket>>
      /\ pc[t] = "head_marked" /\ pc'[t] = "idle"
      /\ \A u \in Threads : u # t => pc'[u] = pc[u] /\ ticket'[u] = ticket[u]
    BY <1>1 DEF Finish, goto, TypeOK, devVars
<1>4. ticket[t] \in completed
    BY <1>2, <1>3 DEF At, PollInv, HeadMarks, Consumed
<1>5. ticket[t] \in Nat /\ in_ticket \in Nat /\ ticket[t] < in_ticket
    BY <1>1, <1>3 DEF Owners, Holding, TypeOK
<1>6. \A u \in Threads : Holding(u) /\ ticket[u] = ticket[t] => u = t
    BY <1>1, <1>3 DEF Owners, Holding
<1>7. ticket[t] \notin Returned
    BY <1>3 DEF Returned, Holding
<1>8. \A k : (\A u \in Threads : ~Holding(u)' \/ ticket'[u] # k)
             <=> (k = ticket[t] \/ \A u \in Threads : ~Holding(u) \/ ticket[u] # k)
    BY <1>3, <1>6 DEF Holding
<1>9. ticket[t] \in 0 .. in_ticket - 1
    BY <1>5
<1>10. Returned' = Returned \cup {ticket[t]}
    BY <1>3, <1>8, <1>9 DEF Returned
<1>11. Ring' = Ring /\ (dev_fetched + Waiting)' = dev_fetched + Waiting
    BY <1>3, BothMapped
<1>12. {c.ticket : c \in executing}' = {c.ticket : c \in executing}
    BY <1>3
<1> QED BY <1>3, <1>4, <1>7, <1>10, <1>11, <1>12, Zenon DEF Service!Return, Ring

LEMMA CidStepUnseen ==
    ASSUME QueueInv, QueueInv', NEW t \in Threads, IssueCmd(t) \/ RetryCid(t) \/ LockCid(t)
    PROVE  UNCHANGED Service!vars
<1>1. TypeOK
    BY DEF QueueInv
<1>2. /\ UNCHANGED <<sq_tail, dev_fetched, executing, completed, in_ticket, ticket>>
      /\ ~Holding(t) /\ ~Holding(t)'
      /\ \A u \in Threads : u # t => pc'[u] = pc[u]
    BY <1>1 DEF IssueCmd, RetryCid, LockCid, TakeCid, goto, TypeOK, devVars, Holding
<1>3. \A u \in Threads : Holding(u)' <=> Holding(u)
    BY <1>2 DEF Holding
<1>4. Returned' = Returned
    BY <1>2, <1>3, ReturnedSame
<1> QED BY <1>2, <1>4, Unseen

LEMMA ServiceInit == Init => Service!Init
<1> SUFFICES ASSUME Init PROVE Service!Init
    OBVIOUS
<1>1. QueueInv
    BY QueueInit
<1>2. Ring = Plain(dev_fetched, sq_tail) /\ dev_fetched + Waiting = sq_tail
    BY <1>1, RingIs
<1>3. dev_fetched = 0 /\ sq_tail = 0 /\ executing = {} /\ completed = {} /\ in_ticket = 0
    BY DEF Init
<1>4. Ring = << >>
    BY <1>2, <1>3 DEF Plain
<1>5. Returned = {}
    BY <1>3 DEF Returned
<1> QED BY <1>2, <1>3, <1>4, <1>5 DEF Service!Init, Ring

LEMMA ServiceStep == QueueInv /\ QueueInv' /\ [Next]_vars => [Service!Next]_(Service!vars)
<1> SUFFICES ASSUME QueueInv, QueueInv', [Next]_vars PROVE [Service!Next]_(Service!vars)
    OBVIOUS
<1>1. CASE UNCHANGED vars
  <2>1. UNCHANGED <<sq_tail, dev_fetched, executing, completed, pc, ticket, in_ticket>>
      BY <1>1 DEF vars, locals, subVars, devVars
  <2>2. Returned' = Returned
      BY <2>1 DEF Returned, Holding
  <2> QED BY <2>1, <2>2, Unseen
<1>2. CASE DeviceFetch
    BY <1>2, DeviceFetchFetches DEF Service!Next
<1>3. ASSUME NEW c \in executing, DeviceComplete(c) PROVE Service!Next
  <2>1. Service!Complete(c.ticket)
      BY <1>3, DeviceCompleteCompletes
  <2>2. c.ticket \in {d.ticket : d \in executing}
      OBVIOUS
  <2> QED BY <2>1, <2>2 DEF Service!Next
<1>4. ASSUME NEW t \in Threads, IssueCmd(t) PROVE UNCHANGED Service!vars
    BY <1>4, CidStepUnseen
<1>5. ASSUME NEW t \in Threads, ThreadStep(t) PROVE [Service!Next]_(Service!vars)
  <2>1. CASE TakeTicket(t)
      BY <2>1, TakeTicketUnseen
  <2>2. CASE RingSq(t)
      BY <2>2, RingSqAnnounces
  <2>3. CASE Finish(t)
    <3>1. ticket[t] \in completed /\ Service!Return(ticket[t])
        BY <2>3, FinishReturns
    <3> QED BY <3>1 DEF Service!Next
  <2>4. CASE LockCid(t) \/ RetryCid(t)
      BY <2>4, CidStepUnseen
  <2>5. CASE ~TakeTicket(t) /\ ~RingSq(t) /\ ~Finish(t) /\ ~LockCid(t) /\ ~RetryCid(t)
      BY <1>5, <2>5, QuietStep
  <2> QED BY <2>1, <2>2, <2>3, <2>4, <2>5
<1>6. CASE Done
    BY <1>1, <1>6 DEF Done
<1> QED BY <1>1, <1>2, <1>3, <1>4, <1>5, <1>6 DEF Next

\* nvm_parallel_queue.h as the threads see it: the doorbell announces commands
\* in ticket order and never more than QS - 1 of them, the device fetches each
\* once and unharmed, and a thread returns from poll only after the device has
\* completed that thread's own command.
THEOREM QueueImplementsService == Spec /\ []FreshIds => ImplementsService
<1>1. Init => Service!Init
    BY ServiceInit
<1>2. QueueInv /\ QueueInv' /\ [Next]_vars => [Service!Next]_(Service!vars)
    BY ServiceStep
<1> QED BY <1>1, <1>2, QueueInvariant, PTL DEF Spec, ImplementsService, Service!Spec

\* The same without the hypothesis, for the first NumCids commands.
THEOREM FirstCommandsServed ==
    ASSUME MaxCmds <= NumCids
    PROVE  Spec => ImplementsService
<1>1. Spec => []FreshIds
    BY FreshUntilWrap, PTL
<1> QED BY <1>1, QueueImplementsService, PTL
=============================================================================
